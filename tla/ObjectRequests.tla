--------------------------- MODULE ObjectRequests ---------------------------
(***************************************************************************)
(* What packages/state/storage/mod.ts makes of keys, buckets and uploads    *)
(* before a store sees them, what each store gives back of an object, and   *)
(* the requests the S3 store signs.                                         *)
(*                                                                          *)
(* A key is the sequence of the segments between its slashes, so that "a/b" *)
(* is <<"a", "b">>, "/a" is <<"", "a">> and the empty string is <<"">>.     *)
(***************************************************************************)
EXTENDS Integers, SequencesExt, FiniteSetsExt

InvalidKey == <<"STORAGE_INVALID_KEY">>
Absent == "absent"
Unlimited == -1
Error(code) == [error |-> code]
IsError(answer) == "error" \in DOMAIN answer

-----------------------------------------------------------------------------
(* normalizeStorageKey: leading "./" goes, repeated slashes become one, and *)
(* at last the segments "." go.                                             *)
WithoutLeadingDots(key) ==
  SubSeq(key, Min({i \in DOMAIN key : key[i] # "." \/ i = Len(key)}), Len(key))

OneSlash(key) ==
  LET at == SetToSortSeq({i \in DOMAIN key : key[i] # "" \/ i \in {1, Len(key)}}, <) IN
    [n \in DOMAIN at |-> key[at[n]]]

AsString(segments) == IF segments = <<>> THEN <<"">> ELSE segments

NormalizeStorageKey(key) ==
  LET short == OneSlash(WithoutLeadingDots(key)) IN
    IF Head(key) = "" \/ short = <<"">> \/ ".." \in ToSet(short) THEN InvalidKey
    ELSE AsString(SelectSeq(short, LAMBDA s : s # "."))

NormalizeOptionalStorageKey(key) == IF key = <<"">> THEN key ELSE NormalizeStorageKey(key)

(* joinStorageKey: each part by itself, empty ones left out, then the whole. *)
JoinStorageKey(parts) ==
  LET given  == SelectSeq(parts, LAMBDA p : p # <<"">>)
      normal == [i \in DOMAIN given |-> NormalizeStorageKey(given[i])]
  IN  IF InvalidKey \in ToSet(normal) THEN InvalidKey
      ELSE NormalizeStorageKey(AsString(FlattenSeq(normal)))

(* createStorageBucket: the key and the prefix it hands to its client; the  *)
(* client puts its own namespace before them.                               *)
BucketKey(bucket, key) == JoinStorageKey(<<<<bucket>>, key>>)
ClientKey(namespace, key) ==
  IF namespace = Absent THEN NormalizeStorageKey(key) ELSE JoinStorageKey(<<<<namespace>>, key>>)
ListOptions(namespace, prefix) ==
  LET p == NormalizeOptionalStorageKey(prefix) IN
    IF namespace = Absent \/ p = InvalidKey THEN p ELSE JoinStorageKey(<<<<namespace>>, p>>)

(* matchesPrefix: whole segments only.                                      *)
MatchesPrefix(key, prefix) == prefix = <<"">> \/ IsPrefix(prefix, key)

-----------------------------------------------------------------------------
(* normalizeContentType: type/subtype in lower case, without parameters.    *)
InvalidType == [type |-> "STORAGE_INVALID_CONTENT_TYPE", subtype |-> ""]
AbsentType == [type |-> Absent, subtype |-> ""]
NormalizeContentType(t) ==
  IF t = AbsentType THEN t
  ELSE IF t.type = "" \/ t.subtype \in {"", "plain; charset=utf-8"} THEN InvalidType
  ELSE t

(* validateMaxSize and validateAllowedContentType; the empty set of types   *)
(* stands for an option that is not given, here and in the validator.       *)
FitsSize(size, max) == max = Unlimited \/ size <= max
AllowedContentType(t, allowed) == allowed = {} \/ t \in allowed

(* createStorageObject and RootwareStorageClient.put, up to the store: the  *)
(* object, or the code of the error.  A Blob brings a type of its own.      *)
CreateStorageObject(key, body, o) ==
  [key |-> NormalizeStorageKey(key), size |-> body.size,
   contentType |-> NormalizeContentType(IF o.contentType # AbsentType THEN o.contentType
                                        ELSE body.blobType),
   metadata |-> o.metadata]

Accepted(object, max, allowed) ==
  IF object.key = InvalidKey THEN Error("STORAGE_INVALID_KEY")
  ELSE IF object.contentType = InvalidType THEN Error("STORAGE_INVALID_CONTENT_TYPE")
  ELSE IF ~FitsSize(object.size, max) THEN Error("STORAGE_MAX_SIZE_EXCEEDED")
  ELSE IF ~AllowedContentType(object.contentType, allowed)
  THEN Error("STORAGE_INVALID_CONTENT_TYPE")
  ELSE object
Put(client, key, body, o) ==
  Accepted(CreateStorageObject(ClientKey(client.namespace, key), body, o),
           IF o.maxSizeBytes # Unlimited THEN o.maxSizeBytes ELSE client.maxSizeBytes,
           client.allowedContentTypes)

-----------------------------------------------------------------------------
(* createUploadValidator: matchesContentType, extensionOf and               *)
(* validateUploadMetadata.  A pattern's subtype may be "*".                 *)

MatchesContentType(t, patterns) ==
  \E p \in patterns :
    \/ p.type = "*"
    \/ p.subtype = "*" /\ p.type = t.type
    \/ p = t

ValidateUpload(rules, candidate) ==
  IF NormalizeStorageKey(candidate.key) = InvalidKey THEN "STORAGE_INVALID_KEY"
  ELSE IF ~FitsSize(candidate.size, rules.maxSizeBytes) THEN "STORAGE_MAX_SIZE_EXCEEDED"
  ELSE IF /\ rules.contentTypes # {}
          /\ \/ candidate.contentType = AbsentType
             \/ ~MatchesContentType(candidate.contentType, rules.contentTypes)
  THEN "STORAGE_INVALID_CONTENT_TYPE"
  ELSE IF rules.extensions # {} /\ candidate.extension \notin rules.extensions
  THEN "STORAGE_INVALID_EXTENSION"
  ELSE IF \/ ~(rules.required \subseteq DOMAIN candidate.metadata)
          \/ Cardinality(DOMAIN candidate.metadata) > rules.maxMetadataKeys
  THEN "STORAGE_INVALID_METADATA"
  ELSE "ok"

-----------------------------------------------------------------------------
(* What a store keeps of an object and gives back: the memory store clones  *)
(* the record, the local one writes it as JSON, and S3 keeps the metadata   *)
(* under header names, which are in lower case.                             *)
Lower(name) == IF name = "UserId" THEN "userid" ELSE name

ReadAmzMetadata(object) ==
  [object EXCEPT !.metadata =
     [n \in {Lower(m) : m \in DOMAIN @} |-> @[CHOOSE m \in DOMAIN @ : Lower(m) = n]]]

GivenBack(store, object) ==
  IF store = "s3" THEN ReadAmzMetadata(object) ELSE object

-----------------------------------------------------------------------------
(* buildS3Target and signS3Request: what is sent, and what the signature    *)
(* was computed over.                                                       *)
S3Target(config, key) ==
  IF config.pathStyle
  THEN [host |-> config.endpoint, path |-> <<config.bucket>> \o key]
  ELSE [host |-> <<config.bucket, config.endpoint>>, path |-> key]

Headers(config, input) ==
  input.headers \cup {"host", "x-amz-date", "x-amz-content-sha256"}
    \cup (IF config.sessionToken THEN {"x-amz-security-token"} ELSE {})

SignS3Request(config, input) ==
  [target |-> S3Target(config, input.key), query |-> input.query,
   signed |-> Headers(config, input),
   sent |-> Headers(config, input) \cup {"authorization"}]

(* S3 wants the host and every x-amz- header of a request to be signed.     *)
MustBeSigned == {"host", "x-amz-date", "x-amz-content-sha256", "x-amz-security-token",
                 "x-amz-meta-userid"}

(* resolveSignUrlOptions and presignS3Url, in halves of a second: the real  *)
(* limits are 0 and seven days.  An expiry it refuses gives 0.              *)
MaxSignedUrlExpiry == 8
PresignS3Url(expiresIn) ==
  IF expiresIn <= 0 \/ expiresIn > MaxSignedUrlExpiry THEN 0
  ELSE LET seconds == (expiresIn + 1) \div 2 IN IF seconds < 1 THEN 1 ELSE seconds

-----------------------------------------------------------------------------
(* Buckets are separate: keys of two buckets never meet, and a listing of a *)
(* bucket holds exactly its own keys, under any namespace.                  *)
BucketsAreSeparate(namespace, b1, key1, b2, key2) ==
  \A full1 \in {ClientKey(namespace, BucketKey(b1, key1))},
     full2 \in {ClientKey(namespace, BucketKey(b2, key2))},
     prefix \in {ListOptions(namespace, BucketKey(b1, <<"">>))} :
    InvalidKey \notin {full1, full2} =>
      /\ full1 = full2 => b1 = b2
      /\ MatchesPrefix(full1, prefix)
      /\ MatchesPrefix(full2, prefix) => b1 = b2

(* What put accepted is within the limits of client and call, and comes     *)
(* back from each store with its key, size and type; the local and memory   *)
(* stores keep the metadata as it was.                                      *)
AcceptedComesBack(client, key, body, o) ==
  \A object \in {Put(client, key, body, o)} :
    ~IsError(object) =>
      /\ FitsSize(object.size, client.maxSizeBytes) \/ o.maxSizeBytes # Unlimited
      /\ \A store \in {"memory", "local", "s3"} :
           LET back == GivenBack(store, object) IN
             /\ [back EXCEPT !.metadata = object.metadata] = object
             /\ store # "s3" => back = object

(* A candidate passes the validator exactly when it breaks none of its      *)
(* rules, taken one by one.                                                 *)
UploadBreaksNoRule(rules, candidate) ==
  LET any == [maxSizeBytes |-> Unlimited, contentTypes |-> {}, extensions |-> {},
              required |-> {},
              maxMetadataKeys |-> Cardinality(DOMAIN candidate.metadata)]
      only(field) == [any EXCEPT ![field] = rules[field]]
  IN  /\ ValidateUpload(rules, candidate) = "ok"
           <=> \A field \in DOMAIN rules : ValidateUpload(only(field), candidate) = "ok"
      /\ ValidateUpload(rules, candidate) = "ok" /\ rules.contentTypes # {}
           => \E p \in rules.contentTypes : p.type \in {"*", candidate.contentType.type}

(* Whatever S3 insists on is signed, and objects of different keys are at   *)
(* different places, in either style of address.                            *)
SignatureCovers(config, input, other) ==
  LET r == SignS3Request(config, input) IN
    /\ r.sent \cap MustBeSigned \subseteq r.signed
    /\ r.target = SignS3Request(config, other).target => input.key = other.key

(* A signed link lives as long as it was asked to, to the nearest second.   *)
SignedLinkLives(expiresIn) ==
  LET seconds == PresignS3Url(expiresIn) IN
    expiresIn \in 1 .. MaxSignedUrlExpiry =>
      2 * seconds - expiresIn \in -1 .. 1 /\ seconds >= 1
=============================================================================
