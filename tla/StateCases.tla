------------------------------ MODULE StateCases ------------------------------
(* The inputs on which SessionCookies and ObjectRequests are checked.       *)
EXTENDS Integers, Sequences, TLC

SC == INSTANCE SessionCookies
OR == INSTANCE ObjectRequests

StateTopics == {"cookie", "csrf", "csrf page", "bearer", "bucket", "upload", "rules", "signature", "link"}

-----------------------------------------------------------------------------
CookieOptions ==
  [name: {SC!Absent, "sid", "a b"}, path: {SC!Absent, "/app", "a;b"}, domain: {SC!Absent, "d"},
   sameSite: {SC!Absent, "none"}, secure: BOOLEAN, priority: {SC!Absent, "low"},
   maxAge: {SC!NoAge, 0, 5}, httpOnly: {TRUE}]
Sessions == [id: {"i", "50%", "a;b"}, expiresAt: {1, 9}]
OtherCookie ==
  [name |-> "theme", raw |-> "x", domain |-> SC!Absent, path |-> "/", maxAge |-> SC!NoAge,
   expires |-> SC!NoAge, secure |-> FALSE, httpOnly |-> FALSE]

Pairs == [name: {"csrf", "sid"}, raw: {"t", "50%25", ""}]
CsrfRequests(cookies, tokens, origins) ==
  [method: {"GET", "POST"}, cookies: cookies, token: tokens, origin: origins,
   urlOrigin: {"o1"}, secFetchSite: {SC!Absent, "same-origin", "cross-site"}]
CsrfOptions ==
  [cookieName: {SC!Absent, "xs"}, requireOrigin: BOOLEAN, allowedOrigins: {{}, {"o2"}}]

Headers == [scheme: {SC!Absent, "bearer", "basic"}, token: {"", "tok", "tik", "tak"}]
Verified == ("tok" :> [roles |-> {"admin"}, permissions |-> {"read"}])
              @@ ("tik" :> [roles |-> {}, permissions |-> {"read"}])

-----------------------------------------------------------------------------
KeyPaths == UNION {[1..n -> {"a", ".", "", ".."}] : n \in 1..3}
Type(type, subtype) == [type |-> type, subtype |-> subtype]
Png == Type("image", "png")
Clients ==
  [namespace: {OR!Absent, "ns"}, maxSizeBytes: {OR!Unlimited, 2}, allowedContentTypes: {{}, {Png}}]
Blobs == [size: {0, 2, 3}, blobType: {OR!AbsentType, Png}]
PutOptions ==
  [contentType: {OR!AbsentType, Png, Type("text", ""), Type("text", "plain")},
   maxSizeBytes: {OR!Unlimited, 3}, metadata: {<<>>, ("UserId" :> "7")}]
Rules ==
  [maxSizeBytes: {OR!Unlimited, 2}, extensions: {{}, {"png"}}, required: {{}, {"UserId"}},
   contentTypes: {{}, {Type("image", "*")}, {Type("*", "*")}, {Png, Type("text", "plain")}},
   maxMetadataKeys: {0, 1}]
Candidates ==
  [key: {<<"a">>, <<"">>}, size: {2, 3}, contentType: {OR!AbsentType, Png, Type("text", "html")},
   extension: {"png", ""}, metadata: {<<>>, ("UserId" :> "7")}]
Configs == [pathStyle: BOOLEAN, bucket: {"b"}, endpoint: {"e"}, sessionToken: BOOLEAN]
Signed ==
  [key: {<<"a">>, <<"a", "b">>, <<"b", "a">>}, query: {<<>>},
   headers: {{}, {"x-amz-meta-userid", "content-type"}}]

StateInputsOf(topic) ==
  CASE topic = "cookie" -> CookieOptions
    [] topic = "csrf" -> CsrfRequests({<<>>} \cup {<<p>> : p \in Pairs} \cup Pairs \X Pairs,
                                      {SC!Absent, "", "t", "50%"}, {SC!Absent, "o1", "o2"})
    [] topic = "csrf page" -> {o \in CookieOptions : o.domain = SC!Absent /\ o.priority = SC!Absent}
    [] topic = "bearer" -> Headers
    [] topic = "bucket" -> KeyPaths
    [] topic = "upload" -> PutOptions
    [] topic = "rules" -> Rules
    [] topic = "signature" -> Configs
    [] topic = "link" -> -1..10

-----------------------------------------------------------------------------
(* A session finds its cookie again, an object its key and its bucket.      *)
StateLosesNothing(topic, input) ==
  CASE topic = "cookie" -> \A s \in Sessions, others \in {{}, {OtherCookie}} :
                             SC!CookieComesBack(s, input, others, 3)
    [] topic = "bucket" -> \A namespace \in {OR!Absent, "ns"}, bucket \in {"b1", "b2"}, key \in KeyPaths :
                             OR!BucketsAreSeparate(namespace, "b1", input, bucket, key)
    [] topic = "upload" -> \A c \in Clients, key \in {<<"a">>, <<"a", "..">>}, body \in Blobs :
                             OR!AcceptedComesBack(c, key, body, input)
    [] OTHER -> TRUE

(* Uploads keep to the rules, signed links to their time.                   *)
StateKeepsLimits(topic, input) ==
  CASE topic = "rules" -> \A c \in Candidates : OR!UploadBreaksNoRule(input, c)
    [] topic = "link" -> OR!SignedLinkLives(input)
    [] OTHER -> TRUE

(* Tokens let in whom they are for, and a signature covers what it signs.   *)
StateKeepsSecrets(topic, input) ==
  CASE topic = "csrf" -> \A o \in CsrfOptions : SC!CsrfNeedsTheToken(input, o)
    [] topic = "csrf page" ->
         \A r \in CsrfRequests({<<>>}, {SC!Absent}, {SC!Absent}), o \in CsrfOptions,
            token \in {"t", "50%", "a;b", ""} : SC!CsrfAcceptsOwnPage(r, o, token, input)
    [] topic = "bearer" ->
         \A role \in {"admin", "user"}, permission \in {"read", "write"} :
           SC!LetInByToken(input, "bearer", Verified, role, permission)
    [] topic = "signature" -> \A i, j \in Signed : OR!SignatureCovers(input, i, j)
    [] OTHER -> TRUE
=============================================================================
