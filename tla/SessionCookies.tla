--------------------------- MODULE SessionCookies ---------------------------
(***************************************************************************)
(* Between packages/state/session/mod.ts and a browser: the cookies that    *)
(* carry a session id or a CSRF token, the check of that token, and the     *)
(* providers that turn a request into an actor.  Strings are members of     *)
(* small sets; cookie values are chosen for what encoding does to them.     *)
(***************************************************************************)
EXTENDS Integers, SequencesExt, FiniteSetsExt

Absent == "absent"      \* an option or a header that is not there
NoAge == -1             \* no maxAgeSeconds, no expiry
NoCookie == [name |-> Absent]

-----------------------------------------------------------------------------
(* isValidCookieName, validateCookieAttribute, hasHeaderUnsafeCharacter.    *)
IsValidCookieName(name) == name \notin {"", "a b", "a;b"}
HasHeaderUnsafeCharacter(value) == value = "line break"
ValidateCookieAttribute(value) == value \notin {"", "a;b", "line break"}
ValidateSameSite(s) == s \in {"strict", "lax", "none"}
ValidateCookieSecurity(o) == o.sameSite = "none" => o.secure
ValidatePriority(p) == p \in {Absent, "low", "medium", "high"}

Or(value, default) == IF value = Absent THEN default ELSE value

(* normalizeCookieOptions: the defaults, and what they must satisfy.        *)
NormalizeCookieOptions(o) ==
  [o EXCEPT !.name = Or(@, "sid"), !.path = Or(@, "/"), !.sameSite = Or(@, "lax")]

ValidCookieOptions(o) ==
  /\ IsValidCookieName(o.name) /\ ValidateCookieAttribute(o.path)
  /\ ValidateCookieAttribute(o.domain)
  /\ ValidateSameSite(o.sameSite) /\ ValidateCookieSecurity(o)
  /\ ValidatePriority(o.priority)

(* encodeURIComponent, and safeDecodeURIComponent, which leaves what it     *)
(* cannot decode.                                                           *)
Encode(value) == CASE value = "50%" -> "50%25" [] value = "a;b" -> "a%3Bb" [] OTHER -> value
SafeDecode(raw) == CASE raw = "50%25" -> "50%" [] raw = "a%3Bb" -> "a;b" [] OTHER -> raw

-----------------------------------------------------------------------------

(* serializeCookie; a cookie it refuses is NoCookie.                        *)
SerializeCookie(name, value, o, expires) ==
  IF IsValidCookieName(name) /\ ~HasHeaderUnsafeCharacter(value) /\ ValidCookieOptions(o)
  THEN [name |-> name, raw |-> Encode(value), domain |-> o.domain, path |-> o.path,
        maxAge |-> o.maxAge, expires |-> expires, secure |-> o.secure,
        httpOnly |-> o.httpOnly]
  ELSE NoCookie

(* createSetCookieHeader: the session's own expiry goes beside maxAge.      *)
CreateSetCookieHeader(session, options) ==
  LET o == NormalizeCookieOptions(options) IN
    SerializeCookie(o.name, session.id, o, session.expiresAt)

(* createClearCookieHeader: the same name, domain and path, already expired. *)
CreateClearCookieHeader(options) ==
  LET o == NormalizeCookieOptions(options) IN
    SerializeCookie(o.name, "", [o EXCEPT !.maxAge = 0], 0)

(* createCsrfCookieHeader: script has to read it.                           *)
CreateCsrfCookieHeader(token, options) ==
  LET o == NormalizeCookieOptions(options) IN
    SerializeCookie(Or(options.name, "csrf"), token, [o EXCEPT !.httpOnly = FALSE], NoAge)

(* parseCookieHeader, of the pairs a Cookie header is split into: a later   *)
(* pair of the same name wins.                                              *)
ParseCookieHeader(pairs, name) ==
  LET valid == SelectSeq(pairs, LAMBDA p :
        p.name = name /\ IsValidCookieName(p.name) /\ ~HasHeaderUnsafeCharacter(p.raw))
  IN  IF valid = <<>> THEN Absent ELSE SafeDecode(Last(valid).raw)

GetCookie(pairs, name) == ParseCookieHeader(pairs, name)

-----------------------------------------------------------------------------
(* A browser keeps one cookie for a name, domain and path.  A pair whose    *)
(* value holds a semicolon would fall apart in the header.                  *)
SameSlot(a, b) == a.name = b.name /\ a.domain = b.domain /\ a.path = b.path
Expired(cookie, now) ==
  IF cookie.maxAge # NoAge THEN cookie.maxAge = 0
  ELSE cookie.expires # NoAge /\ cookie.expires <= now

Receive(jar, cookie, now) ==
  IF cookie = NoCookie THEN jar
  ELSE {c \in jar : ~SameSlot(c, cookie)} \cup (IF Expired(cookie, now) THEN {} ELSE {cookie})

CookieHeader(jar) ==
  SetToSeq({[name |-> c.name, raw |-> IF c.raw = "a;b" THEN "a" ELSE c.raw] : c \in jar})

-----------------------------------------------------------------------------
(* isSameOriginRequest *)
IsSameOriginRequest(request, allowedOrigins) ==
  /\ request.secFetchSite # "cross-site"
  /\ \/ request.origin = Absent
     \/ request.origin \in allowedOrigins
     \/ request.origin = request.urlOrigin

Mut_VerifyCsrfComparesPresence(request, o) ==
  LET token == ParseCookieHeader(request.cookies, Or(o.cookieName, "csrf")) IN
    IF request.method \in {"GET", "HEAD", "OPTIONS"} THEN "ok"
    ELSE IF Absent \in {token, request.token} THEN "missing-token" ELSE "ok"

(* verifyCsrf; upper-casing the method makes it one of a few.               *)
VerifyCsrf(request, o) ==
  LET token == ParseCookieHeader(request.cookies, Or(o.cookieName, "csrf")) IN
    CASE request.method \in {"GET", "HEAD", "OPTIONS"} -> "ok"
      [] /\ request.method \notin {"GET", "HEAD", "OPTIONS"}
         /\ \/ o.requireOrigin /\ request.origin = Absent /\ request.secFetchSite = Absent
            \/ ~IsSameOriginRequest(request, o.allowedOrigins) -> "origin-mismatch"
      [] OTHER -> IF {token, request.token} \cap {Absent, ""} # {} THEN "missing-token"
                  ELSE IF token # request.token THEN "token-mismatch" ELSE "ok"

(* actorHasRole and its companions; assertActorRole and                    *)
(* assertActorPermission answer with the error they throw.                  *)
ActorHasRole(actor, role) == role \in actor.roles
ActorHasAnyRole(actor, roles) == \E r \in roles : ActorHasRole(actor, r)
ActorHasPermission(actor, permission) == permission \in actor.permissions
ActorHasAllPermissions(actor, ps) == \A p \in ps : ActorHasPermission(actor, p)
AssertActorRole(actor, role) ==
  IF ActorHasRole(actor, role) THEN "ok" ELSE "SESSION_FORBIDDEN"
AssertActorPermission(actor, p) ==
  IF ActorHasPermission(actor, p) THEN "ok" ELSE "SESSION_FORBIDDEN"

(* bearerTokenProvider: the token that verify is asked about.  A header     *)
(* with no space in it is a token without a scheme; one that is not there   *)
(* has an empty token.                                                      *)
BearerToken(header, scheme) ==
  IF header.token = "" \/ header.scheme \notin {Absent, scheme}
  THEN Absent ELSE header.token

(* cookieTokenProvider *)
CookieToken(pairs, cookieName) ==
  LET token == GetCookie(pairs, cookieName) IN IF token = "" THEN Absent ELSE token

NoActor == [roles |-> {Absent}, permissions |-> {Absent}]

(* requireProviderActor, where verify knows the actors of some tokens.      *)
RequireProviderActor(token, verify) ==
  IF token \in DOMAIN verify THEN verify[token] ELSE NoActor

-----------------------------------------------------------------------------
(* The cookie of a session comes back from the browser as the same id, as  *)
(* long as it has not expired, and the clearing cookie of the same options  *)
(* takes it away and leaves the cookies of other names.                     *)
CookieComesBack(session, options, others, now) ==
  LET set  == CreateSetCookieHeader(session, options)
      jar  == Receive(others, set, now)
      name == NormalizeCookieOptions(options).name
      cleared == Receive(jar, CreateClearCookieHeader(options), now)
  IN  set # NoCookie =>
        /\ ~Expired(set, now) => GetCookie(CookieHeader(jar), name) = session.id
        /\ GetCookie(CookieHeader(cleared), name) = Absent
        /\ cleared = others

(* An unsafe request that passes echoes the token of its own cookie and     *)
(* comes from an allowed origin, if it names one; and the page that read    *)
(* the cookie the server set always passes.                                 *)
CsrfNeedsTheToken(request, o) ==
  VerifyCsrf(request, o) = "ok" /\ request.method \notin {"GET", "HEAD", "OPTIONS"} =>
    /\ request.token \notin {Absent, ""}
    /\ GetCookie(request.cookies, Or(o.cookieName, "csrf")) = request.token
    /\ request.origin \in o.allowedOrigins \cup {request.urlOrigin, Absent}

CsrfAcceptsOwnPage(request, o, token, cookie) ==
  LET set == CreateCsrfCookieHeader(token, [cookie EXCEPT !.name = o.cookieName])
      own == [request EXCEPT !.cookies = CookieHeader({set}), !.token = token,
                             !.origin = request.urlOrigin]
  IN  set # NoCookie /\ ~set.httpOnly /\ token # "" /\ own.secFetchSite # "cross-site"
        => VerifyCsrf(own, o) = "ok"

LetIn(actor, role, permission) ==
  /\ actor # NoActor
  /\ AssertActorRole(actor, role) = "ok"
  /\ AssertActorPermission(actor, permission) = "ok"

(* Whoever is let in presented a token that verify knows, under the right   *)
(* scheme, and has the role and the permission asked for; as a cookie, the  *)
(* token lets in whom it lets in under the scheme.                          *)
LetInByToken(header, scheme, verify, role, permission) ==
  LET token  == header.token
      cookie == CookieToken(<<[name |-> "token", raw |-> token]>>, "token")
      bearer == BearerToken(header, scheme)
  IN  /\ LetIn(RequireProviderActor(bearer, verify), role, permission)
         => header.scheme \in {Absent, scheme}
      /\ LetIn(RequireProviderActor(cookie, verify), role, permission)
         <=> /\ token \in DOMAIN verify
             /\ ActorHasAnyRole(verify[token], {role})
             /\ ActorHasAllPermissions(verify[token], {permission})
      /\ bearer # Absent => bearer = cookie
=============================================================================
