--------------------------- MODULE Authentication ----------------------------
(***************************************************************************)
(* Identities of requests (router-api/src/auth.rs) and the key set that    *)
(* the refresh task of routerd/src/main.rs reloads while they are served.  *)
(*                                                                         *)
(* The JWKS file is rewritten by somebody else, in place or by a rename,   *)
(* at any time: between the size check and the read of a reload, too.  A   *)
(* request takes its key from the cache and verifies its token afterwards. *)
(* Signatures are a library's: a token is verified by the key that signed  *)
(* it.  A tenant's text is its name and whether blanks surround it.        *)
(***************************************************************************)
EXTENDS Configuration

CONSTANTS
  Documents,      \* what the JWKS file may hold when it is written as a whole
  Credentials,    \* what requests present
  MaxRewrites     \* bound: rewrites of the file

VARIABLES
  auth,           \* the authenticator's configuration, None before it is built
  jwks,           \* the cache: key id -> key
  file,           \* the JWKS file's content
  written,        \* documents the file has held as a whole
  reloading,      \* a reload is between its size check and its read
  request,        \* a request that has its key and not yet its answer, or None
  answer,         \* the last answer if it granted a principal, else None
  rewrites

authVars == <<auth, jwks, file, written, reloading, request, answer, rewrites>>

-----------------------------------------------------------------------------
\* A file that is being written in place: present, short, and not yet JSON.
Partial == [len |-> 0, parses |-> FALSE, keys |-> <<>>]

\* Key ids and tenants that their length or their characters rule out.
BadNames == {"", "too long"}

\* What reload_jwks requires of the bytes it has read.
acceptable(document, jwt) ==
  LET keys == document.keys
  IN  /\ document.parses
      /\ Len(keys) \in 1..jwt.max_jwks_keys
      /\ \A i \in DOMAIN keys :
           /\ keys[i].kid \notin BadNames
           /\ keys[i].usable
           /\ \A j \in 1..(i - 1) : keys[j].kid # keys[i].kid

KeysOf(document) ==
  [kid \in {k.kid : k \in Range(document.keys)} |->
     (CHOOSE k \in Range(document.keys) : k.kid = kid).key]

InspectPasses == file # None /\ file.len <= auth.jwt.max_jwks_bytes

ReadPasses == file # None /\ acceptable(file, auth.jwt)

\* The size check, and then the read, the parse and the swap.  A reload that
\* fails changes nothing.
reload_inspect ==
  /\ ~reloading /\ InspectPasses
  /\ reloading' = TRUE
  /\ UNCHANGED <<auth, jwks, file, written, request, answer, rewrites>>

Swap(keys) ==
  /\ reloading' = FALSE
  /\ jwks' = keys
  /\ UNCHANGED <<auth, file, written, request, answer, rewrites>>

\* Mutant: whatever parses is taken.
ReloadUnchecked ==
  /\ reloading /\ file # None
  /\ Swap(KeysOf(file))

reload_swap ==
  /\ reloading /\ ReadPasses
  /\ Swap(KeysOf(file))

reload_refused ==
  /\ reloading /\ ~ReadPasses
  /\ Swap(jwks)

-----------------------------------------------------------------------------
Refused(status) == [error |-> status]

trim(tenant) == [tenant EXCEPT !.padded = FALSE]

principal_with_permissions(tenant, subscribe, publish) ==
  IF tenant.name \in BadNames
    THEN Refused("bad_request")
    ELSE [tenant_id |-> trim(tenant), can_subscribe |-> subscribe, can_publish |-> publish]

\* Modes without explicit scopes: the text is looked up as it came.
legacy_principal(tenant) ==
  principal_with_permissions(tenant, TRUE, tenant \in auth.publish_tenants)

disabled_principal(requested) ==
  LET given == requested # None /\ requested.name # ""
  IN  IF ~given /\ auth.default_tenant = None
        THEN Refused("bad_request")
        ELSE legacy_principal(IF given THEN requested ELSE auth.default_tenant)

\* The token of an Authorization header, or None.
parse_bearer(header) ==
  IF header # None /\ header.scheme \in {"Bearer", "bearer"} THEN header.token ELSE None

static_token(header) ==
  LET token == parse_bearer(header)
  IN  IF token \in DOMAIN auth.bearer_tokens
        THEN legacy_principal(auth.bearer_tokens[token])
        ELSE Refused("unauthorized")

proxy_identity(identity) ==
  IF identity \in DOMAIN auth.proxy_identities
    THEN LET mapping == auth.proxy_identities[identity]
         IN  principal_with_permissions(mapping.tenant_id, mapping.subscribe, mapping.publish)
    ELSE Refused("unauthorized")

trusted_header(tenant) == IF tenant = None THEN Refused("unauthorized") ELSE legacy_principal(tenant)

\* Mutant: a tenant named by the proxy may always publish.
AuthenticateGenerously(c) ==
  IF auth.mode = "trusted_header" /\ c.tenant # None
    THEN principal_with_permissions(c.tenant, TRUE, TRUE)
    ELSE IF auth.mode = "disabled" THEN disabled_principal(c.requested)
    ELSE IF auth.mode = "static_bearer" THEN static_token(c.authorization)
    ELSE IF auth.mode = "proxy_mtls" THEN proxy_identity(c.identity)
    ELSE Refused("unauthorized")

\* authenticate_http and authenticate_grpc in the modes that answer at once.
authenticate(c) ==
  CASE auth.mode = "disabled"       -> disabled_principal(c.requested)
    [] auth.mode = "static_bearer"  -> static_token(c.authorization)
    [] auth.mode = "trusted_header" -> trusted_header(c.tenant)
    [] auth.mode = "proxy_mtls"     -> proxy_identity(c.identity)

\* jwt_principal, up to the key: the header of the token must name a key that
\* the cache holds and an algorithm that is configured.
HasKey(token) ==
  /\ token # None /\ token.decodes
  /\ token.kid \in DOMAIN jwks
  /\ token.alg \in auth.jwt.algorithms

\* claim_scopes: a string or an array of strings, else nothing.
claim_scopes(claim) == IF claim.form \in {"string", "strings"} THEN claim.scopes ELSE None

\* jwt_principal, from the key on.
jwt_principal(token, key) ==
  LET scopes == claim_scopes(token.scope)
  IN  IF /\ token.signer = key /\ ~token.expired /\ token.issued_for_us
         /\ token.tenant # None /\ scopes # None
        THEN principal_with_permissions(token.tenant, "subscribe" \in scopes, "publish" \in scopes)
        ELSE Refused("unauthorized")

\* Only a principal goes further; a refusal is the end of its request.
Answers(c, result) ==
  answer' = IF result \in {Refused("bad_request"), Refused("unauthorized")}
              THEN None
              ELSE [credential |-> c, principal |-> result]

request_answered(c) ==
  /\ auth.mode # "jwt"
  /\ Answers(c, authenticate(c))
  /\ UNCHANGED <<auth, jwks, file, written, reloading, request, rewrites>>

request_key(c) ==
  LET token == parse_bearer(c.authorization)
  IN  /\ auth.mode = "jwt" /\ request = None
      /\ \/ /\ HasKey(token)
            /\ request' = [credential |-> c, key |-> jwks[token.kid]]
            /\ UNCHANGED answer
         \/ /\ ~HasKey(token)
            /\ Answers(c, Refused("unauthorized"))
            /\ UNCHANGED request
      /\ UNCHANGED <<auth, jwks, file, written, reloading, rewrites>>

request_verified ==
  /\ request # None
  /\ Answers(request.credential,
             jwt_principal(request.credential.authorization.token, request.key))
  /\ request' = None
  /\ UNCHANGED <<auth, jwks, file, written, reloading, rewrites>>

-----------------------------------------------------------------------------
\* The file is replaced at once, or truncated and then filled, or removed.
rewrite(content) ==
  /\ rewrites < MaxRewrites
  /\ content # file
  /\ file' = content
  /\ written' = IF content \in Documents THEN written \cup {content} ELSE written
  /\ rewrites' = rewrites + 1
  /\ UNCHANGED <<auth, jwks, reloading, request, answer>>

InitAuth ==
  /\ auth = None
  /\ jwks = <<>>
  /\ file = None
  /\ written = {}
  /\ reloading = FALSE
  /\ request = None /\ answer = None
  /\ rewrites = 0

\* Authenticator::new.  The file is what it is by then.
authenticator_new(config, content) ==
  /\ auth' = config
  /\ file' = content
  /\ written' = {content} \cap Documents
  /\ UNCHANGED <<jwks, reloading, request, answer, rewrites>>

=============================================================================
