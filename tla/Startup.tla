------------------------------- MODULE Startup -------------------------------
(***************************************************************************)
(* The daemon from its configuration to its first requests                 *)
(* (routerd/src/main.rs): load, the initial key set, the construction of   *)
(* the webhook workers, the listeners and the tasks, and then what depends *)
(* on the configuration while it serves: identities, the key refresh, and  *)
(* the addresses webhook attempts connect to.  Shutdown is Lifecycle's.    *)
(***************************************************************************)
EXTENDS Authentication, Destination

CONSTANTS
  Files,        \* configuration files
  Environments, \* the ROUTER__ variables, and the variable for the group's suffix
  Resolutions,  \* what a destination's name may resolve to
  MaxLookups    \* bound: changes of what names resolve to

VARIABLES
  phase,        \* how far main has come
  cfg,          \* the configuration, None before it is loaded and once it is
                \* handed to the components
  listeners,    \* the addresses bound
  destinations, \* the webhook destinations that have a worker
  dns,          \* what a destination's name resolves to now
  attempt,      \* an attempt that has its client and not yet its connection
  connected,    \* the connection of the last attempt, None before it has one
  lookups

-----------------------------------------------------------------------------
\* What deserialising gives, whatever the layers hold: numbers are unsigned,
\* the mode is one of AuthMode's, a tenant is a text, and an address has the
\* words of its family.
Modes == {"disabled", "static_bearer", "trusted_header", "jwt", "proxy_mtls"}

Tenants == [name : STRING, padded : BOOLEAN]

Addresses == Ipv4Addresses \cup Ipv6Addresses

Deserialised(c) ==
  /\ {"server", "api", "router", "auth", "jwt", "readiness", "webhooks"} \subseteq DOMAIN c
  /\ \A l \in StreamLimits : c.api[l] \in Nat
  /\ \A l \in RouterLimits : c.router[l] \in Nat
  /\ c.auth.mode \in Modes
  /\ c.auth.default_tenant \in Tenants \cup {None}
  /\ \A token \in DOMAIN c.auth.bearer_tokens :
       token # None /\ c.auth.bearer_tokens[token] \in Tenants
  /\ \A identity \in DOMAIN c.auth.proxy_identities :
       c.auth.proxy_identities[identity].tenant_id \in Tenants
  /\ \A i \in DOMAIN c.webhooks.destinations :
       /\ c.webhooks.destinations[i].queue_capacity \in Nat
       /\ c.webhooks.destinations[i].url.host.literal \in Addresses \cup {<<>>}

ASSUME FilesDeserialise ==
  \A f \in Files \ {None}, env \in Environments : Deserialised(Overlay(f, env.settings))

\* Headers and claims are texts or missing.
ASSUME CredentialsAreTexts ==
  \A c \in Credentials :
    LET token == c.authorization.token
    IN  /\ c.requested \in Tenants \cup {None}
        /\ c.tenant \in Tenants \cup {None}
        /\ token # None /\ token.decodes => token.tenant \in Tenants \cup {None}

ASSUME NamesResolveToAddresses ==
  \A answers \in Resolutions : \A i \in DOMAIN answers : answers[i] \in Addresses

-----------------------------------------------------------------------------
webhookVars == <<destinations, dns, attempt, connected, lookups>>
vars == <<authVars, webhookVars, phase, cfg, listeners>>

-----------------------------------------------------------------------------
Init ==
  /\ phase = "load" /\ cfg = None
  /\ InitAuth
  /\ listeners = {}
  /\ destinations = {}
  /\ dns = <<>> /\ attempt = None /\ connected = None /\ lookups = 0

At(here, there) == phase = here /\ phase' = there

load_configuration(f, env) ==
  LET loaded == load(f, env.settings, env.identity)
  IN  /\ phase = "load"
      /\ cfg' = loaded
      /\ phase' = IF loaded = None THEN "refused" ELSE "loaded"
      /\ UNCHANGED <<authVars, webhookVars, listeners>>

check_config ==
  /\ At("loaded", "checked")
  /\ UNCHANGED <<authVars, webhookVars, cfg, listeners>>

\* What the authenticator uses of its configuration in each mode.
FieldsOf(mode) ==
  CASE mode = "disabled"       -> {"default_tenant", "publish_tenants"}
    [] mode = "static_bearer"  -> {"bearer_tokens", "publish_tenants"}
    [] mode = "trusted_header" -> {"publish_tenants"}
    [] mode = "proxy_mtls"     -> {"proxy_identities"}
    [] mode = "jwt"            -> {"jwt"}

AuthConfig ==
  [f \in {"mode"} \cup FieldsOf(cfg.auth.mode) |->
     IF f = "jwt" THEN Restrict(cfg.jwt, {"algorithms", "max_jwks_bytes", "max_jwks_keys"})
                  ELSE cfg.auth[f]]

\* What main still needs of the configuration once the authenticator has its part.
Remaining ==
  [server |-> cfg.server, router |-> cfg.router,
   destinations |-> IF cfg.webhooks.enabled THEN cfg.webhooks.destinations ELSE <<>>,
   timers |-> (IF cfg.readiness.enabled THEN {cfg.readiness.check_interval_ms} ELSE {})
                \cup (IF cfg.auth.mode = "jwt" THEN {cfg.jwt.refresh_interval_secs} ELSE {})]

\* Without JWTs nobody looks at the key file, whatever it holds.
start(content) ==
  /\ phase = "loaded"
  /\ phase' = IF cfg.auth.mode = "jwt" THEN "keys" ELSE "construct"
  /\ cfg.auth.mode # "jwt" => content = None
  /\ authenticator_new(AuthConfig, content)
  /\ cfg' = Remaining
  /\ UNCHANGED <<webhookVars, listeners>>

\* The initial reload_jwks: a failure ends main.
initial_inspect ==
  /\ phase = "keys" /\ reload_inspect
  /\ UNCHANGED <<webhookVars, phase, cfg, listeners>>

initial_swap ==
  /\ At("keys", "construct") /\ reload_swap
  /\ UNCHANGED <<webhookVars, cfg, listeners>>

initial_failure ==
  /\ At("keys", "failed")
  /\ \/ reloading /\ ~ReadPasses
     \/ ~reloading /\ ~InspectPasses
  /\ UNCHANGED <<authVars, webhookVars, cfg, listeners>>

\* register_connection and subscribe for the i-th destination, when those
\* before it are registered and nobody else can be yet.
Registrable(i) ==
  LET ds == cfg.destinations
      same == {j \in 1..(i - 1) : ds[j].tenant_id = ds[i].tenant_id}
  IN  /\ ds[i].queue_capacity \in 1..cfg.router.max_queue_capacity
      /\ i <= cfg.router.max_connections
      /\ Cardinality(same) < cfg.router.max_connections_per_tenant
      /\ i <= cfg.router.max_subscriptions
      /\ Cardinality(same) < cfg.router.max_subscriptions_per_tenant

\* WebhookManager::new, in either mode.
ManagerBuilds ==
  \A i \in DOMAIN cfg.destinations : Registrable(i) /\ Endpoint(cfg.destinations[i])

\* The Kafka clients may refuse their properties as well.
construct ==
  /\ phase = "construct"
  /\ \/ /\ ManagerBuilds
        /\ phase' = "bind"
        /\ destinations' = Range(cfg.destinations)
     \/ /\ phase' = "failed"
        /\ UNCHANGED destinations
  /\ UNCHANGED <<authVars, cfg, listeners, dns, attempt, connected, lookups>>

bind_listeners ==
  /\ phase = "bind"
  /\ \/ /\ phase' = "spawn"
        /\ listeners' = {cfg.server.http_addr, cfg.server.grpc_addr}
     \/ /\ phase' = "failed"
        /\ UNCHANGED listeners
  /\ UNCHANGED <<authVars, webhookVars, cfg>>

\* A timer with a period of zero panics, and the task's end ends the daemon.
spawn ==
  /\ phase = "spawn"
  /\ phase' = IF 0 \in cfg.timers THEN "panicked" ELSE "serve"
  /\ cfg' = None
  /\ UNCHANGED <<authVars, webhookVars, listeners>>

-----------------------------------------------------------------------------
\* The refresh task, and requests.
\* Mutant: a file without new key ids is not read.
RefreshNewIds ==
  /\ phase = "serve" /\ auth.mode = "jwt" /\ reload_inspect
  /\ ~(DOMAIN KeysOf(file) \subseteq DOMAIN jwks)
  /\ UNCHANGED <<webhookVars, phase, cfg, listeners>>

refresh_inspect ==
  /\ phase = "serve" /\ auth.mode = "jwt" /\ reload_inspect
  /\ UNCHANGED <<webhookVars, phase, cfg, listeners>>

refresh_swap ==
  /\ phase = "serve" /\ reload_swap
  /\ UNCHANGED <<webhookVars, phase, cfg, listeners>>

refresh_refused ==
  /\ phase = "serve" /\ reload_refused
  /\ UNCHANGED <<webhookVars, phase, cfg, listeners>>

serve_request ==
  /\ phase = "serve"
  /\ \E c \in Credentials : request_answered(c) \/ request_key(c)
  /\ UNCHANGED <<webhookVars, phase, cfg, listeners>>

serve_verified ==
  /\ phase = "serve" /\ request_verified
  /\ UNCHANGED <<webhookVars, phase, cfg, listeners>>

\* Only a daemon that reads the file, and only while it may read it, can tell
\* that it changes.
rewrite_file ==
  /\ phase \in {"keys", "serve"} /\ auth.mode = "jwt"
  /\ \E content \in Documents \cup {Partial, None} : rewrite(content)
  /\ UNCHANGED <<webhookVars, phase, cfg, listeners>>

-----------------------------------------------------------------------------
\* An attempt builds its client from what the name resolves to at that moment;
\* it is refused when no address is left.
attempt_client(d) ==
  LET addresses == pinned_client(d.url.host, dns, d.allow_private_ips)
  IN  /\ phase = "serve" /\ d \in destinations /\ attempt = None
      /\ addresses # {}
      /\ attempt' = [destination |-> d, addresses |-> addresses]
      /\ connected' = None
      /\ UNCHANGED <<authVars, phase, cfg, listeners, destinations, dns, lookups>>

\* Mutant: the connection resolves the name again.
ConnectResolvesAgain ==
  /\ attempt # None
  /\ \E i \in DOMAIN dns :
       connected' = [destination |-> attempt.destination, address |-> dns[i]]
  /\ attempt' = None
  /\ UNCHANGED <<authVars, phase, cfg, listeners, destinations, dns, lookups>>

attempt_connect ==
  /\ attempt # None
  /\ \E a \in attempt.addresses :
       connected' = [destination |-> attempt.destination, address |-> a]
  /\ attempt' = None
  /\ UNCHANGED <<authVars, phase, cfg, listeners, destinations, dns, lookups>>

dns_changes ==
  /\ phase = "serve" /\ destinations # {} /\ lookups < MaxLookups
  /\ \E answers \in Resolutions \ {dns} : dns' = answers
  /\ lookups' = lookups + 1
  /\ UNCHANGED <<authVars, phase, cfg, listeners, destinations, attempt, connected>>

Next ==
  \/ \E f \in Files, env \in Environments : load_configuration(f, env)
  \/ check_config
  \/ \E content \in Documents \cup {Partial, None} : start(content)
  \/ initial_inspect
  \/ initial_swap
  \/ initial_failure
  \/ construct
  \/ bind_listeners
  \/ spawn
  \/ refresh_inspect
  \/ refresh_swap
  \/ refresh_refused
  \/ serve_request
  \/ serve_verified
  \/ rewrite_file
  \/ \E d \in destinations : attempt_client(d)
  \/ attempt_connect
  \/ dns_changes

Spec == Init /\ [][Next]_vars

\* The refresh interval keeps ticking, and a reload that has begun ends.
FairSpec ==
  /\ Spec
  /\ WF_vars(refresh_inspect)
  /\ WF_vars(refresh_swap)
  /\ WF_vars(refresh_refused)

-----------------------------------------------------------------------------
\* A configuration that validate accepts does not fail later for a number:
\* no timer of period zero is started, a stream that asks for no capacity gets
\* one, and whatever capacity resolve_stream_queue_capacity lets through, for
\* streams and for destinations, register_connection takes.
AcceptedServes ==
  /\ phase # "panicked"
  /\ phase = "loaded" =>
       LET resolved == 1..cfg.api.max_stream_queue_capacity
           taken == 1..cfg.router.max_queue_capacity
       IN  /\ cfg.api.stream_queue_capacity \in resolved
           /\ resolved \subseteq taken
           /\ cfg.router.default_queue_capacity \in taken
           /\ \A d \in Range(cfg.webhooks.destinations) : d.queue_capacity \in taken

\* A header is taken for an identity only where nobody but a local proxy can
\* reach the listeners, whichever of the file and the environment set which
\* field.  (validate_listener_and_limits, authenticate_http.)
TrustIsLocal ==
  auth # None /\ auth.mode \in {"trusted_header", "proxy_mtls"} => listeners \subseteq {"loopback"}

\* While the daemon serves, the cache is the key set of one document the file
\* has held as a whole, and one that passes: never a mixture of two, never a
\* half-written file, never empty.  (reload_jwks; config/README.md: "an invalid
\* refresh retains the last valid cache".)
CacheIsOneDocument ==
  phase = "serve" /\ auth.mode = "jwt" =>
    \E d \in written : acceptable(d, auth.jwt) /\ jwks = KeysOf(d)

\* The tenant and the permissions of a principal come from what the request
\* showed: the tenant is trimmed and well formed; publishing needs an entry for
\* that tenant, an identity that may, or the scope; and a token counts only
\* when a key the file has listed under its id signed it.  (authenticate_http,
\* authenticate_grpc, jwt_principal.)
PrincipalEarned ==
  answer # None =>
    LET p == answer.principal
        c == answer.credential
        token == c.authorization.token
    IN  /\ ~p.tenant_id.padded /\ p.tenant_id.name \notin BadNames
        /\ auth.mode \in {"disabled", "static_bearer", "trusted_header"} =>
             (p.can_publish => \E t \in auth.publish_tenants : trim(t) = p.tenant_id)
        /\ auth.mode = "trusted_header" => p.tenant_id = trim(c.tenant)
        /\ auth.mode = "static_bearer" => p.tenant_id = trim(auth.bearer_tokens[token])
        /\ auth.mode = "proxy_mtls" =>
             /\ p.tenant_id = trim(auth.proxy_identities[c.identity].tenant_id)
             /\ p.can_publish = auth.proxy_identities[c.identity].publish
        /\ auth.mode = "jwt" =>
             /\ \E d \in written : \E k \in Range(d.keys) : k.kid = token.kid /\ k.key = token.signer
             /\ token.alg \in auth.jwt.algorithms /\ ~token.expired /\ token.issued_for_us
             /\ p.tenant_id = trim(token.tenant)
             /\ p.can_publish = ("publish" \in token.scope.scopes)
             /\ p.can_subscribe = ("subscribe" \in token.scope.scopes)

\* An attempt connects to an address outside the special-purpose blocks unless
\* its destination allows private addresses, whatever its name resolves to by
\* then.  (pinned_client; config/README.md: "DNS is resolved and every address
\* is checked before each attempt; validated addresses are pinned to that
\* connection".)
EgressChecked ==
  connected # None =>
    connected.destination.allow_private_ips \/ ~Special(connected.address)

Lands(d) ==
  phase = "serve" /\ auth.mode = "jwt" /\ file = d
    /\ acceptable(d, auth.jwt) /\ d.len <= auth.jwt.max_jwks_bytes

\* A document that passes and stays in the file reaches the cache and stays
\* there, after any failed refreshes.  (The refresh task of main; config/
\* README.md: the file is "refreshed without restart".)
RotationLands ==
  \A d \in Documents : (<>[]Lands(d)) => (<>[](jwks = KeysOf(d)))

=============================================================================
