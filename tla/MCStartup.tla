------------------------------ MODULE MCStartup ------------------------------
(***************************************************************************)
(* A small instance of the daemon's start: six configuration files, each   *)
(* with up to one field changed in the file and one in the environment,    *)
(* five key documents, and a name whose addresses change.                  *)
(***************************************************************************)
EXTENDS Startup

Tenant(name) == [name |-> name, padded |-> FALSE]
Padded(name) == [name |-> name, padded |-> TRUE]

\* A bearer token that is not a JWT.
Opaque(text) == [text |-> text, decodes |-> FALSE]

Hook ==
  [id |-> "hook", tenant_id |-> "acme", filter_valid |-> TRUE,
   queue_capacity |-> 2, timeout_ms |-> 1, max_attempts |-> 1,
   initial_backoff_ms |-> 1, max_backoff_ms |-> 1,
   url |-> [parses |-> TRUE, scheme |-> "https", credentials |-> FALSE, fragment |-> FALSE,
            host |-> [name |-> "hook.example", literal |-> <<>>], port |-> 0],
   headers |-> {}, allowed_hosts |-> {}, allowed_ports |-> {},
   allow_private_ips |-> FALSE, allow_http |-> FALSE]

Default ==
  [server        |-> [http_addr |-> "public", grpc_addr |-> "public", security_mode |-> "development"],
   api           |-> [f \in ApiLimits \cup StreamLimits |-> 2],
   router        |-> [f \in RouterLimits |-> 2],
   kafka         |-> [group_id_suffix_env |-> None],
   consumer      |-> [topics |-> {"router.input"}, max_payload_bytes |-> 1, brokers |-> "b",
                      client_id |-> "c", group_id |-> [len |-> 200, ascii |-> TRUE],
                      auto_offset_reset |-> "earliest"],
   producer      |-> [enabled |-> TRUE, brokers |-> "b", client_id |-> "c", topic |-> "t",
                      delivery_timeout_ms |-> 1],
   auth          |-> [mode |-> "disabled", default_tenant |-> Tenant("demo"),
                      bearer_tokens |-> [t \in {Opaque("tok")} |-> Tenant("acme")],
                      publish_tenants |-> {Tenant("acme")},
                      proxy_identity_header |-> "x-identity",
                      proxy_identities |-> [cn |-> [tenant_id |-> Tenant("acme"),
                                                    subscribe |-> TRUE, publish |-> FALSE]]],
   jwt           |-> [jwks_path |-> "p", issuer |-> "i", audience |-> "a", algorithms |-> {"ES256"},
                      refresh_interval_secs |-> 1, tenant_claim |-> "t", scope_claim |-> "s",
                      subscribe_scope |-> "sub", publish_scope |-> "pub",
                      max_jwks_bytes |-> 2, max_jwks_keys |-> 2],
   opentelemetry |-> [enabled |-> FALSE, endpoint |-> "http", service_name |-> "s",
                      timeout_ms |-> 1, shutdown_timeout_ms |-> 1, sampling_percent |-> 10],
   readiness     |-> [enabled |-> FALSE, check_interval_ms |-> 1, stale_after_secs |-> 1,
                      failure_threshold |-> 1, success_threshold |-> 1],
   webhooks      |-> [enabled |-> FALSE, mode |-> "volatile", destinations |-> <<>>],
   durable       |-> [brokers |-> "b", client_id |-> "c", group_id |-> "g", delivery_topic |-> "d",
                      retry_topic |-> "r", dead_letter_topic |-> "x",
                      delivery_timeout_ms |-> 1, max_record_bytes |-> 1, max_recovery_records |-> 1]]

Proxied(mode) ==
  [Default EXCEPT !.server = [http_addr |-> "loopback", grpc_addr |-> "loopback",
                              security_mode |-> "protected_proxy"],
                  !.auth.mode = mode]

Bases ==
  {Default, [Default EXCEPT !.auth.mode = "static_bearer"], Proxied("jwt"),
   Proxied("trusted_header"), Proxied("proxy_mtls"),
   [Default EXCEPT !.webhooks = [enabled |-> TRUE, mode |-> "durable", destinations |-> <<Hook>>],
                   !.jwt.jwks_path = ""]}

Set(section, field, value) == [section |-> section, field |-> field, value |-> value]

SetAll(section, fields, value) == {Set(section, f, value) : f \in fields}

Edits ==
  SetAll("server", {"http_addr", "grpc_addr"}, "malformed")
  \cup SetAll("server", {"http_addr", "grpc_addr"}, "public")
  \cup {Set("server", "security_mode", m) : m \in {"development", "protected_proxy"}}
  \cup {Set("auth", "mode", m) : m \in {"disabled", "static_bearer", "trusted_header", "jwt", "proxy_mtls"}}
  \cup SetAll("api", ApiLimits \cup StreamLimits, 0)
  \cup SetAll("api", StreamLimits \cup {"ws_max_frame_bytes"}, 3)
  \cup SetAll("router", RouterLimits, 0)
  \cup SetAll("router", {"max_queue_capacity", "default_queue_capacity"}, 1)
  \cup {Set("router", "max_queue_capacity", 3)}
  \cup {Set("kafka", "group_id_suffix_env", [first |-> f, rest |-> TRUE]) : f \in {"letter", "digit"}}
  \cup {Set("consumer", "topics", {}), Set("consumer", "topics", {" "}),
        Set("consumer", "max_payload_bytes", 0), Set("consumer", "auto_offset_reset", "oldest"),
        Set("consumer", "group_id", [len |-> 0, ascii |-> TRUE])}
  \cup SetAll("consumer", {"brokers", "client_id"}, "")
  \cup {Set("producer", "enabled", FALSE), Set("producer", "topic", " "),
        Set("producer", "delivery_timeout_ms", 0)}
  \cup {Set("auth", "default_tenant", None), Set("auth", "bearer_tokens", <<>>),
        Set("auth", "publish_tenants", {Padded("acme")}), Set("auth", "publish_tenants", {Tenant("")}),
        Set("auth", "proxy_identities", <<>>), Set("auth", "proxy_identity_header", "")}
  \cup SetAll("jwt", {"refresh_interval_secs", "max_jwks_bytes", "max_jwks_keys"}, 0)
  \cup SetAll("jwt", {"issuer", "tenant_claim", "publish_scope"}, "")
  \cup {Set("jwt", "algorithms", a) : a \in {{}, {"HS256"}, {"ES256", "RS256"}}}
  \cup {Set("jwt", "max_jwks_keys", 1)}
  \cup {Set("opentelemetry", "enabled", TRUE), Set("opentelemetry", "endpoint", "grpc"),
        Set("opentelemetry", "timeout_ms", 0), Set("opentelemetry", "sampling_percent", 101)}
  \cup {Set("readiness", "enabled", TRUE)} \cup SetAll("readiness", ReadinessLimits, 0)
  \cup {Set("webhooks", "enabled", FALSE), Set("webhooks", "mode", "volatile")}
  \cup {Set("webhooks", "destinations", ds) :
          ds \in {<<>>, <<Hook, Hook>>, <<Hook, [Hook EXCEPT !.id = "other"]>>,
                  <<[Hook EXCEPT !.queue_capacity = 3]>>, <<[Hook EXCEPT !.initial_backoff_ms = 2]>>,
                  <<[Hook EXCEPT !.filter_valid = FALSE]>>, <<[Hook EXCEPT !.allow_private_ips = TRUE]>>,
                  <<[Hook EXCEPT !.url.scheme = "http"]>>, <<[Hook EXCEPT !.url.port = 8443]>>,
                  <<[Hook EXCEPT !.url.port = 8443, !.allowed_ports = {8443}]>>,
                  <<[Hook EXCEPT !.url.host = [name |-> "10.0.0.1", literal |-> <<10, 0, 0, 1>>]]>>,
                  <<[Hook EXCEPT !.url.host = [name |-> "9.9.9.9", literal |-> <<9, 9, 9, 9>>]]>>,
                  <<[Hook EXCEPT !.headers = {[valid |-> TRUE, reserved |-> TRUE]}]>>}}
  \cup {Set("durable", "retry_topic", "d"), Set("durable", "group_id", " "),
        Set("durable", "max_record_bytes", 0), Set("durable", "max_recovery_records", 0)}

MCFiles == Bases \cup {Overlay(b, {e}) : b \in Bases, e \in Edits} \cup {None}

Identities ==
  {None, [len |-> 50, ascii |-> TRUE], [len |-> 60, ascii |-> TRUE], [len |-> 50, ascii |-> FALSE]}

\* The fields that another part of the configuration constrains.
Crossing ==
  {e \in Edits : \/ e.section \in {"server", "webhooks"}
                 \/ e.field \in StreamLimits \cup {"mode", "max_queue_capacity", "enabled",
                                                  "group_id_suffix_env"}}

MCEnvironments ==
  {[settings |-> {e}, identity |-> None] : e \in Crossing}
    \cup {[settings |-> {}, identity |-> i] : i \in Identities}

-----------------------------------------------------------------------------
Key(kid, key) == [kid |-> kid, key |-> key, usable |-> TRUE]

Document(len, keys) == [len |-> len, parses |-> TRUE, keys |-> keys]

\* The old key set, its successor, and three that no reload should take: a key
\* id twice, more bytes than allowed, and a key that is unusable.
MCDocuments ==
  {Document(1, <<Key("k1", "old")>>), Document(2, <<Key("k2", "new"), Key("k1", "newer")>>),
   Document(1, <<Key("k1", "old"), Key("k1", "new")>>), Document(3, <<Key("k2", "big")>>),
   Document(1, <<Key("k2", "fine"), [Key("k3", "weak") EXCEPT !.usable = FALSE]>>)}

Token(kid, signer) ==
  [decodes |-> TRUE, kid |-> kid, alg |-> "ES256", signer |-> signer, expired |-> FALSE,
   issued_for_us |-> TRUE, tenant |-> Tenant("acme"), scope |-> [form |-> "string", scopes |-> {"publish"}]]

Nothing == [requested |-> None, authorization |-> [scheme |-> "Basic", token |-> None],
            tenant |-> None, identity |-> None]

Bearer(token) == [Nothing EXCEPT !.authorization = [scheme |-> "Bearer", token |-> token]]

MCCredentials ==
  {Nothing, Bearer(Opaque("tok")), Bearer(Opaque("unknown")),
   [Nothing EXCEPT !.requested = Tenant("acme")], [Nothing EXCEPT !.requested = Padded("")],
   [Nothing EXCEPT !.tenant = Padded("acme")], [Nothing EXCEPT !.tenant = Tenant("acme")],
   [Nothing EXCEPT !.tenant = Tenant("too long")], [Nothing EXCEPT !.tenant = Tenant("other")],
   [Nothing EXCEPT !.identity = "cn"], [Nothing EXCEPT !.identity = "stranger"]}

MCTokens ==
  {Bearer(Token("k1", "old")), Bearer(Token("k1", "newer")), Bearer(Token("k2", "new")),
   Bearer([Token("k1", "old") EXCEPT !.alg = "HS256"]),
   Bearer([Token("k1", "old") EXCEPT !.expired = TRUE]),
   Bearer([Token("k1", "old") EXCEPT !.scope = [form |-> "number", scopes |-> {}]])}

MCAllCredentials == MCCredentials \cup MCTokens

-----------------------------------------------------------------------------
\* Both sides of every boundary of the address checks.
V4 ==
  {<<0, 1, 1, 1>>, <<1, 0, 0, 0>>, <<9, 255, 255, 255>>, <<10, 0, 0, 0>>, <<11, 0, 0, 0>>,
   <<100, 63, 0, 0>>, <<100, 64, 0, 0>>, <<100, 127, 0, 0>>, <<100, 128, 0, 0>>,
   <<127, 0, 0, 1>>, <<169, 254, 1, 1>>, <<169, 253, 1, 1>>, <<172, 15, 0, 0>>, <<172, 16, 0, 0>>,
   <<172, 31, 0, 0>>, <<172, 32, 0, 0>>, <<192, 0, 0, 1>>, <<192, 0, 1, 1>>, <<192, 0, 2, 1>>,
   <<192, 88, 99, 1>>, <<192, 88, 98, 1>>, <<192, 168, 0, 1>>, <<198, 17, 0, 0>>, <<198, 18, 0, 0>>,
   <<198, 19, 0, 0>>, <<198, 20, 0, 0>>, <<198, 51, 100, 1>>, <<203, 0, 113, 1>>,
   <<223, 255, 255, 255>>, <<224, 0, 0, 0>>, <<239, 0, 0, 0>>, <<240, 0, 0, 0>>, <<255, 255, 255, 255>>}

V6 ==
  {Segments(0, 0), [Segments(0, 0) EXCEPT ![8] = 1], [Segments(0, 0) EXCEPT ![8] = 2],
   Segments(100, 65435), Segments(100, 65434), Segments(256, 0), Segments(256, 1),
   Segments(8193, 511), Segments(8193, 512), Segments(8193, 3512), Segments(8194, 0),
   Segments(8195, 0), Segments(16383, 4095), Segments(16383, 4096), Segments(24320, 0),
   Segments(64511, 0), Segments(64512, 0), Segments(65023, 0), Segments(65152, 0),
   Segments(65215, 0), Segments(65216, 0), Segments(65279, 0), Segments(65280, 0)}
  \cup {<<0, 0, 0, 0, 0, 65535, a[1] * 256 + a[2], a[3] * 256 + a[4]>> :
          a \in {<<10, 0, 0, 1>>, <<9, 9, 9, 9>>, <<198, 19, 0, 0>>}}

ASSUME BoundariesAgree == \A a \in V4 \cup V6 : is_private_or_special(a) = Special(a)

Public == <<9, 9, 9, 9>>
Private == <<10, 0, 0, 1>>

\* One address, two, one of two private, a repeated one past the limit, none.
MCResolutions ==
  {<<Public>>, <<Private>>, <<Public, Private>>, <<Public, <<8, 8, 8, 8>>>>,
   <<Public, <<8, 8, 8, 8>>, Public>>, <<>>}

=============================================================================
