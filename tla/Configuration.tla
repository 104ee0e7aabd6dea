---------------------------- MODULE Configuration ----------------------------
(***************************************************************************)
(* Loading and validating the daemon's configuration                       *)
(* (routerd/src/config.rs): the TOML file, the ROUTER__ environment laid   *)
(* over it, the consumer group's suffix, and validate.                     *)
(*                                                                         *)
(* A configuration is a function of sections to their fields.  A text is a *)
(* string, blank ("" or " ") or not; a group id is its length and whether  *)
(* every byte is one that Kafka takes; an address says what it is.         *)
(***************************************************************************)
EXTENDS Integers, Sequences, FiniteSets, Functions

CONSTANT None

blank(text) == text \in {"", " "}

\* The limits of each group that one condition requires to be positive.
ApiLimits ==
  {"http_body_limit_bytes", "sse_keep_alive_secs", "ws_max_message_bytes",
   "ws_max_frame_bytes", "ws_max_commands_per_second",
   "grpc_max_decoding_message_bytes", "grpc_max_encoding_message_bytes",
   "grpc_concurrency_limit", "grpc_keep_alive_interval_secs",
   "grpc_keep_alive_timeout_secs", "publish_max_payload_bytes",
   "max_rate_limit_principals", "global_commands_per_second",
   "principal_commands_per_second", "global_publishes_per_second",
   "principal_publishes_per_second"}

StreamLimits == {"stream_queue_capacity", "max_stream_queue_capacity"}

RouterLimits ==
  {"default_queue_capacity", "max_queue_capacity", "max_connections",
   "max_connections_per_tenant", "max_subscriptions",
   "max_subscriptions_per_tenant", "max_subscriptions_per_connection",
   "slow_consumer_strikes"}

ReadinessLimits ==
  {"check_interval_ms", "stale_after_secs", "failure_threshold", "success_threshold"}

DestinationLimits ==
  {"queue_capacity", "timeout_ms", "max_attempts", "initial_backoff_ms", "max_backoff_ms"}

positive(section, fields) == \A f \in fields : section[f] > 0

filled(section, fields) == \A f \in fields : ~blank(section[f])

-----------------------------------------------------------------------------
\* A layer is a set of settings [section, field, value], at most one for a
\* field; those of the environment replace those of the file.
Overlay(cfg, layer) ==
  [s \in DOMAIN cfg |->
     [f \in DOMAIN cfg[s] |->
        IF \E x \in layer : x.section = s /\ x.field = f
          THEN (CHOOSE x \in layer : x.section = s /\ x.field = f).value
          ELSE cfg[s][f]]]

valid_environment_name(name) == name.first \in {"letter", "_"} /\ name.rest

portable(id, longest) == id.len \in 1..longest /\ id.ascii

\* The group id followed by a dot and the suffix.
Suffixed(id, suffix) ==
  [len |-> id.len + 1 + suffix.len, ascii |-> id.ascii /\ suffix.ascii]

\* apply_runtime_identity: the configuration with its group id resolved, or
\* None.  lookup is the environment's answer for the variable.
apply_runtime_identity(cfg, lookup) ==
  LET variable == cfg.kafka.group_id_suffix_env
      group_id == Suffixed(cfg.consumer.group_id, lookup)
  IN  CASE variable = None -> cfg
        [] /\ variable # None
           /\ valid_environment_name(variable)
           /\ lookup # None /\ portable(lookup, 128)
           /\ group_id.len <= 255 -> [cfg EXCEPT !.consumer.group_id = group_id]
        [] OTHER -> None

-----------------------------------------------------------------------------
\* Mutant: the stream capacity is compared with the router's default only.
LimitsUnrelated(cfg) ==
  LET proxied == cfg.server.security_mode = "protected_proxy"
      addresses == {cfg.server.http_addr, cfg.server.grpc_addr}
  IN  /\ "malformed" \notin addresses
      /\ proxied => addresses = {"loopback"} /\ cfg.auth.mode # "disabled"
      /\ cfg.auth.mode \in {"trusted_header", "proxy_mtls"} => proxied
      /\ positive(cfg.api, ApiLimits \cup StreamLimits)
      /\ positive(cfg.router, RouterLimits)
      /\ cfg.api.stream_queue_capacity <= cfg.api.max_stream_queue_capacity
      /\ cfg.router.default_queue_capacity <= cfg.router.max_queue_capacity

\* Mutant: one of the two listeners is checked.
HttpListenerOnly(cfg) ==
  LET proxied == cfg.server.security_mode = "protected_proxy"
  IN  /\ proxied => cfg.server.http_addr = "loopback" /\ cfg.auth.mode # "disabled"
      /\ cfg.auth.mode \in {"trusted_header", "proxy_mtls"} => proxied
      /\ positive(cfg.api, ApiLimits \cup StreamLimits)
      /\ positive(cfg.router, RouterLimits)

validate_listener_and_limits(cfg) ==
  LET proxied == cfg.server.security_mode = "protected_proxy"
      addresses == {cfg.server.http_addr, cfg.server.grpc_addr}
  IN  /\ "malformed" \notin addresses
      /\ proxied => addresses = {"loopback"} /\ cfg.auth.mode # "disabled"
      /\ cfg.auth.mode \in {"trusted_header", "proxy_mtls"} => proxied
      /\ positive(cfg.api, ApiLimits \cup StreamLimits)
      /\ positive(cfg.router, RouterLimits)
      /\ cfg.api.ws_max_frame_bytes <= cfg.api.ws_max_message_bytes
      /\ cfg.router.default_queue_capacity <= cfg.router.max_queue_capacity
      /\ cfg.api.stream_queue_capacity <= cfg.api.max_stream_queue_capacity
      /\ cfg.api.max_stream_queue_capacity <= cfg.router.max_queue_capacity

SupportedAlgorithms == {"RS256", "RS384", "RS512", "ES256", "ES384", "EdDSA"}

valid_jwt(jwt) ==
  /\ filled(jwt, {"jwks_path", "issuer", "audience", "tenant_claim", "scope_claim",
                  "subscribe_scope", "publish_scope"})
  /\ positive(jwt, {"refresh_interval_secs", "max_jwks_bytes", "max_jwks_keys"})
  /\ jwt.algorithms # {} /\ jwt.algorithms \subseteq SupportedAlgorithms

\* A tenant's text is its name and whether blanks surround it.
valid_identities(auth) ==
  /\ ~blank(auth.proxy_identity_header)
  /\ auth.proxy_identities # <<>>
  /\ \A i \in Range(auth.proxy_identities) :
       ~blank(i.tenant_id.name) /\ (i.subscribe \/ i.publish)

validate_kafka_and_auth(cfg) ==
  /\ cfg.consumer.topics # {} /\ \A t \in cfg.consumer.topics : ~blank(t)
  /\ cfg.consumer.max_payload_bytes > 0
  /\ filled(cfg.consumer, {"brokers", "client_id"})
  /\ portable(cfg.consumer.group_id, 255)
  /\ cfg.consumer.auto_offset_reset \in {"earliest", "latest"}
  /\ cfg.producer.enabled =>
       /\ filled(cfg.producer, {"brokers", "client_id", "topic"})
       /\ cfg.producer.delivery_timeout_ms > 0
  /\ cfg.auth.mode = "static_bearer" => cfg.auth.bearer_tokens # <<>>
  /\ cfg.auth.mode = "jwt" => valid_jwt(cfg.jwt)
  /\ cfg.auth.mode = "proxy_mtls" => valid_identities(cfg.auth)
  /\ \A t \in cfg.auth.publish_tenants : ~blank(t.name)
  /\ cfg.auth.mode = "static_bearer" =>
       cfg.auth.publish_tenants \subseteq Range(cfg.auth.bearer_tokens)

validate_observability(cfg) ==
  /\ cfg.opentelemetry.enabled =>
       /\ cfg.opentelemetry.endpoint \in {"http", "https"}
       /\ ~blank(cfg.opentelemetry.service_name)
       /\ positive(cfg.opentelemetry, {"timeout_ms", "shutdown_timeout_ms"})
       /\ cfg.opentelemetry.sampling_percent \in 0..100
  /\ cfg.readiness.enabled => positive(cfg.readiness, ReadinessLimits)

valid_durable(cfg) ==
  LET durable == cfg.durable
      topics == <<durable.delivery_topic, durable.retry_topic, durable.dead_letter_topic>>
  IN  /\ filled(durable, {"brokers", "client_id", "group_id"})
      /\ \A i \in 1..3 : ~blank(topics[i])
      /\ positive(durable, {"delivery_timeout_ms", "max_record_bytes", "max_recovery_records"})
      /\ IsInjective(topics)
      /\ cfg.webhooks.destinations # <<>>

\* filter.validate is the core's; here a filter is valid or not.
validate_webhooks(cfg) ==
  LET destinations == cfg.webhooks.destinations
  IN  /\ cfg.webhooks.enabled /\ cfg.webhooks.mode = "durable" => valid_durable(cfg)
      /\ \A i \in DOMAIN destinations :
           LET d == destinations[i]
           IN  /\ ~blank(d.id)
               /\ \A j \in 1..(i - 1) : destinations[j].id # d.id
               /\ positive(d, DestinationLimits)
               /\ d.queue_capacity <= cfg.router.max_queue_capacity
               /\ d.initial_backoff_ms <= d.max_backoff_ms
               /\ d.filter_valid

validate(cfg) ==
  /\ validate_listener_and_limits(cfg)
  /\ validate_kafka_and_auth(cfg)
  /\ validate_observability(cfg)
  /\ validate_webhooks(cfg)

\* AppConfig::load: the configuration the process runs with, or None.  A file
\* that is missing or does not parse is None.
load(file, env, lookup) ==
  LET cfg == apply_runtime_identity(Overlay(file, env), lookup)
  IN  IF file # None /\ cfg # None /\ validate(cfg) THEN cfg ELSE None

=============================================================================
