------------------------------ MODULE Lifecycle ------------------------------
(***************************************************************************)
(* The daemon's life (routerd/src/main.rs): start, readiness, drain, exit. *)
(* With it the readiness gate (HealthState, router-api/src/state.rs), the  *)
(* Kafka readiness monitor (routerd/src/readiness.rs) and the gRPC health  *)
(* service that follows the gate (router-api/src/grpc.rs).                 *)
(*                                                                         *)
(* main, the monitor and the gRPC server are tasks on several threads; a   *)
(* step of theirs is one access to shared state.  Components are the other *)
(* tasks of the JoinSet: each runs until it fails, or ends at its own pace *)
(* once it sees the shutdown watch.                                        *)
(***************************************************************************)
EXTENDS Readiness

CONSTANT Components  \* tasks: Kafka consumer, HTTP server, webhooks, key refresh

VARIABLES
  kafka_readiness, \* observability.kafka_readiness.enabled, fixed at startup
  main,          \* where main is
  live,          \* HealthState
  ready,
  gate,          \* value of the readiness watch channel
  shutdown,      \* value of the shutdown watch channel
  tasks,         \* component -> "new", "running", "done" or "aborted"
  failed,        \* a component ended before the shutdown
  exit_status,
  connected,     \* KafkaHealth: the last report was good
  recent,        \* KafkaHealth: it is not older than stale_after
  monitor,       \* where the readiness monitor is
  hysteresis,
  grpc,          \* where the gRPC server is
  notified,      \* its watch receiver has a change it has not seen
  sample,        \* the readiness it is about to report
  serving        \* the status the health service reports

gateVars == <<ready, gate, notified>>
kafkaVars == <<kafka_readiness, connected, recent>>
monitorVars == <<monitor, hysteresis>>
grpcVars == <<grpc, sample, serving>>
mainVars == <<main, live, shutdown, tasks, failed, exit_status>>
vars == <<gateVars, kafkaVars, monitorVars, grpcVars, mainVars>>

-----------------------------------------------------------------------------
Init ==
  /\ kafka_readiness \in BOOLEAN
  /\ main = "start"
  /\ live = TRUE
  /\ ready = FALSE
  /\ gate = FALSE
  /\ shutdown = FALSE
  /\ tasks = [c \in Components |-> "new"]
  /\ failed = FALSE
  /\ exit_status = 0
  /\ connected = FALSE
  /\ recent = FALSE
  /\ monitor = "new"
  /\ hysteresis = new
  /\ grpc = "new"
  /\ notified = FALSE
  /\ sample = FALSE
  /\ serving = FALSE

-----------------------------------------------------------------------------
(* HealthState and KafkaHealth                                             *)

\* set_ready stores the flag, then sends it; the two are not one step.
set_ready_store(value) ==
  /\ ready' = value
  /\ UNCHANGED <<gate, notified>>

Subscribed == grpc \in {"changed", "report"}

\* Mutant: only a change of value is sent.
SendIfModified(value) ==
  /\ gate' = value
  /\ notified' = (notified \/ (Subscribed /\ value # gate))
  /\ UNCHANGED ready

\* send_replace marks the value as changed even if it is the same.
set_ready_send(value) ==
  /\ gate' = value
  /\ notified' = (notified \/ Subscribed)
  /\ UNCHANGED ready

mark_healthy ==
  /\ main # "exited"
  /\ connected' = TRUE
  /\ recent' = TRUE
  /\ UNCHANGED <<kafka_readiness, gateVars, monitorVars, grpcVars, mainVars>>

mark_unhealthy ==
  /\ main # "exited" /\ connected
  /\ connected' = FALSE
  /\ UNCHANGED <<kafka_readiness, recent, gateVars, monitorVars, grpcVars, mainVars>>

\* stale_after passes without a report.
goes_stale ==
  /\ main # "exited" /\ recent
  /\ recent' = FALSE
  /\ UNCHANGED <<kafka_readiness, connected, gateVars, monitorVars, grpcVars, mainVars>>

is_healthy == connected /\ recent

-----------------------------------------------------------------------------
(* monitor_kafka_readiness                                                 *)

monitor_tick ==
  /\ monitor = "select"
  /\ hysteresis' = observe(hysteresis, is_healthy)
  /\ monitor' = "store"
  /\ UNCHANGED <<gateVars, kafkaVars, grpcVars, mainVars>>

monitor_store ==
  /\ monitor = "store"
  /\ set_ready_store(hysteresis.ready)
  /\ monitor' = "send"
  /\ UNCHANGED <<hysteresis, kafkaVars, grpcVars, mainVars>>

monitor_send ==
  /\ monitor = "send"
  /\ set_ready_send(hysteresis.ready)
  /\ monitor' = "select"
  /\ UNCHANGED <<hysteresis, kafkaVars, grpcVars, mainVars>>

\* When a tick is due as well, select! takes either.
monitor_shutdown ==
  /\ monitor = "select"
  /\ shutdown
  /\ monitor' = "done"
  /\ UNCHANGED <<hysteresis, gateVars, kafkaVars, grpcVars, mainVars>>

-----------------------------------------------------------------------------
(* serve_grpc and monitor_grpc_health                                      *)

grpc_is_ready ==
  /\ grpc = "start"
  /\ sample' = ready
  /\ grpc' = "initial"
  /\ UNCHANGED <<serving, gateVars, kafkaVars, monitorVars, mainVars>>

\* set_serving or set_not_serving, then the subscription to the gate.
grpc_initial ==
  /\ grpc = "initial"
  /\ serving' = sample
  /\ grpc' = "subscribe"
  /\ UNCHANGED <<sample, gateVars, kafkaVars, monitorVars, mainVars>>

grpc_subscribe ==
  /\ grpc = "subscribe"
  /\ notified' = FALSE
  /\ grpc' = "changed"
  /\ UNCHANGED <<ready, gate, sample, serving, kafkaVars, monitorVars, mainVars>>

\* changed().await, then borrow_and_update.
grpc_changed ==
  /\ grpc = "changed"
  /\ notified
  /\ notified' = FALSE
  /\ sample' = gate
  /\ grpc' = "report"
  /\ UNCHANGED <<ready, gate, serving, kafkaVars, monitorVars, mainVars>>

grpc_report ==
  /\ grpc = "report"
  /\ serving' = sample
  /\ grpc' = "changed"
  /\ UNCHANGED <<sample, gateVars, kafkaVars, monitorVars, mainVars>>

\* The server ends after a shutdown, or with an error.
grpc_ends ==
  /\ grpc \in {"changed", "report"}
  /\ grpc' = "done"
  /\ failed' = (failed \/ ~shutdown)
  /\ UNCHANGED <<sample, serving, gateVars, kafkaVars, monitorVars,
                 main, live, shutdown, tasks, exit_status>>

-----------------------------------------------------------------------------
(* main                                                                    *)

\* Loading, construction and binding, each of which may fail.
startup_fails ==
  /\ main = "start"
  /\ main' = "exited"
  /\ exit_status' = 1
  /\ UNCHANGED <<gateVars, kafkaVars, monitorVars, grpcVars, live, shutdown, tasks, failed>>

spawn_components ==
  /\ main = "start"
  /\ tasks' = [c \in Components |-> "running"]
  /\ grpc' = "start"
  /\ IF kafka_readiness
       THEN main' = "select" /\ monitor' = "select"
       ELSE main' = "ready_store" /\ UNCHANGED monitor
  /\ UNCHANGED <<gateVars, kafkaVars, hysteresis, sample, serving,
                 live, shutdown, failed, exit_status>>

\* set_ready(true), for a daemon whose readiness does not depend on Kafka.
ready_store ==
  /\ main = "ready_store"
  /\ set_ready_store(TRUE)
  /\ main' = "ready_send"
  /\ UNCHANGED <<kafkaVars, monitorVars, grpcVars, live, shutdown, tasks, failed, exit_status>>

ready_send ==
  /\ main = "ready_send"
  /\ set_ready_send(TRUE)
  /\ main' = "select"
  /\ UNCHANGED <<kafkaVars, monitorVars, grpcVars, live, shutdown, tasks, failed, exit_status>>

\* A component ends; before the shutdown this is a failure, even without error.
component_ends(c) ==
  /\ tasks[c] = "running"
  /\ tasks' = [tasks EXCEPT ![c] = "done"]
  /\ failed' = (failed \/ ~shutdown)
  /\ UNCHANGED <<gateVars, kafkaVars, monitorVars, grpcVars, main, live, shutdown, exit_status>>

Begins ==
  /\ main = "select"
  /\ main' = "drain_store"
  /\ UNCHANGED <<gateVars, kafkaVars, monitorVars, grpcVars,
                 live, shutdown, tasks, failed, exit_status>>

shutdown_signal == Begins

join_next ==
  /\ grpc = "done" \/ \E c \in Components : tasks[c] = "done"
  /\ Begins

\* drain_components, up to the deadline: set_ready(false), send(true), join.
drain_store ==
  /\ main = "drain_store"
  /\ set_ready_store(FALSE)
  /\ main' = "drain_send"
  /\ UNCHANGED <<kafkaVars, monitorVars, grpcVars, live, shutdown, tasks, failed, exit_status>>

drain_send ==
  /\ main = "drain_send"
  /\ set_ready_send(FALSE)
  /\ main' = "drain_shutdown"
  /\ UNCHANGED <<kafkaVars, monitorVars, grpcVars, live, shutdown, tasks, failed, exit_status>>

drain_shutdown ==
  /\ main = "drain_shutdown"
  /\ shutdown' = TRUE
  /\ main' = "drain_join"
  /\ UNCHANGED <<gateVars, kafkaVars, monitorVars, grpcVars, live, tasks, failed, exit_status>>

Drained ==
  /\ \A c \in Components : tasks[c] = "done"
  /\ grpc = "done"
  /\ monitor \in {"new", "done"}

drained ==
  /\ main = "drain_join"
  /\ Drained
  /\ main' = "drain_live"
  /\ UNCHANGED <<gateVars, kafkaVars, monitorVars, grpcVars,
                 live, shutdown, tasks, failed, exit_status>>

\* Mutant: the deadline passes only when there is nothing left to abort.
DeadlineWaits == drained

\* abort_all drops a task at its next await; set_ready has none.
deadline ==
  /\ main = "drain_join"
  /\ ~Drained
  /\ tasks' = [c \in Components |-> IF tasks[c] = "running" THEN "aborted" ELSE tasks[c]]
  /\ grpc' = "done"
  /\ monitor' = IF monitor = "select" THEN "done" ELSE monitor
  /\ main' = "drain_live"
  /\ UNCHANGED <<gateVars, kafkaVars, hysteresis, sample, serving,
                 live, shutdown, failed, exit_status>>

\* set_live(false), and main returns Ok(()), which ends what is left of the tasks.
drain_live ==
  /\ main = "drain_live"
  /\ live' = FALSE
  /\ main' = "exited"
  /\ exit_status' = 0
  /\ monitor' = "done"
  /\ UNCHANGED <<gateVars, kafkaVars, hysteresis, grpcVars, shutdown, tasks, failed>>

-----------------------------------------------------------------------------
MainStep ==
  \/ spawn_components \/ ready_store \/ ready_send
  \/ join_next \/ drain_store \/ drain_send \/ drain_shutdown
  \/ drained \/ deadline \/ drain_live

MonitorStep == monitor_tick \/ monitor_store \/ monitor_send \/ monitor_shutdown

GrpcStep ==
  grpc_is_ready \/ grpc_initial \/ grpc_subscribe \/ grpc_changed \/ grpc_report

KafkaStep == mark_healthy \/ mark_unhealthy \/ goes_stale

Next ==
  \/ MainStep
  \/ MonitorStep
  \/ GrpcStep
  \/ KafkaStep
  \/ startup_fails
  \/ shutdown_signal
  \/ grpc_ends
  \/ \E c \in Components : component_ends(c)

Spec == Init /\ [][Next]_vars

\* The runtime polls main, the monitor and the gRPC server; timers fire.  A
\* component that hangs never ends by itself.
Fairness ==
  /\ WF_vars(MainStep)
  /\ WF_vars(MonitorStep)
  /\ WF_vars(GrpcStep)

FairSpec == Spec /\ Fairness

-----------------------------------------------------------------------------
(* Properties                                                              *)

Draining == main \in {"drain_send", "drain_shutdown", "drain_join", "drain_live", "exited"}

\* Once drain_components has withdrawn readiness, /health/ready does not report
\* the daemon as ready again.  (drain_components; OPERATIONS.md: "the daemon has
\* not begun shutdown".)
DrainIsUnready == Draining /\ main # "exited" => ~ready

\* A component that ends early brings the daemon down, even if others hang.
\* (main and drain_components; ARCHITECTURE.md: "supervisor initiates process
\* shutdown".)
FailureEndsDaemon == failed ~> main = "exited"

\* The gRPC health service keeps coming back to what /health/ready reports.
\* (serve_grpc, monitor_grpc_health; PROTOCOLS.md: "from the daemon readiness
\* gate".)
GrpcAgrees == Subscribed ~> (serving = ready \/ Draining)

\* It holds while the monitor sends the gate again and again, which makes up for
\* a change between serve_grpc's sample and its subscription.
\* (monitor_kafka_readiness, send_replace.)
MonitoredGrpcAgrees ==
  kafka_readiness /\ Subscribed ~> (serving = ready \/ Draining)

\* Kafka that stays healthy makes and keeps the daemon ready, and Kafka that
\* stays unhealthy makes it unready.  (monitor_kafka_readiness.)
ReadyFollowsKafka ==
  /\ <>[](kafka_readiness /\ is_healthy) => <>[](ready \/ main # "select")
  /\ <>[](kafka_readiness /\ ~is_healthy) => <>[](~ready \/ main # "select")

\* A daemon that a component's failure has ended says so in its exit status.
\* (main; the unit "restarts on failure", OPERATIONS.md.)
FailureIsReported == main = "exited" /\ failed => exit_status # 0

=============================================================================
