------------------------------- MODULE Delivery -------------------------------
(***************************************************************************)
(* One daemon process: the ingestor (KafkaIngest) and the workers of the   *)
(* durable destinations (DurableWebhook), which meet in the delivery       *)
(* topic.  The sink's publication is one step of both; a crash or a        *)
(* restart takes them both down; everything else interleaves.              *)
(*                                                                         *)
(* A source record that is read again becomes a new command, with a new    *)
(* delivery id.                                                            *)
(***************************************************************************)
EXTENDS KafkaIngest

CONSTANTS
  max_attempts,
  max_recovery_records,
  None,
  MaxCommands,           \* bound: commands ever written
  MaxRestarts            \* bound: restarts of a process that has failed

VARIABLES
  \* the workers: see DurableWebhook
  log, w_committed, w_position, w_pc, phase, w_record, input, input_committed,
  completed, recovered, commands, attempts, attempted, owed, replays,
  restarts,
  origin                 \* history: delivery id -> the delivery it is for

W == INSTANCE DurableWebhook
       WITH committed <- w_committed, position <- w_position, pc <- w_pc,
            record <- w_record, MaxReplays <- 0, MaxTight <- 0

ingestVars == <<brokerVars, consumerVars, loopVars>>
workerVars ==
  <<log, w_committed, w_position, w_pc, phase, w_record, input, input_committed, completed,
    recovered, commands, attempts, attempted, owed, replays, origin, restarts>>
deliveryVars == <<vars, workerVars>>

-----------------------------------------------------------------------------
DeliveryInit == Init /\ W!Init /\ origin = <<>> /\ restarts = 0

\* The command of the record in hand for d, as a record of the delivery topic.
command_published(d) ==
  /\ W!command_written(d, FALSE)
  /\ origin' = Append(origin, <<record, d>>)
  /\ UNCHANGED restarts

persist_command(d) ==
  /\ persist(d)
  /\ IF Head(queue[d]) = record THEN command_published(d) ELSE UNCHANGED workerVars

\* A publication that fails has reached the topic or not.
persist_command_fails(d) ==
  /\ persist_fails(d)
  /\ \/ persisted' = persisted \cup {<<record, d>>} /\ command_published(d)
     \/ persisted' = persisted /\ UNCHANGED workerVars

\* The process ends, with everything it holds in memory, and another starts.
process_restarted ==
  /\ Restarted
  /\ W!Restarted
  /\ UNCHANGED origin

process_crashes == Fault /\ process_restarted /\ UNCHANGED restarts

process_fails ==
  /\ pc = "stopped" \/ \E d \in Destinations : w_pc[d] = "failed"
  /\ restarts < MaxRestarts
  /\ restarts' = restarts + 1
  /\ process_restarted
  /\ UNCHANGED faults

Receive(p) == (receive_valid(p) \/ receive_invalid(p)) /\ UNCHANGED workerVars

Assign == rebalance_assign /\ UNCHANGED workerVars

Loop ==
  \/ \E d \in Destinations : persist_command(d)
  \/ commit_source /\ UNCHANGED workerVars

Work(d) == (W!ReceiveStep(d) \/ W!ProcessStep(d)) /\ UNCHANGED <<ingestVars, origin, restarts>>

DeliveryNext ==
  \/ Assign
  \/ rebalance_revoke /\ UNCHANGED workerVars
  \/ commit_callback /\ UNCHANGED workerVars
  \/ \E p \in Partitions : Receive(p)
  \/ Loop
  \/ \E d \in Destinations : persist_command_fails(d)
  \/ shutdown /\ UNCHANGED workerVars
  \/ \E d \in Destinations : Work(d) \/ (W!FaultStep(d) /\ UNCHANGED <<ingestVars, origin, restarts>>)
  \/ process_crashes
  \/ process_fails

DeliverySpec == DeliveryInit /\ [][DeliveryNext]_deliveryVars

\* The broker assigns the partitions again, every partition is fetched from, the
\* loop and the workers run, and a supervisor restarts a daemon that has stopped.
DeliveryFairSpec ==
  /\ DeliverySpec
  /\ WF_deliveryVars(Assign)
  /\ \A p \in Partitions : WF_deliveryVars(Receive(p))
  /\ WF_deliveryVars(Loop)
  /\ \A d \in Destinations : WF_deliveryVars(Work(d))
  /\ WF_deliveryVars(process_fails)

-----------------------------------------------------------------------------
\* The deliveries that have an outcome: one of their commands has.
Settled == {origin[id] : id \in (1..commands) \ owed}

\* Who is to get each record; an invalid one blocks its partition unless it may
\* be passed over.
Demand ==
  [p \in Partitions |->
     [o \in 1..Len(source[p]) |->
        IF source[p][o].valid \/ commit_invalid_messages
          THEN source[p][o].destinations ELSE {None}]]

Promise ==
  INSTANCE AtLeastOnce
    WITH demand <- Demand, accepted <- persisted, settled <- Settled, acknowledged <- committed

\* The process implements AtLeastOnce: whatever fails on either side of the
\* delivery topic, a source offset passes only records whose commands are all
\* written, a command is written only for a record that matches, and only a
\* written delivery gets an outcome.  (run of the ingestor, persist and
\* process; docs/adr/0005.)
KeepsPromise == Promise!Spec

\* Every delivery gets its outcome in the end, from the source topic to the
\* destination and over restarts, unless an invalid record stops the process
\* whenever it is read: the workers are stopped with it.  (run of the ingestor
\* and of the workers.)
EveryDeliverySettled ==
  \A p \in Partitions, o \in 1..MaxRecords, d \in Destinations :
    /\ \A q \in Partitions, i \in 1..MaxRecords :
         i <= Len(source[q]) => source[q][i].valid \/ commit_invalid_messages
    /\ o <= Len(source[p]) /\ d \in source[p][o].destinations
    ~> <<At(p, o), d>> \in Settled

=============================================================================
