----------------------------- MODULE KafkaIngest -----------------------------
(***************************************************************************)
(* The Kafka consumer loop (router-kafka/src/ingestor.rs) with the durable *)
(* webhook sink it awaits before it commits a source offset                *)
(* (DurableWebhookSink::persist, router-webhook/src/durable.rs).           *)
(*                                                                         *)
(* A record's offset is its place in its partition, counted from 1; a      *)
(* committed offset o says that the group wants o + 1 next.  Of a record   *)
(* only two things matter: whether decode_message accepts it, and which    *)
(* durable destinations its metadata matches.  dispatch is the routing     *)
(* core's; here it fills the channels of the durable destinations, which   *)
(* nobody but the sink reads.                                              *)
(***************************************************************************)
EXTENDS Integers, Sequences, FiniteSets

CONSTANTS
  Partitions,
  Destinations,             \* durable webhook destinations
  queue_capacity,           \* of their channels
  commit_invalid_messages,
  MaxRecords,               \* bound: records of a partition
  MaxFaults                 \* bound: crashes, stops, rebalances, failed Kafka calls

ASSUME IngestAssumption ==
  /\ Partitions # {}
  /\ queue_capacity \in Nat \ {0}
  /\ commit_invalid_messages \in BOOLEAN
  /\ MaxRecords \in Nat
  /\ MaxFaults \in Nat

VARIABLES
  source,      \* partition -> its records
  committed,   \* partition -> the group's committed offset
  commits,     \* offset commits under way, oldest first
  assigned,    \* partitions assigned to the consumer: all or none
  position,    \* partition -> last offset received
  pc,          \* "recv", "persist" or "stopped"
  record,      \* the record in hand
  todo,        \* destinations it has still to be persisted for
  queue,       \* destination -> deliveries in its channel
  persisted,   \* durable commands written: <<record, destination>>
  faults

brokerVars == <<source, committed, commits, persisted>>
consumerVars == <<assigned, position>>
loopVars == <<pc, record, todo, queue>>
vars == <<brokerVars, consumerVars, loopVars, faults>>

-----------------------------------------------------------------------------
Record == [valid : {TRUE}, destinations : SUBSET Destinations]
            \cup [valid : {FALSE}, destinations : {{}}]

Cursor == [partition : Partitions, offset : Nat]

At(p, o) == [partition |-> p, offset |-> o]

SourceRecord(r) == source[r.partition][r.offset]

NoRecord == At(CHOOSE p \in Partitions : TRUE, 0)

Empty == [d \in Destinations |-> <<>>]

Init ==
  /\ source \in [Partitions -> UNION {[1..n -> Record] : n \in 0..MaxRecords}]
  /\ committed = [p \in Partitions |-> 0]
  /\ commits = <<>>
  /\ assigned = {}
  /\ position = [p \in Partitions |-> 0]
  /\ pc = "recv"
  /\ record = NoRecord
  /\ todo = {}
  /\ queue = Empty
  /\ persisted = {}
  /\ faults = 0

Fault ==
  /\ faults < MaxFaults
  /\ faults' = faults + 1

-----------------------------------------------------------------------------
(* The consumer group                                                      *)

\* Rebalance::Assign: the consumer starts at the group's offsets.  Every node
\* has a group of its own, so it is assigned every partition.
rebalance_assign ==
  /\ assigned = {}
  /\ assigned' = Partitions
  /\ position' = committed
  /\ UNCHANGED <<brokerVars, loopVars, faults>>

\* Rebalance::Revoke and Rebalance::Error.
rebalance_revoke ==
  /\ assigned # {}
  /\ Fault
  /\ assigned' = {}
  /\ UNCHANGED <<brokerVars, position, loopVars>>

\* The broker answers the oldest commit; commit_callback only counts failures.
commit_callback ==
  /\ commits # <<>>
  /\ commits' = Tail(commits)
  /\ \/ /\ committed' = [committed EXCEPT ![Head(commits).partition] = Head(commits).offset]
        /\ UNCHANGED faults
     \/ UNCHANGED committed /\ Fault
  /\ UNCHANGED <<source, persisted, consumerVars, loopVars>>

-----------------------------------------------------------------------------
(* run                                                                     *)

Receives(p) ==
  /\ pc = "recv"
  /\ p \in assigned
  /\ position[p] < Len(source[p])
  /\ position' = [position EXCEPT ![p] = @ + 1]

Received(p) == At(p, position[p] + 1)

\* Mutant: the last place of a channel is never used.
DispatchShort(r) ==
  queue' = [d \in Destinations |->
              IF d \in SourceRecord(r).destinations /\ Len(queue[d]) + 1 < queue_capacity
                THEN Append(queue[d], r) ELSE queue[d]]

\* Router::dispatch: try_send into the channel of every destination matched.
dispatch(r) ==
  queue' = [d \in Destinations |->
              IF d \in SourceRecord(r).destinations /\ Len(queue[d]) < queue_capacity
                THEN Append(queue[d], r) ELSE queue[d]]

\* commit_message with CommitMode::Async; a request that cannot be enqueued is
\* only counted.
commit_message(r) ==
  \/ commits' = Append(commits, r) /\ UNCHANGED faults
  \/ UNCHANGED commits /\ Fault

\* Mutant: the offset is committed when the record is dispatched.
ReceiveAndCommit(p) ==
  /\ Receives(p)
  /\ SourceRecord(Received(p)).valid
  /\ dispatch(Received(p))
  /\ record' = Received(p)
  /\ todo' = SourceRecord(Received(p)).destinations
  /\ pc' = "persist"
  /\ commits' = Append(commits, Received(p))
  /\ UNCHANGED <<source, committed, assigned, persisted, faults>>

receive_valid(p) ==
  /\ Receives(p)
  /\ SourceRecord(Received(p)).valid
  /\ dispatch(Received(p))
  /\ record' = Received(p)
  /\ todo' = SourceRecord(Received(p)).destinations
  /\ pc' = "persist"
  /\ UNCHANGED <<brokerVars, assigned, faults>>

\* An invalid record is committed if so configured; otherwise the consumer
\* stops "so a later commit cannot skip an invalid record".
receive_invalid(p) ==
  /\ Receives(p)
  /\ ~SourceRecord(Received(p)).valid
  /\ IF commit_invalid_messages
       THEN commit_message(Received(p)) /\ UNCHANGED pc
       ELSE pc' = "stopped" /\ UNCHANGED <<commits, faults>>
  /\ UNCHANGED <<source, committed, persisted, assigned, record, todo, queue>>

\* DurableWebhookSink::persist takes the delivery dispatch has just queued.  The
\* destinations are served one after the other; no property depends on the order.
Takes(d) ==
  /\ pc = "persist"
  /\ d \in todo
  /\ queue[d] # <<>>
  /\ queue' = [queue EXCEPT ![d] = Tail(@)]

\* A delivery of another message is an error, which ends the loop.
persist(d) ==
  /\ Takes(d)
  /\ IF Head(queue[d]) = record
       THEN /\ persisted' = persisted \cup {<<record, d>>}
            /\ todo' = todo \ {d}
            /\ UNCHANGED pc
       ELSE pc' = "stopped" /\ UNCHANGED <<persisted, todo>>
  /\ UNCHANGED <<source, committed, commits, consumerVars, record, faults>>

\* A publication that fails may have reached the topic; the loop ends before
\* the source offset is committed.
persist_fails(d) ==
  /\ Takes(d)
  /\ Head(queue[d]) = record
  /\ Fault
  /\ UNCHANGED persisted \/ persisted' = persisted \cup {<<record, d>>}
  /\ pc' = "stopped"
  /\ UNCHANGED <<source, committed, commits, consumerVars, record, todo>>

commit_source ==
  /\ pc = "persist"
  /\ todo = {}
  /\ commit_message(record)
  /\ pc' = "recv"
  /\ UNCHANGED <<source, committed, persisted, consumerVars, record, todo, queue>>

\* The shutdown watch is looked at between records.
shutdown ==
  /\ pc = "recv"
  /\ Fault
  /\ pc' = "stopped"
  /\ UNCHANGED <<brokerVars, consumerVars, record, todo, queue>>

-----------------------------------------------------------------------------
(* The process                                                             *)

\* A new process: channels and commits under way are gone.
Restarted ==
  /\ commits' = <<>>
  /\ assigned' = {}
  /\ pc' = "recv"
  /\ record' = NoRecord
  /\ todo' = {}
  /\ queue' = Empty
  /\ UNCHANGED <<source, committed, position, persisted>>

crash == Fault /\ Restarted

\* The consumer's end brings the daemon down; its supervisor starts it again.
restart ==
  /\ pc = "stopped"
  /\ Restarted
  /\ UNCHANGED faults

LoopStep ==
  \/ \E d \in Destinations : persist(d)
  \/ commit_source

Next ==
  \/ rebalance_assign
  \/ rebalance_revoke
  \/ commit_callback
  \/ \E p \in Partitions : receive_valid(p) \/ receive_invalid(p)
  \/ LoopStep
  \/ \E d \in Destinations : persist_fails(d)
  \/ shutdown
  \/ crash
  \/ restart

Spec == Init /\ [][Next]_vars

-----------------------------------------------------------------------------
(* Properties                                                              *)

\* Every variable has its type, and no offset passes the end of its partition.
\* (The locals of run, the consumer's positions and the group's offsets.)
TypeOK ==
  /\ source \in [Partitions -> Seq(Record)]
  /\ committed \in [Partitions -> Nat]
  /\ commits \in Seq(Cursor)
  /\ assigned \subseteq Partitions
  /\ position \in [Partitions -> Nat]
  /\ pc \in {"recv", "persist", "stopped"}
  /\ record \in Cursor
  /\ todo \subseteq Destinations
  /\ queue \in [Destinations -> Seq(Cursor)]
  /\ persisted \subseteq Cursor \X Destinations
  /\ faults \in 0..MaxFaults
  /\ \A p \in Partitions : committed[p] <= Len(source[p]) /\ position[p] <= Len(source[p])

\* A record whose side effects are written, or that may be left out.
Handled(p, o) ==
  LET r == source[p][o]
  IN  IF r.valid THEN \A d \in r.destinations : <<At(p, o), d>> \in persisted
                 ELSE commit_invalid_messages

\* The group's offset never passes a record whose durable commands are not all
\* acknowledged, nor an invalid one unless so configured, although commits are
\* cumulative, asynchronous, lost and applied late.  (PreCommitSink: "A durable
\* side effect that must be acknowledged before a source offset is committed".)
CommittedIsHandled ==
  \A p \in Partitions : \A o \in 1..committed[p] : Handled(p, o)

\* When persist awaits a destination's channel, the delivery it waits for is
\* the first one there: it neither blocks the consumer nor reports a mismatch.
\* (dispatch and persist agree on the destinations, and every earlier message
\* was taken out or ended the process.)
PersistNeverWaits ==
  pc = "persist" => \A d \in todo : queue[d] # <<>> /\ Head(queue[d]) = record

=============================================================================
