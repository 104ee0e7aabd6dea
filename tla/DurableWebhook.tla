---------------------------- MODULE DurableWebhook ----------------------------
(***************************************************************************)
(* Durable webhook delivery (router-webhook/src/durable.rs).               *)
(*                                                                         *)
(* Commands, retries and dead letters are records of three Kafka topics.   *)
(* One DurableWorker per destination reads the first two with a consumer   *)
(* group of its own, makes one HTTP attempt at a time, and writes the next *)
(* retry or the dead letter before it commits its input.                   *)
(*                                                                         *)
(* Every topic has one partition here.  Records are keyed by destination,  *)
(* so the records of one destination share a partition anyway; the other   *)
(* destinations' records in it are the ones a worker must skip.  An offset *)
(* is the number of records before and including it: 0 is the beginning.   *)
(* Delays before a retry are left out: an attempt may happen at any time.  *)
(* A graceful stop interrupts a worker where a crash could, so a crash     *)
(* stands for both.                                                        *)
(***************************************************************************)
EXTENDS Integers, Sequences, FiniteSets

CONSTANTS
  Destinations,          \* configured destination ids
  max_attempts,
  max_recovery_records,
  None,                  \* no record in hand
  MaxCommands,           \* bound: commands ever persisted
  MaxFaults,             \* bound: crashes, Kafka calls that fail, records refused
  MaxReplays,            \* bound: dead letters replayed by an operator
  MaxTight               \* bound: commands just short enough to be published

ASSUME DurableAssumption ==
  /\ max_attempts \in Nat
  /\ max_recovery_records \in Nat
  /\ MaxCommands \in Nat
  /\ MaxFaults \in Nat
  /\ MaxReplays \in Nat
  /\ MaxTight \in Nat

VARIABLES
  log,             \* topic -> sequence of records
  committed,       \* destination -> topic -> offset committed by its group
  position,        \* destination -> topic -> offset received by its consumer
  pc,              \* destination -> what its worker is doing
  phase,           \* ... the loop it returns to: "recover" or "run"
  record,          \* ... the DurableRecord being processed
  input,           \* ... the RecordCursor it was read at
  input_committed, \* ... whether that cursor is committed already
  completed,       \* ... delivery ids finished by this process
  recovered,       \* ... own records seen by recover_retries
  commands,        \* delivery ids drawn so far
  attempts,        \* history: delivery id -> attempts made by this process
  attempted,       \* history: delivery ids ever attempted
  owed,            \* history: delivery ids that have no outcome yet
  replays,
  faults

topicVars == <<log, commands, replays>>
workVars == <<phase, record, input, input_committed>>
memoryVars == <<completed, recovered>>
historyVars == <<attempts, attempted, owed>>
vars == <<topicVars, committed, position, pc, workVars, memoryVars,
          historyVars, faults>>

-----------------------------------------------------------------------------
Topics == {"delivery", "retry", "dead_letter"}

Inputs == {"delivery", "retry"}

DeliveryIds == 1..MaxCommands

\* A tight record fits into max_record_bytes as a command, and not with the
\* error class that a retry and a dead letter carry as well.
DurableRecord(id, d, attempt, tight) ==
  [delivery_id |-> id, destination_id |-> d, attempt |-> attempt, tight |-> tight]

TightCommands == {o \in 1..Len(log["delivery"]) : log["delivery"][o].tight}

NoInput == [topic |-> "delivery", offset |-> 0]

Start == [t \in Inputs |-> 0]

Init ==
  /\ log = [t \in Topics |-> <<>>]
  /\ committed = [d \in Destinations |-> Start]
  /\ position = [d \in Destinations |-> Start]
  /\ pc = [d \in Destinations |-> "recover"]
  /\ phase = [d \in Destinations |-> "recover"]
  /\ record = [d \in Destinations |-> None]
  /\ input = [d \in Destinations |-> NoInput]
  /\ input_committed = [d \in Destinations |-> FALSE]
  /\ completed = [d \in Destinations |-> {}]
  /\ recovered = [d \in Destinations |-> 0]
  /\ commands = 0
  /\ attempts = [i \in DeliveryIds |-> 0]
  /\ attempted = {}
  /\ owed = {}
  /\ replays = 0
  /\ faults = 0

-----------------------------------------------------------------------------
(* Kafka                                                                   *)

Published(t, r) == log' = [log EXCEPT ![t] = Append(@, r)]

\* commit_cursor: the group's offset for the input's topic.
Committed(d, cursor) ==
  committed' = [committed EXCEPT ![d][cursor.topic] = cursor.offset]

Fault ==
  /\ faults < MaxFaults
  /\ faults' = faults + 1

Goto(d, label) == pc' = [pc EXCEPT ![d] = label]

\* An error returned by run ends the worker, and with it the daemon.
Fails(d) == Fault /\ Goto(d, "failed")

-----------------------------------------------------------------------------
(* Writers of the delivery topic                                           *)

\* A command for d reaches the delivery topic.
command_written(d, tight) ==
  /\ commands < MaxCommands
  /\ tight => Cardinality(TightCommands) < MaxTight
  /\ commands' = commands + 1
  /\ Published("delivery", DurableRecord(commands + 1, d, 1, tight))
  /\ owed' = owed \cup {commands + 1}
  /\ UNCHANGED <<replays, committed, position, pc, workVars, memoryVars,
                 attempts, attempted>>

\* DurableWebhookSink::persist, for one destination the message matches.
persist(d, tight) == command_written(d, tight) /\ UNCHANGED faults

\* An operator replays a dead letter: the record unchanged, its attempt 1.  Its
\* command has had an outcome and is not owed another.
replay_dead_letter(i) ==
  /\ replays < MaxReplays
  /\ replays' = replays + 1
  /\ Published("delivery", [log["dead_letter"][i] EXCEPT !.attempt = 1])
  /\ UNCHANGED <<commands, committed, position, pc, workVars, memoryVars,
                 attempts, attempted, owed, faults>>

-----------------------------------------------------------------------------
(* The receive loops of run and recover_retries                            *)

\* recv in the worker's current loop: recovery reads the retry topic only.
Receives(d, t) ==
  /\ \/ pc[d] = "recover" /\ t = "retry"
     \/ pc[d] = "run"
  /\ position[d][t] < Len(log[t])
  /\ position' = [position EXCEPT ![d][t] = @ + 1]

Received(d, t) == log[t][position[d][t] + 1]

Cursor(d, t) == [topic |-> t, offset |-> position[d][t] + 1]

Own(d, t) == Received(d, t).destination_id = d

\* Own records count against the limit in recover_retries only.
Recovering(d, t) == pc[d] = "recover" /\ Own(d, t)

Recovered(d, t) ==
  recovered' = IF Recovering(d, t) THEN [recovered EXCEPT ![d] = @ + 1]
                                   ELSE recovered

RecoveryFull(d, t) == Recovering(d, t) /\ recovered[d] >= max_recovery_records

\* Mutant: completed deliveries are processed again.
SkipForeignOnly(d, t) == ~Own(d, t)

Skippable(d, t) ==
  ~Own(d, t) \/ Received(d, t).delivery_id \in completed[d]

\* Another destination's record, or one already finished: commit and go on.
skip(d, t) ==
  /\ Receives(d, t)
  /\ ~RecoveryFull(d, t)
  /\ Skippable(d, t)
  /\ Recovered(d, t)
  /\ \/ Committed(d, Cursor(d, t)) /\ UNCHANGED <<pc, faults>>
     \/ Committed(d, Cursor(d, t)) /\ Fails(d)
     \/ UNCHANGED committed /\ Fails(d)
  /\ UNCHANGED <<topicVars, workVars, completed, historyVars>>

\* Mutant: the input is committed when it is received.
TakeAndCommit(d, t) ==
  /\ Receives(d, t)
  /\ ~RecoveryFull(d, t)
  /\ ~Skippable(d, t)
  /\ Recovered(d, t)
  /\ Goto(d, "attempt")
  /\ record' = [record EXCEPT ![d] = Received(d, t)]
  /\ Committed(d, Cursor(d, t))
  /\ input' = [input EXCEPT ![d] = Cursor(d, t)]
  /\ input_committed' = [input_committed EXCEPT ![d] = TRUE]
  /\ UNCHANGED <<topicVars, phase, completed, historyVars, faults>>

\* process begins.
take(d, t) ==
  /\ Receives(d, t)
  /\ ~RecoveryFull(d, t)
  /\ ~Skippable(d, t)
  /\ Recovered(d, t)
  /\ Goto(d, "attempt")
  /\ record' = [record EXCEPT ![d] = Received(d, t)]
  /\ input' = [input EXCEPT ![d] = Cursor(d, t)]
  /\ input_committed' = [input_committed EXCEPT ![d] = FALSE]
  /\ UNCHANGED <<topicVars, committed, phase, completed, historyVars, faults>>

\* Recovery has seen too many records of its own.
recover_exceeded(d) ==
  /\ Receives(d, "retry")
  /\ RecoveryFull(d, "retry")
  /\ Recovered(d, "retry")
  /\ Goto(d, "failed")
  /\ UNCHANGED <<topicVars, committed, workVars, completed, historyVars, faults>>

\* Mutant: the delivery topic is read at once, before any retry.
RecoveryEndsAtOnce(d) == TRUE

\* PartitionEOF: no retry is left beyond the position.
RecoveryEnds(d) == position[d]["retry"] = Len(log["retry"])

\* run subscribes to both topics: the group's offsets are fetched anew.
recover_eof(d) ==
  /\ pc[d] = "recover"
  /\ RecoveryEnds(d)
  /\ Goto(d, "run")
  /\ phase' = [phase EXCEPT ![d] = "run"]
  /\ position' = [position EXCEPT ![d] = committed[d]]
  /\ UNCHANGED <<topicVars, committed, record, input, input_committed,
                 memoryVars, historyVars, faults>>

recover_error(d) ==
  /\ pc[d] = "recover"
  /\ Fails(d)
  /\ UNCHANGED <<topicVars, committed, position, workVars, memoryVars,
                 historyVars>>

-----------------------------------------------------------------------------
(* process                                                                 *)

FailureClass ==
  {"timeout", "connect", "request", "http_429", "http_5xx", "permanent_http", "client"}

should_retry(class) ==
  class \in {"timeout", "connect", "request", "http_429", "http_5xx"}

RetriesLeft(r) == r.attempt < max_attempts

Attempted(d) ==
  LET id == record[d].delivery_id
  IN  /\ pc[d] = "attempt"
      /\ attempts' = [attempts EXCEPT ![id] = @ + 1]
      /\ attempted' = attempted \cup {id}
      /\ UNCHANGED <<topicVars, committed, position, phase, input,
                     input_committed, memoryVars, faults>>

\* A 2xx answer.
attempt_delivered(d) ==
  /\ Attempted(d)
  /\ Goto(d, "finish")
  /\ owed' = owed \ {record[d].delivery_id}
  /\ UNCHANGED record

\* A failure worth another attempt, with attempts left.
attempt_retry(d, class) ==
  /\ Attempted(d)
  /\ should_retry(class) /\ RetriesLeft(record[d])
  /\ Goto(d, "publish_retry")
  /\ record' = [record EXCEPT ![d].attempt = @ + 1]
  /\ UNCHANGED owed

\* Any other failure.
attempt_dead(d, class) ==
  /\ Attempted(d)
  /\ ~(should_retry(class) /\ RetriesLeft(record[d]))
  /\ Goto(d, "publish_dead")
  /\ UNCHANGED <<record, owed>>

publish_retry(d) ==
  /\ pc[d] = "publish_retry" /\ ~record[d].tight
  /\ Published("retry", record[d])
  /\ Goto(d, IF input_committed[d] THEN "attempt" ELSE "commit_retry")
  /\ UNCHANGED <<commands, replays, committed, position, workVars, memoryVars,
                 historyVars, faults>>

commit_retry(d) ==
  /\ pc[d] = "commit_retry"
  /\ Committed(d, input[d])
  /\ input_committed' = [input_committed EXCEPT ![d] = TRUE]
  /\ Goto(d, "attempt")
  /\ UNCHANGED <<topicVars, position, phase, record, input, memoryVars,
                 historyVars, faults>>

publish_dead(d) ==
  /\ pc[d] = "publish_dead" /\ ~record[d].tight
  /\ Published("dead_letter", record[d])
  /\ owed' = owed \ {record[d].delivery_id}
  /\ Goto(d, "finish")
  /\ UNCHANGED <<commands, replays, committed, position, workVars, memoryVars,
                 attempts, attempted, faults>>

\* publish_record refuses a record that is too long before it is sent, which
\* ends the worker like any error.  It would do so after every restart, while
\* the other workers' interrupted retries fill the retry topic: the bound on
\* faults also bounds this.
publish_oversized(d) ==
  /\ pc[d] \in {"publish_retry", "publish_dead"} /\ record[d].tight
  /\ Fails(d)
  /\ UNCHANGED <<topicVars, committed, position, workVars, memoryVars, historyVars>>

\* An unacknowledged publication may or may not be in the topic.
publish_fails(d) ==
  /\ pc[d] \in {"publish_retry", "publish_dead"} /\ ~record[d].tight
  /\ Fails(d)
  /\ \/ UNCHANGED log
     \/ Published(IF pc[d] = "publish_retry" THEN "retry" ELSE "dead_letter", record[d])
  /\ UNCHANGED <<commands, replays, committed, position, workVars, memoryVars,
                 historyVars>>

\* remember_completed: a full set refuses a new delivery id.
CompletedFull(d) ==
  /\ Cardinality(completed[d]) >= max_recovery_records
  /\ record[d].delivery_id \notin completed[d]

\* The input is committed if it still has to be, then the id remembered.
finish(d) ==
  /\ pc[d] = "finish"
  /\ IF input_committed[d] THEN UNCHANGED committed ELSE Committed(d, input[d])
  /\ IF CompletedFull(d)
       THEN Goto(d, "failed") /\ UNCHANGED completed
       ELSE /\ Goto(d, phase[d])
            /\ completed' = [completed EXCEPT ![d] = @ \cup {record[d].delivery_id}]
  /\ UNCHANGED <<topicVars, position, workVars, recovered, historyVars, faults>>

commit_fails(d) ==
  /\ pc[d] \in {"commit_retry", "finish"}
  /\ ~input_committed[d]
  /\ Fails(d)
  /\ UNCHANGED committed \/ Committed(d, input[d])
  /\ UNCHANGED <<topicVars, position, workVars, memoryVars, historyVars>>

-----------------------------------------------------------------------------
(* The process                                                             *)

\* A new process: memory is gone, the consumers start at the group's offsets.
Restarted ==
  /\ position' = committed
  /\ pc' = [d \in Destinations |-> "recover"]
  /\ phase' = [d \in Destinations |-> "recover"]
  /\ record' = [d \in Destinations |-> None]
  /\ input' = [d \in Destinations |-> NoInput]
  /\ input_committed' = [d \in Destinations |-> FALSE]
  /\ completed' = [d \in Destinations |-> {}]
  /\ recovered' = [d \in Destinations |-> 0]
  /\ attempts' = [i \in DeliveryIds |-> 0]
  /\ UNCHANGED <<topicVars, committed, attempted, owed>>

crash == Fault /\ Restarted

\* A failed worker brings the daemon down; its supervisor starts it again.
restart ==
  /\ \E d \in Destinations : pc[d] = "failed"
  /\ Restarted
  /\ UNCHANGED faults

ReceiveStep(d) ==
  \/ \E t \in Inputs : skip(d, t) \/ take(d, t)
  \/ recover_exceeded(d)
  \/ recover_eof(d)

ProcessStep(d) ==
  \/ attempt_delivered(d)
  \/ \E class \in FailureClass : attempt_retry(d, class) \/ attempt_dead(d, class)
  \/ publish_retry(d) \/ commit_retry(d) \/ publish_dead(d) \/ finish(d)

FaultStep(d) ==
  recover_error(d) \/ publish_oversized(d) \/ publish_fails(d) \/ commit_fails(d)

Next ==
  \/ \E d \in Destinations :
       \/ \E tight \in BOOLEAN : persist(d, tight)
       \/ ReceiveStep(d) \/ ProcessStep(d) \/ FaultStep(d)
  \/ \E i \in 1..Len(log["dead_letter"]) : replay_dead_letter(i)
  \/ crash
  \/ restart

Spec == Init /\ [][Next]_vars

\* Workers keep running, and a supervisor restarts a daemon that has stopped.
Fairness ==
  /\ \A d \in Destinations : WF_vars(ReceiveStep(d) \/ ProcessStep(d))
  /\ WF_vars(restart)

FairSpec == Spec /\ Fairness

-----------------------------------------------------------------------------
(* Properties                                                              *)

AttemptLimit == IF max_attempts = 0 THEN 1 ELSE max_attempts

Record ==
  [delivery_id : DeliveryIds, destination_id : Destinations, attempt : 1..AttemptLimit,
   tight : BOOLEAN]

\* Every variable has its type; in particular no record ever carries an
\* attempt beyond the configured limit, and no group's offset passes the end
\* of its topic.  (DurableRecord, RecordCursor and the locals of process.)
TypeOK ==
  /\ log \in [Topics -> Seq(Record)]
  /\ committed \in [Destinations -> [Inputs -> Nat]]
  /\ position \in [Destinations -> [Inputs -> Nat]]
  /\ \A d \in Destinations, t \in Inputs :
       committed[d][t] <= Len(log[t]) /\ position[d][t] <= Len(log[t])
  /\ pc \in [Destinations -> {"recover", "run", "attempt", "publish_retry",
                              "commit_retry", "publish_dead", "finish", "failed"}]
  /\ phase \in [Destinations -> {"recover", "run"}]
  /\ record \in [Destinations -> Record \cup {None}]
  /\ input \in [Destinations -> [topic : Inputs, offset : Nat]]
  /\ input_committed \in [Destinations -> BOOLEAN]
  /\ completed \in [Destinations -> SUBSET DeliveryIds]
  /\ recovered \in [Destinations -> Nat]
  /\ commands \in 0..MaxCommands
  /\ attempts \in [DeliveryIds -> Nat]
  /\ attempted \subseteq DeliveryIds
  /\ owed \subseteq DeliveryIds
  /\ replays \in 0..MaxReplays
  /\ faults \in 0..MaxFaults

\* A command without an outcome, 2xx or dead letter, is still ahead of its
\* group's offset in the delivery or the retry topic, so that whatever crashes
\* a worker of its destination will meet it again.  (process and commit_cursor;
\* docs/adr/0005: "There is no acknowledged-command loss window".)
NoCommandLost ==
  \A id \in owed : \E t \in Inputs : \E o \in 1..Len(log[t]) :
    /\ log[t][o].delivery_id = id
    /\ committed[log[t][o].destination_id][t] < o

\* One process makes at most max_attempts requests for a delivery id, although
\* the retry topic holds a copy of the command for every one of its retries and
\* a restart may leave several of them uncommitted.  (The completed set.)
AttemptsBounded == \A i \in DeliveryIds : attempts[i] <= AttemptLimit

\* A destination's commands are begun in order: when one has been attempted,
\* every one written before it has its outcome, over any number of restarts.
\* (recover_retries finishes the retries before run reads the delivery topic.)
InOrder ==
  \A j \in 1..Len(log["delivery"]) : \A i \in 1..(j - 1) :
    LET earlier == log["delivery"][i]
        later == log["delivery"][j]
    IN  /\ earlier.destination_id = later.destination_id
        /\ \A k \in 1..(j - 1) : log["delivery"][k].delivery_id # later.delivery_id
        /\ later.delivery_id \in attempted
        => earlier.delivery_id \notin owed

\* Every command ends with a 2xx answer or a dead letter, provided crashes and
\* failures of Kafka calls cease and no command is too long to be written
\* again: such a one may end its worker, and the daemon, whenever it is read.
EveryCommandEnds ==
  \A i \in DeliveryIds : i \in owed ~> i \notin owed \/ TightCommands # {}

\* A worker exits "when retry recovery exceeds `max_recovery_records`" or a
\* Kafka call fails (docs/WEBHOOK_OPERATIONS.md).
DocumentedExit ==
  \A d \in Destinations :
    pc[d] = "failed" => recovered[d] > max_recovery_records \/ faults > 0

=============================================================================
