------------------------- MODULE DurableWorkerProofs -------------------------
(***************************************************************************)
(* The inductive invariant of the durable webhook workers, their types,    *)
(* what every step does to a worker's own state and that it loses no       *)
(* command, for every number of destinations, commands, attempts, replays  *)
(* and faults.                                                             *)
(***************************************************************************)
EXTENDS DurableWebhook, TLAPS

-----------------------------------------------------------------------------
(* The inductive invariant                                                 *)

InHand(d) == pc[d] \in {"attempt", "publish_retry", "commit_retry", "publish_dead", "finish"}

\* Between records a worker has committed all it has received.
BetweenInv(d) == pc[d] \in {"recover", "run"} => position[d] = committed[d]

\* The record in hand is the last one received, of its own destination, and all
\* that the worker has not committed, if it has not committed that as well.
HandInv(d) ==
  InHand(d) =>
    LET t == input[d].topic
        o == input[d].offset
    IN  /\ record[d] \in Record
        /\ record[d].destination_id = d
        /\ o \in 1..Len(log[t])
        /\ log[t][o].delivery_id = record[d].delivery_id
        /\ log[t][o].destination_id = d
        /\ \A u \in Inputs : u # t => committed[d][u] = position[d][u]
        /\ position[d][t] = o
        /\ committed[d][t] = IF input_committed[d] THEN o ELSE o - 1

\* Once the input of a record in hand is committed, or about to be for a retry,
\* the retry topic holds a copy that the worker has not received.
CopyInv(d) ==
  pc[d] = "commit_retry" \/ (InHand(d) /\ input_committed[d]) =>
    \E o \in 1..Len(log["retry"]) :
      /\ position[d]["retry"] < o
      /\ log["retry"][o].delivery_id = record[d].delivery_id
      /\ log["retry"][o].destination_id = d

\* What is finished is not owed.
FinishedInv(d) ==
  /\ pc[d] = "finish" => record[d].delivery_id \notin owed
  /\ completed[d] \cap owed = {}

WorkerInv(d) == BetweenInv(d) /\ HandInv(d) /\ CopyInv(d) /\ FinishedInv(d)

\* Delivery ids are drawn one after the other.
IdsInv ==
  /\ owed \subseteq 1..commands
  /\ \A d \in Destinations : completed[d] \subseteq 1..commands
  /\ \A d \in Destinations : InHand(d) => record[d].delivery_id \in 1..commands
  /\ \A t \in Topics : \A o \in 1..Len(log[t]) : log[t][o].delivery_id \in 1..commands

IInv ==
  /\ TypeOK
  /\ IdsInv
  /\ \A d \in Destinations : WorkerInv(d)
  /\ NoCommandLost

-----------------------------------------------------------------------------
(* Lemmas                                                                  *)

\* Publishing adds one record at the end of one topic.
LEMMA PublishedLog ==
  ASSUME TypeOK, NEW t \in Topics, NEW r \in Record, Published(t, r)
  PROVE  /\ log' \in [Topics -> Seq(Record)]
         /\ Len(log'[t]) = Len(log[t]) + 1
         /\ log'[t][Len(log[t]) + 1] = r
         /\ \A u \in Topics : u # t => log'[u] = log[u]
         /\ \A u \in Topics : Len(log[u]) <= Len(log'[u])
         /\ \A u \in Topics : \A o \in 1..Len(log[u]) : log'[u][o] = log[u][o]
<1>1. log \in [Topics -> Seq(Record)]
  BY DEF TypeOK
<1>2. log[t] \in Seq(Record) /\ log'[t] = Append(log[t], r)
  BY <1>1 DEF Published
<1>3. \A u \in Topics : u # t => log'[u] = log[u]
  BY <1>1 DEF Published
<1>4. /\ Append(log[t], r) \in Seq(Record)
      /\ Len(Append(log[t], r)) = Len(log[t]) + 1
      /\ Append(log[t], r)[Len(log[t]) + 1] = r
      /\ \A o \in 1..Len(log[t]) : Append(log[t], r)[o] = log[t][o]
  BY <1>2
<1>5. \A u \in Topics : log[u] \in Seq(Record) /\ Len(log[u]) \in Nat
  BY <1>1
<1>6. log' \in [Topics -> Seq(Record)]
  BY <1>1, <1>4 DEF Published
<1>7. ASSUME NEW u \in Topics
      PROVE  Len(log[u]) <= Len(log'[u]) /\ \A o \in 1..Len(log[u]) : log'[u][o] = log[u][o]
  <2>1. CASE u = t
    <3>1. log'[u] = Append(log[t], r) /\ log[u] = log[t]
      BY <1>2, <2>1
    <3> QED BY <1>4, <1>5, <1>7, <3>1
  <2>2. CASE u # t
    BY <1>3, <1>5, <1>7, <2>2
  <2> QED BY <2>1, <2>2
<1>8. Len(log'[t]) = Len(log[t]) + 1 /\ log'[t][Len(log[t]) + 1] = r
  BY <1>2, <1>4
<1> QED BY <1>3, <1>6, <1>7, <1>8

\* A replayed dead letter is the record it was, with its attempts counted anew.
LEMMA Replayed ==
  ASSUME NEW x \in Record
  PROVE  LET r == [x EXCEPT !.attempt = 1]
         IN  r \in Record /\ r.delivery_id = x.delivery_id /\ r.destination_id = x.destination_id
<1>1. AttemptLimit \in Nat \ {0}
  BY DurableAssumption DEF AttemptLimit
<1> QED BY <1>1 DEF Record

\* A record that a worker receives is a record of the topic.
LEMMA ReceivedRecord ==
  ASSUME TypeOK, NEW d \in Destinations, NEW t \in Inputs, Receives(d, t)
  PROVE  /\ position[d][t] + 1 \in 1..Len(log[t])
         /\ Received(d, t) \in Record
         /\ position' \in [Destinations -> [Inputs -> Nat]]
         /\ position'[d][t] = position[d][t] + 1
         /\ \A u \in Inputs : u # t => position'[d][u] = position[d][u]
         /\ \A e \in Destinations : e # d => position'[e] = position[e]
<1>1. /\ log \in [Topics -> Seq(Record)] /\ position \in [Destinations -> [Inputs -> Nat]]
      /\ t \in Topics
  BY ZenonT(30) DEF TypeOK, Inputs, Topics
<1>2. log[t] \in Seq(Record) /\ position[d][t] \in Nat /\ position[d][t] < Len(log[t])
  BY <1>1 DEF Receives
<1>3. position[d][t] + 1 \in 1..Len(log[t]) /\ Received(d, t) \in Record
  BY <1>2 DEF Received
<1>4. position' = [position EXCEPT ![d][t] = @ + 1]
  BY DEF Receives
<1> QED BY <1>1, <1>2, <1>3, <1>4

\* commit_cursor moves one offset of one group.
LEMMA CommittedCursor ==
  ASSUME TypeOK, NEW d \in Destinations, NEW c, c.topic \in Inputs, c.offset \in Nat,
         Committed(d, c)
  PROVE  /\ committed' \in [Destinations -> [Inputs -> Nat]]
         /\ committed'[d][c.topic] = c.offset
         /\ \A u \in Inputs : u # c.topic => committed'[d][u] = committed[d][u]
         /\ \A e \in Destinations : e # d => committed'[e] = committed[e]
BY DEF TypeOK, Committed

\* A longer log keeps every offset within it.
LEMMA OffsetsStay ==
  ASSUME TypeOK, log' \in [Topics -> Seq(Record)],
         \A u \in Topics : Len(log[u]) <= Len(log'[u])
  PROVE  \A e \in Destinations, u \in Inputs :
           committed[e][u] <= Len(log'[u]) /\ position[e][u] <= Len(log'[u])
<1>1. SUFFICES ASSUME NEW e \in Destinations, NEW u \in Inputs
               PROVE  committed[e][u] <= Len(log'[u]) /\ position[e][u] <= Len(log'[u])
  OBVIOUS
<1>2. u \in Topics
  BY DEF Inputs, Topics
<1>3. log[u] \in Seq(Record) /\ log'[u] \in Seq(Record)
  BY <1>2 DEF TypeOK
<1>4. /\ committed[e][u] \in Nat /\ position[e][u] \in Nat
      /\ committed[e][u] <= Len(log[u]) /\ position[e][u] <= Len(log[u])
  BY DEF TypeOK
<1> QED BY <1>2, <1>3, <1>4

\* The limit on faults, and the worker that one ends.
LEMMA FailsType ==
  ASSUME TypeOK, NEW d \in Destinations, Fails(d)
  PROVE  /\ faults' \in 0..MaxFaults
         /\ pc' = [pc EXCEPT ![d] = "failed"]
BY DurableAssumption DEF Fails, Fault, Goto, TypeOK

\* The workers' labels.
Labels == {"recover", "run", "attempt", "publish_retry", "commit_retry", "publish_dead",
           "finish", "failed"}

\* A worker goes to one label, the others stay.
LEMMA GotoType ==
  ASSUME TypeOK, NEW d \in Destinations, NEW label \in Labels, pc' = [pc EXCEPT ![d] = label]
  PROVE  /\ pc' \in [Destinations -> Labels]
         /\ pc'[d] = label
         /\ \A e \in Destinations : e # d => pc'[e] = pc[e]
BY DEF TypeOK, Labels

\* The writers of the delivery topic: commands and replays.
LEMMA WriterType ==
  ASSUME TypeOK,
         \/ \E d \in Destinations, tight \in BOOLEAN : persist(d, tight)
         \/ \E i \in 1..Len(log["dead_letter"]) : replay_dead_letter(i)
  PROVE  TypeOK' /\ \E r \in Record : Published("delivery", r)
<1>1. ASSUME NEW d \in Destinations, NEW tight \in BOOLEAN, persist(d, tight)
      PROVE  TypeOK' /\ \E r \in Record : Published("delivery", r)
  <2>1. commands + 1 \in DeliveryIds
    BY <1>1, DurableAssumption DEF persist, command_written, TypeOK, DeliveryIds
  <2>2. 1 \in 1..AttemptLimit
    BY DurableAssumption DEF AttemptLimit
  <2>3. DurableRecord(commands + 1, d, 1, tight) \in Record
    BY <1>1, <2>1, <2>2 DEF DurableRecord, Record
  <2>4. Published("delivery", DurableRecord(commands + 1, d, 1, tight))
    BY <1>1 DEF persist, command_written
  <2>5. /\ log' \in [Topics -> Seq(Record)]
        /\ \A u \in Topics : Len(log[u]) <= Len(log'[u])
    BY <2>3, <2>4, PublishedLog DEF Topics
  <2>6. /\ commands' \in 0..MaxCommands /\ owed' \subseteq DeliveryIds
        /\ UNCHANGED <<replays, committed, position, pc, workVars, memoryVars, attempts,
                       attempted, faults>>
    BY <1>1, <2>1, DurableAssumption DEF persist, command_written, TypeOK, DeliveryIds
  <2> QED BY ZenonT(30), <2>3, <2>4, <2>5, <2>6, OffsetsStay, Zenon DEF TypeOK, workVars, memoryVars
<1>2. ASSUME NEW i \in 1..Len(log["dead_letter"]), replay_dead_letter(i)
      PROVE  TypeOK' /\ \E r \in Record : Published("delivery", r)
  <2>1. log["dead_letter"][i] \in Record
    BY <1>2 DEF TypeOK, Topics
  <2>2. 1 \in 1..AttemptLimit
    BY DurableAssumption DEF AttemptLimit
  <2>3. [log["dead_letter"][i] EXCEPT !.attempt = 1] \in Record
    BY <2>1, <2>2 DEF Record
  <2>4. Published("delivery", [log["dead_letter"][i] EXCEPT !.attempt = 1])
    BY <1>2 DEF replay_dead_letter
  <2>5. /\ log' \in [Topics -> Seq(Record)]
        /\ \A u \in Topics : Len(log[u]) <= Len(log'[u])
    BY <2>3, <2>4, PublishedLog DEF Topics
  <2>6. /\ replays' \in 0..MaxReplays
        /\ UNCHANGED <<commands, committed, position, pc, workVars, memoryVars, attempts,
                       attempted, owed, faults>>
    BY <1>2, DurableAssumption DEF replay_dead_letter, TypeOK
  <2> QED BY ZenonT(30), <2>3, <2>4, <2>5, <2>6, OffsetsStay, Zenon DEF TypeOK, workVars, memoryVars
<1> QED BY <1>1, <1>2

\* The receive loops.
LEMMA ReceiveType ==
  ASSUME TypeOK, NEW d \in Destinations, ReceiveStep(d) \/ recover_error(d)
  PROVE  TypeOK'
<1>1. ASSUME NEW t \in Inputs, Receives(d, t)
      PROVE  /\ position' \in [Destinations -> [Inputs -> Nat]]
             /\ \A e \in Destinations, u \in Inputs : position'[e][u] <= Len(log[u])
             /\ Cursor(d, t).topic \in Inputs
             /\ Cursor(d, t).offset \in Nat /\ Cursor(d, t).offset <= Len(log[Cursor(d, t).topic])
             /\ Cursor(d, t) \in [topic : Inputs, offset : Nat]
             /\ Received(d, t) \in Record
  <2>1. /\ position[d][t] + 1 \in 1..Len(log[t])
        /\ Received(d, t) \in Record
        /\ position' \in [Destinations -> [Inputs -> Nat]]
        /\ position'[d][t] = position[d][t] + 1
        /\ \A u \in Inputs : u # t => position'[d][u] = position[d][u]
        /\ \A e \in Destinations : e # d => position'[e] = position[e]
    BY <1>1, ReceivedRecord
  <2>2. /\ position[d][t] \in Nat
        /\ \A e \in Destinations, u \in Inputs : position[e][u] <= Len(log[u])
    BY DEF TypeOK
  <2>3. ASSUME NEW e \in Destinations, NEW u \in Inputs
        PROVE  position'[e][u] <= Len(log[u])
    <3>1. CASE e = d /\ u = t
      BY <2>1, <3>1
    <3>2. CASE ~(e = d /\ u = t)
      BY ZenonT(30), <2>1, <2>2, <2>3, <3>2
    <3> QED BY <3>1, <3>2
  <2>4. Cursor(d, t).topic = t /\ Cursor(d, t).offset = position[d][t] + 1
    BY DEF Cursor
  <2>5. Cursor(d, t) \in [topic : Inputs, offset : Nat]
    BY <2>2 DEF Cursor
  <2> QED BY <2>1, <2>2, <2>3, <2>4, <2>5
<1>2. ASSUME NEW t \in Inputs, Recovered(d, t)
      PROVE  recovered' \in [Destinations -> Nat]
  BY <1>2 DEF Recovered, TypeOK
<1>3. ASSUME NEW t \in Inputs, skip(d, t)
      PROVE  TypeOK'
  <2>1. /\ UNCHANGED <<topicVars, workVars, completed, historyVars>>
        /\ Receives(d, t) /\ recovered' \in [Destinations -> Nat]
    BY <1>2, <1>3 DEF skip
  <2>2. pc' \in [Destinations -> Labels] /\ faults' \in 0..MaxFaults
    BY ZenonT(30), <1>3, FailsType, GotoType DEF skip, Labels, TypeOK
  <2>3. /\ committed' \in [Destinations -> [Inputs -> Nat]]
        /\ \A e \in Destinations, u \in Inputs : committed'[e][u] <= Len(log[u])
    <3>1. CASE committed' = committed
      BY ZenonT(30), <3>1 DEF TypeOK
    <3>2. CASE Committed(d, Cursor(d, t))
      <4> DEFINE c == Cursor(d, t)
      <4>1. c.topic \in Inputs /\ c.offset \in Nat /\ c.offset <= Len(log[c.topic])
        BY <1>1, <2>1
      <4> HIDE DEF c
      <4>2. /\ committed' \in [Destinations -> [Inputs -> Nat]]
            /\ committed'[d][c.topic] = c.offset
            /\ \A u \in Inputs : u # c.topic => committed'[d][u] = committed[d][u]
            /\ \A e \in Destinations : e # d => committed'[e] = committed[e]
        BY <3>2, <4>1, CommittedCursor DEF c
      <4>3. \A e \in Destinations, u \in Inputs : committed[e][u] <= Len(log[u])
        BY DEF TypeOK
      <4> QED BY ZenonT(30), <4>1, <4>2, <4>3
    <3> QED BY <1>3, <3>1, <3>2 DEF skip
  <2> QED
    BY ZenonT(30), <1>1, <2>1, <2>2, <2>3 DEF TypeOK, Labels, topicVars, workVars, historyVars
<1>4. ASSUME NEW t \in Inputs, take(d, t)
      PROVE  TypeOK'
  <2>1. /\ UNCHANGED <<topicVars, committed, phase, completed, historyVars, faults>>
        /\ Receives(d, t) /\ recovered' \in [Destinations -> Nat]
        /\ record' = [record EXCEPT ![d] = Received(d, t)]
        /\ input' = [input EXCEPT ![d] = Cursor(d, t)]
        /\ input_committed' = [input_committed EXCEPT ![d] = FALSE]
    BY <1>2, <1>4 DEF take
  <2>2. pc' \in [Destinations -> Labels]
    BY ZenonT(30), <1>4, GotoType DEF take, Goto, Labels
  <2>3. /\ record' \in [Destinations -> Record \cup {None}]
        /\ input' \in [Destinations -> [topic : Inputs, offset : Nat]]
    BY ZenonT(30), <1>1, <2>1 DEF TypeOK
  <2>4. input_committed' \in [Destinations -> BOOLEAN]
    BY <2>1 DEF TypeOK
  <2> QED
    BY ZenonT(30), <1>1, <2>1, <2>2, <2>3, <2>4 DEF TypeOK, Labels, topicVars, historyVars
<1>5. CASE recover_exceeded(d)
  <2>1. /\ UNCHANGED <<topicVars, committed, workVars, completed, historyVars, faults>>
        /\ Receives(d, "retry") /\ "retry" \in Inputs /\ recovered' \in [Destinations -> Nat]
    BY <1>2, <1>5 DEF recover_exceeded, Inputs
  <2>2. pc' \in [Destinations -> Labels]
    BY ZenonT(30), <1>5, GotoType DEF recover_exceeded, Goto, Labels
  <2> QED BY ZenonT(30), <1>1, <2>1, <2>2 DEF TypeOK, Labels, topicVars, workVars, historyVars
<1>6. CASE recover_eof(d)
  <2>1. pc' \in [Destinations -> Labels]
    BY ZenonT(30), <1>6, GotoType DEF recover_eof, Goto, Labels
  <2>2. /\ UNCHANGED <<topicVars, committed, record, input, input_committed, memoryVars,
                       historyVars, faults>>
        /\ phase' = [phase EXCEPT ![d] = "run"]
        /\ position' = [position EXCEPT ![d] = committed[d]]
    BY <1>6 DEF recover_eof
  <2>3. /\ position' \in [Destinations -> [Inputs -> Nat]]
        /\ \A e \in Destinations, u \in Inputs : position'[e][u] <= Len(log[u])
        /\ phase' \in [Destinations -> {"recover", "run"}]
    BY ZenonT(30), <2>2 DEF TypeOK
  <2> QED BY ZenonT(30), <2>1, <2>2, <2>3 DEF TypeOK, Labels, topicVars, memoryVars, historyVars
<1>7. CASE recover_error(d)
  <2>1. pc' \in [Destinations -> Labels] /\ faults' \in 0..MaxFaults
    BY <1>7, FailsType, GotoType DEF recover_error, Labels
  <2> QED
    BY ZenonT(30), <1>7, <2>1 DEF recover_error, TypeOK, Labels, topicVars, workVars, memoryVars, historyVars
<1> QED BY <1>3, <1>4, <1>5, <1>6, <1>7 DEF ReceiveStep

\* Committing the input in hand keeps the offset within its topic.
LEMMA InputCommitted ==
  ASSUME TypeOK, NEW d \in Destinations, HandInv(d), InHand(d), Committed(d, input[d])
  PROVE  /\ committed' \in [Destinations -> [Inputs -> Nat]]
         /\ \A e \in Destinations, u \in Inputs : committed'[e][u] <= Len(log[u])
<1> DEFINE c == input[d]
<1>1. c.topic \in Inputs /\ c.offset \in Nat /\ c.offset <= Len(log[c.topic])
  <2>1. input[d] \in [topic : Inputs, offset : Nat]
    BY DEF TypeOK
  <2> QED BY <2>1 DEF HandInv
<1> HIDE DEF c
<1>2. /\ committed' \in [Destinations -> [Inputs -> Nat]]
      /\ committed'[d][c.topic] = c.offset
      /\ \A u \in Inputs : u # c.topic => committed'[d][u] = committed[d][u]
      /\ \A e \in Destinations : e # d => committed'[e] = committed[e]
  BY <1>1, CommittedCursor DEF c
<1>3. \A e \in Destinations, u \in Inputs : committed[e][u] <= Len(log[u])
  BY DEF TypeOK
<1> QED BY ZenonT(30), <1>1, <1>2, <1>3

\* The steps of process, and the failures of its Kafka calls.
LEMMA ProcessType ==
  ASSUME TypeOK, NEW d \in Destinations, HandInv(d),
         \/ ProcessStep(d) \/ publish_oversized(d) \/ publish_fails(d) \/ commit_fails(d)
  PROVE  TypeOK'
<1>1. ASSUME Attempted(d)
      PROVE  /\ attempts' \in [DeliveryIds -> Nat] /\ attempted' \subseteq DeliveryIds
             /\ record[d] \in Record
  <2>1. record[d] \in Record
    BY <1>1 DEF Attempted, HandInv, InHand
  <2>2. record[d].delivery_id \in DeliveryIds
    BY <2>1 DEF Record
  <2> QED BY <1>1, <2>1, <2>2 DEF Attempted, TypeOK
<1>2. CASE attempt_delivered(d)
  <2>1. /\ pc' \in [Destinations -> Labels] /\ owed' \subseteq DeliveryIds
        /\ UNCHANGED <<topicVars, committed, position, workVars, memoryVars, faults>>
    BY ZenonT(30), <1>2, GotoType DEF attempt_delivered, Attempted, Goto, Labels, TypeOK, workVars
  <2> QED BY ZenonT(30), <1>1, <1>2, <2>1
        DEF attempt_delivered, TypeOK, Labels, topicVars, workVars, memoryVars
<1>3. ASSUME NEW class \in FailureClass, attempt_retry(d, class)
      PROVE  TypeOK'
  <2>1. pc' \in [Destinations -> Labels]
    BY ZenonT(30), <1>3, GotoType DEF attempt_retry, Goto, Labels
  <2>2. record[d].attempt + 1 \in 1..AttemptLimit
    <3>1. record[d].attempt \in 1..AttemptLimit /\ record[d].attempt < max_attempts
      BY <1>1, <1>3 DEF attempt_retry, RetriesLeft, Record
    <3> QED BY <3>1, DurableAssumption DEF AttemptLimit
  <2>3. [record[d] EXCEPT !.attempt = @ + 1] \in Record
    BY <1>1, <1>3, <2>2 DEF attempt_retry, Record
  <2>4. record' \in [Destinations -> Record \cup {None}]
    BY <1>3, <2>3 DEF attempt_retry, TypeOK
  <2>5. /\ attempts' \in [DeliveryIds -> Nat] /\ attempted' \subseteq DeliveryIds
        /\ UNCHANGED <<topicVars, committed, position, phase, input, input_committed,
                       memoryVars, owed, faults>>
    BY <1>1, <1>3 DEF attempt_retry, Attempted
  <2> QED BY ZenonT(30), <2>1, <2>4, <2>5, Zenon DEF TypeOK, Labels, topicVars, memoryVars
<1>4. ASSUME NEW class \in FailureClass, attempt_dead(d, class)
      PROVE  TypeOK'
  <2>1. pc' \in [Destinations -> Labels]
    BY ZenonT(30), <1>4, GotoType DEF attempt_dead, Goto, Labels
  <2>2. /\ attempts' \in [DeliveryIds -> Nat] /\ attempted' \subseteq DeliveryIds
        /\ UNCHANGED <<topicVars, committed, position, workVars, memoryVars, owed, faults>>
    BY <1>1, <1>4 DEF attempt_dead, Attempted, workVars
  <2> QED BY ZenonT(30), <2>1, <2>2 DEF TypeOK, Labels, topicVars, workVars, memoryVars
<1>5. ASSUME NEW t \in Topics, Published(t, record[d]), InHand(d)
      PROVE  /\ log' \in [Topics -> Seq(Record)]
             /\ \A u \in Topics : Len(log[u]) <= Len(log'[u])
             /\ \A e \in Destinations, u \in Inputs :
                  committed[e][u] <= Len(log'[u]) /\ position[e][u] <= Len(log'[u])
  <2>1. record[d] \in Record
    BY <1>5 DEF HandInv
  <2> QED BY ZenonT(30), <1>5, <2>1, PublishedLog, OffsetsStay
<1>6. CASE publish_retry(d)
  <2>1. pc' \in [Destinations -> Labels]
    BY ZenonT(30), <1>6, GotoType DEF publish_retry, Goto, Labels
  <2>2. /\ Published("retry", record[d]) /\ "retry" \in Topics /\ InHand(d)
        /\ UNCHANGED <<commands, replays, committed, position, workVars, memoryVars,
                       historyVars, faults>>
    BY <1>6 DEF publish_retry, Topics, InHand
  <2> QED BY ZenonT(30), <1>5, <2>1, <2>2 DEF TypeOK, Labels, workVars, memoryVars, historyVars
<1>7. CASE commit_retry(d)
  <2>1. pc' \in [Destinations -> Labels]
    BY ZenonT(30), <1>7, GotoType DEF commit_retry, Goto, Labels
  <2>2. /\ Committed(d, input[d]) /\ InHand(d)
        /\ UNCHANGED <<topicVars, position, phase, record, input, memoryVars, historyVars, faults>>
    BY <1>7 DEF commit_retry, InHand
  <2>3. input_committed' \in [Destinations -> BOOLEAN]
    BY <1>7 DEF commit_retry, TypeOK
  <2> QED BY ZenonT(30), <2>1, <2>2, <2>3, InputCommitted
        DEF TypeOK, Labels, topicVars, memoryVars, historyVars
<1>8. CASE publish_dead(d)
  <2>1. pc' \in [Destinations -> Labels]
    BY ZenonT(30), <1>8, GotoType DEF publish_dead, Goto, Labels
  <2>2. /\ Published("dead_letter", record[d]) /\ "dead_letter" \in Topics /\ InHand(d)
        /\ owed' \subseteq DeliveryIds
        /\ UNCHANGED <<commands, replays, committed, position, workVars, memoryVars,
                       attempts, attempted, faults>>
    BY <1>8 DEF publish_dead, Topics, InHand, TypeOK
  <2> QED BY ZenonT(30), <1>5, <2>1, <2>2 DEF TypeOK, Labels, workVars, memoryVars
<1>9. CASE finish(d)
  <2>1. InHand(d) /\ record[d] \in Record
    BY <1>9 DEF finish, InHand, HandInv
  <2>2. /\ pc' \in [Destinations -> Labels]
        /\ completed' \in [Destinations -> SUBSET DeliveryIds]
    <3>1. phase[d] \in Labels /\ "failed" \in Labels
      BY DEF TypeOK, Labels
    <3>2. record[d].delivery_id \in DeliveryIds
      BY <2>1 DEF Record
    <3>3. pc' \in [Destinations -> Labels]
      BY <1>9, <3>1, GotoType DEF finish, Goto
    <3>4. completed' = completed
          \/ completed' = [completed EXCEPT ![d] = @ \cup {record[d].delivery_id}]
      BY <1>9 DEF finish
    <3>5. /\ completed \in [Destinations -> SUBSET DeliveryIds]
          /\ completed[d] \cup {record[d].delivery_id} \in SUBSET DeliveryIds
      BY <3>2 DEF TypeOK
    <3> QED BY <3>3, <3>4, <3>5
  <2>3. /\ committed' \in [Destinations -> [Inputs -> Nat]]
        /\ \A e \in Destinations, u \in Inputs : committed'[e][u] <= Len(log[u])
    <3>1. CASE committed' = committed
      BY ZenonT(30), <3>1 DEF TypeOK
    <3>2. CASE Committed(d, input[d])
      BY <2>1, <3>2, InputCommitted
    <3> QED BY <1>9, <3>1, <3>2 DEF finish
  <2>4. UNCHANGED <<topicVars, position, workVars, recovered, historyVars, faults>>
    BY <1>9 DEF finish
  <2> QED BY ZenonT(30), <2>2, <2>3, <2>4, Zenon DEF TypeOK, Labels, topicVars, workVars, historyVars
<1>10. ASSUME publish_oversized(d) \/ publish_fails(d) \/ commit_fails(d)
       PROVE  pc' \in [Destinations -> Labels] /\ faults' \in 0..MaxFaults /\ InHand(d)
  BY <1>10, FailsType, GotoType DEF publish_oversized, publish_fails, commit_fails, Labels, InHand
<1>11. CASE publish_oversized(d)
  BY ZenonT(30), <1>10, <1>11
    DEF publish_oversized, TypeOK, Labels, topicVars, workVars, memoryVars, historyVars
<1>12. CASE publish_fails(d)
  <2>1. /\ UNCHANGED <<commands, replays, committed, position, workVars, memoryVars, historyVars>>
        /\ \/ log' = log
           \/ \E t \in Topics : Published(t, record[d])
    BY <1>12 DEF publish_fails, Topics
  <2>2. /\ log' \in [Topics -> Seq(Record)]
        /\ \A e \in Destinations, u \in Inputs :
             committed[e][u] <= Len(log'[u]) /\ position[e][u] <= Len(log'[u])
    <3>1. CASE log' = log
      BY ZenonT(30), <3>1 DEF TypeOK
    <3>2. CASE \E t \in Topics : Published(t, record[d])
      BY <1>5, <1>10, <1>12, <3>2
    <3> QED BY <2>1, <3>1, <3>2
  <2> QED BY ZenonT(30), <1>10, <1>12, <2>1, <2>2 DEF TypeOK, Labels, workVars, memoryVars, historyVars
<1>13. CASE commit_fails(d)
  <2>1. /\ committed' \in [Destinations -> [Inputs -> Nat]]
        /\ \A e \in Destinations, u \in Inputs : committed'[e][u] <= Len(log[u])
    <3>1. CASE committed' = committed
      BY <3>1 DEF TypeOK
    <3>2. CASE Committed(d, input[d])
      BY ZenonT(30), <1>10, <1>13, <3>2, InputCommitted
    <3> QED BY <1>13, <3>1, <3>2 DEF commit_fails
  <2>2. UNCHANGED <<topicVars, position, workVars, memoryVars, historyVars>>
    BY <1>13 DEF commit_fails
  <2> QED BY ZenonT(30), <1>10, <1>13, <2>1, <2>2
        DEF TypeOK, Labels, topicVars, workVars, memoryVars, historyVars
<1> QED BY <1>2, <1>3, <1>4, <1>6, <1>7, <1>8, <1>9, <1>11, <1>12, <1>13 DEF ProcessStep

\* A new process.
LEMMA RestartType ==
  ASSUME TypeOK, crash \/ restart
  PROVE  TypeOK'
<1>1. Restarted /\ faults' \in 0..MaxFaults
  BY DurableAssumption DEF crash, restart, Fault, TypeOK
<1>2. /\ log \in [Topics -> Seq(Record)]
      /\ committed \in [Destinations -> [Inputs -> Nat]]
      /\ \A d \in Destinations, t \in Inputs : committed[d][t] <= Len(log[t])
  BY DEF TypeOK
<1>3. /\ pc' \in [Destinations -> Labels]
      /\ phase' \in [Destinations -> {"recover", "run"}]
      /\ record' \in [Destinations -> Record \cup {None}]
      /\ input' \in [Destinations -> [topic : Inputs, offset : Nat]]
      /\ completed' \in [Destinations -> SUBSET DeliveryIds]
      /\ recovered' \in [Destinations -> Nat]
      /\ attempts' \in [DeliveryIds -> Nat]
  BY <1>1 DEF Restarted, Labels, NoInput, Inputs
<1>4. input_committed' \in [Destinations -> BOOLEAN]
  BY <1>1 DEF Restarted
<1> QED BY ZenonT(30), <1>1, <1>2, <1>3, <1>4, Zenon DEF TypeOK, Labels, Restarted, topicVars

\* Every step keeps the types.  (All of run, recover_retries and process.)
LEMMA TypeStep ==
  ASSUME TypeOK, \A d \in Destinations : HandInv(d), [Next]_vars
  PROVE  TypeOK'
<1>1. CASE UNCHANGED vars
  BY ZenonT(30), <1>1, Zenon DEF TypeOK, vars, topicVars, workVars, memoryVars, historyVars
<1>2. CASE Next
  BY <1>2, WriterType, ReceiveType, ProcessType, RestartType DEF Next, FaultStep
<1> QED BY <1>1, <1>2

-----------------------------------------------------------------------------
(* What one worker's steps leave alone                                     *)

LogGrows ==
  \A u \in Topics :
    Len(log[u]) <= Len(log'[u]) /\ \A o \in 1..Len(log[u]) : log'[u][o] = log[u][o]

Same(e) ==
  /\ pc'[e] = pc[e] /\ committed'[e] = committed[e] /\ position'[e] = position[e]
  /\ record'[e] = record[e] /\ input'[e] = input[e]
  /\ input_committed'[e] = input_committed[e] /\ completed'[e] = completed[e]

Apart(d) == \A e \in Destinations : e # d => Same(e)

\* A topic that no step writes has not changed.
LEMMA LogSame ==
  ASSUME TypeOK, log' = log
  PROVE  LogGrows
BY DEF LogGrows, TypeOK

\* What is published stays at the end of its topic.
LEMMA LogPublished ==
  ASSUME TypeOK, NEW t \in Topics, NEW r \in Record, Published(t, r)
  PROVE  LogGrows
BY PublishedLog DEF LogGrows

\* A worker's own steps change no other worker, only add to the topics, and
\* draw no delivery id.
LEMMA WorkerEffect ==
  ASSUME TypeOK, NEW d \in Destinations, HandInv(d),
         ReceiveStep(d) \/ ProcessStep(d) \/ FaultStep(d)
  PROVE  Apart(d) /\ LogGrows /\ owed' \subseteq owed /\ commands' = commands
<1> DEFINE Goal == Apart(d) /\ LogGrows /\ owed' \subseteq owed /\ commands' = commands
<1>0. SUFFICES Goal
  OBVIOUS
<1>1. /\ pc \in [Destinations -> Labels]
      /\ committed \in [Destinations -> [Inputs -> Nat]]
      /\ position \in [Destinations -> [Inputs -> Nat]]
      /\ completed \in [Destinations -> SUBSET DeliveryIds]
      /\ record \in [Destinations -> Record \cup {None}]
      /\ input \in [Destinations -> [topic : Inputs, offset : Nat]]
      /\ input_committed \in [Destinations -> BOOLEAN]
  BY DEF TypeOK, Labels
<1>2. ASSUME NEW t \in Inputs, skip(d, t) \/ take(d, t)
      PROVE  Goal
  <2>1. log' = log /\ owed' = owed /\ commands' = commands
    BY <1>2 DEF skip, take, topicVars, historyVars
  <2>2. Apart(d)
    BY ZenonT(30), <1>1, <1>2 DEF skip, take, Receives, Committed, Fails, Goto, workVars, Apart, Same
  <2> QED BY <2>1, <2>2, LogSame
<1>3. CASE recover_exceeded(d) \/ recover_eof(d) \/ recover_error(d)
  <2>1. log' = log /\ owed' = owed /\ commands' = commands
    BY <1>3 DEF recover_exceeded, recover_eof, recover_error, topicVars, historyVars
  <2>2. Apart(d)
    BY <1>1, <1>3 DEF recover_exceeded, recover_eof, recover_error, Receives, Fails, Goto,
                      workVars, memoryVars, Apart, Same
  <2> QED BY <2>1, <2>2, LogSame
<1>4. ASSUME Attempted(d), NEW label, Goto(d, label),
             \/ record' = record
             \/ record' = [record EXCEPT ![d].attempt = @ + 1]
      PROVE  Apart(d) /\ LogGrows /\ commands' = commands
  <2>1. log' = log /\ commands' = commands
    BY <1>4 DEF Attempted, topicVars
  <2>2. Apart(d)
    BY <1>1, <1>4 DEF Attempted, Goto, memoryVars, Apart, Same
  <2> QED BY <2>1, <2>2, LogSame
<1>5. CASE attempt_delivered(d)
  BY <1>4, <1>5 DEF attempt_delivered
<1>6. ASSUME NEW class \in FailureClass, attempt_retry(d, class) \/ attempt_dead(d, class)
      PROVE  Goal
  BY <1>4, <1>6 DEF attempt_retry, attempt_dead
<1>7. ASSUME \/ publish_retry(d) \/ publish_dead(d) \/ publish_fails(d) \/ publish_oversized(d)
      PROVE  Goal
  <2>1. record[d] \in Record
    BY ZenonT(30), <1>7 DEF publish_retry, publish_dead, publish_fails, publish_oversized, HandInv, InHand
  <2>2. \/ log' = log
        \/ \E t \in Topics : Published(t, record[d])
    BY <1>7 DEF publish_retry, publish_dead, publish_fails, publish_oversized, topicVars, Topics
  <2>3. LogGrows
    BY ZenonT(30), <2>1, <2>2, LogSame, LogPublished
  <2>4. owed' \subseteq owed /\ commands' = commands
    BY ZenonT(30), <1>7 DEF publish_retry, publish_dead, publish_fails, publish_oversized, topicVars,
                historyVars
  <2>5. Apart(d)
    BY ZenonT(30), <1>1, <1>7 DEF publish_retry, publish_dead, publish_fails, publish_oversized, Fails,
                      Goto, workVars, memoryVars, Apart, Same
  <2> QED BY ZenonT(30), <2>3, <2>4, <2>5
<1>8. CASE commit_retry(d) \/ finish(d) \/ commit_fails(d)
  <2>1. log' = log /\ owed' = owed /\ commands' = commands
    BY ZenonT(30), <1>8 DEF commit_retry, finish, commit_fails, topicVars, historyVars
  <2>2. Apart(d)
    BY <1>1, <1>8 DEF commit_retry, finish, commit_fails, Committed, Fails, Goto, workVars,
                      memoryVars, Apart, Same
  <2> QED BY <2>1, <2>2, LogSame
<1> QED
  BY <1>2, <1>3, <1>5, <1>6, <1>7, <1>8 DEF ReceiveStep, ProcessStep, FaultStep

\* A worker that a step leaves alone keeps its invariant while the topics grow
\* and no old delivery id becomes owed again.
LEMMA Undisturbed ==
  ASSUME TypeOK, IdsInv, LogGrows, NEW e \in Destinations, Same(e), WorkerInv(e),
         \A id \in 1..commands : id \in owed' => id \in owed
  PROVE  WorkerInv(e)'
<1>1. \A u \in Topics : Len(log[u]) \in Nat /\ Len(log'[u]) \in Int /\ Len(log[u]) <= Len(log'[u])
  BY SMTT(30) DEF TypeOK, LogGrows
<1>2. BetweenInv(e)'
  BY ZenonT(30) DEF WorkerInv, BetweenInv, Same
<1>3. HandInv(e)'
  <2> SUFFICES ASSUME InHand(e)
               PROVE  HandInv(e)'
    BY ZenonT(30) DEF HandInv, InHand, Same
  <2>1. input[e] \in [topic : Inputs, offset : Nat]
    BY DEF TypeOK
  <2>2. input[e].topic \in Topics
    BY ZenonT(30), <2>1 DEF Inputs, Topics
  <2>3. /\ input[e].offset \in 1..Len(log[input[e].topic])
        /\ HandInv(e)
    BY ZenonT(30) DEF WorkerInv, HandInv
  <2>4. /\ input[e].offset \in 1..Len(log'[input[e].topic])
        /\ log'[input[e].topic][input[e].offset] = log[input[e].topic][input[e].offset]
    BY <1>1, <2>2, <2>3 DEF LogGrows
  <2> QED BY ZenonT(30), <2>3, <2>4 DEF HandInv, Same
<1>4. CopyInv(e)'
  <2> SUFFICES ASSUME pc[e] = "commit_retry" \/ (InHand(e) /\ input_committed[e])
               PROVE  CopyInv(e)'
    BY ZenonT(30) DEF CopyInv, InHand, Same
  <2>1. PICK o \in 1..Len(log["retry"]) :
           /\ position[e]["retry"] < o
           /\ log["retry"][o].delivery_id = record[e].delivery_id
           /\ log["retry"][o].destination_id = e
    BY DEF WorkerInv, CopyInv
  <2>2. o \in 1..Len(log'["retry"]) /\ log'["retry"][o] = log["retry"][o]
    BY <1>1, <2>1 DEF LogGrows, Topics
  <2> QED BY ZenonT(30), <2>1, <2>2 DEF CopyInv, Same
<1>5. FinishedInv(e)'
  <2>1. completed[e] \subseteq 1..commands
    BY ZenonT(30) DEF IdsInv
  <2>2. pc[e] = "finish" => record[e].delivery_id \in 1..commands
    BY ZenonT(30) DEF IdsInv, InHand
  <2> QED BY ZenonT(30), <2>1, <2>2 DEF WorkerInv, FinishedInv, Same
<1> QED BY ZenonT(30), <1>2, <1>3, <1>4, <1>5 DEF WorkerInv

-----------------------------------------------------------------------------
(* What a worker's own steps do to its invariant                           *)

\* What CopyInv promises.
Copied(d) ==
  \E o \in 1..Len(log["retry"]) :
    /\ position[d]["retry"] < o
    /\ log["retry"][o].delivery_id = record[d].delivery_id
    /\ log["retry"][o].destination_id = d

\* A worker that keeps its record in hand.
Keeps(d) ==
  /\ InHand(d)
  /\ position'[d] = position[d] /\ input'[d] = input[d]
  /\ record'[d] \in Record
  /\ record'[d].delivery_id = record[d].delivery_id
  /\ record'[d].destination_id = record[d].destination_id

\* A record kept in hand is still the one that was received.
LEMMA HandKept ==
  ASSUME TypeOK, LogGrows, NEW d \in Destinations, HandInv(d), Keeps(d),
         committed'[d] = committed[d], input_committed'[d] = input_committed[d]
  PROVE  HandInv(d)'
<1>1. input[d] \in [topic : Inputs, offset : Nat]
  BY DEF TypeOK
<1>2. input[d].topic \in Topics
  BY ZenonT(30), <1>1 DEF Inputs, Topics
<1>3. Len(log[input[d].topic]) \in Nat /\ Len(log'[input[d].topic]) \in Int
      /\ Len(log[input[d].topic]) <= Len(log'[input[d].topic])
  BY SMTT(30), <1>2 DEF TypeOK, LogGrows
<1>4. input[d].offset \in 1..Len(log[input[d].topic])
  BY ZenonT(30) DEF HandInv, Keeps
<1>5. /\ input[d].offset \in 1..Len(log'[input[d].topic])
      /\ log'[input[d].topic][input[d].offset] = log[input[d].topic][input[d].offset]
  BY <1>2, <1>3, <1>4 DEF LogGrows
<1> QED BY ZenonT(30), <1>5 DEF HandInv, Keeps

\* So is its copy in the retry topic.
LEMMA CopyKept ==
  ASSUME TypeOK, LogGrows, NEW d \in Destinations, Keeps(d), Copied(d)
  PROVE  Copied(d)'
<1>1. Len(log["retry"]) \in Nat /\ Len(log'["retry"]) \in Int
      /\ Len(log["retry"]) <= Len(log'["retry"])
  BY DEF TypeOK, LogGrows, Topics
<1>2. PICK o \in 1..Len(log["retry"]) :
         /\ position[d]["retry"] < o
         /\ log["retry"][o].delivery_id = record[d].delivery_id
         /\ log["retry"][o].destination_id = d
  BY ZenonT(30) DEF Copied
<1>3. o \in 1..Len(log'["retry"]) /\ log'["retry"][o] = log["retry"][o]
  BY SMTT(30), <1>1, <1>2 DEF LogGrows, Topics
<1> QED BY ZenonT(30), <1>2, <1>3 DEF Copied, Keeps

\* A worker between two records, or a failed one, has nothing in hand.
LEMMA EmptyHanded ==
  ASSUME NEW d \in Destinations, pc'[d] \in {"recover", "run", "failed"},
         pc'[d] # "failed" => position'[d] = committed'[d],
         completed'[d] \cap owed' = {}
  PROVE  WorkerInv(d)'
BY DEF WorkerInv, BetweenInv, HandInv, CopyInv, FinishedInv, InHand

\* The receive loops.
LEMMA ReceiveOwn ==
  ASSUME TypeOK, NEW d \in Destinations, WorkerInv(d), ReceiveStep(d) \/ recover_error(d)
  PROVE  WorkerInv(d)'
<1> USE DEF FinishedInv
<1>0. /\ committed[d] \in [Inputs -> Nat] /\ position[d] \in [Inputs -> Nat]
      /\ completed[d] \cap owed = {}
      /\ pc \in [Destinations -> Labels]
  BY ZenonT(30) DEF TypeOK, WorkerInv, Labels
<1>1. ASSUME NEW t \in Inputs, skip(d, t) PROVE WorkerInv(d)'
  <2>1. Receives(d, t) /\ completed'[d] \cap owed' = {}
    BY <1>0, <1>1 DEF skip, historyVars
  <2>2. pc[d] \in {"recover", "run"} /\ position[d] = committed[d]
    BY <2>1 DEF Receives, WorkerInv, BetweenInv
  <2>3. CASE Fails(d)
    <3>1. pc'[d] = "failed"
      BY ZenonT(30), <1>0, <2>3, FailsType
    <3> QED BY ZenonT(30), <2>1, <3>1, EmptyHanded
  <2>4. CASE Committed(d, Cursor(d, t)) /\ UNCHANGED <<pc, faults>>
    <3>1. /\ position' \in [Destinations -> [Inputs -> Nat]]
          /\ position'[d][t] = position[d][t] + 1
          /\ \A u \in Inputs : u # t => position'[d][u] = position[d][u]
      BY ZenonT(30), <2>1, ReceivedRecord
    <3>2. Cursor(d, t).topic = t /\ Cursor(d, t).offset = position[d][t] + 1
          /\ Cursor(d, t).offset \in Nat
      BY <1>0 DEF Cursor
    <3>3. /\ committed' \in [Destinations -> [Inputs -> Nat]]
          /\ committed'[d][t] = position[d][t] + 1
          /\ \A u \in Inputs : u # t => committed'[d][u] = committed[d][u]
      BY <2>4, <3>2, CommittedCursor
    <3>4. \A u \in Inputs : position'[d][u] = committed'[d][u]
      BY ZenonT(30), <2>2, <3>1, <3>3
    <3>5. position'[d] = committed'[d]
      BY <3>1, <3>3, <3>4
    <3>6. pc'[d] \in {"recover", "run", "failed"}
      BY ZenonT(30), <2>2, <2>4
    <3> QED BY ZenonT(30), <2>1, <3>5, <3>6, EmptyHanded
  <2> QED BY ZenonT(30), <1>1, <2>3, <2>4 DEF skip
<1>2. ASSUME NEW t \in Inputs, take(d, t) PROVE WorkerInv(d)'
  <2>1. Receives(d, t) /\ Own(d, t)
    BY <1>2 DEF take, Skippable
  <2>2. pc[d] \in {"recover", "run"} /\ position[d] = committed[d]
    BY ZenonT(30), <2>1 DEF Receives, WorkerInv, BetweenInv
  <2>3. /\ position[d][t] + 1 \in 1..Len(log[t])
        /\ Received(d, t) \in Record
        /\ position'[d][t] = position[d][t] + 1
        /\ \A u \in Inputs : u # t => position'[d][u] = position[d][u]
    BY ZenonT(30), <2>1, ReceivedRecord
  <2>4. /\ pc'[d] = "attempt" /\ record'[d] = Received(d, t) /\ input'[d] = Cursor(d, t)
        /\ input_committed'[d] = FALSE
    BY <1>2 DEF take, Goto, TypeOK
  <2>5. log' = log /\ committed' = committed /\ completed' = completed /\ owed' = owed
    BY ZenonT(30), <1>2 DEF take, topicVars, historyVars
  <2>6. input'[d].topic = t /\ input'[d].offset = position[d][t] + 1
    BY SMTT(30), <2>4 DEF Cursor
  <2>7. HandInv(d)'
    <3>1. /\ record'[d] \in Record /\ record'[d].destination_id = d
          /\ log[t][position[d][t] + 1].delivery_id = record'[d].delivery_id
          /\ log[t][position[d][t] + 1].destination_id = d
      BY ZenonT(30), <2>1, <2>3, <2>4 DEF Own, Received
    <3>2. committed[d][t] = (position[d][t] + 1) - 1
      BY SMTT(30), <1>0, <2>2
    <3>3. \A u \in Inputs : u # t => committed[d][u] = position'[d][u]
      BY ZenonT(30), <2>2, <2>3
    <3> QED BY ZenonT(30), <2>3, <2>4, <2>5, <2>6, <3>1, <3>2, <3>3 DEF HandInv
  <2> QED BY ZenonT(30), <1>0, <2>4, <2>5, <2>7 DEF WorkerInv, BetweenInv, CopyInv
<1>3. CASE recover_exceeded(d)
  <2>1. pc'[d] = "failed" /\ completed'[d] \cap owed' = {}
    BY ZenonT(30), <1>0, <1>3 DEF recover_exceeded, Goto, historyVars
  <2> QED BY SMTT(30), <2>1, EmptyHanded
<1>4. CASE recover_eof(d)
  <2>1. pc'[d] = "run" /\ completed'[d] \cap owed' = {}
    BY ZenonT(30), <1>0, <1>4 DEF recover_eof, Goto, historyVars, memoryVars
  <2>2. position'[d] = committed'[d]
    BY <1>4 DEF recover_eof, TypeOK
  <2> QED BY ZenonT(30), <2>1, <2>2, EmptyHanded
<1>5. CASE recover_error(d)
  <2>1. pc'[d] = "failed"
    BY ZenonT(30), <1>0, <1>5, FailsType DEF recover_error
  <2>2. completed'[d] \cap owed' = {}
    BY <1>0, <1>5 DEF recover_error, historyVars, memoryVars
  <2> QED BY <2>1, <2>2, EmptyHanded
<1> QED BY ZenonT(30), <1>1, <1>2, <1>3, <1>4, <1>5 DEF ReceiveStep

\* An attempt changes the record's attempt number and what is owed, at most.
LEMMA AttemptOwn ==
  ASSUME TypeOK, NEW d \in Destinations, WorkerInv(d),
         \/ attempt_delivered(d)
         \/ \E class \in FailureClass : attempt_retry(d, class) \/ attempt_dead(d, class)
  PROVE  WorkerInv(d)'
<1>1. /\ pc[d] = "attempt"
      /\ UNCHANGED <<topicVars, committed, position, input, input_committed, memoryVars>>
  BY DEF attempt_delivered, attempt_retry, attempt_dead, Attempted
<1>2. /\ log' = log /\ committed' = committed /\ position' = position /\ input' = input
      /\ input_committed' = input_committed /\ completed' = completed
  BY ZenonT(30), <1>1 DEF topicVars, memoryVars
<1>3. InHand(d) /\ record[d] \in Record
  BY <1>1 DEF InHand, WorkerInv, HandInv
<1>4. /\ record'[d] \in Record
      /\ record'[d].delivery_id = record[d].delivery_id
      /\ record'[d].destination_id = record[d].destination_id
  <2>1. CASE record' = record
    BY <1>3, <2>1
  <2>2. ASSUME NEW class \in FailureClass, attempt_retry(d, class)
        PROVE  /\ record'[d] \in Record
               /\ record'[d].delivery_id = record[d].delivery_id
               /\ record'[d].destination_id = record[d].destination_id
    <3>1. RetriesLeft(record[d]) /\ record' = [record EXCEPT ![d].attempt = @ + 1]
      BY <2>2 DEF attempt_retry
    <3>2. record'[d] = [record[d] EXCEPT !.attempt = @ + 1]
      BY <3>1 DEF TypeOK
    <3>3. record[d].attempt + 1 \in 1..AttemptLimit
      BY <1>3, <3>1, DurableAssumption DEF Record, RetriesLeft, AttemptLimit
    <3> QED BY <1>3, <3>2, <3>3 DEF Record
  <2> QED BY <2>1, <2>2 DEF attempt_delivered, attempt_dead
<1>5. Keeps(d) /\ LogGrows
  BY ZenonT(30), <1>2, <1>3, <1>4, LogSame DEF Keeps
<1>6. HandInv(d)'
  BY <1>2, <1>5, HandKept DEF WorkerInv
<1>7. pc'[d] \in {"finish", "publish_retry", "publish_dead"}
  BY ZenonT(30) DEF attempt_delivered, attempt_retry, attempt_dead, Goto, TypeOK
<1>8. CopyInv(d)'
  <2>1. input_committed[d] => Copied(d)
    BY <1>3 DEF WorkerInv, CopyInv, Copied
  <2>2. input_committed'[d] => Copied(d)'
    BY ZenonT(30), <1>2, <1>5, <2>1, CopyKept
  <2> QED BY ZenonT(30), <1>7, <2>2 DEF CopyInv, Copied
<1>9. FinishedInv(d)'
  <2>1. owed' \subseteq owed /\ (pc'[d] = "finish" => owed' = owed \ {record[d].delivery_id})
    BY <1>7 DEF attempt_delivered, attempt_retry, attempt_dead, Goto, TypeOK
  <2> QED BY <1>2, <1>4, <2>1 DEF WorkerInv, FinishedInv
<1>10. BetweenInv(d)'
  BY <1>7 DEF BetweenInv
<1> QED BY <1>6, <1>8, <1>9, <1>10 DEF WorkerInv

\* Publications: a retry leaves a copy that the worker has not received.
LEMMA PublishOwn ==
  ASSUME TypeOK, NEW d \in Destinations, WorkerInv(d), publish_retry(d) \/ publish_dead(d)
  PROVE  WorkerInv(d)'
<1>1. InHand(d) /\ record[d] \in Record /\ record[d].destination_id = d
  BY ZenonT(30) DEF InHand, WorkerInv, HandInv, publish_retry, publish_dead
<1>2. /\ committed' = committed /\ position' = position /\ input' = input
      /\ record' = record /\ input_committed' = input_committed /\ completed' = completed
  BY ZenonT(30) DEF publish_retry, publish_dead, workVars, memoryVars
<1>3. LogGrows
  BY ZenonT(30), <1>1, LogPublished DEF publish_retry, publish_dead, Topics
<1>4. Keeps(d)
  BY ZenonT(30), <1>1, <1>2 DEF Keeps
<1>5. HandInv(d)'
  BY <1>2, <1>3, <1>4, HandKept DEF WorkerInv
<1>6. input_committed'[d] => Copied(d)'
  <2>1. input_committed[d] => Copied(d)
    BY ZenonT(30), <1>1 DEF WorkerInv, CopyInv, Copied
  <2> QED BY ZenonT(30), <1>2, <1>3, <1>4, <2>1, CopyKept
<1>7. CASE publish_retry(d)
  <2>1. /\ Len(log'["retry"]) = Len(log["retry"]) + 1
        /\ log'["retry"][Len(log["retry"]) + 1] = record[d]
    BY <1>1, <1>7, PublishedLog DEF publish_retry, Topics
  <2>2. Len(log["retry"]) \in Nat /\ position[d]["retry"] \in Nat
        /\ position[d]["retry"] <= Len(log["retry"])
    BY SMTT(30) DEF TypeOK, Topics, Inputs
  <2>3. Len(log["retry"]) + 1 \in 1..Len(log'["retry"])
        /\ position'[d]["retry"] < Len(log["retry"]) + 1
    BY <1>2, <2>1, <2>2
  <2>4. Copied(d)'
    BY ZenonT(30), <1>1, <1>2, <2>1, <2>3 DEF Copied
  <2>5. pc'[d] \in {"attempt", "commit_retry"} /\ owed' = owed
    BY SMTT(30), <1>7 DEF publish_retry, Goto, TypeOK, historyVars
  <2> QED BY ZenonT(30), <1>2, <1>5, <2>4, <2>5 DEF WorkerInv, BetweenInv, CopyInv, Copied, FinishedInv
<1>8. CASE publish_dead(d)
  <2>1. pc'[d] = "finish" /\ owed' = owed \ {record[d].delivery_id}
    BY ZenonT(30), <1>8 DEF publish_dead, Goto, TypeOK
  <2>2. FinishedInv(d)'
    BY ZenonT(30), <1>2, <2>1 DEF WorkerInv, FinishedInv
  <2> QED BY ZenonT(30), <1>5, <1>6, <2>1, <2>2 DEF WorkerInv, BetweenInv, CopyInv, Copied
<1> QED BY ZenonT(30), <1>7, <1>8

\* Where a commit of the input leaves the worker's offsets.
LEMMA InputOffsets ==
  ASSUME TypeOK, NEW d \in Destinations, HandInv(d), InHand(d), Committed(d, input[d])
  PROVE  /\ committed'[d] = position[d]
         /\ committed'[d][input[d].topic] = input[d].offset
         /\ \A u \in Inputs : u # input[d].topic => committed'[d][u] = committed[d][u]
<1>1. input[d] \in [topic : Inputs, offset : Nat]
  BY DEF TypeOK
<1>2. /\ committed' \in [Destinations -> [Inputs -> Nat]]
      /\ committed'[d][input[d].topic] = input[d].offset
      /\ \A u \in Inputs : u # input[d].topic => committed'[d][u] = committed[d][u]
  BY ZenonT(30), <1>1, CommittedCursor
<1>3. /\ \A u \in Inputs : u # input[d].topic => committed[d][u] = position[d][u]
      /\ position[d][input[d].topic] = input[d].offset
  BY ZenonT(30) DEF HandInv
<1>4. \A u \in Inputs : committed'[d][u] = position[d][u]
  BY <1>2, <1>3
<1>5. position[d] \in [Inputs -> Nat]
  BY ZenonT(30) DEF TypeOK
<1>6. committed'[d] = position[d]
  BY <1>2, <1>4, <1>5
<1> QED BY ZenonT(30), <1>2, <1>6

\* Commits of the input: for a retry, whose copy is in the topic, and at the end.
LEMMA CommitOwn ==
  ASSUME TypeOK, NEW d \in Destinations, WorkerInv(d), commit_retry(d) \/ finish(d)
  PROVE  WorkerInv(d)'
<1>0. HandInv(d) /\ completed[d] \cap owed = {}
  BY ZenonT(30) DEF WorkerInv, FinishedInv
<1>1. CASE commit_retry(d)
  <2>1. InHand(d) /\ Committed(d, input[d]) /\ Copied(d)
    BY SMTT(30), <1>1 DEF commit_retry, InHand, WorkerInv, CopyInv, Copied
  <2>2. /\ log' = log /\ position' = position /\ input' = input /\ record' = record
        /\ completed' = completed /\ owed' = owed
    BY ZenonT(30), <1>1 DEF commit_retry, topicVars, memoryVars, historyVars
  <2>3. pc'[d] = "attempt" /\ input_committed'[d] = TRUE
    BY ZenonT(30), <1>1 DEF commit_retry, Goto, TypeOK
  <2>4. /\ committed'[d] = position[d]
        /\ committed'[d][input[d].topic] = input[d].offset
    BY ZenonT(30), <1>0, <2>1, InputOffsets
  <2>5. HandInv(d)'
    BY ZenonT(30), <1>0, <2>1, <2>2, <2>3, <2>4 DEF HandInv
  <2>6. CopyInv(d)'
    BY ZenonT(30), <2>1, <2>2 DEF CopyInv, Copied
  <2> QED BY ZenonT(30), <1>0, <2>2, <2>3, <2>5, <2>6 DEF WorkerInv, BetweenInv, FinishedInv
<1>2. CASE finish(d)
  <2>1. InHand(d) /\ record[d].delivery_id \notin owed /\ record[d] \in Record
    BY ZenonT(30), <1>0, <1>2 DEF finish, InHand, WorkerInv, FinishedInv, HandInv
  <2>2. position' = position /\ owed' = owed
    BY ZenonT(30), <1>2 DEF finish, historyVars
  <2>3. committed'[d] = position[d]
    <3>1. CASE input_committed[d]
      <4>1. /\ committed[d] \in [Inputs -> Nat] /\ position[d] \in [Inputs -> Nat]
            /\ input[d].topic \in Inputs
        BY ZenonT(30) DEF TypeOK
      <4>2. \A u \in Inputs : committed[d][u] = position[d][u]
        BY ZenonT(30), <1>0, <2>1, <3>1 DEF HandInv
      <4>3. committed[d] = position[d]
        BY SMTT(30), <4>1, <4>2
      <4> QED BY ZenonT(30), <1>2, <3>1, <4>3 DEF finish
    <3>2. CASE ~input_committed[d]
      BY ZenonT(30), <1>0, <1>2, <2>1, <3>2, InputOffsets DEF finish
    <3> QED BY <3>1, <3>2
  <2>4. pc'[d] \in {"recover", "run", "failed"}
    BY ZenonT(30), <1>2 DEF finish, Goto, TypeOK
  <2>5. completed'[d] \cap owed' = {}
    <3>1. completed'[d] \subseteq completed[d] \cup {record[d].delivery_id}
      BY <1>2 DEF finish, TypeOK
    <3> QED BY ZenonT(30), <1>0, <2>1, <2>2, <3>1
  <2> QED BY SMTT(30), <2>2, <2>3, <2>4, <2>5, EmptyHanded
<1> QED BY <1>1, <1>2

\* Every step of a worker keeps its own invariant.
LEMMA OwnStep ==
  ASSUME TypeOK, NEW d \in Destinations, WorkerInv(d),
         ReceiveStep(d) \/ ProcessStep(d) \/ FaultStep(d)
  PROVE  WorkerInv(d)'
<1>1. CASE publish_oversized(d) \/ publish_fails(d) \/ commit_fails(d)
  <2>1. Fails(d) /\ completed' = completed /\ owed' = owed
    BY ZenonT(30), <1>1 DEF publish_oversized, publish_fails, commit_fails, memoryVars, historyVars
  <2>2. pc'[d] = "failed"
    BY ZenonT(30), <2>1, FailsType DEF TypeOK
  <2>3. completed'[d] \cap owed' = {}
    BY <2>1 DEF WorkerInv, FinishedInv
  <2> QED BY ZenonT(30), <2>2, <2>3, EmptyHanded
<1>2. CASE ProcessStep(d)
  BY <1>2, AttemptOwn, PublishOwn, CommitOwn DEF ProcessStep
<1> QED BY ZenonT(30), <1>1, <1>2, ReceiveOwn DEF FaultStep

\* A new process starts at the groups' offsets.
LEMMA RestartOwn ==
  ASSUME NEW d \in Destinations, Restarted
  PROVE  WorkerInv(d)'
BY EmptyHanded DEF Restarted

\* The workers' invariants over every step.
LEMMA WorkerStep ==
  ASSUME TypeOK, IdsInv, \A d \in Destinations : WorkerInv(d), [Next]_vars
  PROVE  \A d \in Destinations : WorkerInv(d)'
<1>1. ASSUME \E r \in Record : Published("delivery", r),
             \A e \in Destinations : Same(e), owed' \subseteq owed \cup {commands + 1}
      PROVE  \A e \in Destinations : WorkerInv(e)'
  <2>1. LogGrows
    BY ZenonT(30), <1>1, LogPublished DEF Topics
  <2>2. \A id \in 1..commands : id \in owed' => id \in owed
    BY <1>1 DEF TypeOK
  <2> QED BY <1>1, <2>1, <2>2, Undisturbed
<1>2. ASSUME NEW d \in Destinations, NEW tight \in BOOLEAN, persist(d, tight)
      PROVE  \A e \in Destinations : WorkerInv(e)'
  <2>1. \E r \in Record : Published("delivery", r)
    BY ZenonT(30), <1>2, WriterType
  <2>2. owed' \subseteq owed \cup {commands + 1} /\ \A e \in Destinations : Same(e)
    BY <1>2 DEF persist, command_written, Same, workVars, memoryVars
  <2> QED BY <1>1, <2>1, <2>2
<1>3. ASSUME NEW i \in 1..Len(log["dead_letter"]), replay_dead_letter(i)
      PROVE  \A e \in Destinations : WorkerInv(e)'
  <2>1. \E r \in Record : Published("delivery", r)
    BY <1>3, WriterType
  <2>2. owed' \subseteq owed \cup {commands + 1} /\ \A e \in Destinations : Same(e)
    BY <1>3 DEF replay_dead_letter, Same, workVars, memoryVars
  <2> QED BY <1>1, <2>1, <2>2
<1>4. ASSUME NEW d \in Destinations, ReceiveStep(d) \/ ProcessStep(d) \/ FaultStep(d)
      PROVE  \A e \in Destinations : WorkerInv(e)'
  <2>1. Apart(d) /\ LogGrows /\ owed' \subseteq owed
    BY <1>4, WorkerEffect DEF WorkerInv
  <2>2. WorkerInv(d)'
    BY <1>4, OwnStep
  <2>3. ASSUME NEW e \in Destinations, e # d PROVE WorkerInv(e)'
    BY <2>1, <2>3, Undisturbed DEF Apart
  <2> QED BY <2>2, <2>3
<1>5. CASE crash \/ restart
  BY <1>5, RestartOwn DEF crash, restart
<1>6. CASE UNCHANGED vars
  <2>1. log' = log /\ owed' = owed /\ \A e \in Destinations : Same(e)
    BY <1>6 DEF vars, topicVars, workVars, memoryVars, historyVars, Same
  <2> QED BY ZenonT(30), <2>1, LogSame, Undisturbed
<1> QED BY <1>2, <1>3, <1>4, <1>5, <1>6 DEF Next

-----------------------------------------------------------------------------
(* Delivery ids                                                            *)

\* What a worker publishes is the record it has in hand.
LEMMA WorkerLog ==
  ASSUME NEW d \in Destinations, ReceiveStep(d) \/ ProcessStep(d) \/ FaultStep(d)
  PROVE  log' = log \/ (InHand(d) /\ \E t \in Topics : Published(t, record[d]))
<1>1. CASE publish_retry(d) \/ publish_dead(d) \/ publish_fails(d)
  BY ZenonT(30), <1>1 DEF publish_retry, publish_dead, publish_fails, InHand, Topics
<1>2. CASE ReceiveStep(d) \/ recover_error(d)
  BY ZenonT(30), <1>2 DEF ReceiveStep, skip, take, recover_exceeded, recover_eof, recover_error, topicVars
<1>3. CASE \/ attempt_delivered(d)
           \/ \E class \in FailureClass : attempt_retry(d, class) \/ attempt_dead(d, class)
  BY ZenonT(30), <1>3 DEF attempt_delivered, attempt_retry, attempt_dead, Attempted, topicVars
<1>4. CASE commit_retry(d) \/ finish(d) \/ commit_fails(d) \/ publish_oversized(d)
  BY ZenonT(30), <1>4 DEF commit_retry, finish, commit_fails, publish_oversized, topicVars
<1> QED BY ZenonT(30), <1>1, <1>2, <1>3, <1>4 DEF ProcessStep, FaultStep

\* A worker finishes what it has in hand, and takes what a topic holds.
LEMMA WorkerIds ==
  ASSUME TypeOK, IdsInv, NEW d \in Destinations, WorkerInv(d),
         ReceiveStep(d) \/ ProcessStep(d) \/ FaultStep(d)
  PROVE  /\ completed'[d] \subseteq 1..commands
         /\ InHand(d)' => record'[d].delivery_id \in 1..commands
<1>0. /\ completed[d] \subseteq 1..commands
      /\ InHand(d) => record[d].delivery_id \in 1..commands
      /\ pc \in [Destinations -> Labels]
  BY DEF IdsInv, TypeOK, Labels
<1>1. CASE finish(d)
  <2>1. InHand(d) /\ record' = record
    BY <1>1 DEF finish, InHand, workVars
  <2>2. completed'[d] \subseteq completed[d] \cup {record[d].delivery_id}
    BY ZenonT(30), <1>1 DEF finish, TypeOK
  <2> QED BY ZenonT(30), <1>0, <2>1, <2>2
<1>2. ASSUME NEW t \in Inputs, take(d, t)
      PROVE  completed' = completed /\ record'[d].delivery_id \in 1..commands
  <2>1. position[d][t] + 1 \in 1..Len(log[t]) /\ t \in Topics
    BY <1>2, ReceivedRecord DEF take, Inputs, Topics
  <2>2. completed' = completed /\ record'[d] = Received(d, t)
    BY <1>2 DEF take, TypeOK
  <2> QED BY ZenonT(30), <2>1, <2>2 DEF Received, IdsInv
<1>3. ASSUME NEW class \in FailureClass, attempt_retry(d, class)
      PROVE  completed' = completed /\ record'[d].delivery_id \in 1..commands
  <2>1. InHand(d) /\ completed' = completed /\ record' = [record EXCEPT ![d].attempt = @ + 1]
    BY <1>3 DEF attempt_retry, Attempted, InHand, memoryVars
  <2>2. record[d] \in Record
    BY <2>1 DEF WorkerInv, HandInv
  <2>3. record'[d].delivery_id = record[d].delivery_id
    BY <2>1, <2>2 DEF TypeOK, Record
  <2> QED BY <1>0, <2>1, <2>3
<1>4. CASE \E t \in Inputs : skip(d, t)
  <2>1. completed' = completed /\ record' = record
    BY ZenonT(30), <1>4 DEF skip, workVars
  <2>2. pc'[d] = pc[d] \/ pc'[d] = "failed"
    BY ZenonT(30), <1>0, <1>4 DEF skip, Fails, Goto
  <2> QED BY <1>0, <2>1, <2>2 DEF InHand
<1>5. CASE recover_exceeded(d) \/ recover_eof(d) \/ recover_error(d)
  <2>1. completed' = completed /\ record' = record
    BY ZenonT(30), <1>5 DEF recover_exceeded, recover_eof, recover_error, workVars, memoryVars
  <2>2. pc'[d] \in {"run", "failed"}
    BY ZenonT(30), <1>0, <1>5 DEF recover_exceeded, recover_eof, recover_error, Fails, Goto
  <2> QED BY ZenonT(30), <1>0, <2>1, <2>2 DEF InHand
<1>6. CASE \/ attempt_delivered(d) \/ publish_retry(d) \/ commit_retry(d) \/ publish_dead(d)
           \/ \E class \in FailureClass : attempt_dead(d, class)
  <2>1. completed' = completed /\ record' = record
    BY ZenonT(30), <1>6 DEF attempt_delivered, publish_retry, commit_retry, publish_dead, attempt_dead,
                Attempted, workVars, memoryVars
  <2>2. InHand(d)
    BY ZenonT(30), <1>6 DEF attempt_delivered, publish_retry, commit_retry, publish_dead, attempt_dead,
                Attempted, InHand
  <2> QED BY ZenonT(30), <1>0, <2>1, <2>2
<1>7. CASE publish_oversized(d) \/ publish_fails(d) \/ commit_fails(d)
  <2>1. completed' = completed /\ record' = record /\ InHand(d)
    BY ZenonT(30), <1>7 DEF publish_oversized, publish_fails, commit_fails, workVars, memoryVars, InHand
  <2> QED BY ZenonT(30), <1>0, <2>1
<1> QED BY ZenonT(30), <1>0, <1>1, <1>2, <1>3, <1>4, <1>5, <1>6, <1>7 DEF ReceiveStep, ProcessStep, FaultStep

\* A topic that gains a record with a known delivery id holds known ids only.
LEMMA LogIds ==
  ASSUME TypeOK, NEW n \in Nat, NEW t \in Topics, NEW r \in Record, Published(t, r),
         r.delivery_id \in 1..n,
         \A u \in Topics : \A o \in 1..Len(log[u]) : log[u][o].delivery_id \in 1..n
  PROVE  \A u \in Topics : \A o \in 1..Len(log'[u]) : log'[u][o].delivery_id \in 1..n
<1>1. /\ Len(log'[t]) = Len(log[t]) + 1
      /\ log'[t][Len(log[t]) + 1] = r
      /\ \A u \in Topics : u # t => log'[u] = log[u]
      /\ \A u \in Topics : \A o \in 1..Len(log[u]) : log'[u][o] = log[u][o]
  BY ZenonT(30), PublishedLog
<1>2. Len(log[t]) \in Nat
  BY DEF TypeOK
<1>3. ASSUME NEW o \in 1..Len(log'[t]) PROVE log'[t][o].delivery_id \in 1..n
  <2>1. o \in 1..Len(log[t]) \/ o = Len(log[t]) + 1
    BY <1>1, <1>2
  <2> QED BY <1>1, <2>1
<1> QED BY <1>1, <1>3

\* Every delivery id in use has been drawn.
LEMMA IdsStep ==
  ASSUME TypeOK, IdsInv, \A d \in Destinations : WorkerInv(d), [Next]_vars
  PROVE  IdsInv'
<1>0. commands \in Nat
  BY DEF TypeOK
<1>1. ASSUME NEW d \in Destinations, NEW tight \in BOOLEAN, persist(d, tight)
      PROVE  IdsInv'
  <2> DEFINE r == DurableRecord(commands + 1, d, 1, tight)
  <2>1. /\ commands < MaxCommands /\ commands' = commands + 1 /\ Published("delivery", r)
        /\ owed' = owed \cup {commands + 1}
        /\ completed' = completed /\ record' = record /\ pc' = pc
    BY <1>1 DEF persist, command_written, workVars, memoryVars
  <2>2. r \in Record /\ r.delivery_id = commands + 1
    BY <1>0, <2>1, DurableAssumption DEF DurableRecord, Record, DeliveryIds, AttemptLimit
  <2>3. 1..commands \subseteq 1..commands' /\ commands + 1 \in 1..commands' /\ commands' \in Nat
    BY <1>0, <2>1
  <2>4. \A u \in Topics : \A o \in 1..Len(log[u]) : log[u][o].delivery_id \in 1..commands'
    BY ZenonT(30), <2>3 DEF IdsInv
  <2>5. \A u \in Topics : \A o \in 1..Len(log'[u]) : log'[u][o].delivery_id \in 1..commands'
    <3> HIDE DEF r
    <3>1. "delivery" \in Topics
      BY DEF Topics
    <3> QED BY <2>1, <2>2, <2>3, <2>4, <3>1, LogIds
  <2>6. /\ owed' \subseteq 1..commands'
        /\ \A e \in Destinations : completed'[e] \subseteq 1..commands'
        /\ \A e \in Destinations : InHand(e)' => record'[e].delivery_id \in 1..commands'
    BY ZenonT(30), <2>1, <2>3 DEF IdsInv, InHand
  <2> QED BY <2>5, <2>6 DEF IdsInv
<1>2. ASSUME NEW i \in 1..Len(log["dead_letter"]), replay_dead_letter(i)
      PROVE  IdsInv'
  <2> DEFINE r == [log["dead_letter"][i] EXCEPT !.attempt = 1]
  <2>1. /\ commands' = commands /\ Published("delivery", r) /\ owed' = owed
        /\ completed' = completed /\ record' = record /\ pc' = pc
    BY ZenonT(30), <1>2 DEF replay_dead_letter, workVars, memoryVars
  <2>2. log["dead_letter"][i] \in Record /\ log["dead_letter"][i].delivery_id \in 1..commands
    BY DEF TypeOK, IdsInv, Topics
  <2>3. r \in Record /\ r.delivery_id \in 1..commands
    BY Zenon, <2>2, Replayed
  <2>4. \A u \in Topics : \A o \in 1..Len(log'[u]) : log'[u][o].delivery_id \in 1..commands
    <3> HIDE DEF r
    <3>1. /\ "delivery" \in Topics
          /\ \A u \in Topics : \A o \in 1..Len(log[u]) : log[u][o].delivery_id \in 1..commands
      BY ZenonT(30) DEF Topics, IdsInv
    <3> QED BY ZenonT(30), <1>0, <2>1, <2>3, <3>1, LogIds
  <2> QED BY <2>1, <2>4 DEF IdsInv, InHand
<1>3. ASSUME NEW d \in Destinations, ReceiveStep(d) \/ ProcessStep(d) \/ FaultStep(d)
      PROVE  IdsInv'
  <2>1. Apart(d) /\ owed' \subseteq owed /\ commands' = commands
    BY <1>3, WorkerEffect DEF WorkerInv
  <2>2. /\ completed'[d] \subseteq 1..commands
        /\ InHand(d)' => record'[d].delivery_id \in 1..commands
    BY ZenonT(30), <1>3, WorkerIds
  <2>3. \A u \in Topics : \A o \in 1..Len(log'[u]) : log'[u][o].delivery_id \in 1..commands
    <3>1. \A u \in Topics : \A o \in 1..Len(log[u]) : log[u][o].delivery_id \in 1..commands
      BY DEF IdsInv
    <3>2. CASE log' = log
      BY <3>1, <3>2
    <3>3. ASSUME InHand(d), NEW t \in Topics, Published(t, record[d])
          PROVE  \A u \in Topics : \A o \in 1..Len(log'[u]) : log'[u][o].delivery_id \in 1..commands
      <4>1. record[d] \in Record /\ record[d].delivery_id \in 1..commands
        BY ZenonT(30), <3>3 DEF WorkerInv, HandInv, IdsInv
      <4> QED BY ZenonT(30), <1>0, <3>1, <3>3, <4>1, LogIds
    <3> QED BY ZenonT(30), <1>3, <3>2, <3>3, WorkerLog
  <2>4. ASSUME NEW e \in Destinations
        PROVE  /\ completed'[e] \subseteq 1..commands
               /\ InHand(e)' => record'[e].delivery_id \in 1..commands
    BY <2>1, <2>2 DEF Apart, Same, IdsInv, InHand
  <2> QED BY <2>1, <2>3, <2>4 DEF IdsInv
<1>4. CASE crash \/ restart
  BY ZenonT(30), <1>4 DEF crash, restart, Restarted, topicVars, IdsInv, InHand
<1>5. CASE UNCHANGED vars
  BY <1>5 DEF vars, topicVars, workVars, memoryVars, historyVars, IdsInv, InHand
<1> QED BY <1>1, <1>2, <1>3, <1>4, <1>5 DEF Next

-----------------------------------------------------------------------------
(* No command is lost                                                      *)

Ahead(id, t, o) ==
  /\ o \in 1..Len(log[t])
  /\ log[t][o].delivery_id = id
  /\ committed[log[t][o].destination_id][t] < o

\* A delivery stays ahead of a group's offset that does not reach it.
LEMMA AheadStays ==
  ASSUME TypeOK, LogGrows, NEW id, NEW t \in Inputs, NEW o, Ahead(id, t, o),
         committed'[log[t][o].destination_id][t] < o
  PROVE  Ahead(id, t, o)'
<1>1. t \in Topics
  BY ZenonT(30) DEF Inputs, Topics
<1>2. Len(log[t]) \in Nat /\ Len(log'[t]) \in Int /\ Len(log[t]) <= Len(log'[t])
  BY <1>1 DEF TypeOK, LogGrows
<1>3. o \in 1..Len(log'[t]) /\ log'[t][o] = log[t][o]
  BY <1>1, <1>2 DEF Ahead, LogGrows
<1> QED BY <1>3 DEF Ahead

\* A commit of the input passes one record: the one in hand, which either has
\* its outcome or a copy ahead of the group's offset in the retry topic.
LEMMA InputPassed ==
  ASSUME TypeOK, NEW d \in Destinations, WorkerInv(d), pc[d] \in {"commit_retry", "finish"},
         Committed(d, input[d]), log' = log, owed' = owed,
         NEW t \in Inputs, NEW o \in 1..Len(log[t]), log[t][o].delivery_id \in owed,
         committed[d][t] < o, ~(committed'[d][t] < o)
  PROVE  \E v \in 1..Len(log["retry"]) : Ahead(log[t][o].delivery_id, "retry", v)'
<1>1. InHand(d) /\ HandInv(d)
  BY ZenonT(30) DEF InHand, WorkerInv
<1>2. /\ committed'[d] = position[d]
      /\ committed'[d][input[d].topic] = input[d].offset
      /\ \A u \in Inputs : u # input[d].topic => committed'[d][u] = committed[d][u]
  BY <1>1, InputOffsets
<1>3. t = input[d].topic
  BY ZenonT(30), <1>2
<1>4. /\ committed[d][t] = IF input_committed[d] THEN input[d].offset ELSE input[d].offset - 1
      /\ log[t][input[d].offset].delivery_id = record[d].delivery_id
      /\ input[d].offset \in Nat
  BY ZenonT(30), <1>1, <1>3 DEF HandInv, TypeOK
<1>5. Len(log[t]) \in Nat
  BY DEF TypeOK, Inputs, Topics
<1>6. o = input[d].offset
  BY <1>2, <1>3, <1>4, <1>5
<1>7. record[d].delivery_id \in owed
  BY ZenonT(30), <1>4, <1>6
<1>8. Copied(d)
  BY ZenonT(30), <1>7 DEF WorkerInv, FinishedInv, CopyInv, Copied
<1>9. PICK v \in 1..Len(log["retry"]) :
         /\ position[d]["retry"] < v
         /\ log["retry"][v].delivery_id = record[d].delivery_id
         /\ log["retry"][v].destination_id = d
  BY <1>8 DEF Copied
<1>10. committed'[log["retry"][v].destination_id]["retry"] < v
  BY ZenonT(30), <1>2, <1>9
<1> QED BY <1>4, <1>6, <1>9, <1>10 DEF Ahead

\* A skipped record is another destination's or has its outcome.
LEMMA SkipPassed ==
  ASSUME TypeOK, NEW d \in Destinations, WorkerInv(d), NEW s \in Inputs, skip(d, s),
         NEW t \in Inputs, NEW o \in 1..Len(log[t]), log[t][o].delivery_id \in owed,
         log[t][o].destination_id = d, committed[d][t] < o
  PROVE  committed'[d][t] < o
<1>1. CASE UNCHANGED committed
  BY <1>1
<1>2. CASE Committed(d, Cursor(d, s))
  <2>1. Receives(d, s) /\ Skippable(d, s)
    BY DEF skip
  <2>2. position[d] = committed[d] /\ position[d] \in [Inputs -> Nat]
    BY ZenonT(30), <2>1 DEF Receives, WorkerInv, BetweenInv, TypeOK
  <2>3. Cursor(d, s).topic = s /\ Cursor(d, s).offset = position[d][s] + 1
        /\ Cursor(d, s).offset \in Nat
    BY <2>2 DEF Cursor
  <2>4. /\ committed'[d][s] = position[d][s] + 1
        /\ \A u \in Inputs : u # s => committed'[d][u] = committed[d][u]
    BY SMTT(30), <1>2, <2>3, CommittedCursor
  <2>5. ~(t = s /\ o = position[d][s] + 1)
    BY <2>1 DEF Skippable, Own, Received, WorkerInv, FinishedInv
  <2>6. Len(log[t]) \in Nat
    BY DEF TypeOK, Inputs, Topics
  <2>7. CASE t = s
    BY <2>2, <2>4, <2>5, <2>6, <2>7
  <2>8. CASE t # s
    BY ZenonT(30), <2>4, <2>8
  <2> QED BY ZenonT(30), <2>7, <2>8
<1> QED BY ZenonT(30), <1>1, <1>2 DEF skip

\* Whatever a worker commits, a delivery of its destination that is owed stays
\* ahead of its group's offset, or has a copy ahead in the retry topic.
LEMMA OwnAhead ==
  ASSUME TypeOK, NEW d \in Destinations, WorkerInv(d), LogGrows, owed' \subseteq owed,
         ReceiveStep(d) \/ ProcessStep(d) \/ FaultStep(d),
         NEW id \in owed', NEW t \in Inputs, NEW o \in 1..Len(log[t]), Ahead(id, t, o),
         log[t][o].destination_id = d
  PROVE  Ahead(id, t, o)' \/ \E v \in 1..Len(log'["retry"]) : Ahead(id, "retry", v)'
<1>1. log[t][o].delivery_id = id /\ committed[d][t] < o /\ id \in owed
  BY ZenonT(30) DEF Ahead
<1>2. CASE committed'[d][t] < o
  BY ZenonT(30), <1>2, AheadStays
<1>3. CASE ~(committed'[d][t] < o)
  <2>1. ASSUME pc[d] \in {"commit_retry", "finish"}, Committed(d, input[d]), log' = log, owed' = owed
        PROVE  \E v \in 1..Len(log'["retry"]) : Ahead(id, "retry", v)'
    BY <1>1, <1>3, <2>1, InputPassed
  <2>2. CASE commit_retry(d) \/ finish(d) \/ commit_fails(d)
    <3>1. pc[d] \in {"commit_retry", "finish"} /\ log' = log /\ owed' = owed
      BY ZenonT(30), <2>2 DEF commit_retry, finish, commit_fails, topicVars, historyVars
    <3>2. UNCHANGED committed \/ Committed(d, input[d])
      BY SMTT(30), <2>2 DEF commit_retry, finish, commit_fails
    <3> QED BY ZenonT(30), <1>1, <1>3, <2>1, <3>1, <3>2
  <2>3. ASSUME NEW s \in Inputs, skip(d, s) PROVE FALSE
    BY ZenonT(30), <1>1, <1>3, <2>3, SkipPassed
  <2>4. CASE \/ recover_exceeded(d) \/ recover_eof(d) \/ recover_error(d)
             \/ \E s \in Inputs : take(d, s)
    BY ZenonT(30), <1>1, <1>3, <2>4 DEF recover_exceeded, recover_eof, recover_error, take
  <2>5. CASE \/ attempt_delivered(d) \/ publish_retry(d) \/ publish_dead(d)
             \/ \E class \in FailureClass : attempt_retry(d, class) \/ attempt_dead(d, class)
    BY ZenonT(30), <1>1, <1>3, <2>5
       DEF attempt_delivered, publish_retry, publish_dead, attempt_retry, attempt_dead, Attempted
  <2>6. CASE publish_oversized(d) \/ publish_fails(d)
    BY <1>1, <1>3, <2>6 DEF publish_oversized, publish_fails
  <2> QED BY ZenonT(30), <2>2, <2>3, <2>4, <2>5, <2>6 DEF ReceiveStep, ProcessStep, FaultStep
<1> QED BY <1>2, <1>3

\* Every step keeps what is owed ahead of the groups' offsets.
LEMMA LostStep ==
  ASSUME TypeOK, NoCommandLost, \A d \in Destinations : WorkerInv(d), [Next]_vars
  PROVE  NoCommandLost'
<1> SUFFICES ASSUME NEW id \in owed'
             PROVE  \E u \in Inputs : \E v \in 1..Len(log'[u]) : Ahead(id, u, v)'
  BY DEF NoCommandLost, Ahead
<1>0. id \in owed => \E t \in Inputs : \E o \in 1..Len(log[t]) : Ahead(id, t, o)
  BY DEF NoCommandLost, Ahead
<1>1. ASSUME id \in owed, LogGrows, committed' = committed
      PROVE  \E u \in Inputs : \E v \in 1..Len(log'[u]) : Ahead(id, u, v)'
  <2>1. PICK t \in Inputs : \E o \in 1..Len(log[t]) : Ahead(id, t, o)
    BY <1>0, <1>1
  <2>2. PICK o \in 1..Len(log[t]) : Ahead(id, t, o)
    BY <2>1
  <2>3. committed'[log[t][o].destination_id][t] < o
    BY ZenonT(30), <1>1, <2>2 DEF Ahead
  <2>4. Ahead(id, t, o)'
    BY <1>1, <2>2, <2>3, AheadStays
  <2> QED BY <2>4 DEF Ahead
<1>2. ASSUME NEW d \in Destinations, NEW tight \in BOOLEAN, persist(d, tight)
      PROVE  \E u \in Inputs : \E v \in 1..Len(log'[u]) : Ahead(id, u, v)'
  <2> DEFINE r == DurableRecord(commands + 1, d, 1, tight)
  <2>0. PICK n \in Nat : n = Len(log["delivery"]) + 1
    BY DEF TypeOK, Topics
  <2>1. /\ Published("delivery", r) /\ owed' = owed \cup {commands + 1}
        /\ committed' = committed /\ commands < MaxCommands
    BY ZenonT(30), <1>2 DEF persist, command_written
  <2>2. /\ r \in Record /\ r.delivery_id = commands + 1 /\ r.destination_id = d
        /\ "delivery" \in Topics
    BY <2>1, DurableAssumption
       DEF TypeOK, DurableRecord, Record, DeliveryIds, AttemptLimit, Topics
  <2>3. LogGrows /\ Len(log'["delivery"]) = n /\ log'["delivery"][n] = r
    <3> HIDE DEF r
    <3> QED BY ZenonT(30), <2>0, <2>1, <2>2, LogPublished, PublishedLog
  <2>4. CASE id \in owed
    BY ZenonT(30), <1>1, <2>1, <2>3, <2>4
  <2>5. CASE id = commands + 1
    <3>1. Len(log["delivery"]) \in Nat /\ committed[d]["delivery"] \in Nat
          /\ committed[d]["delivery"] <= Len(log["delivery"])
      BY DEF TypeOK, Topics, Inputs
    <3>2. n \in 1..Len(log'["delivery"]) /\ committed'[d]["delivery"] < n
      BY <2>0, <2>1, <2>3, <3>1
    <3>3. Ahead(id, "delivery", n)'
      <4> HIDE DEF r
      <4> QED BY <2>2, <2>3, <2>5, <3>2 DEF Ahead
    <3> QED BY ZenonT(30), <3>2, <3>3 DEF Inputs
  <2> QED BY <2>1, <2>4, <2>5
<1>3. ASSUME NEW i \in 1..Len(log["dead_letter"]), replay_dead_letter(i)
      PROVE  \E u \in Inputs : \E v \in 1..Len(log'[u]) : Ahead(id, u, v)'
  <2>1. \E r \in Record : Published("delivery", r)
    BY <1>3, WriterType
  <2>2. LogGrows
    BY ZenonT(30), <2>1, LogPublished DEF Topics
  <2> QED BY <1>1, <1>3, <2>2 DEF replay_dead_letter
<1>4. ASSUME NEW d \in Destinations, ReceiveStep(d) \/ ProcessStep(d) \/ FaultStep(d)
      PROVE  \E u \in Inputs : \E v \in 1..Len(log'[u]) : Ahead(id, u, v)'
  <2>1. Apart(d) /\ LogGrows /\ owed' \subseteq owed
    BY <1>4, WorkerEffect DEF WorkerInv
  <2>2. PICK t \in Inputs : \E o \in 1..Len(log[t]) : Ahead(id, t, o)
    BY <1>0, <2>1
  <2>3. PICK o \in 1..Len(log[t]) : Ahead(id, t, o)
    BY ZenonT(30), <2>2
  <2>4. CASE log[t][o].destination_id = d
    <3>1. Ahead(id, t, o)' \/ \E v \in 1..Len(log'["retry"]) : Ahead(id, "retry", v)'
      BY ZenonT(30), <1>4, <2>1, <2>3, <2>4, OwnAhead
    <3> QED BY ZenonT(30), <3>1 DEF Ahead, Inputs
  <2>5. CASE log[t][o].destination_id # d
    <3>1. log[t][o] \in Record
      BY SMTT(30) DEF TypeOK, Inputs, Topics
    <3>2. log[t][o].destination_id \in Destinations
      BY <3>1 DEF Record
    <3>3. committed'[log[t][o].destination_id] = committed[log[t][o].destination_id]
      BY ZenonT(30), <2>1, <2>5, <3>2 DEF Apart, Same
    <3>4. Ahead(id, t, o)'
      BY <2>1, <2>3, <3>3, AheadStays DEF Ahead
    <3> QED BY <3>4 DEF Ahead
  <2> QED BY <2>4, <2>5
<1>5. CASE crash \/ restart
  <2>1. log' = log /\ committed' = committed /\ owed' = owed
    BY <1>5 DEF crash, restart, Restarted, topicVars
  <2> QED BY <1>1, <2>1, LogSame
<1>6. CASE UNCHANGED vars
  <2>1. log' = log /\ committed' = committed /\ owed' = owed
    BY <1>6 DEF vars, topicVars, historyVars
  <2> QED BY <1>1, <2>1, LogSame
<1> QED BY ZenonT(30), <1>2, <1>3, <1>4, <1>5, <1>6 DEF Next

=============================================================================
