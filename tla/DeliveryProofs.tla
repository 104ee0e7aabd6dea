---------------------------- MODULE DeliveryProofs ----------------------------
(***************************************************************************)
(* Proofs about the Kafka consumer loop, and that the daemon process       *)
(* implements AtLeastOnce, for every number of partitions, records,        *)
(* destinations, commands, restarts and faults.                            *)
(*                                                                         *)
(* The consumer loop's inductive invariant IInv carries over to the        *)
(* process: its steps are the ingestor's own, a restart, or the workers',  *)
(* which leave the ingestor alone. Of the workers only one fact is needed, *)
(* that a step takes at most one delivery id off what is owed.             *)
(***************************************************************************)
EXTENDS Delivery, TLAPS

-----------------------------------------------------------------------------
(* The inductive invariant of the consumer loop                            *)

HandledUpTo(p, n) == \A o \in 1..n : Handled(p, o)

\* The record in hand: everything before it is handled, and it is persisted for
\* the destinations that are no longer to do.
HandInv ==
  pc = "persist" =>
    /\ record = At(record.partition, record.offset)
    /\ record.offset \in 1..Len(source[record.partition])
    /\ SourceRecord(record).valid
    /\ \A d \in SourceRecord(record).destinations \ todo : <<record, d>> \in persisted
    /\ HandledUpTo(record.partition, record.offset - 1)

\* A running consumer has left nothing behind.
PositionInv ==
  pc # "stopped" =>
    \A p \in assigned : \A o \in 1..position[p] :
      Handled(p, o) \/ (pc = "persist" /\ record = At(p, o))

\* A commit under way may be applied at any time.
CommitsInv ==
  \A i \in 1..Len(commits) :
    /\ commits[i].offset <= Len(source[commits[i].partition])
    /\ HandledUpTo(commits[i].partition, commits[i].offset)

\* A channel holds the delivery to be persisted and nothing else.
QueueInv ==
  /\ pc = "recv" => \A d \in Destinations : queue[d] = <<>>
  /\ pc = "persist" => \A d \in Destinations : queue[d] = IF d \in todo THEN <<record>> ELSE <<>>

IInv ==
  /\ TypeOK
  /\ HandInv
  /\ PositionInv
  /\ CommitsInv
  /\ QueueInv
  /\ CommittedIsHandled

-----------------------------------------------------------------------------
(* The consumer loop                                                       *)

\* A handled record stays handled: nothing takes a durable command back.
LEMMA HandledStays ==
  ASSUME NEW p, NEW o, source' = source, persisted \subseteq persisted', Handled(p, o)
  PROVE  Handled(p, o)'
BY DEF Handled

\* No step changes the source or takes a durable command back.
LEMMA Monotone ==
  ASSUME [Next]_vars
  PROVE  source' = source /\ persisted \subseteq persisted'
BY DEF Next, LoopStep, rebalance_assign, rebalance_revoke, commit_callback, receive_valid,
       receive_invalid, persist, persist_fails, commit_source, shutdown, crash, restart,
       Restarted, brokerVars, vars

\* commit_message adds a commit behind those under way.
LEMMA AppendElements ==
  ASSUME NEW S, NEW q \in Seq(S), NEW x \in S, NEW i \in 1..Len(Append(q, x))
  PROVE  \/ i \in 1..Len(q) /\ Append(q, x)[i] = q[i]
         \/ i = Len(q) + 1 /\ Append(q, x)[i] = x
OBVIOUS

\* commit_callback takes the oldest commit away.
LEMMA TailElements ==
  ASSUME NEW S, NEW q \in Seq(S), q # <<>>
  PROVE  /\ Head(q) = q[1] /\ 1 \in 1..Len(q) /\ Tail(q) \in Seq(S)
         /\ \A i \in 1..Len(Tail(q)) : i + 1 \in 1..Len(q) /\ Tail(q)[i] = q[i + 1]
OBVIOUS

\* A commit names a partition and an offset.
LEMMA CursorFields ==
  ASSUME NEW r \in Cursor
  PROVE  r.partition \in Partitions /\ r.offset \in Nat
BY DEF Cursor

\* commit_message adds the record's offset, or counts a failure.
LEMMA CommitMessage ==
  ASSUME TypeOK, NEW r \in Cursor, commit_message(r)
  PROVE  /\ commits' \in Seq(Cursor) /\ faults' \in 0..MaxFaults
         /\ commits' = Append(commits, r) \/ commits' = commits
<1>1. CASE commits' = Append(commits, r) /\ faults' = faults
  BY <1>1 DEF TypeOK
<1>2. CASE commits' = commits /\ Fault
  BY <1>2, IngestAssumption DEF TypeOK, Fault
<1> QED BY <1>1, <1>2 DEF commit_message

-----------------------------------------------------------------------------
(* One lemma per part of the invariant                                     *)

\* Types, and the ends of the partitions.  (Every step of run and the broker.)
LEMMA TypeStep ==
  ASSUME TypeOK, CommitsInv, HandInv, [Next]_vars
  PROVE  TypeOK'
<1> USE DEF TypeOK
<1>0. ASSUME Fault PROVE faults' \in 0..MaxFaults
  BY <1>0, IngestAssumption DEF Fault
<1>1. CASE rebalance_assign
  BY <1>1 DEF rebalance_assign, brokerVars, loopVars
<1>2. CASE rebalance_revoke
  BY ZenonT(30), <1>0, <1>2 DEF rebalance_revoke, brokerVars, loopVars
<1>3. CASE commit_callback
  <2>1. /\ Head(commits) \in Cursor /\ Tail(commits) \in Seq(Cursor)
        /\ Head(commits).offset <= Len(source[Head(commits).partition])
    BY <1>3, TailElements DEF commit_callback, CommitsInv
  <2>2. commits' \in Seq(Cursor) /\ faults' \in 0..MaxFaults
    BY <1>0, <1>3, <2>1 DEF commit_callback
  <2>3. Head(commits).partition \in Partitions /\ Head(commits).offset \in Nat
    BY ZenonT(30), <2>1, CursorFields
  <2>4. /\ committed' \in [Partitions -> Nat]
        /\ \A p \in Partitions : committed'[p] <= Len(source[p])
    BY ZenonT(30), <1>3, <2>1, <2>3 DEF commit_callback
  <2> QED BY <1>3, <2>2, <2>4 DEF commit_callback, consumerVars, loopVars
<1>4. ASSUME NEW p \in Partitions, receive_valid(p)
      PROVE  TypeOK'
  <2>1. Received(p) \in Cursor /\ source[p] \in Seq(Record)
    BY DEF Received, At, Cursor
  <2>2. /\ position' \in [Partitions -> Nat]
        /\ \A q \in Partitions : position'[q] <= Len(source[q])
    BY <1>4 DEF receive_valid, Receives
  <2>3. SourceRecord(Received(p)).destinations \subseteq Destinations
    <3>1. SourceRecord(Received(p)) = source[p][position[p] + 1]
      BY DEF SourceRecord, Received, At
    <3>2. source[p][position[p] + 1] \in Record
      BY <1>4, <2>1 DEF receive_valid, Receives
    <3>3. \A r \in Record : r.destinations \subseteq Destinations
      BY ZenonT(30) DEF Record
    <3> QED BY <3>1, <3>2, <3>3
  <2>4. queue' \in [Destinations -> Seq(Cursor)]
    BY <1>4, <2>1 DEF receive_valid, dispatch
  <2> QED BY <1>4, <2>1, <2>2, <2>3, <2>4 DEF receive_valid, brokerVars
<1>5. ASSUME NEW p \in Partitions, receive_invalid(p)
      PROVE  TypeOK'
  <2>1. Received(p) \in Cursor
    BY DEF Received, At, Cursor
  <2>2. /\ position' \in [Partitions -> Nat]
        /\ \A q \in Partitions : position'[q] <= Len(source[q])
    BY <1>5 DEF receive_invalid, Receives
  <2>3. commits' \in Seq(Cursor) /\ faults' \in 0..MaxFaults /\ pc' \in {pc, "stopped"}
    <3>1. \/ commit_message(Received(p)) /\ pc' = pc
          \/ pc' = "stopped" /\ commits' = commits /\ faults' = faults
      BY <1>5 DEF receive_invalid
    <3> QED BY <2>1, <3>1, CommitMessage
  <2> QED BY <1>5, <2>1, <2>2, <2>3 DEF receive_invalid
<1>6. ASSUME NEW d \in Destinations, persist(d) \/ persist_fails(d)
      PROVE  TypeOK'
  <2>1. queue' \in [Destinations -> Seq(Cursor)]
    <3>1. queue[d] # <<>> /\ queue[d] \in Seq(Cursor) /\ queue' = [queue EXCEPT ![d] = Tail(@)]
      BY <1>6 DEF persist, persist_fails, Takes
    <3>2. Tail(queue[d]) \in Seq(Cursor)
      BY <3>1, TailElements
    <3> QED BY <3>1, <3>2
  <2>2. persisted' \subseteq Cursor \X Destinations
    BY <1>6 DEF persist, persist_fails
  <2>3. todo' \subseteq Destinations /\ pc' \in {pc, "stopped"} /\ faults' \in 0..MaxFaults
    BY <1>0, <1>6 DEF persist, persist_fails
  <2> QED BY <1>6, <2>1, <2>2, <2>3 DEF persist, persist_fails, consumerVars
<1>7. CASE commit_source
  <2>1. commits' \in Seq(Cursor) /\ faults' \in 0..MaxFaults
    BY <1>7, CommitMessage DEF commit_source
  <2> QED BY <1>7, <2>1 DEF commit_source, consumerVars
<1>8. CASE shutdown
  BY <1>0, <1>8 DEF shutdown, brokerVars, consumerVars
<1>9. CASE crash \/ restart
  <2>1. NoRecord \in Cursor
    BY IngestAssumption DEF NoRecord, At, Cursor
  <2>2. queue' \in [Destinations -> Seq(Cursor)] /\ commits' \in Seq(Cursor)
    <3>1. queue' = [d \in Destinations |-> <<>>] /\ commits' = <<>>
      BY <1>9 DEF crash, restart, Restarted, Empty
    <3>2. <<>> \in Seq(Cursor)
      OBVIOUS
    <3> QED BY <3>1, <3>2
  <2>3. faults' \in 0..MaxFaults
    BY <1>0, <1>9 DEF crash, restart
  <2> QED BY <1>9, <2>1, <2>2, <2>3 DEF crash, restart, Restarted
<1>10. CASE UNCHANGED vars
  BY <1>10 DEF vars, brokerVars, consumerVars, loopVars
<1> QED
  BY ZenonT(30), <1>1, <1>2, <1>3, <1>4, <1>5, <1>6, <1>7, <1>8, <1>9, <1>10 DEF Next, LoopStep

\* The record in hand.
LEMMA HandStep ==
  ASSUME TypeOK, HandInv, PositionInv, [Next]_vars
  PROVE  HandInv'
<1> SUFFICES ASSUME pc' = "persist"
             PROVE  HandInv'
  BY DEF HandInv
<1>0. /\ source' = source /\ persisted \subseteq persisted'
      /\ \A p, n : HandledUpTo(p, n) => HandledUpTo(p, n)'
  BY ZenonT(30), Monotone, HandledStays DEF HandledUpTo
<1>1. ASSUME NEW p \in Partitions, receive_valid(p)
      PROVE  HandInv'
  <2>1. /\ pc = "recv" /\ p \in assigned /\ position[p] < Len(source[p])
        /\ record' = At(p, position[p] + 1)
        /\ SourceRecord(At(p, position[p] + 1)).valid
        /\ todo' = SourceRecord(At(p, position[p] + 1)).destinations
    BY <1>1 DEF receive_valid, Receives, Received
  <2>2. HandledUpTo(p, position[p])
    BY <2>1 DEF PositionInv, HandledUpTo
  <2>3. record'.partition = p /\ record'.offset = position[p] + 1
    BY <2>1 DEF At
  <2>4. position[p] \in Nat /\ Len(source[p]) \in Nat
    BY DEF TypeOK
  <2>5. SourceRecord(record)' = SourceRecord(At(p, position[p] + 1))
    BY <1>0, <2>1 DEF SourceRecord
  <2>6. record'.offset \in 1..Len(source'[p]) /\ record'.offset - 1 = position[p]
    BY <1>0, <2>1, <2>3, <2>4
  <2> QED BY <1>0, <2>1, <2>2, <2>3, <2>5, <2>6 DEF HandInv
<1>2. ASSUME pc = "persist", record' = record, todo' = todo
      PROVE  HandInv'
  BY ZenonT(30), <1>0, <1>2 DEF HandInv, SourceRecord
<1>3. ASSUME NEW d \in Destinations, persist(d), pc' = "persist"
      PROVE  HandInv'
  <2>1. /\ pc = "persist" /\ record' = record /\ todo' = todo \ {d}
        /\ persisted' = persisted \cup {<<record, d>>}
    BY <1>3 DEF persist, Takes
  <2>2. SourceRecord(record)' = SourceRecord(record)
    BY <1>0, <2>1 DEF SourceRecord
  <2>3. ASSUME NEW e \in SourceRecord(record).destinations \ todo'
        PROVE  <<record, e>> \in persisted'
    BY <2>1 DEF HandInv
  <2> QED BY <1>0, <2>1, <2>2, <2>3 DEF HandInv
<1> QED
  BY ZenonT(30), <1>1, <1>2, <1>3
     DEF Next, LoopStep, rebalance_assign, rebalance_revoke, commit_callback,
         receive_invalid, Receives, persist_fails, commit_source, shutdown, crash, restart,
         Restarted, loopVars, vars

\* What a running consumer has read is handled, or in hand.
LEMMA PositionStep ==
  ASSUME TypeOK, TypeOK', HandInv, PositionInv, CommittedIsHandled, [Next]_vars
  PROVE  PositionInv'
<1> SUFFICES ASSUME pc' # "stopped", NEW p \in assigned', NEW o \in 1..position'[p]
             PROVE  Handled(p, o)' \/ (pc' = "persist" /\ record' = At(p, o))
  BY DEF PositionInv
<1>0. /\ \A q, n : Handled(q, n) => Handled(q, n)'
      /\ assigned' \subseteq Partitions
  BY ZenonT(30), Monotone, HandledStays DEF TypeOK
<1>1. CASE rebalance_assign
  BY <1>0, <1>1 DEF rebalance_assign, CommittedIsHandled
<1>2. ASSUME NEW q \in Partitions, receive_valid(q) \/ receive_invalid(q)
      PROVE  Handled(p, o)' \/ (pc' = "persist" /\ record' = At(p, o))
  <2>1. /\ pc = "recv" /\ assigned' = assigned /\ position[q] \in Nat
        /\ position' = [position EXCEPT ![q] = @ + 1]
    BY ZenonT(30), <1>2 DEF receive_valid, receive_invalid, Receives, TypeOK
  <2>2. CASE o \in 1..position[p]
    BY <1>0, <2>1, <2>2 DEF PositionInv
  <2>3. CASE o \notin 1..position[p]
    <3>1. p = q /\ o = position[q] + 1
      BY <1>0, <2>1, <2>3 DEF TypeOK
    <3>2. CASE receive_valid(q)
      BY ZenonT(30), <3>1, <3>2 DEF receive_valid, Received
    <3>3. CASE receive_invalid(q)
      <4>1. ~source[q][position[q] + 1].valid /\ commit_invalid_messages
        BY <3>3 DEF receive_invalid, SourceRecord, Received, At
      <4>2. Handled(q, position[q] + 1)
        BY <4>1 DEF Handled
      <4> QED BY <1>0, <3>1, <4>2
    <3> QED BY <1>2, <3>2, <3>3
  <2> QED BY <2>2, <2>3
<1>3. CASE commit_source
  <2>1. ASSUME record = At(p, o)
        PROVE  Handled(p, o)
    BY <1>3, <2>1 DEF commit_source, HandInv, Handled, SourceRecord, At
  <2> QED BY ZenonT(30), <1>0, <1>3, <2>1 DEF commit_source, consumerVars, PositionInv
<1>4. ASSUME pc' = pc, record' = record, position' = position, assigned' \in {assigned, {}}
      PROVE  Handled(p, o)' \/ (pc' = "persist" /\ record' = At(p, o))
  BY <1>0, <1>4 DEF PositionInv
<1>5. CASE crash \/ restart
  BY <1>5 DEF crash, restart, Restarted
<1>6. ASSUME NEW d \in Destinations, persist(d)
      PROVE  Handled(p, o)' \/ (pc' = "persist" /\ record' = At(p, o))
  BY ZenonT(30), <1>4, <1>6 DEF persist, consumerVars
<1> QED
  BY ZenonT(30), <1>1, <1>2, <1>3, <1>4, <1>5, <1>6
     DEF Next, LoopStep, rebalance_revoke, commit_callback, persist_fails, shutdown,
         consumerVars, loopVars, vars

\* A commit is asked for only when the record and all before it are handled.
LEMMA CommitsStep ==
  ASSUME TypeOK, TypeOK', HandInv, PositionInv, CommitsInv, [Next]_vars
  PROVE  CommitsInv'
<1>0. /\ source' = source
      /\ \A p, n : HandledUpTo(p, n) => HandledUpTo(p, n)'
  BY ZenonT(30), Monotone, HandledStays DEF HandledUpTo
<1> DEFINE Fine(r) == r.offset <= Len(source[r.partition]) /\ HandledUpTo(r.partition, r.offset)
<1>1. ASSUME NEW r \in Cursor, commits' = Append(commits, r), Fine(r)
      PROVE  CommitsInv'
  <2>1. ASSUME NEW i \in 1..Len(commits')
        PROVE  Fine(commits'[i])
    <3>1. \/ i \in 1..Len(commits) /\ commits'[i] = commits[i]
          \/ commits'[i] = r
      BY <1>1, AppendElements DEF TypeOK
    <3> QED BY ZenonT(30), <1>1, <3>1 DEF CommitsInv
  <2> QED BY <1>0, <2>1 DEF CommitsInv
<1>2. ASSUME commits' = commits
      PROVE  CommitsInv'
  BY <1>0, <1>2 DEF CommitsInv
<1>3. ASSUME commits # <<>>, commits' = Tail(commits)
      PROVE  CommitsInv'
  <2>1. \A i \in 1..Len(commits') : \E j \in 1..Len(commits) : commits'[i] = commits[j]
    BY <1>3, TailElements DEF TypeOK
  <2> QED BY <1>0, <2>1 DEF CommitsInv
<1>4. ASSUME commits' = <<>>
      PROVE  CommitsInv'
  BY <1>4 DEF CommitsInv
<1>5. CASE commit_source
  <2>1. record \in Cursor /\ (commits' = commits \/ commits' = Append(commits, record))
    BY ZenonT(30), <1>5 DEF commit_source, commit_message, TypeOK
  <2>2. /\ record = At(record.partition, record.offset) /\ todo = {}
        /\ record.offset \in 1..Len(source[record.partition])
        /\ SourceRecord(record).valid
        /\ \A d \in SourceRecord(record).destinations : <<record, d>> \in persisted
        /\ HandledUpTo(record.partition, record.offset - 1)
    BY <1>5 DEF commit_source, HandInv
  <2>3. Handled(record.partition, record.offset)
    BY <2>2 DEF Handled, SourceRecord
  <2>4. record.offset \in Nat /\ record.partition \in Partitions
    BY <2>1 DEF Cursor
  <2>5. Len(source[record.partition]) \in Nat
    BY <2>4 DEF TypeOK
  <2>6. Fine(record)
    BY <2>2, <2>3, <2>4, <2>5 DEF HandledUpTo
  <2> QED BY <1>1, <1>2, <2>1, <2>6
<1>6. ASSUME NEW p \in Partitions, receive_invalid(p)
      PROVE  CommitsInv'
  <2>1. CASE commits' = commits
    BY <1>2, <2>1
  <2>2. CASE commits' # commits
    <3>1. /\ pc = "recv" /\ p \in assigned /\ position[p] < Len(source[p])
          /\ commits' = Append(commits, At(p, position[p] + 1))
          /\ ~source[p][position[p] + 1].valid /\ commit_invalid_messages
      BY ZenonT(30), <1>6, <2>2 DEF receive_invalid, commit_message, Receives, Received, SourceRecord, At
    <3>2. Handled(p, position[p] + 1) /\ HandledUpTo(p, position[p])
      BY <3>1 DEF Handled, PositionInv, HandledUpTo
    <3>3. position[p] \in Nat /\ Len(source[p]) \in Nat
      BY DEF TypeOK
    <3>4. HandledUpTo(p, position[p] + 1)
      BY <3>2, <3>3 DEF HandledUpTo
    <3>5. At(p, position[p] + 1) \in Cursor /\ Fine(At(p, position[p] + 1))
      BY <3>1, <3>3, <3>4 DEF Cursor, At
    <3> QED BY ZenonT(30), <1>1, <3>1, <3>5
  <2> QED BY <2>1, <2>2
<1> QED
  BY ZenonT(30), <1>2, <1>3, <1>4, <1>5, <1>6
     DEF Next, LoopStep, rebalance_assign, rebalance_revoke, commit_callback, receive_valid,
         persist, persist_fails, shutdown, crash, restart, Restarted, brokerVars, vars

\* A commit that is applied passes handled records only.
LEMMA CommittedStep ==
  ASSUME TypeOK, CommitsInv, CommittedIsHandled, [Next]_vars
  PROVE  CommittedIsHandled'
<1>0. \A p, n : Handled(p, n) => Handled(p, n)'
  BY Monotone, HandledStays
<1>1. ASSUME committed' = committed
      PROVE  CommittedIsHandled'
  BY <1>0, <1>1 DEF CommittedIsHandled
<1>2. ASSUME commits # <<>>,
             committed' = [committed EXCEPT ![Head(commits).partition] = Head(commits).offset]
      PROVE  CommittedIsHandled'
  <2>1. HandledUpTo(Head(commits).partition, Head(commits).offset)
    BY ZenonT(30), <1>2, TailElements DEF TypeOK, CommitsInv
  <2>2. ASSUME NEW p \in Partitions, NEW o \in 1..committed'[p]
        PROVE  Handled(p, o)
    BY ZenonT(30), <1>2, <2>1, <2>2 DEF TypeOK, CommittedIsHandled, HandledUpTo
  <2> QED BY <1>0, <2>2 DEF CommittedIsHandled
<1> QED
  BY <1>1, <1>2
     DEF Next, LoopStep, rebalance_assign, rebalance_revoke, commit_callback, receive_valid,
         receive_invalid, persist, persist_fails, commit_source, shutdown, crash, restart,
         Restarted, brokerVars, vars

\* A channel is filled by the dispatch of a record and emptied before the next.
LEMMA QueueStep ==
  ASSUME TypeOK, QueueInv, [Next]_vars
  PROVE  QueueInv'
<1>1. ASSUME NEW p \in Partitions, receive_valid(p)
      PROVE  QueueInv'
  <2>1. /\ pc' = "persist" /\ record' = Received(p)
        /\ todo' = SourceRecord(Received(p)).destinations
        /\ queue' = [d \in Destinations |->
                      IF d \in SourceRecord(Received(p)).destinations
                           /\ Len(queue[d]) < queue_capacity
                        THEN Append(queue[d], Received(p)) ELSE queue[d]]
    BY ZenonT(30), <1>1 DEF receive_valid, dispatch
  <2>2. \A d \in Destinations : queue[d] = <<>>
    BY <1>1 DEF receive_valid, Receives, QueueInv
  <2>3. Len(<<>>) < queue_capacity
    BY IngestAssumption
  <2>4. Append(<<>>, Received(p)) = <<Received(p)>>
    OBVIOUS
  <2> QED BY ZenonT(30), <2>1, <2>2, <2>3, <2>4 DEF QueueInv
<1>2. ASSUME NEW d \in Destinations, persist(d) \/ persist_fails(d)
      PROVE  QueueInv'
  <2>1. /\ pc = "persist" /\ record' = record /\ d \in todo
        /\ queue' = [queue EXCEPT ![d] = Tail(@)]
    BY <1>2 DEF persist, persist_fails, Takes
  <2>2. queue[d] = <<record>>
    BY <2>1 DEF QueueInv
  <2>3. pc' = "stopped" \/ (pc' = "persist" /\ todo' = todo \ {d})
    BY <1>2, <2>1 DEF persist, persist_fails
  <2>4. Tail(<<record>>) = <<>>
    OBVIOUS
  <2>5. \A e \in Destinations : queue'[e] = IF e = d THEN <<>> ELSE queue[e]
    BY <2>1, <2>2, <2>4 DEF TypeOK
  <2> QED BY <2>1, <2>3, <2>5 DEF QueueInv
<1>3. ASSUME queue' = queue, record' = record, todo' = todo,
             pc' = pc \/ pc' = "stopped" \/ (todo = {} /\ pc = "persist" /\ pc' = "recv")
      PROVE  QueueInv'
  BY <1>3 DEF QueueInv
<1>4. CASE crash \/ restart
  BY <1>4 DEF crash, restart, Restarted, Empty, QueueInv
<1>5. ASSUME NEW p \in Partitions, receive_invalid(p)
      PROVE  QueueInv'
  BY <1>3, <1>5 DEF receive_invalid
<1> QED
  BY <1>1, <1>2, <1>3, <1>4, <1>5
     DEF Next, LoopStep, rebalance_assign, rebalance_revoke, commit_callback, commit_source,
         shutdown, loopVars, vars

\* Nothing is received, committed or persisted at first.
LEMMA Initially ==
  ASSUME Init
  PROVE  IInv
<1>1. source \in [Partitions -> Seq(Record)]
  <2>1. ASSUME NEW n \in 0..MaxRecords, NEW f \in [1..n -> Record]
        PROVE  f \in Seq(Record)
    BY IngestAssumption
  <2>2. UNION {[1..n -> Record] : n \in 0..MaxRecords} \subseteq Seq(Record)
    BY <2>1
  <2> QED BY <2>2 DEF Init
<1>2. NoRecord \in Cursor
  BY IngestAssumption DEF NoRecord, At, Cursor
<1>3. commits \in Seq(Cursor) /\ queue \in [Destinations -> Seq(Cursor)]
  <2>1. <<>> \in Seq(Cursor)
    OBVIOUS
  <2> QED BY <2>1 DEF Init, Empty
<1>4. \A p \in Partitions : committed[p] = 0 /\ position[p] = 0 /\ Len(source[p]) \in Nat
  BY <1>1 DEF Init
<1>5. TypeOK
  BY <1>1, <1>2, <1>3, <1>4, IngestAssumption DEF Init, TypeOK
<1>6. CommittedIsHandled /\ PositionInv
  BY <1>4 DEF Init, CommittedIsHandled, PositionInv
<1>7. HandInv /\ CommitsInv /\ QueueInv
  BY DEF Init, Empty, HandInv, CommitsInv, QueueInv
<1> QED BY <1>5, <1>6, <1>7 DEF IInv

-----------------------------------------------------------------------------
(* Theorems about the consumer loop                                        *)

\* Every step of the consumer loop, its group and its process keeps the invariant.
LEMMA Inductive ==
  ASSUME IInv, [Next]_vars
  PROVE  IInv'
<1>1. TypeOK'
  BY TypeStep DEF IInv
<1> QED BY <1>1, HandStep, PositionStep, CommitsStep, QueueStep, CommittedStep DEF IInv

\* Every reachable state of the consumer loop satisfies the invariant.
THEOREM Invariance == Spec => []IInv
BY Initially, Inductive, PTL DEF Spec

\* run keeps its types, and neither a position nor a committed offset passes
\* the end of its partition.
THEOREM TypeCorrect == Spec => []TypeOK
BY Invariance, PTL DEF IInv

\* A source offset is committed only past records whose durable commands are
\* all written, for any number of partitions, records, crashes, rebalances and
\* lost, late or failed commits (ingestor.rs, run).
THEOREM CommittedOnlyHandled == Spec => []CommittedIsHandled
BY Invariance, PTL DEF IInv

\* The delivery that persist awaits is there, and it is the right one, so the
\* consumer loop neither blocks nor meets a mismatch (durable.rs, persist).
THEOREM NeverWaits == Spec => []PersistNeverWaits
<1>1. ASSUME IInv, pc = "persist", NEW d \in todo
      PROVE  queue[d] # <<>> /\ Head(queue[d]) = record
  <2>1. queue[d] = <<record>>
    BY <1>1 DEF IInv, TypeOK, QueueInv
  <2> QED BY <2>1
<1>2. IInv => PersistNeverWaits
  BY <1>1 DEF PersistNeverWaits
<1> QED BY <1>2, Invariance, PTL

-----------------------------------------------------------------------------
(* The inductive invariant of the process                                  *)

\* Every command is for a delivery that is written down.
OriginInv ==
  /\ origin \in Seq(Cursor \X Destinations)
  /\ Len(origin) = commands
  /\ \A id \in 1..commands : origin[id] \in persisted

\* What is still to be persisted is what the record in hand matches.
TodoInv == pc = "persist" => todo \subseteq SourceRecord(record).destinations

\* A commit under way is of a record.
OffsetInv == \A i \in 1..Len(commits) : commits[i].offset >= 1

DInv == IInv /\ OriginInv /\ TodoInv /\ OffsetInv

-----------------------------------------------------------------------------
(* Lemmas                                                                  *)

\* A worker's step settles at most the delivery of the record it has in hand.
LEMMA WorkerSettles ==
  ASSUME NEW d \in Destinations, W!ReceiveStep(d) \/ W!ProcessStep(d) \/ W!FaultStep(d)
  PROVE  /\ commands' = commands
         /\ owed' = owed \/ owed' = owed \ {w_record[d].delivery_id}
         /\ faults' = faults \/ Fault
<1> USE DEF W!topicVars, W!historyVars
<1>1. CASE W!ReceiveStep(d)
  BY ZenonT(30), <1>1 DEF W!ReceiveStep, W!skip, W!take, W!recover_exceeded, W!recover_eof, W!Fails, W!Fault, Fault
<1>2. CASE W!FaultStep(d)
  BY ZenonT(30), <1>2 DEF W!FaultStep, W!recover_error, W!publish_oversized, W!publish_fails,
              W!commit_fails, W!Fails, W!Fault, Fault
<1>3. CASE \/ W!attempt_delivered(d)
           \/ \E class \in W!FailureClass : W!attempt_retry(d, class) \/ W!attempt_dead(d, class)
  BY ZenonT(30), <1>3 DEF W!attempt_delivered, W!attempt_retry, W!attempt_dead, W!Attempted
<1>4. CASE W!publish_retry(d) \/ W!commit_retry(d) \/ W!publish_dead(d) \/ W!finish(d)
  BY ZenonT(30), <1>4 DEF W!publish_retry, W!commit_retry, W!publish_dead, W!finish
<1> QED BY ZenonT(30), <1>1, <1>2, <1>3, <1>4 DEF W!ProcessStep

\* A command adds one delivery id, which is owed.
LEMMA CommandAdds ==
  ASSUME NEW d \in Destinations, command_published(d)
  PROVE  /\ commands' = commands + 1
         /\ owed' = owed \cup {commands + 1}
         /\ origin' = Append(origin, <<record, d>>)
BY ZenonT(30) DEF command_published, W!command_written

\* The steps of the process, as far as the ingestor and what is settled see them.
LEMMA StepKinds ==
  ASSUME [DeliveryNext]_deliveryVars
  PROVE  \/ /\ \/ rebalance_assign \/ rebalance_revoke \/ commit_callback \/ commit_source
               \/ shutdown \/ (\E p \in Partitions : receive_valid(p) \/ receive_invalid(p))
            /\ UNCHANGED workerVars
         \/ \E d \in Destinations : persist_command(d) \/ persist_command_fails(d)
         \/ /\ \E d \in Destinations : W!ReceiveStep(d) \/ W!ProcessStep(d) \/ W!FaultStep(d)
            /\ UNCHANGED <<ingestVars, origin>>
         \/ /\ Restarted /\ (faults' = faults \/ Fault)
            /\ UNCHANGED <<commands, owed, origin>>
         \/ UNCHANGED deliveryVars
<1>1. CASE process_crashes \/ process_fails
  BY <1>1 DEF process_crashes, process_fails, process_restarted, W!Restarted, W!topicVars
<1>2. CASE \E d \in Destinations : Work(d) \/ (W!FaultStep(d) /\ UNCHANGED <<ingestVars, origin, restarts>>)
  BY <1>2 DEF Work
<1>3. CASE Loop \/ Assign \/ \E p \in Partitions : Receive(p)
  BY ZenonT(30), <1>3 DEF Loop, Assign, Receive
<1> QED BY ZenonT(30), <1>1, <1>2, <1>3 DEF DeliveryNext

\* A new process keeps the ingestor's invariant.
LEMMA RestartKeeps ==
  ASSUME IInv, Restarted, faults' \in 0..MaxFaults
  PROVE  IInv'
<1>1. /\ source' = source /\ committed' = committed /\ position' = position
      /\ persisted' = persisted /\ commits' = <<>> /\ assigned' = {} /\ pc' = "recv"
      /\ todo' = {} /\ queue' = [d \in Destinations |-> <<>>] /\ record' = NoRecord
  BY ZenonT(30) DEF Restarted, Empty
<1>2. NoRecord \in Cursor
  BY ZenonT(30), IngestAssumption DEF NoRecord, At, Cursor
<1>3. TypeOK'
  BY <1>1, <1>2 DEF IInv, TypeOK
<1>4. CommittedIsHandled'
  BY <1>1 DEF IInv, CommittedIsHandled, Handled
<1> QED BY <1>1, <1>3, <1>4 DEF IInv, HandInv, PositionInv, CommitsInv, QueueInv

\* So does a step that leaves the ingestor alone.
LEMMA OthersKeep ==
  ASSUME IInv, UNCHANGED ingestVars, faults' \in 0..MaxFaults
  PROVE  IInv'
<1>1. /\ source' = source /\ committed' = committed /\ position' = position
      /\ persisted' = persisted /\ commits' = commits /\ assigned' = assigned /\ pc' = pc
      /\ todo' = todo /\ queue' = queue /\ record' = record
  BY DEF ingestVars, brokerVars, consumerVars, loopVars
<1>2. TypeOK'
  BY ZenonT(30), <1>1 DEF IInv, TypeOK
<1>3. CommittedIsHandled' /\ HandInv' /\ PositionInv' /\ CommitsInv' /\ QueueInv'
  BY <1>1 DEF IInv, CommittedIsHandled, HandInv, PositionInv, CommitsInv, QueueInv, Handled,
              HandledUpTo, SourceRecord
<1> QED BY <1>2, <1>3 DEF IInv

\* The ingestor's invariant is one of the process.
LEMMA IngestStep ==
  ASSUME IInv, [DeliveryNext]_deliveryVars
  PROVE  IInv'
<1>0. faults \in 0..MaxFaults /\ (Fault => faults' \in 0..MaxFaults)
  BY IngestAssumption DEF IInv, TypeOK, Fault
<1>1. CASE \/ rebalance_assign \/ rebalance_revoke \/ commit_callback \/ commit_source
           \/ shutdown \/ (\E p \in Partitions : receive_valid(p) \/ receive_invalid(p))
  <2>1. Next
    BY <1>1 DEF Next, LoopStep
  <2> QED BY <2>1, Inductive
<1>2. ASSUME NEW d \in Destinations, persist_command(d) \/ persist_command_fails(d)
      PROVE  IInv'
  <2>1. Next
    BY <1>2 DEF Next, LoopStep, persist_command, persist_command_fails
  <2> QED BY <2>1, Inductive
<1>3. ASSUME NEW d \in Destinations, W!ReceiveStep(d) \/ W!ProcessStep(d) \/ W!FaultStep(d),
             UNCHANGED ingestVars
      PROVE  IInv'
  BY <1>0, <1>3, WorkerSettles, OthersKeep
<1>4. CASE Restarted /\ (faults' = faults \/ Fault)
  BY <1>0, <1>4, RestartKeeps
<1>5. CASE UNCHANGED deliveryVars
  <2>1. UNCHANGED vars
    BY ZenonT(30), <1>5 DEF deliveryVars
  <2> QED BY <2>1, Inductive
<1> QED BY ZenonT(30), <1>1, <1>2, <1>3, <1>4, <1>5, StepKinds

\* The record in hand has still to be persisted for destinations it matches.
LEMMA TodoStep ==
  ASSUME TypeOK, TodoInv, [DeliveryNext]_deliveryVars
  PROVE  TodoInv'
<1> USE DEF TodoInv, SourceRecord
<1>1. CASE \E p \in Partitions : receive_valid(p) \/ receive_invalid(p)
  BY ZenonT(30), <1>1 DEF receive_valid, receive_invalid, Receives, brokerVars, TypeOK
<1>2. CASE rebalance_assign \/ rebalance_revoke \/ commit_callback \/ commit_source \/ shutdown
  BY ZenonT(30), <1>2 DEF rebalance_assign, rebalance_revoke, commit_callback, commit_source, shutdown,
              brokerVars, consumerVars, loopVars
<1>3. ASSUME NEW d \in Destinations, persist_command(d) \/ persist_command_fails(d)
      PROVE  TodoInv'
  BY ZenonT(30), <1>3 DEF persist_command, persist_command_fails, persist, persist_fails, Takes
<1>4. CASE Restarted
  BY ZenonT(30), <1>4 DEF Restarted
<1>5. CASE UNCHANGED ingestVars
  BY ZenonT(30), <1>5 DEF ingestVars, brokerVars, loopVars
<1>6. CASE UNCHANGED deliveryVars
  BY ZenonT(30), <1>6 DEF deliveryVars, vars, brokerVars, loopVars
<1> QED BY ZenonT(30), <1>1, <1>2, <1>3, <1>4, <1>5, <1>6, StepKinds

\* Only records are committed.
LEMMA OffsetStep ==
  ASSUME IInv, OffsetInv, [DeliveryNext]_deliveryVars
  PROVE  OffsetInv'
<1>0. commits \in Seq(Cursor) /\ position \in [Partitions -> Nat] /\ record \in Cursor
  BY DEF IInv, TypeOK
<1>1. ASSUME NEW r \in Cursor, commit_message(r), r.offset >= 1
      PROVE  OffsetInv'
  <2>1. CASE commits' = commits
    BY <2>1 DEF OffsetInv
  <2>2. CASE commits' = Append(commits, r)
    <3>1. ASSUME NEW i \in 1..Len(commits') PROVE commits'[i].offset >= 1
      BY ZenonT(30), <1>0, <1>1, <2>2, AppendElements DEF OffsetInv
    <3> QED BY <3>1 DEF OffsetInv
  <2> QED BY <1>1, <2>1, <2>2 DEF commit_message
<1>2. ASSUME NEW p \in Partitions, receive_valid(p) \/ receive_invalid(p)
      PROVE  OffsetInv'
  <2>1. Received(p) \in Cursor /\ Received(p).offset >= 1
    BY <1>0 DEF Received, At, Cursor
  <2>2. commits' = commits \/ commit_message(Received(p))
    BY <1>2 DEF receive_valid, receive_invalid, brokerVars
  <2> QED BY <1>1, <2>1, <2>2 DEF OffsetInv
<1>3. CASE commit_source
  <2>1. record.offset \in 1..Len(source[record.partition]) /\ commit_message(record)
    BY <1>3 DEF commit_source, IInv, HandInv
  <2>2. record.offset >= 1
    BY <2>1
  <2> QED BY ZenonT(30), <1>0, <1>1, <2>1, <2>2
<1>4. CASE commit_callback
  <2>1. commits # <<>> /\ commits' = Tail(commits)
    BY <1>4 DEF commit_callback
  <2>2. \A i \in 1..Len(commits') : i + 1 \in 1..Len(commits) /\ commits'[i] = commits[i + 1]
    BY ZenonT(30), <1>0, <2>1, TailElements
  <2> QED BY <2>2 DEF OffsetInv
<1>5. CASE rebalance_assign \/ rebalance_revoke \/ shutdown
  BY ZenonT(30), <1>5 DEF rebalance_assign, rebalance_revoke, shutdown, brokerVars, OffsetInv
<1>6. ASSUME NEW d \in Destinations, persist_command(d) \/ persist_command_fails(d)
      PROVE  OffsetInv'
  BY <1>6 DEF persist_command, persist_command_fails, persist, persist_fails, OffsetInv
<1>7. CASE Restarted
  BY <1>7 DEF Restarted, OffsetInv
<1>8. CASE UNCHANGED ingestVars
  BY ZenonT(30), <1>8 DEF ingestVars, brokerVars, OffsetInv
<1>9. CASE UNCHANGED deliveryVars
  BY ZenonT(30), <1>9 DEF deliveryVars, vars, brokerVars, OffsetInv
<1> QED BY ZenonT(30), <1>2, <1>3, <1>4, <1>5, <1>6, <1>7, <1>8, <1>9, StepKinds

\* A command keeps those before it, and what is settled with them.
LEMMA CommandKeeps ==
  ASSUME OriginInv, TypeOK, NEW d \in Destinations, command_published(d),
         persisted' = persisted \cup {<<record, d>>}
  PROVE  OriginInv' /\ Settled' = Settled
<1>1. /\ commands' = commands + 1 /\ owed' = owed \cup {commands + 1}
      /\ origin' = Append(origin, <<record, d>>)
  BY CommandAdds
<1>2. commands \in Nat /\ Len(origin) = commands
  BY DEF OriginInv
<1>3. /\ origin' \in Seq(Cursor \X Destinations) /\ Len(origin') = commands'
      /\ origin'[commands + 1] = <<record, d>>
      /\ \A id \in 1..commands : origin'[id] = origin[id]
  BY <1>1, <1>2 DEF OriginInv, TypeOK
<1>4. \A id \in 1..commands' : id \in 1..commands \/ id = commands + 1
  BY <1>1, <1>2
<1>5. OriginInv'
  BY ZenonT(30), <1>3, <1>4 DEF OriginInv
<1>6. (1..commands') \ owed' = (1..commands) \ owed
  BY <1>1, <1>2
<1> QED BY ZenonT(30), <1>3, <1>5, <1>6 DEF Settled

\* Every step keeps the origins of the commands.
LEMMA OriginStep ==
  ASSUME IInv, OriginInv, [DeliveryNext]_deliveryVars
  PROVE  OriginInv'
<1>0. TypeOK
  BY DEF IInv
<1>1. ASSUME commands' = commands, origin' = origin, persisted \subseteq persisted'
      PROVE  OriginInv'
  BY ZenonT(30), <1>1 DEF OriginInv
<1>2. CASE /\ \/ rebalance_assign \/ rebalance_revoke \/ commit_callback \/ commit_source
              \/ shutdown \/ (\E p \in Partitions : receive_valid(p) \/ receive_invalid(p))
           /\ UNCHANGED workerVars
  <2>1. Next
    BY <1>2 DEF Next, LoopStep
  <2> QED BY <1>1, <1>2, <2>1, Monotone DEF workerVars
<1>3. ASSUME NEW d \in Destinations, persist_command(d) PROVE OriginInv'
  <2>1. CASE Head(queue[d]) = record
    BY ZenonT(30), <1>0, <1>3, <2>1, CommandKeeps DEF persist_command, persist
  <2>2. CASE Head(queue[d]) # record
    BY ZenonT(30), <1>1, <1>3, <2>2 DEF persist_command, persist, workerVars
  <2> QED BY ZenonT(30), <2>1, <2>2
<1>4. ASSUME NEW d \in Destinations, persist_command_fails(d) PROVE OriginInv'
  BY ZenonT(30), <1>0, <1>1, <1>4, CommandKeeps DEF persist_command_fails, workerVars
<1>5. ASSUME NEW d \in Destinations, W!ReceiveStep(d) \/ W!ProcessStep(d) \/ W!FaultStep(d),
             UNCHANGED <<ingestVars, origin>>
      PROVE  OriginInv'
  BY ZenonT(30), <1>1, <1>5, WorkerSettles DEF ingestVars, brokerVars
<1>6. CASE Restarted /\ UNCHANGED <<commands, owed, origin>>
  BY ZenonT(30), <1>1, <1>6 DEF Restarted
<1>7. CASE UNCHANGED deliveryVars
  BY ZenonT(30), <1>1, <1>7 DEF deliveryVars, vars, brokerVars, workerVars
<1> QED BY <1>2, <1>3, <1>4, <1>5, <1>6, <1>7, StepKinds

-----------------------------------------------------------------------------
(* The refinement                                                          *)

\* The demand follows the source topic.
LEMMA DemandLen ==
  ASSUME TypeOK, NEW p \in Partitions
  PROVE  /\ Len(Demand[p]) = Len(source[p]) /\ Len(source[p]) \in Nat
         /\ \A o \in 1..Len(source[p]) :
              Demand[p][o] = IF source[p][o].valid \/ commit_invalid_messages
                               THEN source[p][o].destinations ELSE {None}
<1>1. source[p] \in Seq(Record) /\ Len(source[p]) \in Nat
  BY DEF TypeOK
<1>2. Demand[p] = [o \in 1..Len(source[p]) |->
                     IF source[p][o].valid \/ commit_invalid_messages
                       THEN source[p][o].destinations ELSE {None}]
  BY ZenonT(30) DEF Demand
<1> QED BY <1>1, <1>2

\* A step that changes nothing the promise is about.
LEMMA Stutters ==
  ASSUME source' = source, persisted' = persisted, committed' = committed, Settled' = Settled
  PROVE  UNCHANGED Promise!abstractVars
BY DEF Promise!abstractVars, Demand

\* The same for a step that leaves the commands alone.
LEMMA QuietStutters ==
  ASSUME source' = source, persisted' = persisted, committed' = committed,
         commands' = commands, owed' = owed, origin' = origin
  PROVE  UNCHANGED Promise!abstractVars
<1>1. Settled' = Settled
  BY ZenonT(30) DEF Settled
<1> QED BY <1>1, Stutters

\* A command is accepted for a destination that the record in hand matches.
LEMMA Accepts ==
  ASSUME DInv, NEW d \in todo, pc = "persist", source' = source, committed' = committed,
         persisted' = persisted \cup {<<record, d>>}, command_published(d)
  PROVE  Promise!Next
<1>0. TypeOK /\ OriginInv /\ HandInv /\ TodoInv
  BY ZenonT(30) DEF DInv, IInv
<1>1. /\ record.offset \in 1..Len(source[record.partition])
      /\ source[record.partition][record.offset].valid
      /\ record = At(record.partition, record.offset)
  BY ZenonT(30), <1>0 DEF HandInv, SourceRecord
<1>2. d \in source[record.partition][record.offset].destinations
  BY ZenonT(30), <1>0 DEF TodoInv, SourceRecord
<1>3. record.partition \in Partitions /\ d \in Destinations
  BY <1>0, CursorFields DEF TypeOK
<1>4. PICK p, o : p = record.partition /\ o = record.offset
  OBVIOUS
<1>5. o \in 1..Len(Demand[p]) /\ d \in Demand[p][o]
  BY ZenonT(30), <1>0, <1>1, <1>2, <1>3, <1>4, DemandLen
<1>6. Settled' = Settled /\ Demand' = Demand
  BY ZenonT(30), <1>0, <1>3, CommandKeeps DEF Demand
<1>7. record = Promise!Place(p, o)
  BY ZenonT(30), <1>1, <1>4 DEF Promise!Place, At
<1>8. Promise!Accept(p, o, d)
  BY ZenonT(30), <1>5, <1>6, <1>7 DEF Promise!Accept
<1> QED BY <1>3, <1>4, <1>5, <1>8 DEF Promise!Next

\* A commit that the broker applies acknowledges a record whose deliveries, and
\* those of the records before it, are all accepted.
LEMMA Acknowledges ==
  ASSUME DInv, commit_callback, UNCHANGED workerVars
  PROVE  Promise!Next \/ UNCHANGED Promise!abstractVars
<1> DEFINE c == Head(commits)
<1>0. TypeOK /\ CommitsInv /\ OffsetInv
  BY ZenonT(30) DEF DInv, IInv
<1>1. /\ commits # <<>> /\ source' = source /\ persisted' = persisted
      /\ commands' = commands /\ owed' = owed /\ origin' = origin
  BY DEF commit_callback, workerVars
<1>2. CASE committed' = committed
  BY ZenonT(30), <1>1, <1>2, QuietStutters
<1>3. CASE committed' = [committed EXCEPT ![c.partition] = c.offset]
  <2>1. commits \in Seq(Cursor)
    BY <1>0 DEF TypeOK
  <2>2. c = commits[1] /\ 1 \in 1..Len(commits)
    BY <1>1, <2>1, TailElements
  <2>3. c \in Cursor
    BY <2>1, <2>2
  <2>4. PICK p, o : p = c.partition /\ o = c.offset /\ p \in Partitions /\ o \in Nat
    BY ZenonT(30), <2>3, CursorFields
  <2>5. o >= 1 /\ o <= Len(source[p]) /\ HandledUpTo(p, o)
    BY <1>0, <2>2, <2>4 DEF CommitsInv, OffsetInv
  <2>6. /\ Len(Demand[p]) = Len(source[p]) /\ Len(source[p]) \in Nat
        /\ \A i \in 1..Len(source[p]) :
             Demand[p][i] = IF source[p][i].valid \/ commit_invalid_messages
                              THEN source[p][i].destinations ELSE {None}
    BY ZenonT(30), <1>0, <2>4, DemandLen
  <2>7. ASSUME NEW i \in 1..o, NEW d \in Demand[p][i]
        PROVE  <<At(p, i), d>> \in persisted
    <3>1. i \in 1..Len(source[p]) /\ Handled(p, i)
      BY <2>4, <2>5, <2>6 DEF HandledUpTo
    <3>2. source[p][i] \in Record
      BY <1>0, <2>4, <3>1 DEF TypeOK
    <3>3. CASE source[p][i].valid
      BY ZenonT(30), <2>6, <2>7, <3>1, <3>3 DEF Handled
    <3>4. CASE ~source[p][i].valid
      <4>1. commit_invalid_messages
        BY <3>1, <3>4 DEF Handled
      <4>2. source[p][i].destinations = {}
        BY ZenonT(30), <3>2, <3>4 DEF Record
      <4>3. Demand[p][i] = {}
        BY ZenonT(30), <2>6, <3>1, <4>1, <4>2
      <4> QED BY ZenonT(30), <2>7, <4>3
    <3> QED BY ZenonT(30), <3>3, <3>4
  <2>8. Settled' = Settled /\ Demand' = Demand
    BY ZenonT(30), <1>1 DEF Settled, Demand
  <2>9. committed' = [committed EXCEPT ![p] = o]
    BY ZenonT(30), <1>3, <2>4
  <2>10. Promise!Acknowledge(p, o)
    BY ZenonT(30), <1>1, <2>7, <2>8, <2>9 DEF Promise!Acknowledge, Promise!Place, At
  <2>11. o \in 1..Len(Demand[p])
    BY <2>4, <2>5, <2>6
  <2> QED BY ZenonT(30), <2>4, <2>10, <2>11 DEF Promise!Next
<1> QED BY <1>2, <1>3 DEF commit_callback

\* An outcome settles a delivery that was accepted.
LEMMA Settles ==
  ASSUME OriginInv, NEW id, commands' = commands, origin' = origin,
         owed' = owed \/ owed' = owed \ {id},
         source' = source, persisted' = persisted, committed' = committed
  PROVE  Promise!Next \/ UNCHANGED Promise!abstractVars
<1>1. CASE owed' = owed
  BY ZenonT(30), <1>1, QuietStutters
<1>2. CASE owed' = owed \ {id} /\ id \notin owed
  <2>1. owed' = owed
    BY <1>2
  <2> QED BY <2>1, QuietStutters
<1>3. CASE owed' = owed \ {id} /\ id \in owed /\ id \notin 1..commands
  <2>1. (1..commands) \ owed' = (1..commands) \ owed
    BY ZenonT(30), <1>3
  <2>2. Settled' = Settled
    BY ZenonT(30), <2>1 DEF Settled
  <2> QED BY <2>2, Stutters
<1>4. CASE owed' = owed \ {id} /\ id \in owed /\ id \in 1..commands
  <2>1. (1..commands') \ owed' = ((1..commands) \ owed) \cup {id}
    BY ZenonT(30), <1>4
  <2>2. Settled' = Settled \cup {origin[id]}
    BY <2>1 DEF Settled
  <2>3. origin[id] \in persisted
    BY ZenonT(30), <1>4 DEF OriginInv
  <2>4. Demand' = Demand
    BY ZenonT(30) DEF Demand
  <2>5. Promise!Settle(origin[id])
    BY ZenonT(30), <2>2, <2>4 DEF Promise!Settle
  <2> QED BY <2>3, <2>5 DEF Promise!Next
<1> QED BY ZenonT(30), <1>1, <1>2, <1>3, <1>4

\* Every step of the process is a step of the promise or changes nothing in it.
LEMMA StepSimulation ==
  ASSUME DInv, [DeliveryNext]_deliveryVars
  PROVE  Promise!Next \/ UNCHANGED Promise!abstractVars
<1>1. CASE commit_callback /\ UNCHANGED workerVars
  BY <1>1, Acknowledges
<1>2. CASE /\ \/ rebalance_assign \/ rebalance_revoke \/ commit_source
              \/ shutdown \/ (\E p \in Partitions : receive_valid(p) \/ receive_invalid(p))
           /\ UNCHANGED workerVars
  <2>1. source' = source /\ persisted' = persisted /\ committed' = committed
    BY ZenonT(30), <1>2 DEF rebalance_assign, rebalance_revoke, commit_source, shutdown, receive_valid,
                receive_invalid, brokerVars
  <2>2. commands' = commands /\ owed' = owed /\ origin' = origin
    BY <1>2 DEF workerVars
  <2> QED BY ZenonT(30), <2>1, <2>2, QuietStutters
<1>3. ASSUME NEW d \in Destinations, persist_command(d)
      PROVE  Promise!Next \/ UNCHANGED Promise!abstractVars
  <2>1. pc = "persist" /\ d \in todo /\ source' = source /\ committed' = committed
    BY <1>3 DEF persist_command, persist, Takes
  <2>2. CASE Head(queue[d]) = record
    <3>1. persisted' = persisted \cup {<<record, d>>} /\ command_published(d)
      BY <1>3, <2>2 DEF persist_command, persist
    <3> QED BY ZenonT(30), <2>1, <3>1, Accepts
  <2>3. CASE Head(queue[d]) # record
    <3>1. persisted' = persisted /\ commands' = commands /\ owed' = owed /\ origin' = origin
      BY <1>3, <2>3 DEF persist_command, persist, workerVars
    <3> QED BY ZenonT(30), <2>1, <3>1, QuietStutters
  <2> QED BY ZenonT(30), <2>2, <2>3
<1>4. ASSUME NEW d \in Destinations, persist_command_fails(d)
      PROVE  Promise!Next \/ UNCHANGED Promise!abstractVars
  <2>1. pc = "persist" /\ d \in todo /\ source' = source /\ committed' = committed
    BY ZenonT(30), <1>4 DEF persist_command_fails, persist_fails, Takes
  <2>2. CASE persisted' = persisted \cup {<<record, d>>} /\ command_published(d)
    BY ZenonT(30), <2>1, <2>2, Accepts
  <2>3. CASE persisted' = persisted /\ UNCHANGED workerVars
    BY <2>1, <2>3, QuietStutters DEF workerVars
  <2> QED BY ZenonT(30), <1>4, <2>2, <2>3 DEF persist_command_fails
<1>5. ASSUME NEW d \in Destinations, W!ReceiveStep(d) \/ W!ProcessStep(d) \/ W!FaultStep(d),
             UNCHANGED <<ingestVars, origin>>
      PROVE  Promise!Next \/ UNCHANGED Promise!abstractVars
  <2>1. /\ commands' = commands
        /\ owed' = owed \/ owed' = owed \ {w_record[d].delivery_id}
    BY <1>5, WorkerSettles
  <2>2. source' = source /\ persisted' = persisted /\ committed' = committed /\ origin' = origin
    BY <1>5 DEF ingestVars, brokerVars
  <2> QED BY ZenonT(30), <2>1, <2>2, Settles DEF DInv
<1>6. CASE Restarted /\ UNCHANGED <<commands, owed, origin>>
  BY ZenonT(30), <1>6, QuietStutters DEF Restarted
<1>7. CASE UNCHANGED deliveryVars
  BY <1>7, QuietStutters DEF deliveryVars, vars, brokerVars, workerVars
<1> QED BY ZenonT(30), <1>1, <1>2, <1>3, <1>4, <1>5, <1>6, <1>7, StepKinds

-----------------------------------------------------------------------------
(* Theorems                                                                *)

\* The invariant of the process.
THEOREM ProcessInvariance == DeliverySpec => []DInv
<1>1. DeliveryInit => DInv
  <2> SUFFICES ASSUME DeliveryInit PROVE DInv
    OBVIOUS
  <2>1. Init /\ origin = <<>> /\ commands = 0
    BY DEF DeliveryInit, W!Init
  <2>2. IInv
    BY <2>1, Initially
  <2>3. OriginInv
    BY <2>1 DEF OriginInv
  <2>4. TodoInv /\ OffsetInv
    BY <2>1 DEF Init, TodoInv, OffsetInv
  <2> QED BY <2>2, <2>3, <2>4 DEF DInv
<1>2. DInv /\ [DeliveryNext]_deliveryVars => DInv'
  BY IngestStep, OriginStep, TodoStep, OffsetStep DEF DInv, IInv
<1> QED BY <1>1, <1>2, PTL DEF DeliverySpec

\* The ingestor and the workers together implement AtLeastOnce, whatever
\* crashes, fails, is revoked or restarted: an offset is committed only past
\* records whose commands are all written, and only written commands get an
\* outcome.  (run of the ingestor, persist and process.)
THEOREM Implements == DeliverySpec => KeepsPromise
<1>1. DeliveryInit => Promise!Init
  <2> SUFFICES ASSUME DeliveryInit PROVE Promise!Init
    OBVIOUS
  <2>1. Init /\ commands = 0
    BY ZenonT(30) DEF DeliveryInit, W!Init
  <2>2. Settled = {}
    BY <2>1 DEF Settled
  <2> QED BY ZenonT(30), <2>1, <2>2 DEF Init, Promise!Init
<1>2. DInv /\ [DeliveryNext]_deliveryVars => [Promise!Next]_(Promise!abstractVars)
  BY StepSimulation
<1> QED BY <1>1, <1>2, ProcessInvariance, PTL DEF DeliverySpec, KeepsPromise, Promise!Spec

\* The group's offset passes no unhandled record in the whole process either,
\* where workers fail and restart the consumer with themselves (ingestor.rs,
\* run).
THEOREM ProcessCommitsHandled == DeliverySpec => []CommittedIsHandled
<1>1. DInv => CommittedIsHandled
  BY ZenonT(30) DEF DInv, IInv
<1> QED BY <1>1, ProcessInvariance, PTL

\* Nor does persist wait there for a delivery that is not first in its channel
\* (durable.rs, persist).
THEOREM ProcessNeverWaits == DeliverySpec => []PersistNeverWaits
<1>1. ASSUME DInv, pc = "persist", NEW d \in todo
      PROVE  queue[d] # <<>> /\ Head(queue[d]) = record
  <2>1. queue[d] = <<record>>
    BY <1>1 DEF DInv, IInv, TypeOK, QueueInv
  <2> QED BY <2>1
<1>2. DInv => PersistNeverWaits
  BY <1>1 DEF PersistNeverWaits
<1> QED BY <1>2, ProcessInvariance, PTL

=============================================================================
