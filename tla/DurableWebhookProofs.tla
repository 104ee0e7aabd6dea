------------------------- MODULE DurableWebhookProofs -------------------------
(***************************************************************************)
(* No command of the durable webhooks is lost, no process exceeds the      *)
(* attempts of one and a destination's commands are begun in order, for    *)
(* every number of destinations, commands, attempts, replays and faults.   *)
(* A last section shows the order in which volatile webhooks begin.        *)
(***************************************************************************)
EXTENDS DurableWorkerProofs

-----------------------------------------------------------------------------
(* The attempts of one process                                             *)

SeenBy(id, d) ==
  \E t \in Topics : \E o \in 1..Len(log[t]) :
    log[t][o].delivery_id = id /\ log[t][o].destination_id = d

\* All copies of a command are for one destination.
OneDestination ==
  \A id \in DeliveryIds, d \in Destinations, e \in Destinations :
    SeenBy(id, d) /\ SeenBy(id, e) => d = e

\* The process will not take the delivery up again for d.
Spent(id, d) ==
  id \in completed[d] \/ (InHand(d) /\ record[d].delivery_id = id) \/ pc[d] = "failed"

SpentInv ==
  \A id \in DeliveryIds :
    attempts[id] > 0 =>
      id \in 1..commands /\ \A d \in Destinations : SeenBy(id, d) => Spent(id, d)

\* The attempt number of the record in hand counts the attempts made.
Coming(d) == IF pc[d] \in {"attempt", "publish_retry", "commit_retry"} THEN 1 ELSE 0

CountInv(d) == InHand(d) => attempts[record[d].delivery_id] + Coming(d) <= record[d].attempt

AInv ==
  /\ OneDestination
  /\ SpentInv
  /\ AttemptsBounded
  /\ \A d \in Destinations : CountInv(d)

\* What a publication adds to the topics.
LEMMA SeenAfter ==
  ASSUME TypeOK, NEW t \in Topics, NEW r \in Record, Published(t, r), NEW id, NEW e, SeenBy(id, e)'
  PROVE  SeenBy(id, e) \/ (id = r.delivery_id /\ e = r.destination_id)
<1>1. /\ Len(log'[t]) = Len(log[t]) + 1
      /\ log'[t][Len(log[t]) + 1] = r
      /\ \A u \in Topics : u # t => log'[u] = log[u]
      /\ \A u \in Topics : \A o \in 1..Len(log[u]) : log'[u][o] = log[u][o]
  BY PublishedLog
<1>2. Len(log[t]) \in Nat
  BY DEF TypeOK
<1>3. PICK u \in Topics : \E o \in 1..Len(log'[u]) :
         log'[u][o].delivery_id = id /\ log'[u][o].destination_id = e
  BY DEF SeenBy
<1>4. PICK o \in 1..Len(log'[u]) :
         log'[u][o].delivery_id = id /\ log'[u][o].destination_id = e
  BY <1>3
<1>5. CASE o \in 1..Len(log[u])
  <2>1. log[u][o].delivery_id = id /\ log[u][o].destination_id = e
    BY ZenonT(30), <1>1, <1>4, <1>5
  <2> QED BY <1>5, <2>1 DEF SeenBy
<1>6. CASE o \notin 1..Len(log[u])
  <2>1. u = t
    BY <1>1, <1>6
  <2>2. o = Len(log[t]) + 1
    BY <1>1, <1>2, <1>6, <2>1
  <2> QED BY ZenonT(30), <1>1, <1>4, <2>1, <2>2
<1> QED BY <1>5, <1>6

\* The record in hand is in a topic, for its own destination.
LEMMA HandSeen ==
  ASSUME TypeOK, NEW d \in Destinations, HandInv(d), InHand(d)
  PROVE  SeenBy(record[d].delivery_id, d) /\ record[d].delivery_id \in DeliveryIds
<1>1. input[d].topic \in Topics
  BY ZenonT(30) DEF TypeOK, Inputs, Topics
<1>2. /\ input[d].offset \in 1..Len(log[input[d].topic])
      /\ log[input[d].topic][input[d].offset].delivery_id = record[d].delivery_id
      /\ log[input[d].topic][input[d].offset].destination_id = d
      /\ record[d] \in Record
  BY DEF HandInv
<1> QED BY <1>1, <1>2 DEF SeenBy, Record

\* A worker's publications are copies.
LEMMA WorkerSeen ==
  ASSUME TypeOK, NEW d \in Destinations, HandInv(d),
         ReceiveStep(d) \/ ProcessStep(d) \/ FaultStep(d), NEW id, NEW e, SeenBy(id, e)'
  PROVE  SeenBy(id, e)
<1>1. CASE log' = log
  BY ZenonT(30), <1>1 DEF SeenBy
<1>2. ASSUME InHand(d), NEW t \in Topics, Published(t, record[d]) PROVE SeenBy(id, e)
  <2>1. record[d] \in Record /\ record[d].destination_id = d
    BY <1>2 DEF HandInv
  <2> QED BY ZenonT(30), <1>2, <2>1, SeenAfter, HandSeen
<1> QED BY ZenonT(30), <1>1, <1>2, WorkerLog

\* So is an operator's replay.
LEMMA ReplaySeen ==
  ASSUME TypeOK, NEW i \in 1..Len(log["dead_letter"]), replay_dead_letter(i),
         NEW id, NEW e, SeenBy(id, e)'
  PROVE  SeenBy(id, e)
<1> DEFINE r == [log["dead_letter"][i] EXCEPT !.attempt = 1]
<1>1. log["dead_letter"][i] \in Record /\ "dead_letter" \in Topics /\ "delivery" \in Topics
  BY DEF TypeOK, Topics
<1>2. /\ r \in Record /\ r.delivery_id = log["dead_letter"][i].delivery_id
      /\ r.destination_id = log["dead_letter"][i].destination_id
  BY Zenon, <1>1, Replayed
<1>3. Published("delivery", r)
  BY DEF replay_dead_letter
<1>4. SeenBy(r.delivery_id, r.destination_id)
  BY <1>1, <1>2 DEF SeenBy
<1>5. SeenBy(id, e) \/ (id = r.delivery_id /\ e = r.destination_id)
  <2> HIDE DEF r
  <2> QED BY ZenonT(30), <1>1, <1>2, <1>3, SeenAfter
<1> QED BY <1>4, <1>5

\* A worker that has spent a delivery takes no step that forgets it.
LEMMA SpentStays ==
  ASSUME TypeOK, NEW d \in Destinations, HandInv(d), NEW id, Spent(id, d),
         ReceiveStep(d) \/ ProcessStep(d) \/ FaultStep(d)
  PROVE  Spent(id, d)'
<1>0. pc \in [Destinations -> Labels] /\ phase[d] \in {"recover", "run"}
  BY ZenonT(30) DEF TypeOK, Labels
<1>1. completed[d] \subseteq completed'[d]
  <2>1. CASE finish(d)
    BY SMTT(30), <2>1 DEF finish, TypeOK
  <2>2. CASE ReceiveStep(d) \/ FaultStep(d)
    BY ZenonT(30), <2>2 DEF ReceiveStep, FaultStep, skip, take, recover_exceeded, recover_eof, recover_error,
                publish_oversized, publish_fails, commit_fails, memoryVars
  <2>3. CASE \/ attempt_delivered(d) \/ publish_retry(d) \/ commit_retry(d) \/ publish_dead(d)
             \/ \E class \in FailureClass : attempt_retry(d, class) \/ attempt_dead(d, class)
    BY ZenonT(30), <2>3 DEF attempt_delivered, attempt_retry, attempt_dead, Attempted, publish_retry,
                commit_retry, publish_dead, memoryVars
  <2> QED BY ZenonT(30), <2>1, <2>2, <2>3 DEF ProcessStep
<1>2. pc[d] # "failed"
  BY SMTT(30) DEF ReceiveStep, ProcessStep, FaultStep, skip, take, Receives, recover_exceeded, recover_eof,
         recover_error, publish_oversized, publish_fails, commit_fails, attempt_delivered,
         attempt_retry, attempt_dead, Attempted, publish_retry, commit_retry, publish_dead, finish
<1>3. CASE id \in completed[d]
  BY <1>1, <1>3 DEF Spent
<1>4. CASE InHand(d) /\ record[d].delivery_id = id
  <2>1. record[d] \in Record
    BY ZenonT(30), <1>4 DEF HandInv
  <2>2. CASE finish(d)
    <3>1. pc'[d] = "failed" \/ id \in completed'[d]
      BY SMTT(30), <1>0, <1>4, <2>2 DEF finish, Goto, TypeOK
    <3> QED BY ZenonT(30), <3>1 DEF Spent
  <2>3. CASE \/ attempt_delivered(d) \/ publish_retry(d) \/ commit_retry(d) \/ publish_dead(d)
             \/ \E class \in FailureClass : attempt_dead(d, class)
    <3>1. record' = record
      BY ZenonT(30), <2>3 DEF attempt_delivered, attempt_dead, publish_retry, commit_retry, publish_dead, workVars
    <3>2. pc'[d] \in {"finish", "attempt", "commit_retry", "publish_dead"}
      BY <1>0, <2>3 DEF attempt_delivered, attempt_dead, publish_retry, commit_retry,
                        publish_dead, Goto
    <3> QED BY ZenonT(30), <1>4, <3>1, <3>2 DEF Spent, InHand
  <2>4. ASSUME NEW class \in FailureClass, attempt_retry(d, class) PROVE Spent(id, d)'
    <3>1. pc'[d] = "publish_retry" /\ record' = [record EXCEPT ![d].attempt = @ + 1]
      BY <1>0, <2>4 DEF attempt_retry, Goto
    <3>2. record'[d].delivery_id = record[d].delivery_id
      BY ZenonT(30), <2>1, <3>1 DEF TypeOK, Record
    <3> QED BY <1>4, <3>1, <3>2 DEF Spent, InHand
  <2>5. CASE FaultStep(d)
    <3>1. Fails(d)
      BY ZenonT(30), <2>5 DEF FaultStep, recover_error, publish_oversized, publish_fails, commit_fails
    <3>2. pc'[d] = "failed"
      BY SMTT(30), <1>0, <3>1, FailsType
    <3> QED BY SMTT(30), <3>2 DEF Spent
  <2>6. CASE ReceiveStep(d)
    BY ZenonT(30), <1>4, <2>6 DEF ReceiveStep, skip, take, Receives, recover_exceeded, recover_eof, InHand
  <2> QED BY ZenonT(30), <2>2, <2>3, <2>4, <2>5, <2>6 DEF ProcessStep
<1> QED BY <1>2, <1>3, <1>4 DEF Spent

\* An attempt is counted for the record in hand; no other step counts one.
LEMMA Counted ==
  ASSUME TypeOK, NEW d \in Destinations, HandInv(d),
         ReceiveStep(d) \/ ProcessStep(d) \/ FaultStep(d)
  PROVE  \/ attempts' = attempts
         \/ /\ pc[d] = "attempt"
            /\ attempts' = [attempts EXCEPT ![record[d].delivery_id] = @ + 1]
            /\ InHand(d)' /\ record'[d].delivery_id = record[d].delivery_id
            /\ record'[d].attempt = record[d].attempt + Coming(d)'
<1>0. pc \in [Destinations -> Labels]
  BY SMTT(30) DEF TypeOK, Labels
<1>1. CASE ReceiveStep(d) \/ FaultStep(d)
  BY ZenonT(30), <1>1 DEF ReceiveStep, FaultStep, skip, take, recover_exceeded, recover_eof, recover_error,
              publish_oversized, publish_fails, commit_fails, historyVars
<1>2. CASE publish_retry(d) \/ commit_retry(d) \/ publish_dead(d) \/ finish(d)
  BY ZenonT(30), <1>2 DEF publish_retry, commit_retry, publish_dead, finish, historyVars
<1>3. CASE attempt_delivered(d) \/ \E class \in FailureClass : attempt_dead(d, class)
  <2>1. /\ pc[d] = "attempt" /\ record' = record
        /\ attempts' = [attempts EXCEPT ![record[d].delivery_id] = @ + 1]
    BY <1>3 DEF attempt_delivered, attempt_dead, Attempted
  <2>2. pc'[d] \in {"finish", "publish_dead"}
    BY ZenonT(30), <1>0, <1>3 DEF attempt_delivered, attempt_dead, Goto
  <2>3. record[d] \in Record
    BY ZenonT(30), <2>1 DEF HandInv, InHand
  <2>4. record[d].attempt \in Int
    BY <2>3, DurableAssumption DEF Record, AttemptLimit
  <2> QED BY SMTT(30), <2>1, <2>2, <2>4 DEF InHand, Coming
<1>4. ASSUME NEW class \in FailureClass, attempt_retry(d, class)
      PROVE  /\ pc[d] = "attempt"
             /\ attempts' = [attempts EXCEPT ![record[d].delivery_id] = @ + 1]
             /\ InHand(d)' /\ record'[d].delivery_id = record[d].delivery_id
             /\ record'[d].attempt = record[d].attempt + Coming(d)'
  <2>1. /\ pc[d] = "attempt" /\ record' = [record EXCEPT ![d].attempt = @ + 1]
        /\ attempts' = [attempts EXCEPT ![record[d].delivery_id] = @ + 1]
    BY <1>4 DEF attempt_retry, Attempted
  <2>2. pc'[d] = "publish_retry"
    BY <1>0, <1>4 DEF attempt_retry, Goto
  <2>3. record[d] \in Record
    BY <2>1 DEF HandInv, InHand
  <2>4. record'[d] = [record[d] EXCEPT !.attempt = @ + 1]
    BY <2>1 DEF TypeOK
  <2>5. record'[d].delivery_id = record[d].delivery_id /\ record'[d].attempt = record[d].attempt + 1
    BY <2>3, <2>4 DEF Record
  <2> QED BY <2>1, <2>2, <2>5 DEF InHand, Coming
<1> QED BY ZenonT(30), <1>1, <1>2, <1>3, <1>4 DEF ProcessStep

\* A delivery that a worker takes up has not been attempted.
LEMMA TakenFresh ==
  ASSUME TypeOK, SpentInv, NEW d \in Destinations, NEW t \in Inputs, take(d, t)
  PROVE  /\ pc'[d] = "attempt" /\ record'[d] \in Record
         /\ attempts[record'[d].delivery_id] = 0
<1>1. Receives(d, t) /\ ~Skippable(d, t)
  BY ZenonT(30) DEF take
<1>2. position[d][t] + 1 \in 1..Len(log[t]) /\ Received(d, t) \in Record
  BY ZenonT(30), <1>1, ReceivedRecord
<1>3. pc'[d] = "attempt" /\ record'[d] = Received(d, t)
  BY ZenonT(30) DEF take, Goto, TypeOK
<1>4. SeenBy(record'[d].delivery_id, d)
  <2>1. t \in Topics /\ Received(d, t).destination_id = d
    BY <1>1 DEF Skippable, Own, Inputs, Topics
  <2> QED BY <1>2, <1>3, <2>1 DEF SeenBy, Received
<1>5. ~Spent(record'[d].delivery_id, d)
  BY <1>1, <1>3 DEF Skippable, Receives, Spent, InHand
<1>6. record'[d].delivery_id \in DeliveryIds
  BY ZenonT(30), <1>2, <1>3 DEF Record
<1>7. attempts[record'[d].delivery_id] \in Nat /\ ~(attempts[record'[d].delivery_id] > 0)
  BY ZenonT(30), <1>4, <1>5, <1>6 DEF SpentInv, TypeOK
<1> QED BY <1>2, <1>3, <1>7

\* The record in hand counts its attempts.
LEMMA CountOwn ==
  ASSUME TypeOK, SpentInv, NEW d \in Destinations, HandInv(d), CountInv(d),
         ReceiveStep(d) \/ ProcessStep(d) \/ FaultStep(d)
  PROVE  CountInv(d)'
<1>0. pc \in [Destinations -> Labels] /\ phase[d] \in {"recover", "run"}
  BY ZenonT(30) DEF TypeOK, Labels
<1>1. CASE /\ pc[d] = "attempt"
           /\ attempts' = [attempts EXCEPT ![record[d].delivery_id] = @ + 1]
           /\ InHand(d)' /\ record'[d].delivery_id = record[d].delivery_id
           /\ record'[d].attempt = record[d].attempt + Coming(d)'
  <2>1. InHand(d) /\ record[d] \in Record
    BY ZenonT(30), <1>1 DEF InHand, HandInv
  <2>2. record[d].delivery_id \in DeliveryIds /\ record[d].attempt \in Int
    BY SMTT(30), <2>1, DurableAssumption DEF Record, AttemptLimit
  <2>3. attempts[record[d].delivery_id] + 1 <= record[d].attempt
    <3>1. Coming(d) = 1
      BY ZenonT(30), <1>1 DEF Coming
    <3>2. attempts[record[d].delivery_id] + Coming(d) <= record[d].attempt
      BY ZenonT(30), <2>1 DEF CountInv
    <3> QED BY ZenonT(30), <3>1, <3>2
  <2>4. attempts'[record[d].delivery_id] = attempts[record[d].delivery_id] + 1
        /\ attempts[record[d].delivery_id] \in Nat
    BY ZenonT(30), <1>1, <2>2 DEF TypeOK
  <2>5. Coming(d)' \in {0, 1}
    BY ZenonT(30) DEF Coming
  <2>6. attempts'[record[d].delivery_id] + Coming(d)' <= record[d].attempt + Coming(d)'
    BY <2>2, <2>3, <2>4, <2>5
  <2> QED BY ZenonT(30), <1>1, <2>6 DEF CountInv
<1>2. CASE attempts' = attempts
  <2>1. ASSUME NEW t \in Inputs, take(d, t) PROVE CountInv(d)'
    <3>1. /\ pc'[d] = "attempt" /\ record'[d] \in Record
          /\ attempts[record'[d].delivery_id] = 0
      BY ZenonT(30), <2>1, TakenFresh
    <3>2. record'[d].attempt >= 1 /\ record'[d].attempt \in Int
      BY <3>1, DurableAssumption DEF Record, AttemptLimit
    <3> QED BY SMTT(30), <1>2, <3>1, <3>2 DEF CountInv, Coming
  <2>2. CASE \/ recover_exceeded(d) \/ recover_eof(d) \/ FaultStep(d) \/ finish(d)
             \/ \E t \in Inputs : skip(d, t)
    <3>1. pc'[d] \in {"failed", "recover", "run"}
      BY ZenonT(30), <1>0, <2>2 DEF recover_exceeded, recover_eof, FaultStep, recover_error, publish_oversized,
                        publish_fails, commit_fails, finish, skip, Receives, Fails, Goto
    <3> QED BY ZenonT(30), <3>1 DEF CountInv, InHand
  <2>3. CASE publish_retry(d) \/ commit_retry(d) \/ publish_dead(d)
    <3>1. record' = record /\ InHand(d)
      BY ZenonT(30), <2>3 DEF publish_retry, commit_retry, publish_dead, workVars, InHand
    <3>2. Coming(d)' = Coming(d)
      BY ZenonT(30), <1>0, <2>3 DEF publish_retry, commit_retry, publish_dead, Goto, Coming
    <3> QED BY SMTT(30), <1>2, <3>1, <3>2 DEF CountInv
  <2>4. ASSUME \/ attempt_delivered(d)
               \/ \E class \in FailureClass : attempt_retry(d, class) \/ attempt_dead(d, class)
        PROVE  FALSE
    <3>1. /\ pc[d] = "attempt"
          /\ attempts' = [attempts EXCEPT ![record[d].delivery_id] = @ + 1]
      BY ZenonT(30), <2>4 DEF attempt_delivered, attempt_retry, attempt_dead, Attempted
    <3>2. record[d].delivery_id \in DeliveryIds
      BY ZenonT(30), <3>1, HandSeen DEF InHand
    <3>3. attempts[record[d].delivery_id] \in Nat
          /\ attempts'[record[d].delivery_id] = attempts[record[d].delivery_id] + 1
      BY ZenonT(30), <3>1, <3>2 DEF TypeOK
    <3> QED BY <1>2, <3>3
  <2> QED BY ZenonT(30), <2>1, <2>2, <2>3, <2>4 DEF ReceiveStep, ProcessStep
<1> QED BY <1>1, <1>2, Counted

\* A worker's step keeps the attempts within the limit.
LEMMA AttemptsWorker ==
  ASSUME TypeOK, IdsInv, AInv, NEW d \in Destinations, HandInv(d), Apart(d), commands' = commands,
         \A e \in Destinations : HandInv(e),
         ReceiveStep(d) \/ ProcessStep(d) \/ FaultStep(d)
  PROVE  AInv'
<1>0. OneDestination /\ SpentInv /\ AttemptsBounded /\ \A e \in Destinations : CountInv(e)
  BY DEF AInv
<1>1. \A id, e : SeenBy(id, e)' => SeenBy(id, e)
  BY WorkerSeen
<1>2. OneDestination'
  BY <1>0, <1>1 DEF OneDestination
<1>3. ASSUME NEW e \in Destinations, NEW id, Spent(id, e) PROVE Spent(id, e)'
  <2>1. CASE e = d
    BY ZenonT(30), <1>3, <2>1, SpentStays
  <2>2. CASE e # d
    BY ZenonT(30), <1>3, <2>2 DEF Apart, Same, Spent, InHand
  <2> QED BY <2>1, <2>2
<1>4. ASSUME NEW e \in Destinations, e # d PROVE UNCHANGED <<pc[e], record[e]>>
  BY <1>4 DEF Apart, Same
<1>5. CountInv(d)'
  BY <1>0, CountOwn
<1>6. CASE attempts' = attempts
  <2>1. SpentInv'
    BY ZenonT(30), <1>0, <1>1, <1>3, <1>6 DEF SpentInv
  <2>2. ASSUME NEW e \in Destinations, e # d PROVE CountInv(e)'
    BY <1>0, <1>4, <1>6, <2>2 DEF CountInv, InHand, Coming
  <2>3. AttemptsBounded'
    BY <1>0, <1>6 DEF AttemptsBounded
  <2> QED BY <1>2, <1>5, <2>1, <2>2, <2>3 DEF AInv
<1>7. CASE /\ pc[d] = "attempt"
           /\ attempts' = [attempts EXCEPT ![record[d].delivery_id] = @ + 1]
           /\ InHand(d)' /\ record'[d].delivery_id = record[d].delivery_id
  <2>1. PICK a : a = record[d].delivery_id
    OBVIOUS
  <2>2. InHand(d)
    BY SMTT(30), <1>7 DEF InHand
  <2>3. SeenBy(a, d) /\ a \in DeliveryIds /\ a \in 1..commands /\ record[d] \in Record
    BY ZenonT(30), <2>1, <2>2, HandSeen DEF IdsInv, HandInv
  <2>4. attempts'[a] = attempts[a] + 1 /\ \A id \in DeliveryIds : id # a => attempts'[id] = attempts[id]
    BY ZenonT(30), <1>7, <2>1, <2>3 DEF TypeOK
  <2>5. SpentInv'
    <3>1. ASSUME NEW id \in DeliveryIds, attempts'[id] > 0
          PROVE  id \in 1..commands' /\ \A e \in Destinations : SeenBy(id, e)' => Spent(id, e)'
      <4>1. CASE id = a
        <5>1. ASSUME NEW e \in Destinations, SeenBy(a, e)' PROVE Spent(a, e)'
          <6>1. e = d
            BY <1>0, <1>1, <2>3, <5>1 DEF OneDestination
          <6> QED BY <1>7, <2>1, <6>1 DEF Spent
        <5> QED BY ZenonT(30), <2>3, <4>1, <5>1
      <4>2. CASE id # a
        <5>1. attempts[id] > 0
          BY <2>4, <3>1, <4>2
        <5> QED BY ZenonT(30), <1>0, <1>1, <1>3, <5>1 DEF SpentInv
      <4> QED BY <4>1, <4>2
    <3> QED BY <3>1 DEF SpentInv
  <2>6. ASSUME NEW e \in Destinations, e # d PROVE CountInv(e)'
    <3>1. CASE InHand(e)
      <4>1. SeenBy(record[e].delivery_id, e) /\ record[e].delivery_id \in DeliveryIds
        BY ZenonT(30), <3>1, HandSeen
      <4>2. record[e].delivery_id # a
        BY ZenonT(30), <1>0, <2>3, <2>6, <4>1 DEF OneDestination
      <4>3. attempts'[record[e].delivery_id] = attempts[record[e].delivery_id]
        BY ZenonT(30), <2>4, <4>1, <4>2
      <4> QED BY <1>0, <1>4, <2>6, <4>3 DEF CountInv, InHand, Coming
    <3>2. CASE ~InHand(e)
      BY ZenonT(30), <1>4, <2>6, <3>2 DEF CountInv, InHand
    <3> QED BY ZenonT(30), <3>1, <3>2
  <2>7. AttemptsBounded'
    <3>1. attempts[a] + 1 <= record[d].attempt
      BY ZenonT(30), <1>0, <1>7, <2>1, <2>2 DEF CountInv, Coming
    <3>2. record[d].attempt <= AttemptLimit /\ record[d].attempt \in Int /\ AttemptLimit \in Int
      BY <2>3, DurableAssumption DEF Record, AttemptLimit
    <3>3. attempts'[a] <= AttemptLimit
      BY <2>3, <2>4, <3>1, <3>2 DEF TypeOK
    <3> QED BY ZenonT(30), <1>0, <2>4, <3>3 DEF AttemptsBounded, AttemptLimit
  <2> QED BY <1>2, <1>5, <2>5, <2>6, <2>7 DEF AInv
<1> QED BY <1>6, <1>7, Counted

\* A step that changes neither workers nor attempts, and adds copies only.
LEMMA AttemptsQuiet ==
  ASSUME AInv, attempts' = attempts, pc' = pc, record' = record, completed' = completed,
         commands' = commands, \A id, e : SeenBy(id, e)' => SeenBy(id, e)
  PROVE  AInv'
<1>1. OneDestination'
  BY DEF AInv, OneDestination
<1>2. \A id, e : Spent(id, e) => Spent(id, e)'
  BY DEF Spent, InHand
<1>3. SpentInv'
  BY <1>2 DEF AInv, SpentInv
<1>4. AttemptsBounded' /\ \A d \in Destinations : CountInv(d)'
  BY DEF AInv, AttemptsBounded, CountInv, InHand, Coming
<1> QED BY <1>1, <1>3, <1>4 DEF AInv

\* A new command has an id that nobody has seen.
LEMMA AttemptsPersist ==
  ASSUME TypeOK, IdsInv, AInv, NEW d \in Destinations, NEW tight \in BOOLEAN, persist(d, tight)
  PROVE  AInv'
<1> DEFINE r == DurableRecord(commands + 1, d, 1, tight)
<1>0. commands \in Nat
  BY DEF TypeOK
<1>1. /\ commands < MaxCommands /\ commands' = commands + 1 /\ Published("delivery", r)
      /\ completed' = completed /\ record' = record /\ pc' = pc /\ attempts' = attempts
  BY DEF persist, command_written, workVars, memoryVars
<1>2. r \in Record /\ r.delivery_id = commands + 1 /\ r.destination_id = d /\ "delivery" \in Topics
  BY <1>0, <1>1, DurableAssumption DEF DurableRecord, Record, DeliveryIds, AttemptLimit, Topics
<1>3. ASSUME NEW id, NEW e, SeenBy(id, e)'
      PROVE  SeenBy(id, e) \/ (id = commands + 1 /\ e = d)
  <2> HIDE DEF r
  <2> QED BY ZenonT(30), <1>1, <1>2, <1>3, SeenAfter
<1>4. ASSUME NEW id, NEW e, SeenBy(id, e) PROVE id \in 1..commands /\ id # commands + 1
  BY <1>0, <1>4 DEF SeenBy, IdsInv
<1>5. OneDestination'
  BY <1>3, <1>4 DEF AInv, OneDestination
<1>6. SpentInv'
  <2>1. ASSUME NEW id \in DeliveryIds, attempts[id] > 0
        PROVE  id \in 1..commands' /\ \A e \in Destinations : SeenBy(id, e)' => Spent(id, e)'
    <3>1. id \in 1..commands /\ \A e \in Destinations : SeenBy(id, e) => Spent(id, e)
      BY <2>1 DEF AInv, SpentInv
    <3>2. id \in 1..commands' /\ id # commands + 1
      BY <1>0, <1>1, <3>1
    <3>3. \A e \in Destinations : Spent(id, e) => Spent(id, e)'
      BY ZenonT(30), <1>1 DEF Spent, InHand
    <3> QED BY <1>3, <3>1, <3>2, <3>3
  <2> QED BY <1>1, <2>1 DEF SpentInv
<1>7. AttemptsBounded' /\ \A e \in Destinations : CountInv(e)'
  BY <1>1 DEF AInv, AttemptsBounded, CountInv, InHand, Coming
<1> QED BY ZenonT(30), <1>5, <1>6, <1>7 DEF AInv

\* Every step keeps the attempts within the limit.
LEMMA AttemptsStep ==
  ASSUME IInv, AInv, [Next]_vars
  PROVE  AInv'
<1>0. TypeOK /\ IdsInv /\ \A d \in Destinations : HandInv(d)
  BY DEF IInv, WorkerInv
<1>1. ASSUME NEW d \in Destinations, NEW tight \in BOOLEAN, persist(d, tight) PROVE AInv'
  BY <1>0, <1>1, AttemptsPersist
<1>2. ASSUME NEW i \in 1..Len(log["dead_letter"]), replay_dead_letter(i) PROVE AInv'
  <2>1. /\ attempts' = attempts /\ pc' = pc /\ record' = record /\ completed' = completed
        /\ commands' = commands
    BY <1>2 DEF replay_dead_letter, workVars, memoryVars
  <2>2. \A id, e : SeenBy(id, e)' => SeenBy(id, e)
    BY <1>0, <1>2, ReplaySeen
  <2> QED BY <2>1, <2>2, AttemptsQuiet
<1>3. ASSUME NEW d \in Destinations, ReceiveStep(d) \/ ProcessStep(d) \/ FaultStep(d) PROVE AInv'
  <2>1. Apart(d) /\ commands' = commands
    BY <1>0, <1>3, WorkerEffect
  <2> QED BY <1>0, <1>3, <2>1, AttemptsWorker
<1>4. CASE crash \/ restart
  <2>1. /\ log' = log /\ attempts' = [i \in DeliveryIds |-> 0]
        /\ pc' = [d \in Destinations |-> "recover"]
    BY <1>4 DEF crash, restart, Restarted, topicVars
  <2>2. \A id, e : SeenBy(id, e)' => SeenBy(id, e)
    BY <2>1 DEF SeenBy
  <2>3. OneDestination'
    BY <2>2 DEF AInv, OneDestination
  <2>4. AttemptLimit \in Nat
    BY DurableAssumption DEF AttemptLimit
  <2>5. SpentInv' /\ AttemptsBounded'
    BY <2>1, <2>4 DEF SpentInv, AttemptsBounded, AttemptLimit
  <2>6. \A d \in Destinations : CountInv(d)'
    BY <2>1 DEF CountInv, InHand
  <2> QED BY <2>3, <2>5, <2>6 DEF AInv
<1>5. CASE UNCHANGED vars
  <2>1. /\ attempts' = attempts /\ pc' = pc /\ record' = record /\ completed' = completed
        /\ commands' = commands /\ log' = log
    BY <1>5 DEF vars, topicVars, workVars, memoryVars, historyVars
  <2>2. \A id, e : SeenBy(id, e)' => SeenBy(id, e)
    BY ZenonT(30), <2>1 DEF SeenBy
  <2> QED BY <2>1, <2>2, AttemptsQuiet
<1> QED BY <1>1, <1>2, <1>3, <1>4, <1>5 DEF Next

-----------------------------------------------------------------------------
(* The order of a destination's commands                                   *)

\* The loop a worker is in is the one it returns to.
PhaseInv(d) == pc[d] \in {"recover", "run"} => phase[d] = pc[d]

\* The delivery topic holds an owed command for d there.
OwedAt(d, o) ==
  log["delivery"][o].destination_id = d /\ log["delivery"][o].delivery_id \in owed

RetryAhead(id) == \E v \in 1..Len(log["retry"]) : Ahead(id, "retry", v)

\* An owed command that d has committed in the delivery topic has a copy ahead
\* in the retry topic.
KeptInv(d) ==
  \A o \in 1..committed[d]["delivery"] :
    OwedAt(d, o) => RetryAhead(log["delivery"][o].delivery_id)

\* Once recovery has ended, it can only be the one in hand.
RunInv(d) ==
  phase[d] = "run" /\ pc[d] # "failed" =>
    \A o \in 1..committed[d]["delivery"] :
      OwedAt(d, o) => InHand(d) /\ record[d].delivery_id = log["delivery"][o].delivery_id

\* What is in hand for the first time was read from the delivery topic.
FirstInv(d) ==
  InHand(d) /\ record[d].delivery_id \notin attempted =>
    pc[d] = "attempt" /\ phase[d] = "run" /\ input[d].topic = "delivery"

OrderInv(d) == PhaseInv(d) /\ KeptInv(d) /\ RunInv(d) /\ FirstInv(d)

\* Only drawn ids are attempted, and every drawn id is in the delivery topic.
DrawnInv ==
  /\ attempted \subseteq 1..commands
  /\ \A id \in 1..commands : \E o \in 1..Len(log["delivery"]) : log["delivery"][o].delivery_id = id

\* A retry has been attempted.
RetriedInv == \A o \in 1..Len(log["retry"]) : log["retry"][o].delivery_id \in attempted

OInv ==
  /\ \A d \in Destinations : OrderInv(d)
  /\ DrawnInv
  /\ RetriedInv
  /\ InOrder

\* A worker attempts the record in hand, writes nothing to the delivery topic
\* and changes no other worker's loop.
LEMMA WorkerHistory ==
  ASSUME TypeOK, NEW d \in Destinations, ReceiveStep(d) \/ ProcessStep(d) \/ FaultStep(d)
  PROVE  /\ log'["delivery"] = log["delivery"]
         /\ \/ attempted' = attempted
            \/ pc[d] = "attempt" /\ attempted' = attempted \cup {record[d].delivery_id}
         /\ \A e \in Destinations : e # d => phase'[e] = phase[e]
<1>0. log \in [Topics -> Seq(Record)] /\ phase \in [Destinations -> {"recover", "run"}]
  BY ZenonT(30) DEF TypeOK
<1>1. CASE ReceiveStep(d) \/ recover_error(d)
  BY ZenonT(30), <1>0, <1>1 DEF ReceiveStep, skip, take, recover_exceeded, recover_eof, recover_error,
                    topicVars, workVars, historyVars
<1>2. CASE \/ attempt_delivered(d)
           \/ \E class \in FailureClass : attempt_retry(d, class) \/ attempt_dead(d, class)
  BY ZenonT(30), <1>2 DEF attempt_delivered, attempt_retry, attempt_dead, Attempted, topicVars
<1>3. CASE commit_retry(d) \/ finish(d) \/ commit_fails(d) \/ publish_oversized(d)
  BY ZenonT(30), <1>3 DEF commit_retry, finish, commit_fails, publish_oversized, topicVars, workVars,
              historyVars
<1>4. CASE publish_retry(d) \/ publish_dead(d) \/ publish_fails(d)
  <2>1. UNCHANGED <<phase, attempted>>
    BY ZenonT(30), <1>4 DEF publish_retry, publish_dead, publish_fails, workVars, historyVars
  <2>2. log' = log \/ \E t \in {"retry", "dead_letter"} : Published(t, record[d])
    BY <1>4 DEF publish_retry, publish_dead, publish_fails
  <2>3. log'["delivery"] = log["delivery"]
    BY ZenonT(30), <1>0, <2>2 DEF Published, Topics
  <2> QED BY ZenonT(30), <2>1, <2>3
<1> QED BY ZenonT(30), <1>1, <1>2, <1>3, <1>4 DEF ProcessStep, FaultStep

\* Whatever a worker commits, an owed delivery with a copy ahead in the retry
\* topic keeps one.
LEMMA CopyStays ==
  ASSUME TypeOK, NEW d \in Destinations, WorkerInv(d), LogGrows, Apart(d), owed' \subseteq owed,
         ReceiveStep(d) \/ ProcessStep(d) \/ FaultStep(d), NEW id \in owed', RetryAhead(id)
  PROVE  RetryAhead(id)'
<1>1. PICK v \in 1..Len(log["retry"]) : Ahead(id, "retry", v)
  BY DEF RetryAhead
<1>2. "retry" \in Inputs /\ "retry" \in Topics
  BY ZenonT(30) DEF Inputs, Topics
<1>3. CASE log["retry"][v].destination_id = d
  <2>1. Ahead(id, "retry", v)' \/ \E w \in 1..Len(log'["retry"]) : Ahead(id, "retry", w)'
    BY ZenonT(30), <1>1, <1>2, <1>3, OwnAhead
  <2> QED BY ZenonT(30), <2>1 DEF RetryAhead, Ahead
<1>4. CASE log["retry"][v].destination_id # d
  <2>0. log["retry"][v] \in Record
    BY <1>1, <1>2 DEF TypeOK
  <2>1. log["retry"][v].destination_id \in Destinations
    BY ZenonT(30), <2>0 DEF Record
  <2>2. committed'[log["retry"][v].destination_id] = committed[log["retry"][v].destination_id]
    BY ZenonT(30), <1>4, <2>1 DEF Apart, Same
  <2>3. Ahead(id, "retry", v)'
    BY SMTT(30), <1>1, <1>2, <2>2, AheadStays DEF Ahead
  <2> QED BY ZenonT(30), <2>3 DEF RetryAhead, Ahead
<1> QED BY <1>3, <1>4

\* A worker that a step leaves alone keeps its part of the order.
LEMMA OrderApart ==
  ASSUME TypeOK, IdsInv, LogGrows, NEW e \in Destinations, Same(e), phase'[e] = phase[e],
         attempted \subseteq attempted', OrderInv(e),
         \A id \in 1..commands : id \in owed' => id \in owed /\ (RetryAhead(id) => RetryAhead(id)')
  PROVE  OrderInv(e)'
<1>1. /\ committed'[e] = committed[e] /\ committed[e]["delivery"] \in Nat
      /\ committed[e]["delivery"] <= Len(log["delivery"]) /\ Len(log["delivery"]) \in Nat
  BY DEF Same, TypeOK, Inputs, Topics
<1>2. ASSUME NEW o \in 1..committed[e]["delivery"]
      PROVE  /\ log'["delivery"][o] = log["delivery"][o]
             /\ OwedAt(e, o)' => /\ OwedAt(e, o)
                                 /\ RetryAhead(log["delivery"][o].delivery_id) =>
                                      RetryAhead(log["delivery"][o].delivery_id)'
  <2>1. o \in 1..Len(log["delivery"]) /\ "delivery" \in Topics
    BY <1>1 DEF Topics
  <2>2. log'["delivery"][o] = log["delivery"][o] /\ log["delivery"][o].delivery_id \in 1..commands
    BY <2>1 DEF LogGrows, IdsInv
  <2> QED BY <2>2 DEF OwedAt
<1>3. PICK k \in Nat : k = committed[e]["delivery"]
  BY <1>1
<1>4. KeptInv(e)'
  <2> SUFFICES ASSUME NEW o \in 1..k, OwedAt(e, o)'
               PROVE  RetryAhead(log["delivery"][o].delivery_id)' /\ log'["delivery"][o] = log["delivery"][o]
    BY ZenonT(30), <1>1, <1>3 DEF KeptInv, RetryAhead, Ahead
  <2> QED BY ZenonT(30), <1>2, <1>3 DEF OrderInv, KeptInv
<1>5. RunInv(e)'
  <2> SUFFICES ASSUME phase[e] = "run", pc[e] # "failed", NEW o \in 1..k, OwedAt(e, o)'
               PROVE  InHand(e)' /\ record'[e].delivery_id = log'["delivery"][o].delivery_id
    BY ZenonT(30), <1>1, <1>3 DEF RunInv, Same
  <2> QED BY ZenonT(30), <1>2, <1>3 DEF OrderInv, RunInv, InHand, Same
<1>6. PhaseInv(e)' /\ FirstInv(e)'
  BY ZenonT(30) DEF OrderInv, PhaseInv, FirstInv, InHand, Same
<1> QED BY ZenonT(30), <1>4, <1>5, <1>6 DEF OrderInv

\* When recovery reaches the end of the retry topic, no command that the worker
\* has committed is owed.
LEMMA RecoveredNone ==
  ASSUME TypeOK, OneDestination, NEW d \in Destinations, BetweenInv(d), KeptInv(d), recover_eof(d),
         NEW o \in 1..committed[d]["delivery"], OwedAt(d, o)
  PROVE  FALSE
<1>1. /\ position[d]["retry"] = Len(log["retry"]) /\ position[d] = committed[d]
      /\ Len(log["retry"]) \in Nat
  BY SMTT(30) DEF recover_eof, RecoveryEnds, BetweenInv, TypeOK, Topics
<1>2. PICK id : id = log["delivery"][o].delivery_id
  OBVIOUS
<1>3. RetryAhead(id) /\ log["delivery"][o].destination_id = d
  BY ZenonT(30), <1>2 DEF KeptInv, OwedAt
<1>4. PICK v \in 1..Len(log["retry"]) : Ahead(id, "retry", v)
  BY ZenonT(30), <1>3 DEF RetryAhead
<1>5. o \in 1..Len(log["delivery"])
  BY SMTT(30) DEF TypeOK, Inputs, Topics
<1>6. log["delivery"][o] \in Record /\ log["retry"][v] \in Record
  BY SMTT(30), <1>4, <1>5 DEF TypeOK, Topics
<1>7. id \in DeliveryIds /\ log["retry"][v].destination_id \in Destinations
  BY ZenonT(30), <1>2, <1>6 DEF Record
<1>8. SeenBy(id, d) /\ SeenBy(id, log["retry"][v].destination_id)
  BY ZenonT(30), <1>2, <1>3, <1>4, <1>5 DEF SeenBy, Ahead, Topics
<1>9. log["retry"][v].destination_id = d
  BY ZenonT(30), <1>7, <1>8 DEF OneDestination
<1> QED BY <1>1, <1>4, <1>9 DEF Ahead

\* A commit of the input passes the record in hand only.
LEMMA PassedInHand ==
  ASSUME TypeOK, NEW d \in Destinations, HandInv(d), InHand(d), Committed(d, input[d]),
         NEW o \in 1..committed'[d]["delivery"], o \notin 1..committed[d]["delivery"]
  PROVE  log["delivery"][o].delivery_id = record[d].delivery_id
<1>1. /\ committed'[d][input[d].topic] = input[d].offset
      /\ \A u \in Inputs : u # input[d].topic => committed'[d][u] = committed[d][u]
  BY ZenonT(30), InputOffsets
<1>2. input[d].topic = "delivery"
  BY ZenonT(30), <1>1 DEF Inputs
<1>3. /\ committed[d]["delivery"] = IF input_committed[d] THEN input[d].offset ELSE input[d].offset - 1
      /\ log["delivery"][input[d].offset].delivery_id = record[d].delivery_id
      /\ input[d].offset \in Nat
  BY ZenonT(30), <1>2 DEF HandInv, TypeOK
<1>4. o = input[d].offset
  BY <1>1, <1>2, <1>3
<1> QED BY ZenonT(30), <1>3, <1>4

\* A skip passes no owed command.
LEMMA PassedBySkip ==
  ASSUME TypeOK, NEW d \in Destinations, WorkerInv(d), NEW t \in Inputs, skip(d, t),
         NEW o \in 1..committed'[d]["delivery"], o \notin 1..committed[d]["delivery"], OwedAt(d, o)
  PROVE  FALSE
<1>1. /\ committed' \in [Destinations -> [Inputs -> Nat]]
      /\ committed'[d]["delivery"] <= Len(log["delivery"])
      /\ committed[d]["delivery"] \in Nat /\ Len(log["delivery"]) \in Nat
  <2>1. TypeOK' /\ log' = log
    BY ZenonT(30), ReceiveType DEF ReceiveStep, skip, topicVars
  <2>2. "delivery" \in Inputs
    BY DEF Inputs
  <2>3. /\ committed' \in [Destinations -> [Inputs -> Nat]]
        /\ committed'[d]["delivery"] <= Len(log["delivery"])
    BY ZenonT(30), <2>1, <2>2 DEF TypeOK
  <2> QED BY SMTT(30), <2>3 DEF TypeOK, Inputs, Topics
<1>2. o \in 1..Len(log["delivery"]) /\ committed[d]["delivery"] < o
  BY SMTT(30), <1>1 DEF Inputs
<1>3. "delivery" \in Inputs
  BY DEF Inputs
<1>4. committed'[d]["delivery"] < o
  BY ZenonT(30), <1>2, <1>3, SkipPassed DEF OwedAt
<1> QED BY <1>1, <1>4 DEF Inputs

\* Between records, a worker in the run loop has committed no owed command.
LEMMA NoneOwed ==
  ASSUME NEW d \in Destinations, OrderInv(d), pc[d] = "run", NEW o \in 1..committed[d]["delivery"],
         OwedAt(d, o)
  PROVE  FALSE
BY ZenonT(30) DEF OrderInv, PhaseInv, RunInv, InHand

\* A worker's own steps keep the order.
LEMMA RunOwn ==
  ASSUME TypeOK, OneDestination, NEW d \in Destinations, WorkerInv(d), OrderInv(d),
         owed' \subseteq owed, log'["delivery"] = log["delivery"],
         ReceiveStep(d) \/ ProcessStep(d) \/ FaultStep(d)
  PROVE  RunInv(d)'
<1> SUFFICES ASSUME phase'[d] = "run", pc'[d] # "failed", NEW o \in 1..committed'[d]["delivery"],
                    OwedAt(d, o)'
             PROVE  InHand(d)' /\ record'[d].delivery_id = log["delivery"][o].delivery_id
  BY ZenonT(30) DEF RunInv
<1>0. OwedAt(d, o) /\ pc \in [Destinations -> Labels] /\ phase \in [Destinations -> {"recover", "run"}]
  BY ZenonT(30) DEF OwedAt, TypeOK, Labels
<1>1. ASSUME NEW t \in Inputs, take(d, t) PROVE FALSE
  <2>1. committed' = committed /\ phase' = phase /\ pc[d] \in {"recover", "run"}
    BY ZenonT(30), <1>1 DEF take, Receives
  <2>2. pc[d] = "run"
    BY ZenonT(30), <2>1 DEF OrderInv, PhaseInv
  <2> QED BY ZenonT(30), <1>0, <2>1, <2>2, NoneOwed
<1>2. ASSUME NEW t \in Inputs, skip(d, t) PROVE FALSE
  <2>1. phase' = phase /\ pc[d] \in {"recover", "run"}
    BY ZenonT(30), <1>2 DEF skip, Receives, workVars
  <2>2. pc[d] = "run"
    BY ZenonT(30), <2>1 DEF OrderInv, PhaseInv
  <2>3. o \notin 1..committed[d]["delivery"]
    BY ZenonT(30), <1>0, <2>2, NoneOwed
  <2> QED BY ZenonT(30), <1>0, <1>2, <2>3, PassedBySkip
<1>3. CASE recover_eof(d)
  BY ZenonT(30), <1>0, <1>3, RecoveredNone DEF recover_eof, WorkerInv, OrderInv
<1>4. CASE \/ recover_exceeded(d) \/ FaultStep(d)
  BY ZenonT(30), <1>0, <1>4, FailsType
     DEF recover_exceeded, FaultStep, recover_error, publish_oversized, publish_fails, commit_fails, Goto
<1>5. ASSUME InHand(d), InHand(d)', record'[d].delivery_id = record[d].delivery_id, phase' = phase,
             o \in 1..committed[d]["delivery"] \/ Committed(d, input[d])
      PROVE  InHand(d)' /\ record'[d].delivery_id = log["delivery"][o].delivery_id
  <2>1. CASE o \in 1..committed[d]["delivery"]
    BY ZenonT(30), <1>0, <1>5, <2>1 DEF OrderInv, RunInv, InHand
  <2>2. CASE o \notin 1..committed[d]["delivery"]
    BY ZenonT(30), <1>5, <2>2, PassedInHand DEF WorkerInv
  <2> QED BY ZenonT(30), <2>1, <2>2
<1>6. CASE \/ attempt_delivered(d) \/ publish_retry(d) \/ commit_retry(d) \/ publish_dead(d)
           \/ \E class \in FailureClass : attempt_retry(d, class) \/ attempt_dead(d, class)
  <2>1. InHand(d) /\ InHand(d)' /\ phase' = phase
    BY ZenonT(30), <1>0, <1>6 DEF attempt_delivered, publish_retry, commit_retry, publish_dead, attempt_retry,
                      attempt_dead, Attempted, Goto, InHand, workVars
  <2>2. committed' = committed \/ Committed(d, input[d])
    BY ZenonT(30), <1>6 DEF attempt_delivered, publish_retry, commit_retry, publish_dead, attempt_retry,
                attempt_dead, Attempted
  <2>3. record' = record \/ record' = [record EXCEPT ![d].attempt = @ + 1]
    BY ZenonT(30), <1>6 DEF attempt_delivered, publish_retry, commit_retry, publish_dead, attempt_retry,
                attempt_dead, Attempted, workVars
  <2>4. record[d] \in Record /\ record \in [Destinations -> Record \cup {None}]
    BY ZenonT(30), <2>1 DEF WorkerInv, HandInv, TypeOK
  <2>5. record'[d].delivery_id = record[d].delivery_id
    BY ZenonT(30), <2>3, <2>4 DEF Record
  <2> QED BY ZenonT(30), <1>5, <2>1, <2>2, <2>5
<1>7. CASE finish(d)
  <2>1. /\ pc[d] = "finish" /\ phase' = phase
        /\ committed' = committed \/ Committed(d, input[d])
    BY ZenonT(30), <1>7 DEF finish, workVars
  <2>2. InHand(d) /\ record[d].delivery_id \notin owed
    BY ZenonT(30), <2>1 DEF InHand, WorkerInv, FinishedInv
  <2>3. CASE o \in 1..committed[d]["delivery"]
    BY ZenonT(30), <1>0, <2>1, <2>2, <2>3 DEF OrderInv, RunInv, OwedAt
  <2>4. CASE o \notin 1..committed[d]["delivery"]
    BY ZenonT(30), <1>0, <2>1, <2>2, <2>4, PassedInHand DEF WorkerInv, OwedAt
  <2> QED BY <2>3, <2>4
<1> QED BY ZenonT(30), <1>1, <1>2, <1>3, <1>4, <1>6, <1>7 DEF ReceiveStep, ProcessStep

\* A command that a worker commits is not owed or has a copy ahead.
LEMMA KeptOwn ==
  ASSUME TypeOK, TypeOK', NEW d \in Destinations, WorkerInv(d), LogGrows, Apart(d), KeptInv(d),
         owed' \subseteq owed, log'["delivery"] = log["delivery"],
         ReceiveStep(d) \/ ProcessStep(d) \/ FaultStep(d)
  PROVE  KeptInv(d)'
<1> SUFFICES ASSUME NEW o \in 1..committed'[d]["delivery"], OwedAt(d, o)'
             PROVE  RetryAhead(log["delivery"][o].delivery_id)'
  BY ZenonT(30) DEF KeptInv
<1>0. "delivery" \in Inputs /\ "delivery" \in Topics
  BY ZenonT(30) DEF Inputs, Topics
<1>1. PICK id : id = log["delivery"][o].delivery_id
  OBVIOUS
<1>2. id \in owed' /\ id \in owed /\ log["delivery"][o].destination_id = d /\ OwedAt(d, o)
  BY ZenonT(30), <1>1 DEF OwedAt
<1>3. CASE o \in 1..committed[d]["delivery"]
  <2>1. RetryAhead(id)
    BY ZenonT(30), <1>1, <1>2, <1>3 DEF KeptInv
  <2> QED BY ZenonT(30), <1>1, <1>2, <2>1, CopyStays
<1>4. CASE o \notin 1..committed[d]["delivery"]
  <2>1. committed'[d]["delivery"] \in Nat /\ committed'[d]["delivery"] <= Len(log["delivery"])
    <3>1. committed' \in [Destinations -> [Inputs -> Nat]]
      BY DEF TypeOK
    <3>2. committed'[d]["delivery"] <= Len(log'["delivery"])
      BY ZenonT(30), <1>0, Zenon DEF TypeOK
    <3> QED BY ZenonT(30), <1>0, <3>1, <3>2
  <2>2. committed[d]["delivery"] \in Nat /\ Len(log["delivery"]) \in Nat
    BY SMTT(30), <1>0 DEF TypeOK
  <2>3. o \in 1..Len(log["delivery"]) /\ committed[d]["delivery"] < o /\ ~(committed'[d]["delivery"] < o)
    BY SMTT(30), <1>4, <2>1, <2>2
  <2>4. Ahead(id, "delivery", o)
    BY ZenonT(30), <1>1, <1>2, <2>3 DEF Ahead
  <2>5. Ahead(id, "delivery", o)' \/ \E v \in 1..Len(log'["retry"]) : Ahead(id, "retry", v)'
    BY ZenonT(30), <1>0, <1>2, <2>3, <2>4, OwnAhead
  <2>6. ~(Ahead(id, "delivery", o)')
    BY ZenonT(30), <1>2, <2>3 DEF Ahead
  <2> QED BY ZenonT(30), <1>1, <2>5, <2>6 DEF RetryAhead
<1> QED BY ZenonT(30), <1>3, <1>4

\* What a worker takes from the retry topic has been attempted before.
LEMMA FirstOwn ==
  ASSUME TypeOK, NEW d \in Destinations, WorkerInv(d), OrderInv(d), RetriedInv,
         ReceiveStep(d) \/ ProcessStep(d) \/ FaultStep(d)
  PROVE  PhaseInv(d)' /\ FirstInv(d)'
<1>0. /\ pc \in [Destinations -> Labels] /\ phase \in [Destinations -> {"recover", "run"}]
      /\ record \in [Destinations -> Record \cup {None}]
      /\ input \in [Destinations -> [topic : Inputs, offset : Nat]]
  BY DEF TypeOK, Labels
<1>1. ASSUME NEW t \in Inputs, take(d, t) PROVE PhaseInv(d)' /\ FirstInv(d)'
  <2>1. /\ pc'[d] = "attempt" /\ record'[d] = Received(d, t) /\ input'[d] = Cursor(d, t)
        /\ phase' = phase /\ attempted' = attempted /\ Receives(d, t)
    BY ZenonT(30), <1>0, <1>1 DEF take, Goto, historyVars
  <2>2. CASE t = "retry"
    <3>1. Received(d, t).delivery_id \in attempted
      BY ZenonT(30), <2>1, <2>2, ReceivedRecord DEF RetriedInv, Received
    <3> QED BY ZenonT(30), <2>1, <3>1 DEF PhaseInv, FirstInv
  <2>3. CASE t # "retry"
    <3>1. t = "delivery" /\ phase[d] = "run"
      BY ZenonT(30), <2>1, <2>3 DEF Receives, Inputs, OrderInv, PhaseInv
    <3> QED BY <2>1, <3>1 DEF PhaseInv, FirstInv, Cursor
  <2> QED BY ZenonT(30), <2>2, <2>3
<1>2. ASSUME NEW t \in Inputs, skip(d, t) PROVE PhaseInv(d)' /\ FirstInv(d)'
  <2>1. /\ pc[d] \in {"recover", "run"} /\ phase' = phase
        /\ pc' = pc \/ pc'[d] = "failed"
    BY ZenonT(30), <1>0, <1>2 DEF skip, Receives, Fails, Goto, workVars
  <2> QED BY ZenonT(30), <2>1 DEF OrderInv, PhaseInv, FirstInv, InHand
<1>3. CASE recover_eof(d)
  BY ZenonT(30), <1>0, <1>3 DEF recover_eof, Goto, PhaseInv, FirstInv, InHand
<1>4. CASE recover_exceeded(d) \/ FaultStep(d)
  <2>1. pc'[d] = "failed"
    BY <1>0, <1>4 DEF recover_exceeded, FaultStep, recover_error, publish_oversized, publish_fails,
                      commit_fails, Fails, Goto
  <2> QED BY ZenonT(30), <2>1 DEF PhaseInv, FirstInv, InHand
<1>5. CASE \/ attempt_delivered(d)
           \/ \E class \in FailureClass : attempt_retry(d, class) \/ attempt_dead(d, class)
  <2>1. /\ Attempted(d) /\ pc'[d] \in {"finish", "publish_retry", "publish_dead"}
        /\ record' = record \/ record' = [record EXCEPT ![d].attempt = @ + 1]
    BY ZenonT(30), <1>0, <1>5 DEF attempt_delivered, attempt_retry, attempt_dead, Goto
  <2>2. record[d] \in Record
    BY <2>1 DEF Attempted, WorkerInv, HandInv, InHand
  <2>3. record'[d].delivery_id = record[d].delivery_id
    BY <1>0, <2>1, <2>2 DEF Record
  <2>4. record'[d].delivery_id \in attempted'
    BY ZenonT(30), <2>1, <2>3 DEF Attempted
  <2> QED BY <2>1, <2>4 DEF PhaseInv, FirstInv
<1>6. CASE publish_retry(d) \/ commit_retry(d) \/ publish_dead(d)
  <2>1. /\ pc[d] \in {"publish_retry", "commit_retry", "publish_dead"}
        /\ pc'[d] \in {"attempt", "commit_retry", "finish"}
        /\ record' = record /\ attempted' = attempted
    BY ZenonT(30), <1>0, <1>6 DEF publish_retry, commit_retry, publish_dead, Goto, workVars, historyVars
  <2>2. record[d].delivery_id \in attempted
    BY ZenonT(30), <2>1 DEF OrderInv, FirstInv, InHand
  <2> QED BY ZenonT(30), <2>1, <2>2 DEF PhaseInv, FirstInv
<1>7. CASE finish(d)
  <2>1. phase' = phase /\ (pc'[d] = "failed" \/ pc'[d] = phase[d]) /\ phase[d] \in {"recover", "run"}
    BY ZenonT(30), <1>0, <1>7 DEF finish, Goto, workVars
  <2> QED BY ZenonT(30), <2>1 DEF PhaseInv, FirstInv, InHand
<1> QED BY ZenonT(30), <1>1, <1>2, <1>3, <1>4, <1>5, <1>6, <1>7 DEF ReceiveStep, ProcessStep

\* A record is attempted for the first time when every earlier command of its
\* destination has had its outcome.
LEMMA OrderOwn ==
  ASSUME TypeOK, OneDestination, NEW d \in Destinations, HandInv(d), OrderInv(d), InOrder,
         owed' \subseteq owed, log'["delivery"] = log["delivery"],
         \/ attempted' = attempted
         \/ pc[d] = "attempt" /\ attempted' = attempted \cup {record[d].delivery_id}
  PROVE  InOrder'
<1> DEFINE L == log["delivery"]
<1>0. L \in Seq(Record) /\ Len(L) \in Nat
  BY SMTT(30) DEF TypeOK, Topics
<1> SUFFICES ASSUME NEW j \in 1..Len(L), NEW i \in 1..(j - 1),
                    L[i].destination_id = L[j].destination_id,
                    \A k \in 1..(j - 1) : L[k].delivery_id # L[j].delivery_id,
                    L[j].delivery_id \in attempted', L[i].delivery_id \in owed'
             PROVE  FALSE
  BY ZenonT(30) DEF InOrder
<1>1. L[j].delivery_id \notin attempted
  BY ZenonT(30) DEF InOrder
<1>2. /\ pc[d] = "attempt" /\ InHand(d) /\ L[j].delivery_id = record[d].delivery_id
  BY ZenonT(30), <1>1 DEF InHand
<1>3. phase[d] = "run" /\ input[d].topic = "delivery"
  BY ZenonT(30), <1>1, <1>2 DEF OrderInv, FirstInv
<1>4. PICK o \in Nat : o = input[d].offset
  BY ZenonT(30) DEF TypeOK
<1>5. /\ o \in 1..Len(L) /\ L[o].delivery_id = record[d].delivery_id /\ L[o].destination_id = d
      /\ committed[d]["delivery"] \in {o, o - 1}
  BY ZenonT(30), <1>2, <1>3, <1>4 DEF HandInv
<1>6. L[j] \in Record /\ i \in 1..Len(L) /\ j \in Nat /\ i \in Nat
  BY SMTT(30), <1>0
<1>7. L[j].destination_id = d
  <2>1. L[j].delivery_id \in DeliveryIds /\ L[j].destination_id \in Destinations
    BY ZenonT(30), <1>6 DEF Record
  <2>2. SeenBy(L[j].delivery_id, d) /\ SeenBy(L[j].delivery_id, L[j].destination_id)
    BY ZenonT(30), <1>2, <1>5 DEF SeenBy, Topics
  <2> QED BY ZenonT(30), <2>1, <2>2 DEF OneDestination
<1>8. i \in 1..committed[d]["delivery"]
  <2>1. j <= o
    BY SMTT(30), <1>0, <1>2, <1>5, <1>6
  <2> QED BY SMTT(30), <1>5, <1>6, <2>1
<1>9. OwedAt(d, i)
  BY ZenonT(30), <1>7 DEF OwedAt
<1>10. record[d].delivery_id = L[i].delivery_id
  BY ZenonT(30), <1>2, <1>3, <1>8, <1>9 DEF OrderInv, RunInv
<1> QED BY ZenonT(30), <1>2, <1>10

\* A record written to the delivery topic is new and not attempted, or a copy.
LEMMA OrderWriter ==
  ASSUME TypeOK, InOrder, NEW r \in Record, Published("delivery", r), attempted' = attempted,
         \A o \in 1..Len(log["delivery"]) :
           log["delivery"][o].delivery_id \in owed' => log["delivery"][o].delivery_id \in owed,
         \/ r.delivery_id \notin attempted
         \/ \E o \in 1..Len(log["delivery"]) : log["delivery"][o].delivery_id = r.delivery_id
  PROVE  InOrder'
<1> DEFINE L == log["delivery"]
           M == log'["delivery"]
<1>0. /\ Len(L) \in Nat /\ Len(M) = Len(L) + 1 /\ M[Len(L) + 1] = r
      /\ \A o \in 1..Len(L) : M[o] = L[o]
  BY SMTT(30), PublishedLog DEF TypeOK, Topics
<1> SUFFICES ASSUME NEW j \in 1..Len(M), NEW i \in 1..(j - 1),
                    M[i].destination_id = M[j].destination_id,
                    \A k \in 1..(j - 1) : M[k].delivery_id # M[j].delivery_id,
                    M[j].delivery_id \in attempted, M[i].delivery_id \in owed'
             PROVE  FALSE
  BY ZenonT(30) DEF InOrder
<1> HIDE DEF L, M
<1>1. i \in 1..Len(L) /\ M[i] = L[i] /\ L[i].delivery_id \in owed
  <2>1. i \in 1..Len(L)
    BY <1>0
  <2> QED BY ZenonT(30), <1>0, <2>1 DEF L
<1>2. CASE j \in 1..Len(L)
  <2>1. M[j] = L[j] /\ \A k \in 1..(j - 1) : M[k] = L[k]
    BY SMTT(30), <1>0, <1>2
  <2> QED BY ZenonT(30), <1>1, <1>2, <2>1 DEF InOrder, L
<1>3. CASE j \notin 1..Len(L)
  <2>1. j = Len(L) + 1
    BY SMTT(30), <1>0, <1>3
  <2>2. PICK o \in 1..Len(L) : L[o].delivery_id = r.delivery_id
    BY ZenonT(30), <1>0, <2>1 DEF L
  <2> QED BY SMTT(30), <1>0, <2>1, <2>2
<1> QED BY ZenonT(30), <1>2, <1>3

\* A worker publishes a retry after the attempt that failed.
LEMMA RetriedStays ==
  ASSUME TypeOK, NEW d \in Destinations, HandInv(d), OrderInv(d), RetriedInv, attempted \subseteq attempted',
         ReceiveStep(d) \/ ProcessStep(d) \/ FaultStep(d)
  PROVE  RetriedInv'
<1>1. CASE log' = log
  BY ZenonT(30), <1>1 DEF RetriedInv
<1>2. ASSUME InHand(d), pc[d] # "attempt", NEW t \in Topics, Published(t, record[d])
      PROVE  RetriedInv'
  <2>1. record[d] \in Record /\ record[d].delivery_id \in attempted
    BY ZenonT(30), <1>2 DEF HandInv, OrderInv, FirstInv
  <2>2. /\ Len(log'[t]) = Len(log[t]) + 1
        /\ log'[t][Len(log[t]) + 1] = record[d]
        /\ \A u \in Topics : u # t => log'[u] = log[u]
        /\ \A u \in Topics : \A o \in 1..Len(log[u]) : log'[u][o] = log[u][o]
    BY ZenonT(30), <1>2, <2>1, PublishedLog
  <2>3. Len(log[t]) \in Nat /\ "retry" \in Topics
    BY SMTT(30) DEF TypeOK, Topics
  <2>4. ASSUME NEW o \in 1..Len(log'["retry"]) PROVE log'["retry"][o].delivery_id \in attempted'
    <3>1. CASE o \in 1..Len(log["retry"])
      BY ZenonT(30), <2>2, <2>3, <3>1 DEF RetriedInv
    <3>2. CASE o \notin 1..Len(log["retry"])
      <4>1. t = "retry" /\ o = Len(log[t]) + 1
        BY SMTT(30), <2>2, <2>3, <3>2
      <4> QED BY ZenonT(30), <2>1, <2>2, <4>1
    <3> QED BY ZenonT(30), <3>1, <3>2
  <2> QED BY ZenonT(30), <2>4 DEF RetriedInv
<1>3. log' = log \/ (InHand(d) /\ pc[d] # "attempt" /\ \E t \in Topics : Published(t, record[d]))
  <2>1. log' = log \/ (InHand(d) /\ \E t \in Topics : Published(t, record[d]))
    BY ZenonT(30), WorkerLog
  <2>2. pc[d] = "attempt" => log' = log
    BY ZenonT(30) DEF ReceiveStep, ProcessStep, FaultStep, skip, take, Receives, recover_exceeded, recover_eof,
           recover_error, publish_oversized, publish_fails, commit_fails, attempt_delivered,
           attempt_retry, attempt_dead, Attempted, publish_retry, commit_retry, publish_dead, finish,
           topicVars
  <2> QED BY ZenonT(30), <2>1, <2>2
<1> QED BY ZenonT(30), <1>1, <1>2, <1>3

\* The ids drawn stay in the delivery topic.
LEMMA DrawnStays ==
  ASSUME TypeOK, DrawnInv, LogGrows, commands' = commands, attempted' = attempted
  PROVE  DrawnInv'
<1>1. Len(log["delivery"]) \in Nat /\ Len(log'["delivery"]) \in Int /\ "delivery" \in Topics
      /\ Len(log["delivery"]) <= Len(log'["delivery"])
  BY DEF TypeOK, LogGrows, Topics
<1>2. ASSUME NEW id \in 1..commands
      PROVE  \E o \in 1..Len(log'["delivery"]) : log'["delivery"][o].delivery_id = id
  <2>1. PICK o \in 1..Len(log["delivery"]) : log["delivery"][o].delivery_id = id
    BY ZenonT(30) DEF DrawnInv
  <2>2. o \in 1..Len(log'["delivery"]) /\ log'["delivery"][o] = log["delivery"][o]
    BY <1>1, <2>1 DEF LogGrows
  <2> QED BY ZenonT(30), <2>1, <2>2
<1> QED BY ZenonT(30), <1>2 DEF DrawnInv

\* At the beginning nothing is owed and nothing attempted.
LEMMA OrderInit == Init => OInv
<1> SUFFICES ASSUME Init PROVE OInv
  OBVIOUS
<1>1. /\ log = [t \in Topics |-> <<>>] /\ attempted = {} /\ owed = {} /\ commands = 0
      /\ pc = [d \in Destinations |-> "recover"] /\ phase = [d \in Destinations |-> "recover"]
  BY ZenonT(30) DEF Init
<1>2. \A d \in Destinations : OrderInv(d)
  BY SMTT(30), <1>1 DEF OrderInv, PhaseInv, KeptInv, OwedAt, RunInv, FirstInv, InHand
<1>3. DrawnInv /\ RetriedInv /\ InOrder
  BY <1>1 DEF DrawnInv, RetriedInv, InOrder, Topics
<1> QED BY <1>2, <1>3 DEF OInv

\* Every step keeps a destination's commands in order.
LEMMA OrderStep ==
  ASSUME IInv, IInv', AInv, OInv, [Next]_vars
  PROVE  OInv'
<1>0. /\ TypeOK /\ TypeOK' /\ IdsInv /\ OneDestination /\ DrawnInv /\ RetriedInv /\ InOrder
      /\ \A d \in Destinations : WorkerInv(d) /\ HandInv(d) /\ OrderInv(d)
      /\ commands \in Nat
  BY DEF IInv, AInv, OInv, WorkerInv, TypeOK
<1>1. ASSUME NEW r \in Record, Published("delivery", r), \A e \in Destinations : Same(e),
             UNCHANGED <<committed, phase, attempted>>, owed' \subseteq owed \cup {commands + 1}
      PROVE  /\ \A e \in Destinations : OrderInv(e)'
             /\ RetriedInv' /\ LogGrows
             /\ \A o \in 1..Len(log["delivery"]) :
                  log["delivery"][o].delivery_id \in owed' => log["delivery"][o].delivery_id \in owed
  <2>1. LogGrows /\ log'["retry"] = log["retry"]
    BY <1>0, <1>1, LogPublished, PublishedLog DEF Topics
  <2>2. \A id : RetryAhead(id) => RetryAhead(id)'
    BY ZenonT(30), <1>1, <2>1 DEF RetryAhead, Ahead
  <2>3. \A id \in 1..commands : id \in owed' => id \in owed
    BY SMTT(30), <1>0, <1>1
  <2>4. \A e \in Destinations : OrderInv(e)'
    BY ZenonT(30), <1>0, <1>1, <2>1, <2>2, <2>3, OrderApart
  <2>5. RetriedInv'
    BY ZenonT(30), <1>0, <1>1, <2>1 DEF RetriedInv
  <2> QED BY <1>0, <2>1, <2>3, <2>4, <2>5 DEF IdsInv, Topics
<1>2. ASSUME NEW d \in Destinations, NEW tight \in BOOLEAN, persist(d, tight) PROVE OInv'
  <2> DEFINE r == DurableRecord(commands + 1, d, 1, tight)
  <2>1. /\ Published("delivery", r) /\ owed' = owed \cup {commands + 1} /\ commands' = commands + 1
        /\ UNCHANGED <<committed, phase, attempted>> /\ commands < MaxCommands
        /\ \A e \in Destinations : Same(e)
    BY ZenonT(30), <1>2 DEF persist, command_written, Same, workVars, memoryVars
  <2>2. r \in Record /\ r.delivery_id = commands + 1
    BY SMTT(30), <1>0, <2>1, DurableAssumption DEF DurableRecord, Record, DeliveryIds, AttemptLimit
  <2> HIDE DEF r
  <2>3. /\ \A e \in Destinations : OrderInv(e)'
        /\ RetriedInv' /\ LogGrows
        /\ \A o \in 1..Len(log["delivery"]) :
             log["delivery"][o].delivery_id \in owed' => log["delivery"][o].delivery_id \in owed
    BY ZenonT(30), <1>1, <2>1, <2>2
  <2>4. r.delivery_id \notin attempted
    BY SMTT(30), <1>0, <2>2 DEF DrawnInv
  <2>5. InOrder'
    BY ZenonT(30), <1>0, <2>1, <2>2, <2>3, <2>4, OrderWriter
  <2>6. DrawnInv'
    <3>1. /\ Len(log["delivery"]) \in Nat /\ Len(log'["delivery"]) = Len(log["delivery"]) + 1
          /\ log'["delivery"][Len(log["delivery"]) + 1] = r
          /\ \A o \in 1..Len(log["delivery"]) : log'["delivery"][o] = log["delivery"][o]
      <4>1. "delivery" \in Topics /\ Len(log["delivery"]) \in Nat
        BY SMTT(30), <1>0 DEF TypeOK, Topics
      <4> QED BY ZenonT(30), <1>0, <2>1, <2>2, <4>1, PublishedLog
    <3>2. ASSUME NEW id \in 1..commands'
          PROVE  \E o \in 1..Len(log'["delivery"]) : log'["delivery"][o].delivery_id = id
      <4>1. CASE id = commands + 1
        BY SMTT(30), <2>2, <3>1, <4>1
      <4>2. CASE id # commands + 1
        <5>1. PICK o \in 1..Len(log["delivery"]) : log["delivery"][o].delivery_id = id
          BY SMTT(30), <1>0, <2>1, <4>2 DEF DrawnInv
        <5> QED BY SMTT(30), <3>1, <5>1
      <4> QED BY ZenonT(30), <4>1, <4>2
    <3>3. attempted' \subseteq 1..commands'
      BY SMTT(30), <1>0, <2>1 DEF DrawnInv
    <3> QED BY ZenonT(30), <3>2, <3>3 DEF DrawnInv
  <2> QED BY ZenonT(30), <2>3, <2>5, <2>6 DEF OInv
<1>3. ASSUME NEW i \in 1..Len(log["dead_letter"]), replay_dead_letter(i) PROVE OInv'
  <2> DEFINE r == [log["dead_letter"][i] EXCEPT !.attempt = 1]
  <2>1. /\ Published("delivery", r) /\ owed' = owed /\ commands' = commands
        /\ UNCHANGED <<committed, phase, attempted>> /\ \A e \in Destinations : Same(e)
    BY ZenonT(30), <1>3 DEF replay_dead_letter, Same, workVars, memoryVars
  <2>2. log["dead_letter"][i] \in Record /\ log["dead_letter"][i].delivery_id \in 1..commands
    <3>1. "dead_letter" \in Topics
      BY DEF Topics
    <3>2. log["dead_letter"] \in Seq(Record)
      BY Zenon, <1>0, <3>1 DEF TypeOK
    <3>3. log["dead_letter"][i] \in Record
      BY <3>2
    <3> QED BY Zenon, <1>0, <3>1, <3>3 DEF IdsInv
  <2>3. r \in Record /\ r.delivery_id \in 1..commands
    BY Zenon, <2>2, Replayed
  <2> HIDE DEF r
  <2>4. /\ \A e \in Destinations : OrderInv(e)'
        /\ RetriedInv' /\ LogGrows
        /\ \A o \in 1..Len(log["delivery"]) :
             log["delivery"][o].delivery_id \in owed' => log["delivery"][o].delivery_id \in owed
    BY ZenonT(30), <1>1, <2>1, <2>3
  <2>5. \E o \in 1..Len(log["delivery"]) : log["delivery"][o].delivery_id = r.delivery_id
    BY ZenonT(30), <1>0, <2>3 DEF DrawnInv
  <2>6. InOrder'
    BY ZenonT(30), <1>0, <2>1, <2>3, <2>4, <2>5, OrderWriter
  <2>7. DrawnInv'
    BY ZenonT(30), <1>0, <2>1, <2>4, DrawnStays
  <2> QED BY <2>4, <2>6, <2>7 DEF OInv
<1>4. ASSUME NEW d \in Destinations, ReceiveStep(d) \/ ProcessStep(d) \/ FaultStep(d) PROVE OInv'
  <2>1. Apart(d) /\ LogGrows /\ owed' \subseteq owed /\ commands' = commands
    BY ZenonT(30), <1>0, <1>4, WorkerEffect
  <2>2. /\ log'["delivery"] = log["delivery"]
        /\ \/ attempted' = attempted
           \/ pc[d] = "attempt" /\ attempted' = attempted \cup {record[d].delivery_id}
        /\ \A e \in Destinations : e # d => phase'[e] = phase[e]
    BY ZenonT(30), <1>0, <1>4, WorkerHistory
  <2>3. OrderInv(d)'
    <3>1. KeptInv(d)'
      BY ZenonT(30), <1>0, <1>4, <2>1, <2>2, KeptOwn DEF OrderInv
    <3>2. RunInv(d)'
      BY ZenonT(30), <1>0, <1>4, <2>1, <2>2, RunOwn
    <3>3. PhaseInv(d)' /\ FirstInv(d)'
      BY ZenonT(30), <1>0, <1>4, FirstOwn
    <3> QED BY ZenonT(30), <3>1, <3>2, <3>3 DEF OrderInv
  <2>4. ASSUME NEW e \in Destinations, e # d PROVE OrderInv(e)'
    <3>1. \A id \in 1..commands : id \in owed' => id \in owed /\ (RetryAhead(id) => RetryAhead(id)')
      BY ZenonT(30), <1>0, <1>4, <2>1, CopyStays
    <3>2. Same(e) /\ phase'[e] = phase[e] /\ attempted \subseteq attempted'
      BY ZenonT(30), <2>1, <2>2, <2>4 DEF Apart
    <3> QED BY ZenonT(30), <1>0, <2>1, <3>1, <3>2, OrderApart
  <2>5. InOrder'
    BY ZenonT(30), <1>0, <2>1, <2>2, OrderOwn
  <2>6. attempted' \subseteq 1..commands
    <3>1. pc[d] = "attempt" => record[d].delivery_id \in 1..commands
      BY <1>0 DEF IdsInv, InHand
    <3> QED BY ZenonT(30), <1>0, <2>2, <3>1 DEF DrawnInv
  <2>7. DrawnInv'
    BY <1>0, <2>1, <2>2, <2>6 DEF DrawnInv
  <2>8. RetriedInv'
    BY ZenonT(30), <1>0, <1>4, <2>2, RetriedStays
  <2> QED BY ZenonT(30), <2>3, <2>4, <2>5, <2>7, <2>8 DEF OInv
<1>5. CASE crash \/ restart
  <2>1. /\ UNCHANGED <<log, committed, attempted, owed, commands>>
        /\ pc' = [d \in Destinations |-> "recover"] /\ phase' = [d \in Destinations |-> "recover"]
    BY ZenonT(30), <1>5 DEF crash, restart, Restarted, topicVars
  <2>2. DrawnInv' /\ RetriedInv' /\ InOrder'
    BY ZenonT(30), <1>0, <2>1 DEF DrawnInv, RetriedInv, InOrder
  <2>3. ASSUME NEW e \in Destinations PROVE OrderInv(e)'
    <3>1. KeptInv(e)'
      BY ZenonT(30), <1>0, <2>1 DEF OrderInv, KeptInv, OwedAt, RetryAhead, Ahead
    <3>2. PhaseInv(e)' /\ RunInv(e)' /\ FirstInv(e)'
      BY ZenonT(30), <2>1 DEF PhaseInv, RunInv, FirstInv, InHand
    <3> QED BY ZenonT(30), <3>1, <3>2 DEF OrderInv
  <2> QED BY ZenonT(30), <2>2, <2>3 DEF OInv
<1>6. CASE UNCHANGED vars
  <2>1. DrawnInv' /\ RetriedInv' /\ InOrder'
    BY ZenonT(30), <1>0, <1>6 DEF vars, topicVars, historyVars, DrawnInv, RetriedInv, InOrder
  <2>2. ASSUME NEW e \in Destinations PROVE OrderInv(e)'
    BY ZenonT(30), <1>0, <1>6 DEF vars, topicVars, workVars, historyVars, OrderInv, KeptInv, OwedAt, RetryAhead,
                      Ahead, PhaseInv, RunInv, FirstInv, InHand
  <2> QED BY <2>1, <2>2 DEF OInv
<1> QED BY ZenonT(30), <1>2, <1>3, <1>4, <1>5, <1>6 DEF Next

-----------------------------------------------------------------------------
(* Theorems                                                                *)

\* The invariant holds of an empty broker and fresh workers.
LEMMA Initially == Init => IInv
<1> SUFFICES ASSUME Init PROVE IInv
  OBVIOUS
<1>1. TypeOK
  <2>1. log \in [Topics -> Seq(Record)] /\ \A t \in Topics : Len(log[t]) = 0
    BY DEF Init
  <2>2. committed \in [Destinations -> [Inputs -> Nat]] /\ position \in [Destinations -> [Inputs -> Nat]]
    BY ZenonT(30) DEF Init, Start
  <2>3. \A d \in Destinations, t \in Inputs :
          committed[d][t] <= Len(log[t]) /\ position[d][t] <= Len(log[t])
    BY SMTT(30), <2>1 DEF Init, Start, Inputs, Topics
  <2>4. /\ pc \in [Destinations -> Labels]
        /\ phase \in [Destinations -> {"recover", "run"}]
        /\ record \in [Destinations -> Record \cup {None}]
        /\ input \in [Destinations -> [topic : Inputs, offset : Nat]]
        /\ input_committed \in [Destinations -> BOOLEAN]
        /\ completed \in [Destinations -> SUBSET DeliveryIds]
        /\ recovered \in [Destinations -> Nat]
    BY ZenonT(30) DEF Init, Labels, NoInput, Inputs
  <2>5. /\ commands \in 0..MaxCommands /\ attempts \in [DeliveryIds -> Nat]
        /\ attempted \subseteq DeliveryIds /\ owed \subseteq DeliveryIds
        /\ replays \in 0..MaxReplays /\ faults \in 0..MaxFaults
    BY SMTT(30), DurableAssumption DEF Init
  <2> QED BY ZenonT(30), <2>1, <2>2, <2>3, <2>4, <2>5, Zenon DEF TypeOK, Labels
<1>2. IdsInv
  BY SMTT(30) DEF Init, IdsInv, InHand, Topics
<1>3. \A d \in Destinations : WorkerInv(d)
  BY ZenonT(30) DEF Init, WorkerInv, BetweenInv, HandInv, CopyInv, FinishedInv, InHand
<1>4. NoCommandLost
  BY DEF Init, NoCommandLost
<1> QED BY <1>1, <1>2, <1>3, <1>4 DEF IInv

\* Every step keeps the invariant.
LEMMA Inductive == IInv /\ [Next]_vars => IInv'
<1> SUFFICES ASSUME IInv, [Next]_vars PROVE IInv'
  OBVIOUS
<1>1. TypeOK /\ IdsInv /\ (\A d \in Destinations : WorkerInv(d)) /\ NoCommandLost
  BY DEF IInv
<1>2. \A d \in Destinations : HandInv(d)
  BY <1>1 DEF WorkerInv
<1>3. TypeOK'
  BY <1>1, <1>2, TypeStep
<1>4. IdsInv'
  BY <1>1, IdsStep
<1>5. \A d \in Destinations : WorkerInv(d)'
  BY <1>1, WorkerStep
<1>6. NoCommandLost'
  BY <1>1, LostStep
<1> QED BY ZenonT(30), <1>3, <1>4, <1>5, <1>6 DEF IInv

\* A fresh process has attempted nothing.
LEMMA AttemptsInit == Init => AInv
<1> SUFFICES ASSUME Init PROVE AInv
  OBVIOUS
<1>1. AttemptLimit \in Nat
  BY ZenonT(30), DurableAssumption DEF AttemptLimit
<1>2. SpentInv /\ AttemptsBounded
  BY SMTT(30), <1>1 DEF Init, SpentInv, AttemptsBounded, AttemptLimit
<1>3. OneDestination /\ \A d \in Destinations : CountInv(d)
  BY DEF Init, OneDestination, SeenBy, CountInv, InHand
<1> QED BY <1>2, <1>3 DEF AInv

\* The inductive invariant of the durable workers.
THEOREM Invariance == Spec => []IInv
BY Initially, Inductive, PTL DEF Spec

\* No record carries an attempt beyond the limit and no group's offset passes
\* the end of its topic, whatever crashes, fails or is replayed.  (process and
\* commit_cursor.)
THEOREM TypeCorrect == Spec => []TypeOK
<1>1. IInv => TypeOK
  BY DEF IInv
<1> QED BY <1>1, Invariance, PTL

\* Whatever crashes between a publication and a commit, a command without an
\* outcome is still ahead of its group's offset.  (process, commit_cursor and
\* the order in which they publish and commit.)
THEOREM NothingLost == Spec => []NoCommandLost
<1>1. IInv => NoCommandLost
  BY DEF IInv
<1> QED BY <1>1, Invariance, PTL

\* One process makes at most max_attempts requests for a delivery, however many
\* copies of it the topics hold and whichever of them it meets first.  (process,
\* and the completed set that recover_retries and run consult.)
THEOREM AttemptsLimited == Spec => []AttemptsBounded
<1>1. Init => AInv
  BY AttemptsInit
<1>2. IInv /\ AInv /\ [Next]_vars => AInv'
  BY AttemptsStep
<1>3. AInv => AttemptsBounded
  BY DEF AInv
<1> QED BY <1>1, <1>2, <1>3, Invariance, PTL DEF Spec

\* A destination's commands are begun in order, whatever crashes, fails or is
\* replayed: recover_retries finishes what was begun before run reads on.
THEOREM CommandsBeginInOrder == Spec => []InOrder
<1>1. Init => AInv /\ OInv
  BY AttemptsInit, OrderInit
<1>2. IInv /\ IInv' /\ AInv /\ OInv /\ [Next]_vars => AInv' /\ OInv'
  BY AttemptsStep, OrderStep
<1>3. OInv => InOrder
  BY DEF OInv
<1> QED BY <1>1, <1>2, <1>3, Invariance, PTL DEF Spec

-----------------------------------------------------------------------------
(* Volatile webhooks                                                       *)

\* The other mode of the manager, which keeps nothing: constants and state of
\* VolatileWebhook besides those of the durable workers.
CONSTANTS queue_capacity, slow_consumer_strikes, initial_backoff, max_backoff, MaxMessages

VARIABLES sent, queue, registered, strikes, worker, message, attempt, begun, manager, shutdown

Volatile == INSTANCE VolatileWebhook

Ordered(s) == \A i, j \in 1..Len(s) : i < j => s[i] < s[j]
Below(s, n) == \A i \in 1..Len(s) : s[i] <= n
Precede(s, t) == \A i \in 1..Len(s) : \A j \in 1..Len(t) : s[i] < t[j]

\* What a destination has begun and what waits in its channel are one line, in
\* the order of dispatch.
InLine(b, q, n) ==
  /\ b \in Seq(Nat) /\ q \in Seq(Nat)
  /\ Ordered(b) /\ Ordered(q)
  /\ Below(b, n) /\ Below(q, n)
  /\ Precede(b, q)

LineInv ==
  /\ sent \in Nat
  /\ queue \in [Destinations -> Seq(Nat)]
  /\ begun \in [Destinations -> Seq(Nat)]
  /\ \A d \in Destinations : InLine(begun[d], queue[d], sent)

\* The message that is dispatched is the last of the line.
LEMMA LineGrows ==
  ASSUME NEW b, NEW q, NEW n \in Nat, InLine(b, q, n)
  PROVE  InLine(b, q, n + 1) /\ InLine(b, Append(q, n + 1), n + 1)
<1> DEFINE r == Append(q, n + 1)
<1>1. b \in Seq(Nat) /\ q \in Seq(Nat)
  BY DEF InLine
<1>2. Ordered(b) /\ Ordered(q) /\ Below(b, n) /\ Below(q, n) /\ Precede(b, q)
  BY DEF InLine
<1>3. r \in Seq(Nat)
  BY <1>1
<1>4. /\ Len(q) \in Nat /\ Len(b) \in Nat /\ Len(r) = Len(q) + 1
      /\ r[Len(q) + 1] = n + 1 /\ \A i \in 1..Len(q) : r[i] = q[i]
      /\ \A i \in 1..Len(q) : q[i] \in Nat
      /\ \A i \in 1..Len(b) : b[i] \in Nat
  BY <1>1
<1> HIDE DEF r
<1>5. Below(b, n + 1) /\ Below(q, n + 1)
  BY <1>2, <1>4 DEF Below
<1>6. \A i \in 1..Len(r) : i \in 1..Len(q) \/ i = Len(q) + 1
  BY <1>4
<1>7. Below(r, n + 1)
  BY <1>4, <1>5, <1>6 DEF Below
<1>8. Ordered(r)
  BY <1>2, <1>4, <1>6 DEF Ordered, Below
<1>9. Precede(b, r)
  BY <1>2, <1>4, <1>6 DEF Precede, Below
<1>10. QED
  BY <1>1, <1>2, <1>3, <1>5, <1>7, <1>8, <1>9 DEF InLine, r

\* The worker takes the first of those that wait.
LEMMA LineAdvances ==
  ASSUME NEW b, NEW q, NEW n \in Nat, InLine(b, q, n), q # <<>>
  PROVE  InLine(Append(b, Head(q)), Tail(q), n)
<1> DEFINE c == Append(b, Head(q))
           t == Tail(q)
<1>1. b \in Seq(Nat) /\ q \in Seq(Nat)
  BY DEF InLine
<1>2. Ordered(b) /\ Ordered(q) /\ Below(b, n) /\ Below(q, n) /\ Precede(b, q)
  BY DEF InLine
<1>3. t \in Seq(Nat) /\ c \in Seq(Nat)
  BY <1>1
<1>4. /\ Len(q) \in Nat /\ 1 \in 1..Len(q) /\ Len(t) = Len(q) - 1
      /\ \A i \in 1..Len(t) : i + 1 \in 1..Len(q) /\ t[i] = q[i + 1]
      /\ \A i \in 1..Len(q) : q[i] \in Nat
  BY <1>1
<1>5. /\ Len(b) \in Nat /\ Len(c) = Len(b) + 1
      /\ c[Len(b) + 1] = q[1] /\ \A i \in 1..Len(b) : c[i] = b[i]
      /\ \A i \in 1..Len(b) : b[i] \in Nat
  BY <1>1
<1> HIDE DEF c, t
<1>6. \A i \in 1..Len(c) : i \in 1..Len(b) \/ i = Len(b) + 1
  BY <1>5
<1>7. Below(c, n)
  BY Zenon, <1>2, <1>4, <1>5, <1>6 DEF Below
<1>8. Below(t, n)
  BY Zenon, <1>2, <1>4 DEF Below
<1>9. Ordered(c)
  <2> SUFFICES ASSUME NEW i \in 1..Len(c), NEW j \in 1..Len(c), i < j PROVE c[i] < c[j]
    BY DEF Ordered
  <2>1. i \in 1..Len(b) /\ c[i] = b[i]
    BY <1>5
  <2>2. CASE j \in 1..Len(b)
    BY <1>2, <1>5, <2>1, <2>2 DEF Ordered
  <2>3. CASE j = Len(b) + 1
    BY <1>2, <1>4, <1>5, <2>1, <2>3 DEF Precede
  <2>4. QED
    BY <1>6, <2>2, <2>3
<1>10. Ordered(t)
  <2> SUFFICES ASSUME NEW i \in 1..Len(t), NEW j \in 1..Len(t), i < j PROVE t[i] < t[j]
    BY DEF Ordered
  <2>1. /\ t[i] = q[i + 1] /\ i + 1 \in 1..Len(q)
        /\ t[j] = q[j + 1] /\ j + 1 \in 1..Len(q) /\ i + 1 < j + 1
    BY <1>4
  <2>2. QED
    BY <1>2, <2>1 DEF Ordered
<1>11. Precede(c, t)
  <2> SUFFICES ASSUME NEW i \in 1..Len(c), NEW j \in 1..Len(t) PROVE c[i] < t[j]
    BY DEF Precede
  <2>1. t[j] = q[j + 1] /\ j + 1 \in 1..Len(q) /\ 1 < j + 1
    BY <1>4
  <2>2. CASE i \in 1..Len(b)
    BY <1>2, <1>5, <2>1, <2>2 DEF Precede
  <2>3. CASE i = Len(b) + 1
    BY <1>2, <1>4, <1>5, <2>1, <2>3 DEF Ordered
  <2>4. QED
    BY <1>6, <2>2, <2>3
<1>12. QED
  BY <1>3, <1>7, <1>8, <1>9, <1>10, <1>11 DEF InLine, c, t

\* Every step keeps the lines.
LEMMA LineStep == LineInv /\ [Volatile!Next]_(Volatile!vars) => LineInv'
<1> SUFFICES ASSUME LineInv, [Volatile!Next]_(Volatile!vars) PROVE LineInv'
  OBVIOUS
<1> USE DEF LineInv, Volatile!coreVars, Volatile!deliverVars
<1>1. ASSUME NEW matched \in SUBSET registered, Volatile!dispatch(matched) PROVE LineInv'
  <2>1. /\ sent' = sent + 1 /\ begun' = begun
        /\ queue' = [d \in Destinations |-> queue'[d]]
        /\ \A d \in Destinations : queue'[d] \in {queue[d], Append(queue[d], sent + 1)}
    BY <1>1 DEF Volatile!dispatch
  <2>2. ASSUME NEW d \in Destinations PROVE InLine(begun'[d], queue'[d], sent')
    BY Zenon, <2>1, LineGrows
  <2>3. QED
    BY <2>1, <2>2 DEF InLine
<1>2. ASSUME NEW d \in Destinations, Volatile!receive(d) PROVE LineInv'
  <2>1. /\ sent' = sent /\ queue[d] # <<>>
        /\ queue' = [queue EXCEPT ![d] = Tail(queue[d])]
        /\ begun' = [begun EXCEPT ![d] = Append(begun[d], Head(queue[d]))]
    BY <1>2 DEF Volatile!receive
  <2>2. ASSUME NEW e \in Destinations PROVE InLine(begun'[e], queue'[e], sent')
    BY <2>1, LineAdvances
  <2>3. /\ queue' = [e \in Destinations |-> queue'[e]]
        /\ begun' = [e \in Destinations |-> begun'[e]]
    BY Zenon, <2>1
  <2>4. QED
    BY <2>1, <2>2, <2>3 DEF InLine
<1>3. CASE UNCHANGED <<sent, queue, begun>>
  BY <1>3
<1>4. QED
  <2>1. ASSUME NEW d \in Destinations, Volatile!WorkerStep(d)
        PROVE  Volatile!receive(d) \/ UNCHANGED <<sent, queue, begun>>
    BY <2>1
      DEF Volatile!WorkerStep, Volatile!check_continue, Volatile!stops, Volatile!queue_closed,
          Volatile!attempt_ends, Volatile!attempt_retry, Volatile!sleep_ends, Volatile!Ends
  <2>2. CASE Volatile!ManagerStep \/ Volatile!shutdown_sent \/ UNCHANGED Volatile!vars
    BY <1>3, <2>2
      DEF Volatile!ManagerStep, Volatile!join_failed, Volatile!join_stopped,
          Volatile!shutdown_sent, Volatile!vars
  <2>3. QED
    BY <1>1, <1>2, <1>3, <2>1, <2>2 DEF Volatile!Next

\* For any number of destinations and messages, any capacity, strikes and
\* attempts: each destination's messages are begun in the order of dispatch and
\* once, however long the retries of one keep the others waiting.  (deliver, which
\* keeps WebhookWorker::run from its channel until the message is done.)
THEOREM MessagesBeginInOrder == Volatile!Spec => []Volatile!MessagesInOrder
<1>1. Volatile!Init => LineInv
  BY DEF Volatile!Init, LineInv, InLine, Ordered, Below, Precede
<1>2. LineInv => Volatile!MessagesInOrder
  BY DEF LineInv, InLine, Ordered, Volatile!MessagesInOrder
<1>3. QED
  BY <1>1, <1>2, LineStep, PTL DEF Volatile!Spec

=============================================================================
