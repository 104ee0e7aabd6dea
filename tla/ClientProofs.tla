---------------------------- MODULE ClientProofs ----------------------------
(***************************************************************************)
(* Proofs about the two services a client has of the router.  The first    *)
(* part is about the sessions of Sessions, for any number of sessions,     *)
(* subscription ids, messages and commands, and any capacity of a queue.   *)
(* The second is about the message contract of Publishing: what the        *)
(* publisher writes is what the decoder reads, and what an answer says of  *)
(* the record.  Neither part uses a variable of the other.                 *)
(*                                                                         *)
(* The lemmas on the steps of a session count the deliveries of a sequence *)
(* of frames, and take what they need to know of counting as a hypothesis, *)
(* DeliveriesCounted.  The third part proves it and draws the conclusions. *)
(***************************************************************************)
EXTENDS Sessions, Publishing, TLAPS

-----------------------------------------------------------------------------
(* Client sessions: the types                                              *)

DeliveryFrames == [type : {"delivery"}, message : Nat, ids : SUBSET SubscriptionIds]
AckFrames == [type : {"subscribed", "unsubscribed"}, id : SubscriptionIds]
AnswerFrames == [type : {"none", "error", "pong"} \cup Final]
Frames == DeliveryFrames \cup AckFrames \cup AnswerFrames

TypeOK ==
  /\ protocol \in [Sessions -> {"WebSocket", "Sse", "Subscribe", "Connect"}]
  /\ registered \subseteq Sessions
  /\ subscriptions \in [Sessions -> SUBSET SubscriptionIds]
  /\ queue \in [Sessions -> Seq(DeliveryFrames)]
  /\ sent \in Nat
  /\ task \in [Sessions -> {"new", "subscribing", "select", "send", "ended"}]
  /\ frame \in [Sessions -> Frames]
  /\ inbox \in [Sessions -> Seq(Commands)]
  /\ client \in [Sessions -> {"connected", "gone"}]
  /\ received \in [Sessions -> Seq(Frames)]
  /\ queued \in [Sessions -> Nat]

-----------------------------------------------------------------------------
(* Client sessions: the inductive invariant, session by session            *)

\* What the core holds of a session, by the place of its task.
Held(s) ==
  /\ s \in registered => Open(s)
  /\ s \notin registered => subscriptions[s] = {}
  /\ task[s] = "subscribing" => s \in registered /\ ~Interactive(s)
  /\ task[s] \in {"new", "subscribing"}
       => received[s] = <<>> /\ queue[s] = <<>> /\ queued[s] = 0 /\ subscriptions[s] = {}
  /\ Open(s) /\ s \notin registered => s \in evicted

Told(frames, id) == \E j \in 1..Len(frames) : frames[j] = Ack("subscribed", id)

ToldFirst(frames) ==
  \A i \in 1..Len(frames) : frames[i].type = "delivery" =>
    \A id \in frames[i].ids : \E j \in 1..(i - 1) : frames[j] = Ack("subscribed", id)

\* What an interactive client knows, and that its channel holds only what it
\* has been told of.
Knows(s) ==
  Interactive(s) =>
    /\ s \in registered => Confirmed(Written(s)) = subscriptions[s]
    /\ ToldFirst(Written(s))
    /\ task[s] # "ended"
         => \A i \in 1..Len(queue[s]) : \A id \in queue[s][i].ids : Told(Written(s), id)

\* Every delivery put into the channel is there or written, while the task runs.
Counted(s) ==
  task[s] # "ended"
    => Cardinality(Deliveries(Written(s))) + Len(queue[s]) = queued[s]

\* How a session ends.
Ends(s) ==
  /\ task[s] = "send" /\ frame[s].type = "slow_consumer"
       => s \notin registered /\ queue[s] = <<>> /\ s \in evicted
  /\ task[s] = "send" /\ frame[s].type \in Final /\ protocol[s] = "WebSocket"
       => frame[s].type \in {"transport_close", "slow_consumer"}
  /\ protocol[s] = "WebSocket" /\ task[s] = "ended" /\ received[s] # <<>>
       => \/ client[s] = "gone"
          \/ received[s][Len(received[s])].type \in {"transport_close", "slow_consumer"}
  /\ (\E i \in 1..Len(received[s]) : received[s][i].type = "slow_consumer")
       => /\ s \in evicted
          /\ task[s] = "ended"
          /\ Cardinality(Deliveries(received[s])) = queued[s]

SessionInv(s) == Held(s) /\ Knows(s) /\ Counted(s) /\ Ends(s)

IInv == TypeOK /\ \A s \in Sessions : SessionInv(s)

-----------------------------------------------------------------------------
(* Client sessions: frames                                                 *)

\* A frame is of one of the three kinds, which its type tells apart.
LEMMA FrameKinds ==
  ASSUME NEW f \in Frames
  PROVE  \/ f \in DeliveryFrames /\ f.type = "delivery" /\ f.ids \subseteq SubscriptionIds
         \/ f \in AckFrames /\ f.type \in {"subscribed", "unsubscribed"}
              /\ f.id \in SubscriptionIds /\ f = Ack(f.type, f.id)
         \/ f \in AnswerFrames /\ f.type \in {"none", "error", "pong"} \cup Final
BY DEF Frames, DeliveryFrames, AckFrames, AnswerFrames, Ack

\* Acknowledgements and answers are frames, and an acknowledgement says which.
LEMMA AnswersAreFrames ==
  /\ \A id \in SubscriptionIds, op \in {"subscribed", "unsubscribed"} :
       Ack(op, id) \in Frames /\ Ack(op, id).type = op /\ Ack(op, id).id = id
  /\ \A type \in {"none", "error", "pong"} \cup Final :
       Answer(type) \in Frames /\ Answer(type).type = type
BY DEF Frames, AckFrames, AnswerFrames, Ack, Answer

\* One frame more: what Append does to the frames before and to the last.
LEMMA AppendFrame ==
  ASSUME NEW w \in Seq(Frames), NEW f \in Frames
  PROVE  /\ Append(w, f) \in Seq(Frames)
         /\ Len(Append(w, f)) = Len(w) + 1
         /\ Len(w) \in Nat
         /\ \A i \in 1..Len(w) : Append(w, f)[i] = w[i]
         /\ Append(w, f)[Len(w) + 1] = f
OBVIOUS

\* The channel: taking its first delivery leaves the others.
LEMMA TakeDelivery ==
  ASSUME NEW q \in Seq(DeliveryFrames), q # <<>>
  PROVE  /\ Head(q) \in DeliveryFrames /\ Head(q) = q[1] /\ 1 \in 1..Len(q)
         /\ Head(q).type = "delivery"
         /\ Len(Tail(q)) = Len(q) - 1
         /\ \A i \in 1..Len(Tail(q)) : i + 1 \in 1..Len(q) /\ Tail(q)[i] = q[i + 1]
<1>1. Head(q) \in DeliveryFrames /\ Head(q) = q[1] /\ 1 \in 1..Len(q)
  OBVIOUS
<1>2. Head(q).type = "delivery"
  BY <1>1 DEF DeliveryFrames
<1>3. Len(Tail(q)) = Len(q) - 1
  OBVIOUS
<1>4. \A i \in 1..Len(Tail(q)) : i + 1 \in 1..Len(q) /\ Tail(q)[i] = q[i + 1]
  BY <1>3
<1>5. QED
  BY <1>1, <1>2, <1>3, <1>4

\* Putting a delivery into the channel leaves those before it.
LEMMA PutDelivery ==
  ASSUME NEW q \in Seq(DeliveryFrames), NEW d \in DeliveryFrames
  PROVE  /\ Append(q, d) \in Seq(DeliveryFrames)
         /\ Len(q) \in Nat /\ Len(Append(q, d)) = Len(q) + 1
         /\ \A i \in 1..Len(q) : Append(q, d)[i] = q[i]
         /\ Append(q, d)[Len(q) + 1] = d
OBVIOUS

\* What one more frame adds to the subscriptions a client believes it has: the
\* confirmation of one adds it, the end of one removes it, any other frame
\* changes nothing.
LEMMA ConfirmedAppend ==
  ASSUME NEW w \in Seq(Frames), NEW f \in Frames
  PROVE  /\ f.type \notin {"subscribed", "unsubscribed"}
              => Confirmed(Append(w, f)) = Confirmed(w)
         /\ \A id \in SubscriptionIds :
              f = Ack("subscribed", id) => Confirmed(Append(w, f)) = Confirmed(w) \cup {id}
         /\ \A id \in SubscriptionIds :
              f = Ack("unsubscribed", id) => Confirmed(Append(w, f)) = Confirmed(w) \ {id}
<1> DEFINE v == Append(w, f)
<1>1. /\ Len(v) = Len(w) + 1 /\ Len(w) \in Nat
      /\ \A i \in 1..Len(w) : v[i] = w[i]
      /\ v[Len(w) + 1] = f
  BY AppendFrame
<1> HIDE DEF v
<1>2. ASSUME NEW id \in SubscriptionIds, f # Ack("subscribed", id), f # Ack("unsubscribed", id)
      PROVE  id \in Confirmed(v) <=> id \in Confirmed(w)
  <2>1. ASSUME id \in Confirmed(v) PROVE id \in Confirmed(w)
    BY <1>1, <1>2, <2>1 DEF Confirmed
  <2>2. ASSUME id \in Confirmed(w) PROVE id \in Confirmed(v)
    <3>1. PICK i \in 1..Len(w) :
            /\ w[i] = Ack("subscribed", id)
            /\ \A j \in (i + 1)..Len(w) : w[j] # Ack("unsubscribed", id)
      BY <2>2 DEF Confirmed
    <3>2. ASSUME NEW j \in (i + 1)..Len(v) PROVE v[j] # Ack("unsubscribed", id)
      BY <1>1, <1>2, <3>1, <3>2
    <3>3. i \in 1..Len(v) /\ v[i] = Ack("subscribed", id)
      BY <1>1, <3>1
    <3>4. QED
      BY <3>2, <3>3 DEF Confirmed
  <2>3. QED
    BY <2>1, <2>2
<1>3. ASSUME NEW id \in SubscriptionIds, f = Ack("subscribed", id)
      PROVE  id \in Confirmed(v)
  <2>1. \A j \in (Len(w) + 1 + 1)..Len(v) : v[j] # Ack("unsubscribed", id)
    BY <1>1
  <2>2. Len(w) + 1 \in 1..Len(v)
    BY <1>1
  <2>3. QED
    BY <1>1, <1>3, <2>1, <2>2 DEF Confirmed
<1>4. ASSUME NEW id \in SubscriptionIds, f = Ack("unsubscribed", id)
      PROVE  id \notin Confirmed(v)
  <2>1. ASSUME NEW i \in 1..Len(v), v[i] = Ack("subscribed", id)
        PROVE  \E j \in (i + 1)..Len(v) : v[j] = Ack("unsubscribed", id)
    <3>1. i # Len(w) + 1
      BY <1>1, <1>4, <2>1 DEF Ack
    <3>2. Len(w) + 1 \in (i + 1)..Len(v)
      BY <1>1, <3>1
    <3>3. QED
      BY <1>1, <1>4, <3>2
  <2>2. QED
    BY <2>1 DEF Confirmed
<1>5. \A id, jd \in SubscriptionIds : id # jd =>
        /\ Ack("subscribed", id) # Ack("subscribed", jd)
        /\ Ack("subscribed", id) # Ack("unsubscribed", jd)
        /\ Ack("unsubscribed", id) # Ack("unsubscribed", jd)
        /\ Ack("unsubscribed", id) # Ack("subscribed", jd)
  BY DEF Ack
<1>6. Confirmed(v) \subseteq SubscriptionIds /\ Confirmed(w) \subseteq SubscriptionIds
  BY DEF Confirmed
<1>7. ASSUME f.type \notin {"subscribed", "unsubscribed"} PROVE Confirmed(v) = Confirmed(w)
  <2>1. \A id \in SubscriptionIds : f # Ack("subscribed", id) /\ f # Ack("unsubscribed", id)
    BY <1>7 DEF Ack
  <2>2. QED
    BY ZenonT(30), <1>2, <1>6, <2>1
<1>8. ASSUME NEW id \in SubscriptionIds, f = Ack("subscribed", id)
      PROVE  Confirmed(v) = Confirmed(w) \cup {id}
  BY <1>2, <1>3, <1>5, <1>6, <1>8
<1>9. ASSUME NEW id \in SubscriptionIds, f = Ack("unsubscribed", id)
      PROVE  Confirmed(v) = Confirmed(w) \ {id}
  BY <1>2, <1>4, <1>5, <1>6, <1>9
<1>10. QED
  BY <1>7, <1>8, <1>9 DEF v

\* The same for the two acknowledgements.
LEMMA ConfirmedAck ==
  ASSUME NEW w \in Seq(Frames), NEW id \in SubscriptionIds
  PROVE  /\ Confirmed(Append(w, Ack("subscribed", id))) = Confirmed(w) \cup {id}
         /\ Confirmed(Append(w, Ack("unsubscribed", id))) = Confirmed(w) \ {id}
<1>1. Ack("subscribed", id) \in Frames /\ Ack("unsubscribed", id) \in Frames
  BY AnswersAreFrames
<1>2. QED
  BY <1>1, ConfirmedAppend

\* One more frame keeps what was told, and a delivery may follow once the client
\* was told of its subscriptions.
LEMMA ToldAppend ==
  ASSUME NEW w \in Seq(Frames), NEW f \in Frames
  PROVE  /\ \A id \in SubscriptionIds : Told(w, id) => Told(Append(w, f), id)
         /\ ToldFirst(w) /\ f.type # "delivery" => ToldFirst(Append(w, f))
         /\ ToldFirst(w) /\ (\A id \in f.ids : Told(w, id)) => ToldFirst(Append(w, f))
<1> DEFINE v == Append(w, f)
<1>1. /\ Len(v) = Len(w) + 1 /\ Len(w) \in Nat
      /\ \A i \in 1..Len(w) : v[i] = w[i]
      /\ v[Len(w) + 1] = f
  BY AppendFrame
<1> HIDE DEF v
<1>2. \A id \in SubscriptionIds : Told(w, id) => Told(v, id)
  BY <1>1 DEF Told
<1>3. ASSUME ToldFirst(w), f.type = "delivery" => \A id \in f.ids : Told(w, id)
      PROVE  ToldFirst(v)
  <2> SUFFICES ASSUME NEW i \in 1..Len(v), v[i].type = "delivery", NEW id \in v[i].ids
               PROVE  \E j \in 1..(i - 1) : v[j] = Ack("subscribed", id)
    BY DEF ToldFirst
  <2>1. CASE i \in 1..Len(w)
    <3>1. PICK j \in 1..(i - 1) : w[j] = Ack("subscribed", id)
      BY <1>1, <1>3, <2>1 DEF ToldFirst
    <3>2. v[j] = w[j]
      BY <1>1, <2>1
    <3>3. QED
      BY <3>1, <3>2
  <2>2. CASE i = Len(w) + 1
    <3>1. PICK j \in 1..Len(w) : w[j] = Ack("subscribed", id)
      BY <1>1, <1>3, <2>2 DEF Told
    <3>2. v[j] = w[j] /\ j \in 1..(i - 1)
      BY <1>1, <2>2
    <3>3. QED
      BY <3>1, <3>2
  <2>3. QED
    BY <1>1, <2>1, <2>2
<1>4. QED
  BY <1>2, <1>3 DEF v

\* How the deliveries of a connection are counted: none at first, and one more
\* frame is one more delivery, or none.  The lemmas below take this as a
\* hypothesis; DeliveriesAreCounted, at the end, shows it from the library's
\* theorems on cardinality.
DeliveriesCounted ==
  /\ Cardinality({}) = 0
  /\ \A w \in Seq(Frames) : Cardinality(Deliveries(w)) \in Nat
  /\ \A w \in Seq(Frames), f \in Frames :
       /\ f.type = "delivery"
            => Cardinality(Deliveries(Append(w, f))) = Cardinality(Deliveries(w)) + 1
       /\ f.type # "delivery" => Deliveries(Append(w, f)) = Deliveries(w)

-----------------------------------------------------------------------------
(* Client sessions: steps                                                  *)

\* Nothing but an answer, or one subscription more or less, which the answer
\* names.
Explained(s, outcome) ==
  \/ /\ outcome.subscriptions = subscriptions[s]
     /\ outcome.answer \in {Answer("error"), Answer("pong")}
  \/ \E id \in SubscriptionIds :
       /\ s \in registered
       /\ outcome.subscriptions = subscriptions[s] \cup {id}
       /\ outcome.answer = Ack("subscribed", id)
  \/ \E id \in SubscriptionIds :
       /\ s \in registered
       /\ outcome.subscriptions = subscriptions[s] \ {id}
       /\ outcome.answer = Ack("unsubscribed", id)

\* What a command comes to is explained by its answer (handle_ws_command,
\* connect).
LEMMA Outcomes ==
  ASSUME TypeOK, NEW s \in Sessions, NEW command \in Commands, NEW allowed \in BOOLEAN,
         command.operation # "malformed"
  PROVE  Explained(s, Outcome(s, command, allowed))
<1>1. \/ command.operation \in {"subscribe", "unsubscribe"} /\ command.id \in SubscriptionIds
      \/ command.operation \in {"ping", "invalid"}
  BY ZenonT(30) DEF Commands
<1>2. CASE ~allowed \/ command.operation = "invalid"
  BY <1>2 DEF Outcome, Explained
<1>3. CASE allowed /\ command.operation = "ping"
  BY <1>3 DEF Outcome, Explained
<1>4. CASE allowed /\ command.operation = "subscribe"
  BY ZenonT(30), <1>1, <1>4 DEF Outcome, Explained
<1>5. CASE allowed /\ command.operation = "unsubscribe"
  BY <1>1, <1>5 DEF Outcome, Explained
<1>6. QED
  BY <1>1, <1>2, <1>3, <1>4, <1>5

\* A step of the task of session r, of its client, or the opening of it.
StepOf(r) ==
  \/ open(r)
  \/ SessionStep(r)
  \/ write(r)
  \/ \E command \in Commands : client_sends(r, command)
  \/ client_leaves(r)

\* The step that puts a frame in hand: a delivery, the end of the channel, or the
\* answer to a command.
Answers(s, f, subs) ==
  /\ task[s] = "select"
  /\ task'[s] = "send" /\ frame'[s] = f
  /\ received'[s] = received[s]
  /\ subscriptions'[s] = subs
  /\ s \in registered' <=> s \in registered
  /\ queued'[s] = queued[s]
  /\ s \in evicted' <=> s \in evicted
  /\ client'[s] = client[s]

\* The cases of Answers, by what the frame in hand is.
Answering(s) ==
  \/ /\ queue[s] # <<>>                                             \* recv
     /\ queue'[s] = Tail(queue[s])
     /\ Answers(s, Head(queue[s]), subscriptions[s])
  \/ /\ queue[s] = <<>> /\ queue'[s] = <<>> /\ s \notin registered  \* recv_closed
     /\ Answers(s, Answer(IF protocol[s] = "WebSocket" THEN "slow_consumer" ELSE "end"),
                subscriptions[s])
  \/ /\ queue'[s] = queue[s]                                        \* no change
     /\ \E type \in {"error", "pong", "status", "transport_close"} :
          /\ type = "status" => protocol[s] # "WebSocket"
          /\ Answers(s, Answer(type), subscriptions[s])
  \/ /\ queue'[s] = queue[s] /\ s \in registered                    \* subscribe
     /\ \E id \in SubscriptionIds :
          Answers(s, Ack("subscribed", id), subscriptions[s] \cup {id})
  \/ /\ queue'[s] = queue[s] /\ s \in registered                    \* unsubscribe
     /\ \E id \in SubscriptionIds :
          Answers(s, Ack("unsubscribed", id), subscriptions[s] \ {id})

\* The types are kept by every step.
LEMMA TypeStep ==
  ASSUME TypeOK, [Next]_vars
  PROVE  TypeOK'
<1> USE SessionsAssumption DEF TypeOK, coreVars, clientVars
<1>1. ASSUME NEW ids \in SUBSET SubscriptionIds \ {{}}, dispatch(ids) PROVE TypeOK'
  <2> DEFINE D(s) == Delivery(sent + 1, subscriptions[s] \cap ids)
  <2>1. \A s \in Sessions : D(s) \in DeliveryFrames
    BY DEF Delivery, DeliveryFrames
  <2>2. \A s \in Sessions : Append(queue[s], D(s)) \in Seq(DeliveryFrames)
    <3> HIDE DEF D
    <3>1. QED
      BY <2>1, PutDelivery
  <2> HIDE DEF D
  <2>3. queue' \in [Sessions -> Seq(DeliveryFrames)]
    BY ZenonT(30), <1>1, <2>2 DEF dispatch, D
  <2>4. queued' \in [Sessions -> Nat]
    BY <1>1 DEF dispatch
  <2>5. subscriptions' \in [Sessions -> SUBSET SubscriptionIds]
    BY <1>1 DEF dispatch
  <2>6. registered' \subseteq Sessions /\ sent' \in Nat
    BY <1>1 DEF dispatch
  <2>7. UNCHANGED <<task, frame, clientVars>>
    BY <1>1 DEF dispatch
  <2>8. QED
    BY ZenonT(30), <2>3, <2>4, <2>5, <2>6, <2>7
<1>2. ASSUME NEW s \in Sessions, open(s) PROVE TypeOK'
  BY ZenonT(30), <1>2 DEF open, Goes
<1>3. ASSUME NEW s \in Sessions, NEW id \in SubscriptionIds, open_stream(s, id) PROVE TypeOK'
  BY ZenonT(30), <1>3 DEF open_stream, Goes
<1>4. ASSUME NEW s \in Sessions, open_stream_fails(s) PROVE TypeOK'
  BY ZenonT(30), <1>4 DEF open_stream_fails, Goes, Unregisters
<1>5. ASSUME NEW s \in Sessions, recv(s) PROVE TypeOK'
  <2>1. Head(queue[s]) \in Frames /\ Tail(queue[s]) \in Seq(DeliveryFrames)
    BY <1>5 DEF recv, Frames
  <2>2. QED
    BY ZenonT(30), <1>5, <2>1 DEF recv, Sends, Goes
<1>6. ASSUME NEW s \in Sessions, recv_closed(s) PROVE TypeOK'
  <2>1. Answer(IF protocol[s] = "WebSocket" THEN "slow_consumer" ELSE "end") \in Frames
    BY ZenonT(30), AnswersAreFrames DEF Final
  <2>2. QED
    BY ZenonT(30), <1>6, <2>1 DEF recv_closed, Sends, Goes
<1>7. ASSUME NEW s \in Sessions, NEW allowed \in BOOLEAN,
             ws_command(s, allowed) \/ connect_command(s, allowed)
      PROVE  TypeOK'
  <2> DEFINE outcome == Outcome(s, Head(inbox[s]), allowed)
  <2>1. Head(inbox[s]) \in Commands /\ Tail(inbox[s]) \in Seq(Commands)
        /\ Head(inbox[s]).operation # "malformed"
    BY <1>7 DEF ws_command, connect_command, Takes
  <2>2. outcome.subscriptions \subseteq SubscriptionIds /\ outcome.answer \in Frames
    <3>1. Explained(s, outcome)
      BY ZenonT(30), <2>1, Outcomes
    <3> HIDE DEF outcome
    <3>2. QED
      BY <3>1, AnswersAreFrames DEF Explained
  <2>3. Answer("status") \in Frames
    BY AnswersAreFrames DEF Final
  <2> HIDE DEF outcome
  <2>4. CASE ws_command(s, allowed)
    BY ZenonT(30), <2>1, <2>2, <2>4 DEF ws_command, outcome, Takes, Sends, Goes
  <2>5. CASE connect_command(s, allowed)
    BY ZenonT(30), <2>1, <2>2, <2>3, <2>5 DEF connect_command, outcome, Takes, Sends, Goes
  <2>6. QED
    BY ZenonT(30), <1>7, <2>4, <2>5
<1>8. ASSUME NEW s \in Sessions, malformed(s) PROVE TypeOK'
  <2>1. Answer(IF protocol[s] = "WebSocket" THEN "transport_close" ELSE "status") \in Frames
    BY ZenonT(30), AnswersAreFrames DEF Final
  <2>2. Tail(inbox[s]) \in Seq(Commands)
    BY <1>8 DEF malformed
  <2>3. QED
    BY ZenonT(30), <1>8, <2>1, <2>2 DEF malformed, Sends, Goes
<1>9. ASSUME NEW s \in Sessions, write(s) PROVE TypeOK'
  <2>1. Append(received[s], frame[s]) \in Seq(Frames)
    BY AppendFrame
  <2>2. received' \in [Sessions -> Seq(Frames)]
    BY <1>9, <2>1 DEF write
  <2>3. QED
    BY ZenonT(30), <1>9, <2>2 DEF write, Goes, Unregisters
<1>10. ASSUME NEW s \in Sessions, disconnected(s) PROVE TypeOK'
  BY ZenonT(30), <1>10 DEF disconnected, Goes, Unregisters
<1>11. ASSUME NEW s \in Sessions, NEW command \in Commands, client_sends(s, command) PROVE TypeOK'
  BY <1>11 DEF client_sends
<1>12. ASSUME NEW s \in Sessions, client_leaves(s) PROVE TypeOK'
  BY ZenonT(30), <1>12 DEF client_leaves
<1>13. CASE UNCHANGED vars
  BY <1>13 DEF vars
<1>14. QED
  BY ZenonT(30), <1>1, <1>2, <1>3, <1>4, <1>5, <1>6, <1>7, <1>8, <1>9, <1>10, <1>11, <1>12, <1>13
     DEF Next, SessionStep

\* A step in which session s has no part, or only its client has one.
Same(s) ==
  /\ protocol'[s] = protocol[s]
  /\ s \in registered' <=> s \in registered
  /\ subscriptions'[s] = subscriptions[s]
  /\ queue'[s] = queue[s]
  /\ queued'[s] = queued[s]
  /\ s \in evicted' <=> s \in evicted
  /\ task'[s] = task[s]
  /\ frame'[s] = frame[s]
  /\ received'[s] = received[s]
  /\ client'[s] \in {client[s], "gone"}

\* What is known of the frames written depends on nothing but these frames.
LEMMA WrittenAs ==
  ASSUME NEW s \in Sessions, NEW w, Written(s)' = w
  PROVE  /\ Confirmed(Written(s))' = Confirmed(w)
         /\ ToldFirst(Written(s))' <=> ToldFirst(w)
         /\ \A id : Told(Written(s), id)' <=> Told(w, id)
         /\ Deliveries(Written(s))' = Deliveries(w)
         /\ Cardinality(Deliveries(Written(s)))' = Cardinality(Deliveries(w))
<1>1. Confirmed(Written(s))' = Confirmed(w)
  BY ZenonT(30) DEF Confirmed
<1>2. ToldFirst(Written(s))' <=> ToldFirst(w)
  BY SMTT(30) DEF ToldFirst
<1>3. \A id : Told(Written(s), id)' <=> Told(w, id)
  BY SMTT(30) DEF Told
<1>4. Deliveries(Written(s))' = Deliveries(w)
  BY SMTT(30) DEF Deliveries
<1>5. QED
  BY <1>1, <1>2, <1>3, <1>4

\* Such a step keeps the invariant of s.
LEMMA SameKeeps ==
  ASSUME NEW s \in Sessions, SessionInv(s), Same(s)
  PROVE  SessionInv(s)'
<1>1. Written(s)' = Written(s)
  BY DEF Same, Written
<1>2. Held(s)'
  BY ZenonT(30) DEF SessionInv, Same, Held, Open, Interactive
<1>3. Knows(s)'
  BY ZenonT(30), <1>1, WrittenAs DEF SessionInv, Same, Knows, Interactive
<1>4. Counted(s)'
  BY ZenonT(30), <1>1, WrittenAs DEF SessionInv, Same, Counted
<1>5. Ends(s)'
  BY SMTT(30) DEF SessionInv, Same, Ends, Deliveries
<1>6. QED
  BY ZenonT(30), <1>2, <1>3, <1>4, <1>5 DEF SessionInv

\* The task and the client of a session touch no other.
LEMMA OthersSame ==
  ASSUME TypeOK, NEW r \in Sessions, NEW s \in Sessions, s # r, StepOf(r)
  PROVE  Same(s)
<1> USE DEF TypeOK, Same, coreVars, clientVars, Goes
<1>1. CASE open(r)
  BY ZenonT(30), <1>1 DEF open
<1>2. ASSUME NEW id \in SubscriptionIds, open_stream(r, id) PROVE Same(s)
  BY ZenonT(30), <1>2 DEF open_stream
<1>3. CASE open_stream_fails(r)
  BY ZenonT(30), <1>3 DEF open_stream_fails, Unregisters
<1>4. CASE recv(r)
  BY <1>4 DEF recv, Sends
<1>5. CASE recv_closed(r)
  BY ZenonT(30), <1>5 DEF recv_closed, Sends
<1>6. ASSUME NEW allowed \in BOOLEAN, ws_command(r, allowed) PROVE Same(s)
  BY ZenonT(30), <1>6 DEF ws_command, Takes, Sends
<1>7. ASSUME NEW allowed \in BOOLEAN, connect_command(r, allowed) PROVE Same(s)
  BY ZenonT(30), <1>7 DEF connect_command, Takes, Sends
<1>8. CASE malformed(r)
  BY ZenonT(30), <1>8 DEF malformed, Sends
<1>9. CASE write(r)
  BY ZenonT(30), <1>9 DEF write, Unregisters
<1>10. CASE disconnected(r)
  BY <1>10 DEF disconnected, Unregisters
<1>11. ASSUME NEW command \in Commands, client_sends(r, command) PROVE Same(s)
  BY ZenonT(30), <1>11 DEF client_sends
<1>12. CASE client_leaves(r)
  BY <1>12 DEF client_leaves
<1>13. QED
  BY ZenonT(30), <1>1, <1>2, <1>3, <1>4, <1>5, <1>6, <1>7, <1>8, <1>9, <1>10, <1>11, <1>12
     DEF StepOf, SessionStep

\* A delivery in hand or in the channel, the end of the channel, and the answer
\* to a command all keep the invariant.
LEMMA AnsweringKeeps ==
  ASSUME DeliveriesCounted, TypeOK, TypeOK', NEW s \in Sessions, SessionInv(s),
         protocol' = protocol, Answering(s)
  PROVE  SessionInv(s)'
<1> DEFINE w == received[s]
           f == frame'[s]
<1>1. /\ task[s] = "select" /\ task'[s] = "send" /\ received'[s] = w
      /\ s \in registered' <=> s \in registered
      /\ queued'[s] = queued[s]
      /\ s \in evicted' <=> s \in evicted
      /\ client'[s] = client[s]
  BY DEF Answering, Answers
<1>2. Written(s) = w /\ Written(s)' = Append(w, f) /\ w \in Seq(Frames) /\ f \in Frames
  BY ZenonT(30), <1>1 DEF Written, TypeOK
<1>3. \/ /\ queue[s] # <<>> /\ queue'[s] = Tail(queue[s]) /\ f = Head(queue[s])
         /\ subscriptions'[s] = subscriptions[s]
      \/ /\ queue[s] = <<>> /\ queue'[s] = <<>> /\ s \notin registered
         /\ f = Answer(IF protocol[s] = "WebSocket" THEN "slow_consumer" ELSE "end")
         /\ subscriptions'[s] = subscriptions[s]
      \/ /\ queue'[s] = queue[s]
         /\ \E type \in {"error", "pong", "status", "transport_close"} :
              (type = "status" => protocol[s] # "WebSocket") /\ f = Answer(type)
         /\ subscriptions'[s] = subscriptions[s]
      \/ /\ queue'[s] = queue[s] /\ s \in registered
         /\ \E id \in SubscriptionIds :
              f = Ack("subscribed", id) /\ subscriptions'[s] = subscriptions[s] \cup {id}
      \/ /\ queue'[s] = queue[s] /\ s \in registered
         /\ \E id \in SubscriptionIds :
              f = Ack("unsubscribed", id) /\ subscriptions'[s] = subscriptions[s] \ {id}
  BY ZenonT(30) DEF Answering, Answers
<1> HIDE DEF w, f
<1>4. Held(s)'
  BY <1>1, <1>3 DEF SessionInv, Held, Open, Interactive
<1>5. Counted(s)'
  <2>1. Cardinality(Deliveries(w)) \in Nat /\ Len(queue[s]) \in Nat
        /\ Cardinality(Deliveries(w)) + Len(queue[s]) = queued[s]
    BY SMTT(30), <1>1, <1>2 DEF DeliveriesCounted, SessionInv, Counted, TypeOK
  <2>2. CASE f.type = "delivery"
    <3>1. queue[s] # <<>> /\ queue'[s] = Tail(queue[s])
      BY <1>3, <2>2 DEF Answer, Ack
    <3>2. Len(queue'[s]) = Len(queue[s]) - 1
      BY <3>1 DEF TypeOK
    <3>3. Cardinality(Deliveries(Append(w, f))) = Cardinality(Deliveries(w)) + 1
      BY ZenonT(30), <1>2, <2>2 DEF DeliveriesCounted
    <3>4. Cardinality(Deliveries(Append(w, f))) + Len(queue'[s]) = queued'[s]
      BY SMTT(30), <1>1, <2>1, <3>2, <3>3
    <3>5. QED
      BY ZenonT(30), <1>1, <1>2, <3>4, WrittenAs DEF Counted
  <2>3. CASE f.type # "delivery"
    <3>1. queue'[s] = queue[s]
      <4>1. queue[s] # <<>> => Head(queue[s]).type = "delivery"
        BY ZenonT(30), TakeDelivery DEF TypeOK
      <4>2. QED
        BY <1>3, <2>3, <4>1
    <3>2. Deliveries(Append(w, f)) = Deliveries(w)
      BY <1>2, <2>3 DEF DeliveriesCounted
    <3>3. Cardinality(Deliveries(Append(w, f))) + Len(queue'[s]) = queued'[s]
      BY ZenonT(30), <1>1, <2>1, <3>1, <3>2
    <3>4. QED
      BY <1>1, <1>2, <3>3, WrittenAs DEF Counted
  <2>4. QED
    BY ZenonT(30), <2>2, <2>3
<1>6. Knows(s)'
  <2> SUFFICES ASSUME Interactive(s)
               PROVE  /\ s \in registered => Confirmed(Append(w, f)) = subscriptions'[s]
                      /\ ToldFirst(Append(w, f))
                      /\ \A i \in 1..Len(queue'[s]) :
                           \A id \in queue'[s][i].ids : Told(Append(w, f), id)
    BY ZenonT(30), <1>1, <1>2, WrittenAs DEF Knows, Interactive
  <2>1. /\ s \in registered => Confirmed(w) = subscriptions[s]
        /\ ToldFirst(w)
        /\ \A i \in 1..Len(queue[s]) : \A id \in queue[s][i].ids : Told(w, id)
    BY <1>1, <1>2 DEF SessionInv, Knows
  <2>2. s \in registered => Confirmed(Append(w, f)) = subscriptions'[s]
    <3>1. CASE f.type \notin {"subscribed", "unsubscribed"}
      BY SMTT(30), <1>2, <1>3, <2>1, <3>1, ConfirmedAppend, AnswersAreFrames
    <3>2. CASE f.type \in {"subscribed", "unsubscribed"}
      <4>1. queue[s] # <<>> => Head(queue[s]).type = "delivery"
        BY ZenonT(30), TakeDelivery DEF TypeOK
      <4>2. \E id \in SubscriptionIds :
              \/ f = Ack("subscribed", id) /\ subscriptions'[s] = subscriptions[s] \cup {id}
              \/ f = Ack("unsubscribed", id) /\ subscriptions'[s] = subscriptions[s] \ {id}
        BY <1>3, <3>2, <4>1 DEF Answer
      <4>3. \A id \in SubscriptionIds :
              /\ Confirmed(Append(w, Ack("subscribed", id))) = Confirmed(w) \cup {id}
              /\ Confirmed(Append(w, Ack("unsubscribed", id))) = Confirmed(w) \ {id}
        BY ZenonT(30), <1>2, ConfirmedAck
      <4>4. QED
        BY ZenonT(30), <2>1, <4>2, <4>3
    <3>3. QED
      BY ZenonT(30), <3>1, <3>2
  <2>3. ToldFirst(Append(w, f))
    <3>1. CASE f.type # "delivery"
      BY ZenonT(30), <1>2, <2>1, <3>1, ToldAppend
    <3>2. CASE f.type = "delivery"
      <4>1. queue[s] # <<>> /\ f = Head(queue[s])
        BY <1>3, <3>2 DEF Answer, Ack
      <4>2. Head(queue[s]) = queue[s][1] /\ 1 \in 1..Len(queue[s])
        BY <4>1 DEF TypeOK
      <4>3. QED
        BY ZenonT(30), <1>2, <2>1, <4>1, <4>2, ToldAppend
    <3>3. QED
      BY ZenonT(30), <3>1, <3>2
  <2>4. ASSUME NEW i \in 1..Len(queue'[s]), NEW id \in queue'[s][i].ids
        PROVE  Told(Append(w, f), id)
    <3>1. PICK j \in 1..Len(queue[s]) : queue'[s][i] = queue[s][j]
      <4>1. CASE queue'[s] = queue[s]
        BY ZenonT(30), <4>1
      <4>2. CASE queue[s] # <<>> /\ queue'[s] = Tail(queue[s])
        BY <4>2, TakeDelivery DEF TypeOK
      <4>3. QED
        BY ZenonT(30), <1>3, <4>1, <4>2
    <3>2. queue[s][j] \in DeliveryFrames
      BY <3>1 DEF TypeOK
    <3>3. id \in SubscriptionIds /\ Told(w, id)
      BY ZenonT(30), <2>1, <2>4, <3>1, <3>2 DEF DeliveryFrames
    <3>4. QED
      BY ZenonT(30), <1>2, <3>3, ToldAppend
  <2>5. QED
    BY ZenonT(30), <2>2, <2>3, <2>4
<1>7. Ends(s)'
  <2>1. f.type = "slow_consumer" => s \notin registered /\ queue'[s] = <<>> /\ s \in evicted
    <3>1. queue[s] # <<>> => Head(queue[s]).type = "delivery"
      BY TakeDelivery DEF TypeOK
    <3>2. f.type = "slow_consumer" => s \notin registered /\ queue'[s] = <<>>
      BY <1>3, <3>1 DEF Answer, Ack
    <3>3. QED
      BY ZenonT(30), <1>1, <3>2 DEF SessionInv, Held, Open
  <2>2. f.type \in Final /\ protocol[s] = "WebSocket"
          => f.type \in {"transport_close", "slow_consumer"}
    <3>1. queue[s] # <<>> => Head(queue[s]).type = "delivery"
      BY TakeDelivery DEF TypeOK
    <3>2. QED
      BY <1>3, <3>1 DEF Answer, Ack, Final
  <2>3. ~ \E i \in 1..Len(w) : w[i].type = "slow_consumer"
    BY <1>1 DEF SessionInv, Ends, w
  <2>4. QED
    BY ZenonT(30), <1>1, <2>1, <2>2, <2>3 DEF Ends, f
<1>8. QED
  BY ZenonT(30), <1>4, <1>5, <1>6, <1>7 DEF SessionInv

\* The loop's branches are cases of Answering.
LEMMA LoopAnswers ==
  ASSUME TypeOK, NEW s \in Sessions,
         \/ recv(s) \/ recv_closed(s) \/ malformed(s)
         \/ \E allowed \in BOOLEAN : ws_command(s, allowed) \/ connect_command(s, allowed)
  PROVE  Answering(s) /\ protocol' = protocol
<1> USE DEF coreVars, clientVars
<1>1. CASE recv(s)
  BY ZenonT(30), <1>1 DEF TypeOK, recv, Sends, Goes, Answering, Answers
<1>2. CASE recv_closed(s)
  BY ZenonT(30), <1>2 DEF TypeOK, recv_closed, Sends, Goes, Answering, Answers
<1>3. CASE malformed(s)
  BY ZenonT(30), <1>3 DEF TypeOK, malformed, Sends, Goes, Answering, Answers
<1>4. ASSUME NEW allowed \in BOOLEAN, ws_command(s, allowed) \/ connect_command(s, allowed)
      PROVE  Answering(s) /\ protocol' = protocol
  <2> DEFINE outcome == Outcome(s, Head(inbox[s]), allowed)
             f == frame'[s]
  <2>1. Head(inbox[s]) \in Commands /\ Head(inbox[s]).operation # "malformed"
    BY <1>4 DEF TypeOK, ws_command, connect_command, Takes
  <2>2. Explained(s, outcome)
    BY ZenonT(30), <2>1, Outcomes
  <2> HIDE DEF outcome
  <2>3. /\ Answers(s, f, outcome.subscriptions)
        /\ queue'[s] = queue[s]
        /\ protocol' = protocol
        /\ \/ f = outcome.answer
           \/ outcome.answer.type = "error" /\ f = Answer("status") /\ protocol[s] # "WebSocket"
    <3>1. CASE ws_command(s, allowed)
      BY ZenonT(30), <3>1 DEF TypeOK, ws_command, Takes, Sends, Goes, outcome, Answers
    <3>2. CASE connect_command(s, allowed)
      BY ZenonT(30), <3>2 DEF TypeOK, connect_command, Takes, Sends, Goes, outcome, Answers
    <3>3. QED
      BY ZenonT(30), <1>4, <3>1, <3>2
  <2> HIDE DEF f
  <2>4. CASE /\ outcome.subscriptions = subscriptions[s]
             /\ outcome.answer \in {Answer("error"), Answer("pong")}
    <3>1. \E type \in {"error", "pong", "status", "transport_close"} :
            (type = "status" => protocol[s] # "WebSocket") /\ f = Answer(type)
      BY ZenonT(30), <2>3, <2>4
    <3>2. QED
      BY ZenonT(30), <2>3, <2>4, <3>1 DEF Answering
  <2>5. ASSUME NEW id \in SubscriptionIds, s \in registered,
               outcome.subscriptions = subscriptions[s] \cup {id},
               outcome.answer = Ack("subscribed", id)
        PROVE  Answering(s)
    <3>1. f = Ack("subscribed", id)
      BY <2>3, <2>5 DEF Ack
    <3>2. QED
      BY ZenonT(30), <2>3, <2>5, <3>1 DEF Answering
  <2>6. ASSUME NEW id \in SubscriptionIds, s \in registered,
               outcome.subscriptions = subscriptions[s] \ {id},
               outcome.answer = Ack("unsubscribed", id)
        PROVE  Answering(s)
    <3>1. f = Ack("unsubscribed", id)
      BY <2>3, <2>6 DEF Ack
    <3>2. QED
      BY ZenonT(30), <2>3, <2>6, <3>1 DEF Answering
  <2>7. QED
    BY ZenonT(30), <2>2, <2>3, <2>4, <2>5, <2>6 DEF Explained
<1>5. QED
  BY ZenonT(30), <1>1, <1>2, <1>3, <1>4

\* Opening a session, with the subscription of a stream or without.
LEMMA OpeningKeeps ==
  ASSUME DeliveriesCounted, TypeOK, NEW s \in Sessions, SessionInv(s),
         \/ open(s)
         \/ \E id \in SubscriptionIds : open_stream(s, id)
         \/ open_stream_fails(s)
  PROVE  SessionInv(s)'
<1> USE DEF coreVars, clientVars
<1>1. /\ task[s] \in {"new", "subscribing"}
      /\ received[s] = <<>> /\ queue[s] = <<>> /\ queued[s] = 0 /\ subscriptions[s] = {}
      /\ task[s] = "new" => s \notin registered
      /\ task[s] = "subscribing" => s \in registered /\ ~Interactive(s)
  BY DEF open, open_stream, open_stream_fails, SessionInv, Held, Open
<1>2. /\ received' = received /\ queue' = queue /\ queued' = queued /\ protocol' = protocol
      /\ evicted' = evicted /\ client' = client /\ frame' = frame
  BY ZenonT(30) DEF open, open_stream, open_stream_fails, Unregisters
<1>3. \/ /\ task'[s] = "ended" /\ s \notin registered' /\ subscriptions'[s] = {}
      \/ /\ task'[s] = "select" /\ s \in registered' /\ (Interactive(s) => subscriptions'[s] = {})
      \/ /\ task'[s] = "subscribing" /\ s \in registered'
         /\ subscriptions'[s] = {} /\ ~Interactive(s)
  <2>1. CASE open(s)
    BY ZenonT(30), <1>1, <2>1 DEF TypeOK, open, Goes
  <2>2. ASSUME NEW id \in SubscriptionIds, open_stream(s, id)
        PROVE  task'[s] = "select" /\ s \in registered' /\ ~Interactive(s)
    BY ZenonT(30), <1>1, <2>2 DEF TypeOK, open_stream, Goes
  <2>3. CASE open_stream_fails(s)
    BY ZenonT(30), <2>3 DEF TypeOK, open_stream_fails, Unregisters, Goes
  <2>4. QED
    BY ZenonT(30), <2>1, <2>2, <2>3
<1>4. Written(s)' = <<>>
  BY ZenonT(30), <1>1, <1>2, <1>3 DEF Written
<1>5. /\ Confirmed(<<>>) = {} /\ ToldFirst(<<>>)
      /\ Deliveries(<<>>) = {} /\ Cardinality(Deliveries(<<>>)) = 0
  <2>1. Len(<<>>) = 0
    OBVIOUS
  <2>2. Confirmed(<<>>) = {} /\ ToldFirst(<<>>) /\ Deliveries(<<>>) = {}
    BY SMTT(30), <2>1 DEF Confirmed, ToldFirst, Deliveries
  <2>3. QED
    BY ZenonT(30), <2>2 DEF DeliveriesCounted
<1>6. Held(s)'
  BY ZenonT(30), <1>1, <1>2, <1>3 DEF Held, Open, Interactive
<1>7. Knows(s)'
  <2>1. \A i \in 1..Len(queue'[s]) : FALSE
    BY <1>1, <1>2
  <2>2. Confirmed(Written(s))' = {} /\ ToldFirst(Written(s))'
    BY ZenonT(30), <1>4, <1>5, WrittenAs
  <2>3. QED
    BY ZenonT(30), <1>2, <1>3, <2>1, <2>2 DEF Knows, Interactive
<1>8. Counted(s)'
  <2>1. Len(queue'[s]) = 0 /\ queued'[s] = 0
    BY <1>1, <1>2
  <2>2. Cardinality(Deliveries(Written(s)))' = 0
    BY ZenonT(30), <1>4, <1>5, WrittenAs
  <2>3. QED
    BY SMTT(30), <2>1, <2>2 DEF Counted
<1>9. Ends(s)'
  <2>1. received'[s] = <<>> /\ task'[s] # "send" /\ ~ \E i \in 1..Len(received'[s]) : TRUE
    BY <1>1, <1>2, <1>3
  <2>2. QED
    BY ZenonT(30), <2>1 DEF Ends
<1>10. QED
  BY ZenonT(30), <1>6, <1>7, <1>8, <1>9 DEF SessionInv

\* The transport takes the frame in hand.
LEMMA WriteKeeps ==
  ASSUME DeliveriesCounted, TypeOK, NEW s \in Sessions, SessionInv(s), write(s)
  PROVE  SessionInv(s)'
<1> USE DEF coreVars
<1> DEFINE w == Append(received[s], frame[s])
<1>1. /\ task[s] = "send" /\ received'[s] = w /\ protocol' = protocol
      /\ queue' = queue /\ queued' = queued /\ evicted' = evicted /\ client' = client
      /\ frame' = frame
  BY DEF write, Unregisters, TypeOK
<1>2. \/ /\ frame[s].type \in Final /\ task'[s] = "ended"
         /\ s \notin registered' /\ subscriptions'[s] = {}
      \/ /\ frame[s].type \notin Final /\ task'[s] = "select"
         /\ registered' = registered /\ subscriptions' = subscriptions
  BY ZenonT(30) DEF write, Unregisters, Goes, TypeOK
<1>3. Written(s) = w /\ Written(s)' = w
  BY <1>1, <1>2 DEF Written
<1>4. received[s] \in Seq(Frames) /\ frame[s] \in Frames
  BY ZenonT(30) DEF TypeOK
<1> HIDE DEF w
<1>same. /\ Confirmed(Written(s))' = Confirmed(w)
         /\ ToldFirst(Written(s))' <=> ToldFirst(w)
         /\ \A id : Told(Written(s), id)' <=> Told(w, id)
         /\ Cardinality(Deliveries(Written(s)))' = Cardinality(Deliveries(w))
  BY <1>3, WrittenAs
<1>5. Held(s)'
  BY ZenonT(30), <1>1, <1>2 DEF SessionInv, Held, Open, Interactive
<1>6. Knows(s)'
  BY ZenonT(30), <1>1, <1>2, <1>3, <1>same DEF SessionInv, Knows, Interactive
<1>7. Counted(s)'
  BY ZenonT(30), <1>1, <1>2, <1>3, <1>same DEF SessionInv, Counted
<1>8. Ends(s)'
  <2>1. /\ Len(w) = Len(received[s]) + 1 /\ Len(received[s]) \in Nat
        /\ \A i \in 1..Len(received[s]) : w[i] = received[s][i]
        /\ w[Len(received[s]) + 1] = frame[s]
    BY <1>4, AppendFrame DEF w
  <2>2. \A i \in 1..Len(received[s]) : received[s][i].type # "slow_consumer"
    BY ZenonT(30), <1>1 DEF SessionInv, Ends
  <2>3. ASSUME NEW i \in 1..Len(w), w[i].type = "slow_consumer"
        PROVE  s \in evicted /\ task'[s] = "ended" /\ Cardinality(Deliveries(w)) = queued[s]
    <3>1. frame[s].type = "slow_consumer"
      BY SMTT(30), <2>1, <2>2, <2>3
    <3>2. task'[s] = "ended" /\ s \in evicted /\ queue[s] = <<>>
      BY ZenonT(30), <1>1, <1>2, <3>1 DEF SessionInv, Ends, Final
    <3>3. Cardinality(Deliveries(w)) \in Nat
      BY ZenonT(30), <1>4, AppendFrame DEF w, DeliveriesCounted
    <3>4. Cardinality(Deliveries(w)) + Len(queue[s]) = queued[s]
      BY ZenonT(30), <1>1, <1>3 DEF SessionInv, Counted
    <3>5. QED
      BY <3>2, <3>3, <3>4
  <2>4. protocol[s] = "WebSocket" /\ task'[s] = "ended"
          => w[Len(w)].type \in {"transport_close", "slow_consumer"}
    BY <1>1, <1>2, <2>1 DEF SessionInv, Ends
  <2>5. task'[s] # "send"
    BY <1>2
  <2>6. QED
    BY ZenonT(30), <1>1, <2>3, <2>4, <2>5 DEF Ends, Deliveries
<1>9. QED
  BY ZenonT(30), <1>5, <1>6, <1>7, <1>8 DEF SessionInv

\* The client is gone, and the guard of the session unregisters it.
LEMMA DisconnectedKeeps ==
  ASSUME TypeOK, NEW s \in Sessions, SessionInv(s), disconnected(s)
  PROVE  SessionInv(s)'
<1> USE DEF clientVars
<1>1. /\ Open(s) /\ client[s] = "gone" /\ client' = client /\ received' = received
      /\ task'[s] = "ended" /\ s \notin registered' /\ subscriptions'[s] = {}
      /\ protocol' = protocol
  BY ZenonT(30) DEF disconnected, Goes, Unregisters, TypeOK, Open
<1>2. Held(s)' /\ Counted(s)'
  BY ZenonT(30), <1>1 DEF Held, Open, Counted
<1>3. Knows(s)'
  <2>1. Written(s)' = received[s]
    BY <1>1 DEF Written
  <2>2. Interactive(s) => ToldFirst(received[s])
    <3>1. CASE task[s] # "send"
      BY ZenonT(30), <3>1 DEF SessionInv, Knows, Written
    <3>2. CASE task[s] = "send"
      <4> DEFINE w == Append(received[s], frame[s])
      <4>1. /\ Len(w) = Len(received[s]) + 1 /\ Len(received[s]) \in Nat
            /\ \A i \in 1..Len(received[s]) : w[i] = received[s][i]
        BY AppendFrame DEF TypeOK
      <4>2. Interactive(s) => ToldFirst(w)
        BY ZenonT(30), <3>2 DEF SessionInv, Knows, Written
      <4> HIDE DEF w
      <4>3. QED
        BY SMTT(30), <4>1, <4>2 DEF ToldFirst
    <3>3. QED
      BY ZenonT(30), <3>1, <3>2
  <2>3. QED
    BY ZenonT(30), <1>1, <2>1, <2>2, WrittenAs DEF Knows, Interactive
<1>4. Ends(s)'
  BY ZenonT(30), <1>1 DEF SessionInv, Ends, Open
<1>5. QED
  BY ZenonT(30), <1>2, <1>3, <1>4 DEF SessionInv

\* A message: the session gets it, is struck out, or is left as it is.
LEMMA DispatchKeeps ==
  ASSUME DeliveriesCounted, TypeOK, NEW s \in Sessions, SessionInv(s),
         NEW ids \in SUBSET SubscriptionIds \ {{}}, dispatch(ids)
  PROVE  SessionInv(s)'
<1> USE DEF clientVars
<1> DEFINE d == Delivery(sent + 1, subscriptions[s] \cap ids)
<1>1. /\ protocol' = protocol /\ task' = task /\ frame' = frame /\ received' = received
      /\ client' = client
  BY ZenonT(30) DEF dispatch
<1>2. \/ Same(s)
      \/ /\ s \in registered /\ s \in registered' /\ subscriptions[s] # {}
         /\ subscriptions'[s] = subscriptions[s]
         /\ queue'[s] = Append(queue[s], d) /\ queued'[s] = queued[s] + 1
         /\ s \in evicted' <=> s \in evicted
      \/ /\ s \in registered /\ s \notin registered' /\ subscriptions[s] # {}
         /\ subscriptions'[s] = {} /\ s \in evicted'
         /\ queue'[s] = queue[s] /\ queued'[s] = queued[s]
  <2> DEFINE matched == {r \in registered : subscriptions[r] \cap ids # {}}
             full == {r \in matched : Len(queue[r]) >= queue_capacity}
             struck == [r \in Sessions |-> IF r \in full THEN strikes[r] + 1
                                           ELSE IF r \in matched THEN 0 ELSE strikes[r]]
             out == {r \in full : struck[r] >= slow_consumer_strikes}
  <2>1. /\ queue'[s] = IF s \in matched \ full THEN Append(queue[s], d) ELSE queue[s]
        /\ queued'[s] = IF s \in matched \ full THEN queued[s] + 1 ELSE queued[s]
        /\ registered' = registered \ out
        /\ subscriptions'[s] = IF s \in out THEN {} ELSE subscriptions[s]
        /\ evicted' = evicted \cup out
    BY ZenonT(30) DEF dispatch
  <2>2. out \subseteq full /\ full \subseteq matched
        /\ (s \in matched => s \in registered /\ subscriptions[s] # {})
    OBVIOUS
  <2> HIDE DEF matched, full, struck, out, d
  <2>3. CASE s \in out
    BY ZenonT(30), <2>1, <2>2, <2>3
  <2>4. CASE s \notin out /\ s \in matched \ full
    BY ZenonT(30), <2>1, <2>2, <2>4
  <2>5. CASE s \notin out /\ s \notin matched \ full
    BY ZenonT(30), <1>1, <2>1, <2>5 DEF Same
  <2>6. QED
    BY ZenonT(30), <2>3, <2>4, <2>5
<1>3. CASE Same(s)
  BY ZenonT(30), <1>3, SameKeeps
<1>4. Written(s)' = Written(s)
  BY ZenonT(30), <1>1 DEF Written
<1>same. /\ Confirmed(Written(s))' = Confirmed(Written(s))
         /\ ToldFirst(Written(s))' <=> ToldFirst(Written(s))
         /\ \A id : Told(Written(s), id)' <=> Told(Written(s), id)
         /\ Cardinality(Deliveries(Written(s)))' = Cardinality(Deliveries(Written(s)))
  BY ZenonT(30), <1>4, WrittenAs
<1>5. d \in DeliveryFrames /\ d.ids \subseteq subscriptions[s] /\ queue[s] \in Seq(DeliveryFrames)
  <2>1. sent + 1 \in Nat /\ subscriptions[s] \subseteq SubscriptionIds
        /\ queue[s] \in Seq(DeliveryFrames)
    BY DEF TypeOK
  <2>2. d \in DeliveryFrames /\ d.ids = subscriptions[s] \cap ids
    BY <2>1 DEF Delivery, DeliveryFrames
  <2> HIDE DEF d
  <2>3. QED
    BY ZenonT(30), <2>1, <2>2
<1> HIDE DEF d
<1>6. CASE /\ s \in registered /\ s \in registered' /\ subscriptions[s] # {}
           /\ subscriptions'[s] = subscriptions[s]
           /\ queue'[s] = Append(queue[s], d) /\ queued'[s] = queued[s] + 1
           /\ s \in evicted' <=> s \in evicted
  <2>1. task[s] \in {"select", "send"}
    BY ZenonT(30), <1>6 DEF SessionInv, Held, Open
  <2>2. Held(s)'
    BY ZenonT(30), <1>1, <1>6, <2>1 DEF SessionInv, Held, Open, Interactive
  <2>3. /\ Len(queue[s]) \in Nat /\ Len(queue'[s]) = Len(queue[s]) + 1
        /\ \A i \in 1..Len(queue[s]) : queue'[s][i] = queue[s][i]
        /\ queue'[s][Len(queue[s]) + 1] = d
    BY <1>5, <1>6, PutDelivery
  <2>4. Counted(s)'
    <3>1. Cardinality(Deliveries(Written(s))) \in Nat
      <4>1. Written(s) \in Seq(Frames) /\ frame[s] \in Frames
        BY AppendFrame DEF Written, TypeOK
      <4>2. QED
        BY ZenonT(30), <4>1 DEF DeliveriesCounted
    <3>2. Cardinality(Deliveries(Written(s))) + Len(queue[s]) = queued[s]
      BY ZenonT(30), <2>1 DEF SessionInv, Counted
    <3>3. Cardinality(Deliveries(Written(s))) + Len(queue'[s]) = queued'[s]
      BY <1>6, <2>3, <3>1, <3>2
    <3>4. QED
      BY ZenonT(30), <1>same, <3>3 DEF Counted
  <2>5. Knows(s)'
    <3> SUFFICES ASSUME Interactive(s)
                 PROVE  /\ Confirmed(Written(s)) = subscriptions'[s]
                        /\ ToldFirst(Written(s))
                        /\ \A i \in 1..Len(queue'[s]) :
                             \A id \in queue'[s][i].ids : Told(Written(s), id)
      BY ZenonT(30), <1>1, <1>same DEF Knows, Interactive
    <3>1. /\ Confirmed(Written(s)) = subscriptions[s]
          /\ ToldFirst(Written(s))
          /\ \A i \in 1..Len(queue[s]) : \A id \in queue[s][i].ids : Told(Written(s), id)
      BY ZenonT(30), <1>6, <2>1 DEF SessionInv, Knows
    <3>2. \A id \in d.ids : Told(Written(s), id)
      BY ZenonT(30), <1>5, <3>1 DEF Confirmed, Told
    <3>3. \A i \in 1..Len(queue'[s]) : i \in 1..Len(queue[s]) \/ i = Len(queue[s]) + 1
      BY <2>3
    <3>4. QED
      BY ZenonT(30), <1>6, <2>3, <3>1, <3>2, <3>3
  <2>6. Ends(s)'
    <3>1. /\ task[s] = "send" => frame[s].type # "slow_consumer"
          /\ \A i \in 1..Len(received[s]) : received[s][i].type # "slow_consumer"
      BY ZenonT(30), <1>6, <2>1 DEF SessionInv, Ends
    <3>2. QED
      BY ZenonT(30), <1>1, <2>1, <3>1 DEF SessionInv, Ends
  <2>7. QED
    BY ZenonT(30), <2>2, <2>4, <2>5, <2>6 DEF SessionInv
<1>7. CASE /\ s \in registered /\ s \notin registered' /\ subscriptions[s] # {}
           /\ subscriptions'[s] = {} /\ s \in evicted'
           /\ queue'[s] = queue[s] /\ queued'[s] = queued[s]
  <2>1. task[s] \in {"select", "send"}
    BY ZenonT(30), <1>7 DEF SessionInv, Held, Open
  <2>2. Held(s)'
    BY ZenonT(30), <1>1, <1>7, <2>1 DEF Held, Open
  <2>3. Counted(s)'
    BY ZenonT(30), <1>1, <1>same, <1>7 DEF SessionInv, Counted
  <2>4. Knows(s)'
    BY ZenonT(30), <1>1, <1>same, <1>7 DEF SessionInv, Knows, Interactive
  <2>5. Ends(s)'
    <3>1. /\ task[s] = "send" => frame[s].type # "slow_consumer"
          /\ \A i \in 1..Len(received[s]) : received[s][i].type # "slow_consumer"
      BY ZenonT(30), <1>7, <2>1 DEF SessionInv, Ends
    <3>2. QED
      BY <1>1, <2>1, <3>1 DEF SessionInv, Ends
  <2>6. QED
    BY <2>2, <2>3, <2>4, <2>5 DEF SessionInv
<1>8. QED
  BY ZenonT(30), <1>2, <1>3, <1>6, <1>7

\* With no session opened, no client holds, knows or misses anything.
LEMMA InitInv == DeliveriesCounted /\ Init => IInv
<1> SUFFICES ASSUME DeliveriesCounted, Init PROVE IInv
  OBVIOUS
<1> USE SessionsAssumption DEF Init
<1>1. TypeOK
  BY AnswersAreFrames DEF TypeOK
<1>2. ASSUME NEW s \in Sessions PROVE SessionInv(s)
  <2>1. /\ received[s] = <<>> /\ queue[s] = <<>> /\ queued[s] = 0 /\ subscriptions[s] = {}
        /\ task[s] = "new" /\ s \notin registered /\ Written(s) = <<>>
        /\ Len(<<>>) = 0
    BY ZenonT(30) DEF Written
  <2>2. ToldFirst(<<>>) /\ Deliveries(<<>>) = {} /\ Cardinality({}) = 0
    BY <2>1 DEF DeliveriesCounted, ToldFirst, Deliveries
  <2>3. Held(s)
    BY ZenonT(30), <2>1 DEF Held, Open
  <2>4. Knows(s)
    BY <2>1, <2>2 DEF Knows
  <2>5. Counted(s)
    <3>1. Cardinality(Deliveries(Written(s))) = 0 /\ Len(queue[s]) = 0
      BY ZenonT(30), <2>1, <2>2
    <3>2. QED
      BY <2>1, <3>1 DEF Counted
  <2>6. Ends(s)
    BY <2>1 DEF Ends
  <2>7. QED
    BY <2>3, <2>4, <2>5, <2>6 DEF SessionInv
<1>3. QED
  BY <1>1, <1>2 DEF IInv

\* Every step of a session, of its client or of the router keeps the invariant.
LEMMA StepInv == DeliveriesCounted /\ IInv /\ [Next]_vars => IInv'
<1> SUFFICES ASSUME DeliveriesCounted, IInv, [Next]_vars PROVE IInv'
  OBVIOUS
<1>1. TypeOK /\ TypeOK'
  BY ZenonT(30), TypeStep DEF IInv
<1>2. ASSUME NEW s \in Sessions PROVE SessionInv(s)'
  <2>1. SessionInv(s)
    BY DEF IInv
  <2>2. CASE UNCHANGED vars
    <3>1. Same(s)
      BY ZenonT(30), <2>2 DEF vars, coreVars, clientVars, Same
    <3>2. QED
      BY ZenonT(30), <2>1, <3>1, SameKeeps
  <2>3. ASSUME NEW ids \in SUBSET SubscriptionIds \ {{}}, dispatch(ids) PROVE SessionInv(s)'
    BY ZenonT(30), <1>1, <2>1, <2>3, DispatchKeeps
  <2>4. ASSUME NEW r \in Sessions, StepOf(r), r # s PROVE SessionInv(s)'
    BY ZenonT(30), <1>1, <2>1, <2>4, OthersSame, SameKeeps
  <2>5. CASE open(s) \/ (\E id \in SubscriptionIds : open_stream(s, id)) \/ open_stream_fails(s)
    BY ZenonT(30), <1>1, <2>1, <2>5, OpeningKeeps
  <2>6. CASE \/ recv(s) \/ recv_closed(s) \/ malformed(s)
             \/ \E allowed \in BOOLEAN : ws_command(s, allowed) \/ connect_command(s, allowed)
    BY ZenonT(30), <1>1, <2>1, <2>6, LoopAnswers, AnsweringKeeps
  <2>7. CASE write(s)
    BY ZenonT(30), <1>1, <2>1, <2>7, WriteKeeps
  <2>8. CASE disconnected(s)
    BY ZenonT(30), <1>1, <2>1, <2>8, DisconnectedKeeps
  <2>9. CASE client_leaves(s) \/ \E command \in Commands : client_sends(s, command)
    <3>1. Same(s)
      BY ZenonT(30), <1>1, <2>9 DEF client_leaves, client_sends, coreVars, Same, TypeOK
    <3>2. QED
      BY <2>1, <3>1, SameKeeps
  <2>10. ASSUME StepOf(s) PROVE SessionInv(s)'
    BY ZenonT(30), <2>5, <2>6, <2>7, <2>8, <2>9, <2>10 DEF StepOf, SessionStep
  <2>11. \/ \E ids \in SUBSET SubscriptionIds \ {{}} : dispatch(ids)
         \/ \E r \in Sessions : StepOf(r)
         \/ UNCHANGED vars
    BY ZenonT(30) DEF Next, StepOf
  <2>12. QED
    BY ZenonT(30), <2>2, <2>3, <2>4, <2>10, <2>11
<1>3. QED
  BY ZenonT(30), <1>1, <1>2 DEF IInv

-----------------------------------------------------------------------------
(* The message contract: the inductive invariant                           *)

\* What the consumer makes of the records there can be.
Results == {decode_message(rec, offset) : rec \in Records, offset \in Nat}

\* A call that has come in.
IsCall(k) ==
  k = [status |-> k.status, request |-> k.request, command |-> k.command, offset |-> k.offset]

\* The calls without a record, those whose record may come, and those whose
\* record may be in the topic.
Rejected == {"unauthorized", "forbidden", "rate_limited", "bad_request", "publisher_unavailable"}

Pending == {"sending", "timeout", "backend", "gone"}

Types ==
  /\ publisher \in BOOLEAN
  /\ DOMAIN calls = Calls /\ calls = [c \in Calls |-> calls[c]]
  /\ network \subseteq Calls
  /\ topic \in Seq(Records)
  /\ routed \in Seq(Results)

\* A command is kept exactly for the calls that passed every check.
CallsAnswered ==
  \A c \in Calls : calls[c] # NoCall =>
    /\ IsCall(calls[c]) /\ calls[c].request \in Requests
    /\ IF calls[c].command = NoCommand
         THEN /\ calls[c].status \in Rejected
              /\ calls[c].status # "rate_limited" => ~Passes(c, calls[c].request)
         ELSE /\ calls[c].status \in Pending \cup {"ok", "queue_full"}
              /\ calls[c].command = Command(c, calls[c].request)
              /\ Passes(c, calls[c].request)

\* A record is in the network or in the topic once, and its call allows it.
OnItsWay ==
  \A c \in network : Sent(c) /\ calls[c].status \in Pending /\ ~Appended(c)

Logged ==
  /\ \A i \in 1..Len(topic) :
       LET c == topic[i].by
       IN  c # 0 =>
             /\ c \in Calls /\ Sent(c)
             /\ calls[c].status \in Pending \cup {"ok"}
             /\ topic[i] = Record(c, calls[c].command)
  /\ \A i, j \in 1..Len(topic) : topic[i].by = topic[j].by /\ topic[i].by # 0 => i = j
  /\ \A c \in Calls : calls[c].status = "ok" =>
       calls[c].offset \in 1..Len(topic) /\ topic[calls[c].offset].by = c

\* The consumer has decoded the records in their order.
Consumed ==
  /\ Len(routed) <= Len(topic)
  /\ \A i \in 1..Len(routed) : routed[i] = decode_message(topic[i], i)

ContractInv == Types /\ CallsAnswered /\ OnItsWay /\ Logged /\ Consumed

-----------------------------------------------------------------------------
(* The message contract: headers                                           *)

\* name is listed in h once with the value v, or not at all when v is None.
Has(h, name, v) ==
  IF v = None
    THEN \A i \in 1..Len(h) : h[i].key # name
    ELSE \E k \in 1..Len(h) :
           h[k].key = name /\ h[k].value = v /\ \A i \in 1..Len(h) : h[i].key = name => i = k

\* The headers m may be given.
HeadersOf(m) ==
  [key : Names,
   value : {m.message_id, m.tenant_id, m.content_type} \cup {m.fields[f] : f \in Fields}]

\* h lists what is required of m, and of its fields those in written.
Lists(h, m, written) ==
  /\ h \in Seq(HeadersOf(m))
  /\ Has(h, "x-message-id", m.message_id)
  /\ Has(h, "x-tenant-id", m.tenant_id)
  /\ Has(h, "x-content-type", m.content_type)
  /\ \A name \in TraceNames : Has(h, name, None)
  /\ \A f \in Fields : Has(h, HeaderName[f], IF f \in written THEN m.fields[f] ELSE None)

\* insert_optional adds the header it is given, if there is a value, and leaves
\* the others as they are.
LEMMA InsertOne ==
  ASSUME NEW S, NEW h \in Seq(S), NEW key, NEW v, [key |-> key, value |-> v] \in S,
         Has(h, key, None)
  PROVE  LET g == insert_optional(h, key, v)
         IN  /\ g \in Seq(S)
             /\ Has(g, key, v)
             /\ \A name, w : name # key /\ Has(h, name, w) => Has(g, name, w)
<1> DEFINE g == insert_optional(h, key, v)
<1>1. CASE v = None
  BY ZenonT(30), <1>1 DEF insert_optional
<1>2. CASE v # None
  <2>1. /\ g = Append(h, [key |-> key, value |-> v])
        /\ g \in Seq(S) /\ Len(h) \in Nat /\ Len(g) = Len(h) + 1
        /\ g[Len(h) + 1] = [key |-> key, value |-> v]
        /\ \A i \in 1..Len(h) : g[i] = h[i]
    BY <1>2 DEF insert_optional
  <2> HIDE DEF g
  <2>2. Has(g, key, v)
    BY <1>2, <2>1 DEF Has
  <2>3. ASSUME NEW name, NEW w, name # key, Has(h, name, w) PROVE Has(g, name, w)
    BY <2>1, <2>3 DEF Has
  <2>4. QED
    BY ZenonT(30), <2>1, <2>2, <2>3 DEF g
<1>3. QED
  BY <1>1, <1>2

\* The names of the headers of the six fields differ from each other and from
\* the other five.
LEMMA NamesDiffer ==
  /\ \A f \in Fields : HeaderName[f] \in Names
  /\ \A f, e \in Fields : HeaderName[f] = HeaderName[e] => f = e
  /\ \A f \in Fields :
       HeaderName[f] \notin {"x-message-id", "x-tenant-id", "x-content-type"} \cup TraceNames
BY DEF Fields, HeaderName, Names, TraceNames

\* One of the six insert_optional calls of publish.
LEMMA InsertField ==
  ASSUME NEW h, NEW m, NEW written \in SUBSET Fields, NEW f \in Fields \ written,
         Lists(h, m, written)
  PROVE  Lists(insert_optional(h, HeaderName[f], m.fields[f]), m, written \cup {f})
<1> DEFINE key == HeaderName[f]
           g == insert_optional(h, key, m.fields[f])
<1>1. /\ h \in Seq(HeadersOf(m)) /\ Has(h, key, None)
      /\ [key |-> key, value |-> m.fields[f]] \in HeadersOf(m)
  BY ZenonT(30), NamesDiffer DEF Lists, HeadersOf
<1>2. /\ g \in Seq(HeadersOf(m)) /\ Has(g, key, m.fields[f])
      /\ \A name, w : name # key /\ Has(h, name, w) => Has(g, name, w)
  BY ZenonT(30), <1>1, InsertOne
<1> HIDE DEF g
<1>3. ASSUME NEW e \in Fields
      PROVE  Has(g, HeaderName[e], IF e \in written \cup {f} THEN m.fields[e] ELSE None)
  <2>1. CASE e = f
    BY ZenonT(30), <1>2, <2>1
  <2>2. CASE e # f
    BY ZenonT(30), <1>2, <2>2, NamesDiffer DEF Lists
  <2>3. QED
    BY ZenonT(30), <2>1, <2>2
<1>4. /\ Has(g, "x-message-id", m.message_id) /\ Has(g, "x-tenant-id", m.tenant_id)
      /\ Has(g, "x-content-type", m.content_type)
      /\ \A name \in TraceNames : Has(g, name, None)
  BY ZenonT(30), <1>2, NamesDiffer DEF Lists
<1>5. QED
  BY ZenonT(30), <1>2, <1>3, <1>4 DEF Lists, g

\* What publish requires of a command before it builds the headers.
HasRequired(m) == m.message_id # None /\ m.tenant_id # None /\ m.content_type # None

\* publish writes each header of the command once, and no other.
LEMMA HeadersListed ==
  ASSUME NEW m, HasRequired(m)
  PROVE  Lists(Headers(m), m, Fields)
<1> DEFINE required == <<[key |-> "x-message-id", value |-> m.message_id],
                         [key |-> "x-tenant-id", value |-> m.tenant_id],
                         [key |-> "x-content-type", value |-> m.content_type]>>
           h1 == insert_optional(required, HeaderName["kind"], m.fields["kind"])
           h2 == insert_optional(h1, HeaderName["message_type"], m.fields["message_type"])
           h3 == insert_optional(h2, HeaderName["channel"], m.fields["channel"])
           h4 == insert_optional(h3, HeaderName["actor_id"], m.fields["actor_id"])
           h5 == insert_optional(h4, HeaderName["recipient_type"], m.fields["recipient_type"])
           h6 == insert_optional(h5, HeaderName["recipient_identity"], m.fields["recipient_identity"])
<1>1. Lists(required, m, {})
  <2>1. required \in Seq(HeadersOf(m))
    BY DEF HeadersOf, Names
  <2>2. /\ Len(required) = 3 /\ required[1] = [key |-> "x-message-id", value |-> m.message_id]
        /\ required[2] = [key |-> "x-tenant-id", value |-> m.tenant_id]
        /\ required[3] = [key |-> "x-content-type", value |-> m.content_type]
    OBVIOUS
  <2> HIDE DEF required
  <2>3. /\ Has(required, "x-message-id", m.message_id) /\ Has(required, "x-tenant-id", m.tenant_id)
        /\ Has(required, "x-content-type", m.content_type)
    BY <2>2 DEF Has, HasRequired
  <2>4. ASSUME NEW name, name \notin {"x-message-id", "x-tenant-id", "x-content-type"}
        PROVE  Has(required, name, None)
    BY <2>2, <2>4 DEF Has
  <2>5. QED
    BY <2>1, <2>3, <2>4, NamesDiffer DEF Lists, TraceNames
<1>2. Headers(m) = h6
  BY ZenonT(30) DEF Headers
<1> HIDE DEF required
<1>3. Lists(h1, m, {"kind"})
  BY <1>1, InsertField DEF Fields
<1> HIDE DEF h1
<1>4. Lists(h2, m, {"kind", "message_type"})
  BY <1>3, InsertField DEF Fields
<1> HIDE DEF h2
<1>5. Lists(h3, m, {"kind", "message_type", "channel"})
  BY <1>4, InsertField DEF Fields
<1> HIDE DEF h3
<1>6. Lists(h4, m, {"kind", "message_type", "channel", "actor_id"})
  BY <1>5, InsertField DEF Fields
<1> HIDE DEF h4
<1>7. Lists(h5, m, {"kind", "message_type", "channel", "actor_id", "recipient_type"})
  BY <1>6, InsertField DEF Fields
<1> HIDE DEF h5
<1>8. Lists(h6, m, Fields)
  BY <1>7, InsertField DEF Fields
<1>9. QED
  BY ZenonT(30), <1>2, <1>8

\* optional_header finds what is listed, and no second header of that name.
LEMMA LookUp ==
  ASSUME NEW S, NEW rec, rec.headers \in Seq(S), NEW name, NEW v, Has(rec.headers, name, v)
  PROVE  /\ optional_header(rec, name) = v
         /\ \A i, j \in Found(rec, name) : i = j
<1>1. DOMAIN rec.headers = 1..Len(rec.headers)
  OBVIOUS
<1>2. CASE v = None
  BY <1>1, <1>2 DEF Has, Found, optional_header
<1>3. CASE v # None
  <2>1. PICK k \in 1..Len(rec.headers) :
          /\ rec.headers[k].key = name /\ rec.headers[k].value = v
          /\ \A i \in 1..Len(rec.headers) : rec.headers[i].key = name => i = k
    BY <1>3 DEF Has
  <2>2. Found(rec, name) = {k}
    BY <1>1, <2>1 DEF Found
  <2>3. (CHOOSE i \in Found(rec, name) : TRUE) = k
    BY ZenonT(30), <2>2
  <2>4. QED
    BY ZenonT(30), <2>1, <2>2, <2>3 DEF optional_header
<1>4. QED
  BY ZenonT(30), <1>2, <1>3

-----------------------------------------------------------------------------
(* The message contract: from a command to a decoded message               *)

\* The part of a command the consumer gets, at its offset.
Received(m, offset) ==
  [message_id |-> m.message_id, tenant_id |-> m.tenant_id, fields |-> m.fields,
   content_type |-> m.content_type, size |-> m.size, offset |-> offset]

\* decode_message gives back every command publish may write, if its payload is
\* within the consumer's limit.
LEMMA DecodedAgain ==
  ASSUME NEW c, NEW m, HasRequired(m), m.fields \in [Fields -> Optional],
         ValidMessage(m), NEW offset, m.size <= max_payload_bytes
  PROVE  decode_message(Record(c, m), offset) = Received(m, offset)
<1> DEFINE rec == Record(c, m)
<1>1. rec.headers = Headers(m) /\ rec.size = m.size
  BY ZenonT(30) DEF Record
<1>2. Lists(rec.headers, m, Fields)
  BY ZenonT(30), <1>1, HeadersListed
<1> HIDE DEF rec
<1>3. rec.headers \in Seq(HeadersOf(m))
  BY <1>2 DEF Lists
<1>4. \A name, v : Has(rec.headers, name, v) =>
        optional_header(rec, name) = v /\ \A i, j \in Found(rec, name) : i = j
  BY ZenonT(30), <1>3, LookUp
<1>5. /\ Has(rec.headers, "x-message-id", m.message_id)
      /\ Has(rec.headers, "x-tenant-id", m.tenant_id)
      /\ Has(rec.headers, "x-content-type", m.content_type)
      /\ \A name \in TraceNames : Has(rec.headers, name, None)
      /\ \A f \in Fields : Has(rec.headers, HeaderName[f], m.fields[f])
  BY ZenonT(30), <1>2 DEF Lists
<1>6. HeadersReadable(rec)
  BY <1>4, <1>5 DEF HeadersReadable, Names
<1>7. /\ optional_header(rec, "x-message-id") = m.message_id
      /\ optional_header(rec, "x-tenant-id") = m.tenant_id
      /\ optional_header(rec, "x-content-type") = m.content_type
      /\ \A name \in TraceNames : optional_header(rec, name) = None
      /\ \A f \in Fields : optional_header(rec, HeaderName[f]) = m.fields[f]
  BY ZenonT(30), <1>4, <1>5
<1>8. Decoded(rec, offset) = Received(m, offset)
  <2>1. [f \in Fields |-> optional_header(rec, HeaderName[f])] = m.fields
    BY <1>7
  <2>2. QED
    BY ZenonT(30), <1>1, <1>7, <2>1 DEF Decoded, message_id, Received, HasRequired
<1>9. ValidMessage(Received(m, offset))
  BY ZenonT(30) DEF ValidMessage, Received
<1>10. decode_message(rec, offset) = Received(m, offset)
  BY ZenonT(30), <1>1, <1>6, <1>7, <1>8, <1>9, MatchingAssumption
     DEF decode_message, TraceNames, validate_identifier, HasRequired
<1>11. QED
  BY ZenonT(30), <1>10 DEF rec

\* A request that passes makes a command decode_message can give back.
LEMMA CommandsAreComplete ==
  ASSUME NEW c \in Calls, NEW r \in Requests, Passes(c, r)
  PROVE  /\ HasRequired(Command(c, r)) /\ ValidMessage(Command(c, r))
         /\ Command(c, r).fields \in [Fields -> Optional]
         /\ Command(c, r).size \in Nat
         /\ Command(c, r) # NoCommand
<1> DEFINE m == Command(c, r)
<1>1. /\ r \in Request /\ r.caller \in DOMAIN principal /\ r.fields \in [Fields -> Optional]
      /\ r.size \in Nat /\ r.transport \in {"http", "grpc"}
      /\ r.message_id \in {None, Invalid} \cup ({"caller"} \X Nat)
      /\ r.content_type \in ContentTypes \cup {None, Invalid}
  BY ZenonT(30), PublishingAssumption DEF Request
<1>2. m.fields = r.fields /\ m.size = r.size /\ m.message_id = effective_message_id(c, r)
      /\ m.content_type = content_type(r) /\ m.tenant_id = principal[r.caller].tenant_id
  BY DEF Command
<1>3. ValidMessage(m)
  BY ZenonT(30) DEF Passes, WellFormed, validate_command, ValidCommand
<1>4. m.tenant_id # None
  <2>1. principal[r.caller] # NoPrincipal
    BY DEF Passes, Authenticated
  <2>2. principal[r.caller] \in [tenant_id : Tenants, can_publish : BOOLEAN]
    BY Zenon, <1>1, <2>1, PublishingAssumption
  <2>3. QED
    BY ZenonT(30), <1>2, <2>2, MatchingAssumption
<1>5. m.message_id # None
  BY <1>1, <1>2, PublishingAssumption DEF effective_message_id
<1>6. m.content_type # None
  BY ZenonT(30), <1>1, <1>2, PublishingAssumption DEF content_type, ContentTypes
<1>7. m # NoCommand
  BY <1>1, <1>2 DEF NoCommand
<1>8. QED
  BY ZenonT(30), <1>1, <1>2, <1>3, <1>4, <1>5, <1>6, <1>7 DEF HasRequired

-----------------------------------------------------------------------------
(* The message contract: steps                                             *)

\* A call that has not come in has no record anywhere.
LEMMA IdleHasNone ==
  ASSUME ContractInv, NEW c \in Calls, calls[c] = NoCall
  PROVE  ~Sent(c) /\ c \notin network /\ ~Appended(c)
<1>1. ~Sent(c)
  BY DEF Sent
<1>2. c \notin network
  BY <1>1 DEF ContractInv, OnItsWay
<1>3. c # 0
  BY ZenonT(30), PublishingAssumption
<1>4. ~Appended(c)
  BY <1>1, <1>3 DEF ContractInv, Logged, Appended
<1>5. QED
  BY <1>1, <1>2, <1>4

\* A call is answered before anything is sent.
LEMMA AnsweredKeeps ==
  ASSUME ContractInv, NEW c \in Calls, NEW r \in Requests, NEW answer \in Rejected,
         calls[c] = NoCall, answer # "rate_limited" => ~Passes(c, r),
         Answered(c, r, answer), UNCHANGED <<publisher, network, topic, foreign, routed>>
  PROVE  ContractInv'
<1>1. ~Sent(c) /\ c \notin network /\ ~Appended(c)
  BY IdleHasNone
<1>2. /\ calls' = [calls EXCEPT ![c] = calls'[c]] /\ calls'[c] = Call(answer, r, NoCommand)
      /\ \A d \in Calls : d # c => calls'[d] = calls[d]
      /\ DOMAIN calls' = Calls /\ calls' = [d \in Calls |-> calls'[d]]
  BY ZenonT(30) DEF Answered, ContractInv, Types
<1>3. /\ calls'[c].status = answer /\ calls'[c].request = r /\ calls'[c].command = NoCommand
      /\ IsCall(calls'[c])
  BY <1>2 DEF Call, IsCall
<1>4. Types'
  BY ZenonT(30), <1>2 DEF ContractInv, Types
<1>5. CallsAnswered'
  <2>1. ASSUME NEW d \in Calls, d # c, calls'[d] # NoCall
        PROVE  /\ IsCall(calls'[d]) /\ calls'[d].request \in Requests
               /\ IF calls'[d].command = NoCommand
                    THEN /\ calls'[d].status \in Rejected
                         /\ calls'[d].status # "rate_limited" => ~Passes(d, calls'[d].request)
                    ELSE /\ calls'[d].status \in Pending \cup {"ok", "queue_full"}
                         /\ calls'[d].command = Command(d, calls'[d].request)
                         /\ Passes(d, calls'[d].request)
    BY <1>2, <2>1 DEF ContractInv, CallsAnswered
  <2>2. QED
    BY <1>2, <1>3, <2>1 DEF CallsAnswered, IsCall, Passes
<1>6. OnItsWay'
  BY ZenonT(30), <1>1, <1>2 DEF ContractInv, OnItsWay, Types, Sent, Appended
<1>7. Logged'
  BY <1>1, <1>2, <1>3 DEF ContractInv, Logged, Types, Sent, Appended, Rejected
<1>8. Consumed'
  BY DEF ContractInv, Consumed
<1>9. QED
  BY ZenonT(30), <1>4, <1>5, <1>6, <1>7, <1>8 DEF ContractInv

\* publish_refused: the check that failed decides the answer.
LEMMA RefusedKeeps ==
  ASSUME ContractInv, NEW c \in Calls, NEW r \in Requests, publish_refused(c, r)
  PROVE  ContractInv'
<1>1. Reply(c, r) \in Rejected \ {"rate_limited"}
  BY DEF Reply, Rejected
<1>2. QED
  BY <1>1, AnsweredKeeps DEF publish_refused, Comes

\* publish_rate_limited: allow_rate has refused.
LEMMA RateLimitedKeeps ==
  ASSUME ContractInv, NEW c \in Calls, NEW r \in Requests, publish_rate_limited(c, r)
  PROVE  ContractInv'
<1>1. "rate_limited" \in Rejected
  BY DEF Rejected
<1>2. QED
  BY <1>1, AnsweredKeeps DEF publish_rate_limited, Comes

\* publish: the record of a call that passes goes to the producer.
LEMMA PublishKeeps ==
  ASSUME ContractInv, NEW c \in Calls, NEW r \in Requests, publish(c, r)
  PROVE  ContractInv'
<1>1. ~Sent(c) /\ c \notin network /\ ~Appended(c)
  BY IdleHasNone DEF publish, Comes
<1>2. /\ calls'[c] = Call("sending", r, Command(c, r)) /\ network' = network \cup {c}
      /\ \A d \in Calls : d # c => calls'[d] = calls[d]
      /\ DOMAIN calls' = Calls /\ calls' = [d \in Calls |-> calls'[d]]
      /\ UNCHANGED <<publisher, topic, foreign, routed>>
  BY ZenonT(30) DEF publish, ContractInv, Types
<1>3. /\ calls'[c].status = "sending" /\ calls'[c].request = r
      /\ calls'[c].command = Command(c, r) /\ IsCall(calls'[c])
  BY <1>2 DEF Call, IsCall
<1>4. Passes(c, r) /\ Command(c, r) # NoCommand
  BY CommandsAreComplete DEF publish
<1>5. calls'[c] # NoCall
  BY <1>3 DEF NoCall
<1>6. Types'
  BY ZenonT(30), <1>2 DEF ContractInv, Types
<1>7. CallsAnswered'
  <2>1. ASSUME NEW d \in Calls, d # c, calls'[d] # NoCall
        PROVE  /\ IsCall(calls'[d]) /\ calls'[d].request \in Requests
               /\ IF calls'[d].command = NoCommand
                    THEN /\ calls'[d].status \in Rejected
                         /\ calls'[d].status # "rate_limited" => ~Passes(d, calls'[d].request)
                    ELSE /\ calls'[d].status \in Pending \cup {"ok", "queue_full"}
                         /\ calls'[d].command = Command(d, calls'[d].request)
                         /\ Passes(d, calls'[d].request)
    BY Zenon, <1>2, <2>1 DEF ContractInv, CallsAnswered
  <2>2. QED
    BY <1>2, <1>3, <1>4, <2>1 DEF CallsAnswered, IsCall, Passes, Pending
<1>8. OnItsWay'
  BY ZenonT(30), <1>1, <1>2, <1>3, <1>4, <1>5
    DEF ContractInv, OnItsWay, Types, Sent, Appended, Pending
<1>9. Logged'
  <2>1. \A i \in 1..Len(topic) : topic[i].by # c
    BY ZenonT(30), <1>1 DEF Appended
  <2>2. calls'[c].status # "ok"
    BY <1>3
  <2>3. QED
    BY <1>2, <2>1, <2>2 DEF ContractInv, Logged, Sent
<1>10. Consumed'
  BY <1>2 DEF ContractInv, Consumed
<1>11. QED
  BY ZenonT(30), <1>6, <1>7, <1>8, <1>9, <1>10 DEF ContractInv

\* What happens to a call that awaits its delivery: it is told of its record, or
\* it fails.
Settles(c, status, offset) ==
  /\ calls[c].status = "sending"
  /\ calls' = [calls EXCEPT ![c] = [calls[c] EXCEPT !.status = status, !.offset = offset]]
  /\ network' \subseteq network
  /\ status \in Pending \cup {"ok", "queue_full"}
  /\ status = "ok" => offset \in 1..Len(topic) /\ topic[offset].by = c
  /\ status = "queue_full" => ~Appended(c) /\ c \notin network'
  /\ UNCHANGED <<publisher, topic, foreign, routed>>

\* An answer that fits the record keeps the invariant.
LEMMA SettlesKeeps ==
  ASSUME ContractInv, NEW c \in Calls, NEW status, NEW offset, Settles(c, status, offset)
  PROVE  ContractInv'
<1>1. calls[c] # NoCall /\ IsCall(calls[c]) /\ calls[c].request \in Requests
  BY DEF ContractInv, CallsAnswered, Settles, NoCall
<1>2. Sent(c) /\ calls[c].command = Command(c, calls[c].request) /\ Passes(c, calls[c].request)
  BY <1>1 DEF ContractInv, CallsAnswered, Sent, Settles, Rejected
<1>3. /\ calls'[c] = [calls[c] EXCEPT !.status = status, !.offset = offset]
      /\ \A d \in Calls : d # c => calls'[d] = calls[d]
      /\ DOMAIN calls' = Calls /\ calls' = [d \in Calls |-> calls'[d]]
      /\ UNCHANGED <<publisher, topic, foreign, routed>>
  BY ZenonT(30) DEF Settles, ContractInv, Types
<1>4. /\ calls'[c].status = status /\ calls'[c].offset = offset
      /\ calls'[c].request = calls[c].request /\ calls'[c].command = calls[c].command
      /\ IsCall(calls'[c])
  BY ZenonT(30), <1>1, <1>3 DEF IsCall
<1>5. calls'[c] # NoCall
  <2>1. status # "idle" /\ NoCall.status = "idle"
    BY DEF Settles, Pending, NoCall
  <2>2. QED
    BY <1>4, <2>1
<1>6. Types'
  BY <1>3 DEF ContractInv, Types, Settles
<1>7. CallsAnswered'
  <2>1. ASSUME NEW d \in Calls, d # c, calls'[d] # NoCall
        PROVE  /\ IsCall(calls'[d]) /\ calls'[d].request \in Requests
               /\ IF calls'[d].command = NoCommand
                    THEN /\ calls'[d].status \in Rejected
                         /\ calls'[d].status # "rate_limited" => ~Passes(d, calls'[d].request)
                    ELSE /\ calls'[d].status \in Pending \cup {"ok", "queue_full"}
                         /\ calls'[d].command = Command(d, calls'[d].request)
                         /\ Passes(d, calls'[d].request)
    BY Zenon, <1>3, <2>1 DEF ContractInv, CallsAnswered
  <2>2. /\ calls'[c].command # NoCommand /\ calls'[c].status \in Pending \cup {"ok", "queue_full"}
        /\ calls'[c].command = Command(c, calls'[c].request)
        /\ Passes(c, calls'[c].request) /\ calls'[c].request \in Requests
    BY Zenon, <1>1, <1>2, <1>4 DEF Settles, Sent
  <2>3. QED
    BY <1>3, <1>4, <2>1, <2>2 DEF CallsAnswered, IsCall, Passes
<1>8. OnItsWay'
  <2>1. c \in network' => status \in Pending
    <3>1. c \in network' => ~Appended(c) /\ status # "queue_full"
      BY DEF ContractInv, OnItsWay, Settles
    <3>2. QED
      BY <3>1 DEF Settles, Appended
  <2>2. \A d \in network' : d \in Calls /\ Sent(d) /\ calls[d].status \in Pending /\ ~Appended(d)
    BY ZenonT(30) DEF ContractInv, OnItsWay, Types, Settles
  <2>3. QED
    BY ZenonT(30), <1>2, <1>3, <1>4, <1>5, <2>1, <2>2 DEF OnItsWay, Sent, Appended
<1>9. Logged'
  BY <1>2, <1>3, <1>4, <1>5 DEF ContractInv, Logged, Types, Sent, Appended, Settles
<1>10. Consumed'
  BY <1>3 DEF ContractInv, Consumed
<1>11. QED
  BY ZenonT(30), <1>6, <1>7, <1>8, <1>9, <1>10 DEF ContractInv

\* KafkaPublisher::publish returns the receipt of the record.
LEMMA AcknowledgeKeeps ==
  ASSUME ContractInv, NEW c \in Calls, acknowledge(c)
  PROVE  ContractInv'
<1>1. OffsetOf(c) \in 1..Len(topic) /\ topic[OffsetOf(c)].by = c
  BY DEF acknowledge, Appended, OffsetOf
<1>2. calls' = [calls EXCEPT ![c] = [calls[c] EXCEPT !.status = "ok", !.offset = OffsetOf(c)]]
  BY ZenonT(30) DEF acknowledge
<1>3. Settles(c, "ok", OffsetOf(c))
  BY ZenonT(30), <1>1, <1>2 DEF Settles, acknowledge
<1>4. QED
  BY <1>3, SettlesKeeps

\* A step that only changes the status leaves the offset as it was.
LEMMA StatusOnly ==
  ASSUME ContractInv, NEW c \in Calls, NEW status, calls[c].status = "sending",
         calls' = [calls EXCEPT ![c].status = status]
  PROVE  calls' = [calls EXCEPT ![c] =
                     [calls[c] EXCEPT !.status = status, !.offset = calls[c].offset]]
<1>1. IsCall(calls[c])
  BY DEF ContractInv, CallsAnswered, NoCall
<1>2. [calls[c] EXCEPT !.status = status]
        = [calls[c] EXCEPT !.status = status, !.offset = calls[c].offset]
  BY ZenonT(30), <1>1 DEF IsCall
<1>3. QED
  BY ZenonT(30), <1>2

\* The delivery fails: only a full queue says that there is no record.
LEMMA FailureKeeps ==
  ASSUME ContractInv, NEW c \in Calls, delivery_fails(c)
  PROVE  ContractInv'
<1>1. PICK error \in TimedOut \cup {"QueueFull", "Other"} :
        /\ error = "QueueFull" => ~Appended(c)
        /\ network' \in IF error = "QueueFull" THEN {network \ {c}} ELSE {network, network \ {c}}
        /\ calls' = [calls EXCEPT ![c].status = classify_delivery_error(error)]
  BY ZenonT(30) DEF delivery_fails
<1> DEFINE status == classify_delivery_error(error)
<1>2. status \in Pending \cup {"queue_full"} /\ (status = "queue_full" => error = "QueueFull")
  BY DEF classify_delivery_error, TimedOut, Pending
<1> HIDE DEF status
<1>3. calls' = [calls EXCEPT ![c] = [calls[c] EXCEPT !.status = status, !.offset = calls[c].offset]]
  BY ZenonT(30), <1>1, StatusOnly DEF delivery_fails, status
<1>4. Settles(c, status, calls[c].offset)
  BY ZenonT(30), <1>1, <1>2, <1>3 DEF Settles, delivery_fails, Pending
<1>5. QED
  BY <1>4, SettlesKeeps

\* The client disconnects.
LEMMA LeavingKeeps ==
  ASSUME ContractInv, NEW c \in Calls, caller_leaves(c)
  PROVE  ContractInv'
<1>1. calls' = [calls EXCEPT ![c] = [calls[c] EXCEPT !.status = "gone", !.offset = calls[c].offset]]
  BY ZenonT(30), StatusOnly DEF caller_leaves
<1>2. Settles(c, "gone", calls[c].offset)
  BY ZenonT(30), <1>1 DEF Settles, caller_leaves, Pending
<1>3. QED
  BY <1>2, SettlesKeeps

\* One more record in the topic: the records before it and the results stay.
LEMMA TopicGrows ==
  ASSUME ContractInv, NEW rec \in Records, topic' = Append(topic, rec),
         UNCHANGED <<publisher, calls, routed>>, network' \subseteq network
  PROVE  /\ Types' /\ CallsAnswered' /\ Consumed'
         /\ Len(topic) \in Nat /\ Len(topic') = Len(topic) + 1 /\ topic'[Len(topic) + 1] = rec
         /\ \A i \in 1..Len(topic) : topic'[i] = topic[i]
<1>1. topic \in Seq(Records) /\ routed \in Seq(Results) /\ Len(routed) \in Nat
  BY DEF ContractInv, Types
<1>2. /\ topic' \in Seq(Records)
      /\ Len(topic) \in Nat /\ Len(topic') = Len(topic) + 1 /\ topic'[Len(topic) + 1] = rec
      /\ \A i \in 1..Len(topic) : topic'[i] = topic[i]
  BY <1>1
<1>3. Types'
  BY ZenonT(30), <1>2 DEF ContractInv, Types
<1>4. CallsAnswered'
  BY ZenonT(30) DEF ContractInv, CallsAnswered, IsCall, Passes
<1>5. Consumed'
  BY <1>1, <1>2 DEF ContractInv, Consumed
<1>6. QED
  BY ZenonT(30), <1>2, <1>3, <1>4, <1>5

\* A receipt names the same record in a topic that has grown.
LEMMA ReceiptsStay ==
  ASSUME ContractInv, Len(topic) \in Nat, Len(topic') = Len(topic) + 1,
         \A i \in 1..Len(topic) : topic'[i] = topic[i]
  PROVE  \A c \in Calls : calls[c].status = "ok" =>
           calls[c].offset \in 1..Len(topic') /\ topic'[calls[c].offset].by = c
<1> SUFFICES ASSUME NEW c \in Calls, calls[c].status = "ok"
             PROVE  calls[c].offset \in 1..Len(topic') /\ topic'[calls[c].offset].by = c
  OBVIOUS
<1>1. calls[c].offset \in 1..Len(topic) /\ topic[calls[c].offset].by = c
  BY ZenonT(30) DEF ContractInv, Logged
<1>2. calls[c].offset \in 1..Len(topic')
  BY SMTT(30), <1>1
<1>3. QED
  BY ZenonT(30), <1>1, <1>2

\* The broker appends the record of a call.
LEMMA AppendKeeps ==
  ASSUME ContractInv, NEW c \in Calls, append(c)
  PROVE  ContractInv'
<1> DEFINE rec == Record(c, calls[c].command)
<1>1. /\ c \in network /\ c # 0 /\ Sent(c) /\ calls[c].status \in Pending /\ ~Appended(c)
      /\ network' = network \ {c} /\ topic' = Append(topic, rec)
      /\ UNCHANGED <<publisher, calls, foreign, routed>>
  BY PublishingAssumption DEF append, ContractInv, OnItsWay
<1>2. rec \in Records /\ rec.by = c
  <2>1. /\ calls[c].request \in Requests /\ calls[c].command = Command(c, calls[c].request)
        /\ WellFormed(c, calls[c].request)
    BY <1>1 DEF ContractInv, CallsAnswered, Sent, Passes
  <2>2. rec.by = c
    BY ZenonT(30) DEF Record
  <2> DEFINE cr == <<c, calls[c].request>>
  <2>3. cr \in {p \in Calls \X Requests : WellFormed(p[1], p[2])}
    BY ZenonT(30), <2>1
  <2>4. rec = Record(cr[1], Command(cr[1], cr[2]))
    BY ZenonT(30), <2>1
  <2>5. QED
    BY Zenon, <2>2, <2>3, <2>4 DEF Records
<1> HIDE DEF rec
<1>3. /\ Types' /\ CallsAnswered' /\ Consumed'
      /\ Len(topic) \in Nat /\ Len(topic') = Len(topic) + 1 /\ topic'[Len(topic) + 1] = rec
      /\ \A i \in 1..Len(topic) : topic'[i] = topic[i]
  BY ZenonT(30), <1>1, <1>2, TopicGrows
<1>4. \A i \in 1..Len(topic') : i \in 1..Len(topic) \/ i = Len(topic) + 1
  BY <1>3
<1>5. \A d : Appended(d)' => Appended(d) \/ d = c
  BY ZenonT(30), <1>2, <1>3, <1>4 DEF Appended
<1>6. OnItsWay'
  BY ZenonT(30), <1>1, <1>5 DEF ContractInv, OnItsWay, Sent
<1>7. Logged'
  <2>1. ASSUME NEW i \in 1..Len(topic'), topic'[i].by # 0
        PROVE  /\ topic'[i].by \in Calls /\ Sent(topic'[i].by)
               /\ calls[topic'[i].by].status \in Pending \cup {"ok"}
               /\ topic'[i] = Record(topic'[i].by, calls[topic'[i].by].command)
    <3>1. CASE i \in 1..Len(topic)
      BY ZenonT(30), <1>1, <1>3, <2>1, <3>1 DEF ContractInv, Logged
    <3>2. CASE i = Len(topic) + 1
      <4>1. topic'[i] = rec /\ topic'[i].by = c
        BY ZenonT(30), <1>2, <1>3, <3>2
      <4>2. QED
        BY ZenonT(30), <1>1, <4>1 DEF rec
    <3>3. QED
      BY ZenonT(30), <1>4, <3>1, <3>2
  <2>2. ASSUME NEW i \in 1..Len(topic'), NEW j \in 1..Len(topic'),
               topic'[i].by = topic'[j].by, topic'[i].by # 0
        PROVE  i = j
    BY ZenonT(30), <1>1, <1>2, <1>3, <1>4, <2>2 DEF ContractInv, Logged, Appended
  <2>3. \A d \in Calls : calls[d].status = "ok" =>
          calls[d].offset \in 1..Len(topic') /\ topic'[calls[d].offset].by = d
    BY ZenonT(30), <1>3, ReceiptsStay
  <2>4. QED
    BY ZenonT(30), <1>1, <2>1, <2>2, <2>3 DEF Logged, Sent
<1>8. QED
  BY ZenonT(30), <1>3, <1>6, <1>7 DEF ContractInv

\* Another producer appends a record.
LEMMA ForeignKeeps ==
  ASSUME ContractInv, NEW rec \in ForeignRecords, foreign_record(rec)
  PROVE  ContractInv'
<1>1. /\ rec \in Records /\ rec.by = 0 /\ topic' = Append(topic, rec)
      /\ UNCHANGED <<publisher, calls, network, routed>>
  BY ZenonT(30), PublishingAssumption DEF foreign_record, Records
<1>2. /\ Types' /\ CallsAnswered' /\ Consumed'
      /\ Len(topic) \in Nat /\ Len(topic') = Len(topic) + 1 /\ topic'[Len(topic) + 1] = rec
      /\ \A i \in 1..Len(topic) : topic'[i] = topic[i]
  BY ZenonT(30), <1>1, TopicGrows
<1>3. \A i \in 1..Len(topic') : i \in 1..Len(topic) \/ topic'[i].by = 0
  BY <1>1, <1>2
<1>4. \A c \in Calls : Appended(c)' => Appended(c)
  BY ZenonT(30), <1>2, <1>3, PublishingAssumption DEF Appended
<1>5. OnItsWay'
  BY ZenonT(30), <1>1, <1>4 DEF ContractInv, Types, OnItsWay, Sent
<1>6. Logged'
  <2>1. \A c \in Calls : calls[c].status = "ok" =>
          calls[c].offset \in 1..Len(topic') /\ topic'[calls[c].offset].by = c
    BY ZenonT(30), <1>2, ReceiptsStay
  <2>2. \A i \in 1..Len(topic') : topic'[i].by # 0 =>
          i \in 1..Len(topic) /\ topic'[i] = topic[i]
    BY ZenonT(30), <1>2, <1>3
  <2>3. ASSUME NEW i \in 1..Len(topic'), topic'[i].by # 0
        PROVE  /\ topic'[i].by \in Calls /\ Sent(topic'[i].by)
               /\ calls[topic'[i].by].status \in Pending \cup {"ok"}
               /\ topic'[i] = Record(topic'[i].by, calls[topic'[i].by].command)
    BY ZenonT(30), <2>2, <2>3 DEF ContractInv, Logged
  <2>4. ASSUME NEW i \in 1..Len(topic'), NEW j \in 1..Len(topic'),
               topic'[i].by = topic'[j].by, topic'[i].by # 0
        PROVE  i = j
    BY ZenonT(30), <2>2, <2>4 DEF ContractInv, Logged
  <2>5. QED
    BY ZenonT(30), <1>1, <2>1, <2>3, <2>4 DEF Logged, Sent
<1>7. QED
  BY ZenonT(30), <1>2, <1>5, <1>6 DEF ContractInv

\* The consumer decodes the next record.
LEMMA ConsumeKeeps ==
  ASSUME ContractInv, consume
  PROVE  ContractInv'
<1> DEFINE offset == Len(routed) + 1
<1>1. /\ Len(routed) < Len(topic) /\ routed' = Append(routed, decode_message(topic[offset], offset))
      /\ UNCHANGED <<publisher, calls, network, topic, foreign>>
  BY DEF consume
<1>2. topic \in Seq(Records) /\ routed \in Seq(Results) /\ Len(routed) \in Nat /\ Len(topic) \in Nat
  BY DEF ContractInv, Types
<1>3. topic[offset] \in Records /\ offset \in Nat
  BY <1>1, <1>2
<1>4. decode_message(topic[offset], offset) \in Results
  BY <1>3 DEF Results
<1>5. /\ routed' \in Seq(Results) /\ Len(routed') = offset
      /\ routed'[offset] = decode_message(topic[offset], offset)
      /\ \A i \in 1..Len(routed) : routed'[i] = routed[i]
  BY <1>1, <1>2, <1>4
<1>6. Types'
  BY ZenonT(30), <1>1, <1>5 DEF ContractInv, Types
<1>7. Consumed'
  <2>1. \A i \in 1..Len(routed') : i \in 1..Len(routed) \/ i = offset
    BY <1>2, <1>5
  <2>2. Len(routed') <= Len(topic)
    BY SMTT(30), <1>1, <1>2, <1>5
  <2> HIDE DEF offset
  <2>3. QED
    BY ZenonT(30), <1>1, <1>5, <2>1, <2>2 DEF ContractInv, Consumed
<1>8. CallsAnswered' /\ OnItsWay' /\ Logged'
  BY ZenonT(30), <1>1
    DEF ContractInv, CallsAnswered, IsCall, Passes, OnItsWay, Logged, Sent, Appended
<1>9. QED
  BY <1>6, <1>7, <1>8 DEF ContractInv

-----------------------------------------------------------------------------
(* The message contract: the results                                       *)

\* No call, no record, nothing consumed.
LEMMA ContractInit == PublishingInit => ContractInv
<1> SUFFICES ASSUME PublishingInit PROVE ContractInv
  OBVIOUS
<1>1. \A c \in Calls : calls[c] = NoCall /\ calls[c].status = "idle"
  BY DEF PublishingInit, NoCall
<1>2. Types
  BY DEF PublishingInit, Types
<1>3. CallsAnswered /\ OnItsWay
  BY ZenonT(30), <1>1 DEF PublishingInit, CallsAnswered, OnItsWay
<1>4. Len(topic) = 0 /\ Len(routed) = 0
  BY ZenonT(30) DEF PublishingInit
<1>5. Logged /\ Consumed
  BY <1>1, <1>4 DEF Logged, Consumed
<1>6. QED
  BY <1>2, <1>3, <1>5 DEF ContractInv

\* Every step of a handler, of the producer and broker, and of the consumer
\* keeps the invariant.
LEMMA ContractStep == ContractInv /\ [PublishingNext]_publishingVars => ContractInv'
<1> SUFFICES ASSUME ContractInv, [PublishingNext]_publishingVars PROVE ContractInv'
  OBVIOUS
<1>1. CASE PublishingNext
  BY ZenonT(30), <1>1, RefusedKeeps, RateLimitedKeeps, PublishKeeps, AppendKeeps, AcknowledgeKeeps,
     FailureKeeps, LeavingKeeps, ForeignKeeps, ConsumeKeeps DEF PublishingNext
<1>2. CASE UNCHANGED publishingVars
  <2>1. Types' /\ Consumed'
    BY ZenonT(30), <1>2 DEF publishingVars, ContractInv, Types, Consumed
  <2>2. CallsAnswered'
    BY ZenonT(30), <1>2 DEF publishingVars, ContractInv, CallsAnswered, IsCall, Passes
  <2>3. OnItsWay' /\ Logged'
    BY <1>2 DEF publishingVars, ContractInv, OnItsWay, Logged, Sent, Appended
  <2>4. QED
    BY ZenonT(30), <2>1, <2>2, <2>3 DEF ContractInv
<1>3. QED
  BY <1>1, <1>2

\* The invariant of the publish path is one.
THEOREM PublishingInvariant == PublishingSpec => []ContractInv
<1>1. QED
  BY ContractInit, ContractStep, PTL DEF PublishingSpec

\* Every message decode_message gives for a record publish wrote is the command
\* that was validated: no field is lost, added or renamed on the way, whatever
\* the fields, the limits and the interleaving.
THEOREM MessagesRoundTrip == PublishingSpec => []RoundTrip
<1>1. ContractInv => RoundTrip
  <2> SUFFICES ASSUME ContractInv, NEW i \in 1..Len(routed), topic[i].by # 0,
                      topic[i].size <= max_payload_bytes
               PROVE  /\ routed[i] = [f \in DOMAIN routed[i] |->
                                        IF f = "offset" THEN i ELSE calls[topic[i].by].command[f]]
                      /\ DOMAIN routed[i] =
                           (DOMAIN calls[topic[i].by].command \ {"ordering_key"}) \cup {"offset"}
    BY Zenon DEF RoundTrip
  <2> DEFINE c == topic[i].by
             m == calls[c].command
  <2>1. i \in 1..Len(topic)
    BY SMTT(30) DEF ContractInv, Types, Consumed
  <2>2. c \in Calls /\ Sent(c) /\ topic[i] = Record(c, m)
    BY ZenonT(30), <2>1 DEF ContractInv, Logged
  <2>3. PICK r \in Requests : m = Command(c, r) /\ Passes(c, r)
    BY ZenonT(30), <2>2 DEF ContractInv, CallsAnswered, Sent
  <2>4. routed[i] = decode_message(topic[i], i)
    BY ZenonT(30) DEF ContractInv, Consumed
  <2>5. topic[i].size = m.size
    BY <2>2 DEF Record
  <2> HIDE DEF c, m
  <2>6. routed[i] = Received(m, i)
    BY Zenon, <2>2, <2>3, <2>4, <2>5, DecodedAgain, CommandsAreComplete
  <2>7. DOMAIN m = {"message_id", "tenant_id", "fields", "ordering_key", "content_type", "size"}
    BY ZenonT(30), <2>3 DEF Command
  <2>8. /\ routed[i] = [f \in DOMAIN routed[i] |-> IF f = "offset" THEN i ELSE m[f]]
        /\ DOMAIN routed[i] = (DOMAIN m \ {"ordering_key"}) \cup {"offset"}
    BY <2>6, <2>7 DEF Received
  <2>9. QED
    BY <2>8 DEF c, m
<1>2. QED
  BY <1>1, PublishingInvariant, PTL

\* After an answer that refuses a call, its record never appears, also when the
\* broker is late; after a receipt the record it names is the only one.
THEOREM AnswersSettleRecords == PublishingSpec => []AnswerSettles
<1>1. ContractInv => AnswerSettles
  <2> SUFFICES ASSUME ContractInv, NEW c \in Calls
               PROVE  /\ calls[c].status \in Rejected \cup {"queue_full"} =>
                           ~Appended(c) /\ c \notin network
                      /\ calls[c].status = "ok" =>
                           /\ c \notin network
                           /\ \A i \in 1..Len(topic) : topic[i].by = c <=> i = calls[c].offset
    BY ZenonT(30) DEF AnswerSettles, Rejected
  <2>1. c # 0
    BY ZenonT(30), PublishingAssumption
  <2>2. c \in network \/ Appended(c) => calls[c].status \in Pending \cup {"ok"}
    BY <2>1 DEF ContractInv, OnItsWay, Logged, Appended
  <2>3. c \in network => calls[c].status \in Pending
    BY ZenonT(30) DEF ContractInv, OnItsWay
  <2>4. calls[c].status = "ok" => \A i \in 1..Len(topic) : topic[i].by = c <=> i = calls[c].offset
    BY ZenonT(30), <2>1 DEF ContractInv, Logged
  <2>5. QED
    BY ZenonT(30), <2>2, <2>3, <2>4 DEF Rejected, Pending
<1>2. QED
  BY <1>1, PublishingInvariant, PTL

\* The base64 text of a payload within the limit is within the limit of the text.
LEMMA EncodedWithinMaximum ==
  ASSUME NEW n \in Nat, n <= publish_max_payload_bytes
  PROVE  EncodedLength(n) <= MaximumEncoded
<1>1. publish_max_payload_bytes \in Nat
  BY PublishingAssumption
<1>2. QED
  BY <1>1 DEF EncodedLength, MaximumEncoded

\* The checks give the same verdict for a base64 request with a content type over
\* HTTP and over gRPC: the limit of the encoded text refuses nothing more.
LEMMA SameVerdict ==
  ASSUME NEW c \in Calls, NEW d \in Calls, NEW r \in Requests, NEW q \in Requests,
         r.payload = "base64", r.content_type # None, q = [r EXCEPT !.transport = "grpc"]
  PROVE  Passes(c, r) <=> Passes(d, q)
<1>1. /\ r \in Request /\ q \in Request
      /\ r = [caller |-> r.caller, transport |-> r.transport, payload |-> r.payload, size |-> r.size,
              message_id |-> r.message_id, tenant_id |-> r.tenant_id, fields |-> r.fields,
              ordering_key |-> r.ordering_key, content_type |-> r.content_type]
      /\ r.size \in Nat /\ r.message_id \in {None, Invalid} \cup ({"caller"} \X Nat)
  BY PublishingAssumption DEF Request
<1>2. /\ q.caller = r.caller /\ q.payload = r.payload /\ q.size = r.size
      /\ q.message_id = r.message_id /\ q.tenant_id = r.tenant_id /\ q.fields = r.fields
      /\ q.ordering_key = r.ordering_key /\ q.content_type = r.content_type
      /\ q.transport = "grpc"
  BY <1>1
<1>3. Authenticated(r) <=> Authenticated(q)
  BY <1>2 DEF Authenticated
<1>4. Authorized(r) <=> Authorized(q)
  BY <1>2 DEF Authorized
<1> DEFINE m == Command(c, r)
           n == Command(d, q)
<1>5. /\ m.size = r.size /\ n.size = r.size /\ m.fields = n.fields /\ m.tenant_id = n.tenant_id
      /\ m.ordering_key = n.ordering_key /\ m.content_type = n.content_type
      /\ m.message_id = effective_message_id(c, r) /\ n.message_id = effective_message_id(d, q)
  BY <1>2 DEF Command, content_type
<1> HIDE DEF m, n
<1>6. validate_identifier(m.message_id) <=> validate_identifier(n.message_id)
  <2>1. <<"uuid", c>> # Invalid /\ <<"uuid", d>> # Invalid
    BY PublishingAssumption
  <2>2. QED
    BY <1>2, <1>5, <2>1 DEF effective_message_id, validate_identifier
<1>7. validate_command(m) <=> validate_command(n)
  BY <1>5, <1>6 DEF validate_command, ValidCommand, ValidMessage
<1>8. validate_command(m) => http_publish_payload(r)
  BY <1>1, <1>5, EncodedWithinMaximum DEF validate_command, http_publish_payload
<1>9. WellFormed(c, r) <=> WellFormed(d, q)
  BY ZenonT(30), <1>2, <1>7, <1>8 DEF WellFormed, m, n
<1>10. QED
  BY ZenonT(30), <1>2, <1>3, <1>4, <1>9 DEF Passes

\* HTTP and gRPC accept the same messages.
THEOREM TransportsAlwaysAgree == PublishingSpec => []TransportsAgree
<1>1. ContractInv => TransportsAgree
  <2> SUFFICES ASSUME ContractInv, NEW c \in Calls, NEW d \in Calls,
                      calls[c] # NoCall, calls[d] # NoCall,
                      calls[c].status # "rate_limited", calls[d].status # "rate_limited",
                      calls[c].request.payload = "base64",
                      calls[c].request.content_type # None,
                      calls[d].request = [calls[c].request EXCEPT !.transport = "grpc"]
               PROVE  Sent(c) <=> Sent(d)
    BY Zenon DEF TransportsAgree
  <2>1. \A e \in {c, d} : calls[e].request \in Requests /\ (Sent(e) <=> Passes(e, calls[e].request))
    BY DEF ContractInv, CallsAnswered, Sent
  <2>2. Passes(c, calls[c].request) <=> Passes(d, calls[d].request)
    BY ZenonT(30), <2>1, SameVerdict
  <2>3. QED
    BY <2>1, <2>2
<1>2. QED
  BY <1>1, PublishingInvariant, PTL

\* The id of a record, which is in its header or made from its offset.
Identity(rec, offset) ==
  \/ optional_header(rec, "x-message-id") = None /\ message_id(rec, offset) = <<"source", offset>>
  \/ /\ optional_header(rec, "x-message-id") \in {Invalid} \cup ({"caller"} \X Nat)
     /\ message_id(rec, offset) = optional_header(rec, "x-message-id")
  \/ /\ rec.by # 0
     /\ optional_header(rec, "x-message-id") = <<"uuid", rec.by>>
     /\ message_id(rec, offset) = <<"uuid", rec.by>>

\* Three kinds of ids: those callers choose, those of effective_message_id and
\* the source position of decode_message.
LEMMA ThreeKinds ==
  ASSUME IdsRepeatMessages, ContractInv, NEW i \in 1..Len(topic)
  PROVE  topic[i] \in Records /\ Identity(topic[i], i)
<1>1. topic[i] \in Records
  BY DEF ContractInv, Types
<1>2. CASE topic[i].by = 0
  <2>1. topic[i] \in ForeignRecords
    <3>1. ASSUME NEW cr \in Calls \X Requests, topic[i] = Record(cr[1], Command(cr[1], cr[2]))
          PROVE  FALSE
      BY <1>2, <3>1, PublishingAssumption DEF Record
    <3>2. QED
      BY ZenonT(30), <1>1, <3>1 DEF Records
  <2>2. optional_header(topic[i], "x-message-id") \in {None, Invalid} \cup ({"caller"} \X Nat)
    BY ZenonT(30), <2>1 DEF IdsRepeatMessages
  <2>3. QED
    BY ZenonT(30), <1>1, <2>2, MatchingAssumption, PublishingAssumption DEF Identity, message_id
<1>3. CASE topic[i].by # 0
  <2> DEFINE c == topic[i].by
             m == calls[c].command
  <2>1. c \in Calls /\ Sent(c) /\ topic[i] = Record(c, m)
    BY ZenonT(30), <1>3 DEF ContractInv, Logged
  <2>2. PICK r \in Requests : m = Command(c, r) /\ Passes(c, r)
    BY ZenonT(30), <2>1 DEF ContractInv, CallsAnswered, Sent
  <2>3. topic[i].headers = Headers(m)
    BY <2>1 DEF Record
  <2> HIDE DEF c, m
  <2>4. HasRequired(m)
    BY <2>1, <2>2, CommandsAreComplete
  <2>5. optional_header(topic[i], "x-message-id") = m.message_id
    <3>1. Lists(topic[i].headers, m, Fields)
      BY ZenonT(30), <2>3, <2>4, HeadersListed
    <3>2. QED
      BY ZenonT(30), <3>1, LookUp DEF Lists
  <2>6. m.message_id = effective_message_id(c, r) /\ m.message_id # None
    BY ZenonT(30), <2>2, <2>4 DEF Command, HasRequired
  <2>7. r.message_id \in {None, Invalid} \cup ({"caller"} \X Nat)
    BY PublishingAssumption DEF Request
  <2>8. QED
    BY ZenonT(30), <1>1, <1>3, <2>5, <2>6, <2>7 DEF Identity, message_id, effective_message_id, c
<1>4. QED
  BY <1>2, <1>3

\* A decoded message by its parts, and the same one at another offset.
Parts(id, tenant, fields, type, size, offset) ==
  [message_id |-> id, tenant_id |-> tenant, fields |-> fields, content_type |-> type,
   size |-> size, offset |-> offset]

\* A record with an id of its own is decoded alike at every offset.
LEMMA AtOffset ==
  ASSUME NEW rec, NEW offset, optional_header(rec, "x-message-id") # None
  PROVE  [Decoded(rec, offset) EXCEPT !.offset = 0] = Decoded(rec, 0)
<1>1. message_id(rec, offset) = message_id(rec, 0)
  BY DEF message_id
<1>2. \A id, tenant, fields, type, size :
        [Parts(id, tenant, fields, type, size, offset) EXCEPT !.offset = 0]
          = Parts(id, tenant, fields, type, size, 0)
  BY DEF Parts
<1>3. PICK tenant, fields, type : \A o :
        Decoded(rec, o) = Parts(message_id(rec, o), tenant, fields, type, rec.size, o)
  BY Zenon DEF Decoded, Parts
<1>4. QED
  BY <1>1, <1>2, <1>3

\* If ids are repeated only with their message, two messages routed under one id
\* of one tenant are the same: neither the API's ids nor source positions meet
\* another id.
THEOREM IdsNameMessages == IdsRepeatMessages => (PublishingSpec => []IdNamesMessage)
<1> SUFFICES ASSUME IdsRepeatMessages PROVE PublishingSpec => []IdNamesMessage
  OBVIOUS
<1>1. ContractInv => IdNamesMessage
  <2> SUFFICES ASSUME ContractInv, NEW i \in 1..Len(routed), NEW j \in 1..Len(routed),
                      routed[i] # Refused(i), routed[j] # Refused(j),
                      routed[i].message_id = routed[j].message_id,
                      routed[i].tenant_id = routed[j].tenant_id
               PROVE  [routed[i] EXCEPT !.offset = 0] = [routed[j] EXCEPT !.offset = 0]
    BY Zenon DEF IdNamesMessage
  <2> DEFINE a == topic[i]
             b == topic[j]
             id(rec) == optional_header(rec, "x-message-id")
  <2>1. i \in 1..Len(topic) /\ j \in 1..Len(topic)
    BY DEF ContractInv, Types, Consumed
  <2>2. routed[i] = Decoded(a, i) /\ routed[j] = Decoded(b, j)
    BY ZenonT(30) DEF ContractInv, Consumed, decode_message
  <2>3. a \in Records /\ b \in Records /\ Identity(a, i) /\ Identity(b, j)
    BY ZenonT(30), <2>1, ThreeKinds
  <2>4. /\ message_id(a, i) = message_id(b, j)
        /\ optional_header(a, "x-tenant-id") = optional_header(b, "x-tenant-id")
    BY <2>2 DEF Decoded
  <2>5. CASE i = j
    BY <2>5
  <2>6. CASE i # j
    <3>1. a.by = b.by => a.by = 0
      BY ZenonT(30), <2>1, <2>6 DEF ContractInv, Logged
    <3>2. message_id(a, i) # Invalid
      <4>1. ValidMessage(Decoded(a, i))
        BY ZenonT(30) DEF ContractInv, Consumed, decode_message
      <4>2. QED
        BY ZenonT(30), <4>1 DEF ValidMessage, Decoded, validate_identifier
    <3> HIDE DEF a, b
    <3>3. id(a) \in {"caller"} \X Nat /\ id(a) = id(b)
      BY <2>3, <2>4, <2>6, <3>1, <3>2, PublishingAssumption DEF Identity
    <3>4. Decoded(a, 0) = Decoded(b, 0)
      BY ZenonT(30), <2>3, <2>4, <3>3 DEF IdsRepeatMessages
    <3>5. id(a) # None /\ id(b) # None
      BY <3>3, PublishingAssumption
    <3>6. /\ [Decoded(a, i) EXCEPT !.offset = 0] = Decoded(a, 0)
          /\ [Decoded(b, j) EXCEPT !.offset = 0] = Decoded(b, 0)
      BY ZenonT(30), <3>5, AtOffset
    <3>7. QED
      BY ZenonT(30), <2>2, <3>4, <3>6
  <2>7. QED
    BY <2>5, <2>6
<1>2. QED
  BY <1>1, PublishingInvariant, PTL

-----------------------------------------------------------------------------
(* Client sessions: counting deliveries, and the results                   *)

INSTANCE FiniteSetTheorems

\* One more frame is one more delivery, or none.
LEMMA DeliveriesAppend ==
  ASSUME NEW w \in Seq(Frames), NEW f \in Frames
  PROVE  /\ Cardinality(Deliveries(w)) \in Nat
         /\ f.type = "delivery"
              => Cardinality(Deliveries(Append(w, f))) = Cardinality(Deliveries(w)) + 1
         /\ f.type # "delivery" => Deliveries(Append(w, f)) = Deliveries(w)
<1> DEFINE v == Append(w, f)
<1>1. /\ Len(v) = Len(w) + 1 /\ Len(w) \in Nat
      /\ \A i \in 1..Len(w) : v[i] = w[i]
      /\ v[Len(w) + 1] = f
  BY AppendFrame
<1> HIDE DEF v
<1>2. IsFiniteSet(Deliveries(w))
  <2>1. IsFiniteSet(1..Len(w))
    BY <1>1, FS_Interval
  <2>2. Deliveries(w) \in SUBSET (1..Len(w))
    BY ZenonT(30) DEF Deliveries
  <2>3. QED
    BY ZenonT(30), <2>1, <2>2, FS_Subset
<1>3. f.type = "delivery" => Deliveries(v) = Deliveries(w) \cup {Len(w) + 1}
  BY <1>1 DEF Deliveries
<1>4. f.type # "delivery" => Deliveries(v) = Deliveries(w)
  BY <1>1 DEF Deliveries
<1>5. Len(w) + 1 \notin Deliveries(w)
  BY <1>1 DEF Deliveries
<1>6. QED
  BY ZenonT(30), <1>2, <1>3, <1>4, <1>5, FS_AddElement, FS_CardinalityType DEF v

\* The hypothesis of the lemmas above.
LEMMA DeliveriesAreCounted == DeliveriesCounted
<1>1. Cardinality({}) = 0
  BY ZenonT(30), FS_EmptySet
<1>2. \A w \in Seq(Frames) : Cardinality(Deliveries(w)) \in Nat
  BY ZenonT(30), DeliveriesAppend, AnswersAreFrames
<1>3. QED
  BY ZenonT(30), <1>1, <1>2, DeliveriesAppend DEF DeliveriesCounted

\* The invariant of the sessions is one.
THEOREM SessionsInvariant == Spec => []IInv
<1>1. QED
  BY InitInv, StepInv, DeliveriesAreCounted, PTL DEF Spec

\* The core is left no session that has ended and no subscription of one it does
\* not hold: ConnectionGuard and the error paths of sse and subscribe miss no
\* way a session can end, however many sessions there are.
THEOREM NothingIsLeftBehind == Spec => []NothingLeftBehind
<1>1. IInv => NothingLeftBehind
  BY ZenonT(30) DEF IInv, SessionInv, Held, NothingLeftBehind
<1>2. QED
  BY <1>1, SessionsInvariant, PTL

\* The answers of handle_ws_command and connect add up to the subscriptions the
\* core holds, after any commands, refused or carried out.
THEOREM ClientViewAgrees == Spec => []ViewAgrees
<1>1. IInv => ViewAgrees
  BY ZenonT(30) DEF IInv, TypeOK, SessionInv, Knows, ViewAgrees, Believed
<1>2. QED
  BY <1>1, SessionsInvariant, PTL

\* A client is told of a subscription before the first delivery for it, although
\* the core may have queued that delivery before the answer is written.
THEOREM AcknowledgedFirst == Spec => []AckFirst
<1>1. IInv => AckFirst
  <2> SUFFICES ASSUME IInv, NEW s \in Sessions, Interactive(s) PROVE ToldFirst(received[s])
    BY ZenonT(30) DEF AckFirst, ToldFirst
  <2>1. ToldFirst(Written(s)) /\ TypeOK
    BY ZenonT(30) DEF IInv, SessionInv, Knows
  <2>2. CASE task[s] # "send"
    BY ZenonT(30), <2>1, <2>2 DEF Written
  <2>3. CASE task[s] = "send"
    <3> DEFINE w == Append(received[s], frame[s])
    <3>1. /\ Len(w) = Len(received[s]) + 1 /\ Len(received[s]) \in Nat
          /\ \A i \in 1..Len(received[s]) : w[i] = received[s][i]
      BY <2>1, AppendFrame DEF TypeOK
    <3>2. ToldFirst(w)
      BY ZenonT(30), <2>1, <2>3 DEF Written
    <3> HIDE DEF w
    <3>3. QED
      BY SMTT(30), <3>1, <3>2 DEF ToldFirst
  <2>4. QED
    BY ZenonT(30), <2>2, <2>3
<1>2. QED
  BY <1>1, SessionsInvariant, PTL

\* A WebSocket ends for a reason its client can see, and one that is closed as a
\* slow consumer has been struck out and was given all of its queue.
THEOREM EndsAreExplained == Spec => []EndExplained
<1>1. IInv => EndExplained
  BY DEF IInv, SessionInv, Ends, EndExplained
<1>2. QED
  BY <1>1, SessionsInvariant, PTL

=============================================================================
