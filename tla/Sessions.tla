------------------------------ MODULE Sessions ------------------------------
(***************************************************************************)
(* The client sessions over the routing core: WebSocket and SSE            *)
(* (router-api/src/http.rs), and the gRPC Subscribe and Connect streams    *)
(* (router-api/src/grpc.rs).                                               *)
(*                                                                         *)
(* Of the core this module keeps what a session can observe: which         *)
(* sessions are registered, their subscriptions, queues and strikes; each  *)
(* of its calls is one step.  A session is one task.  It takes a delivery  *)
(* or a command, and then waits until the transport has taken its frame,   *)
(* which is when the client reads.                                         *)
(***************************************************************************)
EXTENDS Integers, Sequences, FiniteSets

CONSTANTS
  Sessions,
  Openings,                          \* ways to open them: session -> protocol
  SubscriptionIds,
  queue_capacity,
  slow_consumer_strikes,
  max_subscriptions,                 \* of all connections
  MaxMessages,                       \* bound: messages dispatched
  MaxCommands                        \* bound: commands of a session

ASSUME SessionsAssumption ==
  /\ Openings \subseteq [Sessions -> {"WebSocket", "Sse", "Subscribe", "Connect"}]
  /\ SubscriptionIds # {}
  /\ {queue_capacity, slow_consumer_strikes} \subseteq Nat \ {0}
  /\ {max_subscriptions, MaxMessages, MaxCommands} \subseteq Nat

VARIABLES
  protocol,       \* session -> its protocol, which does not change
  registered,     \* sessions the core knows
  subscriptions,  \* session -> its subscriptions in the core
  queue,          \* session -> its channel
  strikes,
  sent,           \* messages dispatched
  task,           \* session -> where its task is
  frame,          \* session -> the frame it writes
  issued,         \* session -> commands the client has sent
  inbox,          \* session -> commands not yet taken
  client,         \* session -> "connected" or "gone"
  received,       \* session -> frames the client has read
  queued,         \* history: session -> deliveries put into its channel
  evicted         \* history: sessions the core has struck out

coreVars == <<registered, subscriptions, queue, strikes, sent, queued, evicted>>
clientVars == <<protocol, issued, inbox, client, received>>
vars == <<coreVars, task, frame, clientVars>>

-----------------------------------------------------------------------------
(* Frames and commands                                                     *)

Delivery(n, ids) == [type |-> "delivery", message |-> n, ids |-> ids]

\* Answers to a subscription id, and answers that name none.
Ack(operation, id) == [type |-> operation, id |-> id]
Answer(type) == [type |-> type]

\* The last frame of a session.
Final == {"slow_consumer", "transport_close", "status", "end"}

\* "invalid" is a command the session refuses, "malformed" input that already
\* the transport refuses.
Commands ==
  [operation : {"subscribe", "unsubscribe"}, id : SubscriptionIds]
    \cup [operation : {"ping", "invalid", "malformed"}]

Interactive(s) == protocol[s] \in {"WebSocket", "Connect"}

Init ==
  /\ protocol \in Openings
  /\ registered = {}
  /\ subscriptions = [s \in Sessions |-> {}]
  /\ queue = [s \in Sessions |-> <<>>]
  /\ strikes = [s \in Sessions |-> 0]
  /\ sent = 0
  /\ task = [s \in Sessions |-> "new"]
  /\ frame = [s \in Sessions |-> Answer("none")]
  /\ issued = [s \in Sessions |-> 0]
  /\ inbox = [s \in Sessions |-> <<>>]
  /\ client = [s \in Sessions |-> "connected"]
  /\ received = [s \in Sessions |-> <<>>]
  /\ queued = [s \in Sessions |-> 0]
  /\ evicted = {}

-----------------------------------------------------------------------------
(* The routing core                                                        *)

Subscriptions == {p \in Sessions \X SubscriptionIds : p[2] \in subscriptions[p[1]]}

\* Router::dispatch of a message that the filters behind `ids' match.
dispatch(ids) ==
  LET matched == {s \in registered : subscriptions[s] \cap ids # {}}
      full == {s \in matched : Len(queue[s]) >= queue_capacity}
      struck == [s \in Sessions |-> IF s \in full THEN strikes[s] + 1
                                    ELSE IF s \in matched THEN 0 ELSE strikes[s]]
      out == {s \in full : struck[s] >= slow_consumer_strikes}
  IN /\ sent < MaxMessages
     /\ sent' = sent + 1
     /\ queue' = [s \in Sessions |->
                    IF s \in matched \ full
                      THEN Append(queue[s], Delivery(sent + 1, subscriptions[s] \cap ids))
                      ELSE queue[s]]
     /\ queued' = [s \in Sessions |-> IF s \in matched \ full THEN queued[s] + 1 ELSE queued[s]]
     /\ strikes' = struck
     /\ registered' = registered \ out
     /\ subscriptions' = [s \in Sessions |-> IF s \in out THEN {} ELSE subscriptions[s]]
     /\ evicted' = evicted \cup out
     /\ UNCHANGED <<task, frame, clientVars>>

Unregisters(s) ==
  /\ registered' = registered \ {s}
  /\ subscriptions' = [subscriptions EXCEPT ![s] = {}]
  /\ UNCHANGED <<queue, strikes, sent, queued, evicted>>

-----------------------------------------------------------------------------
(* Opening                                                                 *)

Goes(s, place) == task' = [task EXCEPT ![s] = place]

\* register_connection: the session is in the core, or refused for a limit.
open(s) ==
  /\ task[s] = "new"
  /\ \/ /\ registered' = registered \cup {s}
        /\ Goes(s, IF Interactive(s) THEN "select" ELSE "subscribing")
     \/ /\ Goes(s, "ended")
        /\ UNCHANGED registered
  /\ UNCHANGED <<subscriptions, queue, strikes, sent, queued, evicted, frame, clientVars>>

\* sse and subscribe have one subscription, made before the stream starts.
open_stream(s, id) ==
  /\ task[s] = "subscribing"
  /\ Cardinality(Subscriptions) < max_subscriptions
  /\ subscriptions' = [subscriptions EXCEPT ![s] = {id}]
  /\ Goes(s, "select")
  /\ UNCHANGED <<registered, queue, strikes, sent, queued, evicted, frame, clientVars>>

\* Mutant: the registration is left behind.
StreamLeftBehind(s) ==
  /\ task[s] = "subscribing"
  /\ Cardinality(Subscriptions) >= max_subscriptions
  /\ Goes(s, "ended")
  /\ UNCHANGED <<coreVars, frame, clientVars>>

open_stream_fails(s) ==
  /\ task[s] = "subscribing"
  /\ Cardinality(Subscriptions) >= max_subscriptions
  /\ Unregisters(s)
  /\ Goes(s, "ended")
  /\ UNCHANGED <<frame, clientVars>>

-----------------------------------------------------------------------------
(* The loop.  select! takes any branch that is ready.                      *)

Sends(s, f) ==
  /\ Goes(s, "send")
  /\ frame' = [frame EXCEPT ![s] = f]

\* Mutant: deliveries go out while an answer is being written.
RecvOvertakes(s) ==
  /\ task[s] \in {"select", "send"}
  /\ queue[s] # <<>>
  /\ queue' = [queue EXCEPT ![s] = Tail(@)]
  /\ IF task[s] = "select"
       THEN Sends(s, Head(queue[s])) /\ UNCHANGED received
       ELSE received' = [received EXCEPT ![s] = Append(@, Head(queue[s]))] /\ UNCHANGED <<task, frame>>
  /\ UNCHANGED <<registered, subscriptions, strikes, sent, queued, evicted, protocol, issued, inbox, client>>

recv(s) ==
  /\ task[s] = "select"
  /\ queue[s] # <<>>
  /\ queue' = [queue EXCEPT ![s] = Tail(@)]
  /\ Sends(s, Head(queue[s]))
  /\ UNCHANGED <<registered, subscriptions, strikes, sent, queued, evicted, clientVars>>

\* Mutant: a closed channel is not drained.
ClosedAtOnce(s) ==
  /\ task[s] = "select"
  /\ s \notin registered
  /\ Sends(s, Answer(IF protocol[s] = "WebSocket" THEN "slow_consumer" ELSE "end"))
  /\ UNCHANGED <<coreVars, clientVars>>

\* Mutant: the loop goes on over the closed channel.
ClosedIgnored(s) ==
  /\ task[s] = "select"
  /\ queue[s] = <<>>
  /\ s \notin registered
  /\ UNCHANGED vars

\* The channel is closed and drained: a WebSocket is closed with a reason, a
\* stream just ends.
recv_closed(s) ==
  /\ task[s] = "select"
  /\ queue[s] = <<>>
  /\ s \notin registered
  /\ Sends(s, Answer(IF protocol[s] = "WebSocket" THEN "slow_consumer" ELSE "end"))
  /\ UNCHANGED <<coreVars, clientVars>>

\* What a command comes to: a new set of subscriptions and an answer.
Outcome(s, command, allowed) ==
  LET same(answer) == [subscriptions |-> subscriptions[s], answer |-> answer]
      error == same(Answer("error"))
  IN CASE ~allowed \/ command.operation = "invalid" -> error
       [] allowed /\ command.operation = "ping" -> same(Answer("pong"))
       [] allowed /\ command.operation = "subscribe" ->
            IF /\ s \in registered
               /\ command.id \notin subscriptions[s]
               /\ Cardinality(Subscriptions) < max_subscriptions
              THEN [subscriptions |-> subscriptions[s] \cup {command.id},
                    answer |-> Ack("subscribed", command.id)]
              ELSE error
       [] allowed /\ command.operation = "unsubscribe" ->
            IF s \in registered /\ command.id \in subscriptions[s]
              THEN [subscriptions |-> subscriptions[s] \ {command.id},
                    answer |-> Ack("unsubscribed", command.id)]
              ELSE error

Takes(s, kind) ==
  /\ task[s] = "select"
  /\ protocol[s] = kind
  /\ inbox[s] # <<>>
  /\ Head(inbox[s]).operation # "malformed"
  /\ inbox' = [inbox EXCEPT ![s] = Tail(@)]

\* Mutant: a command over the limit is refused, but carried out.
WsRefusesLate(s, allowed) ==
  LET outcome == Outcome(s, Head(inbox[s]), TRUE)
  IN /\ Takes(s, "WebSocket")
     /\ subscriptions' = [subscriptions EXCEPT ![s] = outcome.subscriptions]
     /\ Sends(s, IF allowed THEN outcome.answer ELSE Answer("error"))
     /\ UNCHANGED <<registered, queue, strikes, sent, queued, evicted, protocol, issued, client, received>>

\* websocket_session and handle_ws_command: every command gets an answer.
ws_command(s, allowed) ==
  LET outcome == Outcome(s, Head(inbox[s]), allowed)
  IN /\ Takes(s, "WebSocket")
     /\ subscriptions' = [subscriptions EXCEPT ![s] = outcome.subscriptions]
     /\ Sends(s, outcome.answer)
     /\ UNCHANGED <<registered, queue, strikes, sent, queued, evicted, protocol, issued, client, received>>

\* connect: a command that fails ends the stream with a status.
connect_command(s, allowed) ==
  LET outcome == Outcome(s, Head(inbox[s]), allowed)
  IN /\ Takes(s, "Connect")
     /\ subscriptions' = [subscriptions EXCEPT ![s] = outcome.subscriptions]
     /\ Sends(s, IF outcome.answer.type = "error" THEN Answer("status") ELSE outcome.answer)
     /\ UNCHANGED <<registered, queue, strikes, sent, queued, evicted, protocol, issued, client, received>>

\* An error of the transport ends the session, whatever the limits.
malformed(s) ==
  /\ task[s] = "select"
  /\ inbox[s] # <<>>
  /\ Head(inbox[s]).operation = "malformed"
  /\ inbox' = [inbox EXCEPT ![s] = Tail(@)]
  /\ Sends(s, Answer(IF protocol[s] = "WebSocket" THEN "transport_close" ELSE "status"))
  /\ UNCHANGED <<coreVars, protocol, issued, client, received>>

\* The transport takes the frame as the client reads.  After the last one the
\* session ends, and its ConnectionGuard unregisters it.
write(s) ==
  /\ task[s] = "send"
  /\ client[s] = "connected"
  /\ received' = [received EXCEPT ![s] = Append(@, frame[s])]
  /\ IF frame[s].type \in Final
       THEN Goes(s, "ended") /\ Unregisters(s)
       ELSE Goes(s, "select") /\ UNCHANGED coreVars
  /\ UNCHANGED <<frame, protocol, issued, inbox, client>>

\* The client has closed its side: a read or a write of the session says so, or
\* its stream is dropped.
disconnected(s) ==
  /\ task[s] \in {"subscribing", "select", "send"}
  /\ client[s] = "gone"
  /\ Goes(s, "ended")
  /\ Unregisters(s)
  /\ UNCHANGED <<frame, clientVars>>

-----------------------------------------------------------------------------
(* Clients                                                                 *)

client_sends(s, command) ==
  /\ Interactive(s)
  /\ client[s] = "connected"
  /\ issued[s] < MaxCommands
  /\ issued' = [issued EXCEPT ![s] = @ + 1]
  /\ inbox' = [inbox EXCEPT ![s] = Append(@, command)]
  /\ UNCHANGED <<coreVars, task, frame, protocol, client, received>>

client_leaves(s) ==
  /\ client[s] = "connected"
  /\ client' = [client EXCEPT ![s] = "gone"]
  /\ UNCHANGED <<coreVars, task, frame, protocol, issued, inbox, received>>

-----------------------------------------------------------------------------
SessionStep(s) ==
  \/ \E id \in SubscriptionIds : open_stream(s, id)
  \/ open_stream_fails(s)
  \/ recv(s)
  \/ recv_closed(s)
  \/ \E allowed \in BOOLEAN : ws_command(s, allowed) \/ connect_command(s, allowed)
  \/ malformed(s)
  \/ disconnected(s)

Next ==
  \/ \E ids \in SUBSET SubscriptionIds \ {{}} : dispatch(ids)
  \/ \E s \in Sessions :
       \/ open(s)
       \/ SessionStep(s)
       \/ write(s)
       \/ \E command \in Commands : client_sends(s, command)
       \/ client_leaves(s)

Spec == Init /\ [][Next]_vars

\* The runtime polls the sessions.
FairSpec == Spec /\ \A s \in Sessions : WF_vars(SessionStep(s))

\* Moreover the clients read what is written.
ReadingSpec == FairSpec /\ \A s \in Sessions : WF_vars(write(s))

-----------------------------------------------------------------------------
(* Properties                                                              *)

Open(s) == task[s] \in {"subscribing", "select", "send"}

\* The core holds no session that has ended, and no subscription of one it does
\* not hold, whichever of the two sides ended it and at whatever point of its
\* start.  (ConnectionGuard, and the error paths of sse and subscribe before
\* there is one.)
NothingLeftBehind ==
  \A s \in Sessions :
    /\ s \in registered => Open(s)
    /\ s \notin registered => subscriptions[s] = {}

\* What was written to the client, the frame in hand included.
Written(s) == IF task[s] = "send" THEN Append(received[s], frame[s]) ELSE received[s]

\* The subscriptions a client believes it has, from the answers it was given:
\* those confirmed and not taken back since.
Confirmed(frames) ==
  {id \in SubscriptionIds : \E i \in 1..Len(frames) :
     /\ frames[i] = Ack("subscribed", id)
     /\ \A j \in (i + 1)..Len(frames) : frames[j] # Ack("unsubscribed", id)}

Believed(s) == Confirmed(Written(s))

\* As long as the core knows an interactive session, the answers written to it
\* add up to its subscriptions.  (handle_ws_command and connect answer what
\* they did, in order, and do nothing they do not answer.)
ViewAgrees == \A s \in registered : Interactive(s) => Believed(s) = subscriptions[s]

\* No delivery names a subscription before the client was told of it, although
\* the core may deliver as soon as it has subscribed.  (The task writes the
\* answer before it looks at its channel again.)
AckFirst ==
  \A s \in Sessions : Interactive(s) =>
    \A i \in 1..Len(received[s]) : received[s][i].type = "delivery" =>
      \A id \in received[s][i].ids :
        \E j \in 1..(i - 1) : received[s][j] = Ack("subscribed", id)

Deliveries(frames) == {i \in 1..Len(frames) : frames[i].type = "delivery"}

\* A WebSocket ends because the client left or sent what the transport refuses, or
\* because the core struck it out, and then with everything that was put into its
\* queue before.  (recv returns None only when the channel is closed and drained;
\* PROTOCOLS.md: application command failures "do not close an otherwise healthy
\* connection".)
EndExplained ==
  \A s \in Sessions :
    /\ protocol[s] = "WebSocket" /\ task[s] = "ended" /\ received[s] # <<>>
       => \/ client[s] = "gone"
          \/ received[s][Len(received[s])].type \in {"transport_close", "slow_consumer"}
    /\ (\E i \in 1..Len(received[s]) : received[s][i].type = "slow_consumer")
       => s \in evicted /\ Cardinality(Deliveries(received[s])) = queued[s]

\* A session the core has struck out ends.  (README.md: "Persistent slow
\* consumers are disconnected."; PROTOCOLS.md: "Core slow-consumer eviction
\* closes with `1013`".)
EvictedEnds == \A s \in Sessions : s \in evicted ~> task[s] = "ended"

=============================================================================
