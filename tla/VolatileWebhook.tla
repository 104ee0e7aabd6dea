--------------------------- MODULE VolatileWebhook ---------------------------
(***************************************************************************)
(* WebhookManager in volatile mode (router-webhook/src/manager.rs): one    *)
(* connection of the core and one worker per destination.  Messages are    *)
(* numbered in the order of their dispatch; the core's part is what        *)
(* Router::dispatch does to the destinations' channels, in one step, since *)
(* there is one dispatcher and a worker only takes from its own channel.   *)
(***************************************************************************)
EXTENDS Integers, Sequences, FiniteSets

CONSTANTS
  Destinations,
  queue_capacity,
  slow_consumer_strikes,
  max_attempts,
  initial_backoff,       \* milliseconds
  max_backoff,
  MaxMessages            \* bound: messages dispatched

ASSUME VolatileAssumption ==
  /\ {queue_capacity, slow_consumer_strikes, max_attempts} \subseteq Nat \ {0}
  /\ initial_backoff \in Nat \ {0}
  /\ max_backoff \in Nat /\ initial_backoff <= max_backoff
  /\ MaxMessages \in Nat

VARIABLES
  sent,        \* messages dispatched
  queue,       \* destination -> its channel
  registered,  \* destinations the core knows; the others' channels are closed
  strikes,     \* destination -> consecutive full outcomes
  worker,      \* destination -> where its worker is
  message,     \* destination -> the message in hand
  attempt,
  begun,       \* destination -> messages of which a first attempt was made
  manager,     \* "running", "failed" or "stopped"
  shutdown

coreVars == <<sent, registered, strikes>>
deliverVars == <<message, attempt, begun>>
vars == <<coreVars, queue, worker, deliverVars, manager, shutdown>>

-----------------------------------------------------------------------------
\* WebhookWorker::new for every destination.
Init ==
  /\ sent = 0
  /\ queue = [d \in Destinations |-> <<>>]
  /\ registered = Destinations
  /\ strikes = [d \in Destinations |-> 0]
  /\ worker = [d \in Destinations |-> "check"]
  /\ message = [d \in Destinations |-> 0]
  /\ attempt = [d \in Destinations |-> 0]
  /\ begun = [d \in Destinations |-> <<>>]
  /\ manager = "running"
  /\ shutdown = FALSE

Running(d) == worker[d] \in {"check", "select", "attempt", "sleep"}

\* Router::dispatch of a message that the destinations in `matched' subscribe to.
dispatch(matched) ==
  LET full == {d \in matched : Len(queue[d]) >= queue_capacity}
      struck == [d \in Destinations |->
                   IF d \in full THEN strikes[d] + 1
                                 ELSE IF d \in matched THEN 0 ELSE strikes[d]]
  IN /\ sent < MaxMessages
     /\ sent' = sent + 1
     /\ queue' = [d \in Destinations |->
                    IF d \in matched \ full THEN Append(queue[d], sent + 1) ELSE queue[d]]
     /\ strikes' = struck
     /\ registered' = {d \in registered : struck[d] < slow_consumer_strikes}
     /\ UNCHANGED <<worker, deliverVars, manager, shutdown>>

-----------------------------------------------------------------------------
(* WebhookWorker::run                                                      *)

Goes(d, place) == worker' = [worker EXCEPT ![d] = place]

\* The worker is dropped, which unregisters its connection.
Ends(d, place) ==
  /\ Goes(d, place)
  /\ registered' = registered \ {d}
  /\ UNCHANGED <<sent, strikes, queue, deliverVars, manager, shutdown>>

check_continue(d) ==
  /\ worker[d] = "check"
  /\ ~shutdown
  /\ Goes(d, "select")
  /\ UNCHANGED <<coreVars, queue, deliverVars, manager, shutdown>>

stops(d) ==
  /\ worker[d] \in {"check", "select"}
  /\ shutdown
  /\ Ends(d, "stopped")

\* The channel is closed and drained.
queue_closed(d) ==
  /\ worker[d] = "select"
  /\ d \notin registered
  /\ queue[d] = <<>>
  /\ ~shutdown
  /\ Ends(d, "failed")

receive(d) ==
  /\ worker[d] = "select"
  /\ queue[d] # <<>>
  /\ queue' = [queue EXCEPT ![d] = Tail(@)]
  /\ message' = [message EXCEPT ![d] = Head(queue[d])]
  /\ attempt' = [attempt EXCEPT ![d] = 1]
  /\ begun' = [begun EXCEPT ![d] = Append(@, Head(queue[d]))]
  /\ Goes(d, "attempt")
  /\ UNCHANGED <<coreVars, manager, shutdown>>

-----------------------------------------------------------------------------
(* deliver                                                                 *)

\* Answers of a destination, and failures to get one.
Success == {"2xx"}
retryable_status == {"408", "425", "429", "5xx"}
Retryable == retryable_status \cup {"timeout", "connect", "request"}
Permanent == {"other_status", "other_error", "no_client"}

\* Delivered, permanently refused, or retries exhausted.
attempt_ends(d, answer) ==
  /\ worker[d] = "attempt"
  /\ answer \in Success \cup Permanent \/ (answer \in Retryable /\ attempt[d] >= max_attempts)
  /\ Goes(d, "check")
  /\ UNCHANGED <<coreVars, queue, deliverVars, manager, shutdown>>

attempt_retry(d, answer) ==
  /\ worker[d] = "attempt"
  /\ answer \in Retryable
  /\ attempt[d] < max_attempts
  /\ Goes(d, "sleep")
  /\ UNCHANGED <<coreVars, queue, deliverVars, manager, shutdown>>

\* Mutant: the message goes back to its queue.
SleepRequeues(d) ==
  /\ worker[d] = "sleep"
  /\ Len(queue[d]) < queue_capacity
  /\ queue' = [queue EXCEPT ![d] = Append(@, message[d])]
  /\ Goes(d, "check")
  /\ UNCHANGED <<coreVars, deliverVars, manager, shutdown>>

\* Mutant: the attempt is not counted.
SleepUncounted(d) ==
  /\ worker[d] = "sleep"
  /\ Goes(d, "attempt")
  /\ UNCHANGED <<coreVars, queue, message, attempt, begun, manager, shutdown>>

\* The sleep ends, whatever the shutdown watch says.
sleep_ends(d) ==
  /\ worker[d] = "sleep"
  /\ attempt' = [attempt EXCEPT ![d] = @ + 1]
  /\ Goes(d, "attempt")
  /\ UNCHANGED <<coreVars, queue, message, begun, manager, shutdown>>

\* saturating_mul(2).min(max_backoff)
next_delay(delay) == IF 2 * delay < max_backoff THEN 2 * delay ELSE max_backoff

\* How long the sleep after the given attempt is.  No property depends on the
\* passing of time: a sleep only ends.
delay_after[n \in Nat] == IF n <= 1 THEN initial_backoff ELSE next_delay(delay_after[n - 1])

\* DurableEndpoint::retry_delay_ms, which durable workers use instead.
retry_delay_ms(next_attempt) ==
  LET doubled[n \in Nat] == IF n = 0 THEN initial_backoff ELSE next_delay(doubled[n - 1])
      least == doubled[IF next_attempt > 2 THEN next_attempt - 2 ELSE 0]
  IN  IF least < max_backoff THEN least ELSE max_backoff

-----------------------------------------------------------------------------
(* WebhookManager::run                                                     *)

\* A worker that ended with an error ends the manager, whose JoinSet aborts the
\* other workers.
join_failed ==
  /\ manager = "running"
  /\ \E d \in Destinations : worker[d] = "failed"
  /\ manager' = "failed"
  /\ worker' = [d \in Destinations |-> IF Running(d) THEN "aborted" ELSE worker[d]]
  /\ registered' = {}
  /\ UNCHANGED <<sent, strikes, queue, deliverVars, shutdown>>

join_stopped ==
  /\ manager = "running"
  /\ \A d \in Destinations : worker[d] = "stopped"
  /\ manager' = "stopped"
  /\ UNCHANGED <<coreVars, queue, worker, deliverVars, shutdown>>

\* main, on a signal or when any component has ended.
shutdown_sent ==
  /\ ~shutdown
  /\ shutdown' = TRUE
  /\ UNCHANGED <<coreVars, queue, worker, deliverVars, manager>>

-----------------------------------------------------------------------------
WorkerStep(d) ==
  \/ check_continue(d)
  \/ stops(d)
  \/ queue_closed(d)
  \/ receive(d)
  \/ \E answer \in Success \cup Retryable \cup Permanent :
       attempt_ends(d, answer) \/ attempt_retry(d, answer)
  \/ sleep_ends(d)

ManagerStep == join_failed \/ join_stopped

Next ==
  \/ \E matched \in SUBSET registered : dispatch(matched)
  \/ \E d \in Destinations : WorkerStep(d)
  \/ ManagerStep
  \/ shutdown_sent

Spec == Init /\ [][Next]_vars

\* Requests have a timeout and sleeps end.  The messages and the shutdown come
\* or not.
Fairness ==
  /\ \A d \in Destinations : WF_vars(WorkerStep(d))
  /\ WF_vars(ManagerStep)

FairSpec == Spec /\ Fairness

-----------------------------------------------------------------------------
(* Properties                                                              *)

\* A destination gets its messages in the order of their dispatch, each begun
\* once, although deliveries are retried while others queue up behind them.
\* (deliver blocks the worker; PROTOCOLS.md: "one ordered worker".)
MessagesInOrder ==
  \A d \in Destinations : \A i, j \in 1..Len(begun[d]) : i < j => begun[d][i] < begun[d][j]

\* A message that was queued gets its attempts and leaves the worker, unless
\* the worker ends first.  (deliver makes at most max_attempts attempts.)
EveryDeliveryEnds ==
  \A d \in Destinations : \A m \in 1..MaxMessages :
    (\E i \in 1..Len(queue[d]) : queue[d][i] = m)
      ~> (~Running(d) \/ (message[d] = m /\ worker[d] = "check"))

\* While nobody asks for a shutdown, one destination does not end the work for
\* another.  (ARCHITECTURE.md: "One webhook slow: only that destination worker
\* retries and its queue can saturate.")
SlowStaysLocal == ~shutdown => \A d \in Destinations : worker[d] # "aborted"

=============================================================================
