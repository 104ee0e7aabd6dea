-------------------------------- MODULE Router --------------------------------
(***************************************************************************)
(* The routing core (router-core/src/router.rs).                           *)
(*                                                                         *)
(* Threads of two kinds share one Router.  Callers (protocol sessions and  *)
(* webhook workers) register connections and change subscriptions; every   *)
(* such call holds `mutation_lock` from its first effect to its last.      *)
(* Dispatchers route messages and take the lock only to evict.  Each step  *)
(* below is one access to a concurrent map: between two steps of a thread  *)
(* the others may run.  Only work no other thread can see in between is    *)
(* joined into one step.                                                   *)
(*                                                                         *)
(* A connection identifier is a fresh UUID, so an identifier is registered *)
(* at most once.  Event counters that only grow are left out, except       *)
(* slow_consumer_disconnects; the gauges are kept.                         *)
(***************************************************************************)
EXTENDS RouteMatching, Integers, Sequences, FiniteSets

CONSTANTS
  ConnectionIds,    \* identifiers ConnectionId::new may draw
  SubscriptionIds,  \* client-chosen subscription identifiers
  Protocols,        \* delivery protocols, one gauge each
  Callers,          \* threads that register, subscribe and unregister
  Dispatchers,      \* threads that dispatch messages
  Filters,          \* filters passed to subscribe, validated or not
  Messages,         \* metadata of the messages dispatched
  Capacities,       \* queue capacities asked for at registration
  max_queue_capacity,
  max_connections,
  max_connections_per_tenant,
  max_subscriptions,
  max_subscriptions_per_tenant,
  max_subscriptions_per_connection,
  slow_consumer_strikes

Threads == Callers \cup Dispatchers

ASSUME RouterAssumption ==
  /\ Callers \cap Dispatchers = {}
  /\ None \notin Threads
  /\ None \notin ConnectionIds /\ IsFiniteSet(ConnectionIds)
  /\ None \notin SubscriptionIds /\ IsFiniteSet(SubscriptionIds)
  /\ None \notin Protocols
  /\ Filters \subseteq RouteFilter
  /\ None \notin Filters
  /\ Messages \subseteq ValidMetadata
  /\ None \notin Messages
  /\ Capacities \subseteq Nat
  /\ {max_queue_capacity, max_connections, max_connections_per_tenant, max_subscriptions,
      max_subscriptions_per_tenant, max_subscriptions_per_connection} \subseteq Nat
  /\ slow_consumer_strikes \in Nat

VARIABLES
  connections,          \* identifiers present in the `connections` map
  tenant_id,            \* ConnectionState fields; None before registration
  protocol,
  capacity,
  subscriptions,        \* connection -> subscription id -> filter or None
  full_strikes,
  senders,              \* connections whose queue still has its Sender
  receivers,            \* connections whose Receiver is still held
  queue,                \* connection -> deliveries waiting in its channel
  routes,               \* entries <<key, connection, subscription>> of the index
  buckets,              \* keys present in the `routes` map
  active_connections,   \* gauges, by protocol
  active_subscriptions,
  slow_consumer_disconnects,
  mutation_lock,        \* the thread holding it, or None
  pc,                   \* what each thread is in the middle of
  op,                   \* the locals of a mutation in progress
  message,              \* the locals of a dispatch in progress ...
  lookups,              \* ... candidate keys not looked up yet
  matches,              \* ... matched <<connection, subscription>> pairs
  pending,              \* ... matched connections not visited yet
  disconnect,           \* ... connections to evict at the end
  steady,               \* history: matching subscriptions in place throughout
  seen                  \* history: matching subscriptions at any time during it

connVars == <<connections, tenant_id, protocol, capacity, subscriptions,
              full_strikes>>
chanVars == <<senders, receivers, queue>>
indexVars == <<routes, buckets>>
gaugeVars == <<active_connections, active_subscriptions>>
dispatchVars == <<message, lookups, matches, pending, disconnect>>
historyVars == <<steady, seen>>
vars == <<connVars, chanVars, indexVars, gaugeVars, slow_consumer_disconnects,
          mutation_lock, pc, op, dispatchVars, historyVars>>

-----------------------------------------------------------------------------
NoSubscriptions == [s \in SubscriptionIds |-> None]

\* The locals of a mutating call: its connection, the subscription and filter
\* at hand, and the subscriptions unregister_connection has yet to unindex.
Op(c, s, f, todo) == [conn |-> c, sub |-> s, filter |-> f, todo |-> todo]

NoOp == Op(None, None, None, {})

Pairs == ConnectionIds \X SubscriptionIds

SubscriptionsOf(c) == {s \in SubscriptionIds : subscriptions[c][s] # None}

\* The subscriptions of a set of connections, as the limit checks count them.
SubscriptionsAmong(cs) == {p \in Pairs : p[1] \in cs /\ p[2] \in SubscriptionsOf(p[1])}

ConnectionsOf(tn) == {c \in connections : tenant_id[c] = tn}

StrikeLimit == IF slow_consumer_strikes = 0 THEN 1 ELSE slow_consumer_strikes

\* metrics.rs `decrement`: gauges never wrap below zero.
Decrement(value, amount) == IF value >= amount THEN value - amount ELSE 0

Init ==
  /\ connections = {}
  /\ tenant_id = [c \in ConnectionIds |-> None]
  /\ protocol = [c \in ConnectionIds |-> None]
  /\ capacity = [c \in ConnectionIds |-> 0]
  /\ subscriptions = [c \in ConnectionIds |-> NoSubscriptions]
  /\ full_strikes = [c \in ConnectionIds |-> 0]
  /\ senders = {}
  /\ receivers = {}
  /\ queue = [c \in ConnectionIds |-> <<>>]
  /\ routes = {}
  /\ buckets = {}
  /\ active_connections = [p \in Protocols |-> 0]
  /\ active_subscriptions = [p \in Protocols |-> 0]
  /\ slow_consumer_disconnects = 0
  /\ mutation_lock = None
  /\ pc = [t \in Threads |-> "idle"]
  /\ op = [t \in Threads |-> NoOp]
  /\ message = [d \in Dispatchers |-> None]
  /\ lookups = [d \in Dispatchers |-> {}]
  /\ matches = [d \in Dispatchers |-> {}]
  /\ pending = [d \in Dispatchers |-> {}]
  /\ disconnect = [d \in Dispatchers |-> {}]
  /\ steady = [d \in Dispatchers |-> {}]
  /\ seen = [d \in Dispatchers |-> {}]

-----------------------------------------------------------------------------
(* The lock and the index                                                  *)

\* Thread t takes the lock and is inside `step` with these locals.
Acquire(t, step, locals) ==
  /\ mutation_lock = None
  /\ mutation_lock' = t
  /\ pc' = [pc EXCEPT ![t] = step]
  /\ op' = [op EXCEPT ![t] = locals]

\* The guard is dropped; a dispatcher that was evicting returns to dispatch.
Release(t) ==
  /\ mutation_lock' = None
  /\ pc' = [pc EXCEPT ![t] = IF t \in Dispatchers THEN "deliver" ELSE "idle"]
  /\ op' = [op EXCEPT ![t] = NoOp]

add_to_route(c, s, f) ==
  /\ routes' = routes \cup {<<RouteKeyOf(f), c, s>>}
  /\ buckets' = buckets \cup {RouteKeyOf(f)}

\* Mutants: the emptied bucket stays; the connection's whole list goes; the
\* list is filtered the wrong way round.
RemoveKeepingBucket(c, s, f) ==
  /\ routes' = routes \ {<<RouteKeyOf(f), c, s>>}
  /\ UNCHANGED buckets

RemoveWholeList(c, s, f) ==
  /\ routes' = {r \in routes : r[1] # RouteKeyOf(f) \/ r[2] # c}
  /\ buckets' = {r[1] : r \in routes'}

RemoveNothing(c, s, f) == UNCHANGED <<routes, buckets>>

\* The entry is dropped, and its bucket with it once it is empty.
remove_from_route(c, s, f) ==
  /\ routes' = routes \ {<<RouteKeyOf(f), c, s>>}
  /\ buckets' = IF \E r \in routes' : r[1] = RouteKeyOf(f)
                  THEN buckets ELSE buckets \ {RouteKeyOf(f)}

-----------------------------------------------------------------------------
(* Mutating calls.  A rejected call changes nothing modelled here.         *)

ConnectionLimitOk(tn) ==
  /\ Cardinality(connections) < max_connections
  /\ Cardinality(ConnectionsOf(tn)) < max_connections_per_tenant

\* One step: until a subscription names it, a connection is invisible to the
\* dispatchers, and the other callers are locked out.
register_connection(t, tn, p, cap) ==
  /\ pc[t] = "idle" /\ mutation_lock = None
  /\ validate_identifier(tn)
  /\ cap # 0 /\ cap <= max_queue_capacity
  /\ ConnectionLimitOk(tn)
  /\ \E c \in {i \in ConnectionIds : tenant_id[i] = None} :
       /\ connections' = connections \cup {c}
       /\ tenant_id' = [tenant_id EXCEPT ![c] = tn]
       /\ protocol' = [protocol EXCEPT ![c] = p]
       /\ capacity' = [capacity EXCEPT ![c] = cap]
       /\ senders' = senders \cup {c}
       /\ receivers' = receivers \cup {c}
  /\ active_connections' = [active_connections EXCEPT ![p] = @ + 1]
  /\ UNCHANGED <<subscriptions, full_strikes, queue, indexVars,
                 active_subscriptions, slow_consumer_disconnects,
                 mutation_lock, pc, op, dispatchVars, historyVars>>

\* Mutant: > for >= in the rejection.
SubscriptionLimitOffByOne(c) ==
  /\ Cardinality(SubscriptionsAmong(connections)) <= max_subscriptions
  /\ Cardinality(SubscriptionsOf(c)) < max_subscriptions_per_connection

SubscriptionLimitOk(c) ==
  /\ Cardinality(SubscriptionsAmong(connections)) < max_subscriptions
  /\ Cardinality(SubscriptionsAmong(ConnectionsOf(tenant_id[c])))
       < max_subscriptions_per_tenant
  /\ Cardinality(SubscriptionsOf(c)) < max_subscriptions_per_connection

\* Mutant: the tenant check is gone.
TenantUnchecked(c, f) == TRUE

TenantOk(c, f) == tenant_id[c] = f.tenant_id

\* subscribe, first half: the filter enters the connection's table.
subscribe(t, c, s, f) ==
  /\ pc[t] = "idle"
  /\ Validate(f)
  /\ c \in connections
  /\ SubscriptionLimitOk(c)
  /\ TenantOk(c, f)
  /\ subscriptions[c][s] = None
  /\ subscriptions' = [subscriptions EXCEPT ![c][s] = f]
  /\ Acquire(t, "subscribe", Op(c, s, f, {}))
  /\ seen' = [d \in Dispatchers |->
                IF message[d] # None /\ Matches(f, message[d])
                  THEN seen[d] \cup {<<c, s>>} ELSE seen[d]]
  /\ UNCHANGED <<connections, tenant_id, protocol, capacity, full_strikes,
                 chanVars, indexVars, gaugeVars, slow_consumer_disconnects,
                 dispatchVars, steady>>

\* subscribe, second half: the filter enters the index.
subscribe_index(t) ==
  /\ pc[t] = "subscribe"
  /\ add_to_route(op[t].conn, op[t].sub, op[t].filter)
  /\ active_subscriptions' =
       [active_subscriptions EXCEPT ![protocol[op[t].conn]] = @ + 1]
  /\ Release(t)
  /\ UNCHANGED <<connVars, chanVars, active_connections,
                 slow_consumer_disconnects, dispatchVars, historyVars>>

\* unsubscribe, first half: the filter leaves the connection's table.
unsubscribe(t, c, s) ==
  /\ pc[t] = "idle"
  /\ c \in connections
  /\ subscriptions[c][s] # None
  /\ subscriptions' = [subscriptions EXCEPT ![c][s] = None]
  /\ Acquire(t, "unsubscribe", Op(c, s, subscriptions[c][s], {}))
  /\ steady' = [d \in Dispatchers |-> steady[d] \ {<<c, s>>}]
  /\ UNCHANGED <<connections, tenant_id, protocol, capacity, full_strikes,
                 chanVars, indexVars, gaugeVars, slow_consumer_disconnects,
                 dispatchVars, seen>>

\* unsubscribe, second half: the filter leaves the index.
unsubscribe_index(t) ==
  /\ pc[t] = "unsubscribe"
  /\ remove_from_route(op[t].conn, op[t].sub, op[t].filter)
  /\ active_subscriptions' =
       [active_subscriptions EXCEPT ![protocol[op[t].conn]] = Decrement(@, 1)]
  /\ Release(t)
  /\ UNCHANGED <<connVars, chanVars, active_connections,
                 slow_consumer_disconnects, dispatchVars, historyVars>>

\* Mutant: the Sender is dropped with the map entry, before the routes.
RemoveConnectionAndSender(t, c) ==
  /\ c \in connections
  /\ connections' = connections \ {c}
  /\ senders' = senders \ {c}
  /\ Acquire(t, "unregister", Op(c, None, None, SubscriptionsOf(c)))
  /\ steady' = [d \in Dispatchers |-> {p \in steady[d] : p[1] # c}]
  /\ UNCHANGED <<tenant_id, protocol, capacity, subscriptions, full_strikes,
                 receivers, queue, indexVars, gaugeVars, seen>>

\* unregister_connection, first part: the connection leaves the map.
RemoveConnection(t, c) ==
  /\ c \in connections
  /\ connections' = connections \ {c}
  /\ Acquire(t, "unregister", Op(c, None, None, SubscriptionsOf(c)))
  /\ steady' = [d \in Dispatchers |-> {p \in steady[d] : p[1] # c}]
  /\ UNCHANGED <<tenant_id, protocol, capacity, subscriptions, full_strikes,
                 chanVars, indexVars, gaugeVars, seen>>

unregister_connection(t, c) ==
  /\ pc[t] = "idle"
  /\ RemoveConnection(t, c)
  /\ UNCHANGED <<slow_consumer_disconnects, dispatchVars>>

\* ... then its subscriptions leave the index one by one, in any order ...
unregister_route(t) ==
  /\ pc[t] = "unregister"
  /\ \E s \in op[t].todo :
       /\ remove_from_route(op[t].conn, s, subscriptions[op[t].conn][s])
       /\ op' = [op EXCEPT ![t].todo = @ \ {s}]
  /\ UNCHANGED <<connVars, chanVars, gaugeVars, slow_consumer_disconnects,
                 mutation_lock, pc, dispatchVars, historyVars>>

\* Mutant: the connection's subscriptions stay in their gauge.
ClosedKeepingSubscriptions(p, n) ==
  /\ active_connections' = [active_connections EXCEPT ![p] = Decrement(@, 1)]
  /\ UNCHANGED active_subscriptions

record_protocol_closed(p, n) ==
  /\ active_connections' = [active_connections EXCEPT ![p] = Decrement(@, 1)]
  /\ active_subscriptions' = [active_subscriptions EXCEPT ![p] = Decrement(@, n)]

\* ... and the removed ConnectionState, with the Sender it owns, is dropped.
unregister_finish(t) ==
  /\ pc[t] = "unregister"
  /\ op[t].todo = {}
  /\ LET c == op[t].conn
     IN  /\ record_protocol_closed(protocol[c], Cardinality(SubscriptionsOf(c)))
         /\ subscriptions' = [subscriptions EXCEPT ![c] = NoSubscriptions]
         /\ senders' = senders \ {c}
  /\ Release(t)
  /\ UNCHANGED <<connections, tenant_id, protocol, capacity, full_strikes,
                 receivers, queue, indexVars, slow_consumer_disconnects,
                 dispatchVars, historyVars>>

-----------------------------------------------------------------------------
(* Dispatch                                                                *)

\* The thread holding the lock is between the two halves of this call.
InProgress(step, c, s) ==
  /\ mutation_lock # None
  /\ pc[mutation_lock] = step
  /\ op[mutation_lock].conn = c
  /\ op[mutation_lock].sub = s

TableMatches(c, s, m) ==
  subscriptions[c][s] # None /\ Matches(subscriptions[c][s], m)

dispatch(d, m) ==
  /\ pc[d] = "idle"
  /\ pc' = [pc EXCEPT ![d] = "match"]
  /\ message' = [message EXCEPT ![d] = m]
  /\ lookups' = [lookups EXCEPT ![d] = Candidates(m)]
  /\ steady' = [steady EXCEPT ![d] =
       {p \in Pairs : /\ p[1] \in connections
                      /\ TableMatches(p[1], p[2], m)
                      /\ ~InProgress("subscribe", p[1], p[2])}]
  /\ seen' = [seen EXCEPT ![d] =
       {p \in Pairs : \/ TableMatches(p[1], p[2], m)
                      \/ /\ InProgress("unsubscribe", p[1], p[2])
                         /\ Matches(op[mutation_lock].filter, m)}]
  /\ UNCHANGED <<connVars, chanVars, indexVars, gaugeVars,
                 slow_consumer_disconnects, mutation_lock, op, matches,
                 pending, disconnect>>

\* One candidate key's bucket is read under its shard lock.
lookup(d) ==
  /\ pc[d] = "match"
  /\ \E k \in lookups[d] :
       /\ lookups' = [lookups EXCEPT ![d] = @ \ {k}]
       /\ matches' = [matches EXCEPT ![d] =
                        @ \cup {p \in Pairs : <<k, p[1], p[2]>> \in routes}]
  /\ UNCHANGED <<connVars, chanVars, indexVars, gaugeVars,
                 slow_consumer_disconnects, mutation_lock, pc, op, message,
                 pending, disconnect, historyVars>>

match_finish(d) ==
  /\ pc[d] = "match"
  /\ lookups[d] = {}
  /\ pc' = [pc EXCEPT ![d] = "deliver"]
  /\ pending' = [pending EXCEPT ![d] = {p[1] : p \in matches[d]}]
  /\ UNCHANGED <<connVars, chanVars, indexVars, gaugeVars,
                 slow_consumer_disconnects, mutation_lock, op, message,
                 lookups, matches, disconnect, historyVars>>

Delivery(d, c) ==
  [message |-> message[d],
   subscription_ids |-> {s \in SubscriptionIds : <<c, s>> \in matches[d]}]

\* Mutant: > for >= in the strike limit.
StruckOffByOne(strikes) == strikes > StrikeLimit

QueueFull(c) == Len(queue[c]) >= capacity[c]

Struck(strikes) == strikes >= StrikeLimit

\* The matched connection is visited, one get_mut per connection.
Visit(d, c) ==
  /\ pc[d] = "deliver"
  /\ c \in pending[d]
  /\ pending' = [pending EXCEPT ![d] = @ \ {c}]
  /\ UNCHANGED <<connections, tenant_id, protocol, capacity, subscriptions,
                 senders, receivers, indexVars, gaugeVars,
                 slow_consumer_disconnects, mutation_lock, pc, op, message,
                 lookups, matches, historyVars>>

\* It was unregistered after the match.
visit_missing(d, c) ==
  /\ Visit(d, c)
  /\ c \notin connections
  /\ UNCHANGED <<queue, full_strikes, disconnect>>

\* try_send accepts the delivery.
visit_ok(d, c) ==
  /\ Visit(d, c)
  /\ c \in connections /\ c \in receivers
  /\ ~QueueFull(c)
  /\ queue' = [queue EXCEPT ![c] = Append(@, Delivery(d, c))]
  /\ full_strikes' = [full_strikes EXCEPT ![c] = 0]
  /\ UNCHANGED disconnect

\* Mutant: dispatch waits for room.
VisitWaits(d, c) == FALSE

\* try_send finds the queue full: the delivery is dropped.
visit_full(d, c) ==
  /\ Visit(d, c)
  /\ c \in connections /\ c \in receivers
  /\ QueueFull(c)
  /\ full_strikes' = [full_strikes EXCEPT ![c] = @ + 1]
  /\ disconnect' = [disconnect EXCEPT ![d] =
                      IF Struck(full_strikes[c] + 1) THEN @ \cup {c} ELSE @]
  /\ UNCHANGED queue

\* try_send finds the receiver gone.
visit_closed(d, c) ==
  /\ Visit(d, c)
  /\ c \in connections /\ c \notin receivers
  /\ disconnect' = [disconnect EXCEPT ![d] = @ \cup {c}]
  /\ UNCHANGED <<queue, full_strikes>>

\* The disconnect loop: the counter, then unregister_connection, whose later
\* parts are the dispatcher's own unregister_route and unregister_finish.
Evict(d, c) ==
  /\ pc[d] = "deliver"
  /\ pending[d] = {}
  /\ c \in disconnect[d]
  /\ disconnect' = [disconnect EXCEPT ![d] = @ \ {c}]
  /\ slow_consumer_disconnects' = slow_consumer_disconnects + 1
  /\ UNCHANGED <<message, lookups, matches, pending>>

evict(d, c) == Evict(d, c) /\ RemoveConnection(d, c)

evict_gone(d, c) ==
  /\ Evict(d, c)
  /\ mutation_lock = None
  /\ c \notin connections
  /\ UNCHANGED <<connVars, chanVars, indexVars, gaugeVars, mutation_lock, pc,
                 op, historyVars>>

dispatch_finish(d) ==
  /\ pc[d] = "deliver"
  /\ pending[d] = {} /\ disconnect[d] = {}
  /\ pc' = [pc EXCEPT ![d] = "idle"]
  /\ message' = [message EXCEPT ![d] = None]
  /\ matches' = [matches EXCEPT ![d] = {}]
  /\ steady' = [steady EXCEPT ![d] = {}]
  /\ seen' = [seen EXCEPT ![d] = {}]
  /\ UNCHANGED <<connVars, chanVars, indexVars, gaugeVars,
                 slow_consumer_disconnects, mutation_lock, op, lookups,
                 pending, disconnect>>

-----------------------------------------------------------------------------
(* The owner of a ConnectionRegistration                                   *)

receive(c) ==
  /\ c \in receivers
  /\ Len(queue[c]) > 0
  /\ queue' = [queue EXCEPT ![c] = Tail(@)]
  /\ UNCHANGED <<connVars, senders, receivers, indexVars, gaugeVars,
                 slow_consumer_disconnects, mutation_lock, pc, op,
                 dispatchVars, historyVars>>

\* A session or worker that ends drops its receiver, and the queue with it.
drop_receiver(c) ==
  /\ c \in receivers
  /\ receivers' = receivers \ {c}
  /\ queue' = [queue EXCEPT ![c] = <<>>]
  /\ UNCHANGED <<connVars, senders, indexVars, gaugeVars,
                 slow_consumer_disconnects, mutation_lock, pc, op,
                 dispatchVars, historyVars>>

-----------------------------------------------------------------------------
CallerStep(t) ==
  \/ \E tn \in Tenants \cup {Invalid}, p \in Protocols, cap \in Capacities :
       register_connection(t, tn, p, cap)
  \/ \E c \in ConnectionIds, s \in SubscriptionIds :
       \/ \E f \in Filters : subscribe(t, c, s, f)
       \/ unsubscribe(t, c, s)
  \/ \E c \in ConnectionIds : unregister_connection(t, c)
  \/ subscribe_index(t)
  \/ unsubscribe_index(t)

\* The steps of unregister_connection once it holds the lock.
UnregisterStep(t) == unregister_route(t) \/ unregister_finish(t)

\* The steps of a dispatch once it has begun.
DispatchStep(d) ==
  \/ lookup(d)
  \/ match_finish(d)
  \/ \E c \in ConnectionIds :
       \/ visit_missing(d, c) \/ visit_ok(d, c)
       \/ visit_full(d, c) \/ visit_closed(d, c)
       \/ evict(d, c) \/ evict_gone(d, c)
  \/ dispatch_finish(d)

ReceiverStep(c) == receive(c) \/ drop_receiver(c)

Next ==
  \/ \E t \in Callers : CallerStep(t)
  \/ \E t \in Threads : UnregisterStep(t)
  \/ \E d \in Dispatchers :
       \/ \E m \in Messages : dispatch(d, m)
       \/ DispatchStep(d)
  \/ \E c \in ConnectionIds : ReceiverStep(c)

Spec == Init /\ [][Next]_vars

\* A call that has begun runs on: none of its steps waits for anything but the
\* lock, and a thread that holds the lock waits for nothing.  No fairness is
\* assumed of the lock itself, of the callers or of the receivers.
Fairness ==
  /\ \A t \in Callers : WF_vars(subscribe_index(t) \/ unsubscribe_index(t))
  /\ \A t \in Threads : WF_vars(UnregisterStep(t))
  /\ \A d \in Dispatchers : WF_vars(DispatchStep(d))

FairSpec == Spec /\ Fairness

-----------------------------------------------------------------------------
(* Properties                                                              *)

OpType ==
  [conn : ConnectionIds \cup {None}, sub : SubscriptionIds \cup {None},
   filter : Filters \cup {None}, todo : SUBSET SubscriptionIds]

DeliveryType ==
  [message : Messages, subscription_ids : SUBSET SubscriptionIds]

\* Every variable has its type, and no queue outgrows the capacity asked for
\* at registration.  (ConnectionState, Bucket, the gauges and the locals of
\* dispatch and of the mutating calls in router.rs.)
TypeOK ==
  /\ connections \subseteq ConnectionIds
  /\ tenant_id \in [ConnectionIds -> Tenants \cup {None}]
  /\ protocol \in [ConnectionIds -> Protocols \cup {None}]
  /\ capacity \in [ConnectionIds -> Nat]
  /\ subscriptions \in [ConnectionIds -> [SubscriptionIds -> Filters \cup {None}]]
  /\ full_strikes \in [ConnectionIds -> Nat]
  /\ senders \subseteq ConnectionIds
  /\ receivers \subseteq ConnectionIds
  /\ queue \in [ConnectionIds -> Seq(DeliveryType)]
  /\ \A c \in ConnectionIds : Len(queue[c]) <= capacity[c]
  /\ routes \subseteq RouteKey \X ConnectionIds \X SubscriptionIds
  /\ buckets \subseteq RouteKey
  /\ active_connections \in [Protocols -> Nat]
  /\ active_subscriptions \in [Protocols -> Nat]
  /\ slow_consumer_disconnects \in Nat
  /\ mutation_lock \in Threads \cup {None}
  /\ pc \in [Threads -> {"idle", "subscribe", "unsubscribe", "unregister",
                         "match", "deliver"}]
  /\ op \in [Threads -> OpType]
  /\ message \in [Dispatchers -> Messages \cup {None}]
  /\ lookups \in [Dispatchers -> SUBSET RouteKey]
  /\ matches \in [Dispatchers -> SUBSET Pairs]
  /\ pending \in [Dispatchers -> SUBSET ConnectionIds]
  /\ disconnect \in [Dispatchers -> SUBSET ConnectionIds]
  /\ steady \in [Dispatchers -> SUBSET Pairs]
  /\ seen \in [Dispatchers -> SUBSET Pairs]

\* Between mutating calls the index holds exactly the subscriptions of the
\* registered connections, each under its own key, and no bucket outlives its
\* last entry.  (subscribe, unsubscribe, unregister_connection and
\* remove_from_route keep two maps in step without a transaction.)
IndexExact ==
  mutation_lock = None =>
    /\ \A p \in Pairs :
         p[1] \in connections /\ subscriptions[p[1]][p[2]] # None =>
           <<RouteKeyOf(subscriptions[p[1]][p[2]]), p[1], p[2]>> \in routes
    /\ \A r \in routes : /\ r[2] \in connections
                         /\ subscriptions[r[2]][r[3]] # None
                         /\ r[1] = RouteKeyOf(subscriptions[r[2]][r[3]])
    /\ buckets = {r[1] : r \in routes}

\* A subscription that matches and is in place from the start of a dispatch to
\* the end of its lookups is found, whatever other subscriptions and
\* connections come and go between the lookups.  (dispatch reads one bucket at
\* a time, without the lock.)
NothingMissed ==
  \A d \in Dispatchers : pc[d] = "deliver" => steady[d] \subseteq matches[d]

\* A dispatch reports only subscriptions whose filter matched the message, by
\* the reference matcher, at some moment of that same dispatch: nothing stale
\* from before it and nothing that only looked alike in the index.
NothingStale ==
  \A d \in Dispatchers : matches[d] \subseteq seen[d]

\* Whatever waits in a connection's queue belongs to the connection's tenant.
\* (The tenant is checked once, in subscribe; dispatch relies on the keys.)
TenantIsolation ==
  \A c \in ConnectionIds : \A i \in 1..Len(queue[c]) :
    queue[c][i].message.tenant_id = tenant_id[c]

\* Every configured limit on connections and subscriptions holds at every
\* instant, half-finished calls included.  (RouterConfig.)
LimitsHold ==
  /\ Cardinality(connections) <= max_connections
  /\ Cardinality(SubscriptionsAmong(connections)) <= max_subscriptions
  /\ \A tn \in Tenants :
       /\ Cardinality(ConnectionsOf(tn)) <= max_connections_per_tenant
       /\ Cardinality(SubscriptionsAmong(ConnectionsOf(tn)))
            <= max_subscriptions_per_tenant
  /\ \A c \in connections :
       Cardinality(SubscriptionsOf(c)) <= max_subscriptions_per_connection

\* Between mutating calls the per-protocol gauges count what is registered.
\* (record_protocol_opened/closed and record_subscription_added/removed in
\* metrics.rs saturate, so an extra decrement would otherwise go unnoticed.)
GaugesExact ==
  mutation_lock = None =>
    \A p \in Protocols :
      LET cs == {c \in connections : protocol[c] = p}
      IN  /\ active_connections[p] = Cardinality(cs)
          /\ active_subscriptions[p] = Cardinality(SubscriptionsAmong(cs))

\* A registered connection at its strike limit is already on the eviction list
\* of a dispatch in progress: none stays registered past its last strike.
\* (The Full arm of dispatch.)
StruckOutIsEvicted ==
  \A c \in connections :
    full_strikes[c] >= StrikeLimit =>
      \E d \in Dispatchers : c \in disconnect[d]

\* A receiver sees its channel end only after the last route to it is gone:
\* whatever is registered or still indexed has a live Sender.
\* (unregister_connection drops the removed ConnectionState, and with it the
\* Sender, at the end of its scope.)
ChannelClosedLast ==
  /\ connections \subseteq senders
  /\ \A r \in routes : r[2] \in senders

\* A dispatch ends, unless other threads take the mutation lock from it for
\* ever: dispatch never waits for a receiver.
DispatchEnds ==
  \A d \in Dispatchers :
    \/ []<>(pc[d] = "idle")
    \/ []<>(\E t \in Threads \ {d} : mutation_lock = t)

\* slow_consumer_disconnects counts connections "removed after repeated queue
\* saturation" (the field's comment in metrics.rs): never more of them than
\* connections that reached the strike limit.
SlowDisconnectsAreSaturated ==
  slow_consumer_disconnects
    <= Cardinality({c \in ConnectionIds : full_strikes[c] >= StrikeLimit})

=============================================================================
