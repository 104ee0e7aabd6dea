----------------------------- MODULE RouterProofs -----------------------------
(***************************************************************************)
(* Theorems about the routing core, for every number of connections,       *)
(* subscriptions, callers, dispatchers, tenants and messages: what a       *)
(* dispatch finds while others change the maps under it, and the limits,   *)
(* gauges and strikes.                                                     *)
(***************************************************************************)
EXTENDS RouterStateProofs, FiniteSetTheorems

-----------------------------------------------------------------------------
(* Counting                                                                *)

\* There are finitely many identifiers, so everything counted is finite.
LEMMA PairsFinite == IsFiniteSet(Pairs) /\ IsFiniteSet(ConnectionIds) /\ IsFiniteSet(SubscriptionIds)
BY FS_Product, RouterAssumption DEF Pairs

\* Counting a connection's subscriptions (connection.subscriptions.len()).
LEMMA SubscriptionCount ==
  ASSUME NEW c
  PROVE  Cardinality(SubscriptionsOf(c)) \in Nat
<1>1. IsFiniteSet(SubscriptionIds) /\ SubscriptionsOf(c) \subseteq SubscriptionIds
  BY RouterAssumption DEF SubscriptionsOf
<1>2. IsFiniteSet(SubscriptionsOf(c))
  BY <1>1, FS_Subset
<1> QED BY <1>2, FS_CardinalityType

\* A smaller set counts no more.
LEMMA CountsNoMore ==
  ASSUME NEW S, NEW T \in SUBSET S, IsFiniteSet(S)
  PROVE  /\ IsFiniteSet(T) /\ Cardinality(T) \in Nat /\ Cardinality(S) \in Nat
         /\ Cardinality(T) <= Cardinality(S)
BY FS_Subset, FS_CardinalityType

\* One more, below a limit, is within it.
LEMMA OneMore ==
  ASSUME NEW S, IsFiniteSet(S), NEW x, NEW T \in SUBSET (S \cup {x}), NEW limit \in Nat,
         Cardinality(S) < limit
  PROVE  Cardinality(T) <= limit
<1>1. /\ IsFiniteSet(S \cup {x}) /\ Cardinality(S) \in Nat
      /\ Cardinality(S \cup {x}) \in {Cardinality(S), Cardinality(S) + 1}
  BY FS_AddElement, FS_CardinalityType
<1>2. Cardinality(T) \in Nat /\ Cardinality(T) <= Cardinality(S \cup {x})
  BY <1>1, CountsNoMore
<1>3. QED
  BY <1>1, <1>2

\* What is left when a part is taken away.
LEMMA CountLeft ==
  ASSUME NEW S, IsFiniteSet(S), NEW T \in SUBSET S
  PROVE  /\ IsFiniteSet(S \ T) /\ Cardinality(S \ T) \in Nat
         /\ Cardinality(S \ T) = Cardinality(S) - Cardinality(T)
<1>1. S \cap T = T
  OBVIOUS
<1>2. IsFiniteSet(S \ T) /\ Cardinality(S \ T) = Cardinality(S) - Cardinality(S \cap T)
  BY Zenon, FS_Difference
<1>3. QED
  BY Zenon, <1>1, <1>2, FS_CardinalityType

\* The pairs of one connection are as many as its subscriptions.
LEMMA CountColumn ==
  ASSUME NEW c, NEW S, IsFiniteSet(S)
  PROVE  Cardinality({c} \X S) = Cardinality(S) /\ Cardinality(S) \in Nat
<1>1. IsFiniteSet({c}) /\ Cardinality({c}) = 1
  BY Zenon, FS_Singleton
<1>2. Cardinality({c} \X S) = Cardinality({c}) * Cardinality(S)
  BY Zenon, <1>1, FS_Product
<1>3. Cardinality(S) \in Nat
  BY Zenon, FS_CardinalityType
<1>4. QED
  BY <1>1, <1>2, <1>3

\* The sets the limits count are finite.
LEMMA CountedAreFinite ==
  ASSUME TypeOK
  PROVE  /\ IsFiniteSet(connections)
         /\ \A tn : IsFiniteSet(ConnectionsOf(tn)) /\ ConnectionsOf(tn) \subseteq connections
         /\ \A cs : SubscriptionsAmong(cs) \subseteq Pairs /\ IsFiniteSet(SubscriptionsAmong(cs))
         /\ \A c : IsFiniteSet(SubscriptionsOf(c))
<1>1. connections \subseteq ConnectionIds
  BY DEF TypeOK
<1>2. IsFiniteSet(connections)
  BY <1>1, PairsFinite, FS_Subset
<1>3. \A tn : IsFiniteSet(ConnectionsOf(tn)) /\ ConnectionsOf(tn) \subseteq connections
  BY <1>2, FS_Subset DEF ConnectionsOf
<1>4. \A cs : SubscriptionsAmong(cs) \subseteq Pairs /\ IsFiniteSet(SubscriptionsAmong(cs))
  BY PairsFinite, FS_Subset DEF SubscriptionsAmong
<1>5. \A c : IsFiniteSet(SubscriptionsOf(c))
  BY PairsFinite, FS_Subset DEF SubscriptionsOf
<1>6. QED
  BY <1>2, <1>3, <1>4, <1>5

-----------------------------------------------------------------------------
(* The limits                                                              *)

\* A step that registers and subscribes nothing.
Shrinks ==
  /\ connections' \subseteq connections
  /\ tenant_id' = tenant_id
  /\ \A c \in ConnectionIds, s \in SubscriptionIds :
       subscriptions'[c][s] # None => subscriptions[c][s] # None

\* Such a step exceeds no limit.
LEMMA ShrinksKeepsLimits ==
  ASSUME TypeOK, TypeOK', LimitsHold, Shrinks
  PROVE  LimitsHold'
<1>1. \A c \in ConnectionIds : SubscriptionsOf(c)' \subseteq SubscriptionsOf(c)
  BY DEF Shrinks, SubscriptionsOf
<1>2. \A cs, ds : ds \subseteq cs => SubscriptionsAmong(ds)' \subseteq SubscriptionsAmong(cs)
  BY <1>1 DEF SubscriptionsAmong, Pairs
<1>3. \A tn : ConnectionsOf(tn)' \subseteq ConnectionsOf(tn)
  BY DEF Shrinks, ConnectionsOf
<1>4. Cardinality(connections') <= max_connections
  <2>1. Cardinality(connections') <= Cardinality(connections) /\ Cardinality(connections) \in Nat
        /\ Cardinality(connections') \in Nat
    BY CountedAreFinite, CountsNoMore DEF Shrinks
  <2>2. QED
    BY <2>1, RouterAssumption DEF LimitsHold
<1>5. Cardinality(SubscriptionsAmong(connections)') <= max_subscriptions
  <2>1. SubscriptionsAmong(connections)' \subseteq SubscriptionsAmong(connections)
    BY <1>2 DEF Shrinks, SubscriptionsAmong
  <2>2. QED
    BY <2>1, CountedAreFinite, CountsNoMore, RouterAssumption DEF LimitsHold
<1>6. ASSUME NEW tn \in Tenants
      PROVE  /\ Cardinality(ConnectionsOf(tn)') <= max_connections_per_tenant
             /\ Cardinality(SubscriptionsAmong(ConnectionsOf(tn))') <= max_subscriptions_per_tenant
  <2>1. SubscriptionsAmong(ConnectionsOf(tn))' \subseteq SubscriptionsAmong(ConnectionsOf(tn))
    BY <1>2, <1>3 DEF SubscriptionsAmong
  <2>2. Cardinality(ConnectionsOf(tn)') <= max_connections_per_tenant
    BY <1>3, CountedAreFinite, CountsNoMore, RouterAssumption DEF LimitsHold
  <2>3. QED
    BY <2>1, <2>2, CountedAreFinite, CountsNoMore, RouterAssumption DEF LimitsHold
<1>7. ASSUME NEW c \in connections'
      PROVE  Cardinality(SubscriptionsOf(c)') <= max_subscriptions_per_connection
  <2>1. /\ c \in connections /\ SubscriptionsOf(c)' \subseteq SubscriptionsOf(c)
        /\ IsFiniteSet(SubscriptionsOf(c))
    BY ZenonT(30), <1>1, CountedAreFinite DEF Shrinks, TypeOK
  <2>2. Cardinality(SubscriptionsOf(c)) <= max_subscriptions_per_connection
    BY <2>1 DEF LimitsHold
  <2>3. QED
    BY <2>1, <2>2, CountsNoMore, RouterAssumption
<1>8. QED
  BY <1>4, <1>5, <1>6, <1>7 DEF LimitsHold

\* register_connection: the new connection has no subscription yet.
LEMMA RegisterKeepsLimits ==
  ASSUME TypeOK, FreshInv, LockInv, TableInv, LimitsHold,
         NEW t \in Callers, NEW tn \in Tenants \cup {Invalid}, NEW p \in Protocols,
         NEW cap \in Capacities, register_connection(t, tn, p, cap)
  PROVE  LimitsHold'
<1>1. PICK c \in ConnectionIds :
        /\ tenant_id[c] = None
        /\ connections' = connections \cup {c}
        /\ tenant_id' = [tenant_id EXCEPT ![c] = tn]
  BY ZenonT(30) DEF register_connection
<1>2. /\ ConnectionLimitOk(tn) /\ mutation_lock = None /\ subscriptions' = subscriptions
      /\ c \notin connections
  BY <1>1 DEF register_connection, FreshInv
<1>3. SubscriptionsOf(c) = {} /\ \A d : SubscriptionsOf(d)' = SubscriptionsOf(d)
  <2>1. \A s \in SubscriptionIds : subscriptions[c][s] = None
    BY <1>2, AtRest DEF TableInv
  <2>2. QED
    BY <1>2, <2>1 DEF SubscriptionsOf
<1>4. \A cs, ds : ds \subseteq cs \cup {c} => SubscriptionsAmong(ds)' \subseteq SubscriptionsAmong(cs)
  BY <1>3 DEF SubscriptionsAmong
<1>5. \A tm : ConnectionsOf(tm)' \subseteq IF tm = tn THEN ConnectionsOf(tm) \cup {c} ELSE ConnectionsOf(tm)
  BY <1>1 DEF ConnectionsOf, TypeOK
<1>6. Cardinality(connections') <= max_connections
  BY ZenonT(30), <1>1, <1>2, CountedAreFinite, OneMore, RouterAssumption DEF ConnectionLimitOk
<1>7. Cardinality(SubscriptionsAmong(connections)') <= max_subscriptions
  <2>1. SubscriptionsAmong(connections)' \subseteq SubscriptionsAmong(connections)
    BY <1>1, <1>4 DEF SubscriptionsAmong
  <2>2. QED
    BY <2>1, CountedAreFinite, CountsNoMore, RouterAssumption DEF LimitsHold
<1>8. ASSUME NEW tm \in Tenants
      PROVE  /\ Cardinality(ConnectionsOf(tm)') <= max_connections_per_tenant
             /\ Cardinality(SubscriptionsAmong(ConnectionsOf(tm))') <= max_subscriptions_per_tenant
  <2>1. SubscriptionsAmong(ConnectionsOf(tm))' \subseteq SubscriptionsAmong(ConnectionsOf(tm))
    <3>1. ConnectionsOf(tm)' \subseteq ConnectionsOf(tm) \cup {c}
      BY <1>5
    <3>2. QED
      BY <1>4, <3>1 DEF SubscriptionsAmong
  <2>2. CASE tm = tn
    <3>1. /\ ConnectionsOf(tm)' \subseteq ConnectionsOf(tm) \cup {c} /\ IsFiniteSet(ConnectionsOf(tm))
          /\ Cardinality(ConnectionsOf(tm)) < max_connections_per_tenant
      BY <1>2, <1>5, <2>2, CountedAreFinite DEF ConnectionLimitOk
    <3>2. Cardinality(ConnectionsOf(tm)') <= max_connections_per_tenant
      BY ZenonT(30), <3>1, OneMore, RouterAssumption
    <3>3. QED
      BY <2>1, <3>2, CountedAreFinite, CountsNoMore, RouterAssumption DEF LimitsHold
  <2>3. CASE tm # tn
    <3>1. ConnectionsOf(tm)' \subseteq ConnectionsOf(tm)
      BY <1>5, <2>3
    <3>2. Cardinality(ConnectionsOf(tm)') <= max_connections_per_tenant
      BY <3>1, CountedAreFinite, CountsNoMore, RouterAssumption DEF LimitsHold
    <3>3. QED
      BY <2>1, <3>2, CountedAreFinite, CountsNoMore, RouterAssumption DEF LimitsHold
  <2>4. QED
    BY <2>2, <2>3
<1>9. ASSUME NEW d \in connections'
      PROVE  Cardinality(SubscriptionsOf(d)') <= max_subscriptions_per_connection
  <2>1. CASE d = c
    BY SMTT(30), <1>3, <2>1, FS_EmptySet, RouterAssumption
  <2>2. CASE d # c
    BY ZenonT(30), <1>1, <1>3, <2>2 DEF LimitsHold
  <2>3. QED
    BY <2>1, <2>2
<1>10. QED
  BY <1>6, <1>7, <1>8, <1>9 DEF LimitsHold

\* subscribe checks the three limits on subscriptions before it adds one.
LEMMA SubscribeKeepsLimits ==
  ASSUME TypeOK, TypeOK', FreshInv, LimitsHold,
         NEW t \in Callers, NEW c \in ConnectionIds, NEW s \in SubscriptionIds,
         NEW f \in Filters, subscribe(t, c, s, f)
  PROVE  LimitsHold'
<1>1. /\ c \in connections /\ SubscriptionLimitOk(c) /\ UNCHANGED <<connections, tenant_id>>
      /\ subscriptions' = [subscriptions EXCEPT ![c][s] = f]
      /\ tenant_id[c] \in Tenants
  BY ZenonT(30) DEF subscribe, FreshInv, TypeOK
<1>2. /\ SubscriptionsOf(c)' \subseteq SubscriptionsOf(c) \cup {s}
      /\ \A d \in ConnectionIds : d # c => SubscriptionsOf(d)' = SubscriptionsOf(d)
  BY <1>1 DEF SubscriptionsOf, TypeOK
<1>3. \A cs : SubscriptionsAmong(cs)' \subseteq
                IF c \in cs THEN SubscriptionsAmong(cs) \cup {<<c, s>>} ELSE SubscriptionsAmong(cs)
  BY <1>2 DEF SubscriptionsAmong, Pairs
<1>4. \A tn : ConnectionsOf(tn)' = ConnectionsOf(tn)
  BY <1>1 DEF ConnectionsOf
<1>5. Cardinality(connections') <= max_connections
  BY <1>1 DEF LimitsHold
<1>6. Cardinality(SubscriptionsAmong(connections)') <= max_subscriptions
  <2>1. SubscriptionsAmong(connections)' \subseteq SubscriptionsAmong(connections) \cup {<<c, s>>}
    BY <1>1, <1>3 DEF SubscriptionsAmong
  <2>2. QED
    BY ZenonT(30), <1>1, <2>1, CountedAreFinite, OneMore, RouterAssumption DEF SubscriptionLimitOk
<1>7. ASSUME NEW tn \in Tenants
      PROVE  /\ Cardinality(ConnectionsOf(tn)') <= max_connections_per_tenant
             /\ Cardinality(SubscriptionsAmong(ConnectionsOf(tn))') <= max_subscriptions_per_tenant
  <2>1. Cardinality(ConnectionsOf(tn)') <= max_connections_per_tenant
    BY <1>4 DEF LimitsHold
  <2>2. CASE tn = tenant_id[c]
    <3>1. SubscriptionsAmong(ConnectionsOf(tn))' \subseteq SubscriptionsAmong(ConnectionsOf(tn)) \cup {<<c, s>>}
      BY <1>3, <1>4 DEF SubscriptionsAmong
    <3>2. Cardinality(SubscriptionsAmong(ConnectionsOf(tn))) < max_subscriptions_per_tenant
      BY <1>1, <2>2 DEF SubscriptionLimitOk
    <3>3. QED
      BY ZenonT(30), <2>1, <3>1, <3>2, CountedAreFinite, OneMore, RouterAssumption
  <2>3. CASE tn # tenant_id[c]
    <3>1. c \notin ConnectionsOf(tn)
      BY <2>3 DEF ConnectionsOf
    <3>2. SubscriptionsAmong(ConnectionsOf(tn))' \subseteq SubscriptionsAmong(ConnectionsOf(tn))
      BY <1>3, <1>4, <3>1 DEF SubscriptionsAmong
    <3>3. QED
      BY <2>1, <3>2, CountedAreFinite, CountsNoMore, RouterAssumption DEF LimitsHold
  <2>4. QED
    BY <2>2, <2>3
<1>8. ASSUME NEW d \in connections'
      PROVE  Cardinality(SubscriptionsOf(d)') <= max_subscriptions_per_connection
  <2>1. CASE d = c
    BY ZenonT(30), <1>1, <1>2, <2>1, CountedAreFinite, OneMore, RouterAssumption DEF SubscriptionLimitOk
  <2>2. CASE d # c
    BY ZenonT(30), <1>1, <1>2, <2>2 DEF LimitsHold, TypeOK
  <2>3. QED
    BY <2>1, <2>2
<1>9. QED
  BY ZenonT(30), <1>5, <1>6, <1>7, <1>8 DEF LimitsHold

\* No step exceeds a limit.
LEMMA LimitsStep ==
  ASSUME TypeOK, TypeOK', FreshInv, LockInv, TableInv, LimitsHold, [Next]_vars
  PROVE  LimitsHold'
<1>1. CASE QuietStep
  BY <1>1, QuietSteps, ShrinksKeepsLimits DEF QuietFrame, Shrinks
<1>2. ASSUME NEW t \in Callers, NEW c \in ConnectionIds, NEW s \in SubscriptionIds,
             unsubscribe(t, c, s)
      PROVE  LimitsHold'
  <2>1. Shrinks
    BY <1>2 DEF unsubscribe, Shrinks, TypeOK
  <2>2. QED
    BY ZenonT(30), <2>1, ShrinksKeepsLimits
<1>3. ASSUME NEW t \in Threads, NEW c \in ConnectionIds, RemoveConnection(t, c)
      PROVE  LimitsHold'
  <2>1. Shrinks
    BY ZenonT(30), <1>3 DEF RemoveConnection, Shrinks
  <2>2. QED
    BY SMTT(30), <2>1, ShrinksKeepsLimits
<1>4. ASSUME NEW t \in Threads, subscribe_index(t) \/ unsubscribe_index(t) \/ unregister_route(t)
      PROVE  LimitsHold'
  <2>1. Shrinks
    BY SMTT(30), <1>4 DEF subscribe_index, unsubscribe_index, unregister_route, connVars, Shrinks
  <2>2. QED
    BY ZenonT(30), <2>1, ShrinksKeepsLimits
<1>5. ASSUME NEW t \in Threads, unregister_finish(t)
      PROVE  LimitsHold'
  <2>1. Shrinks
    BY ZenonT(30), <1>5 DEF unregister_finish, Shrinks, NoSubscriptions, TypeOK
  <2>2. QED
    BY <2>1, ShrinksKeepsLimits
<1>6. QED
  BY ZenonT(30), StepKinds, RegisterKeepsLimits, SubscribeKeepsLimits, <1>1, <1>2, <1>3, <1>4, <1>5
     DEF CallerStep, UnregisterStep, unregister_connection, evict, Threads

-----------------------------------------------------------------------------
(* The gauges                                                              *)

\* The subscriptions their gauge counts: in the middle of a call the table is one
\* ahead of it.
Registered(c, s) ==
  \/ subscriptions[c][s] # None /\ ~InProgress("subscribe", c, s)
  \/ InProgress("unsubscribe", c, s)

OpenOf(p) == {c \in senders : protocol[c] = p}

RegisteredOf(p) == {q \in Pairs : protocol[q[1]] = p /\ Registered(q[1], q[2])}

\* The gauges count what has been opened and added and not yet closed and
\* removed, also while a call is at work.
GaugeInv ==
  /\ \A c \in senders : /\ protocol[c] \in Protocols
                        /\ c \in connections \/ Unregistering(c)
  /\ \A p \in Protocols : /\ active_connections[p] = Cardinality(OpenOf(p))
                          /\ active_subscriptions[p] = Cardinality(RegisteredOf(p))

\* What they count is finite.
LEMMA GaugedAreFinite ==
  ASSUME TypeOK, NEW p
  PROVE  /\ IsFiniteSet(OpenOf(p)) /\ IsFiniteSet(RegisteredOf(p))
         /\ Cardinality(OpenOf(p)) \in Nat /\ Cardinality(RegisteredOf(p)) \in Nat
<1>1. OpenOf(p) \subseteq ConnectionIds /\ RegisteredOf(p) \subseteq Pairs
  BY ZenonT(30) DEF TypeOK, OpenOf, RegisteredOf
<1>2. QED
  BY ZenonT(30), <1>1, PairsFinite, CountsNoMore

\* A step that changes none of what they count.
SameCounts ==
  /\ UNCHANGED <<gaugeVars, senders, protocol>>
  /\ \A c \in senders : Unregistering(c) \/ c \in connections => Unregistering(c)' \/ c \in connections'
  /\ \A c \in ConnectionIds, s \in SubscriptionIds : Registered(c, s)' <=> Registered(c, s)

\* Such a step keeps the gauges exact.
LEMMA SameCountsKeep ==
  ASSUME GaugeInv, SameCounts
  PROVE  GaugeInv'
<1>1. \A p : OpenOf(p)' = OpenOf(p)
  BY DEF SameCounts, OpenOf
<1>2. \A p : RegisteredOf(p)' = RegisteredOf(p)
  BY ZenonT(30) DEF SameCounts, RegisteredOf, Pairs
<1>3. QED
  BY <1>1, <1>2 DEF GaugeInv, SameCounts, gaugeVars

\* The steps outside the mutating calls leave the gauges and protocols alone.
LEMMA QuietCounts ==
  ASSUME TypeOK, LockInv, QuietStep
  PROVE  SameCounts
<1>1. QuietFrame
  BY ZenonT(30), QuietSteps
<1>2. UNCHANGED <<gaugeVars, protocol>>
  <2>1. ASSUME NEW d \in Dispatchers, NEW m \in Messages, dispatch(d, m)
        PROVE  UNCHANGED <<gaugeVars, protocol>>
    BY SMTT(30), <2>1 DEF dispatch, connVars
  <2>2. ASSUME NEW d \in Dispatchers, lookup(d) \/ match_finish(d) \/ dispatch_finish(d)
        PROVE  UNCHANGED <<gaugeVars, protocol>>
    BY ZenonT(30), <2>2 DEF lookup, match_finish, dispatch_finish, connVars
  <2>3. ASSUME NEW d \in Dispatchers, NEW c \in ConnectionIds, Visit(d, c) \/ evict_gone(d, c)
        PROVE  UNCHANGED <<gaugeVars, protocol>>
    BY <2>3 DEF Visit, evict_gone, connVars
  <2>4. ASSUME NEW c \in ConnectionIds, ReceiverStep(c) PROVE UNCHANGED <<gaugeVars, protocol>>
    BY <2>4 DEF ReceiverStep, receive, drop_receiver, connVars
  <2>5. CASE UNCHANGED vars
    BY <2>5 DEF vars, connVars
  <2>6. QED
    BY ZenonT(30), <2>1, <2>2, <2>3, <2>4, <2>5
       DEF QuietStep, visit_missing, visit_ok, visit_full, visit_closed
<1>3. /\ \A c : Unregistering(c)' <=> Unregistering(c)
      /\ \A step \in {"subscribe", "unsubscribe"} : \A c, s : InProgress(step, c, s)' <=> InProgress(step, c, s)
  BY ZenonT(30), <1>1 DEF QuietFrame, Unregistering, InProgress, TypeOK
<1>4. QED
  BY <1>1, <1>2, <1>3 DEF SameCounts, QuietFrame, Registered

\* The first halves of the calls: the table moves on, the gauges do not.
LEMMA FirstHalvesCount ==
  ASSUME TypeOK, LockInv, GaugeInv, NEW t \in Threads, NEW c \in ConnectionIds,
         \/ \E s \in SubscriptionIds, f \in Filters : subscribe(t, c, s, f)
         \/ \E s \in SubscriptionIds : unsubscribe(t, c, s)
         \/ RemoveConnection(t, c)
  PROVE  SameCounts
<1>1. /\ mutation_lock = None /\ mutation_lock' = t /\ t # None
      /\ UNCHANGED <<gaugeVars, senders, protocol>>
      /\ \A step, d, e : ~InProgress(step, d, e)
      /\ \A d : ~Unregistering(d)
  <2>1. mutation_lock = None /\ mutation_lock' = t /\ UNCHANGED <<gaugeVars, senders, protocol>>
    BY DEF subscribe, unsubscribe, RemoveConnection, Acquire, chanVars
  <2>2. QED
    BY ZenonT(30), <2>1, AtRest, RouterAssumption
<1>2. ASSUME NEW s \in SubscriptionIds, NEW f \in Filters, subscribe(t, c, s, f)
      PROVE  SameCounts
  <2>1. /\ subscriptions[c][s] = None /\ subscriptions' = [subscriptions EXCEPT ![c][s] = f]
        /\ pc'[t] = "subscribe" /\ op'[t] = Op(c, s, f, {}) /\ f # None /\ connections' = connections
    BY ZenonT(30), <1>2, RouterAssumption DEF subscribe, Acquire, TypeOK
  <2>2. \A d, e : /\ InProgress("subscribe", d, e)' <=> d = c /\ e = s
                  /\ ~InProgress("unsubscribe", d, e)'
    BY SMTT(30), <1>1, <2>1 DEF InProgress, Op
  <2>3. ASSUME NEW d \in ConnectionIds, NEW e \in SubscriptionIds
        PROVE  Registered(d, e)' <=> Registered(d, e)
    <3>1. subscriptions'[d][e] # None <=> subscriptions[d][e] # None \/ (d = c /\ e = s)
      BY ZenonT(30), <2>1 DEF TypeOK
    <3>2. QED
      BY Zenon, <1>1, <2>1, <2>2, <3>1 DEF Registered
  <2>4. QED
    BY SMTT(30), <1>1, <2>1, <2>3 DEF SameCounts
<1>3. ASSUME NEW s \in SubscriptionIds, unsubscribe(t, c, s)
      PROVE  SameCounts
  <2>1. /\ subscriptions[c][s] # None /\ subscriptions' = [subscriptions EXCEPT ![c][s] = None]
        /\ pc'[t] = "unsubscribe" /\ op'[t] = Op(c, s, subscriptions[c][s], {}) /\ connections' = connections
    BY ZenonT(30), <1>3 DEF unsubscribe, Acquire, TypeOK
  <2>2. \A d, e : /\ InProgress("unsubscribe", d, e)' <=> d = c /\ e = s
                  /\ ~InProgress("subscribe", d, e)'
    BY SMTT(30), <1>1, <2>1 DEF InProgress, Op
  <2>3. ASSUME NEW d \in ConnectionIds, NEW e \in SubscriptionIds
        PROVE  Registered(d, e)' <=> Registered(d, e)
    <3>1. subscriptions'[d][e] # None <=> subscriptions[d][e] # None /\ ~(d = c /\ e = s)
      BY ZenonT(30), <2>1 DEF TypeOK
    <3>2. QED
      BY Zenon, <1>1, <2>1, <2>2, <3>1 DEF Registered
  <2>4. QED
    BY ZenonT(30), <1>1, <2>1, <2>3 DEF SameCounts
<1>4. CASE RemoveConnection(t, c)
  <2>1. /\ connections' = connections \ {c} /\ subscriptions' = subscriptions
        /\ pc'[t] = "unregister" /\ op'[t].conn = c
    BY ZenonT(30), <1>4 DEF RemoveConnection, Acquire, TypeOK, Op
  <2>2. /\ \A d, e : ~InProgress("unsubscribe", d, e)' /\ ~InProgress("subscribe", d, e)'
        /\ Unregistering(c)'
    BY ZenonT(30), <1>1, <2>1 DEF InProgress, Unregistering
  <2>3. QED
    BY ZenonT(30), <1>1, <2>1, <2>2 DEF SameCounts, Registered
<1>5. QED
  BY ZenonT(30), <1>2, <1>3, <1>4

\* register_connection opens one connection of its protocol.
LEMMA RegisterCounts ==
  ASSUME TypeOK, FreshInv, LockInv, TableInv, GaugeInv,
         NEW t \in Callers, NEW tn \in Tenants \cup {Invalid}, NEW p \in Protocols,
         NEW cap \in Capacities, register_connection(t, tn, p, cap)
  PROVE  GaugeInv'
<1>1. PICK c \in ConnectionIds :
        /\ tenant_id[c] = None
        /\ connections' = connections \cup {c}
        /\ protocol' = [protocol EXCEPT ![c] = p]
        /\ senders' = senders \cup {c}
  BY ZenonT(30) DEF register_connection
<1>2. /\ mutation_lock = None /\ UNCHANGED <<subscriptions, active_subscriptions, mutation_lock, pc, op>>
      /\ active_connections' = [active_connections EXCEPT ![p] = @ + 1]
  BY SMTT(30) DEF register_connection
<1>3. /\ \A d : ~Unregistering(d) /\ ~Unregistering(d)'
      /\ \A step, d, e : ~InProgress(step, d, e) /\ ~InProgress(step, d, e)'
  BY ZenonT(30), <1>2, AtRest DEF InProgress, Unregistering
<1>4. c \notin senders /\ \A e \in SubscriptionIds : subscriptions[c][e] = None
  BY ZenonT(30), <1>1, <1>3 DEF GaugeInv, FreshInv, TableInv
<1>5. /\ OpenOf(p)' = OpenOf(p) \cup {c} /\ c \notin OpenOf(p)
      /\ \A q : q # p => OpenOf(q)' = OpenOf(q)
  BY ZenonT(30), <1>1, <1>4 DEF OpenOf, TypeOK
<1>6. \A q : RegisteredOf(q)' = RegisteredOf(q)
  <2>1. ASSUME NEW q, NEW r \in Pairs
        PROVE  (protocol[r[1]] = q /\ Registered(r[1], r[2]))' <=> protocol[r[1]] = q /\ Registered(r[1], r[2])
    <3>1. CASE r[1] = c
      BY ZenonT(30), <1>2, <1>3, <1>4, <3>1 DEF Registered, Pairs
    <3>2. CASE r[1] # c
      BY ZenonT(30), <1>1, <1>2, <1>3, <3>2 DEF Registered, Pairs, TypeOK
    <3>3. QED
      BY SMTT(30), <3>1, <3>2
  <2>2. QED
    BY ZenonT(30), <2>1 DEF RegisteredOf
<1>7. ASSUME NEW q \in Protocols
      PROVE  /\ active_connections'[q] = Cardinality(OpenOf(q)')
             /\ active_subscriptions'[q] = Cardinality(RegisteredOf(q)')
  <2>1. active_connections[q] = Cardinality(OpenOf(q)) /\ IsFiniteSet(OpenOf(q))
    BY ZenonT(30), GaugedAreFinite DEF GaugeInv
  <2>2. active_connections'[q] = Cardinality(OpenOf(q)')
    <3>1. CASE q = p
      <4>1. active_connections'[q] = active_connections[q] + 1
        BY <1>2, <3>1 DEF TypeOK
      <4>2. Cardinality(OpenOf(q) \cup {c}) = Cardinality(OpenOf(q)) + 1
        BY ZenonT(30), <1>5, <2>1, <3>1, FS_AddElement
      <4>3. QED
        BY ZenonT(30), <1>5, <2>1, <3>1, <4>1, <4>2
    <3>2. CASE q # p
      BY ZenonT(30), <1>2, <1>5, <2>1, <3>2 DEF TypeOK
    <3>3. QED
      BY ZenonT(30), <3>1, <3>2
  <2>3. QED
    BY ZenonT(30), <1>2, <1>6, <2>2 DEF GaugeInv
<1>8. \A d \in senders' : protocol'[d] \in Protocols /\ d \in connections'
  BY <1>1, <1>3 DEF GaugeInv, TypeOK
<1>9. QED
  BY ZenonT(30), <1>7, <1>8 DEF GaugeInv

\* A gauge that changes for one protocol only.
LEMMA OneGauge ==
  ASSUME NEW gauge \in [Protocols -> Nat], NEW later, NEW p \in Protocols, NEW count,
         later = [gauge EXCEPT ![p] = count]
  PROVE  later[p] = count /\ \A q \in Protocols \ {p} : later[q] = gauge[q]
OBVIOUS

\* The second halves of subscribe and unsubscribe: the gauge follows the index.
LEMMA SecondHalvesCount ==
  ASSUME TypeOK, LockInv, OpInv, TableInv, GaugeInv,
         NEW t \in Callers, subscribe_index(t) \/ unsubscribe_index(t)
  PROVE  GaugeInv'
<1>1. /\ t \in Threads /\ pc[t] \in {"subscribe", "unsubscribe"} /\ mutation_lock = t /\ t # None
      /\ mutation_lock' = None
      /\ UNCHANGED <<connections, senders, protocol, subscriptions, active_connections>>
  BY ZenonT(30), RouterAssumption DEF subscribe_index, unsubscribe_index, Release, connVars, chanVars, LockInv, Threads
<1>2. PICK c \in ConnectionIds, s \in SubscriptionIds :
        /\ c = op[t].conn /\ s = op[t].sub /\ c \in connections
        /\ subscriptions[c][s] # None <=> pc[t] = "subscribe"
  <2>1. /\ op[t].conn \in connections /\ op[t].sub \in SubscriptionIds /\ op[t].filter \in Filters
        /\ subscriptions[op[t].conn][op[t].sub] = IF pc[t] = "subscribe" THEN op[t].filter ELSE None
    BY ZenonT(30), <1>1 DEF OpInv
  <2>2. QED
    BY ZenonT(30), <2>1, RouterAssumption DEF TypeOK
<1>3. PICK p \in Protocols : p = protocol[c]
  BY ZenonT(30), <1>2 DEF GaugeInv, TableInv
<1>4. /\ \A d : ~Unregistering(d) /\ ~Unregistering(d)'
      /\ \A step, d, e : ~InProgress(step, d, e)'
      /\ \A step, d, e : InProgress(step, d, e) <=> step = pc[t] /\ d = c /\ e = s
  BY ZenonT(30), <1>1, <1>2 DEF InProgress, Unregistering
<1>5. \A q : OpenOf(q)' = OpenOf(q)
  BY SMTT(30), <1>1 DEF OpenOf
<1>6. \A d \in ConnectionIds, e \in SubscriptionIds :
        <<d, e>> # <<c, s>> => (Registered(d, e)' <=> Registered(d, e))
  BY ZenonT(30), <1>1, <1>4 DEF Registered
<1>7. \A q : q # p => RegisteredOf(q)' = RegisteredOf(q)
  BY ZenonT(30), <1>1, <1>3, <1>6 DEF RegisteredOf, Pairs
<1>8. /\ active_subscriptions \in [Protocols -> Nat]
      /\ \A q \in Protocols : active_subscriptions[q] = Cardinality(RegisteredOf(q))
      /\ IsFiniteSet(RegisteredOf(p)) /\ Cardinality(RegisteredOf(p)) \in Nat
  BY ZenonT(30), GaugedAreFinite DEF GaugeInv, TypeOK
<1>9. active_subscriptions' = [active_subscriptions EXCEPT ![p] = Cardinality(RegisteredOf(p)')]
  <2>1. CASE pc[t] = "subscribe"
    <3>1. active_subscriptions' = [active_subscriptions EXCEPT ![p] = active_subscriptions[p] + 1]
      BY ZenonT(30), <1>2, <1>3, <2>1 DEF subscribe_index, unsubscribe_index
    <3>2. Registered(c, s)' /\ ~Registered(c, s)
      BY SMTT(30), <1>1, <1>2, <1>4, <2>1 DEF Registered
    <3>3. RegisteredOf(p)' = RegisteredOf(p) \cup {<<c, s>>} /\ <<c, s>> \notin RegisteredOf(p)
      BY SMTT(30), <1>1, <1>3, <1>6, <3>2 DEF RegisteredOf, Pairs
    <3>4. Cardinality(RegisteredOf(p)') = Cardinality(RegisteredOf(p)) + 1
      BY ZenonT(30), <1>8, <3>3, FS_AddElement
    <3>5. QED
      BY ZenonT(30), <1>8, <3>1, <3>4
  <2>2. CASE pc[t] = "unsubscribe"
    <3>1. active_subscriptions' = [active_subscriptions EXCEPT ![p] = Decrement(active_subscriptions[p], 1)]
      BY ZenonT(30), <1>2, <1>3, <2>2 DEF subscribe_index, unsubscribe_index
    <3>2. ~Registered(c, s)' /\ Registered(c, s)
      BY ZenonT(30), <1>1, <1>2, <1>4, <2>2 DEF Registered
    <3>3. RegisteredOf(p)' = RegisteredOf(p) \ {<<c, s>>} /\ <<c, s>> \in RegisteredOf(p)
      BY SMTT(30), <1>1, <1>3, <1>6, <3>2 DEF RegisteredOf, Pairs
    <3>4. /\ Cardinality(RegisteredOf(p)') = Cardinality(RegisteredOf(p)) - 1
          /\ Cardinality(RegisteredOf(p)') \in Nat
      BY ZenonT(30), <1>8, <3>3, FS_RemoveElement, FS_CardinalityType
    <3>5. Decrement(active_subscriptions[p], 1) = Cardinality(RegisteredOf(p)')
      BY SMTT(30), <1>8, <3>4 DEF Decrement
    <3>6. QED
      BY ZenonT(30), <3>1, <3>5
  <2>3. QED
    BY <1>1, <2>1, <2>2
<1>10. \A q \in Protocols : active_subscriptions'[q] = Cardinality(RegisteredOf(q)')
  <2>1. /\ active_subscriptions'[p] = Cardinality(RegisteredOf(p)')
        /\ \A q \in Protocols \ {p} : active_subscriptions'[q] = active_subscriptions[q]
    BY ZenonT(30), <1>8, <1>9, OneGauge
  <2>2. QED
    BY ZenonT(30), <1>7, <1>8, <2>1
<1>11. QED
  BY ZenonT(30), <1>1, <1>4, <1>5, <1>10 DEF GaugeInv

\* unregister_connection closes one connection and, once and for all, removes the
\* subscriptions it had.
LEMMA FinishCounts ==
  ASSUME TypeOK, LockInv, OpInv, GaugeInv, NEW t \in Threads, unregister_finish(t)
  PROVE  GaugeInv'
<1>1. PICK c \in ConnectionIds : c = op[t].conn /\ c \in senders
  BY ZenonT(30) DEF unregister_finish, OpInv
<1>2. PICK p \in Protocols : p = protocol[c]
  BY <1>1 DEF GaugeInv
<1>3. PICK had : had = SubscriptionsOf(c) /\ IsFiniteSet(had) /\ had \subseteq SubscriptionIds
  BY ZenonT(30), CountedAreFinite DEF SubscriptionsOf
<1> DEFINE gone == {c} \X had
<1>4. /\ mutation_lock = t /\ t # None /\ mutation_lock' = None /\ pc[t] = "unregister"
      /\ record_protocol_closed(p, Cardinality(had))
      /\ subscriptions' = [subscriptions EXCEPT ![c] = NoSubscriptions]
      /\ senders' = senders \ {c}
      /\ UNCHANGED <<connections, protocol>>
  BY ZenonT(30), <1>1, <1>2, <1>3, RouterAssumption DEF unregister_finish, Release, LockInv, Threads
<1>5. /\ \A d : Unregistering(d) => d = c
      /\ \A d, e : ~InProgress("subscribe", d, e) /\ ~InProgress("unsubscribe", d, e)
      /\ \A step, d, e : ~InProgress(step, d, e)'
  BY ZenonT(30), <1>1, <1>4 DEF InProgress, Unregistering
<1>6. /\ OpenOf(p)' = OpenOf(p) \ {c} /\ c \in OpenOf(p)
      /\ \A q : q # p => OpenOf(q)' = OpenOf(q)
  BY ZenonT(30), <1>1, <1>2, <1>4 DEF OpenOf
<1>7. \A e \in SubscriptionIds : (Registered(c, e) <=> e \in had) /\ ~Registered(c, e)'
  BY ZenonT(30), <1>3, <1>4, <1>5 DEF Registered, SubscriptionsOf, NoSubscriptions, TypeOK
<1>8. \A d \in ConnectionIds, e \in SubscriptionIds :
        d # c => (Registered(d, e)' <=> Registered(d, e))
  BY ZenonT(30), <1>4, <1>5 DEF Registered, TypeOK
<1>9. /\ RegisteredOf(p)' = RegisteredOf(p) \ gone /\ gone \subseteq RegisteredOf(p)
      /\ \A q : q # p => RegisteredOf(q)' = RegisteredOf(q)
  <2>1. \A r \in Pairs : /\ r \in gone <=> r[1] = c /\ Registered(r[1], r[2])
                         /\ Registered(r[1], r[2])' <=> r[1] # c /\ Registered(r[1], r[2])
    BY <1>7, <1>8 DEF Pairs
  <2>2. gone \subseteq Pairs
    BY <1>3 DEF Pairs
  <2> HIDE DEF gone
  <2>3. QED
    BY ZenonT(30), <1>2, <1>4, <2>1, <2>2 DEF RegisteredOf
<1>10. Cardinality(gone) = Cardinality(had) /\ Cardinality(had) \in Nat
  BY Zenon, <1>3, CountColumn
<1> HIDE DEF gone
<1>11. /\ active_subscriptions \in [Protocols -> Nat] /\ active_connections \in [Protocols -> Nat]
       /\ \A q \in Protocols : /\ active_connections[q] = Cardinality(OpenOf(q))
                               /\ active_subscriptions[q] = Cardinality(RegisteredOf(q))
       /\ IsFiniteSet(RegisteredOf(p)) /\ Cardinality(RegisteredOf(p)) \in Nat
       /\ IsFiniteSet(OpenOf(p)) /\ Cardinality(OpenOf(p)) \in Nat
  BY ZenonT(30), GaugedAreFinite DEF GaugeInv, TypeOK
<1>12. active_connections' = [active_connections EXCEPT ![p] = Cardinality(OpenOf(p)')]
  <2>1. /\ Cardinality(OpenOf(p)') = Cardinality(OpenOf(p)) - 1
        /\ Cardinality(OpenOf(p)') \in Nat
    BY SMTT(30), <1>6, <1>11, FS_RemoveElement, FS_CardinalityType
  <2>2. Decrement(active_connections[p], 1) = Cardinality(OpenOf(p)')
    BY SMTT(30), <1>11, <2>1 DEF Decrement
  <2>3. QED
    BY ZenonT(30), <1>4, <2>2 DEF record_protocol_closed
<1>13. active_subscriptions' = [active_subscriptions EXCEPT ![p] = Cardinality(RegisteredOf(p)')]
  <2>1. /\ Cardinality(RegisteredOf(p) \ gone) = Cardinality(RegisteredOf(p)) - Cardinality(gone)
        /\ Cardinality(RegisteredOf(p) \ gone) \in Nat
    BY Zenon, <1>9, <1>11, CountLeft
  <2>2. Decrement(active_subscriptions[p], Cardinality(had)) = Cardinality(RegisteredOf(p)')
    BY SMTT(30), <1>9, <1>10, <1>11, <2>1 DEF Decrement
  <2>3. QED
    BY <1>4, <2>2 DEF record_protocol_closed
<1>14. \A q \in Protocols : active_connections'[q] = Cardinality(OpenOf(q)')
  <2>1. /\ active_connections'[p] = Cardinality(OpenOf(p)')
        /\ \A q \in Protocols \ {p} : active_connections'[q] = active_connections[q]
    BY ZenonT(30), <1>11, <1>12, OneGauge
  <2>2. QED
    BY ZenonT(30), <1>6, <1>11, <2>1
<1>15. \A q \in Protocols : active_subscriptions'[q] = Cardinality(RegisteredOf(q)')
  <2>1. /\ active_subscriptions'[p] = Cardinality(RegisteredOf(p)')
        /\ \A q \in Protocols \ {p} : active_subscriptions'[q] = active_subscriptions[q]
    BY ZenonT(30), <1>11, <1>13, OneGauge
  <2>2. QED
    BY ZenonT(30), <1>9, <1>11, <2>1
<1>16. \A d \in senders' : protocol'[d] \in Protocols /\ d \in connections'
  BY ZenonT(30), <1>4, <1>5 DEF GaugeInv
<1>17. QED
  BY ZenonT(30), <1>14, <1>15, <1>16 DEF GaugeInv

\* Every step keeps the gauges exact.
LEMMA GaugeStep ==
  ASSUME TypeOK, FreshInv, LockInv, OpInv, TableInv, GaugeInv, [Next]_vars
  PROVE  GaugeInv'
<1>1. CASE QuietStep
  BY ZenonT(30), <1>1, QuietCounts, SameCountsKeep
<1>2. ASSUME NEW t \in Threads, unregister_route(t)
      PROVE  GaugeInv'
  <2>1. /\ UNCHANGED <<connections, senders, protocol, subscriptions, gaugeVars, mutation_lock, pc>>
        /\ \A u \in Threads : op'[u].conn = op[u].conn /\ op'[u].sub = op[u].sub
    BY SMTT(30), <1>2 DEF unregister_route, connVars, chanVars, TypeOK, OpType
  <2>2. /\ \A d : Unregistering(d)' <=> Unregistering(d)
        /\ \A step, d, e : InProgress(step, d, e)' <=> InProgress(step, d, e)
    BY ZenonT(30), <2>1 DEF Unregistering, InProgress, TypeOK
  <2>3. SameCounts
    BY ZenonT(30), <2>1, <2>2 DEF SameCounts, Registered
  <2>4. QED
    BY ZenonT(30), <2>3, SameCountsKeep
<1>3. QED
  BY ZenonT(30), StepKinds, <1>1, <1>2, FirstHalvesCount, SameCountsKeep, RegisterCounts, SecondHalvesCount, FinishCounts
     DEF CallerStep, UnregisterStep, unregister_connection, evict, Threads

-----------------------------------------------------------------------------
(* The theorems                                                            *)

IInv ==
  /\ TypeOK /\ FreshInv /\ DispatchTyped
  /\ LockInv /\ OpInv /\ TableInv /\ IndexInv
  /\ SeenInv /\ SteadyInv
  /\ TenantIsolation

\* The conjunction is inductive: it holds of an empty Router (Router::new) and
\* every step of every thread keeps it.
THEOREM Invariance == Spec => []IInv
<1>1. Init => IInv
  <2> SUFFICES ASSUME Init PROVE IInv
    OBVIOUS
  <2> USE RouterAssumption DEF Init
  <2>1. TypeOK
    BY SMTT(30) DEF TypeOK, NoSubscriptions, NoOp, Op, OpType
  <2>2. FreshInv /\ DispatchTyped /\ LockInv /\ OpInv
    BY ZenonT(30) DEF FreshInv, DispatchTyped, LockInv, OpInv, Threads
  <2>3. TableInv
    BY ZenonT(30) DEF TableInv, NoSubscriptions
  <2>4. IndexInv
    BY ZenonT(30) DEF IndexInv, IndexEntries, IndexEntry, InProgress, Unregistering
  <2>5. SeenInv /\ SteadyInv
    BY ZenonT(30) DEF SeenInv, Seen, SteadyInv, Threads
  <2>6. TenantIsolation
    BY DEF TenantIsolation
  <2> QED BY ZenonT(30), <2>1, <2>2, <2>3, <2>4, <2>5, <2>6 DEF IInv
<1>2. IInv /\ [Next]_vars => IInv'
  <2> SUFFICES ASSUME IInv, [Next]_vars PROVE IInv'
    OBVIOUS
  <2>1. TypeOK' /\ FreshInv'
    BY Zenon, TypeStep, SubscriptionCount DEF IInv
  <2>2. DispatchTyped'
    BY <2>1, DispatchTypedStep DEF IInv
  <2>3. LockInv'
    BY LockStep DEF IInv
  <2>4. OpInv' /\ TableInv'
    BY TableStep DEF IInv
  <2>5. IndexInv'
    BY IndexStep DEF IInv
  <2>6. SeenInv'
    BY SeenStep DEF IInv
  <2>7. SteadyInv'
    BY SteadyStep DEF IInv
  <2>8. TenantIsolation'
    BY TenantStep DEF IInv
  <2> QED BY ZenonT(30), <2>1, <2>2, <2>3, <2>4, <2>5, <2>6, <2>7, <2>8 DEF IInv
<1> QED BY <1>1, <1>2, PTL DEF Spec

\* Every variable of the Router keeps its type and every channel its bound.
THEOREM TypeCorrect == Spec => []TypeOK
<1>1. IInv => TypeOK
  BY ZenonT(30) DEF IInv
<1> QED BY <1>1, Invariance, PTL

\* Between mutating calls the route index and the connection tables agree,
\* and no empty bucket is left behind (remove_from_route).
THEOREM IndexIsExact == Spec => []IndexExact
<1>1. IInv => IndexExact
  <2> SUFFICES ASSUME IInv, mutation_lock = None PROVE IndexExact
    BY DEF IndexExact
  <2>1. \A k \in RouteKey, c \in ConnectionIds, s \in SubscriptionIds :
          <<k, c, s>> \in routes <=> /\ c \in connections
                                     /\ subscriptions[c][s] # None
                                     /\ k = RouteKeyOf(subscriptions[c][s])
    BY ZenonT(30), AtRest DEF IInv, IndexInv, IndexEntries, IndexEntry
  <2>2. \A r \in routes : /\ r = <<r[1], r[2], r[3]>> /\ r[1] \in RouteKey
                          /\ r[2] \in ConnectionIds /\ r[3] \in SubscriptionIds
    BY DEF IInv, TypeOK
  <2>3. \A p \in Pairs : subscriptions[p[1]][p[2]] # None =>
          RouteKeyOf(subscriptions[p[1]][p[2]]) \in RouteKey
    BY KeyType DEF IInv, TableInv, Pairs
  <2>4. buckets = {r[1] : r \in routes}
    BY DEF IInv, IndexInv
  <2>5. \A p \in Pairs :
          p[1] \in connections /\ subscriptions[p[1]][p[2]] # None =>
            <<RouteKeyOf(subscriptions[p[1]][p[2]]), p[1], p[2]>> \in routes
    BY <2>1, <2>3 DEF Pairs
  <2>6. \A r \in routes : /\ r[2] \in connections
                          /\ subscriptions[r[2]][r[3]] # None
                          /\ r[1] = RouteKeyOf(subscriptions[r[2]][r[3]])
    BY <2>1, <2>2
  <2> QED BY ZenonT(30), <2>4, <2>5, <2>6 DEF IndexExact
<1> QED BY <1>1, Invariance, PTL

\* The lock-free lookups of dispatch miss no subscription that stays in place.
THEOREM NothingIsMissed == Spec => []NothingMissed
<1>1. IInv => NothingMissed
  BY ZenonT(30) DEF IInv, SteadyInv, NothingMissed
<1> QED BY <1>1, Invariance, PTL

\* They find none that did not match the message during the dispatch.
THEOREM NothingIsStale == Spec => []NothingStale
<1>1. IInv => NothingStale
  BY DEF IInv, SeenInv, Seen, NothingStale
<1> QED BY <1>1, Invariance, PTL

\* No message ever waits in a queue of another tenant's connection.
THEOREM TenantsAreIsolated == Spec => []TenantIsolation
<1>1. IInv => TenantIsolation
  BY DEF IInv
<1> QED BY <1>1, Invariance, PTL

\* A receiver sees its channel close only after its last route is gone.
THEOREM ChannelsCloseLast == Spec => []ChannelClosedLast
<1>1. IInv => ChannelClosedLast
  <2> SUFFICES ASSUME IInv PROVE ChannelClosedLast
    OBVIOUS
  <2>1. connections \subseteq senders
    BY ZenonT(30) DEF IInv, TypeOK, TableInv
  <2>2. ASSUME NEW r \in routes PROVE r[2] \in senders
    <3>1. /\ r = <<r[1], r[2], r[3]>> /\ r[1] \in RouteKey
          /\ r[2] \in ConnectionIds /\ r[3] \in SubscriptionIds
      BY DEF IInv, TypeOK
    <3>2. IndexEntry(r[1], r[2], r[3])
      BY ZenonT(30), <3>1 DEF IInv, IndexInv, IndexEntries
    <3>3. InProgress("unsubscribe", r[2], r[3]) => r[2] \in connections
      BY ZenonT(30) DEF InProgress, IInv, OpInv, TypeOK
    <3>4. Unregistering(r[2]) => r[2] \in senders
      BY SMTT(30) DEF Unregistering, IInv, OpInv, TypeOK
    <3> QED BY ZenonT(30), <2>1, <3>2, <3>3, <3>4 DEF IndexEntry
  <2> QED BY <2>1, <2>2 DEF ChannelClosedLast
<1> QED BY <1>1, Invariance, PTL

-----------------------------------------------------------------------------
(* What the Router counts                                                  *)

CountsInv == LimitsHold /\ StrikeInv /\ GaugeInv

LEMMA CountsInit ==
  ASSUME Init
  PROVE  CountsInv
<1>1. /\ connections = {} /\ senders = {} /\ mutation_lock = None
      /\ subscriptions = [c \in ConnectionIds |-> NoSubscriptions]
      /\ full_strikes = [c \in ConnectionIds |-> 0]
      /\ active_connections = [p \in Protocols |-> 0]
      /\ active_subscriptions = [p \in Protocols |-> 0]
  BY Zenon DEF Init
<1>2. Cardinality({}) = 0
  BY FS_EmptySet
<1>3. LimitsHold
  <2>1. \A limit \in Nat : Cardinality({}) <= limit
    BY <1>2
  <2>2. /\ SubscriptionsAmong(connections) = {}
        /\ \A tn : ConnectionsOf(tn) = {} /\ SubscriptionsAmong(ConnectionsOf(tn)) = {}
    BY <1>1 DEF SubscriptionsAmong, ConnectionsOf
  <2>3. /\ max_connections \in Nat /\ max_subscriptions \in Nat
        /\ max_connections_per_tenant \in Nat /\ max_subscriptions_per_tenant \in Nat
    BY Zenon, RouterAssumption
  <2> QED BY Zenon, <1>1, <2>1, <2>2, <2>3 DEF LimitsHold
<1>4. StrikeInv
  BY Zenon, <1>1 DEF StrikeInv, StruckOutIsEvicted
<1>5. ASSUME NEW p \in Protocols PROVE OpenOf(p) = {} /\ RegisteredOf(p) = {}
  <2>1. \A q \in Pairs : ~Registered(q[1], q[2])
    BY <1>1 DEF Pairs, Registered, InProgress, NoSubscriptions
  <2> QED BY <1>1, <2>1 DEF OpenOf, RegisteredOf
<1>6. GaugeInv
  BY ZenonT(30), <1>1, <1>2, <1>5 DEF GaugeInv
<1> QED BY Zenon, <1>3, <1>4, <1>6 DEF CountsInv

\* Limits, strikes and gauges hold in every state, half-finished calls included.
THEOREM CountsInvariant == Spec => []CountsInv
<1>1. Init => CountsInv
  BY CountsInit
<1>2. IInv /\ IInv' /\ CountsInv /\ [Next]_vars => CountsInv'
  <2> SUFFICES ASSUME IInv, IInv', CountsInv, [Next]_vars PROVE CountsInv'
    OBVIOUS
  <2>1. /\ TypeOK /\ TypeOK' /\ FreshInv /\ LockInv /\ OpInv /\ TableInv
        /\ LimitsHold /\ StrikeInv /\ GaugeInv
    BY Zenon DEF IInv, CountsInv
  <2>2. LimitsHold'
    BY Zenon, <2>1, LimitsStep
  <2>3. StrikeInv'
    BY Zenon, <2>1, StrikeStep
  <2>4. GaugeInv'
    BY Zenon, <2>1, GaugeStep
  <2> QED BY <2>2, <2>3, <2>4 DEF CountsInv
<1> QED BY <1>1, <1>2, Invariance, PTL DEF Spec

\* No limit of RouterConfig is ever exceeded, globally, for a tenant or for a
\* connection (the checks of register_connection and subscribe).
THEOREM LimitsAlwaysHold == Spec => []LimitsHold
<1>1. CountsInv => LimitsHold
  BY DEF CountsInv
<1> QED BY <1>1, CountsInvariant, PTL

\* A connection that has used up its strikes is on its way out (dispatch's
\* Full arm).
THEOREM StruckOutAreEvicted == Spec => []StruckOutIsEvicted
<1>1. CountsInv => StruckOutIsEvicted
  BY DEF CountsInv, StrikeInv
<1> QED BY <1>1, CountsInvariant, PTL

\* Between mutating calls the per-protocol gauges are exact, so none of the
\* saturating decrements of metrics.rs ever saturates for good.
THEOREM GaugesAreExact == Spec => []GaugesExact
<1>1. IInv /\ CountsInv => GaugesExact
  <2> SUFFICES ASSUME IInv, CountsInv, mutation_lock = None, NEW p \in Protocols
               PROVE  LET cs == {c \in connections : protocol[c] = p}
                      IN  /\ active_connections[p] = Cardinality(cs)
                          /\ active_subscriptions[p] = Cardinality(SubscriptionsAmong(cs))
    BY DEF GaugesExact
  <2> DEFINE cs == {c \in connections : protocol[c] = p}
  <2>1. TypeOK /\ LockInv /\ TableInv /\ GaugeInv
    BY Zenon DEF IInv, CountsInv
  <2>2. /\ \A step, c, s : ~InProgress(step, c, s)
        /\ \A c : ~Unregistering(c)
    BY Zenon, <2>1, AtRest
  <2>3. connections = senders /\ connections \subseteq ConnectionIds
    <3>1. connections \subseteq ConnectionIds /\ senders \subseteq ConnectionIds
      BY <2>1 DEF TypeOK
    <3> QED BY SMTT(30), <2>1, <2>2, <3>1 DEF TableInv, GaugeInv
  <2>4. OpenOf(p) = cs
    BY <2>3 DEF OpenOf
  <2>5. ASSUME NEW q \in Pairs
        PROVE  q \in RegisteredOf(p) <=> q \in SubscriptionsAmong(cs)
    <3>1. q[1] \in ConnectionIds /\ q[2] \in SubscriptionIds
      BY DEF Pairs
    <3>2. Registered(q[1], q[2]) <=> subscriptions[q[1]][q[2]] # None
      BY Zenon, <2>2 DEF Registered
    <3>3. subscriptions[q[1]][q[2]] # None => q[1] \in connections
      BY Zenon, <2>1, <2>2, <3>1 DEF TableInv
    <3> QED BY Zenon, <3>1, <3>2, <3>3 DEF RegisteredOf, SubscriptionsAmong, SubscriptionsOf
  <2>6. RegisteredOf(p) = SubscriptionsAmong(cs)
    BY <2>5 DEF RegisteredOf, SubscriptionsAmong
  <2> QED BY Zenon, <2>1, <2>4, <2>6 DEF GaugeInv
<1> QED BY <1>1, Invariance, CountsInvariant, PTL

=============================================================================
