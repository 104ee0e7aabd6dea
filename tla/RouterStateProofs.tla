-------------------------- MODULE RouterStateProofs ---------------------------
(***************************************************************************)
(* For every set of tenants and identifiers: the compiled index agrees     *)
(* with the reference matcher, keys are tenant-scoped, and a validated     *)
(* filter is determined by its key.                                        *)
(*                                                                         *)
(* For every number of threads and connections: the types, the mutation    *)
(* lock, the connection tables and the route index stay in step, and what  *)
(* a dispatch has found so far it saw. RouterProofs draws the conclusions. *)
(***************************************************************************)
EXTENDS Router, TLAPS

-----------------------------------------------------------------------------
(* Route matching                                                          *)

\* Key x agrees with message m up to wildcards in the dimensions whose
\* wildcard set (kw .. rw) is not empty.
Within(x, m, kw, tw, cw, aw, rw) ==
  /\ x.tenant_id = m.tenant_id
  /\ x.kind \in {m.kind} \cup kw
  /\ x.message_type \in {m.message_type} \cup tw
  /\ x.channel \in {m.channel} \cup cw
  /\ x.actor_id \in {m.actor_id} \cup aw
  /\ x.recipient \in {recipient_key(m)} \cup rw

\* The keys are exactly the RouteKeys within m.
Expands(keys, m, kw, tw, cw, aw, rw) ==
  /\ keys \subseteq RouteKey
  /\ \A x \in RouteKey : x \in keys <=> Within(x, m, kw, tw, cw, aw, rw)

\* Validation (RouteFilter::validate) leaves valid dimensions and a whole
\* recipient.
LEMMA ValidDimensions ==
  ASSUME NEW d \in ValidFilters
  PROVE  /\ d.tenant_id \in Tenants
         /\ d.kind \in Values \cup {None}
         /\ d.message_type \in Values \cup {None}
         /\ d.channel \in Values \cup {None}
         /\ d.actor_id \in Values \cup {None}
         /\ d.recipient_type \in Values \cup {None}
         /\ d.recipient_identity \in Values \cup {None}
         /\ (d.recipient_type = None) <=> (d.recipient_identity = None)
BY DEF ValidFilters, RouteFilter, Dimensions, Optional, Validate, validate_identifier

\* Filters and metadata have the same routing dimensions and the same checks.
LEMMA ValidMetadataIsValidFilter == ValidMetadata = ValidFilters
BY DEF ValidMetadata, ValidFilters, RoutingMetadata, RouteFilter

\* A validated filter compiles to a well-formed key (From<&RouteFilter>).
LEMMA KeyType ==
  ASSUME NEW d \in ValidFilters
  PROVE  RouteKeyOf(d) \in RouteKey
BY ValidDimensions DEF RouteKeyOf, RouteKey, recipient_key, RecipientKey, NoRecipient

\* branch_wildcard!(kind) adds the wildcard of that dimension and nothing else.
LEMMA BranchKindExpands ==
  ASSUME NEW m \in ValidMetadata, NEW keys,
         Expands(keys, m, {}, {}, {}, {}, {})
  PROVE  Expands(BranchKind(keys, m), m, {None}, {}, {}, {}, {})
<1>1. /\ m.kind \in Values \cup {None}
      /\ None \in Values \cup {None}
      /\ (m.kind # None) <=> (m.kind # None)
  BY ValidDimensions, ValidMetadataIsValidFilter, MatchingAssumption DEF recipient_key, RecipientKey, NoRecipient
<1>2. ASSUME NEW k \in RouteKey
      PROVE  /\ [k EXCEPT !.kind = None] \in RouteKey
             /\ [k EXCEPT !.kind = m.kind] \in RouteKey
             /\ k.kind = None => [[k EXCEPT !.kind = m.kind] EXCEPT !.kind = None] = k
  BY ZenonT(30), <1>1 DEF RouteKey
<1>3. ASSUME NEW k \in keys
      PROVE  /\ k \in RouteKey
             /\ Within(k, m, {None}, {}, {}, {}, {})
             /\ Within([k EXCEPT !.kind = None], m, {None}, {}, {}, {}, {})
  <2>1. k \in RouteKey /\ Within(k, m, {}, {}, {}, {}, {})
    BY DEF Expands
  <2> QED
    BY <2>1 DEF RouteKey, Within
<1>4. ASSUME NEW x \in RouteKey, Within(x, m, {None}, {}, {}, {}, {}), x \notin keys
      PROVE  /\ m.kind # None
             /\ \E k \in keys : x = [k EXCEPT !.kind = None]
  <2>1. x.kind = None /\ m.kind # None
    BY <1>4 DEF Expands, Within
  <2>2. Within([x EXCEPT !.kind = m.kind], m, {}, {}, {}, {}, {})
    BY <1>4 DEF RouteKey, Within
  <2>3. [x EXCEPT !.kind = m.kind] \in keys
    BY ZenonT(30), <2>2, <1>2 DEF Expands
  <2> QED
    BY ZenonT(30), <2>1, <2>3, <1>2
<1>5. BranchKind(keys, m) \subseteq RouteKey
  BY ZenonT(30), <1>2, <1>3 DEF BranchKind
<1>6. ASSUME NEW x \in RouteKey
      PROVE  x \in BranchKind(keys, m) <=> Within(x, m, {None}, {}, {}, {}, {})
  BY ZenonT(30), <1>1, <1>3, <1>4 DEF BranchKind
<1> QED
  BY <1>5, <1>6 DEF Expands

\* branch_wildcard!(message_type) adds the wildcard of that dimension and nothing else.
LEMMA BranchTypeExpands ==
  ASSUME NEW m \in ValidMetadata, NEW keys,
         Expands(keys, m, {None}, {}, {}, {}, {})
  PROVE  Expands(BranchType(keys, m), m, {None}, {None}, {}, {}, {})
<1>1. /\ m.message_type \in Values \cup {None}
      /\ None \in Values \cup {None}
      /\ (m.message_type # None) <=> (m.message_type # None)
  BY ValidDimensions, ValidMetadataIsValidFilter, MatchingAssumption DEF recipient_key, RecipientKey, NoRecipient
<1>2. ASSUME NEW k \in RouteKey
      PROVE  /\ [k EXCEPT !.message_type = None] \in RouteKey
             /\ [k EXCEPT !.message_type = m.message_type] \in RouteKey
             /\ k.message_type = None => [[k EXCEPT !.message_type = m.message_type] EXCEPT !.message_type = None] = k
  BY ZenonT(30), <1>1 DEF RouteKey
<1>3. ASSUME NEW k \in keys
      PROVE  /\ k \in RouteKey
             /\ Within(k, m, {None}, {None}, {}, {}, {})
             /\ Within([k EXCEPT !.message_type = None], m, {None}, {None}, {}, {}, {})
  <2>1. k \in RouteKey /\ Within(k, m, {None}, {}, {}, {}, {})
    BY DEF Expands
  <2> QED
    BY <2>1 DEF RouteKey, Within
<1>4. ASSUME NEW x \in RouteKey, Within(x, m, {None}, {None}, {}, {}, {}), x \notin keys
      PROVE  /\ m.message_type # None
             /\ \E k \in keys : x = [k EXCEPT !.message_type = None]
  <2>1. x.message_type = None /\ m.message_type # None
    BY <1>4 DEF Expands, Within
  <2>2. Within([x EXCEPT !.message_type = m.message_type], m, {None}, {}, {}, {}, {})
    BY <1>4 DEF RouteKey, Within
  <2>3. [x EXCEPT !.message_type = m.message_type] \in keys
    BY ZenonT(30), <2>2, <1>2 DEF Expands
  <2> QED
    BY ZenonT(30), <2>1, <2>3, <1>2
<1>5. BranchType(keys, m) \subseteq RouteKey
  BY ZenonT(30), <1>2, <1>3 DEF BranchType
<1>6. ASSUME NEW x \in RouteKey
      PROVE  x \in BranchType(keys, m) <=> Within(x, m, {None}, {None}, {}, {}, {})
  BY ZenonT(30), <1>1, <1>3, <1>4 DEF BranchType
<1> QED
  BY <1>5, <1>6 DEF Expands

\* branch_wildcard!(channel) adds the wildcard of that dimension and nothing else.
LEMMA BranchChannelExpands ==
  ASSUME NEW m \in ValidMetadata, NEW keys,
         Expands(keys, m, {None}, {None}, {}, {}, {})
  PROVE  Expands(BranchChannel(keys, m), m, {None}, {None}, {None}, {}, {})
<1>1. /\ m.channel \in Values \cup {None}
      /\ None \in Values \cup {None}
      /\ (m.channel # None) <=> (m.channel # None)
  BY ValidDimensions, ValidMetadataIsValidFilter, MatchingAssumption DEF recipient_key, RecipientKey, NoRecipient
<1>2. ASSUME NEW k \in RouteKey
      PROVE  /\ [k EXCEPT !.channel = None] \in RouteKey
             /\ [k EXCEPT !.channel = m.channel] \in RouteKey
             /\ k.channel = None => [[k EXCEPT !.channel = m.channel] EXCEPT !.channel = None] = k
  BY ZenonT(30), <1>1 DEF RouteKey
<1>3. ASSUME NEW k \in keys
      PROVE  /\ k \in RouteKey
             /\ Within(k, m, {None}, {None}, {None}, {}, {})
             /\ Within([k EXCEPT !.channel = None], m, {None}, {None}, {None}, {}, {})
  <2>1. k \in RouteKey /\ Within(k, m, {None}, {None}, {}, {}, {})
    BY DEF Expands
  <2> QED
    BY <2>1 DEF RouteKey, Within
<1>4. ASSUME NEW x \in RouteKey, Within(x, m, {None}, {None}, {None}, {}, {}), x \notin keys
      PROVE  /\ m.channel # None
             /\ \E k \in keys : x = [k EXCEPT !.channel = None]
  <2>1. x.channel = None /\ m.channel # None
    BY <1>4 DEF Expands, Within
  <2>2. Within([x EXCEPT !.channel = m.channel], m, {None}, {None}, {}, {}, {})
    BY <1>4 DEF RouteKey, Within
  <2>3. [x EXCEPT !.channel = m.channel] \in keys
    BY ZenonT(30), <2>2, <1>2 DEF Expands
  <2> QED
    BY ZenonT(30), <2>1, <2>3, <1>2
<1>5. BranchChannel(keys, m) \subseteq RouteKey
  BY ZenonT(30), <1>2, <1>3 DEF BranchChannel
<1>6. ASSUME NEW x \in RouteKey
      PROVE  x \in BranchChannel(keys, m) <=> Within(x, m, {None}, {None}, {None}, {}, {})
  BY ZenonT(30), <1>1, <1>3, <1>4 DEF BranchChannel
<1> QED
  BY <1>5, <1>6 DEF Expands

\* branch_wildcard!(actor_id) adds the wildcard of that dimension and nothing else.
LEMMA BranchActorExpands ==
  ASSUME NEW m \in ValidMetadata, NEW keys,
         Expands(keys, m, {None}, {None}, {None}, {}, {})
  PROVE  Expands(BranchActor(keys, m), m, {None}, {None}, {None}, {None}, {})
<1>1. /\ m.actor_id \in Values \cup {None}
      /\ None \in Values \cup {None}
      /\ (m.actor_id # None) <=> (m.actor_id # None)
  BY ValidDimensions, ValidMetadataIsValidFilter, MatchingAssumption DEF recipient_key, RecipientKey, NoRecipient
<1>2. ASSUME NEW k \in RouteKey
      PROVE  /\ [k EXCEPT !.actor_id = None] \in RouteKey
             /\ [k EXCEPT !.actor_id = m.actor_id] \in RouteKey
             /\ k.actor_id = None => [[k EXCEPT !.actor_id = m.actor_id] EXCEPT !.actor_id = None] = k
  BY ZenonT(30), <1>1 DEF RouteKey
<1>3. ASSUME NEW k \in keys
      PROVE  /\ k \in RouteKey
             /\ Within(k, m, {None}, {None}, {None}, {None}, {})
             /\ Within([k EXCEPT !.actor_id = None], m, {None}, {None}, {None}, {None}, {})
  <2>1. k \in RouteKey /\ Within(k, m, {None}, {None}, {None}, {}, {})
    BY DEF Expands
  <2> QED
    BY <2>1 DEF RouteKey, Within
<1>4. ASSUME NEW x \in RouteKey, Within(x, m, {None}, {None}, {None}, {None}, {}), x \notin keys
      PROVE  /\ m.actor_id # None
             /\ \E k \in keys : x = [k EXCEPT !.actor_id = None]
  <2>1. x.actor_id = None /\ m.actor_id # None
    BY <1>4 DEF Expands, Within
  <2>2. Within([x EXCEPT !.actor_id = m.actor_id], m, {None}, {None}, {None}, {}, {})
    BY <1>4 DEF RouteKey, Within
  <2>3. [x EXCEPT !.actor_id = m.actor_id] \in keys
    BY ZenonT(30), <2>2, <1>2 DEF Expands
  <2> QED
    BY ZenonT(30), <2>1, <2>3, <1>2
<1>5. BranchActor(keys, m) \subseteq RouteKey
  BY ZenonT(30), <1>2, <1>3 DEF BranchActor
<1>6. ASSUME NEW x \in RouteKey
      PROVE  x \in BranchActor(keys, m) <=> Within(x, m, {None}, {None}, {None}, {None}, {})
  BY ZenonT(30), <1>1, <1>3, <1>4 DEF BranchActor
<1> QED
  BY <1>5, <1>6 DEF Expands

\* branch_wildcard!(recipient) adds the wildcard of that dimension and nothing else.
LEMMA BranchRecipientExpands ==
  ASSUME NEW m \in ValidMetadata, NEW keys,
         Expands(keys, m, {None}, {None}, {None}, {None}, {})
  PROVE  Expands(BranchRecipient(keys, m), m, {None}, {None}, {None}, {None}, {NoRecipient})
<1>1. /\ recipient_key(m) \in RecipientKey \cup {NoRecipient}
      /\ NoRecipient \in RecipientKey \cup {NoRecipient}
      /\ (m.recipient_type # None) <=> (recipient_key(m) # NoRecipient)
  BY ValidDimensions, ValidMetadataIsValidFilter, MatchingAssumption DEF recipient_key, RecipientKey, NoRecipient
<1>2. ASSUME NEW k \in RouteKey
      PROVE  /\ [k EXCEPT !.recipient = NoRecipient] \in RouteKey
             /\ [k EXCEPT !.recipient = recipient_key(m)] \in RouteKey
             /\ k.recipient = NoRecipient => [[k EXCEPT !.recipient = recipient_key(m)] EXCEPT !.recipient = NoRecipient] = k
  BY ZenonT(30), <1>1 DEF RouteKey
<1>3. ASSUME NEW k \in keys
      PROVE  /\ k \in RouteKey
             /\ Within(k, m, {None}, {None}, {None}, {None}, {NoRecipient})
             /\ Within([k EXCEPT !.recipient = NoRecipient], m, {None}, {None}, {None}, {None}, {NoRecipient})
  <2>1. k \in RouteKey /\ Within(k, m, {None}, {None}, {None}, {None}, {})
    BY DEF Expands
  <2> QED
    BY <2>1 DEF RouteKey, Within
<1>4. ASSUME NEW x \in RouteKey, Within(x, m, {None}, {None}, {None}, {None}, {NoRecipient}), x \notin keys
      PROVE  /\ recipient_key(m) # NoRecipient
             /\ \E k \in keys : x = [k EXCEPT !.recipient = NoRecipient]
  <2>1. x.recipient = NoRecipient /\ recipient_key(m) # NoRecipient
    BY <1>4 DEF Expands, Within
  <2>2. Within([x EXCEPT !.recipient = recipient_key(m)], m, {None}, {None}, {None}, {None}, {})
    BY <1>4 DEF RouteKey, Within
  <2>3. [x EXCEPT !.recipient = recipient_key(m)] \in keys
    BY ZenonT(30), <2>2, <1>2 DEF Expands
  <2> QED
    BY ZenonT(30), <2>1, <2>3, <1>2
<1>5. BranchRecipient(keys, m) \subseteq RouteKey
  BY ZenonT(30), <1>2, <1>3 DEF BranchRecipient
<1>6. ASSUME NEW x \in RouteKey
      PROVE  x \in BranchRecipient(keys, m) <=> Within(x, m, {None}, {None}, {None}, {None}, {NoRecipient})
  BY ZenonT(30), <1>1, <1>3, <1>4 DEF BranchRecipient
<1> QED
  BY <1>5, <1>6 DEF Expands

\* The first key of candidates: every dimension as in the message.
LEMMA FullKeyExpands ==
  ASSUME NEW m \in ValidMetadata
  PROVE  Expands({RouteKeyOf(m)}, m, {}, {}, {}, {}, {})
<1>1. RouteKeyOf(m) \in RouteKey
  BY KeyType, ValidMetadataIsValidFilter
<1>2. ASSUME NEW x \in RouteKey, Within(x, m, {}, {}, {}, {}, {})
      PROVE  x = RouteKeyOf(m)
  BY <1>1, <1>2 DEF Within, RouteKey, RouteKeyOf
<1> QED
  BY <1>1, <1>2 DEF Expands, Within, RouteKeyOf

\* RouteKey::candidates yields every wildcard generalisation of the message
\* and nothing else.
LEMMA CandidatesExpand ==
  ASSUME NEW m \in ValidMetadata
  PROVE  Expands(Candidates(m), m, {None}, {None}, {None}, {None}, {NoRecipient})
BY ZenonT(30), FullKeyExpands, BranchKindExpands, BranchTypeExpands, BranchChannelExpands,
   BranchActorExpands, BranchRecipientExpands, Zenon DEF Candidates

\* The compiled index agrees with the reference matcher for every validated
\* filter and message: looking the message's candidates up finds exactly the
\* filters RouteFilter::matches accepts.
THEOREM IndexAgreesWithReference ==
  \A f \in ValidFilters, m \in ValidMetadata :
     (RouteKeyOf(f) \in Candidates(m)) <=> Matches(f, m)
<1> SUFFICES ASSUME NEW f \in ValidFilters, NEW m \in ValidMetadata
             PROVE  (RouteKeyOf(f) \in Candidates(m)) <=> Matches(f, m)
  OBVIOUS
<1>1. (RouteKeyOf(f) \in Candidates(m))
        <=> Within(RouteKeyOf(f), m, {None}, {None}, {None}, {None}, {NoRecipient})
  BY CandidatesExpand, KeyType DEF Expands
<1>2. (RouteKeyOf(f).recipient \in {recipient_key(m), NoRecipient})
        <=> recipient_matches(f, m)
  BY ValidDimensions, ValidMetadataIsValidFilter, MatchingAssumption
  DEF RouteKeyOf, recipient_key, NoRecipient, recipient_matches
<1> QED
  BY <1>1, <1>2 DEF Within, RouteKeyOf, Matches, optional_matches

\* Every key a message is looked up under carries the message's own tenant,
\* so no candidate can reach another tenant's bucket.
THEOREM CandidatesKeepTenant ==
  \A m \in ValidMetadata : \A k \in Candidates(m) : k.tenant_id = m.tenant_id
BY CandidatesExpand DEF Expands, Within

\* Two validated filters with one key are the same filter, so removing a
\* subscription recomputes the key it was stored under and no other.
THEOREM KeyDeterminesFilter ==
  \A f, g \in ValidFilters : RouteKeyOf(f) = RouteKeyOf(g) => f = g
<1> SUFFICES ASSUME NEW f \in ValidFilters, NEW g \in ValidFilters,
                    RouteKeyOf(f) = RouteKeyOf(g)
             PROVE  f = g
  OBVIOUS
<1>1. /\ f.tenant_id = g.tenant_id
      /\ f.kind = g.kind
      /\ f.message_type = g.message_type
      /\ f.channel = g.channel
      /\ f.actor_id = g.actor_id
      /\ recipient_key(f) = recipient_key(g)
  BY DEF RouteKeyOf
<1>2. f.recipient_type = g.recipient_type /\ f.recipient_identity = g.recipient_identity
  BY <1>1, ValidDimensions, MatchingAssumption DEF recipient_key, NoRecipient
<1> QED
  BY <1>1, <1>2 DEF ValidFilters, RouteFilter, Dimensions

-----------------------------------------------------------------------------
(* The inductive invariant                                                 *)

\* An identifier not drawn yet belongs to no connection and has no channel.
FreshInv ==
  \A c \in ConnectionIds :
    tenant_id[c] = None => c \notin connections /\ queue[c] = <<>>

\* A dispatch in progress has its message, also while it evicts.
DispatchTyped == \A d \in Dispatchers : pc[d] # "idle" => message[d] \in Messages

\* A thread is inside a mutating call exactly when it holds the lock.
LockInv ==
  /\ \A t \in Threads :
       pc[t] \in {"subscribe", "unsubscribe", "unregister"} <=> mutation_lock = t
  /\ \A t \in Callers : pc[t] \notin {"match", "deliver"}
  /\ \A d \in Dispatchers : pc[d] \notin {"subscribe", "unsubscribe"}

\* The locals of the call that holds the lock, against the tables.
OpInv ==
  \A t \in Threads :
    /\ pc[t] \in {"subscribe", "unsubscribe"} =>
         /\ op[t].conn \in connections
         /\ op[t].sub \in SubscriptionIds
         /\ op[t].filter \in ValidFilters \cap Filters
         /\ op[t].filter.tenant_id = tenant_id[op[t].conn]
         /\ subscriptions[op[t].conn][op[t].sub] =
              IF pc[t] = "subscribe" THEN op[t].filter ELSE None
    /\ pc[t] = "unregister" =>
         /\ op[t].conn \in ConnectionIds \ connections
         /\ op[t].conn \in senders
         /\ tenant_id[op[t].conn] # None
         /\ op[t].todo \subseteq SubscriptionsOf(op[t].conn)

Unregistering(c) ==
  /\ mutation_lock # None
  /\ pc[mutation_lock] = "unregister"
  /\ op[mutation_lock].conn = c

\* What a connection's table holds: validated filters of its own tenant, and
\* nothing once it is unregistered.
TableInv ==
  \A c \in ConnectionIds :
    /\ c \in connections => c \in senders
    /\ \A s \in SubscriptionIds :
         subscriptions[c][s] # None =>
           /\ subscriptions[c][s] \in ValidFilters
           /\ subscriptions[c][s].tenant_id = tenant_id[c]
           /\ c \in connections \/ Unregistering(c)

\* When the index holds an entry: at rest, as the table says; in the middle of
\* a call, what the call has not added yet, or not removed yet.
IndexEntry(k, c, s) ==
  \/ /\ c \in connections
     /\ subscriptions[c][s] # None
     /\ k = RouteKeyOf(subscriptions[c][s])
     /\ ~InProgress("subscribe", c, s)
  \/ /\ InProgress("unsubscribe", c, s)
     /\ k = RouteKeyOf(op[mutation_lock].filter)
  \/ /\ Unregistering(c)
     /\ s \in op[mutation_lock].todo
     /\ k = RouteKeyOf(subscriptions[c][s])

IndexEntries ==
  \A k \in RouteKey, c \in ConnectionIds, s \in SubscriptionIds :
    <<k, c, s>> \in routes <=> IndexEntry(k, c, s)

IndexInv == IndexEntries /\ buckets = {r[1] : r \in routes}

\* Whatever a dispatch may still find, or has found, matched during it.
Seen(d) ==
  /\ matches[d] \subseteq seen[d]
  /\ pc[d] = "idle" => matches[d] = {} /\ pending[d] = {}
  /\ pc[d] # "idle" =>
       /\ lookups[d] \subseteq Candidates(message[d])
       /\ \A p \in Pairs :
            /\ TableMatches(p[1], p[2], message[d]) => p \in seen[d]
            /\ \A k \in Candidates(message[d]) :
                 <<k, p[1], p[2]>> \in routes => p \in seen[d]
       /\ \A p \in seen[d] : tenant_id[p[1]] = message[d].tenant_id
       /\ \A c \in pending[d] : \E s \in SubscriptionIds : <<c, s>> \in matches[d]

SeenInv == \A d \in Dispatchers : Seen(d)

\* A subscription in place throughout is found or will be looked up.
SteadyInv ==
  \A d \in Dispatchers : \A p \in steady[d] :
    /\ pc[d] = "match" =>
         /\ p[1] \in connections
         /\ TableMatches(p[1], p[2], message[d])
         /\ ~InProgress("subscribe", p[1], p[2])
         /\ p \in matches[d] \/ RouteKeyOf(subscriptions[p[1]][p[2]]) \in lookups[d]
    /\ pc[d] # "match" => p \in matches[d]

-----------------------------------------------------------------------------
(* Type correctness                                                        *)

\* A saturating gauge (metrics.rs `decrement`) stays a natural number.
LEMMA DecrementType ==
  ASSUME NEW value \in Nat, NEW amount \in Nat
  PROVE  Decrement(value, amount) \in Nat
BY DEF Decrement

\* The candidates of a validated message are well-formed keys.
LEMMA CandidatesType ==
  ASSUME NEW m \in Messages
  PROVE  Candidates(m) \subseteq RouteKey
BY ZenonT(30), CandidatesExpand, RouterAssumption DEF Expands

\* No step of any caller, dispatcher or receiver leaves the types of router.rs,
\* and try_send never overfills a channel.  What RemoveConnection counts is a
\* number (connection.subscriptions.len()).
LEMMA TypeStep ==
  ASSUME TypeOK, FreshInv, DispatchTyped, OpInv, [Next]_vars,
         \A c : Cardinality(SubscriptionsOf(c)) \in Nat
  PROVE  TypeOK' /\ FreshInv'
<1> USE RouterAssumption, MatchingAssumption
<1>1. ASSUME NEW t \in Callers, NEW tn \in Tenants \cup {Invalid}, NEW p \in Protocols,
             NEW cap \in Capacities, register_connection(t, tn, p, cap)
      PROVE  TypeOK' /\ FreshInv'
  <2>1. PICK c \in ConnectionIds :
          /\ tenant_id[c] = None
          /\ connections' = connections \cup {c}
          /\ tenant_id' = [tenant_id EXCEPT ![c] = tn]
          /\ protocol' = [protocol EXCEPT ![c] = p]
          /\ capacity' = [capacity EXCEPT ![c] = cap]
          /\ senders' = senders \cup {c}
          /\ receivers' = receivers \cup {c}
    BY ZenonT(30), <1>1 DEF register_connection
  <2>2. queue[c] = <<>> /\ Len(queue[c]) = 0 /\ queue' = queue /\ tn \in Tenants
    BY <1>1, <2>1 DEF FreshInv, register_connection, validate_identifier
  <2>3. /\ tenant_id \in [ConnectionIds -> Tenants \cup {None}]
        /\ protocol \in [ConnectionIds -> Protocols \cup {None}]
        /\ capacity \in [ConnectionIds -> Nat]
        /\ active_connections \in [Protocols -> Nat]
        /\ active_connections' = [active_connections EXCEPT ![p] = @ + 1]
        /\ \A i \in ConnectionIds : Len(queue[i]) <= capacity[i]
    BY ZenonT(30), <1>1 DEF TypeOK, register_connection
  <2>4. /\ tenant_id' \in [ConnectionIds -> Tenants \cup {None}]
        /\ protocol' \in [ConnectionIds -> Protocols \cup {None}]
        /\ capacity' \in [ConnectionIds -> Nat]
        /\ active_connections' \in [Protocols -> Nat]
        /\ \A i \in ConnectionIds : Len(queue'[i]) <= capacity'[i]
    BY <2>1, <2>2, <2>3
  <2>5. TypeOK'
    BY ZenonT(30), <1>1, <2>1, <2>2, <2>4
       DEF TypeOK, register_connection, indexVars, dispatchVars, historyVars
  <2>6. ASSUME NEW i \in ConnectionIds, tenant_id'[i] = None
        PROVE  i \notin connections' /\ queue'[i] = <<>>
    <3>1. i # c
      BY <2>1, <2>2, <2>3, <2>6
    <3> QED BY Zenon, <2>1, <2>2, <2>3, <2>6, <3>1 DEF FreshInv
  <2> QED BY Zenon, <2>5, <2>6 DEF FreshInv
<1>2. ASSUME NEW t \in Callers, NEW c \in ConnectionIds, NEW s \in SubscriptionIds,
             NEW f \in Filters, subscribe(t, c, s, f)
      PROVE  TypeOK' /\ FreshInv'
  <2>1. t \in Threads /\ <<c, s>> \in Pairs
    BY DEF Threads, Pairs
  <2>2. /\ subscriptions' \in [ConnectionIds -> [SubscriptionIds -> Filters \cup {None}]]
        /\ seen' \in [Dispatchers -> SUBSET Pairs]
    BY ZenonT(30), <1>2, <2>1 DEF TypeOK, subscribe
  <2>3. /\ op' \in [Threads -> OpType]
        /\ mutation_lock' \in Threads \cup {None}
        /\ pc' \in [Threads -> {"idle", "subscribe", "unsubscribe", "unregister",
                                "match", "deliver"}]
    BY ZenonT(30), <1>2, <2>1 DEF TypeOK, subscribe, Acquire, Op, OpType
  <2> QED
    BY ZenonT(30), <1>2, <2>2, <2>3
       DEF TypeOK, FreshInv, subscribe, chanVars, indexVars, gaugeVars, dispatchVars
<1>3. ASSUME NEW t \in Callers, NEW c \in ConnectionIds, NEW s \in SubscriptionIds,
             unsubscribe(t, c, s)
      PROVE  TypeOK' /\ FreshInv'
  <2>1. t \in Threads
    BY DEF Threads
  <2>2. /\ subscriptions' \in [ConnectionIds -> [SubscriptionIds -> Filters \cup {None}]]
        /\ steady' \in [Dispatchers -> SUBSET Pairs]
    BY ZenonT(30), <1>3 DEF TypeOK, unsubscribe
  <2>3. Op(c, s, subscriptions[c][s], {}) \in OpType
    <3>1. subscriptions \in [ConnectionIds -> [SubscriptionIds -> Filters \cup {None}]]
      BY Zenon DEF TypeOK
    <3> QED BY <3>1 DEF Op, OpType
  <2>4. /\ op' \in [Threads -> OpType]
        /\ mutation_lock' \in Threads \cup {None}
        /\ pc' \in [Threads -> {"idle", "subscribe", "unsubscribe", "unregister",
                                "match", "deliver"}]
    BY ZenonT(30), <1>3, <2>1, <2>3 DEF TypeOK, unsubscribe, Acquire
  <2> QED
    BY ZenonT(30), <1>3, <2>2, <2>4
       DEF TypeOK, FreshInv, unsubscribe, chanVars, indexVars, gaugeVars, dispatchVars
<1>4. ASSUME NEW t \in Threads, NEW c \in ConnectionIds, RemoveConnection(t, c),
             UNCHANGED <<message, lookups, matches, pending>>,
             disconnect' \in [Dispatchers -> SUBSET ConnectionIds],
             slow_consumer_disconnects' \in Nat
      PROVE  TypeOK' /\ FreshInv'
  <2>1. /\ connections' \subseteq ConnectionIds
        /\ op' \in [Threads -> OpType]
        /\ mutation_lock' \in Threads \cup {None}
        /\ pc' \in [Threads -> {"idle", "subscribe", "unsubscribe", "unregister",
                                "match", "deliver"}]
    BY ZenonT(30), <1>4 DEF TypeOK, RemoveConnection, Acquire, Op, OpType, SubscriptionsOf
  <2>2. steady' \in [Dispatchers -> SUBSET Pairs]
    BY ZenonT(30), <1>4 DEF TypeOK, RemoveConnection
  <2> QED
    BY ZenonT(30), <1>4, <2>1, <2>2
       DEF TypeOK, FreshInv, RemoveConnection, chanVars, indexVars, gaugeVars
<1>5. ASSUME NEW t \in Callers, subscribe_index(t)
      PROVE  TypeOK' /\ FreshInv'
  <2>1. /\ op[t].conn \in ConnectionIds
        /\ op[t].sub \in SubscriptionIds
        /\ RouteKeyOf(op[t].filter) \in RouteKey
    BY <1>5, KeyType DEF TypeOK, OpInv, subscribe_index, Threads
  <2>2. /\ routes' \subseteq RouteKey \X ConnectionIds \X SubscriptionIds
        /\ buckets' \subseteq RouteKey
    BY <1>5, <2>1 DEF TypeOK, subscribe_index, add_to_route
  <2>3. active_subscriptions' \in [Protocols -> Nat]
    <3>1. active_subscriptions \in [Protocols -> Nat]
      BY SMTT(30) DEF TypeOK
    <3>2. PICK p : active_subscriptions' = [active_subscriptions EXCEPT ![p] = @ + 1]
      BY ZenonT(30), <1>5 DEF subscribe_index
    <3>3. CASE p \in Protocols
      BY <3>1, <3>2, <3>3
    <3>4. CASE p \notin Protocols
      <4>1. DOMAIN active_subscriptions' = Protocols
        BY <3>1, <3>2
      <4>2. \A q \in Protocols : active_subscriptions'[q] = active_subscriptions[q]
        BY ZenonT(30), <3>1, <3>2, <3>4
      <4> QED BY ZenonT(30), <3>1, <3>2, <4>1, <4>2
    <3> QED BY <3>3, <3>4
  <2>4. /\ mutation_lock' \in Threads \cup {None}
        /\ op' \in [Threads -> OpType]
        /\ pc' \in [Threads -> {"idle", "subscribe", "unsubscribe", "unregister",
                                "match", "deliver"}]
    BY <1>5 DEF TypeOK, subscribe_index, Release, NoOp, Op, OpType, Threads
  <2> QED
    BY ZenonT(30), <1>5, <2>1, <2>2, <2>3, <2>4
       DEF TypeOK, FreshInv, subscribe_index, connVars, chanVars, dispatchVars,
           historyVars
<1>6. ASSUME NEW t \in Callers, unsubscribe_index(t)
      PROVE  TypeOK' /\ FreshInv'
  BY ZenonT(30), <1>6, DecrementType
     DEF TypeOK, FreshInv, unsubscribe_index, remove_from_route, Release, NoOp, Op,
         OpType, Threads, connVars, chanVars, dispatchVars, historyVars
<1>7. ASSUME NEW t \in Threads, unregister_route(t)
      PROVE  TypeOK' /\ FreshInv'
  <2>1. PICK s \in op[t].todo :
          /\ remove_from_route(op[t].conn, s, subscriptions[op[t].conn][s])
          /\ op' = [op EXCEPT ![t].todo = @ \ {s}]
    BY ZenonT(30), <1>7 DEF unregister_route
  <2>2. [op[t] EXCEPT !.todo = @ \ {s}] \in OpType
    <3>1. op[t] \in OpType
      BY DEF TypeOK
    <3> QED BY <3>1 DEF OpType
  <2>3. op' \in [Threads -> OpType]
    BY ZenonT(30), <2>1, <2>2 DEF TypeOK
  <2>4. routes' \subseteq routes /\ buckets' \subseteq buckets
    BY <2>1 DEF remove_from_route
  <2> QED
    BY ZenonT(30), <1>7, <2>3, <2>4
       DEF TypeOK, FreshInv, unregister_route, connVars, chanVars, gaugeVars,
           dispatchVars, historyVars
<1>8. ASSUME NEW t \in Threads, unregister_finish(t)
      PROVE  TypeOK' /\ FreshInv'
  BY ZenonT(30), <1>8, DecrementType
     DEF TypeOK, FreshInv, unregister_finish, record_protocol_closed, Release,
         NoOp, Op, OpType, NoSubscriptions, indexVars, dispatchVars, historyVars
<1>9. ASSUME NEW d \in Dispatchers, NEW m \in Messages, dispatch(d, m)
      PROVE  TypeOK' /\ FreshInv'
  BY ZenonT(30), <1>9, CandidatesType
     DEF TypeOK, FreshInv, dispatch, Threads, Pairs,
         connVars, chanVars, indexVars, gaugeVars
<1>10. ASSUME NEW d \in Dispatchers, lookup(d)
       PROVE  TypeOK' /\ FreshInv'
  <2>1. /\ lookups' \in [Dispatchers -> SUBSET RouteKey]
        /\ matches' \in [Dispatchers -> SUBSET Pairs]
    BY <1>10 DEF TypeOK, lookup
  <2> QED
    BY ZenonT(30), <1>10, <2>1 DEF TypeOK, FreshInv, lookup, connVars, chanVars, indexVars,
                       gaugeVars, historyVars
<1>11. ASSUME NEW d \in Dispatchers, match_finish(d)
       PROVE  TypeOK' /\ FreshInv'
  <2>1. {p[1] : p \in matches[d]} \subseteq ConnectionIds
    <3>1. matches[d] \subseteq Pairs
      BY Zenon DEF TypeOK
    <3> QED BY <3>1 DEF Pairs
  <2>2. d \in Threads
    BY DEF Threads
  <2>3. /\ pending' \in [Dispatchers -> SUBSET ConnectionIds]
        /\ pc' \in [Threads -> {"idle", "subscribe", "unsubscribe", "unregister",
                                "match", "deliver"}]
    BY ZenonT(30), <1>11, <2>1, <2>2 DEF TypeOK, match_finish
  <2> QED
    BY ZenonT(30), <1>11, <2>3 DEF TypeOK, FreshInv, match_finish, connVars, chanVars,
                       indexVars, gaugeVars, historyVars
<1>12. ASSUME NEW d \in Dispatchers, NEW c \in ConnectionIds, visit_missing(d, c)
       PROVE  TypeOK' /\ FreshInv'
  BY ZenonT(30), <1>12 DEF TypeOK, FreshInv, visit_missing, Visit, indexVars, gaugeVars, historyVars
<1>13. ASSUME NEW d \in Dispatchers, NEW c \in ConnectionIds, visit_ok(d, c)
       PROVE  TypeOK' /\ FreshInv'
  <2>1. Delivery(d, c) \in DeliveryType
    BY <1>13 DEF DispatchTyped, visit_ok, Visit, Delivery, DeliveryType
  <2>2. /\ Append(queue[c], Delivery(d, c)) \in Seq(DeliveryType)
        /\ Len(Append(queue[c], Delivery(d, c))) = Len(queue[c]) + 1
        /\ Len(queue[c]) \in Nat /\ capacity[c] \in Nat
    BY SMTT(30), <2>1 DEF TypeOK
  <2>3. /\ queue \in [ConnectionIds -> Seq(DeliveryType)]
        /\ \A i \in ConnectionIds : Len(queue[i]) <= capacity[i]
        /\ ~(Len(queue[c]) >= capacity[c]) /\ capacity' = capacity
        /\ queue' = [queue EXCEPT ![c] = Append(@, Delivery(d, c))]
    BY ZenonT(30), <1>13 DEF TypeOK, visit_ok, Visit, QueueFull
  <2>4. /\ queue' \in [ConnectionIds -> Seq(DeliveryType)]
        /\ \A i \in ConnectionIds : Len(queue'[i]) <= capacity'[i]
    BY <2>2, <2>3
  <2> QED
    BY ZenonT(30), <1>13, <2>4 DEF TypeOK, FreshInv, visit_ok, Visit, indexVars, gaugeVars,
                       historyVars
<1>14. ASSUME NEW d \in Dispatchers, NEW c \in ConnectionIds, visit_full(d, c)
       PROVE  TypeOK' /\ FreshInv'
  <2>1. /\ full_strikes \in [ConnectionIds -> Nat]
        /\ full_strikes' = [full_strikes EXCEPT ![c] = @ + 1]
    BY Zenon, <1>14 DEF TypeOK, visit_full
  <2>2. full_strikes' \in [ConnectionIds -> Nat]
    BY <2>1
  <2>3. disconnect' \in [Dispatchers -> SUBSET ConnectionIds]
    BY ZenonT(30), <1>14 DEF TypeOK, visit_full
  <2> QED
    BY ZenonT(30), <1>14, <2>2, <2>3
       DEF TypeOK, FreshInv, visit_full, Visit, indexVars, gaugeVars, historyVars
<1>15. ASSUME NEW d \in Dispatchers, NEW c \in ConnectionIds, visit_closed(d, c)
       PROVE  TypeOK' /\ FreshInv'
  BY ZenonT(30), <1>15 DEF TypeOK, FreshInv, visit_closed, Visit, indexVars, gaugeVars, historyVars
<1>16. ASSUME NEW d \in Dispatchers, NEW c \in ConnectionIds, evict_gone(d, c)
       PROVE  TypeOK' /\ FreshInv'
  <2>1. /\ slow_consumer_disconnects \in Nat
        /\ slow_consumer_disconnects' = slow_consumer_disconnects + 1
    BY Zenon, <1>16 DEF TypeOK, evict_gone, Evict
  <2>2. slow_consumer_disconnects' \in Nat
    BY <2>1
  <2>3. disconnect' \in [Dispatchers -> SUBSET ConnectionIds]
    BY ZenonT(30), <1>16 DEF TypeOK, evict_gone, Evict
  <2> QED
    BY ZenonT(30), <1>16, <2>2, <2>3 DEF TypeOK, FreshInv, evict_gone, Evict, connVars,
                       chanVars, indexVars, gaugeVars, historyVars
<1>17. ASSUME NEW d \in Dispatchers, dispatch_finish(d)
       PROVE  TypeOK' /\ FreshInv'
  BY ZenonT(30), <1>17 DEF TypeOK, FreshInv, dispatch_finish, Threads, Pairs, connVars,
               chanVars, indexVars, gaugeVars
<1>18. ASSUME NEW c \in ConnectionIds, receive(c)
       PROVE  TypeOK' /\ FreshInv'
  <2>1. /\ queue \in [ConnectionIds -> Seq(DeliveryType)] /\ Len(queue[c]) > 0
        /\ capacity \in [ConnectionIds -> Nat] /\ capacity' = capacity
        /\ \A i \in ConnectionIds : Len(queue[i]) <= capacity[i]
        /\ queue' = [queue EXCEPT ![c] = Tail(@)]
    BY ZenonT(30), <1>18 DEF TypeOK, receive, connVars
  <2>2. /\ queue' \in [ConnectionIds -> Seq(DeliveryType)]
        /\ \A i \in ConnectionIds : Len(queue'[i]) <= capacity'[i]
        /\ \A i \in ConnectionIds : queue[i] = <<>> => queue'[i] = <<>>
    BY <2>1
  <2> QED
    BY ZenonT(30), <1>18, <2>2 DEF TypeOK, FreshInv, receive, connVars, indexVars,
                       gaugeVars, dispatchVars, historyVars
<1>19. ASSUME NEW c \in ConnectionIds, drop_receiver(c)
       PROVE  TypeOK' /\ FreshInv'
  <2>1. /\ queue \in [ConnectionIds -> Seq(DeliveryType)]
        /\ capacity \in [ConnectionIds -> Nat] /\ capacity' = capacity
        /\ \A i \in ConnectionIds : Len(queue[i]) <= capacity[i]
        /\ queue' = [queue EXCEPT ![c] = <<>>]
    BY ZenonT(30), <1>19 DEF TypeOK, drop_receiver, connVars
  <2>2. /\ queue' \in [ConnectionIds -> Seq(DeliveryType)]
        /\ \A i \in ConnectionIds : Len(queue'[i]) <= capacity'[i]
        /\ \A i \in ConnectionIds : queue[i] = <<>> => queue'[i] = <<>>
    BY <2>1
  <2> QED
    BY ZenonT(30), <1>19, <2>2 DEF TypeOK, FreshInv, drop_receiver, connVars, indexVars,
                       gaugeVars, dispatchVars, historyVars
<1>20. CASE UNCHANGED vars
  BY ZenonT(30), <1>20 DEF TypeOK, FreshInv, vars, connVars, chanVars, indexVars, gaugeVars,
               dispatchVars, historyVars
<1>21. ASSUME NEW t \in Callers, NEW c \in ConnectionIds, unregister_connection(t, c)
       PROVE  TypeOK' /\ FreshInv'
  BY ZenonT(30), <1>4, <1>21 DEF unregister_connection, TypeOK, dispatchVars, Threads
<1>22. ASSUME NEW d \in Dispatchers, NEW c \in ConnectionIds, evict(d, c)
       PROVE  TypeOK' /\ FreshInv'
  <2>1. disconnect' \in [Dispatchers -> SUBSET ConnectionIds]
    BY ZenonT(30), <1>22 DEF evict, Evict, TypeOK
  <2>2. slow_consumer_disconnects' \in Nat
    BY <1>22 DEF evict, Evict, TypeOK
  <2>3. UNCHANGED <<message, lookups, matches, pending>>
    BY <1>22 DEF evict, Evict
  <2>4. d \in Threads /\ RemoveConnection(d, c)
    BY SMTT(30), <1>22 DEF evict, Threads
  <2> QED
    BY ZenonT(30), <1>4, <2>1, <2>2, <2>3, <2>4
<1> QED
  BY ZenonT(30), <1>1, <1>2, <1>3, <1>5, <1>6, <1>7, <1>8, <1>9, <1>10, <1>11, <1>12, <1>13,
     <1>14, <1>15, <1>16, <1>17, <1>18, <1>19, <1>20, <1>21, <1>22
     DEF Next, CallerStep, UnregisterStep, DispatchStep, ReceiverStep

-----------------------------------------------------------------------------
(* The lock                                                                *)

\* The steps that change no table, no index, no lock and no local of a
\* mutating call: those of dispatch outside eviction, and the receivers'.
QuietStep ==
  \/ \E d \in Dispatchers :
       \/ \E m \in Messages : dispatch(d, m)
       \/ lookup(d) \/ match_finish(d) \/ dispatch_finish(d)
       \/ \E c \in ConnectionIds :
            \/ visit_missing(d, c) \/ visit_ok(d, c)
            \/ visit_full(d, c) \/ visit_closed(d, c)
            \/ evict_gone(d, c)
  \/ \E c \in ConnectionIds : ReceiverStep(c)
  \/ UNCHANGED vars

\* What such a step leaves alone; only a dispatcher outside the lock moves.
QuietFrame ==
  /\ UNCHANGED <<connections, tenant_id, subscriptions, senders, routes, buckets,
                 mutation_lock, op>>
  /\ \A t \in Threads :
       \/ pc'[t] = pc[t]
       \/ /\ t \in Dispatchers
          /\ pc[t] \in {"idle", "match", "deliver"}
          /\ pc'[t] \in {"idle", "match", "deliver"}

\* Each such step indeed leaves them alone.
LEMMA QuietSteps ==
  ASSUME TypeOK, QuietStep
  PROVE  QuietFrame
<1> USE RouterAssumption DEF TypeOK, QuietFrame, Threads, connVars, chanVars, indexVars
<1>1. ASSUME NEW d \in Dispatchers, NEW m \in Messages, dispatch(d, m)
      PROVE  QuietFrame
  BY ZenonT(30), <1>1 DEF dispatch
<1>2. ASSUME NEW d \in Dispatchers,
             lookup(d) \/ match_finish(d) \/ dispatch_finish(d)
      PROVE  QuietFrame
  BY ZenonT(30), <1>2 DEF lookup, match_finish, dispatch_finish
<1>3. ASSUME NEW d \in Dispatchers, NEW c \in ConnectionIds, Visit(d, c)
      PROVE  QuietFrame
  BY ZenonT(30), <1>3 DEF Visit
<1>4. ASSUME NEW d \in Dispatchers, NEW c \in ConnectionIds, evict_gone(d, c)
      PROVE  QuietFrame
  BY ZenonT(30), <1>4 DEF evict_gone
<1>5. ASSUME NEW c \in ConnectionIds, ReceiverStep(c)
      PROVE  QuietFrame
  BY ZenonT(30), <1>5 DEF ReceiverStep, receive, drop_receiver
<1>6. CASE UNCHANGED vars
  BY ZenonT(30), <1>6 DEF vars
<1> QED
  BY ZenonT(30), <1>1, <1>2, <1>3, <1>4, <1>5, <1>6
     DEF QuietStep, visit_missing, visit_ok, visit_full, visit_closed

\* Every other step belongs to a mutating call.
LEMMA StepKinds ==
  ASSUME [Next]_vars
  PROVE  \/ QuietStep
         \/ \E t \in Callers : CallerStep(t)
         \/ \E t \in Threads : UnregisterStep(t)
         \/ \E d \in Dispatchers, c \in ConnectionIds : evict(d, c)
BY DEF Next, QuietStep, DispatchStep

\* The lock is held by exactly the thread inside a mutating call.
LEMMA LockStep ==
  ASSUME TypeOK, LockInv, [Next]_vars
  PROVE  LockInv'
<1>1. ASSUME NEW t \in Threads, NEW step \in {"subscribe", "unsubscribe", "unregister"},
             NEW locals, t \in Dispatchers => step = "unregister",
             Acquire(t, step, locals)
      PROVE  LockInv'
  BY ZenonT(30), <1>1, RouterAssumption DEF TypeOK, LockInv, Threads, Acquire
<1>2. ASSUME NEW t \in Threads, mutation_lock = t, Release(t)
      PROVE  LockInv'
  BY SMTT(30), <1>2, RouterAssumption DEF TypeOK, LockInv, Threads, Release
<1>3. CASE QuietStep
  BY ZenonT(30), <1>3, QuietSteps, RouterAssumption DEF QuietFrame, TypeOK, LockInv, Threads
<1>4. ASSUME NEW t \in Callers, CallerStep(t)
      PROVE  LockInv'
  <2>1. t \in Threads /\ t \notin Dispatchers
    BY RouterAssumption DEF Threads
  <2>2. CASE UNCHANGED <<pc, mutation_lock>>
    BY <2>2 DEF LockInv
  <2>3. CASE \E step \in {"subscribe", "unsubscribe", "unregister"} : \E locals :
               Acquire(t, step, locals)
    BY ZenonT(30), <1>1, <2>1, <2>3
  <2>4. CASE pc[t] \in {"subscribe", "unsubscribe"} /\ Release(t)
    BY <1>2, <2>1, <2>4 DEF LockInv
  <2> QED BY ZenonT(30), <1>4, <2>2, <2>3, <2>4
    DEF CallerStep, register_connection, subscribe, unsubscribe,
        unregister_connection, RemoveConnection, subscribe_index,
        unsubscribe_index
<1>5. ASSUME NEW t \in Threads, UnregisterStep(t)
      PROVE  LockInv'
  <2>1. CASE unregister_route(t)
    BY SMTT(30), <2>1 DEF unregister_route, LockInv
  <2>2. CASE unregister_finish(t)
    BY ZenonT(30), <1>2, <2>2 DEF unregister_finish, LockInv
  <2> QED BY <1>5, <2>1, <2>2 DEF UnregisterStep
<1>6. ASSUME NEW d \in Dispatchers, NEW c \in ConnectionIds, evict(d, c)
      PROVE  LockInv'
  BY <1>1, <1>6 DEF evict, RemoveConnection, Threads
<1> QED BY ZenonT(30), StepKinds, <1>3, <1>4, <1>5, <1>6

-----------------------------------------------------------------------------
(* The tables and the index                                                *)

\* With the lock free no call is halfway.
LEMMA AtRest ==
  ASSUME TypeOK, LockInv, mutation_lock = None
  PROVE  /\ \A t \in Threads : pc[t] \notin {"subscribe", "unsubscribe", "unregister"}
         /\ \A step, c, s : ~InProgress(step, c, s)
         /\ \A c : ~Unregistering(c)
BY RouterAssumption DEF LockInv, InProgress, Unregistering

\* Only the lock's holder is halfway.
LEMMA OneHolder ==
  ASSUME TypeOK, LockInv, NEW t \in Threads, mutation_lock = t
  PROVE  /\ t # None
         /\ \A u \in Threads \ {t} : pc[u] \notin {"subscribe", "unsubscribe", "unregister"}
BY RouterAssumption DEF LockInv

\* A connection's table changes only under the lock, and unregistering starts by
\* taking the connection out of the map: every filter left is valid and belongs
\* to the tenant of its connection.
LEMMA TableStep ==
  ASSUME TypeOK, FreshInv, LockInv, OpInv, TableInv, [Next]_vars
  PROVE  OpInv' /\ TableInv'
<1>1. CASE QuietStep
  <2>1. QuietFrame
    BY ZenonT(30), <1>1, QuietSteps
  <2>2. OpInv'
    BY <2>1 DEF QuietFrame, OpInv, SubscriptionsOf
  <2>3. \A c : Unregistering(c)' <=> Unregistering(c)
    BY ZenonT(30), <2>1 DEF QuietFrame, Unregistering, TypeOK
  <2>4. TableInv'
    BY <2>1, <2>3 DEF QuietFrame, TableInv
  <2> QED BY <2>2, <2>4
<1>2. ASSUME NEW t \in Callers, NEW tn \in Tenants \cup {Invalid}, NEW p \in Protocols,
             NEW cap \in Capacities, register_connection(t, tn, p, cap)
      PROVE  OpInv' /\ TableInv'
  <2>1. PICK c \in ConnectionIds :
          /\ tenant_id[c] = None
          /\ connections' = connections \cup {c}
          /\ tenant_id' = [tenant_id EXCEPT ![c] = tn]
          /\ senders' = senders \cup {c}
    BY ZenonT(30), <1>2 DEF register_connection
  <2>2. mutation_lock = None /\ UNCHANGED <<subscriptions, mutation_lock, pc, op>>
    BY ZenonT(30), <1>2 DEF register_connection
  <2>3. OpInv'
    BY <2>2, AtRest DEF OpInv
  <2>4. c \notin connections
    BY <2>1 DEF FreshInv
  <2>5. \A s \in SubscriptionIds : subscriptions[c][s] = None
    BY <2>2, <2>4, AtRest DEF TableInv
  <2>6. TableInv'
    BY ZenonT(30), <2>1, <2>2, <2>5, AtRest DEF TableInv, TypeOK
  <2> QED BY <2>3, <2>6
<1>3. ASSUME NEW t \in Callers, NEW c \in ConnectionIds, NEW s \in SubscriptionIds,
             NEW f \in Filters, subscribe(t, c, s, f)
      PROVE  OpInv' /\ TableInv'
  <2>1. /\ mutation_lock = None /\ mutation_lock' = t /\ t \in Threads
        /\ pc' = [pc EXCEPT ![t] = "subscribe"]
        /\ op' = [op EXCEPT ![t] = Op(c, s, f, {})]
        /\ subscriptions' = [subscriptions EXCEPT ![c][s] = f]
        /\ c \in connections /\ UNCHANGED <<connections, tenant_id, senders>>
    BY <1>3 DEF subscribe, Acquire, chanVars, Threads
  <2>2. f \in ValidFilters /\ f.tenant_id = tenant_id[c]
    BY ZenonT(30), <1>3, RouterAssumption DEF subscribe, ValidFilters, TenantOk
  <2>3. OpInv'
    <3>1. /\ pc \in [Threads -> {"idle", "subscribe", "unsubscribe", "unregister",
                                 "match", "deliver"}]
          /\ op \in [Threads -> OpType]
          /\ subscriptions \in [ConnectionIds -> [SubscriptionIds -> Filters \cup {None}]]
      BY ZenonT(30) DEF TypeOK
    <3>2. /\ pc'[t] = "subscribe"
          /\ op'[t].conn = c /\ op'[t].sub = s /\ op'[t].filter = f
          /\ subscriptions'[c][s] = f
      BY <2>1, <3>1 DEF Op
    <3>3. \A u \in Threads \ {t} : pc'[u] = pc[u]
      BY Zenon, <2>1, <3>1
    <3>4. \A u \in Threads \ {t} : pc'[u] \notin {"subscribe", "unsubscribe", "unregister"}
      BY Zenon, <2>1, <3>3, AtRest
    <3> QED BY <2>1, <2>2, <3>2, <3>4 DEF OpInv
  <2>4. TableInv'
    BY ZenonT(30), <2>1, <2>2, AtRest DEF TableInv, TypeOK
  <2> QED BY <2>3, <2>4
<1>4. ASSUME NEW t \in Callers, NEW c \in ConnectionIds, NEW s \in SubscriptionIds,
             unsubscribe(t, c, s)
      PROVE  OpInv' /\ TableInv'
  <2>1. /\ mutation_lock = None /\ mutation_lock' = t /\ t \in Threads
        /\ pc' = [pc EXCEPT ![t] = "unsubscribe"]
        /\ op' = [op EXCEPT ![t] = Op(c, s, subscriptions[c][s], {})]
        /\ subscriptions' = [subscriptions EXCEPT ![c][s] = None]
        /\ c \in connections /\ UNCHANGED <<connections, tenant_id, senders>>
    BY ZenonT(30), <1>4 DEF unsubscribe, Acquire, chanVars, Threads
  <2>2. /\ subscriptions[c][s] \in ValidFilters \cap Filters
        /\ subscriptions[c][s].tenant_id = tenant_id[c]
    <3>1. subscriptions[c][s] # None /\ c \in connections
      BY Zenon, <1>4 DEF unsubscribe
    <3>2. subscriptions \in [ConnectionIds -> [SubscriptionIds -> Filters \cup {None}]]
      BY Zenon DEF TypeOK
    <3> QED BY <3>1, <3>2 DEF TableInv
  <2>3. OpInv'
    <3>1. /\ pc \in [Threads -> {"idle", "subscribe", "unsubscribe", "unregister",
                                 "match", "deliver"}]
          /\ op \in [Threads -> OpType]
          /\ subscriptions \in [ConnectionIds -> [SubscriptionIds -> Filters \cup {None}]]
      BY ZenonT(30) DEF TypeOK
    <3>2. /\ pc'[t] = "unsubscribe"
          /\ op'[t].conn = c /\ op'[t].sub = s /\ op'[t].filter = subscriptions[c][s]
          /\ subscriptions'[c][s] = None
      BY <2>1, <3>1 DEF Op
    <3>3. \A u \in Threads \ {t} : pc'[u] = pc[u]
      BY Zenon, <2>1, <3>1
    <3>4. \A u \in Threads \ {t} : pc'[u] \notin {"subscribe", "unsubscribe", "unregister"}
      BY Zenon, <2>1, <3>3, AtRest
    <3> QED BY <2>1, <2>2, <3>2, <3>4 DEF OpInv
  <2>4. TableInv'
    BY ZenonT(30), <2>1, <2>2, AtRest DEF TableInv, TypeOK
  <2> QED BY <2>3, <2>4
<1>5. ASSUME NEW t \in Threads, NEW c \in ConnectionIds, RemoveConnection(t, c)
      PROVE  OpInv' /\ TableInv'
  <2>1. /\ mutation_lock = None /\ mutation_lock' = t /\ t # None
        /\ pc' = [pc EXCEPT ![t] = "unregister"]
        /\ op' = [op EXCEPT ![t] = Op(c, None, None, SubscriptionsOf(c))]
        /\ c \in connections /\ connections' = connections \ {c}
        /\ UNCHANGED <<subscriptions, tenant_id, senders>>
    BY ZenonT(30), <1>5, RouterAssumption DEF RemoveConnection, Acquire, chanVars
  <2>2. c \in senders /\ tenant_id[c] # None
    BY ZenonT(30), <2>1 DEF TableInv, FreshInv
  <2>3. OpInv'
    BY ZenonT(30), <2>1, <2>2, AtRest DEF OpInv, Op, TypeOK, SubscriptionsOf
  <2>4. Unregistering(c)'
    BY <2>1 DEF Unregistering, Op, TypeOK
  <2>5. TableInv'
    BY ZenonT(30), <2>1, <2>4, AtRest DEF TableInv
  <2> QED BY <2>3, <2>5
<1>6. ASSUME NEW t \in Callers, subscribe_index(t) \/ unsubscribe_index(t)
      PROVE  OpInv' /\ TableInv'
  <2>1. /\ mutation_lock = t /\ t \in Threads /\ mutation_lock' = None
        /\ pc[t] # "unregister"
        /\ pc' = [pc EXCEPT ![t] = "idle"]
        /\ op' = [op EXCEPT ![t] = NoOp]
        /\ UNCHANGED <<connections, subscriptions, tenant_id, senders>>
    BY ZenonT(30), <1>6, RouterAssumption DEF subscribe_index, unsubscribe_index, Release,
       connVars, chanVars, LockInv, Threads
  <2>2. OpInv'
    BY ZenonT(30), <2>1, OneHolder DEF OpInv, TypeOK
  <2>3. TableInv'
    BY <2>1 DEF TableInv, Unregistering
  <2> QED BY ZenonT(30), <2>2, <2>3
<1>7. ASSUME NEW t \in Threads, unregister_route(t)
      PROVE  OpInv' /\ TableInv'
  <2>1. /\ mutation_lock = t /\ pc[t] = "unregister"
        /\ UNCHANGED <<connections, subscriptions, tenant_id, senders, mutation_lock, pc>>
    BY <1>7 DEF unregister_route, connVars, chanVars, LockInv
  <2>2. /\ op'[t].conn = op[t].conn
        /\ op'[t].todo \subseteq op[t].todo
        /\ \A u \in Threads \ {t} : op'[u] = op[u]
    BY <1>7 DEF unregister_route, TypeOK, OpType
  <2>3. OpInv'
    BY SMTT(30), <2>1, <2>2, OneHolder DEF OpInv, SubscriptionsOf
  <2>4. TableInv'
    BY ZenonT(30), <2>1, <2>2 DEF TableInv, Unregistering
  <2> QED BY <2>3, <2>4
<1>8. ASSUME NEW t \in Threads, unregister_finish(t)
      PROVE  OpInv' /\ TableInv'
  <2> DEFINE c == op[t].conn
  <2>1. /\ mutation_lock = t /\ mutation_lock' = None /\ pc[t] = "unregister"
        /\ pc' = [pc EXCEPT ![t] = IF t \in Dispatchers THEN "deliver" ELSE "idle"]
        /\ op' = [op EXCEPT ![t] = NoOp]
        /\ subscriptions' = [subscriptions EXCEPT ![c] = NoSubscriptions]
        /\ senders' = senders \ {c}
        /\ UNCHANGED <<connections, tenant_id>>
    BY ZenonT(30), <1>8 DEF unregister_finish, Release, LockInv
  <2>2. c \in ConnectionIds /\ c \notin connections
    BY ZenonT(30), <2>1 DEF OpInv
  <2>3. OpInv'
    BY ZenonT(30), <2>1, OneHolder DEF OpInv, TypeOK
  <2>4. TableInv'
    BY ZenonT(30), <2>1, <2>2 DEF TableInv, Unregistering, NoSubscriptions, TypeOK
  <2> QED BY <2>3, <2>4
<1> QED
  BY ZenonT(30), StepKinds, <1>1, <1>2, <1>3, <1>4, <1>5, <1>6, <1>7, <1>8
     DEF CallerStep, UnregisterStep, unregister_connection, evict, Threads

\* Removing one entry takes its bucket away exactly when it was the last.
LEMMA RemovedBucket ==
  ASSUME NEW c, NEW s, NEW f, buckets = {r[1] : r \in routes},
         remove_from_route(c, s, f)
  PROVE  buckets' = {r[1] : r \in routes'}
<1>1. /\ routes' = routes \ {<<RouteKeyOf(f), c, s>>}
      /\ buckets' = IF \E r \in routes' : r[1] = RouteKeyOf(f)
                      THEN buckets ELSE buckets \ {RouteKeyOf(f)}
  BY DEF remove_from_route
<1>2. \A r \in routes : r[1] # RouteKeyOf(f) => r \in routes'
  BY <1>1
<1> QED BY <1>1, <1>2

\* Through every half of every call, the index holds what IndexEntry says.
LEMMA IndexStep ==
  ASSUME TypeOK, FreshInv, LockInv, OpInv, TableInv, IndexInv, [Next]_vars
  PROVE  IndexInv'
<1>1. CASE QuietStep
  <2>1. QuietFrame
    BY <1>1, QuietSteps
  <2>2. /\ \A c : Unregistering(c)' <=> Unregistering(c)
        /\ \A step \in {"subscribe", "unsubscribe"} : \A c, s :
             InProgress(step, c, s)' <=> InProgress(step, c, s)
    BY ZenonT(30), <2>1 DEF QuietFrame, Unregistering, InProgress, TypeOK
  <2>3. \A k, c, s : IndexEntry(k, c, s)' <=> IndexEntry(k, c, s)
    BY <2>1, <2>2 DEF QuietFrame, IndexEntry
  <2> QED
    BY <2>1, <2>3 DEF QuietFrame, IndexInv, IndexEntries
<1>2. ASSUME NEW t \in Callers, NEW tn \in Tenants \cup {Invalid}, NEW p \in Protocols,
             NEW cap \in Capacities, register_connection(t, tn, p, cap)
      PROVE  IndexInv'
  <2>1. PICK c \in ConnectionIds : tenant_id[c] = None /\ connections' = connections \cup {c}
    BY <1>2 DEF register_connection
  <2>2. /\ mutation_lock = None
        /\ UNCHANGED <<subscriptions, mutation_lock, pc, op, routes, buckets>>
    BY ZenonT(30), <1>2 DEF register_connection, indexVars
  <2>3. \A s \in SubscriptionIds : subscriptions[c][s] = None
    BY ZenonT(30), <2>1, <2>2, AtRest DEF TableInv, FreshInv
  <2>4. \A k, d, s : /\ ~InProgress("subscribe", d, s)' /\ ~InProgress("unsubscribe", d, s)'
                     /\ ~Unregistering(d)'
    BY ZenonT(30), <2>2 DEF InProgress, Unregistering
  <2>5. ASSUME NEW k \in RouteKey, NEW d \in ConnectionIds, NEW i \in SubscriptionIds
        PROVE  (<<k, d, i>> \in routes <=> IndexEntry(k, d, i))'
    <3>1. <<k, d, i>> \in routes <=> IndexEntry(k, d, i)
      BY ZenonT(30) DEF IndexInv, IndexEntries
    <3>2. IndexEntry(k, d, i) <=> /\ d \in connections
                                  /\ subscriptions[d][i] # None
                                  /\ k = RouteKeyOf(subscriptions[d][i])
      BY ZenonT(30), <2>2, AtRest DEF IndexEntry
    <3>3. IndexEntry(k, d, i)' <=> /\ d \in connections'
                                   /\ subscriptions[d][i] # None
                                   /\ k = RouteKeyOf(subscriptions[d][i])
      BY <2>2, <2>4 DEF IndexEntry
    <3> QED BY <2>1, <2>2, <2>3, <3>1, <3>2, <3>3
  <2> QED BY <2>2, <2>5 DEF IndexInv, IndexEntries
<1>3. ASSUME NEW t \in Callers, NEW c \in ConnectionIds, NEW s \in SubscriptionIds,
             NEW f \in Filters, subscribe(t, c, s, f)
      PROVE  IndexInv'
  <2>1. /\ mutation_lock = None /\ mutation_lock' = t /\ t \in Threads
        /\ pc' = [pc EXCEPT ![t] = "subscribe"]
        /\ op' = [op EXCEPT ![t] = Op(c, s, f, {})]
        /\ subscriptions[c][s] = None
        /\ subscriptions' = [subscriptions EXCEPT ![c][s] = f]
        /\ UNCHANGED <<connections, routes, buckets>>
    BY ZenonT(30), <1>3 DEF subscribe, Acquire, indexVars, Threads
  <2>2. /\ t # None /\ pc'[t] = "subscribe" /\ op'[t].conn = c /\ op'[t].sub = s
    BY ZenonT(30), <2>1, RouterAssumption DEF TypeOK, Op
  <2>3. /\ \A d, i : InProgress("subscribe", d, i)' <=> d = c /\ i = s
        /\ \A d, i : ~InProgress("unsubscribe", d, i)' /\ ~Unregistering(d)'
    BY ZenonT(30), <2>1, <2>2 DEF InProgress, Unregistering
  <2>4. \A d \in ConnectionIds, i \in SubscriptionIds :
          d # c \/ i # s => subscriptions'[d][i] = subscriptions[d][i]
    BY ZenonT(30), <2>1 DEF TypeOK
  <2>5. ASSUME NEW k \in RouteKey, NEW d \in ConnectionIds, NEW i \in SubscriptionIds
        PROVE  (<<k, d, i>> \in routes <=> IndexEntry(k, d, i))'
    <3>1. <<k, d, i>> \in routes <=> IndexEntry(k, d, i)
      BY DEF IndexInv, IndexEntries
    <3>2. IndexEntry(k, d, i) <=> /\ d \in connections
                                  /\ subscriptions[d][i] # None
                                  /\ k = RouteKeyOf(subscriptions[d][i])
      BY ZenonT(30), <2>1, AtRest DEF IndexEntry
    <3>3. IndexEntry(k, d, i)' <=> /\ d \in connections
                                   /\ subscriptions'[d][i] # None
                                   /\ k = RouteKeyOf(subscriptions'[d][i])
                                   /\ ~(d = c /\ i = s)
      BY <2>1, <2>3 DEF IndexEntry
    <3> QED BY ZenonT(30), <2>1, <2>4, <3>1, <3>2, <3>3
  <2> QED BY <2>1, <2>5 DEF IndexInv, IndexEntries
<1>4. ASSUME NEW t \in Callers, subscribe_index(t)
      PROVE  IndexInv'
  <2> DEFINE c == op[t].conn
             s == op[t].sub
             f == op[t].filter
  <2>1. /\ mutation_lock = t /\ t \in Threads /\ mutation_lock' = None
        /\ pc[t] = "subscribe"
        /\ routes' = routes \cup {<<RouteKeyOf(f), c, s>>}
        /\ buckets' = buckets \cup {RouteKeyOf(f)}
        /\ UNCHANGED <<connections, subscriptions>>
    BY ZenonT(30), <1>4 DEF subscribe_index, add_to_route, Release, connVars, LockInv, Threads
  <2>2. c \in connections /\ s \in SubscriptionIds /\ subscriptions[c][s] = f /\ f # None
    BY ZenonT(30), <2>1, RouterAssumption DEF OpInv
  <2>3. /\ \A d, i : InProgress("subscribe", d, i) <=> d = c /\ i = s
        /\ \A d, i : ~InProgress("unsubscribe", d, i) /\ ~Unregistering(d)
        /\ \A d, i : /\ ~InProgress("subscribe", d, i)' /\ ~InProgress("unsubscribe", d, i)'
                     /\ ~Unregistering(d)'
    BY ZenonT(30), <2>1, OneHolder DEF InProgress, Unregistering
  <2>4. ASSUME NEW k \in RouteKey, NEW d \in ConnectionIds, NEW i \in SubscriptionIds
        PROVE  (<<k, d, i>> \in routes <=> IndexEntry(k, d, i))'
    <3>1. <<k, d, i>> \in routes <=> IndexEntry(k, d, i)
      BY ZenonT(30) DEF IndexInv, IndexEntries
    <3>2. IndexEntry(k, d, i) <=> /\ d \in connections
                                  /\ subscriptions[d][i] # None
                                  /\ k = RouteKeyOf(subscriptions[d][i])
                                  /\ ~(d = c /\ i = s)
      BY ZenonT(30), <2>1, <2>3 DEF IndexEntry
    <3>3. IndexEntry(k, d, i)' <=> /\ d \in connections
                                   /\ subscriptions[d][i] # None
                                   /\ k = RouteKeyOf(subscriptions[d][i])
      BY <2>1, <2>3 DEF IndexEntry
    <3> QED BY <2>1, <2>2, <3>1, <3>2, <3>3
  <2>5. buckets' = {r[1] : r \in routes'}
    <3>1. <<RouteKeyOf(f), c, s>>[1] = RouteKeyOf(f)
      BY ZenonT(30)
    <3>2. \A x : x \in {r[1] : r \in routes'} <=>
                  x = RouteKeyOf(f) \/ \E r \in routes : x = r[1]
      BY ZenonT(30), <2>1, <3>1
    <3> QED BY <2>1, <3>2 DEF IndexInv
  <2> QED BY ZenonT(30), <2>4, <2>5 DEF IndexInv, IndexEntries
<1>5. ASSUME NEW t \in Callers, NEW c \in ConnectionIds, NEW s \in SubscriptionIds,
             unsubscribe(t, c, s)
      PROVE  IndexInv'
  <2>1. /\ mutation_lock = None /\ mutation_lock' = t /\ t \in Threads
        /\ pc' = [pc EXCEPT ![t] = "unsubscribe"]
        /\ op' = [op EXCEPT ![t] = Op(c, s, subscriptions[c][s], {})]
        /\ c \in connections /\ subscriptions[c][s] # None
        /\ subscriptions' = [subscriptions EXCEPT ![c][s] = None]
        /\ UNCHANGED <<connections, routes, buckets>>
    BY ZenonT(30), <1>5 DEF unsubscribe, Acquire, indexVars, Threads
  <2>2. /\ t # None /\ pc'[t] = "unsubscribe" /\ op'[t].conn = c /\ op'[t].sub = s
        /\ op'[t].filter = subscriptions[c][s]
    BY ZenonT(30), <2>1, RouterAssumption DEF TypeOK, Op
  <2>3. /\ \A d, i : InProgress("unsubscribe", d, i)' <=> d = c /\ i = s
        /\ \A d, i : ~InProgress("subscribe", d, i)' /\ ~Unregistering(d)'
    BY ZenonT(30), <2>1, <2>2 DEF InProgress, Unregistering
  <2>4. /\ \A d \in ConnectionIds, i \in SubscriptionIds :
             d # c \/ i # s => subscriptions'[d][i] = subscriptions[d][i]
        /\ subscriptions'[c][s] = None
    BY ZenonT(30), <2>1 DEF TypeOK
  <2>5. ASSUME NEW k \in RouteKey, NEW d \in ConnectionIds, NEW i \in SubscriptionIds
        PROVE  (<<k, d, i>> \in routes <=> IndexEntry(k, d, i))'
    <3>1. <<k, d, i>> \in routes <=> IndexEntry(k, d, i)
      BY ZenonT(30) DEF IndexInv, IndexEntries
    <3>2. IndexEntry(k, d, i) <=> /\ d \in connections
                                  /\ subscriptions[d][i] # None
                                  /\ k = RouteKeyOf(subscriptions[d][i])
      BY SMTT(30), <2>1, AtRest DEF IndexEntry
    <3>3. IndexEntry(k, d, i)' <=> \/ /\ d \in connections /\ subscriptions'[d][i] # None
                                      /\ k = RouteKeyOf(subscriptions'[d][i])
                                   \/ d = c /\ i = s /\ k = RouteKeyOf(subscriptions[c][s])
      BY ZenonT(30), <2>1, <2>2, <2>3 DEF IndexEntry
    <3> QED BY ZenonT(30), <2>1, <2>4, <3>1, <3>2, <3>3
  <2> QED BY ZenonT(30), <2>1, <2>5 DEF IndexInv, IndexEntries
<1>6. ASSUME NEW t \in Callers, unsubscribe_index(t)
      PROVE  IndexInv'
  <2> DEFINE c == op[t].conn
             s == op[t].sub
             f == op[t].filter
  <2>1. /\ mutation_lock = t /\ t \in Threads /\ mutation_lock' = None
        /\ pc[t] = "unsubscribe"
        /\ remove_from_route(c, s, f)
        /\ UNCHANGED <<connections, subscriptions>>
    BY ZenonT(30), <1>6 DEF unsubscribe_index, Release, connVars, LockInv, Threads
  <2>2. subscriptions[c][s] = None /\ routes' = routes \ {<<RouteKeyOf(f), c, s>>}
    BY ZenonT(30), <2>1 DEF OpInv, remove_from_route
  <2>3. /\ \A d, i : InProgress("unsubscribe", d, i) <=> d = c /\ i = s
        /\ \A d, i : ~InProgress("subscribe", d, i) /\ ~Unregistering(d)
        /\ \A d, i : /\ ~InProgress("subscribe", d, i)' /\ ~InProgress("unsubscribe", d, i)'
                     /\ ~Unregistering(d)'
    BY ZenonT(30), <2>1, OneHolder DEF InProgress, Unregistering
  <2>4. ASSUME NEW k \in RouteKey, NEW d \in ConnectionIds, NEW i \in SubscriptionIds
        PROVE  (<<k, d, i>> \in routes <=> IndexEntry(k, d, i))'
    <3>1. <<k, d, i>> \in routes <=> IndexEntry(k, d, i)
      BY DEF IndexInv, IndexEntries
    <3>2. IndexEntry(k, d, i) <=> \/ /\ d \in connections /\ subscriptions[d][i] # None
                                     /\ k = RouteKeyOf(subscriptions[d][i])
                                  \/ d = c /\ i = s /\ k = RouteKeyOf(f)
      BY ZenonT(30), <2>1, <2>3 DEF IndexEntry
    <3>3. IndexEntry(k, d, i)' <=> /\ d \in connections
                                   /\ subscriptions[d][i] # None
                                   /\ k = RouteKeyOf(subscriptions[d][i])
      BY ZenonT(30), <2>1, <2>3 DEF IndexEntry
    <3> QED BY SMTT(30), <2>1, <2>2, <3>1, <3>2, <3>3
  <2> QED BY ZenonT(30), <2>1, <2>4, RemovedBucket DEF IndexInv, IndexEntries
<1>7. ASSUME NEW t \in Threads, NEW c \in ConnectionIds, RemoveConnection(t, c)
      PROVE  IndexInv'
  <2>1. /\ mutation_lock = None /\ mutation_lock' = t
        /\ pc' = [pc EXCEPT ![t] = "unregister"]
        /\ op' = [op EXCEPT ![t] = Op(c, None, None, SubscriptionsOf(c))]
        /\ c \in connections /\ connections' = connections \ {c}
        /\ UNCHANGED <<subscriptions, routes, buckets>>
    BY ZenonT(30), <1>7 DEF RemoveConnection, Acquire, indexVars
  <2>2. /\ t # None /\ pc'[t] = "unregister" /\ op'[t].conn = c
        /\ op'[t].todo = SubscriptionsOf(c)
    BY ZenonT(30), <2>1, RouterAssumption DEF TypeOK, Op
  <2>3. /\ \A d : Unregistering(d)' <=> d = c
        /\ \A d, i : ~InProgress("subscribe", d, i)' /\ ~InProgress("unsubscribe", d, i)'
    BY <2>1, <2>2 DEF InProgress, Unregistering
  <2>4. /\ mutation_lock' = t /\ c \in connections /\ connections' = connections \ {c}
        /\ UNCHANGED <<subscriptions, routes, buckets>>
    BY ZenonT(30), <2>1
  <2>5. ASSUME NEW k \in RouteKey, NEW d \in ConnectionIds, NEW i \in SubscriptionIds
        PROVE  (<<k, d, i>> \in routes <=> IndexEntry(k, d, i))'
    <3>1. <<k, d, i>> \in routes <=> IndexEntry(k, d, i)
      BY ZenonT(30) DEF IndexInv, IndexEntries
    <3>2. IndexEntry(k, d, i) <=> /\ d \in connections
                                  /\ subscriptions[d][i] # None
                                  /\ k = RouteKeyOf(subscriptions[d][i])
      BY ZenonT(30), <2>1, AtRest DEF IndexEntry
    <3>3. IndexEntry(k, d, i)' <=> \/ /\ d \in connections' /\ subscriptions[d][i] # None
                                      /\ k = RouteKeyOf(subscriptions[d][i])
                                   \/ /\ d = c /\ i \in SubscriptionsOf(c)
                                      /\ k = RouteKeyOf(subscriptions[d][i])
      BY ZenonT(30), <2>2, <2>3, <2>4 DEF IndexEntry
    <3> QED BY ZenonT(30), <2>4, <3>1, <3>2, <3>3 DEF SubscriptionsOf
  <2> QED BY ZenonT(30), <2>4, <2>5 DEF IndexInv, IndexEntries
<1>8. ASSUME NEW t \in Threads, unregister_route(t)
      PROVE  IndexInv'
  <2> DEFINE c == op[t].conn
  <2>1. /\ mutation_lock = t /\ pc[t] = "unregister"
        /\ UNCHANGED <<connections, subscriptions, mutation_lock, pc>>
    BY <1>8 DEF unregister_route, connVars, LockInv
  <2>2. PICK s \in op[t].todo :
          /\ remove_from_route(c, s, subscriptions[c][s])
          /\ op' = [op EXCEPT ![t].todo = @ \ {s}]
    BY ZenonT(30), <1>8 DEF unregister_route
  <2>3. op'[t].conn = c /\ op'[t].todo = op[t].todo \ {s}
    BY ZenonT(30), <2>2 DEF TypeOK, OpType
  <2>4. c \in ConnectionIds /\ c \notin connections /\ t # None
    BY ZenonT(30), <2>1, OneHolder DEF OpInv
  <2>5. /\ \A d : Unregistering(d) <=> d = c
        /\ \A d : Unregistering(d)' <=> d = c
        /\ \A d, i : /\ ~InProgress("subscribe", d, i) /\ ~InProgress("unsubscribe", d, i)
                     /\ ~InProgress("subscribe", d, i)' /\ ~InProgress("unsubscribe", d, i)'
    BY ZenonT(30), <2>1, <2>3, <2>4 DEF InProgress, Unregistering
  <2>6. routes' = routes \ {<<RouteKeyOf(subscriptions[c][s]), c, s>>}
    BY ZenonT(30), <2>2 DEF remove_from_route
  <2>7. ASSUME NEW k \in RouteKey, NEW d \in ConnectionIds, NEW i \in SubscriptionIds
        PROVE  (<<k, d, i>> \in routes <=> IndexEntry(k, d, i))'
    <3>1. <<k, d, i>> \in routes <=> IndexEntry(k, d, i)
      BY ZenonT(30) DEF IndexInv, IndexEntries
    <3>2. IndexEntry(k, d, i) <=> \/ /\ d \in connections /\ subscriptions[d][i] # None
                                     /\ k = RouteKeyOf(subscriptions[d][i])
                                  \/ /\ d = c /\ i \in op[t].todo
                                     /\ k = RouteKeyOf(subscriptions[d][i])
      BY ZenonT(30), <2>1, <2>4, <2>5 DEF IndexEntry
    <3>3. IndexEntry(k, d, i)' <=> \/ /\ d \in connections /\ subscriptions[d][i] # None
                                      /\ k = RouteKeyOf(subscriptions[d][i])
                                   \/ /\ d = c /\ i \in op[t].todo \ {s}
                                      /\ k = RouteKeyOf(subscriptions[d][i])
      BY ZenonT(30), <2>1, <2>3, <2>4, <2>5 DEF IndexEntry
    <3> QED BY ZenonT(30), <2>1, <2>4, <2>6, <3>1, <3>2, <3>3
  <2> QED BY ZenonT(30), <2>2, <2>7, RemovedBucket DEF IndexInv, IndexEntries
<1>9. ASSUME NEW t \in Threads, unregister_finish(t)
      PROVE  IndexInv'
  <2> DEFINE c == op[t].conn
  <2>1. /\ mutation_lock = t /\ mutation_lock' = None /\ pc[t] = "unregister"
        /\ op[t].todo = {}
        /\ subscriptions' = [subscriptions EXCEPT ![c] = NoSubscriptions]
        /\ UNCHANGED <<connections, routes, buckets>>
    BY ZenonT(30), <1>9 DEF unregister_finish, Release, indexVars, LockInv
  <2>2. c \in ConnectionIds /\ c \notin connections /\ t # None
    BY ZenonT(30), <2>1, OneHolder DEF OpInv
  <2>3. /\ \A d : Unregistering(d) <=> d = c
        /\ \A d, i : /\ ~InProgress("subscribe", d, i) /\ ~InProgress("unsubscribe", d, i)
                     /\ ~InProgress("subscribe", d, i)' /\ ~InProgress("unsubscribe", d, i)'
                     /\ ~Unregistering(d)'
    BY ZenonT(30), <2>1, <2>2 DEF InProgress, Unregistering
  <2>4. \A d \in ConnectionIds : d # c => subscriptions'[d] = subscriptions[d]
    BY ZenonT(30), <2>1 DEF TypeOK
  <2>5. ASSUME NEW k \in RouteKey, NEW d \in ConnectionIds, NEW i \in SubscriptionIds
        PROVE  (<<k, d, i>> \in routes <=> IndexEntry(k, d, i))'
    <3>1. <<k, d, i>> \in routes <=> IndexEntry(k, d, i)
      BY SMTT(30) DEF IndexInv, IndexEntries
    <3>2. IndexEntry(k, d, i) <=> /\ d \in connections
                                  /\ subscriptions[d][i] # None
                                  /\ k = RouteKeyOf(subscriptions[d][i])
      BY ZenonT(30), <2>1, <2>3 DEF IndexEntry
    <3>3. IndexEntry(k, d, i)' <=> /\ d \in connections
                                   /\ subscriptions'[d][i] # None
                                   /\ k = RouteKeyOf(subscriptions'[d][i])
      BY ZenonT(30), <2>1, <2>3 DEF IndexEntry
    <3> QED BY ZenonT(30), <2>1, <2>2, <2>4, <3>1, <3>2, <3>3
  <2> QED BY ZenonT(30), <2>1, <2>5 DEF IndexInv, IndexEntries
<1> QED
  BY ZenonT(30), StepKinds, <1>1, <1>2, <1>3, <1>4, <1>5, <1>6, <1>7, <1>8, <1>9
     DEF CallerStep, UnregisterStep, unregister_connection, evict, Threads

-----------------------------------------------------------------------------
(* Dispatch                                                                *)

\* A dispatch in progress has a message.
LEMMA DispatchTypedStep ==
  ASSUME TypeOK, TypeOK', DispatchTyped, LockInv, [Next]_vars
  PROVE  DispatchTyped'
<1> SUFFICES ASSUME NEW d \in Dispatchers, pc'[d] # "idle", message'[d] = None
             PROVE  FALSE
  BY DEF DispatchTyped, TypeOK
<1>1. d \in Threads /\ d \notin Callers
  BY ZenonT(30), RouterAssumption DEF Threads
<1>2. \A e \in Dispatchers, m \in Messages : dispatch(e, m) => FALSE
  BY ZenonT(30), <1>1, RouterAssumption DEF dispatch, DispatchTyped, TypeOK, Threads
<1>3. \A e \in Dispatchers : dispatch_finish(e) => FALSE
  BY ZenonT(30), <1>1, RouterAssumption DEF dispatch_finish, DispatchTyped, TypeOK, Threads
<1>4. ASSUME message' = message, pc[d] = "idle" => pc'[d] = "idle"
      PROVE  FALSE
  BY ZenonT(30), <1>4, RouterAssumption DEF DispatchTyped
<1>5. ASSUME NEW e \in Dispatchers, lookup(e) \/ match_finish(e) PROVE FALSE
  BY ZenonT(30), <1>1, <1>4, <1>5 DEF lookup, match_finish, TypeOK, Threads
<1>6. ASSUME NEW e \in Dispatchers, NEW c \in ConnectionIds, Visit(e, c) PROVE FALSE
  BY ZenonT(30), <1>4, <1>6 DEF Visit
<1>7. ASSUME NEW e \in Dispatchers, NEW c \in ConnectionIds, evict(e, c) \/ evict_gone(e, c)
      PROVE  FALSE
  BY <1>1, <1>4, <1>7 DEF evict, evict_gone, Evict, RemoveConnection, Acquire, TypeOK, Threads
<1>8. ASSUME NEW t \in Callers, CallerStep(t) PROVE FALSE
  <2>1. message' = message
    BY ZenonT(30), <1>8 DEF CallerStep, register_connection, subscribe, unsubscribe,
       unregister_connection, subscribe_index, unsubscribe_index, dispatchVars
  <2>2. pc' = pc \/ \E step : pc' = [pc EXCEPT ![t] = step]
    BY ZenonT(30), <1>8 DEF CallerStep, register_connection, subscribe, unsubscribe,
       unregister_connection, subscribe_index, unsubscribe_index, RemoveConnection,
       Acquire, Release
  <2>3. pc'[d] = pc[d]
    BY Zenon, <1>1, <2>2 DEF TypeOK
  <2> QED BY ZenonT(30), <1>4, <2>1, <2>3
<1>9. ASSUME NEW t \in Threads, UnregisterStep(t) PROVE FALSE
  <2>1. message' = message
    BY ZenonT(30), <1>9 DEF UnregisterStep, unregister_route, unregister_finish, dispatchVars
  <2>2. pc'[d] = pc[d] \/ pc[d] = "unregister"
    BY ZenonT(30), <1>1, <1>9 DEF UnregisterStep, unregister_route, unregister_finish, Release, TypeOK
  <2> QED BY ZenonT(30), <1>4, <2>1, <2>2
<1>10. ASSUME NEW c \in ConnectionIds, ReceiverStep(c) PROVE FALSE
  BY ZenonT(30), <1>4, <1>10 DEF ReceiverStep, receive, drop_receiver, dispatchVars
<1>11. CASE UNCHANGED vars
  BY ZenonT(30), <1>4, <1>11 DEF vars, dispatchVars
<1> QED
  BY ZenonT(30), <1>2, <1>3, <1>5, <1>6, <1>7, <1>8, <1>9, <1>10, <1>11
     DEF Next, DispatchStep, visit_missing, visit_ok, visit_full, visit_closed

\* Steps after which a dispatch can only find less: everything but a
\* registration, a subscription and the progress of a dispatch itself.
ShrinkFrame ==
  /\ routes' \subseteq routes
  /\ \A c \in ConnectionIds, s \in SubscriptionIds :
       subscriptions'[c][s] = subscriptions[c][s] \/ subscriptions'[c][s] = None
  /\ UNCHANGED <<tenant_id, message, lookups, matches, seen>>
  /\ \A d \in Dispatchers : /\ pending'[d] \subseteq pending[d]
                            /\ pc'[d] = "idle" <=> pc[d] = "idle"

GrowStep ==
  \/ \E t \in Callers :
       \/ \E tn \in Tenants \cup {Invalid}, p \in Protocols, cap \in Capacities :
            register_connection(t, tn, p, cap)
       \/ \E c \in ConnectionIds, s \in SubscriptionIds, f \in Filters : subscribe(t, c, s, f)
       \/ subscribe_index(t)
  \/ \E d \in Dispatchers :
       \/ \E m \in Messages : dispatch(d, m)
       \/ lookup(d) \/ match_finish(d) \/ dispatch_finish(d)

\* Every step either is one of GrowStep or only takes away.
LEMMA ShrinkSteps ==
  ASSUME TypeOK, LockInv, OpInv, [Next]_vars
  PROVE  GrowStep \/ ShrinkFrame
<1>1. \A d \in Dispatchers : d \in Threads /\ d \notin Callers
  BY ZenonT(30), RouterAssumption DEF Threads
<1>2. ASSUME NEW t \in Callers, NEW c \in ConnectionIds, NEW s \in SubscriptionIds,
             unsubscribe(t, c, s)
      PROVE  ShrinkFrame
  BY ZenonT(30), <1>1, <1>2 DEF unsubscribe, Acquire, ShrinkFrame, TypeOK, indexVars, dispatchVars
<1>3. ASSUME NEW t \in Callers, unsubscribe_index(t)
      PROVE  ShrinkFrame
  BY ZenonT(30), <1>1, <1>3 DEF unsubscribe_index, remove_from_route, Release, ShrinkFrame, TypeOK,
                    connVars, dispatchVars, historyVars
<1>4. ASSUME NEW t \in Callers, NEW c \in ConnectionIds, unregister_connection(t, c)
      PROVE  ShrinkFrame
  BY ZenonT(30), <1>1, <1>4 DEF unregister_connection, RemoveConnection, Acquire, ShrinkFrame, TypeOK,
                    indexVars, dispatchVars
<1>5. ASSUME NEW t \in Threads, unregister_route(t)
      PROVE  ShrinkFrame
  BY ZenonT(30), <1>5 DEF unregister_route, remove_from_route, ShrinkFrame, connVars, dispatchVars,
              historyVars
<1>6. ASSUME NEW t \in Threads, unregister_finish(t)
      PROVE  ShrinkFrame
  <2>1. /\ pc[t] = "unregister" /\ op[t].conn \in ConnectionIds
        /\ pc' = [pc EXCEPT ![t] = IF t \in Dispatchers THEN "deliver" ELSE "idle"]
        /\ subscriptions' = [subscriptions EXCEPT ![op[t].conn] = NoSubscriptions]
        /\ UNCHANGED <<routes, tenant_id, message, lookups, matches, seen, pending>>
    BY ZenonT(30), <1>6
       DEF unregister_finish, Release, OpInv, indexVars, dispatchVars, historyVars
  <2> QED
    BY ZenonT(30), <1>1, <2>1 DEF ShrinkFrame, NoSubscriptions, TypeOK
<1>7. ASSUME NEW d \in Dispatchers, NEW c \in ConnectionIds, Visit(d, c)
      PROVE  ShrinkFrame
  BY ZenonT(30), <1>7 DEF Visit, ShrinkFrame, TypeOK, indexVars, historyVars
<1>8. ASSUME NEW d \in Dispatchers, NEW c \in ConnectionIds, evict(d, c)
      PROVE  ShrinkFrame
  BY ZenonT(30), <1>1, <1>8
     DEF evict, Evict, RemoveConnection, Acquire, ShrinkFrame, TypeOK, indexVars
<1>9. ASSUME NEW d \in Dispatchers, NEW c \in ConnectionIds, evict_gone(d, c)
      PROVE  ShrinkFrame
  BY ZenonT(30), <1>9 DEF evict_gone, Evict, ShrinkFrame, connVars, indexVars, historyVars
<1>10. ASSUME NEW c \in ConnectionIds, ReceiverStep(c)
       PROVE  ShrinkFrame
  BY ZenonT(30), <1>10 DEF ReceiverStep, receive, drop_receiver, ShrinkFrame, connVars, indexVars,
               dispatchVars, historyVars
<1>11. CASE UNCHANGED vars
  BY ZenonT(30), <1>11 DEF vars, ShrinkFrame, connVars, indexVars, dispatchVars, historyVars
<1> QED
  BY ZenonT(30), <1>2, <1>3, <1>4, <1>5, <1>6, <1>7, <1>8, <1>9, <1>10, <1>11
     DEF Next, CallerStep, UnregisterStep, DispatchStep, GrowStep,
         visit_missing, visit_ok, visit_full, visit_closed

\* A filter found under a candidate key matches the message, and the other way
\* round, by IndexAgreesWithReference.
LEMMA KeyMatches ==
  ASSUME NEW f \in ValidFilters, NEW m \in Messages
  PROVE  /\ RouteKeyOf(f) \in Candidates(m) <=> Matches(f, m)
         /\ Matches(f, m) => f.tenant_id = m.tenant_id
         /\ m.tenant_id # None
<1>1. m \in ValidMetadata
  BY RouterAssumption
<1>2. m.tenant_id \in Tenants
  BY ZenonT(30), <1>1, ValidDimensions, ValidMetadataIsValidFilter
<1>3. Matches(f, m) => f.tenant_id = m.tenant_id
  BY DEF Matches
<1> QED BY ZenonT(30), <1>1, <1>2, <1>3, IndexAgreesWithReference, MatchingAssumption

\* Nothing a dispatch finds is stale, through every step of every thread.
LEMMA SeenStep ==
  ASSUME TypeOK, LockInv, OpInv, TableInv, IndexInv, DispatchTyped, SeenInv, [Next]_vars
  PROVE  SeenInv'
<1>1. CASE ShrinkFrame
  <2> SUFFICES ASSUME NEW d \in Dispatchers PROVE Seen(d)'
    BY DEF SeenInv
  <2>1. Seen(d)
    BY DEF SeenInv
  <2>2. \A p \in Pairs : TableMatches(p[1], p[2], message[d])'
                           => TableMatches(p[1], p[2], message[d])
    BY ZenonT(30), <1>1 DEF ShrinkFrame, TableMatches, Pairs
  <2> QED BY <1>1, <2>1, <2>2 DEF ShrinkFrame, Seen
<1>2. ASSUME NEW t \in Callers, NEW tn \in Tenants \cup {Invalid}, NEW p \in Protocols,
             NEW cap \in Capacities, register_connection(t, tn, p, cap)
      PROVE  SeenInv'
  <2> SUFFICES ASSUME NEW d \in Dispatchers PROVE Seen(d)'
    BY DEF SeenInv
  <2>1. PICK c \in ConnectionIds :
          tenant_id[c] = None /\ tenant_id' = [tenant_id EXCEPT ![c] = tn]
    BY ZenonT(30), <1>2 DEF register_connection
  <2>2. UNCHANGED <<subscriptions, routes, pc, message, lookups, matches, pending, seen>>
    BY ZenonT(30), <1>2 DEF register_connection, indexVars, dispatchVars, historyVars
  <2>3. pc[d] # "idle" => message[d].tenant_id # None
    BY ZenonT(30), KeyMatches, RouterAssumption, ValidDimensions, ValidMetadataIsValidFilter,
       MatchingAssumption DEF DispatchTyped
  <2>4. pc[d] # "idle" => \A q \in seen[d] : tenant_id'[q[1]] = tenant_id[q[1]]
    BY <2>1, <2>3 DEF SeenInv, Seen, TypeOK, Pairs
  <2> QED BY <2>2, <2>4 DEF SeenInv, Seen, TableMatches
<1>3. ASSUME NEW t \in Callers, NEW c \in ConnectionIds, NEW s \in SubscriptionIds,
             NEW f \in Filters, subscribe(t, c, s, f)
      PROVE  SeenInv'
  <2> SUFFICES ASSUME NEW d \in Dispatchers PROVE Seen(d)'
    BY DEF SeenInv
  <2>1. /\ subscriptions' = [subscriptions EXCEPT ![c][s] = f]
        /\ pc' = [pc EXCEPT ![t] = "subscribe"]
        /\ seen' = [e \in Dispatchers |->
                IF message[e] # None /\ Matches(f, message[e])
                  THEN seen[e] \cup {<<c, s>>} ELSE seen[e]]
        /\ UNCHANGED <<tenant_id, routes, message, lookups, matches, pending>>
    BY <1>3 DEF subscribe, Acquire, indexVars, dispatchVars
  <2>2. f \in ValidFilters /\ f.tenant_id = tenant_id[c]
    BY ZenonT(30), <1>3, RouterAssumption DEF subscribe, ValidFilters, TenantOk
  <2>3. pc'[d] = pc[d] /\ d # t
    BY ZenonT(30), <2>1, RouterAssumption DEF TypeOK, Threads
  <2>4. CASE pc[d] = "idle"
    BY ZenonT(30), <2>1, <2>3, <2>4 DEF SeenInv, Seen
  <2>5. CASE pc[d] # "idle"
    <3>1. message[d] \in Messages /\ message[d] # None
      BY ZenonT(30), <2>5, RouterAssumption DEF DispatchTyped
    <3>2. Matches(f, message[d]) => tenant_id[c] = message[d].tenant_id
      BY <2>2, <3>1, KeyMatches
    <3>3. seen'[d] = IF Matches(f, message[d]) THEN seen[d] \cup {<<c, s>>} ELSE seen[d]
      BY <2>1, <3>1
    <3>4. ASSUME NEW p \in Pairs, TableMatches(p[1], p[2], message[d])'
          PROVE  p \in seen'[d]
      <4>1. CASE p = <<c, s>>
        BY ZenonT(30), <2>1, <3>3, <3>4, <4>1 DEF TableMatches, TypeOK
      <4>2. CASE p # <<c, s>>
        <5>1. subscriptions'[p[1]][p[2]] = subscriptions[p[1]][p[2]]
          BY SMTT(30), <2>1, <4>2 DEF TypeOK, Pairs
        <5> QED BY ZenonT(30), <2>1, <2>5, <3>3, <3>4, <5>1 DEF SeenInv, Seen, TableMatches
      <4> QED BY ZenonT(30), <4>1, <4>2
    <3>5. \A p \in seen'[d] : tenant_id'[p[1]] = message'[d].tenant_id
      BY SMTT(30), <2>1, <2>5, <3>2, <3>3 DEF SeenInv, Seen
    <3>6. seen[d] \subseteq seen'[d]
      BY ZenonT(30), <3>3
    <3> QED BY ZenonT(30), <2>1, <2>3, <2>5, <3>4, <3>5, <3>6 DEF SeenInv, Seen
  <2> QED BY <2>4, <2>5
<1>4. ASSUME NEW t \in Callers, subscribe_index(t)
      PROVE  SeenInv'
  <2> DEFINE c == op[t].conn
             s == op[t].sub
             f == op[t].filter
  <2> SUFFICES ASSUME NEW d \in Dispatchers PROVE Seen(d)'
    BY SMTT(30) DEF SeenInv
  <2>1. /\ pc[t] = "subscribe" /\ t \in Threads
        /\ routes' = routes \cup {<<RouteKeyOf(f), c, s>>}
        /\ pc' = [pc EXCEPT ![t] = "idle"]
        /\ UNCHANGED <<tenant_id, subscriptions, message, lookups, matches, pending, seen>>
    BY ZenonT(30), <1>4, RouterAssumption
       DEF subscribe_index, add_to_route, Release, connVars, dispatchVars, historyVars, Threads
  <2>2. /\ <<c, s>> \in Pairs /\ f \in ValidFilters /\ f # None
        /\ subscriptions[c][s] = f
    <3>1. /\ c \in connections /\ s \in SubscriptionIds /\ f \in ValidFilters \cap Filters
          /\ subscriptions[c][s] = f /\ connections \subseteq ConnectionIds
      BY ZenonT(30), <2>1 DEF OpInv, TypeOK
    <3> QED BY ZenonT(30), <3>1, RouterAssumption DEF Pairs
  <2>3. pc'[d] = pc[d]
    <3>1. t # d /\ d \in Threads
      BY Zenon, RouterAssumption DEF Threads
    <3> QED BY Zenon, <2>1, <3>1 DEF TypeOK
  <2>4. ASSUME pc[d] # "idle", RouteKeyOf(f) \in Candidates(message[d])
        PROVE  <<c, s>> \in seen[d]
    <3>1. Matches(f, message[d])
      BY ZenonT(30), <2>2, <2>4, KeyMatches DEF DispatchTyped
    <3>2. TableMatches(c, s, message[d])
      BY ZenonT(30), <2>2, <3>1 DEF TableMatches
    <3> QED BY ZenonT(30), <2>2, <2>4, <3>2 DEF SeenInv, Seen
  <2>5. \A p \in Pairs : \A k : <<k, p[1], p[2]>> \in routes' =>
          <<k, p[1], p[2]>> \in routes \/ (k = RouteKeyOf(f) /\ p = <<c, s>>)
    <3>1. \A p \in Pairs : p = <<p[1], p[2]>>
      BY DEF Pairs
    <3>2. \A k, x, y : <<k, x, y>> = <<RouteKeyOf(f), c, s>> =>
            k = RouteKeyOf(f) /\ <<x, y>> = <<c, s>>
      OBVIOUS
    <3> QED BY Zenon, <2>1, <3>1, <3>2
  <2> QED BY ZenonT(30), <2>1, <2>3, <2>4, <2>5 DEF SeenInv, Seen, TableMatches
<1>5. ASSUME NEW e \in Dispatchers, NEW m \in Messages, dispatch(e, m)
      PROVE  SeenInv'
  <2> SUFFICES ASSUME NEW d \in Dispatchers PROVE Seen(d)'
    BY ZenonT(30) DEF SeenInv
  <2>1. /\ pc[e] = "idle" /\ pc' = [pc EXCEPT ![e] = "match"] /\ e \in Threads
        /\ message' = [message EXCEPT ![e] = m]
        /\ lookups' = [lookups EXCEPT ![e] = Candidates(m)]
        /\ UNCHANGED <<tenant_id, subscriptions, routes, matches, pending>>
    BY ZenonT(30), <1>5 DEF dispatch, connVars, indexVars, Threads
  <2>2. seen' = [seen EXCEPT ![e] =
          {p \in Pairs : \/ TableMatches(p[1], p[2], m)
                         \/ /\ InProgress("unsubscribe", p[1], p[2])
                            /\ Matches(op[mutation_lock].filter, m)}]
    BY ZenonT(30), <1>5 DEF dispatch
  <2>3. CASE d # e
    <3>1. /\ pc'[d] = pc[d] /\ message'[d] = message[d] /\ lookups'[d] = lookups[d]
          /\ seen'[d] = seen[d]
      BY ZenonT(30), <2>1, <2>2, <2>3 DEF TypeOK, Threads
    <3> QED BY ZenonT(30), <2>1, <3>1 DEF SeenInv, Seen, TableMatches
  <2>4. CASE d = e
    <3>1. /\ pc'[d] = "match" /\ message'[d] = m /\ lookups'[d] = Candidates(m)
          /\ matches'[d] = {} /\ pending'[d] = {}
      BY ZenonT(30), <2>1, <2>4 DEF TypeOK, SeenInv, Seen
    <3>2. \A p : p \in seen'[d] <=>
            p \in Pairs /\ \/ TableMatches(p[1], p[2], m)
                           \/ /\ InProgress("unsubscribe", p[1], p[2])
                              /\ Matches(op[mutation_lock].filter, m)
      BY ZenonT(30), <2>2, <2>4 DEF TypeOK
    <3>3. \A p \in Pairs : InProgress("unsubscribe", p[1], p[2]) =>
            /\ op[mutation_lock].filter \in ValidFilters
            /\ op[mutation_lock].filter.tenant_id = tenant_id[p[1]]
      BY ZenonT(30) DEF InProgress, OpInv, TypeOK
    <3>4. \A p \in Pairs : TableMatches(p[1], p[2], m) =>
            /\ subscriptions[p[1]][p[2]] \in ValidFilters
            /\ subscriptions[p[1]][p[2]].tenant_id = tenant_id[p[1]]
            /\ Matches(subscriptions[p[1]][p[2]], m)
      BY ZenonT(30) DEF TableMatches, TableInv, Pairs
    <3>5. ASSUME NEW p \in Pairs, NEW k \in Candidates(m), <<k, p[1], p[2]>> \in routes
          PROVE  p \in seen'[d]
      <4>1. k \in RouteKey /\ p[1] \in ConnectionIds /\ p[2] \in SubscriptionIds
        BY ZenonT(30), <3>5, CandidatesType DEF Pairs
      <4>2. IndexEntry(k, p[1], p[2])
        BY ZenonT(30), <3>5, <4>1 DEF IndexInv, IndexEntries
      <4>3. CASE InProgress("unsubscribe", p[1], p[2]) /\ k = RouteKeyOf(op[mutation_lock].filter)
        BY ZenonT(30), <3>2, <3>3, <3>5, <4>3, KeyMatches
      <4>4. CASE subscriptions[p[1]][p[2]] # None /\ k = RouteKeyOf(subscriptions[p[1]][p[2]])
        <5>1. subscriptions[p[1]][p[2]] \in ValidFilters
          BY ZenonT(30), <4>1, <4>4 DEF TableInv
        <5> QED BY ZenonT(30), <3>2, <3>5, <4>4, <5>1, KeyMatches DEF TableMatches
      <4>5. ASSUME Unregistering(p[1]), p[2] \in op[mutation_lock].todo
            PROVE  subscriptions[p[1]][p[2]] # None
        <5>1. mutation_lock \in Threads
          BY Zenon, <4>5 DEF Unregistering, TypeOK
        <5> QED BY ZenonT(30), <4>5, <5>1 DEF Unregistering, OpInv, SubscriptionsOf
      <4> QED BY ZenonT(30), <4>2, <4>3, <4>4, <4>5 DEF IndexEntry
    <3>6. \A p \in seen'[d] : tenant_id'[p[1]] = m.tenant_id
      BY ZenonT(30), <2>1, <3>2, <3>3, <3>4, KeyMatches
    <3>7. \A p \in Pairs : TableMatches(p[1], p[2], message[d])' => p \in seen'[d]
      <4>1. \A p \in Pairs : TableMatches(p[1], p[2], message[d])'
                             => TableMatches(p[1], p[2], m)
        BY ZenonT(30), <2>1, <3>1 DEF TableMatches
      <4> QED BY ZenonT(30), <3>2, <4>1
    <3> QED BY ZenonT(30), <2>1, <3>1, <3>5, <3>6, <3>7 DEF Seen
  <2> QED BY <2>3, <2>4
<1>6. ASSUME NEW e \in Dispatchers, lookup(e)
      PROVE  SeenInv'
  <2> SUFFICES ASSUME NEW d \in Dispatchers PROVE Seen(d)'
    BY SMTT(30) DEF SeenInv
  <2>1. PICK k \in lookups[e] :
          /\ lookups' = [lookups EXCEPT ![e] = @ \ {k}]
          /\ matches' = [matches EXCEPT ![e] =
                           @ \cup {p \in Pairs : <<k, p[1], p[2]>> \in routes}]
    BY ZenonT(30), <1>6 DEF lookup
  <2>2. /\ pc[e] = "match"
        /\ UNCHANGED <<tenant_id, subscriptions, routes, pc, message, pending, seen>>
    BY ZenonT(30), <1>6 DEF lookup, connVars, indexVars, historyVars
  <2>3. k \in Candidates(message[e])
    BY ZenonT(30), <2>1, <2>2 DEF SeenInv, Seen
  <2>4. matches'[d] \subseteq seen[d]
    BY ZenonT(30), <2>1, <2>2, <2>3 DEF SeenInv, Seen, TypeOK
  <2>5. /\ lookups'[d] \subseteq lookups[d] /\ matches[d] \subseteq matches'[d]
        /\ d # e => matches'[d] = matches[d]
    BY <2>1 DEF TypeOK
  <2>6. pc[d] # "idle" => \A c \in pending[d] : \E s \in SubscriptionIds : <<c, s>> \in matches'[d]
    BY ZenonT(30), <2>5 DEF SeenInv, Seen
  <2> QED BY ZenonT(30), <2>2, <2>4, <2>5, <2>6 DEF SeenInv, Seen, TableMatches
<1>7. ASSUME NEW e \in Dispatchers, match_finish(e)
      PROVE  SeenInv'
  <2> SUFFICES ASSUME NEW d \in Dispatchers PROVE Seen(d)'
    BY DEF SeenInv
  <2>1. /\ pc[e] = "match" /\ pc' = [pc EXCEPT ![e] = "deliver"] /\ e \in Threads
        /\ pending' = [pending EXCEPT ![e] = {p[1] : p \in matches[e]}]
        /\ UNCHANGED <<tenant_id, subscriptions, routes, message, lookups, matches, seen>>
    BY ZenonT(30), <1>7 DEF match_finish, connVars, indexVars, historyVars, Threads
  <2>2. pc'[d] = "idle" <=> pc[d] = "idle"
    BY <2>1 DEF TypeOK
  <2>3. /\ pc[d] = "idle" => pending'[d] = pending[d]
        /\ pc[d] # "idle" => \A c \in pending'[d] : \E s \in SubscriptionIds : <<c, s>> \in matches[d]
    <3>1. CASE d # e
      BY ZenonT(30), <2>1, <3>1 DEF SeenInv, Seen, TypeOK
    <3>2. CASE d = e
      <4>1. pending'[d] = {p[1] : p \in matches[d]} /\ matches[d] \subseteq Pairs
        BY ZenonT(30), <2>1, <3>2 DEF TypeOK
      <4>2. \A p \in Pairs : p = <<p[1], p[2]>> /\ p[2] \in SubscriptionIds
        BY DEF Pairs
      <4> QED BY SMTT(30), <2>1, <3>2, <4>1, <4>2
    <3> QED BY SMTT(30), <3>1, <3>2
  <2> QED BY ZenonT(30), <2>1, <2>2, <2>3 DEF SeenInv, Seen, TableMatches
<1>8. ASSUME NEW e \in Dispatchers, dispatch_finish(e)
      PROVE  SeenInv'
  <2> SUFFICES ASSUME NEW d \in Dispatchers PROVE Seen(d)'
    BY DEF SeenInv
  <2>1. /\ pending[e] = {} /\ pc' = [pc EXCEPT ![e] = "idle"] /\ e \in Threads
        /\ message' = [message EXCEPT ![e] = None]
        /\ matches' = [matches EXCEPT ![e] = {}]
        /\ seen' = [seen EXCEPT ![e] = {}]
        /\ UNCHANGED <<tenant_id, subscriptions, routes, lookups, pending>>
    BY ZenonT(30), <1>8 DEF dispatch_finish, connVars, indexVars, Threads
  <2>2. CASE d = e
    BY ZenonT(30), <2>1, <2>2 DEF Seen, TypeOK
  <2>3. CASE d # e
    <3>1. /\ pc'[d] = pc[d] /\ message'[d] = message[d] /\ matches'[d] = matches[d]
          /\ seen'[d] = seen[d]
      BY <2>1, <2>3 DEF TypeOK, Threads
    <3> QED BY SMTT(30), <2>1, <3>1 DEF SeenInv, Seen, TableMatches
  <2> QED BY SMTT(30), <2>2, <2>3
<1> QED
  BY ZenonT(30), ShrinkSteps, <1>1, <1>2, <1>3, <1>4, <1>5, <1>6, <1>7, <1>8 DEF GrowStep

\* No subscription in place throughout is lost between two lookups.
LEMMA SteadyStep ==
  ASSUME TypeOK, LockInv, OpInv, TableInv, IndexInv, DispatchTyped, SteadyInv, [Next]_vars
  PROVE  SteadyInv'
<1>1. ASSUME UNCHANGED <<message, lookups, matches>>,
             \A d \in Dispatchers :
               /\ steady'[d] \subseteq steady[d]
               /\ pc'[d] = "match" <=> pc[d] = "match"
               /\ pc[d] = "match" => \A p \in steady'[d] :
                    /\ p[1] \in connections'
                    /\ subscriptions'[p[1]][p[2]] = subscriptions[p[1]][p[2]]
                    /\ ~InProgress("subscribe", p[1], p[2])'
      PROVE  SteadyInv'
  BY ZenonT(30), <1>1 DEF SteadyInv, TableMatches
<1>2. \A d \in Dispatchers : d \in Threads /\ d \notin Callers
  BY SMTT(30), RouterAssumption DEF Threads
<1>3. \A d \in Dispatchers : pc[d] = "match" => \A p \in steady[d] :
        /\ p[1] \in connections /\ p[1] \in ConnectionIds /\ p[2] \in SubscriptionIds
        /\ p = <<p[1], p[2]>>
        /\ subscriptions[p[1]][p[2]] # None
        /\ ~InProgress("subscribe", p[1], p[2])
  BY SMTT(30) DEF SteadyInv, TableMatches, TypeOK, Pairs
<1>4. CASE \/ \E d \in Dispatchers, c \in ConnectionIds : Visit(d, c) \/ evict_gone(d, c)
           \/ \E c \in ConnectionIds : ReceiverStep(c)
           \/ UNCHANGED vars
  <2>1. UNCHANGED <<connections, subscriptions, mutation_lock, op, pc, message, lookups,
                    matches, steady>>
    BY SMTT(30), <1>4 DEF Visit, evict_gone, Evict, ReceiverStep, receive, drop_receiver, vars,
       connVars, dispatchVars, historyVars
  <2> QED BY ZenonT(30), <2>1 DEF SteadyInv, TableMatches, InProgress
<1>5. ASSUME NEW t \in Callers, NEW tn \in Tenants \cup {Invalid}, NEW p \in Protocols,
             NEW cap \in Capacities, register_connection(t, tn, p, cap)
      PROVE  SteadyInv'
  <2>1. /\ connections \subseteq connections'
        /\ UNCHANGED <<subscriptions, mutation_lock, op, pc, message, lookups, matches, steady>>
    BY SMTT(30), <1>5 DEF register_connection, dispatchVars, historyVars
  <2> QED BY ZenonT(30), <2>1 DEF SteadyInv, TableMatches, InProgress
<1>6. ASSUME NEW t \in Callers, NEW c \in ConnectionIds, NEW s \in SubscriptionIds,
             NEW f \in Filters, subscribe(t, c, s, f)
      PROVE  SteadyInv'
  <2>1. /\ mutation_lock' = t /\ t \in Threads
        /\ pc' = [pc EXCEPT ![t] = "subscribe"]
        /\ op' = [op EXCEPT ![t] = Op(c, s, f, {})]
        /\ subscriptions[c][s] = None
        /\ subscriptions' = [subscriptions EXCEPT ![c][s] = f]
        /\ UNCHANGED <<connections, message, lookups, matches, steady>>
    BY SMTT(30), <1>6 DEF subscribe, Acquire, dispatchVars, Threads
  <2>2. op'[t].conn = c /\ op'[t].sub = s
    BY SMTT(30), <2>1 DEF TypeOK, Op
  <2>3. \A d \in Dispatchers : pc[d] = "match" => \A p \in steady[d] : p[1] # c \/ p[2] # s
    BY ZenonT(30), <1>3, <2>1
  <2>4. \A d \in Dispatchers : pc[d] = "match" => \A p \in steady[d] :
          /\ subscriptions'[p[1]][p[2]] = subscriptions[p[1]][p[2]]
          /\ ~InProgress("subscribe", p[1], p[2])'
    BY ZenonT(30), <1>3, <2>1, <2>2, <2>3 DEF TypeOK, InProgress
  <2>5. \A d \in Dispatchers : pc'[d] = pc[d]
    BY ZenonT(30), <1>2, <2>1 DEF TypeOK
  <2> QED BY ZenonT(30), <1>1, <1>3, <2>1, <2>4, <2>5
<1>7. ASSUME NEW t \in Callers, NEW c \in ConnectionIds, NEW s \in SubscriptionIds,
             unsubscribe(t, c, s)
      PROVE  SteadyInv'
  <2>1. /\ mutation_lock' = t /\ t \in Threads
        /\ pc' = [pc EXCEPT ![t] = "unsubscribe"]
        /\ subscriptions' = [subscriptions EXCEPT ![c][s] = None]
        /\ steady' = [d \in Dispatchers |-> steady[d] \ {<<c, s>>}]
        /\ UNCHANGED <<connections, message, lookups, matches>>
    BY ZenonT(30), <1>7 DEF unsubscribe, Acquire, dispatchVars, Threads
  <2>2. \A d \in Dispatchers : pc[d] = "match" => \A p \in steady'[d] :
          /\ subscriptions'[p[1]][p[2]] = subscriptions[p[1]][p[2]]
          /\ ~InProgress("subscribe", p[1], p[2])'
    BY ZenonT(30), <1>3, <2>1 DEF TypeOK, InProgress
  <2>3. \A d \in Dispatchers : pc'[d] = pc[d] /\ steady'[d] \subseteq steady[d]
    BY SMTT(30), <1>2, <2>1 DEF TypeOK
  <2> QED BY ZenonT(30), <1>1, <1>3, <2>1, <2>2, <2>3
<1>8. ASSUME NEW t \in Threads, NEW c \in ConnectionIds, RemoveConnection(t, c),
             UNCHANGED <<message, lookups, matches>>, pc[t] # "match"
      PROVE  SteadyInv'
  <2>1. /\ mutation_lock' = t
        /\ pc' = [pc EXCEPT ![t] = "unregister"]
        /\ connections' = connections \ {c} /\ subscriptions' = subscriptions
        /\ steady' = [d \in Dispatchers |-> {p \in steady[d] : p[1] # c}]
    BY ZenonT(30), <1>8 DEF RemoveConnection, Acquire
  <2>2. \A d \in Dispatchers : pc[d] = "match" => \A p \in steady'[d] :
          /\ p[1] \in connections'
          /\ ~InProgress("subscribe", p[1], p[2])'
    BY ZenonT(30), <1>3, <2>1 DEF TypeOK, InProgress
  <2>3. \A d \in Dispatchers : (pc'[d] = "match" <=> pc[d] = "match") /\ steady'[d] \subseteq steady[d]
    BY ZenonT(30), <1>2, <1>8, <2>1 DEF TypeOK
  <2> QED BY ZenonT(30), <1>1, <1>8, <2>1, <2>2, <2>3
<1>9. ASSUME NEW t \in Callers, subscribe_index(t) \/ unsubscribe_index(t)
      PROVE  SteadyInv'
  <2>1. /\ mutation_lock' = None /\ t \in Threads
        /\ pc' = [pc EXCEPT ![t] = "idle"]
        /\ UNCHANGED <<connections, subscriptions, message, lookups, matches, steady>>
    BY ZenonT(30), <1>9, RouterAssumption DEF subscribe_index, unsubscribe_index, Release, connVars,
       dispatchVars, historyVars, Threads
  <2>2. \A d \in Dispatchers : pc'[d] = pc[d]
    BY ZenonT(30), <1>2, <2>1 DEF TypeOK
  <2> QED BY ZenonT(30), <1>1, <1>3, <2>1, <2>2 DEF InProgress
<1>10. ASSUME NEW t \in Threads, unregister_route(t)
       PROVE  SteadyInv'
  <2>1. /\ mutation_lock = t /\ pc[t] = "unregister"
        /\ UNCHANGED <<connections, subscriptions, mutation_lock, pc, message, lookups,
                       matches, steady>>
    BY ZenonT(30), <1>10 DEF unregister_route, connVars, dispatchVars, historyVars, LockInv
  <2> QED BY <1>1, <1>3, <2>1 DEF InProgress
<1>11. ASSUME NEW t \in Threads, unregister_finish(t)
       PROVE  SteadyInv'
  <2>1. /\ pc[t] = "unregister" /\ mutation_lock' = None
        /\ pc' = [pc EXCEPT ![t] = IF t \in Dispatchers THEN "deliver" ELSE "idle"]
        /\ subscriptions' = [subscriptions EXCEPT ![op[t].conn] = NoSubscriptions]
        /\ UNCHANGED <<connections, message, lookups, matches, steady>>
    BY SMTT(30), <1>11 DEF unregister_finish, Release, dispatchVars, historyVars
  <2>2. op[t].conn \in ConnectionIds /\ op[t].conn \notin connections
    BY ZenonT(30), <2>1 DEF OpInv
  <2>3. \A d \in Dispatchers : pc[d] = "match" => \A p \in steady[d] :
          subscriptions'[p[1]][p[2]] = subscriptions[p[1]][p[2]]
    BY ZenonT(30), <1>3, <2>1, <2>2 DEF TypeOK
  <2>4. \A d \in Dispatchers : pc'[d] = "match" <=> pc[d] = "match"
    BY ZenonT(30), <1>2, <2>1 DEF TypeOK
  <2> QED BY ZenonT(30), <1>1, <1>3, <2>1, <2>3, <2>4 DEF InProgress
<1>12. ASSUME NEW e \in Dispatchers, NEW m \in Messages, dispatch(e, m)
       PROVE  SteadyInv'
  <2>1. /\ pc[e] = "idle" /\ pc' = [pc EXCEPT ![e] = "match"] /\ e \in Threads
        /\ message' = [message EXCEPT ![e] = m]
        /\ lookups' = [lookups EXCEPT ![e] = Candidates(m)]
        /\ UNCHANGED <<connections, subscriptions, mutation_lock, op, matches>>
        /\ steady' = [steady EXCEPT ![e] =
             {p \in Pairs : /\ p[1] \in connections
                            /\ TableMatches(p[1], p[2], m)
                            /\ ~InProgress("subscribe", p[1], p[2])}]
    BY ZenonT(30), <1>12 DEF dispatch, connVars, Threads
  <2>2. \A c, s : InProgress("subscribe", c, s)' <=> InProgress("subscribe", c, s)
    BY SMTT(30), <2>1 DEF InProgress, TypeOK
  <2> SUFFICES ASSUME NEW d \in Dispatchers, NEW p \in steady'[d]
               PROVE  /\ pc'[d] = "match" =>
                           /\ p[1] \in connections
                           /\ TableMatches(p[1], p[2], message'[d])
                           /\ ~InProgress("subscribe", p[1], p[2])
                           /\ \/ p \in matches[d]
                              \/ RouteKeyOf(subscriptions[p[1]][p[2]]) \in lookups'[d]
                      /\ pc'[d] # "match" => p \in matches[d]
    BY ZenonT(30), <2>1, <2>2 DEF SteadyInv, TableMatches
  <2>3. CASE d # e
    BY ZenonT(30), <1>2, <2>1, <2>3 DEF SteadyInv, TypeOK
  <2>4. CASE d = e
    <3>1. /\ pc'[d] = "match" /\ message'[d] = m /\ lookups'[d] = Candidates(m)
          /\ p \in Pairs /\ p[1] \in connections /\ TableMatches(p[1], p[2], m)
          /\ ~InProgress("subscribe", p[1], p[2])
      BY ZenonT(30), <2>1, <2>4 DEF TypeOK
    <3>2. /\ subscriptions[p[1]][p[2]] \in ValidFilters
          /\ Matches(subscriptions[p[1]][p[2]], m)
      <4>1. p[1] \in ConnectionIds /\ p[2] \in SubscriptionIds
        BY <3>1 DEF Pairs
      <4> QED BY ZenonT(30), <3>1, <4>1 DEF TableMatches, TableInv
    <3> QED BY ZenonT(30), <3>1, <3>2, KeyMatches
  <2> QED BY ZenonT(30), <2>3, <2>4
<1>13. ASSUME NEW e \in Dispatchers, lookup(e)
       PROVE  SteadyInv'
  <2>1. PICK k \in lookups[e] :
          /\ lookups' = [lookups EXCEPT ![e] = @ \ {k}]
          /\ matches' = [matches EXCEPT ![e] =
                           @ \cup {p \in Pairs : <<k, p[1], p[2]>> \in routes}]
    BY ZenonT(30), <1>13 DEF lookup
  <2>2. /\ pc[e] = "match"
        /\ UNCHANGED <<connections, subscriptions, mutation_lock, op, pc, message, steady>>
    BY ZenonT(30), <1>13 DEF lookup, connVars, historyVars
  <2> SUFFICES ASSUME NEW d \in Dispatchers, NEW p \in steady[d]
               PROVE  /\ pc[d] = "match" =>
                           \/ p \in matches'[d]
                           \/ RouteKeyOf(subscriptions[p[1]][p[2]]) \in lookups'[d]
                      /\ pc[d] # "match" => p \in matches'[d]
    BY <2>2 DEF SteadyInv, TableMatches, InProgress
  <2>3. CASE d # e
    BY ZenonT(30), <2>1, <2>3 DEF SteadyInv, TypeOK
  <2>4. CASE d = e
    <3>1. /\ matches'[d] = matches[d] \cup {q \in Pairs : <<k, q[1], q[2]>> \in routes}
          /\ lookups'[d] = lookups[d] \ {k} /\ k \in RouteKey /\ p \in Pairs
      BY ZenonT(30), <2>1, <2>4 DEF TypeOK
    <3>2. CASE k = RouteKeyOf(subscriptions[p[1]][p[2]])
      <4>1. IndexEntry(k, p[1], p[2])
        BY ZenonT(30), <1>3, <2>2, <2>4, <3>2 DEF IndexEntry
      <4>2. <<k, p[1], p[2]>> \in routes
        BY ZenonT(30), <1>3, <2>2, <2>4, <3>1, <4>1 DEF IndexInv, IndexEntries
      <4> QED BY ZenonT(30), <2>2, <2>4, <3>1, <4>2
    <3>3. CASE k # RouteKeyOf(subscriptions[p[1]][p[2]])
      BY ZenonT(30), <2>2, <2>4, <3>1, <3>3 DEF SteadyInv
    <3> QED BY ZenonT(30), <3>2, <3>3
  <2> QED BY SMTT(30), <2>3, <2>4
<1>14. ASSUME NEW e \in Dispatchers, match_finish(e)
       PROVE  SteadyInv'
  <2>1. /\ pc[e] = "match" /\ lookups[e] = {} /\ pc' = [pc EXCEPT ![e] = "deliver"]
        /\ UNCHANGED <<connections, subscriptions, mutation_lock, op, message, lookups,
                       matches, steady>>
    BY ZenonT(30), <1>14 DEF match_finish, connVars, historyVars
  <2>2. \A c, s : InProgress("subscribe", c, s)' => InProgress("subscribe", c, s)
    BY ZenonT(30), <1>2, <2>1 DEF InProgress, TypeOK
  <2> QED BY ZenonT(30), <1>2, <2>1, <2>2 DEF SteadyInv, TableMatches, TypeOK
<1>15. ASSUME NEW e \in Dispatchers, dispatch_finish(e)
       PROVE  SteadyInv'
  <2>1. /\ pc[e] = "deliver" /\ pc' = [pc EXCEPT ![e] = "idle"]
        /\ message' = [message EXCEPT ![e] = None]
        /\ matches' = [matches EXCEPT ![e] = {}]
        /\ steady' = [steady EXCEPT ![e] = {}]
        /\ UNCHANGED <<connections, subscriptions, mutation_lock, op, lookups>>
    BY ZenonT(30), <1>15 DEF dispatch_finish, connVars
  <2>2. \A c, s : InProgress("subscribe", c, s)' => InProgress("subscribe", c, s)
    BY ZenonT(30), <1>2, <2>1 DEF InProgress, TypeOK
  <2> QED BY ZenonT(30), <1>2, <2>1, <2>2 DEF SteadyInv, TableMatches, TypeOK
<1>16. ASSUME NEW t \in Callers, NEW c \in ConnectionIds, unregister_connection(t, c)
       PROVE  SteadyInv'
  BY ZenonT(30), <1>8, <1>16 DEF unregister_connection, dispatchVars, Threads
<1>17. ASSUME NEW d \in Dispatchers, NEW c \in ConnectionIds, evict(d, c)
       PROVE  SteadyInv'
  BY ZenonT(30), <1>2, <1>8, <1>17 DEF evict, Evict
<1> QED
  BY ZenonT(30), <1>4, <1>5, <1>6, <1>7, <1>9, <1>10, <1>11, <1>12, <1>13, <1>14, <1>15, <1>16, <1>17
     DEF Next, CallerStep, UnregisterStep, DispatchStep,
         visit_missing, visit_ok, visit_full, visit_closed

\* Receiving moves every delivery left one place forward.
LEMMA TailElements ==
  ASSUME NEW S, NEW q \in Seq(S), Len(q) > 0, NEW i \in 1..Len(Tail(q))
  PROVE  i + 1 \in 1..Len(q) /\ Tail(q)[i] = q[i + 1]
BY SMTT(30)

\* A delivery enters a queue only for a connection of the message's tenant.
LEMMA TenantStep ==
  ASSUME TypeOK, FreshInv, DispatchTyped, SeenInv, TenantIsolation, [Next]_vars
  PROVE  TenantIsolation'
<1>1. ASSUME queue' = queue, tenant_id' = tenant_id
      PROVE  TenantIsolation'
  BY ZenonT(30), <1>1 DEF TenantIsolation
<1>2. ASSUME NEW t \in Callers, NEW tn \in Tenants \cup {Invalid}, NEW p \in Protocols,
             NEW cap \in Capacities, register_connection(t, tn, p, cap)
      PROVE  TenantIsolation'
  <2>1. PICK c \in ConnectionIds :
          tenant_id[c] = None /\ tenant_id' = [tenant_id EXCEPT ![c] = tn]
    BY ZenonT(30), <1>2 DEF register_connection
  <2>2. queue' = queue /\ Len(queue[c]) = 0
    BY <1>2, <2>1 DEF register_connection, FreshInv
  <2> QED BY <2>1, <2>2 DEF TenantIsolation, TypeOK
<1>3. ASSUME NEW d \in Dispatchers, NEW c \in ConnectionIds, visit_ok(d, c)
      PROVE  TenantIsolation'
  <2>1. /\ pc[d] = "deliver" /\ c \in pending[d] /\ tenant_id' = tenant_id
        /\ queue' = [queue EXCEPT ![c] = Append(@, Delivery(d, c))]
    BY ZenonT(30), <1>3 DEF visit_ok, Visit
  <2>2. Delivery(d, c).message.tenant_id = tenant_id[c]
    <3>1. PICK s \in SubscriptionIds : <<c, s>> \in seen[d]
      BY ZenonT(30), <2>1 DEF SeenInv, Seen
    <3>2. tenant_id[c] = message[d].tenant_id
      BY ZenonT(30), <2>1, <3>1 DEF SeenInv, Seen
    <3> QED BY ZenonT(30), <3>2 DEF Delivery
  <2>3. ASSUME NEW i \in 1..Len(queue'[c])
        PROVE  queue'[c][i].message.tenant_id = tenant_id[c]
    <3>1. /\ queue[c] \in Seq(DeliveryType) /\ queue'[c] = Append(queue[c], Delivery(d, c))
      BY ZenonT(30), <2>1 DEF TypeOK
    <3>2. Delivery(d, c) \in DeliveryType
      BY ZenonT(30), <2>1 DEF Delivery, DeliveryType, DispatchTyped
    <3>3. /\ Len(queue'[c]) = Len(queue[c]) + 1
          /\ i \in 1..Len(queue[c]) => queue'[c][i] = queue[c][i]
          /\ i = Len(queue[c]) + 1 => queue'[c][i] = Delivery(d, c)
          /\ i \in 1..Len(queue[c]) \/ i = Len(queue[c]) + 1
      BY <3>1, <3>2
    <3> QED BY ZenonT(30), <2>2, <3>3 DEF TenantIsolation
  <2>4. \A b \in ConnectionIds : b # c => queue'[b] = queue[b]
    BY ZenonT(30), <2>1 DEF TypeOK
  <2> QED BY <2>1, <2>3, <2>4 DEF TenantIsolation
<1>4. ASSUME NEW c \in ConnectionIds, receive(c)
      PROVE  TenantIsolation'
  <2>1. /\ Len(queue[c]) > 0 /\ tenant_id' = tenant_id
        /\ queue' = [queue EXCEPT ![c] = Tail(@)]
    BY <1>4 DEF receive, connVars
  <2>2. ASSUME NEW i \in 1..Len(queue'[c])
        PROVE  queue'[c][i].message.tenant_id = tenant_id[c]
    <3>1. queue[c] \in Seq(DeliveryType) /\ queue'[c] = Tail(queue[c])
      BY <2>1 DEF TypeOK
    <3>2. i + 1 \in 1..Len(queue[c]) /\ queue'[c][i] = queue[c][i + 1]
      BY ZenonT(30), <2>1, <3>1, TailElements
    <3> QED BY ZenonT(30), <3>2 DEF TenantIsolation
  <2>3. \A b \in ConnectionIds : b # c => queue'[b] = queue[b]
    BY ZenonT(30), <2>1 DEF TypeOK
  <2> QED BY <2>1, <2>2, <2>3 DEF TenantIsolation
<1>5. ASSUME NEW c \in ConnectionIds, drop_receiver(c)
      PROVE  TenantIsolation'
  <2>1. queue' = [queue EXCEPT ![c] = <<>>] /\ tenant_id' = tenant_id
    BY ZenonT(30), <1>5 DEF drop_receiver, connVars
  <2>2. Len(queue'[c]) = 0 /\ \A b \in ConnectionIds : b # c => queue'[b] = queue[b]
    BY ZenonT(30), <2>1 DEF TypeOK
  <2> QED BY <2>1, <2>2 DEF TenantIsolation
<1>6. ASSUME NEW t \in Callers, CallerStep(t)
      PROVE  TenantIsolation'
  <2>1. CASE \E c \in ConnectionIds, s \in SubscriptionIds :
               (\E f \in Filters : subscribe(t, c, s, f)) \/ unsubscribe(t, c, s)
    BY ZenonT(30), <1>1, <2>1 DEF subscribe, unsubscribe, chanVars
  <2>2. CASE \E c \in ConnectionIds : unregister_connection(t, c)
    BY ZenonT(30), <1>1, <2>2 DEF unregister_connection, RemoveConnection, chanVars
  <2>3. CASE subscribe_index(t) \/ unsubscribe_index(t)
    BY <1>1, <2>3 DEF subscribe_index, unsubscribe_index, connVars, chanVars
  <2> QED BY ZenonT(30), <1>2, <1>6, <2>1, <2>2, <2>3 DEF CallerStep
<1>7. ASSUME NEW t \in Threads, UnregisterStep(t)
      PROVE  TenantIsolation'
  BY ZenonT(30), <1>1, <1>7 DEF UnregisterStep, unregister_route, unregister_finish, connVars, chanVars
<1>8. ASSUME NEW d \in Dispatchers, NEW m \in Messages, dispatch(d, m)
      PROVE  TenantIsolation'
  BY ZenonT(30), <1>1, <1>8 DEF dispatch, connVars, chanVars
<1>9. ASSUME NEW d \in Dispatchers, DispatchStep(d)
      PROVE  TenantIsolation'
  <2>1. CASE lookup(d) \/ match_finish(d) \/ dispatch_finish(d)
    BY ZenonT(30), <1>1, <2>1 DEF lookup, match_finish, dispatch_finish, connVars, chanVars
  <2>2. ASSUME NEW c \in ConnectionIds,
               visit_missing(d, c) \/ visit_full(d, c) \/ visit_closed(d, c)
        PROVE  TenantIsolation'
    BY ZenonT(30), <1>1, <2>2 DEF visit_missing, visit_full, visit_closed, Visit
  <2>3. ASSUME NEW c \in ConnectionIds, evict(d, c) \/ evict_gone(d, c)
        PROVE  TenantIsolation'
    BY <1>1, <2>3 DEF evict, evict_gone, Evict, RemoveConnection, connVars, chanVars
  <2> QED BY ZenonT(30), <1>3, <1>9, <2>1, <2>2, <2>3 DEF DispatchStep
<1>10. CASE UNCHANGED vars
  BY <1>1, <1>10 DEF vars, connVars, chanVars
<1> QED
  BY ZenonT(30), <1>4, <1>5, <1>6, <1>7, <1>8, <1>9, <1>10 DEF Next, ReceiverStep

-----------------------------------------------------------------------------
(* The strikes                                                             *)

\* A connection not registered yet has no strike; one that is struck out waits
\* for its eviction.
StrikeInv ==
  /\ \A c \in ConnectionIds : tenant_id[c] = None => full_strikes[c] = 0
  /\ StruckOutIsEvicted

\* Only the last strike, in the Full arm of dispatch, brings a connection to its
\* limit, and it leaves the eviction list only when it is unregistered.
LEMMA StrikeStep ==
  ASSUME TypeOK, TypeOK', FreshInv, StrikeInv, [Next]_vars
  PROVE  StrikeInv'
<1>1. StrikeLimit \in Nat \ {0}
  BY RouterAssumption DEF StrikeLimit
<1>2. ASSUME connections' \subseteq connections, UNCHANGED <<tenant_id, full_strikes, disconnect>>
      PROVE  StrikeInv'
  BY <1>2 DEF StrikeInv, StruckOutIsEvicted
<1>3. ASSUME NEW t \in Callers, NEW tn \in Tenants \cup {Invalid}, NEW p \in Protocols,
             NEW cap \in Capacities, register_connection(t, tn, p, cap)
      PROVE  StrikeInv'
  <2>1. PICK c \in ConnectionIds :
          /\ tenant_id[c] = None
          /\ connections' = connections \cup {c}
          /\ tenant_id' = [tenant_id EXCEPT ![c] = tn]
    BY ZenonT(30), <1>3 DEF register_connection
  <2>2. UNCHANGED <<full_strikes, disconnect>> /\ tn # None
    BY <1>3, MatchingAssumption DEF register_connection, dispatchVars
  <2>3. full_strikes[c] = 0
    BY <2>1 DEF StrikeInv
  <2>4. ~(full_strikes[c] >= StrikeLimit)
    BY SMTT(30), <1>1, <2>3
  <2>5. \A b \in ConnectionIds : tenant_id'[b] = None => tenant_id[b] = None
    BY ZenonT(30), <2>1, <2>2 DEF TypeOK
  <2>6. QED
    BY <2>1, <2>2, <2>4, <2>5 DEF StrikeInv, StruckOutIsEvicted
<1>4. ASSUME NEW d \in Dispatchers, NEW c \in ConnectionIds, visit_full(d, c)
      PROVE  StrikeInv'
  <2>1. /\ c \in connections /\ UNCHANGED <<connections, tenant_id>>
        /\ full_strikes' = [full_strikes EXCEPT ![c] = @ + 1]
        /\ disconnect' = [disconnect EXCEPT ![d] =
                            IF Struck(full_strikes[c] + 1) THEN @ \cup {c} ELSE @]
    BY ZenonT(30), <1>4 DEF visit_full, Visit
  <2>2. tenant_id[c] # None
    BY ZenonT(30), <2>1 DEF FreshInv
  <2>3. \A e \in Dispatchers : disconnect[e] \subseteq disconnect'[e]
    BY ZenonT(30), <2>1 DEF TypeOK
  <2>4. full_strikes'[c] >= StrikeLimit => c \in disconnect'[d]
    BY ZenonT(30), <2>1 DEF TypeOK, Struck
  <2>5. \A b \in ConnectionIds : b # c => full_strikes'[b] = full_strikes[b]
    BY ZenonT(30), <2>1 DEF TypeOK
  <2>6. QED
    BY SMTT(30), <2>1, <2>2, <2>3, <2>4, <2>5 DEF StrikeInv, StruckOutIsEvicted, TypeOK
<1>5. ASSUME NEW d \in Dispatchers, NEW c \in ConnectionIds, visit_ok(d, c)
      PROVE  StrikeInv'
  <2>1. /\ UNCHANGED <<connections, tenant_id, disconnect>>
        /\ full_strikes' = [full_strikes EXCEPT ![c] = 0]
    BY ZenonT(30), <1>5 DEF visit_ok, Visit
  <2>2. QED
    BY SMTT(30), <1>1, <2>1 DEF StrikeInv, StruckOutIsEvicted, TypeOK
<1>6. ASSUME NEW d \in Dispatchers, NEW c \in ConnectionIds, visit_closed(d, c)
      PROVE  StrikeInv'
  <2>1. /\ UNCHANGED <<connections, tenant_id, full_strikes>>
        /\ \A e \in Dispatchers : disconnect[e] \subseteq disconnect'[e]
    BY ZenonT(30), <1>6 DEF visit_closed, Visit, TypeOK
  <2>2. QED
    BY ZenonT(30), <2>1 DEF StrikeInv, StruckOutIsEvicted
<1>7. ASSUME NEW d \in Dispatchers, NEW c \in ConnectionIds, evict(d, c) \/ evict_gone(d, c)
      PROVE  StrikeInv'
  <2>1. /\ connections' = connections \ {c} /\ UNCHANGED <<tenant_id, full_strikes>>
        /\ disconnect' = [disconnect EXCEPT ![d] = @ \ {c}]
    BY ZenonT(30), <1>7 DEF evict, evict_gone, Evict, RemoveConnection, connVars
  <2>2. \A e \in Dispatchers : disconnect[e] \ {c} \subseteq disconnect'[e]
    BY <2>1 DEF TypeOK
  <2>3. QED
    BY ZenonT(30), <2>1, <2>2 DEF StrikeInv, StruckOutIsEvicted
<1>8. CASE \/ \E t \in Callers : CallerStep(t)
           \/ \E t \in Threads : UnregisterStep(t)
           \/ \E c \in ConnectionIds : ReceiverStep(c)
           \/ UNCHANGED vars
  <2>1. ASSUME NEW t \in Callers, CallerStep(t) PROVE StrikeInv'
    BY <1>2, <1>3, <2>1 DEF CallerStep, subscribe, unsubscribe, unregister_connection,
       RemoveConnection, subscribe_index, unsubscribe_index, connVars, dispatchVars
  <2>2. ASSUME NEW t \in Threads, UnregisterStep(t) PROVE StrikeInv'
    BY ZenonT(30), <1>2, <2>2 DEF UnregisterStep, unregister_route, unregister_finish, connVars, dispatchVars
  <2>3. ASSUME NEW c \in ConnectionIds, ReceiverStep(c) PROVE StrikeInv'
    BY ZenonT(30), <1>2, <2>3 DEF ReceiverStep, receive, drop_receiver, connVars, dispatchVars
  <2>4. CASE UNCHANGED vars
    BY ZenonT(30), <1>2, <2>4 DEF vars, connVars, dispatchVars
  <2>5. QED
    BY ZenonT(30), <1>8, <2>1, <2>2, <2>3, <2>4
<1>9. ASSUME NEW d \in Dispatchers, DispatchStep(d) \/ \E m \in Messages : dispatch(d, m)
      PROVE  StrikeInv'
  <2>1. CASE (\E m \in Messages : dispatch(d, m)) \/ lookup(d) \/ match_finish(d) \/ dispatch_finish(d)
    BY ZenonT(30), <1>2, <2>1 DEF dispatch, lookup, match_finish, dispatch_finish, connVars
  <2>2. ASSUME NEW c \in ConnectionIds, visit_missing(d, c) PROVE StrikeInv'
    BY <1>2, <2>2 DEF visit_missing, Visit
  <2>3. QED
    BY ZenonT(30), <1>4, <1>5, <1>6, <1>7, <1>9, <2>1, <2>2 DEF DispatchStep
<1>10. QED
  BY <1>8, <1>9 DEF Next

=============================================================================
