---------------------------- MODULE LimiterProofs ----------------------------
(***************************************************************************)
(* Proofs about the rate limits, for any number of callers and tenants,    *)
(* any limits and any resolution of the clock.                             *)
(*                                                                         *)
(* RatesBounded speaks of the last second.  A tick moves the calls of the  *)
(* last h - 1 ticks into the last h, so the invariant has a bound for      *)
(* every h: a horizon.  The bound is one limit for each window that may    *)
(* have started within the horizon.  Only a caller that was late for the   *)
(* horizon, that is waits with a clock reading older than it, can start    *)
(* another one, and each does so once: it pays with its lateness.          *)
(***************************************************************************)
EXTENDS AbuseLimiter, FiniteSetTheorems, TLAPS

-----------------------------------------------------------------------------
(* The inductive invariant                                                 *)

\* Counters within a limit.
Counters(limit) ==
  [window_started : 0..Second, count : {n \in [Kinds -> Nat] : \A k \in Kinds : n[k] <= limit[k]}]

\* Entries of the log.
Records == [caller : Callers, kind : Kinds, age : 0..(Second - 1), number : Nat]

\* A session's limiter, and a call that waits for the shared one.
SessionLimiters == [window_started : 0..Second, accepted : 0..ws_max_commands_per_second]
WaitingCalls == [kind : Kinds, now : 0..Second]

Types ==
  /\ window \in Counters(global_limit)
  /\ principals \in [DOMAIN principals -> Counters(principal_limit)]
  /\ session \in [WebSockets -> SessionLimiters]
  /\ pc \in [Callers -> {"idle", "locking"}]
  /\ call \in [Callers -> WaitingCalls]
  /\ log \subseteq Records /\ IsFiniteSet(log)

\* The calls of a kind that callers in C had accepted in the last h ticks.
Recent(C, k, h) == {r \in log : r.caller \in C /\ r.kind = k /\ r.age < h}

\* The callers whose clock reading is too old for the horizon, and the number of
\* the others.
Late(h) == {c \in Callers : pc[c] = "locking" /\ call[c].now >= h}
InTime(h) == Cardinality(Callers \ Late(h))

\* The callers of a tenant.
Of(t) == {c \in Callers : tenant_of[c] = t}

\* The global window started within the horizon.
Young(h) == IF window.window_started < h THEN 1 ELSE 0

\* What a tenant has used of its window.
Used(t, k) == IF t \in DOMAIN principals THEN principals[t].count[k] ELSE 0

\* The tenant's window ends first, and started before the horizon.
Ahead(t, h) ==
  IF /\ t \in DOMAIN principals
     /\ principals[t].window_started >= h
     /\ principals[t].window_started > window.window_started THEN 1 ELSE 0

\* How many calls may have been accepted in the last h ticks, by all callers and
\* by those of a tenant, if there were any.
GlobalBound(k, h) == (InTime(h) + Young(h) - 1) * global_limit[k] + window.count[k]
TenantBound(t, k, h) == (InTime(h) + Young(h) - Ahead(t, h)) * principal_limit[k] + Used(t, k)
Within(S, n) == S = {} \/ Cardinality(S) <= n
GlobalRate ==
  \A k \in Kinds, h \in 1..Second : Within(Recent(Callers, k, h), GlobalBound(k, h))
TenantRate ==
  \A t \in Tenants, k \in Kinds, h \in 1..Second : Within(Recent(Of(t), k, h), TenantBound(t, k, h))

\* A command that the session's limiter has let through and the shared one has
\* not decided.
Waiting(c) == IF pc[c] = "locking" /\ call[c].kind = "Command" THEN 1 ELSE 0

\* What a session's limiter has let through in the last h ticks.
SessionBound(c, h) ==
  (IF session[c].window_started < h THEN ws_max_commands_per_second ELSE 0) + session[c].accepted
SessionRate ==
  \A c \in WebSockets, h \in 0..Second :
    Cardinality(Recent({c}, "Command", h)) + Waiting(c) <= SessionBound(c, h)

\* The calls of the current tick have numbers of their own.
Now(c, k) == {r \in log : r.caller = c /\ r.kind = k /\ r.age = 0}
Numbered ==
  \A r \in log : r.age = 0 => r.number <= Cardinality(Now(r.caller, r.kind))

\* PrincipalsWithinGlobal, and that it speaks of finite sets.
Shares ==
  /\ IsFiniteSet(DOMAIN principals)
  /\ \A k \in Kinds : IsFiniteSet(Charged(k))
  /\ PrincipalsWithinGlobal

IInv ==
  /\ Types /\ GlobalRate /\ TenantRate /\ SessionRate /\ Numbered /\ Shares

-----------------------------------------------------------------------------
(* Constants, multiples and cardinalities                                  *)

USE DEF SessionLimiters, WaitingCalls

\* What LimiterAssumption says, one by one.
LEMMA Constants ==
  /\ Kinds # {} /\ IsFiniteSet(Callers) /\ tenant_of \in [Callers -> Tenants]
  /\ WebSockets \subseteq Callers
  /\ ws_max_commands_per_second \in Nat /\ ws_max_commands_per_second # 0
  /\ \A k \in Kinds : global_limit[k] \in Nat /\ global_limit[k] # 0
  /\ \A k \in Kinds : principal_limit[k] \in Nat /\ principal_limit[k] # 0
  /\ max_rate_limit_principals \in Nat /\ max_rate_limit_principals # 0
  /\ Second \in Nat /\ Second # 0
BY LimiterAssumption

\* More windows, a larger multiple of the limit.
LEMMA Multiples ==
  ASSUME NEW L \in Nat, NEW m \in Int, NEW n \in Int, m <= n
  PROVE  m * L \in Int /\ n * L \in Int /\ m * L <= n * L
BY SMT

\* One more window is one more limit.
LEMMA NextMultiple ==
  ASSUME NEW L \in Nat, NEW m \in Int
  PROVE  m * L \in Int /\ (m + 1) * L = m * L + L
BY SMT

\* Cardinality of a subset.
LEMMA Fewer ==
  ASSUME NEW S, IsFiniteSet(S), NEW T, T \subseteq S
  PROVE  /\ IsFiniteSet(T)
         /\ Cardinality(T) \in Nat
         /\ Cardinality(T) <= Cardinality(S)
         /\ Cardinality(S) \in Nat
BY FS_Subset, FS_CardinalityType

\* Cardinality of a set with one more element.
LEMMA OneMore ==
  ASSUME NEW S, IsFiniteSet(S), NEW x, NEW T, T \subseteq S \cup {x}
  PROVE  /\ IsFiniteSet(T)
         /\ Cardinality(T) \in Nat /\ Cardinality(S) \in Nat
         /\ Cardinality(T) <= Cardinality(S) + 1
<1>1. /\ IsFiniteSet(S \cup {x})
      /\ Cardinality(S \cup {x}) <= Cardinality(S) + 1
      /\ Cardinality(S) \in Nat
  BY FS_AddElement, FS_CardinalityType
<1>2. QED
  BY <1>1, Fewer, FS_CardinalityType

-----------------------------------------------------------------------------
(* The clock                                                               *)

\* A log entry that grows older keeps its other fields (tick).
LEMMA OlderRecord ==
  ASSUME NEW r \in Records, r.age + 1 < Second
  PROVE  LET s == [r EXCEPT !.age = @ + 1]
         IN  /\ s \in Records
             /\ s.caller = r.caller
             /\ s.kind = r.kind
             /\ s.age = r.age + 1
             /\ s.number = r.number
BY Constants DEF Records

\* What a tick leaves of the last h ticks are the calls of the last h - 1.
LEMMA TickRecent ==
  ASSUME Types, tick, NEW C, NEW k, NEW h \in 1..Second
  PROVE  /\ Cardinality(Recent(C, k, h)') <= Cardinality(Recent(C, k, h - 1))
         /\ Recent(C, k, h - 1) = {} => Recent(C, k, h)' = {}
<1> DEFINE S == Recent(C, k, h - 1)
           T == Recent(C, k, h)'
           f == [r \in S |-> [r EXCEPT !.age = @ + 1]]
<1>1. log \subseteq Records /\ IsFiniteSet(log)
  BY Zenon DEF Types
<1>2. log' = {[r EXCEPT !.age = @ + 1] : r \in {r \in log : r.age + 1 < Second}}
  BY DEF tick
<1>3. IsFiniteSet(S)
  BY <1>1, Fewer DEF Recent
<1>4. ASSUME NEW r \in S PROVE f[r] \in T
  <2>1. r \in log /\ r \in Records /\ r.caller \in C /\ r.kind = k /\ r.age < h - 1 /\ r.age \in Int
    BY <1>1, Constants DEF Recent, Records
  <2>2. r.age + 1 < Second /\ r.age + 1 < h
    BY <2>1, Constants
  <2>3. f[r] \in log' /\ f[r].caller \in C /\ f[r].kind = k /\ f[r].age < h
    BY <1>2, <2>1, <2>2, OlderRecord, Zenon
  <2>4. QED
    BY <2>3, Zenon DEF Recent
<1>5. ASSUME NEW s \in T PROVE \E r \in S : f[r] = s
  <2>1. s \in log' /\ s.caller \in C /\ s.kind = k /\ s.age < h
    BY DEF Recent
  <2>2. PICK r \in log : r.age + 1 < Second /\ s = [r EXCEPT !.age = @ + 1]
    BY <1>2, <2>1, Zenon
  <2>3. /\ r \in Records
        /\ r.caller = s.caller
        /\ r.kind = s.kind
        /\ r.age + 1 = s.age
        /\ r.age \in Int
    BY <1>1, <2>2, OlderRecord DEF Records
  <2>4. r.age < h - 1
    BY <2>1, <2>3, Constants
  <2>5. r \in S
    BY <2>1, <2>3, <2>4 DEF Recent
  <2>6. QED
    BY <2>2, <2>5
<1>6. f \in Surjection(S, T)
  BY <1>4, <1>5, Zenon DEF Surjection
<1>7. Cardinality(T) <= Cardinality(S)
  BY <1>3, <1>6, FS_Surjection
<1>8. S = {} => T = {}
  BY <1>5
<1>9. QED
  BY <1>7, <1>8

\* The calls that are in time.
LEMMA InTimeType ==
  ASSUME NEW h
  PROVE  InTime(h) \in Nat /\ InTime(h) <= Cardinality(Callers) /\ Cardinality(Callers) \in Nat
BY Constants, Fewer DEF InTime

\* An age at a horizon, after a tick and before it.
LEMMA OlderAt ==
  ASSUME NEW age \in 0..Second, NEW h \in 1..Second
  PROVE  Older(age) \in 0..Second /\ (Older(age) >= h <=> age >= h - 1)
BY Constants DEF Older

\* Counters that grow older keep their counts (tick).
LEMMA AgedCounters ==
  ASSUME NEW limit, NEW counters \in Counters(limit)
  PROVE  /\ Aged(counters) \in Counters(limit)
         /\ Aged(counters).count = counters.count
         /\ Aged(counters).window_started = Older(counters.window_started)
<1>1. counters.window_started \in 0..Second
  BY DEF Counters
<1>2. Older(counters.window_started) \in 0..Second
  BY <1>1, Constants DEF Older
<1>3. QED
  BY <1>2 DEF Aged, Counters

\* The clock keeps the types.
LEMMA TickTypes ==
  ASSUME Types, tick
  PROVE  Types'
<1>1. window' \in Counters(global_limit)
  BY AgedCounters, Zenon DEF Types, tick
<1>2. /\ DOMAIN principals' = DOMAIN principals
      /\ principals' \in [DOMAIN principals' -> Counters(principal_limit)]
  <2>1. ASSUME NEW t \in DOMAIN principals PROVE Aged(principals[t]) \in Counters(principal_limit)
    BY AgedCounters, Zenon DEF Types
  <2>2. QED
    BY <2>1, Zenon DEF tick
<1>3. session' \in [WebSockets -> SessionLimiters]
  <2>1. ASSUME NEW c \in WebSockets
        PROVE  Aged(session[c]) \in SessionLimiters
    <3>1. session[c] \in SessionLimiters
      BY Zenon DEF Types
    <3>2. QED
      BY <3>1, Constants DEF Aged, Older
  <2>2. QED
    BY <2>1, Zenon DEF tick
<1>4. call' \in [Callers -> WaitingCalls]
  <2>1. ASSUME NEW c \in Callers PROVE [call[c] EXCEPT !.now = Older(@)] \in WaitingCalls
    <3>1. call[c] \in WaitingCalls
      BY Zenon DEF Types
    <3>2. QED
      BY <3>1, Constants DEF Older
  <2>2. QED
    BY <2>1, Zenon DEF tick
<1>5. log' \subseteq Records /\ IsFiniteSet(log')
  <2> DEFINE S == {r \in log : r.age + 1 < Second}
             f == [r \in S |-> [r EXCEPT !.age = @ + 1]]
  <2>1. log \subseteq Records /\ IsFiniteSet(log)
    BY Zenon DEF Types
  <2>2. IsFiniteSet(S)
    BY <2>1, Fewer
  <2>3. log' = {[r EXCEPT !.age = @ + 1] : r \in S}
    BY Zenon DEF tick
  <2>4. f \in Surjection(S, log')
    BY <2>3, Zenon DEF Surjection
  <2>5. IsFiniteSet(log')
    BY <2>2, <2>4, FS_Surjection
  <2>6. log' \subseteq Records
    BY <2>1, <2>3, OlderRecord, Zenon
  <2>7. QED
    BY <2>5, <2>6
<1>6. pc' \in [Callers -> {"idle", "locking"}]
  BY Zenon DEF Types, tick
<1>7. QED
  BY <1>1, <1>2, <1>3, <1>4, <1>5, <1>6, Zenon DEF Types

\* What was late for the horizon before is late for the next one.
LEMMA TickLate ==
  ASSUME Types, tick, NEW h \in 1..Second
  PROVE  /\ InTime(h)' = InTime(h - 1)
         /\ Young(h)' = Young(h - 1)
<1>1. ASSUME NEW c \in Callers PROVE call'[c].now >= h <=> call[c].now >= h - 1
  <2>1. call[c] \in WaitingCalls /\ call'[c] = [call[c] EXCEPT !.now = Older(@)]
    BY Zenon DEF Types, tick
  <2>2. call[c].now \in 0..Second /\ call'[c].now = Older(call[c].now)
    BY <2>1
  <2>3. QED
    BY <2>2, OlderAt
<1>2. pc' = pc
  BY DEF tick
<1>3. Late(h)' = Late(h - 1)
  BY <1>1, <1>2, Zenon DEF Late
<1>4. InTime(h)' = InTime(h - 1)
  BY <1>3, Zenon DEF InTime
<1>5. window \in Counters(global_limit) /\ window' = Aged(window)
  BY Zenon DEF Types, tick
<1>6. window.window_started \in 0..Second /\ window'.window_started = Older(window.window_started)
  BY <1>5, AgedCounters DEF Counters
<1>7. Young(h)' = Young(h - 1)
  BY <1>6, OlderAt, Constants DEF Young
<1>8. QED
  BY <1>4, <1>7

\* What the types say of the counters.
LEMMA CounterTypes ==
  ASSUME Types
  PROVE  /\ window.window_started \in 0..Second
         /\ \A k \in Kinds : window.count[k] \in Nat /\ window.count[k] <= global_limit[k]
         /\ \A t \in DOMAIN principals :
              /\ principals[t].window_started \in 0..Second
              /\ \A k \in Kinds : principals[t].count[k] \in Nat /\ principals[t].count[k] <= principal_limit[k]
<1>1. /\ window \in Counters(global_limit)
      /\ \A t \in DOMAIN principals : principals[t] \in Counters(principal_limit)
  BY Zenon DEF Types
<1>2. ASSUME NEW limit, NEW counters \in Counters(limit)
      PROVE  /\ counters.window_started \in 0..Second
             /\ \A k \in Kinds : counters.count[k] \in Nat /\ counters.count[k] <= limit[k]
  BY DEF Counters
<1>3. QED
  BY <1>1, <1>2, Zenon

\* The types of what the bounds are made of.
LEMMA RateTypes ==
  ASSUME Types, NEW h
  PROVE  /\ Young(h) \in 0..1
         /\ \A t : Ahead(t, h) \in 0..1
         /\ \A t : \A k \in Kinds : Used(t, k) \in Nat /\ Used(t, k) <= principal_limit[k]
         /\ \A C, k : IsFiniteSet(Recent(C, k, h)) /\ Cardinality(Recent(C, k, h)) \in Nat
<1>1. IsFiniteSet(log)
  BY Zenon DEF Types
<1>2. \A C, k : IsFiniteSet(Recent(C, k, h)) /\ Cardinality(Recent(C, k, h)) \in Nat
  BY <1>1, Fewer DEF Recent
<1>3. \A t : \A k \in Kinds : Used(t, k) \in Nat /\ Used(t, k) <= principal_limit[k]
  BY CounterTypes, Constants DEF Used
<1>4. Young(h) \in 0..1 /\ \A t : Ahead(t, h) \in 0..1
  BY DEF Young, Ahead
<1>5. QED
  BY <1>2, <1>3, <1>4

\* Nothing was accepted within the last 0 ticks.
LEMMA NothingYet ==
  ASSUME Types, NEW C, NEW k
  PROVE  Recent(C, k, 0) = {} /\ Cardinality(Recent(C, k, 0)) = 0
<1>1. \A r \in log : r.age \in Nat
  BY DEF Types, Records
<1>2. Recent(C, k, 0) = {}
  BY <1>1 DEF Recent
<1>3. QED
  BY <1>2, FS_EmptySet

\* The bounds are integers.
LEMMA BoundTypes ==
  ASSUME Types, NEW k \in Kinds, NEW h
  PROVE  GlobalBound(k, h) \in Int /\ \A t : TenantBound(t, k, h) \in Int
<1>1. InTime(h) \in Int /\ Young(h) \in Int /\ \A t : Ahead(t, h) \in Int /\ Used(t, k) \in Int
  BY InTimeType, RateTypes
<1>2. global_limit[k] \in Int /\ principal_limit[k] \in Int /\ window.count[k] \in Int
  BY CounterTypes, Constants
<1>3. QED
  BY <1>1, <1>2 DEF GlobalBound, TenantBound

\* A bound for h - 1 ticks is one for h ticks when the clock has moved.
LEMMA TickWithin ==
  ASSUME Types, tick, NEW C, NEW k, NEW h \in 1..Second, NEW n \in Int,
         h - 1 \in 1..Second => Within(Recent(C, k, h - 1), n)
  PROVE  Within(Recent(C, k, h)', n)
<1> SUFFICES ASSUME Recent(C, k, h)' # {}
             PROVE  Cardinality(Recent(C, k, h)') <= n
  BY Zenon DEF Within
<1>1. /\ Cardinality(Recent(C, k, h)') <= Cardinality(Recent(C, k, h - 1))
      /\ Recent(C, k, h - 1) # {}
  BY TickRecent, Zenon
<1>2. h # 1
  BY <1>1, NothingYet
<1>3. h - 1 \in 1..Second
  BY <1>2, Constants
<1>4. Cardinality(Recent(C, k, h - 1)) <= n
  BY <1>1, <1>3, Zenon DEF Within
<1>5. Cardinality(Recent(C, k, h - 1)) \in Nat
  BY RateTypes
<1>6. Cardinality(Recent(C, k, h)') \in Nat
  <2>1. IsFiniteSet(log')
    BY TickTypes, Zenon DEF Types
  <2>2. QED
    BY <2>1, Fewer DEF Recent
<1>7. QED
  BY <1>1, <1>4, <1>5, <1>6

\* The clock keeps the global bound.
LEMMA TickGlobal ==
  ASSUME Types, GlobalRate, tick
  PROVE  GlobalRate'
<1> SUFFICES ASSUME NEW k \in Kinds, NEW h \in 1..Second
             PROVE  Within(Recent(Callers, k, h)', GlobalBound(k, h)')
  BY Zenon DEF GlobalRate, Within
<1>1. GlobalBound(k, h)' = GlobalBound(k, h - 1)
  <2>1. window \in Counters(global_limit) /\ window' = Aged(window)
    BY Zenon DEF Types, tick
  <2>2. window'.count = window.count
    BY <2>1, AgedCounters, Zenon
  <2>3. QED
    BY <2>2, TickLate, Zenon DEF GlobalBound
<1>2. Within(Recent(Callers, k, h)', GlobalBound(k, h - 1))
  BY TickWithin, BoundTypes, Zenon DEF GlobalRate
<1>3. QED
  BY <1>1, <1>2

\* The clock keeps a tenant's bound: a window that ended first does so no longer
\* when both are over.
LEMMA TickTenant ==
  ASSUME Types, TenantRate, tick
  PROVE  TenantRate'
<1> SUFFICES ASSUME NEW t \in Tenants, NEW k \in Kinds, NEW h \in 1..Second
             PROVE  Within(Recent(Of(t), k, h)', TenantBound(t, k, h)')
  BY Zenon DEF TenantRate, Within, Of
<1>1. /\ DOMAIN principals' = DOMAIN principals
      /\ t \in DOMAIN principals =>
           /\ principals'[t].count = principals[t].count
           /\ principals'[t].window_started = Older(principals[t].window_started)
           /\ principals[t].window_started \in 0..Second
  <2>1. principals' = [x \in DOMAIN principals |-> Aged(principals[x])]
    BY DEF tick
  <2>2. t \in DOMAIN principals => principals[t] \in Counters(principal_limit) /\ principals'[t] = Aged(principals[t])
    BY <2>1, Zenon DEF Types
  <2>3. QED
    BY <2>1, <2>2, AgedCounters, CounterTypes, Zenon
<1>2. window'.window_started = Older(window.window_started) /\ window.window_started \in 0..Second
  BY AgedCounters, CounterTypes, Zenon DEF Types, tick
<1>3. Ahead(t, h)' <= Ahead(t, h - 1)
  BY <1>1, <1>2, OlderAt, Constants DEF Ahead, Older
<1>4. Used(t, k)' = Used(t, k)
  BY <1>1 DEF Used
<1>5. TenantBound(t, k, h - 1) <= TenantBound(t, k, h)'
  <2> DEFINE m == InTime(h - 1) + Young(h - 1) - Ahead(t, h - 1)
             n == InTime(h)' + Young(h)' - Ahead(t, h)'
  <2>1. m \in Int /\ n \in Int /\ m <= n
    <3>1. /\ InTime(h - 1) \in Int
          /\ Young(h - 1) \in Int
          /\ Ahead(t, h - 1) \in Int
          /\ Ahead(t, h)' \in Int
      BY InTimeType, RateTypes DEF Ahead
    <3>2. QED
      BY <1>3, <3>1, TickLate
  <2> HIDE DEF m, n
  <2>2. /\ m * principal_limit[k] <= n * principal_limit[k]
        /\ m * principal_limit[k] \in Int
        /\ n * principal_limit[k] \in Int
    BY <2>1, Multiples, Constants
  <2>3. Used(t, k) \in Int
    BY RateTypes
  <2>4. m * principal_limit[k] + Used(t, k) <= n * principal_limit[k] + Used(t, k)
    BY <2>2, <2>3
  <2>5. QED
    BY <1>4, <2>4, Zenon DEF TenantBound, m, n
<1>6. TenantBound(t, k, h)' \in Int /\ TenantBound(t, k, h - 1) \in Int
  <2>1. Types'
    BY TickTypes
  <2>2. Used(t, k)' \in Int /\ Ahead(t, h)' \in Int /\ InTime(h)' \in Int /\ Young(h)' \in Int
    BY <1>4, TickLate, RateTypes, InTimeType DEF Ahead
  <2>3. QED
    BY <2>2, BoundTypes, Constants DEF TenantBound
<1>7. h - 1 \in 1..Second => Within(Recent(Of(t), k, h - 1), TenantBound(t, k, h)')
  <2>1. Cardinality(Recent(Of(t), k, h - 1)) \in Nat
    BY RateTypes
  <2>2. h - 1 \in 1..Second => Within(Recent(Of(t), k, h - 1), TenantBound(t, k, h - 1))
    BY Zenon DEF TenantRate
  <2>3. QED
    BY <1>5, <1>6, <2>1, <2>2 DEF Within
<1>8. QED
  BY <1>6, <1>7, TickWithin

\* The types of a session's limiter.
LEMMA SessionTypes ==
  ASSUME Types, NEW c \in WebSockets
  PROVE  /\ session[c].window_started \in 0..Second
         /\ session[c].accepted \in 0..ws_max_commands_per_second
         /\ Waiting(c) \in 0..1
         /\ \A h : SessionBound(c, h) \in Int
<1>1. session[c] \in SessionLimiters
  BY Zenon DEF Types
<1>2. /\ session[c].window_started \in 0..Second
      /\ session[c].accepted \in 0..ws_max_commands_per_second
  BY <1>1
<1>3. QED
  BY <1>2, Constants DEF Waiting, SessionBound

\* The log has no calls of the future.
LEMMA NothingYetNext ==
  ASSUME Types', NEW C, NEW k
  PROVE  Recent(C, k, 0)' = {} /\ Cardinality(Recent(C, k, 0)') = 0
<1>1. \A r \in log' : r.age \in Nat
  BY DEF Types, Records
<1>2. Recent(C, k, 0)' = {}
  BY <1>1 DEF Recent
<1>3. QED
  BY <1>2, FS_EmptySet

\* The clock keeps a session's bound.
LEMMA TickSession ==
  ASSUME Types, SessionRate, tick
  PROVE  SessionRate'
<1> SUFFICES ASSUME NEW c \in WebSockets, NEW h \in 0..Second
             PROVE  Cardinality(Recent({c}, "Command", h)') + Waiting(c)' <= SessionBound(c, h)'
  BY Zenon DEF SessionRate
<1>1. /\ session[c] \in SessionLimiters
      /\ session'[c] = Aged(session[c])
      /\ call[c] \in WaitingCalls /\ c \in Callers
      /\ call'[c] = [call[c] EXCEPT !.now = Older(@)]
      /\ pc' = pc
  BY Constants, Zenon DEF Types, tick
<1>2. /\ session'[c].window_started = Older(session[c].window_started)
      /\ session'[c].accepted = session[c].accepted
  BY <1>1 DEF Aged
<1>3. Waiting(c)' = Waiting(c)
  <2>1. call'[c].kind = call[c].kind
    BY <1>1
  <2>2. QED
    BY <1>1, <2>1, Zenon DEF Waiting
<1>4. CASE h = 0
  <2>1. Cardinality(Recent({c}, "Command", h)') = 0
    BY <1>4, TickTypes, NothingYetNext
  <2>2. Waiting(c) <= session[c].accepted
    <3>1. 0 \in 0..Second
      BY Constants
    <3>2. Cardinality(Recent({c}, "Command", 0)) + Waiting(c) <= SessionBound(c, 0)
      BY <3>1, Zenon DEF SessionRate
    <3>3. Cardinality(Recent({c}, "Command", 0)) = 0
      BY NothingYet
    <3>4. QED
      BY <3>2, <3>3, SessionTypes DEF SessionBound
  <2>3. QED
    BY <1>2, <1>3, <1>4, <2>1, <2>2, SessionTypes, Constants DEF SessionBound, Older
<1>5. CASE h \in 1..Second
  <2>1. Cardinality(Recent({c}, "Command", h)') <= Cardinality(Recent({c}, "Command", h - 1))
    BY <1>5, TickRecent
  <2>2. SessionBound(c, h)' = SessionBound(c, h - 1)
    BY <1>2, <1>5, OlderAt, SessionTypes, Constants DEF SessionBound
  <2>3. Cardinality(Recent({c}, "Command", h - 1)) + Waiting(c) <= SessionBound(c, h - 1)
    <3>1. h - 1 \in 0..Second
      BY <1>5, Constants
    <3>2. QED
      BY <3>1, Zenon DEF SessionRate
  <2>4. Cardinality(Recent({c}, "Command", h)') \in Nat
    <3>1. IsFiniteSet(log')
      BY TickTypes, Zenon DEF Types
    <3>2. QED
      BY <3>1, Fewer DEF Recent
  <2>5. QED
    <3>1. /\ Cardinality(Recent({c}, "Command", h - 1)) \in Nat
          /\ Waiting(c) \in Int /\ SessionBound(c, h - 1) \in Int
      BY RateTypes, SessionTypes
    <3>2. QED
      BY <1>3, <2>1, <2>2, <2>3, <2>4, <3>1
<1>6. QED
  BY <1>4, <1>5, Constants

\* After a tick no entry is of the current tick.
LEMMA TickNumbered ==
  ASSUME Types, tick
  PROVE  Numbered'
<1>1. log' = {[r EXCEPT !.age = @ + 1] : r \in {r \in log : r.age + 1 < Second}}
  BY DEF tick
<1>2. \A r \in log : r \in Records /\ r.age \in Nat
  BY DEF Types, Records
<1>3. \A r \in log' : r.age # 0
  <2> SUFFICES ASSUME NEW s \in log' PROVE s.age # 0
    OBVIOUS
  <2>1. PICK r \in log : r.age + 1 < Second /\ s = [r EXCEPT !.age = @ + 1]
    BY <1>1, Zenon
  <2>2. s.age = r.age + 1
    BY <1>2, <2>1, OlderRecord, Zenon
  <2>3. QED
    BY <1>2, <2>2
<1>4. QED
  BY <1>3, Zenon DEF Numbered

-----------------------------------------------------------------------------
(* Calls that wait for the mutex                                           *)

\* A call that has just read the clock is not late, and one that waits for
\* nothing was not.
LEMMA CallsKeep ==
  ASSUME Types, GlobalRate, TenantRate, Numbered, Shares,
         NEW c \in Callers, pc[c] = "idle", NEW kind \in Kinds,
         Calls(c, kind) \/ UNCHANGED <<pc, call>>,
         UNCHANGED <<rateVars, log>>
  PROVE  /\ GlobalRate' /\ TenantRate' /\ Numbered' /\ Shares'
         /\ pc' \in [Callers -> {"idle", "locking"}]
         /\ call' \in [Callers -> WaitingCalls]
<1>1. window' = window /\ principals' = principals /\ log' = log
  BY DEF rateVars
<1>2. pc \in [Callers -> {"idle", "locking"}] /\ call \in [Callers -> WaitingCalls]
  BY Zenon DEF Types
<1>3. /\ pc' \in [Callers -> {"idle", "locking"}]
      /\ call' \in [Callers -> WaitingCalls]
  BY <1>2, Constants DEF Calls
<1>4. ASSUME NEW h \in 1..Second PROVE Late(h)' = Late(h)
  <2>1. ASSUME NEW x \in Callers, x # c PROVE pc'[x] = pc[x] /\ call'[x] = call[x]
    BY <1>2, <2>1 DEF Calls
  <2>2. ~(pc'[c] = "locking" /\ call'[c].now >= h)
    <3>1. CASE Calls(c, kind)
      <4>1. call'[c].now = 0
        BY <1>2, <3>1 DEF Calls
      <4>2. QED
        BY <4>1
    <3>2. CASE UNCHANGED <<pc, call>>
      BY <3>2
    <3>3. QED
      BY <3>1, <3>2
  <2>3. ASSUME NEW x \in Callers
        PROVE  pc'[x] = "locking" /\ call'[x].now >= h <=> pc[x] = "locking" /\ call[x].now >= h
    BY <2>1, <2>2
  <2>4. QED
    BY <2>3, Zenon DEF Late
<1>5. ASSUME NEW h \in 1..Second
      PROVE  /\ \A k : GlobalBound(k, h)' = GlobalBound(k, h)
             /\ \A t, k : TenantBound(t, k, h)' = TenantBound(t, k, h)
  BY <1>1, <1>4, Zenon DEF GlobalBound, TenantBound, InTime, Young, Ahead, Used
<1>6. \A C, k, h : Recent(C, k, h)' = Recent(C, k, h)
  BY <1>1, Zenon DEF Recent
<1>7. GlobalRate'
  BY <1>5, <1>6, Zenon DEF GlobalRate, Within
<1>8. TenantRate'
  BY <1>5, <1>6, Zenon DEF TenantRate, Within, Of
<1>9. Numbered'
  BY <1>1, Zenon DEF Numbered, Now
<1>10. Shares'
  BY <1>1, Zenon DEF Shares, PrincipalsWithinGlobal, Charged
<1>11. QED
  BY <1>3, <1>7, <1>8, <1>9, <1>10

\* Steps of callers that do not hold the mutex keep the types.
LEMMA KeepsTypes ==
  ASSUME Types, UNCHANGED <<rateVars, log>>,
         session' \in [WebSockets -> SessionLimiters],
         pc' \in [Callers -> {"idle", "locking"}],
         call' \in [Callers -> WaitingCalls]
  PROVE  Types'
<1>1. window' = window /\ principals' = principals /\ log' = log
  BY DEF rateVars
<1>2. QED
  BY <1>1, Zenon DEF Types

\* A publication or a gRPC command only reads the clock (ApiState::allow_rate).
LEMMA Request ==
  ASSUME IInv, NEW c \in Callers, NEW kind \in Kinds, request(c, kind)
  PROVE  IInv'
<1>1. Types /\ GlobalRate /\ TenantRate /\ SessionRate /\ Numbered /\ Shares
  BY Zenon DEF IInv
<1>2. /\ pc[c] = "idle" /\ Calls(c, kind) /\ UNCHANGED <<rateVars, log>> /\ UNCHANGED session
      /\ kind = "Publish" \/ c \notin WebSockets
  BY DEF request
<1>3. /\ GlobalRate' /\ TenantRate' /\ Numbered' /\ Shares'
      /\ pc' \in [Callers -> {"idle", "locking"}]
      /\ call' \in [Callers -> WaitingCalls]
  BY <1>1, <1>2, CallsKeep
<1>4. Types'
  <2>1. session' \in [WebSockets -> SessionLimiters]
    BY <1>1, <1>2, Zenon DEF Types
  <2>2. QED
    BY <1>1, <1>2, <1>3, <2>1, KeepsTypes
<1>5. SessionRate'
  <2>1. ASSUME NEW x \in WebSockets PROVE Waiting(x)' = Waiting(x)
    <3>1. CASE x = c
      <4>1. kind = "Publish" /\ call'[c].kind = kind
        BY <1>1, <1>2, <3>1 DEF Calls, Types
      <4>2. QED
        BY <1>2, <3>1, <4>1 DEF Waiting
    <3>2. CASE x # c
      <4>1. pc'[x] = pc[x] /\ call'[x] = call[x]
        BY <1>1, <1>2, <3>2, Constants DEF Calls, Types
      <4>2. QED
        BY <4>1 DEF Waiting
    <3>3. QED
      BY <3>1, <3>2
  <2>2. \A x, h : SessionBound(x, h)' = SessionBound(x, h)
    BY <1>2, Zenon DEF SessionBound
  <2>3. \A C, k, h : Recent(C, k, h)' = Recent(C, k, h)
    BY <1>2, Zenon DEF Recent
  <2>4. QED
    BY <1>1, <2>1, <2>2, <2>3, Zenon DEF SessionRate
<1>6. QED
  BY <1>3, <1>4, <1>5, Zenon DEF IInv

\* A WebSocket command is counted by the session's limiter before it waits for the
\* shared one (CommandRateLimiter::allow).
LEMMA WsCommand ==
  ASSUME IInv, NEW c \in WebSockets, ws_command(c)
  PROVE  IInv'
<1> DEFINE limiter == Renewed(session[c])
           allowed == limiter.accepted < ws_max_commands_per_second
           <1>1. Types /\ GlobalRate /\ TenantRate /\ SessionRate /\ Numbered /\ Shares
  BY Zenon DEF IInv
<1>2. /\ pc[c] = "idle" /\ UNCHANGED <<rateVars, log>>
      /\ IF allowed THEN Calls(c, "Command") ELSE UNCHANGED <<pc, call>>
      /\ session' = [session EXCEPT ![c] =
                       IF allowed THEN [limiter EXCEPT !.accepted = @ + 1] ELSE limiter]
  BY DEF ws_command
<1>3. c \in Callers /\ "Command" \in Kinds
  BY LimiterAssumption
<1>4. /\ GlobalRate' /\ TenantRate' /\ Numbered' /\ Shares'
      /\ pc' \in [Callers -> {"idle", "locking"}]
      /\ call' \in [Callers -> WaitingCalls]
  <2>1. Calls(c, "Command") \/ UNCHANGED <<pc, call>>
    BY <1>2, Zenon
  <2>2. QED
    BY <1>1, <1>2, <1>3, <2>1, CallsKeep
<1>5. /\ session \in [WebSockets -> SessionLimiters]
      /\ pc \in [Callers -> {"idle", "locking"}]
      /\ call \in [Callers -> WaitingCalls]
  BY <1>1, Zenon DEF Types
<1>6. limiter \in SessionLimiters
  BY <1>5, Constants DEF Renewed
<1>7. session'[c] \in SessionLimiters /\ session' \in [WebSockets -> SessionLimiters]
  BY <1>2, <1>5, <1>6, Constants
<1>8. Types'
  BY <1>1, <1>2, <1>4, <1>7, KeepsTypes
<1>9. SessionRate'
  <2> SUFFICES ASSUME NEW x \in WebSockets, NEW h \in 0..Second
               PROVE  Cardinality(Recent({x}, "Command", h)') + Waiting(x)' <= SessionBound(x, h)'
    BY Zenon DEF SessionRate
  <2>1. Recent({x}, "Command", h)' = Recent({x}, "Command", h)
    BY <1>2, Zenon DEF Recent
  <2>2. Cardinality(Recent({x}, "Command", h)) + Waiting(x) <= SessionBound(x, h)
    BY <1>1, Zenon DEF SessionRate
  <2>3. CASE x # c
    <3>1. pc'[x] = pc[x] /\ call'[x] = call[x] /\ session'[x] = session[x]
      BY <1>2, <1>5, <2>3, Constants DEF Calls
    <3>2. Waiting(x)' = Waiting(x) /\ SessionBound(x, h)' = SessionBound(x, h)
      BY <3>1, Zenon DEF Waiting, SessionBound
    <3>3. QED
      BY <2>1, <2>2, <3>2
  <2>4. CASE x = c
    <3> DEFINE n == Cardinality(Recent({c}, "Command", h))
    <3>1. n \in Nat /\ Waiting(c) = 0 /\ n <= SessionBound(c, h)
      <4>1. Waiting(c) = 0
        BY <1>2 DEF Waiting
      <4>2. n \in Nat /\ SessionBound(c, h) \in Int
        BY <1>1, RateTypes, SessionTypes
      <4>3. QED
        BY <2>2, <2>4, <4>1, <4>2
    <3>2. Waiting(c)' = IF allowed THEN 1 ELSE 0
      BY <1>2, <1>3, <1>5 DEF Waiting, Calls
    <3>3. /\ session'[c].window_started = limiter.window_started
          /\ session'[c].accepted = limiter.accepted + (IF allowed THEN 1 ELSE 0)
      BY <1>2, <1>5, <1>6
    <3>4. CASE Elapsed(session[c].window_started)
      <4>1. limiter = [window_started |-> 0, accepted |-> 0]
        BY <3>4 DEF Renewed
      <4>2. n <= ws_max_commands_per_second
        BY <1>1, <3>1, <3>4, SessionTypes, Constants DEF SessionBound, Elapsed
      <4>3. h = 0 => n = 0
        BY <1>1, NothingYet
      <4> HIDE DEF n
      <4>4. n + Waiting(c)' <= SessionBound(c, h)'
        BY <3>1, <3>2, <3>3, <4>1, <4>2, <4>3, Constants DEF SessionBound
      <4>5. QED
        BY <2>1, <2>4, <4>4 DEF n
    <3>5. CASE ~Elapsed(session[c].window_started)
      <4>1. limiter = session[c]
        BY <3>5 DEF Renewed
      <4> HIDE DEF n
      <4>2. n + Waiting(c)' <= SessionBound(c, h)'
        BY <1>1, <3>1, <3>2, <3>3, <4>1, SessionTypes, Constants DEF SessionBound
      <4>3. QED
        BY <2>1, <2>4, <4>2 DEF n
    <3>6. QED
      BY <3>4, <3>5
  <2>5. QED
    BY <2>3, <2>4
<1>10. QED
  BY <1>4, <1>8, <1>9, Zenon DEF IInv

-----------------------------------------------------------------------------
(* AbuseLimiter::allow under the mutex                                     *)

\* The values of allow, by name.
Base(c) == RateWindow(call[c].now).global
Held(c) == RateWindow(call[c].now).principals
Refuses(c) ==
  Base(c).count[call[c].kind] >= global_limit[call[c].kind] \/ Full(Held(c), tenant_of[c])
Enters(c) == Entry(Held(c), tenant_of[c], call[c].now)
Accepts(c) == ~Refuses(c) /\ Enters(c).count[call[c].kind] < principal_limit[call[c].kind]
Adds(c, k) == IF Accepts(c) /\ k = call[c].kind THEN 1 ELSE 0

\* A new window has used nothing.
LEMMA CountingType ==
  ASSUME NEW limit, \A k \in Kinds : limit[k] \in Nat, NEW started \in 0..Second
  PROVE  Counting(started) \in Counters(limit)
BY DEF Counting, None, Counters

\* The types of the values of allow.
LEMMA AllowValues ==
  ASSUME Types, NEW c \in Callers
  PROVE  /\ call[c].kind \in Kinds /\ call[c].now \in 0..Second /\ tenant_of[c] \in Tenants
         /\ Base(c) \in Counters(global_limit)
         /\ Held(c) \in [DOMAIN Held(c) -> Counters(principal_limit)]
         /\ Enters(c) \in Counters(principal_limit)
<1>1. /\ call[c] \in WaitingCalls /\ window \in Counters(global_limit)
      /\ principals \in [DOMAIN principals -> Counters(principal_limit)]
  BY Zenon DEF Types
<1>2. call[c].kind \in Kinds /\ call[c].now \in 0..Second /\ tenant_of[c] \in Tenants
  BY <1>1, Constants
<1>3. /\ Counting(call[c].now) \in Counters(global_limit)
      /\ Counting(call[c].now) \in Counters(principal_limit)
  BY <1>2, CountingType, Constants
<1>4. Base(c) \in Counters(global_limit)
  BY <1>1, <1>3 DEF Base, RateWindow
<1>5. Held(c) \in [DOMAIN Held(c) -> Counters(principal_limit)]
  <2>1. NoPrincipals \in [DOMAIN NoPrincipals -> Counters(principal_limit)]
    BY DEF NoPrincipals
  <2>2. Held(c) = NoPrincipals \/ Held(c) = principals
    BY DEF Held, RateWindow
  <2>3. QED
    BY <1>1, <2>1, <2>2, Zenon
<1>6. Enters(c) \in Counters(principal_limit)
  BY <1>3, <1>5, Zenon DEF Enters, Entry
<1>7. QED
  BY <1>2, <1>4, <1>5, <1>6

Plus(counters, k) == [counters EXCEPT !.count[k] = @ + 1]

\* Counting a call adds one to the count of its kind.
LEMMA CountedOnce ==
  ASSUME NEW limit, NEW counters \in Counters(limit), NEW k \in Kinds
  PROVE  LET n == Plus(counters, k) IN
         /\ n.window_started = counters.window_started
         /\ \A j \in Kinds : n.count[j] = counters.count[j] + (IF j = k THEN 1 ELSE 0)
         /\ counters.count[k] < limit[k] /\ limit[k] \in Nat => n \in Counters(limit)
<1> DEFINE n == Plus(counters, k)
<1>1. /\ counters = [window_started |-> counters.window_started, count |-> counters.count]
      /\ counters.window_started \in 0..Second /\ counters.count \in [Kinds -> Nat]
      /\ \A j \in Kinds : counters.count[j] <= limit[j]
  BY DEF Counters
<1>2. n = [window_started |-> counters.window_started, count |-> [counters.count EXCEPT ![k] = @ + 1]]
  BY <1>1 DEF Plus
<1> HIDE DEF n
<1>3. \A j \in Kinds : n.count[j] = counters.count[j] + (IF j = k THEN 1 ELSE 0)
  BY <1>1, <1>2
<1>4. counters.count[k] < limit[k] /\ limit[k] \in Nat => n \in Counters(limit)
  <2>1. n.count \in [Kinds -> Nat]
    BY <1>1, <1>2
  <2>2. counters.count[k] < limit[k] /\ limit[k] \in Nat => \A j \in Kinds : n.count[j] <= limit[j]
    BY <1>1, <1>3
  <2>3. QED
    BY <1>1, <1>2, <2>1, <2>2 DEF Counters
<1>5. QED
  BY <1>2, <1>3, <1>4 DEF n

\* What allow does to the state, in terms of those values.
LEMMA AllowMeans ==
  ASSUME Types, NEW c \in Callers, allow(c)
  PROVE  /\ pc[c] = "locking" /\ pc' = [pc EXCEPT ![c] = "idle"]
         /\ call' = call /\ session' = session
         /\ log' = IF Accepts(c) THEN log \cup {Record(c, call[c].kind)} ELSE log
         /\ window' \in Counters(global_limit)
         /\ window'.window_started = Base(c).window_started
         /\ \A k \in Kinds : window'.count[k] = Base(c).count[k] + Adds(c, k)
         /\ principals' = [t \in DOMAIN principals' |-> principals'[t]]
         /\ Refuses(c) => principals' = Held(c)
         /\ ~Refuses(c) =>
              /\ DOMAIN principals' = DOMAIN Held(c) \cup {tenant_of[c]}
              /\ \A t \in DOMAIN Held(c) \ {tenant_of[c]} : principals'[t] = Held(c)[t]
              /\ principals'[tenant_of[c]] \in Counters(principal_limit)
              /\ principals'[tenant_of[c]].window_started = Enters(c).window_started
              /\ \A k \in Kinds :
                   principals'[tenant_of[c]].count[k] = Enters(c).count[k] + Adds(c, k)
<1> DEFINE kind == call[c].kind
           Counted(counters) ==
             IF Accepts(c) THEN Plus(counters, kind) ELSE counters
<1>1. /\ pc[c] = "locking" /\ pc' = [pc EXCEPT ![c] = "idle"]
      /\ call' = call /\ session' = session
      /\ log' = IF Accepts(c) THEN log \cup {Record(c, call[c].kind)} ELSE log
      /\ window' = Counted(Base(c))
      /\ principals' = IF Refuses(c) THEN Held(c) ELSE With(Held(c), tenant_of[c], Counted(Enters(c)))
  BY Zenon DEF allow, Accepts, Refuses, Enters, Held, Base, Plus
<1>2. /\ kind \in Kinds /\ Base(c) \in Counters(global_limit)
      /\ Enters(c) \in Counters(principal_limit)
  BY AllowValues
<1>3. ASSUME NEW limit, \A k \in Kinds : limit[k] \in Nat, NEW counters \in Counters(limit),
             Accepts(c) => counters.count[kind] < limit[kind]
      PROVE  /\ Counted(counters) \in Counters(limit)
             /\ Counted(counters).window_started = counters.window_started
             /\ \A k \in Kinds : Counted(counters).count[k] = counters.count[k] + Adds(c, k)
  <2>1. CASE Accepts(c)
    <3> DEFINE n == Plus(counters, kind)
    <3>1. Counted(counters) = n
      BY <2>1
    <3> HIDE DEF Counted
    <3>2. /\ n.window_started = counters.window_started
          /\ \A j \in Kinds : n.count[j] = counters.count[j] + (IF j = kind THEN 1 ELSE 0)
          /\ n \in Counters(limit)
      BY <1>2, <1>3, <2>1, CountedOnce
    <3>3. \A j \in Kinds : Adds(c, j) = IF j = kind THEN 1 ELSE 0
      BY <2>1, Zenon DEF Adds
    <3>4. QED
      BY <3>1, <3>2, <3>3, Zenon
  <2>2. CASE ~Accepts(c)
    <3>1. Counted(counters) = counters
      BY <2>2
    <3>2. \A k \in Kinds : counters.count[k] \in Nat /\ Adds(c, k) = 0
      BY <1>3, <2>2 DEF Counters, Adds
    <3>3. \A k \in Kinds : counters.count[k] = counters.count[k] + Adds(c, k)
      BY <3>2
    <3>4. QED
      BY <1>3, <3>1, <3>3, Zenon
  <2>3. QED
    BY <2>1, <2>2
<1>4. Accepts(c) => Base(c).count[kind] < global_limit[kind]
  <2>1. Base(c).count[kind] \in Nat /\ global_limit[kind] \in Nat
    BY <1>2, Constants DEF Counters
  <2>2. QED
    BY <2>1 DEF Accepts, Refuses
<1>5. Accepts(c) => Enters(c).count[kind] < principal_limit[kind]
  BY DEF Accepts
<1>6. /\ window' \in Counters(global_limit)
      /\ window'.window_started = Base(c).window_started
      /\ \A k \in Kinds : window'.count[k] = Base(c).count[k] + Adds(c, k)
  BY <1>1, <1>2, <1>3, <1>4, Constants, Zenon
<1>7. ~Refuses(c) =>
        /\ DOMAIN principals' = DOMAIN Held(c) \cup {tenant_of[c]}
        /\ \A t \in DOMAIN Held(c) \ {tenant_of[c]} : principals'[t] = Held(c)[t]
        /\ principals'[tenant_of[c]] = Counted(Enters(c))
  <2> HIDE DEF Counted
  <2>1. QED
    BY <1>1, Zenon DEF With
<1>8. /\ Counted(Enters(c)) \in Counters(principal_limit)
      /\ Counted(Enters(c)).window_started = Enters(c).window_started
      /\ \A k \in Kinds : Counted(Enters(c)).count[k] = Enters(c).count[k] + Adds(c, k)
  BY <1>2, <1>3, <1>5, Constants, Zenon
<1> HIDE DEF Counted
<1>9. principals' = [t \in DOMAIN principals' |-> principals'[t]]
  <2>1. Held(c) = [t \in DOMAIN Held(c) |-> Held(c)[t]]
    BY AllowValues, Zenon
  <2>2. QED
    BY <1>1, <2>1, Zenon DEF With
<1>10. QED
  BY <1>1, <1>6, <1>7, <1>8, <1>9, Zenon

\* The calls of the current tick are finitely many.
LEMMA NowType ==
  ASSUME Types, NEW c, NEW k
  PROVE  IsFiniteSet(Now(c, k)) /\ Cardinality(Now(c, k)) \in Nat
<1>1. IsFiniteSet(log)
  BY Zenon DEF Types
<1>2. QED
  BY <1>1, Fewer DEF Now

\* The fields of a new log entry.
LEMMA RecordIs ==
  ASSUME Types, NEW c \in Callers, NEW k \in Kinds
  PROVE  /\ Record(c, k) \in Records
         /\ Record(c, k).caller = c /\ Record(c, k).kind = k /\ Record(c, k).age = 0
         /\ Record(c, k).number = Cardinality(Now(c, k)) + 1
<1>1. Record(c, k) = [caller |-> c, kind |-> k, age |-> 0, number |-> Cardinality(Now(c, k)) + 1]
  BY Zenon DEF Record, Now
<1>2. QED
  BY <1>1, NowType, Constants DEF Records

\* allow keeps the types, and with them each counter within its limit.
LEMMA AllowTypes ==
  ASSUME Types, NEW c \in Callers, allow(c)
  PROVE  Types'
<1>1. window' \in Counters(global_limit)
  BY AllowMeans, Zenon
<1>2. principals' \in [DOMAIN principals' -> Counters(principal_limit)]
  <2>1. Held(c) \in [DOMAIN Held(c) -> Counters(principal_limit)]
    BY AllowValues
  <2>2. \A t \in DOMAIN principals' : principals'[t] \in Counters(principal_limit)
    <3>1. CASE Refuses(c)
      <4>1. principals' = Held(c)
        BY <3>1, AllowMeans, Zenon
      <4>2. QED
        BY <2>1, <4>1, Zenon
    <3>2. CASE ~Refuses(c)
      <4>1. /\ DOMAIN principals' = DOMAIN Held(c) \cup {tenant_of[c]}
            /\ \A t \in DOMAIN Held(c) \ {tenant_of[c]} : principals'[t] = Held(c)[t]
            /\ principals'[tenant_of[c]] \in Counters(principal_limit)
        BY <3>2, AllowMeans, Zenon
      <4>2. QED
        BY <2>1, <4>1, Zenon
    <3>3. QED
      BY <3>1, <3>2
  <2>3. principals' = [t \in DOMAIN principals' |-> principals'[t]]
    BY AllowMeans, Zenon
  <2>4. QED
    BY <2>2, <2>3, Zenon
<1>3. log' \subseteq Records /\ IsFiniteSet(log')
  <2>1. log \subseteq Records /\ IsFiniteSet(log)
    BY Zenon DEF Types
  <2>2. Record(c, call[c].kind) \in Records
    BY AllowValues, RecordIs
  <2>3. log' = log \cup {Record(c, call[c].kind)} \/ log' = log
    BY AllowMeans, Zenon
  <2>4. QED
    BY <2>1, <2>2, <2>3, FS_AddElement
<1>4. pc' \in [Callers -> {"idle", "locking"}]
  <2>1. pc' = [pc EXCEPT ![c] = "idle"] /\ pc \in [Callers -> {"idle", "locking"}]
    BY AllowMeans, Zenon DEF Types
  <2>2. QED
    BY <2>1
<1>5. session' = session /\ call' = call
  BY AllowMeans, Zenon
<1>6. QED
  BY <1>1, <1>2, <1>3, <1>4, <1>5, Zenon DEF Types

\* A caller that leaves the mutex is not late any more.
LEMMA AllowInTime ==
  ASSUME Types, NEW c \in Callers, allow(c), NEW h \in 1..Second
  PROVE  /\ InTime(h)' = InTime(h) + (IF call[c].now >= h THEN 1 ELSE 0)
         /\ InTime(h)' >= 1
         /\ InTime(h)' \in Nat /\ InTime(h) \in Nat
<1> DEFINE S == Callers \ Late(h)
<1>1. pc \in [Callers -> {"idle", "locking"}] /\ call[c].now \in 0..Second
  BY AllowValues, Zenon DEF Types
<1>2. pc[c] = "locking" /\ pc' = [pc EXCEPT ![c] = "idle"] /\ call' = call
  BY AllowMeans, Zenon
<1>3. Late(h)' = Late(h) \ {c}
  <2>1. pc'[c] = "idle" /\ \A x \in Callers : x # c => pc'[x] = pc[x]
    BY <1>1, <1>2
  <2>2. QED
    BY <1>2, <2>1, Zenon DEF Late
<1>4. (Callers \ Late(h))' = S \cup {c}
  BY <1>3
<1>5. c \in S <=> ~(call[c].now >= h)
  BY <1>2 DEF Late
<1>6. IsFiniteSet(S) /\ Cardinality(S) \in Nat
  BY Constants, Fewer
<1>7. Cardinality(S \cup {c}) = IF c \in S THEN Cardinality(S) ELSE Cardinality(S) + 1
  BY <1>6, FS_AddElement
<1>8. c \in S => Cardinality(S) # 0
  BY <1>6, FS_EmptySet
<1>9. InTime(h) = Cardinality(S) /\ InTime(h)' = Cardinality(S \cup {c})
  BY <1>4, Zenon DEF InTime
<1> HIDE DEF S
<1>10. QED
  BY <1>5, <1>6, <1>7, <1>8, <1>9

\* allow logs at most one call, of the caller and its kind.
LEMMA AllowRecent ==
  ASSUME Types, NEW c \in Callers, allow(c), NEW C, NEW k, NEW h
  PROVE  /\ Cardinality(Recent(C, k, h)') \in Nat
         /\ Cardinality(Recent(C, k, h)') <= Cardinality(Recent(C, k, h)) + Adds(c, k)
         /\ c \notin C => Recent(C, k, h)' = Recent(C, k, h)
         /\ Adds(c, k) = 0 => Recent(C, k, h)' = Recent(C, k, h)
<1>1. log' = IF Accepts(c) THEN log \cup {Record(c, call[c].kind)} ELSE log
  BY AllowMeans, Zenon
<1>2. Record(c, call[c].kind).caller = c /\ Record(c, call[c].kind).kind = call[c].kind
  BY AllowValues, RecordIs
<1>3. IsFiniteSet(Recent(C, k, h)) /\ Cardinality(Recent(C, k, h)) \in Nat
  BY RateTypes
<1>4. CASE Adds(c, k) = 0
  <2>1. ~(Accepts(c) /\ k = call[c].kind)
    BY <1>4 DEF Adds
  <2>2. Recent(C, k, h)' = Recent(C, k, h)
    BY <1>1, <1>2, <2>1, Zenon DEF Recent
  <2>3. QED
    BY <1>3, <1>4, <2>2
<1>5. CASE Adds(c, k) # 0
  <2>1. Adds(c, k) = 1
    BY <1>5 DEF Adds
  <2>2. Recent(C, k, h)' \subseteq Recent(C, k, h) \cup {Record(c, call[c].kind)}
    BY <1>1, Zenon DEF Recent
  <2>3. c \notin C => Recent(C, k, h)' = Recent(C, k, h)
    BY <1>1, <1>2, Zenon DEF Recent
  <2>4. /\ Cardinality(Recent(C, k, h)') \in Nat
        /\ Cardinality(Recent(C, k, h)') <= Cardinality(Recent(C, k, h)) + 1
    BY <1>3, <2>2, OneMore
  <2>5. QED
    BY <1>5, <2>1, <2>3, <2>4
<1>6. QED
  BY <1>4, <1>5

\* Whether the window is new or not, in the terms of the bounds.
LEMMA AllowWindow ==
  ASSUME Types, NEW c \in Callers, allow(c), NEW k \in Kinds, NEW h \in 1..Second
  PROVE  \/ /\ Base(c) = window /\ Held(c) = principals
            /\ window.window_started # Second
            /\ window'.window_started = window.window_started
            /\ Young(h)' = Young(h)
            /\ window'.count[k] = window.count[k] + Adds(c, k)
         \/ /\ Held(c) = NoPrincipals
            /\ window.window_started = Second /\ window'.window_started = call[c].now
            /\ Young(h) = 0
            /\ InTime(h)' + Young(h)' = InTime(h) + 1
            /\ window'.count[k] = Adds(c, k)
<1>1. /\ window'.window_started = Base(c).window_started
      /\ window'.count[k] = Base(c).count[k] + Adds(c, k)
  BY AllowMeans, Zenon
<1>2. call[c].now \in 0..Second /\ window.window_started \in 0..Second
  BY AllowValues, CounterTypes
<1>3. CASE Elapsed(window.window_started)
  <2>1. Base(c) = Counting(call[c].now) /\ Held(c) = NoPrincipals
    BY <1>3 DEF Base, Held, RateWindow
  <2>2. Base(c).window_started = call[c].now /\ Base(c).count[k] = 0
    BY <2>1 DEF Counting, None
  <2>3. window.window_started = Second /\ Young(h) = 0
    BY <1>2, <1>3, Constants DEF Elapsed, Young
  <2>4. Young(h)' = IF call[c].now >= h THEN 0 ELSE 1
    BY <1>1, <1>2, <2>2 DEF Young
  <2>5. InTime(h)' + Young(h)' = InTime(h) + 1
    BY <2>4, AllowInTime
  <2>6. window'.count[k] = Adds(c, k)
    BY <1>1, <2>2 DEF Adds
  <2>7. QED
    BY <1>1, <2>1, <2>2, <2>3, <2>5, <2>6
<1>4. CASE ~Elapsed(window.window_started)
  <2>1. Base(c) = window /\ Held(c) = principals
    BY <1>4 DEF Base, Held, RateWindow
  <2>2. Young(h)' = Young(h)
    BY <1>1, <2>1 DEF Young
  <2>3. window.window_started # Second
    BY <1>4, Constants DEF Elapsed
  <2>4. QED
    BY <1>1, <2>1, <2>2, <2>3
<1>5. QED
  BY <1>3, <1>4

\* allow keeps the global bound: a window it restarts was over, and the restart
\* either counts as young or takes a late caller.
LEMMA AllowGlobal ==
  ASSUME Types, GlobalRate, NEW c \in Callers, allow(c)
  PROVE  GlobalRate'
<1> SUFFICES ASSUME NEW k \in Kinds, NEW h \in 1..Second
             PROVE  Within(Recent(Callers, k, h)', GlobalBound(k, h)')
  BY Zenon DEF GlobalRate, Within
<1> DEFINE L == global_limit[k]
           u == InTime(h)
           v == InTime(h)'
           n == Cardinality(Recent(Callers, k, h))
           m == Cardinality(Recent(Callers, k, h)')
<1>1. L \in Nat /\ window.count[k] \in Nat /\ window.count[k] <= L
  BY Constants, CounterTypes
<1>2. u \in Nat /\ v \in Nat /\ u <= v /\ v >= 1
  BY AllowInTime
<1>3. n \in Nat /\ m \in Nat /\ m <= n + Adds(c, k) /\ Adds(c, k) \in 0..1 /\ Young(h) \in 0..1
  BY AllowRecent, RateTypes DEF Adds
<1>4. n = 0 \/ n <= (u + Young(h) - 1) * L + window.count[k]
  <2>1. Within(Recent(Callers, k, h), GlobalBound(k, h))
    BY Zenon DEF GlobalRate
  <2>2. QED
    BY <2>1, FS_EmptySet DEF Within, GlobalBound
<1>5. GlobalBound(k, h)' = (v + Young(h)' - 1) * L + window'.count[k]
  BY DEF GlobalBound
<1> HIDE DEF L, u, v, n, m
<1>6. CASE Young(h)' = Young(h) /\ window'.count[k] = window.count[k] + Adds(c, k)
  <2>1. /\ (u + Young(h) - 1) * L <= (v + Young(h) - 1) * L
        /\ (u + Young(h) - 1) * L \in Int /\ (v + Young(h) - 1) * L \in Int
    BY <1>1, <1>2, <1>3, Multiples
  <2>2. 0 * L <= (v + Young(h) - 1) * L
    BY <1>1, <1>2, <1>3, Multiples
  <2>3. m <= (v + Young(h) - 1) * L + window'.count[k]
    BY <1>1, <1>3, <1>4, <1>6, <2>1, <2>2
  <2>4. QED
    BY <1>5, <1>6, <2>3 DEF Within, m
<1>7. CASE Young(h) = 0 /\ v + Young(h)' = u + 1 /\ window'.count[k] = Adds(c, k)
  <2>1. (u - 1) * L \in Int /\ u * L = (u - 1) * L + L
    <3>1. (u - 1) * L \in Int /\ (u - 1 + 1) * L = (u - 1) * L + L
      BY <1>1, <1>2, NextMultiple
    <3>2. QED
      BY <1>2, <3>1
  <2>2. 0 * L <= u * L /\ u * L \in Int
    BY <1>1, <1>2, Multiples
  <2>3. v + Young(h)' - 1 = u /\ u + Young(h) - 1 = u - 1
    <3>1. Young(h)' \in Int
      BY DEF Young
    <3>2. QED
      BY <1>2, <1>7, <3>1
  <2>4. m <= u * L + window'.count[k]
    BY <1>1, <1>3, <1>4, <1>7, <2>1, <2>2, <2>3
  <2>5. QED
    BY <1>5, <2>3, <2>4 DEF Within, m
<1>8. QED
  BY <1>6, <1>7, AllowWindow, Zenon DEF u, v

\* What becomes of a tenant's entry, in the terms of the bounds.
LEMMA AllowEntry ==
  ASSUME Types, NEW c \in Callers, allow(c), NEW t \in Tenants, NEW k \in Kinds, NEW h \in 1..Second
  PROVE  LET n == IF t = tenant_of[c] THEN Adds(c, k) ELSE 0
         IN  \/ Used(t, k)' = Used(t, k) + n /\ Ahead(t, h)' = Ahead(t, h)
                 /\ Young(h)' = Young(h)
             \/ /\ Young(h)' = Young(h)
                /\ Used(t, k)' = n
                /\ Ahead(t, h)' <= IF call[c].now >= h THEN 1 ELSE 0
                /\ Ahead(t, h) = 1 \/ Used(t, k) = 0
             \/ /\ Young(h) = 0 /\ InTime(h)' + Young(h)' = InTime(h) + 1
                /\ Used(t, k)' = n /\ Ahead(t, h)' = 0
<1> DEFINE n == IF t = tenant_of[c] THEN Adds(c, k) ELSE 0
<1>1. /\ Refuses(c) => principals' = Held(c)
      /\ ~Refuses(c) =>
           /\ DOMAIN principals' = DOMAIN Held(c) \cup {tenant_of[c]}
           /\ \A x \in DOMAIN Held(c) \ {tenant_of[c]} : principals'[x] = Held(c)[x]
           /\ principals'[tenant_of[c]].window_started = Enters(c).window_started
           /\ principals'[tenant_of[c]].count[k] = Enters(c).count[k] + Adds(c, k)
  BY AllowMeans, Zenon
<1>2. Adds(c, k) \in 0..1 /\ (Refuses(c) => Adds(c, k) = 0)
  BY DEF Adds, Accepts
<1>3. /\ call[c].now \in 0..Second /\ window.window_started \in 0..Second
      /\ Used(t, k) \in Nat
      /\ t \in DOMAIN principals => principals[t].window_started \in 0..Second
  BY AllowValues, CounterTypes, RateTypes
<1>4. CASE /\ Held(c) = principals /\ window.window_started # Second
           /\ window'.window_started = window.window_started
           /\ Young(h)' = Young(h)
  <2>1. CASE Refuses(c) \/ t # tenant_of[c]
    <3>1. /\ t \in DOMAIN principals' <=> t \in DOMAIN principals
          /\ t \in DOMAIN principals => principals'[t] = principals[t]
      BY <1>1, <1>4, <2>1, Zenon
    <3>2. Used(t, k)' = Used(t, k) /\ Ahead(t, h)' = Ahead(t, h)
      BY <1>4, <3>1, Zenon DEF Used, Ahead
    <3>3. QED
      BY <1>2, <1>3, <1>4, <2>1, <3>2
  <2>2. CASE /\ ~Refuses(c)
             /\ t = tenant_of[c]
             /\ t \in DOMAIN principals
             /\ ~Elapsed(principals[t].window_started)
    <3>1. Enters(c) = principals[t]
      BY <1>4, <2>2, Zenon DEF Enters, Entry
    <3>2. /\ t \in DOMAIN principals'
          /\ principals'[t].window_started = principals[t].window_started
          /\ principals'[t].count[k] = principals[t].count[k] + Adds(c, k)
      BY <1>1, <2>2, <3>1, Zenon
    <3>3. Used(t, k)' = Used(t, k) + Adds(c, k) /\ Ahead(t, h)' = Ahead(t, h)
      BY <1>4, <2>2, <3>2, Zenon DEF Used, Ahead
    <3>4. QED
      BY <1>4, <2>2, <3>3
  <2>3. CASE /\ ~Refuses(c)
             /\ t = tenant_of[c]
             /\ (t \notin DOMAIN principals \/ Elapsed(principals[t].window_started))
    <3>1. Enters(c) = Counting(call[c].now)
      BY <1>4, <2>3, Zenon DEF Enters, Entry
    <3>2. Enters(c).window_started = call[c].now /\ Enters(c).count[k] = 0
      BY <3>1 DEF Counting, None
    <3>3. /\ t \in DOMAIN principals' /\ principals'[t].window_started = call[c].now
          /\ principals'[t].count[k] = 0 + Adds(c, k)
      BY <1>1, <2>3, <3>2, Zenon
    <3>4. Used(t, k)' = Adds(c, k)
      BY <1>2, <3>3 DEF Used
    <3>5. Ahead(t, h)' <= IF call[c].now >= h THEN 1 ELSE 0
      BY <1>3, <3>3 DEF Ahead
    <3>6. Ahead(t, h) = 1 \/ Used(t, k) = 0
      BY <1>3, <1>4, <2>3, Constants DEF Ahead, Used, Elapsed
    <3>7. QED
      BY <1>4, <2>3, <3>4, <3>5, <3>6
  <2>4. QED
    BY <2>1, <2>2, <2>3, Zenon
<1>5. CASE /\ Held(c) = NoPrincipals
           /\ window'.window_started = call[c].now
           /\ Young(h) = 0 /\ InTime(h)' + Young(h)' = InTime(h) + 1
  <2>0. DOMAIN NoPrincipals = {}
    BY DEF NoPrincipals
  <2>1. CASE Refuses(c) \/ t # tenant_of[c]
    <3>1. t \notin DOMAIN principals'
      BY <1>1, <1>5, <2>0, <2>1, Zenon
    <3>2. Used(t, k)' = 0 /\ Ahead(t, h)' = 0
      BY <3>1, Zenon DEF Used, Ahead
    <3>3. QED
      BY <1>2, <1>5, <2>1, <3>2
  <2>2. CASE ~Refuses(c) /\ t = tenant_of[c]
    <3>1. Enters(c) = Counting(call[c].now)
      BY <1>5, <2>0, <2>2, Zenon DEF Enters, Entry
    <3>2. Enters(c).window_started = call[c].now /\ Enters(c).count[k] = 0
      BY <3>1 DEF Counting, None
    <3>3. /\ t \in DOMAIN principals' /\ principals'[t].window_started = call[c].now
          /\ principals'[t].count[k] = 0 + Adds(c, k)
      BY <1>1, <2>2, <3>2, Zenon
    <3>4. Used(t, k)' = Adds(c, k)
      BY <1>2, <3>3 DEF Used
    <3>5. Ahead(t, h)' = 0
      BY <1>3, <1>5, <3>3 DEF Ahead
    <3>6. QED
      BY <1>5, <2>2, <3>4, <3>5
  <2>3. QED
    BY <2>1, <2>2
<1>6. QED
  BY <1>4, <1>5, AllowWindow, Zenon

\* allow keeps a tenant's bound: its window is restarted with the global one, or
\* first, which the bound had already allowed for.
LEMMA AllowTenant ==
  ASSUME Types, TenantRate, NEW c \in Callers, allow(c)
  PROVE  TenantRate'
<1> SUFFICES ASSUME NEW t \in Tenants, NEW k \in Kinds, NEW h \in 1..Second
             PROVE  Within(Recent(Of(t), k, h)', TenantBound(t, k, h)')
  BY Zenon DEF TenantRate, Within, Of
<1> DEFINE L == principal_limit[k]
           u == InTime(h)
           v == InTime(h)'
           n == Cardinality(Recent(Of(t), k, h))
           m == Cardinality(Recent(Of(t), k, h)')
           d == IF t = tenant_of[c] THEN Adds(c, k) ELSE 0
           f == Young(h)
           g == Ahead(t, h)
           x == Used(t, k)
           y == Young(h)'
           z == Ahead(t, h)'
           w == Used(t, k)'
           q == IF call[c].now >= h THEN 1 ELSE 0
<1>1. L \in Nat /\ x \in Nat /\ x <= L /\ f \in 0..1 /\ g \in 0..1
  BY Constants, RateTypes
<1>2. /\ u \in Nat /\ v \in Nat /\ v >= 1
      /\ v = u + q /\ q \in 0..1
  BY AllowInTime
<1>3. n \in Nat /\ m \in Nat /\ m <= n + d /\ d \in 0..1
  <2>1. /\ m \in Nat /\ m <= n + Adds(c, k)
        /\ c \notin Of(t) => Recent(Of(t), k, h)' = Recent(Of(t), k, h)
    BY AllowRecent
  <2>2. n \in Nat /\ Adds(c, k) \in 0..1
    BY RateTypes DEF Adds
  <2>3. t # tenant_of[c] => m = n
    BY <2>1 DEF Of
  <2>4. QED
    BY <2>1, <2>2, <2>3
<1>4. n = 0 \/ n <= (u + f - g) * L + x
  <2>1. Within(Recent(Of(t), k, h), TenantBound(t, k, h))
    BY Zenon DEF TenantRate
  <2>2. QED
    BY <2>1, FS_EmptySet DEF Within, TenantBound
<1>5. TenantBound(t, k, h)' = (v + y - z) * L + w
  BY DEF TenantBound
<1>6. y \in 0..1 /\ z \in 0..1
  BY DEF Young, Ahead
<1>7. m <= (v + y - z) * L + w => Within(Recent(Of(t), k, h)', TenantBound(t, k, h)')
  BY <1>5 DEF Within
<1>8. \/ w = x + d /\ z = g /\ y = f
      \/ y = f /\ w = d /\ z <= q /\ (g = 1 \/ x = 0)
      \/ f = 0 /\ v + y = u + 1 /\ w = d /\ z = 0
  BY AllowEntry, Zenon
<1> SUFFICES m <= (v + y - z) * L + w
  BY <1>7
<1> HIDE DEF L, u, v, n, m, d, f, g, x, y, z, w, q
<1>9. /\ 0 * L <= (v + y - z) * L /\ (v + y - z) * L \in Int
      /\ (u + f - g) * L \in Int
  <2>1. v + y - z \in Int /\ 0 <= v + y - z /\ u + f - g \in Int
    BY <1>1, <1>2, <1>6
  <2>2. QED
    BY <1>1, <2>1, Multiples
<1>10. CASE n = 0
  BY <1>1, <1>3, <1>8, <1>9, <1>10
<1>11. CASE w = x + d /\ z = g /\ y = f /\ n <= (u + f - g) * L + x
  <2>1. (u + f - g) * L <= (v + f - g) * L /\ (v + f - g) * L \in Int
    BY <1>1, <1>2, Multiples
  <2>2. QED
    BY <1>1, <1>3, <1>9, <1>11, <2>1
<1>12. CASE /\ n <= (u + f - g) * L + x
            /\ \/ y = f /\ w = d /\ z <= q /\ (g = 1 \/ x = 0)
               \/ f = 0 /\ v + y = u + 1 /\ w = d /\ z = 0
  <2>1. n <= (u + f - g + 1) * L
    <3>1. (u + f - g + 1) * L = (u + f - g) * L + L
      BY <1>1, <1>2, NextMultiple
    <3>2. QED
      BY <1>1, <1>3, <1>9, <1>12, <3>1
  <2>2. CASE \/ g = 1 /\ y = f /\ w = d /\ z <= q
             \/ f = 0 /\ v + y = u + 1 /\ w = d /\ z = 0
    <3>1. u + f - g + 1 <= v + y - z
      BY <1>1, <1>2, <1>6, <1>12, <2>2
    <3>2. (u + f - g + 1) * L <= (v + y - z) * L /\ (u + f - g + 1) * L \in Int
      BY <1>1, <1>2, <1>6, <3>1, Multiples
    <3>3. QED
      BY <1>3, <1>9, <1>12, <2>1, <3>2
  <2>3. CASE y = f /\ w = d /\ z <= q /\ x = 0 /\ g = 0
    <3>1. u + f - g <= v + y - z
      BY <1>1, <1>2, <1>6, <2>3
    <3>2. (u + f - g) * L <= (v + y - z) * L
      BY <1>1, <1>2, <1>6, <3>1, Multiples
    <3>3. QED
      BY <1>3, <1>9, <1>12, <2>3, <3>2
  <2>4. \/ y = f /\ w = d /\ z <= q /\ (g = 1 \/ x = 0)
        \/ f = 0 /\ v + y = u + 1 /\ w = d /\ z = 0
    BY <1>12, Zenon
  <2>5. g = 0 \/ g = 1
    BY <1>1
  <2>6. QED
    BY <2>2, <2>3, <2>4, <2>5, Zenon
<1>13. QED
  BY <1>4, <1>8, <1>10, <1>11, <1>12

\* allow decides a command that the session's limiter has counted.
LEMMA AllowSession ==
  ASSUME Types, SessionRate, NEW c \in Callers, allow(c)
  PROVE  SessionRate'
<1> SUFFICES ASSUME NEW x \in WebSockets, NEW h \in 0..Second
             PROVE  Cardinality(Recent({x}, "Command", h)') + Waiting(x)' <= SessionBound(x, h)'
  BY Zenon DEF SessionRate
<1> DEFINE n == Cardinality(Recent({x}, "Command", h))
           m == Cardinality(Recent({x}, "Command", h)')
<1>1. /\ pc[c] = "locking" /\ pc' = [pc EXCEPT ![c] = "idle"]
      /\ call' = call /\ session' = session
      /\ pc \in [Callers -> {"idle", "locking"}] /\ x \in Callers
  BY AllowMeans, Constants, Zenon DEF Types
<1>2. n + Waiting(x) <= SessionBound(x, h) /\ SessionBound(x, h)' = SessionBound(x, h)
  BY <1>1, Zenon DEF SessionRate, SessionBound
<1>3. /\ n \in Nat
      /\ m \in Nat
      /\ m <= n + Adds(c, "Command")
      /\ Waiting(x) \in 0..1
      /\ SessionBound(x, h) \in Int
      /\ x # c => m = n
  <2>1. /\ m \in Nat /\ m <= n + Adds(c, "Command")
        /\ c \notin {x} => Recent({x}, "Command", h)' = Recent({x}, "Command", h)
    BY AllowRecent
  <2>2. n \in Nat /\ Waiting(x) \in 0..1 /\ SessionBound(x, h) \in Int
    BY RateTypes, SessionTypes
  <2>3. QED
    BY <2>1, <2>2
<1> HIDE DEF n, m
<1>4. CASE x = c
  <2>1. Waiting(x)' = 0 /\ Adds(c, "Command") <= Waiting(x)
    BY <1>1, <1>4 DEF Waiting, Adds
  <2>2. Adds(c, "Command") \in 0..1
    BY DEF Adds
  <2>3. m + Waiting(x)' <= SessionBound(x, h)'
    BY <1>2, <1>3, <2>1, <2>2
  <2>4. QED
    BY <2>3 DEF m
<1>5. CASE x # c
  <2>1. Waiting(x)' = Waiting(x)
    BY <1>1, <1>5 DEF Waiting
  <2>2. m + Waiting(x)' <= SessionBound(x, h)'
    BY <1>2, <1>3, <1>5, <2>1
  <2>3. QED
    BY <2>2 DEF m
<1>6. QED
  BY <1>4, <1>5

\* allow logs an accepted call as an entry that was not there.
LEMMA AllowNumbered ==
  ASSUME Types, Numbered, NEW c \in Callers, allow(c)
  PROVE  /\ Numbered'
         /\ Accepts(c) => Record(c, call[c].kind) \notin log
<1> DEFINE k == call[c].kind
           new == Record(c, k)
<1>1. log' = IF Accepts(c) THEN log \cup {new} ELSE log
  BY AllowMeans, Zenon
<1>2. /\ k \in Kinds /\ new.caller = c /\ new.kind = k /\ new.age = 0
      /\ new.number = Cardinality(Now(c, k)) + 1
  BY AllowValues, RecordIs
<1>3. \A r \in log : r.number \in Nat
  BY DEF Types, Records
<1>4. \A x, j : IsFiniteSet(Now(x, j)) /\ Cardinality(Now(x, j)) \in Nat
  BY NowType
<1> HIDE DEF new
<1>5. new \notin log
  <2>1. new \in log => new.number <= Cardinality(Now(c, k))
    BY <1>2, Zenon DEF Numbered
  <2>2. QED
    BY <1>2, <1>4, <2>1
<1>6. CASE Accepts(c)
  <2> SUFFICES ASSUME NEW r \in log', r.age = 0
               PROVE  r.number <= Cardinality(Now(r.caller, r.kind)')
    BY <1>5, Zenon DEF Numbered, new
  <2>1. CASE r.caller = c /\ r.kind = k
    <3>1. Now(r.caller, r.kind)' = Now(c, k) \cup {new}
      BY <1>1, <1>2, <1>6, <2>1, Zenon DEF Now
    <3>2. new \notin Now(c, k)
      BY <1>5 DEF Now
    <3>3. Cardinality(Now(r.caller, r.kind)') = Cardinality(Now(c, k)) + 1
      BY <1>4, <3>1, <3>2, FS_AddElement
    <3>4. r \in log => r.number <= Cardinality(Now(c, k))
      BY <2>1, Zenon DEF Numbered
    <3>5. r = new \/ r \in log
      BY <1>1, <1>6
    <3>6. QED
      BY <1>2, <1>3, <1>4, <3>3, <3>4, <3>5
  <2>2. CASE ~(r.caller = c /\ r.kind = k)
    <3>1. r \in log
      BY <1>1, <1>2, <1>6, <2>2
    <3>2. Now(r.caller, r.kind)' = Now(r.caller, r.kind)
      BY <1>1, <1>2, <1>6, <2>2, Zenon DEF Now
    <3>3. QED
      BY <3>1, <3>2, Zenon DEF Numbered
  <2>3. QED
    BY <2>1, <2>2
<1>7. CASE ~Accepts(c)
  <2>1. log' = log
    BY <1>1, <1>7
  <2>2. Numbered'
    BY <2>1, Zenon DEF Numbered, Now
  <2>3. QED
    BY <1>7, <2>2
<1>8. QED
  BY <1>6, <1>7

\* The calls charged to a tenant.
LEMMA InCharged ==
  ASSUME NEW k, NEW p
  PROVE  p \in Charged(k) <=>
           \E t \in DOMAIN principals : \E i \in 1..principals[t].count[k] : p = <<t, i>>
BY DEF Charged

\* The clock keeps what is charged.
LEMMA TickShares ==
  ASSUME Types, Shares, tick
  PROVE  Shares'
<1>1. principals' = [t \in DOMAIN principals |-> Aged(principals[t])] /\ window' = Aged(window)
  BY Zenon DEF tick
<1>2. /\ DOMAIN principals' = DOMAIN principals
      /\ \A t \in DOMAIN principals : principals'[t].count = principals[t].count
      /\ window'.count = window.count
  BY <1>1, AgedCounters, Zenon DEF Types
<1>3. \A k : Charged(k)' = Charged(k)
  BY <1>2, Zenon DEF Charged
<1>4. QED
  BY <1>2, <1>3, Zenon DEF Shares, PrincipalsWithinGlobal

\* allow charges a principal and the process alike, and enters a principal only
\* where there is room.
LEMMA AllowShares ==
  ASSUME Types, Shares, NEW c \in Callers, allow(c)
  PROVE  Shares'
<1> DEFINE t == tenant_of[c]
           max == max_rate_limit_principals
<1>1. /\ Refuses(c) => principals' = Held(c)
      /\ ~Refuses(c) =>
           /\ DOMAIN principals' = DOMAIN Held(c) \cup {t}
           /\ \A x \in DOMAIN Held(c) \ {t} : principals'[x] = Held(c)[x]
           /\ \A k \in Kinds : principals'[t].count[k] = Enters(c).count[k] + Adds(c, k)
  BY AllowMeans, Zenon
<1>2. \A k \in Kinds : Adds(c, k) \in 0..1 /\ (Refuses(c) => Adds(c, k) = 0)
  BY DEF Adds, Accepts
<1>3. /\ IsFiniteSet(DOMAIN principals) /\ Cardinality(DOMAIN principals) <= max
      /\ \A k \in Kinds : IsFiniteSet(Charged(k)) /\ Cardinality(Charged(k)) <= window.count[k]
  BY Zenon DEF Shares, PrincipalsWithinGlobal
<1>4. max \in Nat /\ max # 0
  BY Constants
<1>5. \/ /\ Held(c) = principals /\ window.window_started # Second
         /\ \A k \in Kinds : window'.count[k] = window.count[k] + Adds(c, k)
      \/ /\ Held(c) = NoPrincipals /\ window.window_started = Second
         /\ \A k \in Kinds : window'.count[k] = Adds(c, k)
  <2>1. Second \in 1..Second /\ Kinds # {}
    BY Constants
  <2>2. \A k \in Kinds :
          \/ /\ Held(c) = principals /\ window.window_started # Second
             /\ window'.count[k] = window.count[k] + Adds(c, k)
          \/ /\ Held(c) = NoPrincipals /\ window.window_started = Second
             /\ window'.count[k] = Adds(c, k)
    BY <2>1, AllowWindow, Zenon
  <2>3. QED
    BY <2>1, <2>2, Zenon
<1>6. DOMAIN NoPrincipals = {}
  BY DEF NoPrincipals
<1>7. /\ IsFiniteSet(DOMAIN Held(c))
      /\ Cardinality(DOMAIN Held(c)) \in Nat /\ Cardinality(DOMAIN Held(c)) <= max
  BY <1>3, <1>4, <1>5, <1>6, FS_EmptySet, FS_CardinalityType
<1>8. IsFiniteSet(DOMAIN principals') /\ Cardinality(DOMAIN principals') <= max
  <2>1. CASE Refuses(c)
    BY <1>1, <1>7, <2>1
  <2>2. CASE ~Refuses(c)
    <3>1. t \in DOMAIN Held(c) \/ Cardinality(DOMAIN Held(c)) < max
      BY <1>4, <1>7, <2>2 DEF Refuses, Full
    <3>2. QED
      BY <1>1, <1>4, <1>7, <2>2, <3>1, FS_AddElement
  <2>3. QED
    BY <2>1, <2>2
<1>9. ASSUME NEW k \in Kinds
      PROVE  IsFiniteSet(Charged(k)') /\ Cardinality(Charged(k)') <= window'.count[k]
  <2> DEFINE S == IF window.window_started # Second THEN Charged(k) ELSE {}
             last == <<t, Enters(c).count[k] + 1>>
             T == IF Adds(c, k) = 1 THEN S \cup {last} ELSE S
  <2>1. \A x \in DOMAIN Held(c) : \A i \in 1..Held(c)[x].count[k] : <<x, i>> \in S
    BY <1>5, <1>6, InCharged
  <2>2. Enters(c).count[k] \in Nat
    <3>1. Enters(c) \in Counters(principal_limit)
      BY AllowValues
    <3>2. QED
      BY <3>1 DEF Counters
  <2>3. (t \in DOMAIN Held(c) /\ Enters(c) = Held(c)[t]) \/ Enters(c).count[k] = 0
    <3>1. Counting(call[c].now).count[k] = 0
      BY DEF Counting, None
    <3>2. QED
      BY <3>1, Zenon DEF Enters, Entry
  <2>4. ASSUME NEW p \in Charged(k)' PROVE p \in T
    <3>0. PICK x \in DOMAIN principals' : \E i \in 1..principals'[x].count[k] : p = <<x, i>>
      BY DEF Charged
    <3>1. PICK i \in 1..principals'[x].count[k] : p = <<x, i>>
      BY <3>0
    <3>2. CASE Refuses(c) \/ x # t
      <4>1. x \in DOMAIN Held(c) /\ i \in 1..Held(c)[x].count[k]
        BY <1>1, <3>1, <3>2, Zenon
      <4>2. QED
        BY <2>1, <3>1, <4>1
    <3>3. CASE ~Refuses(c) /\ x = t
      <4>1. i \in 1..(Enters(c).count[k] + Adds(c, k))
        BY <1>1, <3>1, <3>3, Zenon
      <4>2. i \in 1..Enters(c).count[k] \/ (i = Enters(c).count[k] + 1 /\ Adds(c, k) = 1)
        BY <1>2, <2>2, <4>1
      <4>3. CASE i \in 1..Enters(c).count[k]
        <5>1. t \in DOMAIN Held(c) /\ i \in 1..Held(c)[t].count[k]
          BY <2>2, <2>3, <4>3
        <5>2. QED
          BY <2>1, <3>1, <3>3, <5>1
      <4>4. QED
        BY <3>1, <3>3, <4>2, <4>3
    <3>4. QED
      BY <3>2, <3>3
  <2>5. IsFiniteSet(S) /\ Cardinality(S) \in Nat
    BY <1>3, FS_EmptySet, FS_CardinalityType
  <2>6. Cardinality(S) + Adds(c, k) <= window'.count[k] /\ window'.count[k] \in Nat
    <3>1. window.count[k] \in Nat
      BY CounterTypes
    <3>2. Cardinality(S) <= IF window.window_started # Second THEN window.count[k] ELSE 0
      BY <1>3, FS_EmptySet
    <3> HIDE DEF S
    <3>3. QED
      BY <1>2, <1>5, <2>5, <3>1, <3>2
  <2>7. IsFiniteSet(T) /\ Cardinality(T) \in Nat /\ Cardinality(T) <= Cardinality(S) + Adds(c, k)
    <3> HIDE DEF S, last
    <3>1. T \subseteq S \cup {last} /\ (Adds(c, k) = 0 => T = S)
      OBVIOUS
    <3> HIDE DEF T
    <3>2. Adds(c, k) = 0 \/ Adds(c, k) = 1
      BY <1>2
    <3>3. QED
      BY <2>5, <3>1, <3>2, OneMore
  <2>8. Charged(k)' \subseteq T
    BY <2>4
  <2> HIDE DEF S, T
  <2>9. /\ IsFiniteSet(Charged(k)')
        /\ Cardinality(Charged(k)') \in Nat
        /\ Cardinality(Charged(k)') <= Cardinality(T)
    BY <2>7, <2>8, Fewer
  <2>10. QED
    BY <1>2, <2>5, <2>6, <2>7, <2>9
<1>10. QED
  BY <1>8, <1>9, Zenon DEF Shares, PrincipalsWithinGlobal

-----------------------------------------------------------------------------
(* The theorems                                                            *)

\* AbuseLimiter::new and fresh sessions.
LEMMA Initially == Init => IInv
<1> SUFFICES ASSUME Init PROVE IInv
  OBVIOUS
<1>1. /\ window = Counting(0) /\ principals = NoPrincipals /\ log = {}
      /\ session = [c \in WebSockets |-> [window_started |-> 0, accepted |-> 0]]
      /\ pc = [c \in Callers |-> "idle"]
      /\ call = [c \in Callers |-> [kind |-> CHOOSE k \in Kinds : TRUE, now |-> 0]]
  BY DEF Init
<1>2. /\ 0 \in 0..Second
      /\ 0 \in 0..ws_max_commands_per_second
      /\ (CHOOSE k \in Kinds : TRUE) \in Kinds
  BY Constants
<1>3. Types
  <2>1. window \in Counters(global_limit)
    BY <1>1, <1>2, CountingType, Constants
  <2>2. principals \in [DOMAIN principals -> Counters(principal_limit)]
    BY <1>1 DEF NoPrincipals
  <2>3. /\ session \in [WebSockets -> SessionLimiters]
        /\ pc \in [Callers -> {"idle", "locking"}]
        /\ call \in [Callers -> WaitingCalls]
    BY <1>1, <1>2
  <2>4. log \subseteq Records /\ IsFiniteSet(log)
    BY <1>1, FS_EmptySet
  <2>5. QED
    BY <2>1, <2>2, <2>3, <2>4, Zenon DEF Types
<1>4. \A C, k, h : Recent(C, k, h) = {}
  BY <1>1 DEF Recent
<1>5. GlobalRate /\ TenantRate
  BY <1>4, Zenon DEF GlobalRate, TenantRate, Within
<1>6. SessionRate
  <2>1. \A c \in WebSockets : pc[c] = "idle"
    BY <1>1, Constants
  <2>2. \A c \in WebSockets : Waiting(c) = 0
    BY <2>1 DEF Waiting
  <2>3. \A c \in WebSockets, h \in 0..Second : SessionBound(c, h) >= 0
    BY <1>1, Constants DEF SessionBound
  <2>4. Cardinality({}) = 0
    BY FS_EmptySet
  <2>5. QED
    BY <1>4, <2>2, <2>3, <2>4 DEF SessionRate
<1>7. Numbered
  BY <1>1, Zenon DEF Numbered
<1>8. Shares
  <2>1. DOMAIN principals = {}
    BY <1>1 DEF NoPrincipals
  <2>2. \A k : Charged(k) = {}
    BY <2>1, InCharged
  <2>3. \A k \in Kinds : window.count[k] = 0
    BY <1>1 DEF Counting, None
  <2>4. IsFiniteSet({}) /\ Cardinality({}) = 0
    BY FS_EmptySet
  <2>5. /\ IsFiniteSet(DOMAIN principals)
        /\ Cardinality(DOMAIN principals) <= max_rate_limit_principals
        /\ \A k \in Kinds : IsFiniteSet(Charged(k)) /\ Cardinality(Charged(k)) <= window.count[k]
    <3>1. Cardinality(DOMAIN principals) = 0 /\ IsFiniteSet(DOMAIN principals)
      BY <2>1, <2>4, Zenon
    <3>2. \A k \in Kinds : Cardinality(Charged(k)) = 0 /\ IsFiniteSet(Charged(k))
      BY <2>2, <2>4, Zenon
    <3>3. QED
      BY <2>3, <3>1, <3>2, Constants
  <2>6. QED
    BY <2>5, Zenon DEF Shares, PrincipalsWithinGlobal
<1>9. QED
  BY <1>3, <1>5, <1>6, <1>7, <1>8, Zenon DEF IInv

\* AbuseLimiter::allow keeps the invariant.
LEMMA Allow ==
  ASSUME IInv, NEW c \in Callers, allow(c)
  PROVE  IInv'
<1>1. Types /\ GlobalRate /\ TenantRate /\ SessionRate /\ Numbered /\ Shares
  BY Zenon DEF IInv
<1>2. QED
  BY <1>1, AllowTypes, AllowGlobal, AllowTenant, AllowSession, AllowNumbered, AllowShares,
     Zenon DEF IInv

\* The clock keeps the invariant.
LEMMA Tick ==
  ASSUME IInv, tick
  PROVE  IInv'
<1>1. Types /\ GlobalRate /\ TenantRate /\ SessionRate /\ Numbered /\ Shares
  BY Zenon DEF IInv
<1>2. QED
  BY <1>1, TickTypes, TickGlobal, TickTenant, TickSession, TickNumbered, TickShares, Zenon DEF IInv

\* So does a step that changes nothing.
LEMMA Stutters ==
  ASSUME IInv, UNCHANGED vars
  PROVE  IInv'
<1>1. /\ window' = window /\ principals' = principals /\ session' = session
      /\ pc' = pc /\ call' = call /\ log' = log
  BY DEF vars, rateVars
<1>2. /\ \A C, k, h : Recent(C, k, h)' = Recent(C, k, h)
      /\ \A k, h : GlobalBound(k, h)' = GlobalBound(k, h)
      /\ \A t, k, h : TenantBound(t, k, h)' = TenantBound(t, k, h)
      /\ \A c, h : SessionBound(c, h)' = SessionBound(c, h)
      /\ \A c : Waiting(c)' = Waiting(c)
  BY <1>1, Zenon
     DEF Recent, GlobalBound, TenantBound, SessionBound, Waiting, InTime, Late, Young, Ahead, Used
<1>3. Types'
  BY <1>1, Zenon DEF IInv, Types
<1>4. Numbered' /\ Shares'
  BY <1>1, Zenon DEF IInv, Numbered, Now, Shares, PrincipalsWithinGlobal, Charged
<1>5. GlobalRate' /\ TenantRate' /\ SessionRate'
  BY <1>2, Zenon DEF IInv, GlobalRate, TenantRate, SessionRate, Within, Of
<1>6. QED
  BY <1>3, <1>4, <1>5, Zenon DEF IInv

\* The invariant of the rate limits, in every state of every behaviour.
THEOREM LimiterInvariant == Spec => []IInv
<1>1. Init => IInv
  BY Initially
<1>2. IInv /\ [Next]_vars => IInv'
  BY Tick, Request, WsCommand, Allow, Stutters, Zenon DEF Next
<1>3. QED
  BY <1>1, <1>2, PTL DEF Spec

\* For every number of callers, tenants and entries of the table, a principal and
\* the process are charged for the same calls, and the table keeps its size
\* (AbuseLimiter::allow).
THEOREM PrincipalsAreWithinGlobal == Spec => []PrincipalsWithinGlobal
<1>1. IInv => PrincipalsWithinGlobal
  BY Zenon DEF IInv, Shares
<1>2. QED
  BY <1>1, LimiterInvariant, PTL

\* The bounds for a horizon of a second.
LEMMA Concludes == IInv => RatesBounded
<1> SUFFICES ASSUME IInv PROVE RatesBounded
  OBVIOUS
<1>1. Types /\ GlobalRate /\ TenantRate /\ SessionRate
  BY Zenon DEF IInv
<1>2. \A C, k : Accepted(C, k) = Cardinality(Recent(C, k, Second))
  <2>1. \A r \in log : r.age < Second
    BY <1>1, Constants DEF Types, Records
  <2>2. \A C, k : {r \in log : r.caller \in C /\ r.kind = k} = Recent(C, k, Second)
    BY <2>1, Zenon DEF Recent
  <2>3. QED
    BY <2>2, Zenon DEF Accepted
<1>3. Second \in 1..Second /\ Second \in 0..Second
  BY Constants
<1>4. ASSUME NEW S, NEW n \in Nat, NEW m \in Int, NEW L \in Nat, NEW x \in Nat,
             IsFiniteSet(S), Within(S, m * L + x), m <= n, x <= L
      PROVE  Cardinality(S) <= (n + 1) * L
  <2>1. m * L \in Int /\ n * L \in Int /\ m * L <= n * L /\ 0 * L <= n * L
    BY <1>4, Multiples
  <2>2. (n + 1) * L = n * L + L
    BY NextMultiple
  <2>3. Cardinality(S) \in Nat /\ (Cardinality(S) = 0 <=> S = {})
    BY <1>4, FS_CardinalityType, FS_EmptySet
  <2>4. Cardinality(S) = 0 \/ Cardinality(S) <= m * L + x
    BY <1>4, <2>3 DEF Within
  <2>5. QED
    BY <1>4, <2>1, <2>2, <2>3, <2>4
<1> DEFINE N == Cardinality(Callers)
           u == InTime(Second)
           f == Young(Second)
<1>5. N \in Nat /\ u \in Nat /\ u <= N /\ f \in 0..1
  BY <1>1, InTimeType, RateTypes
<1>6. ASSUME NEW k \in Kinds PROVE Accepted(Callers, k) <= (N + 1) * global_limit[k]
  <2>1. Within(Recent(Callers, k, Second), (u + f - 1) * global_limit[k] + window.count[k])
    BY <1>1, <1>3, Zenon DEF GlobalRate, GlobalBound
  <2>2. global_limit[k] \in Nat /\ window.count[k] \in Nat /\ window.count[k] <= global_limit[k]
    BY <1>1, Constants, CounterTypes
  <2>3. IsFiniteSet(Recent(Callers, k, Second))
    BY <1>1, RateTypes
  <2> HIDE DEF N, u, f
  <2>4. u + f - 1 \in Int /\ u + f - 1 <= N
    BY <1>5
  <2>5. Cardinality(Recent(Callers, k, Second)) <= (N + 1) * global_limit[k]
    BY <1>4, <1>5, <2>1, <2>2, <2>3, <2>4
  <2>6. QED
    BY <1>2, <2>5, Zenon
<1>7. ASSUME NEW t \in Tenants, NEW k \in Kinds
      PROVE  Accepted({c \in Callers : tenant_of[c] = t}, k) <= (N + 2) * principal_limit[k]
  <2> DEFINE g == Ahead(t, Second)
             x == Used(t, k)
  <2>1. Within(Recent(Of(t), k, Second), (u + f - g) * principal_limit[k] + x)
    BY <1>1, <1>3, Zenon DEF TenantRate, TenantBound
  <2>2. principal_limit[k] \in Nat /\ x \in Nat /\ x <= principal_limit[k] /\ g \in 0..1
    BY <1>1, Constants, RateTypes
  <2>3. IsFiniteSet(Recent(Of(t), k, Second))
    BY <1>1, RateTypes
  <2> HIDE DEF N, u, f, g, x
  <2>4. u + f - g \in Int /\ u + f - g <= N + 1 /\ N + 1 \in Nat /\ N + 1 + 1 = N + 2
    BY <1>5, <2>2
  <2>5. Cardinality(Recent(Of(t), k, Second)) <= (N + 1 + 1) * principal_limit[k]
    BY <1>4, <2>1, <2>2, <2>3, <2>4
  <2>6. QED
    BY <1>2, <2>4, <2>5, Zenon DEF Of
<1>8. ASSUME NEW c \in WebSockets PROVE Accepted({c}, "Command") <= 2 * ws_max_commands_per_second
  <2>1. Cardinality(Recent({c}, "Command", Second)) + Waiting(c) <= SessionBound(c, Second)
    BY <1>1, <1>3, Zenon DEF SessionRate
  <2>2. Cardinality(Recent({c}, "Command", Second)) \in Nat
    BY <1>1, RateTypes
  <2>3. Cardinality(Recent({c}, "Command", Second)) <= 2 * ws_max_commands_per_second
    BY <1>1, <2>1, <2>2, SessionTypes, Constants DEF SessionBound
  <2>4. QED
    BY <1>2, <2>3
<1>9. QED
  BY <1>6, <1>7, <1>8, Zenon DEF RatesBounded

\* For every number of callers and every limit, the rates that the limiters let
\* through within a second when callers wait for the mutex with a stale clock
\* reading (AbuseLimiter::allow, CommandRateLimiter::allow).
THEOREM RatesAreBounded == Spec => []RatesBounded
BY Concludes, LimiterInvariant, PTL

\* A call that allow accepts is an entry of its own: the bounds count calls.
THEOREM EveryCallIsLogged ==
  Spec => [][\A c \in Callers :
               allow(c) /\ Accepts(c) => Record(c, call[c].kind) \in log' \ log]_vars
<1>1. ASSUME IInv, NEW c \in Callers, allow(c), Accepts(c)
      PROVE  Record(c, call[c].kind) \in log' \ log
  <2>1. Types /\ Numbered
    BY <1>1, Zenon DEF IInv
  <2>2. log' = log \cup {Record(c, call[c].kind)} /\ Record(c, call[c].kind) \notin log
    BY <1>1, <2>1, AllowMeans, AllowNumbered, Zenon
  <2>3. QED
    BY <2>2
<1>2. IInv => \A c \in Callers : allow(c) /\ Accepts(c) => Record(c, call[c].kind) \in log' \ log
  BY <1>1
<1>3. QED
  BY <1>2, LimiterInvariant, PTL

=============================================================================
