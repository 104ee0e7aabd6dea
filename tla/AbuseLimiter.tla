---------------------------- MODULE AbuseLimiter ----------------------------
(***************************************************************************)
(* The fixed-window rate limits: AbuseLimiter (router-api/src/state.rs),   *)
(* shared by every request, and CommandRateLimiter (router-api/src/http.rs)*)
(* of one WebSocket session.                                               *)
(*                                                                         *)
(* An Instant is kept as its age in clock ticks.  The code only asks       *)
(* whether an instant is at least a second old, so ages stop at Second and *)
(* time has no bound.  allow reads the clock before it takes the mutex:    *)
(* the instant it stores may be older than what others stored meanwhile.   *)
(***************************************************************************)
EXTENDS Integers, FiniteSets

CONSTANTS
  Kinds,                      \* RateKind: "Command" and "Publish"
  Callers,                    \* sessions and requests at work
  Tenants,
  tenant_of,                  \* caller -> tenant of its principal
  WebSockets,                 \* callers with a CommandRateLimiter of their own
  ws_max_commands_per_second,
  global_limit,               \* kind -> limit
  principal_limit,
  max_rate_limit_principals,
  Second                      \* clock ticks in a second

ASSUME LimiterAssumption ==
  /\ Kinds # {} /\ Kinds \subseteq {"Command", "Publish"}
  /\ IsFiniteSet(Callers)
  /\ tenant_of \in [Callers -> Tenants]
  /\ WebSockets \subseteq Callers
  /\ WebSockets # {} => "Command" \in Kinds
  /\ ws_max_commands_per_second \in Nat \ {0}
  /\ global_limit \in [Kinds -> Nat \ {0}]
  /\ principal_limit \in [Kinds -> Nat \ {0}]
  /\ max_rate_limit_principals \in Nat \ {0}
  /\ Second \in Nat \ {0}

VARIABLES
  window,       \* RateState: window_started and the counters
  principals,   \* RateState::principals, a function on the tenants it holds
  session,      \* WebSocket -> its CommandRateLimiter
  pc,           \* caller -> "idle" or "locking"
  call,         \* caller -> kind and clock reading of its call
  log           \* history: the calls accepted within the last second

rateVars == <<window, principals>>
vars == <<rateVars, session, pc, call, log>>

-----------------------------------------------------------------------------
None == [k \in Kinds |-> 0]

Counting(started) == [window_started |-> started, count |-> None]

NoPrincipals == [t \in {} |-> Counting(0)]

Init ==
  /\ window = Counting(0)
  /\ principals = NoPrincipals
  /\ session = [c \in WebSockets |-> [window_started |-> 0, accepted |-> 0]]
  /\ pc = [c \in Callers |-> "idle"]
  /\ call = [c \in Callers |-> [kind |-> CHOOSE k \in Kinds : TRUE, now |-> 0]]
  /\ log = {}

Older(age) == IF age < Second THEN age + 1 ELSE Second

Aged(counters) == [counters EXCEPT !.window_started = Older(@)]

tick ==
  /\ window' = Aged(window)
  /\ principals' = [t \in DOMAIN principals |-> Aged(principals[t])]
  /\ session' = [c \in WebSockets |-> Aged(session[c])]
  /\ call' = [c \in Callers |-> [call[c] EXCEPT !.now = Older(@)]]
  /\ log' = {[r EXCEPT !.age = @ + 1] : r \in {r \in log : r.age + 1 < Second}}
  /\ UNCHANGED pc

\* window_started.elapsed() >= Duration::from_secs(1)
Elapsed(started) == started >= Second

\* The first line of AbuseLimiter::allow.
Calls(c, kind) ==
  /\ pc' = [pc EXCEPT ![c] = "locking"]
  /\ call' = [call EXCEPT ![c] = [kind |-> kind, now |-> 0]]

\* A publication, or a command of a gRPC stream.
request(c, kind) ==
  /\ pc[c] = "idle"
  /\ kind = "Publish" \/ c \notin WebSockets
  /\ Calls(c, kind)
  /\ UNCHANGED <<rateVars, session, log>>

\* CommandRateLimiter::allow, first half: a window that is over is restarted.
Renewed(limiter) ==
  IF Elapsed(limiter.window_started) THEN [window_started |-> 0, accepted |-> 0] ELSE limiter

\* A WebSocket command: the session's limiter goes first, and a command it
\* refuses does not reach the shared one.
ws_command(c) ==
  LET limiter == Renewed(session[c])
      allowed == limiter.accepted < ws_max_commands_per_second
  IN /\ pc[c] = "idle"
     /\ session' = [session EXCEPT ![c] =
                      IF allowed THEN [limiter EXCEPT !.accepted = @ + 1] ELSE limiter]
     /\ IF allowed THEN Calls(c, "Command") ELSE UNCHANGED <<pc, call>>
     /\ UNCHANGED <<rateVars, log>>

-----------------------------------------------------------------------------
(* AbuseLimiter::allow under the mutex                                     *)

\* A call that is accepted now.  Its number tells it from the others of the
\* caller in the same tick.
Record(c, kind) ==
  [caller |-> c, kind |-> kind, age |-> 0,
   number |-> Cardinality({r \in log : r.caller = c /\ r.kind = kind /\ r.age = 0}) + 1]

\* Mutant: the principals outlive the window.
WindowKeepsPrincipals(now) ==
  IF Elapsed(window.window_started)
    THEN [global |-> Counting(now), principals |-> principals]
    ELSE [global |-> window, principals |-> principals]

\* Mutant: the counters are reset, the start of the window is not.
WindowInPlace(now) ==
  IF Elapsed(window.window_started)
    THEN [global |-> Counting(window.window_started), principals |-> NoPrincipals]
    ELSE [global |-> window, principals |-> principals]

\* The window the call falls into; a new one forgets every principal.
RateWindow(now) ==
  IF Elapsed(window.window_started)
    THEN [global |-> Counting(now), principals |-> NoPrincipals]
    ELSE [global |-> window, principals |-> principals]

\* The tenant's entry: inserted if it is new, restarted if it is old.
Entry(held, tenant, now) ==
  IF tenant \notin DOMAIN held \/ Elapsed(held[tenant].window_started)
    THEN Counting(now) ELSE held[tenant]

\* The table of principals has no room for the tenant.
Full(held, tenant) ==
  tenant \notin DOMAIN held /\ Cardinality(DOMAIN held) >= max_rate_limit_principals

With(held, tenant, entry) ==
  [t \in DOMAIN held \cup {tenant} |-> IF t = tenant THEN entry ELSE held[t]]

allow(c) ==
  LET kind == call[c].kind
      now == call[c].now
      tenant == tenant_of[c]
      current == RateWindow(now)
      held == current.principals
      refused == current.global.count[kind] >= global_limit[kind] \/ Full(held, tenant)
      entry == Entry(held, tenant, now)
      accepted == ~refused /\ entry.count[kind] < principal_limit[kind]
      Counted(counters) ==
        IF accepted THEN [counters EXCEPT !.count[kind] = @ + 1] ELSE counters
  IN /\ pc[c] = "locking"
     /\ pc' = [pc EXCEPT ![c] = "idle"]
     /\ window' = Counted(current.global)
     /\ principals' = IF refused THEN held ELSE With(held, tenant, Counted(entry))
     /\ log' = IF accepted THEN log \cup {Record(c, kind)} ELSE log
     /\ UNCHANGED <<session, call>>

-----------------------------------------------------------------------------
Next ==
  \/ tick
  \/ \E c \in Callers, kind \in Kinds : request(c, kind)
  \/ \E c \in WebSockets : ws_command(c)
  \/ \E c \in Callers : allow(c)

Spec == Init /\ [][Next]_vars

-----------------------------------------------------------------------------
(* Properties                                                              *)

\* How many calls of a kind the callers in C had accepted within the last second.
Accepted(C, k) == Cardinality({r \in log : r.caller \in C /\ r.kind = k})

\* The calls of a kind that the principals' counters stand for.
Charged(k) == UNION {{t} \X (1..principals[t].count[k]) : t \in DOMAIN principals}

\* What the principals have used is part of what the process has used: neither
\* limit is charged for a call the other refused, and no principal carries its
\* use over into a new window, although the table of principals has no room for
\* all of them.  (allow counts both or neither; max_rate_limit_principals:
\* "Maximum principal counters retained".)
PrincipalsWithinGlobal ==
  /\ Cardinality(DOMAIN principals) <= max_rate_limit_principals
  /\ \A k \in Kinds : Cardinality(Charged(k)) <= window.count[k]

\* Two fixed windows meet in a second at most, so no second sees more calls
\* accepted than twice the limit.  (ApiConfig: "Maximum protocol commands accepted
\* process-wide per second", by "the fixed-window limiter".)
FixedWindowRate == \A k \in Kinds : Accepted(Callers, k) <= 2 * global_limit[k]

\* However late the callers take the mutex, no second sees more calls accepted
\* than one limit for each caller and one more: a window that starts with a stale
\* time ends early, but only once for each caller that was waiting.  For a tenant
\* it is one limit more again, since its window ends with its own second or with
\* the global one's, and they start at different times.  A WebSocket's own limiter
\* waits for nobody and has at most two windows in a second.  (AbuseLimiter::allow,
\* what is left of FixedWindowRate when calls wait for the mutex;
\* CommandRateLimiter.)
RatesBounded ==
  /\ \A k \in Kinds :
       /\ Accepted(Callers, k) <= (Cardinality(Callers) + 1) * global_limit[k]
       /\ \A tenant \in Tenants :
            Accepted({c \in Callers : tenant_of[c] = tenant}, k)
              <= (Cardinality(Callers) + 2) * principal_limit[k]
  /\ \A c \in WebSockets : Accepted({c}, "Command") <= 2 * ws_max_commands_per_second

=============================================================================
