------------------------------ MODULE Readiness ------------------------------
(***************************************************************************)
(* ReadinessHysteresis (routerd/src/readiness.rs): readiness follows Kafka *)
(* health through numbers of consecutive checks.  The counters saturate at *)
(* u32::MAX.                                                               *)
(***************************************************************************)
EXTENDS Integers

CONSTANTS
  success_threshold,
  failure_threshold,
  U32Max              \* largest value of a counter

ASSUME ReadinessAssumption ==
  /\ U32Max \in Nat
  /\ success_threshold \in 1..U32Max
  /\ failure_threshold \in 1..U32Max

\* ReadinessHysteresis::new.
new == [ready |-> FALSE, successes |-> 0, failures |-> 0]

saturating_add(n) == IF n < U32Max THEN n + 1 ELSE U32Max

\* Mutant: the series starts anew at every check.
ObserveLast(h, healthy) ==
  [ready |-> IF healthy THEN h.ready \/ 1 >= success_threshold
                        ELSE h.ready /\ 1 < failure_threshold,
   successes |-> IF healthy THEN 1 ELSE 0,
   failures |-> IF healthy THEN 0 ELSE 1]

observe(h, healthy) ==
  IF healthy
    THEN [ready |-> h.ready \/ saturating_add(h.successes) >= success_threshold,
          successes |-> saturating_add(h.successes),
          failures |-> 0]
    ELSE [ready |-> h.ready /\ saturating_add(h.failures) < failure_threshold,
          successes |-> 0,
          failures |-> saturating_add(h.failures)]

=============================================================================
