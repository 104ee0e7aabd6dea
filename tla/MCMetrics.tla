------------------------------ MODULE MCMetrics ------------------------------
(* A small instance of the counters: two recorders, two finite buckets.      *)
EXTENDS Metrics, TLC

CONSTANTS r1, r2

MCBuckets == <<"le_10", "le_50">>

MCBounds == <<10, 50>>

\* On a bound and above the last one.
MCDurations == {10, 51}

MCSymmetry == Permutations({r1, r2})
=============================================================================
