--------------------------- MODULE MCAbuseLimiter ---------------------------
(***************************************************************************)
(* Three callers of three tenants, one of them with a WebSocket, and a     *)
(* table with room for two.  Four ticks to a second are what it takes for  *)
(* every caller to be late in turn: a tenant then gets its limit the five  *)
(* times that RatesBounded allows.                                         *)
(***************************************************************************)
EXTENDS AbuseLimiter, TLC

CONSTANTS a, b, c, t1, t2, t3

ThreeTenants == [x \in Callers |-> IF x = a THEN t1 ELSE IF x = b THEN t2 ELSE t3]
GlobalLimit == [k \in Kinds |-> 3]
PrincipalLimit == [k \in Kinds |-> 1]

\* The callers without a WebSocket change places, and their tenants with them.
MCSymmetry ==
  {f \in Permutations({b, c, t2, t3}) :
     {f[b], f[c]} = {b, c} /\ (f[b] = b <=> f[t2] = t2)}

=============================================================================
