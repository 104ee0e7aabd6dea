------------------------------- MODULE MCRouter -------------------------------
(***************************************************************************)
(* Small instances of the routing core.  Only the tenant and two           *)
(* dimensions vary: RouteMatching covers the rest of the key.              *)
(***************************************************************************)
EXTENDS Router, TLC

CONSTANTS t1, t2, a, b, c1, c2, s1, s2

\* A filter or metadata with the given kind and channel and nothing else.
Dims(tn, kind, channel) ==
  [tenant_id |-> tn, kind |-> kind, message_type |-> None,
   channel |-> channel, actor_id |-> None,
   recipient_type |-> None, recipient_identity |-> None]

\* A wildcard filter, an exact one and an invalid one, and a message that both
\* valid ones match under different keys.  The other tenant has a filter that
\* differs in the tenant only.
IndexFilters ==
  {Dims(t1, None, None), Dims(t1, a, None), Dims(t1, Invalid, None), Dims(t2, None, None)}

IndexMessages == {Dims(t1, a, None)}

\* One filter and one message, for the run about evictions.
OneFilter == {Dims(t1, None, None)}

OneMessage == {Dims(t1, None, None)}

MCSymmetry == Permutations(ConnectionIds) \cup Permutations(SubscriptionIds)

=============================================================================
