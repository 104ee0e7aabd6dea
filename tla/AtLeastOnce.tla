----------------------------- MODULE AtLeastOnce -----------------------------
(***************************************************************************)
(* What the ingestor and the durable webhooks promise together             *)
(* (docs/adr/0005): every durable delivery of a record is accepted before  *)
(* the record is acknowledged, and only what is accepted gets an outcome,  *)
(* a 2xx answer or a dead letter.                                          *)
(*                                                                         *)
(* A delivery is <<r, d>>: the record at r for destination d.  A record    *)
(* that must not be passed over is demanded by somebody who is none of the *)
(* destinations.  The acknowledgement of a partition is the offset of the  *)
(* last record acknowledged; it may fall back and never gets ahead.        *)
(***************************************************************************)
EXTENDS Integers, Sequences

CONSTANTS Partitions, Destinations

VARIABLES
  demand,        \* partition -> for each of its records, who is to get it
  accepted,      \* deliveries that are written down
  settled,       \* deliveries that have an outcome
  acknowledged   \* partition -> offset

abstractVars == <<demand, accepted, settled, acknowledged>>

Place(p, o) == [partition |-> p, offset |-> o]

Init ==
  /\ accepted = {}
  /\ settled = {}
  /\ acknowledged = [p \in Partitions |-> 0]

Accept(p, o, d) ==
  /\ d \in demand[p][o]
  /\ accepted' = accepted \cup {<<Place(p, o), d>>}
  /\ UNCHANGED <<demand, settled, acknowledged>>

Settle(delivery) ==
  /\ settled' = settled \cup {delivery}
  /\ UNCHANGED <<demand, accepted, acknowledged>>

Acknowledge(p, o) ==
  /\ \A i \in 1..o : \A d \in demand[p][i] : <<Place(p, i), d>> \in accepted
  /\ acknowledged' = [acknowledged EXCEPT ![p] = o]
  /\ UNCHANGED <<demand, accepted, settled>>

Next ==
  \/ \E p \in Partitions : \E o \in 1..Len(demand[p]) :
       Acknowledge(p, o) \/ \E d \in Destinations : Accept(p, o, d)
  \/ \E delivery \in accepted : Settle(delivery)

Spec == Init /\ [][Next]_abstractVars

=============================================================================
