---------------------------- MODULE RouteMatching ----------------------------
(***************************************************************************)
(* Exact-and-wildcard route filters and the compiled index's keys.         *)
(*                                                                         *)
(* A subscription carries a RouteFilter.  The index stores it under one    *)
(* RouteKey.  A message is looked up under every key obtained from its     *)
(* metadata by replacing any subset of its populated dimensions with the   *)
(* wildcard.  `Matches` is the reference matcher the code keeps for tests; *)
(* the index is right when the two agree on every validated pair.          *)
(*                                                                         *)
(* Identifiers are opaque here: route.rs compares them for equality only.  *)
(* `Invalid` stands for every identifier that validate_identifier rejects  *)
(* (blank, over 256 bytes, or holding a control character).                *)
(***************************************************************************)

CONSTANTS
  Tenants,   \* valid tenant identifiers
  Values,    \* valid identifiers of the optional dimensions
  None,      \* Option::None: absent in metadata, wildcard in a filter
  Invalid    \* an identifier rejected by validate_identifier

ASSUME MatchingAssumption ==
  /\ None \notin Tenants \cup Values
  /\ Invalid \notin Tenants \cup Values
  /\ None # Invalid

-----------------------------------------------------------------------------
(* Types                                                                   *)

Optional == Values \cup {None, Invalid}

\* Filters and metadata share the seven routing dimensions.  The recipient is
\* two separately optional fields, as in the structs.
Dimensions(tenants) ==
  [tenant_id : tenants, kind : Optional, message_type : Optional,
   channel : Optional, actor_id : Optional,
   recipient_type : Optional, recipient_identity : Optional]

RouteFilter == Dimensions(Tenants \cup {Invalid})

RoutingMetadata == Dimensions(Tenants \cup {Invalid})

RecipientKey == [recipient_type : Values, recipient_identity : Values]

\* None and the recipient pairs share a set in a RouteKey, so the wildcard of
\* that dimension is the pair of two Nones: TLC can then compare the two.
NoRecipient == [recipient_type |-> None, recipient_identity |-> None]

RouteKey ==
  [tenant_id : Tenants, kind : Values \cup {None},
   message_type : Values \cup {None}, channel : Values \cup {None},
   actor_id : Values \cup {None}, recipient : RecipientKey \cup {NoRecipient}]

-----------------------------------------------------------------------------
(* Validation                                                              *)

validate_identifier(value) == value # Invalid

\* RouteFilter::validate and the routing part of RoutingMetadata::validate:
\* every present identifier is valid, and the recipient is complete or absent.
Validate(d) ==
  /\ validate_identifier(d.tenant_id)
  /\ validate_identifier(d.kind)
  /\ validate_identifier(d.message_type)
  /\ validate_identifier(d.channel)
  /\ validate_identifier(d.actor_id)
  /\ validate_identifier(d.recipient_type)
  /\ validate_identifier(d.recipient_identity)
  /\ (d.recipient_type = None) <=> (d.recipient_identity = None)

ValidFilters == {f \in RouteFilter : Validate(f)}

ValidMetadata == {m \in RoutingMetadata : Validate(m)}

-----------------------------------------------------------------------------
(* The reference matcher                                                   *)

optional_matches(expected, actual) == expected = None \/ actual = expected

recipient_matches(f, m) ==
  \/ f.recipient_type = None /\ f.recipient_identity = None
  \/ /\ f.recipient_type # None
     /\ f.recipient_identity # None
     /\ m.recipient_type = f.recipient_type
     /\ m.recipient_identity = f.recipient_identity

Matches(f, m) ==
  /\ f.tenant_id = m.tenant_id
  /\ optional_matches(f.kind, m.kind)
  /\ optional_matches(f.message_type, m.message_type)
  /\ optional_matches(f.channel, m.channel)
  /\ optional_matches(f.actor_id, m.actor_id)
  /\ recipient_matches(f, m)

-----------------------------------------------------------------------------
(* The compiled index's keys                                               *)

recipient_key(d) ==
  IF d.recipient_type # None /\ d.recipient_identity # None
    THEN [recipient_type |-> d.recipient_type,
          recipient_identity |-> d.recipient_identity]
    ELSE NoRecipient

\* `From<&RouteFilter> for RouteKey`, and the first key of `candidates`, which
\* is built from the metadata's fields in the same way.
RouteKeyOf(d) ==
  [tenant_id |-> d.tenant_id, kind |-> d.kind,
   message_type |-> d.message_type, channel |-> d.channel,
   actor_id |-> d.actor_id, recipient |-> recipient_key(d)]

\* The five expansions of branch_wildcard!: a populated dimension doubles the
\* keys, adding to each its copy with the wildcard.
BranchKind(keys, m) ==
  keys \cup {[k EXCEPT !.kind = None] : k \in IF m.kind # None THEN keys ELSE {}}

BranchType(keys, m) ==
  keys \cup {[k EXCEPT !.message_type = None] :
               k \in IF m.message_type # None THEN keys ELSE {}}

BranchChannel(keys, m) ==
  keys \cup {[k EXCEPT !.channel = None] :
               k \in IF m.channel # None THEN keys ELSE {}}

BranchActor(keys, m) ==
  keys \cup {[k EXCEPT !.actor_id = None] :
               k \in IF m.actor_id # None THEN keys ELSE {}}

BranchRecipient(keys, m) ==
  keys \cup {[k EXCEPT !.recipient = NoRecipient] :
               k \in IF m.recipient_type # None THEN keys ELSE {}}

\* RouteKey::candidates.  The code's list, as a set: its keys are looked up
\* one by one and no result depends on their order.
Candidates(m) ==
  BranchRecipient(
    BranchActor(
      BranchChannel(
        BranchType(
          BranchKind({RouteKeyOf(m)}, m), m), m), m), m)

=============================================================================
