---------------------------- MODULE MCPublishing ----------------------------
(* Small instances of Publishing.                                           *)
EXTENDS Publishing, TLC

Org == <<"org">>
Nested == <<"org", "explicit", "eu">>

MCTenants == {Org, Nested}
MCValues == {<<"team">>, <<"eu">>}

MCPrincipal ==
  [writer |-> [tenant_id |-> Org, can_publish |-> TRUE],
   other  |-> [tenant_id |-> Nested, can_publish |-> TRUE],
   reader |-> [tenant_id |-> Org, can_publish |-> FALSE],
   nobody |-> NoPrincipal]

Plain ==
  [caller |-> "writer", transport |-> "http", payload |-> "base64", size |-> 1,
   message_id |-> None, tenant_id |-> None,
   fields |-> [f \in Fields |-> None],
   ordering_key |-> None, content_type |-> "application/octet-stream"]

Grpc(r) == [r EXCEPT !.transport = "grpc", !.payload = "base64"]

\* A message with every dimension, one with a channel, one without any.
Named == [f \in Fields |-> IF f = "recipient_type" THEN <<"team">> ELSE <<"eu">>]
Channel == [f \in Fields |-> IF f = "channel" THEN <<"team">> ELSE None]

\* One request for every check of the handlers.
CheckedRequests ==
  LET http ==
        {[Plain EXCEPT !.payload = p] :
           p \in {"json", "base64", "garbled_base64", "both", "neither", "unparsable"}}
        \cup {[Plain EXCEPT !.payload = "json", !.content_type = t] :
                t \in {None, "application/json", "text"}}
        \cup {[Plain EXCEPT !.content_type = t] : t \in ContentTypes \cup {None, Invalid}}
        \cup {[Plain EXCEPT !.caller = p, !.tenant_id = t] :
                p \in DOMAIN MCPrincipal, t \in {None, Org}}
        \cup {[Plain EXCEPT !.size = n] : n \in 0..7}
        \cup {[Plain EXCEPT !.ordering_key = Invalid], [Plain EXCEPT !.message_id = Invalid],
              [Plain EXCEPT !.fields["recipient_type"] = <<"team">>],
              [Plain EXCEPT !.fields["kind"] = Invalid]}
  IN  http \cup {Grpc(r) : r \in http}

\* Callers repeat an id only to repeat a message.
MessageRequests ==
  LET named == [Plain EXCEPT !.fields = Named, !.message_id = <<"caller", 1>>]
  IN  {Grpc(named),
       [Plain EXCEPT !.fields = Channel, !.payload = "json", !.content_type = None],
       [Plain EXCEPT !.fields = Channel, !.size = 3, !.ordering_key = <<"eu">>],
       [Plain EXCEPT !.caller = "other", !.message_id = <<"caller", 1>>, !.size = 4]}

MCRequests == CheckedRequests \cup MessageRequests

Foreign(headers, n) == [by |-> 0, key |-> Org, headers |-> headers, size |-> n]
Tenant == [key |-> "x-tenant-id", value |-> Org]

\* Records of other producers: with and without each header the decoder needs.
MCForeign ==
  {Foreign(<<Tenant>>, 0), Foreign(<<Tenant, [key |-> "x-kind", value |-> None]>>, 1),
   Foreign(<<>>, 0), Foreign(<<Tenant, Tenant>>, 0),
   Foreign(<<Tenant, [key |-> "tracestate", value |-> <<"eu">>]>>, 0)}

ASSUME CallersRepeatMessages == IdsRepeatMessages

=============================================================================
