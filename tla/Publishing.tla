----------------------------- MODULE Publishing -----------------------------
(***************************************************************************)
(* The message contract, from the publish endpoints to the consumer: the   *)
(* HTTP and gRPC handlers (router-api/src/http.rs, grpc.rs, publish.rs),   *)
(* the Kafka publisher (router-kafka/src/publisher.rs) and the decoder of  *)
(* the ingestor (router-kafka/src/decoder.rs).                             *)
(*                                                                         *)
(* The text of an identifier is the sequence of its parts between colons,  *)
(* because kafka_key joins identifiers with colons.  Message ids are       *)
(* opaque; their first component says who chose them.  A payload is its    *)
(* length.  The topic has one partition.                                   *)
(***************************************************************************)
EXTENDS RouteMatching, Integers, Sequences, FiniteSets

CONSTANTS
  Calls,                       \* publish calls, each made once
  Requests,                    \* the requests clients may send
  principal,                   \* caller -> its Principal, or NoPrincipal
  publish_max_payload_bytes,   \* of the API
  max_payload_bytes,           \* of the consumer
  ForeignRecords,              \* records other producers may write
  MaxTraffic                   \* bound: calls and foreign records together

NoPrincipal == [tenant_id |-> None, can_publish |-> FALSE]

Fields == {"kind", "message_type", "channel", "actor_id",
           "recipient_type", "recipient_identity"}

\* MIME types, and text that is none.
ContentTypes == {"application/json", "application/octet-stream", "application/*", "text"}

\* `payload` says which of its two fields an HTTP body fills, if it parses at all.
Request ==
  [caller : DOMAIN principal,
   transport : {"http", "grpc"},
   payload : {"json", "base64", "garbled_base64", "both", "neither", "unparsable"},
   size : Nat,
   message_id : {None, Invalid} \cup ({"caller"} \X Nat),
   tenant_id : Tenants \cup {None},
   fields : [Fields -> Optional],
   ordering_key : Optional,
   content_type : ContentTypes \cup {None, Invalid}]

ASSUME PublishingAssumption ==
  /\ \A p \in DOMAIN principal :
       principal[p] = NoPrincipal
         \/ principal[p] \in [tenant_id : Tenants, can_publish : BOOLEAN]
  /\ Requests \subseteq Request
  /\ \A r \in Requests : r.transport = "grpc" => r.payload = "base64"
  /\ {None, Invalid} \cap ContentTypes = {}
  /\ {None, Invalid} \cap ({"uuid", "caller"} \X Nat) = {}
  /\ Calls \subseteq Nat \ {0}
  /\ \A rec \in ForeignRecords : rec.by = 0
  /\ {publish_max_payload_bytes, max_payload_bytes} \subseteq Nat \ {0}
  /\ MaxTraffic \in Nat

VARIABLES
  publisher, \* whether a publisher is configured; never changes
  calls,     \* call -> its request, command and answer
  network,   \* calls whose record the broker may still append
  topic,     \* the source topic
  foreign,   \* records written by other producers
  routed     \* the consumer's results, one for each record consumed

publishingVars == <<publisher, calls, network, topic, foreign, routed>>

-----------------------------------------------------------------------------
(* What the handlers check                                                 *)

Authenticated(r) == principal[r.caller] # NoPrincipal

\* authorize_requested_tenant, authorize_tenant and authorize_publish.
Authorized(r) ==
  /\ r.tenant_id \in {None, principal[r.caller].tenant_id}
  /\ principal[r.caller].can_publish

\* Mutant: the quotient is rounded down.
MaximumEncodedFloor == (publish_max_payload_bytes \div 3) * 4

MaximumEncoded == ((publish_max_payload_bytes + 2) \div 3) * 4

\* Padded base64 of n bytes.
EncodedLength(n) == ((n + 2) \div 3) * 4

\* http_publish_payload: exactly one of the two forms.
http_publish_payload(r) ==
  \/ r.payload = "json" /\ r.content_type \in {None, "application/json"}
  \/ /\ r.payload = "base64"
     /\ r.content_type # None
     /\ EncodedLength(r.size) <= MaximumEncoded

content_type(r) ==
  CASE r.content_type # None -> r.content_type
    [] r.content_type = None /\ r.transport = "http" -> "application/json"
    [] r.content_type = None /\ r.transport = "grpc" -> "application/octet-stream"

effective_message_id(c, r) == IF r.message_id = None THEN <<"uuid", c>> ELSE r.message_id

Command(c, r) ==
  [message_id |-> effective_message_id(c, r),
   tenant_id |-> principal[r.caller].tenant_id,
   fields |-> r.fields,
   ordering_key |-> r.ordering_key,
   content_type |-> content_type(r),
   size |-> r.size]

NoCommand == [size |-> -1]

\* RoutingMetadata::validate, of commands and of decoded records alike.
ValidMessage(m) ==
  /\ validate_identifier(m.message_id)
  /\ validate_identifier(m.content_type)
  /\ Validate([f \in Fields \cup {"tenant_id"} |->
                 IF f = "tenant_id" THEN m.tenant_id ELSE m.fields[f]])

\* PublishCommand::validate.
ValidCommand(m) ==
  /\ ValidMessage(m)
  /\ m.content_type \notin {"text", "application/*"}
  /\ validate_identifier(m.ordering_key)

validate_command(m) == m.size <= publish_max_payload_bytes /\ ValidCommand(m)

WellFormed(c, r) ==
  /\ r.transport = "http" => http_publish_payload(r)
  /\ validate_command(Command(c, r))

-----------------------------------------------------------------------------
(* The Kafka record                                                        *)

HeaderName ==
  [kind |-> "x-kind", message_type |-> "x-type", channel |-> "x-channel",
   actor_id |-> "x-actor-id", recipient_type |-> "x-recipient-type",
   recipient_identity |-> "x-recipient-identity"]

\* Mutant: an absent field is written as an empty header.
InsertEmpty(headers, key, value) ==
  Append(headers, [key |-> key, value |-> IF value = None THEN Invalid ELSE value])

insert_optional(headers, key, value) ==
  IF value = None THEN headers ELSE Append(headers, [key |-> key, value |-> value])

Headers(m) ==
  LET optional(headers, f) == insert_optional(headers, HeaderName[f], m.fields[f])
      required == <<[key |-> "x-message-id", value |-> m.message_id],
                    [key |-> "x-tenant-id", value |-> m.tenant_id],
                    [key |-> "x-content-type", value |-> m.content_type]>>
      named == optional(optional(optional(required, "kind"), "message_type"), "channel")
  IN  optional(optional(optional(named, "actor_id"), "recipient_type"), "recipient_identity")

kafka_key(m) ==
  LET channel == m.fields["channel"]
      recipient_type == m.fields["recipient_type"]
      recipient_identity == m.fields["recipient_identity"]
  IN  CASE m.ordering_key # None -> m.tenant_id \o <<"explicit">> \o m.ordering_key
        [] m.ordering_key = None /\ recipient_type # None /\ recipient_identity # None ->
             m.tenant_id \o recipient_type \o recipient_identity
        [] OTHER -> IF channel = None THEN m.tenant_id
                                      ELSE m.tenant_id \o <<"channel">> \o channel

\* by is the call that wrote the record, 0 for another producer.
Record(c, m) == [by |-> c, key |-> kafka_key(m), headers |-> Headers(m), size |-> m.size]

-----------------------------------------------------------------------------
(* decode_message                                                          *)

TraceNames == {"traceparent", "tracestate"}

Names == {"x-message-id", "x-tenant-id", "x-content-type"} \cup TraceNames
           \cup {HeaderName[f] : f \in Fields}

Found(rec, name) == {i \in DOMAIN rec.headers : rec.headers[i].key = name}

\* A header without a value counts as absent.
optional_header(rec, name) ==
  IF Found(rec, name) = {} THEN None
                           ELSE rec.headers[CHOOSE i \in Found(rec, name) : TRUE].value

\* A header may be there once.  Text that is not UTF-8 is refused like any
\* other invalid identifier.
HeadersReadable(rec) == \A name \in Names : \A i, j \in Found(rec, name) : i = j

\* Mutant: the fallback id leaves the offset out.
SharedSourceId(rec, offset) ==
  IF optional_header(rec, "x-message-id") = None
    THEN <<"source", 0>> ELSE optional_header(rec, "x-message-id")

message_id(rec, offset) ==
  IF optional_header(rec, "x-message-id") = None
    THEN <<"source", offset>> ELSE optional_header(rec, "x-message-id")

Decoded(rec, offset) ==
  [message_id |-> message_id(rec, offset),
   tenant_id |-> optional_header(rec, "x-tenant-id"),
   fields |-> [f \in Fields |-> optional_header(rec, HeaderName[f])],
   content_type |-> IF optional_header(rec, "x-content-type") = None
                      THEN "application/octet-stream"
                      ELSE optional_header(rec, "x-content-type"),
   size |-> rec.size,
   offset |-> offset]

Refused(offset) == [offset |-> offset]

decode_message(rec, offset) ==
  IF /\ rec.size <= max_payload_bytes
     /\ HeadersReadable(rec)
     /\ optional_header(rec, "x-tenant-id") # None
     /\ \A name \in TraceNames : validate_identifier(optional_header(rec, name))
     /\ optional_header(rec, "tracestate") # None => optional_header(rec, "traceparent") # None
     /\ ValidMessage(Decoded(rec, offset))
    THEN Decoded(rec, offset)
    ELSE Refused(offset)

-----------------------------------------------------------------------------
(* Actions                                                                 *)

NoCall == [status |-> "idle"]

\* offset is set by the receipt.
Call(status, r, m) == [status |-> status, request |-> r, command |-> m, offset |-> 0]

PublishingInit ==
  /\ publisher \in BOOLEAN
  /\ calls = [c \in Calls |-> NoCall]
  /\ network = {}
  /\ topic = <<>>
  /\ foreign = 0
  /\ routed = <<>>

Traffic == foreign + Cardinality({c \in Calls : calls[c] # NoCall})

\* A call comes in.
Comes(c) == calls[c] = NoCall /\ Traffic < MaxTraffic

Answered(c, r, answer) ==
  calls' = [calls EXCEPT ![c] = Call(answer, r, NoCommand)]

\* The answers a handler gives before anything is sent, each after the checks
\* that come before it.
Reply(c, r) ==
  CASE r.payload = "unparsable" -> "bad_request"
    [] r.payload # "unparsable" /\ ~Authenticated(r) -> "unauthorized"
    [] r.payload # "unparsable" /\ Authenticated(r) /\ ~Authorized(r) -> "forbidden"
    [] OTHER -> IF WellFormed(c, r) THEN "publisher_unavailable" ELSE "bad_request"

Passes(c, r) ==
  /\ r.payload # "unparsable"
  /\ Authenticated(r) /\ Authorized(r) /\ WellFormed(c, r)
  /\ publisher

publish_refused(c, r) ==
  /\ Comes(c)
  /\ ~Passes(c, r)
  /\ Answered(c, r, Reply(c, r))
  /\ UNCHANGED <<publisher, network, topic, foreign, routed>>

\* allow_rate is asked once the caller is authorized.
publish_rate_limited(c, r) ==
  /\ Comes(c)
  /\ r.payload # "unparsable" /\ Authenticated(r) /\ Authorized(r)
  /\ Answered(c, r, "rate_limited")
  /\ UNCHANGED <<publisher, network, topic, foreign, routed>>

\* The producer has the record; the handler awaits its delivery.
publish(c, r) ==
  /\ Comes(c)
  /\ Passes(c, r)
  /\ calls' = [calls EXCEPT ![c] = Call("sending", r, Command(c, r))]
  /\ network' = network \cup {c}
  /\ UNCHANGED <<publisher, topic, foreign, routed>>

\* The broker appends a record, perhaps after its call has failed or its client
\* has gone; the idempotent producer does so once.
append(c) ==
  /\ c \in network
  /\ network' = network \ {c}
  /\ topic' = Append(topic, Record(c, calls[c].command))
  /\ UNCHANGED <<publisher, calls, foreign, routed>>

Appended(c) == \E i \in 1..Len(topic) : topic[i].by = c

OffsetOf(c) == CHOOSE i \in 1..Len(topic) : topic[i].by = c

acknowledge(c) ==
  /\ calls[c].status = "sending"
  /\ Appended(c)
  /\ calls' = [calls EXCEPT ![c].status = "ok", ![c].offset = OffsetOf(c)]
  /\ UNCHANGED <<publisher, network, topic, foreign, routed>>

TimedOut == {"MessageTimedOut", "OperationTimedOut", "RequestTimedOut", "TimedOutQueue"}

\* Mutant: every time-out counts as a full queue.
ClassifyCoarse(error) ==
  IF error \in TimedOut \cup {"QueueFull"} THEN "queue_full" ELSE "backend"

\* classify_delivery_error and map_publish_error.
classify_delivery_error(error) ==
  CASE error = "QueueFull" -> "queue_full"
    [] error \in TimedOut -> "timeout"
    [] OTHER -> "backend"

\* The delivery fails.  A record the queue had no room for was never sent; any
\* other may be in the topic, on its way there, or lost.
delivery_fails(c) ==
  /\ calls[c].status = "sending"
  /\ \E error \in TimedOut \cup {"QueueFull", "Other"} :
       /\ error = "QueueFull" => ~Appended(c)
       /\ network' \in IF error = "QueueFull" THEN {network \ {c}} ELSE {network, network \ {c}}
       /\ calls' = [calls EXCEPT ![c].status = classify_delivery_error(error)]
  /\ UNCHANGED <<publisher, topic, foreign, routed>>

\* The client disconnects and its handler is dropped; the producer keeps the record.
caller_leaves(c) ==
  /\ calls[c].status = "sending"
  /\ calls' = [calls EXCEPT ![c].status = "gone"]
  /\ UNCHANGED <<publisher, network, topic, foreign, routed>>

foreign_record(rec) ==
  /\ Traffic < MaxTraffic
  /\ foreign' = foreign + 1
  /\ topic' = Append(topic, rec)
  /\ UNCHANGED <<publisher, calls, network, routed>>

consume ==
  /\ Len(routed) < Len(topic)
  /\ LET offset == Len(routed) + 1
     IN  routed' = Append(routed, decode_message(topic[offset], offset))
  /\ UNCHANGED <<publisher, calls, network, topic, foreign>>

PublishingNext ==
  \/ \E c \in Calls, r \in Requests :
       publish_refused(c, r) \/ publish_rate_limited(c, r) \/ publish(c, r)
  \/ \E c \in Calls : append(c) \/ acknowledge(c) \/ delivery_fails(c) \/ caller_leaves(c)
  \/ \E rec \in ForeignRecords : foreign_record(rec)
  \/ consume

PublishingSpec == PublishingInit /\ [][PublishingNext]_publishingVars

-----------------------------------------------------------------------------
(* Properties                                                              *)

Sent(c) == calls[c] # NoCall /\ calls[c].command # NoCommand

\* The records there can be.
Records ==
  ForeignRecords
    \cup {Record(cr[1], Command(cr[1], cr[2])) :
            cr \in {p \in Calls \X Requests : WellFormed(p[1], p[2])}}

\* What publish wrote is decoded to the command that was validated, fields left
\* out included, unless the consumer's payload limit is the smaller one.
\* (publish and decode_message: "The original bytes are always retained".)
RoundTrip ==
  \A i \in 1..Len(routed) :
    LET c == topic[i].by
    IN  c # 0 /\ topic[i].size <= max_payload_bytes =>
          routed[i] = [f \in DOMAIN routed[i] |->
                         IF f = "offset" THEN i ELSE calls[c].command[f]]
          /\ DOMAIN routed[i] = (DOMAIN calls[c].command \ {"ordering_key"}) \cup {"offset"}

\* An answer other than a time-out or a backend failure settles whether there is
\* a record: a refused call never has one, also not later, and a receipt names
\* the call's own, which is the only one.  (map_publish_error, PublishReceipt and
\* the idempotent producer.)
AnswerSettles ==
  \A c \in Calls :
    /\ calls[c].status \in {"unauthorized", "forbidden", "rate_limited", "bad_request",
                            "publisher_unavailable", "queue_full"}
         => ~Appended(c) /\ c \notin network
    /\ calls[c].status = "ok" =>
         /\ c \notin network
         /\ \A i \in 1..Len(topic) : topic[i].by = c <=> i = calls[c].offset

\* The same message from the same caller passes the checks over both transports
\* or over neither, whatever its size, if its content type is given.  (publish.rs:
\* shared validation for HTTP and gRPC.)
TransportsAgree ==
  \A c, d \in Calls :
    /\ {calls[c], calls[d]} \cap {NoCall} = {}
    /\ "rate_limited" \notin {calls[c].status, calls[d].status}
    /\ calls[c].request.payload = "base64"
    /\ calls[c].request.content_type # None
    /\ calls[d].request = [calls[c].request EXCEPT !.transport = "grpc"]
    => (Sent(c) <=> Sent(d))

\* Callers and other producers repeat an id only to repeat a message, and do not
\* choose ids that look like the ones the API or the consumer makes.
IdsRepeatMessages ==
  LET id(rec) == optional_header(rec, "x-message-id")
  IN  /\ \A rec \in ForeignRecords : id(rec) \in {None, Invalid} \cup ({"caller"} \X Nat)
      /\ \A a, b \in Records :
           /\ id(a) \in {"caller"} \X Nat
           /\ id(a) = id(b)
           /\ optional_header(a, "x-tenant-id") = optional_header(b, "x-tenant-id")
           => Decoded(a, 0) = Decoded(b, 0)

\* Two messages routed under one id of one tenant have the same content, so
\* receivers may drop the second, if ids are chosen as IdsRepeatMessages says.
\* (effective_message_id, and the source position used as an id.)
IdNamesMessage ==
  \A i, j \in 1..Len(routed) :
    LET a == routed[i]
        b == routed[j]
    IN  /\ {a, b} \cap {Refused(i), Refused(j)} = {}
        /\ a.message_id = b.message_id
        /\ a.tenant_id = b.tenant_id
        => [a EXCEPT !.offset = 0] = [b EXCEPT !.offset = 0]

\* Records of two tenants never have the same Kafka key.  (kafka_key; "The
\* authenticated tenant prefix is mandatory and prevents cross-tenant key sharing.")
KeysSeparateTenants ==
  \A i, j \in 1..Len(topic) :
    topic[i].by # 0 /\ topic[j].by # 0 /\ topic[i].key = topic[j].key
      => calls[topic[i].by].command.tenant_id = calls[topic[j].by].command.tenant_id

=============================================================================
