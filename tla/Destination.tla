----------------------------- MODULE Destination -----------------------------
(***************************************************************************)
(* The checks of a webhook destination's URL and of the addresses it       *)
(* resolves to (router-webhook/src/security.rs).                           *)
(*                                                                         *)
(* A URL is the record of its parsed parts.  A host is a name or a literal *)
(* address; an IPv4 address is four octets, an IPv6 address eight segments *)
(* of sixteen bits.                                                        *)
(***************************************************************************)
EXTENDS Integers, Sequences, FiniteSets

CONSTANT MaxResolved     \* MAX_RESOLVED_ADDRESSES

Octet == {n \in Nat : n < 256}
Segment == {n \in Nat : n < 65536}

Ipv4Addresses == [1..4 -> Octet]
Ipv6Addresses == [1..8 -> Segment]

-----------------------------------------------------------------------------
ipv4_private_or_special(address) ==
  LET a == address[1]
      b == address[2]
      c == address[3]
  IN  \/ a = 10 \/ (a = 172 /\ b \in 16..31) \/ (a = 192 /\ b = 168)    \* is_private
      \/ a = 127                                                        \* is_loopback
      \/ (a = 169 /\ b = 254)                                           \* is_link_local
      \/ address = <<255, 255, 255, 255>>                               \* is_broadcast
      \/ <<a, b, c>> \in {<<192, 0, 2>>, <<198, 51, 100>>, <<203, 0, 113>>}  \* is_documentation
      \/ address = <<0, 0, 0, 0>>                                       \* is_unspecified
      \/ a \in 224..239                                                 \* is_multicast
      \/ a = 0
      \/ (a = 100 /\ b \in 64..127)
      \/ (a = 192 /\ b = 0 /\ c = 0)
      \/ (a = 192 /\ b = 88 /\ c = 99)
      \/ (a = 198 /\ b \in 18..19)
      \/ a >= 240

\* The IPv4 address an IPv6 address maps, and whether it maps one.
Mapped(s) == <<s[7] \div 256, s[7] % 256, s[8] \div 256, s[8] % 256>>

IsMapped(s) == SubSeq(s, 1, 6) = <<0, 0, 0, 0, 0, 65535>>

\* The masks of the source are divisions here: 0xfe00 leaves the upper seven
\* bits of a segment, 0xffc0 the upper ten.
ipv6_private_or_special(s) ==
  \/ s = <<0, 0, 0, 0, 0, 0, 0, 1>>
  \/ s = <<0, 0, 0, 0, 0, 0, 0, 0>>
  \/ s[1] \div 256 = 255
  \/ s[1] \div 512 = 64512 \div 512
  \/ s[1] \div 64 = 65152 \div 64
  \/ (s[1] = 100 /\ s[2] = 65435)
  \/ (s[1] = 256 /\ SubSeq(s, 2, 4) = <<0, 0, 0>>)
  \/ (s[1] = 8193 /\ s[2] < 512)
  \/ (s[1] = 8193 /\ s[2] = 3512)
  \/ s[1] = 8194
  \/ (s[1] = 16383 /\ s[2] < 4096)
  \/ s[1] = 24320
  \/ (IsMapped(s) /\ ipv4_private_or_special(Mapped(s)))

is_private_or_special(address) ==
  IF Len(address) = 4 THEN ipv4_private_or_special(address)
                      ELSE ipv6_private_or_special(address)

-----------------------------------------------------------------------------
\* A URL's host: [name, literal], with literal an address or <<>>.  Names are
\* compared without regard to case; here they are in lower case.
validate_destination_url(url, allowed_hosts, allow_private_ips, allow_http) ==
  /\ url.parses
  /\ url.scheme \in {"https"} \cup (IF allow_http THEN {"http"} ELSE {})
  /\ ~url.credentials
  /\ ~url.fragment
  /\ url.host.name # ""
  /\ allowed_hosts # {} => url.host.name \in allowed_hosts
  /\ ~allow_private_ips /\ url.host.literal # <<>> => ~is_private_or_special(url.host.literal)

DefaultPort(scheme) == IF scheme = "https" THEN 443 ELSE 80

port_or_known_default(url) == IF url.port = 0 THEN DefaultPort(url.scheme) ELSE url.port

validate_destination_port(url, allowed_ports) ==
  LET port == port_or_known_default(url)
  IN  IF allowed_ports = {} THEN port = DefaultPort(url.scheme)
                            ELSE port \in allowed_ports

\* parse_headers: a header is well formed or not, and reserved or not.
parse_headers(headers) == \A h \in headers : h.valid /\ ~h.reserved

\* What both kinds of worker check of their destination when they are built.
Endpoint(d) ==
  /\ validate_destination_url(d.url, d.allowed_hosts, d.allow_private_ips, d.allow_http)
  /\ validate_destination_port(d.url, d.allowed_ports)
  /\ parse_headers(d.headers)

-----------------------------------------------------------------------------
\* The loop over what the name resolved to: an answer met when MaxResolved
\* addresses are collected already is refused, a repeated one included.
TooMany(answers) ==
  \E i \in DOMAIN answers :
    Cardinality({answers[j] : j \in 1..(i - 1)}) = MaxResolved

\* pinned_client: the addresses one attempt may connect to, {} when it is
\* refused.  answers is what the resolver returned, <<>> when it failed.
pinned_client(host, answers, allow_private_ips) ==
  LET addresses == IF host.literal # <<>> THEN {host.literal}
                                          ELSE {answers[i] : i \in DOMAIN answers}
      refused == \/ host.literal = <<>> /\ TooMany(answers)
                 \/ ~allow_private_ips /\ \E a \in addresses : is_private_or_special(a)
  IN  IF refused THEN {} ELSE addresses

-----------------------------------------------------------------------------
\* The special-purpose blocks the checks above are meant to refuse: a prefix
\* and its length in bits, over words of 8 or 16 bits.
Ipv4Blocks ==
  {<<<<0, 0, 0, 0>>, 8>>, <<<<10, 0, 0, 0>>, 8>>, <<<<100, 64, 0, 0>>, 10>>,
   <<<<127, 0, 0, 0>>, 8>>, <<<<169, 254, 0, 0>>, 16>>, <<<<172, 16, 0, 0>>, 12>>,
   <<<<192, 0, 0, 0>>, 24>>, <<<<192, 0, 2, 0>>, 24>>, <<<<192, 88, 99, 0>>, 24>>,
   <<<<192, 168, 0, 0>>, 16>>, <<<<198, 18, 0, 0>>, 15>>, <<<<198, 51, 100, 0>>, 24>>,
   <<<<203, 0, 113, 0>>, 24>>, <<<<224, 0, 0, 0>>, 4>>, <<<<240, 0, 0, 0>>, 4>>}

Segments(a, b) == <<a, b, 0, 0, 0, 0, 0, 0>>

Ipv6Blocks ==
  {<<Segments(0, 0), 128>>, <<[Segments(0, 0) EXCEPT ![8] = 1], 128>>,
   <<Segments(100, 65435), 32>>, <<Segments(256, 0), 64>>, <<Segments(8193, 0), 23>>,
   <<Segments(8193, 3512), 32>>, <<Segments(8194, 0), 16>>, <<Segments(16383, 0), 20>>,
   <<Segments(24320, 0), 16>>, <<Segments(64512, 0), 7>>, <<Segments(65152, 0), 10>>,
   <<Segments(65280, 0), 8>>}

\* 2^0 to 2^15.
Powers ==
  <<1, 2, 4, 8, 16, 32, 64, 128, 256, 512, 1024, 2048, 4096, 8192, 16384, 32768>>

\* Two words agree in their first bits, all of them when there are no more.
Agree(x, y, bits, width) ==
  LET unit == IF bits >= width THEN 1 ELSE Powers[width - bits + 1]
  IN  bits > 0 => x \div unit = y \div unit

InBlock(address, block, width) ==
  \A i \in DOMAIN address : Agree(address[i], block[1][i], block[2] - width * (i - 1), width)

Ipv4Special(address) == \E block \in Ipv4Blocks : InBlock(address, block, 8)

Special(address) ==
  IF Len(address) = 4
    THEN Ipv4Special(address)
    ELSE \/ \E block \in Ipv6Blocks : InBlock(address, block, 16)
         \/ IsMapped(address) /\ Ipv4Special(Mapped(address))

=============================================================================
