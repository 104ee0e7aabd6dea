---------------------------- MODULE StartupProofs ----------------------------
(***************************************************************************)
(* Proofs about the daemon's start and what its configuration decides      *)
(* while it serves.                                                        *)
(***************************************************************************)
EXTENDS Startup, TLAPS

-----------------------------------------------------------------------------
(* The invariant                                                           *)

\* A literal of a destination is an address, if there is one.
HostTyped(d) == d.url.host.literal \in Addresses \cup {<<>>}

\* What the authenticator took over, in each mode.
AuthTyped ==
  /\ auth.mode \in Modes
  /\ auth.mode = "disabled" => auth.default_tenant \in Tenants \cup {None}
  /\ auth.mode = "static_bearer" =>
       \A token \in DOMAIN auth.bearer_tokens :
         token # None /\ auth.bearer_tokens[token] \in Tenants
  /\ auth.mode = "proxy_mtls" =>
       \A identity \in DOMAIN auth.proxy_identities :
         auth.proxy_identities[identity].tenant_id \in Tenants

\* A configuration that is loaded has passed; what main keeps of it until the
\* tasks are spawned starts no timer of period zero, and binds to the loopback
\* address where a header is taken for an identity.
Passed == validate(cfg) /\ Deserialised(cfg)

Local == {cfg.server.http_addr, cfg.server.grpc_addr} = {"loopback"}

Kept ==
  /\ 0 \notin cfg.timers
  /\ \A i \in DOMAIN cfg.destinations : HostTyped(cfg.destinations[i])
  /\ auth.mode \in {"trusted_header", "proxy_mtls"} => Local

\* Nothing is served before the phase for it.
Order ==
  /\ phase \in {"load", "refused", "loaded", "checked", "keys", "construct", "bind",
               "spawn", "serve", "failed"}
  /\ phase = "loaded" => Passed
  /\ phase \in {"keys", "construct", "bind", "spawn"} => Kept
  /\ phase \notin {"load", "refused", "loaded", "checked"} => AuthTyped
  /\ phase \notin {"spawn", "serve"} => listeners = {}
  /\ phase # "serve" =>
       request = None /\ answer = None /\ attempt = None /\ connected = None

\* The file holds one of the documents written as a whole, or is torn or gone.
\* A cache that is in use is one of them.
Cached(d) == acceptable(d, auth.jwt) /\ jwks = KeysOf(d)

Keys ==
  /\ file \in written \cup {Partial, None}
  /\ phase \in {"construct", "bind", "spawn", "serve"} /\ auth.mode = "jwt" =>
       \E d \in written : Cached(d)

\* A request that has its key has one that the file listed under the token's id.
Listed(token, key) == \E d \in written : \E k \in Range(d.keys) : k.kid = token.kid /\ k.key = key

Keyed ==
  request # None =>
    LET token == request.credential.authorization.token
    IN  /\ auth.mode = "jwt"
        /\ request.credential \in Credentials
        /\ token # None /\ token.decodes
        /\ token.alg \in auth.jwt.algorithms
        /\ Listed(token, request.key)

\* The addresses an attempt holds were checked when it got them.
Pinned ==
  /\ \A d \in destinations : HostTyped(d)
  /\ \A i \in DOMAIN dns : dns[i] \in Addresses
  /\ attempt # None =>
       \/ attempt.destination.allow_private_ips
       \/ \A a \in attempt.addresses : ~Special(a)

IInv ==
  /\ Order
  /\ TrustIsLocal
  /\ Keys
  /\ Keyed
  /\ PrincipalEarned
  /\ Pinned
  /\ EgressChecked

-----------------------------------------------------------------------------
(* Addresses                                                               *)

\* Octets and segments are numbers.
LEMMA WordsAreNat == Octet \subseteq Nat /\ Segment \subseteq Nat
BY SMT DEF Octet, Segment

\* So are they in order: a function on 1..n is a sequence.
LEMMA WordsAreASequence ==
  ASSUME NEW n \in Nat, NEW a \in [1..n -> Nat]
  PROVE  a \in Seq(Nat) /\ Len(a) = n
BY SMT

\* A prefix of len bits, cut after k whole words of w bits, with r bits of the
\* word at next, where words are compared in units.
Cut(n, a, b, w, k, r, len, next, unit) ==
  /\ n \in Nat /\ a \in [1..n -> Nat] /\ b \in [1..n -> Nat]
  /\ k \in Nat /\ k < n /\ r \in 0..(w - 1) /\ len = w * k + r
  /\ next = k + 1
  /\ r > 0 => unit = Powers[w + 1 - r]

Compares(a, b, w, k, r, len, next, unit) ==
  InBlock(a, <<b, len>>, w) <=>
    /\ \A i \in 1..k : a[i] = b[i]
    /\ r > 0 => a[next] \div unit = b[next] \div unit

\* A prefix of k whole words of 8 bits and r bits of the next: the words are
\* equal, and the next one is as far as r bits go.
LEMMA Prefix8 ==
  ASSUME NEW n, NEW a, NEW b, NEW k, NEW r, NEW len, NEW next, NEW unit,
         Cut(n, a, b, 8, k, r, len, next, unit)
  PROVE  Compares(a, b, 8, k, r, len, next, unit)
<1> USE DEF Cut, Compares
<1> DEFINE Bits(i) == len - 8 * (i - 1)
<1>1. InBlock(a, <<b, len>>, 8) <=> \A i \in 1..n : Agree(a[i], b[i], Bits(i), 8)
  <2>1. DOMAIN a = 1..n
    BY SMT
  <2> HIDE DEF Cut, Compares
  <2>2. QED
    BY <2>1 DEF InBlock
<1>2. \A i \in 1..n : a[i] \in Nat /\ b[i] \in Nat
  BY SMT
<1>3. ASSUME NEW i \in 1..k PROVE Agree(a[i], b[i], Bits(i), 8) <=> a[i] = b[i]
  <2>1. Bits(i) >= 8 /\ Bits(i) > 0 /\ i \in 1..n
    BY SMT
  <2> HIDE DEF Bits
  <2>2. Agree(a[i], b[i], Bits(i), 8) <=> a[i] \div 1 = b[i] \div 1
    BY ZenonT(30), <2>1 DEF Agree
  <2>3. \A x \in Nat : x \div 1 = x
    BY SMT
  <2>4. QED
    BY <1>2, <2>1, <2>2, <2>3
<1>4. ASSUME NEW i \in (k + 2)..n PROVE Agree(a[i], b[i], Bits(i), 8)
  <2>1. ~(Bits(i) > 0)
    BY SMT
  <2> HIDE DEF Bits
  <2>2. QED
    BY SMT, <2>1 DEF Agree
<1>5. Agree(a[k + 1], b[k + 1], Bits(k + 1), 8) <=>
        (r > 0 => a[next] \div unit = b[next] \div unit)
  <2>1. Bits(k + 1) = r /\ 8 - r + 1 = 9 - r
    BY SMT
  <2> HIDE DEF Bits
  <2>2. QED
    BY SMT, <2>1 DEF Agree
<1> HIDE DEF Bits
<1>6. \A i \in 1..n : i \in 1..k \/ i = k + 1 \/ i \in (k + 2)..n
  BY SMT
<1>7. (\A i \in 1..k : i \in 1..n) /\ k + 1 \in 1..n
  BY SMT
<1>8. QED
  BY ZenonT(30), <1>1, <1>3, <1>4, <1>5, <1>6, <1>7

\* A prefix of k whole words of 16 bits and r bits of the next: the words are
\* equal, and the next one is as far as r bits go.
LEMMA Prefix16 ==
  ASSUME NEW n, NEW a, NEW b, NEW k, NEW r, NEW len, NEW next, NEW unit,
         Cut(n, a, b, 16, k, r, len, next, unit)
  PROVE  Compares(a, b, 16, k, r, len, next, unit)
<1> USE DEF Cut, Compares
<1> DEFINE Bits(i) == len - 16 * (i - 1)
<1>1. InBlock(a, <<b, len>>, 16) <=> \A i \in 1..n : Agree(a[i], b[i], Bits(i), 16)
  <2>1. DOMAIN a = 1..n
    BY SMT
  <2> HIDE DEF Cut, Compares
  <2>2. QED
    BY <2>1 DEF InBlock
<1>2. \A i \in 1..n : a[i] \in Nat /\ b[i] \in Nat
  BY SMT
<1>3. ASSUME NEW i \in 1..k PROVE Agree(a[i], b[i], Bits(i), 16) <=> a[i] = b[i]
  <2>1. Bits(i) >= 16 /\ Bits(i) > 0 /\ i \in 1..n
    BY SMT
  <2> HIDE DEF Bits
  <2>2. Agree(a[i], b[i], Bits(i), 16) <=> a[i] \div 1 = b[i] \div 1
    BY ZenonT(30), <2>1 DEF Agree
  <2>3. \A x \in Nat : x \div 1 = x
    BY SMT
  <2>4. QED
    BY <1>2, <2>1, <2>2, <2>3
<1>4. ASSUME NEW i \in (k + 2)..n PROVE Agree(a[i], b[i], Bits(i), 16)
  <2>1. ~(Bits(i) > 0)
    BY SMT
  <2> HIDE DEF Bits
  <2>2. QED
    BY SMT, <2>1 DEF Agree
<1>5. Agree(a[k + 1], b[k + 1], Bits(k + 1), 16) <=>
        (r > 0 => a[next] \div unit = b[next] \div unit)
  <2>1. Bits(k + 1) = r /\ 16 - r + 1 = 17 - r
    BY SMT
  <2> HIDE DEF Bits
  <2>2. QED
    BY SMT, <2>1 DEF Agree
<1> HIDE DEF Bits
<1>6. \A i \in 1..n : i \in 1..k \/ i = k + 1 \/ i \in (k + 2)..n
  BY SMT
<1>7. (\A i \in 1..k : i \in 1..n) /\ k + 1 \in 1..n
  BY SMT
<1>8. QED
  BY ZenonT(30), <1>1, <1>3, <1>4, <1>5, <1>6, <1>7

\* What the prefix lengths that occur compare.
Compared4(a, b) ==
  /\ InBlock(a, <<b, 4>>, 8) <=> a[1] \div 16 = b[1] \div 16
  /\ InBlock(a, <<b, 8>>, 8) <=> a[1] = b[1]
  /\ InBlock(a, <<b, 10>>, 8) <=> a[1] = b[1] /\ a[2] \div 64 = b[2] \div 64
  /\ InBlock(a, <<b, 12>>, 8) <=> a[1] = b[1] /\ a[2] \div 16 = b[2] \div 16
  /\ InBlock(a, <<b, 15>>, 8) <=> a[1] = b[1] /\ a[2] \div 2 = b[2] \div 2
  /\ InBlock(a, <<b, 16>>, 8) <=> a[1] = b[1] /\ a[2] = b[2]
  /\ InBlock(a, <<b, 24>>, 8) <=> a[1] = b[1] /\ a[2] = b[2] /\ a[3] = b[3]

\* The lengths that occur for IPv4.
LEMMA Lengths4 ==
  ASSUME NEW a \in Ipv4Addresses, NEW b \in [1..4 -> Nat]
  PROVE  Compared4(a, b)
<1>1. Powers[7] = 64 /\ Powers[5] = 16 /\ Powers[2] = 2
  BY SMT DEF Powers
<1>2. a \in [1..4 -> Nat]
  BY ZenonT(30), WordsAreNat DEF Ipv4Addresses
<1>3. InBlock(a, <<b, 4>>, 8) <=> a[1] \div 16 = b[1] \div 16
  <2>1. Cut(4, a, b, 8, 0, 4, 4, 1, 16)
    BY SMT, <1>1, <1>2 DEF Cut
  <2>2. Compares(a, b, 8, 0, 4, 4, 1, 16)
    BY SMT, <2>1, Prefix8
  <2>3. QED
    BY SMT, <2>2 DEF Compares
<1>4. InBlock(a, <<b, 8>>, 8) <=> a[1] = b[1]
  <2>1. Cut(4, a, b, 8, 1, 0, 8, 2, 1)
    BY SMT, <1>1, <1>2 DEF Cut
  <2>2. Compares(a, b, 8, 1, 0, 8, 2, 1)
    BY SMT, <2>1, Prefix8
  <2>3. QED
    BY SMT, <2>2 DEF Compares
<1>5. InBlock(a, <<b, 10>>, 8) <=> a[1] = b[1] /\ a[2] \div 64 = b[2] \div 64
  <2>1. Cut(4, a, b, 8, 1, 2, 10, 2, 64)
    BY SMT, <1>1, <1>2 DEF Cut
  <2>2. Compares(a, b, 8, 1, 2, 10, 2, 64)
    BY SMT, <2>1, Prefix8
  <2>3. QED
    BY SMT, <2>2 DEF Compares
<1>6. InBlock(a, <<b, 12>>, 8) <=> a[1] = b[1] /\ a[2] \div 16 = b[2] \div 16
  <2>1. Cut(4, a, b, 8, 1, 4, 12, 2, 16)
    BY SMT, <1>1, <1>2 DEF Cut
  <2>2. Compares(a, b, 8, 1, 4, 12, 2, 16)
    BY SMT, <2>1, Prefix8
  <2>3. QED
    BY SMT, <2>2 DEF Compares
<1>7. InBlock(a, <<b, 15>>, 8) <=> a[1] = b[1] /\ a[2] \div 2 = b[2] \div 2
  <2>1. Cut(4, a, b, 8, 1, 7, 15, 2, 2)
    BY SMT, <1>1, <1>2 DEF Cut
  <2>2. Compares(a, b, 8, 1, 7, 15, 2, 2)
    BY SMT, <2>1, Prefix8
  <2>3. QED
    BY SMT, <2>2 DEF Compares
<1>8. InBlock(a, <<b, 16>>, 8) <=> a[1] = b[1] /\ a[2] = b[2]
  <2>1. Cut(4, a, b, 8, 2, 0, 16, 3, 1)
    BY SMT, <1>1, <1>2 DEF Cut
  <2>2. Compares(a, b, 8, 2, 0, 16, 3, 1)
    BY SMT, <2>1, Prefix8
  <2>3. QED
    BY SMT, <2>2 DEF Compares
<1>9. InBlock(a, <<b, 24>>, 8) <=> a[1] = b[1] /\ a[2] = b[2] /\ a[3] = b[3]
  <2>1. Cut(4, a, b, 8, 3, 0, 24, 4, 1)
    BY SMT, <1>1, <1>2 DEF Cut
  <2>2. Compares(a, b, 8, 3, 0, 24, 4, 1)
    BY SMT, <2>1, Prefix8
  <2>3. QED
    BY SMT, <2>2 DEF Compares
<1>10. QED
  BY <1>3, <1>4, <1>5, <1>6, <1>7, <1>8, <1>9 DEF Compared4

\* What the prefix lengths that occur compare.
Compared6(a, b) ==
  /\ InBlock(a, <<b, 7>>, 16) <=> a[1] \div 512 = b[1] \div 512
  /\ InBlock(a, <<b, 8>>, 16) <=> a[1] \div 256 = b[1] \div 256
  /\ InBlock(a, <<b, 10>>, 16) <=> a[1] \div 64 = b[1] \div 64
  /\ InBlock(a, <<b, 16>>, 16) <=> a[1] = b[1]
  /\ InBlock(a, <<b, 20>>, 16) <=> a[1] = b[1] /\ a[2] \div 4096 = b[2] \div 4096
  /\ InBlock(a, <<b, 23>>, 16) <=> a[1] = b[1] /\ a[2] \div 512 = b[2] \div 512
  /\ InBlock(a, <<b, 32>>, 16) <=> a[1] = b[1] /\ a[2] = b[2]
  /\ InBlock(a, <<b, 64>>, 16) <=> a[1] = b[1] /\ a[2] = b[2] /\ a[3] = b[3] /\ a[4] = b[4]

\* The lengths that occur for IPv6.
LEMMA Lengths6 ==
  ASSUME NEW a \in Ipv6Addresses, NEW b \in [1..8 -> Nat]
  PROVE  Compared6(a, b)
<1>1. Powers[13] = 4096 /\ Powers[10] = 512 /\ Powers[9] = 256 /\ Powers[7] = 64
  BY SMT DEF Powers
<1>2. a \in [1..8 -> Nat]
  BY ZenonT(30), WordsAreNat DEF Ipv6Addresses
<1>3. InBlock(a, <<b, 7>>, 16) <=> a[1] \div 512 = b[1] \div 512
  <2>1. Cut(8, a, b, 16, 0, 7, 7, 1, 512)
    BY SMT, <1>1, <1>2 DEF Cut
  <2>2. Compares(a, b, 16, 0, 7, 7, 1, 512)
    BY SMT, <2>1, Prefix16
  <2>3. QED
    BY SMT, <2>2 DEF Compares
<1>4. InBlock(a, <<b, 8>>, 16) <=> a[1] \div 256 = b[1] \div 256
  <2>1. Cut(8, a, b, 16, 0, 8, 8, 1, 256)
    BY SMT, <1>1, <1>2 DEF Cut
  <2>2. Compares(a, b, 16, 0, 8, 8, 1, 256)
    BY SMT, <2>1, Prefix16
  <2>3. QED
    BY SMT, <2>2 DEF Compares
<1>5. InBlock(a, <<b, 10>>, 16) <=> a[1] \div 64 = b[1] \div 64
  <2>1. Cut(8, a, b, 16, 0, 10, 10, 1, 64)
    BY SMT, <1>1, <1>2 DEF Cut
  <2>2. Compares(a, b, 16, 0, 10, 10, 1, 64)
    BY SMT, <2>1, Prefix16
  <2>3. QED
    BY SMT, <2>2 DEF Compares
<1>6. InBlock(a, <<b, 16>>, 16) <=> a[1] = b[1]
  <2>1. Cut(8, a, b, 16, 1, 0, 16, 2, 1)
    BY SMT, <1>1, <1>2 DEF Cut
  <2>2. Compares(a, b, 16, 1, 0, 16, 2, 1)
    BY SMT, <2>1, Prefix16
  <2>3. QED
    BY SMT, <2>2 DEF Compares
<1>7. InBlock(a, <<b, 20>>, 16) <=> a[1] = b[1] /\ a[2] \div 4096 = b[2] \div 4096
  <2>1. Cut(8, a, b, 16, 1, 4, 20, 2, 4096)
    BY SMT, <1>1, <1>2 DEF Cut
  <2>2. Compares(a, b, 16, 1, 4, 20, 2, 4096)
    BY SMT, <2>1, Prefix16
  <2>3. QED
    BY SMT, <2>2 DEF Compares
<1>8. InBlock(a, <<b, 23>>, 16) <=> a[1] = b[1] /\ a[2] \div 512 = b[2] \div 512
  <2>1. Cut(8, a, b, 16, 1, 7, 23, 2, 512)
    BY SMT, <1>1, <1>2 DEF Cut
  <2>2. Compares(a, b, 16, 1, 7, 23, 2, 512)
    BY SMT, <2>1, Prefix16
  <2>3. QED
    BY SMT, <2>2 DEF Compares
<1>9. InBlock(a, <<b, 32>>, 16) <=> a[1] = b[1] /\ a[2] = b[2]
  <2>1. Cut(8, a, b, 16, 2, 0, 32, 3, 1)
    BY SMT, <1>1, <1>2 DEF Cut
  <2>2. Compares(a, b, 16, 2, 0, 32, 3, 1)
    BY SMT, <2>1, Prefix16
  <2>3. QED
    BY SMT, <2>2 DEF Compares
<1>10. InBlock(a, <<b, 64>>, 16) <=> a[1] = b[1] /\ a[2] = b[2] /\ a[3] = b[3] /\ a[4] = b[4]
  <2>1. Cut(8, a, b, 16, 4, 0, 64, 5, 1)
    BY SMT, <1>1, <1>2 DEF Cut
  <2>2. Compares(a, b, 16, 4, 0, 64, 5, 1)
    BY SMT, <2>1, Prefix16
  <2>3. QED
    BY SMT, <2>2 DEF Compares
<1>11. QED
  BY <1>3, <1>4, <1>5, <1>6, <1>7, <1>8, <1>9, <1>10 DEF Compared6

\* Every IPv4 address: the conditions of the code say that it is in one of the
\* blocks, and nothing else.
LEMMA Ipv4Agrees ==
  ASSUME NEW a \in Ipv4Addresses
  PROVE  ipv4_private_or_special(a) <=> Ipv4Special(a)
<1>1. \A i \in 1..4 : a[i] \in Nat /\ a[i] < 256
  BY SMT DEF Ipv4Addresses, Octet
<1>2. InBlock(a, <<<<0, 0, 0, 0>>, 8>>, 8) <=> a[1] = 0
  <2>1. <<0, 0, 0, 0>> \in [1..4 -> Nat]
    BY SMT
  <2>2. Compared4(a, <<0, 0, 0, 0>>)
    BY SMT, <2>1, Lengths4
  <2>3. QED
    BY SMT, <1>1, <2>2 DEF Compared4
<1>3. InBlock(a, <<<<10, 0, 0, 0>>, 8>>, 8) <=> a[1] = 10
  <2>1. <<10, 0, 0, 0>> \in [1..4 -> Nat]
    BY SMT
  <2>2. Compared4(a, <<10, 0, 0, 0>>)
    BY SMT, <2>1, Lengths4
  <2>3. QED
    BY SMT, <1>1, <2>2 DEF Compared4
<1>4. InBlock(a, <<<<100, 64, 0, 0>>, 10>>, 8) <=> a[1] = 100 /\ 64 <= a[2] /\ a[2] < 128
  <2>1. <<100, 64, 0, 0>> \in [1..4 -> Nat]
    BY SMT
  <2>2. Compared4(a, <<100, 64, 0, 0>>)
    BY SMT, <2>1, Lengths4
  <2>3. QED
    BY SMT, <1>1, <2>2 DEF Compared4
<1>5. InBlock(a, <<<<127, 0, 0, 0>>, 8>>, 8) <=> a[1] = 127
  <2>1. <<127, 0, 0, 0>> \in [1..4 -> Nat]
    BY SMT
  <2>2. Compared4(a, <<127, 0, 0, 0>>)
    BY SMT, <2>1, Lengths4
  <2>3. QED
    BY SMT, <1>1, <2>2 DEF Compared4
<1>6. InBlock(a, <<<<169, 254, 0, 0>>, 16>>, 8) <=> a[1] = 169 /\ a[2] = 254
  <2>1. <<169, 254, 0, 0>> \in [1..4 -> Nat]
    BY SMT
  <2>2. Compared4(a, <<169, 254, 0, 0>>)
    BY SMT, <2>1, Lengths4
  <2>3. QED
    BY SMT, <1>1, <2>2 DEF Compared4
<1>7. InBlock(a, <<<<172, 16, 0, 0>>, 12>>, 8) <=> a[1] = 172 /\ 16 <= a[2] /\ a[2] < 32
  <2>1. <<172, 16, 0, 0>> \in [1..4 -> Nat]
    BY SMT
  <2>2. Compared4(a, <<172, 16, 0, 0>>)
    BY SMT, <2>1, Lengths4
  <2>3. QED
    BY SMT, <1>1, <2>2 DEF Compared4
<1>8. InBlock(a, <<<<192, 0, 0, 0>>, 24>>, 8) <=> a[1] = 192 /\ a[2] = 0 /\ a[3] = 0
  <2>1. <<192, 0, 0, 0>> \in [1..4 -> Nat]
    BY SMT
  <2>2. Compared4(a, <<192, 0, 0, 0>>)
    BY SMT, <2>1, Lengths4
  <2>3. QED
    BY SMT, <1>1, <2>2 DEF Compared4
<1>9. InBlock(a, <<<<192, 0, 2, 0>>, 24>>, 8) <=> a[1] = 192 /\ a[2] = 0 /\ a[3] = 2
  <2>1. <<192, 0, 2, 0>> \in [1..4 -> Nat]
    BY SMT
  <2>2. Compared4(a, <<192, 0, 2, 0>>)
    BY SMT, <2>1, Lengths4
  <2>3. QED
    BY SMT, <1>1, <2>2 DEF Compared4
<1>10. InBlock(a, <<<<192, 88, 99, 0>>, 24>>, 8) <=> a[1] = 192 /\ a[2] = 88 /\ a[3] = 99
  <2>1. <<192, 88, 99, 0>> \in [1..4 -> Nat]
    BY SMT
  <2>2. Compared4(a, <<192, 88, 99, 0>>)
    BY SMT, <2>1, Lengths4
  <2>3. QED
    BY SMT, <1>1, <2>2 DEF Compared4
<1>11. InBlock(a, <<<<192, 168, 0, 0>>, 16>>, 8) <=> a[1] = 192 /\ a[2] = 168
  <2>1. <<192, 168, 0, 0>> \in [1..4 -> Nat]
    BY SMT
  <2>2. Compared4(a, <<192, 168, 0, 0>>)
    BY SMT, <2>1, Lengths4
  <2>3. QED
    BY SMT, <1>1, <2>2 DEF Compared4
<1>12. InBlock(a, <<<<198, 18, 0, 0>>, 15>>, 8) <=> a[1] = 198 /\ 18 <= a[2] /\ a[2] < 20
  <2>1. <<198, 18, 0, 0>> \in [1..4 -> Nat]
    BY SMT
  <2>2. Compared4(a, <<198, 18, 0, 0>>)
    BY SMT, <2>1, Lengths4
  <2>3. QED
    BY SMT, <1>1, <2>2 DEF Compared4
<1>13. InBlock(a, <<<<198, 51, 100, 0>>, 24>>, 8) <=> a[1] = 198 /\ a[2] = 51 /\ a[3] = 100
  <2>1. <<198, 51, 100, 0>> \in [1..4 -> Nat]
    BY SMT
  <2>2. Compared4(a, <<198, 51, 100, 0>>)
    BY SMT, <2>1, Lengths4
  <2>3. QED
    BY SMT, <1>1, <2>2 DEF Compared4
<1>14. InBlock(a, <<<<203, 0, 113, 0>>, 24>>, 8) <=> a[1] = 203 /\ a[2] = 0 /\ a[3] = 113
  <2>1. <<203, 0, 113, 0>> \in [1..4 -> Nat]
    BY SMT
  <2>2. Compared4(a, <<203, 0, 113, 0>>)
    BY SMT, <2>1, Lengths4
  <2>3. QED
    BY SMT, <1>1, <2>2 DEF Compared4
<1>15. InBlock(a, <<<<224, 0, 0, 0>>, 4>>, 8) <=> 224 <= a[1] /\ a[1] < 240
  <2>1. <<224, 0, 0, 0>> \in [1..4 -> Nat]
    BY SMT
  <2>2. Compared4(a, <<224, 0, 0, 0>>)
    BY SMT, <2>1, Lengths4
  <2>3. QED
    BY SMT, <1>1, <2>2 DEF Compared4
<1>16. InBlock(a, <<<<240, 0, 0, 0>>, 4>>, 8) <=> 240 <= a[1] /\ a[1] < 256
  <2>1. <<240, 0, 0, 0>> \in [1..4 -> Nat]
    BY SMT
  <2>2. Compared4(a, <<240, 0, 0, 0>>)
    BY SMT, <2>1, Lengths4
  <2>3. QED
    BY SMT, <1>1, <2>2 DEF Compared4
<1>17. Ipv4Special(a) <=>
        \/ a[1] = 0
        \/ a[1] = 10
        \/ a[1] = 100 /\ 64 <= a[2] /\ a[2] < 128
        \/ a[1] = 127
        \/ a[1] = 169 /\ a[2] = 254
        \/ a[1] = 172 /\ 16 <= a[2] /\ a[2] < 32
        \/ a[1] = 192 /\ a[2] = 0 /\ a[3] = 0
        \/ a[1] = 192 /\ a[2] = 0 /\ a[3] = 2
        \/ a[1] = 192 /\ a[2] = 88 /\ a[3] = 99
        \/ a[1] = 192 /\ a[2] = 168
        \/ a[1] = 198 /\ 18 <= a[2] /\ a[2] < 20
        \/ a[1] = 198 /\ a[2] = 51 /\ a[3] = 100
        \/ a[1] = 203 /\ a[2] = 0 /\ a[3] = 113
        \/ 224 <= a[1] /\ a[1] < 240
        \/ 240 <= a[1] /\ a[1] < 256
  <2>1. Ipv4Special(a) <=>
          \/ InBlock(a, <<<<0, 0, 0, 0>>, 8>>, 8)
          \/ InBlock(a, <<<<10, 0, 0, 0>>, 8>>, 8)
          \/ InBlock(a, <<<<100, 64, 0, 0>>, 10>>, 8)
          \/ InBlock(a, <<<<127, 0, 0, 0>>, 8>>, 8)
          \/ InBlock(a, <<<<169, 254, 0, 0>>, 16>>, 8)
          \/ InBlock(a, <<<<172, 16, 0, 0>>, 12>>, 8)
          \/ InBlock(a, <<<<192, 0, 0, 0>>, 24>>, 8)
          \/ InBlock(a, <<<<192, 0, 2, 0>>, 24>>, 8)
          \/ InBlock(a, <<<<192, 88, 99, 0>>, 24>>, 8)
          \/ InBlock(a, <<<<192, 168, 0, 0>>, 16>>, 8)
          \/ InBlock(a, <<<<198, 18, 0, 0>>, 15>>, 8)
          \/ InBlock(a, <<<<198, 51, 100, 0>>, 24>>, 8)
          \/ InBlock(a, <<<<203, 0, 113, 0>>, 24>>, 8)
          \/ InBlock(a, <<<<224, 0, 0, 0>>, 4>>, 8)
          \/ InBlock(a, <<<<240, 0, 0, 0>>, 4>>, 8)
    BY SMT DEF Ipv4Special, Ipv4Blocks
  <2>2. QED
    BY SMT, <2>1, <1>2, <1>3, <1>4, <1>5, <1>6, <1>7, <1>8, <1>9, <1>10, <1>11, <1>12, <1>13, <1>14, <1>15, <1>16
<1>18. QED
  BY SMT, <1>1, <1>17 DEF ipv4_private_or_special

\* A prefix of 128 bits is the whole address.
LEMMA WholeAddress ==
  ASSUME NEW a \in [1..8 -> Nat], NEW b \in [1..8 -> Nat]
  PROVE  InBlock(a, <<b, 128>>, 16) <=> a = b
<1>1. InBlock(a, <<b, 128>>, 16) <=> \A i \in 1..8 : Agree(a[i], b[i], 128 - 16 * (i - 1), 16)
  <2>1. DOMAIN a = 1..8
    BY SMT
  <2>2. QED
    BY <2>1 DEF InBlock
<1>2. ASSUME NEW i \in 1..8
      PROVE  Agree(a[i], b[i], 128 - 16 * (i - 1), 16) <=> a[i] = b[i]
  <2> DEFINE bits == 128 - 16 * (i - 1)
  <2>1. bits >= 16 /\ bits > 0
    BY SMT
  <2> HIDE DEF bits
  <2>2. Agree(a[i], b[i], bits, 16) <=> a[i] \div 1 = b[i] \div 1
    BY ZenonT(30), <2>1 DEF Agree
  <2>3. a[i] \div 1 = a[i] /\ b[i] \div 1 = b[i]
    BY SMT
  <2>4. QED
    BY <2>2, <2>3 DEF bits
<1>3. a = b <=> \A i \in 1..8 : a[i] = b[i]
  BY SMT
<1>4. QED
  BY ZenonT(30), <1>1, <1>2, <1>3

\* The words of an IPv6 address that the checks name.
LEMMA OneToEight ==
  1 \in 1..8 /\ 2 \in 1..8 /\ 3 \in 1..8 /\ 4 \in 1..8 /\ 7 \in 1..8 /\ 8 \in 1..8
BY SMT

\* The two segments a block names, and the zeros after them.
LEMMA SegmentsAre ==
  ASSUME NEW x \in Nat, NEW y \in Nat
  PROVE  /\ Segments(x, y) \in [1..8 -> Nat]
         /\ Segments(x, y)[1] = x /\ Segments(x, y)[2] = y
         /\ Segments(x, y)[3] = 0 /\ Segments(x, y)[4] = 0
BY SMT DEF Segments

\* The three segments of 100::/64 that the check compares as a slice.
LEMMA TwoToFour ==
  ASSUME NEW a \in [1..8 -> Nat]
  PROVE  SubSeq(a, 2, 4) = <<0, 0, 0>> <=> a[2] = 0 /\ a[3] = 0 /\ a[4] = 0
<1>1. a \in Seq(Nat) /\ Len(a) = 8
  <2>1. 8 \in Nat
    BY SMT
  <2>2. QED
    BY Zenon, <2>1, WordsAreASequence
<1> DEFINE t == SubSeq(a, 2, 4)
<1>2. t \in Seq(Nat) /\ Len(t) = 3 /\ \A i \in 1..3 : t[i] = a[i + 1]
  BY SMT, <1>1
<1> HIDE DEF t
<1>3. t[1] = a[2] /\ t[2] = a[3] /\ t[3] = a[4] /\ t = <<t[1], t[2], t[3]>>
  BY SMT, <1>2
<1>4. t = <<0, 0, 0>> <=> a[2] = 0 /\ a[3] = 0 /\ a[4] = 0
  BY SMT, <1>3
<1>5. QED
  BY <1>4 DEF t

\* Every IPv6 address: the conditions of the code say that it is in one of the
\* blocks, or maps an IPv4 address that is, and nothing else.
LEMMA Ipv6Agrees ==
  ASSUME NEW a \in Ipv6Addresses
  PROVE  ipv6_private_or_special(a) <=>
           \/ \E block \in Ipv6Blocks : InBlock(a, block, 16)
           \/ IsMapped(a) /\ Ipv4Special(Mapped(a))
<1>1. a[1] \in Nat /\ a[2] \in Nat /\ a[1] < 65536
  <2>1. a[1] \in Segment /\ a[2] \in Segment
    BY Zenon, OneToEight DEF Ipv6Addresses
  <2>2. \A x \in Segment : x \in Nat /\ x < 65536
    BY SMT DEF Segment
  <2>3. QED
    BY <2>1, <2>2
<1>2. a \in [1..8 -> Nat]
  BY Zenon, WordsAreNat DEF Ipv6Addresses
<1>3. InBlock(a, <<Segments(0, 0), 128>>, 16) <=> a = <<0, 0, 0, 0, 0, 0, 0, 0>>
  <2>1. Segments(0, 0) = <<0, 0, 0, 0, 0, 0, 0, 0>> /\ Segments(0, 0) \in [1..8 -> Nat]
    BY SMT DEF Segments
  <2>2. QED
    BY SMT, <1>2, <2>1, WholeAddress
<1>4. InBlock(a, <<[Segments(0, 0) EXCEPT ![8] = 1], 128>>, 16) <=> a = <<0, 0, 0, 0, 0, 0, 0, 1>>
  <2>1. [Segments(0, 0) EXCEPT ![8] = 1] = <<0, 0, 0, 0, 0, 0, 0, 1>> /\ [Segments(0, 0) EXCEPT ![8] = 1] \in [1..8 -> Nat]
    BY SMT DEF Segments
  <2>2. QED
    BY SMT, <1>2, <2>1, WholeAddress
<1>5. InBlock(a, <<Segments(100, 65435), 32>>, 16) <=> a[1] = 100 /\ a[2] = 65435
  <2> DEFINE b == Segments(100, 65435)
  <2>1. b \in [1..8 -> Nat] /\ b[1] = 100 /\ b[2] = 65435 /\ b[3] = 0 /\ b[4] = 0
    BY SMT, SegmentsAre
  <2> HIDE DEF b
  <2>2. Compared6(a, b)
    BY SMT, <2>1, Lengths6
  <2>3. InBlock(a, <<b, 32>>, 16) <=> a[1] = 100 /\ a[2] = 65435
    BY SMT, <1>1, <2>1, <2>2 DEF Compared6
  <2>4. QED
    BY SMT, <2>3 DEF b
<1>6. InBlock(a, <<Segments(256, 0), 64>>, 16) <=> a[1] = 256 /\ a[2] = 0 /\ a[3] = 0 /\ a[4] = 0
  <2> DEFINE b == Segments(256, 0)
  <2>1. b \in [1..8 -> Nat] /\ b[1] = 256 /\ b[2] = 0 /\ b[3] = 0 /\ b[4] = 0
    BY SMT, SegmentsAre
  <2> HIDE DEF b
  <2>2. Compared6(a, b)
    BY SMT, <2>1, Lengths6
  <2>3. InBlock(a, <<b, 64>>, 16) <=> a[1] = 256 /\ a[2] = 0 /\ a[3] = 0 /\ a[4] = 0
    BY SMT, <1>1, <2>1, <2>2 DEF Compared6
  <2>4. QED
    BY SMT, <2>3 DEF b
<1>7. InBlock(a, <<Segments(8193, 0), 23>>, 16) <=> a[1] = 8193 /\ 0 <= a[2] /\ a[2] < 512
  <2> DEFINE b == Segments(8193, 0)
  <2>1. b \in [1..8 -> Nat] /\ b[1] = 8193 /\ b[2] = 0 /\ b[3] = 0 /\ b[4] = 0
    BY SMT, SegmentsAre
  <2> HIDE DEF b
  <2>2. Compared6(a, b)
    BY SMT, <2>1, Lengths6
  <2>3. InBlock(a, <<b, 23>>, 16) <=> a[1] = 8193 /\ 0 <= a[2] /\ a[2] < 512
    BY SMT, <1>1, <2>1, <2>2 DEF Compared6
  <2>4. QED
    BY SMT, <2>3 DEF b
<1>8. InBlock(a, <<Segments(8193, 3512), 32>>, 16) <=> a[1] = 8193 /\ a[2] = 3512
  <2> DEFINE b == Segments(8193, 3512)
  <2>1. b \in [1..8 -> Nat] /\ b[1] = 8193 /\ b[2] = 3512 /\ b[3] = 0 /\ b[4] = 0
    BY SMT, SegmentsAre
  <2> HIDE DEF b
  <2>2. Compared6(a, b)
    BY SMT, <2>1, Lengths6
  <2>3. InBlock(a, <<b, 32>>, 16) <=> a[1] = 8193 /\ a[2] = 3512
    BY SMT, <1>1, <2>1, <2>2 DEF Compared6
  <2>4. QED
    BY SMT, <2>3 DEF b
<1>9. InBlock(a, <<Segments(8194, 0), 16>>, 16) <=> a[1] = 8194
  <2> DEFINE b == Segments(8194, 0)
  <2>1. b \in [1..8 -> Nat] /\ b[1] = 8194 /\ b[2] = 0 /\ b[3] = 0 /\ b[4] = 0
    BY SMT, SegmentsAre
  <2> HIDE DEF b
  <2>2. Compared6(a, b)
    BY SMT, <2>1, Lengths6
  <2>3. InBlock(a, <<b, 16>>, 16) <=> a[1] = 8194
    BY SMT, <1>1, <2>1, <2>2 DEF Compared6
  <2>4. QED
    BY SMT, <2>3 DEF b
<1>10. InBlock(a, <<Segments(16383, 0), 20>>, 16) <=> a[1] = 16383 /\ 0 <= a[2] /\ a[2] < 4096
  <2> DEFINE b == Segments(16383, 0)
  <2>1. b \in [1..8 -> Nat] /\ b[1] = 16383 /\ b[2] = 0 /\ b[3] = 0 /\ b[4] = 0
    BY SMT, SegmentsAre
  <2> HIDE DEF b
  <2>2. Compared6(a, b)
    BY SMT, <2>1, Lengths6
  <2>3. InBlock(a, <<b, 20>>, 16) <=> a[1] = 16383 /\ 0 <= a[2] /\ a[2] < 4096
    BY SMT, <1>1, <2>1, <2>2 DEF Compared6
  <2>4. QED
    BY SMT, <2>3 DEF b
<1>11. InBlock(a, <<Segments(24320, 0), 16>>, 16) <=> a[1] = 24320
  <2> DEFINE b == Segments(24320, 0)
  <2>1. b \in [1..8 -> Nat] /\ b[1] = 24320 /\ b[2] = 0 /\ b[3] = 0 /\ b[4] = 0
    BY SMT, SegmentsAre
  <2> HIDE DEF b
  <2>2. Compared6(a, b)
    BY SMT, <2>1, Lengths6
  <2>3. InBlock(a, <<b, 16>>, 16) <=> a[1] = 24320
    BY SMT, <1>1, <2>1, <2>2 DEF Compared6
  <2>4. QED
    BY SMT, <2>3 DEF b
<1>12. InBlock(a, <<Segments(64512, 0), 7>>, 16) <=> 64512 <= a[1] /\ a[1] < 65024
  <2> DEFINE b == Segments(64512, 0)
  <2>1. b \in [1..8 -> Nat] /\ b[1] = 64512 /\ b[2] = 0 /\ b[3] = 0 /\ b[4] = 0
    BY SMT, SegmentsAre
  <2> HIDE DEF b
  <2>2. Compared6(a, b)
    BY SMT, <2>1, Lengths6
  <2>3. InBlock(a, <<b, 7>>, 16) <=> 64512 <= a[1] /\ a[1] < 65024
    BY SMT, <1>1, <2>1, <2>2 DEF Compared6
  <2>4. QED
    BY SMT, <2>3 DEF b
<1>13. InBlock(a, <<Segments(65152, 0), 10>>, 16) <=> 65152 <= a[1] /\ a[1] < 65216
  <2> DEFINE b == Segments(65152, 0)
  <2>1. b \in [1..8 -> Nat] /\ b[1] = 65152 /\ b[2] = 0 /\ b[3] = 0 /\ b[4] = 0
    BY SMT, SegmentsAre
  <2> HIDE DEF b
  <2>2. Compared6(a, b)
    BY SMT, <2>1, Lengths6
  <2>3. InBlock(a, <<b, 10>>, 16) <=> 65152 <= a[1] /\ a[1] < 65216
    BY SMT, <1>1, <2>1, <2>2 DEF Compared6
  <2>4. QED
    BY SMT, <2>3 DEF b
<1>14. InBlock(a, <<Segments(65280, 0), 8>>, 16) <=> 65280 <= a[1] /\ a[1] < 65536
  <2> DEFINE b == Segments(65280, 0)
  <2>1. b \in [1..8 -> Nat] /\ b[1] = 65280 /\ b[2] = 0 /\ b[3] = 0 /\ b[4] = 0
    BY SMT, SegmentsAre
  <2> HIDE DEF b
  <2>2. Compared6(a, b)
    BY SMT, <2>1, Lengths6
  <2>3. InBlock(a, <<b, 8>>, 16) <=> 65280 <= a[1] /\ a[1] < 65536
    BY SMT, <1>1, <2>1, <2>2 DEF Compared6
  <2>4. QED
    BY SMT, <2>3 DEF b
<1>15. (\E block \in Ipv6Blocks : InBlock(a, block, 16)) <=>
        \/ a = <<0, 0, 0, 0, 0, 0, 0, 0>>
        \/ a = <<0, 0, 0, 0, 0, 0, 0, 1>>
        \/ a[1] = 100 /\ a[2] = 65435
        \/ a[1] = 256 /\ a[2] = 0 /\ a[3] = 0 /\ a[4] = 0
        \/ a[1] = 8193 /\ 0 <= a[2] /\ a[2] < 512
        \/ a[1] = 8193 /\ a[2] = 3512
        \/ a[1] = 8194
        \/ a[1] = 16383 /\ 0 <= a[2] /\ a[2] < 4096
        \/ a[1] = 24320
        \/ 64512 <= a[1] /\ a[1] < 65024
        \/ 65152 <= a[1] /\ a[1] < 65216
        \/ 65280 <= a[1] /\ a[1] < 65536
  <2>1. (\E block \in Ipv6Blocks : InBlock(a, block, 16)) <=>
          \/ InBlock(a, <<Segments(0, 0), 128>>, 16)
          \/ InBlock(a, <<[Segments(0, 0) EXCEPT ![8] = 1], 128>>, 16)
          \/ InBlock(a, <<Segments(100, 65435), 32>>, 16)
          \/ InBlock(a, <<Segments(256, 0), 64>>, 16)
          \/ InBlock(a, <<Segments(8193, 0), 23>>, 16)
          \/ InBlock(a, <<Segments(8193, 3512), 32>>, 16)
          \/ InBlock(a, <<Segments(8194, 0), 16>>, 16)
          \/ InBlock(a, <<Segments(16383, 0), 20>>, 16)
          \/ InBlock(a, <<Segments(24320, 0), 16>>, 16)
          \/ InBlock(a, <<Segments(64512, 0), 7>>, 16)
          \/ InBlock(a, <<Segments(65152, 0), 10>>, 16)
          \/ InBlock(a, <<Segments(65280, 0), 8>>, 16)
    BY SMT DEF Ipv6Blocks
  <2>2. QED
    BY SMT, <2>1, <1>3, <1>4, <1>5, <1>6, <1>7, <1>8, <1>9, <1>10, <1>11, <1>12, <1>13, <1>14
<1>16. IsMapped(a) => (ipv4_private_or_special(Mapped(a)) <=> Ipv4Special(Mapped(a)))
  <2>1. a[7] \in Segment /\ a[8] \in Segment
    BY Zenon, OneToEight DEF Ipv6Addresses
  <2>2. \A x \in Segment : x \div 256 \in Octet /\ x % 256 \in Octet
    BY SMT DEF Segment, Octet
  <2>3. Mapped(a) \in Ipv4Addresses
    BY SMT, <2>1, <2>2 DEF Mapped, Ipv4Addresses
  <2>4. QED
    BY <2>3, Ipv4Agrees
<1>17. SubSeq(a, 2, 4) = <<0, 0, 0>> <=> a[2] = 0 /\ a[3] = 0 /\ a[4] = 0
  BY SMT, <1>2, TwoToFour
<1>18. QED
  BY SMT, <1>1, <1>15, <1>16, <1>17 DEF ipv6_private_or_special

\* is_private_or_special, for every address there is: the code's conditions
\* and the table of special-purpose blocks are the same predicate.
THEOREM RangesAreTheBlocks ==
  \A a \in Ipv4Addresses \cup Ipv6Addresses : is_private_or_special(a) <=> Special(a)
<1>1. ASSUME NEW a \in Ipv4Addresses PROVE is_private_or_special(a) <=> Special(a)
  <2>1. Len(a) = 4
    BY SMT DEF Ipv4Addresses
  <2>2. QED
    BY <2>1, Ipv4Agrees DEF is_private_or_special, Special
<1>2. ASSUME NEW a \in Ipv6Addresses PROVE is_private_or_special(a) <=> Special(a)
  <2>1. Len(a) # 4
    BY SMT DEF Ipv6Addresses
  <2>2. QED
    BY <2>1, Ipv6Agrees DEF is_private_or_special, Special
<1>3. QED
  BY <1>1, <1>2

-----------------------------------------------------------------------------
(* The configuration                                                       *)

\* AppConfig::load: a configuration that comes out of it has passed validate,
\* and the suffix of the consumer group changes nothing else.
LEMMA LoadPasses ==
  ASSUME NEW f \in Files, NEW env \in Environments,
         NEW c, c = load(f, env.settings, env.identity), c # None
  PROVE  validate(c) /\ Deserialised(c)
<1> DEFINE o == Overlay(f, env.settings)
<1>1. /\ f # None /\ validate(c)
      /\ c = apply_runtime_identity(o, env.identity)
  BY Zenon DEF load
<1>2. Deserialised(o)
  BY <1>1, FilesDeserialise
<1>3. o = [s \in DOMAIN o |-> o[s]]
  BY DEF Overlay
<1> HIDE DEF o
<1>4. CASE c = o
  BY <1>1, <1>2, <1>4
<1>5. CASE \E id : c = [o EXCEPT !.consumer.group_id = id]
  <2>1. PICK x : c = [o EXCEPT !["consumer"] = x]
    BY <1>5
  <2>2. /\ DOMAIN c = DOMAIN o
        /\ \A s \in DOMAIN o : s # "consumer" => c[s] = o[s]
    BY <1>3, <2>1
  <2>3. \A s \in {"server", "api", "router", "auth", "jwt", "readiness", "webhooks"} :
          s \in DOMAIN o /\ c[s] = o[s]
    BY <1>2, <2>2 DEF Deserialised
  <2>4. c.api = o.api /\ c.router = o.router /\ c.auth = o.auth /\ c.webhooks = o.webhooks
    BY <2>3
  <2>5. Deserialised(c)
    BY <1>2, <2>2, <2>4 DEF Deserialised
  <2>6. QED
    BY <1>1, <2>5
<1>6. QED
  BY <1>1, <1>4, <1>5 DEF apply_runtime_identity

\* Authenticator::new keeps the fields of its mode.
LEMMA AuthOfMode ==
  ASSUME cfg.auth.mode \in Modes, Deserialised(cfg), auth' = AuthConfig
  PROVE  AuthTyped' /\ auth'.mode = cfg.auth.mode
<1> DEFINE fields == {"mode"} \cup FieldsOf(cfg.auth.mode)
<1>1. \A x \in fields : x # "jwt" => auth'[x] = cfg.auth[x]
  BY DEF AuthConfig
<1>2. auth'.mode = cfg.auth.mode
  BY <1>1
<1>3. cfg.auth.mode = "disabled" => auth'.default_tenant = cfg.auth.default_tenant
  BY <1>1 DEF FieldsOf
<1>4. cfg.auth.mode = "static_bearer" => auth'.bearer_tokens = cfg.auth.bearer_tokens
  BY <1>1 DEF FieldsOf
<1>5. cfg.auth.mode = "proxy_mtls" => auth'.proxy_identities = cfg.auth.proxy_identities
  BY <1>1 DEF FieldsOf
<1>6. QED
  BY <1>2, <1>3, <1>4, <1>5 DEF AuthTyped, Deserialised

\* What main keeps of a configuration that passed.
LEMMA KeptOfPassed ==
  ASSUME Passed, cfg' = Remaining, auth'.mode = cfg.auth.mode
  PROVE  Kept'
<1>1. 0 \notin Remaining.timers
  <2>1. cfg.readiness.enabled => cfg.readiness.check_interval_ms # 0
    BY DEF Passed, validate, validate_observability, positive, ReadinessLimits
  <2>2. cfg.auth.mode = "jwt" => cfg.jwt.refresh_interval_secs # 0
    BY DEF Passed, validate, validate_kafka_and_auth, valid_jwt, positive
  <2>3. QED
    BY <2>1, <2>2 DEF Remaining
<1>2. \A i \in DOMAIN Remaining.destinations : HostTyped(Remaining.destinations[i])
  <2>1. Remaining.destinations = cfg.webhooks.destinations \/ Remaining.destinations = <<>>
    BY DEF Remaining
  <2>2. \A i \in DOMAIN cfg.webhooks.destinations : HostTyped(cfg.webhooks.destinations[i])
    BY DEF Passed, Deserialised, HostTyped
  <2>3. DOMAIN << >> = {}
    BY SMT
  <2>4. QED
    BY <2>1, <2>2, <2>3
<1>3. auth'.mode \in {"trusted_header", "proxy_mtls"} =>
        {cfg.server.http_addr, cfg.server.grpc_addr} = {"loopback"}
  BY DEF Passed, validate, validate_listener_and_limits
<1>4. Remaining.server = cfg.server
  BY DEF Remaining
<1>5. QED
  BY ZenonT(30), <1>1, <1>2, <1>3, <1>4 DEF Kept, Local, HostTyped

-----------------------------------------------------------------------------
(* Identities                                                              *)

\* What PrincipalEarned asks of a principal and the credential it is for.
Earned(c, p) ==
  LET token == c.authorization.token
  IN  /\ ~p.tenant_id.padded /\ p.tenant_id.name \notin BadNames
      /\ auth.mode \in {"disabled", "static_bearer", "trusted_header"} =>
           (p.can_publish => \E t \in auth.publish_tenants : trim(t) = p.tenant_id)
      /\ auth.mode = "trusted_header" => p.tenant_id = trim(c.tenant)
      /\ auth.mode = "static_bearer" => p.tenant_id = trim(auth.bearer_tokens[token])
      /\ auth.mode = "proxy_mtls" =>
           /\ p.tenant_id = trim(auth.proxy_identities[c.identity].tenant_id)
           /\ p.can_publish = auth.proxy_identities[c.identity].publish
      /\ auth.mode = "jwt" =>
           /\ Listed(token, token.signer)
           /\ token.alg \in auth.jwt.algorithms /\ ~token.expired /\ token.issued_for_us
           /\ p.tenant_id = trim(token.tenant)
           /\ p.can_publish = ("publish" \in token.scope.scopes)
           /\ p.can_subscribe = ("subscribe" \in token.scope.scopes)

\* A key of the cache is one that its document lists under that id.
LEMMA KeyIsListed ==
  ASSUME NEW d, NEW kid \in DOMAIN KeysOf(d)
  PROVE  \E k \in Range(d.keys) : k.kid = kid /\ k.key = KeysOf(d)[kid]
<1>1. \E k \in Range(d.keys) : k.kid = kid
  BY DEF KeysOf
<1>2. KeysOf(d)[kid] = (CHOOSE k \in Range(d.keys) : k.kid = kid).key
  BY DEF KeysOf
<1>3. QED
  BY Zenon, <1>1, <1>2

\* principal_with_permissions, when it does not refuse the name.
Grants(p, tenant, subscribe, publish) ==
  /\ p.tenant_id = trim(tenant) /\ ~p.tenant_id.padded /\ p.tenant_id.name \notin BadNames
  /\ p.can_subscribe = subscribe /\ p.can_publish = publish

\* A tenant's text that is not refused gives a principal for it, trimmed.
LEMMA Granted ==
  ASSUME NEW t \in Tenants, NEW subscribe, NEW publish, NEW p,
         p = principal_with_permissions(t, subscribe, publish), p # Refused("bad_request")
  PROVE  Grants(p, t, subscribe, publish)
<1>1. /\ t.name \notin BadNames
      /\ p = [tenant_id |-> trim(t), can_subscribe |-> subscribe, can_publish |-> publish]
  BY DEF principal_with_permissions
<1>2. trim(t).padded = FALSE /\ trim(t).name = t.name
  BY DEF trim, Tenants
<1>3. QED
  BY <1>1, <1>2 DEF Grants

\* legacy_principal: publishing follows the tenants that may.
LEMMA LegacyGranted ==
  ASSUME NEW t \in Tenants, NEW p, p = legacy_principal(t), p # Refused("bad_request")
  PROVE  /\ p.tenant_id = trim(t) /\ ~p.tenant_id.padded /\ p.tenant_id.name \notin BadNames
         /\ p.can_publish => \E u \in auth.publish_tenants : trim(u) = p.tenant_id
<1>1. p = principal_with_permissions(t, TRUE, t \in auth.publish_tenants)
  BY DEF legacy_principal
<1>2. Grants(p, t, TRUE, t \in auth.publish_tenants)
  BY Zenon, <1>1, Granted
<1>3. QED
  BY Zenon, <1>2 DEF Grants

Refusals == {Refused("bad_request"), Refused("unauthorized")}

\* authenticate_http and authenticate_grpc where they answer at once.
LEMMA AuthenticateEarns ==
  ASSUME AuthTyped, auth.mode # "jwt", NEW c \in Credentials,
         authenticate(c) \notin Refusals
  PROVE  Earned(c, authenticate(c))
<1> DEFINE p == authenticate(c)
<1>1. c.requested \in Tenants \cup {None} /\ c.tenant \in Tenants \cup {None}
  BY CredentialsAreTexts
<1>2. p # Refused("bad_request") /\ p # Refused("unauthorized")
  BY DEF Refusals
<1>3. CASE auth.mode = "disabled"
  <2>1. p = disabled_principal(c.requested)
    BY <1>3 DEF authenticate
  <2>2. PICK t \in Tenants : p = legacy_principal(t)
    BY <1>1, <1>2, <1>3, <2>1 DEF disabled_principal, AuthTyped
  <2> HIDE DEF p
  <2>3. QED
    BY <1>2, <1>3, <2>2, LegacyGranted DEF Earned, p
<1>4. CASE auth.mode = "static_bearer"
  <2> DEFINE token == parse_bearer(c.authorization)
  <2>1. p = static_token(c.authorization)
    BY <1>4 DEF authenticate
  <2>2. token \in DOMAIN auth.bearer_tokens /\ p = legacy_principal(auth.bearer_tokens[token])
    BY <1>2, <2>1 DEF static_token
  <2>3. token # None /\ auth.bearer_tokens[token] \in Tenants
    BY <1>4, <2>2 DEF AuthTyped
  <2>4. token = c.authorization.token
    BY <2>3 DEF parse_bearer
  <2> HIDE DEF p, token
  <2>5. QED
    BY <1>2, <1>4, <2>2, <2>3, <2>4, LegacyGranted DEF Earned, p
<1>5. CASE auth.mode = "trusted_header"
  <2>1. p = trusted_header(c.tenant)
    BY <1>5 DEF authenticate
  <2>2. c.tenant \in Tenants /\ p = legacy_principal(c.tenant)
    BY ZenonT(30), <1>1, <1>2, <2>1 DEF trusted_header
  <2> HIDE DEF p
  <2>3. QED
    BY <1>2, <1>5, <2>2, LegacyGranted DEF Earned, p
<1>6. CASE auth.mode = "proxy_mtls"
  <2> DEFINE mapping == auth.proxy_identities[c.identity]
  <2>1. p = proxy_identity(c.identity)
    BY ZenonT(30), <1>6 DEF authenticate
  <2>2. /\ c.identity \in DOMAIN auth.proxy_identities
        /\ p = principal_with_permissions(mapping.tenant_id, mapping.subscribe, mapping.publish)
    BY <1>2, <2>1 DEF proxy_identity
  <2>3. mapping.tenant_id \in Tenants
    BY ZenonT(30), <1>6, <2>2 DEF AuthTyped
  <2> HIDE DEF p
  <2>4. Grants(p, mapping.tenant_id, mapping.subscribe, mapping.publish)
    BY ZenonT(30), <1>2, <2>2, <2>3, Granted
  <2>5. QED
    BY ZenonT(30), <1>6, <2>4 DEF Earned, Grants, p
<1>7. QED
  BY <1>3, <1>4, <1>5, <1>6 DEF AuthTyped, Modes

\* jwt_principal, for a token whose key the file has listed.
LEMMA TokenEarns ==
  ASSUME auth.mode = "jwt", NEW c \in Credentials, NEW key,
         c.authorization.token # None, c.authorization.token.decodes,
         c.authorization.token.alg \in auth.jwt.algorithms,
         Listed(c.authorization.token, key),
         jwt_principal(c.authorization.token, key) \notin Refusals
  PROVE  Earned(c, jwt_principal(c.authorization.token, key))
<1> DEFINE token == c.authorization.token
           p == jwt_principal(token, key)
           scopes == claim_scopes(token.scope)
<1>1. token.tenant \in Tenants \cup {None}
  BY CredentialsAreTexts
<1>2. p # Refused("bad_request") /\ p # Refused("unauthorized")
  BY ZenonT(30) DEF Refusals
<1>3. /\ token.signer = key /\ ~token.expired /\ token.issued_for_us
      /\ token.tenant # None /\ scopes # None
      /\ p = principal_with_permissions(token.tenant, "subscribe" \in scopes, "publish" \in scopes)
  BY ZenonT(30), <1>2 DEF jwt_principal
<1>4. scopes = token.scope.scopes
  BY ZenonT(30), <1>3 DEF claim_scopes
<1> HIDE DEF p, scopes
<1>5. Grants(p, token.tenant, "subscribe" \in scopes, "publish" \in scopes)
  BY ZenonT(30), <1>1, <1>2, <1>3, Granted
<1>6. QED
  BY ZenonT(30), <1>3, <1>4, <1>5 DEF Earned, Grants, p

-----------------------------------------------------------------------------
(* Destinations                                                            *)

\* pinned_client: what it leaves to connect to has been checked, unless the
\* destination allows private addresses.
LEMMA ClientIsChecked ==
  ASSUME Pinned, NEW d \in destinations, NEW addresses, addresses # {},
         addresses = pinned_client(d.url.host, dns, d.allow_private_ips)
  PROVE  d.allow_private_ips \/ \A a \in addresses : ~Special(a)
<1> DEFINE literal == d.url.host.literal
           found == IF literal # <<>> THEN {literal} ELSE {dns[i] : i \in DOMAIN dns}
<1>1. /\ addresses = found
      /\ d.allow_private_ips \/ \A a \in found : ~is_private_or_special(a)
  BY Zenon DEF pinned_client
<1>2. found \subseteq Addresses
  <2>1. literal # <<>> => literal \in Addresses
    BY DEF Pinned, HostTyped
  <2>2. \A i \in DOMAIN dns : dns[i] \in Addresses
    BY DEF Pinned
  <2>3. QED
    BY Zenon, <2>1, <2>2
<1> HIDE DEF found
<1>3. \A a \in found : is_private_or_special(a) <=> Special(a)
  BY <1>2, RangesAreTheBlocks DEF Addresses
<1>4. QED
  BY Zenon, <1>1, <1>3

-----------------------------------------------------------------------------
(* Each part of the invariant, over each step                              *)

\* Before anything is loaded nothing is bound, cached or served.
LEMMA StartInit == Init => IInv
<1> SUFFICES ASSUME Init PROVE IInv
  OBVIOUS
<1>1. Order
  BY DEF Init, InitAuth, Order
<1>2. TrustIsLocal
  BY DEF Init, InitAuth, TrustIsLocal
<1>3. Keys
  BY DEF Init, InitAuth, Keys
<1>4. Keyed /\ PrincipalEarned /\ EgressChecked
  BY DEF Init, InitAuth, Keyed, PrincipalEarned, EgressChecked
<1>5. Pinned
  <2>1. DOMAIN << >> = {}
    BY SMT
  <2>2. QED
    BY Zenon, <2>1 DEF Init, Pinned
<1>6. QED
  BY <1>1, <1>2, <1>3, <1>4, <1>5 DEF IInv

\* A step that leaves the authenticator and its cache alone keeps what they
\* promise, while the phase takes no key set into use.
LEMMA SameAuth ==
  ASSUME Keys, Keyed, PrincipalEarned, UNCHANGED authVars,
         phase' \in {"construct", "bind", "spawn", "serve"} /\ auth.mode = "jwt" =>
           phase \in {"construct", "bind", "spawn", "serve"}
  PROVE  Keys' /\ Keyed' /\ PrincipalEarned'
<1> USE DEF authVars
<1>1. Keys'
  BY DEF Keys, Cached
<1>2. Keyed'
  BY ZenonT(30) DEF Keyed, Listed
<1>3. PrincipalEarned'
  BY DEF PrincipalEarned
<1>4. QED
  BY <1>1, <1>2, <1>3

\* A step that leaves the workers' attempts alone keeps what they promise.
LEMMA SameWebhooks ==
  ASSUME Pinned, EgressChecked, UNCHANGED webhookVars
  PROVE  Pinned' /\ EgressChecked'
BY DEF webhookVars, Pinned, EgressChecked, HostTyped

\* A configuration that passes is one that has passed, after the step.
LEMMA PassedLater ==
  ASSUME validate(cfg') /\ Deserialised(cfg')
  PROVE  Passed'
BY Zenon DEF Passed, validate, validate_listener_and_limits, validate_kafka_and_auth,
             validate_observability, validate_webhooks, Deserialised

\* AppConfig::load: what it returns has passed; what it refuses ends main.
LEMMA StepLoad ==
  ASSUME IInv, NEW f \in Files, NEW env \in Environments, load_configuration(f, env)
  PROVE  IInv'
<1> USE DEF IInv
<1>1. /\ phase = "load" /\ phase' \in {"refused", "loaded"}
      /\ phase' = "loaded" => cfg' = load(f, env.settings, env.identity) /\ cfg' # None
      /\ UNCHANGED <<authVars, webhookVars, listeners>>
  BY DEF load_configuration
<1>2. phase' = "loaded" => Passed'
  <2>1. ASSUME phase' = "loaded" PROVE validate(cfg') /\ Deserialised(cfg')
    BY <1>1, <2>1, LoadPasses
  <2>2. QED
    BY <2>1, PassedLater
<1>3. Order'
  BY <1>1, <1>2 DEF Order, authVars, webhookVars
<1>4. TrustIsLocal'
  BY <1>1 DEF TrustIsLocal, authVars
<1>5. Keys' /\ Keyed' /\ PrincipalEarned'
  BY <1>1, SameAuth
<1>6. Pinned' /\ EgressChecked'
  BY <1>1, SameWebhooks
<1>7. QED
  BY <1>3, <1>4, <1>5, <1>6

\* --check-config ends after a configuration has passed.
LEMMA StepCheck == ASSUME IInv, check_config PROVE IInv'
<1> USE DEF IInv
<1>1. /\ phase = "loaded" /\ phase' = "checked"
      /\ UNCHANGED <<authVars, webhookVars, cfg, listeners>>
  BY DEF check_config, At
<1>2. Order'
  BY <1>1 DEF Order, authVars, webhookVars
<1>3. TrustIsLocal'
  BY <1>1 DEF TrustIsLocal, authVars
<1>4. Keys' /\ Keyed' /\ PrincipalEarned'
  BY <1>1, SameAuth
<1>5. Pinned' /\ EgressChecked'
  BY <1>1, SameWebhooks
<1>6. QED
  BY <1>2, <1>3, <1>4, <1>5

\* Authenticator::new takes its part of the configuration, main keeps the rest.
LEMMA StepStart ==
  ASSUME IInv, NEW content \in Documents \cup {Partial, None}, start(content)
  PROVE  IInv'
<1> USE DEF IInv
<1>1. /\ phase = "loaded" /\ cfg' = Remaining /\ auth' = AuthConfig
      /\ phase' = IF cfg.auth.mode = "jwt" THEN "keys" ELSE "construct"
      /\ file' = content /\ written' = {content} \cap Documents
      /\ UNCHANGED <<webhookVars, listeners, jwks, reloading, request, answer, rewrites>>
  BY DEF start, authenticator_new
<1>2. Passed
  BY <1>1 DEF Order
<1>3. AuthTyped' /\ auth'.mode = cfg.auth.mode
  <2>1. cfg.auth.mode \in Modes /\ Deserialised(cfg)
    BY ZenonT(30), <1>2 DEF Passed, Deserialised
  <2>2. QED
    BY ZenonT(30), <1>1, <2>1, AuthOfMode
<1>4. Kept'
  BY ZenonT(30), <1>1, <1>2, <1>3, KeptOfPassed
<1>5. request' = None /\ answer' = None
  BY <1>1 DEF Order
<1>6. Order'
  BY <1>1, <1>3, <1>4, <1>5 DEF Order, webhookVars
<1>7. TrustIsLocal'
  BY <1>1 DEF TrustIsLocal, Order
<1>8. Keys'
  BY ZenonT(30), <1>1, <1>3 DEF Keys
<1>9. Keyed' /\ PrincipalEarned'
  BY <1>5 DEF Keyed, PrincipalEarned
<1>10. Pinned' /\ EgressChecked'
  BY <1>1, SameWebhooks
<1>11. QED
  BY <1>6, <1>7, <1>8, <1>9, <1>10

\* A reload that is checked has its cache from one of the documents.
LEMMA SwapIsOneDocument ==
  ASSUME Keys, ReadPasses, jwks' = KeysOf(file), UNCHANGED <<auth, file, written>>
  PROVE  Keys'
<1>1. file \in written
  <2>1. file # Partial
    BY DEF ReadPasses, acceptable, Partial
  <2>2. QED
    BY <2>1 DEF Keys, ReadPasses
<1>2. Cached(file)'
  BY DEF Cached, ReadPasses, acceptable, KeysOf
<1>3. QED
  BY <1>1, <1>2 DEF Keys

\* The size check of the first reload changes nothing else.
LEMMA StepInitialInspect == ASSUME IInv, initial_inspect PROVE IInv'
<1> USE DEF IInv
<1>1. /\ phase = "keys"
      /\ UNCHANGED <<webhookVars, phase, cfg, listeners, auth, jwks, file, written, request, answer>>
  BY ZenonT(30) DEF initial_inspect, reload_inspect
<1>2. Order'
  BY <1>1 DEF Order, webhookVars, Kept, Local, HostTyped, AuthTyped
<1>3. TrustIsLocal'
  BY <1>1 DEF TrustIsLocal
<1>4. Keys'
  BY ZenonT(30), <1>1 DEF Keys
<1>5. Keyed' /\ PrincipalEarned'
  BY <1>1 DEF Keyed, PrincipalEarned, Order
<1>6. Pinned' /\ EgressChecked'
  BY <1>1, SameWebhooks
<1>7. QED
  BY <1>2, <1>3, <1>4, <1>5, <1>6

\* The first reload fills the cache before anything is constructed.
LEMMA StepInitialSwap == ASSUME IInv, initial_swap PROVE IInv'
<1> USE DEF IInv
<1>1. /\ phase = "keys" /\ phase' = "construct" /\ ReadPasses /\ jwks' = KeysOf(file)
      /\ UNCHANGED <<webhookVars, cfg, listeners, auth, file, written, request, answer>>
  BY ZenonT(30) DEF initial_swap, At, reload_swap, Swap
<1>2. Order'
  BY <1>1 DEF Order, webhookVars, Kept, Local, HostTyped, AuthTyped
<1>3. TrustIsLocal'
  BY <1>1 DEF TrustIsLocal
<1>4. Keys'
  BY ZenonT(30), <1>1, SwapIsOneDocument
<1>5. Keyed' /\ PrincipalEarned'
  BY <1>1 DEF Keyed, PrincipalEarned, Order
<1>6. Pinned' /\ EgressChecked'
  BY <1>1, SameWebhooks
<1>7. QED
  BY <1>2, <1>3, <1>4, <1>5, <1>6

\* A first reload that fails ends main with nothing bound.
LEMMA StepInitialFailure == ASSUME IInv, initial_failure PROVE IInv'
<1> USE DEF IInv
<1>1. /\ phase = "keys" /\ phase' = "failed"
      /\ UNCHANGED <<authVars, webhookVars, cfg, listeners>>
  BY DEF initial_failure, At
<1>2. Order'
  BY <1>1 DEF Order, authVars, webhookVars, AuthTyped
<1>3. TrustIsLocal'
  BY <1>1 DEF TrustIsLocal, authVars
<1>4. Keys' /\ Keyed' /\ PrincipalEarned'
  BY <1>1, SameAuth
<1>5. Pinned' /\ EgressChecked'
  BY <1>1, SameWebhooks
<1>6. QED
  BY <1>2, <1>3, <1>4, <1>5

\* WebhookManager::new: the destinations with a worker are the configuration's.
LEMMA StepConstruct == ASSUME IInv, construct PROVE IInv'
<1> USE DEF IInv
<1>1. /\ phase = "construct" /\ phase' \in {"bind", "failed"}
      /\ destinations' = Range(cfg.destinations) \/ destinations' = destinations
      /\ UNCHANGED <<authVars, cfg, listeners, dns, attempt, connected, lookups>>
  BY ZenonT(30) DEF construct
<1>2. Order'
  BY <1>1 DEF Order, authVars, Kept, Local, HostTyped, AuthTyped
<1>3. TrustIsLocal'
  BY <1>1 DEF TrustIsLocal, authVars
<1>4. Keys' /\ Keyed' /\ PrincipalEarned'
  BY ZenonT(30), <1>1, SameAuth
<1>5. Pinned'
  <2>1. \A d \in Range(cfg.destinations) : HostTyped(d)
    BY <1>1 DEF Order, Kept, Range
  <2>2. \A d \in destinations' : HostTyped(d)
    BY <1>1, <2>1 DEF Pinned
  <2>3. QED
    BY ZenonT(30), <1>1, <2>2 DEF Pinned, Order, HostTyped
<1>6. EgressChecked'
  BY <1>1 DEF EgressChecked
<1>7. QED
  BY <1>2, <1>3, <1>4, <1>5, <1>6

\* The listeners are bound to what the configuration kept.
LEMMA StepBind == ASSUME IInv, bind_listeners PROVE IInv'
<1> USE DEF IInv
<1>1. /\ phase = "bind"
      /\ \/ phase' = "spawn" /\ listeners' = {cfg.server.http_addr, cfg.server.grpc_addr}
         \/ phase' = "failed" /\ listeners' = listeners
      /\ UNCHANGED <<authVars, webhookVars, cfg>>
  BY ZenonT(30) DEF bind_listeners
<1>2. Order'
  BY ZenonT(30), <1>1 DEF Order, authVars, webhookVars, Kept, Local, HostTyped, AuthTyped
<1>3. TrustIsLocal'
  BY <1>1 DEF TrustIsLocal, authVars, Order, Kept, Local
<1>4. Keys' /\ Keyed' /\ PrincipalEarned'
  BY <1>1, SameAuth
<1>5. Pinned' /\ EgressChecked'
  BY ZenonT(30), <1>1, SameWebhooks
<1>6. QED
  BY <1>2, <1>3, <1>4, <1>5

\* The timers of the tasks have a period, so that main comes to serve.
LEMMA StepSpawn == ASSUME IInv, spawn PROVE IInv'
<1> USE DEF IInv
<1>1. /\ phase = "spawn" /\ phase' = "serve"
      /\ UNCHANGED <<authVars, webhookVars, listeners>>
  BY ZenonT(30) DEF spawn, Order, Kept
<1>2. Order'
  BY <1>1 DEF Order, authVars, webhookVars, AuthTyped
<1>3. TrustIsLocal'
  BY <1>1 DEF TrustIsLocal, authVars
<1>4. Keys' /\ Keyed' /\ PrincipalEarned'
  BY <1>1, SameAuth
<1>5. Pinned' /\ EgressChecked'
  BY <1>1, SameWebhooks
<1>6. QED
  BY <1>2, <1>3, <1>4, <1>5

\* Steps of a daemon that serves, whatever they do to the rest.
LEMMA Serving ==
  ASSUME Order, TrustIsLocal, phase = "serve", UNCHANGED <<phase, listeners, auth>>
  PROVE  Order' /\ TrustIsLocal'
<1>1. AuthTyped'
  BY DEF Order, AuthTyped
<1>2. QED
  BY <1>1 DEF Order, TrustIsLocal

\* A refresh swaps the cache for one document's keys, or leaves it.
LEMMA StepRefresh ==
  ASSUME IInv, refresh_inspect \/ refresh_swap \/ refresh_refused
  PROVE  IInv'
<1> USE DEF IInv
<1>1. /\ phase = "serve" /\ phase' = phase
      /\ jwks' = jwks \/ (ReadPasses /\ jwks' = KeysOf(file))
      /\ UNCHANGED <<webhookVars, listeners, auth, file, written, request, answer>>
  BY DEF refresh_inspect, refresh_swap, refresh_refused, reload_inspect, reload_swap,
         reload_refused, Swap
<1>2. Order' /\ TrustIsLocal'
  BY <1>1, Serving
<1>3. Keys'
  <2>1. CASE jwks' = jwks
    BY <1>1, <2>1 DEF Keys, Cached
  <2>2. CASE ReadPasses /\ jwks' = KeysOf(file)
    BY <1>1, <2>2, SwapIsOneDocument
  <2>3. QED
    BY <1>1, <2>1, <2>2
<1>4. Keyed'
  BY ZenonT(30), <1>1 DEF Keyed, Listed
<1>5. PrincipalEarned'
  BY <1>1 DEF PrincipalEarned
<1>6. Pinned' /\ EgressChecked'
  BY <1>1, SameWebhooks
<1>7. QED
  BY <1>2, <1>3, <1>4, <1>5, <1>6

\* Answers: what is remembered of a request is a principal, or nothing.
LEMMA AnswerEarned ==
  ASSUME NEW c, NEW result, Answers(c, result), result \notin Refusals => Earned(c, result),
         UNCHANGED <<auth, written>>
  PROVE  PrincipalEarned'
<1>1. CASE result \in Refusals
  BY ZenonT(30), <1>1 DEF Answers, Refusals, PrincipalEarned
<1>2. CASE result \notin Refusals
  <2>1. answer' = [credential |-> c, principal |-> result]
    BY <1>2 DEF Answers, Refusals
  <2>2. answer'.credential = c /\ answer'.principal = result
    BY <2>1
  <2>3. Earned(c, result)
    BY <1>2
  <2>4. Earned(answer'.credential, answer'.principal)
    BY <2>2, <2>3
  <2>5. QED
    BY <2>4 DEF PrincipalEarned, Earned, Listed
<1>3. QED
  BY ZenonT(30), <1>1, <1>2

\* A request in a mode that answers at once.
LEMMA StepAnswered ==
  ASSUME IInv, NEW c \in Credentials, phase = "serve", request_answered(c),
         UNCHANGED <<webhookVars, phase, cfg, listeners>>
  PROVE  IInv'
<1> USE DEF IInv
<1>1. /\ auth.mode # "jwt" /\ Answers(c, authenticate(c))
      /\ UNCHANGED <<auth, jwks, file, written, request>>
  BY DEF request_answered
<1>2. Order' /\ TrustIsLocal'
  BY ZenonT(30), <1>1, Serving
<1>3. Keys' /\ Keyed'
  BY <1>1 DEF Keys, Keyed
<1>4. PrincipalEarned'
  <2>1. authenticate(c) \notin Refusals => Earned(c, authenticate(c))
    BY <1>1, AuthenticateEarns DEF Order
  <2>2. QED
    BY <1>1, <2>1, AnswerEarned
<1>5. Pinned' /\ EgressChecked'
  BY ZenonT(30), SameWebhooks
<1>6. QED
  BY <1>2, <1>3, <1>4, <1>5

\* A request takes its key from the cache, which is one of the documents.
LEMMA StepKey ==
  ASSUME IInv, NEW c \in Credentials, phase = "serve", request_key(c),
         UNCHANGED <<webhookVars, phase, cfg, listeners>>
  PROVE  IInv'
<1> USE DEF IInv
<1> DEFINE token == parse_bearer(c.authorization)
<1>1. /\ auth.mode = "jwt"
      /\ UNCHANGED <<auth, jwks, file, written>>
      /\ \/ /\ HasKey(token)
            /\ request' = [credential |-> c, key |-> jwks[token.kid]]
            /\ answer' = answer
         \/ /\ Answers(c, Refused("unauthorized"))
            /\ request' = request
  BY ZenonT(30) DEF request_key
<1>2. Order' /\ TrustIsLocal'
  BY ZenonT(30), <1>1, Serving
<1>3. Keys'
  BY <1>1 DEF Keys, Cached
<1>4. Pinned' /\ EgressChecked'
  BY SameWebhooks
<1>5. CASE HasKey(token) /\ request' = [credential |-> c, key |-> jwks[token.kid]] /\ answer' = answer
  <2>1. token # None /\ token.decodes /\ token.kid \in DOMAIN jwks /\ token.alg \in auth.jwt.algorithms
    BY ZenonT(30), <1>5 DEF HasKey
  <2>2. token = c.authorization.token
    BY ZenonT(30), <2>1 DEF parse_bearer
  <2>3. PICK d \in written : jwks = KeysOf(d)
    BY ZenonT(30), <1>1 DEF Keys, Cached
  <2>4. \E k \in Range(d.keys) : k.kid = token.kid /\ k.key = jwks[token.kid]
    BY ZenonT(30), <2>1, <2>3, KeyIsListed
  <2> HIDE DEF token
  <2>5. Listed(token, jwks[token.kid])
    BY ZenonT(30), <2>3, <2>4 DEF Listed
  <2>6. request'.credential = c /\ request'.key = jwks[token.kid]
    BY ZenonT(30), <1>5
  <2>7. Keyed'
    BY ZenonT(30), <1>1, <2>1, <2>2, <2>5, <2>6 DEF Keyed, Listed
  <2>8. PrincipalEarned'
    BY <1>1, <1>5 DEF PrincipalEarned
  <2>9. QED
    BY ZenonT(30), <1>2, <1>3, <1>4, <2>7, <2>8
<1>6. CASE Answers(c, Refused("unauthorized")) /\ request' = request
  <2>1. Keyed'
    BY ZenonT(30), <1>1, <1>6 DEF Keyed, Listed
  <2>2. PrincipalEarned'
    BY ZenonT(30), <1>1, <1>6, AnswerEarned DEF Refusals
  <2>3. QED
    BY ZenonT(30), <1>2, <1>3, <1>4, <2>1, <2>2
<1>7. QED
  BY ZenonT(30), <1>1, <1>5, <1>6

\* The cache may be another one by the time the token is verified; its key is
\* still one the file listed.
LEMMA StepVerified == ASSUME IInv, serve_verified PROVE IInv'
<1> USE DEF IInv
<1> DEFINE c == request.credential
           result == jwt_principal(c.authorization.token, request.key)
<1>1. /\ phase = "serve" /\ request # None /\ request' = None
      /\ Answers(c, result)
      /\ UNCHANGED <<webhookVars, phase, cfg, listeners, auth, jwks, file, written>>
  BY DEF serve_verified, request_verified
<1>2. Order' /\ TrustIsLocal'
  BY ZenonT(30), <1>1, Serving
<1>3. Keys' /\ Keyed'
  BY <1>1 DEF Keys, Cached, Keyed
<1>4. PrincipalEarned'
  <2>1. result \notin Refusals => Earned(c, result)
    BY <1>1, TokenEarns DEF Keyed
  <2> HIDE DEF c, result
  <2>2. QED
    BY ZenonT(30), <1>1, <2>1, AnswerEarned
<1>5. Pinned' /\ EgressChecked'
  BY <1>1, SameWebhooks
<1>6. QED
  BY <1>2, <1>3, <1>4, <1>5

\* The file may change at any time; what it has held stays listed.
LEMMA StepRewrite == ASSUME IInv, rewrite_file PROVE IInv'
<1> USE DEF IInv
<1>1. PICK content \in Documents \cup {Partial, None} :
        /\ phase \in {"keys", "serve"} /\ file' = content
        /\ written' = IF content \in Documents THEN written \cup {content} ELSE written
        /\ UNCHANGED <<webhookVars, phase, cfg, listeners, auth, jwks, request, answer>>
  BY ZenonT(30) DEF rewrite_file, rewrite
<1>2. written \subseteq written'
  BY <1>1
<1>3. Order'
  BY ZenonT(30), <1>1 DEF Order, webhookVars, Kept, Local, HostTyped, AuthTyped
<1>4. TrustIsLocal'
  BY <1>1 DEF TrustIsLocal
<1>5. Keys'
  BY <1>1, <1>2 DEF Keys, Cached
<1>6. Keyed'
  BY <1>1, <1>2 DEF Keyed, Listed
<1>7. PrincipalEarned'
  BY ZenonT(30), <1>1, <1>2 DEF PrincipalEarned
<1>8. Pinned' /\ EgressChecked'
  BY <1>1, SameWebhooks
<1>9. QED
  BY ZenonT(30), <1>3, <1>4, <1>5, <1>6, <1>7, <1>8

\* An attempt keeps the addresses that were checked for it.
LEMMA StepClient == ASSUME IInv, NEW d \in destinations, attempt_client(d) PROVE IInv'
<1> USE DEF IInv
<1> DEFINE addresses == pinned_client(d.url.host, dns, d.allow_private_ips)
<1>1. /\ phase = "serve" /\ addresses # {}
      /\ attempt' = [destination |-> d, addresses |-> addresses] /\ connected' = None
      /\ UNCHANGED <<authVars, phase, cfg, listeners, destinations, dns, lookups>>
  BY DEF attempt_client
<1>2. Order' /\ TrustIsLocal'
  BY <1>1, Serving DEF authVars
<1>3. Keys' /\ Keyed' /\ PrincipalEarned'
  BY <1>1, SameAuth
<1>4. d.allow_private_ips \/ \A a \in addresses : ~Special(a)
  BY <1>1, ClientIsChecked
<1> HIDE DEF addresses
<1>5. attempt'.destination = d /\ attempt'.addresses = addresses
  BY ZenonT(30), <1>1
<1>6. Pinned'
  BY <1>1, <1>4, <1>5 DEF Pinned, HostTyped
<1>7. EgressChecked'
  BY <1>1 DEF EgressChecked
<1>8. QED
  BY ZenonT(30), <1>2, <1>3, <1>6, <1>7

\* It connects to one of them.
LEMMA StepConnect == ASSUME IInv, attempt_connect PROVE IInv'
<1> USE DEF IInv
<1>1. PICK a \in attempt.addresses :
        /\ attempt # None /\ attempt' = None
        /\ connected' = [destination |-> attempt.destination, address |-> a]
        /\ UNCHANGED <<authVars, phase, cfg, listeners, destinations, dns, lookups>>
  BY ZenonT(30) DEF attempt_connect
<1>2. Order' /\ TrustIsLocal'
  <2>1. phase = "serve"
    BY ZenonT(30), <1>1 DEF Order
  <2>2. QED
    BY ZenonT(30), <1>1, <2>1, Serving DEF authVars
<1>3. Keys' /\ Keyed' /\ PrincipalEarned'
  BY ZenonT(30), <1>1, SameAuth
<1>4. Pinned'
  BY ZenonT(30), <1>1 DEF Pinned, HostTyped
<1>5. EgressChecked'
  <2>1. attempt.destination.allow_private_ips \/ ~Special(a)
    BY ZenonT(30), <1>1 DEF Pinned
  <2>2. connected'.destination = attempt.destination /\ connected'.address = a
    BY <1>1
  <2>3. QED
    BY ZenonT(30), <2>1, <2>2 DEF EgressChecked
<1>6. QED
  BY ZenonT(30), <1>2, <1>3, <1>4, <1>5

\* What the name resolves to afterwards does not reach an attempt.
LEMMA StepDns == ASSUME IInv, dns_changes PROVE IInv'
<1> USE DEF IInv
<1>1. PICK answers \in Resolutions :
        /\ phase = "serve" /\ dns' = answers
        /\ UNCHANGED <<authVars, phase, cfg, listeners, destinations, attempt, connected>>
  BY DEF dns_changes
<1>2. Order' /\ TrustIsLocal'
  BY <1>1, Serving DEF authVars
<1>3. Keys' /\ Keyed' /\ PrincipalEarned'
  BY ZenonT(30), <1>1, SameAuth
<1>4. Pinned' /\ EgressChecked'
  BY <1>1, NamesResolveToAddresses DEF Pinned, HostTyped, EgressChecked
<1>5. QED
  BY <1>2, <1>3, <1>4

-----------------------------------------------------------------------------
(* The theorems                                                            *)

\* Every step of the daemon keeps the invariant.
LEMMA StepInv == IInv /\ [Next]_vars => IInv'
<1> SUFFICES ASSUME IInv, [Next]_vars PROVE IInv'
  OBVIOUS
<1>1. CASE Next
  <2>1. CASE \E f \in Files, env \in Environments : load_configuration(f, env)
    BY <2>1, StepLoad
  <2>2. CASE check_config
    BY <2>2, StepCheck
  <2>3. CASE \E content \in Documents \cup {Partial, None} : start(content)
    BY <2>3, StepStart
  <2>4. CASE initial_inspect \/ initial_swap \/ initial_failure
    BY <2>4, StepInitialInspect, StepInitialSwap, StepInitialFailure
  <2>5. CASE construct \/ bind_listeners \/ spawn
    BY <2>5, StepConstruct, StepBind, StepSpawn
  <2>6. CASE refresh_inspect \/ refresh_swap \/ refresh_refused
    BY <2>6, StepRefresh
  <2>7. CASE serve_request
    BY <2>7, StepAnswered, StepKey DEF serve_request
  <2>8. CASE serve_verified \/ rewrite_file
    BY <2>8, StepVerified, StepRewrite
  <2>9. CASE \E d \in destinations : attempt_client(d)
    BY <2>9, StepClient
  <2>10. CASE attempt_connect \/ dns_changes
    BY <2>10, StepConnect, StepDns
  <2>11. QED
    BY ZenonT(30), <1>1, <2>1, <2>2, <2>3, <2>4, <2>5, <2>6, <2>7, <2>8, <2>9, <2>10 DEF Next
<1>2. CASE UNCHANGED vars
  <2>1. UNCHANGED <<authVars, webhookVars, phase, cfg, listeners>>
    BY <1>2 DEF vars
  <2>2. Passed => Passed'
    <3>1. Passed => validate(cfg') /\ Deserialised(cfg')
      BY Zenon, <2>1 DEF Passed
    <3>2. QED
      BY <3>1, PassedLater
  <2>3. Kept => Kept'
    BY ZenonT(30), <2>1 DEF authVars, Kept, Local, HostTyped
  <2>4. Order'
    BY <2>1, <2>2, <2>3 DEF IInv, Order, authVars, webhookVars, AuthTyped
  <2>5. TrustIsLocal'
    BY <2>1 DEF IInv, TrustIsLocal, authVars
  <2>6. QED
    BY <2>1, <2>4, <2>5, SameAuth, SameWebhooks DEF IInv
<1>3. QED
  BY <1>1, <1>2

\* Every reachable state of the daemon has the invariant above.
THEOREM StartupInvariant == Spec => []IInv
<1>1. Init => IInv
  BY StartInit
<1>2. IInv /\ [Next]_vars => IInv'
  BY StepInv
<1>3. QED
  BY <1>1, <1>2, PTL DEF Spec

\* validate and the numbers that are used later: no timer of period zero is
\* started, and every capacity that resolve_stream_queue_capacity lets through
\* is one that register_connection takes.
THEOREM AcceptedConfigurationsServe == Spec => []AcceptedServes
<1>1. IInv => AcceptedServes
  <2> SUFFICES ASSUME IInv PROVE AcceptedServes
    OBVIOUS
  <2>1. phase # "panicked"
    BY DEF IInv, Order
  <2>2. ASSUME phase = "loaded"
        PROVE  LET resolved == 1..cfg.api.max_stream_queue_capacity
                   taken == 1..cfg.router.max_queue_capacity
               IN  /\ cfg.api.stream_queue_capacity \in resolved
                   /\ resolved \subseteq taken
                   /\ cfg.router.default_queue_capacity \in taken
                   /\ \A d \in Range(cfg.webhooks.destinations) : d.queue_capacity \in taken
    <3>1. Passed
      BY <2>2 DEF IInv, Order
    <3>2. /\ cfg.api.stream_queue_capacity \in Nat /\ cfg.api.max_stream_queue_capacity \in Nat
          /\ cfg.router.default_queue_capacity \in Nat /\ cfg.router.max_queue_capacity \in Nat
      BY ZenonT(30), <3>1 DEF Passed, Deserialised, StreamLimits, RouterLimits
    <3>3. cfg.api.stream_queue_capacity > 0 /\ cfg.router.default_queue_capacity > 0
      BY ZenonT(30), <3>1 DEF Passed, validate, validate_listener_and_limits, positive, StreamLimits, RouterLimits
    <3>4. /\ cfg.router.default_queue_capacity <= cfg.router.max_queue_capacity
          /\ cfg.api.stream_queue_capacity <= cfg.api.max_stream_queue_capacity
          /\ cfg.api.max_stream_queue_capacity <= cfg.router.max_queue_capacity
      BY <3>1 DEF Passed, validate, validate_listener_and_limits
    <3>5. ASSUME NEW d \in Range(cfg.webhooks.destinations)
          PROVE  d.queue_capacity \in Nat /\ d.queue_capacity > 0
                 /\ d.queue_capacity <= cfg.router.max_queue_capacity
      <4>1. PICK i \in DOMAIN cfg.webhooks.destinations : d = cfg.webhooks.destinations[i]
        BY ZenonT(30) DEF Range
      <4>2. d.queue_capacity \in Nat
        BY ZenonT(30), <3>1, <4>1 DEF Passed, Deserialised
      <4>3. d.queue_capacity > 0 /\ d.queue_capacity <= cfg.router.max_queue_capacity
        BY <3>1, <4>1 DEF Passed, validate, validate_webhooks, positive, DestinationLimits
      <4>4. QED
        BY <4>2, <4>3
    <3>6. \A d \in Range(cfg.webhooks.destinations) :
            d.queue_capacity \in 1..cfg.router.max_queue_capacity
      BY <3>2, <3>5
    <3>7. QED
      BY <3>2, <3>3, <3>4, <3>6
  <2>3. QED
    BY <2>1, <2>2 DEF AcceptedServes
<1>2. QED
  BY <1>1, StartupInvariant, PTL

\* validate_listener_and_limits and the listeners of main: a header is taken
\* for an identity only behind the loopback address.
THEOREM TrustStaysLocal == Spec => []TrustIsLocal
<1>1. IInv => TrustIsLocal
  BY DEF IInv
<1>2. QED
  BY <1>1, StartupInvariant, PTL

\* reload_jwks: whatever is written when, the cache in use is the key set of
\* one document that passes.
THEOREM CacheStaysOneDocument == Spec => []CacheIsOneDocument
<1>1. IInv => CacheIsOneDocument
  BY DEF IInv, Keys, Cached, CacheIsOneDocument
<1>2. QED
  BY <1>1, StartupInvariant, PTL

\* authenticate_http, authenticate_grpc and jwt_principal: a principal has what
\* its request showed, and a token counts only with a key the file listed.
THEOREM PrincipalsAreEarned == Spec => []PrincipalEarned
<1>1. IInv => PrincipalEarned
  BY DEF IInv
<1>2. QED
  BY <1>1, StartupInvariant, PTL

\* pinned_client: an attempt connects to a checked address, whatever the name
\* resolves to by then.
THEOREM EgressStaysChecked == Spec => []EgressChecked
<1>1. IInv => EgressChecked
  BY DEF IInv
<1>2. QED
  BY <1>1, StartupInvariant, PTL

=============================================================================
