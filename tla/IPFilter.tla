------------------------------ MODULE IPFilter ------------------------------
(***************************************************************************)
(* The address filter of ipfilter/iplist.go.  An address is the sequence   *)
(* of its bits, BYTE of them to the byte; it is an IPv4 address, in the    *)
(* short form that To4 gives, or an IPv6 address, which is longer.  A nil  *)
(* IP or mask is the empty sequence.  A net is an address and a mask, of   *)
(* which a line "ip mask" may name any.                                    *)
(*                                                                         *)
(* The filter keeps the nets under an index: those whose mask begins with  *)
(* two bytes of ones by their first two bytes, those with one such byte by *)
(* their first byte, and the rest in a list.  Lists are sets here, for     *)
(* their order only decides which net is found first.                      *)
(***************************************************************************)
EXTENDS Integers, Sequences

CONSTANTS BYTE,      \* bits of a byte
          V4, V6     \* bits of an IPv4 and of an IPv6 address

ASSUME IPFilterAssumption ==
    /\ BYTE \in Nat \ {0} /\ V4 \in Nat /\ V6 \in Nat
    /\ 2 * BYTE <= V4 /\ V4 < V6

Bits(n) == [1 .. n -> {0, 1}]
IP == Bits(V4) \cup Bits(V6)
nil == <<>>

\* net.IPMask.Size: the leading ones of a mask, and 0 when ones follow a zero.
Leads(mask, n) == \A i \in DOMAIN mask : mask[i] = 1 <=> i <= n
Size(mask) == IF \E n \in 0 .. Len(mask) : Leads(mask, n)
                THEN CHOOSE n \in 0 .. Len(mask) : Leads(mask, n)
                ELSE 0

\* net.IPNet.Contains, for a net whose address and mask are of one length.
Contains(net, ip) ==
    /\ Len(ip) = Len(net.ip)
    /\ Len(net.mask) = Len(net.ip)
    /\ \A i \in DOMAIN ip : net.mask[i] = 1 => net.ip[i] = ip[i]

\* The first k bytes of an address.
Prefix(ip, k) == [i \in 1 .. k * BYTE |-> ip[i]]

-----------------------------------------------------------------------------
(* A line of the file is a CIDR block, two words of which each may be nil when *)
(* it is no address, or a single word.  An IPv4 address with an IPv6 mask, of  *)
(* which Contains would take the last bytes, is not considered; nor is a block *)
(* of IPv4 addresses that is written as one of IPv6 addresses.                 *)

CIDRLine == {l \in [kind : {"cidr"}, ip : IP, ones : 0 .. V6] : l.ones <= Len(l.ip)}
PairLine == {l \in [kind : {"pair"}, ip : IP \cup {nil}, mask : IP \cup {nil}] :
                l.ip = nil \/ Len(l.mask) <= Len(l.ip)}
Line == CIDRLine \cup PairLine \cup [kind : {"word"}]

CIDRMask(n, len) == [i \in 1 .. len |-> IF i <= n THEN 1 ELSE 0]

\* ParseLine; ParseCIDR clears the bits behind the mask.
ParseLine(line) ==
    IF line.kind = "cidr"
      THEN [ip |-> [i \in 1 .. Len(line.ip) |-> IF i <= line.ones THEN line.ip[i] ELSE 0],
            mask |-> CIDRMask(line.ones, Len(line.ip))]
      ELSE [ip |-> line.ip, mask |-> line.mask]

\* The words that ParseLine and ReadIPList index without a test: a second one,
\* and the address of a net that goes under an index.
Panics(line) ==
    \/ line.kind = "word"
    \/ line.kind = "pair" /\ line.ip = nil /\ Size(line.mask) >= BYTE

\* Faulty variant: nets of exactly two bytes of ones go under the first byte,
\* of exactly one byte under the first two.
Bucket_OffByOne(net) ==
    LET ones == Size(net.mask) IN
    CASE ones < BYTE -> <<"rest">>
      [] ones > BYTE /\ ones <= 2 * BYTE -> <<"idx1", Prefix(net.ip, 1)>>
      [] OTHER -> <<"idx2", Prefix(net.ip, 2)>>

\* Where ReadIPList puts a net, and what Contain looks through for an address.
Bucket(net) ==
    LET ones == Size(net.mask) IN
    CASE ones < BYTE -> <<"rest">>
      [] ones >= BYTE /\ ones < 2 * BYTE -> <<"idx1", Prefix(net.ip, 1)>>
      [] OTHER -> <<"idx2", Prefix(net.ip, 2)>>

Buckets(ip) == {<<"idx2", Prefix(ip, 2)>>, <<"idx1", Prefix(ip, 1)>>, <<"rest">>}

\* A filter is a set of pairs: a net and the bucket it is in.
EmptyFilter == {}
Insert(filter, net) == filter \cup {<<Bucket(net), net>>}
Contain(filter, ip) == \E x \in filter : x[1] \in Buckets(ip) /\ Contains(x[2], ip)
-----------------------------------------------------------------------------
(* What a list of lines means, without the index. *)

Covers(line, ip) ==
    \/ /\ line.kind = "cidr"
       /\ Len(line.ip) = Len(ip)
       /\ \A i \in DOMAIN ip : i <= line.ones => line.ip[i] = ip[i]
    \/ /\ line.kind = "pair"
       /\ Len(line.ip) = Len(ip) /\ Len(line.mask) = Len(ip)
       /\ \A i \in DOMAIN ip : line.mask[i] = 1 => line.ip[i] = ip[i]
=============================================================================
