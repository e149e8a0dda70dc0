---------------------------- MODULE Front_proofs ----------------------------
(***************************************************************************)
(* Safety of the front end, for every list of blocks, every length of      *)
(* addresses, every answer of the name service and every number of         *)
(* datagrams, ticks and units of traffic:                                  *)
(*   - the filter decides like the list it was read from: the index by     *)
(*     first bytes loses no block and finds none that does not match;      *)
(*   - a pooled buffer is never written while its datagram still needs it, *)
(*     and nobody sends on a closed channel;                               *)
(*   - only a malformed line of the list or a malformed answer of the name *)
(*     service ends the program;                                           *)
(*   - an answer that ended without an error is whole.                     *)
(***************************************************************************)
EXTENDS Front, Relay_proofs, FiniteSetTheorems, TLAPS

\* A tuple of n bits has length n.
LEMMA BitsLen ==
    ASSUME NEW n \in Nat, NEW b \in Bits(n)
    PROVE  b \in Seq({0, 1}) /\ Len(b) = n /\ DOMAIN b = 1 .. n
<1>1. b \in [1 .. n -> {0, 1}]
    BY DEF Bits
<1>2. b \in Seq({0, 1})
    BY <1>1
<1>3. Len(b) \in Nat /\ DOMAIN b = 1 .. Len(b)
    BY <1>2
<1>4. Len(b) = n
    BY <1>1, <1>3
<1> QED
    BY <1>1, <1>2, <1>4

\* An address is at least two bytes long.
LEMMA IPLen ==
    ASSUME NEW ip \in IP
    PROVE  /\ ip \in Seq({0, 1}) /\ Len(ip) \in Nat /\ DOMAIN ip = 1 .. Len(ip)
           /\ 2 * BYTE <= Len(ip) /\ BYTE <= Len(ip)
           /\ Len(ip) \in {V4, V6}
<1> USE IPFilterAssumption
<1>1. CASE ip \in Bits(V4)
    BY <1>1, BitsLen
<1>2. CASE ip \in Bits(V6)
    BY <1>2, BitsLen
<1> QED
    BY <1>1, <1>2 DEF IP

\* A mask with a positive Size begins with that many ones (net.IPMask.Size).
LEMMA SizeLeads ==
    ASSUME NEW mask \in Seq({0, 1}), Size(mask) > 0
    PROVE  /\ Size(mask) \in 1 .. Len(mask)
           /\ \A i \in 1 .. Size(mask) : mask[i] = 1
<1>1. Len(mask) \in Nat /\ DOMAIN mask = 1 .. Len(mask)
    OBVIOUS
<1>2. \E n \in 0 .. Len(mask) : Leads(mask, n)
    BY DEF Size
<1>3. Size(mask) \in 0 .. Len(mask) /\ Leads(mask, Size(mask))
    BY <1>2 DEF Size
<1> QED
    BY <1>1, <1>3 DEF Leads

\* The size of every mask is a number.
LEMMA SizeNat ==
    ASSUME NEW mask \in Seq({0, 1})
    PROVE  Size(mask) \in Nat
<1>1. Len(mask) \in Nat
    OBVIOUS
<1>2. CASE \E n \in 0 .. Len(mask) : Leads(mask, n)
    <2>1. Size(mask) \in 0 .. Len(mask)
        BY <1>2 DEF Size
    <2> QED
        BY <2>1, <1>1
<1>3. CASE ~\E n \in 0 .. Len(mask) : Leads(mask, n)
    BY <1>3 DEF Size
<1> QED
    BY <1>2, <1>3

\* A net that contains an address is in one of the buckets that Contain looks
\* through for it (iplist.go:38-63, 110-121).
LEMMA BucketFound ==
    ASSUME NEW ip \in IP, NEW net, net.mask \in Seq({0, 1}), net.ip \in Seq({0, 1}),
           Contains(net, ip)
    PROVE  Bucket(net) \in Buckets(ip)
<1> DEFINE n == Size(net.mask)
<1>1. n \in Nat
    BY SizeNat
<1>2. /\ Len(ip) \in Nat /\ DOMAIN ip = 1 .. Len(ip)
      /\ Len(net.mask) = Len(ip) /\ 2 * BYTE <= Len(ip)
    BY IPLen DEF Contains
<1>3. \A i \in 1 .. n : i \in DOMAIN ip /\ net.ip[i] = ip[i]
    <2>1. CASE n = 0
        BY <2>1
    <2>2. CASE n > 0
        BY <2>2, <1>2, SizeLeads DEF Contains
    <2> QED
        BY <2>1, <2>2, <1>1
<1>4. ASSUME NEW k \in {1, 2}, k * BYTE <= n
      PROVE  Prefix(net.ip, k) = Prefix(ip, k)
    <2>1. \A i \in 1 .. k * BYTE : net.ip[i] = ip[i]
        BY <1>1, <1>3, <1>4, IPFilterAssumption
    <2> QED
        BY <2>1 DEF Prefix
<1>5. CASE n < BYTE
    <2>1. Bucket(net) = <<"rest">>
        BY <1>1, <1>5, IPFilterAssumption DEF Bucket
    <2> QED
        BY <2>1 DEF Buckets
<1>6. CASE n >= BYTE /\ n < 2 * BYTE
    <2>1. Prefix(net.ip, 1) = Prefix(ip, 1)
        BY <1>4, <1>6, IPFilterAssumption
    <2>2. Bucket(net) = <<"idx1", Prefix(net.ip, 1)>>
        BY <1>1, <1>6, IPFilterAssumption DEF Bucket
    <2> QED
        BY <2>1, <2>2 DEF Buckets
<1>7. CASE n >= 2 * BYTE
    <2>1. Prefix(net.ip, 2) = Prefix(ip, 2)
        BY <1>4, <1>7, IPFilterAssumption
    <2>2. Bucket(net) = <<"idx2", Prefix(net.ip, 2)>>
        BY <1>1, <1>7, IPFilterAssumption DEF Bucket
    <2> QED
        BY <2>1, <2>2 DEF Buckets
<1> QED
    BY <1>1, <1>5, <1>6, <1>7, IPFilterAssumption

\* A CIDR block contains the addresses that begin like it.
LEMMA BlockExact ==
    ASSUME NEW line \in CIDRLine, NEW ip \in IP
    PROVE  /\ ParseLine(line).mask \in Seq({0, 1}) /\ ParseLine(line).ip \in Seq({0, 1})
           /\ Contains(ParseLine(line), ip) <=> Covers(line, ip)
<1> DEFINE net == ParseLine(line)
           len == Len(line.ip)
<1>1. line.kind = "cidr" /\ line.ip \in IP /\ line.ones \in Nat /\ line.ones <= len
    BY IPFilterAssumption DEF CIDRLine
<1>2. /\ len \in Nat /\ line.ip \in Seq({0, 1}) /\ DOMAIN line.ip = 1 .. len
      /\ line.ip \in [1 .. len -> {0, 1}]
    BY <1>1, IPLen
<1>3. Len(ip) \in Nat /\ DOMAIN ip = 1 .. Len(ip)
    BY IPLen
<1>4. /\ net.ip = [i \in 1 .. len |-> IF i <= line.ones THEN line.ip[i] ELSE 0]
      /\ net.mask = [i \in 1 .. len |-> IF i <= line.ones THEN 1 ELSE 0]
    BY <1>1 DEF ParseLine, CIDRMask
<1>5. net.ip \in Bits(len) /\ net.mask \in Bits(len)
    BY <1>1, <1>2, <1>4 DEF Bits
<1>6. /\ net.ip \in Seq({0, 1}) /\ Len(net.ip) = len
      /\ net.mask \in Seq({0, 1}) /\ Len(net.mask) = len
    BY <1>2, <1>5, BitsLen
<1>7. CASE len = Len(ip)
    <2>1. ASSUME NEW i \in DOMAIN ip
          PROVE  (net.mask[i] = 1 => net.ip[i] = ip[i]) <=> (i <= line.ones => line.ip[i] = ip[i])
        BY <1>1, <1>3, <1>4, <1>7
    <2>2. Contains(net, ip) <=> \A i \in DOMAIN ip : net.mask[i] = 1 => net.ip[i] = ip[i]
        BY <1>6, <1>7 DEF Contains
    <2>3. Covers(line, ip) <=> \A i \in DOMAIN ip : i <= line.ones => line.ip[i] = ip[i]
        BY <1>1, <1>7 DEF Covers
    <2> HIDE DEF net
    <2> QED
        BY <2>1, <2>2, <2>3, <1>6 DEF net
<1>8. CASE len # Len(ip)
    BY <1>1, <1>6, <1>8 DEF Contains, Covers
<1> QED
    BY <1>6, <1>7, <1>8

\* An address and a mask, which may have zeros between ones.
LEMMA PairExact ==
    ASSUME NEW line \in PairLine, NEW ip \in IP
    PROVE  /\ ParseLine(line).mask \in Seq({0, 1}) /\ ParseLine(line).ip \in Seq({0, 1})
           /\ Contains(ParseLine(line), ip) <=> Covers(line, ip)
<1>1. line.kind = "pair" /\ line.ip \in IP \cup {nil} /\ line.mask \in IP \cup {nil}
    BY DEF PairLine
<1>2. ParseLine(line).ip = line.ip /\ ParseLine(line).mask = line.mask
    BY <1>1 DEF ParseLine
<1>3. nil \in Seq({0, 1})
    BY DEF nil
<1>4. line.ip \in Seq({0, 1}) /\ line.mask \in Seq({0, 1})
    BY <1>1, <1>3, IPLen
<1>5. Contains(ParseLine(line), ip) <=> Covers(line, ip)
    BY <1>1, <1>2 DEF Contains, Covers
<1> QED
    BY <1>2, <1>4, <1>5

\* What the filter keeps for a line, and where.
Entry(line) == <<Bucket(ParseLine(line)), ParseLine(line)>>

\* For an address the filter finds a line exactly when the line covers it
\* (iplist.go:38-63).
LEMMA EntryExact ==
    ASSUME NEW line \in Line, NEW ip \in IP, ~Panics(line)
    PROVE  (Entry(line)[1] \in Buckets(ip) /\ Contains(Entry(line)[2], ip)) <=> Covers(line, ip)
<1>1. line \in CIDRLine \cup PairLine
    BY DEF Line, Panics
<1>2. /\ ParseLine(line).mask \in Seq({0, 1}) /\ ParseLine(line).ip \in Seq({0, 1})
      /\ Contains(ParseLine(line), ip) <=> Covers(line, ip)
    BY <1>1, BlockExact, PairExact
<1>3. Contains(ParseLine(line), ip) => Bucket(ParseLine(line)) \in Buckets(ip)
    BY <1>2, BucketFound
<1>4. Entry(line)[1] = Bucket(ParseLine(line)) /\ Entry(line)[2] = ParseLine(line)
    BY DEF Entry
<1> QED
    BY <1>2, <1>3, <1>4
-----------------------------------------------------------------------------
(* The inductive invariant: what the filter holds of the list so far. *)

Done == Len(config.list) - Len(rest)

Loaded ==
    /\ Done >= 0
    /\ \A j \in 1 .. Len(rest) : rest[j] = config.list[Done + j]
    /\ \A i \in 1 .. Done : ~Panics(config.list[i])
    /\ filter = {Entry(config.list[i]) : i \in 1 .. Done}

\* A call of Dial: who waits for a lookup has a name, and who is through has chosen
\* the right route.
RightDial(d) ==
    /\ d.pc = "lookup" => config.target.kind = "name"
    /\ d.route # "none" =>
        (d.route = "direct" <=>
            \E i \in DOMAIN config.list, j \in DOMAIN d.addrs :
                Covers(config.list[i], d.addrs[j]))

IInv ==
    /\ config \in Configs
    /\ rest \in Seq(Line)
    /\ Loaded
    /\ (main = "serve" \/ dial # NoDial) => rest = <<>>
    /\ RightDial(dial)

\* Once the list is read, Contain says of an address what the lines say.
LEMMA FilterExact ==
    ASSUME IInv, rest = <<>>, NEW ip \in IP
    PROVE  Contain(filter, ip) <=> \E i \in DOMAIN config.list : Covers(config.list[i], ip)
<1>1. config.list \in Seq(Line)
    BY FrontAssumption DEF IInv
<1>2. Len(config.list) \in Nat /\ DOMAIN config.list = 1 .. Len(config.list)
    BY <1>1
<1>3. Done = Len(config.list)
    BY <1>2 DEF Done
<1>4. \A i \in DOMAIN config.list : config.list[i] \in Line /\ ~Panics(config.list[i])
    BY <1>1, <1>2, <1>3 DEF IInv, Loaded
<1>5. filter = {Entry(config.list[i]) : i \in DOMAIN config.list}
    BY <1>2, <1>3 DEF IInv, Loaded
<1>6. \A i \in DOMAIN config.list :
         (/\ Entry(config.list[i])[1] \in Buckets(ip)
          /\ Contains(Entry(config.list[i])[2], ip)) <=> Covers(config.list[i], ip)
    BY <1>4, EntryExact
<1> QED
    BY <1>5, <1>6 DEF Contain
-----------------------------------------------------------------------------
(* What Dial decides. *)

\* What a lookup keeps of an answer: the address of a record of that answer.
LEMMA AddressesIn ==
    ASSUME NEW msg \in Answer
    PROVE  \A j \in DOMAIN Addresses(msg) :
              /\ j \in DOMAIN msg.answer /\ msg.answer[j].type \in {"A", "AAAA"}
              /\ Addresses(msg)[j] = msg.answer[j].addr
              /\ Addresses(msg)[j] \in IP \cup {nil}
<1> SUFFICES ASSUME NEW j \in DOMAIN Addresses(msg)
             PROVE  /\ j \in DOMAIN msg.answer /\ msg.answer[j].type \in {"A", "AAAA"}
                    /\ Addresses(msg)[j] = msg.answer[j].addr
                    /\ Addresses(msg)[j] \in IP \cup {nil}
    OBVIOUS
<1>1. /\ j \in DOMAIN msg.answer /\ msg.answer[j].type \in {"A", "AAAA"}
      /\ Addresses(msg)[j] = msg.answer[j].addr
    BY DEF Addresses, TranslateRRs
<1>2. msg.answer \in Seq(RR)
    BY DEF Answer
<1>3. msg.answer[j] \in RR
    BY <1>1, <1>2
<1>4. msg.answer[j].addr \in IP \cup {nil}
    BY <1>3 DEF RR
<1> QED
    BY <1>1, <1>4

\* Whatever the addresses are, and wherever one of them is nil (iplist.go:211-224).
LEMMA RoutedRight ==
    ASSUME IInv, rest = <<>>,
           NEW addrs, \A j \in DOMAIN addrs : addrs[j] \in IP \cup {nil}
    PROVE  RightDial(Routed(addrs))
<1> DEFINE covered(j) == \E i \in DOMAIN config.list : Covers(config.list[i], addrs[j])
<1>1. \A j \in DOMAIN addrs : addrs[j] # nil => (Matches(addrs[j]) <=> covered(j))
    BY FilterExact DEF Matches
<1>2. \A j \in DOMAIN addrs : Matches(addrs[j]) => addrs[j] # nil
    BY DEF Matches
<1>3. CASE DOMAIN addrs = {} \/ Verdict(addrs) = "panic"
    <2>1. Routed(addrs).route = "none" /\ Routed(addrs).pc # "lookup"
        BY <1>3 DEF Routed, NoDial
    <2> QED
        BY <2>1 DEF RightDial
<1>4. CASE DOMAIN addrs # {} /\ Verdict(addrs) # "panic"
    <2>1. /\ Routed(addrs).route = Verdict(addrs) /\ Routed(addrs).addrs = addrs
          /\ Routed(addrs).pc = "call"
        BY <1>4 DEF Routed
    <2>2. \A i \in DOMAIN addrs :
             addrs[i] = nil => \E j \in DOMAIN addrs : Matches(addrs[j])
        BY <1>4 DEF Verdict
    <2>3. Verdict(addrs) = "direct" <=> \E j \in DOMAIN addrs : Matches(addrs[j])
        BY <1>4 DEF Verdict
    <2>4. (\E j \in DOMAIN addrs : covered(j)) => \E j \in DOMAIN addrs : Matches(addrs[j])
        <3> SUFFICES ASSUME NEW j \in DOMAIN addrs, covered(j)
                     PROVE  \E k \in DOMAIN addrs : Matches(addrs[k])
            OBVIOUS
        <3>1. CASE addrs[j] = nil
            BY <2>2, <3>1
        <3>2. CASE addrs[j] # nil
            BY <1>1, <3>2
        <3> QED
            BY <3>1, <3>2
    <2>5. (\E j \in DOMAIN addrs : Matches(addrs[j])) => \E j \in DOMAIN addrs : covered(j)
        BY <1>1, <1>2
    <2> QED
        BY <2>1, <2>3, <2>4, <2>5 DEF RightDial
<1> QED
    BY <1>3, <1>4

\* Dial up to the lookup.
LEMMA DialingRight ==
    ASSUME IInv, rest = <<>>
    PROVE  RightDial(Dialing)
<1>1. config.target.kind \in {"noport", "ip", "name"}
    BY FrontAssumption DEF IInv
<1>2. CASE ~config.filtered
    <2>1. Dialing = [pc |-> "call", addrs |-> <<>>, route |-> "pool"]
        BY <1>2 DEF Dialing
    <2> QED
        BY <2>1 DEF RightDial
<1>3. CASE config.filtered /\ config.target.kind = "ip"
    <2>1. config.target.ip \in IP
        BY <1>3, FrontAssumption DEF IInv
    <2>2. \A j \in DOMAIN <<config.target.ip>> : <<config.target.ip>>[j] \in IP \cup {nil}
        BY <2>1
    <2>3. Dialing = Routed(<<config.target.ip>>)
        BY <1>3 DEF Dialing
    <2> QED
        BY <2>2, <2>3, RoutedRight
<1>4. CASE config.filtered /\ config.target.kind \in {"noport", "name"}
    <2>1. Dialing.route = "none" /\ (Dialing.pc = "lookup" => config.target.kind = "name")
        BY <1>4 DEF Dialing, NoDial
    <2> QED
        BY <2>1 DEF RightDial
<1> QED
    BY <1>1, <1>2, <1>3, <1>4
-----------------------------------------------------------------------------
(* Every step preserves the invariant. *)

\* The program starts with an empty filter and the whole list to read.
LEMMA InitIInv == Init => IInv
<1> SUFFICES ASSUME Init PROVE IInv
    OBVIOUS
<1>1. config \in Configs /\ rest = config.list /\ rest \in Seq(Line) /\ filter = {}
    BY FrontAssumption DEF Init, EmptyFilter
<1>2. Len(rest) \in Nat /\ Done = 0
    BY <1>1 DEF Done
<1>3. Loaded
    BY <1>1, <1>2 DEF Loaded
<1>4. RightDial(dial)
    BY DEF Init, RightDial, NoDial
<1> QED
    BY <1>1, <1>3, <1>4 DEF Init, IInv

\* ReadIPList files one more line (iplist.go:98-123).
LEMMA ReadLineIInv == ASSUME IInv, ReadLine PROVE IInv'
<1>1. /\ rest # <<>> /\ dial = NoDial /\ dial' = dial /\ config' = config
      /\ main = "load"
    BY DEF IInv, ReadLine
<1>2. config.list \in Seq(Line) /\ Len(config.list) \in Nat
    BY FrontAssumption DEF IInv
<1>3. RightDial(dial)'
    BY <1>1 DEF IInv, RightDial, NoDial
<1>4. CASE Panics(Head(rest))
    BY <1>1, <1>3, <1>4 DEF ReadLine, IInv, Loaded, Done
<1>5. CASE ~Panics(Head(rest))
    <2>1. filter' = filter \cup {Entry(Head(rest))} /\ rest' = Tail(rest) /\ main' = main
        BY <1>5 DEF ReadLine, Insert, Entry
    <2>2. /\ rest' \in Seq(Line) /\ Len(rest) \in Nat /\ Len(rest') = Len(rest) - 1
          /\ Head(rest) = rest[1] /\ \A j \in 1 .. Len(rest') : rest'[j] = rest[j + 1]
        BY <1>1, <2>1 DEF IInv
    <2>3. Len(rest) > 0
        BY <1>1, <2>2 DEF IInv
    <2>4. Done \in Nat /\ Done' = Done + 1
        BY <1>1, <1>2, <2>2 DEF Done, IInv, Loaded
    <2>5. Head(rest) = config.list[Done + 1]
        BY <2>2, <2>3 DEF IInv, Loaded
    <2>6. \A j \in 1 .. Len(rest') : rest'[j] = config'.list[Done' + j]
        <3> SUFFICES ASSUME NEW j \in 1 .. Len(rest')
                     PROVE  rest'[j] = config.list[Done + 1 + j]
            BY <1>1, <2>4
        <3>1. j + 1 \in 1 .. Len(rest) /\ Done + (j + 1) = Done + 1 + j
            BY <2>2, <2>4
        <3> QED
            BY <2>2, <3>1 DEF IInv, Loaded
    <2>7. \A i \in 1 .. Done' : ~Panics(config'.list[i])
        <3>1. \A i \in 1 .. Done' : i \in 1 .. Done \/ i = Done + 1
            BY <2>4
        <3> QED
            BY <1>1, <1>5, <2>5, <3>1 DEF IInv, Loaded
    <2>8. filter' = {Entry(config'.list[i]) : i \in 1 .. Done'}
        <3>1. 1 .. Done' = 1 .. Done \cup {Done + 1}
            BY <2>4
        <3>2. filter = {Entry(config.list[i]) : i \in 1 .. Done}
            BY DEF IInv, Loaded
        <3> QED
            BY <1>1, <2>1, <2>5, <3>1, <3>2
    <2>9. Loaded'
        BY <2>4, <2>6, <2>7, <2>8 DEF Loaded
    <2> QED
        BY <1>1, <1>3, <2>1, <2>2, <2>9 DEF IInv
<1> QED
    BY <1>4, <1>5

\* A step after loading that decides rightly, or decides nothing.
LEMMA Decides ==
    ASSUME IInv, UNCHANGED setup, RightDial(dial'),
           (main' = "serve" \/ dial' # NoDial) => rest = <<>>
    PROVE  IInv'
<1>1. config' = config /\ rest' = rest /\ filter' = filter
    BY DEF setup
<1>2. RightDial(dial)'
    BY <1>1 DEF RightDial
<1>3. Loaded'
    BY <1>1 DEF IInv, Loaded, Done
<1> QED
    BY <1>1, <1>2, <1>3 DEF IInv

\* A call that has failed has chosen nothing.
LEMMA Undecided == ASSUME NEW d, d.route = "none", d.pc # "lookup" PROVE RightDial(d)
BY DEF RightDial

\* The step of any part leaves the route as it is or finds the right one.
LEMMA StepIInv == ASSUME IInv, [Next]_vars PROVE IInv'
<1>0. RightDial(dial)
    BY DEF IInv
<1>s. ASSUME Serving PROVE rest = <<>>
    BY <1>s DEF Serving, IInv
<1>1. CASE ReadLine /\ Alone
    BY <1>1, ReadLineIInv
<1>2. CASE Serve \/ (Stops /\ Alone)
    <2>1. UNCHANGED setup /\ dial' = dial /\ (main' = "serve" => rest = <<>>)
        BY <1>2 DEF Serve, Stops
    <2> QED
        BY <1>0, <2>1, Decides DEF IInv
<1>3. CASE Dials
    <2>1. rest = <<>> /\ UNCHANGED setup
        BY <1>3, <1>s DEF Dials, LookupAnswers, DialReturns
    <2>2. CASE LookupAnswers
        <3> DEFINE msg == config.target.answer
        <3>1. \A j \in DOMAIN Addresses(msg) : Addresses(msg)[j] \in IP \cup {nil}
            <4>1. msg \in Answer
                BY <1>0, <2>2, FrontAssumption DEF LookupAnswers, RightDial, IInv
            <4> QED
                BY <4>1, AddressesIn
        <3>2. RightDial(Routed(Addresses(msg)))
            BY <2>1, <3>1, RoutedRight
        <3>3. \/ dial'.route = "none" /\ dial'.pc # "lookup"
              \/ dial' = Routed(Addresses(msg))
            BY <2>2 DEF LookupAnswers, Exchange, NoDial
        <3>4. RightDial(dial')
            BY <3>2, <3>3, Undecided
        <3> QED
            BY <2>1, <3>4, Decides
    <2>3. CASE DialReturns
        <3>1. PICK pc \in Outcomes : dial' = [dial EXCEPT !.pc = pc]
            BY <2>3 DEF DialReturns
        <3>2. dial'.route = dial.route /\ dial'.addrs = dial.addrs /\ dial'.pc # "lookup"
            BY <3>1 DEF Outcomes
        <3>3. RightDial(dial')
            BY <1>0, <3>2 DEF RightDial
        <3> QED
            BY <2>1, <3>3, Decides
    <2> QED
        BY <1>3, <2>2, <2>3 DEF Dials
<1>4. CASE \E h \in Headers : Serving /\ Request(h) /\ Alone
    <2>1. rest = <<>> /\ UNCHANGED setup /\ (dial' = dial \/ dial' = Dialing)
        BY <1>4, <1>s DEF Request
    <2> QED
        BY <1>0, <2>1, DialingRight, Decides
<1>5. CASE Serving /\ (ConnectFails \/ Connect \/ RoundTrip \/ TcpFails \/ TcpPortmap)
    <2>1. rest = <<>> /\ UNCHANGED setup /\ dial' = dial
        BY <1>5, <1>s DEF ConnectFails, Connect, RoundTrip, TcpFails, TcpPortmap
    <2> QED
        BY <1>0, <2>1, Decides
<1>6. CASE Serving /\ Accept
    <2>1. rest = <<>> /\ UNCHANGED setup /\ dial' = Dialing
        BY <1>6, <1>s DEF Accept
    <2> QED
        BY <2>1, DialingRight, Decides
<1>7. CASE Serving /\ UNCHANGED <<setup, dial>>
    BY <1>0, <1>7, <1>s, Decides
<1>8. CASE UdpDials
    <2>1. rest = <<>> /\ UNCHANGED setup
        BY <1>8, <1>s DEF UdpDials, UdpFinds, UdpReturns
    <2>2. dial' \in {Dialing, dial, NoDial}
        BY <1>8 DEF UdpDials, UdpFinds, UdpReturns
    <2>3. RightDial(NoDial)
        BY Undecided DEF NoDial
    <2> QED
        BY <1>0, <2>1, <2>2, <2>3, DialingRight, Decides
<1>9. CASE UNCHANGED vars
    BY <1>0, <1>9, Decides DEF vars, setup, IInv
<1>10. UdpNext => Serving
    BY DEF UdpNext, Serving
<1> QED
    BY <1>1, <1>2, <1>3, <1>4, <1>5, <1>6, <1>7, <1>8, <1>9, <1>10 DEF Next

\* Every connection takes the route that the list asks for: directly if and only if
\* an address of the host is in one of its blocks (iplist.go:38-63, 199-225).
THEOREM RoutesAreRight == Spec => []RightRoute
<1>1. IInv => RightRoute
    BY DEF IInv, RightDial, RightRoute
<1> QED
    BY <1>1, InitIInv, StepIInv, PTL DEF Spec
-----------------------------------------------------------------------------
(* The datagrams.  Every buffer has one owner: the reader, a mapping that has not *)
(* freed it, or a place in the free list.                                         *)

ReaderRec == [pc : {"off", "alloc", "read", "lock", "dial", "send"},
              buf : Nat, d : Nat, m : Nat]
MapRec == [kind : {"none", "udp", "denied"}, send : {"none", "recv", "write", "free", "done"},
           buf : Nat, of : Nat, tick : {"none", "on", "close", "remove", "done"}, cnt : Nat,
           late : BOOLEAN, ch : BOOLEAN, dconn : BOOLEAN, replies : Nat]

UdpTypes ==
    /\ reader \in ReaderRec
    /\ arrived \in Nat /\ arrived <= MaxDatagrams
    /\ ports \subseteq 1 .. arrived
    /\ mapping \in [Datagrams -> MapRec]
    /\ freelist \in Seq(Buffers)
    /\ content \in [Buffers -> Nat]

\* A mapping that waits for its first datagram has seen one tick at most: the
\* second one passes after the reader has run.
Fresh(r) == /\ r.ch /\ r.tick = "on" /\ r.send = "recv"
            /\ r.cnt = 0 \/ (r.cnt = 1 /\ r.late)

ReaderOK ==
    /\ reader.pc \in {"off", "alloc"} => reader.buf = 0
    /\ reader.pc \in {"read", "lock", "dial", "send"} => reader.buf \in Buffers
    /\ reader.pc \in {"lock", "dial", "send"} =>
          reader.d = arrived /\ arrived > 0 /\ content[reader.buf] = reader.d
    /\ reader.pc \in {"lock", "dial"} => reader.d \notin ports
    /\ reader.pc = "send" => reader.m \in Datagrams /\ Fresh(mapping[reader.m])

MapOK(r) ==
    /\ r.send \notin {"write", "free"} => r.buf = 0
    /\ r.send \in {"write", "free"} => r.buf \in Buffers
    /\ r.send = "write" => content[r.buf] = r.of

OneOwner ==
    /\ \A i, j \in 1 .. Len(freelist) : freelist[i] = freelist[j] => i = j
    /\ \A i \in 1 .. Len(freelist) :
          freelist[i] # reader.buf /\ \A m \in Datagrams : freelist[i] # mapping[m].buf
    /\ \A m \in Datagrams : mapping[m].buf # 0 =>
          /\ mapping[m].buf # reader.buf
          /\ \A n \in Datagrams \ {m} : mapping[m].buf # mapping[n].buf

UdpInv ==
    /\ UdpTypes
    /\ ReaderOK
    /\ \A m \in Datagrams : MapOK(mapping[m])
    /\ OneOwner
    /\ PayloadIntact

\* There is always a buffer that nobody refers to.
LEMMA Unused ==
    ASSUME UdpTypes, reader.buf = 0, freelist = <<>>
    PROVE  \E b \in Buffers : b \notin InUse
<1> DEFINE f == [m \in Datagrams |-> mapping[m].buf]
           T == {f[m] : m \in Datagrams}
<1> USE UdpAssumption
<1>1. IsFiniteSet(Datagrams) /\ Cardinality(Datagrams) = MaxDatagrams
    BY FS_Interval DEF Datagrams
<1>2. IsFiniteSet(Buffers) /\ Cardinality(Buffers) = FREELIST + MaxDatagrams + 1
    BY FS_Interval DEF Buffers
<1>3. f \in Surjection(Datagrams, T)
    BY DEF Surjection
<1>4. IsFiniteSet(T) /\ Cardinality(T) <= Cardinality(Datagrams)
    <2> HIDE DEF T, f
    <2> QED
        BY <1>1, <1>3, FS_Surjection
<1>5. Cardinality(T) \in Nat
    BY <1>4, FS_CardinalityType
<1>6. ~(Buffers \subseteq T)
    <2> HIDE DEF T
    <2> SUFFICES ASSUME Buffers \subseteq T PROVE FALSE
        OBVIOUS
    <2>1. Cardinality(Buffers) <= Cardinality(T)
        BY <1>4, FS_Subset
    <2> QED
        BY <1>1, <1>2, <1>4, <1>5, <2>1
<1>7. PICK b \in Buffers : b \notin T
    BY <1>6
<1>8. b # 0
    BY DEF Buffers
<1>9. InUse = {0} \cup T
    BY DEF InUse
<1> QED
    BY <1>7, <1>8, <1>9

\* The free list holds buffers.
LEMMA FreeIn ==
    ASSUME UdpTypes
    PROVE  /\ Len(freelist) \in Nat /\ DOMAIN freelist = 1 .. Len(freelist)
           /\ \A i \in 1 .. Len(freelist) : freelist[i] \in Buffers /\ freelist[i] # 0
<1>1. freelist \in Seq(Buffers)
    BY DEF UdpTypes
<1>2. Len(freelist) \in Nat /\ DOMAIN freelist = 1 .. Len(freelist)
    BY <1>1
<1>3. \A i \in 1 .. Len(freelist) : freelist[i] \in Buffers
    BY <1>1
<1>4. 0 \notin Buffers
    BY DEF Buffers
<1> QED
    BY <1>2, <1>3, <1>4

\* A mapping is replaced.
LEMMA MapSet ==
    ASSUME mapping \in [Datagrams -> MapRec], NEW m \in Datagrams, NEW r \in MapRec,
           mapping' = [mapping EXCEPT ![m] = r]
    PROVE  /\ mapping' \in [Datagrams -> MapRec] /\ mapping'[m] = r
           /\ \A n \in Datagrams \ {m} : mapping'[n] = mapping[n]
OBVIOUS

\* A goroutine of mapping m steps: it keeps its buffer or drops it.
LEMMA MapKeeps ==
    ASSUME UdpInv, NEW m \in Datagrams, NEW r \in MapRec,
           mapping' = [mapping EXCEPT ![m] = r],
           UNCHANGED <<reader, arrived, freelist, content>>, ports' \subseteq ports,
           r.buf \in {mapping[m].buf, 0}, MapOK(r),
           reader.pc = "send" /\ reader.m = m => Fresh(r),
           PayloadIntact'
    PROVE  UdpInv'
<1>1. /\ mapping' \in [Datagrams -> MapRec] /\ mapping'[m] = r
      /\ \A n \in Datagrams \ {m} : mapping'[n] = mapping[n]
    BY MapSet DEF UdpInv, UdpTypes
<1>2. UdpTypes'
    BY <1>1 DEF UdpInv, UdpTypes
<1>3. ReaderOK'
    <2>1. reader.pc = "send" => Fresh(mapping'[reader.m])
        BY <1>1 DEF UdpInv, ReaderOK
    <2> QED
        BY <2>1 DEF UdpInv, ReaderOK, Fresh
<1>4. \A n \in Datagrams : MapOK(mapping[n])'
    <2> SUFFICES ASSUME NEW n \in Datagrams PROVE MapOK(mapping[n])'
        OBVIOUS
    <2>1. MapOK(mapping'[n])
        BY <1>1 DEF UdpInv
    <2> QED
        BY <2>1 DEF MapOK
<1>5. \A n \in Datagrams : mapping'[n].buf \in {mapping[n].buf, 0}
    BY <1>1
<1>6. \A i \in 1 .. Len(freelist) : freelist[i] # 0
    BY FreeIn DEF UdpInv
<1>7. OneOwner'
    BY <1>5, <1>6 DEF UdpInv, OneOwner
<1> QED
    BY <1>2, <1>3, <1>4, <1>7 DEF UdpInv

\* dconn.Write: the buffer still holds the datagram that was handed over.
LEMMA SendWritesUdp == ASSUME UdpInv, NEW m \in Datagrams, SendWrites(m) PROVE UdpInv'
<1> DEFINE x == mapping[m]
<1>1. x \in MapRec /\ MapOK(x) /\ x.send = "write" /\ PayloadIntact /\ content[x.buf] = x.of
    BY DEF UdpInv, UdpTypes, SendWrites, MapOK
<1>2. reader.pc = "send" => reader.m # m
    BY <1>1 DEF UdpInv, ReaderOK, Fresh
<1>3. UNCHANGED <<reader, arrived, ports, freelist, content>>
    BY DEF SendWrites
<1>4. CASE /\ wrote' = wrote \cup {<<x.of, content[x.buf]>>}
           /\ mapping' = [mapping EXCEPT ![m].send = "free", ![m].late = FALSE]
    <2> DEFINE r == [x EXCEPT !.send = "free", !.late = FALSE]
    <2>1. r \in MapRec /\ r.buf = x.buf /\ r.send = "free"
        BY <1>1, Zenon DEF MapRec
    <2>2. mapping' = [mapping EXCEPT ![m] = r]
        BY <1>4, Zenon DEF UdpInv, UdpTypes
    <2>3. MapOK(r)
        <3> HIDE DEF r
        <3> QED
            BY <1>1, <2>1 DEF MapOK
    <2>4. PayloadIntact'
        BY <1>1, <1>4 DEF PayloadIntact
    <2> HIDE DEF r
    <2> QED
        BY <1>2, <1>3, <2>1, <2>2, <2>3, <2>4, MapKeeps, Zenon
<1>5. CASE /\ mapping' = [mapping EXCEPT ![m].send = "recv", ![m].buf = 0, ![m].of = None,
                                         ![m].late = FALSE]
           /\ UNCHANGED wrote
    <2> DEFINE r == [x EXCEPT !.send = "recv", !.buf = 0, !.of = None, !.late = FALSE]
    <2>1. r \in MapRec /\ r.buf = 0 /\ r.send = "recv"
        BY <1>1, Zenon DEF MapRec, None
    <2>2. mapping' = [mapping EXCEPT ![m] = r]
        BY <1>5, Zenon DEF UdpInv, UdpTypes
    <2>3. MapOK(r) /\ PayloadIntact'
        <3> HIDE DEF r
        <3> QED
            BY <1>1, <1>5, <2>1 DEF MapOK, PayloadIntact
    <2> HIDE DEF r
    <2> QED
        BY <1>2, <1>3, <2>1, <2>2, <2>3, MapKeeps, Zenon
<1> QED
    BY <1>4, <1>5 DEF SendWrites

\* A step that only moves the other fields of mapping m.
LEMMA MapTicks ==
    ASSUME UdpInv, NEW m \in Datagrams, NEW r \in MapRec,
           mapping' = [mapping EXCEPT ![m] = r],
           UNCHANGED <<reader, arrived, freelist, content, wrote>>, ports' \subseteq ports,
           r.buf = mapping[m].buf, r.of = mapping[m].of,
           r.send = mapping[m].send \/ (mapping[m].send = "recv" /\ r.send = "done"),
           reader.pc = "send" /\ reader.m = m => Fresh(r)
    PROVE  UdpInv'
<1>1. MapOK(r)
    BY DEF UdpInv, MapOK
<1>2. PayloadIntact'
    BY DEF UdpInv, PayloadIntact
<1> QED
    BY <1>1, <1>2, MapKeeps, Zenon

\* The ticker, the end of SendHandler and the answers.  A mapping that the reader is
\* about to hand a datagram to lets one tick pass, which does not close it.
LEMMA MapTicksUdp ==
    ASSUME UdpInv, NEW m \in Datagrams, SendEnds(m) \/ RecvAnswers(m) \/ TickStep(m)
    PROVE  UdpInv'
<1> DEFINE x == mapping[m]
<1>0. x \in MapRec /\ mapping \in [Datagrams -> MapRec]
    BY DEF UdpInv, UdpTypes
<1>f. reader.pc = "send" /\ reader.m = m => Fresh(x)
    BY DEF UdpInv, ReaderOK
<1>1. CASE SendEnds(m)
    <2> DEFINE r == [x EXCEPT !.send = "done", !.dconn = FALSE]
    <2>1. r \in MapRec /\ r.buf = x.buf /\ r.of = x.of /\ r.send = "done"
        BY <1>0, Zenon DEF MapRec
    <2>2. mapping' = [mapping EXCEPT ![m] = r] /\ x.send = "recv" /\ ~x.ch
        BY <1>0, <1>1, Zenon DEF SendEnds
    <2>3. ~(reader.pc = "send" /\ reader.m = m)
        BY <1>f, <2>2 DEF Fresh
    <2>4. UNCHANGED <<reader, arrived, ports, freelist, content, wrote>>
        BY <1>1 DEF SendEnds
    <2> HIDE DEF r
    <2> QED
        BY <2>1, <2>2, <2>3, <2>4, MapTicks, Zenon
<1>2. CASE RecvAnswers(m)
    <2> DEFINE n == x.replies - 1
               r == [x EXCEPT !.replies = n, !.cnt = 0]
    <2>1. x.replies > 0 /\ mapping' = [mapping EXCEPT ![m] = r]
        BY <1>0, <1>2, Zenon DEF RecvAnswers
    <2>2. n \in Nat
        BY <1>0, <2>1 DEF MapRec
    <2> HIDE DEF n
    <2>3. /\ r \in MapRec /\ r.buf = x.buf /\ r.of = x.of /\ r.send = x.send
          /\ r.ch = x.ch /\ r.tick = x.tick /\ r.cnt = 0
        BY <1>0, <2>2, Zenon DEF MapRec
    <2>4. UNCHANGED <<reader, arrived, ports, freelist, content, wrote>>
        BY <1>2 DEF RecvAnswers
    <2> HIDE DEF r
    <2>5. reader.pc = "send" /\ reader.m = m => Fresh(r)
        BY <1>f, <2>3 DEF Fresh
    <2> QED
        BY <2>1, <2>3, <2>4, <2>5, MapTicks, Zenon
<1>3. CASE Tick(m)
    <2> DEFINE t == IF x.cnt + 1 >= UDP_TIMEOUT THEN "close" ELSE "on"
               b == Busy(m)
               n == x.cnt + 1
               r == [x EXCEPT !.cnt = n, !.late = b, !.tick = t]
    <2>1. b \in BOOLEAN /\ t \in {"close", "on"} /\ n \in Nat
        BY <1>0 DEF Busy, MapRec
    <2>2. mapping' = [mapping EXCEPT ![m] = r] /\ (b => ~x.late)
        BY <1>0, <1>3, Zenon DEF Tick
    <2>3. reader.pc = "send" /\ reader.m = m => b
        BY DEF Busy
    <2>4. x.cnt = 0 => t = "on"
        BY UdpAssumption
    <2>5. UNCHANGED <<reader, arrived, ports, freelist, content, wrote>>
        BY <1>3 DEF Tick
    <2>6. x.cnt = 0 => n = 1
        OBVIOUS
    <2> HIDE DEF b, t, n
    <2>7. /\ r \in MapRec /\ r.buf = x.buf /\ r.of = x.of /\ r.send = x.send
          /\ r.ch = x.ch /\ r.tick = t /\ r.cnt = n /\ r.late = b
        BY <1>0, <2>1, Zenon DEF MapRec
    <2> HIDE DEF r
    <2>8. reader.pc = "send" /\ reader.m = m => Fresh(r)
        BY <1>f, <2>2, <2>3, <2>4, <2>7, <2>6 DEF Fresh
    <2> QED
        BY <2>2, <2>5, <2>7, <2>8, MapTicks, Zenon
<1>4. CASE CloseMapping(m)
    <2> DEFINE r == [x EXCEPT !.tick = "remove", !.dconn = FALSE, !.ch = FALSE]
    <2>1. r \in MapRec /\ r.buf = x.buf /\ r.of = x.of /\ r.send = x.send
        BY <1>0, Zenon DEF MapRec
    <2>2. mapping' = [mapping EXCEPT ![m] = r] /\ x.tick = "close"
        BY <1>0, <1>4, Zenon DEF CloseMapping
    <2>3. ~(reader.pc = "send" /\ reader.m = m)
        BY <1>f, <2>2 DEF Fresh
    <2>4. UNCHANGED <<reader, arrived, ports, freelist, content, wrote>>
        BY <1>4 DEF CloseMapping
    <2> HIDE DEF r
    <2> QED
        BY <2>1, <2>2, <2>3, <2>4, MapTicks, Zenon
<1>5. CASE RemovePorts(m)
    <2> DEFINE r == [x EXCEPT !.tick = "done"]
    <2>1. r \in MapRec /\ r.buf = x.buf /\ r.of = x.of /\ r.send = x.send
        BY <1>0 DEF MapRec
    <2>2. mapping' = [mapping EXCEPT ![m] = r] /\ x.tick = "remove"
        BY <1>0, <1>5 DEF RemovePorts
    <2>3. ~(reader.pc = "send" /\ reader.m = m)
        BY <1>f, <2>2 DEF Fresh
    <2>4. UNCHANGED <<reader, arrived, freelist, content, wrote>> /\ ports' \subseteq ports
        BY <1>5 DEF RemovePorts
    <2> HIDE DEF r
    <2> QED
        BY <2>1, <2>2, <2>3, <2>4, MapTicks, Zenon
<1> QED
    BY <1>1, <1>2, <1>3, <1>4, <1>5 DEF TickStep

\* The reader steps and leaves mappings and buffers alone.
LEMMA ReaderKeeps ==
    ASSUME UdpInv, reader' \in ReaderRec,
           reader'.buf \in {reader.buf, 0},
           UNCHANGED <<arrived, ports, mapping, freelist, content, wrote>>, ReaderOK'
    PROVE  UdpInv'
<1>1. UdpTypes' /\ PayloadIntact'
    BY DEF UdpInv, UdpTypes, PayloadIntact
<1>2. \A m \in Datagrams : MapOK(mapping[m])'
    BY DEF UdpInv, MapOK
<1>3. \A i \in 1 .. Len(freelist) : freelist[i] # 0
    BY FreeIn DEF UdpInv
<1>4. OneOwner'
    BY <1>3 DEF UdpInv, OneOwner
<1> QED
    BY <1>1, <1>2, <1>4 DEF UdpInv

\* A read that failed, a lookup in the table and a dial that failed.
LEMMA ReaderKeepsUdp ==
    ASSUME UdpInv, (StartUdp /\ reader.pc = "off") \/ ReadFromFails \/ FindPort \/ UdpDialFails
    PROVE  UdpInv'
<1>0. reader \in ReaderRec /\ ReaderOK
    BY DEF UdpInv, UdpTypes
<1>1. UNCHANGED <<arrived, ports, mapping, freelist, content, wrote>>
    BY DEF StartUdp, ReadFromFails, FindPort, UdpDialFails
<1>2. CASE FindPort
    <2>1. reader.pc = "lock" /\ Lookup(reader.d) = {}
        BY <1>0, <1>2 DEF FindPort, ReaderOK, Lookup
    <2>2. reader' = [reader EXCEPT !.pc = "dial"]
        BY <1>2, <2>1 DEF FindPort
    <2>3. /\ reader' \in ReaderRec /\ reader'.pc = "dial" /\ reader'.buf = reader.buf
          /\ reader'.d = reader.d
        BY <1>0, <2>2 DEF ReaderRec
    <2>4. ReaderOK'
        BY <1>0, <1>1, <2>1, <2>3 DEF ReaderOK
    <2> QED
        BY <1>1, <2>3, <2>4, ReaderKeeps
<1>3. CASE (StartUdp /\ reader.pc = "off") \/ ReadFromFails \/ UdpDialFails
    <2>1. \/ reader' = [reader EXCEPT !.pc = "alloc"] /\ reader.pc = "off"
          \/ reader' = [reader EXCEPT !.pc = "alloc", !.buf = 0]
          \/ reader' = [reader EXCEPT !.pc = "alloc", !.buf = 0, !.d = None]
        BY <1>3 DEF StartUdp, ReadFromFails, UdpDialFails
    <2>2. reader' \in ReaderRec /\ reader'.pc = "alloc" /\ reader'.buf = 0
        <3>1. CASE reader' = [reader EXCEPT !.pc = "alloc"] /\ reader.pc = "off"
            BY <1>0, <3>1 DEF ReaderRec, ReaderOK
        <3>2. CASE reader' = [reader EXCEPT !.pc = "alloc", !.buf = 0]
            BY <1>0, <3>2, Zenon DEF ReaderRec
        <3>3. CASE reader' = [reader EXCEPT !.pc = "alloc", !.buf = 0, !.d = None]
            BY <1>0, <3>3, Zenon DEF ReaderRec, None
        <3> QED
            BY <2>1, <3>1, <3>2, <3>3
    <2>3. ReaderOK'
        BY <2>2 DEF ReaderOK
    <2> QED
        BY <1>1, <2>2, <2>3, ReaderKeeps
<1> QED
    BY <1>2, <1>3

\* allocbuf hands out a buffer that has no other owner (leakybuf.go:5-12).
LEMMA AllocBufUdp == ASSUME UdpInv, AllocBuf PROVE UdpInv'
<1>0. /\ reader \in ReaderRec /\ reader.pc = "alloc" /\ reader.buf = 0 /\ UdpTypes
      /\ freelist \in Seq(Buffers)
    BY DEF UdpInv, UdpTypes, AllocBuf, ReaderOK
<1>1. UNCHANGED <<arrived, ports, mapping, content, wrote>>
    BY DEF AllocBuf
<1>2. ASSUME NEW b \in Buffers, reader' = [reader EXCEPT !.pc = "read", !.buf = b],
             freelist' \in Seq(Buffers),
             \A m \in Datagrams : b # mapping[m].buf,
             \A i \in 1 .. Len(freelist') :
                b # freelist'[i] /\ \A m \in Datagrams : freelist'[i] # mapping[m].buf,
             \A i, j \in 1 .. Len(freelist') : freelist'[i] = freelist'[j] => i = j
      PROVE  UdpInv'
    <2>1. b \in Nat
        BY UdpAssumption DEF Buffers
    <2>2. reader' \in ReaderRec /\ reader'.pc = "read" /\ reader'.buf = b
        BY <1>0, <1>2, <2>1, Zenon DEF ReaderRec
    <2>3. UdpTypes' /\ PayloadIntact'
        BY <1>1, <1>2, <2>2 DEF UdpInv, UdpTypes, PayloadIntact
    <2>4. ReaderOK'
        BY <2>2 DEF ReaderOK
    <2>5. \A m \in Datagrams : MapOK(mapping[m])'
        BY <1>1 DEF UdpInv, MapOK
    <2>6. OneOwner'
        BY <1>1, <1>2, <2>2 DEF UdpInv, OneOwner
    <2> QED
        BY <2>3, <2>4, <2>5, <2>6 DEF UdpInv
<1>3. CASE /\ freelist # <<>> /\ freelist' = Tail(freelist)
           /\ reader' = [reader EXCEPT !.pc = "read", !.buf = Head(freelist)]
    <2>1. /\ Head(freelist) = freelist[1] /\ freelist' \in Seq(Buffers)
          /\ Len(freelist') = Len(freelist) - 1
          /\ \A i \in 1 .. Len(freelist') : freelist'[i] = freelist[i + 1]
        BY <1>0, <1>3
    <2>2. Len(freelist) \in Nat /\ \A i \in 1 .. Len(freelist) : freelist[i] \in Buffers
        BY <1>0, FreeIn
    <2>3. Len(freelist) > 0
        BY <1>0, <1>3, <2>2
    <2>4. \A i \in 1 .. Len(freelist') : i + 1 \in 1 .. Len(freelist) /\ i + 1 # 1
        BY <2>1, <2>2
    <2>5. 1 \in 1 .. Len(freelist)
        BY <2>2, <2>3
    <2>6. \A m \in Datagrams : Head(freelist) # mapping[m].buf
        BY <2>1, <2>5 DEF UdpInv, OneOwner
    <2>7. \A i \in 1 .. Len(freelist') :
             /\ Head(freelist) # freelist'[i]
             /\ \A m \in Datagrams : freelist'[i] # mapping[m].buf
        BY <2>1, <2>4, <2>5 DEF UdpInv, OneOwner
    <2>8. \A i, j \in 1 .. Len(freelist') : freelist'[i] = freelist'[j] => i = j
        <3> SUFFICES ASSUME NEW i \in 1 .. Len(freelist'), NEW j \in 1 .. Len(freelist'),
                            freelist'[i] = freelist'[j]
                     PROVE  i = j
            OBVIOUS
        <3>1. freelist[i + 1] = freelist[j + 1]
            BY <2>1
        <3>2. i + 1 = j + 1
            BY <2>4, <3>1 DEF UdpInv, OneOwner
        <3> QED
            BY <3>2
    <2>9. Head(freelist) \in Buffers
        BY <2>1, <2>2, <2>5
    <2> QED
        BY <1>2, <1>3, <2>1, <2>6, <2>7, <2>8, <2>9, Zenon
<1>4. CASE /\ freelist = <<>> /\ UNCHANGED freelist
           /\ reader' = [reader EXCEPT !.pc = "read", !.buf = CHOOSE b \in Buffers : b \notin InUse]
    <2> DEFINE b == CHOOSE b \in Buffers : b \notin InUse
    <2>1. b \in Buffers /\ b \notin InUse
        BY <1>0, <1>4, Unused
    <2>2. \A m \in Datagrams : b # mapping[m].buf
        BY <2>1 DEF InUse
    <2>3. 1 .. Len(freelist') = {} /\ freelist' \in Seq(Buffers)
        BY <1>0, <1>4
    <2>4. reader' = [reader EXCEPT !.pc = "read", !.buf = b]
        BY <1>4
    <2> HIDE DEF b
    <2> QED
        BY <1>2, <2>1, <2>2, <2>3, <2>4
<1> QED
    BY <1>3, <1>4 DEF AllocBuf

\* A datagram is read into the reader's own buffer.
LEMMA ReadFromUdp == ASSUME UdpInv, ReadFrom PROVE UdpInv'
<1>0. /\ reader \in ReaderRec /\ reader.pc = "read" /\ reader.buf \in Buffers
      /\ arrived \in Nat /\ arrived < MaxDatagrams /\ arrived' = arrived + 1
      /\ UdpTypes /\ OneOwner
    BY DEF UdpInv, UdpTypes, ReadFrom, ReaderOK
<1>1. UNCHANGED <<ports, mapping, freelist, wrote>>
    BY DEF ReadFrom
<1>2. /\ arrived' \in Nat /\ arrived' <= MaxDatagrams /\ arrived' > 0
      /\ ports' \subseteq 1 .. arrived' /\ arrived' \notin ports'
    BY <1>0, <1>1, UdpAssumption DEF UdpTypes
<1>3. /\ reader' \in ReaderRec /\ reader'.pc = "lock" /\ reader'.buf = reader.buf
      /\ reader'.d = arrived'
    BY <1>0, <1>2, Zenon DEF ReaderRec, ReadFrom
<1>4. /\ content' \in [Buffers -> Nat] /\ content'[reader.buf] = arrived'
      /\ \A b \in Buffers \ {reader.buf} : content'[b] = content[b]
    BY <1>0, <1>2 DEF ReadFrom, UdpTypes
<1>5. UdpTypes' /\ PayloadIntact'
    BY <1>0, <1>1, <1>2, <1>3, <1>4 DEF UdpInv, UdpTypes, PayloadIntact
<1>6. ReaderOK'
    BY <1>0, <1>2, <1>3, <1>4 DEF ReaderOK
<1>7. \A m \in Datagrams : MapOK(mapping[m])'
    <2> SUFFICES ASSUME NEW m \in Datagrams PROVE MapOK(mapping[m])'
        OBVIOUS
    <2>1. MapOK(mapping[m])
        BY DEF UdpInv
    <2>2. mapping[m].send = "write" => content'[mapping[m].buf] = content[mapping[m].buf]
        <3>1. mapping[m].buf \in Buffers /\ mapping[m].buf # 0 => mapping[m].buf # reader.buf
            BY <1>0 DEF OneOwner
        <3>2. 0 \notin Buffers
            BY DEF Buffers
        <3> QED
            BY <1>4, <2>1, <3>1, <3>2 DEF MapOK
    <2> QED
        BY <1>1, <2>1, <2>2 DEF MapOK
<1>8. OneOwner'
    BY <1>0, <1>1, <1>3 DEF OneOwner
<1> QED
    BY <1>5, <1>6, <1>7, <1>8 DEF UdpInv

\* A new mapping: nothing has passed through it.
LEMMA UdpDialedUdp ==
    ASSUME UdpInv, NEW kind \in {"udp", "denied"}, UdpDialed(kind) PROVE UdpInv'
<1>0. /\ reader \in ReaderRec /\ reader.pc = "dial" /\ reader.buf \in Buffers
      /\ arrived \in Nat /\ arrived > 0 /\ arrived <= MaxDatagrams /\ reader.d = arrived
      /\ content[reader.buf] = reader.d /\ UdpTypes /\ OneOwner
    BY DEF UdpInv, UdpTypes, UdpDialed, ReaderOK
<1>1. UNCHANGED <<arrived, freelist, content, wrote>>
    BY DEF UdpDialed
<1>2. PICK m \in Datagrams : m = reader.d
    BY <1>0, UdpAssumption DEF Datagrams
<1>3. m \in Nat /\ m \in 1 .. arrived
    BY <1>0, <1>2
<1> DEFINE r == NewMapping(kind)
<1>4. r \in MapRec /\ Fresh(r) /\ r.buf = 0 /\ r.send = "recv"
    BY UdpAssumption DEF NewMapping, MapRec, Fresh, None
<1>5. mapping' = [mapping EXCEPT ![m] = r] /\ ports' = ports \cup {m}
    BY <1>2 DEF UdpDialed
<1> HIDE DEF r
<1>6. /\ mapping' \in [Datagrams -> MapRec] /\ mapping'[m] = r
      /\ \A n \in Datagrams \ {m} : mapping'[n] = mapping[n]
    BY <1>0, <1>4, <1>5, MapSet DEF UdpTypes
<1>7. /\ reader' \in ReaderRec /\ reader'.pc = "send" /\ reader'.buf = reader.buf
      /\ reader'.d = reader.d /\ reader'.m = m
    BY <1>0, <1>2, <1>3, Zenon DEF ReaderRec, UdpDialed
<1>8. UdpTypes' /\ PayloadIntact'
    BY <1>0, <1>1, <1>3, <1>5, <1>6, <1>7 DEF UdpInv, UdpTypes, PayloadIntact
<1>9. ReaderOK'
    <2>1. Fresh(mapping'[m])
        BY <1>4, <1>6
    <2> QED
        BY <1>0, <1>1, <1>7, <2>1 DEF ReaderOK, Fresh
<1>10. \A n \in Datagrams : MapOK(mapping[n])'
    <2> SUFFICES ASSUME NEW n \in Datagrams PROVE MapOK(mapping[n])'
        OBVIOUS
    <2>1. MapOK(r) /\ MapOK(mapping[n])
        BY <1>4 DEF UdpInv, MapOK
    <2>2. mapping'[n] = r \/ mapping'[n] = mapping[n]
        BY <1>6
    <2> QED
        BY <1>1, <2>1, <2>2 DEF MapOK
<1>11. OneOwner'
    <2>1. \A n \in Datagrams : mapping'[n].buf \in {mapping[n].buf, 0}
        BY <1>4, <1>6
    <2>2. \A i \in 1 .. Len(freelist) : freelist[i] # 0
        BY <1>0, FreeIn
    <2>3. \A i \in 1 .. Len(freelist) : \A n \in Datagrams : freelist[i] # mapping'[n].buf
        BY <1>0, <2>1, <2>2 DEF OneOwner
    <2>4. \A n \in Datagrams : mapping'[n].buf # 0 => mapping'[n].buf = mapping[n].buf
        BY <2>1
    <2>5. \A n \in Datagrams : mapping'[n].buf # 0 =>
             /\ mapping'[n].buf # reader'.buf
             /\ \A k \in Datagrams \ {n} : mapping'[n].buf # mapping'[k].buf
        BY <1>0, <1>7, <2>1, <2>4 DEF OneOwner
    <2> QED
        BY <1>0, <1>1, <1>7, <2>3, <2>5 DEF OneOwner
<1> QED
    BY <1>8, <1>9, <1>10, <1>11 DEF UdpInv

\* The buffer goes from the reader to the mapping, whose channel is open.
LEMMA HandOverUdp == ASSUME UdpInv, HandOver PROVE UdpInv' /\ UNCHANGED main
<1>0. /\ reader \in ReaderRec /\ reader.pc = "send" /\ reader.buf \in Buffers
      /\ content[reader.buf] = reader.d /\ reader.m \in Datagrams
      /\ Fresh(mapping[reader.m]) /\ UdpTypes /\ OneOwner
    BY DEF UdpInv, UdpTypes, HandOver, ReaderOK
<1>1. PICK m \in Datagrams : m = reader.m
    BY <1>0
<1> DEFINE x == mapping[m]
           r == [x EXCEPT !.send = "write", !.buf = reader.buf, !.of = reader.d, !.late = FALSE]
<1>2. x \in MapRec /\ x.ch
    BY <1>0, <1>1 DEF UdpTypes, Fresh
<1>3. /\ mapping' = [mapping EXCEPT ![m] = r] /\ main' = main
      /\ reader' = [reader EXCEPT !.pc = "alloc", !.buf = 0, !.d = None, !.m = None]
      /\ UNCHANGED <<arrived, ports, freelist, content, wrote>>
    BY <1>0, <1>1, <1>2, Zenon DEF HandOver, UdpTypes
<1>4. reader.buf \in Nat /\ reader.d \in Nat
    BY <1>0 DEF ReaderRec
<1>5. r \in MapRec /\ r.send = "write" /\ r.buf = reader.buf /\ r.of = reader.d
    BY <1>2, <1>4, Zenon DEF MapRec
<1> HIDE DEF r
<1>6. /\ mapping' \in [Datagrams -> MapRec] /\ mapping'[m] = r
      /\ \A n \in Datagrams \ {m} : mapping'[n] = mapping[n]
    BY <1>0, <1>3, <1>5, MapSet DEF UdpTypes
<1>7. reader' \in ReaderRec /\ reader'.pc = "alloc" /\ reader'.buf = 0
    BY <1>0, <1>3, Zenon DEF ReaderRec, None
<1>8. UdpTypes' /\ PayloadIntact'
    BY <1>0, <1>3, <1>6, <1>7 DEF UdpInv, UdpTypes, PayloadIntact
<1>9. ReaderOK'
    BY <1>7 DEF ReaderOK
<1>10. \A n \in Datagrams : MapOK(mapping[n])'
    <2> SUFFICES ASSUME NEW n \in Datagrams PROVE MapOK(mapping[n])'
        OBVIOUS
    <2>1. MapOK(r) /\ MapOK(mapping[n])
        BY <1>0, <1>5 DEF UdpInv, MapOK
    <2>2. mapping'[n] = r \/ mapping'[n] = mapping[n]
        BY <1>6
    <2> QED
        BY <1>3, <2>1, <2>2 DEF MapOK
<1>11. OneOwner'
    <2>1. \A i \in 1 .. Len(freelist) : freelist[i] # 0
        BY <1>0, FreeIn
    <2>2. \A n \in Datagrams : mapping'[n].buf = mapping[n].buf \/ (n = m /\ mapping'[n].buf = reader.buf)
        BY <1>5, <1>6
    <2>3. \A n \in Datagrams \ {m} : mapping'[n].buf = mapping[n].buf
        BY <1>6
    <2>4. mapping'[m].buf = reader.buf
        BY <1>5, <1>6
    <2>5. /\ \A i, j \in 1 .. Len(freelist') : freelist'[i] = freelist'[j] => i = j
          /\ \A i \in 1 .. Len(freelist') :
                freelist'[i] # reader'.buf /\ \A n \in Datagrams : freelist'[i] # mapping'[n].buf
        BY <1>0, <1>3, <1>7, <2>1, <2>2 DEF OneOwner
    <2>6. ASSUME NEW k \in Datagrams, mapping'[k].buf # 0
          PROVE  /\ mapping'[k].buf # reader'.buf
                 /\ \A n \in Datagrams \ {k} : mapping'[k].buf # mapping'[n].buf
        BY <1>0, <1>7, <2>3, <2>4, <2>6 DEF OneOwner
    <2> QED
        BY <2>5, <2>6 DEF OneOwner
<1> QED
    BY <1>3, <1>8, <1>9, <1>10, <1>11 DEF UdpInv

\* freebuf: the mapping gives up the buffer that it puts on the free list.
LEMMA SendFreesUdp == ASSUME UdpInv, NEW m \in Datagrams, SendFrees(m) PROVE UdpInv'
<1> DEFINE x == mapping[m]
           r == [x EXCEPT !.send = "recv", !.buf = 0, !.of = None, !.cnt = 0, !.late = FALSE]
<1>0. /\ x \in MapRec /\ MapOK(x) /\ x.send = "free" /\ x.buf \in Buffers
      /\ UdpTypes /\ OneOwner /\ ReaderOK
      /\ freelist \in Seq(Buffers)
    BY DEF UdpInv, UdpTypes, SendFrees, MapOK
<1>1. /\ mapping' = [mapping EXCEPT ![m] = r]
      /\ UNCHANGED <<reader, arrived, ports, content, wrote>>
      /\ \/ freelist' = freelist
         \/ freelist' = Append(freelist, x.buf)
    BY <1>0, Zenon DEF SendFrees, UdpTypes
<1>2. r \in MapRec /\ r.buf = 0 /\ r.send = "recv"
    BY <1>0, Zenon DEF MapRec, None
<1>3. reader.pc = "send" => reader.m # m
    BY <1>0 DEF ReaderOK, Fresh
<1> HIDE DEF r
<1>4. MapOK(r)
    BY <1>2 DEF MapOK
<1>5. PayloadIntact'
    BY <1>1 DEF UdpInv, PayloadIntact
<1>6. CASE freelist' = freelist
    BY <1>1, <1>2, <1>3, <1>4, <1>5, <1>6, MapKeeps, Zenon
<1>7. CASE freelist' = Append(freelist, x.buf)
    <2>1. /\ mapping' \in [Datagrams -> MapRec] /\ mapping'[m] = r
          /\ \A n \in Datagrams \ {m} : mapping'[n] = mapping[n]
        BY <1>0, <1>1, <1>2, MapSet DEF UdpTypes
    <2>2. /\ freelist' \in Seq(Buffers) /\ Len(freelist') = Len(freelist) + 1
          /\ \A i \in 1 .. Len(freelist) : freelist'[i] = freelist[i]
          /\ freelist'[Len(freelist) + 1] = x.buf
        BY <1>0, <1>7
    <2>3. Len(freelist) \in Nat /\ \A i \in 1 .. Len(freelist) : freelist[i] # 0
        BY <1>0, FreeIn
    <2>4. \A i \in 1 .. Len(freelist') : i \in 1 .. Len(freelist) \/ i = Len(freelist) + 1
        BY <2>2, <2>3
    <2>5. UdpTypes'
        BY <1>0, <1>1, <2>1, <2>2 DEF UdpTypes
    <2>6. ReaderOK'
        <3>1. reader.pc = "send" => mapping'[reader.m] = mapping[reader.m]
            BY <1>0, <1>3, <2>1 DEF ReaderOK
        <3> QED
            BY <1>0, <1>1, <3>1 DEF ReaderOK, Fresh
    <2>7. \A n \in Datagrams : MapOK(mapping[n])'
        <3> SUFFICES ASSUME NEW n \in Datagrams PROVE MapOK(mapping[n])'
            OBVIOUS
        <3>1. MapOK(mapping'[n])
            BY <1>4, <2>1 DEF UdpInv
        <3> QED
            BY <1>1, <3>1 DEF MapOK
    <2>8. 0 \notin Buffers
        BY DEF Buffers
    <2>9. \A i \in 1 .. Len(freelist) : freelist[i] # x.buf
        BY <1>0 DEF OneOwner
    <2>10. x.buf # reader.buf /\ \A n \in Datagrams \ {m} : x.buf # mapping[n].buf
        BY <1>0, <2>8 DEF OneOwner
    <2>11. \A n \in Datagrams : mapping'[n].buf = IF n = m THEN 0 ELSE mapping[n].buf
        BY <1>2, <2>1
    <2>12. \A i, j \in 1 .. Len(freelist') : freelist'[i] = freelist'[j] => i = j
        BY <1>0, <2>2, <2>4, <2>9 DEF OneOwner
    <2>13. \A i \in 1 .. Len(freelist') :
              freelist'[i] # reader'.buf /\ \A n \in Datagrams : freelist'[i] # mapping'[n].buf
        <3> SUFFICES ASSUME NEW i \in 1 .. Len(freelist')
                     PROVE  /\ freelist'[i] # reader.buf
                            /\ \A n \in Datagrams : freelist'[i] # mapping'[n].buf
            BY <1>1
        <3>1. CASE i \in 1 .. Len(freelist)
            <4>1. freelist'[i] = freelist[i] /\ freelist[i] # 0
                BY <2>2, <2>3, <3>1
            <4>2. freelist[i] # reader.buf /\ \A n \in Datagrams : freelist[i] # mapping[n].buf
                BY <1>0, <3>1 DEF OneOwner
            <4> QED
                BY <2>11, <4>1, <4>2
        <3>2. CASE i = Len(freelist) + 1
            BY <1>0, <2>2, <2>8, <2>10, <2>11, <3>2
        <3> QED
            BY <2>4, <3>1, <3>2
    <2>14. OneOwner'
        BY <1>0, <1>1, <2>11, <2>12, <2>13 DEF OneOwner
    <2> QED
        BY <1>5, <2>5, <2>6, <2>7, <2>14 DEF UdpInv
<1> QED
    BY <1>1, <1>6, <1>7

\* The mapper starts with empty tables.
LEMMA UdpStarts == ASSUME UdpInit PROVE UdpInv /\ reader.pc = "off"
<1> USE UdpAssumption
<1>1. reader = [pc |-> "off", buf |-> 0, d |-> None, m |-> None]
    BY DEF UdpInit
<1>2. reader \in ReaderRec /\ reader.pc = "off" /\ reader.buf = 0
    BY <1>1 DEF ReaderRec, None
<1>3. NoMapping \in MapRec /\ NoMapping.buf = 0 /\ NoMapping.send = "none"
    BY Zenon DEF NoMapping, NewMapping, MapRec, None
<1>4. mapping \in [Datagrams -> MapRec] /\ \A m \in Datagrams : mapping[m] = NoMapping
    BY <1>3 DEF UdpInit
<1>5. freelist \in Seq(Buffers) /\ 1 .. Len(freelist) = {}
    BY DEF UdpInit
<1>6. content \in [Buffers -> Nat] /\ arrived = 0 /\ ports = {} /\ wrote = {}
    BY DEF UdpInit, None
<1>7. UdpTypes /\ ReaderOK /\ PayloadIntact
    BY <1>2, <1>4, <1>5, <1>6 DEF UdpTypes, ReaderOK, PayloadIntact
<1>8. \A m \in Datagrams : MapOK(mapping[m])
    BY <1>3, <1>4 DEF MapOK
<1>9. OneOwner
    BY <1>3, <1>4, <1>5 DEF OneOwner
<1> QED
    BY <1>2, <1>7, <1>8, <1>9 DEF UdpInv

\* What the other parts do is nothing to the mapper.
LEMMA IdleUdp == ASSUME UdpInv, UNCHANGED udpVars PROVE UdpInv'
<1>1. UNCHANGED <<reader, arrived, ports, mapping, freelist, content, wrote>>
    BY DEF udpVars
<1>2. UdpTypes' /\ ReaderOK' /\ PayloadIntact'
    BY <1>1 DEF UdpInv, UdpTypes, ReaderOK, Fresh, PayloadIntact
<1>3. \A m \in Datagrams : MapOK(mapping[m])'
    BY <1>1 DEF UdpInv, MapOK
<1>4. OneOwner'
    BY <1>1 DEF UdpInv, OneOwner
<1> QED
    BY <1>2, <1>3, <1>4 DEF UdpInv

\* A step of the mapper itself, which never ends the program.
LEMMA UdpNextUdp == ASSUME UdpInv, UdpNext PROVE UdpInv' /\ UNCHANGED main
<1>1. CASE AllocBuf
    BY <1>1, AllocBufUdp DEF AllocBuf
<1>2. CASE HandOver
    BY <1>2, HandOverUdp
<1>3. CASE ReadFrom
    BY <1>3, ReadFromUdp DEF ReadFrom
<1>4. CASE ReadFromFails
    BY <1>4, ReaderKeepsUdp DEF ReadFromFails
<1>5. ASSUME NEW d \in Datagrams, MapStep(d) \/ RecvAnswers(d) \/ TickStep(d)
      PROVE  UdpInv' /\ UNCHANGED main
    <2>1. CASE SendWrites(d)
        BY <2>1, SendWritesUdp DEF SendWrites
    <2>2. CASE SendFrees(d)
        BY <2>2, SendFreesUdp DEF SendFrees
    <2>3. CASE SendEnds(d) \/ RecvAnswers(d) \/ TickStep(d)
        <3>1. UNCHANGED main
            BY <2>3 DEF SendEnds, RecvAnswers, TickStep, Tick, CloseMapping, RemovePorts
        <3> QED
            BY <2>3, <3>1, MapTicksUdp
    <2> QED
        BY <1>5, <2>1, <2>2, <2>3 DEF MapStep
<1> QED
    BY <1>1, <1>2, <1>3, <1>4, <1>5 DEF UdpNext, ReaderStep
-----------------------------------------------------------------------------

\* The datagrams of the whole program.
FrontUdp == UdpInv /\ (main = "load" => reader.pc = "off")

\* The mapper starts with empty tables.
LEMMA InitUdp == Init => FrontUdp
    BY UdpStarts DEF Init, FrontUdp

\* Every step of the program.
LEMMA StepUdp == ASSUME FrontUdp, [Next]_vars PROVE FrontUdp'
<1>0. UdpInv /\ (main = "load" => reader.pc = "off")
    BY DEF FrontUdp
<1>1. CASE Serve
    <2>1. main' = "serve" /\ ((StartUdp /\ reader.pc = "off") \/ UNCHANGED udpVars)
        BY <1>0, <1>1 DEF Serve
    <2>2. UdpInv'
        BY <1>0, <2>1, ReaderKeepsUdp, IdleUdp
    <2> QED
        BY <2>1, <2>2 DEF FrontUdp
<1>2. CASE UdpDials
    <2>1. main = "serve" /\ main' # "load"
        BY <1>2 DEF UdpDials, Serving, UdpFinds, UdpReturns, FindPort, UdpDialed, UdpDialFails
    <2>2. CASE UdpFinds
        BY <1>0, <2>1, <2>2, ReaderKeepsUdp DEF UdpFinds, FrontUdp
    <2>3. CASE UdpReturns
        <3>1. \/ UdpDialed("udp") \/ UdpDialed("denied") \/ UdpDialFails
              \/ UNCHANGED udpVars
            BY <2>3 DEF UdpReturns
        <3>2. UdpInv'
            BY <1>0, <3>1, UdpDialedUdp, ReaderKeepsUdp, IdleUdp
        <3> QED
            BY <2>1, <3>2 DEF FrontUdp
    <2> QED
        BY <1>2, <2>2, <2>3 DEF UdpDials
<1>3. CASE UdpNext
    <2>1. main # "load"
        BY <1>3 DEF UdpNext
    <2> QED
        BY <1>0, <1>3, <2>1, UdpNextUdp DEF FrontUdp
<1>4. CASE UNCHANGED udpVars /\ (main' = "load" => main = "load")
    <2>1. reader' = reader
        BY <1>4 DEF udpVars
    <2> QED
        BY <1>0, <1>4, <2>1, IdleUdp DEF FrontUdp
<1>5. CASE ReadLine \/ Stops \/ Serving
    <2>1. main' = "load" /\ ~UdpDials /\ ~UdpNext /\ [Next]_vars => main = "load"
        BY <1>5 DEF Next, vars, ReadLine, Stops, Serve, Dials, LookupAnswers, DialReturns,
                    Request, ConnectFails, Connect, RoundTrip, Accept, TcpFails, TcpPortmap
    <2>2. CASE UNCHANGED udpVars
        BY <1>4, <2>1, <2>2, <1>2, <1>3
    <2> QED
        BY <1>1, <1>2, <1>3, <2>2 DEF Next, vars, Dials, Alone
<1>6. CASE UNCHANGED vars
    BY <1>4, <1>6 DEF vars
<1> QED
    BY <1>1, <1>5, <1>6, <1>2, <1>3 DEF Next, Dials

\* What is written to the destination of a UDP port is the datagram that came,
\* whatever way the buffers go between the reader, the mappings and the free list
\* (portmap.go:201-210, leakybuf.go:5-20).
THEOREM PayloadsIntact == Spec => []PayloadIntact
<1>1. FrontUdp => PayloadIntact
    BY DEF FrontUdp, UdpInv
<1> QED
    BY <1>1, InitUdp, StepUdp, PTL DEF Spec

\* The reader never meets a closed channel: a mapping is only closed after two ticks,
\* and the reader hands over before the second (portmap.go:98, 146, 156).
THEOREM ChannelsOpen == Spec => []ChannelOpen
<1>1. FrontUdp => ChannelOpen
    BY DEF FrontUdp, UdpInv, ReaderOK, Fresh, ChannelOpen
<1> QED
    BY <1>1, InitUdp, StepUdp, PTL DEF Spec
-----------------------------------------------------------------------------
(* What the program crashes on. *)

\* A record that Translate cannot take apart is one of a type that it does not know:
\* the words that it uses are among those that it asks for (httpsdns.go:162-393).
LEMMA TranslateKnown ==
    ASSUME NEW rr \in RR, Translate(rr) = "panic"
    PROVE  ~Known(rr)
<1> SUFFICES ASSUME Known(rr) PROVE FALSE
    OBVIOUS
<1>1. rr.words \in Nat
    BY DEF RR
<1>2. /\ rr.type \notin WholeTypes /\ ~(rr.words < Words[rr.type])
      /\ rr.words <= LastWord[rr.type]
    BY DEF Translate
<1>3. rr.type \in DOMAIN Words
    BY <1>2 DEF Known
<1>4. \A t \in DOMAIN Words : Words[t] \in Nat /\ LastWord[t] \in Nat /\ LastWord[t] < Words[t]
    BY DEF Words, LastWord
<1> QED
    BY <1>1, <1>2, <1>3, <1>4

\* An answer on which the translation panics, or that has an address that is none.
LEMMA BadLookup ==
    ASSUME NEW msg \in Answer,
           AnswerPanics(msg) \/ \E j \in DOMAIN Addresses(msg) : Addresses(msg)[j] = nil
    PROVE  BadAnswer(msg)
<1>1. msg.answer \in Seq(RR) /\ msg.others \in Seq(RR)
    BY DEF Answer
<1>2. /\ \A i \in DOMAIN msg.answer : msg.answer[i] \in RR
      /\ \A i \in DOMAIN msg.others : msg.others[i] \in RR
    BY <1>1
<1>3. CASE AnswerPanics(msg)
    BY <1>2, <1>3, TranslateKnown DEF AnswerPanics, BadAnswer
<1>4. CASE \E j \in DOMAIN Addresses(msg) : Addresses(msg)[j] = nil
    BY <1>4, AddressesIn DEF BadAnswer
<1> QED
    BY <1>3, <1>4

\* Dial panics on an address that is none, if at all.
LEMMA RoutedPanics ==
    ASSUME NEW addrs, Routed(addrs).pc = "panic"
    PROVE  \E j \in DOMAIN addrs : addrs[j] = nil
<1>1. Verdict(addrs) = "panic"
    BY DEF Routed, NoDial
<1> QED
    BY <1>1 DEF Verdict

\* Dial itself panics on no target of the configuration.
LEMMA DialingLives == ASSUME IInv PROVE Dialing.pc # "panic"
<1>1. config.target.kind \in {"noport", "ip", "name"}
    BY FrontAssumption DEF IInv
<1>2. CASE config.filtered /\ config.target.kind = "ip"
    <2>1. PICK ip \in IP : ip = config.target.ip
        BY <1>2, FrontAssumption DEF IInv
    <2>2. ip # nil
        <3>1. Len(ip) > 0
            BY IPLen, IPFilterAssumption
        <3> QED
            BY <3>1 DEF nil
    <2>3. Dialing = Routed(<<ip>>)
        BY <1>2, <2>1 DEF Dialing
    <2>4. \A j \in DOMAIN <<ip>> : <<ip>>[j] # nil
        BY <2>2
    <2> QED
        BY <2>3, <2>4, RoutedPanics
<1>3. CASE ~config.filtered \/ config.target.kind \in {"noport", "name"}
    BY <1>1, <1>3 DEF Dialing, NoDial
<1> QED
    BY <1>1, <1>2, <1>3

\* A step that crashes nothing, or what had crashed before.
LEMMA Lives ==
    ASSUME Survives, UNCHANGED setup,
           main' = "crashed" => main = "crashed" \/ dial.pc = "panic",
           dial'.pc = "panic" => dial.pc = "panic"
    PROVE  Survives'
BY DEF Survives, setup

\* The step of any part crashes on nothing else.
LEMMA StepSurvives ==
    ASSUME IInv, FrontUdp, Survives, [Next]_vars PROVE Survives'
<1>1. CASE ReadLine /\ Alone
    <2>1. dial = NoDial /\ dial' = dial /\ config' = config /\ main = "load" /\ rest # <<>>
        BY <1>1 DEF ReadLine, IInv
    <2>2. CASE Panics(Head(rest))
        BY <1>1, <2>1, <2>2 DEF ReadLine, Survives
    <2>3. CASE ~Panics(Head(rest))
        BY <1>1, <2>1, <2>3 DEF ReadLine, Survives, NoDial
    <2> QED
        BY <2>2, <2>3
<1>2. CASE Serve \/ (Stops /\ Alone)
    BY <1>2, Lives DEF Serve, Stops
<1>3. CASE Dials
    <2>1. CASE DialReturns
        <3>1. dial'.pc # "panic" /\ UNCHANGED <<setup, main>>
            BY <2>1 DEF DialReturns, Outcomes
        <3> QED
            BY <3>1, Lives
    <2>2. CASE LookupAnswers
        <3> DEFINE msg == config.target.answer
        <3>1. config.target.kind = "name" /\ msg \in Answer
            BY <2>2, FrontAssumption DEF LookupAnswers, RightDial, IInv
        <3>2. UNCHANGED <<setup, main>> /\ config' = config
            BY <2>2 DEF LookupAnswers, setup
        <3>3. PICK r \in Exchange(msg) :
                 dial' = IF r = "answer" THEN Routed(Addresses(msg)) ELSE [NoDial EXCEPT !.pc = r]
            BY <2>2 DEF LookupAnswers
        <3>4. dial'.pc = "panic" => BadAnswer(msg)
            <4>1. CASE r = "answer"
                BY <3>1, <3>3, <4>1, RoutedPanics, BadLookup
            <4>2. CASE r # "answer"
                <5>1. dial'.pc = r
                    BY <3>3, <4>2 DEF NoDial
                <5>2. r = "panic" => AnswerPanics(msg)
                    BY <3>3 DEF Exchange
                <5> QED
                    BY <3>1, <5>1, <5>2, BadLookup
            <4> QED
                BY <4>1, <4>2
        <3>5. CASE dial'.pc = "panic"
            BY <3>1, <3>2, <3>4, <3>5 DEF Survives
        <3>6. CASE dial'.pc # "panic"
            BY <3>2, <3>6, Lives
        <3> QED
            BY <3>5, <3>6
    <2> QED
        BY <1>3, <2>1, <2>2 DEF Dials
<1>4. CASE \E h \in Headers : Serving /\ Request(h) /\ Alone
    <2>1. UNCHANGED <<setup, main>> /\ (dial' = dial \/ dial' = Dialing)
        BY <1>4 DEF Request
    <2> QED
        BY <2>1, DialingLives, Lives
<1>5. CASE Serving /\ (ConnectFails \/ Connect \/ RoundTrip \/ TcpFails \/ TcpPortmap)
    <2>1. /\ UNCHANGED <<setup, dial>>
          /\ main' = "crashed" => main = "crashed" \/ dial.pc = "panic"
        BY <1>5 DEF ConnectFails, Connect, RoundTrip, TcpFails, TcpPortmap
    <2> QED
        BY <2>1, Lives
<1>6. CASE Serving /\ Accept
    <2>1. UNCHANGED <<setup, main>> /\ dial' = Dialing
        BY <1>6 DEF Accept
    <2> QED
        BY <2>1, DialingLives, Lives
<1>7. CASE Serving /\ RelayNext /\ UNCHANGED <<setup, dial, reply, main, udpVars>>
    BY <1>7, Lives
<1>8. CASE UdpDials
    <2>1. CASE UdpFinds
        <3>1. UNCHANGED <<setup, main>> /\ (dial' = dial \/ dial' = Dialing)
            BY <2>1 DEF UdpFinds, FindPort
        <3> QED
            BY <3>1, DialingLives, Lives
    <2>2. CASE UdpReturns
        <3>1. /\ UNCHANGED setup /\ dial' = NoDial
              /\ main' = "crashed" => main = "crashed" \/ dial.pc = "panic"
            BY <2>2 DEF UdpReturns, UdpDialed, UdpDialFails
        <3>2. dial'.pc # "panic"
            BY <3>1 DEF NoDial
        <3> QED
            BY <3>1, <3>2, Lives
    <2> QED
        BY <1>8, <2>1, <2>2 DEF UdpDials
<1>9. CASE UdpNext /\ UNCHANGED <<setup, dial, reply, relayVars>>
    <2>1. UNCHANGED main
        BY <1>9, UdpNextUdp DEF FrontUdp
    <2> QED
        BY <1>9, <2>1, Lives
<1>10. CASE UNCHANGED vars
    BY <1>10, Lives DEF vars, setup
<1> QED
    BY <1>1, <1>2, <1>3, <1>4, <1>5, <1>6, <1>7, <1>8, <1>9, <1>10 DEF Next

\* The program crashes on a line that is no address and mask and on an answer with
\* a record it does not know, an address that is none or a question too many, and on
\* nothing else: no number of words in a record, no timing of datagrams and tickers
\* (httpsdns.go:162-393, iplist.go:43, 73-76, portmap.go:98).
THEOREM ProgramSurvives == Spec => []Survives
<1>1. Init => Survives
    BY DEF Init, Survives, NoDial
<1>2. IInv /\ FrontUdp /\ Survives /\ [Next]_vars => IInv' /\ FrontUdp' /\ Survives'
    BY StepIInv, StepUdp, StepSurvives
<1> QED
    BY <1>1, <1>2, InitIInv, InitUdp, PTL DEF Spec
-----------------------------------------------------------------------------
(* The connections: see module Relay_proofs for their invariant. *)

\* Before a connection is made there is nothing; there is one at most.
FrontRelay == IF hops = 0 THEN RelayInit ELSE RelayInv /\ reply # "none"

\* What the other parts do is nothing to the connection.
LEMMA IdleRelay ==
    ASSUME FrontRelay, UNCHANGED relayVars, reply # "none" => reply' # "none"
    PROVE  FrontRelay'
<1>1. UNCHANGED <<hops, dead, deaf, buf, shut, broken, expired, copier, sent, got, eof>>
    BY DEF relayVars
<1>2. CASE hops = 0
    BY <1>1, <1>2 DEF FrontRelay, RelayInit
<1>3. CASE hops # 0
    BY <1>1, <1>3, RelayKept DEF FrontRelay
<1> QED
    BY <1>2, <1>3

\* Every step of the program.
LEMMA StepRelay == ASSUME FrontRelay, [Next]_vars PROVE FrontRelay'
<1>1. CASE Connect \/ TcpPortmap
    <2>1. reply = "none" /\ reply' # "none" /\ StartRelay(Hops, dial.pc = "denied")
        BY <1>1 DEF Connect, TcpPortmap
    <2>2. RelayInit
        BY <2>1 DEF FrontRelay
    <2>3. PICK n \in {1, 2} : n = Hops
        BY DEF Hops
    <2>4. PICK b \in BOOLEAN : b = (dial.pc = "denied")
        BY Zenon
    <2>5. StartRelay(n, b)
        BY <2>1, <2>3, <2>4
    <2>6. RelayInv' /\ hops' = n
        BY <2>2, <2>5, StartRelayRelay DEF StartRelay
    <2> QED
        BY <2>1, <2>6 DEF FrontRelay
<1>2. CASE RelayNext /\ UNCHANGED <<setup, dial, reply, main, udpVars>>
    <2>1. hops # 0 /\ RelayInv /\ reply # "none"
        BY <1>2, NoRelay DEF FrontRelay
    <2>2. RelayInv'
        BY <1>2, <2>1, RelayStep
    <2>3. hops' # 0
        BY <2>2 DEF RelayInv, RelayTypes
    <2> QED
        BY <1>2, <2>1, <2>2, <2>3 DEF FrontRelay
<1>3. CASE UNCHANGED relayVars /\ ~Connect /\ ~TcpPortmap
    <2>1. reply # "none" => reply' # "none"
        BY <1>3 DEF Next, vars, ReadLine, Serve, Stops, Dials, LookupAnswers, DialReturns, Request,
           ConnectFails, RoundTrip, Accept, TcpFails, UdpDials, UdpFinds, UdpReturns
    <2> QED
        BY <1>3, <2>1, IdleRelay
<1>4. Connect \/ TcpPortmap \/ UNCHANGED relayVars
         \/ (RelayNext /\ UNCHANGED <<setup, dial, reply, main, udpVars>>)
    BY DEF Next, vars, Alone, Serve, Dials, UdpDials
<1> QED
    BY <1>1, <1>2, <1>3, <1>4

\* A user that was told the end of the answer has the whole answer, if the target had
\* read the whole request and the tunnel stands: over one CopyLink or two, for any
\* amount of traffic and any capacity of the links, whoever closes, fails or times out
\* on the way (net.go:30-35, conn.go:180, 355).
THEOREM AnswersComplete == Spec => []AnswerComplete
<1>1. Init => FrontRelay
    BY DEF Init, FrontRelay, RelayInit
<1>2. FrontRelay => AnswerComplete
    <2>1. RelayInit => AnswerComplete
        BY DEF RelayInit, AnswerComplete
    <2> QED
        BY <2>1, Complete DEF FrontRelay
<1> QED
    BY <1>1, <1>2, StepRelay, PTL DEF Spec
=============================================================================
