------------------------------ MODULE MCFront -------------------------------
(***************************************************************************)
(* Addresses of 3 and 4 bits with bytes of one bit.  Plain requests go     *)
(* through every list of one line and some of two; the connections and     *)
(* datagrams that follow a dial are checked with a few lists, and records  *)
(* of every type with 1 to 10 words: Translate asks for at most 9.         *)
(***************************************************************************)
EXTENDS Front

MCTraffic == [up |-> 1, down |-> 2]
MCSource == [d \in Datagrams |-> "src"]

Record(t, n, a) == [type |-> t, words |-> n, covered |-> n % 2 = 0, addr |-> a]
Message(q, answer, others) == [questions |-> q, answer |-> answer, others |-> others]
Name(msg) == [kind |-> "name", answer |-> msg]

a4 == <<1, 0, 1>>
b4 == <<0, 1, 1>>
a6 == <<1, 0, 1, 1>>

Block(ip, n) == [kind |-> "cidr", ip |-> ip, ones |-> n]

\* Every address against every line.
Routes == {[filtered |-> TRUE, list |-> <<l>>, auth |-> FALSE, kind |-> "plain", target |-> [kind |-> "ip", ip |-> ip]] :
              l \in Line, ip \in {a4, b4, a6}}

\* Names with two addresses, and lists of two lines that overlap.
A(ip) == Record("A", 1, ip)
Names2 == {[filtered |-> TRUE, list |-> <<k, l>>, auth |-> FALSE, kind |-> "plain",
            target |-> Name(Message(1, <<A(x), Record("CNAME", 1, nil), A(y)>>, <<>>))] :
              k \in {Block(a4, n) : n \in 0 .. 3}, l \in {Block(b4, n) : n \in 1 .. 3},
              x \in {a4, b4, <<1, 1, 0>>, nil}, y \in {a4, b4, nil}}

\* Records of every type with any number of words.
Types == WholeTypes \cup DOMAIN LastWord \cup {"HINFO", "LOC"}
Records == {Record(t, n, a4) : t \in Types, n \in 1 .. 10}
Answered == {[filtered |-> TRUE, list |-> <<Block(a4, 2)>>, auth |-> FALSE, kind |-> "plain", target |-> Name(m)] :
               m \in {Message(1, <<r>>, <<>>) : r \in Records}
                     \cup {Message(q, <<A(a4)>>, <<r>>) : q \in 0 .. 2, r \in Records}}

\* What happens after the dial: through the tunnel, directly, and not at all.
Unfiltered(k) == [filtered |-> FALSE, list |-> <<>>, auth |-> FALSE, kind |-> k,
                  target |-> [kind |-> "noport"]]
Filtered(k, t) == [filtered |-> TRUE, list |-> <<Block(a4, 2)>>, auth |-> TRUE, kind |-> k,
                   target |-> t]
Refused == {[kind |-> "noport"], Name(Message(1, <<Record("LOC", 1, nil)>>, <<>>))}
Users == {Unfiltered(k) : k \in {"connect", "udp"}}
            \cup {Filtered(k, [kind |-> "ip", ip |-> a4]) : k \in {"tcp", "udp"}}
            \cup {Filtered(k, t) : k \in {"connect", "tcp", "udp"}, t \in Refused}

MCConfigs == Routes \cup Names2 \cup Answered \cup Users
=============================================================================
