-------------------------------- MODULE Front -------------------------------
(***************************************************************************)
(* The client's side towards its users (goproxy/client.go): the HTTP proxy *)
(* and the TCP and UDP port mappers, all of which dial through the         *)
(* FilteredDialer: it looks the host up, asks the address filter, and      *)
(* connects directly or through the tunnel.                                *)
(*                                                                         *)
(* The program reads the list of the filter line by line and then serves   *)
(* one user: a CONNECT request, a plain request, a connection to a TCP     *)
(* port, or the datagrams of a UDP port.  A stream that the server denied  *)
(* is returned by Dial without an error (see module Tunnel).               *)
(***************************************************************************)
EXTENDS IPFilter, HttpsDns, Relay, UdpMap

CONSTANT Configs     \* whether there is a list, its lines, whether a password is asked for,
                     \* the kind of user, the target and what the name service says of it

\* What the name service may say.
RR == [type : STRING, words : Nat, covered : BOOLEAN, addr : IP \cup {nil}]
Answer == [questions : Nat, answer : Seq(RR), others : Seq(RR)]

ASSUME FrontAssumption ==
    \A c \in Configs :
        /\ c.list \in Seq(Line)
        /\ ~c.filtered => c.list = <<>>
        /\ c.target.kind \in {"noport", "ip", "name"}
        /\ c.target.kind = "ip" => c.target.ip \in IP
        /\ c.target.kind = "name" => c.target.answer \in Answer

Headers == {"absent", "malformed", "wrong", "right"}     \* Proxy-Authorization

VARIABLES
    config,   \* one of Configs
    rest,     \* the lines of the list not yet read
    filter,   \* the IPFilter that ReadIPList builds
    dial,     \* a call of FilteredDialer.Dial
    reply     \* what the user was told

vars == <<config, rest, filter, dial, reply, main, relayVars, udpVars>>
setup == <<config, rest, filter>>

NoDial == [pc |-> "idle", addrs |-> <<>>, route |-> "none"]

Init ==
    /\ config \in Configs
    /\ rest = config.list
    /\ filter = EmptyFilter
    /\ dial = NoDial
    /\ reply = "none"
    /\ main = "load"
    /\ RelayInit
    /\ UdpInit
-----------------------------------------------------------------------------
(* RunHttproxy *)

\* A step of ReadIPList.
ReadLine ==
    /\ main = "load"
    /\ rest # <<>>
    /\ IF Panics(Head(rest))
         THEN main' = "crashed" /\ UNCHANGED <<rest, filter>>
         ELSE /\ filter' = Insert(filter, ParseLine(Head(rest)))
              /\ rest' = Tail(rest)
              /\ UNCHANGED main
    /\ UNCHANGED <<config, dial, reply>>

\* The port mappers and the proxy start.
Serve ==
    /\ main = "load"
    /\ rest = <<>>
    /\ main' = "serve"
    /\ IF config.kind = "udp" THEN StartUdp ELSE UNCHANGED udpVars
    /\ UNCHANGED <<setup, dial, reply, relayVars>>

\* A certificate, a cipher, the list or the port of the proxy is no good: the
\* error is logged and the program ends.
Stops ==
    /\ main = "load"
    /\ main' = "stopped"
    /\ UNCHANGED <<setup, dial, reply>>
-----------------------------------------------------------------------------
(* FilteredDialer.Dial *)

\* The addresses are tried in turn; one that is nil has no first byte.
Matches(ip) == ip # nil /\ Contain(filter, ip)
Verdict(addrs) ==
    IF \E i \in DOMAIN addrs :
           addrs[i] = nil /\ \A j \in DOMAIN addrs : j < i => ~Matches(addrs[j])
      THEN "panic"
      ELSE IF \E i \in DOMAIN addrs : Matches(addrs[i]) THEN "direct" ELSE "pool"

\* What Dial does once it knows the addresses.
Routed(addrs) ==
    IF DOMAIN addrs = {} THEN [NoDial EXCEPT !.pc = "error"]     \* ErrDNSNotFound
    ELSE IF Verdict(addrs) = "panic" THEN [NoDial EXCEPT !.pc = "panic"]
    ELSE [pc |-> "call", addrs |-> addrs, route |-> Verdict(addrs)]

\* Dial up to the lookup: without a filter everything goes through the tunnel;
\* the target may have no port, or be an address.
Dialing ==
    CASE ~config.filtered -> [pc |-> "call", addrs |-> <<>>, route |-> "pool"]
      [] config.filtered /\ config.target.kind = "noport" -> [NoDial EXCEPT !.pc = "error"]
      [] config.filtered /\ config.target.kind = "ip" -> Routed(<<config.target.ip>>)
      [] config.filtered /\ config.target.kind = "name" -> [NoDial EXCEPT !.pc = "lookup"]

\* LookupIP returns; after an error the list of addresses is empty.
LookupAnswers ==
    LET msg == config.target.answer IN
    /\ dial.pc = "lookup"
    /\ \E r \in Exchange(msg) :
          dial' = IF r = "answer" THEN Routed(Addresses(msg)) ELSE [NoDial EXCEPT !.pc = r]
    /\ UNCHANGED <<setup, reply, main>>

\* Dial of the TcpDialer or of the pool returns.  The server may deny a stream, and
\* always does for the network "udp".
Outcomes == {"error"} \cup (IF dial.route = "pool" THEN {"denied"} ELSE {})
                      \cup (IF dial.route = "pool" /\ config.kind = "udp" THEN {} ELSE {"ok"})

DialReturns ==
    /\ dial.pc = "call"
    /\ \E pc \in Outcomes : dial' = [dial EXCEPT !.pc = pc]
    /\ UNCHANGED <<setup, reply, main>>

Returned == dial.pc \in {"ok", "denied"}
-----------------------------------------------------------------------------
(* Proxy.ServeHTTP *)

IsHTTP == config.kind \in {"connect", "plain"}

BasicAuth(header) == header = "right"

Request(header) ==
    /\ IsHTTP /\ reply = "none" /\ dial.pc = "idle"
    /\ IF config.auth /\ ~BasicAuth(header)
         THEN reply' = "407" /\ UNCHANGED dial
         ELSE dial' = Dialing /\ UNCHANGED reply
    /\ UNCHANGED <<setup, main>>

\* Connect was called: the connection is the user's from now on, and it is closed
\* when Connect returns, also by a panic, from which net/http recovers.
ConnectFails ==
    /\ config.kind = "connect" /\ reply = "none"
    /\ \/ dial.pc = "error" /\ reply' = "502"
       \/ dial.pc = "panic" /\ reply' = "closed"
    /\ UNCHANGED <<setup, dial, main>>

Hops == IF dial.route = "direct" THEN 1 ELSE 2

Connect ==
    /\ config.kind = "connect" /\ reply = "none"
    /\ Returned
    /\ reply' = "200"
    /\ StartRelay(Hops, dial.pc = "denied")
    /\ UNCHANGED <<setup, dial, main>>

\* RoundTrip of the transport, which dials in a goroutine of its own.  A stream
\* that was denied cannot be written.
RoundTrip ==
    /\ config.kind = "plain" /\ reply = "none"
    /\ \/ dial.pc \in {"error", "denied", "ok"} /\ reply' = "500" /\ UNCHANGED main
       \/ dial.pc = "ok" /\ reply' \in {"whole", "cut"} /\ UNCHANGED main
       \/ dial.pc = "panic" /\ main' = "crashed" /\ UNCHANGED reply
    /\ UNCHANGED <<setup, dial>>
-----------------------------------------------------------------------------
(* TcpPortmap, and the calls of Dial in UdpPortmap. *)

Accept ==
    /\ config.kind = "tcp" /\ dial.pc = "idle"
    /\ dial' = Dialing
    /\ UNCHANGED <<setup, reply, main>>

TcpFails ==
    /\ config.kind = "tcp" /\ reply = "none"
    /\ \/ dial.pc = "error" /\ reply' = "closed" /\ UNCHANGED main
       \/ dial.pc = "panic" /\ main' = "crashed" /\ UNCHANGED reply
    /\ UNCHANGED <<setup, dial>>

TcpPortmap ==
    /\ config.kind = "tcp" /\ reply = "none"
    /\ Returned
    /\ reply' = "linked"
    /\ StartRelay(Hops, dial.pc = "denied")
    /\ UNCHANGED <<setup, dial, main>>

UdpFinds ==
    /\ FindPort
    /\ dial' = IF reader'.pc = "dial" THEN Dialing ELSE dial
    /\ UNCHANGED <<setup, reply>>

UdpReturns ==
    /\ \/ dial.pc = "ok" /\ UdpDialed("udp")
       \/ dial.pc = "denied" /\ UdpDialed("denied")
       \/ dial.pc = "error" /\ UdpDialFails
       \/ /\ dial.pc = "panic"
          /\ main' = "crashed"
          /\ UNCHANGED udpVars
    /\ reader.pc = "dial"
    /\ dial' = NoDial
    /\ UNCHANGED <<setup, reply>>
-----------------------------------------------------------------------------
Serving == main = "serve"
Alone == UNCHANGED <<relayVars, udpVars>>

Dials == Serving /\ (LookupAnswers \/ DialReturns) /\ Alone
UdpDials == Serving /\ (UdpFinds \/ UdpReturns) /\ UNCHANGED relayVars

Next ==
    \/ ReadLine /\ Alone
    \/ Serve
    \/ Stops /\ Alone
    \/ Dials
    \/ \E h \in Headers : Serving /\ Request(h) /\ Alone
    \/ Serving /\ ConnectFails /\ Alone
    \/ Serving /\ Connect /\ UNCHANGED udpVars
    \/ Serving /\ RoundTrip /\ Alone
    \/ Serving /\ Accept /\ Alone
    \/ Serving /\ TcpFails /\ Alone
    \/ Serving /\ TcpPortmap /\ UNCHANGED udpVars
    \/ Serving /\ RelayNext /\ UNCHANGED <<setup, dial, reply, main, udpVars>>
    \/ UdpDials
    \/ UdpNext /\ UNCHANGED <<setup, dial, reply, relayVars>>

Spec == Init /\ [][Next]_vars

\* Goroutines that can run do run, a lookup and a call of Dial come to an end.
FairSpec ==
    /\ Spec
    /\ RelayFairness /\ UdpFairness
    /\ WF_vars(Dials) /\ WF_vars(UdpDials)
-----------------------------------------------------------------------------
\* A connection is made directly exactly when an address of the host is in a block
\* of the list, however the blocks were distributed over rest, idx1 and idx2
\* (iplist.go:38-63, 110-121, 199-225).
RightRoute ==
    dial.route # "none" =>
        (dial.route = "direct" <=>
            \E i \in DOMAIN config.list, j \in DOMAIN dial.addrs :
                Covers(config.list[i], dial.addrs[j]))

\* More than was asked for, a record of a type that is not known, an address that
\* is none.
BadAnswer(msg) ==
    \/ msg.questions > 1
    \/ \E i \in DOMAIN msg.answer : \/ ~Known(msg.answer[i])
                                    \/ msg.answer[i].type \in {"A", "AAAA"}
                                       /\ msg.answer[i].addr = nil
    \/ \E i \in DOMAIN msg.others : ~Known(msg.others[i])

\* The program only crashes on a line that is no address and mask, and on an answer
\* that is bad in one of these ways: not on records that are cut short, and not by handing a
\* datagram to a mapping that was closed (httpsdns.go:162-393, iplist.go:43, 73-76,
\* portmap.go:98).
Survives ==
    (main = "crashed" \/ dial.pc = "panic") =>
        \/ rest # <<>> /\ Panics(Head(rest))
        \/ config.target.kind = "name" /\ BadAnswer(config.target.answer)

\* A mapping that is not used any more leaves the table, which has no limit of
\* its own, and its SendHandler ends (portmap.go:155-159, 196-199).
MappingsLeave ==
    \A m \in Datagrams :
        m \in ports ~> main = "crashed" \/ (m \notin ports /\ mapping[m].send = "done")
=============================================================================
