------------------------------- MODULE Relay -------------------------------
(***************************************************************************)
(* A connection that goes through the proxy: CopyLink of netutil/net.go,   *)
(* once where the filter connects directly, twice where a stream of the    *)
(* tunnel lies between the client's CopyLink and the server's.             *)
(*                                                                         *)
(*      user -- link 0 -- hop 1 -- link 1 -- target               (hops 1) *)
(*      user -- link 0 -- hop 1 == stream == hop 2 -- link 2 -- target (2) *)
(*                                                                         *)
(* Each hop has two goroutines, one for each direction, that copy from one *)
(* connection to the other and then close the one they write to.  Close of *)
(* a TCP connection ends both directions; Close of a stream is closeWrite. *)
(* A link is what module Tunnel shows a stream to be: its reader gets what *)
(* was written in order, and EOF behind it.                                *)
(***************************************************************************)
EXTENDS Integers

CONSTANTS ROOM,      \* units that a link takes, each way, before writers wait
          Traffic    \* bound: units sent up by the user and down by the target

Dir == {"up", "down"}
End == {"near", "far"}          \* of a link: towards the user, towards the target
Link == 0 .. 2
Hop == 1 .. 2
Copier == Hop \X Dir

Opposite(d) == IF d = "up" THEN "down" ELSE "up"
Writer(d) == IF d = "up" THEN "near" ELSE "far"
Reader(d) == Writer(Opposite(d))

VARIABLES
    hops,     \* number of CopyLinks; 0 before the connection is made
    dead,     \* the stream was denied, and Dial returned it all the same
    buf,      \* per link and direction, the units on the way
    shut,     \* per link and end, Close was called there
    deaf,     \* the client's end of the stream has ignored the server's FIN
    broken,   \* the tunnel of the stream has lost its connection
    expired,  \* per end of the stream, Reset has run
    copier,   \* the goroutines of CopyLink
    sent,     \* per direction, units that the user or the target has sent
    got,      \* per direction, units that the target or the user has received
    eof       \* the user has seen the end of the answer

relayVars == <<hops, dead, deaf, buf, shut, broken, expired, copier, sent, got, eof>>

RelayInit ==
    /\ hops = 0
    /\ dead = FALSE
    /\ buf = [x \in Link \X Dir |-> 0]
    /\ shut = [x \in Link \X End |-> FALSE]
    /\ deaf = FALSE
    /\ broken = FALSE
    /\ expired = [x \in End |-> FALSE]
    /\ copier = [g \in Copier |-> "none"]
    /\ sent = [d \in Dir |-> 0]
    /\ got = [d \in Dir |-> 0]
    /\ eof = FALSE

\* The connection is made and CopyLink starts: with a stream first at the server,
\* which has sent its RESULT, and at the client when Connect has ended.
StartRelay(n, denied) ==
    /\ hops' = n
    /\ dead' = denied
    /\ LET first == IF n = 2 /\ ~denied THEN 2 ELSE 1
       IN copier' = [g \in Copier |-> IF g[1] = first THEN "read" ELSE "none"]
    /\ UNCHANGED <<buf, shut, deaf, broken, expired, sent, got, eof>>

IsStream(l) == hops = 2 /\ l = 1
From(g) == IF g[2] = "up" THEN g[1] - 1 ELSE g[1]
To(g) == IF g[2] = "up" THEN g[1] ELSE g[1] - 1

\* Connect ends at the client.  A FIN that came while the status was ST_SYN_SENT
\* was ignored, and there is no other one.
ConnectEnds ==
    /\ hops = 2 /\ ~dead
    /\ copier[<<1, "up">>] = "none"
    /\ copier' = [copier EXCEPT ![<<1, "up">>] = "read", ![<<1, "down">>] = "read"]
    /\ deaf' \in {FALSE, shut[<<1, "far">>]}
    /\ UNCHANGED <<hops, dead, buf, shut, broken, expired, sent, got, eof>>

Connected == hops = 2 /\ ~dead /\ copier[<<1, "up">>] # "none"

\* The writer of direction d has closed link l, and the reader gets to know of it.
Ended(l, d) == shut[<<l, Writer(d)>>] /\ ~(deaf /\ IsStream(l) /\ d = "down")
-----------------------------------------------------------------------------
(* One goroutine of CopyLink: io.CopyBuffer, then the deferred Close. *)

\* The connection it reads from was closed by the other goroutine of its hop.
ReadClosed(g) == ~IsStream(From(g)) /\ shut[<<From(g), Reader(g[2])>>]

CopyReads(g) ==
    LET x == <<From(g), g[2]>> IN
    /\ copier[g] = "read"
    /\ ~ReadClosed(g)
    /\ buf[x] > 0
    /\ buf' = [buf EXCEPT ![x] = @ - 1]
    /\ copier' = [copier EXCEPT ![g] = "write"]
    /\ UNCHANGED <<hops, dead, deaf, shut, broken, expired, sent, got, eof>>

\* EOF, or an error of Read.  A denied stream says nothing, for ever.
CopyEnds(g) ==
    LET l == From(g)
        d == g[2]
    IN
    /\ copier[g] = "read"
    /\ ~(dead /\ IsStream(l))
    /\ \/ ReadClosed(g)
       \/ /\ buf[<<l, d>>] = 0
          /\ Ended(l, d) \/ (IsStream(l) /\ expired[Reader(d)])
    /\ copier' = [copier EXCEPT ![g] = "close"]
    /\ UNCHANGED <<hops, dead, deaf, buf, shut, broken, expired, sent, got, eof>>

\* Faulty variant: a Write may be short, and CopyLink goes on.
CopyWrites_Short(g) ==
    LET x == <<To(g), g[2]>> IN
    /\ copier[g] = "write"
    /\ ~shut[<<To(g), Reader(g[2])>>]
    /\ buf[x] < ROOM
    /\ \E n \in {0, 1} : buf' = [buf EXCEPT ![x] = @ + n]
    /\ copier' = [copier EXCEPT ![g] = "read"]
    /\ UNCHANGED <<hops, dead, deaf, shut, broken, expired, sent, got, eof>>

\* A stream takes a slice in ST_EST only: not after a FIN came, not when it was
\* closed, denied or reset.
CanWrite(l, d) ==
    /\ ~shut[<<l, Writer(d)>>]
    /\ IsStream(l) => ~dead /\ ~expired[Writer(d)]
    /\ ~IsStream(l) => ~shut[<<l, Reader(d)>>]

CopyWrites(g) ==
    LET l == To(g)
        d == g[2]
    IN
    /\ \/ copier[g] = "write" /\ CanWrite(l, d)
       \/ copier[g] = "wait" /\ ~broken
    /\ buf[<<l, d>>] < ROOM
    /\ buf' = [buf EXCEPT ![<<l, d>>] = @ + 1]
    /\ copier' = [copier EXCEPT ![g] = "read"]
    /\ UNCHANGED <<hops, dead, deaf, shut, broken, expired, sent, got, eof>>

\* writeSlice waits for window, and from then on does not look at the status.
CopyWaits(g) ==
    /\ copier[g] = "write"
    /\ IsStream(To(g)) /\ CanWrite(To(g), g[2])
    /\ buf[<<To(g), g[2]>>] >= ROOM
    /\ copier' = [copier EXCEPT ![g] = "wait"]
    /\ UNCHANGED <<hops, dead, deaf, buf, shut, broken, expired, sent, got, eof>>

\* A TCP connection that gets data after its Close answers with a reset, which
\* may destroy what the other end has not read yet.
Lost(l, d) == {buf, [buf EXCEPT ![<<l, d>>] = 0]}

\* Write fails on a connection that was closed here; on a stream that cannot be
\* written or has received the peer's FIN; and on a TCP connection that was closed
\* at the other end, possibly after a first Write that went nowhere.
CopyFails(g) ==
    LET l == To(g)
        d == g[2]
    IN
    /\ copier[g] = "write"
    /\ IF IsStream(l) \/ shut[<<l, Writer(d)>>]
         THEN /\ ~CanWrite(l, d) \/ Ended(l, Opposite(d))
              /\ copier' = [copier EXCEPT ![g] = "close"]
              /\ UNCHANGED buf
         ELSE /\ shut[<<l, Reader(d)>>]
              /\ \E pc \in {"close", "read"} : copier' = [copier EXCEPT ![g] = pc]
              /\ buf' \in Lost(l, Opposite(d))
    /\ UNCHANGED <<hops, dead, deaf, shut, broken, expired, sent, got, eof>>

\* Close of a TCP connection with data that was not read resets it.
CloseEnd(l, e) ==
    LET incoming == <<l, IF e = "near" THEN "down" ELSE "up">>
        outgoing == IF e = "near" THEN "up" ELSE "down"
    IN
    /\ shut' = [shut EXCEPT ![<<l, e>>] = TRUE]
    /\ buf' \in IF ~IsStream(l) /\ buf[incoming] > 0 /\ ~shut[<<l, e>>]
                  THEN Lost(l, outgoing) ELSE {buf}

\* Faulty variant: CopyLink closes only what it reads from.
CopyCloses_Source(g) ==
    /\ copier[g] = "close"
    /\ CloseEnd(From(g), Reader(g[2]))
    /\ copier' = [copier EXCEPT ![g] = "done"]
    /\ UNCHANGED <<hops, dead, deaf, broken, expired, sent, got, eof>>

CopyCloses(g) ==
    /\ copier[g] = "close"
    /\ CloseEnd(To(g), Writer(g[2]))
    /\ copier' = [copier EXCEPT ![g] = "done"]
    /\ UNCHANGED <<hops, dead, deaf, broken, expired, sent, got, eof>>

\* The tunnel breaks: what has not arrived yet is lost, and Fabric.Close of both
\* sides resets the Conns; before Connect has ended, that is an error of Dial.  What
\* a side still writes before its Loop has seen the error is as good as written
\* before the break.
TunnelBreaks ==
    /\ Connected
    /\ ~broken
    /\ broken' = TRUE
    /\ expired' = [e \in End |-> TRUE]
    /\ \E u \in Lost(1, "up") : buf' \in {u, [u EXCEPT ![<<1, "down">>] = 0]}
    /\ UNCHANGED <<hops, dead, deaf, shut, copier, sent, got, eof>>

\* Thirty seconds after the first FIN an end of a stream resets: what is on the
\* way to it is lost, unless the FIN was the peer's and came behind it.
StreamResets(e) ==
    LET d == IF e = "near" THEN "down" ELSE "up" IN
    /\ Connected
    /\ ~expired[e]
    /\ \/ Ended(1, d) /\ UNCHANGED buf
       \/ shut[<<1, e>>] /\ buf' \in Lost(1, d)
    /\ expired' = [expired EXCEPT ![e] = TRUE]
    /\ UNCHANGED <<hops, dead, deaf, shut, broken, copier, sent, got, eof>>
-----------------------------------------------------------------------------
(* The user at the near end of link 0 and the target at the far end of the last. *)

Outer(d) == IF d = "up" THEN 0 ELSE hops     \* the link that direction d starts on
Inner(d) == IF d = "up" THEN hops ELSE 0     \* the link that it ends on

Sends(d) ==
    LET x == <<Outer(d), d>> IN
    /\ hops # 0 /\ ~(dead /\ d = "down")
    /\ sent[d] < Traffic[d]
    /\ ~shut[<<Outer(d), Writer(d)>>]
    /\ buf[x] < ROOM
    /\ sent' = [sent EXCEPT ![d] = @ + 1]
    /\ \/ /\ ~shut[<<Outer(d), Reader(d)>>]
          /\ buf' = [buf EXCEPT ![x] = @ + 1]
       \/ /\ shut[<<Outer(d), Reader(d)>>]
          /\ buf' \in Lost(Outer(d), Opposite(d))
    /\ UNCHANGED <<hops, dead, deaf, shut, broken, expired, copier, got, eof>>

Receives(d) ==
    LET x == <<Inner(d), d>> IN
    /\ hops # 0
    /\ ~shut[<<Inner(d), Reader(d)>>]
    /\ \/ /\ buf[x] > 0
          /\ buf' = [buf EXCEPT ![x] = @ - 1]
          /\ got' = [got EXCEPT ![d] = @ + 1]
          /\ UNCHANGED eof
       \/ /\ buf[x] = 0
          /\ d = "down" /\ ~eof /\ shut[<<Inner(d), Writer(d)>>]
          /\ eof' = TRUE
          /\ UNCHANGED <<buf, got>>
    /\ UNCHANGED <<hops, dead, deaf, shut, broken, expired, copier, sent>>

\* The user (end of direction down) or the target goes away.
Leaves(d) ==
    /\ hops # 0 /\ ~(dead /\ d = "up")
    /\ ~shut[<<Inner(d), Reader(d)>>]
    /\ CloseEnd(Inner(d), Reader(d))
    /\ UNCHANGED <<hops, dead, deaf, broken, expired, copier, sent, got, eof>>
-----------------------------------------------------------------------------
CopyStep(g) == \/ CopyReads(g) \/ CopyEnds(g) \/ CopyWrites(g) \/ CopyWaits(g)
               \/ CopyFails(g) \/ CopyCloses(g)

RelayNext ==
    \/ \E g \in Copier : CopyStep(g)
    \/ ConnectEnds
    \/ TunnelBreaks
    \/ \E e \in End : StreamResets(e)
    \/ \E d \in Dir : Sends(d) \/ Receives(d) \/ Leaves(d)

\* The goroutines run, and user and target read what is there for them.
RelayFairness ==
    /\ WF_relayVars(ConnectEnds)
    /\ \A g \in Copier : WF_relayVars(CopyStep(g))
    /\ \A d \in Dir : WF_relayVars(Receives(d))
-----------------------------------------------------------------------------
\* When one of user and target goes away, the proxy hangs up on the other one,
\* and when the tunnel breaks, on both, whatever is on the way and however the
\* ends of the stream time out; except that the user is not told when the target's
\* FIN was ignored (net.go:25-36, srv_proxy.go:45, httproxy.go:123, fabric.go:170,
\* conn.go:351).
HangsUp ==
    /\ broken ~> shut[<<0, "far">>] /\ shut[<<hops, "near">>]
    /\ (~dead /\ hops # 0 /\ shut[<<0, "near">>]) ~> shut[<<hops, "near">>]
    /\ (~dead /\ hops # 0 /\ shut[<<hops, "far">>]) ~> shut[<<0, "far">>] \/ deaf

\* A user that was told the end of the answer has the whole answer, provided the
\* target had read all that the user sent and the tunnel stands: no Close, reset or
\* timeout on the way overtakes data (net.go:30-35, conn.go:180, 355).
AnswerComplete == eof /\ got["up"] = sent["up"] /\ ~broken => got["down"] = sent["down"]
=============================================================================
