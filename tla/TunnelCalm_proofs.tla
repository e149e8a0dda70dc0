-------------------------- MODULE TunnelCalm_proofs --------------------------
(***************************************************************************)
(* Safety of module Tunnel while no deadline expires, the connection       *)
(* stands and only the writing goroutine closes a Conn, for any number of  *)
(* dials and any sizes: every frame finds its Conn, io.EOF means that      *)
(* everything was read, and no stream ends the tunnel.                     *)
(*                                                                         *)
(* The way is that of Tunnel_proofs: Goes says what one step can do to one *)
(* dial, one handler, one Conn or one loop, the lemma GoesOnly shows that  *)
(* this is all there is, and the conjuncts of CalmInv follow from it.      *)
(***************************************************************************)
EXTENDS Tunnel_proofs

(* What a stream does while no deadline expires and the connection stands. *)

\* The connection stands: nothing is reset and both Loops run.
Calm ==
    /\ link /\ \A e \in Side : open[e] /\ loop[e] # "exited"
    /\ \A c \in Conn : reset[c].timer = "off" /\ reset[c].fabric = "off"

\* Loop leaves no frame but a SYN to the default fiber, and the client's never.
OnlySynsUnmapped ==
    \A e \in Side : loop[e] = "default" => e = "server" /\ Held(e).type = "SYN"

\* A RESULT finds Connect before its end.
ResultsInTime ==
    \A i \in DOMAIN wire["client"] :
        wire["client"][i].type = "RESULT" => conn[<<"client", wire["client"][i].id>>].status = "SYN_SENT"

\* The moves below are those of the Moves with more detail: what else changes in the
\* same step.
DialGoes(d) ==
    LET pc == dial[d].pc
        next == dial'[d].pc
        c == <<"client", d>>
    IN
    \/ dial'[d] = dial[d]
    \/ pc = "idle" /\ next = "put" /\ d \in weaves'["client"]
    \/ pc = "put" /\ next = "opened" /\ conn'[c].status = "SYN_SENT"
    \/ pc = "opened" /\ next = "sent"
    \/ pc = "sent" /\ next = "recv"
    \/ pc = "recv" /\ next = "got" /\ Takes("client", "RESULT", d) /\ dial'[d].errno = Held("client").arg
    \/ pc = "got" /\ next = "nil" /\ dial'[d].errno = dial[d].errno
    \/ pc = "got" /\ next = "err" /\ conn[c].status # "SYN_SENT"

HandlerGoes(d) ==
    LET c == <<"server", d>> IN
    \/ handler'[d] = handler[d]
    \/ Takes("server", "SYN", d) /\ handler'[d] = "dialing"
         /\ d \in weaves'["server"] /\ conn'[c].status = "SYN_RECV"
    \/ handler[d] = "dialing" /\ handler'[d] = "denied"
    \/ handler[d] = "denied" /\ handler'[d] = "done"
    \/ handler[d] = "dialing" /\ handler'[d] = "accepted" /\ conn'[c].status = "EST"
    \/ handler[d] = "dialing" /\ handler'[d] = "done" /\ conn[c].status # "SYN_RECV"
    \/ handler[d] = "accepted" /\ handler'[d] = "open"

StatusGoes(c) ==
    LET from == conn[c].status
        to == conn'[c].status
        d == c[2]
    IN
    \/ to = from
    \/ c[1] = "client" /\ dial[d].pc = "put" /\ to = "SYN_SENT"
    \/ c[1] = "client" /\ dial[d].pc = "got" /\ dial'[d].pc = "nil" /\ to = "EST"
    \/ c[1] = "server" /\ Takes("server", "SYN", d) /\ to = "SYN_RECV"
    \/ c[1] = "server" /\ handler[d] = "dialing" /\ handler'[d] = "accepted" /\ to = "EST"
    \/ Takes(c[1], "FIN", d) /\ from = "EST" /\ to = "FIN_RECV" /\ conn'[c].closed
    \/ Takes(c[1], "FIN", d) /\ from = "FIN_SENT" /\ to = "UNKNOWN" /\ conn'[c].closed
    \/ Usable(c) /\ from = "EST" /\ to = "FIN_SENT"
    \/ Usable(c) /\ from = "FIN_RECV" /\ to = "UNKNOWN"

\* A Conn is unmapped when its dial was refused, or when both FINs have passed.
WeaveGoes(c) ==
    \/ c[2] \in weaves[c[1]] => c[2] \in weaves'[c[1]]
    \/ /\ c[1] = "client" /\ dial[c[2]].pc = "got" /\ dial[c[2]].errno # ERR_NONE
       /\ dial'[c[2]].pc = "nil" /\ dial'[c[2]].errno = dial[c[2]].errno
    \/ c[1] = "server" /\ handler[c[2]] = "denied" /\ handler'[c[2]] = "done"
    \/ conn[c].status = "FIN_SENT" /\ conn'[c].closed
    \/ conn[c].status = "FIN_RECV" /\ conn'[c].closed = conn[c].closed

SameQueue(c) ==
    /\ conn'[c].closed = conn[c].closed
    /\ conn'[c].rqueue = conn[c].rqueue
    /\ conn'[c].r_rest = conn[c].r_rest

\* The queue of a Conn: read from, filled by DATA, closed by a FIN, made by a SYN.
QueueGoes(c) ==
    \/ SameQueue(c)
    \/ /\ user[c].r = "fill" /\ (conn[c].rqueue # <<>> \/ conn[c].r_rest # 0)
       /\ conn'[c].closed = conn[c].closed
    \/ /\ Takes(c[1], "DATA", c[2])
       /\ ~conn[c].closed /\ ~conn'[c].closed
    \/ /\ Takes(c[1], "FIN", c[2])
       /\ conn'[c].closed /\ conn'[c].rqueue = conn[c].rqueue /\ conn'[c].r_rest = conn[c].r_rest
    \/ /\ c[1] = "server" /\ Takes("server", "SYN", c[2])
       /\ ~conn'[c].closed /\ conn'[c].rqueue = <<>> /\ conn'[c].r_rest = 0
       /\ conn'[c].status = "SYN_RECV"

ReaderGoes(c) ==
    \/ user'[c].r = user[c].r /\ user'[c].rn = user[c].rn
    \/ user'[c].r # "end" /\ (conn[c].rqueue # <<>> \/ conn[c].r_rest # 0)
    \/ /\ user'[c].r = "end" /\ conn[c].closed
       /\ conn[c].rqueue = <<>> /\ conn[c].r_rest = 0 /\ SameQueue(c)
    \/ user[c].rn # 0 /\ user'[c].r = "renew"
    \/ user[c].r = "renew" /\ user'[c].r = "fill"

LoopGoes(e) ==
    loop'[e] = "default" =>
        \/ loop[e] = "default" /\ Held(e)' = Held(e)
        \/ /\ wire'[e] = wire[e] /\ wire[e] # <<>> /\ weaves' = weaves
           /\ Held(e).id \notin weaves[e]

Goes ==
    /\ \A d \in Dials : DialGoes(d) /\ HandlerGoes(d)
    /\ \A c \in Conn : StatusGoes(c) /\ WeaveGoes(c) /\ QueueGoes(c) /\ ReaderGoes(c)
    /\ \A e \in Side : LoopGoes(e)
    /\ Calm'

\* A variable that a step leaves alone.
LEMMA Still ==
    ASSUME TypeOK
    PROVE /\ UNCHANGED dial => \A d \in Dials : DialGoes(d)
          /\ UNCHANGED handler => \A d \in Dials : HandlerGoes(d)
          /\ UNCHANGED conn => \A c \in Conn : StatusGoes(c) /\ QueueGoes(c)
          /\ UNCHANGED weaves => \A c \in Conn : WeaveGoes(c)
          /\ UNCHANGED user => \A c \in Conn : ReaderGoes(c)
          /\ UNCHANGED <<wire, loop>> => \A e \in Side : LoopGoes(e)
<1>1. UNCHANGED dial => \A d \in Dials : DialGoes(d)
  BY DEF DialGoes
<1>2. UNCHANGED handler => \A d \in Dials : HandlerGoes(d)
  BY DEF HandlerGoes
<1>3. UNCHANGED conn => \A c \in Conn : StatusGoes(c) /\ QueueGoes(c)
  BY DEF StatusGoes, QueueGoes, SameQueue
<1>4. UNCHANGED weaves => \A c \in Conn : WeaveGoes(c)
  BY DEF WeaveGoes
<1>5. UNCHANGED user => \A c \in Conn : ReaderGoes(c)
  BY DEF ReaderGoes
<1>6. UNCHANGED <<wire, loop>> => \A e \in Side : LoopGoes(e)
  BY DEF LoopGoes, Held
<1>7. QED
  BY <1>1, <1>2, <1>3, <1>4, <1>5, <1>6

\* The fabric is left alone.
LEMMA StaysCalm == ASSUME Calm, UNCHANGED <<link, open, loop, reset>> PROVE Calm'
  BY DEF Calm

\* What a step does to each variable, taken together.
LEMMA Together ==
    ASSUME TypeOK, Calm,
           UNCHANGED dial \/ \A d \in Dials : DialGoes(d),
           UNCHANGED handler \/ \A d \in Dials : HandlerGoes(d),
           UNCHANGED conn \/ \A c \in Conn : StatusGoes(c) /\ QueueGoes(c),
           UNCHANGED weaves \/ \A c \in Conn : WeaveGoes(c),
           UNCHANGED user \/ \A c \in Conn : ReaderGoes(c),
           UNCHANGED <<wire, loop>> \/ \A e \in Side : LoopGoes(e),
           UNCHANGED <<link, open, loop, reset>> \/ Calm'
    PROVE Goes
  BY Still, StaysCalm DEF Goes

\* A frame that is sent is not the one that Loop holds.
LEMMA SendLoop ==
    ASSUME TypeOK, NEW s \in Side, NEW f \in Frame, SendOK(s, f) \/ SendErr(s), UNCHANGED loop
    PROVE \A e \in Side : LoopGoes(e)
<1> SUFFICES ASSUME NEW e \in Side, loop[e] = "default" PROVE Held(e)' = Held(e)
  BY DEF LoopGoes
<1>1. wire[e] \in Seq(Frame) /\ wire[e] # <<>>
  BY DEF TypeOK
<1>2. wire'[e] = wire[e] \/ wire'[e] = Append(wire[e], f)
  BY DEF SendOK, SendErr, TypeOK
<1>3. QED
  BY <1>1, <1>2 DEF Held

\* Loop puts its frame away and reads on.
LEMMA ContinueGoes ==
    ASSUME TypeOK, Calm, NEW e \in Side, Handled(e), LoopContinues(e), UNCHANGED reset
    PROVE (\A s \in Side : LoopGoes(s)) /\ Calm'
<1>1. /\ loop'[e] = "reading" /\ \A s \in Side : s # e => loop'[s] = loop[s] /\ wire'[s] = wire[s]
      /\ link' = link /\ open' = open
  BY DEF LoopContinues, Handled, TypeOK
<1>2. \A s \in Side : LoopGoes(s)
  BY <1>1 DEF LoopGoes, Held
<1>3. Calm'
  BY <1>1 DEF Calm
<1>4. QED
  BY <1>2, <1>3

\* CloseFiber unmaps one Conn.
LEMMA FinalGoes ==
    ASSUME TypeOK, NEW c \in Conn, Final(c), WeaveGoes(c)
    PROVE \A y \in Conn : WeaveGoes(y)
<1> SUFFICES ASSUME NEW y \in Conn, y # c, y[2] \in weaves[y[1]] PROVE y[2] \in weaves'[y[1]]
  BY DEF WeaveGoes
<1>1. /\ c[1] \in Side /\ c[2] \in Dials /\ c = <<c[1], c[2]>>
      /\ y[1] \in Side /\ y[2] \in Dials /\ y = <<y[1], y[2]>>
  BY DEF Conn
<1>2. y[1] # c[1] \/ y[2] # c[2]
  BY <1>1
<1>3. weaves'[y[1]] = IF y[1] = c[1] THEN weaves[c[1]] \ {c[2]} ELSE weaves[y[1]]
  BY <1>1 DEF Final, TypeOK
<1>4. QED
  BY <1>2, <1>3

\* The fields of the Conns after each form of assignment.
LEMMA ConnAfter ==
    ASSUME TypeOK, NEW c \in Conn
    PROVE /\ \A s : conn' = [conn EXCEPT ![c].status = s] =>
                SameQueue(c) /\ conn'[c].status = s /\ \A y \in Conn : y # c => conn'[y] = conn[y]
          /\ \A n : conn' = [conn EXCEPT ![c].window = n] =>
                SameQueue(c) /\ conn'[c].status = conn[c].status /\ \A y \in Conn : y # c => conn'[y] = conn[y]
          /\ \A q : conn' = [conn EXCEPT ![c].rqueue = q] =>
                /\ conn'[c].closed = conn[c].closed /\ conn'[c].status = conn[c].status
                /\ \A y \in Conn : y # c => conn'[y] = conn[y]
          /\ \A q, n : conn' = [conn EXCEPT ![c].r_rest = n, ![c].rqueue = q] =>
                /\ conn'[c].closed = conn[c].closed /\ conn'[c].status = conn[c].status
                /\ \A y \in Conn : y # c => conn'[y] = conn[y]
          /\ \A s, t : conn' = [conn EXCEPT ![c].status = s, ![c].t_closing = t] =>
                SameQueue(c) /\ conn'[c].status = s /\ \A y \in Conn : y # c => conn'[y] = conn[y]
          /\ \A s, t : conn' = [conn EXCEPT ![c].status = s, ![c].t_closing = t, ![c].closed = TRUE] =>
                /\ conn'[c].closed /\ conn'[c].rqueue = conn[c].rqueue
                /\ conn'[c].r_rest = conn[c].r_rest /\ conn'[c].status = s
                /\ \A y \in Conn : y # c => conn'[y] = conn[y]
<1>0. PICK r \in ConnType : r = conn[c]
  BY DEF TypeOK
<1>1. conn \in [Conn -> ConnType]
  BY DEF TypeOK
<1> USE <1>0, <1>1 DEF SameQueue, ConnType
<1>2. ASSUME NEW s, conn' = [conn EXCEPT ![c].status = s]
      PROVE SameQueue(c) /\ conn'[c].status = s /\ \A y \in Conn : y # c => conn'[y] = conn[y]
  BY <1>2
<1>3. ASSUME NEW n, conn' = [conn EXCEPT ![c].window = n]
      PROVE SameQueue(c) /\ conn'[c].status = conn[c].status /\ \A y \in Conn : y # c => conn'[y] = conn[y]
  BY <1>3
<1>4. ASSUME NEW q, conn' = [conn EXCEPT ![c].rqueue = q]
      PROVE /\ conn'[c].closed = conn[c].closed /\ conn'[c].status = conn[c].status
            /\ \A y \in Conn : y # c => conn'[y] = conn[y]
  BY <1>4
<1>5. ASSUME NEW q, NEW n, conn' = [conn EXCEPT ![c].r_rest = n, ![c].rqueue = q]
      PROVE /\ conn'[c].closed = conn[c].closed /\ conn'[c].status = conn[c].status
            /\ \A y \in Conn : y # c => conn'[y] = conn[y]
  BY <1>5
<1>6. ASSUME NEW s, NEW t, conn' = [conn EXCEPT ![c].status = s, ![c].t_closing = t]
      PROVE SameQueue(c) /\ conn'[c].status = s /\ \A y \in Conn : y # c => conn'[y] = conn[y]
  BY <1>6
<1>7. ASSUME NEW s, NEW t, conn' = [conn EXCEPT ![c].status = s, ![c].t_closing = t, ![c].closed = TRUE]
      PROVE /\ conn'[c].closed /\ conn'[c].rqueue = conn[c].rqueue
            /\ conn'[c].r_rest = conn[c].r_rest /\ conn'[c].status = s
            /\ \A y \in Conn : y # c => conn'[y] = conn[y]
  BY <1>7
<1>8. QED
  BY <1>2, <1>3, <1>4, <1>5, <1>6, <1>7

\* Only c changes.
LEMMA OneConn ==
    ASSUME NEW c \in Conn, \A y \in Conn : y # c => conn'[y] = conn[y],
           StatusGoes(c), QueueGoes(c)
    PROVE \A y \in Conn : StatusGoes(y) /\ QueueGoes(y)
  BY DEF StatusGoes, QueueGoes, SameQueue

\* Client.Dial and Conn.Connect.
LEMMA DialGo ==
    ASSUME TypeOK, Calm, ~Deadlines, NEW x \in Dials,
           PutIntoNextId(x) \/ Connect(x) \/ DialStep(x)
    PROVE Goes
<1> DEFINE c == <<"client", x>>
<1>0. c \in Conn /\ c[1] = "client" /\ c[2] = x /\ dial \in [Dials -> [pc : DialPC, errno : Nat]]
  BY ConnOfDial, Zenon DEF TypeOK
<1>1. CASE PutIntoNextId(x)
  <2>1. \A d \in Dials : DialGoes(d)
    BY <1>0, <1>1 DEF PutIntoNextId, DialGoes, TypeOK, Side
  <2>2. \A y \in Conn : WeaveGoes(y)
    BY <1>1 DEF PutIntoNextId, WeaveGoes, TypeOK
  <2>3. QED
    BY <1>1, <2>1, <2>2, Together DEF PutIntoNextId, fabricVars
<1>2. CASE Connect(x)
  <2>1. /\ SameQueue(c) /\ conn'[c].status = "SYN_SENT" /\ \A y \in Conn : y # c => conn'[y] = conn[y]
        /\ dial[x].pc = "put" /\ dial' = [dial EXCEPT ![x].pc = "opened"]
    BY <1>0, <1>2, ConnAfter DEF Connect
  <2>2. \A d \in Dials : DialGoes(d)
    BY <1>0, <2>1 DEF DialGoes
  <2>3. \A y \in Conn : StatusGoes(y) /\ QueueGoes(y)
    BY <1>0, <2>1, OneConn, Zenon DEF StatusGoes, QueueGoes
  <2>4. QED
    BY <1>2, <2>2, <2>3, Together DEF Connect, fabricVars
<1>3. CASE SendSyn(x)
  <2>1. /\ SendOK("client", MkFrame("SYN", c, 0)) /\ UNCHANGED weaves
        /\ dial[x].pc = "opened" /\ dial' = [dial EXCEPT ![x].pc = "sent"]
    BY <1>3 DEF SendSyn, SendErr, Calm
  <2>2. \A d \in Dials : DialGoes(d)
    BY <1>0, <2>1 DEF DialGoes
  <2>3. \A e \in Side : LoopGoes(e)
    <3>1. MkFrame("SYN", c, 0) \in Frame /\ "client" \in Side
      BY <1>0, FrameTypes DEF MsgType, Side
    <3>2. QED
      BY <1>3, <2>1, <3>1, SendLoop DEF SendSyn, fabricVars
  <2>4. QED
    BY <1>3, <2>1, <2>2, <2>3, Together DEF SendSyn, fabricVars
<1>4. CASE AwaitResult(x)
  <2>1. \A d \in Dials : DialGoes(d)
    BY <1>0, <1>4 DEF AwaitResult, DialGoes
  <2>2. QED
    BY <1>4, <2>1, Together DEF AwaitResult, fabricVars
<1>5. CASE ConnectReturns(x)
  <2>1. CASE dial[x].errno # ERR_NONE /\ dial' = [dial EXCEPT ![x].pc = "nil"] /\ Final(c) /\ UNCHANGED conn
    <3>1. dial[x].pc = "got" /\ dial'[x].pc = "nil" /\ dial'[x].errno = dial[x].errno
          /\ \A d \in Dials : d # x => dial'[d] = dial[d]
      BY <1>0, <1>5, <2>1 DEF ConnectReturns
    <3>2. \A d \in Dials : DialGoes(d)
      BY <3>1 DEF DialGoes
    <3>3. WeaveGoes(c)
      BY <1>0, <2>1, <3>1 DEF WeaveGoes
    <3>4. \A y \in Conn : WeaveGoes(y)
      BY <1>0, <2>1, <3>3, FinalGoes
    <3>5. QED
      BY <1>5, <2>1, <3>2, <3>4, Together DEF ConnectReturns, fabricVars
  <2>2. CASE /\ dial' = [dial EXCEPT ![x].pc = "nil"]
             /\ conn' = [conn EXCEPT ![c].status = "EST"] /\ UNCHANGED weaves
    <3>1. dial[x].pc = "got" /\ dial'[x].pc = "nil" /\ dial'[x].errno = dial[x].errno
          /\ \A d \in Dials : d # x => dial'[d] = dial[d]
      BY <1>0, <1>5, <2>2 DEF ConnectReturns
    <3>2. SameQueue(c) /\ conn'[c].status = "EST" /\ \A y \in Conn : y # c => conn'[y] = conn[y]
      BY <1>0, <2>2, ConnAfter
    <3>3. \A d \in Dials : DialGoes(d)
      BY <3>1 DEF DialGoes
    <3>4. \A y \in Conn : StatusGoes(y) /\ QueueGoes(y)
      BY <1>0, <3>1, <3>2, OneConn DEF StatusGoes, QueueGoes
    <3>5. QED
      BY <1>5, <2>2, <3>3, <3>4, Together DEF ConnectReturns, fabricVars
  <2>3. CASE /\ conn[c].status # "SYN_SENT" /\ dial' = [dial EXCEPT ![x].pc = "err"]
             /\ UNCHANGED <<conn, weaves>>
    <3>1. \A d \in Dials : DialGoes(d)
      BY <1>0, <1>5, <2>3 DEF ConnectReturns, DialGoes
    <3>2. QED
      BY <1>5, <2>3, <3>1, Together DEF ConnectReturns, fabricVars
  <2>4. QED
    BY <1>5, <2>1, <2>2, <2>3 DEF ConnectReturns
<1>6. ~DialTimeout(x)
  BY DEF DialTimeout
<1>7. QED
  BY <1>1, <1>2, <1>3, <1>4, <1>5, <1>6 DEF DialStep

\* TcpProxy.Handle.
LEMMA HandlerGo ==
    ASSUME TypeOK, Calm, NEW x \in Dials, HandlerStep(x)
    PROVE Goes
<1> DEFINE c == <<"server", x>>
<1>0. c \in Conn /\ c[1] = "server" /\ c[2] = x /\ handler \in [Dials -> HandlerPC]
  BY ConnOfDial, Zenon DEF TypeOK
<1>a. \A n \in Nat : MkFrame("RESULT", c, n) \in Frame /\ "server" \in Side
  BY <1>0, FrameTypes DEF MsgType, Side
<1>1. CASE Deny(x)
  <2>1. \A d \in Dials : HandlerGoes(d)
    BY <1>0, <1>1 DEF Deny, HandlerGoes
  <2>2. \A e \in Side : LoopGoes(e)
    BY <1>1, <1>a, SendLoop DEF Deny, ERR_CONNFAILED, fabricVars
  <2>3. QED
    BY <1>1, <2>1, <2>2, Together DEF Deny, fabricVars
<1>2. CASE DenyReturns(x)
  <2>1. handler[x] = "denied" /\ handler'[x] = "done" /\ \A d \in Dials : d # x => handler'[d] = handler[d]
    BY <1>0, <1>2 DEF DenyReturns
  <2>2. \A d \in Dials : HandlerGoes(d)
    BY <2>1 DEF HandlerGoes
  <2>3. WeaveGoes(c)
    BY <1>0, <2>1 DEF WeaveGoes
  <2>4. \A y \in Conn : WeaveGoes(y)
    BY <1>0, <1>2, <2>3, FinalGoes DEF DenyReturns
  <2>5. QED
    BY <1>2, <2>2, <2>4, Together DEF DenyReturns, fabricVars
<1>3. CASE Accept(x)
  <2>1. CASE /\ conn' = [conn EXCEPT ![c].status = "EST"]
             /\ handler' = [handler EXCEPT ![x] = "accepted"]
    <3>1. /\ handler[x] = "dialing" /\ handler'[x] = "accepted"
          /\ \A d \in Dials : d # x => handler'[d] = handler[d]
      BY <1>0, <1>3, <2>1 DEF Accept
    <3>2. SameQueue(c) /\ conn'[c].status = "EST" /\ \A y \in Conn : y # c => conn'[y] = conn[y]
      BY <1>0, <2>1, ConnAfter
    <3>3. \A d \in Dials : HandlerGoes(d)
      BY <3>1, <3>2 DEF HandlerGoes
    <3>4. \A y \in Conn : StatusGoes(y) /\ QueueGoes(y)
      BY <1>0, <3>1, <3>2, OneConn DEF StatusGoes, QueueGoes
    <3>5. QED
      BY <1>3, <3>3, <3>4, Together DEF Accept, fabricVars
  <2>2. CASE conn[c].status # "SYN_RECV" /\ handler' = [handler EXCEPT ![x] = "done"] /\ UNCHANGED conn
    <3>1. \A d \in Dials : HandlerGoes(d)
      BY <1>0, <1>3, <2>2 DEF Accept, HandlerGoes
    <3>2. QED
      BY <1>3, <2>2, <3>1, Together DEF Accept, fabricVars
  <2>3. QED
    BY <1>3, <2>1, <2>2 DEF Accept
<1>4. CASE AcceptSends(x)
  <2>1. SendOK("server", MkFrame("RESULT", c, ERR_NONE)) /\ handler' = [handler EXCEPT ![x] = "open"]
    BY <1>4 DEF AcceptSends, SendErr, Calm
  <2>2. \A d \in Dials : HandlerGoes(d)
    BY <1>0, <1>4, <2>1 DEF AcceptSends, HandlerGoes
  <2>3. \A e \in Side : LoopGoes(e)
    BY <1>4, <1>a, <2>1, SendLoop DEF AcceptSends, ERR_NONE, fabricVars
  <2>4. QED
    BY <1>4, <2>2, <2>3, Together DEF AcceptSends, fabricVars
<1>5. QED
  BY <1>1, <1>2, <1>3, <1>4 DEF HandlerStep

\* Conn.Write and Conn.Close.
LEMMA WriteGo ==
    ASSUME TypeOK, Calm, NEW c \in Conn,
           (\E n \in Slices : WriteSlice(c, n)) \/ WriteResumes(c) \/ CloseWrite(c)
    PROVE Goes
<1>0. /\ user[c].wn \in Nat /\ user \in [Conn -> UserType] /\ c[1] \in Side
      /\ \A n \in Nat, t \in MsgType : MkFrame(t, c, n) \in Frame
  BY FrameTypes DEF TypeOK, UserType, Conn
<1>1. ASSUME NEW n \in Nat, NEW m,
             conn' = conn \/ conn' = [conn EXCEPT ![c].window = m],
             \A y \in Conn : user'[y].r = user[y].r /\ user'[y].rn = user[y].rn,
             SendOK(c[1], MkFrame("DATA", c, n)) \/ SendErr(c[1]) \/ UNCHANGED wire,
             UNCHANGED <<reset, dial, handler, weaves, fabricVars>>
      PROVE Goes
  <2>1. \A y \in Conn : StatusGoes(y) /\ QueueGoes(y)
    <3>1. CASE conn' = [conn EXCEPT ![c].window = m]
      <4>1. SameQueue(c) /\ conn'[c].status = conn[c].status /\ \A y \in Conn : y # c => conn'[y] = conn[y]
        BY <3>1, ConnAfter
      <4>2. QED
        BY <4>1, OneConn DEF StatusGoes, QueueGoes
    <3>2. QED
      BY <1>1, <3>1, Still
  <2>2. \A y \in Conn : ReaderGoes(y)
    BY <1>1 DEF ReaderGoes
  <2>3. \A e \in Side : LoopGoes(e)
    <3>1. MkFrame("DATA", c, n) \in Frame
      BY <1>0 DEF MsgType
    <3>2. QED
      BY <1>0, <1>1, <3>1, SendLoop, Still DEF fabricVars
  <2>4. QED
    BY <1>1, <2>1, <2>2, <2>3, Together DEF fabricVars
<1>2. ASSUME NEW n \in Slices, WriteSlice(c, n) PROVE Goes
  <2>1. n \in Nat
    BY TunnelAssumption
  <2>2. \A y \in Conn : user'[y].r = user[y].r /\ user'[y].rn = user[y].rn
    <3>1. CASE user' = [user EXCEPT ![c].left = @ - 1]
      BY <1>0, <3>1 DEF UserType
    <3>2. CASE user' = [user EXCEPT ![c].w = "waiting", ![c].wn = n, ![c].left = @ - 1]
      BY <1>0, <3>2 DEF UserType
    <3>3. QED
      BY <1>2, <3>1, <3>2 DEF WriteSlice
  <2>3. QED
    BY <1>1, <1>2, <2>1, <2>2 DEF WriteSlice
<1>3. CASE WriteResumes(c)
  <2>2. \A y \in Conn : user'[y].r = user[y].r /\ user'[y].rn = user[y].rn
    BY <1>0, <1>3 DEF WriteResumes, UserType
  <2>3. QED
    BY <1>0, <1>1, <1>3, <2>2 DEF WriteResumes
<1>4. CASE CloseWrite(c)
  <2>0. MkFrame("FIN", c, 0) \in Frame
    BY <1>0 DEF MsgType
  <2>1. \A e \in Side : LoopGoes(e)
    BY <1>0, <1>4, <2>0, SendLoop DEF CloseWrite, fabricVars
  <2>2. CASE /\ conn[c].status = "EST" /\ UNCHANGED weaves
             /\ conn' = [conn EXCEPT ![c].status = "FIN_SENT", ![c].t_closing = "armed"]
    <3>1. SameQueue(c) /\ conn'[c].status = "FIN_SENT" /\ \A y \in Conn : y # c => conn'[y] = conn[y]
      BY <2>2, ConnAfter
    <3>2. \A y \in Conn : StatusGoes(y) /\ QueueGoes(y)
      BY <1>4, <2>2, <3>1, OneConn DEF StatusGoes, QueueGoes, CloseWrite
    <3>3. QED
      BY <1>4, <2>1, <2>2, <3>2, Together DEF CloseWrite, fabricVars
  <2>3. CASE /\ conn[c].status = "FIN_RECV" /\ Final(c)
             /\ conn' = [conn EXCEPT ![c].status = "UNKNOWN", ![c].t_closing = "nil"]
    <3>1. SameQueue(c) /\ conn'[c].status = "UNKNOWN" /\ \A y \in Conn : y # c => conn'[y] = conn[y]
      BY <2>3, ConnAfter
    <3>2. \A y \in Conn : StatusGoes(y) /\ QueueGoes(y)
      BY <1>4, <2>3, <3>1, OneConn, Zenon DEF StatusGoes, QueueGoes, CloseWrite
    <3>3. WeaveGoes(c)
      BY <2>3, <3>1 DEF WeaveGoes, SameQueue
    <3>4. \A y \in Conn : WeaveGoes(y)
      BY <2>3, <3>3, FinalGoes
    <3>5. QED
      BY <1>4, <2>1, <3>2, <3>4, Together DEF CloseWrite, fabricVars
  <2>4. QED
    BY <1>4, <2>2, <2>3 DEF CloseWrite
<1>5. QED
  BY <1>2, <1>3, <1>4

\* Conn.Read.
LEMMA ReadGo ==
    ASSUME TypeOK, Calm, NEW c \in Conn, ReadStep(c)
    PROVE Goes
<1>0. /\ user[c].rn \in Nat /\ user \in [Conn -> UserType] /\ c[1] \in Side
      /\ MkFrame("WND", c, user[c].rn) \in Frame
  BY FrameTypes DEF TypeOK, UserType, Conn, MsgType
<1>1. CASE ReadCopies(c)
  <2>1. conn[c].rqueue # <<>> \/ conn[c].r_rest # 0
    BY <1>1 DEF ReadCopies
  <2>2. user[c].r = "fill" /\ user'[c].r \in {"fill", "renew"} /\ \A y \in Conn : y # c => user'[y] = user[y]
    BY <1>0, <1>1 DEF ReadCopies, UserType
  <2>3. /\ conn'[c].closed = conn[c].closed /\ conn'[c].status = conn[c].status
        /\ \A y \in Conn : y # c => conn'[y] = conn[y]
    BY <1>1, ConnAfter DEF ReadCopies
  <2>4. \A y \in Conn : StatusGoes(y) /\ QueueGoes(y)
    BY <2>1, <2>2, <2>3, OneConn DEF StatusGoes, QueueGoes
  <2>5. \A y \in Conn : ReaderGoes(y)
    BY <2>1, <2>2 DEF ReaderGoes
  <2>6. QED
    BY <1>1, <2>4, <2>5, Together DEF ReadCopies, fabricVars
<1>2. CASE ReadDrained(c)
  <2>1. /\ \/ conn[c].closed /\ user'[c].r = "end"
           \/ user[c].rn # 0 /\ user'[c].r = "renew"
        /\ \A y \in Conn : y # c => user'[y] = user[y]
    BY <1>0, <1>2 DEF ReadDrained, UserType
  <2>2. \A y \in Conn : ReaderGoes(y)
    BY <1>2, <2>1 DEF ReadDrained, ReaderGoes, SameQueue
  <2>3. QED
    BY <1>2, <2>2, Together DEF ReadDrained, fabricVars
<1>3. CASE ReadRenews(c)
  <2>1. user[c].r = "renew" /\ user'[c].r = "fill" /\ \A y \in Conn : y # c => user'[y] = user[y]
    BY <1>0, <1>3 DEF ReadRenews, SendErr, Calm, UserType
  <2>2. \A y \in Conn : ReaderGoes(y)
    BY <2>1 DEF ReaderGoes
  <2>3. \A e \in Side : LoopGoes(e)
    BY <1>0, <1>3, SendLoop, Still DEF ReadRenews, fabricVars
  <2>4. QED
    BY <1>3, <2>2, <2>3, Together DEF ReadRenews, fabricVars
<1>4. QED
  BY <1>1, <1>2, <1>3 DEF ReadStep

\* Loop and the fibers it calls.
LEMMA LoopGo ==
    ASSUME TypeOK, Calm, OnlySynsUnmapped, ResultsInTime, NEW e \in Side, LoopStep(e)
    PROVE Goes
<1>0. loop \in [Side -> {"reading", "mapped", "default", "exited"}] /\ weaves \in [Side -> SUBSET Dials]
      /\ dial \in [Dials -> [pc : DialPC, errno : Nat]] /\ handler \in [Dials -> HandlerPC]
  BY DEF TypeOK
<1>1. CASE LoopRead(e)
  <2>1. /\ loop'[e] # "exited" /\ \A s \in Side : s # e => loop'[s] = loop[s]
        /\ loop'[e] = "default" => Held(e).id \notin weaves[e]
        /\ wire[e] # <<>> /\ UNCHANGED <<weaves, wire, open, link, reset>>
    BY <1>0, <1>1 DEF LoopRead, Held
  <2>2. \A s \in Side : LoopGoes(s)
    BY <2>1 DEF LoopGoes, Held
  <2>3. Calm'
    BY <2>1 DEF Calm
  <2>4. QED
    BY <1>1, <2>2, <2>3, Together DEF LoopRead, fabricVars
<1>2. ~LoopReadErr(e)
  BY DEF LoopReadErr, Calm
<1>3. ASSUME NEW x \in Dials, OnData(<<e, x>>) \/ OnWnd(<<e, x>>) \/ OnFin(<<e, x>>)
      PROVE Goes
  <2> DEFINE c == <<e, x>>
  <2>0. c \in Conn /\ c[1] = e /\ c[2] = x
    BY DEF Conn
  <2>1. (\A s \in Side : LoopGoes(s)) /\ Calm'
    BY <1>3, <2>0, ContinueGoes DEF OnData, OnWnd, OnFin
  <2>2. \A t \in MsgType : Held(e).type = t /\ Held(e).id = x => Takes(e, t, x)
    BY <1>3, <2>0, HandledMoves DEF OnData, OnWnd, OnFin, Dispatching
  <2>3. CASE OnData(c)
    <3>1. Takes(c[1], "DATA", c[2])
      BY <2>0, <2>2, <2>3 DEF OnData, Dispatching, MsgType
    <3>2. CASE ~conn[c].closed /\ conn' = [conn EXCEPT ![c].rqueue = Append(@, Held(c[1]).arg)]
      <4>1. /\ conn'[c].closed = conn[c].closed /\ conn'[c].status = conn[c].status
            /\ \A y \in Conn : y # c => conn'[y] = conn[y]
        BY <2>0, <3>2, ConnAfter
      <4>2. \A y \in Conn : StatusGoes(y) /\ QueueGoes(y)
        BY <2>0, <3>1, <3>2, <4>1, OneConn, Zenon DEF StatusGoes, QueueGoes
      <4>3. QED
        BY <2>1, <2>3, <4>2, Together DEF OnData, fabricVars
    <3>3. CASE conn' = conn
      BY <2>1, <2>3, <3>3, Together DEF OnData, fabricVars
    <3>4. QED
      BY <2>3, <3>2, <3>3 DEF OnData
  <2>4. CASE OnWnd(c)
    <3>1. SameQueue(c) /\ conn'[c].status = conn[c].status /\ \A y \in Conn : y # c => conn'[y] = conn[y]
      BY <2>0, <2>4, ConnAfter DEF OnWnd
    <3>2. \A y \in Conn : StatusGoes(y) /\ QueueGoes(y)
      BY <2>0, <3>1, OneConn DEF StatusGoes, QueueGoes
    <3>3. \A y \in Conn : user'[y].r = user[y].r /\ user'[y].rn = user[y].rn
      BY <2>0, <2>4, Zenon DEF OnWnd, TypeOK, UserType
    <3>4. \A y \in Conn : ReaderGoes(y)
      BY <3>3 DEF ReaderGoes
    <3>5. QED
      BY <2>1, <2>4, <3>2, <3>4, Together DEF OnWnd, fabricVars
  <2>5. CASE OnFin(c)
    <3>1. Takes(c[1], "FIN", c[2])
      BY <2>0, <2>2, <2>5 DEF OnFin, Dispatching, MsgType
    <3>2. CASE /\ conn[c].status = "EST" /\ UNCHANGED weaves
               /\ conn' = [conn EXCEPT ![c].status = "FIN_RECV", ![c].t_closing = "armed",
                                       ![c].closed = TRUE]
      <4>1. /\ conn'[c].closed /\ conn'[c].rqueue = conn[c].rqueue
            /\ conn'[c].r_rest = conn[c].r_rest /\ conn'[c].status = "FIN_RECV"
            /\ \A y \in Conn : y # c => conn'[y] = conn[y]
        BY <2>0, <3>2, ConnAfter
      <4>2. StatusGoes(c) /\ QueueGoes(c)
        BY <3>1, <3>2, <4>1, Zenon DEF StatusGoes, QueueGoes
      <4>3. \A y \in Conn : StatusGoes(y) /\ QueueGoes(y)
        BY <2>0, <4>1, <4>2, OneConn
      <4>4. QED
        BY <2>1, <2>5, <3>2, <4>3, Together DEF OnFin, fabricVars
    <3>3. CASE /\ conn[c].status = "FIN_SENT" /\ Final(c)
               /\ conn' = [conn EXCEPT ![c].status = "UNKNOWN", ![c].t_closing = "nil",
                                       ![c].closed = TRUE]
      <4>1. /\ conn'[c].closed /\ conn'[c].rqueue = conn[c].rqueue
            /\ conn'[c].r_rest = conn[c].r_rest /\ conn'[c].status = "UNKNOWN"
            /\ \A y \in Conn : y # c => conn'[y] = conn[y]
        BY <2>0, <3>3, ConnAfter
      <4>2. StatusGoes(c) /\ QueueGoes(c)
        BY <3>1, <3>3, <4>1, Zenon DEF StatusGoes, QueueGoes
      <4>3. \A y \in Conn : StatusGoes(y) /\ QueueGoes(y)
        BY <2>0, <4>1, <4>2, OneConn
      <4>4. WeaveGoes(c)
        BY <3>3, <4>1 DEF WeaveGoes
      <4>5. \A y \in Conn : WeaveGoes(y)
        BY <2>0, <3>3, <4>4, FinalGoes
      <4>6. QED
        BY <2>1, <2>5, <4>3, <4>5, Together DEF OnFin, fabricVars
    <3>4. CASE UNCHANGED <<conn, weaves>>
      BY <2>1, <2>5, <3>4, Together DEF OnFin, fabricVars
    <3>5. QED
      BY <2>5, <3>2, <3>3, <3>4 DEF OnFin, CloseRead
  <2>6. QED
    BY <1>3, <2>3, <2>4, <2>5
<1>4. ~(e = "client" /\ ClientDefault)
  BY DEF ClientDefault, OnlySynsUnmapped
<1>5. ~(e = "server" /\ ServerUnexpected)
  BY DEF ServerUnexpected, OnlySynsUnmapped
<1>6. ASSUME NEW x \in Dials, e = "client", OnResult(x)
      PROVE Goes
  <2>1. Takes("client", "RESULT", x)
    BY <1>6, HandledMoves DEF OnResult, Dispatching, MsgType
  <2>2. conn[<<"client", x>>].status = "SYN_SENT"
    BY <1>6, <2>1, TakenWasThere DEF ResultsInTime
  <2>3. LoopContinues("client") /\ UNCHANGED reset
    BY <1>6, <2>2 DEF OnResult
  <2>4. (\A s \in Side : LoopGoes(s)) /\ Calm'
    BY <1>6, <2>3, ContinueGoes DEF OnResult
  <2>5. \A d \in Dials : DialGoes(d)
    <3>1. CASE /\ dial[x].pc = "recv"
               /\ dial' = [dial EXCEPT ![x] = [pc |-> "got", errno |-> Held("client").arg]]
      BY <1>0, <2>1, <3>1 DEF DialGoes
    <3>2. QED
      BY <1>6, <2>2, <3>1, Still DEF OnResult
  <2>6. QED
    BY <1>6, <2>4, <2>5, Together DEF OnResult, fabricVars
<1>7. ASSUME NEW x \in Dials, e = "server", OnSynAccept(x)
      PROVE Goes
  <2> DEFINE c == <<"server", x>>
  <2>0. c \in Conn /\ c[1] = "server" /\ c[2] = x
    BY ConnOfDial, Zenon
  <2>1. Takes("server", "SYN", x)
    BY <1>7, HandledMoves DEF OnSynAccept, Dispatching, MsgType
  <2>2. (\A s \in Side : LoopGoes(s)) /\ Calm'
    BY <1>7, ContinueGoes DEF OnSynAccept
  <2>3. /\ ~conn'[c].closed /\ conn'[c].rqueue = <<>> /\ conn'[c].r_rest = 0
        /\ conn'[c].status = "SYN_RECV" /\ \A y \in Conn : y # c => conn'[y] = conn[y]
    BY <1>7, <2>0 DEF OnSynAccept, NewConn, TypeOK
  <2>4. StatusGoes(c) /\ QueueGoes(c)
    BY <2>0, <2>1, <2>3 DEF StatusGoes, QueueGoes
  <2>5. \A y \in Conn : StatusGoes(y) /\ QueueGoes(y)
    BY <2>0, <2>3, <2>4, OneConn
  <2>6. /\ x \in weaves'["server"] /\ handler'[x] = "dialing"
        /\ \A d \in Dials : d # x => handler'[d] = handler[d]
        /\ \A s \in Side : weaves[s] \subseteq weaves'[s]
    BY <1>0, <1>7 DEF OnSynAccept, Side
  <2>7. \A d \in Dials : HandlerGoes(d)
    BY <2>1, <2>3, <2>6 DEF HandlerGoes
  <2>8. \A y \in Conn : WeaveGoes(y)
    BY <2>6 DEF WeaveGoes, Conn
  <2>9. QED
    BY <1>7, <2>2, <2>5, <2>7, <2>8, Together DEF OnSynAccept, fabricVars
<1>8. ASSUME NEW x \in Dials, e = "server", OnSynUnknown(x)
      PROVE Goes
  <2> DEFINE f == MkFrame("RESULT", <<"server", x>>, ERR_UNKNOWN_PROTOCOL)
  <2>1. /\ wire' = [wire EXCEPT !["server"] = Tail(@),
                                !["client"] = IF link THEN Append(@, f) ELSE @]
        /\ LoopContinues("server") /\ UNCHANGED <<conn, user, dial, handler, weaves, reset>>
    BY <1>8 DEF OnSynUnknown, Calm
  <2>2. /\ loop'["server"] = "reading" /\ loop'["client"] = loop["client"]
        /\ UNCHANGED <<link, open, reset>>
    BY <1>0, <2>1 DEF LoopContinues, Side
  <2>3. wire'["client"] = wire["client"] \/ wire'["client"] = Append(wire["client"], f)
    BY <2>1 DEF TypeOK, Side
  <2>4. loop["client"] = "default" => Held("client")' = Held("client")
    <3>1. "client" \in Side
      BY DEF Side
    <3>2. f \in Frame
      BY ConnOfDial, FrameTypes, Zenon DEF MsgType, ERR_UNKNOWN_PROTOCOL
    <3>3. wire["client"] \in Seq(Frame) /\ (loop["client"] = "default" => wire["client"] # <<>>)
      BY <3>1 DEF TypeOK
    <3> HIDE DEF f
    <3>4. QED
      BY <2>3, <3>2, <3>3 DEF Held
  <2>5. \A s \in Side : LoopGoes(s)
    BY <2>2, <2>4 DEF LoopGoes, Side
  <2>6. Calm'
    BY <2>2 DEF Calm, Side
  <2>7. QED
    BY <2>1, <2>5, <2>6, Together DEF fabricVars
<1>9. QED
  BY <1>1, <1>2, <1>3, <1>4, <1>5, <1>6, <1>7, <1>8, Zenon DEF LoopStep

\* Every step.
LEMMA GoesOnly ==
    ASSUME TypeOK, Calm, OnlySynsUnmapped, ResultsInTime, ~Deadlines, ~Faults, [Next]_vars
    PROVE Goes
<1>1. CASE UNCHANGED vars
  BY <1>1, Together DEF vars
<1>2. CASE \E d \in Dials : PutIntoNextId(d) \/ Connect(d) \/ DialStep(d) \/ HandlerStep(d)
  BY <1>2, DialGo, HandlerGo
<1>3. CASE \E e \in Side : LoopStep(e)
  BY <1>3, LoopGo
<1>4. ~(LinkBreaks \/ \E e \in Side : CutOff(e))
  BY DEF LinkBreaks, CutOff
<1>5. \A c \in Conn : ~TimerFires(c) /\ \A k \in {"timer", "fabric"} : ~ResetStep(c, k)
  BY DEF TimerFires, ResetStep, ResetMark, ResetFinal, Calm
<1>6. ASSUME NEW c \in Conn,
             (\E n \in Slices : WriteSlice(c, n)) \/ WriteResumes(c) \/ CloseWrite(c) \/ ReadStep(c)
      PROVE Goes
  BY <1>6, WriteGo, ReadGo
<1>7. QED
  BY <1>1, <1>2, <1>3, <1>4, <1>5, <1>6 DEF Next
-----------------------------------------------------------------------------
(* The inductive invariant of a tunnel that stands. *)

\* A frame of type t for dial d is on the way to side e.
On(e, t, d) == \E i \in DOMAIN wire[e] : wire[e][i].type = t /\ wire[e][i].id = d

\* A RESULT other than ERR_NONE is on the way.
Refused(d) == \E i \in DOMAIN wire["client"] :
    wire["client"][i].type = "RESULT" /\ wire["client"][i].id = d /\ wire["client"][i].arg # ERR_NONE

\* Somebody still has to tell Connect what became of the SYN.
Asked(d) == On("server", "SYN", d) \/ handler[d] \in {"dialing", "accepted"}

\* SYNs travel to the server and RESULTs to the client.
Ways == \A d \in Dials : ~On("client", "SYN", d) /\ ~On("server", "RESULT", d)

\* Connect waits as long as its SYN, its handler or its one RESULT is about, and
\* keeps the Conn mapped until then; one that was refused has no open handler.
Dialled ==
    /\ \A d \in Dials :
          /\ dial[d].pc # "err"
          /\ dial[d].pc \in {"put", "opened", "sent", "recv", "got"} => d \in weaves["client"]
          /\ dial[d].pc \in {"opened", "sent", "recv", "got"} => conn[<<"client", d>>].status = "SYN_SENT"
          /\ Asked(d) \/ On("client", "RESULT", d) => dial[d].pc \in {"sent", "recv"}
          /\ On("client", "RESULT", d) => ~Asked(d)
          /\ Refused(d) => handler[d] # "open"
          /\ dial[d].pc \in {"got", "nil"} /\ dial[d].errno # ERR_NONE => handler[d] # "open"
    /\ \A i, j \in DOMAIN wire["client"] :
          /\ wire["client"][i].type = "RESULT" /\ wire["client"][j].type = "RESULT"
          /\ wire["client"][i].id = wire["client"][j].id
          => i = j

\* A handler keeps the Conn mapped, and nothing changes its status, until CopyLink.
Handlers ==
    \A d \in Dials :
        /\ handler[d] \in {"dialing", "denied", "accepted"} => d \in weaves["server"]
        /\ handler[d] \in {"dialing", "denied"} => conn[<<"server", d>>].status = "SYN_RECV"
        /\ handler[d] = "accepted" => conn[<<"server", d>>].status = "EST"

\* A Conn in use is unmapped only when the peer's FIN has come.
Mapped ==
    \A d \in Dials :
        /\ handler[d] = "open" /\ d \notin weaves["server"] => conn[<<"server", d>>].closed
        /\ dial[d].pc = "nil" /\ dial[d].errno = ERR_NONE /\ d \notin weaves["client"]
              => conn[<<"client", d>>].closed

\* Only a stream that the server has accepted carries data, renewals and FINs.
TalkOpen ==
    /\ \A e \in Side, t \in {"DATA", "WND", "FIN"}, d \in Dials : On(e, t, d) => handler[d] = "open"
    /\ \A c \in Conn :
          \/ user[c].w # "idle" \/ user[c].r # "fill" \/ user[c].rn # 0
          \/ conn[c].rqueue # <<>> \/ conn[c].r_rest # 0 \/ conn[c].closed
          => handler[c[2]] = "open"

\* A queue is closed by the last frame of the peer, and io.EOF comes after its end.
Closes ==
    \A c \in Conn :
        /\ conn[c].status = "FIN_RECV" => conn[c].closed
        /\ conn[c].closed => HasSentFin(Twin(c)) /\ \A t \in MsgType : ~On(c[1], t, c[2])
        /\ user[c].r = "end" => conn[c].closed /\ conn[c].rqueue = <<>> /\ conn[c].r_rest = 0

CalmInv == Calm /\ Ways /\ Dialled /\ Handlers /\ Mapped /\ TalkOpen /\ Closes /\ OnlySynsUnmapped
-----------------------------------------------------------------------------
\* A frame that is on the way was before, or this step sent it.
LEMMA OnStep ==
    ASSUME TypeOK, TypeOK', Moves, NEW e \in Side, NEW t \in MsgType, NEW d \in Dials, On(e, t, d)'
    PROVE On(e, t, d) \/ \E x \in Nat : Sends(<<Peer(e), d>>, t, x)
<1>1. PICK i \in DOMAIN wire'[e] : wire'[e][i].type = t /\ wire'[e][i].id = d
  BY DEF On
<1>2. WireMove(e)
  BY DEF Moves
<1>3. CASE \E j \in DOMAIN wire[e] : wire'[e][i] = wire[e][j]
  BY <1>1, <1>3 DEF On
<1>4. ASSUME NEW c \in Conn, NEW u \in MsgType, NEW x \in Nat,
             e = Peer(c[1]), Sends(c, u, x), wire'[e][i] = MkFrame(u, c, x)
      PROVE \E y \in Nat : Sends(<<Peer(e), d>>, t, y)
  <2>1. u = t /\ c[2] = d
    BY <1>1, <1>4 DEF MkFrame
  <2>2. c = <<Peer(e), d>>
    BY <1>4, <2>1 DEF Conn, Peer, Side
  <2>3. QED
    BY <1>4, <2>1, <2>2
<1>5. QED
  BY <1>2, <1>3, <1>4, WireFrames

LEMMA RefusedStep ==
    ASSUME TypeOK, TypeOK', Moves, NEW d \in Dials, Refused(d)'
    PROVE Refused(d) \/ \E x \in Nat : x # ERR_NONE /\ Sends(<<"server", d>>, "RESULT", x)
<1>1. PICK i \in DOMAIN wire'["client"] :
        /\ wire'["client"][i].type = "RESULT" /\ wire'["client"][i].id = d
        /\ wire'["client"][i].arg # ERR_NONE
  BY DEF Refused
<1>2. "client" \in Side /\ WireMove("client")
  BY DEF Moves, Side
<1>3. CASE \E j \in DOMAIN wire["client"] : wire'["client"][i] = wire["client"][j]
  BY <1>1, <1>3 DEF Refused
<1>4. ASSUME NEW c \in Conn, NEW u \in MsgType, NEW x \in Nat,
             "client" = Peer(c[1]), Sends(c, u, x), wire'["client"][i] = MkFrame(u, c, x)
      PROVE \E y \in Nat : y # ERR_NONE /\ Sends(<<"server", d>>, "RESULT", y)
  <2>1. u = "RESULT" /\ c[2] = d /\ x # ERR_NONE
    BY <1>1, <1>4 DEF MkFrame
  <2>2. c = <<"server", d>>
    BY <1>4, <2>1 DEF Conn, Peer, Side
  <2>3. QED
    BY <1>4, <2>1, <2>2
<1>5. QED
  BY <1>2, <1>3, <1>4, WireFrames

\* A frame that Loop takes was on the way.
LEMMA TakenOn ==
    ASSUME TypeOK, NEW e \in Side, NEW t, NEW d, Takes(e, t, d)
    PROVE On(e, t, d)
  BY TakenWasThere DEF On

\* The only one of its kind is gone when it is taken.
LEMMA TakenGone ==
    ASSUME TypeOK, NEW e \in Side, NEW t, NEW d, Takes(e, t, d),
           \A i, j \in DOMAIN wire[e] :
              /\ wire[e][i].type = t /\ wire[e][j].type = t
              /\ wire[e][i].id = wire[e][j].id
              => i = j
    PROVE ~On(e, t, d)'
<1> SUFFICES ASSUME On(e, t, d)' PROVE FALSE
  OBVIOUS
<1>1. PICK i \in DOMAIN wire'[e] : wire'[e][i].type = t /\ wire'[e][i].id = d
  BY DEF On
<1>2. i + 1 \in DOMAIN wire[e] /\ i + 1 # 1 /\ wire'[e][i] = wire[e][i + 1]
  BY <1>1, TakenWasThere
<1>3. 1 \in DOMAIN wire[e] /\ wire[e][1].type = t /\ wire[e][1].id = d
  BY TakenWasThere
<1>4. QED
  BY <1>1, <1>2, <1>3

\* The Conns of a dial.
LEMMA TwoConns ==
    ASSUME NEW d \in Dials
    PROVE /\ <<"client", d>> \in Conn /\ <<"client", d>>[1] = "client" /\ <<"client", d>>[2] = d
          /\ <<"server", d>> \in Conn /\ <<"server", d>>[1] = "server" /\ <<"server", d>>[2] = d
          /\ Peer("client") = "server" /\ Peer("server") = "client"
          /\ "client" \in Side /\ "server" \in Side
  BY DEF Conn, Side, Peer

\* SYNs and RESULTs keep their ways.
LEMMA WaysStep ==
    ASSUME TypeOK, TypeOK', Moves, Ways
    PROVE Ways'
<1> SUFFICES ASSUME NEW d \in Dials PROVE ~On("client", "SYN", d)' /\ ~On("server", "RESULT", d)'
  BY DEF Ways, On
<1>1. \A x : ~Sends(<<"server", d>>, "SYN", x) /\ ~Sends(<<"client", d>>, "RESULT", x)
  BY TwoConns DEF Sends
<1>2. QED
  BY <1>1, OnStep, TwoConns DEF Ways, MsgType

\* Connect starts to ask when it sends its SYN, and a handler only goes on asking.
LEMMA AskedStep ==
    ASSUME TypeOK, TypeOK', Moves, Goes, NEW d \in Dials, Asked(d)'
    PROVE Asked(d) \/ (dial[d].pc = "opened" /\ dial'[d].pc = "sent")
<1>1. CASE On("server", "SYN", d)'
  <2>1. On("server", "SYN", d) \/ \E x \in Nat : Sends(<<"client", d>>, "SYN", x)
    BY <1>1, OnStep, TwoConns, Zenon DEF MsgType
  <2>2. QED
    BY <2>1, TwoConns DEF Asked, Sends
<1>2. CASE handler'[d] \in {"dialing", "accepted"}
  <2>1. HandlerGoes(d)
    BY DEF Goes
  <2>2. Takes("server", "SYN", d) => On("server", "SYN", d)
    BY TakenOn, TwoConns, Zenon
  <2>3. QED
    BY <1>2, <2>1, <2>2 DEF HandlerGoes, Asked
<1>3. QED
  BY <1>1, <1>2 DEF Asked

\* The RESULT is the answer: who sends it asks no more.
LEMMA AnswerStep ==
    ASSUME TypeOK, TypeOK', SynsAreFresh, Dialled, Moves, Goes, NEW d \in Dials,
           NEW x, Sends(<<"server", d>>, "RESULT", x)
    PROVE /\ Asked(d) /\ ~Asked(d)' /\ handler[d] # "open"
          /\ handler'[d] = "open" => x = ERR_NONE
<1>0. \/ handler[d] = "dialing" /\ handler'[d] = "denied" /\ x # ERR_NONE
      \/ handler[d] = "accepted" /\ handler'[d] = "open" /\ x = ERR_NONE
      \/ Takes("server", "SYN", d) /\ handler' = handler /\ x # ERR_NONE
  BY TwoConns DEF Sends
<1>1. Takes("server", "SYN", d) => On("server", "SYN", d)
  BY TakenOn, TwoConns, Zenon
<1>2. On("server", "SYN", d) => handler[d] = "none"
  BY DEF On, SynsAreFresh
<1>3. Asked(d)
  BY <1>0, <1>1 DEF Asked
<1>4. dial[d].pc \in {"sent", "recv"}
  BY <1>3, Zenon DEF Dialled
<1>5. On("server", "SYN", d)' => On("server", "SYN", d)
  <2>1. \A y : ~Sends(<<"client", d>>, "SYN", y)
    BY <1>4, TwoConns DEF Sends
  <2>2. QED
    BY <2>1, OnStep, TwoConns DEF MsgType
<1>6. Takes("server", "SYN", d) => ~On("server", "SYN", d)'
  BY TakenGone, TwoConns, Zenon DEF SynsAreFresh
<1>7. QED
  BY <1>0, <1>1, <1>2, <1>3, <1>5, <1>6 DEF Asked

\* Connect and its handler, in every step.
LEMMA DialledStep ==
    ASSUME Inv, TypeOK', Dialled, Moves, Goes
    PROVE Dialled'
<1> USE DEF Inv
<1>1. ASSUME NEW d \in Dials
      PROVE /\ dial'[d].pc # "err"
            /\ dial'[d].pc \in {"put", "opened", "sent", "recv", "got"} => d \in weaves'["client"]
            /\ dial'[d].pc \in {"opened", "sent", "recv", "got"} => conn'[<<"client", d>>].status = "SYN_SENT"
            /\ Asked(d)' \/ On("client", "RESULT", d)' => dial'[d].pc \in {"sent", "recv"}
            /\ On("client", "RESULT", d)' => ~Asked(d)'
            /\ Refused(d)' => handler'[d] # "open"
            /\ dial'[d].pc \in {"got", "nil"} /\ dial'[d].errno # ERR_NONE => handler'[d] # "open"
  <2> DEFINE c == <<"client", d>>
  <2>0. /\ c \in Conn /\ c[1] = "client" /\ c[2] = d
        /\ DialGoes(d) /\ HandlerGoes(d) /\ StatusGoes(c) /\ WeaveGoes(c)
    BY TwoConns, Zenon DEF Goes
  <2>1. /\ dial[d].pc # "err"
        /\ dial[d].pc \in {"put", "opened", "sent", "recv", "got"} => d \in weaves["client"]
        /\ dial[d].pc \in {"opened", "sent", "recv", "got"} => conn[c].status = "SYN_SENT"
        /\ Asked(d) \/ On("client", "RESULT", d) => dial[d].pc \in {"sent", "recv"}
        /\ On("client", "RESULT", d) => ~Asked(d)
        /\ Refused(d) => handler[d] # "open"
        /\ dial[d].pc \in {"got", "nil"} /\ dial[d].errno # ERR_NONE => handler[d] # "open"
    BY DEF Dialled
  <2>2. dial'[d].pc # "err"
    BY <2>0, <2>1 DEF DialGoes
  <2>3. ASSUME dial'[d].pc \in {"put", "opened", "sent", "recv", "got"} PROVE d \in weaves'["client"]
    <3>1. CASE dial[d].pc = "idle"
      BY <2>0, <2>3, <3>1 DEF DialGoes
    <3>2. CASE dial[d].pc \in {"put", "opened", "sent", "recv", "got"}
      <4>1. conn[c].status \notin {"FIN_SENT", "FIN_RECV"}
        BY <2>0, <2>1, <3>2 DEF EstAgreed, SynsAreFresh
      <4>2. QED
        BY <2>0, <2>1, <2>3, <3>2, <4>1 DEF WeaveGoes
    <3>3. QED
      BY <2>0, <2>1, <2>3, <3>1, <3>2 DEF DialGoes
  <2>4. ASSUME dial'[d].pc \in {"opened", "sent", "recv", "got"} PROVE conn'[c].status = "SYN_SENT"
    <3>1. CASE dial[d].pc = "put"
      BY <2>0, <2>4, <3>1 DEF DialGoes
    <3>2. CASE dial[d].pc \in {"opened", "sent", "recv", "got"}
      BY <2>0, <2>1, <2>4, <3>2 DEF StatusGoes, Usable
    <3>3. QED
      BY <2>0, <2>1, <2>4, <3>1, <3>2 DEF DialGoes
  <2>5. On("client", "RESULT", d)' =>
           On("client", "RESULT", d) \/ \E x \in Nat : Sends(<<"server", d>>, "RESULT", x)
    BY OnStep, TwoConns, Zenon DEF MsgType
  <2>6. On("client", "RESULT", d)' => ~Asked(d)'
    <3>1. ASSUME On("client", "RESULT", d) PROVE ~Asked(d)'
      BY <2>1, <3>1, AskedStep
    <3>2. QED
      BY <2>5, <3>1, AnswerStep
  <2>7. ASSUME Asked(d)' \/ On("client", "RESULT", d)' PROVE dial'[d].pc \in {"sent", "recv"}
    <3>1. CASE dial[d].pc = "opened" /\ dial'[d].pc = "sent"
      BY <3>1
    <3>2. CASE Asked(d) \/ On("client", "RESULT", d)
      <4>1. dial[d].pc \in {"sent", "recv"}
        BY <2>1, <3>2
      <4>2. ~Takes("client", "RESULT", d)
        <5> SUFFICES ASSUME Takes("client", "RESULT", d) PROVE FALSE
          OBVIOUS
        <5>1. On("client", "RESULT", d) /\ ~On("client", "RESULT", d)'
          BY TakenOn, TakenGone, TwoConns, Zenon DEF Dialled
        <5>2. ~Asked(d)'
          BY <2>1, <4>1, <5>1, AskedStep
        <5>3. QED
          BY <2>7, <5>1, <5>2
      <4>3. QED
        BY <2>0, <4>1, <4>2 DEF DialGoes
    <3>3. QED
      BY <2>5, <2>7, <3>1, <3>2, AskedStep, AnswerStep
  <2>8. handler'[d] = "open" => handler[d] = "open" \/ Asked(d)
    BY <2>0 DEF HandlerGoes, Asked
  <2>9. Refused(d) => On("client", "RESULT", d)
    BY DEF Refused, On
  <2>10. Refused(d)' => handler'[d] # "open"
    BY <2>1, <2>8, <2>9, RefusedStep, AnswerStep, Zenon
  <2>11. ASSUME dial'[d].pc \in {"got", "nil"}, dial'[d].errno # ERR_NONE PROVE handler'[d] # "open"
    <3>1. CASE dial[d].pc \in {"got", "nil"} /\ dial[d].errno # ERR_NONE
      BY <2>1, <2>8, <3>1
    <3>2. CASE Takes("client", "RESULT", d) /\ dial'[d].errno = Held("client").arg
      <4>1. Refused(d)
        <5>0. "client" \in Side
          BY TwoConns, Zenon
        <5>1. /\ 1 \in DOMAIN wire["client"] /\ wire["client"][1] = Held("client")
              /\ wire["client"][1].type = "RESULT" /\ wire["client"][1].id = d
          BY <3>2, <5>0, TakenWasThere
        <5>2. QED
          BY <2>11, <3>2, <5>1 DEF Refused
      <4>2. QED
        BY <2>1, <2>8, <2>9, <4>1
    <3>3. QED
      BY <2>0, <2>11, <3>1, <3>2 DEF DialGoes
  <2>12. QED
    BY <2>2, <2>3, <2>4, <2>6, <2>7, <2>10, <2>11
<1>2. ASSUME NEW i \in DOMAIN wire'["client"], NEW j \in DOMAIN wire'["client"],
             wire'["client"][i].type = "RESULT", wire'["client"][j].type = "RESULT",
             wire'["client"][i].id = wire'["client"][j].id
      PROVE i = j
  <2> DEFINE w == wire["client"]
  <2>0. "client" \in Side /\ WireMove("client") /\ i \in Int /\ j \in Int /\ w \in Seq(Frame)
    <3>1. "client" \in Side
      BY DEF Side
    <3>2. WireMove("client")
      BY <3>1, Zenon DEF Moves
    <3>3. w \in Seq(Frame) /\ w' \in Seq(Frame)
      BY <3>1 DEF TypeOK
    <3>4. i \in Int /\ j \in Int
      BY <1>2, <3>3
    <3>5. QED
      BY <3>1, <3>2, <3>3, <3>4
  <2>1. CASE w' = w
    BY <1>2, <2>1 DEF Dialled
  <2>2. CASE \A k \in DOMAIN w' : k + 1 \in DOMAIN w /\ k + 1 # 1 /\ w'[k] = w[k + 1]
    <3>1. i + 1 = j + 1
      BY <1>2, <2>2 DEF Dialled
    <3>2. QED
      BY <2>0, <3>1
  <2>3. ASSUME NEW c \in Conn, NEW t \in MsgType, NEW x \in Nat, "client" = Peer(c[1]), Sends(c, t, x),
               \A k \in DOMAIN w' :
                      \/ k \in DOMAIN w /\ w'[k] = w[k]
                      \/ /\ w'[k] = MkFrame(t, c, x)
                         /\ k \notin DOMAIN w
                         /\ \A l \in DOMAIN w' : l <= k
        PROVE i = j
    <3>1. CASE i \in DOMAIN w /\ j \in DOMAIN w
      BY <1>2, <2>3, <3>1 DEF Dialled
    <3>2. CASE i \notin DOMAIN w /\ j \notin DOMAIN w
      BY <1>2, <2>0, <2>3, <3>2
    <3>3. ASSUME NEW k \in DOMAIN w, w[k].type = "RESULT", w[k].id = c[2], t = "RESULT" PROVE FALSE
      <4>1. w[k].id \in Dials
        BY <2>0, FrameConn, Zenon
      <4>2. c = <<"server", c[2]>>
        BY <2>3 DEF Conn, Peer, Side
      <4>3. Asked(c[2])
        BY <2>3, <3>3, <4>1, <4>2, AnswerStep
      <4>4. QED
        BY <3>3, <4>1, <4>3, Zenon DEF Dialled, On
    <3>4. QED
      BY <1>2, <2>3, <3>1, <3>2, <3>3 DEF MkFrame
  <2>4. QED
    BY <2>0, <2>1, <2>2, <2>3, WirePositions
<1> USE DEF Dialled
<1>3. QED
  BY <1>1, <1>2 DEF Asked, On, Refused

\* The handler's Conn, in every step.
LEMMA HandlersStep ==
    ASSUME Inv, Handlers, TalkOpen, Moves, Goes
    PROVE Handlers'
<1> USE DEF Inv
<1> SUFFICES ASSUME NEW d \in Dials
             PROVE /\ handler'[d] \in {"dialing", "denied", "accepted"} => d \in weaves'["server"]
                   /\ handler'[d] \in {"dialing", "denied"} => conn'[<<"server", d>>].status = "SYN_RECV"
                   /\ handler'[d] = "accepted" => conn'[<<"server", d>>].status = "EST"
  BY DEF Handlers
<1> DEFINE c == <<"server", d>>
<1>0. /\ c \in Conn /\ c[1] = "server" /\ c[2] = d
      /\ HandlerGoes(d) /\ StatusGoes(c) /\ WeaveGoes(c)
  BY TwoConns, Zenon DEF Goes
<1>1. /\ handler[d] \in {"dialing", "denied", "accepted"} => d \in weaves["server"]
      /\ handler[d] \in {"dialing", "denied"} => conn[c].status = "SYN_RECV"
      /\ handler[d] = "accepted" => conn[c].status = "EST"
  BY DEF Handlers
<1>2. handler[d] # "none" => ~Takes("server", "SYN", d)
  BY HandledOnce
<1>3. handler[d] # "open" => ~Takes("server", "FIN", d)
  <2>1. Takes("server", "FIN", d) => On("server", "FIN", d)
    BY TakenOn, TwoConns, Zenon
  <2>2. QED
    BY <2>1, TwoConns, Zenon DEF TalkOpen
<1>4. CASE Takes("server", "SYN", d) /\ handler'[d] = "dialing" /\ d \in weaves'["server"]
           /\ conn'[c].status = "SYN_RECV"
  BY <1>4
<1>5. CASE handler[d] \in {"dialing", "denied", "accepted"} /\ handler'[d] \in {"dialing", "denied", "accepted"}
  <2>1. d \in weaves'["server"]
    BY <1>0, <1>1, <1>5 DEF WeaveGoes
  <2>2. conn'[c].status # conn[c].status =>
           handler[d] = "dialing" /\ handler'[d] = "accepted" /\ conn'[c].status = "EST"
    BY <1>0, <1>1, <1>2, <1>3, <1>5 DEF StatusGoes, Usable
  <2>3. QED
    BY <1>0, <1>1, <1>2, <1>5, <2>1, <2>2 DEF HandlerGoes
<1>6. QED
  BY <1>0, <1>4, <1>5 DEF HandlerGoes

\* A queue that is closed stays closed, and one is closed by a FIN.
LEMMA ClosedStep ==
    ASSUME Inv, TalkOpen, Goes, NEW c \in Conn
    PROVE /\ conn[c].closed => conn'[c].closed
          /\ conn'[c].closed => conn[c].closed \/ Takes(c[1], "FIN", c[2])
          /\ user[c].r = "end" /\ conn[c].closed =>
                conn'[c].rqueue = conn[c].rqueue /\ conn'[c].r_rest = conn[c].r_rest
<1> USE DEF Inv
<1>1. c[1] \in Side /\ c[2] \in Dials /\ QueueGoes(c)
  BY DEF Goes, Conn
<1>2. conn[c].closed => ~Takes("server", "SYN", c[2])
  <2>1. conn[c].closed => handler[c[2]] = "open"
    BY DEF TalkOpen
  <2>2. QED
    BY <1>1, <2>1, HandledOnce
<1>3. QED
  BY <1>1, <1>2 DEF QueueGoes, SameQueue

\* Conns are unmapped late enough, in every step.
LEMMA MappedStep ==
    ASSUME Inv, Dialled, Handlers, Mapped, TalkOpen, Closes, Moves, Goes
    PROVE Mapped'
<1> USE DEF Inv
<1> SUFFICES ASSUME NEW d \in Dials
             PROVE /\ handler'[d] = "open" /\ d \notin weaves'["server"] => conn'[<<"server", d>>].closed
                   /\ dial'[d].pc = "nil" /\ dial'[d].errno = ERR_NONE /\ d \notin weaves'["client"]
                         => conn'[<<"client", d>>].closed
  BY DEF Mapped
<1>0. \A c \in Conn : /\ WeaveGoes(c) /\ (conn[c].closed => conn'[c].closed)
                      /\ (conn[c].status = "FIN_RECV" => conn[c].closed)
  BY ClosedStep DEF Goes, Closes
<1>1. ASSUME handler'[d] = "open", d \notin weaves'["server"] PROVE conn'[<<"server", d>>].closed
  <2> DEFINE c == <<"server", d>>
  <2>0. c \in Conn /\ c[1] = "server" /\ c[2] = d
    BY TwoConns, Zenon
  <2>1. handler[d] \in {"accepted", "open"}
    BY <1>1, Zenon DEF Goes, HandlerGoes
  <2>2. CASE d \in weaves["server"]
    BY <1>0, <1>1, <2>0, <2>1, <2>2 DEF WeaveGoes
  <2>3. CASE d \notin weaves["server"]
    <3>1. conn[c].closed
      BY <2>1, <2>3, Zenon DEF Handlers, Mapped
    <3>2. QED
      BY <1>0, <2>0, <3>1
  <2>4. QED
    BY <2>2, <2>3
<1>2. ASSUME dial'[d].pc = "nil", dial'[d].errno = ERR_NONE, d \notin weaves'["client"]
      PROVE conn'[<<"client", d>>].closed
  <2> DEFINE c == <<"client", d>>
  <2>0. c \in Conn /\ c[1] = "client" /\ c[2] = d
    BY TwoConns, Zenon
  <2>1. dial[d].pc \in {"got", "nil"} /\ dial[d].errno = ERR_NONE
    BY <1>2, Zenon DEF Goes, DialGoes
  <2>2. CASE d \in weaves["client"]
    BY <1>0, <1>2, <2>0, <2>1, <2>2 DEF WeaveGoes
  <2>3. CASE d \notin weaves["client"]
    <3>1. conn[c].closed
      BY <2>1, <2>3, Zenon DEF Dialled, Mapped
    <3>2. QED
      BY <1>0, <2>0, <3>1
  <2>4. QED
    BY <2>2, <2>3
<1>3. QED
  BY <1>1, <1>2

\* What is sent, written and read on a stream, in every step.
LEMMA TalkStep ==
    ASSUME Inv, TypeOK', TalkOpen, Moves, Goes
    PROVE TalkOpen'
<1> USE DEF Inv
<1>0. \A d \in Dials : handler[d] = "open" => handler'[d] = "open"
  BY OpenStays
<1>1. ASSUME NEW c \in Conn, conn[c].status \in {"EST", "FIN_RECV"}, Usable(c)
      PROVE handler[c[2]] = "open"
  <2>1. c[1] \in Side /\ c[2] \in Dials /\ c = <<c[1], c[2]>>
    BY DEF Conn
  <2>2. CASE c[1] = "client"
    BY <1>1, <2>1, <2>2 DEF EstAgreed
  <2>3. QED
    BY <1>1, <2>1, <2>2 DEF Usable
<1>2. ASSUME NEW e \in Side, NEW t \in {"DATA", "WND", "FIN"}, NEW d \in Dials, On(e, t, d)'
      PROVE handler[d] = "open"
  <2> DEFINE c == <<Peer(e), d>>
  <2>1. c \in Conn /\ c[2] = d /\ t \in MsgType
    BY DEF Conn, Peer, Side, MsgType
  <2>2. CASE On(e, t, d)
    BY <2>2 DEF TalkOpen
  <2>3. ASSUME NEW x, Sends(c, t, x) PROVE handler[d] = "open"
    <3>1. \/ user[c].w # "idle" \/ user[c].r # "fill"
          \/ conn[c].status \in {"EST", "FIN_RECV"} /\ Usable(c)
      BY <2>3 DEF Sends
    <3>2. QED
      BY <1>1, <2>1, <3>1 DEF TalkOpen
  <2>4. QED
    BY <1>2, <2>1, <2>2, <2>3, OnStep
<1>3. ASSUME NEW c \in Conn,
             \/ user'[c].w # "idle" \/ user'[c].r # "fill" \/ user'[c].rn # 0
             \/ conn'[c].rqueue # <<>> \/ conn'[c].r_rest # 0 \/ conn'[c].closed
      PROVE handler[c[2]] = "open"
  <2>0. /\ c[1] \in Side /\ c[2] \in Dials
        /\ WriterMove(c) /\ ReaderGoes(c) /\ QueueGoes(c)
    BY DEF Conn, Moves, Goes
  <2>1. \A t \in {"DATA", "FIN"} : Takes(c[1], t, c[2]) => handler[c[2]] = "open"
    BY <2>0, TakenOn DEF TalkOpen
  <2>2. \/ user[c].w # "idle" \/ user[c].r # "fill" \/ user[c].rn # 0
        \/ conn[c].rqueue # <<>> \/ conn[c].r_rest # 0 \/ conn[c].closed
        => handler[c[2]] = "open"
    BY DEF TalkOpen
  <2>3. CASE user'[c].w # "idle"
    BY <1>1, <2>0, <2>2, <2>3 DEF WriterMove
  <2>4. CASE user'[c].r # "fill" \/ user'[c].rn # 0
    BY <2>0, <2>2, <2>4 DEF ReaderGoes
  <2>5. CASE conn'[c].rqueue # <<>> \/ conn'[c].r_rest # 0 \/ conn'[c].closed
    BY <2>0, <2>1, <2>2, <2>5 DEF QueueGoes, SameQueue
  <2>6. QED
    BY <1>3, <2>3, <2>4, <2>5
<1>4. \A c \in Conn : c[2] \in Dials
  BY DEF Conn
<1>5. QED
  BY <1>0, <1>2, <1>3, <1>4 DEF TalkOpen, On

\* The end of a stream, in every step.
LEMMA ClosesStep ==
    ASSUME Inv, TypeOK', FinInv, TalkOpen, Closes, Moves, Goes
    PROVE Closes'
<1> USE DEF Inv
<1>0. SUFFICES ASSUME NEW c \in Conn, NEW b \in Conn, b = Twin(c)
               PROVE /\ conn'[c].status = "FIN_RECV" => conn'[c].closed
                     /\ conn'[c].closed => HasSentFin(b)' /\ \A t \in MsgType : ~On(c[1], t, c[2])'
                     /\ user'[c].r = "end" =>
                           conn'[c].closed /\ conn'[c].rqueue = <<>> /\ conn'[c].r_rest = 0
  <2>1. \A c \in Conn : Twin(c) \in Conn
    BY DEF Conn, Twin, Peer, Side
  <2>2. QED
    BY <2>1, Zenon DEF Closes, HasSentFin, Usable, On
<1>1. /\ c[1] \in Side /\ c[2] \in Dials /\ b = <<Peer(c[1]), c[2]>>
      /\ StatusGoes(c) /\ ReaderGoes(c)
  BY <1>0 DEF Conn, Twin, Goes
<1>2. /\ conn[c].status = "FIN_RECV" => conn[c].closed
      /\ conn[c].closed => HasSentFin(b) /\ \A t \in MsgType : ~On(c[1], t, c[2])
      /\ user[c].r = "end" => conn[c].closed /\ conn[c].rqueue = <<>> /\ conn[c].r_rest = 0
  BY <1>0 DEF Closes
<1>3. /\ conn[c].closed => conn'[c].closed
      /\ conn'[c].closed => conn[c].closed \/ Takes(c[1], "FIN", c[2])
      /\ user[c].r = "end" /\ conn[c].closed =>
            conn'[c].rqueue = conn[c].rqueue /\ conn'[c].r_rest = conn[c].r_rest
  BY ClosedStep
<1>4. conn'[c].status = "FIN_RECV" => conn'[c].closed
  BY <1>1, <1>2, <1>3 DEF StatusGoes
<1>5. ASSUME conn[c].closed
      PROVE HasSentFin(b)' /\ \A t \in MsgType : ~On(c[1], t, c[2])'
  <2>1. HasSentFin(b)'
    BY <1>2, <1>5, FinStays
  <2>2. ASSUME NEW t \in MsgType PROVE ~On(c[1], t, c[2])'
    BY <1>1, <1>2, <1>5, FinSilences, OnStep
  <2>3. QED
    BY <2>1, <2>2
<1>6. ASSUME Takes(c[1], "FIN", c[2])
      PROVE HasSentFin(b)' /\ \A t \in MsgType : ~On(c[1], t, c[2])'
  <2> DEFINE w == wire[c[1]]
  <2>0. c[1] \in Side
    BY <1>1
  <2>1. /\ 1 \in DOMAIN w /\ w[1].type = "FIN" /\ w[1].id = c[2]
        /\ \A i \in DOMAIN w' : i + 1 \in DOMAIN w /\ i + 1 # 1 /\ w'[i] = w[i + 1]
    BY <2>0, <1>6, TakenWasThere
  <2>2. HasSentFin(b)'
    <3>1. HasSentFin(<<Peer(c[1]), w[1].id>>)
      BY <1>1, <2>1 DEF FinInv, FinsAreFinal
    <3>2. HasSentFin(b)
      BY <1>1, <2>1, <3>1
    <3>3. QED
      BY <3>2, FinStays
  <2>3. ASSUME NEW t \in MsgType, NEW i \in DOMAIN w', w'[i].type = t, w'[i].id = c[2] PROVE FALSE
    <3>1. i + 1 \in DOMAIN w /\ w[i + 1].id = w[1].id
      BY <2>1, <2>3
    <3>2. w \in Seq(Frame)
      BY <1>1 DEF TypeOK
    <3>3. 1 < i + 1
      <4>1. \A k \in DOMAIN w : k \in Nat /\ k >= 1
        BY <3>2
      <4>2. QED
        BY <2>1, <3>1, <4>1
    <3>4. QED
      BY <1>1, <2>1, <3>1, <3>3 DEF FinInv, FinIsLast
  <2>4. QED
    BY <2>2, <2>3 DEF On
<1>7. user'[c].r = "end" => conn'[c].closed /\ conn'[c].rqueue = <<>> /\ conn'[c].r_rest = 0
  BY <1>1, <1>2, <1>3 DEF ReaderGoes, SameQueue
<1>8. QED
  BY <1>3, <1>4, <1>5, <1>6, <1>7

\* A frame whose id is not mapped is a SYN on its way to the server.
LEMMA UnmappedIsSyn ==
    ASSUME Inv, Ways, Dialled, Mapped, TalkOpen, Closes,
           NEW e \in Side, wire[e] # <<>>, Held(e).id \notin weaves[e]
    PROVE e = "server" /\ Held(e).type = "SYN"
<1> USE DEF Inv
<1>1. PICK f \in Frame : f = Held(e) /\ On(e, f.type, f.id)
  <2>1. wire[e] \in Seq(Frame)
    BY DEF TypeOK
  <2>2. 1 \in DOMAIN wire[e] /\ wire[e][1] \in Frame /\ Held(e) = wire[e][1]
    BY <2>1 DEF Held
  <2>3. QED
    BY <2>2 DEF On
<1>2. PICK d \in Dials, t \in MsgType : d = f.id /\ t = f.type
  BY DEF Frame
<1>3. On(e, t, d) /\ d \notin weaves[e] /\ t = Held(e).type
  BY <1>1, <1>2
<1>4. t # "RESULT"
  <2> SUFFICES ASSUME t = "RESULT" PROVE FALSE
    OBVIOUS
  <2>1. e = "client"
    BY <1>3 DEF Ways, Side
  <2>2. QED
    BY <1>3, <2>1, Zenon DEF Dialled
<1>5. t \notin {"DATA", "WND", "FIN"}
  <2> SUFFICES ASSUME t \in {"DATA", "WND", "FIN"} PROVE FALSE
    OBVIOUS
  <2>1. handler[d] = "open"
    BY <1>3 DEF TalkOpen
  <2>2. <<e, d>> \in Conn /\ <<e, d>>[1] = e /\ <<e, d>>[2] = d
    BY DEF Conn
  <2>3. conn[<<e, d>>].closed
    <3>1. CASE e = "server"
      BY <1>3, <2>1, <3>1, Zenon DEF Mapped
    <3>2. CASE e = "client"
      <4>1. dial[d].pc \notin {"idle", "put", "opened"}
        BY <2>1 DEF SynsAreFresh
      <4>2. dial[d].pc \notin {"sent", "recv", "got", "err"}
        BY <1>3, <3>2, Zenon DEF Dialled
      <4>3. dial[d].pc = "nil"
        BY <4>1, <4>2 DEF TypeOK, DialPC
      <4>4. dial[d].errno = ERR_NONE
        BY <2>1, <4>3 DEF Dialled
      <4>5. QED
        BY <1>3, <3>2, <4>3, <4>4, Zenon DEF Mapped
    <3>3. QED
      BY <3>1, <3>2 DEF Side
  <2>4. QED
    BY <1>3, <2>2, <2>3 DEF Closes
<1>6. QED
  BY <1>3, <1>4, <1>5 DEF Ways, Side, MsgType

\* A RESULT finds Connect before its end.
LEMMA InTime == ASSUME TypeOK, Dialled PROVE ResultsInTime
<1> SUFFICES ASSUME NEW i \in DOMAIN wire["client"], wire["client"][i].type = "RESULT"
             PROVE conn[<<"client", wire["client"][i].id>>].status = "SYN_SENT"
  BY DEF ResultsInTime
<1>1. wire["client"] \in Seq(Frame) /\ "client" \in Side
  BY DEF TypeOK, Side
<1>2. wire["client"][i].id \in Dials
  BY <1>1, FrameConn, Zenon
<1>3. On("client", "RESULT", wire["client"][i].id)
  BY DEF On
<1>4. QED
  BY <1>2, <1>3 DEF Dialled

\* The invariant is inductive.
LEMMA CalmStep ==
    ASSUME ~Deadlines, ~Faults, Inv, FinInv, CalmInv, [Next]_vars
    PROVE CalmInv'
<1>1. TypeOK' /\ Moves
  BY TypeStep, MovesOnly DEF Inv
<1>2. Goes
  BY GoesOnly, InTime DEF Inv, CalmInv
<1>3. Calm'
  BY <1>2 DEF Goes
<1>4. Ways' /\ Dialled' /\ Handlers' /\ Mapped' /\ TalkOpen' /\ Closes'
  BY <1>1, <1>2, WaysStep, DialledStep, HandlersStep, MappedStep, TalkStep, ClosesStep DEF Inv, CalmInv
<1>5. OnlySynsUnmapped'
  <2> SUFFICES ASSUME NEW e \in Side, loop'[e] = "default"
               PROVE e = "server" /\ Held(e)'.type = "SYN"
    BY DEF OnlySynsUnmapped, Held
  <2>1. LoopGoes(e)
    BY <1>2 DEF Goes
  <2>2. CASE loop[e] = "default" /\ Held(e)' = Held(e)
    BY <2>2 DEF CalmInv, OnlySynsUnmapped
  <2>3. CASE wire'[e] = wire[e] /\ wire[e] # <<>> /\ Held(e).id \notin weaves[e]
    <3>1. e = "server" /\ Held(e).type = "SYN"
      BY <2>3, UnmappedIsSyn DEF CalmInv
    <3>2. QED
      BY <2>3, <3>1 DEF Held
  <2>4. QED
    BY <2>1, <2>2, <2>3 DEF LoopGoes
<1>6. QED
  BY <1>3, <1>4, <1>5 DEF CalmInv

\* It holds in every behaviour where no deadline expires and the connection stands.
LEMMA CalmHolds ==
    ASSUME ~SharedClose, ~Deadlines, ~Faults
    PROVE Spec => [](Inv /\ FinInv /\ CalmInv)
<1>1. Init => FinInv /\ CalmInv
  <2> SUFFICES ASSUME Init PROVE FinInv /\ CalmInv
    OBVIOUS
  <2>1. \A e \in Side : wire[e] = <<>> /\ loop[e] = "reading" /\ open[e]
    BY DEF Init
  <2>2. FinInv
    <3>1. \A e \in Side : DOMAIN wire[e] = {}
      BY <2>1
    <3>2. QED
      BY <3>1, Zenon DEF FinInv, FinsAreFinal, FinIsLast
  <2>3. Calm /\ OnlySynsUnmapped
    BY <2>1 DEF Init, Calm, OnlySynsUnmapped
  <2>4. \A e \in Side, t \in MsgType, d \in Dials : ~On(e, t, d)
    BY <2>1 DEF On
  <2>5. Ways
    BY <2>4 DEF Ways, Side, MsgType
  <2>6. wire["client"] = <<>> /\ \A d \in Dials : ~Refused(d) /\ ~Asked(d)
    BY <2>1, <2>4 DEF Init, Refused, Asked, Side, MsgType
  <2>7. Dialled
    <3>1. DOMAIN wire["client"] = {}
      BY <2>6
    <3>2. \A d \in Dials : dial[d].pc = "idle" /\ ~On("client", "RESULT", d)
      BY <2>4 DEF Init, Side, MsgType
    <3>3. QED
      BY <2>6, <3>1, <3>2 DEF Dialled
  <2>8. Handlers
    BY DEF Init, Handlers
  <2>9. Mapped
    BY DEF Init, Mapped
  <2>10. \A c \in Conn : /\ user[c].w = "idle" /\ user[c].r = "fill" /\ user[c].rn = 0
                         /\ conn[c].status = "UNKNOWN" /\ conn[c].rqueue = <<>>
                         /\ conn[c].r_rest = 0 /\ ~conn[c].closed
    BY DEF Init, NewConn
  <2>11. TalkOpen
    BY <2>4, <2>10 DEF TalkOpen, MsgType
  <2>12. Closes
    BY <2>10 DEF Closes
  <2>13. QED
    BY <2>2, <2>3, <2>5, <2>7, <2>8, <2>9, <2>11, <2>12 DEF CalmInv
<1>2. Inv /\ FinInv /\ CalmInv /\ [Next]_vars => FinInv' /\ CalmInv'
  BY CalmStep, FinStep, TypeStep, MovesOnly DEF Inv
<1>3. QED
  BY <1>1, <1>2, InvHolds, PTL DEF Spec

\* As long as no deadline expires and the connection stands, every frame finds its
\* Conn: a Conn is unmapped neither before the last frame of its peer has come nor,
\* when it was refused, before the RESULT (client.go:107, server.go:136-139), and
\* no data comes to a queue that is closed (conn.go:420).
THEOREM FramesArrive ==
    ASSUME ~SharedClose, ~Deadlines, ~Faults
    PROVE Spec => []FramesFindTheirConn
<1>1. ASSUME Inv, CalmInv PROVE FramesFindTheirConn
  <2> SUFFICES ASSUME NEW e \in Side, loop[e] = "mapped", Held(e).type = "DATA",
                      conn[<<e, Held(e).id>>].closed
               PROVE FALSE
    BY <1>1 DEF FramesFindTheirConn, CalmInv, OnlySynsUnmapped
  <2>1. wire[e] \in Seq(Frame) /\ wire[e] # <<>>
    BY <1>1 DEF Inv, TypeOK
  <2>2. 1 \in DOMAIN wire[e] /\ wire[e][1] = Held(e) /\ Held(e).id \in Dials
    <3>1. 1 \in DOMAIN wire[e] /\ wire[e][1] = Held(e)
      BY <2>1 DEF Held
    <3>2. QED
      BY <2>1, <3>1, FrameConn, Zenon
  <2>3. PICK d \in Dials : d = Held(e).id
    BY <2>2
  <2>4. On(e, "DATA", d)
    BY <2>2, <2>3 DEF On
  <2>5. <<e, d>> \in Conn /\ <<e, d>>[1] = e /\ <<e, d>>[2] = d /\ conn[<<e, d>>].closed
    BY <2>3 DEF Conn
  <2>6. QED
    BY <1>1, <2>4, <2>5 DEF CalmInv, Closes, MsgType
<1>2. QED
  BY <1>1, CalmHolds, PTL

\* Under the same conditions a reader that gets io.EOF has read everything: the queue
\* is closed only by the FIN that follows the peer's last data (conn.go:180, 355).
THEOREM EOFIsTheEnd ==
    ASSUME ~SharedClose, ~Deadlines, ~Faults
    PROVE Spec => []EOFMeansAll
<1>1. ASSUME Inv, CalmInv PROVE EOFMeansAll
  <2> SUFFICES ASSUME NEW c \in Conn, user[c].r = "end"
               PROVE /\ conn[c].rqueue = <<>> /\ conn[c].r_rest = 0
                     /\ \A i \in DOMAIN wire[c[1]] :
                           wire[c[1]][i].id = c[2] => wire[c[1]][i].type # "DATA"
                     /\ conn[Twin(c)].status \in {"FIN_SENT", "UNKNOWN"} /\ user[Twin(c)].w = "idle"
    BY DEF EOFMeansAll
  <2>1. conn[c].closed /\ conn[c].rqueue = <<>> /\ conn[c].r_rest = 0
    BY <1>1 DEF CalmInv, Closes
  <2>2. HasSentFin(Twin(c)) /\ ~On(c[1], "DATA", c[2])
    BY <1>1, <2>1 DEF CalmInv, Closes, MsgType
  <2>3. QED
    BY <2>1, <2>2 DEF HasSentFin, On
<1>2. QED
  BY <1>1, CalmHolds, PTL

\* And no stream ends the tunnel, whatever is dialled, refused, written and closed
\* on it: Loop never ends (fabric.go:193-199).
THEOREM TunnelSurvives ==
    ASSUME ~SharedClose, ~Deadlines, ~Faults
    PROVE Spec => LoopSurvives
<1>1. ASSUME Inv, FinInv, CalmInv, [Next]_vars
      PROVE [\A e \in Side : loop'[e] = "exited" /\ loop[e] # "exited" => ~link]_vars
  <2>1. Calm'
    BY <1>1, CalmStep DEF CalmInv
  <2>2. QED
    BY <2>1 DEF Calm
<1>2. QED
  BY <1>1, CalmHolds, PTL DEF Spec, LoopSurvives
=============================================================================
