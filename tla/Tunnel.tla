------------------------------- MODULE Tunnel -------------------------------
(***************************************************************************)
(* Streams multiplexed over one connection (tunnel/conn.go, fabric.go,     *)
(* client.go, server.go, srv_proxy.go).  The two sides of the tunnel are a *)
(* Fabric each, with a map "weaves" from stream ids to Conns and one       *)
(* goroutine in Loop that reads frames and hands them to the Conn of their *)
(* id or, when the id is not mapped, to the default fiber.                 *)
(*                                                                         *)
(* Every Dial of the client makes one Conn there and, when its SYN is      *)
(* accepted, one Conn on the server, so a Conn is named by a side and a    *)
(* dial.  The dial also stands for the stream id: ids are not reused within*)
(* a behaviour (PutIntoNextId cycles through 2^15 of them).                *)
(*                                                                         *)
(* One step is what a goroutine does while it holds c.lock, plock or the   *)
(* queue's lock.  Fabric.SendFrame is part of the step that calls it: the  *)
(* connection takes any number of frames (the blocking of a full one is    *)
(* not modelled here).                                                     *)
(***************************************************************************)
EXTENDS Integers, Sequences, FiniteSets

CONSTANTS Dials,        \* the calls of Client.Dial
          WINDOWSIZE,   \* bytes a side may have sent and not seen renewed
          Slices,       \* sizes of the slices that Write cuts
          BUFSIZE,      \* size of the buffer given to Read
          MaxWrites,    \* bound: slices written on each Conn
          Deadlines,    \* do the 20 s and 30 s deadlines expire?
          Faults,       \* may the connection break or be cut off?
          SharedClose   \* may a goroutine close a Conn that another one is
                        \* writing to?  Never in CopyLink, which closes the
                        \* Conn in the goroutine that writes to it;
                        \* net/http's Transport does.

ASSUME TunnelAssumption ==
    /\ WINDOWSIZE \in Nat
    /\ Slices \subseteq Nat \ {0}
    /\ BUFSIZE \in Nat \ {0}
    /\ MaxWrites \in Nat
    /\ Deadlines \in BOOLEAN
    /\ Faults \in BOOLEAN
    /\ SharedClose \in BOOLEAN

ERR_NONE == 0
ERR_CONNFAILED == 3
ERR_TIMEOUT == 4
ERR_UNKNOWN_PROTOCOL == 6

Side == {"client", "server"}
Peer(e) == IF e = "client" THEN "server" ELSE "client"
Conn == Side \X Dials
Twin(c) == <<Peer(c[1]), c[2]>>

Status == {"UNKNOWN", "SYN_RECV", "SYN_SENT", "EST", "FIN_RECV", "FIN_SENT"}
MsgType == {"RESULT", "DATA", "SYN", "WND", "FIN"}

\* A frame: arg is the errno of RESULT and the number of bytes of DATA and WND.
\* AUTH only travels before the fabrics exist, and nothing sends an RST.
Frame == [type : MsgType, id : Dials, arg : Nat]
MkFrame(t, c, x) == [type |-> t, id |-> c[2], arg |-> x]

VARIABLES
    conn,     \* the fields of each Conn and of its rqueue
    user,     \* the goroutines in Read and Write of each Conn
    reset,    \* the goroutines that run Reset: closing timer, Fabric.Close
    dial,     \* the goroutine in Client.Dial: where it is, errno it received
    handler,  \* the goroutine in TcpProxy.Handle
    weaves,   \* per side, the mapped ids
    wire,     \* per side, the frames sent to it and not yet handled; the
              \* first one is in Loop's hands while Loop dispatches
    loop,     \* per side, where Loop is
    open,     \* per side, Fabric.Close has not been called
    link      \* the connection works

vars == <<conn, user, reset, dial, handler, weaves, wire, loop, open, link>>
fabricVars == <<loop, open, link>>

Min2(a, b) == IF a <= b THEN a ELSE b
-----------------------------------------------------------------------------
NewConn == [status |-> "UNKNOWN", window |-> WINDOWSIZE, t_closing |-> "nil",
            r_rest |-> 0, rqueue |-> <<>>, closed |-> FALSE]

\* NewClient and NewTunnelServer on the two ends of an authenticated connection.
Init ==
    /\ conn = [c \in Conn |-> NewConn]
    /\ user = [c \in Conn |-> [w |-> "idle", wn |-> 0, left |-> MaxWrites,
                               r |-> "fill", rn |-> 0]]
    /\ reset = [c \in Conn |-> [timer |-> "off", fabric |-> "off"]]
    /\ dial = [d \in Dials |-> [pc |-> "idle", errno |-> ERR_NONE]]
    /\ handler = [d \in Dials |-> "none"]
    /\ weaves = [e \in Side |-> {}]
    /\ wire = [e \in Side |-> <<>>]
    /\ loop = [e \in Side |-> "reading"]
    /\ open = [e \in Side |-> TRUE]
    /\ link = TRUE

\* Fabric.SendFrame: the write succeeds while this side has not closed the
\* connection; on one that is broken the frame gets nowhere, or the write fails.
SendOK(e, f) ==
    /\ open[e]
    /\ wire' = IF link THEN [wire EXCEPT ![Peer(e)] = Append(@, f)] ELSE wire

SendErr(e) ==
    /\ ~link
    /\ UNCHANGED wire

\* Conn.Final, which is Fabric.CloseFiber: an id that is not mapped is only logged.
Final(c) == weaves' = [weaves EXCEPT ![c[1]] = @ \ {c[2]}]

\* Fabric.Close: the first call starts a goroutine in Reset for every mapped Conn.
CloseFabric(e) ==
    /\ open' = [open EXCEPT ![e] = FALSE]
    /\ link' = FALSE
    /\ reset' = [c \in Conn |->
                    IF open[e] /\ c[1] = e /\ c[2] \in weaves[e]
                      THEN [reset[c] EXCEPT !.fabric = "start"]
                      ELSE reset[c]]
-----------------------------------------------------------------------------
(* Client.Dial and Conn.Connect. *)

PutIntoNextId(d) ==
    /\ dial[d].pc = "idle"
    /\ dial' = [dial EXCEPT ![d].pc = "put"]
    /\ weaves' = [weaves EXCEPT !["client"] = @ \cup {d}]
    /\ UNCHANGED <<conn, user, reset, handler, wire, fabricVars>>

\* CheckAndSetStatus(ST_UNKNOWN, ST_SYN_SENT): nothing else leaves ST_UNKNOWN.
Connect(d) ==
    LET c == <<"client", d>> IN
    /\ dial[d].pc = "put"
    /\ conn[c].status = "UNKNOWN"
    /\ conn' = [conn EXCEPT ![c].status = "SYN_SENT"]
    /\ dial' = [dial EXCEPT ![d].pc = "opened"]
    /\ UNCHANGED <<user, reset, handler, weaves, wire, fabricVars>>

SendSyn(d) ==
    LET c == <<"client", d>> IN
    /\ dial[d].pc = "opened"
    /\ \/ /\ SendOK("client", MkFrame("SYN", c, 0))
          /\ dial' = [dial EXCEPT ![d].pc = "sent"]
          /\ UNCHANGED weaves
       \/ /\ SendErr("client")
          /\ dial' = [dial EXCEPT ![d].pc = "err"]
          /\ Final(c)
    /\ UNCHANGED <<conn, user, reset, handler, fabricVars>>

\* RecvWithTimeout reaches its select: from here on ch_syn has a receiver.
AwaitResult(d) ==
    /\ dial[d].pc = "sent"
    /\ dial' = [dial EXCEPT ![d].pc = "recv"]
    /\ UNCHANGED <<conn, user, reset, handler, weaves, wire, fabricVars>>

\* Faulty variant: Connect waits for the RESULT without a deadline.
DialTimeout_Never(d) == FALSE /\ dial[d].pc = "recv" /\ UNCHANGED vars

DialTimeout(d) ==
    /\ Deadlines
    /\ dial[d].pc = "recv"
    /\ dial' = [dial EXCEPT ![d] = [pc |-> "got", errno |-> ERR_TIMEOUT]]
    /\ UNCHANGED <<conn, user, reset, handler, weaves, wire, fabricVars>>

\* Faulty variant: Connect does not look at the errno.
ConnectReturns_AnyErrno(d) ==
    /\ dial[d].pc = "got"
    /\ conn[<<"client", d>>].status = "SYN_SENT"
    /\ dial' = [dial EXCEPT ![d].pc = "nil"]
    /\ conn' = [conn EXCEPT ![<<"client", d>>].status = "EST"]
    /\ UNCHANGED <<user, reset, handler, weaves, wire, fabricVars>>

\* An errno other than ERR_NONE unmaps the Conn and leaves err = nil ("nil").
ConnectReturns(d) ==
    LET c == <<"client", d>> IN
    /\ dial[d].pc = "got"
    /\ \/ /\ dial[d].errno # ERR_NONE
          /\ dial' = [dial EXCEPT ![d].pc = "nil"]
          /\ Final(c)
          /\ UNCHANGED conn
       \/ /\ dial[d].errno = ERR_NONE
          /\ conn[c].status = "SYN_SENT"
          /\ dial' = [dial EXCEPT ![d].pc = "nil"]
          /\ conn' = [conn EXCEPT ![c].status = "EST"]
          /\ UNCHANGED weaves
       \/ /\ dial[d].errno = ERR_NONE
          /\ conn[c].status # "SYN_SENT"
          /\ dial' = [dial EXCEPT ![d].pc = "err"]
          /\ UNCHANGED <<conn, weaves>>
    /\ UNCHANGED <<user, reset, handler, wire, fabricVars>>
-----------------------------------------------------------------------------
(* TcpProxy.Handle, started by onSyn, with Conn.Accept and Conn.Deny. *)

\* The target refused: Deny sends the RESULT and only then unmaps the Conn.
Deny(d) ==
    LET c == <<"server", d>> IN
    /\ handler[d] = "dialing"
    /\ SendOK("server", MkFrame("RESULT", c, ERR_CONNFAILED)) \/ SendErr("server")
    /\ handler' = [handler EXCEPT ![d] = "denied"]
    /\ UNCHANGED <<conn, user, reset, dial, weaves, fabricVars>>

DenyReturns(d) ==
    /\ handler[d] = "denied"
    /\ handler' = [handler EXCEPT ![d] = "done"]
    /\ Final(<<"server", d>>)
    /\ UNCHANGED <<conn, user, reset, dial, wire, fabricVars>>

\* The target answered: CheckAndSetStatus(ST_SYN_RECV, ST_EST) ...
Accept(d) ==
    LET c == <<"server", d>> IN
    /\ handler[d] = "dialing"
    /\ \/ /\ conn[c].status = "SYN_RECV"
          /\ conn' = [conn EXCEPT ![c].status = "EST"]
          /\ handler' = [handler EXCEPT ![d] = "accepted"]
       \/ /\ conn[c].status # "SYN_RECV"
          /\ handler' = [handler EXCEPT ![d] = "done"]
          /\ UNCHANGED conn
    /\ UNCHANGED <<user, reset, dial, weaves, wire, fabricVars>>

\* ... then the RESULT, and CopyLink takes over the Conn.
AcceptSends(d) ==
    LET c == <<"server", d>> IN
    /\ handler[d] = "accepted"
    /\ \/ /\ SendOK("server", MkFrame("RESULT", c, ERR_NONE))
          /\ handler' = [handler EXCEPT ![d] = "open"]
       \/ /\ SendErr("server")
          /\ handler' = [handler EXCEPT ![d] = "done"]
    /\ UNCHANGED <<conn, user, reset, dial, weaves, fabricVars>>
-----------------------------------------------------------------------------
(* Fabric.Loop: read a frame and look its id up, then hand it to the fiber. *)

LoopRead(e) ==
    /\ loop[e] = "reading"
    /\ open[e]
    /\ wire[e] # <<>>
    /\ loop' = [loop EXCEPT ![e] = IF Head(wire[e]).id \in weaves[e]
                                     THEN "mapped" ELSE "default"]
    /\ UNCHANGED <<conn, user, reset, dial, handler, weaves, wire, open, link>>

\* An error of ReadFrame or of the fiber ends Loop, and Loop closes the fabric.
LoopExits(e) ==
    /\ loop' = [loop EXCEPT ![e] = "exited"]
    /\ CloseFabric(e)

LoopContinues(e) ==
    /\ loop' = [loop EXCEPT ![e] = "reading"]
    /\ UNCHANGED <<open, link>>

LoopReadErr(e) ==
    /\ loop[e] = "reading"
    /\ ~link
    /\ LoopExits(e)
    /\ UNCHANGED <<conn, user, dial, handler, weaves, wire>>

\* Loop of side e has a frame of type t for dial d, and is done with it.
Held(e) == Head(wire[e])
Dispatching(e, pc, t, d) == loop[e] = pc /\ Held(e).type = t /\ Held(e).id = d
Handled(e) == wire' = [wire EXCEPT ![e] = Tail(@)]

\* Conn.SendFrame, MSG_RESULT: a status other than ST_SYN_SENT ends Loop; the
\* errno reaches Connect only if it already waits for it, else it is dropped.
OnResult(d) ==
    /\ Dispatching("client", "mapped", "RESULT", d)
    /\ Handled("client")
    /\ \/ /\ conn[<<"client", d>>].status # "SYN_SENT"
          /\ LoopExits("client")
          /\ UNCHANGED dial
       \/ /\ conn[<<"client", d>>].status = "SYN_SENT"
          /\ dial[d].pc = "recv"
          /\ dial' = [dial EXCEPT ![d] = [pc |-> "got", errno |-> Held("client").arg]]
          /\ LoopContinues("client")
          /\ UNCHANGED reset
       \/ /\ conn[<<"client", d>>].status = "SYN_SENT"
          /\ dial[d].pc # "recv"
          /\ LoopContinues("client")
          /\ UNCHANGED <<dial, reset>>
    /\ UNCHANGED <<conn, user, handler, weaves>>

\* MSG_DATA: Push, and data for a closed queue is dropped.
OnData(c) ==
    /\ Dispatching(c[1], "mapped", "DATA", c[2])
    /\ Handled(c[1])
    /\ conn' = IF conn[c].closed
                 THEN conn
                 ELSE [conn EXCEPT ![c].rqueue = Append(@, Held(c[1]).arg)]
    /\ LoopContinues(c[1])
    /\ UNCHANGED <<user, reset, dial, handler, weaves>>

\* MSG_WND: the window grows and wev.Signal wakes the writer.
OnWnd(c) ==
    /\ Dispatching(c[1], "mapped", "WND", c[2])
    /\ Handled(c[1])
    /\ conn' = [conn EXCEPT ![c].window = @ + Held(c[1]).arg]
    /\ user' = [user EXCEPT ![c].w = IF @ = "waiting" THEN "woken" ELSE @]
    /\ LoopContinues(c[1])
    /\ UNCHANGED <<reset, dial, handler, weaves>>

\* Faulty variant: the FIN of the peer does not start the closing timer.
CloseRead_NoTimer(c) ==
    /\ conn[c].status \in {"EST", "FIN_SENT"}
    /\ conn' = [conn EXCEPT ![c].status = IF @ = "EST" THEN "FIN_RECV" ELSE "UNKNOWN",
                            ![c].t_closing = "nil", ![c].closed = TRUE]
    /\ IF conn[c].status = "EST" THEN UNCHANGED weaves ELSE Final(c)

\* Conn.closeRead: its ErrState, in ST_SYN_SENT or ST_SYN_RECV, is ignored by
\* Conn.SendFrame, and in ST_UNKNOWN it does nothing.
CloseRead(c) ==
    \/ /\ conn[c].status = "EST"
       /\ conn' = [conn EXCEPT ![c].status = "FIN_RECV", ![c].t_closing = "armed",
                               ![c].closed = TRUE]
       /\ UNCHANGED weaves
    \/ /\ conn[c].status = "FIN_SENT"
       /\ conn' = [conn EXCEPT ![c].status = "UNKNOWN", ![c].t_closing = "nil",
                               ![c].closed = TRUE]
       /\ Final(c)
    \/ /\ conn[c].status \notin {"EST", "FIN_SENT"}
       /\ UNCHANGED <<conn, weaves>>

OnFin(c) ==
    /\ Dispatching(c[1], "mapped", "FIN", c[2])
    /\ Handled(c[1])
    /\ CloseRead(c)
    /\ LoopContinues(c[1])
    /\ UNCHANGED <<user, reset, dial, handler>>

\* Client.SendFrame: an unmapped frame is logged and forgotten.
ClientDefault ==
    /\ loop["client"] = "default"
    /\ Handled("client")
    /\ LoopContinues("client")
    /\ UNCHANGED <<conn, user, reset, dial, handler, weaves>>

\* TunnelServer.SendFrame: a SYN makes a Conn, unless its network is unknown ...
OnSynAccept(d) ==
    LET c == <<"server", d>> IN
    /\ Dispatching("server", "default", "SYN", d)
    /\ Handled("server")
    /\ conn' = [conn EXCEPT ![c] = [NewConn EXCEPT !.status = "SYN_RECV"]]
    /\ weaves' = [weaves EXCEPT !["server"] = @ \cup {d}]
    /\ handler' = [handler EXCEPT ![d] = "dialing"]
    /\ LoopContinues("server")
    /\ UNCHANGED <<user, reset, dial>>

OnSynUnknown(d) ==
    LET f == MkFrame("RESULT", <<"server", d>>, ERR_UNKNOWN_PROTOCOL) IN
    /\ Dispatching("server", "default", "SYN", d)
    /\ \/ /\ open["server"]
          /\ wire' = [wire EXCEPT !["server"] = Tail(@),
                                  !["client"] = IF link THEN Append(@, f) ELSE @]
          /\ LoopContinues("server")
          /\ UNCHANGED reset
       \/ /\ ~link
          /\ Handled("server")
          /\ LoopExits("server")
    /\ UNCHANGED <<conn, user, dial, handler, weaves>>

\* ... and any other unmapped frame is ErrUnexpectedPkg, which ends Loop.
ServerUnexpected ==
    /\ loop["server"] = "default"
    /\ Held("server").type # "SYN"
    /\ Handled("server")
    /\ LoopExits("server")
    /\ UNCHANGED <<conn, user, dial, handler, weaves>>
-----------------------------------------------------------------------------
(* Conn.Reset, run by the closing timer or for Fabric.Close. *)

TimerFires(c) ==
    /\ Deadlines
    /\ conn[c].t_closing = "armed"
    /\ conn' = [conn EXCEPT ![c].t_closing = "expired"]
    /\ reset' = [reset EXCEPT ![c].timer = "start"]
    /\ UNCHANGED <<user, dial, handler, weaves, wire, fabricVars>>

\* Under c.lock the status becomes ST_UNKNOWN ...
ResetMark(c, k) ==
    /\ reset[c][k] = "start"
    /\ conn' = [conn EXCEPT ![c].status = "UNKNOWN"]
    /\ reset' = [reset EXCEPT ![c][k] = "marked"]
    /\ UNCHANGED <<user, dial, handler, weaves, wire, fabricVars>>

\* ... then, without the lock, the id is unmapped and the queue closed.
ResetFinal(c, k) ==
    /\ reset[c][k] = "marked"
    /\ Final(c)
    /\ conn' = [conn EXCEPT ![c].closed = TRUE]
    /\ reset' = [reset EXCEPT ![c][k] = "off"]
    /\ UNCHANGED <<user, dial, handler, wire, fabricVars>>

\* Pool.CutAll, called from the admin page, closes the fabric of one side.
CutOff(e) ==
    /\ Faults
    /\ open[e]
    /\ CloseFabric(e)
    /\ UNCHANGED <<conn, user, dial, handler, weaves, wire, loop>>

\* The connection under the tunnel breaks.
LinkBreaks ==
    /\ Faults
    /\ link
    /\ link' = FALSE
    /\ UNCHANGED <<conn, user, reset, dial, handler, weaves, wire, loop, open>>
-----------------------------------------------------------------------------
(* The goroutines that use a Conn once Dial or Accept has returned it. *)

Usable(c) == IF c[1] = "client" THEN dial[c[2]].pc = "nil" ELSE handler[c[2]] = "open"

\* writeSlice: ErrClosedPipe, with no effect, unless the status is ST_EST; then
\* it sends when the window allows and else waits for wev.  When SendFrame
\* fails the window keeps its value and Write returns, which changes nothing.
WriteSlice(c, n) ==
    /\ Usable(c)
    /\ user[c].w = "idle"
    /\ user[c].left > 0
    /\ conn[c].status = "EST"
    /\ \/ /\ conn[c].window - n >= 0
          /\ SendOK(c[1], MkFrame("DATA", c, n))
          /\ conn' = [conn EXCEPT ![c].window = @ - n]
          /\ user' = [user EXCEPT ![c].left = @ - 1]
       \/ /\ conn[c].window - n < 0
          /\ user' = [user EXCEPT ![c].w = "waiting", ![c].wn = n, ![c].left = @ - 1]
          /\ UNCHANGED <<conn, wire>>
    /\ UNCHANGED <<reset, dial, handler, weaves, fabricVars>>

\* Faulty variants: the window is tested with "if" instead of "for", and it is
\* not debited.
WriteResumes_NoRetest(c) ==
    /\ user[c].w = "woken"
    /\ SendOK(c[1], MkFrame("DATA", c, user[c].wn))
    /\ conn' = [conn EXCEPT ![c].window = @ - user[c].wn]
    /\ user' = [user EXCEPT ![c].w = "idle", ![c].wn = 0]
    /\ UNCHANGED <<reset, dial, handler, weaves, fabricVars>>

WriteResumes_NoDebit(c) ==
    /\ user[c].w = "woken"
    /\ conn[c].window - user[c].wn >= 0
    /\ SendOK(c[1], MkFrame("DATA", c, user[c].wn))
    /\ user' = [user EXCEPT ![c].w = "idle", ![c].wn = 0]
    /\ UNCHANGED <<conn, reset, dial, handler, weaves, fabricVars>>

\* wev.Wait returns: the window is tested again, the status is not.
WriteResumes(c) ==
    LET n == user[c].wn IN
    /\ user[c].w = "woken"
    /\ \/ /\ conn[c].window - n >= 0
          /\ SendOK(c[1], MkFrame("DATA", c, n))
          /\ conn' = [conn EXCEPT ![c].window = @ - n]
          /\ user' = [user EXCEPT ![c].w = "idle", ![c].wn = 0]
       \/ /\ conn[c].window - n >= 0
          /\ SendErr(c[1])
          /\ user' = [user EXCEPT ![c].w = "idle", ![c].wn = 0]
          /\ UNCHANGED conn
       \/ /\ conn[c].window - n < 0
          /\ user' = [user EXCEPT ![c].w = "waiting"]
          /\ UNCHANGED <<conn, wire>>
    /\ UNCHANGED <<reset, dial, handler, weaves, fabricVars>>

\* Read, one round of its loop: copy what is left of a chunk, or of the next one.
ReadCopies(c) ==
    LET fresh == conn[c].r_rest = 0
        chunk == IF fresh THEN Head(conn[c].rqueue) ELSE conn[c].r_rest
        size == Min2(chunk, BUFSIZE - user[c].rn)
    IN
    /\ Usable(c)
    /\ user[c].r = "fill"
    /\ fresh => conn[c].rqueue # <<>>
    /\ conn' = [conn EXCEPT ![c].r_rest = chunk - size,
                            ![c].rqueue = IF fresh THEN Tail(@) ELSE @]
    /\ user' = [user EXCEPT ![c].rn = @ + size,
                            ![c].r = IF user[c].rn + size = BUFSIZE THEN "renew" ELSE @]
    /\ UNCHANGED <<reset, dial, handler, weaves, wire, fabricVars>>

\* Faulty variant: Pop looks whether the queue is closed before it looks for data.
ReadDrained_ClosedFirst(c) ==
    /\ Usable(c)
    /\ user[c].r = "fill"
    /\ ~conn[c].closed => conn[c].rqueue = <<>> /\ conn[c].r_rest = 0 /\ user[c].rn > 0
    /\ user' = [user EXCEPT ![c].r = IF conn[c].closed THEN "end" ELSE "renew",
                            ![c].rn = IF conn[c].closed THEN 0 ELSE @]
    /\ UNCHANGED <<conn, reset, dial, handler, weaves, wire, fabricVars>>

\* The queue is empty: io.EOF once it is closed, else a Read that has bytes
\* stops here, and one that has none stays blocked in Pop.
ReadDrained(c) ==
    /\ Usable(c)
    /\ user[c].r = "fill"
    /\ conn[c].r_rest = 0
    /\ conn[c].rqueue = <<>>
    /\ \/ /\ conn[c].closed
          /\ user' = [user EXCEPT ![c].r = "end", ![c].rn = 0]
       \/ /\ ~conn[c].closed
          /\ user[c].rn > 0
          /\ user' = [user EXCEPT ![c].r = "renew"]
    /\ UNCHANGED <<conn, reset, dial, handler, weaves, wire, fabricVars>>

\* Faulty variants: the renewal is sent whatever the status, and it names the
\* size of the buffer instead of the bytes read.
ReadRenews_AfterFin(c) ==
    /\ user[c].r = "renew"
    /\ SendOK(c[1], MkFrame("WND", c, user[c].rn))
    /\ user' = [user EXCEPT ![c].r = "fill", ![c].rn = 0]
    /\ UNCHANGED <<conn, reset, dial, handler, weaves, fabricVars>>

ReadRenews_Buffer(c) ==
    /\ user[c].r = "renew"
    /\ conn[c].status \notin {"FIN_SENT", "UNKNOWN"}
    /\ SendOK(c[1], MkFrame("WND", c, BUFSIZE))
    /\ user' = [user EXCEPT ![c].r = "fill", ![c].rn = 0]
    /\ UNCHANGED <<conn, reset, dial, handler, weaves, fabricVars>>

\* The end of Read: renew the peer's window, but not after our own FIN.
ReadRenews(c) ==
    /\ user[c].r = "renew"
    /\ \/ /\ conn[c].status \in {"FIN_SENT", "UNKNOWN"}
          /\ user' = [user EXCEPT ![c].r = "fill", ![c].rn = 0]
          /\ UNCHANGED wire
       \/ /\ conn[c].status \notin {"FIN_SENT", "UNKNOWN"}
          /\ SendOK(c[1], MkFrame("WND", c, user[c].rn))
          /\ user' = [user EXCEPT ![c].r = "fill", ![c].rn = 0]
       \/ /\ conn[c].status \notin {"FIN_SENT", "UNKNOWN"}
          /\ SendErr(c[1])
          /\ user' = [user EXCEPT ![c].r = "end", ![c].rn = 0]
    /\ UNCHANGED <<conn, reset, dial, handler, weaves, fabricVars>>

\* Close, which is closeWrite: in ST_UNKNOWN it does nothing, in ST_FIN_SENT
\* and the ST_SYN states it returns ErrState.  An error of SendFrame is logged.
CloseWrite(c) ==
    /\ Usable(c)
    /\ SharedClose \/ user[c].w = "idle"
    /\ \/ /\ conn[c].status = "EST"
          /\ conn' = [conn EXCEPT ![c].status = "FIN_SENT", ![c].t_closing = "armed"]
          /\ UNCHANGED weaves
       \/ /\ conn[c].status = "FIN_RECV"
          /\ conn' = [conn EXCEPT ![c].status = "UNKNOWN", ![c].t_closing = "nil"]
          /\ Final(c)
    /\ SendOK(c[1], MkFrame("FIN", c, 0)) \/ SendErr(c[1])
    /\ UNCHANGED <<user, reset, dial, handler, fabricVars>>
-----------------------------------------------------------------------------
DialStep(d) == SendSyn(d) \/ AwaitResult(d) \/ DialTimeout(d) \/ ConnectReturns(d)
HandlerStep(d) == Deny(d) \/ DenyReturns(d) \/ Accept(d) \/ AcceptSends(d)

LoopStep(e) ==
    \/ LoopRead(e)
    \/ LoopReadErr(e)
    \/ \E d \in Dials : OnData(<<e, d>>) \/ OnWnd(<<e, d>>) \/ OnFin(<<e, d>>)
    \/ e = "client" /\ (ClientDefault \/ \E d \in Dials : OnResult(d))
    \/ e = "server" /\ ServerUnexpected
    \/ e = "server" /\ \E d \in Dials : OnSynAccept(d) \/ OnSynUnknown(d)

ResetStep(c, k) == ResetMark(c, k) \/ ResetFinal(c, k)
ReadStep(c) == ReadCopies(c) \/ ReadDrained(c) \/ ReadRenews(c)

Next ==
    \/ \E d \in Dials : PutIntoNextId(d) \/ Connect(d) \/ DialStep(d) \/ HandlerStep(d)
    \/ \E e \in Side : LoopStep(e) \/ CutOff(e)
    \/ LinkBreaks
    \/ \E c \in Conn :
          \/ TimerFires(c)
          \/ \E k \in {"timer", "fabric"} : ResetStep(c, k)
          \/ \E n \in Slices : WriteSlice(c, n)
          \/ WriteResumes(c)
          \/ ReadStep(c)
          \/ CloseWrite(c)

Spec == Init /\ [][Next]_vars

\* Goroutines that can run do run, armed timers fire, the target of a stream
\* answers or refuses, and whoever holds a Conn keeps reading from it.  Nobody
\* has to dial, to write or to close, and nothing has to break.
Fairness ==
    /\ \A d \in Dials : WF_vars(Connect(d)) /\ WF_vars(DialStep(d)) /\ WF_vars(HandlerStep(d))
    /\ \A e \in Side : WF_vars(LoopStep(e))
    /\ \A c \in Conn : /\ WF_vars(TimerFires(c))
                       /\ \A k \in {"timer", "fabric"} : WF_vars(ResetStep(c, k))
                       /\ WF_vars(WriteResumes(c))
                       /\ WF_vars(ReadStep(c))

FairSpec == Spec /\ Fairness
-----------------------------------------------------------------------------
ConnType == [status : Status, window : Nat, t_closing : {"nil", "armed", "expired"},
             r_rest : Nat, rqueue : Seq(Nat), closed : BOOLEAN]
UserType == [w : {"idle", "waiting", "woken"}, wn : Nat, left : Nat,
             r : {"fill", "renew", "end"}, rn : Nat]
ResetPC == {"off", "start", "marked"}
DialPC == {"idle", "put", "opened", "sent", "recv", "got", "nil", "err"}
HandlerPC == {"none", "dialing", "denied", "accepted", "open", "done"}

\* The types of the state.  A window is never negative (conn.go:264), Loop holds
\* a frame exactly while it dispatches one, and a closed fabric has no connection.
TypeOK ==
    /\ conn \in [Conn -> ConnType]
    /\ user \in [Conn -> UserType]
    /\ \A c \in Conn : user[c].rn <= BUFSIZE
    /\ reset \in [Conn -> [timer : ResetPC, fabric : ResetPC]]
    /\ dial \in [Dials -> [pc : DialPC, errno : Nat]]
    /\ handler \in [Dials -> HandlerPC]
    /\ weaves \in [Side -> SUBSET Dials]
    /\ wire \in [Side -> Seq(Frame)]
    /\ loop \in [Side -> {"reading", "mapped", "default", "exited"}]
    /\ \A e \in Side : loop[e] \in {"mapped", "default"} => wire[e] # <<>>
    /\ open \in [Side -> BOOLEAN]
    /\ link \in BOOLEAN
    /\ \A e \in Side : ~open[e] => ~link

\* A Conn that is half closed has its 30 s deadline: closeWrite and closeRead
\* stop t_closing without looking whether there is one (conn.go:316, 346).
ClosingHasDeadline ==
    \A c \in Conn : conn[c].status \in {"FIN_SENT", "FIN_RECV"} => conn[c].t_closing # "nil"

\* The client's side of a stream is established only after the server's side was
\* and the target was reached (conn.go:130, 135), whatever timeouts and resets
\* came between the RESULT and the end of Connect.
EstAgreed ==
    \A d \in Dials : conn[<<"client", d>>].status \in {"EST", "FIN_SENT", "FIN_RECV"}
                        => handler[d] = "open"

\* FIN is the last frame that a Conn sends: no DATA, WND or RESULT follows it to
\* the peer, which may have unmapped the id by then (conn.go:210).
FinIsLast ==
    \A e \in Side : \A i, j \in DOMAIN wire[e] :
        i < j /\ wire[e][i].id = wire[e][j].id => wire[e][i].type # "FIN"

\* A frame other than a SYN finds its Conn: neither the client logs an unmapped
\* frame (client.go:107) nor the server ends the whole tunnel for one
\* (server.go:136-139), and no data arrives at a closed queue (conn.go:420).
FramesFindTheirConn ==
    \A e \in Side :
        /\ loop[e] = "default" => e = "server" /\ Held(e).type = "SYN"
        /\ loop[e] = "mapped" /\ Held(e).type = "DATA" => ~conn[<<e, Held(e).id>>].closed

\* io.EOF means that the peer has said everything: a reader that got it has read
\* all that its peer wrote, nothing is on the way, and the peer cannot write any
\* more (conn.go:180, 320-327, 355).
EOFMeansAll ==
    \A c \in Conn : user[c].r = "end" =>
        /\ conn[c].rqueue = <<>> /\ conn[c].r_rest = 0
        /\ \A i \in DOMAIN wire[c[1]] : wire[c[1]][i].id = c[2] => wire[c[1]][i].type # "DATA"
        /\ conn[Twin(c)].status \in {"FIN_SENT", "UNKNOWN"} /\ user[Twin(c)].w = "idle"

\* One stream never takes the tunnel down: Loop ends only when the connection
\* under it is broken or was closed (fabric.go:193-199).
LoopSurvives == [][\A e \in Side : loop'[e] = "exited" /\ loop[e] # "exited" => ~link]_vars

\* Dial returns: the RESULT or the 20 s deadline ends Connect, also when the
\* RESULT came too early and was dropped (conn.go:117, 409-412).
DialReturns == \A d \in Dials : dial[d].pc = "put" ~> dial[d].pc \in {"nil", "err"}

\* "There should always have a deadline which the connection can surely been
\* closed" (conn.go:305): a half closed Conn is unmapped and its reader released
\* even if the peer never answers the FIN or the tunnel breaks meanwhile.
HalfClosedEnds ==
    \A c \in Conn : conn[c].status \in {"FIN_SENT", "FIN_RECV"}
                        ~> c[2] \notin weaves[c[1]] /\ conn[c].closed
-----------------------------------------------------------------------------
(* What comments, tests and documents of the program say, and the code does    *)
(* not keep.                                                                  *)

\* Callers of Dial tell a failed connection by its error (tunnel_test.go:62,
\* httproxy.go:116): Dial returns a nil error only for a stream that the server
\* has accepted.
DialErrorReported == \A d \in Dials : dial[d].pc = "nil" => dial[d].errno = ERR_NONE

\* The streams of a broken tunnel break with it (README.md:296): a goroutine that
\* is blocked in Write when the tunnel breaks returns.
WritersBreakWithTunnel ==
    \A c \in Conn : ~link /\ user[c].w # "idle" ~> user[c].w = "idle"
=============================================================================
