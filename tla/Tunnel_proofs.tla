---------------------------- MODULE Tunnel_proofs ----------------------------
(***************************************************************************)
(* Safety of module Tunnel, proved for any number of dials and any sizes:  *)
(* the types; how streams open and close (ClosingHasDeadline, EstAgreed);  *)
(* and, when only the writing goroutine closes a Conn, FinIsLast.          *)
(*                                                                         *)
(* The types first: one lemma for each way in which the code assigns to    *)
(* the state, then one for each group of actions.  For the rest the Moves  *)
(* say what one step of the program can do to one dial, one handler, one   *)
(* Conn or one wire; the lemma MovesOnly shows that they are all there is, *)
(* and the invariants are then proved from the Moves.                      *)
(***************************************************************************)
EXTENDS Tunnel, TLAPS

\* A frame is appended.
LEMMA Appended ==
    ASSUME NEW S, NEW q \in Seq(S), NEW x \in S
    PROVE  Append(q, x) \in Seq(S) /\ Append(q, x) # <<>>
<1>1. Append(q, x) \in Seq(S) /\ Len(Append(q, x)) = Len(q) + 1
    OBVIOUS
<1>2. Len(q) \in Nat
    OBVIOUS
<1> QED
    BY <1>1, <1>2

\* The assignments to the fields of a Conn keep its type; one lemma for each
\* combination of fields that the code assigns under the lock.
LEMMA ConnStatus ==
    ASSUME conn \in [Conn -> ConnType], NEW c \in Conn, NEW s \in Status,
           conn' = [conn EXCEPT ![c].status = s]
    PROVE conn' \in [Conn -> ConnType]
<1>1. PICK r \in ConnType : r = conn[c]
  OBVIOUS
<1>2. [r EXCEPT !.status = s] \in ConnType
  BY Zenon DEF ConnType
<1>3. conn' = [conn EXCEPT ![c] = [r EXCEPT !.status = s]]
  BY <1>1 DEF ConnType
<1>4. QED
  BY <1>2, <1>3, Zenon

\* The window after a slice was sent or a WND came in.
LEMMA ConnWindow ==
    ASSUME conn \in [Conn -> ConnType], NEW c \in Conn, NEW n \in Nat,
           conn' = [conn EXCEPT ![c].window = n]
    PROVE conn' \in [Conn -> ConnType]
<1>1. PICK r \in ConnType : r = conn[c]
  OBVIOUS
<1>2. [r EXCEPT !.window = n] \in ConnType
  BY Zenon DEF ConnType
<1>3. conn' = [conn EXCEPT ![c] = [r EXCEPT !.window = n]]
  BY <1>1 DEF ConnType
<1>4. QED
  BY <1>2, <1>3, Zenon

\* The closing timer fires.
LEMMA ConnTimer ==
    ASSUME conn \in [Conn -> ConnType], NEW c \in Conn, NEW t \in {"nil", "armed", "expired"},
           conn' = [conn EXCEPT ![c].t_closing = t]
    PROVE conn' \in [Conn -> ConnType]
<1>1. PICK r \in ConnType : r = conn[c]
  OBVIOUS
<1>2. [r EXCEPT !.t_closing = t] \in ConnType
  BY Zenon DEF ConnType
<1>3. conn' = [conn EXCEPT ![c] = [r EXCEPT !.t_closing = t]]
  BY <1>1 DEF ConnType
<1>4. QED
  BY <1>2, <1>3, Zenon

\* MSG_DATA pushes onto the queue.
LEMMA ConnQueue ==
    ASSUME conn \in [Conn -> ConnType], NEW c \in Conn, NEW q \in Seq(Nat),
           conn' = [conn EXCEPT ![c].rqueue = q]
    PROVE conn' \in [Conn -> ConnType]
<1>1. PICK r \in ConnType : r = conn[c]
  OBVIOUS
<1>2. [r EXCEPT !.rqueue = q] \in ConnType
  BY Zenon DEF ConnType
<1>3. conn' = [conn EXCEPT ![c] = [r EXCEPT !.rqueue = q]]
  BY <1>1 DEF ConnType
<1>4. QED
  BY <1>2, <1>3, Zenon

\* Reset closes the queue.
LEMMA ConnClosed ==
    ASSUME conn \in [Conn -> ConnType], NEW c \in Conn, conn' = [conn EXCEPT ![c].closed = TRUE]
    PROVE conn' \in [Conn -> ConnType]
<1>1. PICK r \in ConnType : r = conn[c]
  OBVIOUS
<1>2. [r EXCEPT !.closed = TRUE] \in ConnType
  BY Zenon DEF ConnType
<1>3. conn' = [conn EXCEPT ![c] = [r EXCEPT !.closed = TRUE]]
  BY <1>1 DEF ConnType
<1>4. QED
  BY <1>2, <1>3, Zenon

\* closeWrite sets the status and arms or clears the timer.
LEMMA ConnClosing ==
    ASSUME conn \in [Conn -> ConnType], NEW c \in Conn, NEW s \in Status, NEW t \in {"nil", "armed", "expired"},
           conn' = [conn EXCEPT ![c].status = s, ![c].t_closing = t]
    PROVE conn' \in [Conn -> ConnType]
<1>1. PICK r \in ConnType : r = conn[c]
  OBVIOUS
<1>2. [r EXCEPT !.status = s, !.t_closing = t] \in ConnType
  BY Zenon DEF ConnType
<1>3. conn' = [conn EXCEPT ![c] = [r EXCEPT !.status = s, !.t_closing = t]]
  BY <1>1, Zenon DEF ConnType
<1>4. QED
  BY <1>2, <1>3, Zenon

\* closeRead closes the queue as well.
LEMMA ConnEnded ==
    ASSUME conn \in [Conn -> ConnType], NEW c \in Conn, NEW s \in Status, NEW t \in {"nil", "armed", "expired"},
           conn' = [conn EXCEPT ![c].status = s, ![c].t_closing = t, ![c].closed = TRUE]
    PROVE conn' \in [Conn -> ConnType]
<1>1. PICK r \in ConnType : r = conn[c]
  OBVIOUS
<1>2. [r EXCEPT !.status = s, !.t_closing = t, !.closed = TRUE] \in ConnType
  BY Zenon DEF ConnType
<1>3. conn' = [conn EXCEPT ![c] = [r EXCEPT !.status = s, !.t_closing = t, !.closed = TRUE]]
  BY <1>1, Zenon DEF ConnType
<1>4. QED
  BY <1>2, <1>3, Zenon

\* Read takes a chunk, or a part of one.
LEMMA ConnRead ==
    ASSUME conn \in [Conn -> ConnType], NEW c \in Conn, NEW n \in Nat, NEW q \in Seq(Nat),
           conn' = [conn EXCEPT ![c].r_rest = n, ![c].rqueue = q]
    PROVE conn' \in [Conn -> ConnType]
<1>1. PICK r \in ConnType : r = conn[c]
  OBVIOUS
<1>2. [r EXCEPT !.r_rest = n, !.rqueue = q] \in ConnType
  BY Zenon DEF ConnType
<1>3. conn' = [conn EXCEPT ![c] = [r EXCEPT !.r_rest = n, !.rqueue = q]]
  BY <1>1, Zenon DEF ConnType
<1>4. QED
  BY <1>2, <1>3, Zenon

\* The same for the goroutines in Read and Write; only Read changes rn.
LEMMA UserW ==
    ASSUME user \in [Conn -> UserType], \A x \in Conn : user[x].rn <= BUFSIZE, NEW c \in Conn,
           NEW s \in {"idle", "waiting", "woken"},
           user' = [user EXCEPT ![c].w = s]
    PROVE user' \in [Conn -> UserType] /\ \A x \in Conn : user'[x].rn <= BUFSIZE
<1>1. PICK r \in UserType : r = user[c] /\ r.rn <= BUFSIZE
  OBVIOUS
<1>2. [r EXCEPT !.w = s] \in UserType /\ [r EXCEPT !.w = s].rn = r.rn
  BY DEF UserType
<1>3. user' = [user EXCEPT ![c] = [r EXCEPT !.w = s]]
  BY <1>1 DEF UserType
<1>4. [r EXCEPT !.w = s].rn <= BUFSIZE
  BY <1>1, <1>2
<1>5. QED
  BY <1>2, <1>3, <1>4, Zenon

\* writeSlice goes to wait for the window, or returns.
LEMMA UserWait ==
    ASSUME user \in [Conn -> UserType], \A x \in Conn : user[x].rn <= BUFSIZE, NEW c \in Conn,
           NEW s \in {"idle", "waiting", "woken"}, NEW n \in Nat,
           user' = [user EXCEPT ![c].w = s, ![c].wn = n]
    PROVE user' \in [Conn -> UserType] /\ \A x \in Conn : user'[x].rn <= BUFSIZE
<1>1. PICK r \in UserType : r = user[c] /\ r.rn <= BUFSIZE
  OBVIOUS
<1>2. [r EXCEPT !.w = s, !.wn = n] \in UserType /\ [r EXCEPT !.w = s, !.wn = n].rn = r.rn
  BY Zenon DEF UserType
<1>3. user' = [user EXCEPT ![c] = [r EXCEPT !.w = s, !.wn = n]]
  BY <1>1, Zenon DEF UserType
<1>4. [r EXCEPT !.w = s, !.wn = n].rn <= BUFSIZE
  BY <1>1, <1>2
<1>5. QED
  BY <1>2, <1>3, <1>4, Zenon

\* The same when the slice counts against MaxWrites.
LEMMA UserBlock ==
    ASSUME user \in [Conn -> UserType], \A x \in Conn : user[x].rn <= BUFSIZE, NEW c \in Conn,
           NEW s \in {"idle", "waiting", "woken"}, NEW n \in Nat, NEW m \in Nat,
           user' = [user EXCEPT ![c].w = s, ![c].wn = n, ![c].left = m]
    PROVE user' \in [Conn -> UserType] /\ \A x \in Conn : user'[x].rn <= BUFSIZE
<1>1. PICK r \in UserType : r = user[c] /\ r.rn <= BUFSIZE
  OBVIOUS
<1>2. [r EXCEPT !.w = s, !.wn = n, !.left = m] \in UserType /\ [r EXCEPT !.w = s, !.wn = n, !.left = m].rn = r.rn
  BY Zenon DEF UserType
<1>3. user' = [user EXCEPT ![c] = [r EXCEPT !.w = s, !.wn = n, !.left = m]]
  BY <1>1, Zenon DEF UserType
<1>4. [r EXCEPT !.w = s, !.wn = n, !.left = m].rn <= BUFSIZE
  BY <1>1, <1>2
<1>5. QED
  BY <1>2, <1>3, <1>4, ZenonT(30)

\* A slice that was sent at once.
LEMMA UserLeft ==
    ASSUME user \in [Conn -> UserType], \A x \in Conn : user[x].rn <= BUFSIZE, NEW c \in Conn,
           NEW m \in Nat,
           user' = [user EXCEPT ![c].left = m]
    PROVE user' \in [Conn -> UserType] /\ \A x \in Conn : user'[x].rn <= BUFSIZE
<1>1. PICK r \in UserType : r = user[c] /\ r.rn <= BUFSIZE
  OBVIOUS
<1>2. [r EXCEPT !.left = m] \in UserType /\ [r EXCEPT !.left = m].rn = r.rn
  BY DEF UserType
<1>3. user' = [user EXCEPT ![c] = [r EXCEPT !.left = m]]
  BY <1>1 DEF UserType
<1>4. [r EXCEPT !.left = m].rn <= BUFSIZE
  BY <1>1, <1>2
<1>5. QED
  BY <1>2, <1>3, <1>4, Zenon

\* Read has found the queue empty.
LEMMA UserR ==
    ASSUME user \in [Conn -> UserType], \A x \in Conn : user[x].rn <= BUFSIZE, NEW c \in Conn,
           NEW t \in {"fill", "renew", "end"},
           user' = [user EXCEPT ![c].r = t]
    PROVE user' \in [Conn -> UserType] /\ \A x \in Conn : user'[x].rn <= BUFSIZE
<1>1. PICK r \in UserType : r = user[c] /\ r.rn <= BUFSIZE
  OBVIOUS
<1>2. [r EXCEPT !.r = t] \in UserType /\ [r EXCEPT !.r = t].rn = r.rn
  BY DEF UserType
<1>3. user' = [user EXCEPT ![c] = [r EXCEPT !.r = t]]
  BY <1>1 DEF UserType
<1>4. [r EXCEPT !.r = t].rn <= BUFSIZE
  BY <1>1, <1>2
<1>5. QED
  BY <1>2, <1>3, <1>4, Zenon

\* Read copies at most what its buffer takes, or starts over.
LEMMA UserRn ==
    ASSUME user \in [Conn -> UserType], \A x \in Conn : user[x].rn <= BUFSIZE, NEW c \in Conn,
           NEW t \in {"fill", "renew", "end"}, NEW k \in Nat, k <= BUFSIZE,
           user' = [user EXCEPT ![c].rn = k, ![c].r = t]
    PROVE user' \in [Conn -> UserType] /\ \A x \in Conn : user'[x].rn <= BUFSIZE
<1>1. PICK r \in UserType : r = user[c] /\ r.rn <= BUFSIZE
  OBVIOUS
<1>2. [r EXCEPT !.rn = k, !.r = t] \in UserType /\ [r EXCEPT !.rn = k, !.r = t].rn = k
  BY Zenon DEF UserType
<1>3. user' = [user EXCEPT ![c] = [r EXCEPT !.rn = k, !.r = t]]
  BY <1>1, Zenon DEF UserType
<1>4. [r EXCEPT !.rn = k, !.r = t].rn <= BUFSIZE
  BY <1>1, <1>2
<1>5. QED
  BY <1>2, <1>3, <1>4, Zenon

\* The assignments to the state of a goroutine in Client.Dial.
LEMMA DialFields ==
    ASSUME dial \in [Dials -> [pc : DialPC, errno : Nat]], NEW d \in Dials,
           \/ dial' = dial
           \/ \E p \in DialPC : dial' = [dial EXCEPT ![d].pc = p]
           \/ \E p \in DialPC, n \in Nat : dial' = [dial EXCEPT ![d] = [pc |-> p, errno |-> n]]
    PROVE dial' \in [Dials -> [pc : DialPC, errno : Nat]]
  OBVIOUS

\* The two ends of a dial are Conns.
LEMMA ConnOfDial ==
    ASSUME NEW d \in Dials
    PROVE <<"client", d>> \in Conn /\ <<"server", d>> \in Conn
  BY DEF Conn, Side

\* Fabric.SendFrame appends to the wire of the peer or changes nothing.
LEMMA SendTypes ==
    ASSUME TypeOK, NEW e \in Side, NEW f \in Frame, SendOK(e, f) \/ SendErr(e)
    PROVE /\ wire' \in [Side -> Seq(Frame)]
          /\ \A s \in Side : wire[s] # <<>> => wire'[s] # <<>>
<1>1. Peer(e) \in Side
  BY DEF Peer, Side
<1>2. /\ Append(wire[Peer(e)], f) \in Seq(Frame)
      /\ Append(wire[Peer(e)], f) # <<>>
  <2>1. wire[Peer(e)] \in Seq(Frame)
    BY <1>1 DEF TypeOK
  <2>2. QED
    BY <2>1, Appended
<1>3. wire' = wire \/ wire' = [wire EXCEPT ![Peer(e)] = Append(@, f)]
  BY DEF SendOK, SendErr
<1>4. QED
  BY <1>1, <1>2, <1>3, Zenon DEF TypeOK

\* The frames that the program makes.
LEMMA FrameTypes ==
    ASSUME NEW c \in Conn, NEW t \in MsgType, NEW x \in Nat
    PROVE MkFrame(t, c, x) \in Frame
<1>1. c[2] \in Dials
  BY DEF Conn
<1>2. QED
  BY <1>1 DEF MkFrame, Frame

\* Fabric.CloseFiber only removes ids.
LEMMA FinalTypes ==
    ASSUME TypeOK, NEW c \in Conn, Final(c)
    PROVE weaves' \in [Side -> SUBSET Dials]
  BY DEF Final, TypeOK, Conn

\* Fabric.Close starts Resets and closes the connection.
LEMMA CloseTypes ==
    ASSUME TypeOK, NEW e \in Side, CloseFabric(e)
    PROVE /\ reset' \in [Conn -> [timer : ResetPC, fabric : ResetPC]]
          /\ open' \in [Side -> BOOLEAN]
          /\ link' \in BOOLEAN
          /\ \A s \in Side : ~open'[s] => ~link'
<1>1. \A c \in Conn : [reset[c] EXCEPT !.fabric = "start"] \in [timer : ResetPC, fabric : ResetPC]
  BY ZenonT(30) DEF TypeOK, ResetPC
<1>2. QED
  BY <1>1, Zenon DEF TypeOK, CloseFabric

\* Loop puts the frame that it has dispatched away, then reads again or ends.
LEMMA HandledTypes ==
    ASSUME TypeOK, NEW e \in Side, wire[e] # <<>>, Handled(e),
           loop' = [loop EXCEPT ![e] = "reading"] \/ loop' = [loop EXCEPT ![e] = "exited"]
    PROVE /\ wire' \in [Side -> Seq(Frame)]
          /\ loop' \in [Side -> {"reading", "mapped", "default", "exited"}]
          /\ \A s \in Side : loop'[s] \in {"mapped", "default"} => wire'[s] # <<>>
<1>1. Tail(wire[e]) \in Seq(Frame)
  BY DEF TypeOK
<1>2. QED
  BY <1>1, Zenon DEF TypeOK, Handled

\* The same for a Loop that reads on: the connection is as it was.
LEMMA ContinueTypes ==
    ASSUME TypeOK, NEW e \in Side, wire[e] # <<>>, Handled(e), LoopContinues(e)
    PROVE /\ wire' \in [Side -> Seq(Frame)]
          /\ loop' \in [Side -> {"reading", "mapped", "default", "exited"}]
          /\ \A s \in Side : loop'[s] \in {"mapped", "default"} => wire'[s] # <<>>
          /\ open' \in [Side -> BOOLEAN]
          /\ link' \in BOOLEAN
          /\ \A s \in Side : ~open'[s] => ~link'
<1>1. open' = open /\ link' = link /\ loop' = [loop EXCEPT ![e] = "reading"]
  BY DEF LoopContinues
<1>2. QED
  BY <1>1, HandledTypes, Zenon DEF TypeOK

\* NewConn makes a Conn.
LEMMA NewConnType == NewConn \in ConnType
<1>1. WINDOWSIZE \in Nat /\ 0 \in Nat /\ <<>> \in Seq(Nat)
  BY TunnelAssumption
<1>2. QED
  BY <1>1, Zenon DEF NewConn, ConnType, Status

\* The frame that Loop dispatches.
LEMMA HeldTypes ==
    ASSUME TypeOK, NEW e \in Side, loop[e] \in {"mapped", "default"}
    PROVE wire[e] # <<>> /\ Held(e) \in Frame
  BY DEF TypeOK, Held

\* Client.Dial and Conn.Connect keep the types.
LEMMA DialTypes == ASSUME TypeOK, NEW d \in Dials,
        \/ PutIntoNextId(d) \/ Connect(d) \/ SendSyn(d) \/ AwaitResult(d)
        \/ DialTimeout(d) \/ ConnectReturns(d)
   PROVE TypeOK'
<1> DEFINE c == <<"client", d>>
<1>0. c \in Conn /\ "client" \in Side
  BY ConnOfDial, Zenon DEF Side
<1> USE DEF TypeOK, fabricVars
<1>1. CASE PutIntoNextId(d)
  BY <1>1, Zenon DEF PutIntoNextId, DialPC
<1>2. CASE Connect(d)
  <2>1. conn' \in [Conn -> ConnType]
    BY <1>0, <1>2, ConnStatus, Zenon DEF Connect, Status
  <2>2. QED
    BY <1>2, <2>1 DEF Connect, DialPC
<1>3. CASE SendSyn(d)
  <2>1. MkFrame("SYN", c, 0) \in Frame
    BY <1>0, FrameTypes DEF MsgType
  <2>2. /\ wire' \in [Side -> Seq(Frame)]
        /\ \A s \in Side : wire[s] # <<>> => wire'[s] # <<>>
    BY <1>0, <1>3, <2>1, SendTypes DEF SendSyn
  <2>3. weaves' \in [Side -> SUBSET Dials]
    BY <1>0, <1>3, FinalTypes DEF SendSyn
  <2>4. dial' \in [Dials -> [pc : DialPC, errno : Nat]]
    <3>1. \E p \in DialPC : dial' = [dial EXCEPT ![d].pc = p]
      BY <1>3 DEF SendSyn, DialPC
    <3>2. QED
      BY <3>1, DialFields, Zenon
  <2>5. QED
    BY <1>3, <2>2, <2>3, <2>4 DEF SendSyn
<1>4. CASE AwaitResult(d)
  BY <1>4, Zenon DEF AwaitResult, DialPC
<1>5. CASE DialTimeout(d)
  <2>1. dial' \in [Dials -> [pc : DialPC, errno : Nat]]
    BY <1>5 DEF DialTimeout, DialPC, ERR_TIMEOUT
  <2>2. QED
    BY <1>5, <2>1 DEF DialTimeout
<1>6. CASE ConnectReturns(d)
  <2>1. conn' \in [Conn -> ConnType]
    <3>1. conn' = conn \/ \E s \in Status : conn' = [conn EXCEPT ![c].status = s]
      BY <1>6 DEF ConnectReturns, Status
    <3>2. QED
      BY <1>0, <3>1, ConnStatus, Zenon
  <2>2. weaves' \in [Side -> SUBSET Dials]
    BY <1>0, <1>6, FinalTypes DEF ConnectReturns
  <2>3. dial' \in [Dials -> [pc : DialPC, errno : Nat]]
    <3>1. \E p \in DialPC : dial' = [dial EXCEPT ![d].pc = p]
      BY <1>6 DEF ConnectReturns, DialPC
    <3>2. QED
      BY <3>1, DialFields, Zenon
  <2>4. QED
    BY <1>6, <2>1, <2>2, <2>3 DEF ConnectReturns
<1>7. QED
  BY <1>1, <1>2, <1>3, <1>4, <1>5, <1>6

\* TcpProxy.Handle, Conn.Accept and Conn.Deny keep the types.
LEMMA HandlerTypes == ASSUME TypeOK, NEW d \in Dials, HandlerStep(d)
   PROVE TypeOK'
<1> DEFINE c == <<"server", d>>
<1>0. c \in Conn /\ "server" \in Side
  BY ConnOfDial, Zenon DEF Side
<1>1. /\ MkFrame("RESULT", c, ERR_CONNFAILED) \in Frame
      /\ MkFrame("RESULT", c, ERR_NONE) \in Frame
  BY <1>0, FrameTypes DEF MsgType, ERR_CONNFAILED, ERR_NONE
<1> USE DEF TypeOK, fabricVars
<1>2. CASE Deny(d)
  <2>1. /\ wire' \in [Side -> Seq(Frame)]
        /\ \A s \in Side : wire[s] # <<>> => wire'[s] # <<>>
    BY <1>0, <1>1, <1>2, SendTypes DEF Deny
  <2>2. QED
    BY <1>2, <2>1 DEF Deny, HandlerPC
<1>3. CASE DenyReturns(d)
  <2>1. weaves' \in [Side -> SUBSET Dials]
    BY <1>0, <1>3, FinalTypes DEF DenyReturns
  <2>2. QED
    BY <1>3, <2>1 DEF DenyReturns, HandlerPC
<1>4. CASE Accept(d)
  <2>1. conn' \in [Conn -> ConnType]
    <3>1. conn' = conn \/ \E s \in Status : conn' = [conn EXCEPT ![c].status = s]
      BY <1>4 DEF Accept, Status
    <3>2. QED
      BY <1>0, <3>1, ConnStatus, Zenon
  <2>2. QED
    BY <1>4, <2>1, Zenon DEF Accept, HandlerPC
<1>5. CASE AcceptSends(d)
  <2>1. /\ wire' \in [Side -> Seq(Frame)]
        /\ \A s \in Side : wire[s] # <<>> => wire'[s] # <<>>
    BY <1>0, <1>1, <1>5, SendTypes DEF AcceptSends
  <2>2. QED
    BY <1>5, <2>1, Zenon DEF AcceptSends, HandlerPC
<1>6. QED
  BY <1>2, <1>3, <1>4, <1>5 DEF HandlerStep

\* Fabric.Loop and the fibers it calls keep the types.
LEMMA LoopTypes == ASSUME TypeOK, NEW e \in Side, LoopStep(e)
   PROVE TypeOK'
<1> USE DEF fabricVars
<1>1. CASE LoopRead(e)
  BY <1>1 DEF LoopRead, TypeOK
<1>2. CASE LoopReadErr(e)
  <2>1. CloseFabric(e)
    BY <1>2 DEF LoopReadErr, LoopExits
  <2>2. /\ loop' \in [Side -> {"reading", "mapped", "default", "exited"}]
        /\ \A s \in Side : loop'[s] \in {"mapped", "default"} => wire'[s] # <<>>
    BY <1>2 DEF LoopReadErr, LoopExits, TypeOK
  <2>3. QED
    BY <1>2, <2>1, <2>2, CloseTypes DEF LoopReadErr, TypeOK
<1>3. ASSUME NEW d \in Dials, OnData(<<e, d>>)
      PROVE TypeOK'
  <2> DEFINE c == <<e, d>>
  <2>1. c \in Conn /\ c[1] = e
    BY DEF Conn
  <2>2. wire[e] # <<>> /\ Held(e) \in Frame /\ Handled(e) /\ LoopContinues(e)
    BY <1>3, HeldTypes DEF OnData, Dispatching
  <2>3. conn' \in [Conn -> ConnType]
    <3>1. Append(conn[c].rqueue, Held(e).arg) \in Seq(Nat)
      <4>1. conn[c].rqueue \in Seq(Nat) /\ Held(e).arg \in Nat
        BY <2>1, <2>2 DEF TypeOK, ConnType, Frame
      <4>2. QED
        BY <4>1, Appended
    <3>2. conn' = conn \/ \E q \in Seq(Nat) : conn' = [conn EXCEPT ![c].rqueue = q]
      BY <1>3, <3>1, Zenon DEF OnData
    <3>3. QED
      BY <2>1, <3>2, ConnQueue, Zenon DEF TypeOK
  <2>4. QED
    BY <1>3, <2>2, <2>3, ContinueTypes DEF OnData, TypeOK
<1>4. ASSUME NEW d \in Dials, OnWnd(<<e, d>>)
      PROVE TypeOK'
  <2> DEFINE c == <<e, d>>
  <2>1. c \in Conn /\ c[1] = e
    BY DEF Conn
  <2>2. wire[e] # <<>> /\ Held(e) \in Frame /\ Handled(e) /\ LoopContinues(e)
    BY <1>4, HeldTypes DEF OnWnd, Dispatching
  <2>3. conn' \in [Conn -> ConnType]
    <3>1. conn[c].window + Held(e).arg \in Nat
      BY <2>1, <2>2 DEF TypeOK, ConnType, Frame
    <3>2. \E n \in Nat : conn' = [conn EXCEPT ![c].window = n]
      BY <1>4, <3>1, Zenon DEF OnWnd
    <3>3. QED
      BY <2>1, <3>2, ConnWindow, Zenon DEF TypeOK
  <2>4. user' \in [Conn -> UserType] /\ \A x \in Conn : user'[x].rn <= BUFSIZE
    <3>1. user[c].w \in {"idle", "waiting", "woken"}
      BY <2>1 DEF TypeOK, UserType
    <3>2. \E s \in {"idle", "waiting", "woken"} : user' = [user EXCEPT ![c].w = s]
      BY <1>4, <3>1, Zenon DEF OnWnd
    <3>3. QED
      BY <2>1, <3>2, UserW, Zenon DEF TypeOK
  <2>5. QED
    BY <1>4, <2>2, <2>3, <2>4, ContinueTypes, Zenon DEF OnWnd, TypeOK
<1>5. ASSUME NEW d \in Dials, OnFin(<<e, d>>)
      PROVE TypeOK'
  <2> DEFINE c == <<e, d>>
  <2>1. c \in Conn /\ c[1] = e
    BY DEF Conn
  <2>2. wire[e] # <<>> /\ Handled(e) /\ LoopContinues(e) /\ CloseRead(c)
    BY <1>5, HeldTypes DEF OnFin, Dispatching
  <2>3. conn' \in [Conn -> ConnType]
    <3>1. \/ conn' = conn
          \/ \E s \in Status, t \in {"nil", "armed", "expired"} :
                conn' = [conn EXCEPT ![c].status = s, ![c].t_closing = t, ![c].closed = TRUE]
      BY <2>2 DEF CloseRead, Status
    <3>2. QED
      BY <2>1, <3>1, ConnEnded DEF TypeOK
  <2>4. weaves' \in [Side -> SUBSET Dials]
    BY <2>1, <2>2, FinalTypes DEF CloseRead, TypeOK
  <2>5. QED
    BY <1>5, <2>2, <2>3, <2>4, ContinueTypes DEF OnFin, TypeOK
<1>6. CASE e = "client" /\ ClientDefault
  <2>1. wire[e] # <<>> /\ Handled(e) /\ LoopContinues(e)
    BY <1>6, HeldTypes DEF ClientDefault
  <2>2. QED
    BY <1>6, <2>1, ContinueTypes DEF ClientDefault, TypeOK
<1>7. ASSUME NEW d \in Dials, e = "client", OnResult(d)
      PROVE TypeOK'
  <2>1. wire[e] # <<>> /\ Held(e) \in Frame /\ Handled(e)
    BY <1>7, HeldTypes DEF OnResult, Dispatching
  <2>2. CASE LoopExits(e) /\ UNCHANGED dial
    BY <1>7, <2>1, <2>2, HandledTypes, CloseTypes, Zenon DEF OnResult, LoopExits, TypeOK
  <2>3. CASE LoopContinues(e) /\ UNCHANGED reset
    <3>1. dial' \in [Dials -> [pc : DialPC, errno : Nat]]
      <4>1. dial' = dial \/ \E p \in DialPC, n \in Nat : dial' = [dial EXCEPT ![d] = [pc |-> p, errno |-> n]]
        <5>1. Held(e).arg \in Nat
          BY <2>1 DEF Frame
        <5>2. \/ dial' = dial
              \/ dial' = [dial EXCEPT ![d] = [pc |-> "got", errno |-> Held(e).arg]]
          BY <1>7 DEF OnResult
        <5>3. QED
          BY <5>1, <5>2 DEF DialPC
      <4>2. QED
        BY <4>1, DialFields DEF TypeOK
    <3>2. QED
      BY <1>7, <2>1, <2>3, <3>1, ContinueTypes, Zenon DEF OnResult, TypeOK
  <2>4. QED
    BY <1>7, <2>2, <2>3 DEF OnResult
<1>8. CASE e = "server" /\ ServerUnexpected
  <2>1. wire[e] # <<>> /\ Handled(e) /\ LoopExits(e)
    BY <1>8, HeldTypes DEF ServerUnexpected
  <2>2. QED
    BY <1>8, <2>1, HandledTypes, CloseTypes, Zenon DEF ServerUnexpected, LoopExits, TypeOK
<1>9. ASSUME NEW d \in Dials, e = "server", OnSynAccept(d)
      PROVE TypeOK'
  <2> DEFINE c == <<"server", d>>
  <2>1. wire[e] # <<>> /\ Handled(e) /\ LoopContinues(e)
    BY <1>9, HeldTypes DEF OnSynAccept, Dispatching
  <2>2. [NewConn EXCEPT !.status = "SYN_RECV"] \in ConnType
    <3>1. NewConn \in ConnType
      BY NewConnType
    <3>2. QED
      BY <3>1 DEF ConnType, Status
  <2>3. conn' \in [Conn -> ConnType]
    BY <1>9, <2>2, Zenon DEF OnSynAccept, TypeOK
  <2>4. handler' \in [Dials -> HandlerPC] /\ weaves' \in [Side -> SUBSET Dials]
    BY <1>9 DEF OnSynAccept, TypeOK, HandlerPC
  <2>5. QED
    BY <1>9, <2>1, <2>3, <2>4, ContinueTypes DEF OnSynAccept, TypeOK
<1>10. ASSUME NEW d \in Dials, e = "server", OnSynUnknown(d)
       PROVE TypeOK'
  <2> DEFINE f == MkFrame("RESULT", <<"server", d>>, ERR_UNKNOWN_PROTOCOL)
  <2>1. wire[e] # <<>>
    BY <1>10, HeldTypes DEF OnSynUnknown, Dispatching
  <2>2. CASE Handled(e) /\ LoopExits(e)
    BY <1>10, <2>1, <2>2, HandledTypes, CloseTypes, Zenon DEF OnSynUnknown, LoopExits, TypeOK
  <2>3. CASE /\ wire' = [wire EXCEPT !["server"] = Tail(@),
                                     !["client"] = IF link THEN Append(@, f) ELSE @]
             /\ LoopContinues("server")
             /\ UNCHANGED reset
    <3>1. f \in Frame
      BY ConnOfDial, FrameTypes, Zenon DEF MsgType, ERR_UNKNOWN_PROTOCOL
    <3>2. /\ Append(wire["client"], f) \in Seq(Frame)
          /\ Append(wire["client"], f) # <<>>
      <4>1. wire["client"] \in Seq(Frame)
        BY DEF TypeOK, Side
      <4>2. QED
        BY <3>1, <4>1, Appended
    <3>3. Tail(wire["server"]) \in Seq(Frame)
      BY <1>10, <2>1 DEF TypeOK
    <3>4. wire' \in [Side -> Seq(Frame)] /\ (wire["client"] # <<>> => wire'["client"] # <<>>)
      BY <2>3, <3>2, <3>3, Zenon DEF TypeOK, Side
    <3>5. QED
      BY <1>10, <2>3, <3>4, Zenon DEF OnSynUnknown, LoopContinues, TypeOK, Side
  <2>4. QED
    BY <1>10, <2>2, <2>3 DEF OnSynUnknown
<1>11. QED
  BY <1>1, <1>2, <1>3, <1>4, <1>5, <1>6, <1>7, <1>8, <1>9, <1>10, Zenon DEF LoopStep

\* The closing timer and Conn.Reset keep the types.
LEMMA ResetTypes == ASSUME TypeOK, NEW c \in Conn, NEW k \in {"timer", "fabric"},
                           TimerFires(c) \/ ResetStep(c, k)
   PROVE TypeOK'
<1> USE DEF fabricVars
<1>1. CASE TimerFires(c)
  <2>1. conn' \in [Conn -> ConnType]
    BY <1>1, ConnTimer, Zenon DEF TimerFires, TypeOK
  <2>2. reset' \in [Conn -> [timer : ResetPC, fabric : ResetPC]]
    BY <1>1, Zenon DEF TimerFires, TypeOK, ResetPC
  <2>3. QED
    BY <1>1, <2>1, <2>2 DEF TimerFires, TypeOK
<1>2. CASE ResetMark(c, k)
  <2>1. conn' \in [Conn -> ConnType]
    BY <1>2, ConnStatus, Zenon DEF ResetMark, TypeOK, Status
  <2>2. reset' \in [Conn -> [timer : ResetPC, fabric : ResetPC]]
    BY <1>2, Zenon DEF ResetMark, TypeOK, ResetPC
  <2>3. QED
    BY <1>2, <2>1, <2>2 DEF ResetMark, TypeOK
<1>3. CASE ResetFinal(c, k)
  <2>1. conn' \in [Conn -> ConnType]
    BY <1>3, ConnClosed, Zenon DEF ResetFinal, TypeOK
  <2>2. reset' \in [Conn -> [timer : ResetPC, fabric : ResetPC]]
    BY <1>3, Zenon DEF ResetFinal, TypeOK, ResetPC
  <2>3. weaves' \in [Side -> SUBSET Dials]
    BY <1>3, FinalTypes DEF ResetFinal
  <2>4. QED
    BY <1>3, <2>1, <2>2, <2>3 DEF ResetFinal, TypeOK
<1>4. QED
  BY <1>1, <1>2, <1>3 DEF ResetStep

\* Conn.Write and Conn.Close keep the types; the test of the window before it is
\* debited keeps it natural (conn.go:264, 274).
LEMMA WriteTypes == ASSUME TypeOK, NEW c \in Conn,
                        (\E n \in Slices : WriteSlice(c, n)) \/ WriteResumes(c) \/ CloseWrite(c)
   PROVE TypeOK'
<1> USE DEF fabricVars
<1>0. c[1] \in Side /\ conn[c] \in ConnType /\ conn[c].window \in Nat /\ user[c] \in UserType
      /\ user[c].wn \in Nat /\ user[c].left \in Nat
  BY DEF Conn, TypeOK, ConnType, UserType
<1>1. ASSUME NEW n \in Slices, WriteSlice(c, n) PROVE TypeOK'
  <2>0. user[c].left > 0
    BY <1>1 DEF WriteSlice
  <2>1. n \in Nat /\ MkFrame("DATA", c, n) \in Frame
    BY TunnelAssumption, FrameTypes DEF MsgType
  <2>2. CASE /\ conn[c].window - n >= 0
             /\ SendOK(c[1], MkFrame("DATA", c, n))
             /\ conn' = [conn EXCEPT ![c].window = @ - n]
             /\ user' = [user EXCEPT ![c].left = @ - 1]
    <3>1. conn[c].window - n \in Nat /\ user[c].left - 1 \in Nat
      BY <1>0, <2>0, <2>1, <2>2
    <3>2. conn' \in [Conn -> ConnType]
      BY <2>2, <3>1, ConnWindow, Zenon DEF TypeOK
    <3>3. user' \in [Conn -> UserType] /\ \A x \in Conn : user'[x].rn <= BUFSIZE
      BY <2>2, <3>1, UserLeft, Zenon DEF TypeOK
    <3>4. QED
      BY <1>0, <1>1, <2>1, <2>2, <3>2, <3>3, SendTypes DEF WriteSlice, TypeOK
  <2>3. CASE /\ user' = [user EXCEPT ![c].w = "waiting", ![c].wn = n, ![c].left = @ - 1]
             /\ UNCHANGED <<conn, wire>>
    <3>1. user[c].left - 1 \in Nat
      BY <1>0, <2>0
    <3>2. user' = [user EXCEPT ![c].w = "waiting", ![c].wn = n, ![c].left = user[c].left - 1]
      BY <2>3 DEF TypeOK, UserType
    <3>3. user' \in [Conn -> UserType] /\ \A x \in Conn : user'[x].rn <= BUFSIZE
      BY <2>1, <3>1, <3>2, UserBlock DEF TypeOK
    <3>4. QED
      BY <1>1, <2>3, <3>3 DEF WriteSlice, TypeOK
  <2>4. QED
    BY <1>1, <2>2, <2>3 DEF WriteSlice
<1>2. CASE WriteResumes(c)
  <2> DEFINE n == user[c].wn
  <2>1. MkFrame("DATA", c, n) \in Frame
    BY <1>0, FrameTypes DEF MsgType
  <2>2. conn' \in [Conn -> ConnType]
    <3>1. CASE conn' = conn
      BY <3>1 DEF TypeOK
    <3>2. CASE conn[c].window - n >= 0 /\ conn' = [conn EXCEPT ![c].window = @ - n]
      <4>1. conn[c].window - n \in Nat
        BY <1>0, <3>2
      <4>2. QED
        BY <3>2, <4>1, ConnWindow, Zenon DEF TypeOK
    <3>3. QED
      BY <1>2, <3>1, <3>2 DEF WriteResumes
  <2>3. user' \in [Conn -> UserType] /\ \A x \in Conn : user'[x].rn <= BUFSIZE
    <3>1. \/ user' = [user EXCEPT ![c].w = "idle", ![c].wn = 0]
          \/ user' = [user EXCEPT ![c].w = "waiting"]
      BY <1>2 DEF WriteResumes
    <3>2. QED
      BY <3>1, UserW, UserWait, Zenon DEF TypeOK
  <2>4. /\ wire' \in [Side -> Seq(Frame)]
        /\ \A s \in Side : wire[s] # <<>> => wire'[s] # <<>>
    <3>1. CASE wire' = wire
      BY <3>1 DEF TypeOK
    <3>2. CASE SendOK(c[1], MkFrame("DATA", c, n)) \/ SendErr(c[1])
      BY <1>0, <2>1, <3>2, SendTypes
    <3>3. QED
      BY <1>2, <3>1, <3>2 DEF WriteResumes
  <2>5. QED
    BY <1>2, <2>2, <2>3, <2>4 DEF WriteResumes, TypeOK
<1>3. CASE CloseWrite(c)
  <2>1. MkFrame("FIN", c, 0) \in Frame
    BY FrameTypes DEF MsgType
  <2>2. conn' \in [Conn -> ConnType]
    <3>1. \E s \in Status, t \in {"nil", "armed", "expired"} :
                conn' = [conn EXCEPT ![c].status = s, ![c].t_closing = t]
      BY <1>3 DEF CloseWrite, Status
    <3>2. QED
      BY <3>1, ConnClosing DEF TypeOK
  <2>3. weaves' \in [Side -> SUBSET Dials]
    BY <1>3, FinalTypes DEF CloseWrite, TypeOK
  <2>4. /\ wire' \in [Side -> Seq(Frame)]
        /\ \A s \in Side : wire[s] # <<>> => wire'[s] # <<>>
    BY <1>0, <1>3, <2>1, SendTypes DEF CloseWrite
  <2>5. QED
    BY <1>3, <2>2, <2>3, <2>4 DEF CloseWrite, TypeOK
<1>4. QED
  BY <1>1, <1>2, <1>3

\* Conn.Read keeps the types and never fills more than its buffer.
LEMMA ReadTypes == ASSUME TypeOK, NEW c \in Conn, ReadStep(c) PROVE TypeOK'
<1> USE DEF fabricVars
<1>0. /\ c[1] \in Side /\ conn[c].r_rest \in Nat /\ conn[c].rqueue \in Seq(Nat)
      /\ user[c].rn \in Nat /\ user[c].rn <= BUFSIZE /\ BUFSIZE \in Nat
      /\ user[c].r \in {"fill", "renew", "end"}
  BY TunnelAssumption DEF Conn, TypeOK, ConnType, UserType
<1>1. CASE ReadCopies(c)
  <2> DEFINE fresh == conn[c].r_rest = 0
             chunk == IF fresh THEN Head(conn[c].rqueue) ELSE conn[c].r_rest
             size == Min2(chunk, BUFSIZE - user[c].rn)
             q == IF fresh THEN Tail(conn[c].rqueue) ELSE conn[c].rqueue
             t == IF user[c].rn + size = BUFSIZE THEN "renew" ELSE user[c].r
  <2>1. chunk \in Nat /\ q \in Seq(Nat)
    BY <1>0, <1>1 DEF ReadCopies
  <2>2. size \in Nat /\ size <= chunk /\ size <= BUFSIZE - user[c].rn
    <3> HIDE DEF chunk
    <3>1. QED
      BY <1>0, <2>1 DEF Min2
  <2>3. conn' = [conn EXCEPT ![c].r_rest = chunk - size, ![c].rqueue = q]
    BY <1>1 DEF ReadCopies, TypeOK, ConnType
  <2>4. user' = [user EXCEPT ![c].rn = user[c].rn + size, ![c].r = t]
    BY <1>1 DEF ReadCopies, TypeOK, UserType
  <2>5. chunk - size \in Nat /\ user[c].rn + size \in Nat /\ user[c].rn + size <= BUFSIZE
        /\ t \in {"fill", "renew", "end"}
    <3>1. t \in {"fill", "renew", "end"}
      BY <1>0
    <3> HIDE DEF chunk, size, t
    <3>2. PICK n \in Nat, m \in Nat, k \in Nat : n = chunk /\ m = size /\ k = user[c].rn
      BY <1>0, <2>1, <2>2, Zenon
    <3>3. m <= n /\ m <= BUFSIZE - k /\ BUFSIZE \in Nat
      BY <1>0, <2>2, <3>2
    <3>4. n - m \in Nat /\ k + m \in Nat /\ k + m <= BUFSIZE
      BY <3>3
    <3>5. QED
      BY <3>1, <3>2, <3>4
  <2> HIDE DEF chunk, size, q, t
  <2>6. conn' \in [Conn -> ConnType]
    <3>1. conn \in [Conn -> ConnType]
      BY DEF TypeOK
    <3>2. QED
      BY <2>1, <2>3, <2>5, <3>1, ConnRead, Zenon
  <2>7. user' \in [Conn -> UserType] /\ \A x \in Conn : user'[x].rn <= BUFSIZE
    <3>1. user \in [Conn -> UserType] /\ \A x \in Conn : user[x].rn <= BUFSIZE
      BY DEF TypeOK
    <3>2. QED
      BY <2>4, <2>5, <3>1, UserRn, Zenon
  <2>8. QED
    BY <1>1, <2>6, <2>7 DEF ReadCopies, TypeOK
<1>2. CASE ReadDrained(c)
  <2>1. \/ user' = [user EXCEPT ![c].r = "renew"]
        \/ user' = [user EXCEPT ![c].rn = 0, ![c].r = "end"]
    <3>1. CASE user' = [user EXCEPT ![c].r = "end", ![c].rn = 0]
      BY <3>1, Zenon DEF TypeOK, UserType
    <3>2. QED
      BY <1>2, <3>1 DEF ReadDrained
  <2>2. user' \in [Conn -> UserType] /\ \A x \in Conn : user'[x].rn <= BUFSIZE
    <3>1. CASE user' = [user EXCEPT ![c].r = "renew"]
      BY <3>1, UserR, Zenon DEF TypeOK
    <3>2. CASE user' = [user EXCEPT ![c].rn = 0, ![c].r = "end"]
      <4>1. 0 \in Nat /\ 0 <= BUFSIZE
        BY <1>0
      <4>2. QED
        BY <3>2, <4>1, UserRn DEF TypeOK
    <3>3. QED
      BY <2>1, <3>1, <3>2
  <2>3. QED
    BY <1>2, <2>2 DEF ReadDrained, TypeOK
<1>3. CASE ReadRenews(c)
  <2>1. MkFrame("WND", c, user[c].rn) \in Frame
    BY <1>0, FrameTypes DEF MsgType
  <2>2. \/ user' = [user EXCEPT ![c].rn = 0, ![c].r = "fill"]
        \/ user' = [user EXCEPT ![c].rn = 0, ![c].r = "end"]
    BY <1>3, ZenonT(30) DEF ReadRenews, TypeOK, UserType
  <2>3. user' \in [Conn -> UserType] /\ \A x \in Conn : user'[x].rn <= BUFSIZE
    <3>1. 0 \in Nat /\ 0 <= BUFSIZE
      BY <1>0
    <3>2. CASE user' = [user EXCEPT ![c].rn = 0, ![c].r = "fill"]
      BY <3>1, <3>2, UserRn DEF TypeOK
    <3>3. CASE user' = [user EXCEPT ![c].rn = 0, ![c].r = "end"]
      BY <3>1, <3>3, UserRn DEF TypeOK
    <3>4. QED
      BY <2>2, <3>2, <3>3
  <2>4. /\ wire' \in [Side -> Seq(Frame)]
        /\ \A s \in Side : wire[s] # <<>> => wire'[s] # <<>>
    <3>1. CASE wire' = wire
      BY <3>1 DEF TypeOK
    <3>2. CASE SendOK(c[1], MkFrame("WND", c, user[c].rn)) \/ SendErr(c[1])
      BY <1>0, <2>1, <3>2, SendTypes
    <3>3. QED
      BY <1>3, <3>1, <3>2 DEF ReadRenews
  <2>5. QED
    BY <1>3, <2>3, <2>4 DEF ReadRenews, TypeOK
<1>4. QED
  BY <1>1, <1>2, <1>3 DEF ReadStep

\* A broken connection and Pool.CutAll keep the types.
LEMMA FaultTypes == ASSUME TypeOK, LinkBreaks \/ \E e \in Side : CutOff(e) PROVE TypeOK'
<1>1. CASE LinkBreaks
  BY <1>1, Zenon DEF LinkBreaks, TypeOK
<1>2. ASSUME NEW e \in Side, CutOff(e) PROVE TypeOK'
  <2>1. CloseFabric(e)
    BY <1>2 DEF CutOff
  <2>2. QED
    BY <1>2, <2>1, CloseTypes DEF CutOff, TypeOK
<1>3. QED
  BY <1>1, <1>2

\* Every step of the two sides keeps the types.
LEMMA TypeStep == TypeOK /\ [Next]_vars => TypeOK'
<1> SUFFICES ASSUME TypeOK, [Next]_vars PROVE TypeOK'
  OBVIOUS
<1>1. CASE UNCHANGED vars
  BY <1>1 DEF vars, TypeOK
<1>2. CASE \E d \in Dials : PutIntoNextId(d) \/ Connect(d) \/ DialStep(d) \/ HandlerStep(d)
  BY <1>2, DialTypes, HandlerTypes DEF DialStep
<1>3. CASE \E e \in Side : LoopStep(e) \/ CutOff(e)
  BY <1>3, LoopTypes, FaultTypes
<1>4. CASE LinkBreaks
  BY <1>4, FaultTypes
<1>5. ASSUME NEW c \in Conn,
             TimerFires(c) \/ \E k \in {"timer", "fabric"} : ResetStep(c, k)
      PROVE TypeOK'
  BY <1>5, ResetTypes
<1>6. ASSUME NEW c \in Conn,
             (\E n \in Slices : WriteSlice(c, n)) \/ WriteResumes(c) \/ CloseWrite(c)
      PROVE TypeOK'
  BY <1>6, WriteTypes
<1>7. ASSUME NEW c \in Conn, ReadStep(c)
      PROVE TypeOK'
  BY <1>7, ReadTypes
<1>8. QED
  BY <1>1, <1>2, <1>3, <1>4, <1>5, <1>6, <1>7 DEF Next

\* NewClient and NewTunnelServer establish the types.
LEMMA InitTypes == Init => TypeOK
<1> SUFFICES ASSUME Init PROVE TypeOK
  OBVIOUS
<1>1. conn \in [Conn -> ConnType]
  BY NewConnType DEF Init
<1>2. user \in [Conn -> UserType] /\ \A c \in Conn : user[c].rn <= BUFSIZE
  BY TunnelAssumption DEF Init, UserType
<1>3. /\ reset \in [Conn -> [timer : ResetPC, fabric : ResetPC]]
      /\ dial \in [Dials -> [pc : DialPC, errno : Nat]]
      /\ handler \in [Dials -> HandlerPC]
  BY DEF Init, ResetPC, DialPC, HandlerPC, ERR_NONE
<1>4. /\ weaves \in [Side -> SUBSET Dials]
      /\ wire \in [Side -> Seq(Frame)]
      /\ loop \in [Side -> {"reading", "mapped", "default", "exited"}]
      /\ \A e \in Side : loop[e] \in {"mapped", "default"} => wire[e] # <<>>
  BY DEF Init
<1>5. open \in [Side -> BOOLEAN] /\ link \in BOOLEAN /\ \A e \in Side : ~open[e] => ~link
  BY DEF Init
<1>6. QED
  BY <1>1, <1>2, <1>3, <1>4, <1>5 DEF TypeOK

\* For any number of dials, any window and any slices the state has its types: a
\* window never goes below zero, Loop holds a frame exactly while it dispatches it,
\* and a fabric that was closed has no connection left.
THEOREM TypesHold == Spec => []TypeOK
  BY InitTypes, TypeStep, PTL DEF Spec
-----------------------------------------------------------------------------
\* How streams open and close.

\* Frame f is at the head of the wire of side e and this step takes it away.
Takes(e, t, d) ==
    wire[e] # <<>> /\ Held(e).type = t /\ Held(e).id = d /\ wire'[e] = Tail(wire[e])

\* Client.Dial goes through its program points in order.
DialMove(d) ==
    LET pc == dial[d].pc
        next == dial'[d].pc
    IN
    \/ dial'[d] = dial[d]
    \/ pc \in {"idle", "put"} /\ next \in {"put", "opened"}
    \/ pc = "opened" /\ next \in {"sent", "err"}
    \/ pc = "sent" /\ next = "recv"
    \/ pc = "recv" /\ next = "got" /\ dial'[d].errno = ERR_TIMEOUT
    \/ pc = "recv" /\ next = "got" /\ Takes("client", "RESULT", d) /\ dial'[d].errno = Held("client").arg
    \/ pc = "got" /\ next \in {"nil", "err"}

\* A SYN starts a handler, which then goes through its program points in order.
HandlerMove(d) ==
    \/ handler'[d] = handler[d]
    \/ Takes("server", "SYN", d) /\ handler'[d] = "dialing"
    \/ handler[d] = "dialing" /\ handler'[d] \in {"denied", "accepted", "done"}
    \/ handler[d] = "denied" /\ handler'[d] = "done"
    \/ handler[d] = "accepted" /\ handler'[d] \in {"open", "done"}

\* The changes of the status of a Conn.
StatusMove(c) ==
    LET from == conn[c].status
        to == conn'[c].status
        d == c[2]
    IN
    \/ to = from
    \/ to = "UNKNOWN"
    \/ c[1] = "client" /\ dial[d].pc = "put" /\ to = "SYN_SENT"
    \/ c[1] = "client" /\ dial[d].pc = "got" /\ dial[d].errno = ERR_NONE /\ to = "EST"
    \/ c[1] = "server" /\ Takes("server", "SYN", d) /\ to = "SYN_RECV"
    \/ c[1] = "server" /\ handler[d] = "dialing" /\ to = "EST"
    \/ from = "EST" /\ to \in {"FIN_RECV", "FIN_SENT"} /\ conn'[c].t_closing = "armed"

\* The closing timer is taken away only with the status.
TimerMove(c) ==
    \/ conn'[c].t_closing = conn[c].t_closing
    \/ conn'[c].t_closing # "nil"
    \/ conn'[c].status \notin {"FIN_SENT", "FIN_RECV"}

\* A goroutine starts to wait in writeSlice only in ST_EST.
WriterMove(c) == \/ user'[c].w = user[c].w
                 \/ user[c].w # "idle"
                 \/ conn[c].status = "EST" /\ Usable(c)

\* Conn c may send a frame of type t with argument x in this step.
Sends(c, t, x) ==
    \/ t = "SYN" /\ c[1] = "client" /\ dial[c[2]].pc = "opened" /\ dial'[c[2]].pc = "sent"
    \/ /\ t = "RESULT" /\ c[1] = "server"
       /\ \/ handler[c[2]] = "dialing" /\ handler'[c[2]] = "denied" /\ x # ERR_NONE
          \/ handler[c[2]] = "accepted" /\ handler'[c[2]] = "open" /\ x = ERR_NONE
          \/ Takes("server", "SYN", c[2]) /\ handler' = handler /\ x # ERR_NONE
    \/ t = "DATA" /\ (user[c].w # "idle" \/ (conn[c].status = "EST" /\ Usable(c)))
    \/ t = "WND" /\ conn[c].status \notin {"FIN_SENT", "UNKNOWN"} /\ user[c].r = "renew"
    \/ t = "FIN" /\ conn[c].status \in {"EST", "FIN_RECV"} /\ Usable(c)
         /\ conn'[c].status \in {"FIN_SENT", "UNKNOWN"}
         /\ (SharedClose \/ user[c].w = "idle") /\ user'[c].w = user[c].w

\* A wire loses its first frame or gets one more.
WireMove(e) ==
    \/ wire'[e] = wire[e]
    \/ wire[e] # <<>> /\ wire'[e] = Tail(wire[e])
    \/ \E c \in Conn, t \in MsgType, x \in Nat :
          e = Peer(c[1]) /\ Sends(c, t, x) /\ wire'[e] = Append(wire[e], MkFrame(t, c, x))

Moves == /\ \A d \in Dials : DialMove(d) /\ HandlerMove(d)
         /\ \A c \in Conn : StatusMove(c) /\ TimerMove(c) /\ WriterMove(c)
         /\ \A e \in Side : WireMove(e)
-----------------------------------------------------------------------------
\* A variable that a step leaves alone makes no move.
LEMMA Quiet ==
    ASSUME TypeOK
    PROVE /\ UNCHANGED dial => \A d \in Dials : DialMove(d)
          /\ UNCHANGED handler => \A d \in Dials : HandlerMove(d)
          /\ UNCHANGED conn => \A c \in Conn : StatusMove(c) /\ TimerMove(c)
          /\ UNCHANGED user => \A c \in Conn : WriterMove(c)
          /\ UNCHANGED wire => \A e \in Side : WireMove(e)
  BY DEF DialMove, HandlerMove, StatusMove, TimerMove, WriterMove, WireMove

\* Fabric.SendFrame moves the wire of the peer.
LEMMA SendMoves ==
    ASSUME TypeOK, NEW c \in Conn, NEW t \in MsgType, NEW x \in Nat, Sends(c, t, x),
           SendOK(c[1], MkFrame(t, c, x)) \/ SendErr(c[1])
    PROVE \A e \in Side : WireMove(e)
<1> DEFINE f == MkFrame(t, c, x)
<1>1. wire' = wire \/ wire' = [wire EXCEPT ![Peer(c[1])] = Append(@, f)]
  BY DEF SendOK, SendErr
<1> SUFFICES ASSUME NEW e \in Side, wire'[e] # wire[e] PROVE WireMove(e)
  BY DEF WireMove
<1>2. e = Peer(c[1]) /\ wire'[e] = Append(wire[e], f)
  BY <1>1 DEF TypeOK
<1>3. QED
  BY <1>2 DEF WireMove

\* Loop takes a frame away.
LEMMA HandledMoves ==
    ASSUME TypeOK, NEW e \in Side, loop[e] \in {"mapped", "default"}, Handled(e)
    PROVE /\ \A s \in Side : WireMove(s)
          /\ \A d \in Dials, t \in MsgType :
                Held(e).type = t /\ Held(e).id = d => Takes(e, t, d)
<1>1. wire[e] # <<>>
  BY HeldTypes
<1>2. wire' = [wire EXCEPT ![e] = Tail(@)]
  BY DEF Handled
<1>3. \A s \in Side : wire'[s] = IF s = e THEN Tail(wire[e]) ELSE wire[s]
  BY <1>2 DEF TypeOK
<1>4. QED
  BY <1>1, <1>3 DEF WireMove, Takes

\* Assignments to the queue, the window and the rest leave status and timer alone.
LEMMA DataQuiet ==
    ASSUME TypeOK, NEW c \in Conn, NEW q, NEW n,
           \/ conn' = conn
           \/ conn' = [conn EXCEPT ![c].rqueue = q]
           \/ conn' = [conn EXCEPT ![c].window = n]
           \/ conn' = [conn EXCEPT ![c].closed = n]
           \/ conn' = [conn EXCEPT ![c].r_rest = n, ![c].rqueue = q]
    PROVE \A y \in Conn : StatusMove(y) /\ TimerMove(y)
<1>1. conn \in [Conn -> ConnType]
  BY DEF TypeOK
<1>2. CASE conn' = [conn EXCEPT ![c].rqueue = q]
  BY <1>1, <1>2 DEF StatusMove, TimerMove, ConnType
<1>3. CASE conn' = [conn EXCEPT ![c].window = n]
  BY <1>1, <1>3 DEF StatusMove, TimerMove, ConnType
<1>4. CASE conn' = [conn EXCEPT ![c].closed = n]
  BY <1>1, <1>4 DEF StatusMove, TimerMove, ConnType
<1>5. CASE conn' = [conn EXCEPT ![c].r_rest = n, ![c].rqueue = q]
  BY <1>1, <1>5 DEF StatusMove, TimerMove, ConnType
<1>6. QED
  BY <1>2, <1>3, <1>4, <1>5, Quiet

\* What Client.Dial and Conn.Connect change.
LEMMA DialMoves ==
    ASSUME TypeOK, NEW x \in Dials,
           PutIntoNextId(x) \/ Connect(x) \/ DialStep(x)
    PROVE Moves
<1> DEFINE c == <<"client", x>>
<1>0. c \in Conn /\ c[1] = "client" /\ c[2] = x
  BY ConnOfDial, Zenon
<1> USE Quiet DEF fabricVars
<1>1. CASE PutIntoNextId(x)
  <2>1. \A d \in Dials : DialMove(d)
    BY <1>1 DEF PutIntoNextId, DialMove, TypeOK
  <2>2. QED
    BY <1>1, <2>1 DEF PutIntoNextId, Moves
<1>2. CASE Connect(x)
  <2>1. \A d \in Dials : DialMove(d)
    BY <1>2 DEF Connect, DialMove, TypeOK
  <2>2. \A y \in Conn : StatusMove(y) /\ TimerMove(y)
    <3>1. conn \in [Conn -> ConnType]
      BY DEF TypeOK
    <3>2. /\ dial[x].pc = "put" /\ conn'[c].status = "SYN_SENT"
          /\ conn'[c].t_closing = conn[c].t_closing
          /\ \A y \in Conn : y # c => conn'[y] = conn[y]
      BY <1>0, <1>2, <3>1 DEF Connect, ConnType
    <3>3. QED
      BY <1>0, <3>2, Zenon DEF StatusMove, TimerMove
  <2>3. QED
    BY <1>2, <2>1, <2>2 DEF Connect, Moves
<1>3. CASE SendSyn(x)
  <2>1. \A d \in Dials : DialMove(d)
    BY <1>3 DEF SendSyn, DialMove, TypeOK
  <2>2. CASE SendErr("client")
    BY <1>3, <2>1, <2>2 DEF SendSyn, SendErr, Moves
  <2>3. CASE SendOK("client", MkFrame("SYN", c, 0)) /\ dial' = [dial EXCEPT ![x].pc = "sent"]
    <3>1. Sends(c, "SYN", 0)
      BY <1>0, <1>3, <2>3 DEF SendSyn, Sends, TypeOK
    <3>2. \A e \in Side : WireMove(e)
      BY <1>0, <2>3, <3>1, SendMoves DEF MsgType
    <3>3. QED
      BY <1>3, <2>1, <3>2 DEF SendSyn, Moves
  <2>4. QED
    BY <1>3, <2>2, <2>3 DEF SendSyn
<1>4. CASE AwaitResult(x)
  <2>1. \A d \in Dials : DialMove(d)
    BY <1>4 DEF AwaitResult, DialMove, TypeOK
  <2>2. QED
    BY <1>4, <2>1 DEF AwaitResult, Moves
<1>5. CASE DialTimeout(x)
  <2>1. \A d \in Dials : DialMove(d)
    BY <1>5 DEF DialTimeout, DialMove, TypeOK
  <2>2. QED
    BY <1>5, <2>1 DEF DialTimeout, Moves
<1>6. CASE ConnectReturns(x)
  <2>1. \A d \in Dials : DialMove(d)
    BY <1>6 DEF ConnectReturns, DialMove, TypeOK
  <2>2. \A y \in Conn : StatusMove(y) /\ TimerMove(y)
    <3>1. CASE dial[x].errno = ERR_NONE /\ conn' = [conn EXCEPT ![c].status = "EST"]
      BY <1>0, <1>6, <3>1 DEF ConnectReturns, StatusMove, TimerMove, TypeOK, ConnType
    <3>2. QED
      BY <1>6, <3>1 DEF ConnectReturns
  <2>3. QED
    BY <1>6, <2>1, <2>2 DEF ConnectReturns, Moves
<1>7. QED
  BY <1>1, <1>2, <1>3, <1>4, <1>5, <1>6 DEF DialStep

\* What TcpProxy.Handle, Conn.Accept and Conn.Deny change.
LEMMA HandlerMoves ==
    ASSUME TypeOK, NEW x \in Dials, HandlerStep(x)
    PROVE Moves
<1> DEFINE c == <<"server", x>>
<1>0. c \in Conn /\ c[1] = "server" /\ c[2] = x
  BY ConnOfDial, Zenon
<1> USE Quiet DEF fabricVars
<1>1. CASE Deny(x)
  <2>1. \A d \in Dials : HandlerMove(d)
    BY <1>1 DEF Deny, HandlerMove, TypeOK
  <2>2. Sends(c, "RESULT", ERR_CONNFAILED)
    BY <1>0, <1>1 DEF Deny, Sends, ERR_CONNFAILED, ERR_NONE, TypeOK
  <2>3. \A e \in Side : WireMove(e)
    BY <1>0, <1>1, <2>2, SendMoves DEF Deny, MsgType, ERR_CONNFAILED
  <2>4. QED
    BY <1>1, <2>1, <2>3 DEF Deny, Moves
<1>2. CASE DenyReturns(x)
  <2>1. \A d \in Dials : HandlerMove(d)
    BY <1>2 DEF DenyReturns, HandlerMove, TypeOK
  <2>2. QED
    BY <1>2, <2>1 DEF DenyReturns, Moves
<1>3. CASE Accept(x)
  <2>1. \A d \in Dials : HandlerMove(d)
    BY <1>3 DEF Accept, HandlerMove, TypeOK
  <2>2. \A y \in Conn : StatusMove(y) /\ TimerMove(y)
    <3>1. CASE conn' = [conn EXCEPT ![c].status = "EST"]
      BY <1>0, <1>3, <3>1 DEF Accept, StatusMove, TimerMove, TypeOK, ConnType
    <3>2. QED
      BY <1>3, <3>1 DEF Accept
  <2>3. QED
    BY <1>3, <2>1, <2>2 DEF Accept, Moves
<1>4. CASE AcceptSends(x)
  <2>1. \A d \in Dials : HandlerMove(d)
    BY <1>4 DEF AcceptSends, HandlerMove, TypeOK
  <2>2. CASE SendErr("server")
    BY <1>4, <2>1, <2>2 DEF AcceptSends, SendErr, Moves
  <2>3. CASE SendOK("server", MkFrame("RESULT", c, ERR_NONE)) /\ handler' = [handler EXCEPT ![x] = "open"]
    <3>1. Sends(c, "RESULT", ERR_NONE)
      BY <1>0, <1>4, <2>3 DEF AcceptSends, Sends, TypeOK
    <3>2. \A e \in Side : WireMove(e)
      BY <1>0, <2>3, <3>1, SendMoves DEF MsgType, ERR_NONE
    <3>3. QED
      BY <1>4, <2>1, <3>2 DEF AcceptSends, Moves
  <2>4. QED
    BY <1>4, <2>2, <2>3 DEF AcceptSends
<1>5. QED
  BY <1>1, <1>2, <1>3, <1>4 DEF HandlerStep

\* What Fabric.Loop and the fibers it calls change.
LEMMA LoopMoves ==
    ASSUME TypeOK, NEW e \in Side, LoopStep(e)
    PROVE Moves
<1> USE Quiet DEF fabricVars
<1>1. CASE LoopRead(e)
  BY <1>1 DEF LoopRead, Moves
<1>2. CASE LoopReadErr(e)
  BY <1>2 DEF LoopReadErr, Moves
<1>3. ASSUME NEW x \in Dials, OnData(<<e, x>>)
      PROVE Moves
  <2> DEFINE c == <<e, x>>
  <2>0. c \in Conn /\ c[1] = e
    BY DEF Conn
  <2>1. \A s \in Side : WireMove(s)
    BY <1>3, <2>0, HandledMoves DEF OnData, Dispatching
  <2>2. \A y \in Conn : StatusMove(y) /\ TimerMove(y)
    <3>1. CASE conn' = [conn EXCEPT ![c].rqueue = Append(@, Held(c[1]).arg)]
      BY <2>0, <3>1, DataQuiet, Zenon
    <3>2. QED
      BY <1>3, <3>1 DEF OnData
  <2>3. QED
    BY <1>3, <2>1, <2>2 DEF OnData, Moves
<1>4. ASSUME NEW x \in Dials, OnWnd(<<e, x>>)
      PROVE Moves
  <2> DEFINE c == <<e, x>>
  <2>0. c \in Conn /\ c[1] = e
    BY DEF Conn
  <2>1. \A s \in Side : WireMove(s)
    BY <1>4, <2>0, HandledMoves DEF OnWnd, Dispatching
  <2>2. \A y \in Conn : StatusMove(y) /\ TimerMove(y)
    BY <1>4, <2>0, DataQuiet, Zenon DEF OnWnd
  <2>3. \A y \in Conn : WriterMove(y)
    BY <1>4, <2>0, Zenon DEF OnWnd, WriterMove, TypeOK, UserType
  <2>4. QED
    BY <1>4, <2>1, <2>2, <2>3 DEF OnWnd, Moves
<1>5. ASSUME NEW x \in Dials, OnFin(<<e, x>>)
      PROVE Moves
  <2> DEFINE c == <<e, x>>
  <2>0. c \in Conn /\ c[1] = e
    BY DEF Conn
  <2>1. \A s \in Side : WireMove(s)
    BY <1>5, <2>0, HandledMoves DEF OnFin, Dispatching
  <2>2. \A y \in Conn : StatusMove(y) /\ TimerMove(y)
    <3>1. CASE /\ conn[c].status = "EST"
               /\ conn' = [conn EXCEPT ![c].status = "FIN_RECV", ![c].t_closing = "armed",
                                       ![c].closed = TRUE]
      <4>1. conn \in [Conn -> ConnType]
        BY DEF TypeOK
      <4>2. /\ conn'[c].status = "FIN_RECV" /\ conn'[c].t_closing = "armed"
            /\ \A y \in Conn : y # c => conn'[y] = conn[y]
        BY <2>0, <3>1, <4>1 DEF ConnType
      <4>3. QED
        BY <3>1, <4>2, Zenon DEF StatusMove, TimerMove
    <3>2. CASE conn' = [conn EXCEPT ![c].status = "UNKNOWN", ![c].t_closing = "nil",
                                    ![c].closed = TRUE]
      <4>1. conn \in [Conn -> ConnType]
        BY DEF TypeOK
      <4>2. conn'[c].status = "UNKNOWN" /\ \A y \in Conn : y # c => conn'[y] = conn[y]
        BY <2>0, <3>2, <4>1 DEF ConnType
      <4>3. QED
        BY <4>2, Zenon DEF StatusMove, TimerMove
    <3>3. QED
      BY <1>5, <3>1, <3>2 DEF OnFin, CloseRead
  <2>3. QED
    BY <1>5, <2>1, <2>2 DEF OnFin, Moves
<1>6. CASE e = "client" /\ ClientDefault
  <2>1. \A s \in Side : WireMove(s)
    BY <1>6, HandledMoves DEF ClientDefault
  <2>2. QED
    BY <1>6, <2>1 DEF ClientDefault, Moves
<1>7. ASSUME NEW x \in Dials, e = "client", OnResult(x)
      PROVE Moves
  <2>1. (\A s \in Side : WireMove(s)) /\ Takes("client", "RESULT", x)
    BY <1>7, HandledMoves DEF OnResult, Dispatching, MsgType
  <2>2. \A d \in Dials : DialMove(d)
    <3>1. CASE /\ dial[x].pc = "recv"
               /\ dial' = [dial EXCEPT ![x] = [pc |-> "got", errno |-> Held("client").arg]]
      BY <2>1, <3>1 DEF DialMove, TypeOK
    <3>2. QED
      BY <1>7, <3>1 DEF OnResult
  <2>3. QED
    BY <1>7, <2>1, <2>2, Zenon DEF OnResult, Moves
<1>8. CASE e = "server" /\ ServerUnexpected
  <2>1. \A s \in Side : WireMove(s)
    BY <1>8, HandledMoves DEF ServerUnexpected
  <2>2. QED
    BY <1>8, <2>1 DEF ServerUnexpected, Moves
<1>9. ASSUME NEW x \in Dials, e = "server", OnSynAccept(x)
      PROVE Moves
  <2> DEFINE c == <<"server", x>>
  <2>0. c \in Conn /\ c[1] = "server" /\ c[2] = x
    BY ConnOfDial, Zenon
  <2>1. (\A s \in Side : WireMove(s)) /\ Takes("server", "SYN", x)
    BY <1>9, HandledMoves DEF OnSynAccept, Dispatching, MsgType
  <2>2. \A d \in Dials : HandlerMove(d)
    BY <1>9, <2>1 DEF OnSynAccept, HandlerMove, TypeOK
  <2>3. \A y \in Conn : StatusMove(y) /\ TimerMove(y)
    BY <1>9, <2>0, <2>1 DEF OnSynAccept, StatusMove, TimerMove, TypeOK, ConnType, NewConn
  <2>4. QED
    BY <1>9, <2>1, <2>2, <2>3 DEF OnSynAccept, Moves
<1>10. ASSUME NEW x \in Dials, e = "server", OnSynUnknown(x)
       PROVE Moves
  <2> DEFINE c == <<"server", x>>
             f == MkFrame("RESULT", c, ERR_UNKNOWN_PROTOCOL)
  <2>0. c \in Conn /\ c[1] = "server" /\ c[2] = x
    BY ConnOfDial, Zenon
  <2>1. CASE Handled(e)
    BY <1>10, <2>1, HandledMoves DEF OnSynUnknown, Dispatching, Moves
  <2>2. CASE wire' = [wire EXCEPT !["server"] = Tail(@),
                                  !["client"] = IF link THEN Append(@, f) ELSE @]
    <3>1. wire["server"] # <<>>
      BY <1>10, HeldTypes DEF OnSynUnknown, Dispatching
    <3>2. wire'["server"] = Tail(wire["server"])
      BY <2>2 DEF TypeOK, Side
    <3>3. wire'["client"] = wire["client"] \/ wire'["client"] = Append(wire["client"], f)
      BY <2>2 DEF TypeOK, Side
    <3>4. Sends(c, "RESULT", ERR_UNKNOWN_PROTOCOL)
      BY <1>10, <2>0, <3>1, <3>2 DEF OnSynUnknown, Dispatching, Sends, Takes, ERR_UNKNOWN_PROTOCOL, ERR_NONE
    <3>5. WireMove("server") /\ WireMove("client")
      <4>1. "client" = Peer(c[1]) /\ "RESULT" \in MsgType /\ ERR_UNKNOWN_PROTOCOL \in Nat
        BY <2>0 DEF Peer, MsgType, ERR_UNKNOWN_PROTOCOL
      <4>2. WireMove("server")
        BY <3>1, <3>2, Zenon DEF WireMove
      <4>3. WireMove("client")
        BY <2>0, <3>3, <3>4, <4>1, Zenon DEF WireMove
      <4>4. QED
        BY <4>2, <4>3
    <3>6. QED
      BY <1>10, <3>5 DEF OnSynUnknown, Moves, Side
  <2>3. QED
    BY <1>10, <2>1, <2>2 DEF OnSynUnknown
<1>11. QED
  BY <1>1, <1>2, <1>3, <1>4, <1>5, <1>6, <1>7, <1>8, <1>9, <1>10, Zenon DEF LoopStep

\* What the closing timer and Conn.Reset change.
LEMMA ResetMoves ==
    ASSUME TypeOK, NEW c \in Conn, NEW k \in {"timer", "fabric"},
           TimerFires(c) \/ ResetStep(c, k)
    PROVE Moves
<1> USE Quiet DEF fabricVars
<1>1. CASE TimerFires(c)
  <2>1. \A y \in Conn : StatusMove(y) /\ TimerMove(y)
    BY <1>1 DEF TimerFires, StatusMove, TimerMove, TypeOK, ConnType
  <2>2. QED
    BY <1>1, <2>1 DEF TimerFires, Moves
<1>2. CASE ResetMark(c, k)
  <2>1. \A y \in Conn : StatusMove(y) /\ TimerMove(y)
    BY <1>2 DEF ResetMark, StatusMove, TimerMove, TypeOK, ConnType
  <2>2. QED
    BY <1>2, <2>1 DEF ResetMark, Moves
<1>3. CASE ResetFinal(c, k)
  <2>1. \A y \in Conn : StatusMove(y) /\ TimerMove(y)
    BY <1>3, DataQuiet, Zenon DEF ResetFinal
  <2>2. QED
    BY <1>3, <2>1 DEF ResetFinal, Moves
<1>4. QED
  BY <1>1, <1>2, <1>3 DEF ResetStep

\* What Conn.Write and Conn.Close change.
LEMMA WriteMoves ==
    ASSUME TypeOK, NEW c \in Conn,
           (\E n \in Slices : WriteSlice(c, n)) \/ WriteResumes(c) \/ CloseWrite(c)
    PROVE Moves
<1> USE Quiet DEF fabricVars
<1>0. user[c].wn \in Nat /\ user \in [Conn -> UserType] /\ conn \in [Conn -> ConnType]
  BY DEF TypeOK, UserType
<1>1. ASSUME NEW n \in Slices, WriteSlice(c, n) PROVE Moves
  <2>1. \A y \in Conn : StatusMove(y) /\ TimerMove(y)
    BY <1>1, DataQuiet DEF WriteSlice
  <2>2. \A y \in Conn : WriterMove(y)
    <3>1. conn[c].status = "EST" /\ Usable(c) /\ \A y \in Conn : y # c => user'[y] = user[y]
      BY <1>0, <1>1 DEF WriteSlice
    <3>2. QED
      BY <3>1 DEF WriterMove
  <2>3. n \in Nat /\ Sends(c, "DATA", n)
    BY <1>1, TunnelAssumption DEF WriteSlice, Sends
  <2>4. \A e \in Side : WireMove(e)
    BY <1>1, <2>3, SendMoves DEF WriteSlice, MsgType
  <2>5. QED
    BY <1>1, <2>1, <2>2, <2>4 DEF WriteSlice, Moves
<1>2. CASE WriteResumes(c)
  <2>1. \A y \in Conn : StatusMove(y) /\ TimerMove(y)
    BY <1>2, DataQuiet, Zenon DEF WriteResumes
  <2>2. \A y \in Conn : WriterMove(y)
    <3>1. user[c].w = "woken" /\ \A y \in Conn : y # c => user'[y] = user[y]
      BY <1>0, <1>2 DEF WriteResumes
    <3>2. QED
      BY <3>1 DEF WriterMove
  <2>3. Sends(c, "DATA", user[c].wn)
    BY <1>2 DEF WriteResumes, Sends
  <2>4. \A e \in Side : WireMove(e)
    BY <1>0, <1>2, <2>3, SendMoves DEF WriteResumes, MsgType
  <2>5. QED
    BY <1>2, <2>1, <2>2, <2>4 DEF WriteResumes, Moves
<1>3. CASE CloseWrite(c)
  <2>1. /\ \/ conn[c].status = "EST" /\ conn'[c].status = "FIN_SENT" /\ conn'[c].t_closing = "armed"
           \/ conn[c].status = "FIN_RECV" /\ conn'[c].status = "UNKNOWN"
        /\ \A y \in Conn : y # c => conn'[y] = conn[y]
    BY <1>0, <1>3 DEF CloseWrite, ConnType
  <2>2. \A y \in Conn : StatusMove(y) /\ TimerMove(y)
    BY <2>1 DEF StatusMove, TimerMove
  <2>3. Sends(c, "FIN", 0)
    BY <1>3, <2>1 DEF CloseWrite, Sends
  <2>4. \A e \in Side : WireMove(e)
    BY <1>3, <2>3, SendMoves DEF CloseWrite, MsgType
  <2>5. QED
    BY <1>3, <2>2, <2>4 DEF CloseWrite, Moves
<1>4. QED
  BY <1>1, <1>2, <1>3

\* What Conn.Read changes.
LEMMA ReadMoves ==
    ASSUME TypeOK, NEW c \in Conn, ReadStep(c)
    PROVE Moves
<1> USE Quiet DEF fabricVars
<1>0. user[c].rn \in Nat /\ user \in [Conn -> UserType]
  BY DEF TypeOK, UserType
<1>1. CASE ReadCopies(c)
  <2>1. \A y \in Conn : StatusMove(y) /\ TimerMove(y)
    BY <1>1, DataQuiet, Zenon DEF ReadCopies
  <2>2. \A y \in Conn : WriterMove(y)
    BY <1>0, <1>1 DEF ReadCopies, WriterMove, UserType
  <2>3. QED
    BY <1>1, <2>1, <2>2 DEF ReadCopies, Moves
<1>2. CASE ReadDrained(c)
  <2>1. \A y \in Conn : WriterMove(y)
    BY <1>0, <1>2, Zenon DEF ReadDrained, WriterMove, UserType
  <2>2. QED
    BY <1>2, <2>1 DEF ReadDrained, Moves
<1>3. CASE ReadRenews(c)
  <2>1. \A y \in Conn : WriterMove(y)
    BY <1>0, <1>3 DEF ReadRenews, WriterMove, UserType
  <2>2. CASE wire' = wire
    BY <1>3, <2>1, <2>2 DEF ReadRenews, Moves
  <2>3. CASE /\ conn[c].status \notin {"FIN_SENT", "UNKNOWN"}
             /\ SendOK(c[1], MkFrame("WND", c, user[c].rn))
    <3>1. Sends(c, "WND", user[c].rn)
      BY <1>3, <2>3 DEF Sends, ReadRenews
    <3>2. \A e \in Side : WireMove(e)
      BY <1>0, <2>3, <3>1, SendMoves DEF MsgType
    <3>3. QED
      BY <1>3, <2>1, <3>2 DEF ReadRenews, Moves
  <2>4. QED
    BY <1>3, <2>2, <2>3 DEF ReadRenews, SendErr
<1>4. QED
  BY <1>1, <1>2, <1>3 DEF ReadStep

\* Every step of the program is a Move of everything it touches.
LEMMA MovesOnly == ASSUME TypeOK, [Next]_vars PROVE Moves
<1>1. CASE UNCHANGED vars
  BY <1>1, Quiet DEF vars, Moves
<1>2. CASE \E d \in Dials : PutIntoNextId(d) \/ Connect(d) \/ DialStep(d) \/ HandlerStep(d)
  BY <1>2, DialMoves, HandlerMoves
<1>3. CASE \E e \in Side : LoopStep(e)
  BY <1>3, LoopMoves
<1>4. CASE LinkBreaks \/ \E e \in Side : CutOff(e)
  BY <1>4, Quiet DEF LinkBreaks, CutOff, Moves
<1>5. ASSUME NEW c \in Conn,
             TimerFires(c) \/ \E k \in {"timer", "fabric"} : ResetStep(c, k)
      PROVE Moves
  BY <1>5, ResetMoves
<1>6. ASSUME NEW c \in Conn,
             (\E n \in Slices : WriteSlice(c, n)) \/ WriteResumes(c) \/ CloseWrite(c)
      PROVE Moves
  BY <1>6, WriteMoves
<1>7. ASSUME NEW c \in Conn, ReadStep(c)
      PROVE Moves
  BY <1>7, ReadMoves
<1>8. QED
  BY <1>1, <1>2, <1>3, <1>4, <1>5, <1>6, <1>7 DEF Next
-----------------------------------------------------------------------------
\* A SYN is sent once for a dial, and until it is handled there is no handler.
SynsAreFresh ==
    /\ \A d \in Dials : dial[d].pc \in {"idle", "put", "opened"} =>
          /\ handler[d] = "none"
          /\ \A i \in DOMAIN wire["server"] :
                wire["server"][i].type = "SYN" => wire["server"][i].id # d
    /\ \A i \in DOMAIN wire["server"] :
          wire["server"][i].type = "SYN" => handler[wire["server"][i].id] = "none"
    /\ \A i, j \in DOMAIN wire["server"] :
          /\ wire["server"][i].type = "SYN" /\ wire["server"][j].type = "SYN"
          /\ wire["server"][i].id = wire["server"][j].id
          => i = j

\* Whoever has heard of success, or will, has a handler that is open.
ResultsAreTrue ==
    /\ \A i \in DOMAIN wire["client"] :
          wire["client"][i].type = "RESULT" /\ wire["client"][i].arg = ERR_NONE
            => handler[wire["client"][i].id] = "open"
    /\ \A d \in Dials : dial[d].pc = "got" /\ dial[d].errno = ERR_NONE => handler[d] = "open"

\* A Conn whose FIN is on its way has nothing more to send.
HasSentFin(c) ==
    /\ conn[c].status \in {"FIN_SENT", "UNKNOWN"}
    /\ user[c].w = "idle"
    /\ Usable(c)

FinsAreFinal ==
    \A e \in Side : \A i \in DOMAIN wire[e] :
        wire[e][i].type = "FIN" => HasSentFin(<<Peer(e), wire[e][i].id>>)

Inv == TypeOK /\ ClosingHasDeadline /\ SynsAreFresh /\ ResultsAreTrue /\ EstAgreed

FinInv == FinsAreFinal /\ FinIsLast
-----------------------------------------------------------------------------
\* The positions of the frames after a move of a wire.
LEMMA WirePositions ==
    ASSUME TypeOK, NEW e \in Side, WireMove(e)
    PROVE \/ wire'[e] = wire[e]
          \/ \A i \in DOMAIN wire'[e] :
                i + 1 \in DOMAIN wire[e] /\ i + 1 # 1 /\ wire'[e][i] = wire[e][i + 1]
          \/ \E c \in Conn, t \in MsgType, x \in Nat :
                /\ e = Peer(c[1]) /\ Sends(c, t, x)
                /\ \A i \in DOMAIN wire'[e] :
                      \/ i \in DOMAIN wire[e] /\ wire'[e][i] = wire[e][i]
                      \/ /\ wire'[e][i] = MkFrame(t, c, x)
                         /\ i \notin DOMAIN wire[e]
                         /\ \A j \in DOMAIN wire'[e] : j <= i
<1>1. wire[e] \in Seq(Frame)
  BY DEF TypeOK
<1>2. CASE wire[e] # <<>> /\ wire'[e] = Tail(wire[e])
  BY <1>1, <1>2
<1>3. ASSUME NEW c \in Conn, NEW t \in MsgType, NEW x \in Nat,
             e = Peer(c[1]), Sends(c, t, x), wire'[e] = Append(wire[e], MkFrame(t, c, x))
      PROVE \A i \in DOMAIN wire'[e] :
                      \/ i \in DOMAIN wire[e] /\ wire'[e][i] = wire[e][i]
                      \/ /\ wire'[e][i] = MkFrame(t, c, x)
                         /\ i \notin DOMAIN wire[e]
                         /\ \A j \in DOMAIN wire'[e] : j <= i
  <2>1. PICK f \in Frame : f = MkFrame(t, c, x)
    BY FrameTypes
  <2>2. DOMAIN wire'[e] = 1..(Len(wire[e]) + 1) /\ DOMAIN wire[e] = 1..Len(wire[e]) /\ Len(wire[e]) \in Nat
    BY <1>1, <1>3, <2>1
  <2>3. \A i \in 1..(Len(wire[e]) + 1) :
           wire'[e][i] = IF i = Len(wire[e]) + 1 THEN f ELSE wire[e][i]
    BY <1>1, <1>3, <2>1
  <2>4. QED
    BY <2>1, <2>2, <2>3
<1>4. CASE \E c \in Conn, t \in MsgType, x \in Nat :
             e = Peer(c[1]) /\ Sends(c, t, x) /\ wire'[e] = Append(wire[e], MkFrame(t, c, x))
  <2>1. PICK c \in Conn, t \in MsgType, x \in Nat :
           e = Peer(c[1]) /\ Sends(c, t, x) /\ wire'[e] = Append(wire[e], MkFrame(t, c, x))
    BY <1>4
  <2>2. \A i \in DOMAIN wire'[e] :
                      \/ i \in DOMAIN wire[e] /\ wire'[e][i] = wire[e][i]
                      \/ /\ wire'[e][i] = MkFrame(t, c, x)
                         /\ i \notin DOMAIN wire[e]
                         /\ \A j \in DOMAIN wire'[e] : j <= i
    BY <1>3, <2>1
  <2>3. QED
    BY <2>1, <2>2, Zenon
<1>5. QED
  BY <1>2, <1>4 DEF WireMove

\* Each frame was there before, or this step sent it.
LEMMA WireFrames ==
    ASSUME TypeOK, NEW e \in Side, WireMove(e), NEW i \in DOMAIN wire'[e]
    PROVE \/ \E j \in DOMAIN wire[e] : wire'[e][i] = wire[e][j]
          \/ \E c \in Conn, t \in MsgType, x \in Nat :
                e = Peer(c[1]) /\ Sends(c, t, x) /\ wire'[e][i] = MkFrame(t, c, x)
  BY WirePositions

\* The Conn that sent a frame.
LEMMA FrameConn ==
    ASSUME NEW s \in Seq(Frame), NEW i \in DOMAIN s, NEW e \in Side
    PROVE s[i].id \in Dials /\ <<Peer(e), s[i].id>> \in Conn
<1>1. s[i] \in Frame
  OBVIOUS
<1>2. s[i].id \in Dials
  BY <1>1 DEF Frame
<1>3. QED
  BY <1>2 DEF Conn, Peer, Side

\* A taken frame was the first of its wire.
LEMMA TakenWasThere ==
    ASSUME TypeOK, NEW e \in Side, NEW t, NEW d, Takes(e, t, d)
    PROVE /\ 1 \in DOMAIN wire[e] /\ wire[e][1] = Held(e)
          /\ wire[e][1].type = t /\ wire[e][1].id = d
          /\ \A i \in DOMAIN wire'[e] :
                i + 1 \in DOMAIN wire[e] /\ i + 1 # 1 /\ wire'[e][i] = wire[e][i + 1]
<1>1. wire[e] \in Seq(Frame) /\ wire[e] # <<>> /\ wire'[e] = Tail(wire[e])
  BY DEF TypeOK, Takes
<1>2. 1 \in DOMAIN wire[e] /\ wire[e][1] = Held(e)
  BY <1>1 DEF Held
<1>3. QED
  BY <1>1, <1>2 DEF Takes

\* No SYN is taken for a dial that has its handler.
LEMMA HandledOnce ==
    ASSUME TypeOK, SynsAreFresh, NEW d \in Dials, handler[d] # "none"
    PROVE ~Takes("server", "SYN", d)
<1> SUFFICES ASSUME Takes("server", "SYN", d) PROVE FALSE
  OBVIOUS
<1>1. /\ 1 \in DOMAIN wire["server"]
      /\ wire["server"][1].type = "SYN" /\ wire["server"][1].id = d
  BY TakenWasThere DEF Side
<1>2. QED
  BY <1>1 DEF SynsAreFresh

\* A handler that is open stays open.
LEMMA OpenStays ==
    ASSUME TypeOK, SynsAreFresh, Moves, NEW d \in Dials, handler[d] = "open"
    PROVE handler'[d] = "open"
<1>1. ~Takes("server", "SYN", d)
  BY HandledOnce
<1>2. QED
  BY <1>1 DEF Moves, HandlerMove

\* A status that becomes half closed comes with an armed timer, and the timer is
\* cleared only together with the status.
LEMMA DeadlineStep ==
    ASSUME TypeOK, ClosingHasDeadline, Moves, TypeOK'
    PROVE ClosingHasDeadline'
  BY DEF ClosingHasDeadline, Moves, StatusMove, TimerMove

\* A SYN on its way stays the first thing its handler will see.
LEMMA SynStep ==
    ASSUME TypeOK, SynsAreFresh, Moves, TypeOK'
    PROVE SynsAreFresh'
<1> DEFINE w == wire["server"]
<1>0. /\ "server" \in Side /\ WireMove("server")
      /\ \A d \in Dials : DialMove(d) /\ HandlerMove(d)
  BY DEF Moves, Side
\* A dial that has not sent its SYN had not sent it before, and none is found.
<1>1. ASSUME NEW d \in Dials, dial'[d].pc \in {"idle", "put", "opened"}
      PROVE dial[d].pc \in {"idle", "put", "opened"}
  BY <1>0, <1>1 DEF DialMove
\* Only a frame that is there is taken.
<1>2. ASSUME NEW d \in Dials, handler[d] = "none",
             \A i \in DOMAIN w : w[i].type = "SYN" => w[i].id # d
      PROVE handler'[d] = "none"
  <2>1. ~Takes("server", "SYN", d)
    BY <1>0, <1>2, TakenWasThere
  <2>2. QED
    BY <1>0, <1>2, <2>1 DEF HandlerMove
\* A SYN that was sent in this step belongs to a dial in "opened".
<1>3. ASSUME NEW c \in Conn, NEW t \in MsgType, NEW x \in Nat, Sends(c, t, x),
             MkFrame(t, c, x).type = "SYN"
      PROVE /\ MkFrame(t, c, x).id \in Dials
            /\ dial[MkFrame(t, c, x).id].pc = "opened"
            /\ dial'[MkFrame(t, c, x).id].pc = "sent"
  BY <1>3 DEF Sends, MkFrame, Conn
<1>4. ASSUME NEW d \in Dials, dial'[d].pc \in {"idle", "put", "opened"}
      PROVE /\ handler'[d] = "none"
            /\ \A i \in DOMAIN w' : w'[i].type = "SYN" => w'[i].id # d
  <2>1. /\ handler[d] = "none"
        /\ \A i \in DOMAIN w : w[i].type = "SYN" => w[i].id # d
    BY <1>1, <1>4 DEF SynsAreFresh
  <2>2. ASSUME NEW i \in DOMAIN w', w'[i].type = "SYN" PROVE w'[i].id # d
    BY <1>0, <1>3, <1>4, <2>1, <2>2, WireFrames
  <2>3. QED
    BY <1>2, <2>1, <2>2
<1>5. ASSUME NEW i \in DOMAIN w', w'[i].type = "SYN"
      PROVE handler'[w'[i].id] = "none"
  <2>0. w'[i].id \in Dials
    <3>1. w' \in Seq(Frame)
      BY <1>0 DEF TypeOK
    <3>2. w'[i] \in Frame
      BY <1>5, <3>1
    <3>3. QED
      BY <3>2 DEF Frame
  <2>1. CASE \E c \in Conn, t \in MsgType, x \in Nat : Sends(c, t, x) /\ w'[i] = MkFrame(t, c, x)
    <3>1. dial[w'[i].id].pc = "opened"
      BY <1>3, <1>5, <2>1
    <3>2. QED
      BY <1>2, <2>0, <3>1 DEF SynsAreFresh
  <2>2. ASSUME NEW j \in DOMAIN w, w'[i] = w[j] PROVE handler'[w'[i].id] = "none"
    <3>1. handler[w'[i].id] = "none"
      BY <1>5, <2>2 DEF SynsAreFresh
    <3>2. ~Takes("server", "SYN", w'[i].id)
      <4>1. SUFFICES ASSUME Takes("server", "SYN", w'[i].id) PROVE FALSE
        OBVIOUS
      <4>2. /\ 1 \in DOMAIN w /\ w[1].type = "SYN" /\ w[1].id = w'[i].id
            /\ i + 1 \in DOMAIN w /\ i + 1 # 1 /\ w'[i] = w[i + 1]
        BY <1>0, <4>1, TakenWasThere
      <4>3. QED
        BY <1>5, <4>2 DEF SynsAreFresh
    <3>3. QED
      BY <1>0, <2>0, <3>1, <3>2 DEF HandlerMove
  <2>3. QED
    BY <1>0, <2>1, <2>2, WireFrames
<1>6. ASSUME NEW i \in DOMAIN w', NEW j \in DOMAIN w',
             w'[i].type = "SYN", w'[j].type = "SYN", w'[i].id = w'[j].id
      PROVE i = j
  <2>1. CASE w' = w
    BY <1>6, <2>1 DEF SynsAreFresh
  <2>2. CASE \A k \in DOMAIN w' : k + 1 \in DOMAIN w /\ k + 1 # 1 /\ w'[k] = w[k + 1]
    <3>1. i + 1 = j + 1
      BY <1>6, <2>2 DEF SynsAreFresh
    <3>2. i \in Int /\ j \in Int
      BY <1>0 DEF TypeOK
    <3>3. QED
      BY <3>1, <3>2
  <2>3. ASSUME NEW c \in Conn, NEW t \in MsgType, NEW x \in Nat, Sends(c, t, x),
               \A k \in DOMAIN w' :
                      \/ k \in DOMAIN w /\ w'[k] = w[k]
                      \/ /\ w'[k] = MkFrame(t, c, x)
                         /\ k \notin DOMAIN w
                         /\ \A l \in DOMAIN w' : l <= k
        PROVE i = j
    <3>0. i \in Int /\ j \in Int
      BY <1>0 DEF TypeOK
    <3>1. CASE i \in DOMAIN w /\ j \in DOMAIN w
      BY <1>6, <2>3, <3>1 DEF SynsAreFresh
    <3>2. CASE i \notin DOMAIN w /\ j \notin DOMAIN w
      BY <2>3, <3>0, <3>2
    <3>3. ASSUME NEW k \in DOMAIN w', NEW l \in DOMAIN w', k \notin DOMAIN w, l \in DOMAIN w,
                 w'[k].type = "SYN", w'[l].type = "SYN", w'[k].id = w'[l].id
          PROVE FALSE
      <4>1. w'[k] = MkFrame(t, c, x) /\ w'[l] = w[l]
        BY <2>3, <3>3
      <4>2. dial[w'[k].id].pc = "opened" /\ w'[k].id \in Dials
        <5>1. MkFrame(t, c, x).type = "SYN"
          BY <3>3, <4>1
        <5>2. QED
          BY <1>3, <2>3, <4>1, <5>1
      <4>3. QED
        BY <3>3, <4>1, <4>2 DEF SynsAreFresh
    <3>4. QED
      BY <1>6, <3>1, <3>2, <3>3
  <2>4. QED
    BY <1>0, <2>1, <2>2, <2>3, WirePositions
<1>7. QED
  BY <1>4, <1>5, <1>6 DEF SynsAreFresh

\* A RESULT on its way, or received, keeps telling the truth about the handler.
LEMMA ResultStep ==
    ASSUME TypeOK, SynsAreFresh, ResultsAreTrue, Moves, TypeOK'
    PROVE ResultsAreTrue'
<1> DEFINE w == wire["client"]
<1>0. /\ "client" \in Side /\ WireMove("client")
      /\ \A d \in Dials : DialMove(d)
  BY DEF Moves, Side
<1>1. ASSUME NEW i \in DOMAIN w', w'[i].type = "RESULT", w'[i].arg = ERR_NONE
      PROVE handler'[w'[i].id] = "open"
  <2>1. ASSUME NEW j \in DOMAIN w, w'[i] = w[j] PROVE handler'[w'[i].id] = "open"
    <3>1. w \in Seq(Frame)
      BY <1>0 DEF TypeOK
    <3>2. w[j].id \in Dials
      BY <1>0, <3>1, FrameConn, Zenon
    <3>3. handler[w[j].id] = "open"
      BY <1>1, <2>1 DEF ResultsAreTrue
    <3>4. QED
      BY <2>1, <3>2, <3>3, OpenStays
  <2>2. ASSUME NEW c \in Conn, NEW t \in MsgType, NEW x \in Nat, Sends(c, t, x),
               w'[i] = MkFrame(t, c, x)
        PROVE handler'[w'[i].id] = "open"
    BY <1>1, <2>2 DEF Sends, MkFrame
  <2>3. QED
    BY <1>0, <2>1, <2>2, WireFrames
<1>2. ASSUME NEW d \in Dials, dial'[d].pc = "got", dial'[d].errno = ERR_NONE
      PROVE handler'[d] = "open"
  <2>1. CASE dial'[d] = dial[d]
    BY <1>2, <2>1, OpenStays DEF ResultsAreTrue
  <2>2. CASE Takes("client", "RESULT", d) /\ dial'[d].errno = Held("client").arg
    <3>1. handler[d] = "open"
      <4>1. 1 \in DOMAIN w /\ w[1] = Held("client") /\ w[1].type = "RESULT" /\ w[1].id = d
        BY <1>0, <2>2, TakenWasThere
      <4>2. w[1].arg = ERR_NONE
        BY <1>2, <2>2, <4>1
      <4>3. QED
        BY <4>1, <4>2 DEF ResultsAreTrue
    <3>2. QED
      BY <3>1, OpenStays
  <2>3. QED
    BY <1>0, <1>2, <2>1, <2>2 DEF DialMove, ERR_NONE, ERR_TIMEOUT
<1>3. QED
  BY <1>1, <1>2 DEF ResultsAreTrue

\* Connect establishes a Conn only on a RESULT of ERR_NONE.
LEMMA EstStep ==
    ASSUME TypeOK, SynsAreFresh, ResultsAreTrue, EstAgreed, Moves
    PROVE EstAgreed'
<1> SUFFICES ASSUME NEW d \in Dials,
                    conn'[<<"client", d>>].status \in {"EST", "FIN_SENT", "FIN_RECV"}
             PROVE handler[d] = "open"
  BY OpenStays DEF EstAgreed
<1> DEFINE c == <<"client", d>>
<1>1. c \in Conn /\ c[1] = "client" /\ c[2] = d /\ StatusMove(c)
  BY ConnOfDial, Zenon DEF Moves
<1>2. CASE conn[c].status \in {"EST", "FIN_SENT", "FIN_RECV"}
  BY <1>2 DEF EstAgreed
<1>3. CASE dial[d].pc = "got" /\ dial[d].errno = ERR_NONE
  BY <1>3 DEF ResultsAreTrue
<1>4. QED
  BY <1>1, <1>2, <1>3 DEF StatusMove

\* The four invariants together are inductive.
LEMMA InvStep == Inv /\ [Next]_vars => Inv'
<1> SUFFICES ASSUME Inv, [Next]_vars PROVE Inv'
  OBVIOUS
<1>1. TypeOK' /\ Moves
  BY TypeStep, MovesOnly DEF Inv
<1>2. QED
  BY <1>1, DeadlineStep, SynStep, ResultStep, EstStep DEF Inv

\* They hold in every behaviour of the tunnel.
LEMMA InvHolds == Spec => []Inv
<1>1. Init => Inv
  <2> SUFFICES ASSUME Init PROVE Inv
    OBVIOUS
  <2>1. TypeOK
    BY InitTypes
  <2>2. \A d \in Dials : <<"client", d>> \in Conn
    BY ConnOfDial
  <2>3. ClosingHasDeadline /\ EstAgreed
    BY <2>2 DEF Init, NewConn, ClosingHasDeadline, EstAgreed
  <2>4. wire["server"] = <<>> /\ wire["client"] = <<>>
    BY DEF Init, Side
  <2>a. DOMAIN wire["server"] = {} /\ DOMAIN wire["client"] = {}
    BY <2>4
  <2>b. \A d \in Dials : handler[d] = "none" /\ dial[d].pc # "got"
    BY DEF Init
  <2>5. SynsAreFresh /\ ResultsAreTrue
    BY <2>a, <2>b, Zenon DEF SynsAreFresh, ResultsAreTrue
  <2>6. QED
    BY <2>1, <2>3, <2>5 DEF Inv
<1>2. QED
  BY <1>1, InvStep, PTL DEF Spec

\* closeWrite and closeRead never find t_closing nil when they stop it, and every
\* half closed Conn has its deadline (conn.go:316, 346).
THEOREM DeadlinesHold == Spec => []ClosingHasDeadline
  BY InvHolds, PTL DEF Inv

\* The client holds a stream for established only if the server has accepted it,
\* whatever was timed out, reset or dropped on the way (conn.go:92-148).
THEOREM EstIsAgreed == Spec => []EstAgreed
  BY InvHolds, PTL DEF Inv
-----------------------------------------------------------------------------
\* What a Conn has finished stays finished.
LEMMA FinStays ==
    ASSUME TypeOK, SynsAreFresh, Moves, NEW c \in Conn, HasSentFin(c)
    PROVE HasSentFin(c)'
<1>0. /\ c[1] \in Side /\ c[2] \in Dials
      /\ DialMove(c[2]) /\ HandlerMove(c[2]) /\ StatusMove(c) /\ WriterMove(c)
  BY DEF Moves, Conn
<1>1. c[1] = "client" => dial[c[2]].pc = "nil" /\ dial'[c[2]].pc = "nil"
  BY <1>0 DEF HasSentFin, Usable, DialMove
<1>2. c[1] = "server" => handler[c[2]] = "open" /\ handler'[c[2]] = "open"
  BY <1>0, OpenStays DEF HasSentFin, Usable, Side
<1>3. c[1] = "server" => ~Takes("server", "SYN", c[2])
  BY <1>0, <1>2, HandledOnce
<1>4. conn'[c].status \in {"FIN_SENT", "UNKNOWN"}
  BY <1>0, <1>1, <1>2, <1>3 DEF HasSentFin, StatusMove
<1>5. user'[c].w = "idle"
  BY <1>0 DEF HasSentFin, WriterMove
<1>6. Usable(c)'
  BY <1>0, <1>1, <1>2 DEF Usable, Side
<1>7. QED
  BY <1>4, <1>5, <1>6 DEF HasSentFin

\* A Conn that has sent its FIN sends nothing.
LEMMA FinSilences ==
    ASSUME TypeOK, SynsAreFresh, NEW c \in Conn, HasSentFin(c), NEW t, NEW x
    PROVE ~Sends(c, t, x)
<1>0. c[1] \in Side /\ c[2] \in Dials
  BY DEF Conn
<1>1. c[1] = "server" => ~Takes("server", "SYN", c[2])
  BY <1>0, HandledOnce DEF HasSentFin, Usable
<1>2. QED
  BY <1>1 DEF HasSentFin, Usable, Sends

\* The Conn that sent a frame to its peer.
LEMMA SenderOf ==
    ASSUME NEW c \in Conn, NEW t, NEW x
    PROVE <<Peer(Peer(c[1])), MkFrame(t, c, x).id>> = c
<1>1. c[1] \in Side /\ c = <<c[1], c[2]>>
  BY DEF Conn
<1>2. Peer(Peer(c[1])) = c[1]
  BY <1>1 DEF Side, Peer
<1>3. MkFrame(t, c, x).id = c[2]
  BY DEF MkFrame
<1>4. QED
  BY <1>1, <1>2, <1>3

\* After its FIN a Conn sends nothing, so the FIN stays the last frame.
LEMMA FinStep ==
    ASSUME ~SharedClose, Inv, FinInv, Moves, TypeOK'
    PROVE FinInv'
<1> USE DEF Inv
<1>1. FinsAreFinal'
  <2>0. SUFFICES ASSUME NEW e \in Side, NEW i \in DOMAIN wire'[e], wire'[e][i].type = "FIN",
                        NEW y \in Conn, y = <<Peer(e), wire'[e][i].id>>
                 PROVE HasSentFin(y)'
    <3>1. ASSUME NEW e \in Side, NEW i \in DOMAIN wire'[e]
          PROVE <<Peer(e), wire'[e][i].id>> \in Conn
      <4>1. wire'[e] \in Seq(Frame)
        BY DEF TypeOK
      <4>2. QED
        BY <3>1, <4>1, FrameConn
    <3>2. QED
      BY <3>1 DEF FinsAreFinal, HasSentFin, Usable
  <2>1. WireMove(e)
    BY DEF Moves
  <2>2. ASSUME NEW j \in DOMAIN wire[e], wire'[e][i] = wire[e][j]
        PROVE HasSentFin(y)'
    <3>1. HasSentFin(y)
      BY <2>0, <2>2 DEF FinInv, FinsAreFinal
    <3>2. QED
      BY <3>1, FinStays
  <2>3. ASSUME NEW c \in Conn, NEW t \in MsgType, NEW x \in Nat, e = Peer(c[1]), Sends(c, t, x),
               wire'[e][i] = MkFrame(t, c, x)
        PROVE HasSentFin(y)'
    <3>1. t = "FIN" /\ y = c
      <4>1. MkFrame(t, c, x).type = t
        BY DEF MkFrame
      <4>2. t = "FIN"
        BY <2>0, <2>3, <4>1
      <4>3. <<Peer(Peer(c[1])), MkFrame(t, c, x).id>> = c
        BY SenderOf
      <4>4. QED
        BY <2>0, <2>3, <4>2, <4>3
    <3>2. conn'[y].status \in {"FIN_SENT", "UNKNOWN"} /\ user'[y].w = "idle" /\ Usable(y)
      BY <2>3, <3>1 DEF Sends
    <3>3. y[1] \in Side /\ y[2] \in Dials /\ DialMove(y[2])
      BY DEF Conn, Moves
    <3>4. Usable(y)'
      BY <3>2, <3>3, OpenStays DEF Usable, DialMove
    <3>5. QED
      BY <3>2, <3>4 DEF HasSentFin
  <2>4. QED
    BY <2>1, <2>2, <2>3, WireFrames
<1>2. FinIsLast'
  <2> SUFFICES ASSUME NEW e \in Side, NEW i \in DOMAIN wire'[e], NEW j \in DOMAIN wire'[e],
                      i < j, wire'[e][i].id = wire'[e][j].id
               PROVE wire'[e][i].type # "FIN"
    BY DEF FinIsLast
  <2>0. WireMove(e) /\ i \in Int /\ j \in Int
    <3>1. WireMove(e)
      BY Zenon DEF Moves
    <3>2. wire'[e] \in Seq(Frame)
      BY DEF TypeOK
    <3>3. i \in Int /\ j \in Int
      BY <3>2
    <3>4. QED
      BY <3>1, <3>3
  <2>1. CASE wire'[e] = wire[e]
    BY <2>1 DEF FinInv, FinIsLast
  <2>2. CASE \A k \in DOMAIN wire'[e] :
                k + 1 \in DOMAIN wire[e] /\ k + 1 # 1 /\ wire'[e][k] = wire[e][k + 1]
    <3>1. i + 1 < j + 1
      BY <2>0
    <3>2. QED
      BY <2>2, <3>1 DEF FinInv, FinIsLast
  <2>3. ASSUME NEW c \in Conn, NEW t \in MsgType, NEW x \in Nat, e = Peer(c[1]), Sends(c, t, x),
               \A k \in DOMAIN wire'[e] :
                      \/ k \in DOMAIN wire[e] /\ wire'[e][k] = wire[e][k]
                      \/ /\ wire'[e][k] = MkFrame(t, c, x)
                         /\ k \notin DOMAIN wire[e]
                         /\ \A l \in DOMAIN wire'[e] : l <= k
        PROVE wire'[e][i].type # "FIN"
    <3>1. i \in DOMAIN wire[e] /\ wire'[e][i] = wire[e][i]
      <4>1. ~(\A l \in DOMAIN wire'[e] : l <= i)
        BY <2>0
      <4>2. QED
        BY <2>3, <4>1, Zenon
    <3>2. CASE j \in DOMAIN wire[e] /\ wire'[e][j] = wire[e][j]
      BY <3>1, <3>2 DEF FinInv, FinIsLast
    <3>3. CASE wire'[e][j] = MkFrame(t, c, x)
      <4>1. <<Peer(e), wire[e][i].id>> = c
        <5>1. MkFrame(t, c, x).id = wire[e][i].id
          BY <3>1, <3>3
        <5>2. <<Peer(Peer(c[1])), MkFrame(t, c, x).id>> = c
          BY SenderOf
        <5>3. QED
          BY <2>3, <5>1, <5>2
      <4>2. ~HasSentFin(c)
        BY <2>3, FinSilences
      <4>3. QED
        BY <3>1, <4>1, <4>2 DEF FinInv, FinsAreFinal
    <3>4. QED
      BY <2>3, <3>2, <3>3
  <2>4. QED
    BY <2>0, <2>1, <2>2, <2>3, WirePositions
<1>3. QED
  BY <1>1, <1>2 DEF FinInv

\* As long as a Conn is closed by the goroutine that writes to it, as in CopyLink,
\* nothing follows a FIN to the peer: neither data nor the window renewals that
\* Read sends (conn.go:210-216).
THEOREM FinStaysLast == ASSUME ~SharedClose PROVE Spec => []FinIsLast
<1>1. Init => FinInv
  <2> SUFFICES ASSUME Init PROVE FinInv
    OBVIOUS
  <2>1. \A e \in Side : wire[e] = <<>>
    BY DEF Init
  <2>2. \A e \in Side : DOMAIN wire[e] = {}
    BY <2>1
  <2>3. QED
    BY <2>2, Zenon DEF FinInv, FinsAreFinal, FinIsLast
<1>2. Inv /\ FinInv /\ [Next]_vars => FinInv'
  BY FinStep, TypeStep, MovesOnly DEF Inv
<1>3. QED
  BY <1>1, <1>2, InvHolds, PTL DEF Spec, FinInv
=============================================================================
