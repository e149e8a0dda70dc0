-------------------------------- MODULE Wire --------------------------------
(***************************************************************************)
(* Established streams on a connection that can be full.  Module Tunnel    *)
(* sends a frame in one step; here Fabric.SendFrame takes the steps that   *)
(* can block or fail half way: Conn.lock, which Read and writeSlice hold   *)
(* over it, wlock, and a write into the buffers of TCP, which take CAP     *)
(* units and give up after WRITE_TIMEOUT.  A frame is two units, its head  *)
(* and its body.  Loop of the other side reads the units one at a time and *)
(* needs Conn.lock for a MSG_WND, but not for MSG_DATA.                    *)
(*                                                                         *)
(* CryptConn.Write encrypts a whole frame before it writes, and TLS refuses*)
(* to write after a timeout: once a write of a side has timed out, whatever*)
(* the side sends is garbage to the peer.                                  *)
(***************************************************************************)
EXTENDS Integers, Sequences

CONSTANTS Streams,      \* the streams of the tunnel, established on both sides
          CAP,          \* units that fit into the connection, each way
          WINDOWSIZE,   \* bytes a side may have sent and not seen renewed
          BUFFERSIZE,   \* of the buffers of Read, and the longest slice
          RADIX,        \* 2^16: lengths are cast to uint16
          Loads         \* what is written: functions from Conns to lengths

Side == {"client", "server"}
Peer(e) == IF e = "client" THEN "server" ELSE "client"
Conn == Side \X Streams
Proc == Conn \X {"w", "r"}     \* the goroutines in Write and Read of each Conn
Nobody == <<>>

\* Longer Writes never end: their last 2^16 bytes come to a slice of none.
ASSUME WireAssumption ==
    /\ {CAP, WINDOWSIZE, BUFFERSIZE, RADIX} \subseteq Nat \ {0}
    /\ BUFFERSIZE <= WINDOWSIZE
    /\ Loads \subseteq [Conn -> 0 .. RADIX - 1]

VARIABLES
    load,    \* the length of the Write called on each Conn
    proc,    \* per goroutine, where it is and the size it is working on
    left,    \* bytes of the Write that are not sent yet
    window,  \* Conn.window
    queue,   \* bytes in rqueue and r_rest
    lock,    \* Conn.lock: the goroutine that holds it ("w" or "r"), or "free"
    wlock,   \* per side, the goroutine in Fabric.Conn.Write, or Nobody
    wire,    \* per side, the units on their way to it
    loop,    \* per side, where Loop is and the frame in its hands
    torn,    \* per side, one of its writes has timed out
    up       \* the connection stands

vars == <<load, proc, left, window, queue, lock, wlock, wire, loop, torn, up>>

Frame == [type : {"DATA", "WND"}, id : Streams, arg : Nat]
NoFrame == [type |-> "none"]
Garbage == [part |-> "garbage", frame |-> NoFrame]
Unit == [part : {"head", "body"}, frame : Frame] \cup {Garbage}

Min2(a, b) == IF a <= b THEN a ELSE b

Init ==
    /\ load \in Loads
    /\ proc = [p \in Proc |-> [pc |-> IF p[2] = "r" THEN "pop" ELSE "next", n |-> 0]]
    /\ left = load
    /\ window = [c \in Conn |-> WINDOWSIZE]
    /\ queue = [c \in Conn |-> 0]
    /\ lock = [c \in Conn |-> "free"]
    /\ wlock = [e \in Side |-> Nobody]
    /\ wire = [e \in Side |-> <<>>]
    /\ loop = [e \in Side |-> [pc |-> "head", frame |-> NoFrame]]
    /\ torn = [e \in Side |-> FALSE]
    /\ up = TRUE
-----------------------------------------------------------------------------
(* Conn.Write and Conn.Read, up to the frame that they send under c.lock. *)

\* The slice that Write cuts off a rest of len bytes.
Slice(len) == Min2(len % RADIX, BUFFERSIZE)

\* writeSlice with c.lock: go on to SendFrame when the window allows, else wait.
WriteSlice(c) ==
    LET n == Slice(left[c]) IN
    /\ proc[<<c, "w">>].pc \in {"next", "woken"}
    /\ left[c] > 0
    /\ lock[c] = "free"
    /\ \/ /\ window[c] - n >= 0
          /\ proc' = [proc EXCEPT ![<<c, "w">>] = [pc |-> "wlock", n |-> n]]
          /\ lock' = [lock EXCEPT ![c] = "w"]
       \/ /\ window[c] - n < 0
          /\ proc' = [proc EXCEPT ![<<c, "w">>] = [pc |-> "wait", n |-> n]]
          /\ UNCHANGED lock
    /\ UNCHANGED <<load, left, window, queue, wlock, wire, loop, torn, up>>

\* Read fills its buffer from the queue: it blocks only while there is nothing.
ReadPops(c) ==
    LET n == Min2(queue[c], BUFFERSIZE) IN
    /\ proc[<<c, "r">>].pc = "pop"
    /\ n > 0
    /\ queue' = [queue EXCEPT ![c] = @ - n]
    /\ proc' = [proc EXCEPT ![<<c, "r">>] = [pc |-> "lock", n |-> n]]
    /\ UNCHANGED <<load, left, window, lock, wlock, wire, loop, torn, up>>

ReadLocks(c) ==
    /\ proc[<<c, "r">>].pc = "lock"
    /\ lock[c] = "free"
    /\ lock' = [lock EXCEPT ![c] = "r"]
    /\ proc' = [proc EXCEPT ![<<c, "r">>].pc = "wlock"]
    /\ UNCHANGED <<load, left, window, queue, wlock, wire, loop, torn, up>>
-----------------------------------------------------------------------------
(* Fabric.SendFrame, called by goroutine p. *)

SideOf(p) == p[1][1]
FrameOf(p) == [type |-> IF p[2] = "w" THEN "DATA" ELSE "WND", id |-> p[1][2],
               arg |-> proc[p].n]
Full(e) == Len(wire[e]) = CAP

\* Faulty variant: frames are written without wlock.
TakeWlock_Shared(p) ==
    /\ proc[p].pc = "wlock"
    /\ proc' = [proc EXCEPT ![p].pc = "head"]
    /\ UNCHANGED <<load, left, window, queue, lock, wlock, wire, loop, torn, up>>

TakeWlock(p) ==
    /\ proc[p].pc = "wlock"
    /\ wlock[SideOf(p)] = Nobody
    /\ wlock' = [wlock EXCEPT ![SideOf(p)] = p]
    /\ proc' = [proc EXCEPT ![p].pc = "head"]
    /\ UNCHANGED <<load, left, window, queue, lock, wire, loop, torn, up>>

\* The write brings one more unit into the connection.
PutUnit(p) ==
    LET e == SideOf(p)
        unit == [part |-> proc[p].pc, frame |-> FrameOf(p)]
    IN
    /\ proc[p].pc \in {"head", "body"}
    /\ up
    /\ ~Full(Peer(e))
    /\ wire' = [wire EXCEPT ![Peer(e)] = Append(@, IF torn[e] THEN Garbage ELSE unit)]
    /\ proc' = [proc EXCEPT ![p].pc = IF @ = "head" THEN "body" ELSE "sent"]
    /\ UNCHANGED <<load, left, window, queue, lock, wlock, loop, torn, up>>

\* SendFrame has returned nil: writeSlice debits the window, and either
\* goroutine releases c.lock and goes on with its Write or its next Read.
SendReturns(p) ==
    LET c == p[1] IN
    /\ proc[p].pc = "sent"
    /\ wlock' = [wlock EXCEPT ![c[1]] = Nobody]
    /\ lock' = [lock EXCEPT ![c] = "free"]
    /\ proc' = [proc EXCEPT ![p] = [pc |-> IF p[2] = "r" THEN "pop" ELSE "next", n |-> 0]]
    /\ window' = IF p[2] = "w" THEN [window EXCEPT ![c] = @ - proc[p].n] ELSE window
    /\ left' = IF p[2] = "w" THEN [left EXCEPT ![c] = @ - proc[p].n] ELSE left
    /\ UNCHANGED <<load, queue, wire, loop, torn, up>>

\* The write failed: both locks are released, the window keeps its value, and
\* Write or Read returns the error.  Nobody closes the fabric.
SendFails(p) ==
    /\ wlock' = [wlock EXCEPT ![SideOf(p)] = Nobody]
    /\ lock' = [lock EXCEPT ![p[1]] = "free"]
    /\ proc' = [proc EXCEPT ![p].pc = "err"]
    /\ UNCHANGED <<load, left, window, queue, wire, loop, up>>

\* Faulty variant: the write has no deadline.
WriteTimeout_Never(p) == FALSE /\ proc[p].pc = "head" /\ UNCHANGED vars

WriteTimeout(p) ==
    /\ proc[p].pc \in {"head", "body"}
    /\ up
    /\ Full(Peer(SideOf(p)))
    /\ torn' = [torn EXCEPT ![SideOf(p)] = TRUE]
    /\ SendFails(p)

WriteBroken(p) ==
    /\ proc[p].pc \in {"head", "body"}
    /\ ~up
    /\ UNCHANGED torn
    /\ SendFails(p)
-----------------------------------------------------------------------------
(* Fabric.Loop with ReadFrame, and Conn.SendFrame for the two frames. *)

Took(e) == wire' = [wire EXCEPT ![e] = Tail(@)]

ReadHead(e) ==
    /\ loop[e].pc = "head"
    /\ up
    /\ wire[e] # <<>>
    /\ Took(e)
    /\ loop' = [loop EXCEPT ![e] = IF Head(wire[e]).part = "head"
                                     THEN [pc |-> "body", frame |-> Head(wire[e]).frame]
                                     ELSE [pc |-> "lost", frame |-> NoFrame]]
    /\ UNCHANGED <<load, proc, left, window, queue, lock, wlock, torn, up>>

\* Faulty variant: after the Push, MSG_DATA takes c.lock as well.
ReadBody_LocksData(e) ==
    LET f == loop[e].frame IN
    /\ loop[e].pc = "body"
    /\ up
    /\ wire[e] # <<>>
    /\ Took(e)
    /\ IF f.type = "DATA"
         THEN /\ queue' = [queue EXCEPT ![<<e, f.id>>] = @ + f.arg]
              /\ loop' = [loop EXCEPT ![e] = [pc |-> "lock", frame |-> [f EXCEPT !.arg = 0]]]
         ELSE /\ loop' = [loop EXCEPT ![e].pc = "lock"]
              /\ UNCHANGED queue
    /\ UNCHANGED <<load, proc, left, window, lock, wlock, torn, up>>

\* The body completes the frame: DATA goes to the queue at once, WND needs the
\* lock.  What is not the body of this frame puts the reader out of step.
ReadBody(e) ==
    LET f == loop[e].frame IN
    /\ loop[e].pc = "body"
    /\ up
    /\ wire[e] # <<>>
    /\ Took(e)
    /\ \/ /\ Head(wire[e]) = [part |-> "body", frame |-> f]
          /\ f.type = "DATA"
          /\ queue' = [queue EXCEPT ![<<e, f.id>>] = @ + f.arg]
          /\ loop' = [loop EXCEPT ![e] = [pc |-> "head", frame |-> NoFrame]]
       \/ /\ Head(wire[e]) = [part |-> "body", frame |-> f]
          /\ f.type = "WND"
          /\ loop' = [loop EXCEPT ![e].pc = "lock"]
          /\ UNCHANGED queue
       \/ /\ Head(wire[e]) # [part |-> "body", frame |-> f]
          /\ loop' = [loop EXCEPT ![e] = [pc |-> "lost", frame |-> NoFrame]]
          /\ UNCHANGED queue
    /\ UNCHANGED <<load, proc, left, window, lock, wlock, torn, up>>

\* Faulty variant: the new window wakes nobody.
OnWnd_NoSignal(e) ==
    LET c == <<e, loop[e].frame.id>> IN
    /\ loop[e].pc = "lock"
    /\ lock[c] = "free"
    /\ window' = [window EXCEPT ![c] = @ + loop[e].frame.arg]
    /\ loop' = [loop EXCEPT ![e] = [pc |-> "head", frame |-> NoFrame]]
    /\ UNCHANGED <<load, proc, left, queue, lock, wlock, wire, torn, up>>

\* MSG_WND under c.lock; wev.Signal wakes the writer.
OnWnd(e) ==
    LET c == <<e, loop[e].frame.id>> IN
    /\ loop[e].pc = "lock"
    /\ lock[c] = "free"
    /\ window' = [window EXCEPT ![c] = @ + loop[e].frame.arg]
    /\ proc' = [proc EXCEPT ![<<c, "w">>].pc = IF @ = "wait" THEN "woken" ELSE @]
    /\ loop' = [loop EXCEPT ![e] = [pc |-> "head", frame |-> NoFrame]]
    /\ UNCHANGED <<load, left, queue, lock, wlock, wire, torn, up>>

\* Out of step, what Loop reads looks like frames of any type, length and id.
\* It goes on swallowing them, or one of them is an error and Loop closes the
\* fabric; what they may do to the streams on the way is not followed.
ReadGarbage(e) ==
    /\ loop[e].pc = "lost"
    /\ up
    /\ \/ /\ wire[e] # <<>>
          /\ Took(e)
          /\ UNCHANGED <<loop, up>>
       \/ /\ loop' = [loop EXCEPT ![e].pc = "ended"]
          /\ up' = FALSE
          /\ UNCHANGED wire
    /\ UNCHANGED <<load, proc, left, window, queue, lock, wlock, torn>>

LoopEnds(e) ==
    /\ loop[e].pc \in {"head", "body", "lost"}
    /\ ~up
    /\ loop' = [loop EXCEPT ![e] = [pc |-> "ended", frame |-> NoFrame]]
    /\ UNCHANGED <<load, proc, left, window, queue, lock, wlock, wire, torn, up>>
-----------------------------------------------------------------------------
SendStep(p) == TakeWlock(p) \/ PutUnit(p) \/ SendReturns(p) \/ WriteBroken(p)
UserStep(c) == WriteSlice(c) \/ ReadPops(c) \/ ReadLocks(c)
LoopStep(e) == ReadHead(e) \/ ReadBody(e) \/ OnWnd(e) \/ LoopEnds(e)

Next ==
    \/ \E c \in Conn : UserStep(c)
    \/ \E p \in Proc : SendStep(p) \/ WriteTimeout(p)
    \/ \E e \in Side : LoopStep(e) \/ ReadGarbage(e)

\* Goroutines that can run do run, and a write that stays blocked times out.
Fairness ==
    /\ \A c \in Conn : WF_vars(WriteSlice(c)) /\ WF_vars(ReadPops(c) \/ ReadLocks(c))
    /\ \A p \in Proc : WF_vars(SendStep(p)) /\ WF_vars(WriteTimeout(p))
    /\ \A e \in Side : WF_vars(LoopStep(e)) /\ WF_vars(ReadGarbage(e))

Spec == Init /\ [][Next]_vars /\ Fairness
-----------------------------------------------------------------------------
Waits == {"next", "woken", "wait", "pop", "lock", "wlock", "err"}

\* The types of the state.  A goroutine holds c.lock exactly from the end of its
\* tests to the end of SendFrame, and wlock during the write.
TypeOK ==
    /\ proc \in [Proc -> [pc : Waits \cup {"head", "body", "sent"}, n : Nat]]
    /\ left \in [Conn -> Nat]
    /\ window \in [Conn -> 0 .. WINDOWSIZE]
    /\ queue \in [Conn -> 0 .. WINDOWSIZE]
    /\ \A c \in Conn : \A k \in {"w", "r"} :
          lock[c] = k <=> proc[<<c, k>>].pc \in {"wlock", "head", "body", "sent"}
    /\ \A p \in Proc : wlock[SideOf(p)] = p <=> proc[p].pc \in {"head", "body", "sent"}
    /\ \A e \in Side : wire[e] \in Seq(Unit) /\ Len(wire[e]) <= CAP
    /\ loop \in [Side -> [pc : {"head", "body", "lock", "lost", "ended"},
                          frame : Frame \cup {NoFrame}]]
    /\ torn \in [Side -> BOOLEAN]
    /\ up \in BOOLEAN

\* Frames of different goroutines never mix: Loop loses its place between the
\* frames only after a write of its peer has timed out (fabric.go:114-118,
\* frame.go:42-54).
FramesWhole == \A e \in Side : loop[e].pc = "lost" => torn[Peer(e)]

\* The goroutine that keeps c.lock from Loop cannot go on before the other
\* side's Loop does, on both sides.
Blocked(e) ==
    LET c == <<e, loop[e].frame.id>> IN
    /\ loop[e].pc = "lock"
    /\ lock[c] # "free"
    /\ proc[<<c, lock[c]>>].pc \in {"head", "body"}
    /\ Full(Peer(e))
Stalled == up /\ \A e \in Side : Blocked(e)

\* The two Loops wait for each other, through two Conn.locks and two full
\* connections, only when both sides write: a download or an upload alone never
\* runs into WRITE_TIMEOUT that way (conn.go:216, 269, 433).
StallNeedsBothWays == Stalled => \A e \in Side : \E s \in Streams : load[<<e, s>>] > 0

\* Loop gets the Conn.lock it waits for: whoever holds it over SendFrame is
\* released by the peer or by WRITE_TIMEOUT (conn.go:433, fabric.go:115).
LoopGoesOn == \A e \in Side : loop[e].pc = "lock" ~> loop[e].pc # "lock"

\* A Write of less than 2^16 bytes returns, having sent everything or with an
\* error, unless a write of the tunnel has timed out (conn.go:225-247).
WritesEnd ==
    \A c \in Conn : <>(left[c] = 0 \/ proc[<<c, "w">>].pc = "err" \/ \E e \in Side : torn[e])
=============================================================================
