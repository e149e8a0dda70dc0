---------------------------- MODULE Parts_proofs ----------------------------
(***************************************************************************)
(* Safety of the small parts of a tunnel: the queue of a Conn, the windows *)
(* of its two directions, and the pool that the tunnels are kept in.       *)
(*                                                                         *)
(* The queue.  No wakeup is lost and EOF is final, for any number of       *)
(* goroutines and of values.  NoLostWakeup is inductive together with the  *)
(* types: a Push pairs its value with the goroutine it wakes, and a        *)
(* goroutine that runs leaves Woken only with a value in hand, or because  *)
(* there is none left.                                                     *)
(*                                                                         *)
(* The windows.  The list of a queue has no limit of its own; the bounds   *)
(* of Flow are one, for every set of directions and every window size.     *)
(* Flow's TypeOK and CreditBounded are inductive together: a step moves n  *)
(* bytes from one amount to another of the same direction, or drops them,  *)
(* and its guard keeps the amount it takes from natural.                   *)
(*                                                                         *)
(* The pool.  It knows every tunnel that works, for any number of callers, *)
(* tunnels and creators.  LiveTunnelsPooled is not inductive by itself:    *)
(* newTunnel adds the tunnel to the pool in one step and starts sessRun in *)
(* another, and a CutAll may come in between.  PoolInv says what holds of  *)
(* a goroutine that is between Create and sessRun.  The types need as      *)
(* much: a failing Create has a try left to count down because only the    *)
(* goroutine that holds dialer.lock connects, and what is added to the     *)
(* pool is a tunnel because of OwnTunnel.                                  *)
(***************************************************************************)
EXTENDS Queue, Pool, FiniteSetTheorems, TLAPS

(* The queue of a Conn. *)

WakeInv == QueueTypes /\ NoLostWakeup /\ EOFIsFinal

\* The woken goroutines can be counted.
LEMMA WokenFinite == IsFiniteSet(Woken) /\ Cardinality(Woken) \in Nat
<1>1. Woken \in SUBSET Poppers
  BY DEF Woken
<1>2. QED
  BY <1>1, QueueAssumption, FS_Subset, FS_CardinalityType

\* A goroutine that leaves Pop with the front of the list: when it was a woken
\* one, the list and Woken shrink by one each.
LEMMA TakeKeepsInv ==
  ASSUME WakeInv, NEW p \in Poppers, popper[p] \in {"out", "woken"}, Take(p)
  PROVE  WakeInv'
<1> USE DEF WakeInv, QueueTypes, Take
<1>1. QueueTypes'
  <2>1. queue' \in Seq(Nat) /\ Len(queue') = Len(queue) - 1
    OBVIOUS
  <2>2. QED
    BY <2>1
<1>2. EOFIsFinal'
  BY DEF EOFIsFinal
<1>3. Waiting' = Waiting
  BY DEF Waiting
<1>4. Len(queue') = Len(queue) - 1 /\ Len(queue) \in Nat
  OBVIOUS
<1>5. CASE popper[p] = "out"
  <2>1. Woken' = Woken
    BY <1>5 DEF Woken
  <2>2. QED
    BY <1>1, <1>2, <1>3, <1>4, <2>1, WokenFinite DEF NoLostWakeup
<1>6. CASE popper[p] = "woken"
  <2>1. Woken' = Woken \ {p} /\ p \in Woken
    BY <1>6 DEF Woken
  <2>2. Cardinality(Woken') = Cardinality(Woken) - 1
    BY <2>1, WokenFinite, FS_RemoveElement, Zenon
  <2>3. QED
    BY <1>1, <1>2, <1>3, <1>4, <2>2, WokenFinite DEF NoLostWakeup
<1>7. QED
  BY <1>5, <1>6

\* A goroutine that is told io.EOF: the queue is closed, so nobody waits.
LEMMA EOFKeepsInv ==
  ASSUME WakeInv, NEW p \in Poppers, ReturnEOF(p)
  PROVE  WakeInv'
<1> USE DEF WakeInv, QueueTypes, ReturnEOF
<1>1. QueueTypes' /\ EOFIsFinal'
  BY DEF EOFIsFinal
<1>2. Waiting = {} /\ Waiting' \subseteq Waiting
  BY DEF NoLostWakeup, Waiting
<1>3. QED
  BY <1>1, <1>2 DEF NoLostWakeup

\* A goroutine that goes to sleep: the list is empty, which no count undercuts.
LEMMA WaitKeepsInv ==
  ASSUME WakeInv, NEW p \in Poppers, Wait(p)
  PROVE  WakeInv'
<1> USE DEF WakeInv, QueueTypes, Wait
<1>1. QueueTypes' /\ EOFIsFinal'
  BY DEF EOFIsFinal
<1>2. Len(queue') = 0
  OBVIOUS
<1>3. Cardinality(Woken') \in Nat
  <2>1. Woken' \in SUBSET Poppers
    BY DEF Woken
  <2>2. QED
    BY <2>1, QueueAssumption, FS_Subset, FS_CardinalityType
<1>4. QED
  BY <1>1, <1>2, <1>3 DEF NoLostWakeup

\* Push wakes one goroutine for its value if one waits.
LEMMA PushKeepsInv == ASSUME WakeInv, Push PROVE WakeInv'
<1> USE DEF WakeInv, QueueTypes, Push, Enqueue
<1>1. queue' \in Seq(Nat) /\ Len(queue') = Len(queue) + 1 /\ Len(queue) \in Nat
  OBVIOUS
<1>2. CASE Waiting = {}
  <2>1. popper' = popper
    BY <1>2 DEF Signal
  <2>2. QueueTypes' /\ EOFIsFinal'
    BY <1>1, <2>1 DEF EOFIsFinal
  <2>3. Waiting' = {}
    BY <1>2, <2>1 DEF Waiting
  <2>4. QED
    BY <2>2, <2>3 DEF NoLostWakeup
<1>3. CASE Waiting # {}
  <2>1. PICK p \in Waiting : popper' = [popper EXCEPT ![p] = "woken"]
    BY <1>3 DEF Signal
  <2>2. QueueTypes' /\ EOFIsFinal'
    BY <1>1, <2>1 DEF EOFIsFinal, Waiting
  <2>3. Woken' = Woken \cup {p} /\ p \notin Woken
    BY <2>1 DEF Woken, Waiting
  <2>4. Cardinality(Woken') = Cardinality(Woken) + 1
    BY <2>3, WokenFinite, FS_AddElement, Zenon
  <2>5. QED
    BY <1>1, <1>3, <2>2, <2>4, WokenFinite DEF NoLostWakeup
<1>4. QED
  BY <1>2, <1>3

\* Close wakes everybody.
LEMMA CloseKeepsInv == ASSUME WakeInv, Close PROVE WakeInv'
<1> USE DEF WakeInv, QueueTypes, Close, Broadcast
<1>1. QueueTypes' /\ EOFIsFinal'
  BY DEF EOFIsFinal
<1>2. Waiting' = {}
  BY DEF Waiting
<1>3. QED
  BY <1>1, <1>2 DEF NoLostWakeup

\* Push, Pop and Close, in any order of their goroutines, keep the invariant.
LEMMA QueueStep == WakeInv /\ [QueueNext]_queueVars => WakeInv'
<1> SUFFICES ASSUME WakeInv, [QueueNext]_queueVars PROVE WakeInv'
  OBVIOUS
<1>1. CASE UNCHANGED queueVars
  BY <1>1 DEF queueVars, WakeInv, QueueTypes, NoLostWakeup, EOFIsFinal, Waiting, Woken
<1>2. CASE Push
  BY <1>2, PushKeepsInv
<1>3. CASE Close
  BY <1>3, CloseKeepsInv
<1>4. ASSUME NEW p \in Poppers, Resume(p) PROVE WakeInv'
  BY <1>4, TakeKeepsInv, EOFKeepsInv, WaitKeepsInv DEF Resume
<1>5. ASSUME NEW p \in Poppers, NEW block \in BOOLEAN, Pop(p, block) PROVE WakeInv'
  BY <1>5, TakeKeepsInv, EOFKeepsInv, WaitKeepsInv DEF Pop
<1>6. QED
  BY <1>1, <1>2, <1>3, <1>4, <1>5 DEF QueueNext

\* The invariant holds in every behaviour of the queue.
LEMMA QueueInv == QueueSpec => []WakeInv
<1>1. ASSUME QueueInit PROVE WakeInv
  <2>1. QueueTypes /\ EOFIsFinal
    <3>1. queue \in Seq(Nat) /\ Len(queue) = 0
      BY <1>1 DEF QueueInit
    <3>2. pushed \in Nat /\ Len(queue) <= pushed
      BY <1>1, <3>1 DEF QueueInit
    <3>3. QED
      BY <1>1, <3>1, <3>2, Zenon DEF QueueInit, QueueTypes, EOFIsFinal
  <2>2. Waiting = {}
    BY <1>1 DEF QueueInit, Waiting
  <2>3. QED
    BY <2>1, <2>2 DEF WakeInv, NoLostWakeup
<1>2. QED
  BY <1>1, QueueStep, PTL DEF QueueSpec

\* However many goroutines are in Pop, none sleeps while a value waits for which
\* nobody was woken, nor when the queue is closed (queue.go:33, 49, 64).
THEOREM NoWakeupLost == QueueSpec => []NoLostWakeup
BY QueueInv, PTL DEF WakeInv

\* Once a reader has seen io.EOF no reader ever gets data again.
THEOREM EOFStays == QueueSpec => []EOFIsFinal
BY QueueInv, PTL DEF WakeInv
-----------------------------------------------------------------------------
(* What the list may hold. *)

CONSTANTS Dirs, WINDOWSIZE
VARIABLES window, flight, buffer, owed, credit

Windows == INSTANCE Flow

FlowInv == Windows!TypeOK /\ Windows!CreditBounded

\* One step keeps the amounts natural and their sum within the window.
LEMMA FlowStep == ASSUME WINDOWSIZE \in Nat PROVE FlowInv /\ [Windows!Next]_(Windows!vars) => FlowInv'
<1> SUFFICES ASSUME FlowInv, [Windows!Next]_(Windows!vars) PROVE FlowInv'
  OBVIOUS
<1> USE DEF FlowInv, Windows!TypeOK, Windows!CreditBounded
<1>1. CASE UNCHANGED Windows!vars
  BY <1>1 DEF Windows!vars
<1>2. ASSUME NEW c \in Dirs, NEW n \in 0..WINDOWSIZE,
             \/ Windows!Send(c, n) \/ Windows!Deliver(c, n) \/ Windows!Read(c, n)
             \/ Windows!Renew(c, n) \/ Windows!Grant(c, n) \/ Windows!Lose(c, n)
      PROVE  FlowInv'
  <2> USE DEF Windows!Less, Windows!More
  <2>1. CASE Windows!Send(c, n)
    BY <2>1 DEF Windows!Send
  <2>2. CASE Windows!Deliver(c, n)
    BY <2>2 DEF Windows!Deliver
  <2>3. CASE Windows!Read(c, n)
    BY <2>3 DEF Windows!Read
  <2>4. CASE Windows!Renew(c, n)
    BY <2>4 DEF Windows!Renew
  <2>5. CASE Windows!Grant(c, n)
    BY <2>5 DEF Windows!Grant
  <2>6. CASE Windows!Lose(c, n)
    BY <2>6 DEF Windows!Lose
  <2>7. QED
    BY <1>2, <2>1, <2>2, <2>3, <2>4, <2>5, <2>6
<1>3. QED
  BY <1>1, <1>2 DEF Windows!Next

\* In every direction the bytes that the window accounts for never exceed it:
\* writeSlice debits what it sends and Read renews only what it has read.
THEOREM CreditIsBounded == ASSUME WINDOWSIZE \in Nat PROVE Windows!Spec => []Windows!CreditBounded
<1>1. Windows!Init => FlowInv
  BY DEF Windows!Init, FlowInv, Windows!TypeOK, Windows!CreditBounded
<1>2. QED
  BY <1>1, FlowStep, PTL DEF Windows!Spec, FlowInv

\* A reader that stops reading keeps at most WINDOWSIZE bytes, although the list
\* of its queue has no limit of its own.
THEOREM BufferIsBounded == ASSUME WINDOWSIZE \in Nat PROVE Windows!Spec => []Windows!BufferBounded
<1>1. Windows!Init => FlowInv
  BY DEF Windows!Init, FlowInv, Windows!TypeOK, Windows!CreditBounded
<1>2. ASSUME FlowInv PROVE Windows!BufferBounded
  <2> SUFFICES ASSUME NEW c \in Dirs
               PROVE  buffer[c] <= WINDOWSIZE /\ window[c] <= WINDOWSIZE
    BY DEF Windows!BufferBounded
  <2>1. {window[c], flight[c], buffer[c], owed[c], credit[c]} \subseteq Nat
    BY <1>2 DEF FlowInv, Windows!TypeOK
  <2>2. window[c] + flight[c] + buffer[c] + owed[c] + credit[c] <= WINDOWSIZE
    BY <1>2 DEF FlowInv, Windows!CreditBounded
  <2>3. QED
    BY <2>1, <2>2
<1>3. QED
  BY <1>1, <1>2, FlowStep, PTL DEF Windows!Spec
-----------------------------------------------------------------------------
(* The pool of the tunnels. *)

Labels == {"idle", "new", "create", "add", "spawn", "min", "scan", "dial", "error"}
Job == [for : {"first", "fill", "grow"}, tries : Int,
        made : Tunnels \cup {NoTunnel}]

Shape ==
    /\ tunpool \subseteq Tunnels
    /\ open \subseteq Tunnels
    /\ tun \in [Tunnels -> {"none", "made", "running", "ended"}]
    /\ pc \in [Procs -> Labels]
    /\ job \in [Procs -> Job]
    /\ creators \in Int

\* The goroutines between Create and sessRun.
Adding == {p \in Procs : pc[p] \in {"add", "spawn"}}

\* Each has a tunnel of its own, made and not yet running.
OwnTunnel ==
    /\ \A p \in Adding : job[p].made \in Tunnels /\ tun[job[p].made] = "made"
    /\ \A p, q \in Adding : p # q => job[p].made # job[q].made

\* Between Add and sessRun the tunnel is in the pool unless it has been closed.
AddedOrClosed ==
    \A p \in Procs : pc[p] = "spawn" /\ job[p].made \in open => job[p].made \in tunpool

PoolInv == Shape /\ OwnTunnel /\ AddedOrClosed /\ LiveTunnelsPooled

\* NewDialer starts with an empty pool and nobody in newTunnel.
LEMMA InitPool == Init => PoolInv
  BY PoolAssumption DEF Init, PoolInv, Shape, OwnTunnel, AddedOrClosed, LiveTunnelsPooled,
     Adding, NoJob, Job, Labels, Procs

\* Steps of Get, balance and getMinimum leave the tunnels alone and lead to no
\* place between Create and sessRun.
LEMMA QuietStep ==
    ASSUME PoolInv, NEW p \in Procs, pc[p] \notin {"add", "spawn"},
           UNCHANGED <<tunpool, tun, open>>,
           creators' \in Int,
           NEW l \in Labels \ {"add", "spawn"}, NEW j \in Job,
           pc' = pc \/ pc' = [pc EXCEPT ![p] = l],
           job' = job \/ job' = [job EXCEPT ![p] = j]
    PROVE  PoolInv'
  <1>1. Shape'
    BY DEF PoolInv, Shape
  <1>2. \A q \in Procs : /\ pc[q] \in {"add", "spawn"} <=> pc'[q] \in {"add", "spawn"}
                         /\ pc'[q] \in {"add", "spawn"} => pc'[q] = pc[q] /\ job'[q] = job[q]
    BY DEF PoolInv, Shape
  <1>3. Adding' = Adding /\ \A q \in Adding : job'[q] = job[q]
    BY <1>2 DEF Adding
  <1>4. OwnTunnel'
    BY <1>3 DEF PoolInv, OwnTunnel
  <1>5. AddedOrClosed'
    BY <1>2 DEF PoolInv, AddedOrClosed
  <1>6. LiveTunnelsPooled'
    BY DEF PoolInv, LiveTunnelsPooled
  <1> QED
    BY <1>1, <1>4, <1>5, <1>6 DEF PoolInv

\* Steps of the tunnels and of CutAll leave the goroutines alone; a tunnel they
\* take out of the pool is closed or has ended.
LEMMA TunnelStepInv ==
    ASSUME PoolInv, UNCHANGED <<pc, job, creators>>,
           tunpool' \subseteq tunpool, open' \subseteq open,
           tun' \in [Tunnels -> {"none", "made", "running", "ended"}],
           \A t \in Tunnels : /\ tun[t] = "made" <=> tun'[t] = "made"
                              /\ tun'[t] = "running" => tun[t] = "running"
                              /\ t \in tunpool /\ t \notin tunpool' =>
                                   t \notin open' \/ tun[t] = "ended"
    PROVE  PoolInv'
  <1>1. Shape' /\ Adding' = Adding
    BY DEF PoolInv, Shape, Adding
  <1>2. OwnTunnel'
    BY <1>1 DEF PoolInv, OwnTunnel
  <1>3. AddedOrClosed'
    <2> SUFFICES ASSUME NEW p \in Procs, pc[p] = "spawn", job[p].made \in open'
                 PROVE  job[p].made \in tunpool'
      BY DEF AddedOrClosed
    <2>1. job[p].made \in Tunnels /\ tun[job[p].made] = "made"
      BY DEF PoolInv, OwnTunnel, Adding
    <2>2. job[p].made \in tunpool
      BY DEF PoolInv, AddedOrClosed
    <2> QED
      BY <2>1, <2>2
  <1>4. LiveTunnelsPooled'
    BY DEF PoolInv, LiveTunnelsPooled
  <1> QED
    BY <1>1, <1>2, <1>3, <1>4 DEF PoolInv

\* Every step keeps PoolInv: the three steps of newTunnel that handle the new
\* tunnel one by one, the others by the two lemmas above.
LEMMA PoolStep == PoolInv /\ [Next]_vars => PoolInv'
  <1> SUFFICES ASSUME PoolInv, [Next]_vars PROVE PoolInv'
    OBVIOUS
  <1> USE DEF tunnelVars
  <1>0. /\ NoJob \in Job
        /\ \A r \in {"fill", "grow", "first"} : [for |-> r, tries |-> 0, made |-> NoTunnel] \in Job
        /\ \A p \in Procs : /\ [job[p] EXCEPT !.tries = DIAL_RETRY * creators] \in Job
                            /\ [job[p] EXCEPT !.tries = @ - 1] \in Job
                            /\ \A t \in Tunnels : [for |-> job[p].for, tries |-> 0, made |-> t] \in Job
    <2>1. NoJob \in Job /\ \A r \in {"fill", "grow", "first"} : [for |-> r, tries |-> 0, made |-> NoTunnel] \in Job
      BY DEF Job, NoJob
    <2>2. ASSUME NEW p \in Procs
          PROVE  /\ [job[p] EXCEPT !.tries = DIAL_RETRY * creators] \in Job
                 /\ [job[p] EXCEPT !.tries = @ - 1] \in Job
                 /\ \A t \in Tunnels : [for |-> job[p].for, tries |-> 0, made |-> t] \in Job
      <3>1. PICK j \in Job : j = job[p]
        BY DEF PoolInv, Shape
      <3>2. DIAL_RETRY * creators \in Int /\ j.tries - 1 \in Int
        BY DEF PoolInv, Shape, DIAL_RETRY, Job
      <3>3. \A k \in Int : [j EXCEPT !.tries = k] \in Job
        BY DEF Job
      <3>4. \A t \in Tunnels : [for |-> j.for, tries |-> 0, made |-> t] \in Job
        BY DEF Job
      <3> QED
        BY <3>1, <3>2, <3>3, <3>4
    <2> QED
      BY <2>1, <2>2
  <1>1. CASE AddDialerCreator
    <2>1. creators' \in Int /\ Balancer \in Procs /\ tunpool' = tunpool /\ open' = open
          /\ tun' = tun /\ pc' = pc /\ job' = job
      BY <1>1 DEF AddDialerCreator, PoolInv, Shape, Procs
    <2>2. Shape' /\ OwnTunnel' /\ AddedOrClosed' /\ LiveTunnelsPooled'
      BY <2>1 DEF PoolInv, Shape, OwnTunnel, Adding, AddedOrClosed, LiveTunnelsPooled
    <2> QED
      BY <2>2 DEF PoolInv
  <1>2. ASSUME NEW p \in Callers, Get(p) PROVE PoolInv'
    BY <1>0, <1>2, QuietStep, Zenon DEF Get, CallNewTunnel, Goto, Procs, Labels, PoolInv, Shape
  <1>3. CASE Balance
    BY <1>0, <1>3, QuietStep, Zenon DEF Balance, CallNewTunnel, Goto, Procs, Labels, PoolInv, Shape
  <1>4. CASE BalancePicks
    BY <1>0, <1>4, QuietStep, Zenon DEF BalancePicks, CallNewTunnel, Goto, Procs, Labels, PoolInv, Shape
  <1>5. CASE CutAll
    BY <1>5, TunnelStepInv DEF CutAll, PoolInv, Shape
  <1>6. ASSUME NEW t \in Tunnels, TunnelStep(t) PROVE PoolInv'
    <2>1. CASE StreamEnds(t) \/ ConnectionBreaks(t)
      BY <2>1, TunnelStepInv DEF StreamEnds, ConnectionBreaks, PoolInv, Shape
    <2>2. CASE LoopEnds(t)
      BY <2>2, TunnelStepInv DEF LoopEnds, PoolInv, Shape
    <2>3. CASE Remove(t)
      BY <2>3, TunnelStepInv DEF Remove, PoolInv, Shape
    <2> QED
      BY <1>6, <2>1, <2>2, <2>3 DEF TunnelStep
  <1>7. ASSUME NEW p \in Procs, Proceed(p) PROVE PoolInv'
    <2>1. CASE NewTunnelLock(p)
      BY <1>0, <2>1, QuietStep, ZenonT(30) DEF NewTunnelLock, Returned, Goto, Labels, PoolInv, Shape
    <2>2. ASSUME NEW t \in Tunnels, CreateOK(p, t) PROVE PoolInv'
      <3>1. /\ tunpool' = tunpool /\ creators' = creators
            /\ tun' = [tun EXCEPT ![t] = "made"] /\ open' = open \cup {t}
            /\ pc' = [pc EXCEPT ![p] = "add"]
            /\ job' = [job EXCEPT ![p] = [for |-> job[p].for, tries |-> 0, made |-> t]]
            /\ tun[t] = "none" /\ pc[p] = "create"
        BY <2>2 DEF CreateOK, Goto, PoolInv, Shape
      <3>2. Shape'
        BY <1>0, <3>1, Zenon DEF PoolInv, Shape, Labels
      <3>3. Adding' = Adding \cup {p} /\ job'[p].made = t /\ tun'[t] = "made" /\ p \notin Adding
            /\ \A q \in Adding : job'[q] = job[q] /\ job[q].made # t
        BY <3>1 DEF PoolInv, Shape, OwnTunnel, Adding, Labels, Job
      <3>4. OwnTunnel'
        BY <3>1, <3>3 DEF PoolInv, Shape, OwnTunnel
      <3>5. AddedOrClosed'
        <4> SUFFICES ASSUME NEW q \in Procs, pc'[q] = "spawn", job'[q].made \in open'
                     PROVE  job'[q].made \in tunpool'
          BY DEF AddedOrClosed
        <4>1. q \in Adding /\ q # p /\ pc[q] = "spawn"
          BY <3>1 DEF PoolInv, Shape, Adding
        <4>2. job'[q] = job[q] /\ job[q].made \in open
          BY <3>1, <3>3, <4>1
        <4> QED
          BY <3>1, <4>1, <4>2 DEF PoolInv, AddedOrClosed
      <3>6. LiveTunnelsPooled'
        BY <3>1 DEF PoolInv, Shape, LiveTunnelsPooled
      <3> QED
        BY <3>2, <3>4, <3>5, <3>6 DEF PoolInv
    <2>3. CASE CreateFails(p)
      BY <1>0, <2>3, QuietStep, Zenon DEF CreateFails, Goto, Labels, PoolInv, Shape
    <2>4. CASE Add(p)
      <3>1. /\ tunpool' = tunpool \cup {job[p].made} /\ pc[p] = "add"
            /\ tun' = tun /\ open' = open /\ job' = job /\ creators' = creators
            /\ pc' = [pc EXCEPT ![p] = "spawn"]
        BY <2>4 DEF Add, Goto
      <3>2. job[p].made \in Tunnels
        BY <3>1 DEF PoolInv, OwnTunnel, Adding
      <3>3. Shape' /\ Adding' = Adding
        BY <3>1, <3>2 DEF PoolInv, Shape, Adding, Labels
      <3>4. OwnTunnel'
        BY <3>1, <3>3 DEF PoolInv, OwnTunnel
      <3>5. AddedOrClosed' /\ LiveTunnelsPooled'
        BY <3>1 DEF PoolInv, Shape, AddedOrClosed, LiveTunnelsPooled
      <3> QED
        BY <3>3, <3>4, <3>5 DEF PoolInv
    <2>5. CASE Spawn(p)
      <3>1. /\ tunpool' = tunpool /\ pc[p] = "spawn" /\ open' = open /\ creators' = creators
            /\ tun' = [tun EXCEPT ![job[p].made] = "running"]
            /\ job' = [job EXCEPT ![p] = NoJob]
        BY <2>5 DEF Spawn
      <3>2. \E l \in {"idle", "min"} : pc' = [pc EXCEPT ![p] = l]
        BY <2>5, Zenon DEF Spawn, Returned, Goto
      <3>3. Shape' /\ Adding' = Adding \ {p} /\ p \in Adding
            /\ \A q \in Adding' : job'[q] = job[q] /\ job[q].made # job[p].made
        BY <1>0, <3>1, <3>2 DEF PoolInv, Shape, Adding, Labels, OwnTunnel
      <3>4. OwnTunnel'
        BY <3>1, <3>3 DEF PoolInv, Shape, OwnTunnel
      <3>5. AddedOrClosed'
        BY <3>1, <3>2, <3>3 DEF PoolInv, Shape, AddedOrClosed, Adding
      <3>6. LiveTunnelsPooled'
        BY <3>1 DEF PoolInv, Shape, AddedOrClosed, LiveTunnelsPooled
      <3> QED
        BY <3>3, <3>4, <3>5, <3>6 DEF PoolInv
    <2>6. CASE MinimumLock(p)
      BY <1>0, <2>6, QuietStep, Zenon DEF MinimumLock, Goto, Labels, PoolInv, Shape
    <2>7. ASSUME NEW t \in Tunnels, MinimumAsk(p, t) PROVE PoolInv'
      BY <1>0, <2>7, QuietStep, Zenon DEF MinimumAsk, Labels, PoolInv, Shape
    <2>8. CASE GetPicks(p)
      BY <1>0, <2>8, QuietStep, Zenon DEF GetPicks, Goto, Labels, PoolInv, Shape
    <2>9. CASE Dial(p)
      BY <1>0, <2>9, QuietStep, Zenon DEF Dial, Goto, Labels, PoolInv, Shape
    <2>10. CASE ReportError(p)
      BY <1>0, <2>10, QuietStep, Zenon DEF ReportError, Goto, Labels, PoolInv, Shape
    <2> QED
      BY <1>7, <2>1, <2>2, <2>3, <2>4, <2>5, <2>6, <2>7, <2>8, <2>9, <2>10 DEF Proceed
  <1>8. CASE UNCHANGED vars
    BY <1>8 DEF vars, PoolInv, Shape, OwnTunnel, Adding, AddedOrClosed, LiveTunnelsPooled
  <1> QED
    BY <1>1, <1>2, <1>3, <1>4, <1>5, <1>6, <1>7, <1>8 DEF Next

\* connpool: whatever newTunnel, CutAll and sessRun do to each other, a tunnel
\* whose Loop runs on an open connection is in the pool.
THEOREM PoolKnowsLive == Spec => []LiveTunnelsPooled
  <1>1. PoolInv => LiveTunnelsPooled
    BY DEF PoolInv
  <1> QED
    BY InitPool, PoolStep, <1>1, PTL DEF Spec

-----------------------------------------------------------------------------
JobRec == [for : {"first", "fill", "grow"}, tries : 0 .. DIAL_RETRY * NCreators,
           made : Tunnels \cup {NoTunnel}]
ScanRec == [todo : SUBSET Tunnels, size : -1 .. MaxSize, best : Tunnels \cup {NoTunnel}]

\* The goroutine that connects, and no other, holds dialer.lock, and it has a try left:
\* without this a failing Create could count its tries below zero.
Connecting ==
    \A p \in Procs : /\ lock = p <=> pc[p] = "create"
                     /\ pc[p] = "create" => job[p].tries > 0

TypeInv == TypeOK /\ Connecting

\* A step of one goroutine that writes values of the right kind.
LEMMA GoTyped ==
    ASSUME TypeInv, NEW p \in Procs, NEW l \in Labels, NEW j \in JobRec, NEW s \in ScanRec,
           pc' = pc \/ pc' = [pc EXCEPT ![p] = l],
           job' = job \/ job' = [job EXCEPT ![p] = j],
           scan' = scan \/ scan' = [scan EXCEPT ![p] = s],
           lock' = lock \/ (lock = p /\ lock' = NoOne) \/ (lock = NoOne /\ lock' = p),
           lock' = p <=> pc'[p] = "create",
           pc'[p] = "create" => job'[p].tries > 0,
           tunpool' \subseteq Tunnels, open' \subseteq Tunnels, creators' = creators,
           tun' \in [Tunnels -> {"none", "made", "running", "ended"}],
           size' \in [Tunnels -> 0 .. MaxSize]
    PROVE  TypeInv'
<1>1. /\ pc \in [Procs -> Labels] /\ job \in [Procs -> JobRec] /\ scan \in [Procs -> ScanRec]
      /\ lock \in Procs \cup {NoOne} /\ creators \in 0 .. NCreators
      /\ Connecting
    BY DEF TypeInv, TypeOK, Labels, JobRec, ScanRec
<1>2. /\ pc' \in [Procs -> Labels] /\ job' \in [Procs -> JobRec] /\ scan' \in [Procs -> ScanRec]
      /\ \A q \in Procs : q # p => pc'[q] = pc[q] /\ job'[q] = job[q]
    BY <1>1
<1>3. NoOne \notin Procs
    BY PoolAssumption DEF Procs
<1>4. Connecting'
    BY <1>1, <1>2, <1>3 DEF Connecting
<1>5. TypeOK'
    BY <1>1, <1>2 DEF TypeOK, Labels, JobRec, ScanRec
<1> QED
    BY <1>4, <1>5 DEF TypeInv

\* A step that leaves the goroutines and dialer.lock alone.
LEMMA RestTyped ==
    ASSUME TypeInv, UNCHANGED <<pc, job, scan, lock>>,
           tunpool' \subseteq Tunnels, open' \subseteq Tunnels, creators' \in 0 .. NCreators,
           tun' \in [Tunnels -> {"none", "made", "running", "ended"}],
           size' \in [Tunnels -> 0 .. MaxSize]
    PROVE  TypeInv'
<1>1. TypeOK'
    BY DEF TypeInv, TypeOK
<1>2. Connecting'
    BY DEF TypeInv, Connecting
<1> QED
    BY <1>1, <1>2 DEF TypeInv

\* The records that the steps of a goroutine write.
LEMMA Records ==
    ASSUME TypeInv, NEW p \in Procs
    PROVE  /\ job[p] \in JobRec /\ scan[p] \in ScanRec /\ NoJob \in JobRec /\ NoScan \in ScanRec
           /\ \A r \in {"first", "fill", "grow"} :
                 [for |-> r, tries |-> 0, made |-> NoTunnel] \in JobRec
           /\ \A t \in Tunnels : [for |-> job[p].for, tries |-> 0, made |-> t] \in JobRec
           /\ [job[p] EXCEPT !.tries = DIAL_RETRY * creators] \in JobRec
           /\ job[p].tries > 0 => [job[p] EXCEPT !.tries = job[p].tries - 1] \in JobRec
           /\ [NoScan EXCEPT !.todo = tunpool] \in ScanRec
<1>1. PICK j \in JobRec : j = job[p]
    BY DEF TypeInv, TypeOK, JobRec
<1>2. PICK s \in ScanRec : s = scan[p]
    BY DEF TypeInv, TypeOK, ScanRec
<1>3. 0 \in 0 .. DIAL_RETRY * NCreators /\ DIAL_RETRY * creators \in 0 .. DIAL_RETRY * NCreators
    BY PoolAssumption DEF TypeInv, TypeOK, DIAL_RETRY
<1>4. j.tries > 0 => j.tries - 1 \in 0 .. DIAL_RETRY * NCreators
    BY PoolAssumption DEF JobRec, DIAL_RETRY
<1>5. \A k \in 0 .. DIAL_RETRY * NCreators : [j EXCEPT !.tries = k] \in JobRec
    BY DEF JobRec
<1>6. \A r \in {"first", "fill", "grow"}, t \in Tunnels \cup {NoTunnel} :
          [for |-> r, tries |-> 0, made |-> t] \in JobRec
    BY <1>3 DEF JobRec
<1>7. j.for \in {"first", "fill", "grow"}
    BY DEF JobRec
<1>8. NoScan \in ScanRec
    BY PoolAssumption DEF NoScan, ScanRec
<1>9. [NoScan EXCEPT !.todo = tunpool] \in ScanRec
    BY <1>8, Zenon DEF ScanRec, TypeInv, TypeOK
<1> QED
    BY <1>1, <1>2, <1>3, <1>4, <1>5, <1>6, <1>7, <1>8, <1>9 DEF NoJob

\* A goroutine that does not connect and does not begin to: dialer.lock is another's.
LEMMA IdleTyped ==
    ASSUME TypeInv, NEW p \in Procs, NEW l \in Labels \ {"create"}, NEW j \in JobRec, NEW s \in ScanRec,
           pc[p] # "create",
           pc' = pc \/ pc' = [pc EXCEPT ![p] = l],
           job' = job \/ job' = [job EXCEPT ![p] = j],
           scan' = scan \/ scan' = [scan EXCEPT ![p] = s],
           lock' = lock,
           tunpool' \subseteq Tunnels, open' = open, creators' = creators,
           tun' \in [Tunnels -> {"none", "made", "running", "ended"}],
           size' \in [Tunnels -> 0 .. MaxSize]
    PROVE  TypeInv'
<1>1. pc \in [Procs -> Labels] /\ open \subseteq Tunnels /\ (lock = p <=> pc[p] = "create")
    BY DEF TypeInv, TypeOK, Connecting, Labels
<1>2. /\ lock' = p <=> pc'[p] = "create"
      /\ pc'[p] = "create" => job'[p].tries > 0
    BY <1>1
<1>3. l \in Labels /\ open' \subseteq Tunnels
    BY <1>1
<1> QED
    BY <1>2, <1>3, GoTyped

\* getMinimum asks a tunnel.
LEMMA AskTyped ==
    ASSUME TypeInv, NEW p \in Procs, NEW t \in Tunnels
    PROVE  /\ [todo |-> scan[p].todo \ {t}, best |-> t, size |-> size[t]] \in ScanRec
           /\ [scan[p] EXCEPT !.todo = scan[p].todo \ {t}] \in ScanRec
<1>1. PICK s \in ScanRec : s = scan[p]
    BY Records, Zenon
<1>2. size[t] \in -1 .. MaxSize
    BY PoolAssumption DEF TypeInv, TypeOK
<1>3. [todo |-> s.todo \ {t}, best |-> t, size |-> size[t]] \in ScanRec
    BY <1>2 DEF ScanRec
<1>4. [s EXCEPT !.todo = s.todo \ {t}] \in ScanRec
    BY DEF ScanRec
<1> QED
    BY <1>1, <1>3, <1>4

\* Every step of a goroutine in Dial or balance.
LEMMA ProceedTyped == ASSUME TypeInv, PoolInv, NEW p \in Procs, Proceed(p) PROVE TypeInv'
<1> USE DEF tunnelVars
<1>0. /\ tunpool \subseteq Tunnels /\ open \subseteq Tunnels
      /\ tun \in [Tunnels -> {"none", "made", "running", "ended"}]
      /\ size \in [Tunnels -> 0 .. MaxSize] /\ pc \in [Procs -> Labels]
      /\ job \in [Procs -> JobRec] /\ scan \in [Procs -> ScanRec]
      /\ creators \in 0 .. NCreators /\ NoOne \notin Procs
      /\ lock = p <=> pc[p] = "create"
      /\ pc[p] = "create" => job[p].tries > 0
    BY PoolAssumption DEF TypeInv, TypeOK, Labels, JobRec, ScanRec, Connecting, Procs
<1>1. CASE NewTunnelLock(p)
    <2>1. CASE lock' = lock
        <3>1. pc' = [pc EXCEPT ![p] = "error"] \/ pc' = [pc EXCEPT ![p] = "min"] \/ pc' = [pc EXCEPT ![p] = "idle"]
            BY <1>0, <1>1, <2>1 DEF NewTunnelLock, Returned, Goto
        <3>2. /\ pc[p] = "new" /\ job' = job /\ scan' = scan
              /\ UNCHANGED <<tunpool, tun, open, size, creators>>
            BY <1>0, <1>1, <2>1 DEF NewTunnelLock
        <3>3. {"error", "min", "idle"} \subseteq Labels \ {"create"}
            BY DEF Labels
        <3>4. job[p] \in JobRec /\ scan[p] \in ScanRec
            BY <1>0
        <3> QED
            BY <1>0, <2>1, <3>1, <3>2, <3>3, <3>4, IdleTyped
    <2>2. CASE lock' # lock
        <3> DEFINE j == [job[p] EXCEPT !.tries = DIAL_RETRY * creators]
        <3>1. /\ lock = NoOne /\ lock' = p /\ creators > 0
              /\ job' = [job EXCEPT ![p] = j]
              /\ pc' = [pc EXCEPT ![p] = "create"] /\ scan' = scan
              /\ UNCHANGED <<tunpool, tun, open, size, creators>>
            BY <1>1, <2>2 DEF NewTunnelLock, Goto
        <3>2. j \in JobRec
            BY Records, Zenon
        <3>3. j.tries = DIAL_RETRY * creators
            BY <1>0 DEF JobRec
        <3>4. j.tries > 0
            BY <1>0, <3>1, <3>3, PoolAssumption DEF DIAL_RETRY
        <3> HIDE DEF j
        <3>5. pc'[p] = "create" /\ job'[p].tries > 0 /\ "create" \in Labels
            BY <1>0, <3>1, <3>4 DEF Labels
        <3>6. scan[p] \in ScanRec
            BY <1>0
        <3> QED
            BY <1>0, <3>1, <3>2, <3>5, <3>6, GoTyped, Zenon
    <2> QED
        BY <2>1, <2>2
<1>2. ASSUME NEW t \in Tunnels, CreateOK(p, t) PROVE TypeInv'
    <2> DEFINE j == [for |-> job[p].for, tries |-> 0, made |-> t]
    <2>1. /\ tun' = [tun EXCEPT ![t] = "made"] /\ open' = open \cup {t}
          /\ job' = [job EXCEPT ![p] = j]
          /\ lock = p /\ lock' = NoOne /\ pc' = [pc EXCEPT ![p] = "add"] /\ scan' = scan
          /\ UNCHANGED <<tunpool, size, creators>>
        BY <1>0, <1>2 DEF CreateOK, Goto
    <2>2. j \in JobRec /\ scan[p] \in ScanRec /\ "add" \in Labels
        BY Records, Zenon DEF Labels
    <2>3. /\ lock' = p <=> pc'[p] = "create"
          /\ pc'[p] = "create" => job'[p].tries > 0
          /\ tun' \in [Tunnels -> {"none", "made", "running", "ended"}] /\ open' \subseteq Tunnels
        BY <1>0, <2>1
    <2> HIDE DEF j
    <2> QED
        BY <1>0, <2>1, <2>2, <2>3, GoTyped, Zenon
<1>3. CASE CreateFails(p)
    <2> DEFINE j == [job[p] EXCEPT !.tries = job[p].tries - 1]
    <2>1. /\ job' = [job EXCEPT ![p] = j] /\ lock = p /\ scan' = scan /\ pc[p] = "create"
          /\ IF job[p].tries = 1 THEN lock' = NoOne /\ pc' = [pc EXCEPT ![p] = "error"]
                                 ELSE lock' = lock /\ pc' = pc
          /\ UNCHANGED <<tunpool, tun, open, size, creators>>
        BY <1>0, <1>3 DEF CreateFails, Goto
    <2>2. j \in JobRec /\ scan[p] \in ScanRec /\ "error" \in Labels
        BY <1>0, <2>1, Records, Zenon DEF Labels
    <2>3. j.tries = job[p].tries - 1 /\ job[p].tries \in Int
        BY <1>0 DEF JobRec
    <2> HIDE DEF j
    <2>4. job'[p] = j
        BY <1>0, <2>1
    <2>5. CASE job[p].tries = 1
        <3>1. /\ lock' = NoOne /\ pc' = [pc EXCEPT ![p] = "error"]
              /\ lock' = p <=> pc'[p] = "create"
              /\ pc'[p] = "create" => job'[p].tries > 0
            BY <1>0, <2>1, <2>5
        <3> QED
            BY <1>0, <2>1, <2>2, <3>1, GoTyped, Zenon
    <2>6. CASE job[p].tries # 1
        <3>1. job'[p].tries > 0
            BY <1>0, <2>1, <2>3, <2>4, <2>6
        <3>2. /\ lock' = lock /\ pc' = pc
              /\ lock' = p <=> pc'[p] = "create"
              /\ pc'[p] = "create" => job'[p].tries > 0
            BY <1>0, <2>1, <2>6, <3>1
        <3> QED
            BY <1>0, <2>1, <2>2, <3>2, GoTyped, Zenon
    <2> QED
        BY <2>5, <2>6
<1>4. CASE Add(p)
    <2>1. job[p].made \in Tunnels
        BY <1>4 DEF Add, PoolInv, OwnTunnel, Adding
    <2>2. /\ pc[p] = "add" /\ pc' = [pc EXCEPT ![p] = "spawn"] /\ tunpool' \subseteq Tunnels
          /\ UNCHANGED <<tun, open, size, lock, creators, job, scan>>
        BY <1>0, <1>4, <2>1 DEF Add, Goto
    <2>3. job[p] \in JobRec /\ scan[p] \in ScanRec /\ "spawn" \in Labels \ {"create"}
        BY <1>0 DEF Labels
    <2> QED
        BY <1>0, <2>2, <2>3, IdleTyped, Zenon
<1>5. CASE Spawn(p)
    <2>1. /\ pc[p] = "spawn" /\ job' = [job EXCEPT ![p] = NoJob]
          /\ tun' = [tun EXCEPT ![job[p].made] = "running"]
          /\ pc' = [pc EXCEPT ![p] = "min"] \/ pc' = [pc EXCEPT ![p] = "idle"]
          /\ UNCHANGED <<tunpool, open, size, lock, creators, scan>>
        BY <1>5, Zenon DEF Spawn, Goto, Returned
    <2>2. tun' \in [Tunnels -> {"none", "made", "running", "ended"}]
        BY <1>0, <2>1, Zenon
    <2>3. NoJob \in JobRec /\ scan[p] \in ScanRec /\ {"min", "idle"} \subseteq Labels \ {"create"}
        BY Records, Zenon DEF Labels
    <2> QED
        BY <1>0, <2>1, <2>2, <2>3, IdleTyped, Zenon
<1>6. CASE MinimumLock(p)
    <2> DEFINE s == [NoScan EXCEPT !.todo = tunpool]
    <2>1. /\ pc[p] = "min" /\ pc' = [pc EXCEPT ![p] = "scan"] /\ scan' = [scan EXCEPT ![p] = s]
          /\ UNCHANGED <<tunpool, tun, open, size, lock, creators, job>>
        BY <1>6 DEF MinimumLock, Goto
    <2>2. job[p] \in JobRec /\ s \in ScanRec /\ "scan" \in Labels \ {"create"}
        BY Records, Zenon DEF Labels
    <2> HIDE DEF s
    <2> QED
        BY <1>0, <2>1, <2>2, IdleTyped, Zenon
<1>7. ASSUME NEW t \in Tunnels, MinimumAsk(p, t) PROVE TypeInv'
    <2>1. pc[p] = "scan" /\ UNCHANGED <<tunpool, tun, open, size, lock, creators, pc, job>>
        BY <1>7 DEF MinimumAsk
    <2>2. PICK s \in ScanRec : scan' = [scan EXCEPT ![p] = s]
        <3>1. CASE scan[p].size = -1 \/ size[t] < scan[p].size
            <4>1. scan' = [scan EXCEPT ![p] = [todo |-> scan[p].todo \ {t}, best |-> t, size |-> size[t]]]
                BY <1>7, <3>1, Zenon DEF MinimumAsk
            <4> QED
                BY <4>1, AskTyped, Zenon
        <3>2. CASE ~(scan[p].size = -1 \/ size[t] < scan[p].size)
            <4>1. scan' = [scan EXCEPT ![p] = [scan[p] EXCEPT !.todo = scan[p].todo \ {t}]]
                BY <1>7, <3>2 DEF MinimumAsk
            <4> QED
                BY <4>1, AskTyped, Zenon
        <3> QED
            BY <3>1, <3>2
    <2>3. job[p] \in JobRec /\ "scan" \in Labels \ {"create"}
        BY <1>0 DEF Labels
    <2> QED
        BY <1>0, <2>1, <2>2, <2>3, IdleTyped, Zenon
<1>8. CASE GetPicks(p)
    <2>1. /\ pc[p] = "scan" /\ UNCHANGED <<tunpool, tun, open, size, lock, creators, job, scan>>
          /\ pc' = [pc EXCEPT ![p] = "error"] \/ pc' = [pc EXCEPT ![p] = "dial"]
        BY <1>8, Zenon DEF GetPicks, Goto
    <2>2. job[p] \in JobRec /\ scan[p] \in ScanRec /\ {"error", "dial"} \subseteq Labels \ {"create"}
        BY <1>0 DEF Labels
    <2> QED
        BY <1>0, <2>1, <2>2, IdleTyped
<1>9. CASE Dial(p)
    <2>1. /\ pc[p] = "dial" /\ UNCHANGED <<tunpool, tun, open, lock, creators, job>>
          /\ pc' = [pc EXCEPT ![p] = "error"] \/ pc' = [pc EXCEPT ![p] = "idle"]
          /\ scan' = [scan EXCEPT ![p] = NoScan]
        BY <1>9 DEF Dial, Goto
    <2>2. \/ size' = size
          \/ /\ scan[p].best \in open /\ size[scan[p].best] < MaxSize
             /\ size' = [size EXCEPT ![scan[p].best] = size[scan[p].best] + 1]
        BY <1>9 DEF Dial
    <2>3. size' \in [Tunnels -> 0 .. MaxSize]
        <3>1. \A t \in Tunnels : size[t] < MaxSize => size[t] + 1 \in 0 .. MaxSize
            BY <1>0, PoolAssumption
        <3> QED
            BY <1>0, <2>2, <3>1
    <2>4. job[p] \in JobRec /\ NoScan \in ScanRec /\ {"error", "idle"} \subseteq Labels \ {"create"}
        BY Records, Zenon DEF Labels
    <2> QED
        BY <1>0, <2>1, <2>3, <2>4, IdleTyped, Zenon
<1>10. CASE ReportError(p)
    <2>1. /\ pc[p] = "error" /\ UNCHANGED <<tunpool, tun, open, size, lock, creators>>
          /\ pc' = [pc EXCEPT ![p] = "idle"] /\ job' = [job EXCEPT ![p] = NoJob]
          /\ scan' = [scan EXCEPT ![p] = NoScan]
        BY <1>10 DEF ReportError, Goto
    <2>2. NoJob \in JobRec /\ NoScan \in ScanRec /\ "idle" \in Labels \ {"create"}
        BY Records, Zenon DEF Labels
    <2> QED
        BY <1>0, <2>1, <2>2, IdleTyped, Zenon
<1> QED
    BY <1>1, <1>2, <1>3, <1>4, <1>5, <1>6, <1>7, <1>8, <1>9, <1>10 DEF Proceed

\* Every step.
LEMMA TypedStep == ASSUME TypeInv, PoolInv, [Next]_vars PROVE TypeInv'
<1> USE DEF tunnelVars
<1>0. /\ tunpool \subseteq Tunnels /\ open \subseteq Tunnels
      /\ tun \in [Tunnels -> {"none", "made", "running", "ended"}]
      /\ size \in [Tunnels -> 0 .. MaxSize] /\ creators \in 0 .. NCreators
      /\ Balancer \in Procs /\ Callers \subseteq Procs
    BY DEF TypeInv, TypeOK, Procs
<1>1. CASE AddDialerCreator
    <2>1. creators' \in 0 .. NCreators
        BY <1>0, <1>1, PoolAssumption DEF AddDialerCreator
    <2> QED
        BY <1>0, <1>1, <2>1, RestTyped DEF AddDialerCreator
<1>2. ASSUME NEW p \in Procs, pc[p] \in {"idle", "scan"}, NEW r \in {"first", "fill", "grow"},
             NEW l \in {"min", "idle"},
             CallNewTunnel(p, r) \/ (Goto(p, l) /\ UNCHANGED job),
             scan' = scan \/ scan' = [scan EXCEPT ![p] = NoScan],
             UNCHANGED <<tunnelVars, lock, creators>>
      PROVE  TypeInv'
    <2> DEFINE j == [for |-> r, tries |-> 0, made |-> NoTunnel]
    <2>1. j \in JobRec /\ NoScan \in ScanRec /\ {l, "new"} \subseteq Labels \ {"create"}
        BY Records, Zenon DEF Labels
    <2>2. \/ job' = [job EXCEPT ![p] = j] /\ pc' = [pc EXCEPT ![p] = "new"]
          \/ job' = job /\ pc' = [pc EXCEPT ![p] = l]
        BY <1>2 DEF CallNewTunnel, Goto
    <2> HIDE DEF j
    <2> QED
        BY <1>0, <1>2, <2>1, <2>2, IdleTyped
<1>3. ASSUME NEW p \in Callers, Get(p) PROVE TypeInv'
    <2>1. /\ pc[p] = "idle" /\ scan' = scan /\ UNCHANGED <<tunnelVars, lock, creators>>
          /\ CallNewTunnel(p, "first") \/ (Goto(p, "min") /\ UNCHANGED job)
        BY <1>3 DEF Get
    <2> QED
        BY <1>0, <1>2, <2>1
<1>4. CASE Balance
    <2>1. /\ pc[Balancer] = "idle" /\ scan' = scan /\ UNCHANGED <<tunnelVars, lock, creators>>
          /\ CallNewTunnel(Balancer, "fill") \/ (Goto(Balancer, "min") /\ UNCHANGED job)
        BY <1>4 DEF Balance
    <2> QED
        BY <1>0, <1>2, <2>1
<1>5. CASE BalancePicks
    <2>1. /\ pc[Balancer] = "scan" /\ scan' = [scan EXCEPT ![Balancer] = NoScan]
          /\ UNCHANGED <<tunnelVars, lock, creators>>
          /\ CallNewTunnel(Balancer, "grow") \/ (Goto(Balancer, "idle") /\ UNCHANGED job)
        BY <1>5 DEF BalancePicks
    <2> QED
        BY <1>0, <1>2, <2>1, Zenon
<1>6. CASE CutAll
    BY <1>0, <1>6, RestTyped DEF CutAll
<1>7. ASSUME NEW t \in Tunnels, TunnelStep(t) PROVE TypeInv'
    <2>1. CASE StreamEnds(t)
        <3>1. size' \in [Tunnels -> 0 .. MaxSize]
            BY <1>0, <2>1, PoolAssumption DEF StreamEnds
        <3> QED
            BY <1>0, <2>1, <3>1, RestTyped DEF StreamEnds
    <2>2. CASE ConnectionBreaks(t)
        BY <1>0, <2>2, RestTyped DEF ConnectionBreaks
    <2>3. CASE LoopEnds(t)
        <3>1. /\ size' \in [Tunnels -> 0 .. MaxSize]
              /\ tun' \in [Tunnels -> {"none", "made", "running", "ended"}]
            BY <1>0, <2>3, PoolAssumption DEF LoopEnds
        <3> QED
            BY <1>0, <2>3, <3>1, RestTyped DEF LoopEnds
    <2>4. CASE Remove(t)
        BY <1>0, <2>4, RestTyped DEF Remove
    <2> QED
        BY <1>7, <2>1, <2>2, <2>3, <2>4 DEF TunnelStep
<1>8. CASE UNCHANGED vars
    BY <1>0, <1>8, RestTyped DEF vars
<1> QED
    BY <1>1, <1>3, <1>4, <1>5, <1>6, <1>7, <1>8, ProceedTyped DEF Next

\* PoolInv and TypeInv together are inductive.
LEMMA TypeInvHolds == Spec => []TypeInv
<1>1. Init => TypeInv
    <2>1. Init => TypeOK
        BY PoolAssumption DEF Init, TypeOK, NoJob, NoScan, DIAL_RETRY
    <2>2. Init => Connecting
        BY PoolAssumption DEF Init, Connecting, Procs
    <2> QED
        BY <2>1, <2>2 DEF TypeInv
<1>2. PoolInv /\ TypeInv /\ [Next]_vars => PoolInv' /\ TypeInv'
    BY PoolStep, TypedStep
<1> QED
    BY InitPool, <1>1, <1>2, PTL DEF Spec

\* connpool: the tries of newTunnel stay between zero and DIAL_RETRY rounds over the
\* servers, the sizes getMinimum compares are sizes of tunnels, and what Add puts into
\* the pool is a tunnel, never nil (dialer.go:97-135, pool.go:57-71).
THEOREM PoolTypes == Spec => []TypeOK
<1>1. TypeInv => TypeOK
    BY DEF TypeInv
<1> QED
    BY TypeInvHolds, <1>1, PTL

\* connpool: at most one goroutine at a time connects to a server, and dialer.lock is
\* free whenever nobody does: newTunnel releases it on each of its ways out
\* (dialer.go:99-125).
THEOREM OneConnects == Spec => []Connecting
<1>1. TypeInv => Connecting
    BY DEF TypeInv
<1> QED
    BY TypeInvHolds, <1>1, PTL
=============================================================================
