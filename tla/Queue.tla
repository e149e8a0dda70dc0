------------------------------- MODULE Queue -------------------------------
(***************************************************************************)
(* The receive queue of a tunnel connection (tunnel/queue.go): a list      *)
(* under a mutex with one condition variable ev.  The goroutines of        *)
(* Poppers call Pop, anybody calls Push and Close.                         *)
(*                                                                         *)
(* A call holds q.lock from its first line to its return or to ev.Wait(),  *)
(* so that is one step.  Wait releases the lock: the goroutine is then     *)
(* "waiting" until a Signal or the Broadcast makes it "woken", and a woken *)
(* goroutine competes for the lock with every new caller of Pop before it  *)
(* looks at the list again.                                                *)
(***************************************************************************)
EXTENDS Naturals, Sequences, FiniteSets

CONSTANTS Poppers,   \* the goroutines that call Pop
          MaxPush    \* bound: how many values are pushed in a behaviour

ASSUME QueueAssumption == /\ IsFiniteSet(Poppers)
                          /\ MaxPush \in Nat

VARIABLES queue,     \* q.queue: the values pushed and not yet removed
          closed,    \* q.closed
          popper,    \* per goroutine of Poppers: outside Pop, in ev.Wait, or notified
          pushed,    \* how many values were pushed; the n-th one is n
          eof        \* some Pop has returned io.EOF

queueVars == <<queue, closed, popper, pushed, eof>>

Waiting == {p \in Poppers : popper[p] = "waiting"}
Woken == {p \in Poppers : popper[p] = "woken"}

\* NewQueue
QueueInit == /\ queue = <<>>
             /\ closed = FALSE
             /\ popper = [p \in Poppers |-> "out"]
             /\ pushed = 0
             /\ eof = FALSE

\* sync.Cond: Signal wakes one of the waiting goroutines if there is one ...
Signal == IF Waiting = {}
            THEN UNCHANGED popper
            ELSE \E p \in Waiting : popper' = [popper EXCEPT ![p] = "woken"]

\* ... and Broadcast wakes all of them.
Broadcast == popper' = [p \in Poppers |-> IF popper[p] = "waiting" THEN "woken" ELSE popper[p]]
-----------------------------------------------------------------------------
Enqueue == /\ pushed < MaxPush
           /\ pushed' = pushed + 1
           /\ queue' = Append(queue, pushed')
           /\ UNCHANGED <<closed, eof>>

\* Faulty variants of Push: no Signal, no test of closed.
Push_NoSignal == ~closed /\ Enqueue /\ UNCHANGED popper
Push_AfterClose == Enqueue /\ Signal

\* Push: ErrClosedPipe, with no effect, once the queue is closed.
Push == ~closed /\ Enqueue /\ Signal

\* The loop of Pop, entered by a caller or resumed by a woken one: take the
\* front, or return io.EOF, or return nothing, or wait.
Take(p) == /\ queue # <<>>
           /\ queue' = Tail(queue)
           /\ popper' = [popper EXCEPT ![p] = "out"]
           /\ UNCHANGED <<closed, pushed, eof>>

ReturnEOF(p) == /\ queue = <<>>
                /\ closed
                /\ popper' = [popper EXCEPT ![p] = "out"]
                /\ eof' = TRUE
                /\ UNCHANGED <<queue, closed, pushed>>

Wait(p) == /\ queue = <<>>
           /\ ~closed
           /\ popper' = [popper EXCEPT ![p] = "waiting"]
           /\ UNCHANGED <<queue, closed, pushed, eof>>

\* Pop(block).  A call with block = FALSE that finds nothing returns at once
\* and changes nothing, so it is not a step.
Pop(p, block) == /\ popper[p] = "out"
                 /\ \/ Take(p)
                    \/ ReturnEOF(p)
                    \/ block /\ Wait(p)

\* ev.Wait returns with the lock held and the loop runs once more.
Resume(p) == /\ popper[p] = "woken"
             /\ Take(p) \/ ReturnEOF(p) \/ Wait(p)

\* Faulty variant of Close: Signal instead of Broadcast.
Close_Signal == /\ ~closed
                /\ closed' = TRUE
                /\ Signal
                /\ UNCHANGED <<queue, pushed, eof>>

\* Close: the second call has no effect.
Close == /\ ~closed
         /\ closed' = TRUE
         /\ Broadcast
         /\ UNCHANGED <<queue, pushed, eof>>

QueueNext == \/ Push
             \/ Close
             \/ \E p \in Poppers : Resume(p) \/ \E block \in BOOLEAN : Pop(p, block)

\* A goroutine that was notified gets the mutex and runs: the Go scheduler and
\* sync.Mutex starve nobody.  Nobody has to call Push, Pop or Close.
QueueFairness == \A p \in Poppers : WF_queueVars(Resume(p))

QueueSpec == QueueInit /\ [][QueueNext]_queueVars /\ QueueFairness
-----------------------------------------------------------------------------
\* Types of the queue's state; values are numbered in the order of the pushes.
QueueTypes ==
    /\ queue \in Seq(Nat)
    /\ closed \in BOOLEAN
    /\ popper \in [Poppers -> {"out", "waiting", "woken"}]
    /\ pushed \in Nat
    /\ Len(queue) <= pushed
    /\ eof \in BOOLEAN

\* Push signals one goroutine per value and Close wakes them all (queue.go:33,
\* 64): while somebody still sleeps in ev.Wait the queue is open and every value
\* in it has a goroutine of its own that was woken and has not yet run, however
\* many other callers of Pop take values in between.
NoLostWakeup == Waiting # {} => /\ ~closed
                                /\ Len(queue) <= Cardinality(Woken)

\* After one reader was told io.EOF no reader gets data any more (queue.go:29-31,
\* 42-45): values pushed before Close are drained first, later ones are refused.
EOFIsFinal == eof => closed /\ queue = <<>>

\* A goroutine that sleeps in Pop when the queue is closed returns (queue.go:64).
CloseReleases == \A p \in Poppers : (closed /\ popper[p] = "waiting") ~> (popper[p] = "out")

\* A value that is in the queue while a goroutine sleeps in Pop is taken, even
\* when the goroutine woken for it finds that another caller was faster.
ValuesAreTaken == \A v \in 1..MaxPush :
    (Waiting # {} /\ v \in {queue[i] : i \in DOMAIN queue})
        ~> (v \notin {queue[i] : i \in DOMAIN queue})
=============================================================================
