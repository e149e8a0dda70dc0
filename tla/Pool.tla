-------------------------------- MODULE Pool --------------------------------
(***************************************************************************)
(* The client's pool of tunnels (connpool/pool.go, dialer.go).  Callers    *)
(* run Dialer.Dial, one goroutine runs balance every 60 seconds, and each  *)
(* tunnel in use has a goroutine in sessRun that removes it when its Loop  *)
(* ends.                                                                   *)
(*                                                                         *)
(* Two locks matter.  dialer.lock is held while Create connects and        *)
(* authenticates, and is released before the new tunnel is added.          *)
(* pool.lock guards tunpool: getMinimum holds it for reading while it asks *)
(* the tunnels, one after the other, how many streams they carry.          *)
(*                                                                         *)
(* A tunnel here is the number of its streams and whether its connection   *)
(* is open.  The name of a tunnel that nothing refers to any more is used  *)
(* for the next one.                                                       *)
(***************************************************************************)
EXTENDS Integers, FiniteSets

CONSTANTS Callers,      \* goroutines that use Dialer.Dial
          Balancer,     \* the goroutine in Dialer.loop
          Tunnels,      \* bound: tunnels that exist at the same time
          NCreators,    \* servers of the configuration
          MinSess, MaxConn,
          MaxSize,      \* bound: streams of a tunnel
          NoTunnel,     \* nil
          NoOne         \* the holder of a lock that is free

ASSUME PoolAssumption ==
    /\ Balancer \notin Callers
    /\ NCreators \in Nat
    /\ MinSess \in Nat
    /\ MaxConn \in Nat
    /\ MaxSize \in Nat
    /\ NoTunnel \notin Tunnels
    /\ NoOne \notin Callers \cup {Balancer}

DIAL_RETRY == 2
Procs == Callers \cup {Balancer}

VARIABLES
    tunpool,   \* the tunnels in the pool
    tun,       \* per tunnel: where its life is
    open,      \* the tunnels whose connection is open
    size,      \* per tunnel: Fabric.GetSize, its streams
    lock,      \* the holder of dialer.lock
    creators,  \* number of creators added so far
    pc,        \* per goroutine: where it is
    job,       \* what newTunnel was called for, tries left, tunnel made
    scan       \* getMinimum: tunnels not yet asked, best one, its size

vars == <<tunpool, tun, open, size, lock, creators, pc, job, scan>>
tunnelVars == <<tunpool, tun, open, size>>

NoJob == [for |-> "first", tries |-> 0, made |-> NoTunnel]
NoScan == [todo |-> {}, best |-> NoTunnel, size |-> -1]

TypeOK ==
    /\ tunpool \subseteq Tunnels
    /\ tun \in [Tunnels -> {"none", "made", "running", "ended"}]
    /\ open \subseteq Tunnels
    /\ size \in [Tunnels -> 0 .. MaxSize]
    /\ lock \in Procs \cup {NoOne}
    /\ creators \in 0 .. NCreators
    /\ pc \in [Procs -> {"idle", "new", "create", "add", "spawn", "min",
                         "scan", "dial", "error"}]
    /\ job \in [Procs -> [for : {"first", "fill", "grow"},
                          tries : 0 .. DIAL_RETRY * NCreators,
                          made : Tunnels \cup {NoTunnel}]]
    /\ scan \in [Procs -> [todo : SUBSET Tunnels, size : -1 .. MaxSize,
                           best : Tunnels \cup {NoTunnel}]]

Init ==
    /\ tunpool = {}
    /\ tun = [t \in Tunnels |-> "none"]
    /\ open = {}
    /\ size = [t \in Tunnels |-> 0]
    /\ lock = NoOne
    /\ creators = 0
    /\ pc = [p \in Procs |-> "idle"]
    /\ job = [p \in Procs |-> NoJob]
    /\ scan = [p \in Procs |-> NoScan]

Goto(p, l) == pc' = [pc EXCEPT ![p] = l]

\* pool.lock can be taken for writing: no goroutine is inside getMinimum.
Writable == \A p \in Procs : pc[p] # "scan"

\* The three calls of newTunnel: from Get (create is true), and from balance for
\* MinSess and for MaxConn.
CallNewTunnel(p, reason) ==
    /\ job' = [job EXCEPT ![p] = [for |-> reason, tries |-> 0, made |-> NoTunnel]]
    /\ Goto(p, "new")
-----------------------------------------------------------------------------
AddDialerCreator ==
    /\ creators < NCreators
    /\ lock = NoOne
    /\ creators' = creators + 1
    /\ UNCHANGED <<tunnelVars, lock, pc, job, scan>>

\* Dialer.Get up to the first look at the size of the pool.
Get(p) ==
    /\ pc[p] = "idle"
    /\ IF tunpool = {} THEN CallNewTunnel(p, "first")
                       ELSE Goto(p, "min") /\ UNCHANGED job
    /\ UNCHANGED <<tunnelVars, lock, creators, scan>>

\* (faulty variant) One tunnel less than MinSess is good enough.
Balance_OffByOne ==
    /\ pc[Balancer] = "idle"
    /\ IF Cardinality(tunpool) + 1 < MinSess
         THEN CallNewTunnel(Balancer, "fill")
         ELSE Goto(Balancer, "min") /\ UNCHANGED job
    /\ UNCHANGED <<tunnelVars, lock, creators, scan>>

\* Dialer.balance up to the same point.
Balance ==
    /\ pc[Balancer] = "idle"
    /\ IF Cardinality(tunpool) < MinSess
         THEN CallNewTunnel(Balancer, "fill")
         ELSE Goto(Balancer, "min") /\ UNCHANGED job
    /\ UNCHANGED <<tunnelVars, lock, creators, scan>>

\* Where newTunnel returns to, with or without an error.
Returned(p) == IF job[p].for = "grow" THEN "idle" ELSE "min"

\* newTunnel takes dialer.lock and decides whether to connect.
NewTunnelLock(p) ==
    /\ pc[p] = "new" /\ lock = NoOne
    /\ \/ /\ job[p].for = "first" /\ tunpool # {}
          /\ Goto(p, Returned(p))
          /\ UNCHANGED <<lock, job>>
       \/ /\ ~(job[p].for = "first" /\ tunpool # {})
          /\ creators = 0
          /\ Goto(p, "error")
          /\ UNCHANGED <<lock, job>>
       \/ /\ ~(job[p].for = "first" /\ tunpool # {})
          /\ creators > 0
          /\ lock' = p
          /\ job' = [job EXCEPT ![p].tries = DIAL_RETRY * creators]
          /\ Goto(p, "create")
    /\ UNCHANGED <<tunnelVars, creators, scan>>

\* DialerCreator.Create has made a tunnel; dialer.lock is released.
CreateOK(p, t) ==
    /\ pc[p] = "create"
    /\ tun[t] = "none" /\ \A q \in Procs : scan[q].best # t
    /\ tun' = [tun EXCEPT ![t] = "made"]
    /\ open' = open \cup {t}
    /\ job' = [job EXCEPT ![p] = [for |-> @.for, tries |-> 0, made |-> t]]
    /\ lock' = NoOne
    /\ Goto(p, "add")
    /\ UNCHANGED <<tunpool, size, creators, scan>>

\* (faulty variant) The lock is not released on the error path.
CreateFails_KeepsLock(p) ==
    /\ pc[p] = "create"
    /\ job' = [job EXCEPT ![p].tries = @ - 1]
    /\ IF job[p].tries = 1 THEN Goto(p, "error") ELSE UNCHANGED pc
    /\ UNCHANGED <<tunnelVars, lock, creators, scan>>

\* (faulty variant) The last round is not the last.
CreateFails_OneMore(p) ==
    /\ pc[p] = "create"
    /\ job' = [job EXCEPT ![p].tries = @ - 1]
    /\ IF job[p].tries = 0
         THEN lock' = NoOne /\ Goto(p, "error")
         ELSE UNCHANGED <<lock, pc>>
    /\ UNCHANGED <<tunnelVars, creators, scan>>

\* Create has failed; after DIAL_RETRY rounds over the creators so has newTunnel.
CreateFails(p) ==
    /\ pc[p] = "create"
    /\ job' = [job EXCEPT ![p].tries = @ - 1]
    /\ IF job[p].tries = 1
         THEN lock' = NoOne /\ Goto(p, "error")
         ELSE UNCHANGED <<lock, pc>>
    /\ UNCHANGED <<tunnelVars, creators, scan>>

Add(p) ==
    /\ pc[p] = "add" /\ Writable
    /\ tunpool' = tunpool \cup {job[p].made}
    /\ Goto(p, "spawn")
    /\ UNCHANGED <<tun, open, size, lock, creators, job, scan>>

\* go sessRun(tun), the last thing newTunnel does.
Spawn(p) ==
    /\ pc[p] = "spawn"
    /\ tun' = [tun EXCEPT ![job[p].made] = "running"]
    /\ Goto(p, Returned(p))
    /\ job' = [job EXCEPT ![p] = NoJob]
    /\ UNCHANGED <<tunpool, open, size, lock, creators, scan>>
-----------------------------------------------------------------------------
(* getMinimum and what its two callers do with the result. *)

MinimumLock(p) ==
    /\ pc[p] = "min"
    /\ scan' = [scan EXCEPT ![p] = [NoScan EXCEPT !.todo = tunpool]]
    /\ Goto(p, "scan")
    /\ UNCHANGED <<tunnelVars, lock, creators, job>>

MinimumAsk(p, t) ==
    /\ pc[p] = "scan" /\ t \in scan[p].todo
    /\ scan' = [scan EXCEPT ![p] =
                  IF @.size = -1 \/ size[t] < @.size
                    THEN [todo |-> @.todo \ {t}, best |-> t, size |-> size[t]]
                    ELSE [@ EXCEPT !.todo = scan[p].todo \ {t}]]
    /\ UNCHANGED <<tunnelVars, lock, creators, pc, job>>

\* Get: a tunnel to dial with, or ErrNoSession.
GetPicks(p) ==
    /\ p \in Callers /\ pc[p] = "scan" /\ scan[p].todo = {}
    /\ Goto(p, IF scan[p].best = NoTunnel THEN "error" ELSE "dial")
    /\ UNCHANGED <<tunnelVars, lock, creators, job, scan>>

\* (faulty variant) The pool only grows when its busiest tunnel is far over.
BalancePicks_OffByOne ==
    /\ pc[Balancer] = "scan" /\ scan[Balancer].todo = {}
    /\ IF scan[Balancer].size > MaxConn + 1
         THEN CallNewTunnel(Balancer, "grow")
         ELSE Goto(Balancer, "idle") /\ UNCHANGED job
    /\ scan' = [scan EXCEPT ![Balancer] = NoScan]
    /\ UNCHANGED <<tunnelVars, lock, creators>>

\* balance: another tunnel when even the least loaded one is over MaxConn.
BalancePicks ==
    /\ pc[Balancer] = "scan" /\ scan[Balancer].todo = {}
    /\ IF scan[Balancer].size > MaxConn
         THEN CallNewTunnel(Balancer, "grow")
         ELSE Goto(Balancer, "idle") /\ UNCHANGED job
    /\ scan' = [scan EXCEPT ![Balancer] = NoScan]
    /\ UNCHANGED <<tunnelVars, lock, creators>>

\* Dialer.Dial opens a stream in its tunnel, or fails to (it always fails when
\* the tunnel has been closed meanwhile).
Dial(p) ==
    /\ pc[p] = "dial"
    /\ \/ /\ scan[p].best \in open
          /\ size[scan[p].best] < MaxSize
          /\ size' = [size EXCEPT ![scan[p].best] = @ + 1]
          /\ Goto(p, "idle")
       \/ /\ Goto(p, "error")
          /\ UNCHANGED size
    /\ scan' = [scan EXCEPT ![p] = NoScan]
    /\ UNCHANGED <<tunpool, tun, open, lock, creators, job>>

\* The error of Dial or balance is returned (balance: logged).
ReportError(p) ==
    /\ pc[p] = "error"
    /\ job' = [job EXCEPT ![p] = NoJob]
    /\ scan' = [scan EXCEPT ![p] = NoScan]
    /\ Goto(p, "idle")
    /\ UNCHANGED <<tunnelVars, lock, creators>>
-----------------------------------------------------------------------------
\* A stream is closed; the connection of a tunnel breaks.
StreamEnds(t) ==
    /\ size[t] > 0
    /\ size' = [size EXCEPT ![t] = @ - 1]
    /\ UNCHANGED <<tunpool, tun, open, lock, creators, pc, job, scan>>

ConnectionBreaks(t) ==
    /\ t \in open
    /\ open' = open \ {t}
    /\ UNCHANGED <<tunpool, tun, size, lock, creators, pc, job, scan>>

\* (faulty variant) The pool is emptied and the tunnels are left running.
CutAll_NoClose ==
    /\ Writable
    /\ tunpool' = {}
    /\ UNCHANGED <<tun, open, size, lock, creators, pc, job, scan>>

\* Pool.CutAll, from the admin page.
CutAll ==
    /\ Writable
    /\ open' = open \ tunpool
    /\ tunpool' = {}
    /\ UNCHANGED <<tun, size, lock, creators, pc, job, scan>>

\* Loop ends and resets the streams of the tunnel (Fabric.Loop, Fabric.Close).
LoopEnds(t) ==
    /\ tun[t] = "running" /\ t \notin open
    /\ tun' = [tun EXCEPT ![t] = "ended"]
    /\ size' = [size EXCEPT ![t] = 0]
    /\ UNCHANGED <<tunpool, open, lock, creators, pc, job, scan>>

\* (faulty variant) A tunnel that has ended stays in the pool.
Remove_Forgets(t) ==
    /\ tun[t] = "ended" /\ Writable
    /\ tun' = [tun EXCEPT ![t] = "none"]
    /\ UNCHANGED <<tunpool, open, size, lock, creators, pc, job, scan>>

\* The deferred Remove of sessRun: ErrSessionNotFound after a CutAll.
Remove(t) ==
    /\ tun[t] = "ended" /\ Writable
    /\ tunpool' = tunpool \ {t}
    /\ tun' = [tun EXCEPT ![t] = "none"]
    /\ UNCHANGED <<open, size, lock, creators, pc, job, scan>>
-----------------------------------------------------------------------------
\* The steps that a goroutine in Dial or balance takes once it has begun.
Proceed(p) ==
    \/ NewTunnelLock(p)
    \/ \E t \in Tunnels : CreateOK(p, t)
    \/ CreateFails(p)
    \/ Add(p)
    \/ Spawn(p)
    \/ MinimumLock(p)
    \/ \E t \in Tunnels : MinimumAsk(p, t)
    \/ GetPicks(p)
    \/ Dial(p)
    \/ ReportError(p)

TunnelStep(t) ==
    \/ StreamEnds(t)
    \/ ConnectionBreaks(t)
    \/ LoopEnds(t)
    \/ Remove(t)

Next ==
    \/ AddDialerCreator
    \/ \E p \in Callers : Get(p)
    \/ \E p \in Procs : Proceed(p)
    \/ Balance
    \/ BalancePicks
    \/ CutAll
    \/ \E t \in Tunnels : TunnelStep(t)

\* A goroutine that can go on does.  A Go mutex goes to the one that has waited
\* longest, so whoever needs a lock gets it (strong fairness); a waiting writer
\* keeps new readers out, so overlapping readers do not hold pool.lock for ever
\* ([]<>Writable).  Create ends, by the timeouts of the connection and of the
\* authentication.  A caller need not call Get again, but the sleep in
\* Dialer.loop ends.
Fairness ==
    /\ []<>Writable
    /\ \A p \in Callers : SF_vars(Proceed(p))
    /\ SF_vars(Balance \/ Proceed(Balancer) \/ BalancePicks)
    /\ \A t \in Tunnels : SF_vars(LoopEnds(t) \/ Remove(t))

Spec == Init /\ [][Next]_vars
FairSpec == Spec /\ Fairness
-----------------------------------------------------------------------------
\* The pool knows every tunnel that works: one whose Loop runs on an open
\* connection can be chosen by getMinimum and is closed by CutAll, although
\* Add, CutAll, Remove and the start of sessRun are separate steps.
LiveTunnelsPooled ==
    \A t \in Tunnels : tun[t] = "running" /\ t \in open => t \in tunpool

\* A tunnel whose connection has ended leaves the pool (sessRun), so that
\* callers of Dial do not keep choosing it, as idle as it is.
DeadTunnelsLeave ==
    \A t \in Tunnels : t \in tunpool /\ t \notin open ~> t \notin tunpool

\* Dialer.Dial returns, whoever else waits for dialer.lock while a server
\* does not answer, and whatever happens to the tunnel it has chosen.
CallersReturn ==
    \A p \in Callers : pc[p] # "idle" ~> pc[p] = "idle"

\* balance: a pool smaller than MinSess is filled, or balance has an error to
\* report (no server could be reached).
PoolRefilled ==
    Cardinality(tunpool) < MinSess
        ~> Cardinality(tunpool) >= MinSess \/ pc[Balancer] = "error"

\* balance: when all tunnels carry more than MaxConn streams another one is
\* made, or the overload ends by itself, or balance has an error to report.
Overloaded == tunpool # {} /\ \A t \in tunpool : size[t] > MaxConn

OverloadRelieved == Overloaded ~> ~Overloaded \/ pc[Balancer] = "error"
=============================================================================
