---------------------------- MODULE Wire_proofs -----------------------------
(***************************************************************************)
(* Frames stay whole, for any number of streams, any capacity of the       *)
(* connection and any Writes.  The invariant follows one direction: the    *)
(* units on the wire are heads, each with its body behind it; a head whose *)
(* body is missing, on the wire or in the hands of Loop, is the one of the *)
(* goroutine that has wlock.  The last part is about a side that writes    *)
(* nothing: no window of its streams is ever renewed, so its Loop asks for *)
(* no Conn.lock.                                                           *)
(***************************************************************************)
EXTENDS Wire, SequenceTheorems, TLAPS

PC == {"next", "woken", "wait", "pop", "lock", "wlock", "err", "head", "body", "sent"}
FrameInt == [type : {"DATA", "WND"}, id : Streams, arg : Int]
UnitInt == [part : {"head", "body"}, frame : FrameInt] \cup {Garbage}

Types ==
    /\ proc \in [Proc -> [pc : PC, n : Int]]
    /\ left \in [Conn -> Int]
    /\ queue \in [Conn -> Int]
    /\ wlock \in [Side -> Proc \cup {Nobody}]
    /\ wire \in [Side -> Seq(UnitInt)]
    /\ loop \in [Side -> [pc : {"head", "body", "lock", "lost", "ended"},
                          frame : FrameInt \cup {NoFrame}]]
    /\ \A e \in Side : loop[e].pc \in {"body", "lock"} => loop[e].frame \in FrameInt
    /\ torn \in [Side -> BOOLEAN]
    /\ up \in BOOLEAN

\* Who writes has wlock.
Owner == \A p \in Proc : proc[p].pc \in {"head", "body", "sent"} => wlock[SideOf(p)] = p

BodyOf(f) == [part |-> "body", frame |-> f]
HeadOf(f) == [part |-> "head", frame |-> f]

\* Heads and bodies take turns, and a body belongs to the head before it.
Alternate(w) ==
    /\ \A i \in 1 .. Len(w) : w[i].part \in {"head", "body"}
    /\ \A i \in 1 .. Len(w) - 1 :
          /\ w[i].part = "head" => w[i + 1] = BodyOf(w[i].frame)
          /\ w[i].part = "body" => w[i + 1].part = "head"

\* The reader continues where Loop l is.
Expected(w, l) ==
    w # <<>> => IF l.pc = "body" THEN w[1] = BodyOf(l.frame) ELSE w[1].part = "head"

\* A head of frame f is the last that was written.
EndsWith(w, l, f) ==
    IF w = <<>> THEN l.pc = "body" /\ l.frame = f ELSE w[Len(w)] = HeadOf(f)
Unfinished(w, l) ==
    IF w = <<>> THEN l.pc = "body" ELSE w[Len(w)].part = "head"

\* The direction from side e, while nothing has failed.
Whole(e) ==
    LET w == wire[Peer(e)]
        l == loop[Peer(e)]
    IN
    up /\ ~torn[e] /\ l.pc # "ended" =>
        /\ Alternate(w)
        /\ Expected(w, l)
        /\ \A p \in Proc : SideOf(p) = e /\ proc[p].pc = "body" => EndsWith(w, l, FrameOf(p))
        /\ Unfinished(w, l) => \E p \in Proc : SideOf(p) = e /\ proc[p].pc = "body"

IInv == Types /\ Owner /\ FramesWhole /\ \A e \in Side : Whole(e)
-----------------------------------------------------------------------------
(* Facts about sides, goroutines and sequences. *)

\* Each side has one peer, and each goroutine belongs to a side.
LEMMA Sides ==
    /\ \A e \in Side : Peer(e) \in Side /\ Peer(e) # e /\ Peer(Peer(e)) = e
    /\ \A p \in Proc : SideOf(p) \in Side /\ p # Nobody /\ p[1] \in Conn
    /\ \A c \in Conn, k \in {"w", "r"} : <<c, k>> \in Proc /\ SideOf(<<c, k>>) = c[1]
BY DEF Side, Peer, Proc, Conn, SideOf, Nobody

\* The wire after a unit was taken from its front ...
LEMMA Tails ==
    ASSUME NEW S, NEW w \in Seq(S), w # <<>>
    PROVE  /\ Tail(w) \in Seq(S) /\ Len(w) \in Nat \ {0} /\ Len(Tail(w)) = Len(w) - 1
           /\ Head(w) = w[1] /\ w[1] \in S
           /\ \A i \in 1 .. Len(Tail(w)) : Tail(w)[i] = w[i + 1]
           /\ Tail(w) = <<>> <=> Len(w) = 1
<1>1. Len(w) \in Nat \ {0}
    BY EmptySeq
<1>2. /\ Tail(w) \in Seq(S) /\ Len(Tail(w)) = Len(w) - 1
      /\ \A i \in 1 .. Len(Tail(w)) : Tail(w)[i] = w[i + 1]
    BY HeadTailProperties
<1>3. Head(w) = w[1] /\ w[1] \in S
    BY <1>1, ElementOfSeq
<1>4. Tail(w) = <<>> => Len(w) = 1
    BY <1>1, <1>2, EmptySeq
<1>5. Tail(w) # <<>> => Len(Tail(w)) \in Nat \ {0}
    BY <1>2, EmptySeq
<1> QED
    BY <1>1, <1>2, <1>3, <1>4, <1>5

\* ... and after one was put to its end.
LEMMA Appends ==
    ASSUME NEW S, NEW w \in Seq(S), NEW u \in S
    PROVE  /\ Append(w, u) \in Seq(S) /\ Append(w, u) # <<>>
           /\ Len(w) \in Nat /\ Len(Append(w, u)) = Len(w) + 1
           /\ \A i \in 1 .. Len(w) : Append(w, u)[i] = w[i]
           /\ Append(w, u)[Len(w) + 1] = u
           /\ w = <<>> <=> Len(w) = 0
BY LenProperties, EmptySeq, AppendProperties

\* Loop reads the head of a frame: its body is what comes next (frame.go:45-48).
LEMMA TakeHead ==
    ASSUME NEW w \in Seq(UnitInt), w # <<>>, NEW l, l.pc # "body",
           Alternate(w), Expected(w, l)
    PROVE  LET l2 == [pc |-> "body", frame |-> Head(w).frame] IN
           /\ Head(w).part = "head"
           /\ Alternate(Tail(w))
           /\ Expected(Tail(w), l2)
           /\ \A f : EndsWith(w, l, f) => EndsWith(Tail(w), l2, f)
           /\ Unfinished(Tail(w), l2) => Unfinished(w, l)
<1> DEFINE l2 == [pc |-> "body", frame |-> Head(w).frame]
           t == Tail(w)
<1>1. /\ t \in Seq(UnitInt) /\ Len(w) \in Nat \ {0} /\ Len(t) = Len(w) - 1
      /\ Head(w) = w[1] /\ \A i \in 1 .. Len(t) : t[i] = w[i + 1]
      /\ t = <<>> <=> Len(w) = 1
    BY Tails
<1>2. w[1].part = "head" /\ l2.pc = "body" /\ l2.frame = w[1].frame
    BY <1>1 DEF Expected
<1> HIDE DEF t, l2
<1>3. Alternate(t)
    <2>1. \A i \in 1 .. Len(t) : t[i] = w[i + 1] /\ i + 1 \in 1 .. Len(w)
        BY <1>1
    <2>2. \A i \in 1 .. Len(t) : t[i].part \in {"head", "body"}
        BY <2>1 DEF Alternate
    <2>3. ASSUME NEW i \in 1 .. Len(t) - 1
          PROVE  /\ t[i].part = "head" => t[i + 1] = BodyOf(t[i].frame)
                 /\ t[i].part = "body" => t[i + 1].part = "head"
        <3>1. t[i] = w[i + 1] /\ t[i + 1] = w[(i + 1) + 1] /\ i + 1 \in 1 .. Len(w) - 1
            BY <1>1
        <3> QED
            BY <3>1 DEF Alternate
    <2> QED
        BY <2>2, <2>3 DEF Alternate
<1>4. Expected(t, l2)
    BY <1>1, <1>2 DEF Alternate, Expected
<1>5. t # <<>> => t[Len(t)] = w[Len(w)]
    BY <1>1, EmptySeq
<1>6. ASSUME NEW f, EndsWith(w, l, f) PROVE EndsWith(t, l2, f)
    BY <1>1, <1>2, <1>5, <1>6 DEF EndsWith, HeadOf
<1>7. Unfinished(t, l2) => Unfinished(w, l)
    BY <1>1, <1>2, <1>5 DEF Unfinished
<1> QED
    BY <1>1, <1>2, <1>3, <1>4, <1>6, <1>7 DEF t, l2

\* Loop reads the body: it is the one of the frame in its hands (frame.go:50-59).
LEMMA TakeBody ==
    ASSUME NEW w \in Seq(UnitInt), w # <<>>, NEW l, l.pc = "body",
           Alternate(w), Expected(w, l), NEW l2, l2.pc # "body"
    PROVE  /\ Head(w) = BodyOf(l.frame)
           /\ Alternate(Tail(w))
           /\ Expected(Tail(w), l2)
           /\ \A f : EndsWith(w, l, f) => EndsWith(Tail(w), l2, f)
           /\ Unfinished(Tail(w), l2) => Unfinished(w, l)
<1> DEFINE t == Tail(w)
<1>1. /\ t \in Seq(UnitInt) /\ Len(w) \in Nat \ {0} /\ Len(t) = Len(w) - 1
      /\ Head(w) = w[1] /\ \A i \in 1 .. Len(t) : t[i] = w[i + 1]
      /\ t = <<>> <=> Len(w) = 1
    BY Tails
<1>2. w[1] = BodyOf(l.frame) /\ w[1].part = "body"
    BY DEF Expected, BodyOf
<1> HIDE DEF t
<1>3. Alternate(t)
    <2>1. \A i \in 1 .. Len(t) : t[i] = w[i + 1] /\ i + 1 \in 1 .. Len(w)
        BY <1>1
    <2>2. \A i \in 1 .. Len(t) : t[i].part \in {"head", "body"}
        BY <2>1 DEF Alternate
    <2>3. ASSUME NEW i \in 1 .. Len(t) - 1
          PROVE  /\ t[i].part = "head" => t[i + 1] = BodyOf(t[i].frame)
                 /\ t[i].part = "body" => t[i + 1].part = "head"
        <3>1. t[i] = w[i + 1] /\ t[i + 1] = w[(i + 1) + 1] /\ i + 1 \in 1 .. Len(w) - 1
            BY <1>1
        <3> QED
            BY <3>1 DEF Alternate
    <2> QED
        BY <2>2, <2>3 DEF Alternate
<1>4. Expected(t, l2)
    BY <1>1, <1>2 DEF Alternate, Expected
<1>5. t # <<>> => t[Len(t)] = w[Len(w)]
    BY <1>1, EmptySeq
<1>6. ASSUME NEW f, EndsWith(w, l, f) PROVE EndsWith(t, l2, f)
    BY <1>1, <1>2, <1>5, <1>6 DEF EndsWith, HeadOf
<1>7. Unfinished(t, l2) => Unfinished(w, l)
    BY <1>1, <1>2, <1>5 DEF Unfinished
<1> QED
    BY <1>1, <1>2, <1>3, <1>4, <1>6, <1>7 DEF t

\* A head is written when no other frame is unfinished (fabric.go:114-118).
LEMMA PutHead ==
    ASSUME NEW w \in Seq(UnitInt), NEW l, NEW f \in FrameInt,
           Alternate(w), Expected(w, l), ~Unfinished(w, l)
    PROVE  /\ Alternate(Append(w, HeadOf(f)))
           /\ Expected(Append(w, HeadOf(f)), l)
           /\ EndsWith(Append(w, HeadOf(f)), l, f)
<1> DEFINE a == Append(w, HeadOf(f))
<1>1. HeadOf(f) \in UnitInt /\ HeadOf(f).part = "head"
    BY DEF HeadOf, UnitInt
<1>2. /\ a \in Seq(UnitInt) /\ a # <<>> /\ Len(w) \in Nat /\ Len(a) = Len(w) + 1
      /\ \A i \in 1 .. Len(w) : a[i] = w[i]
      /\ a[Len(w) + 1] = HeadOf(f)
      /\ w = <<>> <=> Len(w) = 0
    BY <1>1, Appends
<1> HIDE DEF a
<1>3. Len(w) # 0 => w[Len(w)].part = "body"
    BY <1>2 DEF Alternate, Unfinished
<1>4. Alternate(a)
    <2>1. \A i \in 1 .. Len(a) : a[i].part \in {"head", "body"}
        BY <1>1, <1>2 DEF Alternate
    <2>2. ASSUME NEW i \in 1 .. Len(a) - 1
          PROVE  /\ a[i].part = "head" => a[i + 1] = BodyOf(a[i].frame)
                 /\ a[i].part = "body" => a[i + 1].part = "head"
        <3>1. CASE i = Len(w)
            BY <1>1, <1>2, <1>3, <3>1
        <3>2. CASE i # Len(w)
            BY <1>2, <3>2 DEF Alternate
        <3> QED
            BY <3>1, <3>2
    <2> QED
        BY <2>1, <2>2 DEF Alternate
<1>5. Expected(a, l)
    BY <1>1, <1>2 DEF Expected, Unfinished
<1>6. EndsWith(a, l, f)
    BY <1>2 DEF EndsWith
<1> QED
    BY <1>4, <1>5, <1>6 DEF a

\* The body follows the head that the same goroutine has written.
LEMMA PutBody ==
    ASSUME NEW w \in Seq(UnitInt), NEW l, NEW f \in FrameInt,
           Alternate(w), Expected(w, l), EndsWith(w, l, f)
    PROVE  /\ Alternate(Append(w, BodyOf(f)))
           /\ Expected(Append(w, BodyOf(f)), l)
           /\ ~Unfinished(Append(w, BodyOf(f)), l)
<1> DEFINE a == Append(w, BodyOf(f))
<1>1. BodyOf(f) \in UnitInt /\ BodyOf(f).part = "body"
    BY DEF BodyOf, UnitInt
<1>2. /\ a \in Seq(UnitInt) /\ a # <<>> /\ Len(w) \in Nat /\ Len(a) = Len(w) + 1
      /\ \A i \in 1 .. Len(w) : a[i] = w[i]
      /\ a[Len(w) + 1] = BodyOf(f)
      /\ w = <<>> <=> Len(w) = 0
    BY <1>1, Appends
<1> HIDE DEF a
<1>3. Len(w) # 0 => w[Len(w)].part = "head" /\ w[Len(w)].frame = f
    BY <1>2 DEF EndsWith, HeadOf
<1>4. Alternate(a)
    <2>1. \A i \in 1 .. Len(a) : a[i].part \in {"head", "body"}
        BY <1>1, <1>2 DEF Alternate
    <2>2. ASSUME NEW i \in 1 .. Len(a) - 1
          PROVE  /\ a[i].part = "head" => a[i + 1] = BodyOf(a[i].frame)
                 /\ a[i].part = "body" => a[i + 1].part = "head"
        <3>1. CASE i = Len(w)
            BY <1>1, <1>2, <1>3, <3>1
        <3>2. CASE i # Len(w)
            BY <1>2, <3>2 DEF Alternate
        <3> QED
            BY <3>1, <3>2
    <2> QED
        BY <2>1, <2>2 DEF Alternate
<1>5. Expected(a, l)
    BY <1>1, <1>2 DEF Expected, EndsWith
<1>6. ~Unfinished(a, l)
    BY <1>1, <1>2 DEF Unfinished
<1> QED
    BY <1>4, <1>5, <1>6 DEF a
-----------------------------------------------------------------------------
(* The steps. *)

\* Steps that leave the wire and Loop alone, and no goroutine enters or leaves
\* the middle of a frame.
LEMMA Aside ==
    ASSUME IInv, wire' = wire, loop' = loop, torn' = torn, up' = up,
           \A p \in Proc : /\ proc'[p].pc = "body" <=> proc[p].pc = "body"
                           /\ proc[p].pc = "body" => proc'[p] = proc[p]
    PROVE  FramesWhole' /\ \A e \in Side : Whole(e)'
<1>1. FramesWhole'
    BY DEF IInv, FramesWhole
<1>2. ASSUME NEW e \in Side PROVE Whole(e)'
    <2>1. Whole(e)
        BY DEF IInv
    <2>2. \A p \in Proc : proc[p].pc = "body" => FrameOf(p)' = FrameOf(p)
        BY DEF FrameOf
    <2> QED
        BY <2>1, <2>2 DEF Whole
<1> QED
    BY <1>1, <1>2

\* Conn.Write and Conn.Read, up to SendFrame.
LEMMA UserIInv ==
    ASSUME IInv, NEW c \in Conn, UserStep(c)
    PROVE  IInv'
<1>1. <<c, "w">> \in Proc /\ <<c, "r">> \in Proc
    BY Sides
<1>2. PICK k \in {"w", "r"}, v \in [pc : {"wlock", "wait", "lock"}, n : Int] :
        /\ proc[<<c, k>>].pc \in {"next", "woken", "pop", "lock"}
        /\ proc' = [proc EXCEPT ![<<c, k>>] = v]
    <2>1. CASE WriteSlice(c)
        <3>1. Slice(left[c]) \in Int
            BY WireAssumption DEF IInv, Types, Slice, Min2
        <3> QED
            BY <2>1, <3>1 DEF WriteSlice
    <2>2. CASE ReadPops(c)
        <3>1. Min2(queue[c], BUFFERSIZE) \in Int
            BY WireAssumption DEF IInv, Types, Min2
        <3> QED
            BY <2>2, <3>1, Zenon DEF ReadPops
    <2>3. CASE ReadLocks(c)
        <3> DEFINE q == <<c, "r">>
        <3>1. proc[q] \in [pc : PC, n : Int]
            BY <1>1 DEF IInv, Types
        <3>2. [proc[q] EXCEPT !.pc = "wlock"] \in [pc : {"wlock"}, n : Int]
            BY <3>1
        <3>3. proc' = [proc EXCEPT ![q] = [proc[q] EXCEPT !.pc = "wlock"]]
            BY <2>3 DEF ReadLocks
        <3> QED
            BY <2>3, <3>2, <3>3, Zenon DEF ReadLocks
    <2> QED
        BY <2>1, <2>2, <2>3 DEF UserStep
<1>3. UNCHANGED <<left, wlock, wire, loop, torn, up>>
    BY DEF UserStep, WriteSlice, ReadPops, ReadLocks
<1>5. <<c, k>> \in Proc /\ \A q \in Proc : q # <<c, k>> => proc'[q] = proc[q]
    BY <1>1, <1>2, Zenon DEF IInv, Types
<1>6. proc' \in [Proc -> [pc : PC, n : Int]] /\ proc'[<<c, k>>].pc \in {"wlock", "wait", "lock"}
    BY <1>1, <1>2, Zenon DEF IInv, Types, PC
<1>7. queue' \in [Conn -> Int]
    <2>1. CASE ReadPops(c)
        BY <2>1, WireAssumption DEF ReadPops, IInv, Types, Min2
    <2>2. CASE ~ReadPops(c)
        BY <2>2 DEF UserStep, WriteSlice, ReadLocks, IInv, Types
    <2> QED
        BY <2>1, <2>2
<1>8. Types'
    BY <1>3, <1>6, <1>7 DEF IInv, Types
<1>9. Owner'
    BY <1>3, <1>5, <1>6 DEF IInv, Owner
<1>4. \A p \in Proc : /\ proc'[p].pc = "body" <=> proc[p].pc = "body"
                      /\ proc[p].pc = "body" => proc'[p] = proc[p]
    BY <1>2, <1>5, <1>6
<1> QED
    BY <1>3, <1>4, <1>8, <1>9, Aside DEF IInv

\* SendFrame gets wlock, or returns and gives it back.
LEMMA LockIInv ==
    ASSUME IInv, NEW p \in Proc, TakeWlock(p) \/ SendReturns(p)
    PROVE  IInv'
<1>1. p[1] \in Conn /\ SideOf(p) \in Side /\ SideOf(p) = p[1][1] /\ proc[p] \in [pc : PC, n : Int]
    BY Sides DEF IInv, Types, SideOf
<1>2. UNCHANGED <<queue, wire, loop, torn, up>>
    BY DEF TakeWlock, SendReturns
<1>3. /\ \A q \in Proc : q # p => proc'[q] = proc[q]
      /\ proc' \in [Proc -> [pc : PC, n : Int]]
      /\ proc[p].pc # "body" /\ proc'[p].pc # "body"
    <2> DEFINE h == [proc[p] EXCEPT !.pc = "head"]
               r == [pc |-> IF p[2] = "r" THEN "pop" ELSE "next", n |-> 0]
    <2>1. {h, r} \subseteq [pc : PC \ {"body"}, n : Int]
        BY <1>1 DEF PC
    <2>2. PICK v \in {h, r} : proc' = [proc EXCEPT ![p] = v]
        BY DEF TakeWlock, SendReturns
    <2>3. proc[p].pc # "body"
        BY DEF TakeWlock, SendReturns
    <2> HIDE DEF h, r
    <2> QED
        BY <2>1, <2>2, <2>3 DEF IInv, Types
<1>4. left' \in [Conn -> Int]
    BY <1>1 DEF TakeWlock, SendReturns, IInv, Types
<1>5. wlock' \in [Side -> Proc \cup {Nobody}]
    BY <1>1, Zenon DEF TakeWlock, SendReturns, IInv, Types
<1>6. Types'
    BY <1>2, <1>3, <1>4, <1>5 DEF IInv, Types
<1>7. Owner'
    <2> SUFFICES ASSUME NEW q \in Proc, proc'[q].pc \in {"head", "body", "sent"}
                 PROVE  wlock'[SideOf(q)] = q
        BY DEF Owner
    <2>1. SideOf(q) \in Side /\ q # Nobody
        BY Sides
    <2>2. CASE TakeWlock(p)
        <3>1. wlock[SideOf(p)] = Nobody /\ wlock' = [wlock EXCEPT ![SideOf(p)] = p]
            BY <2>2 DEF TakeWlock
        <3>2. CASE q = p
            BY <1>1, <3>1, <3>2 DEF IInv, Types
        <3>3. CASE q # p
            BY <1>1, <1>3, <2>1, <3>1, <3>3 DEF IInv, Types, Owner
        <3> QED
            BY <3>2, <3>3
    <2>3. CASE SendReturns(p)
        <3>1. /\ proc[p].pc = "sent" /\ wlock' = [wlock EXCEPT ![SideOf(p)] = Nobody]
              /\ proc'[p].pc \in {"pop", "next"}
            BY <1>1, <2>3 DEF SendReturns, IInv, Types
        <3>2. q # p /\ wlock[SideOf(p)] = p /\ wlock[SideOf(q)] = q
            BY <1>3, <3>1 DEF IInv, Owner
        <3> QED
            BY <1>1, <2>1, <3>1, <3>2 DEF IInv, Types
    <2> QED
        BY <2>2, <2>3
<1> QED
    BY <1>2, <1>3, <1>6, <1>7, Aside DEF IInv

\* A write that fails: the direction is torn, or the connection is gone.
LEMMA FailIInv ==
    ASSUME IInv, NEW p \in Proc, WriteTimeout(p) \/ WriteBroken(p)
    PROVE  IInv'
<1>1. SideOf(p) \in Side /\ p[1] \in Conn /\ proc[p] \in [pc : PC, n : Int]
    BY Sides DEF IInv, Types
<1>2. UNCHANGED <<left, queue, wire, loop, up>> /\ proc[p].pc \in {"head", "body"}
    BY DEF WriteTimeout, WriteBroken, SendFails
<1>3. /\ \A q \in Proc : q # p => proc'[q] = proc[q]
      /\ proc' \in [Proc -> [pc : PC, n : Int]]
      /\ proc'[p].pc = "err"
      /\ wlock' = [wlock EXCEPT ![SideOf(p)] = Nobody]
      /\ wlock' \in [Side -> Proc \cup {Nobody}]
    <2> DEFINE v == [proc[p] EXCEPT !.pc = "err"]
    <2>1. v \in [pc : PC, n : Int] /\ v.pc = "err"
        BY <1>1 DEF PC
    <2>2. proc' = [proc EXCEPT ![p] = v] /\ wlock' = [wlock EXCEPT ![SideOf(p)] = Nobody]
        BY DEF WriteTimeout, WriteBroken, SendFails
    <2> HIDE DEF v
    <2> QED
        BY <1>1, <2>1, <2>2 DEF IInv, Types
<1>4. /\ torn' \in [Side -> BOOLEAN]
      /\ \A e \in Side : torn[e] => torn'[e]
      /\ \A e \in Side : torn'[e] = torn[e] \/ e = SideOf(p)
      /\ up' => torn'[SideOf(p)]
    BY <1>1, <1>2, Zenon DEF WriteTimeout, WriteBroken, IInv, Types
<1>5. Types'
    BY <1>2, <1>3, <1>4, Zenon DEF IInv, Types
<1>6. wlock[SideOf(p)] = p
    BY <1>2 DEF IInv, Owner
<1>7. Owner'
    <2> SUFFICES ASSUME NEW q \in Proc, proc'[q].pc \in {"head", "body", "sent"}
                 PROVE  wlock'[SideOf(q)] = q
        BY DEF Owner
    <2>1. q # p /\ wlock[SideOf(q)] = q /\ SideOf(q) \in Side
        BY <1>3, Sides DEF IInv, Owner
    <2> QED
        BY <1>1, <1>3, <1>6, <2>1 DEF IInv, Types
<1>8. FramesWhole'
    BY <1>2, <1>4, Sides DEF IInv, FramesWhole
<1>9. ASSUME NEW e \in Side PROVE Whole(e)'
    <2>1. CASE e = SideOf(p)
        BY <1>4, <2>1 DEF Whole
    <2>2. CASE e # SideOf(p)
        <3>1. \A q \in Proc : SideOf(q) = e => q # p /\ FrameOf(q)' = FrameOf(q)
            BY <1>3, <2>2 DEF FrameOf
        <3>2. wlock'[e] = wlock[e] /\ torn'[e] = torn[e]
            BY <1>1, <1>3, <1>4, <2>2 DEF IInv, Types
        <3> QED
            BY <1>2, <1>3, <3>1, <3>2 DEF IInv, Whole
    <2> QED
        BY <2>1, <2>2
<1> QED
    BY <1>5, <1>7, <1>8, <1>9 DEF IInv

\* Conn.Write under wlock: the head, then the body.
LEMMA PutIInv ==
    ASSUME IInv, NEW p \in Proc, PutUnit(p)
    PROVE  IInv'
<1> DEFINE d == SideOf(p)
           r == Peer(d)
           f == FrameOf(p)
           u == [part |-> proc[p].pc, frame |-> f]
           v == [proc[p] EXCEPT !.pc = IF @ = "head" THEN "body" ELSE "sent"]
<1>1. d \in Side /\ r \in Side /\ p[1] \in Conn /\ proc[p] \in [pc : PC, n : Int]
    BY Sides DEF IInv, Types
<1>2. /\ UNCHANGED <<left, queue, wlock, loop, torn, up>>
      /\ proc[p].pc \in {"head", "body"}
      /\ proc' = [proc EXCEPT ![p] = v]
      /\ wire' = [wire EXCEPT ![r] = Append(wire[r], IF torn[d] THEN Garbage ELSE u)]
    BY DEF PutUnit
<1>3. /\ v \in [pc : PC, n : Int] /\ v.n = proc[p].n
      /\ v.pc = IF proc[p].pc = "head" THEN "body" ELSE "sent"
    BY <1>1 DEF PC
<1>4. f \in FrameInt /\ u \in UnitInt
    <2>1. p[1][2] \in Streams /\ proc[p].n \in Int
        BY <1>1 DEF Conn
    <2>2. f \in FrameInt
        BY <2>1 DEF FrameOf, FrameInt
    <2> QED
        BY <1>2, <2>2 DEF UnitInt
<1>5. FrameOf(p)' = f
    <2>1. proc'[p].n = proc[p].n
        BY <1>2, <1>3 DEF IInv, Types
    <2> QED
        BY <2>1 DEF FrameOf
<1> HIDE DEF f, u, v
<1>6. /\ proc' \in [Proc -> [pc : PC, n : Int]] /\ proc'[p] = v
      /\ \A q \in Proc : q # p => proc'[q] = proc[q]
    BY <1>2, <1>3 DEF IInv, Types
<1>7. wire' \in [Side -> Seq(UnitInt)]
    <2>1. Garbage \in UnitInt /\ wire[r] \in Seq(UnitInt)
        BY <1>1 DEF UnitInt, IInv, Types
    <2>2. Append(wire[r], IF torn[d] THEN Garbage ELSE u) \in Seq(UnitInt)
        BY <1>4, <2>1, Appends
    <2> QED
        BY <1>1, <1>2, <2>2 DEF IInv, Types
<1>8. Types'
    BY <1>2, <1>6, <1>7 DEF IInv, Types
<1>9. Owner'
    BY <1>2, <1>6 DEF IInv, Owner
<1>10. FramesWhole'
    BY <1>2 DEF IInv, FramesWhole
<1>11. Whole(d)'
    <2> SUFFICES ASSUME up, ~torn[d], loop[r].pc # "ended" PROVE Whole(d)'
        BY <1>2 DEF Whole
    <2> DEFINE w == wire[r]
               l == loop[r]
    <2>1. wire'[r] = Append(w, u) /\ loop'[r] = l /\ w \in Seq(UnitInt)
        BY <1>1, <1>2 DEF IInv, Types
    <2>2. /\ Alternate(w) /\ Expected(w, l)
          /\ \A q \in Proc : SideOf(q) = d /\ proc[q].pc = "body" => EndsWith(w, l, FrameOf(q))
          /\ Unfinished(w, l) => \E q \in Proc : SideOf(q) = d /\ proc[q].pc = "body"
        BY <1>1 DEF IInv, Whole
    <2>3. \A q \in Proc : SideOf(q) = d /\ proc[q].pc = "body" => q = p
        BY <1>2 DEF IInv, Owner
    <2>4. \A q \in Proc : SideOf(q) = d /\ proc'[q].pc = "body" => q = p
        BY <1>6, <2>3
    <2>5. CASE proc[p].pc = "head"
        <3>1. ~Unfinished(w, l)
            BY <2>2, <2>3, <2>5
        <3>2. u = HeadOf(f)
            BY <2>5 DEF u, HeadOf
        <3>3. Alternate(Append(w, u)) /\ Expected(Append(w, u), l) /\ EndsWith(Append(w, u), l, f)
            BY <1>4, <2>1, <2>2, <3>1, <3>2, PutHead
        <3>4. proc'[p].pc = "body"
            BY <1>3, <1>6, <2>5
        <3> HIDE DEF w, l
        <3> QED
            BY <1>5, <2>1, <2>4, <3>3, <3>4 DEF Whole
    <2>6. CASE proc[p].pc = "body"
        <3>1. EndsWith(w, l, f)
            BY <2>2, <2>6 DEF f
        <3>2. u = BodyOf(f)
            BY <2>6 DEF u, BodyOf
        <3>3. Alternate(Append(w, u)) /\ Expected(Append(w, u), l) /\ ~Unfinished(Append(w, u), l)
            BY <1>4, <2>1, <2>2, <3>1, <3>2, PutBody
        <3>4. proc'[p].pc = "sent"
            BY <1>3, <1>6, <2>6
        <3> HIDE DEF w, l
        <3> QED
            BY <2>1, <2>4, <3>3, <3>4 DEF Whole
    <2> QED
        BY <1>2, <2>5, <2>6
<1>12. ASSUME NEW e \in Side, e # d PROVE Whole(e)'
    <2>1. Peer(e) \in Side /\ Peer(e) # r
        BY <1>1, <1>12, Sides
    <2>2. wire'[Peer(e)] = wire[Peer(e)]
        BY <1>1, <1>2, <2>1 DEF IInv, Types
    <2>3. \A q \in Proc : SideOf(q) = e => proc'[q] = proc[q] /\ FrameOf(q)' = FrameOf(q)
        BY <1>6, <1>12 DEF FrameOf
    <2>4. Whole(e)
        BY DEF IInv
    <2> QED
        BY <1>2, <2>2, <2>3, <2>4 DEF Whole
<1> QED
    BY <1>8, <1>9, <1>10, <1>11, <1>12 DEF IInv

\* The reader's steps, for the directions that they do not touch.
LEMMA OtherWay ==
    ASSUME IInv, NEW e \in Side, UNCHANGED <<wlock, torn>>, up' => up,
           \A q \in Proc : /\ proc'[q].pc = "body" <=> proc[q].pc = "body"
                           /\ proc[q].pc = "body" => proc'[q] = proc[q],
           wire'[Peer(e)] = wire[Peer(e)], loop'[Peer(e)] = loop[Peer(e)]
    PROVE  Whole(e)'
<1>1. \A q \in Proc : proc[q].pc = "body" => FrameOf(q)' = FrameOf(q)
    BY DEF FrameOf
<1> QED
    BY <1>1 DEF IInv, Whole

\* What Loop of side e does to the types, when it took a unit.
LEMMA TookTypes ==
    ASSUME IInv, NEW e \in Side, wire[e] # <<>>, Took(e)
    PROVE  /\ wire' \in [Side -> Seq(UnitInt)]
           /\ wire'[e] = Tail(wire[e])
           /\ \A g \in Side : g # e => wire'[g] = wire[g]
           /\ Head(wire[e]) \in UnitInt
<1>1. wire[e] \in Seq(UnitInt)
    BY DEF IInv, Types
<1>2. Tail(wire[e]) \in Seq(UnitInt) /\ Head(wire[e]) \in UnitInt
    BY <1>1, Tails
<1> QED
    BY <1>2 DEF Took, IInv, Types

\* ReadFrame, the head.
LEMMA HeadIInv ==
    ASSUME IInv, NEW e \in Side, ReadHead(e)
    PROVE  IInv'
<1> DEFINE d == Peer(e)
           w == wire[e]
           l == loop[e]
           l2 == IF Head(w).part = "head" THEN [pc |-> "body", frame |-> Head(w).frame]
                                           ELSE [pc |-> "lost", frame |-> NoFrame]
<1>1. d \in Side /\ Peer(d) = e /\ w \in Seq(UnitInt) /\ w # <<>> /\ l.pc = "head" /\ up
    BY Sides DEF ReadHead, IInv, Types
<1>2. UNCHANGED <<proc, left, queue, wlock, torn, up>> /\ loop' = [loop EXCEPT ![e] = l2]
    BY DEF ReadHead
<1>3. /\ wire' \in [Side -> Seq(UnitInt)] /\ wire'[e] = Tail(w) /\ Head(w) \in UnitInt
      /\ \A g \in Side : g # e => wire'[g] = wire[g]
    BY <1>1, TookTypes DEF ReadHead
<1>4. /\ l2 \in [pc : {"body", "lost"}, frame : FrameInt \cup {NoFrame}]
      /\ l2.pc = "body" => l2.frame \in FrameInt
    <2>1. CASE Head(w).part = "head"
        <3>1. Head(w).frame \in FrameInt
            BY <1>3, <2>1 DEF UnitInt, Garbage
        <3> QED
            BY <2>1, <3>1
    <2>2. CASE Head(w).part # "head"
        BY <2>2
    <2> QED
        BY <2>1, <2>2
<1>5. ~torn[d] => /\ Head(w).part = "head"
                  /\ Alternate(Tail(w)) /\ Expected(Tail(w), l2)
                  /\ \A f : EndsWith(w, l, f) => EndsWith(Tail(w), l2, f)
                  /\ Unfinished(Tail(w), l2) => Unfinished(w, l)
    <2> SUFFICES ASSUME ~torn[d] PROVE <1>5!2
        OBVIOUS
    <2>1. Alternate(w) /\ Expected(w, l) /\ l.pc # "body"
        BY <1>1 DEF IInv, Whole
    <2>2. Head(w).part = "head"
        BY <1>1, <2>1, TakeHead, Zenon
    <2>3. l2 = [pc |-> "body", frame |-> Head(w).frame]
        BY <2>2
    <2> QED
        BY <1>1, <2>1, <2>3, TakeHead
<1>6. ~torn[d] => l2.pc = "body"
    BY <1>5
<1> HIDE DEF l2
<1>7. loop'[e] = l2 /\ \A g \in Side : g # e => loop'[g] = loop[g]
    BY <1>2 DEF IInv, Types
<1>8. Types'
    <2>1. loop' \in [Side -> [pc : {"head", "body", "lock", "lost", "ended"},
                             frame : FrameInt \cup {NoFrame}]]
        BY <1>2, <1>4 DEF IInv, Types
    <2>2. \A g \in Side : loop'[g].pc \in {"body", "lock"} => loop'[g].frame \in FrameInt
        BY <1>4, <1>7 DEF IInv, Types
    <2> QED
        BY <1>2, <1>3, <2>1, <2>2 DEF IInv, Types
<1>9. Owner'
    BY <1>2 DEF IInv, Owner
<1>10. FramesWhole'
    BY <1>2, <1>6, <1>7 DEF IInv, FramesWhole
<1>11. Whole(d)'
    <2>1. \A q : FrameOf(q)' = FrameOf(q)
        BY <1>2 DEF FrameOf
    <2>2. ~torn[d] => /\ \A q \in Proc : SideOf(q) = d /\ proc[q].pc = "body" => EndsWith(w, l, FrameOf(q))
                      /\ Unfinished(w, l) => \E q \in Proc : SideOf(q) = d /\ proc[q].pc = "body"
        BY <1>1 DEF IInv, Whole
    <2> HIDE DEF d, w, l
    <2> QED
        BY <1>1, <1>2, <1>3, <1>5, <1>7, <2>1, <2>2 DEF Whole
<1>12. ASSUME NEW g \in Side, g # d PROVE Whole(g)'
    <2>1. Peer(g) \in Side /\ Peer(g) # e
        BY <1>12, Sides
    <2> QED
        BY <1>2, <1>3, <1>7, <2>1, OtherWay
<1> QED
    BY <1>8, <1>9, <1>10, <1>11, <1>12 DEF IInv

\* ReadFrame, the body, and what SendFrame does with MSG_DATA.
LEMMA BodyIInv ==
    ASSUME IInv, NEW e \in Side, ReadBody(e)
    PROVE  IInv'
<1> DEFINE d == Peer(e)
           w == wire[e]
           l == loop[e]
           l2 == loop'[e]
<1>1. d \in Side /\ Peer(d) = e /\ w \in Seq(UnitInt) /\ w # <<>> /\ l.pc = "body" /\ up
    BY Sides DEF ReadBody, IInv, Types
<1>2. UNCHANGED <<proc, left, wlock, torn, up>>
    BY DEF ReadBody
<1>3. /\ wire' \in [Side -> Seq(UnitInt)] /\ wire'[e] = Tail(w)
      /\ \A g \in Side : g # e => wire'[g] = wire[g]
    BY <1>1, TookTypes DEF ReadBody
<1>4. l.frame \in FrameInt /\ l \in [pc : {"body"}, frame : FrameInt]
    BY <1>1 DEF IInv, Types
<1>5. queue' \in [Conn -> Int]
    <2>1. <<e, l.frame.id>> \in Conn /\ l.frame.arg \in Int
        BY <1>4 DEF FrameInt, Conn
    <2>2. queue' = queue \/ queue' = [queue EXCEPT ![<<e, l.frame.id>>] = @ + l.frame.arg]
        BY DEF ReadBody
    <2>3. queue \in [Conn -> Int]
        BY DEF IInv, Types
    <2> HIDE DEF l
    <2> QED
        BY <2>1, <2>2, <2>3
<1>6. PICK v \in [pc : {"head", "lock", "lost"}, frame : FrameInt \cup {NoFrame}] :
        /\ loop' = [loop EXCEPT ![e] = v]
        /\ v.pc = "lock" => v.frame \in FrameInt
        /\ v.pc = "lost" => Head(w) # BodyOf(l.frame)
    <2>1. [l EXCEPT !.pc = "lock"] \in [pc : {"lock"}, frame : FrameInt]
        BY <1>4
    <2> DEFINE v1 == [l EXCEPT !.pc = "lock"]
               v2 == [pc |-> "head", frame |-> NoFrame]
               v3 == [pc |-> "lost", frame |-> NoFrame]
    <2>2. CASE loop' = [loop EXCEPT ![e] = v1]
        BY <2>1, <2>2, Zenon
    <2>3. CASE loop' = [loop EXCEPT ![e] = v2]
        <3>1. WITNESS v2 \in [pc : {"head", "lock", "lost"}, frame : FrameInt \cup {NoFrame}]
        <3> QED
            BY <2>3
    <2>4. CASE loop' = [loop EXCEPT ![e] = v3] /\ Head(w) # BodyOf(l.frame)
        <3>1. WITNESS v3 \in [pc : {"head", "lock", "lost"}, frame : FrameInt \cup {NoFrame}]
        <3> QED
            BY <2>4
    <2> QED
        BY <2>2, <2>3, <2>4 DEF ReadBody, BodyOf
<1>7. l2 = v /\ \A g \in Side : g # e => loop'[g] = loop[g]
    BY <1>6 DEF IInv, Types
<1>8. ~torn[d] => /\ Head(w) = BodyOf(l.frame)
                  /\ Alternate(Tail(w)) /\ Expected(Tail(w), l2)
                  /\ \A f : EndsWith(w, l, f) => EndsWith(Tail(w), l2, f)
                  /\ Unfinished(Tail(w), l2) => Unfinished(w, l)
    <2> SUFFICES ASSUME ~torn[d] PROVE <1>8!2
        OBVIOUS
    <2>1. Alternate(w) /\ Expected(w, l) /\ l2.pc # "body"
        BY <1>1, <1>6, <1>7 DEF IInv, Whole
    <2> QED
        BY <1>1, <2>1, TakeBody
<1>9. Types'
    <2>1. loop' \in [Side -> [pc : {"head", "body", "lock", "lost", "ended"},
                             frame : FrameInt \cup {NoFrame}]]
        BY <1>6 DEF IInv, Types
    <2>2. \A g \in Side : loop'[g].pc \in {"body", "lock"} => loop'[g].frame \in FrameInt
        BY <1>6, <1>7 DEF IInv, Types
    <2> QED
        BY <1>2, <1>3, <1>5, <2>1, <2>2 DEF IInv, Types
<1>10. Owner'
    BY <1>2 DEF IInv, Owner
<1>11. FramesWhole'
    BY <1>2, <1>6, <1>7, <1>8 DEF IInv, FramesWhole
<1>12. Whole(d)'
    <2>1. \A q : FrameOf(q)' = FrameOf(q)
        BY <1>2 DEF FrameOf
    <2>2. ~torn[d] => /\ \A q \in Proc : SideOf(q) = d /\ proc[q].pc = "body" => EndsWith(w, l, FrameOf(q))
                      /\ Unfinished(w, l) => \E q \in Proc : SideOf(q) = d /\ proc[q].pc = "body"
        BY <1>1 DEF IInv, Whole
    <2> HIDE DEF d, w, l
    <2> QED
        BY <1>1, <1>2, <1>3, <1>8, <2>1, <2>2 DEF Whole
<1>13. ASSUME NEW g \in Side, g # d PROVE Whole(g)'
    <2>1. Peer(g) \in Side /\ Peer(g) # e
        BY <1>13, Sides
    <2> QED
        BY <1>2, <1>3, <1>7, <2>1, OtherWay, Zenon
<1> QED
    BY <1>9, <1>10, <1>11, <1>12, <1>13 DEF IInv

\* Conn.SendFrame has the lock for MSG_WND.
LEMMA WndIInv ==
    ASSUME IInv, NEW e \in Side, OnWnd(e)
    PROVE  IInv'
<1> DEFINE d == Peer(e)
           c == <<e, loop[e].frame.id>>
           h == [pc |-> "head", frame |-> NoFrame]
           v == [proc[<<c, "w">>] EXCEPT !.pc = IF @ = "wait" THEN "woken" ELSE @]
<1>1. d \in Side /\ Peer(d) = e /\ loop[e].pc = "lock"
    BY Sides DEF OnWnd
<1>2. <<c, "w">> \in Proc
    <2>1. loop[e].frame \in FrameInt
        BY <1>1 DEF IInv, Types
    <2>2. c \in Conn
        BY <2>1 DEF FrameInt, Conn
    <2> QED
        BY <2>2, Sides, Zenon
<1>3. /\ UNCHANGED <<left, queue, wlock, wire, torn, up>>
      /\ loop' = [loop EXCEPT ![e] = h]
      /\ proc' = [proc EXCEPT ![<<c, "w">>] = v]
    BY DEF OnWnd
<1>4. /\ v \in [pc : PC, n : Int]
      /\ v.pc = IF proc[<<c, "w">>].pc = "wait" THEN "woken" ELSE proc[<<c, "w">>].pc
      /\ v.pc # "woken" => v = proc[<<c, "w">>]
    <2>1. proc[<<c, "w">>] \in [pc : PC, n : Int]
        BY <1>2 DEF IInv, Types
    <2> QED
        BY <2>1 DEF PC
<1> HIDE DEF v
<1>5. /\ proc' \in [Proc -> [pc : PC, n : Int]] /\ proc'[<<c, "w">>] = v
      /\ \A q \in Proc : q # <<c, "w">> => proc'[q] = proc[q]
    BY <1>2, <1>3, <1>4 DEF IInv, Types
<1>6. \A q \in Proc : /\ proc'[q].pc \in {"head", "body", "sent"} => proc[q].pc = proc'[q].pc
                      /\ proc'[q].pc = "body" <=> proc[q].pc = "body"
                      /\ proc[q].pc = "body" => proc'[q] = proc[q]
    BY <1>4, <1>5
<1>7. loop'[e] = h /\ \A g \in Side : g # e => loop'[g] = loop[g]
    BY <1>3 DEF IInv, Types
<1>8. Types'
    BY <1>3, <1>5 DEF IInv, Types
<1>9. Owner'
    BY <1>3, <1>6 DEF IInv, Owner
<1>10. FramesWhole'
    BY <1>3, <1>7 DEF IInv, FramesWhole
<1>11. Whole(d)'
    <2>1. \A q \in Proc : proc[q].pc = "body" => FrameOf(q)' = FrameOf(q)
        BY <1>6 DEF FrameOf
    <2>2. \A w : /\ Expected(w, loop[e]) <=> Expected(w, h)
                 /\ Unfinished(w, loop[e]) <=> Unfinished(w, h)
                 /\ \A f : EndsWith(w, loop[e], f) <=> EndsWith(w, h, f)
        BY <1>1 DEF Expected, Unfinished, EndsWith
    <2>3. Whole(d)
        BY <1>1 DEF IInv
    <2> DEFINE w == wire[e]
    <2>4. wire'[Peer(d)] = w /\ loop'[Peer(d)] = h /\ torn'[d] = torn[d] /\ up' = up
        BY <1>1, <1>3, <1>7
    <2> HIDE DEF h
    <2>5. ASSUME up, ~torn[d]
          PROVE  /\ Alternate(w)
                 /\ Expected(w, loop[e])
                 /\ \A q \in Proc : SideOf(q) = d /\ proc[q].pc = "body"
                                      => EndsWith(w, loop[e], FrameOf(q))
                 /\ Unfinished(w, loop[e]) => \E q \in Proc : SideOf(q) = d /\ proc[q].pc = "body"
        BY <1>1, <2>3, <2>5 DEF Whole
    <2> HIDE DEF d, w
    <2>6. ASSUME up, ~torn[d]
          PROVE  /\ Alternate(w)
                 /\ Expected(w, h)
                 /\ \A q \in Proc : SideOf(q) = d /\ proc'[q].pc = "body"
                                      => EndsWith(w, h, FrameOf(q)')
                 /\ Unfinished(w, h) => \E q \in Proc : SideOf(q) = d /\ proc'[q].pc = "body"
        <3>1. ASSUME NEW q \in Proc, SideOf(q) = d, proc'[q].pc = "body"
              PROVE  EndsWith(w, h, FrameOf(q)')
            <4>1. proc[q].pc = "body" /\ FrameOf(q)' = FrameOf(q)
                BY <1>6, <2>1, <3>1
            <4>2. EndsWith(w, loop[e], FrameOf(q))
                BY <2>5, <2>6, <3>1, <4>1
            <4> QED
                BY <2>2, <4>1, <4>2
        <3>2. ASSUME Unfinished(w, h)
              PROVE  \E q \in Proc : SideOf(q) = d /\ proc'[q].pc = "body"
            BY <1>6, <2>2, <2>5, <2>6, <3>2
        <3> QED
            BY <2>2, <2>5, <2>6, <3>1, <3>2
    <2> QED
        BY <2>4, <2>6 DEF Whole
<1>12. ASSUME NEW g \in Side, g # d PROVE Whole(g)'
    <2>1. Peer(g) \in Side /\ Peer(g) # e
        BY <1>12, Sides
    <2> QED
        BY <1>3, <1>6, <1>7, <2>1, OtherWay
<1> QED
    BY <1>8, <1>9, <1>10, <1>11, <1>12 DEF IInv

\* Loop is out of step, or learns that the connection is gone.
LEMMA LostIInv ==
    ASSUME IInv, NEW e \in Side, ReadGarbage(e) \/ LoopEnds(e)
    PROVE  IInv'
<1>1. UNCHANGED <<proc, left, queue, wlock, torn>> /\ up' \in BOOLEAN /\ (up' => up)
    <2>1. UNCHANGED <<proc, left, queue, wlock, torn>> /\ (up' = up \/ up' = FALSE)
        BY DEF ReadGarbage, LoopEnds
    <2>2. up \in BOOLEAN
        BY DEF IInv, Types
    <2>3. up' \in BOOLEAN
        BY <2>1, <2>2, Zenon
    <2>4. up' => up
        BY <2>1, Zenon
    <2> QED
        BY <2>1, <2>3, <2>4
<1>2. wire' \in [Side -> Seq(UnitInt)] /\ \A g \in Side : g # e => wire'[g] = wire[g]
    <2>1. CASE wire' = wire
        BY <2>1 DEF IInv, Types
    <2>2. CASE wire[e] # <<>> /\ Took(e)
        BY <2>2, TookTypes
    <2> QED
        BY <2>1, <2>2 DEF ReadGarbage, LoopEnds
<1>3. \/ loop' = loop /\ up'
      \/ loop' = [loop EXCEPT ![e] = [pc |-> "ended", frame |-> NoFrame]] /\ ~up'
      \/ loop' = [loop EXCEPT ![e] = [loop[e] EXCEPT !.pc = "ended"]] /\ ~up'
    BY DEF ReadGarbage, LoopEnds
<1>4. /\ loop' \in [Side -> [pc : {"head", "body", "lock", "lost", "ended"},
                             frame : FrameInt \cup {NoFrame}]]
      /\ loop'[e].pc = "ended" \/ loop' = loop
      /\ \A g \in Side : g # e => loop'[g] = loop[g]
    <2>1. loop[e] \in [pc : {"head", "body", "lock", "lost", "ended"}, frame : FrameInt \cup {NoFrame}]
        BY DEF IInv, Types
    <2>2. [loop[e] EXCEPT !.pc = "ended"] \in [pc : {"ended"}, frame : FrameInt \cup {NoFrame}]
        BY <2>1
    <2>3. [pc |-> "ended", frame |-> NoFrame] \in [pc : {"ended"}, frame : FrameInt \cup {NoFrame}]
        OBVIOUS
    <2>4. CASE loop' = loop
        BY <2>4 DEF IInv, Types
    <2>5. ASSUME NEW v \in [pc : {"ended"}, frame : FrameInt \cup {NoFrame}],
                 loop' = [loop EXCEPT ![e] = v]
          PROVE  <1>4!1 /\ loop'[e].pc = "ended" /\ <1>4!3
        BY <2>5 DEF IInv, Types
    <2> QED
        BY <1>3, <2>2, <2>3, <2>4, <2>5
<1>5. Types'
    BY <1>1, <1>2, <1>4, Zenon DEF IInv, Types
<1>6. Owner'
    BY <1>1 DEF IInv, Owner
<1>7. FramesWhole'
    BY <1>1, <1>4 DEF IInv, FramesWhole
<1>8. ASSUME NEW g \in Side PROVE Whole(g)'
    <2>1. CASE ~up'
        BY <2>1 DEF Whole
    <2>2. CASE up' /\ Peer(g) = e
        <3>1. loop[e].pc = "lost" /\ g = Peer(e)
            BY <1>1, <2>2, Sides DEF ReadGarbage, LoopEnds
        <3>2. torn'[g]
            BY <1>1, <3>1 DEF IInv, FramesWhole
        <3> QED
            BY <3>2 DEF Whole
    <2>3. CASE up' /\ Peer(g) # e
        <3>1. Peer(g) \in Side
            BY Sides
        <3> QED
            BY <1>1, <1>2, <1>4, <2>3, <3>1, OtherWay
    <2> QED
        BY <2>1, <2>2, <2>3
<1> QED
    BY <1>5, <1>6, <1>7, <1>8 DEF IInv

\* The established streams and the empty connection.
LEMMA InitIInv == Init => IInv
<1> SUFFICES ASSUME Init PROVE IInv
    OBVIOUS
<1>1. \A p \in Proc : proc[p].pc \in {"pop", "next"} /\ proc \in [Proc -> [pc : PC, n : Int]]
    BY DEF Init, PC
<1>2. \A e \in Side : wire[e] = <<>> /\ loop[e].pc = "head"
    BY DEF Init
<1>3. left \in [Conn -> Int]
    <2>1. left \in [Conn -> 0 .. RADIX - 1] /\ 0 .. RADIX - 1 \subseteq Int
        BY WireAssumption DEF Init
    <2> QED
        BY <2>1
<1>4. wire \in [Side -> Seq(UnitInt)]
    BY EmptySeq DEF Init
<1>5. proc \in [Proc -> [pc : PC, n : Int]]
    BY DEF Init, PC
<1>6. Types
    <2>1. wlock \in [Side -> Proc \cup {Nobody}] /\ torn \in [Side -> BOOLEAN] /\ up \in BOOLEAN
        BY DEF Init
    <2>2. queue \in [Conn -> Int]
        BY DEF Init
    <2>3. loop \in [Side -> [pc : {"head", "body", "lock", "lost", "ended"},
                            frame : FrameInt \cup {NoFrame}]]
        BY DEF Init
    <2> QED
        BY <1>2, <1>3, <1>4, <1>5, <2>1, <2>2, <2>3 DEF Types
<1>7. Owner /\ FramesWhole
    BY <1>1, <1>2 DEF Owner, FramesWhole
<1>8. ASSUME NEW e \in Side PROVE Whole(e)
    <2>1. wire[Peer(e)] = <<>> /\ loop[Peer(e)].pc = "head"
        BY <1>2, Sides
    <2>2. Alternate(<<>>)
        BY EmptySeq DEF Alternate
    <2> QED
        BY <1>1, <2>1, <2>2 DEF Whole, Expected, Unfinished
<1> QED
    BY <1>6, <1>7, <1>8 DEF IInv

\* Every step of either side keeps the invariant.
LEMMA StepIInv == IInv /\ [Next]_vars => IInv'
<1> SUFFICES ASSUME IInv, [Next]_vars PROVE IInv'
    OBVIOUS
<1>1. CASE UNCHANGED vars
    BY <1>1 DEF vars, IInv, Types, Owner, FramesWhole, Whole, FrameOf
<1>2. CASE \E c \in Conn : UserStep(c)
    BY <1>2, UserIInv
<1>3. CASE \E p \in Proc : SendStep(p) \/ WriteTimeout(p)
    BY <1>3, LockIInv, PutIInv, FailIInv DEF SendStep
<1>4. CASE \E e \in Side : LoopStep(e) \/ ReadGarbage(e)
    BY <1>4, HeadIInv, BodyIInv, WndIInv, LostIInv DEF LoopStep
<1> QED
    BY <1>1, <1>2, <1>3, <1>4 DEF Next

\* Frames of different goroutines never mix, however many streams there are,
\* whatever they send and however little the connection takes: Loop of a side
\* is out of step only after a write of its peer has timed out
\* (fabric.go:114-118, frame.go:42-54).
THEOREM FramesStayWhole == Spec => []FramesWhole
<1>1. IInv => FramesWhole
    BY DEF IInv
<1> QED
    BY <1>1, InitIInv, StepIInv, PTL DEF Spec
-----------------------------------------------------------------------------
(* A side that writes nothing. *)

\* No frame of type t is on the wire to side e or in the hands of its Loop.
None(e, t) ==
    /\ loop[e].frame.type # t
    /\ \A i \in 1 .. Len(wire[e]) : wire[e][i].frame.type # t

\* Nobody writes on side a, so its peer reads nothing and has no window to renew.
Silent(a) ==
    /\ \A s \in Streams : /\ left[<<a, s>>] = 0 /\ proc[<<<<a, s>>, "w">>].pc = "next"
                          /\ queue[<<Peer(a), s>>] = 0
                          /\ proc[<<<<Peer(a), s>>, "r">>].pc = "pop"
    /\ None(Peer(a), "DATA") /\ None(a, "WND")
    /\ loop[a].pc # "lock"

SilentInv == \A a \in Side : Silent(a) \/ \E s \in Streams : load[<<a, s>>] > 0

\* What is left alone stays silent.
LEMMA SilentKept ==
    ASSUME NEW a \in Side, Silent(a),
           \A s \in Streams : /\ left'[<<a, s>>] = left[<<a, s>>]
                              /\ proc'[<<<<a, s>>, "w">>] = proc[<<<<a, s>>, "w">>]
                              /\ queue'[<<Peer(a), s>>] = queue[<<Peer(a), s>>]
                              /\ proc'[<<<<Peer(a), s>>, "r">>] = proc[<<<<Peer(a), s>>, "r">>],
           None(Peer(a), "DATA")', None(a, "WND")', loop'[a].pc # "lock"
    PROVE  Silent(a)'
BY DEF Silent

\* The wire to a side as a step leaves it ...
LEMMA NoneKept ==
    ASSUME NEW e, NEW t, None(e, t), wire'[e] = wire[e], loop'[e].frame = loop[e].frame
    PROVE  None(e, t)'
BY DEF None

\* ... when a frame of another type is put on it ...
LEMMA NonePut ==
    ASSUME NEW e, NEW t, None(e, t), wire[e] \in Seq(UnitInt), loop' = loop,
           NEW u \in UnitInt, wire'[e] = Append(wire[e], u), u.frame.type # t
    PROVE  None(e, t)'
<1>1. /\ Len(wire[e]) \in Nat /\ Len(wire'[e]) = Len(wire[e]) + 1
      /\ \A i \in 1 .. Len(wire[e]) : wire'[e][i] = wire[e][i]
      /\ wire'[e][Len(wire[e]) + 1] = u
    BY Appends
<1>2. ASSUME NEW i \in 1 .. Len(wire'[e]) PROVE wire'[e][i].frame.type # t
    <2>1. CASE i = Len(wire[e]) + 1
        BY <1>1, <2>1
    <2>2. CASE i \in 1 .. Len(wire[e])
        BY <1>1, <2>2 DEF None
    <2> QED
        BY <1>1, <2>1, <2>2
<1> QED
    BY <1>2 DEF None

\* ... and when Loop takes a unit from it.
LEMMA NoneTook ==
    ASSUME NEW e, NEW t \in {"DATA", "WND"}, None(e, t), wire[e] \in Seq(UnitInt), wire[e] # <<>>,
           wire'[e] = Tail(wire[e]),
           loop'[e].frame \in {loop[e].frame, NoFrame, Head(wire[e]).frame}
    PROVE  None(e, t)'
<1>1. /\ Len(wire[e]) \in Nat \ {0} /\ Len(wire'[e]) = Len(wire[e]) - 1
      /\ Head(wire[e]) = wire[e][1]
      /\ \A i \in 1 .. Len(wire'[e]) : wire'[e][i] = wire[e][i + 1]
    BY Tails
<1>2. ASSUME NEW i \in 1 .. Len(wire'[e]) PROVE wire'[e][i].frame.type # t
    <2>1. i + 1 \in 1 .. Len(wire[e]) /\ wire'[e][i] = wire[e][i + 1]
        BY <1>1
    <2> QED
        BY <2>1 DEF None
<1>3. loop'[e].frame.type # t
    <2>1. 1 \in 1 .. Len(wire[e])
        BY <1>1
    <2>2. Head(wire[e]).frame.type # t /\ loop[e].frame.type # t
        BY <1>1, <2>1 DEF None
    <2>3. NoFrame.type # t
        BY DEF NoFrame
    <2> QED
        BY <2>2, <2>3
<1> QED
    BY <1>2, <1>3 DEF None

\* The Conns and goroutines of the two sides.
LEMMA SilentNames ==
    ASSUME NEW a \in Side, NEW s \in Streams
    PROVE  /\ <<a, s>> \in Conn /\ <<Peer(a), s>> \in Conn
           /\ <<<<a, s>>, "w">> \in Proc /\ <<<<Peer(a), s>>, "r">> \in Proc
BY Sides DEF Conn, Side, Proc

\* A goroutine that is past its tests is none of the idle ones, so its step leaves
\* them alone.
LEMMA SilentProcs ==
    ASSUME NEW a \in Side, Silent(a), NEW p \in Proc, proc[p].pc \notin {"next", "pop"},
           \A q \in Proc : q # p => proc'[q] = proc[q]
    PROVE  /\ \A s \in Streams :
                 /\ proc'[<<<<a, s>>, "w">>] = proc[<<<<a, s>>, "w">>]
                 /\ proc'[<<<<Peer(a), s>>, "r">>] = proc[<<<<Peer(a), s>>, "r">>]
           /\ SideOf(p) = a => p[2] = "r" /\ p[1][1] = a
           /\ SideOf(p) = Peer(a) => p[2] = "w" /\ p[1][1] = Peer(a)
<1>1. ASSUME NEW s \in Streams
      PROVE  /\ proc'[<<<<a, s>>, "w">>] = proc[<<<<a, s>>, "w">>]
             /\ proc'[<<<<Peer(a), s>>, "r">>] = proc[<<<<Peer(a), s>>, "r">>]
    BY SilentNames DEF Silent
<1>2. PICK x \in Side, s \in Streams, k \in {"w", "r"} : p = <<<<x, s>>, k>>
    BY DEF Proc, Conn
<1>3. SideOf(p) = x /\ p[2] = k /\ p[1][1] = x
    BY <1>2 DEF SideOf
<1>4. x = a => k = "r"
    BY <1>2, Zenon DEF Silent
<1>5. x = Peer(a) => k = "w"
    BY <1>2, Zenon DEF Silent
<1> QED
    BY <1>1, <1>3, <1>4, <1>5

\* Conn.Write and Conn.Read up to SendFrame.
LEMMA UserSilent ==
    ASSUME IInv, NEW a \in Side, Silent(a), NEW c \in Conn, UserStep(c)
    PROVE  Silent(a)'
<1>1. PICK x \in Side, s \in Streams : c = <<x, s>>
    BY DEF Conn
<1>2. None(Peer(a), "DATA")' /\ None(a, "WND")' /\ loop'[a].pc # "lock" /\ left' = left
    BY NoneKept DEF UserStep, WriteSlice, ReadPops, ReadLocks, Silent
<1>3. CASE WriteSlice(c)
    <2>1. x # a
        <3>1. left[c] > 0
            BY <1>3 DEF WriteSlice
        <3>2. left[<<a, s>>] = 0
            BY Zenon DEF Silent
        <3> QED
            BY <1>1, <3>1, <3>2
    <2>2. /\ \A q \in Proc : q # <<c, "w">> => proc'[q] = proc[q]
          /\ queue' = queue
        BY <1>3 DEF WriteSlice, IInv, Types
    <2>3. \A y \in Streams : <<<<a, y>>, "w">> # <<c, "w">> /\ <<<<Peer(a), y>>, "r">> # <<c, "w">>
        BY <1>1, <2>1
    <2> QED
        BY <1>2, <2>2, <2>3, SilentNames, SilentKept
<1>4. CASE ReadPops(c)
    <2>1. x # Peer(a)
        <3>1. queue[c] > 0
            BY <1>4, WireAssumption DEF ReadPops, Min2, IInv, Types
        <3>2. queue[<<Peer(a), s>>] = 0
            BY Zenon DEF Silent
        <3> QED
            BY <1>1, <3>1, <3>2
    <2>2. /\ \A q \in Proc : q # <<c, "r">> => proc'[q] = proc[q]
          /\ \A y \in Conn : y # c => queue'[y] = queue[y]
        BY <1>4 DEF ReadPops, IInv, Types
    <2>3. \A y \in Streams : /\ <<<<a, y>>, "w">> # <<c, "r">> /\ <<<<Peer(a), y>>, "r">> # <<c, "r">>
                             /\ <<Peer(a), y>> # c
        BY <1>1, <2>1
    <2> QED
        BY <1>2, <2>2, <2>3, SilentNames, SilentKept
<1>5. CASE ReadLocks(c)
    <2>1. <<c, "r">> \in Proc /\ proc[<<c, "r">>].pc \notin {"next", "pop"} /\ queue' = queue
        BY <1>5, Sides, Zenon DEF ReadLocks
    <2>2. \A q \in Proc : q # <<c, "r">> => proc'[q] = proc[q]
        BY <1>5 DEF ReadLocks, IInv, Types
    <2> QED
        <3>1. \A y \in Streams : /\ proc'[<<<<a, y>>, "w">>] = proc[<<<<a, y>>, "w">>]
                                  /\ proc'[<<<<Peer(a), y>>, "r">>] = proc[<<<<Peer(a), y>>, "r">>]
            BY <2>1, <2>2, SilentProcs
        <3> QED
            BY <1>2, <2>1, <3>1, SilentKept
<1> QED
    BY <1>3, <1>4, <1>5 DEF UserStep

\* Fabric.SendFrame.
LEMMA SendSilent ==
    ASSUME IInv, NEW a \in Side, Silent(a), NEW p \in Proc, SendStep(p) \/ WriteTimeout(p)
    PROVE  Silent(a)'
<1>1. /\ proc[p].pc \notin {"next", "pop"} /\ queue' = queue /\ loop' = loop
      /\ \A q \in Proc : q # p => proc'[q] = proc[q]
    BY DEF SendStep, TakeWlock, PutUnit, SendReturns, WriteBroken, WriteTimeout, SendFails, IInv, Types
<1>2. /\ \A s \in Streams : /\ proc'[<<<<a, s>>, "w">>] = proc[<<<<a, s>>, "w">>]
                            /\ proc'[<<<<Peer(a), s>>, "r">>] = proc[<<<<Peer(a), s>>, "r">>]
      /\ SideOf(p) = a => p[2] = "r" /\ p[1][1] = a
      /\ SideOf(p) = Peer(a) => p[2] = "w" /\ p[1][1] = Peer(a)
    BY <1>1, SilentProcs
<1>3. \A s \in Streams : left'[<<a, s>>] = left[<<a, s>>]
    <2>1. CASE UNCHANGED left
        BY <2>1
    <2>2. CASE SendReturns(p) /\ p[2] = "w"
        <3>1. \A y \in Conn : y # p[1] => left'[y] = left[y]
            BY <2>2 DEF SendReturns, IInv, Types
        <3>2. ASSUME NEW s \in Streams, p[1] = <<a, s>> PROVE FALSE
            <4>1. SideOf(p) = a
                BY <3>2 DEF SideOf
            <4> QED
                BY <1>2, <2>2, <4>1
        <3> QED
            BY <3>1, <3>2, SilentNames, Zenon
    <2> QED
        BY <2>1, <2>2 DEF SendStep, TakeWlock, PutUnit, SendReturns, WriteBroken, WriteTimeout, SendFails
<1>4. None(Peer(a), "DATA")' /\ None(a, "WND")'
    <2>1. CASE UNCHANGED wire
        BY <1>1, <2>1, NoneKept DEF Silent
    <2>2. CASE PutUnit(p)
        <3> DEFINE e == SideOf(p)
                   u == IF torn[e] THEN Garbage ELSE [part |-> proc[p].pc, frame |-> FrameOf(p)]
        <3>1. e \in Side /\ Peer(e) \in Side /\ wire[Peer(e)] \in Seq(UnitInt)
            BY Sides DEF IInv, Types
        <3>2. u \in UnitInt
            <4>1. FrameOf(p) \in FrameInt
                BY DEF FrameOf, FrameInt, Proc, Conn, IInv, Types
            <4>2. proc[p].pc \in {"head", "body"}
                BY <2>2 DEF PutUnit
            <4> QED
                BY <4>1, <4>2 DEF UnitInt
        <3>3. u.frame.type = "none" \/ u.frame.type = FrameOf(p).type
            BY DEF Garbage, NoFrame
        <3>4. FrameOf(p).type = IF p[2] = "w" THEN "DATA" ELSE "WND"
            BY DEF FrameOf
        <3>5. /\ wire'[Peer(e)] = Append(wire[Peer(e)], u)
              /\ \A g \in Side : g # Peer(e) => wire'[g] = wire[g]
            BY <2>2, <3>1 DEF PutUnit, IInv, Types
        <3> HIDE DEF u
        <3>6. CASE e = a
            <4>1. None(Peer(a), "DATA")'
                BY <1>1, <1>2, <3>1, <3>2, <3>3, <3>4, <3>5, <3>6, NonePut DEF Silent
            <4>2. wire'[a] = wire[a]
                BY <3>5, <3>6, Sides
            <4> QED
                BY <1>1, <4>1, <4>2, NoneKept DEF Silent
        <3>7. CASE e = Peer(a)
            <4>1. Peer(e) = a
                BY <3>7, Sides
            <4>2. None(a, "WND")'
                BY <1>1, <1>2, <3>1, <3>2, <3>3, <3>4, <3>5, <3>7, <4>1, NonePut DEF Silent
            <4>3. wire'[Peer(a)] = wire[Peer(a)]
                BY <3>5, <4>1, Sides
            <4> QED
                BY <1>1, <4>2, <4>3, NoneKept DEF Silent
        <3> QED
            BY <3>1, <3>6, <3>7 DEF Side, Peer
    <2> QED
        BY <2>1, <2>2 DEF SendStep, TakeWlock, SendReturns, WriteBroken, WriteTimeout, SendFails
<1> QED
    BY <1>1, <1>2, <1>3, <1>4, SilentKept, Zenon DEF Silent

\* Loop of side e takes a unit, or none, and keeps to the frames it has seen.
LEMMA LoopNone ==
    ASSUME IInv, NEW e \in Side,
           \/ /\ wire[e] # <<>> /\ Took(e)
              /\ loop'[e].frame \in {loop[e].frame, NoFrame, Head(wire[e]).frame}
           \/ wire' = wire /\ loop'[e].frame \in {loop[e].frame, NoFrame},
           \A g \in Side : g # e => loop'[g] = loop[g]
    PROVE  \A g \in Side, t \in {"DATA", "WND"} : None(g, t) => None(g, t)'
<1> SUFFICES ASSUME NEW g \in Side, NEW t \in {"DATA", "WND"}, None(g, t) PROVE None(g, t)'
    OBVIOUS
<1>1. wire[e] \in Seq(UnitInt)
    BY DEF IInv, Types
<1>2. CASE g # e
    <2>1. wire'[g] = wire[g]
        BY <1>2, TookTypes
    <2> QED
        BY <1>2, <2>1, NoneKept
<1>3. CASE g = e /\ wire[e] # <<>> /\ Took(e) /\ loop'[e].frame \in {loop[e].frame, NoFrame, Head(wire[e]).frame}
    BY <1>1, <1>3, TookTypes, NoneTook
<1>4. CASE g = e /\ wire' = wire /\ loop'[e].frame \in {loop[e].frame, NoFrame}
    <2>1. NoFrame.type # t
        BY DEF NoFrame
    <2> QED
        BY <1>4, <2>1 DEF None
<1> QED
    BY <1>2, <1>3, <1>4

\* Fabric.Loop.
LEMMA LoopSilent ==
    ASSUME IInv, NEW a \in Side, Silent(a), NEW e \in Side, LoopStep(e) \/ ReadGarbage(e)
    PROVE  Silent(a)'
<1>0. loop[a].frame.type # "WND" /\ loop[Peer(a)].frame.type # "DATA" /\ loop[a].pc # "lock"
    BY DEF Silent, None
<1>1. /\ left' = left /\ \A g \in Side : g # e => loop'[g] = loop[g]
    BY DEF LoopStep, ReadHead, ReadBody, OnWnd, LoopEnds, ReadGarbage, IInv, Types
<1>2. \/ /\ wire[e] # <<>> /\ Took(e)
         /\ loop'[e].frame \in {loop[e].frame, NoFrame, Head(wire[e]).frame}
      \/ wire' = wire /\ loop'[e].frame \in {loop[e].frame, NoFrame}
    <2>1. CASE ReadHead(e)
        BY <2>1 DEF ReadHead, IInv, Types
    <2>2. CASE ReadBody(e)
        BY <2>2 DEF ReadBody, IInv, Types
    <2>3. CASE OnWnd(e) \/ LoopEnds(e)
        BY <2>3 DEF OnWnd, LoopEnds, IInv, Types
    <2>4. CASE ReadGarbage(e)
        <3>1. loop \in [Side -> [pc : {"head", "body", "lock", "lost", "ended"},
                                 frame : FrameInt \cup {NoFrame}]]
            BY DEF IInv, Types
        <3>2. loop' = loop \/ loop' = [loop EXCEPT ![e].pc = "ended"]
            BY <2>4, Zenon DEF ReadGarbage
        <3>3. loop'[e].frame = loop[e].frame
            BY <3>1, <3>2
        <3> QED
            BY <2>4, <3>3, Zenon DEF ReadGarbage
    <2> QED
        BY <2>1, <2>2, <2>3, <2>4 DEF LoopStep
<1>3. None(Peer(a), "DATA")' /\ None(a, "WND")'
    BY <1>1, <1>2, LoopNone, Sides DEF Silent
<1>4. loop'[a].pc # "lock"
    <2>1. CASE e # a
        BY <1>0, <1>1, <2>1
    <2>2. CASE e = a /\ ReadBody(e)
        BY <1>0, <2>2 DEF ReadBody, IInv, Types
    <2>3. CASE e = a /\ ~ReadBody(e)
        BY <1>0, <2>3 DEF LoopStep, ReadHead, OnWnd, LoopEnds, ReadGarbage, IInv, Types
    <2> QED
        BY <2>1, <2>2, <2>3
<1>5. ASSUME NEW s \in Streams PROVE queue'[<<Peer(a), s>>] = queue[<<Peer(a), s>>]
    <2>1. CASE UNCHANGED queue
        BY <2>1
    <2>2. CASE loop[e].frame.type = "DATA" /\ queue' = [queue EXCEPT ![<<e, loop[e].frame.id>>] = @ + loop[e].frame.arg]
        <3>1. e # Peer(a)
            BY <1>0, <2>2
        <3>2. <<Peer(a), s>> # <<e, loop[e].frame.id>>
            BY <3>1
        <3> QED
            BY <2>2, <3>2, SilentNames DEF IInv, Types
    <2> QED
        BY <2>1, <2>2 DEF LoopStep, ReadHead, ReadBody, OnWnd, LoopEnds, ReadGarbage
<1>6. ASSUME NEW s \in Streams
      PROVE  /\ proc'[<<<<a, s>>, "w">>] = proc[<<<<a, s>>, "w">>]
             /\ proc'[<<<<Peer(a), s>>, "r">>] = proc[<<<<Peer(a), s>>, "r">>]
    <2>1. CASE UNCHANGED proc
        BY <2>1
    <2>2. CASE OnWnd(e)
        <3> DEFINE q == <<<<e, loop[e].frame.id>>, "w">>
        <3>1. e # a
            BY <1>0, <2>2 DEF OnWnd
        <3>2. <<<<a, s>>, "w">> # q /\ <<<<Peer(a), s>>, "r">> # q
            BY <3>1
        <3>3. \A y \in Proc : y # q => proc'[y] = proc[y]
            BY <2>2 DEF OnWnd, IInv, Types
        <3> QED
            BY <3>2, <3>3, SilentNames
    <2> QED
        BY <2>1, <2>2 DEF LoopStep, ReadHead, ReadBody, LoopEnds, ReadGarbage
<1> QED
    BY <1>1, <1>3, <1>4, <1>5, <1>6, SilentKept

\* The two Loops wait for each other's goroutines only when both sides write, for any
\* number of streams and any capacity: a Loop asks for a Conn.lock only to renew a window
\* that its own side has used (conn.go:216, 269, 433).
THEOREM StallsNeedBothWays == Spec => []StallNeedsBothWays
<1>1. Init => SilentInv
    <2> SUFFICES ASSUME Init, NEW a \in Side, ~\E s \in Streams : load[<<a, s>>] > 0
                 PROVE  Silent(a)
        BY DEF SilentInv
    <2>1. \A s \in Streams : left[<<a, s>>] = 0
        <3>1. load \in [Conn -> 0 .. RADIX - 1] /\ left = load /\ RADIX \in Nat
            BY WireAssumption DEF Init
        <3>2. ASSUME NEW s \in Streams PROVE left[<<a, s>>] = 0
            <4>1. load[<<a, s>>] \in 0 .. RADIX - 1 /\ ~(load[<<a, s>>] > 0)
                BY <3>1, SilentNames, Zenon
            <4> QED
                BY <3>1, <4>1
        <3> QED
            BY <3>2, Zenon
    <2>2. \A s \in Streams : /\ proc[<<<<a, s>>, "w">>].pc = "next" /\ queue[<<Peer(a), s>>] = 0
                             /\ proc[<<<<Peer(a), s>>, "r">>].pc = "pop"
        BY SilentNames, Zenon DEF Init
    <2>3. \A g \in Side : loop[g].pc = "head" /\ loop[g].frame.type = "none" /\ Len(wire[g]) = 0
        BY DEF Init, NoFrame
    <2>4. \A g \in Side, t \in {"DATA", "WND"} : None(g, t)
        BY <2>3 DEF None
    <2> QED
        BY <2>1, <2>2, <2>3, <2>4, Sides, Zenon DEF Silent
<1>2. IInv /\ SilentInv /\ [Next]_vars => SilentInv'
    <2> SUFFICES ASSUME IInv, SilentInv, [Next]_vars, NEW a \in Side,
                        ~(\E s \in Streams : load'[<<a, s>>] > 0)
                 PROVE  Silent(a)'
        BY DEF SilentInv
    <2>1. load' = load
        BY Zenon DEF Next, vars, UserStep, WriteSlice, ReadPops, ReadLocks, SendStep, TakeWlock, PutUnit,
               SendReturns, WriteBroken, WriteTimeout, SendFails, LoopStep, ReadHead, ReadBody,
               OnWnd, LoopEnds, ReadGarbage
    <2>2. Silent(a)
        BY <2>1 DEF SilentInv
    <2>3. CASE UNCHANGED vars
        BY <2>2, <2>3, Zenon DEF vars, Silent, None
    <2> QED
        BY <2>2, <2>3, UserSilent, SendSilent, LoopSilent DEF Next
<1>3. SilentInv => StallNeedsBothWays
    BY Zenon DEF SilentInv, Silent, StallNeedsBothWays, Stalled, Blocked
<1> QED
    BY <1>1, <1>2, <1>3, InitIInv, StepIInv, PTL DEF Spec
=============================================================================
