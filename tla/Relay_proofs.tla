---------------------------- MODULE Relay_proofs ----------------------------
(***************************************************************************)
(* The inductive invariant of the proxied connections of module Relay, for *)
(* any amount of traffic and any capacity of the links: one lemma for      *)
(* every action shows that it keeps the invariant.  Module Front_proofs    *)
(* draws the theorem about the composed front end from it.                 *)
(***************************************************************************)
EXTENDS Relay

(* The connections.  What a user sends up and what is not there any more below is  *)
(* accounted for: it is evidence that a connection was given up before it was done.*)

Units(l, d) == buf[<<l, d>>]
IsShut(l, e) == shut[<<l, e>>]
At(n, d) == copier[<<n, d>>]

PCs == {"none", "read", "write", "wait", "close", "done"}

Held(n, d) == IF At(n, d) \in {"write", "wait"} THEN 1 ELSE 0
Total(d) == got[d] + Units(0, d) + Units(1, d) + Units(2, d) + Held(1, d) + Held(2, d)

\* The target will never have read all that the user sent.
UpLost ==
    \/ Total("up") < sent["up"]
    \/ Units(0, "up") > 0 /\ IsShut(0, "far")
    \/ hops = 1 /\ Units(1, "up") > 0 /\ IsShut(1, "far")
    \/ hops = 2 /\ Units(2, "up") > 0 /\ IsShut(2, "far")

\* Reasons for which the answer may be cut short.
Excused == UpLost \/ broken \/ (IsShut(0, "near") /\ ~eof)

RelayTypes ==
    /\ hops \in {1, 2}
    /\ buf \in [Link \X Dir -> Nat]
    /\ shut \in [Link \X End -> BOOLEAN]
    /\ expired \in [End -> BOOLEAN]
    /\ copier \in [Copier -> PCs]
    /\ sent \in [Dir -> Nat] /\ got \in [Dir -> Nat]
    /\ eof \in BOOLEAN /\ broken \in BOOLEAN /\ dead \in BOOLEAN

\* One CopyLink has no second hop, and a denied stream has none either; both
\* goroutines of a hop start together.
Shape ==
    /\ hops = 1 => /\ At(2, "up") = "none" /\ At(2, "down") = "none"
                   /\ Units(2, "up") = 0 /\ Units(2, "down") = 0
    /\ dead /\ hops = 2 => At(2, "down") = "none"
    /\ At(1, "up") = "none" => At(1, "down") = "none"

\* A connection is closed by the goroutine that writes to it, when it is done.
ClosedBy ==
    /\ IsShut(0, "far") => At(1, "down") = "done"
    /\ hops = 2 /\ IsShut(1, "far") => At(2, "down") = "done"
    /\ IsShut(1, "near") => At(1, "up") = "done"
    /\ IsShut(2, "near") => At(2, "up") = "done"
    /\ eof => IsShut(0, "far") /\ Units(0, "down") = 0

Over(n, d) == At(n, d) \in {"close", "done"}

\* Who has come to the end has copied everything: downwards the end comes from the
\* target, and upwards from the goroutine for the other direction.
InOrder ==
    /\ Over(1, "down") => (IsShut(1, "far") /\ Units(1, "down") = 0) \/ Excused
    /\ Over(2, "down") => (IsShut(2, "far") /\ Units(2, "down") = 0) \/ Excused
    /\ Over(1, "up") => IsShut(0, "far") \/ Excused
    /\ Over(2, "up") => IsShut(1, "far") \/ Excused
    /\ expired["near"] \/ expired["far"] => IsShut(1, "far") \/ Excused

Conserved ==
    /\ Total("up") <= sent["up"]
    /\ Total("down") = sent["down"] \/ Excused

RelayInv == RelayTypes /\ Shape /\ ClosedBy /\ InOrder /\ Conserved

\* The links and directions there are.
LEMMA Places ==
    /\ Link = {0, 1, 2} /\ Hop = {1, 2} /\ Dir = {"up", "down"} /\ End = {"near", "far"}
    /\ \A n \in Hop, d \in Dir : <<n, d>> \in Copier
BY DEF Link, Hop, Dir, End, Copier

\* The numbers that the invariant is about.
LEMMA Numbers ==
    ASSUME RelayTypes
    PROVE  /\ \A l \in Link, d \in Dir : Units(l, d) \in Nat
           /\ \A n \in Hop, d \in Dir : At(n, d) \in PCs /\ Held(n, d) \in {0, 1}
           /\ sent["up"] \in Nat /\ sent["down"] \in Nat
           /\ got["up"] \in Nat /\ got["down"] \in Nat
BY Places DEF RelayTypes, Units, At, Held

\* The user has the whole answer.
LEMMA Complete == ASSUME RelayInv PROVE AnswerComplete
<1> SUFFICES ASSUME eof, got["up"] = sent["up"], ~broken
             PROVE  got["down"] = sent["down"]
    BY DEF AnswerComplete
<1>1. /\ \A l \in {0, 1, 2}, d \in {"up", "down"} : Units(l, d) \in Nat
      /\ \A n \in {1, 2}, d \in {"up", "down"} : Held(n, d) \in {0, 1}
      /\ sent["up"] \in Nat /\ got["up"] \in Nat /\ hops \in {1, 2}
    BY Places, Numbers DEF RelayInv, RelayTypes
<1>2. ~Excused
    BY <1>1 DEF RelayInv, Excused, UpLost, Conserved, ClosedBy, Total
<1>3. /\ Units(0, "down") = 0 /\ At(1, "down") = "done" /\ IsShut(1, "far")
      /\ Units(1, "down") = 0
    BY <1>2 DEF RelayInv, ClosedBy, InOrder, Over
<1>4. Units(2, "down") = 0 /\ At(2, "down") \in {"none", "done"}
    BY <1>1, <1>2, <1>3 DEF RelayInv, ClosedBy, InOrder, Over, Shape
<1>5. Held(1, "down") = 0 /\ Held(2, "down") = 0
    BY <1>3, <1>4 DEF Held
<1>6. Total("down") = got["down"]
    BY <1>3, <1>4, <1>5, Numbers DEF Total, RelayInv
<1> QED
    BY <1>2, <1>6 DEF RelayInv, Conserved

\* Steps that put a value in one place.
LEMMA UnitsSet ==
    ASSUME RelayTypes, NEW l \in Link, NEW d \in Dir, NEW v \in Nat,
           buf' = [buf EXCEPT ![<<l, d>>] = v]
    PROVE  /\ buf' \in [Link \X Dir -> Nat]
           /\ Units(l, d)' = v
           /\ \A k \in Link, e \in Dir : k # l \/ e # d => Units(k, e)' = Units(k, e)
BY DEF RelayTypes, Units

LEMMA AtSet ==
    ASSUME RelayTypes, NEW n \in Hop, NEW d \in Dir, NEW v \in PCs,
           copier' = [copier EXCEPT ![<<n, d>>] = v]
    PROVE  /\ copier' \in [Copier -> PCs]
           /\ At(n, d)' = v
           /\ \A k \in Hop, e \in Dir : k # n \/ e # d => At(k, e)' = At(k, e)
BY DEF RelayTypes, At, Copier

LEMMA ShutSet ==
    ASSUME RelayTypes, NEW l \in Link, NEW e \in End,
           shut' = [shut EXCEPT ![<<l, e>>] = TRUE]
    PROVE  /\ shut' \in [Link \X End -> BOOLEAN]
           /\ IsShut(l, e)'
           /\ \A k \in Link, f \in End : k # l \/ f # e => (IsShut(k, f)' <=> IsShut(k, f))
BY DEF RelayTypes, IsShut

\* What a closed connection says about the links behind it.
LEMMA Chain ==
    ASSUME RelayInv, ~Excused
    PROVE  /\ IsShut(0, "far") => IsShut(1, "far") /\ Units(1, "down") = 0
           /\ hops = 2 /\ IsShut(1, "far") => IsShut(2, "far") /\ Units(2, "down") = 0
           /\ IsShut(1, "near") => IsShut(0, "far")
           /\ IsShut(2, "near") => IsShut(1, "far")
BY DEF RelayInv, ClosedBy, InOrder, Over

\* Where a goroutine of CopyLink reads and writes.
LEMMA Ways ==
    ASSUME NEW n \in Hop, NEW d \in Dir
    PROVE  /\ From(<<n, d>>) \in Link /\ To(<<n, d>>) \in Link
           /\ d = "up" => From(<<n, d>>) = n - 1 /\ To(<<n, d>>) = n
           /\ d = "down" => From(<<n, d>>) = n /\ To(<<n, d>>) = n - 1
           /\ Writer("up") = "near" /\ Writer("down") = "far"
           /\ Reader("up") = "far" /\ Reader("down") = "near"
           /\ Opposite("up") = "down" /\ Opposite("down") = "up"
BY DEF Link, Hop, Dir, From, To, Writer, Reader, Opposite

\* A unit that goes from a link to a hand or back is still there.
LEMMA TotalKept ==
    ASSUME RelayTypes, NEW n \in Hop, NEW l \in Link, NEW d \in Dir, NEW i \in {-1, 1},
           Units(l, d)' = Units(l, d) + i, Held(n, d)' = Held(n, d) - i,
           \A k \in Link, e \in Dir : k # l \/ e # d => Units(k, e)' = Units(k, e),
           \A k \in Hop, e \in Dir : k # n \/ e # d => Held(k, e)' = Held(k, e),
           got' = got
    PROVE  Total("up")' = Total("up") /\ Total("down")' = Total("down")
<1>1. /\ \A k \in {0, 1, 2}, e \in {"up", "down"} : Units(k, e) \in Nat
      /\ \A k \in {1, 2}, e \in {"up", "down"} : Held(k, e) \in {0, 1}
      /\ got["up"] \in Nat /\ got["down"] \in Nat
    BY Numbers, Places
<1>2. ASSUME NEW e \in Dir, e # d PROVE Total(e)' = Total(e)
    BY <1>2, Places DEF Total
<1>3. Total(d)' = Total(d)
    <2>1. Units(0, d)' + Units(1, d)' + Units(2, d)' = Units(0, d) + Units(1, d) + Units(2, d) + i
        <3>1. CASE l = 0
            BY <1>1, <3>1, Places
        <3>2. CASE l = 1
            BY <1>1, <3>2, Places
        <3>3. CASE l = 2
            BY <1>1, <3>3, Places
        <3> QED
            BY <3>1, <3>2, <3>3, Places
    <2>2. Held(1, d)' + Held(2, d)' = Held(1, d) + Held(2, d) - i
        <3>1. CASE n = 1
            BY <1>1, <3>1, Places
        <3>2. CASE n = 2
            BY <1>1, <3>2, Places
        <3> QED
            BY <3>1, <3>2, Places
    <2>3. /\ Units(0, d) \in Nat /\ Units(1, d) \in Nat /\ Units(2, d) \in Nat
          /\ Held(1, d) \in Nat /\ Held(2, d) \in Nat /\ got[d] \in Nat
          /\ Units(0, d)' \in Int /\ Units(1, d)' \in Int /\ Units(2, d)' \in Int
          /\ Held(1, d)' \in Int /\ Held(2, d)' \in Int
        <3>1. /\ Units(0, d) \in Nat /\ Units(1, d) \in Nat /\ Units(2, d) \in Nat
              /\ Held(1, d) \in Nat /\ Held(2, d) \in Nat /\ got[d] \in Nat
            BY <1>1, Places
        <3>2. \A k \in Link : Units(k, d)' = Units(k, d) \/ Units(k, d)' = Units(k, d) + i
            OBVIOUS
        <3>3. \A k \in Hop : Held(k, d)' = Held(k, d) \/ Held(k, d)' = Held(k, d) - i
            OBVIOUS
        <3> QED
            BY <3>1, <3>2, <3>3, Places
    <2> QED
        BY <2>1, <2>2, <2>3 DEF Total
<1> QED
    BY <1>2, <1>3, Places

\* What a goroutine takes from a link it has in its hand.
LEMMA CopyReadsRelay ==
    ASSUME RelayInv, NEW n \in Hop, NEW d \in Dir, CopyReads(<<n, d>>) PROVE RelayInv'
<1> DEFINE g == <<n, d>>
<1>0. RelayTypes /\ Shape /\ ClosedBy /\ InOrder /\ Conserved
    BY DEF RelayInv
<1>1. PICK l \in Link : l = From(g)
    BY Ways
<1>2. n \in {1, 2} /\ d \in {"up", "down"} /\ (d = "up" => l = n - 1) /\ (d = "down" => l = n)
    BY <1>1, Ways, Places
<1>3. /\ At(n, d) = "read" /\ Units(l, d) > 0
      /\ buf' = [buf EXCEPT ![<<l, d>>] = Units(l, d) - 1]
      /\ copier' = [copier EXCEPT ![<<n, d>>] = "write"]
      /\ UNCHANGED <<hops, dead, shut, broken, expired, sent, got, eof>>
    BY <1>0, <1>1 DEF CopyReads, At, Units, RelayTypes
<1>4. IsStream(l) \/ ~IsShut(l, Reader(d))
    BY <1>1 DEF CopyReads, ReadClosed, IsShut
<1>5. Units(l, d) - 1 \in Nat
    BY <1>0, <1>3, Numbers
<1>6. /\ buf' \in [Link \X Dir -> Nat] /\ Units(l, d)' = Units(l, d) - 1
      /\ \A k \in Link, e \in Dir : k # l \/ e # d => Units(k, e)' = Units(k, e)
    BY <1>0, <1>3, <1>5, UnitsSet
<1>7. /\ copier' \in [Copier -> PCs] /\ At(n, d)' = "write"
      /\ \A k \in Hop, e \in Dir : k # n \/ e # d => At(k, e)' = At(k, e)
    BY <1>0, <1>3, AtSet DEF PCs
<1>8. \A k, e : IsShut(k, e)' <=> IsShut(k, e)
    BY <1>3 DEF IsShut
<1>9. Held(n, d) = 0 /\ Held(n, d)' = 1
    BY <1>3, <1>7 DEF Held
<1>10. \A k \in Hop, e \in Dir : k # n \/ e # d => Held(k, e)' = Held(k, e)
    BY <1>7 DEF Held
<1>11. RelayTypes'
    BY <1>0, <1>3, <1>6, <1>7 DEF RelayTypes
<1>12. Total("up")' = Total("up") /\ Total("down")' = Total("down")
    <2>1. Units(l, d)' = Units(l, d) + (-1) /\ Held(n, d)' = Held(n, d) - (-1) /\ -1 \in {-1, 1}
        BY <1>0, <1>6, <1>9, Numbers
    <2> QED
        BY <1>0, <1>3, <1>6, <1>10, <2>1, TotalKept
<1>13. Excused => Excused'
    BY <1>0, <1>2, <1>3, <1>4, <1>6, <1>8, <1>12, Numbers, Places, Ways
       DEF Excused, UpLost, IsStream, RelayTypes
<1>14. Shape'
    BY <1>0, <1>2, <1>3, <1>6, <1>7, Numbers, Places DEF Shape
<1>15. ClosedBy'
    BY <1>0, <1>2, <1>3, <1>6, <1>7, <1>8, Numbers, Places DEF ClosedBy
<1>16. InOrder'
    BY <1>0, <1>2, <1>3, <1>6, <1>7, <1>8, <1>13, Numbers, Places DEF InOrder, Over
<1>17. Conserved'
    BY <1>0, <1>3, <1>12, <1>13 DEF Conserved
<1> QED
    BY <1>11, <1>14, <1>15, <1>16, <1>17 DEF RelayInv

\* A Read that ends: the connection was closed by the other goroutine, which is over,
\* or by the writer behind all that it wrote, or the stream has expired.
LEMMA CopyEndsRelay ==
    ASSUME RelayInv, NEW n \in Hop, NEW d \in Dir, CopyEnds(<<n, d>>) PROVE RelayInv'
<1> DEFINE g == <<n, d>>
<1>0. RelayTypes /\ Shape /\ ClosedBy /\ InOrder /\ Conserved
    BY DEF RelayInv
<1>1. PICK l \in Link : l = From(g)
    BY Ways
<1>2. n \in {1, 2} /\ d \in {"up", "down"} /\ (d = "up" => l = n - 1) /\ (d = "down" => l = n)
    BY <1>1, Ways, Places
<1>3. /\ At(n, d) = "read"
      /\ copier' = [copier EXCEPT ![<<n, d>>] = "close"]
      /\ UNCHANGED <<hops, dead, buf, shut, broken, expired, sent, got, eof>>
    BY DEF CopyEnds, At
<1>4. \/ ~IsStream(l) /\ IsShut(l, Reader(d))
      \/ Units(l, d) = 0 /\ IsShut(l, Writer(d))
      \/ Units(l, d) = 0 /\ IsStream(l) /\ expired[Reader(d)]
    BY <1>1 DEF CopyEnds, ReadClosed, Ended, IsShut, Units
<1>5. /\ copier' \in [Copier -> PCs] /\ At(n, d)' = "close"
      /\ \A k \in Hop, e \in Dir : k # n \/ e # d => At(k, e)' = At(k, e)
    BY <1>0, <1>3, AtSet DEF PCs
<1>6. \A k, e : (IsShut(k, e)' <=> IsShut(k, e)) /\ Units(k, e)' = Units(k, e)
    BY <1>3 DEF IsShut, Units
<1>7. \A k \in Hop, e \in Dir : Held(k, e)' = Held(k, e)
    BY <1>3, <1>5 DEF Held
<1>8. RelayTypes'
    BY <1>0, <1>3, <1>5 DEF RelayTypes
<1>9. Total("up")' = Total("up") /\ Total("down")' = Total("down")
    BY <1>3, <1>6, <1>7, Places DEF Total
<1>10. Excused' <=> Excused
    BY <1>3, <1>6, <1>9 DEF Excused, UpLost
<1>11. Shape'
    BY <1>0, <1>2, <1>3, <1>5, <1>6, Places DEF Shape
<1>12. ClosedBy'
    BY <1>0, <1>2, <1>3, <1>5, <1>6, Places DEF ClosedBy
<1>13. ASSUME ~Excused
       PROVE  /\ d = "down" => IsShut(n, "far") /\ Units(n, "down") = 0
              /\ d = "up" => IsShut(n - 1, "far")
    <2>1. /\ IsShut(0, "far") => At(1, "down") = "done"
          /\ hops = 2 /\ IsShut(1, "far") => At(2, "down") = "done"
          /\ hops = 1 => n = 1
          /\ hops \in {1, 2}
        BY <1>0, <1>2, <1>3 DEF ClosedBy, Shape, RelayTypes
    <2>2. CASE d = "down"
        <3>1. CASE IsShut(l, "near") /\ ~IsStream(l)
            BY <1>2, <1>3, <1>13, <2>1, <2>2, <3>1, Chain DEF IsStream
        <3>2. CASE Units(l, d) = 0 /\ IsShut(l, "far")
            BY <1>2, <2>2, <3>2
        <3>3. CASE Units(l, d) = 0 /\ IsStream(l) /\ expired["near"]
            BY <1>0, <1>2, <1>13, <2>2, <3>3 DEF InOrder, IsStream
        <3> QED
            BY <1>4, <2>2, <3>1, <3>2, <3>3, Ways
    <2>3. CASE d = "up"
        <3>1. CASE IsShut(l, "far")
            BY <1>2, <2>3, <3>1
        <3>2. CASE IsShut(l, "near")
            <4>1. CASE n = 1
                <5>1. l = 0
                    BY <1>2, <2>3, <4>1
                <5>2. eof
                    BY <1>13, <3>2, <5>1 DEF Excused
                <5> QED
                    BY <1>0, <1>2, <2>3, <4>1, <5>2 DEF ClosedBy
            <4>2. CASE n = 2
                BY <1>2, <1>13, <2>3, <3>2, <4>2, Chain
            <4> QED
                BY <1>2, <4>1, <4>2
        <3>3. CASE IsStream(l) /\ expired["far"]
            BY <1>0, <1>2, <1>13, <2>3, <3>3 DEF InOrder, IsStream
        <3> QED
            BY <1>4, <2>3, <3>1, <3>2, <3>3, Ways
    <2> QED
        BY <1>2, <2>2, <2>3
<1>14. InOrder'
    BY <1>0, <1>2, <1>3, <1>5, <1>6, <1>10, <1>13, Places DEF InOrder, Over
<1>15. Conserved'
    BY <1>0, <1>3, <1>9, <1>10 DEF Conserved
<1> QED
    BY <1>8, <1>11, <1>12, <1>14, <1>15 DEF RelayInv

\* A unit goes from the hand of a goroutine to the next link.
LEMMA CopyWritesRelay ==
    ASSUME RelayInv, NEW n \in Hop, NEW d \in Dir, CopyWrites(<<n, d>>) PROVE RelayInv'
<1> DEFINE g == <<n, d>>
<1>0. RelayTypes /\ Shape /\ ClosedBy /\ InOrder /\ Conserved
    BY DEF RelayInv
<1>1. PICK l \in Link : l = To(g)
    BY Ways
<1>2. n \in {1, 2} /\ d \in {"up", "down"} /\ (d = "up" => l = n) /\ (d = "down" => l = n - 1)
    BY <1>1, Ways, Places
<1>3. /\ At(n, d) \in {"write", "wait"}
      /\ buf' = [buf EXCEPT ![<<l, d>>] = Units(l, d) + 1]
      /\ copier' = [copier EXCEPT ![<<n, d>>] = "read"]
      /\ UNCHANGED <<hops, dead, shut, broken, expired, sent, got, eof>>
    BY <1>0, <1>1 DEF CopyWrites, At, Units, RelayTypes
<1>4. Units(l, d) + 1 \in Nat
    BY <1>0, Numbers
<1>5. /\ buf' \in [Link \X Dir -> Nat] /\ Units(l, d)' = Units(l, d) + 1
      /\ \A k \in Link, e \in Dir : k # l \/ e # d => Units(k, e)' = Units(k, e)
    BY <1>0, <1>3, <1>4, UnitsSet
<1>6. /\ copier' \in [Copier -> PCs] /\ At(n, d)' = "read"
      /\ \A k \in Hop, e \in Dir : k # n \/ e # d => At(k, e)' = At(k, e)
    BY <1>0, <1>3, AtSet DEF PCs
<1>7. \A k, e : IsShut(k, e)' <=> IsShut(k, e)
    BY <1>3 DEF IsShut
<1>8. Held(n, d) = 1 /\ Held(n, d)' = 0
    BY <1>3, <1>6 DEF Held
<1>9. \A k \in Hop, e \in Dir : k # n \/ e # d => Held(k, e)' = Held(k, e)
    BY <1>6 DEF Held
<1>10. RelayTypes'
    BY <1>0, <1>3, <1>5, <1>6 DEF RelayTypes
<1>11. Total("up")' = Total("up") /\ Total("down")' = Total("down")
    BY <1>0, <1>3, <1>5, <1>8, <1>9, TotalKept
<1>12. Excused => Excused'
    BY <1>0, <1>2, <1>3, <1>5, <1>7, <1>11, Numbers, Places DEF Excused, UpLost
<1>13. Shape'
    BY <1>0, <1>2, <1>3, <1>5, <1>6, Numbers, Places DEF Shape
<1>14. hops = 1 => n = 1
    BY <1>0, <1>2, <1>3 DEF Shape
<1>15. ClosedBy'
    BY <1>0, <1>2, <1>3, <1>5, <1>6, <1>7, Numbers, Places DEF ClosedBy
<1>16. InOrder'
    <2>1. ~Excused' => ~Excused
        BY <1>12
    <2>2. hops \in {1, 2}
        BY <1>0 DEF RelayTypes
    <2>3. d = "down" /\ n = 2 => ~IsShut(1, "far")
        BY <1>0, <1>3, <1>14, <2>2 DEF ClosedBy
    <2> QED
        BY <1>0, <1>2, <1>3, <1>5, <1>6, <1>7, <1>12, <2>3, Places DEF InOrder, Over
<1>17. Conserved'
    BY <1>0, <1>3, <1>11, <1>12 DEF Conserved
<1> QED
    BY <1>10, <1>13, <1>15, <1>16, <1>17 DEF RelayInv

\* A writer that waits for window still has its unit.
LEMMA CopyWaitsRelay ==
    ASSUME RelayInv, NEW n \in Hop, NEW d \in Dir, CopyWaits(<<n, d>>) PROVE RelayInv'
<1>0. RelayTypes /\ Shape /\ ClosedBy /\ InOrder /\ Conserved
    BY DEF RelayInv
<1>1. /\ At(n, d) = "write"
      /\ copier' = [copier EXCEPT ![<<n, d>>] = "wait"]
      /\ UNCHANGED <<hops, dead, buf, shut, broken, expired, sent, got, eof>>
    BY DEF CopyWaits, At
<1>2. n \in {1, 2} /\ d \in {"up", "down"}
    BY Places
<1>3. /\ copier' \in [Copier -> PCs] /\ At(n, d)' = "wait"
      /\ \A k \in Hop, e \in Dir : k # n \/ e # d => At(k, e)' = At(k, e)
    BY <1>0, <1>1, AtSet DEF PCs
<1>4. \A k, e : (IsShut(k, e)' <=> IsShut(k, e)) /\ Units(k, e)' = Units(k, e)
    BY <1>1 DEF IsShut, Units
<1>5. \A k \in Hop, e \in Dir : Held(k, e)' = Held(k, e)
    BY <1>1, <1>3 DEF Held
<1>6. RelayTypes'
    BY <1>0, <1>1, <1>3 DEF RelayTypes
<1>7. Total("up")' = Total("up") /\ Total("down")' = Total("down")
    BY <1>1, <1>4, <1>5, Places DEF Total
<1>8. Excused' <=> Excused
    BY <1>1, <1>4, <1>7 DEF Excused, UpLost
<1>9. Shape' /\ ClosedBy'
    BY <1>0, <1>1, <1>2, <1>3, <1>4, Places DEF Shape, ClosedBy
<1>10. InOrder'
    BY <1>0, <1>1, <1>2, <1>3, <1>4, <1>8, Places DEF InOrder, Over
<1>11. Conserved'
    BY <1>0, <1>1, <1>7, <1>8 DEF Conserved
<1> QED
    BY <1>6, <1>9, <1>10, <1>11 DEF RelayInv

\* What a reset may destroy.
LEMMA LostUnits ==
    ASSUME RelayTypes, NEW l \in Link, NEW d \in Dir, buf' \in Lost(l, d)
    PROVE  /\ buf' \in [Link \X Dir -> Nat]
           /\ Units(l, d)' \in {Units(l, d), 0}
           /\ \A k \in Link, e \in Dir : k # l \/ e # d => Units(k, e)' = Units(k, e)
           /\ \A k \in Link, e \in Dir : Units(k, e)' \in Nat /\ Units(k, e)' <= Units(k, e)
<1>1. CASE buf' = buf
    BY <1>1 DEF RelayTypes, Units
<1>2. CASE buf' = [buf EXCEPT ![<<l, d>>] = 0]
    <2>1. /\ buf' \in [Link \X Dir -> Nat] /\ Units(l, d)' = 0
          /\ \A k \in Link, e \in Dir : k # l \/ e # d => Units(k, e)' = Units(k, e)
        BY <1>2, UnitsSet
    <2> QED
        BY <2>1, Numbers
<1> QED
    BY <1>1, <1>2 DEF Lost

\* Units and hands that get no fuller.
LEMMA TotalFalls ==
    ASSUME RelayTypes, RelayTypes', got' = got, NEW d \in Dir,
           \A k \in Link : Units(k, d)' <= Units(k, d),
           \A k \in Hop : Held(k, d)' <= Held(k, d)
    PROVE  /\ Total(d)' <= Total(d)
           /\ (\E k \in Link : Units(k, d)' < Units(k, d)) \/ (\E k \in Hop : Held(k, d)' < Held(k, d))
                 => Total(d)' < Total(d)
<1>1. /\ Units(0, d) \in Nat /\ Units(1, d) \in Nat /\ Units(2, d) \in Nat
      /\ Held(1, d) \in Nat /\ Held(2, d) \in Nat /\ got[d] \in Nat
    BY Numbers, Places
<1>2. /\ Units(0, d)' \in Nat /\ Units(1, d)' \in Nat /\ Units(2, d)' \in Nat
      /\ Held(1, d)' \in Nat /\ Held(2, d)' \in Nat
    <2>1. /\ \A l \in Link, e \in Dir : Units(l, e)' \in Nat
          /\ \A n \in Hop, e \in Dir : Held(n, e)' \in {0, 1}
        BY Places DEF RelayTypes, Units, At, Held
    <2> QED
        BY <2>1, Places
<1>3. /\ Units(0, d)' <= Units(0, d) /\ Units(1, d)' <= Units(1, d) /\ Units(2, d)' <= Units(2, d)
      /\ Held(1, d)' <= Held(1, d) /\ Held(2, d)' <= Held(2, d)
    BY Places
<1>4. Total(d)' <= Total(d)
    BY <1>1, <1>2, <1>3 DEF Total
<1>5. ASSUME \/ Units(0, d)' < Units(0, d) \/ Units(1, d)' < Units(1, d) \/ Units(2, d)' < Units(2, d)
             \/ Held(1, d)' < Held(1, d) \/ Held(2, d)' < Held(2, d)
      PROVE  Total(d)' < Total(d)
    BY <1>1, <1>2, <1>3, <1>5 DEF Total
<1> QED
    BY <1>4, <1>5, Places

\* A total is a number.
LEMMA TotalInt == ASSUME RelayTypes PROVE Total("up") \in Nat /\ Total("down") \in Nat
<1>1. /\ \A k \in {0, 1, 2}, e \in {"up", "down"} : Units(k, e) \in Nat
      /\ \A k \in {1, 2}, e \in {"up", "down"} : Held(k, e) \in Nat
      /\ got["up"] \in Nat /\ got["down"] \in Nat
    BY Numbers, Places
<1> QED
    BY <1>1 DEF Total

\* A step that takes units away and closes connections keeps the reasons.
LEMMA ExcuseStays ==
    ASSUME RelayTypes, RelayTypes', Conserved, UNCHANGED <<hops, eof, sent, got>>,
           broken => broken',
           \A l \in Link, e \in End : IsShut(l, e) => IsShut(l, e)',
           \A k \in Link : Units(k, "up")' <= Units(k, "up"),
           \A k \in Hop : Held(k, "up")' <= Held(k, "up")
    PROVE  /\ Excused => Excused'
           /\ Total("up")' <= sent["up"]
           /\ (\E k \in Hop : Held(k, "up")' < Held(k, "up")) => Excused'
<1>1. "up" \in Dir /\ Total("up") <= sent["up"] /\ Total("up") \in Nat /\ sent["up"] \in Nat
    BY TotalInt, Numbers, Places DEF Conserved
<1>2. Total("up")' \in Nat
    <2>1. /\ \A k \in {0, 1, 2}, e \in {"up", "down"} : Units(k, e)' \in Nat
          /\ \A k \in {1, 2}, e \in {"up", "down"} : Held(k, e)' \in Nat
          /\ got'["up"] \in Nat
        BY Places DEF RelayTypes, Units, At, Held
    <2> QED
        BY <2>1 DEF Total
<1>3. /\ Total("up")' <= Total("up")
      /\ (\E k \in Link : Units(k, "up")' < Units(k, "up")) \/ (\E k \in Hop : Held(k, "up")' < Held(k, "up"))
            => Total("up")' < Total("up")
    BY <1>1, TotalFalls
<1>4. Total("up")' < Total("up") => Excused'
    BY <1>1, <1>2 DEF Excused, UpLost
<1>5. \A k \in {0, 1, 2} : Units(k, "up") \in Nat /\ Units(k, "up")' \in Nat
    BY Places DEF RelayTypes, Units
<1>6. (\E k \in {0, 1, 2} : Units(k, "up")' # Units(k, "up")) => Excused'
    BY <1>3, <1>4, <1>5, Places
<1>7. ASSUME Excused, \A k \in {0, 1, 2} : Units(k, "up")' = Units(k, "up") PROVE Excused'
    <2>1. /\ IsShut(0, "far") => IsShut(0, "far")'
          /\ IsShut(1, "far") => IsShut(1, "far")'
          /\ IsShut(2, "far") => IsShut(2, "far")'
          /\ IsShut(0, "near") => IsShut(0, "near")'
        BY Places
    <2>2. Total("up") < sent["up"] => Total("up")' < sent'["up"]
        BY <1>1, <1>2, <1>3
    <2> QED
        BY <1>7, <2>1, <2>2 DEF Excused, UpLost
<1> QED
    BY <1>1, <1>2, <1>3, <1>4, <1>6, <1>7, Places

\* With a reason there is nothing more to say of the order.
LEMMA Waived ==
    ASSUME RelayTypes', Shape', ClosedBy', Excused', Total("up")' <= sent'["up"]
    PROVE  RelayInv'
BY DEF RelayInv, InOrder, Conserved

\* A Write that fails loses a unit: of the user's, or of the answer when the user or
\* the tunnel has gone.
LEMMA CopyFailsRelay ==
    ASSUME RelayInv, NEW n \in Hop, NEW d \in Dir, CopyFails(<<n, d>>) PROVE RelayInv'
<1> DEFINE g == <<n, d>>
           o == Opposite(d)
<1>0. RelayTypes /\ Shape /\ ClosedBy /\ InOrder /\ Conserved
    BY DEF RelayInv
<1>1. PICK l \in Link : l = To(g)
    BY Ways
<1>2. /\ n \in {1, 2} /\ d \in {"up", "down"} /\ o \in Dir
      /\ d = "up" => l = n /\ o = "down"
      /\ d = "down" => l = n - 1 /\ o = "up"
    BY <1>1, Ways, Places
<1>3. /\ At(n, d) = "write" /\ UNCHANGED <<hops, dead, shut, broken, expired, sent, got, eof>>
      /\ \E pc \in {"close", "read"} : copier' = [copier EXCEPT ![<<n, d>>] = pc]
    BY DEF CopyFails, At
<1>4. \/ /\ IsStream(l) \/ IsShut(l, Writer(d))
         /\ ~CanWrite(l, d) \/ Ended(l, o)
         /\ buf' = buf
      \/ /\ ~IsStream(l) /\ ~IsShut(l, Writer(d)) /\ IsShut(l, Reader(d))
         /\ buf' \in Lost(l, o)
    BY <1>1 DEF CopyFails, IsShut
<1>5. /\ buf' \in [Link \X Dir -> Nat]
      /\ \A k \in Link, e \in Dir : Units(k, e)' \in Nat /\ Units(k, e)' <= Units(k, e)
    <2>1. buf' \in Lost(l, o)
        BY <1>4 DEF Lost
    <2> QED
        BY <1>0, <1>2, <2>1, LostUnits
<1>6. PICK pc \in {"close", "read"} : copier' = [copier EXCEPT ![<<n, d>>] = pc]
    BY <1>3
<1>7. /\ copier' \in [Copier -> PCs] /\ At(n, d)' = pc
      /\ \A k \in Hop, e \in Dir : k # n \/ e # d => At(k, e)' = At(k, e)
    <2>1. pc \in PCs
        BY DEF PCs
    <2> QED
        BY <1>0, <1>6, <2>1, AtSet
<1>8. \A k, e : IsShut(k, e)' <=> IsShut(k, e)
    BY <1>3 DEF IsShut
<1>9. RelayTypes'
    BY <1>0, <1>3, <1>5, <1>7 DEF RelayTypes
<1>10. Held(n, d) = 1 /\ Held(n, d)' = 0
    BY <1>3, <1>7 DEF Held
<1>11. \A k \in Hop, e \in Dir : Held(k, e)' <= Held(k, e)
    <2>1. \A k \in Hop, e \in Dir : k # n \/ e # d => Held(k, e)' = Held(k, e)
        BY <1>7 DEF Held
    <2>2. \A k \in Hop, e \in Dir : Held(k, e) \in {0, 1}
        BY <1>0, Numbers
    <2> QED
        BY <1>10, <2>1, <2>2
<1>12. /\ Excused => Excused'
       /\ Total("up")' <= sent["up"]
       /\ (\E k \in Hop : Held(k, "up")' < Held(k, "up")) => Excused'
    BY <1>0, <1>3, <1>5, <1>8, <1>9, <1>11, ExcuseStays, Places
<1>13. Shape'
    <2>1. \A e \in Dir : hops = 1 => Units(2, e)' = 0
        BY <1>0, <1>5, Numbers, Places DEF Shape
    <2> QED
        BY <1>0, <1>2, <1>3, <1>6, <1>7, <2>1, Places DEF Shape
<1>14. ClosedBy'
    <2>1. Units(0, "down") = 0 => Units(0, "down")' = 0
        BY <1>5, Places
    <2> QED
        BY <1>0, <1>2, <1>3, <1>7, <1>8, <2>1, Places DEF ClosedBy
<1>15. d = "down" => Excused
    <2> SUFFICES ASSUME d = "down", ~Excused PROVE FALSE
        OBVIOUS
    <2>1. CASE n = 1
        <3>1. l = 0 /\ ~IsStream(l) /\ ~IsShut(0, "far")
            BY <1>0, <1>2, <1>3, <2>1 DEF ClosedBy, IsStream
        <3>2. IsShut(0, "near")
            BY <1>4, <3>1, Ways
        <3>3. ~eof
            BY <1>0, <3>1 DEF ClosedBy
        <3> QED
            BY <3>2, <3>3 DEF Excused
    <2>2. CASE n = 2
        <3>1. l = 1 /\ hops = 2
            BY <1>0, <1>2, <1>3, <2>2 DEF Shape, RelayTypes
        <3>2. ~IsShut(1, "far") /\ ~dead
            BY <1>0, <1>3, <2>2, <3>1 DEF ClosedBy, Shape
        <3>3. ~expired["far"]
            BY <1>0, <3>2 DEF InOrder
        <3>4. ~IsShut(1, "near")
            BY <3>2, Chain
        <3>5. CanWrite(l, d)
            BY <3>1, <3>2, <3>3, Ways DEF CanWrite, IsShut, IsStream
        <3>6. ~Ended(l, o)
            BY <1>2, <3>1, <3>4, Ways DEF Ended, IsShut
        <3> QED
            BY <1>4, <3>1, <3>5, <3>6 DEF IsStream
    <2> QED
        BY <1>2, <2>1, <2>2
<1>16. Excused'
    BY <1>2, <1>10, <1>12, <1>15
<1> QED
    BY <1>3, <1>9, <1>12, <1>13, <1>14, <1>16, Waived

\* Close at one end of a link.
LEMMA CloseEndUnits ==
    ASSUME RelayTypes, NEW l \in Link, NEW d \in Dir, CloseEnd(l, Writer(d))
    PROVE  /\ buf' \in [Link \X Dir -> Nat] /\ shut' \in [Link \X End -> BOOLEAN]
           /\ IsShut(l, Writer(d))'
           /\ \A k \in Link, f \in End : k # l \/ f # Writer(d) => (IsShut(k, f)' <=> IsShut(k, f))
           /\ \A k \in Link, e \in Dir : Units(k, e)' \in Nat /\ Units(k, e)' <= Units(k, e)
           /\ \A k \in Link, e \in Dir : k # l \/ e # d => Units(k, e)' = Units(k, e)
           /\ Units(l, d)' # Units(l, d) => ~IsStream(l) /\ Units(l, Opposite(d)) > 0
<1> DEFINE e == Writer(d)
<1>1. /\ e \in End /\ d \in {"up", "down"}
      /\ (IF e = "near" THEN "up" ELSE "down") = d
      /\ (IF e = "near" THEN "down" ELSE "up") = Opposite(d)
    BY Places DEF Writer, Opposite
<1>2. /\ shut' = [shut EXCEPT ![<<l, e>>] = TRUE]
      /\ buf' = buf \/ (buf' \in Lost(l, d) /\ ~IsStream(l) /\ Units(l, Opposite(d)) > 0)
    BY <1>1 DEF CloseEnd, Units
<1>3. buf' \in Lost(l, d)
    BY <1>2 DEF Lost
<1>4. /\ shut' \in [Link \X End -> BOOLEAN] /\ IsShut(l, e)'
      /\ \A k \in Link, f \in End : k # l \/ f # e => (IsShut(k, f)' <=> IsShut(k, f))
    BY <1>1, <1>2, ShutSet
<1>5. /\ buf' \in [Link \X Dir -> Nat]
      /\ \A k \in Link, f \in Dir : k # l \/ f # d => Units(k, f)' = Units(k, f)
      /\ \A k \in Link, f \in Dir : Units(k, f)' \in Nat /\ Units(k, f)' <= Units(k, f)
    BY <1>3, LostUnits
<1>6. Units(l, d)' # Units(l, d) => buf' # buf
    BY DEF Units
<1> QED
    BY <1>2, <1>4, <1>5, <1>6

\* The deferred Close.
LEMMA CopyClosesRelay ==
    ASSUME RelayInv, NEW n \in Hop, NEW d \in Dir, CopyCloses(<<n, d>>) PROVE RelayInv'
<1> DEFINE g == <<n, d>>
           w == Writer(d)
<1>0. RelayTypes /\ Shape /\ ClosedBy /\ InOrder /\ Conserved
    BY DEF RelayInv
<1>1. PICK l \in Link : l = To(g)
    BY Ways
<1>2. /\ n \in {1, 2} /\ d \in {"up", "down"} /\ w \in End
      /\ d = "up" => l = n /\ w = "near"
      /\ d = "down" => l = n - 1 /\ w = "far"
    BY <1>1, Ways, Places
<1>3. /\ At(n, d) = "close" /\ copier' = [copier EXCEPT ![<<n, d>>] = "done"]
      /\ CloseEnd(l, w)
      /\ UNCHANGED <<hops, dead, broken, expired, sent, got, eof>>
    BY <1>1 DEF CopyCloses, At
<1>4. /\ buf' \in [Link \X Dir -> Nat] /\ shut' \in [Link \X End -> BOOLEAN]
      /\ IsShut(l, w)'
      /\ \A k \in Link, f \in End : k # l \/ f # w => (IsShut(k, f)' <=> IsShut(k, f))
      /\ \A k \in Link, e \in Dir : Units(k, e)' \in Nat /\ Units(k, e)' <= Units(k, e)
      /\ \A k \in Link, e \in Dir : k # l \/ e # d => Units(k, e)' = Units(k, e)
      /\ Units(l, d)' # Units(l, d) => ~IsStream(l) /\ Units(l, Opposite(d)) > 0
    BY <1>0, <1>3, CloseEndUnits
<1>5. /\ copier' \in [Copier -> PCs] /\ At(n, d)' = "done"
      /\ \A k \in Hop, e \in Dir : k # n \/ e # d => At(k, e)' = At(k, e)
    BY <1>0, <1>3, AtSet DEF PCs
<1>6. RelayTypes'
    BY <1>0, <1>3, <1>4, <1>5 DEF RelayTypes
<1>7. \A k \in Hop, e \in Dir : Held(k, e)' = Held(k, e)
    BY <1>3, <1>5 DEF Held
<1>8. \A k \in Hop, e \in Dir : Held(k, e)' <= Held(k, e)
    BY <1>0, <1>7, Numbers
<1>9. \A k \in Link, f \in End : IsShut(k, f) => IsShut(k, f)'
    BY <1>4
<1>10. (Excused => Excused') /\ Total("up")' <= sent["up"]
    BY <1>0, <1>3, <1>4, <1>6, <1>8, <1>9, ExcuseStays, Places
<1>11. Shape'
    <2>1. \A e \in Dir : hops = 1 => Units(2, e)' = 0
        BY <1>0, <1>4, Places DEF Shape
    <2> QED
        BY <1>0, <1>2, <1>3, <1>5, <2>1, Places DEF Shape
<1>12. ClosedBy'
    <2>1. Units(0, "down") = 0 => Units(0, "down")' = 0
        BY <1>4, Places
    <2> QED
        BY <1>0, <1>2, <1>3, <1>4, <1>5, <1>9, <2>1, Places DEF ClosedBy
<1>13. InOrder'
    <2>1. \A k \in Hop, e \in Dir : Over(k, e)' <=> Over(k, e)
        BY <1>3, <1>5 DEF Over
    <2>2. /\ Units(1, "down") = 0 => Units(1, "down")' = 0
          /\ Units(2, "down") = 0 => Units(2, "down")' = 0
        BY <1>4, Places
    <2>3. /\ IsShut(0, "far") => IsShut(0, "far")'
          /\ IsShut(1, "far") => IsShut(1, "far")'
          /\ IsShut(2, "far") => IsShut(2, "far")'
        BY <1>9, Places
    <2> QED
        BY <1>0, <1>3, <1>10, <2>1, <2>2, <2>3, Places DEF InOrder
<1>14. Total("down")' = Total("down") \/ Excused'
    <2>1. CASE \A k \in Link : Units(k, "down")' = Units(k, "down")
        BY <1>3, <1>7, <2>1, Places DEF Total
    <2>2. CASE \E k \in Link : Units(k, "down")' # Units(k, "down")
        <3>1. d = "down" /\ ~IsStream(l) /\ Units(l, "up") > 0
            BY <1>2, <1>4, <2>2, Places, Ways
        <3>2. n = 1 /\ l = 0
            BY <1>0, <1>2, <1>3, <3>1 DEF IsStream, Shape, RelayTypes
        <3>3. Units(0, "up")' > 0 /\ IsShut(0, "far")'
            BY <1>2, <1>4, <3>1, <3>2, Places
        <3> QED
            BY <3>3 DEF Excused, UpLost
    <2> QED
        BY <2>1, <2>2
<1>15. Conserved'
    BY <1>0, <1>3, <1>10, <1>14 DEF Conserved
<1> QED
    BY <1>6, <1>11, <1>12, <1>13, <1>15 DEF RelayInv

\* The user or the target goes away.
LEMMA LeavesRelay ==
    ASSUME RelayInv, NEW d \in Dir, Leaves(d) PROVE RelayInv'
<1> DEFINE o == Opposite(d)
           w == Writer(o)
<1>0. RelayTypes /\ Shape /\ ClosedBy /\ InOrder /\ Conserved /\ hops \in {1, 2}
    BY DEF RelayInv, RelayTypes
<1>1. PICK l \in Link : l = Inner(d)
    BY <1>0, Places DEF Inner
<1>2. /\ d \in {"up", "down"} /\ o \in Dir /\ Reader(d) = w
      /\ d = "up" => l = hops /\ o = "down" /\ w = "far"
      /\ d = "down" => l = 0 /\ o = "up" /\ w = "near"
    BY <1>1, Places DEF Inner, Opposite, Writer, Reader
<1>3. CloseEnd(l, w) /\ UNCHANGED <<hops, dead, broken, expired, copier, sent, got, eof>>
    BY <1>1, <1>2 DEF Leaves
<1>4. /\ buf' \in [Link \X Dir -> Nat] /\ shut' \in [Link \X End -> BOOLEAN]
      /\ IsShut(l, w)'
      /\ \A k \in Link, f \in End : k # l \/ f # w => (IsShut(k, f)' <=> IsShut(k, f))
      /\ \A k \in Link, e \in Dir : Units(k, e)' \in Nat /\ Units(k, e)' <= Units(k, e)
      /\ \A k \in Link, e \in Dir : k # l \/ e # o => Units(k, e)' = Units(k, e)
      /\ Units(l, o)' # Units(l, o) => ~IsStream(l) /\ Units(l, Opposite(o)) > 0
    BY <1>0, <1>2, <1>3, CloseEndUnits
<1>5. \A k, e : At(k, e)' = At(k, e) /\ Held(k, e)' = Held(k, e)
    BY <1>3 DEF At, Held
<1>6. RelayTypes'
    BY <1>0, <1>3, <1>4 DEF RelayTypes
<1>7. \A k \in Hop, e \in Dir : Held(k, e)' <= Held(k, e)
    BY <1>0, <1>5, Numbers
<1>8. \A k \in Link, f \in End : IsShut(k, f) => IsShut(k, f)'
    BY <1>4
<1>9. (Excused => Excused') /\ Total("up")' <= sent["up"]
    BY <1>0, <1>3, <1>4, <1>6, <1>7, <1>8, ExcuseStays, Places
<1>10. Shape'
    <2>1. \A e \in Dir : hops = 1 => Units(2, e)' = 0
        BY <1>0, <1>4, Places DEF Shape
    <2> QED
        BY <1>0, <1>3, <1>5, <2>1, Places DEF Shape
<1>11. ClosedBy'
    <2>1. Units(0, "down") = 0 => Units(0, "down")' = 0
        BY <1>4, Places
    <2>2. /\ IsShut(0, "far")' <=> IsShut(0, "far")
          /\ hops = 2 => (IsShut(1, "far")' <=> IsShut(1, "far"))
          /\ IsShut(1, "near")' <=> IsShut(1, "near")
          /\ IsShut(2, "near")' <=> IsShut(2, "near")
        BY <1>0, <1>2, <1>4, Places
    <2> QED
        BY <1>0, <1>3, <1>5, <2>1, <2>2 DEF ClosedBy
<1>12. InOrder'
    <2>1. \A k, e : Over(k, e)' <=> Over(k, e)
        BY <1>5 DEF Over
    <2>2. /\ Units(1, "down") = 0 => Units(1, "down")' = 0
          /\ Units(2, "down") = 0 => Units(2, "down")' = 0
        BY <1>4, Places
    <2>3. /\ IsShut(0, "far") => IsShut(0, "far")'
          /\ IsShut(1, "far") => IsShut(1, "far")'
          /\ IsShut(2, "far") => IsShut(2, "far")'
        BY <1>8, Places
    <2> QED
        BY <1>0, <1>3, <1>9, <2>1, <2>2, <2>3 DEF InOrder
<1>13. Total("down")' = Total("down") \/ Excused'
    <2>1. CASE \A k \in Link : Units(k, "down")' = Units(k, "down")
        BY <1>3, <1>5, <2>1, Places DEF Total
    <2>2. CASE \E k \in Link : Units(k, "down")' # Units(k, "down")
        <3>1. d = "up" /\ Units(l, "up") > 0
            BY <1>2, <1>4, <2>2, Places DEF Opposite
        <3>2. l = hops /\ Units(l, "up")' > 0 /\ IsShut(l, "far")'
            BY <1>2, <1>4, <3>1, Places
        <3> QED
            BY <1>0, <1>3, <3>2 DEF Excused, UpLost
    <2> QED
        BY <2>1, <2>2
<1>14. Conserved'
    BY <1>0, <1>3, <1>9, <1>13 DEF Conserved
<1> QED
    BY <1>6, <1>10, <1>11, <1>12, <1>14 DEF RelayInv

\* Steps of the stream: no goroutine moves, nothing is closed, and only the stream
\* loses units.
LEMMA StreamKeeps ==
    ASSUME RelayInv, UNCHANGED <<hops, dead, shut, copier, sent, got, eof>>,
           broken' \in BOOLEAN, broken => broken', expired' \in [End -> BOOLEAN],
           buf' \in [Link \X Dir -> Nat],
           \A k \in Link, e \in Dir : Units(k, e)' <= Units(k, e),
           \A e \in Dir : Units(0, e)' = Units(0, e) /\ Units(2, e)' = Units(2, e),
           Excused' \/ (IsShut(1, "far") /\ Units(1, "down")' = Units(1, "down"))
    PROVE  RelayInv'
<1>0. RelayTypes /\ Shape /\ ClosedBy /\ InOrder /\ Conserved
    BY DEF RelayInv
<1>1. \A k, e : At(k, e)' = At(k, e) /\ Held(k, e)' = Held(k, e) /\ (IsShut(k, e)' <=> IsShut(k, e))
    BY DEF At, Held, IsShut
<1>2. RelayTypes'
    BY <1>0 DEF RelayTypes
<1>3. \A k \in Hop, e \in Dir : Held(k, e)' <= Held(k, e)
    BY <1>0, <1>1, Numbers
<1>4. (Excused => Excused') /\ Total("up")' <= sent["up"]
    BY <1>0, <1>1, <1>2, <1>3, ExcuseStays, Places
<1>5. Shape' /\ ClosedBy'
    BY <1>0, <1>1, Places DEF Shape, ClosedBy
<1>6. CASE Excused'
    BY <1>2, <1>4, <1>5, <1>6, Waived
<1>7. CASE ~Excused'
    <2>1. ~Excused /\ IsShut(1, "far") /\ Units(1, "down")' = Units(1, "down")
        BY <1>4, <1>7
    <2>2. Total("down")' = Total("down")
        BY <1>1, <2>1, Places DEF Total
    <2>3. \A k, e : Over(k, e)' <=> Over(k, e)
        BY <1>1 DEF Over
    <2>4. InOrder'
        BY <1>0, <1>1, <2>1, <2>3, Places DEF InOrder
    <2>5. Conserved'
        BY <1>0, <1>4, <2>1, <2>2 DEF Conserved
    <2> QED
        BY <1>2, <1>5, <2>4, <2>5 DEF RelayInv
<1> QED
    BY <1>6, <1>7

\* A link that is emptied in one direction.
LEMMA Emptied ==
    ASSUME NEW f \in [Link \X Dir -> Nat], NEW l \in Link, NEW d \in Dir,
           NEW h \in {f, [f EXCEPT ![<<l, d>>] = 0]}
    PROVE  /\ h \in [Link \X Dir -> Nat]
           /\ \A k \in Link, e \in Dir : h[<<k, e>>] <= f[<<k, e>>]
           /\ \A k \in Link, e \in Dir : k # l => h[<<k, e>>] = f[<<k, e>>]
<1>1. CASE h = f
    BY <1>1
<1>2. CASE h = [f EXCEPT ![<<l, d>>] = 0]
    <2>1. h \in [Link \X Dir -> Nat]
        BY <1>2
    <2>2. \A k \in Link, e \in Dir : k # l \/ e # d => h[<<k, e>>] = f[<<k, e>>]
        BY <1>2
    <2>3. h[<<l, d>>] = 0
        BY <1>2
    <2>4. \A k \in Link, e \in Dir : f[<<k, e>>] \in Nat
        OBVIOUS
    <2> QED
        BY <2>1, <2>2, <2>3, <2>4
<1> QED
    BY <1>1, <1>2

\* The tunnel breaks.
LEMMA TunnelBreaksRelay == ASSUME RelayInv, TunnelBreaks PROVE RelayInv'
<1>0. RelayTypes
    BY DEF RelayInv
<1>1. /\ UNCHANGED <<hops, dead, shut, copier, sent, got, eof>> /\ broken' = TRUE
      /\ expired' = [e \in End |-> TRUE]
      /\ \E u \in Lost(1, "up") : buf' \in {u, [u EXCEPT ![<<1, "down">>] = 0]}
    BY DEF TunnelBreaks
<1>2. PICK u \in Lost(1, "up") : buf' \in {u, [u EXCEPT ![<<1, "down">>] = 0]}
    BY <1>1
<1>3. /\ u \in [Link \X Dir -> Nat]
      /\ \A k \in Link, e \in Dir : u[<<k, e>>] <= Units(k, e)
      /\ \A k \in Link, e \in Dir : k # 1 => u[<<k, e>>] = Units(k, e)
    <2>1. buf \in [Link \X Dir -> Nat] /\ u \in {buf, [buf EXCEPT ![<<1, "up">>] = 0]}
        BY <1>0 DEF Lost, RelayTypes
    <2> QED
        BY <2>1, Emptied, Places DEF Units
<1>4. /\ buf' \in [Link \X Dir -> Nat]
      /\ \A k \in Link, e \in Dir : Units(k, e)' <= u[<<k, e>>]
      /\ \A k \in Link, e \in Dir : k # 1 => Units(k, e)' = u[<<k, e>>]
    <2>1. u \in [Link \X Dir -> Nat] /\ 1 \in Link /\ "down" \in Dir
        BY <1>3, Places
    <2>2. /\ buf' \in [Link \X Dir -> Nat]
          /\ \A k \in Link, e \in Dir : buf'[<<k, e>>] <= u[<<k, e>>]
          /\ \A k \in Link, e \in Dir : k # 1 => buf'[<<k, e>>] = u[<<k, e>>]
        BY <1>2, <2>1, Emptied
    <2> QED
        BY <2>2 DEF Units
<1>5. \A k \in Link, e \in Dir : Units(k, e) \in Nat /\ u[<<k, e>>] \in Nat /\ Units(k, e)' \in Nat
    <2>1. \A k \in Link, e \in Dir : Units(k, e) \in Nat
        BY <1>0, Numbers
    <2>2. \A k \in Link, e \in Dir : u[<<k, e>>] \in Nat
        BY <1>3
    <2>3. \A k \in Link, e \in Dir : Units(k, e)' \in Nat
        BY <1>4 DEF Units
    <2> QED
        BY <2>1, <2>2, <2>3
<1>6. \A k \in Link, e \in Dir : Units(k, e)' <= Units(k, e)
    <2>1. \A a, b, c \in Nat : a <= b /\ b <= c => a <= c
        OBVIOUS
    <2>2. TAKE k \in Link, e \in Dir
    <2>3. PICK a \in Nat : a = Units(k, e)'
        BY <1>5
    <2>4. PICK b \in Nat : b = u[<<k, e>>]
        BY <1>5
    <2>5. PICK c \in Nat : c = Units(k, e)
        BY <1>5
    <2>6. a <= b /\ b <= c
        BY <1>3, <1>4, <2>3, <2>4, <2>5
    <2> QED
        BY <2>1, <2>3, <2>5, <2>6
<1>7. \A e \in Dir : Units(0, e)' = Units(0, e) /\ Units(2, e)' = Units(2, e)
    BY <1>3, <1>4, Places
<1>8. Excused'
    BY <1>1 DEF Excused
<1>9. expired' \in [End -> BOOLEAN]
    BY <1>1
<1> QED
    BY <1>1, <1>4, <1>6, <1>7, <1>8, <1>9, StreamKeeps

\* An end of the stream times out: by then the target has closed.
LEMMA StreamResetsRelay ==
    ASSUME RelayInv, NEW e \in End, StreamResets(e) PROVE RelayInv'
<1> DEFINE d == IF e = "near" THEN "down" ELSE "up"
<1>0. RelayTypes /\ Conserved
    BY DEF RelayInv
<1>1. /\ UNCHANGED <<hops, dead, shut, broken, copier, sent, got, eof>>
      /\ hops = 2 /\ expired' = [expired EXCEPT ![e] = TRUE]
      /\ \/ IsShut(1, Writer(d)) /\ buf' = buf
         \/ IsShut(1, e) /\ buf' \in Lost(1, d)
    BY DEF StreamResets, Connected, Ended, IsShut
<1>2. /\ d \in Dir /\ 1 \in Link /\ buf' \in Lost(1, d)
      /\ e = "near" => d = "down" /\ Writer(d) = "far"
      /\ e = "far" => d = "up" /\ Writer(d) = "near"
      /\ e \in {"near", "far"}
    BY <1>1, Places DEF Lost, Writer
<1> HIDE DEF d
<1>3. /\ buf' \in [Link \X Dir -> Nat]
      /\ Units(1, d)' \in {Units(1, d), 0}
      /\ \A k \in Link, f \in Dir : k # 1 \/ f # d => Units(k, f)' = Units(k, f)
      /\ \A k \in Link, f \in Dir : Units(k, f)' \in Nat /\ Units(k, f)' <= Units(k, f)
    BY <1>0, <1>2, LostUnits
<1>4. expired' \in [End -> BOOLEAN] /\ broken' \in BOOLEAN
    BY <1>0, <1>1 DEF RelayTypes
<1>5. RelayTypes'
    BY <1>0, <1>1, <1>3, <1>4 DEF RelayTypes
<1>6. \A k, f : Held(k, f)' = Held(k, f) /\ (IsShut(k, f)' <=> IsShut(k, f))
    BY <1>1 DEF At, Held, IsShut
<1>7. \A k \in Hop, f \in Dir : Held(k, f)' <= Held(k, f)
    BY <1>0, <1>6, Numbers
<1>8. Excused => Excused'
    BY <1>0, <1>1, <1>3, <1>5, <1>6, <1>7, ExcuseStays, Places
<1>9. ~Excused => IsShut(1, "far") /\ Units(1, "down")' = Units(1, "down")
    <2> SUFFICES ASSUME ~Excused PROVE IsShut(1, "far") /\ Units(1, "down")' = Units(1, "down")
        OBVIOUS
    <2>1. IsShut(1, "near") => IsShut(1, "far") /\ Units(1, "down") = 0
        BY Chain
    <2>2. IsShut(1, "far")
        BY <1>1, <1>2, <2>1
    <2>3. d = "up" => Units(1, "down")' = Units(1, "down")
        BY <1>3, Places
    <2>4. d = "down" => Units(1, "down")' = Units(1, "down")
        <3>1. CASE buf' = buf
            BY <3>1 DEF Units
        <3>2. CASE IsShut(1, "near") /\ d = "down"
            BY <1>3, <2>1, <3>2
        <3> QED
            BY <1>1, <1>2, <3>1, <3>2
    <2> QED
        BY <1>2, <2>2, <2>3, <2>4
<1>10. Excused' \/ (IsShut(1, "far") /\ Units(1, "down")' = Units(1, "down"))
    BY <1>8, <1>9
<1>11. \A f \in Dir : Units(0, f)' = Units(0, f) /\ Units(2, f)' = Units(2, f)
    BY <1>3, Places
<1> QED
    BY <1>1, <1>3, <1>4, <1>10, <1>11, StreamKeeps

\* The user or the target sends.
LEMMA SendsRelay ==
    ASSUME RelayInv, NEW d \in Dir, Sends(d) PROVE RelayInv'
<1> DEFINE o == Opposite(d)
<1>0. RelayTypes /\ Shape /\ ClosedBy /\ InOrder /\ Conserved /\ hops \in {1, 2}
    BY DEF RelayInv, RelayTypes
<1>1. PICK l \in Link : l = Outer(d)
    BY <1>0, Places DEF Outer
<1>2. /\ d \in {"up", "down"} /\ o \in Dir
      /\ d = "up" => l = 0 /\ o = "down" /\ Writer(d) = "near" /\ Reader(d) = "far"
      /\ d = "down" => l = hops /\ o = "up" /\ Writer(d) = "far" /\ Reader(d) = "near"
    BY <1>1, Places DEF Outer, Opposite, Writer, Reader
<1>3. /\ ~IsShut(l, Writer(d)) /\ sent' = [sent EXCEPT ![d] = @ + 1]
      /\ UNCHANGED <<hops, dead, shut, broken, expired, copier, got, eof>>
      /\ \/ ~IsShut(l, Reader(d)) /\ buf' = [buf EXCEPT ![<<l, d>>] = Units(l, d) + 1]
         \/ IsShut(l, Reader(d)) /\ buf' \in Lost(l, o)
    BY <1>0, <1>1 DEF Sends, IsShut, Units, RelayTypes
<1>4. \A k, e : At(k, e)' = At(k, e) /\ Held(k, e)' = Held(k, e) /\ (IsShut(k, e)' <=> IsShut(k, e))
    BY <1>3 DEF At, Held, IsShut
<1>5. /\ sent' \in [Dir -> Nat] /\ sent'[d] = sent[d] + 1 /\ sent[d] \in Nat
      /\ \A e \in Dir \ {d} : sent'[e] = sent[e]
    BY <1>0, <1>3 DEF RelayTypes
<1>6. Total("up") \in Nat /\ Total("down") \in Nat /\ sent["up"] \in Nat /\ sent["down"] \in Nat
    BY <1>0, TotalInt, Numbers
<1>7. \A k, e : Over(k, e)' <=> Over(k, e)
    BY <1>4 DEF Over
<1>8. CASE ~IsShut(l, Reader(d)) /\ buf' = [buf EXCEPT ![<<l, d>>] = Units(l, d) + 1]
    <2>1. Units(l, d) + 1 \in Nat
        BY <1>0, Numbers
    <2>2. /\ buf' \in [Link \X Dir -> Nat] /\ Units(l, d)' = Units(l, d) + 1
          /\ \A k \in Link, e \in Dir : k # l \/ e # d => Units(k, e)' = Units(k, e)
        BY <1>0, <1>8, <2>1, UnitsSet
    <2>3. RelayTypes'
        BY <1>0, <1>3, <1>5, <2>2 DEF RelayTypes
    <2>4. ASSUME NEW e \in Dir PROVE Total(e)' - sent'[e] = Total(e) - sent[e]
        <3>1. /\ Units(0, e) \in Nat /\ Units(1, e) \in Nat /\ Units(2, e) \in Nat
              /\ Held(1, e) \in Nat /\ Held(2, e) \in Nat /\ got[e] \in Nat /\ sent[e] \in Nat
            BY <1>0, Numbers, Places
        <3>2. CASE e = d
            <4>1. /\ l = 0 => Units(0, e)' = Units(0, e) + 1 /\ Units(1, e)' = Units(1, e)
                                 /\ Units(2, e)' = Units(2, e)
                  /\ l = 1 => Units(0, e)' = Units(0, e) /\ Units(1, e)' = Units(1, e) + 1
                                 /\ Units(2, e)' = Units(2, e)
                  /\ l = 2 => Units(0, e)' = Units(0, e) /\ Units(1, e)' = Units(1, e)
                                 /\ Units(2, e)' = Units(2, e) + 1
                  /\ l \in {0, 1, 2}
                BY <2>2, <3>2, Places
            <4> QED
                BY <1>3, <1>4, <1>5, <3>1, <3>2, <4>1 DEF Total
        <3>3. CASE e # d
            BY <1>3, <1>4, <1>5, <2>2, <3>3, Places DEF Total
        <3> QED
            BY <3>2, <3>3
    <2>5. Total("up")' \in Nat /\ Total("down")' \in Nat /\ sent'["up"] \in Nat /\ sent'["down"] \in Nat
        <3>1. /\ \A k \in {0, 1, 2}, e \in {"up", "down"} : Units(k, e)' \in Nat
              /\ \A k \in {1, 2}, e \in {"up", "down"} : Held(k, e)' \in Nat
              /\ got'["up"] \in Nat /\ got'["down"] \in Nat
            BY <2>3, Places DEF RelayTypes, Units, At, Held
        <3> QED
            BY <1>5, <3>1, Places DEF Total
    <2>6. /\ Total("up") < sent["up"] => Total("up")' < sent'["up"]
          /\ Total("up") <= sent["up"] => Total("up")' <= sent'["up"]
          /\ Total("down") = sent["down"] => Total("down")' = sent'["down"]
        BY <1>6, <2>4, <2>5, Places
    <2>7. Excused => Excused'
        <3>1. \A k \in {0, 1, 2} : Units(k, "up") > 0 => Units(k, "up")' > 0
            BY <1>0, <2>2, Numbers, Places
        <3> QED
            BY <1>3, <1>4, <2>6, <3>1 DEF Excused, UpLost
    <2>8. Shape'
        BY <1>0, <1>2, <1>3, <1>4, <2>2, Places DEF Shape
    <2>9. Units(0, "down")' = Units(0, "down")
        BY <1>0, <1>2, <2>2, Places
    <2>10. ClosedBy'
        BY <1>0, <1>3, <1>4, <2>9 DEF ClosedBy
    <2>11. /\ IsShut(1, "far") /\ hops = 1 => Units(1, "down")' = Units(1, "down")
           /\ hops = 2 => Units(1, "down")' = Units(1, "down")
           /\ IsShut(2, "far") /\ hops = 2 => Units(2, "down")' = Units(2, "down")
           /\ hops = 1 => Units(2, "down")' = Units(2, "down")
        BY <1>2, <1>3, <2>2, Places
    <2>12. InOrder'
        BY <1>0, <1>3, <1>4, <1>7, <2>7, <2>11 DEF InOrder
    <2>13. Conserved'
        BY <1>0, <2>6, <2>7 DEF Conserved
    <2> QED
        BY <2>3, <2>8, <2>10, <2>12, <2>13 DEF RelayInv
<1>9. CASE IsShut(l, Reader(d)) /\ buf' \in Lost(l, o)
    <2>1. /\ buf' \in [Link \X Dir -> Nat]
          /\ \A k \in Link, e \in Dir : k # l \/ e # o => Units(k, e)' = Units(k, e)
          /\ \A k \in Link, e \in Dir : Units(k, e)' \in Nat /\ Units(k, e)' <= Units(k, e)
        BY <1>0, <1>2, <1>9, LostUnits
    <2>2. RelayTypes'
        BY <1>0, <1>3, <1>5, <2>1 DEF RelayTypes
    <2>3. \A k \in Hop, e \in Dir : Held(k, e)' <= Held(k, e)
        BY <1>0, <1>4, Numbers
    <2>4. Total("up")' <= Total("up")
        BY <1>0, <1>3, <2>1, <2>2, <2>3, TotalFalls, Places
    <2>5. Total("up")' \in Nat
        <3>1. /\ \A k \in {0, 1, 2} : Units(k, "up")' \in Nat
              /\ \A k \in {1, 2} : Held(k, "up")' \in Nat
              /\ got'["up"] \in Nat
            BY <2>2, Places DEF RelayTypes, Units, At, Held
        <3> QED
            BY <3>1 DEF Total
    <2>6. Shape' /\ ClosedBy'
        <3>1. /\ Units(0, "down") = 0 => Units(0, "down")' = 0
              /\ Units(2, "down") = 0 => Units(2, "down")' = 0
              /\ Units(2, "up") = 0 => Units(2, "up")' = 0
            BY <2>1, Places
        <3> QED
            BY <1>0, <1>3, <1>4, <3>1 DEF Shape, ClosedBy
    <2>7. Excused'
        <3>1. CASE d = "up"
            <4>1. sent'["up"] = sent["up"] + 1
                BY <1>5, <3>1
            <4>2. Total("up")' < sent'["up"]
                BY <1>0, <1>6, <2>4, <2>5, <4>1 DEF Conserved
            <4> QED
                BY <4>2 DEF Excused, UpLost
        <3>2. CASE d = "down"
            <4>1. Excused
                BY <1>0, <1>2, <1>3, <1>9, <3>2, Chain
            <4>2. \A k \in {0, 1, 2} : Units(k, "up") \in Nat /\ Units(k, "up")' \in Nat
                BY <1>0, <2>1, Numbers, Places
            <4>3. sent'["up"] = sent["up"]
                BY <1>5, <3>2, Places
            <4>4. CASE \E k \in {0, 1, 2} : Units(k, "up")' # Units(k, "up")
                <5>1. Total("up")' < Total("up")
                    BY <1>0, <1>3, <2>1, <2>2, <2>3, <4>2, <4>4, TotalFalls, Places
                <5>2. Total("up")' < sent'["up"]
                    BY <1>0, <1>6, <2>5, <4>3, <5>1 DEF Conserved
                <5> QED
                    BY <5>2 DEF Excused, UpLost
            <4>5. CASE \A k \in {0, 1, 2} : Units(k, "up")' = Units(k, "up")
                <5>1. Total("up") < sent["up"] => Total("up")' < sent'["up"]
                    BY <1>6, <2>4, <2>5, <4>3
                <5> QED
                    BY <1>3, <1>4, <4>1, <4>5, <5>1 DEF Excused, UpLost
            <4> QED
                BY <4>4, <4>5
        <3> QED
            BY <1>2, <3>1, <3>2
    <2>8. Total("up")' <= sent'["up"]
        <3>1. sent'["up"] \in Nat /\ sent'["up"] >= sent["up"]
            BY <1>2, <1>5, <1>6, Places
        <3> QED
            BY <1>0, <1>6, <2>4, <2>5, <3>1 DEF Conserved
    <2> QED
        BY <2>2, <2>6, <2>7, <2>8, Waived
<1> QED
    BY <1>3, <1>8, <1>9

\* The user or the target reads, or the user sees the end.
LEMMA ReceivesRelay ==
    ASSUME RelayInv, NEW d \in Dir, Receives(d) PROVE RelayInv'
<1>0. RelayTypes /\ Shape /\ ClosedBy /\ InOrder /\ Conserved /\ hops \in {1, 2}
    BY DEF RelayInv, RelayTypes
<1>1. PICK l \in Link : l = Inner(d)
    BY <1>0, Places DEF Inner
<1>2. /\ d \in {"up", "down"}
      /\ d = "up" => l = hops /\ Writer(d) = "near" /\ Reader(d) = "far"
      /\ d = "down" => l = 0 /\ Writer(d) = "far" /\ Reader(d) = "near"
    BY <1>1, Places DEF Inner, Opposite, Writer, Reader
<1>3. /\ ~IsShut(l, Reader(d))
      /\ UNCHANGED <<hops, dead, shut, broken, expired, copier, sent>>
      /\ \/ /\ Units(l, d) > 0
            /\ buf' = [buf EXCEPT ![<<l, d>>] = Units(l, d) - 1]
            /\ got' = [got EXCEPT ![d] = @ + 1]
            /\ eof' = eof
         \/ /\ Units(l, d) = 0 /\ d = "down" /\ IsShut(l, Writer(d))
            /\ eof' = TRUE /\ buf' = buf /\ got' = got
    BY <1>0, <1>1 DEF Receives, IsShut, Units, RelayTypes
<1>4. \A k, e : At(k, e)' = At(k, e) /\ Held(k, e)' = Held(k, e) /\ (IsShut(k, e)' <=> IsShut(k, e))
    BY <1>3 DEF At, Held, IsShut
<1>5. \A k, e : Over(k, e)' <=> Over(k, e)
    BY <1>4 DEF Over
<1>6. CASE /\ Units(l, d) > 0
           /\ buf' = [buf EXCEPT ![<<l, d>>] = Units(l, d) - 1]
           /\ got' = [got EXCEPT ![d] = @ + 1]
           /\ eof' = eof
    <2>1. Units(l, d) - 1 \in Nat
        BY <1>0, <1>6, Numbers
    <2>2. /\ buf' \in [Link \X Dir -> Nat] /\ Units(l, d)' = Units(l, d) - 1
          /\ \A k \in Link, e \in Dir : k # l \/ e # d => Units(k, e)' = Units(k, e)
        BY <1>0, <1>6, <2>1, UnitsSet
    <2>3. /\ got' \in [Dir -> Nat] /\ got'[d] = got[d] + 1 /\ got[d] \in Nat
          /\ \A e \in Dir \ {d} : got'[e] = got[e]
        BY <1>0, <1>6 DEF RelayTypes
    <2>4. RelayTypes'
        BY <1>0, <1>3, <1>6, <2>2, <2>3 DEF RelayTypes
    <2>5. ASSUME NEW e \in Dir PROVE Total(e)' = Total(e)
        <3>1. /\ Units(0, e) \in Nat /\ Units(1, e) \in Nat /\ Units(2, e) \in Nat
              /\ Held(1, e) \in Nat /\ Held(2, e) \in Nat /\ got[e] \in Nat
            BY <1>0, Numbers, Places
        <3>2. CASE e = d
            <4>1. /\ l = 0 => Units(0, e)' = Units(0, e) - 1 /\ Units(1, e)' = Units(1, e)
                                 /\ Units(2, e)' = Units(2, e)
                  /\ l = 1 => Units(0, e)' = Units(0, e) /\ Units(1, e)' = Units(1, e) - 1
                                 /\ Units(2, e)' = Units(2, e)
                  /\ l = 2 => Units(0, e)' = Units(0, e) /\ Units(1, e)' = Units(1, e)
                                 /\ Units(2, e)' = Units(2, e) - 1
                  /\ l \in {0, 1, 2}
                BY <2>2, <3>2, Places
            <4> QED
                BY <1>4, <2>3, <3>1, <3>2, <4>1 DEF Total
        <3>3. CASE e # d
            BY <1>4, <2>2, <2>3, <3>3, Places DEF Total
        <3> QED
            BY <3>2, <3>3
    <2>6. Total("up")' = Total("up") /\ Total("down")' = Total("down")
        BY <2>5, Places
    <2>7. Excused => Excused'
        <3>1. /\ IsShut(0, "far") => Units(0, "up")' = Units(0, "up")
              /\ hops = 1 /\ IsShut(1, "far") => Units(1, "up")' = Units(1, "up")
              /\ hops = 2 /\ IsShut(2, "far") => Units(2, "up")' = Units(2, "up")
            BY <1>0, <1>2, <1>3, <2>2, Places
        <3> QED
            BY <1>3, <1>4, <1>6, <2>6, <3>1 DEF Excused, UpLost
    <2>8. \A k \in {0, 1, 2}, e \in {"up", "down"} : Units(k, e) = 0 => Units(k, e)' = 0
        BY <1>6, <2>2, Places
    <2>9. Shape' /\ ClosedBy'
        BY <1>0, <1>3, <1>4, <1>6, <2>8 DEF Shape, ClosedBy
    <2>10. InOrder'
        BY <1>0, <1>3, <1>4, <1>5, <2>7, <2>8 DEF InOrder
    <2>11. Conserved'
        BY <1>0, <1>3, <2>6, <2>7 DEF Conserved
    <2> QED
        BY <2>4, <2>9, <2>10, <2>11 DEF RelayInv
<1>7. CASE /\ Units(l, d) = 0 /\ d = "down" /\ IsShut(l, Writer(d))
           /\ eof' = TRUE /\ buf' = buf /\ got' = got
    <2>1. l = 0 /\ Units(0, "down") = 0 /\ IsShut(0, "far") /\ ~IsShut(0, "near")
        BY <1>2, <1>3, <1>7
    <2>2. \A k, e : Units(k, e)' = Units(k, e)
        BY <1>7 DEF Units
    <2>3. RelayTypes'
        BY <1>0, <1>3, <1>7 DEF RelayTypes
    <2>4. Total("up")' = Total("up") /\ Total("down")' = Total("down")
        BY <1>4, <1>7, <2>2 DEF Total
    <2>5. Excused => Excused'
        BY <1>3, <1>4, <2>1, <2>2, <2>4 DEF Excused, UpLost
    <2>6. Shape' /\ ClosedBy'
        BY <1>0, <1>3, <1>4, <2>1, <2>2 DEF Shape, ClosedBy
    <2>7. InOrder'
        BY <1>0, <1>3, <1>4, <1>5, <2>2, <2>5 DEF InOrder
    <2>8. Conserved'
        BY <1>0, <1>3, <2>4, <2>5 DEF Conserved
    <2> QED
        BY <2>3, <2>6, <2>7, <2>8 DEF RelayInv
<1> QED
    BY <1>3, <1>6, <1>7

\* The goroutines of the client's CopyLink start.
LEMMA ConnectEndsRelay == ASSUME RelayInv, ConnectEnds PROVE RelayInv'
<1>0. RelayTypes /\ Shape /\ ClosedBy /\ InOrder /\ Conserved
    BY DEF RelayInv
<1>1. /\ hops = 2 /\ At(1, "up") = "none" /\ At(1, "down") = "none"
      /\ copier' = [copier EXCEPT ![<<1, "up">>] = "read", ![<<1, "down">>] = "read"]
      /\ UNCHANGED <<hops, dead, buf, shut, broken, expired, sent, got, eof>>
    BY <1>0 DEF ConnectEnds, At, Shape
<1>2. /\ copier' \in [Copier -> PCs]
      /\ At(1, "up")' = "read" /\ At(1, "down")' = "read"
      /\ At(2, "up")' = At(2, "up") /\ At(2, "down")' = At(2, "down")
    <2>1. <<1, "up">> \in Copier /\ <<1, "down">> \in Copier /\ "read" \in PCs
        BY Places DEF PCs
    <2> QED
        BY <1>0, <1>1, <2>1 DEF RelayTypes, At, Copier, Hop, Dir
<1>3. \A k, e : (IsShut(k, e)' <=> IsShut(k, e)) /\ Units(k, e)' = Units(k, e)
    BY <1>1 DEF IsShut, Units
<1>4. \A k \in {1, 2}, e \in {"up", "down"} : Held(k, e)' = Held(k, e)
    BY <1>1, <1>2 DEF Held
<1>5. RelayTypes'
    BY <1>0, <1>1, <1>2 DEF RelayTypes
<1>6. Total("up")' = Total("up") /\ Total("down")' = Total("down")
    BY <1>1, <1>3, <1>4 DEF Total
<1>7. Excused' <=> Excused
    BY <1>1, <1>3, <1>6 DEF Excused, UpLost
<1>8. Shape' /\ ClosedBy'
    BY <1>0, <1>1, <1>2, <1>3 DEF Shape, ClosedBy
<1>9. InOrder'
    BY <1>0, <1>1, <1>2, <1>3, <1>7 DEF InOrder, Over
<1>10. Conserved'
    BY <1>0, <1>1, <1>6, <1>7 DEF Conserved
<1> QED
    BY <1>5, <1>8, <1>9, <1>10 DEF RelayInv

\* Every step of a connection that was made.
LEMMA RelayStep == ASSUME RelayInv, RelayNext PROVE RelayInv'
<1>1. ASSUME NEW g \in Copier, CopyStep(g) PROVE RelayInv'
    <2>1. PICK n \in Hop, d \in Dir : g = <<n, d>>
        BY DEF Copier
    <2>2. \/ CopyReads(<<n, d>>) \/ CopyEnds(<<n, d>>) \/ CopyWrites(<<n, d>>)
          \/ CopyWaits(<<n, d>>) \/ CopyFails(<<n, d>>) \/ CopyCloses(<<n, d>>)
        BY <1>1, <2>1 DEF CopyStep
    <2> QED
        BY <2>2, CopyReadsRelay, CopyEndsRelay, CopyWritesRelay, CopyWaitsRelay,
           CopyFailsRelay, CopyClosesRelay
<1>2. CASE ConnectEnds
    BY <1>2, ConnectEndsRelay
<1>3. CASE TunnelBreaks
    BY <1>3, TunnelBreaksRelay
<1>4. ASSUME NEW e \in End, StreamResets(e) PROVE RelayInv'
    BY <1>4, StreamResetsRelay
<1>5. ASSUME NEW d \in Dir, Sends(d) \/ Receives(d) \/ Leaves(d) PROVE RelayInv'
    BY <1>5, SendsRelay, ReceivesRelay, LeavesRelay
<1> QED
    BY <1>1, <1>2, <1>3, <1>4, <1>5 DEF RelayNext

\* The connection is made: nothing has been sent yet.
LEMMA StartRelayRelay ==
    ASSUME RelayInit, NEW n \in {1, 2}, NEW denied \in BOOLEAN, StartRelay(n, denied)
    PROVE  RelayInv'
<1>1. /\ hops' = n /\ dead' = denied
      /\ copier' = [g \in Copier |-> IF g[1] = (IF n = 2 /\ ~denied THEN 2 ELSE 1)
                                       THEN "read" ELSE "none"]
      /\ UNCHANGED <<buf, shut, broken, expired, sent, got, eof>>
    BY DEF StartRelay
<1>2. /\ copier' \in [Copier -> PCs]
      /\ \A k \in {1, 2}, e \in {"up", "down"} : At(k, e)' \in {"read", "none"}
      /\ n = 1 \/ denied => At(2, "up")' = "none" /\ At(2, "down")' = "none"
      /\ At(1, "up")' = At(1, "down")'
    BY <1>1, Places DEF PCs, At, Copier
<1>3. /\ \A k \in {0, 1, 2}, e \in {"up", "down"} : Units(k, e)' = 0
      /\ \A k \in {0, 1, 2}, e \in {"near", "far"} : ~IsShut(k, e)'
    BY <1>1, Places DEF RelayInit, Units, IsShut
<1>4. /\ ~broken' /\ ~eof' /\ expired'["near"] = FALSE /\ expired'["far"] = FALSE
      /\ sent'["up"] = 0 /\ sent'["down"] = 0 /\ got'["up"] = 0 /\ got'["down"] = 0
    BY <1>1, Places DEF RelayInit
<1>5. RelayTypes'
    BY <1>1, <1>2 DEF RelayTypes, RelayInit
<1>6. \A k \in {1, 2}, e \in {"up", "down"} : Held(k, e)' = 0
    BY <1>2 DEF Held
<1>7. Total("up")' = 0 /\ Total("down")' = 0
    BY <1>3, <1>4, <1>6 DEF Total
<1>8. Shape' /\ ClosedBy'
    BY <1>1, <1>2, <1>3, <1>4 DEF Shape, ClosedBy
<1>9. InOrder'
    BY <1>2, <1>4 DEF InOrder, Over
<1>10. Conserved'
    BY <1>4, <1>7 DEF Conserved
<1> QED
    BY <1>5, <1>8, <1>9, <1>10 DEF RelayInv

\* Nothing moves where there is no connection.
LEMMA NoRelay == ASSUME RelayInit PROVE ~RelayNext
<1>1. hops = 0 /\ \A n \in Hop, d \in Dir : copier[<<n, d>>] = "none"
    BY Places DEF RelayInit
<1>2. \A g \in Copier : copier[g] = "none"
    BY DEF RelayInit
<1>3. \A g \in Copier : ~CopyStep(g)
    BY <1>2 DEF CopyStep, CopyReads, CopyEnds, CopyWrites, CopyWaits, CopyFails, CopyCloses
<1>4. ~ConnectEnds /\ ~TunnelBreaks /\ \A e \in End : ~StreamResets(e)
    BY <1>1 DEF ConnectEnds, TunnelBreaks, StreamResets, Connected
<1>5. \A d \in Dir : ~Sends(d) /\ ~Receives(d) /\ ~Leaves(d)
    BY <1>1 DEF Sends, Receives, Leaves
<1> QED
    BY <1>3, <1>4, <1>5 DEF RelayNext

\* What leaves the connection alone keeps its invariant.
LEMMA RelayKept == ASSUME RelayInv, UNCHANGED relayVars PROVE RelayInv'
<1>1. UNCHANGED <<hops, dead, deaf, buf, shut, broken, expired, copier, sent, got, eof>>
    BY DEF relayVars
<1>2. \A k, e : At(k, e)' = At(k, e) /\ Held(k, e)' = Held(k, e) /\ (IsShut(k, e)' <=> IsShut(k, e))
                   /\ Units(k, e)' = Units(k, e) /\ (Over(k, e)' <=> Over(k, e))
    BY <1>1 DEF At, Held, IsShut, Units, Over
<1>3. Total("up")' = Total("up") /\ Total("down")' = Total("down")
    BY <1>1, <1>2 DEF Total
<1>4. Excused' <=> Excused
    BY <1>1, <1>2, <1>3 DEF Excused, UpLost
<1>5. RelayTypes' /\ Shape' /\ ClosedBy'
    BY <1>1, <1>2 DEF RelayInv, RelayTypes, Shape, ClosedBy
<1>6. InOrder' /\ Conserved'
    BY <1>1, <1>2, <1>3, <1>4 DEF RelayInv, InOrder, Conserved
<1> QED
    BY <1>5, <1>6 DEF RelayInv
=============================================================================
