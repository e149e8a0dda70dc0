---------------------------- MODULE Names_proofs ----------------------------
(***************************************************************************)
(* The LRU cache in front of the name lookups holds, whatever the          *)
(* goroutines that share it do and whatever its size, exactly the hosts    *)
(* that were used last, each once, and its list and its map agree.         *)
(*                                                                         *)
(* The first lemmas say what container/list's MoveToFront does to a list   *)
(* without duplicates, index by index; the next ones what a use of a host  *)
(* does to the cache.                                                      *)
(***************************************************************************)
EXTENDS Names, SequenceTheorems, TLAPS

\* s and t are lists without duplicates, and s is the beginning of t.
Begins(s, t) ==
    /\ s \in Seq(Hosts) /\ t \in Seq(Hosts)
    /\ Len(s) <= Len(t)
    /\ \A i \in 1 .. Len(s) : s[i] = t[i]
    /\ \A i, j \in 1 .. Len(t) : t[i] = t[j] => i = j

\* h is somewhere in s.
Listed(h, s) == \E i \in 1 .. Len(s) : s[i] = h

\* The list l and the map c of the cache agree, and hold the hosts that come
\* first in the history r.
CacheInv(l, r, c) ==
    /\ Begins(l, r)
    /\ Len(l) <= MaxEntries
    /\ Len(l) = MaxEntries \/ Len(l) = Len(r)
    /\ c \in [Hosts -> Hosts \cup {NoHost}]
    /\ \A h \in Hosts : c[h] # NoHost <=> Listed(h, l)

\* What a goroutine brings to Cache.Add is a host and an answer.
CallerInv ==
    /\ answers \in Seq(Hosts)
    /\ caller \in [Callers -> [pc : {"idle", "make", "once", "read", "remake",
                                     "add"},
                               host : Hosts \cup {NoHost},
                               try : 0 .. Retries - 1,
                               resp : Hosts \cup {NoHost}]]
    /\ \A p \in Callers :
           /\ caller[p].pc # "idle" => caller[p].host \in Hosts
           /\ caller[p].pc = "add" => caller[p].resp \in Hosts

\* The inductive invariant.
IInv == CacheInv(ll, recent, cache) /\ CallerInv
-----------------------------------------------------------------------------
\* RemoveFirst, of a host that is at place k of a list without duplicates.
LEMMA RemoveListed ==
  ASSUME NEW s \in Seq(Hosts), NEW k \in 1 .. Len(s),
         \A i, j \in 1 .. Len(s) : s[i] = s[j] => i = j
  PROVE  /\ RemoveFirst(s, s[k]) \in Seq(Hosts)
         /\ Len(RemoveFirst(s, s[k])) = Len(s) - 1
         /\ \A i \in 1 .. Len(s) - 1 :
               RemoveFirst(s, s[k])[i] = IF i < k THEN s[i] ELSE s[i + 1]
<1> DEFINE I == {i \in 1 .. Len(s) : s[i] = s[k]}
           a == SubSeq(s, 1, k - 1)
           b == SubSeq(s, k + 1, Len(s))
<1>0. Len(s) \in Nat /\ \A i \in 1 .. Len(s) : s[i] \in Hosts
  BY LenProperties, ElementOfSeq
<1>1. I = {k}
  OBVIOUS
<1>2. Min(I) = k
  BY <1>1 DEF Min
<1>3. SelectInSeq(s, LAMBDA v : v = s[k]) = k
  BY <1>1, <1>2 DEF SelectInSeq
<1>4. RemoveFirst(s, s[k]) = a \o b
  BY <1>3 DEF RemoveFirst, RemoveAt
<1>5. /\ a \in Seq(Hosts) /\ Len(a) = k - 1
      /\ \A i \in 1 .. k - 1 : a[i] = s[i]
  <2>1. \A i \in 1 .. k - 1 : s[i] \in Hosts
    BY <1>0
  <2> HIDE DEF a
  <2>2. /\ a \in Seq(Hosts)
        /\ Len(a) = IF 1 <= k - 1 THEN (k - 1) - 1 + 1 ELSE 0
        /\ \A i \in 1 .. (k - 1) - 1 + 1 : a[i] = s[1 + i - 1]
    BY <2>1, <1>0, SubSeqProperties DEF a
  <2> QED BY <2>2, <1>0
<1>6. /\ b \in Seq(Hosts) /\ Len(b) = Len(s) - k
      /\ \A i \in 1 .. Len(s) - k : b[i] = s[k + i]
  <2>1. \A i \in k + 1 .. Len(s) : s[i] \in Hosts
    BY <1>0
  <2> HIDE DEF b
  <2>2. /\ b \in Seq(Hosts)
        /\ Len(b) = IF k + 1 <= Len(s) THEN Len(s) - (k + 1) + 1 ELSE 0
        /\ \A i \in 1 .. Len(s) - (k + 1) + 1 : b[i] = s[k + 1 + i - 1]
    BY <2>1, <1>0, SubSeqProperties DEF b
  <2> QED BY <2>2, <1>0
<1> HIDE DEF a, b
<1>7. /\ a \o b \in Seq(Hosts)
      /\ Len(a \o b) = Len(a) + Len(b)
      /\ \A i \in 1 .. Len(a) + Len(b) :
            (a \o b)[i] = IF i <= Len(a) THEN a[i] ELSE b[i - Len(a)]
  <2>1. a \in Seq(Hosts) /\ b \in Seq(Hosts)
    BY <1>5, <1>6
  <2> QED BY <2>1, ConcatProperties
<1>8. \A i \in 1 .. Len(s) - 1 : (a \o b)[i] = IF i < k THEN s[i] ELSE s[i + 1]
  <2> SUFFICES ASSUME NEW i \in 1 .. Len(s) - 1
               PROVE  (a \o b)[i] = IF i < k THEN s[i] ELSE s[i + 1]
    OBVIOUS
  <2>1. CASE i < k
    BY <2>1, <1>0, <1>5, <1>6, <1>7
  <2>2. CASE ~(i < k)
    <3>1. i - (k - 1) \in 1 .. Len(s) - k /\ ~(i <= k - 1) /\ k + (i - (k - 1)) = i + 1
      BY <2>2, <1>0
    <3>2. (a \o b)[i] = b[i - (k - 1)]
      BY <3>1, <1>0, <1>5, <1>6, <1>7
    <3> QED BY <3>1, <3>2, <1>6, <2>2
  <2> QED BY <2>1, <2>2
<1> QED BY <1>0, <1>4, <1>5, <1>6, <1>7, <1>8

\* A list of one host in front of another list.
LEMMA Pushed ==
  ASSUME NEW s \in Seq(Hosts), NEW h \in Hosts
  PROVE  /\ <<h>> \o s \in Seq(Hosts)
         /\ Len(<<h>> \o s) = Len(s) + 1
         /\ (<<h>> \o s)[1] = h
         /\ \A i \in 2 .. Len(s) + 1 : (<<h>> \o s)[i] = s[i - 1]
<1>1. <<h>> \in Seq(Hosts) /\ Len(<<h>>) = 1 /\ <<h>>[1] = h
  OBVIOUS
<1>2. Len(s) \in Nat
  BY LenProperties
<1>3. /\ <<h>> \o s \in Seq(Hosts)
      /\ Len(<<h>> \o s) = 1 + Len(s)
      /\ \A i \in 1 .. 1 + Len(s) :
            (<<h>> \o s)[i] = IF i <= 1 THEN <<h>>[i] ELSE s[i - 1]
  BY <1>1, ConcatProperties
<1> QED BY <1>1, <1>2, <1>3

\* MoveToFront of the host at place k: those before it move down by one.
LEMMA MoveListed ==
  ASSUME NEW s \in Seq(Hosts), NEW k \in 1 .. Len(s),
         \A i, j \in 1 .. Len(s) : s[i] = s[j] => i = j
  PROVE  /\ MoveToFront(s, s[k]) \in Seq(Hosts)
         /\ Len(MoveToFront(s, s[k])) = Len(s)
         /\ \A i \in 1 .. Len(s) :
               MoveToFront(s, s[k])[i] =
                 IF i = 1 THEN s[k] ELSE IF i <= k THEN s[i - 1] ELSE s[i]
<1> DEFINE r == RemoveFirst(s, s[k])
<1>0. Len(s) \in Nat /\ s[k] \in Hosts
  BY LenProperties, ElementOfSeq
<1>1. /\ r \in Seq(Hosts) /\ Len(r) = Len(s) - 1
      /\ \A i \in 1 .. Len(s) - 1 : r[i] = IF i < k THEN s[i] ELSE s[i + 1]
  BY RemoveListed
<1>2. MoveToFront(s, s[k]) = <<s[k]>> \o r
  BY DEF MoveToFront
<1> HIDE DEF r
<1>3. /\ <<s[k]>> \o r \in Seq(Hosts)
      /\ Len(<<s[k]>> \o r) = Len(r) + 1
      /\ (<<s[k]>> \o r)[1] = s[k]
      /\ \A i \in 2 .. Len(r) + 1 : (<<s[k]>> \o r)[i] = r[i - 1]
  BY <1>0, <1>1, Pushed
<1>4. ASSUME NEW i \in 2 .. Len(s)
      PROVE  (<<s[k]>> \o r)[i] = IF i <= k THEN s[i - 1] ELSE s[i]
  BY <1>0, <1>1, <1>3
<1> QED BY <1>0, <1>1, <1>2, <1>3, <1>4

\* MoveToFront of a host that is not in the list.
LEMMA MoveNew ==
  ASSUME NEW s \in Seq(Hosts), NEW h \in Hosts, ~Listed(h, s)
  PROVE  MoveToFront(s, h) = <<h>> \o s
BY DEF MoveToFront, RemoveFirst, Listed

-----------------------------------------------------------------------------
\* A use of a host that is in the beginning s of t moves it to the front of both.
LEMMA UseListed ==
  ASSUME NEW s, NEW t, Begins(s, t), NEW h \in Hosts, Listed(h, s)
  PROVE  /\ Begins(MoveToFront(s, h), MoveToFront(t, h))
         /\ Len(MoveToFront(s, h)) = Len(s)
         /\ Len(MoveToFront(t, h)) = Len(t)
         /\ \A g \in Hosts : Listed(g, MoveToFront(s, h)) <=> Listed(g, s)
<1> DEFINE s1 == MoveToFront(s, h)
           t1 == MoveToFront(t, h)
<1>0. /\ s \in Seq(Hosts) /\ t \in Seq(Hosts) /\ Len(s) \in Nat /\ Len(t) \in Nat
      /\ Len(s) <= Len(t)
      /\ \A i \in 1 .. Len(s) : s[i] = t[i]
      /\ \A i, j \in 1 .. Len(t) : t[i] = t[j] => i = j
  BY LenProperties DEF Begins
<1>1. PICK k \in 1 .. Len(s) : s[k] = h
  BY DEF Listed
<1>2. k \in 1 .. Len(t) /\ t[k] = h
  BY <1>0, <1>1
<1>3. \A i, j \in 1 .. Len(s) : s[i] = s[j] => i = j
  BY <1>0
<1>4. /\ s1 \in Seq(Hosts) /\ Len(s1) = Len(s)
      /\ \A i \in 1 .. Len(s) :
            s1[i] = IF i = 1 THEN h ELSE IF i <= k THEN s[i - 1] ELSE s[i]
  <2>1. s \in Seq(Hosts)
    BY <1>0
  <2> QED BY <2>1, <1>1, <1>3, MoveListed
<1>5. /\ t1 \in Seq(Hosts) /\ Len(t1) = Len(t)
      /\ \A i \in 1 .. Len(t) :
            t1[i] = IF i = 1 THEN h ELSE IF i <= k THEN t[i - 1] ELSE t[i]
  <2>1. t \in Seq(Hosts) /\ \A i, j \in 1 .. Len(t) : t[i] = t[j] => i = j
    BY <1>0
  <2> QED BY <2>1, <1>2, MoveListed
<1> HIDE DEF s1, t1
<1>6. \A i \in 1 .. Len(s) : s1[i] = t1[i]
  <2> SUFFICES ASSUME NEW i \in 1 .. Len(s) PROVE s1[i] = t1[i]
    OBVIOUS
  <2>1. i \in 1 .. Len(t)
    BY <1>0
  <2>2. CASE i = 1
    BY <2>1, <2>2, <1>4, <1>5
  <2>3. CASE i # 1 /\ i <= k
    <3>1. i - 1 \in 1 .. Len(s)
      BY <2>3, <1>0
    <3> QED BY <2>1, <2>3, <3>1, <1>0, <1>4, <1>5
  <2>4. CASE i # 1 /\ ~(i <= k)
    BY <2>1, <2>4, <1>0, <1>4, <1>5
  <2> QED BY <2>2, <2>3, <2>4
<1>7. ASSUME NEW i \in 1 .. Len(t), NEW j \in 1 .. Len(t), t1[i] = t1[j]
      PROVE  i = j
  <2> DEFINE from(n) == IF n = 1 THEN k ELSE IF n <= k THEN n - 1 ELSE n
  <2>1. /\ from(i) \in 1 .. Len(t) /\ t1[i] = t[from(i)]
        /\ from(j) \in 1 .. Len(t) /\ t1[j] = t[from(j)]
    BY <1>0, <1>2, <1>5
  <2>2. from(i) = from(j)
    <3> HIDE DEF from
    <3> QED BY <2>1, <1>0, <1>7
  <2> QED BY <2>2, <1>0, <1>2
<1>8. Begins(s1, t1)
  BY <1>0, <1>4, <1>5, <1>6, <1>7 DEF Begins
<1>9. ASSUME NEW g \in Hosts PROVE Listed(g, s1) <=> Listed(g, s)
  <2>1. ASSUME NEW i \in 1 .. Len(s1), s1[i] = g PROVE Listed(g, s)
    <3>1. \/ s1[i] = s[k]
          \/ i - 1 \in 1 .. Len(s) /\ s1[i] = s[i - 1]
          \/ i \in 1 .. Len(s) /\ s1[i] = s[i]
      BY <1>0, <1>1, <1>4
    <3> QED BY <3>1, <2>1, <1>1 DEF Listed
  <2>2. ASSUME NEW i \in 1 .. Len(s), s[i] = g PROVE Listed(g, s1)
    <3> DEFINE to == IF i = k THEN 1 ELSE IF i < k THEN i + 1 ELSE i
    <3>1. to \in 1 .. Len(s1) /\ s1[to] = s[i]
      BY <1>0, <1>1, <1>4
    <3> HIDE DEF to
    <3> QED BY <3>1, <2>2 DEF Listed
  <2> QED BY <2>1, <2>2 DEF Listed
<1> QED BY <1>4, <1>5, <1>8, <1>9 DEF s1, t1

\* A new host is pushed onto a cache that has room, and that holds all there are.
LEMMA UseNew ==
  ASSUME NEW s, NEW t, Begins(s, t), Len(s) = Len(t), NEW h \in Hosts, ~Listed(h, s)
  PROVE  /\ Begins(MoveToFront(s, h), MoveToFront(t, h))
         /\ Len(MoveToFront(s, h)) = Len(s) + 1
         /\ Len(MoveToFront(t, h)) = Len(t) + 1
         /\ \A g \in Hosts : Listed(g, MoveToFront(s, h)) <=> g = h \/ Listed(g, s)
<1> DEFINE s1 == <<h>> \o s
<1>0. /\ s \in Seq(Hosts) /\ t \in Seq(Hosts) /\ Len(s) \in Nat
      /\ \A i \in 1 .. Len(s) : s[i] = t[i]
      /\ \A i, j \in 1 .. Len(t) : t[i] = t[j] => i = j
  BY LenProperties DEF Begins
<1>1. s = t
  BY <1>0, SeqEqual
<1>2. MoveToFront(s, h) = s1 /\ MoveToFront(t, h) = s1
  BY <1>0, <1>1, MoveNew
<1>3. /\ s1 \in Seq(Hosts) /\ Len(s1) = Len(s) + 1 /\ s1[1] = h
      /\ \A i \in 2 .. Len(s) + 1 : s1[i] = s[i - 1]
  BY <1>0, Pushed
<1> HIDE DEF s1
<1>4. \A i \in 1 .. Len(s) : s1[i + 1] = s[i]
  BY <1>0, <1>3
<1>5. ASSUME NEW i \in 1 .. Len(s1), NEW j \in 1 .. Len(s1), s1[i] = s1[j]
      PROVE  i = j
  <2>1. \A n \in 2 .. Len(s) + 1 : n - 1 \in 1 .. Len(s) /\ s1[n] = s[n - 1] /\ s1[n] # h
    BY <1>0, <1>3 DEF Listed
  <2>2. CASE i = 1 \/ j = 1
    BY <2>1, <2>2, <1>0, <1>3, <1>5
  <2>3. CASE i # 1 /\ j # 1
    <3>1. i - 1 \in 1 .. Len(s) /\ j - 1 \in 1 .. Len(s) /\ s[i - 1] = s[j - 1]
      BY <2>1, <2>3, <1>0, <1>3, <1>5
    <3>2. i - 1 = j - 1
      BY <3>1, <1>0, <1>1
    <3> QED BY <3>2
  <2> QED BY <2>2, <2>3
<1>6. Begins(s1, s1)
  BY <1>0, <1>3, <1>5 DEF Begins
<1>7. ASSUME NEW g \in Hosts PROVE Listed(g, s1) <=> g = h \/ Listed(g, s)
  <2>1. ASSUME NEW i \in 1 .. Len(s1), s1[i] = g PROVE g = h \/ Listed(g, s)
    <3>1. i = 1 \/ (i - 1 \in 1 .. Len(s) /\ s1[i] = s[i - 1])
      BY <1>0, <1>3
    <3> QED BY <3>1, <2>1, <1>3 DEF Listed
  <2>2. ASSUME NEW i \in 1 .. Len(s), s[i] = g PROVE Listed(g, s1)
    <3>1. i + 1 \in 1 .. Len(s1) /\ s1[i + 1] = g
      BY <1>0, <1>3, <1>4, <2>2
    <3> QED BY <3>1 DEF Listed
  <2>3. Listed(h, s1)
    <3>1. 1 \in 1 .. Len(s1)
      BY <1>0, <1>3
    <3> QED BY <3>1, <1>3 DEF Listed
  <2> QED BY <2>1, <2>2, <2>3 DEF Listed
<1> QED BY <1>1, <1>2, <1>3, <1>6, <1>7

\* A new host pushes the last one out of a full cache.
LEMMA UseEvicts ==
  ASSUME NEW s, NEW t, Begins(s, t), Len(s) # 0, NEW h \in Hosts, ~Listed(h, s)
  PROVE  /\ Begins(<<h>> \o Front(s), MoveToFront(t, h))
         /\ Len(<<h>> \o Front(s)) = Len(s)
         /\ Last(s) \in Hosts /\ Last(s) # h
         /\ \A g \in Hosts : Listed(g, <<h>> \o Front(s)) <=>
                                g = h \/ (Listed(g, s) /\ g # Last(s))
<1> DEFINE f == Front(s)
           s1 == <<h>> \o f
           t1 == MoveToFront(t, h)
<1>0. /\ s \in Seq(Hosts) /\ t \in Seq(Hosts) /\ Len(s) \in Nat /\ Len(t) \in Nat
      /\ Len(s) <= Len(t) /\ Len(s) >= 1
      /\ \A i \in 1 .. Len(s) : s[i] = t[i] /\ s[i] \in Hosts
      /\ \A i, j \in 1 .. Len(t) : t[i] = t[j] => i = j
  BY LenProperties, ElementOfSeq DEF Begins
<1>1. Last(s) = s[Len(s)] /\ Last(s) \in Hosts /\ Last(s) # h
  BY <1>0 DEF Last, Listed
<1>2. /\ f \in Seq(Hosts) /\ Len(f) = Len(s) - 1
      /\ \A i \in 1 .. Len(s) - 1 : f[i] = s[i]
  <2>1. \A i \in 1 .. Len(s) - 1 : s[i] \in Hosts
    BY <1>0
  <2> HIDE DEF f
  <2>2. /\ f \in Seq(Hosts)
        /\ Len(f) = IF 1 <= Len(s) - 1 THEN (Len(s) - 1) - 1 + 1 ELSE 0
        /\ \A i \in 1 .. (Len(s) - 1) - 1 + 1 : f[i] = s[1 + i - 1]
    BY <2>1, <1>0, SubSeqProperties DEF f, Front
  <2>3. Len(s) \in Nat /\ Len(s) >= 1
    BY <1>0
  <2>4. Len(f) = Len(s) - 1
    <3> DEFINE n == Len(s)
    <3>1. Len(f) = IF 1 <= n - 1 THEN (n - 1) - 1 + 1 ELSE 0
      BY <2>2
    <3>2. n \in Nat /\ n >= 1
      BY <2>3
    <3> HIDE DEF n
    <3>3. Len(f) = n - 1
      BY <3>1, <3>2
    <3> QED BY <3>3 DEF n
  <2>5. ASSUME NEW i \in 1 .. Len(s) - 1 PROVE f[i] = s[i]
    <3>1. i \in 1 .. (Len(s) - 1) - 1 + 1 /\ 1 + i - 1 = i
      BY <2>3
    <3> QED BY <3>1, <2>2
  <2> QED BY <2>2, <2>4, <2>5
<1> HIDE DEF f
<1>3. /\ s1 \in Seq(Hosts) /\ Len(s1) = Len(f) + 1 /\ s1[1] = h
      /\ \A i \in 2 .. Len(f) + 1 : s1[i] = f[i - 1]
  <2>1. f \in Seq(Hosts)
    BY <1>2
  <2> QED BY <2>1, Pushed
<1> HIDE DEF s1
<1>4. Len(s1) = Len(s) /\ \A i \in 2 .. Len(s) : s1[i] = s[i - 1] /\ i - 1 \in 1 .. Len(s)
  BY <1>0, <1>2, <1>3
<1>5. /\ t1 \in Seq(Hosts) /\ Len(t1) >= Len(t)
      /\ t1[1] = h
      /\ \A i \in 2 .. Len(s) : t1[i] = t[i - 1]
      /\ \A i, j \in 1 .. Len(t1) : t1[i] = t1[j] => i = j
  <2>1. CASE Listed(h, t)
    <3>1. PICK k \in 1 .. Len(t) : t[k] = h
      BY <2>1 DEF Listed
    <3>2. k > Len(s)
      BY <3>1, <1>0 DEF Listed
    <3>3. /\ t1 \in Seq(Hosts) /\ Len(t1) = Len(t)
          /\ \A i \in 1 .. Len(t) :
                t1[i] = IF i = 1 THEN h ELSE IF i <= k THEN t[i - 1] ELSE t[i]
      <4>1. t \in Seq(Hosts) /\ \A i, j \in 1 .. Len(t) : t[i] = t[j] => i = j
        BY <1>0
      <4> QED BY <4>1, <3>1, MoveListed
    <3> HIDE DEF t1
    <3>4. Begins(t, t)
      BY <1>0 DEF Begins
    <3>5. Begins(t1, t1)
      BY <3>4, <2>1, UseListed DEF t1
    <3>6. t1[1] = h /\ \A i \in 2 .. Len(s) : t1[i] = t[i - 1]
      BY <3>2, <3>3, <1>0
    <3> QED BY <3>3, <3>5, <3>6, <1>0 DEF Begins
  <2>2. CASE ~Listed(h, t)
    <3>1. t1 = <<h>> \o t
      BY <2>2, <1>0, MoveNew
    <3>2. /\ t1 \in Seq(Hosts) /\ Len(t1) = Len(t) + 1 /\ t1[1] = h
          /\ \A i \in 2 .. Len(t) + 1 : t1[i] = t[i - 1]
      <4>1. t \in Seq(Hosts)
        BY <1>0
      <4> QED BY <3>1, <4>1, Pushed
    <3> HIDE DEF t1
    <3>3. Begins(t, t)
      BY <1>0 DEF Begins
    <3>4. Begins(t1, t1)
      BY <3>3, <2>2, UseNew DEF t1
    <3> QED BY <3>2, <3>4, <1>0 DEF Begins
  <2> QED BY <2>1, <2>2
<1> HIDE DEF t1
<1>6. ASSUME NEW i \in 1 .. Len(s) PROVE s1[i] = t1[i]
  <2>1. CASE i = 1
    BY <2>1, <1>3, <1>5
  <2>2. CASE i # 1
    <3>1. i \in 2 .. Len(s)
      BY <2>2, <1>0
    <3>2. s1[i] = s[i - 1] /\ i - 1 \in 1 .. Len(s) /\ t1[i] = t[i - 1]
      BY <3>1, <1>4, <1>5
    <3> QED BY <3>2, <1>0
  <2> QED BY <2>1, <2>2
<1>7. Begins(s1, t1)
  BY <1>0, <1>3, <1>4, <1>5, <1>6 DEF Begins
<1>8. ASSUME NEW g \in Hosts
      PROVE  Listed(g, s1) <=> g = h \/ (Listed(g, s) /\ g # Last(s))
  <2>1. ASSUME NEW i \in 1 .. Len(s1), s1[i] = g
        PROVE  g = h \/ (Listed(g, s) /\ g # Last(s))
    <3>1. CASE i = 1
      BY <3>1, <2>1, <1>3
    <3>2. CASE i # 1
      <4>1. i - 1 \in 1 .. Len(s) /\ s[i - 1] = g /\ i - 1 # Len(s)
        BY <3>2, <2>1, <1>0, <1>4
      <4>2. \A m, n \in 1 .. Len(s) : s[m] = s[n] => m = n
        BY <1>0
      <4>3. Len(s) \in 1 .. Len(s)
        BY <1>0
      <4>4. g # s[Len(s)]
        BY <4>1, <4>2, <4>3
      <4> QED BY <4>1, <4>4, <1>1 DEF Listed
    <3> QED BY <3>1, <3>2
  <2>2. ASSUME NEW i \in 1 .. Len(s), s[i] = g, g # Last(s) PROVE Listed(g, s1)
    <3>1. i # Len(s)
      BY <2>2, <1>1
    <3>2. i + 1 \in 2 .. Len(s) /\ i + 1 \in 1 .. Len(s1) /\ (i + 1) - 1 = i
      BY <3>1, <1>0, <1>4
    <3>3. s1[i + 1] = g
      BY <3>2, <1>4, <2>2
    <3> QED BY <3>2, <3>3 DEF Listed
  <2>3. Listed(h, s1)
    <3>1. 1 \in 1 .. Len(s1)
      BY <1>0, <1>4
    <3> QED BY <3>1, <1>3 DEF Listed
  <2> QED BY <2>1, <2>2, <2>3 DEF Listed
<1> QED BY <1>1, <1>4, <1>7, <1>8 DEF s1, t1, f
-----------------------------------------------------------------------------
\* Cache.Get of a cached host keeps the cache in order.
LEMMA GetKeeps ==
  ASSUME CacheInv(ll, recent, cache), NEW h \in Hosts, cache[h] # NoHost,
         Get(h), Use(h)
  PROVE  CacheInv(ll', recent', cache')
<1>1. Listed(h, ll) /\ Begins(ll, recent)
  BY DEF CacheInv
<1>2. /\ Begins(ll', recent')
      /\ Len(ll') = Len(ll) /\ Len(recent') = Len(recent)
      /\ \A g \in Hosts : Listed(g, ll') <=> Listed(g, ll)
  BY <1>1, UseListed DEF Get, Use
<1> QED BY <1>2 DEF CacheInv, Get

\* Cache.Add keeps the cache in order, also of a host that is already there.
LEMMA AddKeeps ==
  ASSUME CacheInv(ll, recent, cache), NEW h \in Hosts, NEW a \in Hosts,
         Add(h, a), Use(h)
  PROVE  CacheInv(ll', recent', cache')
<1> USE NamesAssumption
<1>0. Begins(ll, recent) /\ Len(ll) \in Nat /\ Len(recent) \in Nat
  BY LenProperties DEF CacheInv, Begins
<1>1. CASE cache[h] # NoHost
  <2>1. Listed(h, ll)
    BY <1>1 DEF CacheInv
  <2>2. ll' = MoveToFront(ll, h) /\ cache' = [cache EXCEPT ![h] = a]
    BY <1>1 DEF Add
  <2>3. /\ Begins(ll', recent')
        /\ Len(ll') = Len(ll) /\ Len(recent') = Len(recent)
        /\ \A g \in Hosts : Listed(g, ll') <=> Listed(g, ll)
    BY <1>0, <2>1, <2>2, UseListed DEF Use
  <2>4. \A g \in Hosts : cache'[g] # NoHost <=> Listed(g, ll')
    BY <2>1, <2>2, <2>3 DEF CacheInv
  <2> QED BY <2>2, <2>3, <2>4 DEF CacheInv
<1>2. CASE cache[h] = NoHost /\ Len(ll) < MaxEntries
  <2>1. ~Listed(h, ll) /\ Len(ll) = Len(recent)
    BY <1>0, <1>2 DEF CacheInv
  <2>2. ll' = MoveToFront(ll, h) /\ cache' = [cache EXCEPT ![h] = a]
    BY <1>2 DEF Add
  <2>3. /\ Begins(ll', recent')
        /\ Len(ll') = Len(ll) + 1 /\ Len(recent') = Len(recent) + 1
        /\ \A g \in Hosts : Listed(g, ll') <=> g = h \/ Listed(g, ll)
    BY <1>0, <2>1, <2>2, UseNew DEF Use
  <2>4. \A g \in Hosts : cache'[g] # NoHost <=> Listed(g, ll')
    BY <2>2, <2>3 DEF CacheInv
  <2>5. Len(ll') <= MaxEntries /\ Len(ll') = Len(recent')
    BY <1>0, <1>2, <2>1, <2>3
  <2> QED BY <2>2, <2>3, <2>4, <2>5 DEF CacheInv
<1>3. CASE cache[h] = NoHost /\ ~(Len(ll) < MaxEntries)
  <2>1. ~Listed(h, ll) /\ Len(ll) = MaxEntries /\ Len(ll) # 0
    BY <1>0, <1>3 DEF CacheInv
  <2>2. /\ ll' = <<h>> \o Front(ll)
        /\ cache' = [cache EXCEPT ![h] = a, ![Last(ll)] = NoHost]
    BY <1>3 DEF Add
  <2>3. /\ Begins(ll', recent')
        /\ Len(ll') = Len(ll)
        /\ Last(ll) \in Hosts /\ Last(ll) # h
        /\ \A g \in Hosts : Listed(g, ll') <=>
                               g = h \/ (Listed(g, ll) /\ g # Last(ll))
    BY <1>0, <2>1, <2>2, UseEvicts DEF Use
  <2>4. cache' \in [Hosts -> Hosts \cup {NoHost}]
    BY <2>2, <2>3 DEF CacheInv
  <2>5. ASSUME NEW g \in Hosts
        PROVE  cache'[g] = IF g = Last(ll) THEN NoHost
                           ELSE IF g = h THEN a ELSE cache[g]
    BY <2>2, <2>3 DEF CacheInv
  <2>6. \A g \in Hosts : cache'[g] # NoHost <=> Listed(g, ll')
    BY <2>3, <2>5 DEF CacheInv
  <2> QED BY <2>1, <2>3, <2>4, <2>6 DEF CacheInv
<1> QED BY <1>1, <1>2, <1>3
-----------------------------------------------------------------------------
\* A goroutine that brings a host, and to Cache.Add an answer too.
LEMMA SetKeeps ==
  ASSUME CallerInv, NEW p \in Callers,
         NEW r \in [pc : {"make", "add"}, host : Hosts \cup {NoHost},
                    try : 0 .. Retries - 1, resp : Hosts \cup {NoHost}],
         r.host \in Hosts, r.pc = "add" => r.resp \in Hosts,
         caller' = [caller EXCEPT ![p] = r], answers' \in Seq(Hosts)
  PROVE  CallerInv'
BY DEF CallerInv

\* A goroutine that only moves on brings what it had.
LEMMA GotoKeeps ==
  ASSUME CallerInv, NEW p \in Callers, caller[p].pc # "idle",
         NEW l \in {"once", "read", "remake"}, Goto(p, l), answers' \in Seq(Hosts)
  PROVE  CallerInv'
BY DEF CallerInv, Goto

\* One that returns or panics brings nothing.
LEMMA ReturnKeeps ==
  ASSUME CallerInv, NEW p \in Callers, Return(p), answers' \in Seq(Hosts)
  PROVE  CallerInv'
BY DEF CallerInv, Return, Idle, Retries

\* One that tries once more brings what it had.
LEMMA AgainKeeps ==
  ASSUME CallerInv, NEW p \in Callers, caller[p].pc # "idle",
         caller[p].try # Retries - 1,
         caller' = [caller EXCEPT ![p].pc = "once", ![p].try = @ + 1],
         answers' \in Seq(Hosts)
  PROVE  CallerInv'
BY DEF CallerInv, Retries

\* Every step keeps the invariant.
LEMMA StepIInv == IInv /\ [Next]_vars => IInv'
<1> SUFFICES ASSUME IInv, [Next]_vars PROVE IInv'
  OBVIOUS
<1> USE NamesAssumption
<1>0. /\ CacheInv(ll, recent, cache) /\ CallerInv
      /\ answers \in Seq(Hosts) /\ <<>> \in Seq(Hosts)
  BY DEF IInv, CallerInv
<1>1. ASSUME NEW p \in Callers, NEW h \in Hosts, LookupIP(p, h) PROVE IInv'
  <2>1. CASE cache[h] # NoHost
    <3>1. CacheInv(ll', recent', cache')
      BY <1>0, <1>1, <2>1, GetKeeps DEF LookupIP
    <3>2. CallerInv'
      BY <1>0, <1>1, <2>1 DEF LookupIP, CallerInv, streamVars
    <3> QED BY <3>1, <3>2 DEF IInv
  <2>2. CASE cache[h] = NoHost
    <3> DEFINE r == [pc |-> "make", host |-> h, try |-> 0, resp |-> NoHost]
    <3>a. caller' = [caller EXCEPT ![p] = r] /\ answers' \in Seq(Hosts)
      BY <1>0, <1>1, <2>2 DEF LookupIP, streamVars, Idle
    <3>b. /\ r \in [pc : {"make", "add"}, host : Hosts \cup {NoHost},
                    try : 0 .. Retries - 1, resp : Hosts \cup {NoHost}]
          /\ r.host \in Hosts /\ r.pc # "add"
      BY DEF Retries
    <3> HIDE DEF r
    <3>1. CallerInv'
      BY <1>0, <3>a, <3>b, SetKeeps
    <3> QED BY <1>0, <1>1, <2>2, <3>1 DEF LookupIP, cacheVars, IInv
  <2> QED BY <2>1, <2>2
<1>2. ASSUME NEW p \in Callers, MakeConn(p) PROVE IInv'
  <2>1. answers' \in Seq(Hosts) /\ (Goto(p, "once") \/ Return(p))
    BY <1>0, <1>2 DEF MakeConn, streamVars
  <2>2. CallerInv'
    BY <1>0, <1>2, <2>1, GotoKeeps, ReturnKeeps DEF MakeConn
  <2> QED BY <1>0, <1>2, <2>2 DEF MakeConn, cacheVars, IInv
<1>3. ASSUME NEW p \in Callers, WriteMsg(p) PROVE IInv'
  <2>1. caller[p].host \in Hosts
    BY <1>0, <1>3 DEF WriteMsg, CallerInv
  <2>2. answers' \in Seq(Hosts)
    <3>1. Append(answers, caller[p].host) \in Seq(Hosts)
      BY <1>0, <2>1, AppendProperties
    <3> QED BY <1>0, <1>3, <3>1 DEF WriteMsg
  <2>3. \/ Goto(p, "read") \/ Goto(p, "remake") \/ Return(p)
        \/ /\ caller[p].try # Retries - 1
           /\ caller' = [caller EXCEPT ![p].pc = "once", ![p].try = @ + 1]
    BY <1>3 DEF WriteMsg, AskAgain, Panic, Return
  <2>4. CallerInv'
    BY <1>0, <1>3, <2>2, <2>3, GotoKeeps, ReturnKeeps, AgainKeeps DEF WriteMsg
  <2> QED BY <1>0, <1>3, <2>4 DEF WriteMsg, cacheVars, IInv
<1>4. ASSUME NEW p \in Callers, ReadMsg(p) PROVE IInv'
  <2>1. CASE answers # <<>> /\ answers' = Tail(answers)
             /\ caller' = [caller EXCEPT ![p].pc = "add", ![p].resp = Head(answers)]
    <3>1. Head(answers) \in Hosts /\ Tail(answers) \in Seq(Hosts)
      BY <1>0, <2>1, HeadTailProperties
    <3> DEFINE r == [caller[p] EXCEPT !.pc = "add", !.resp = Head(answers)]
    <3>a. caller' = [caller EXCEPT ![p] = r] /\ answers' \in Seq(Hosts)
      BY <2>1, <3>1
    <3>b. /\ caller[p] \in [pc : {"idle", "make", "once", "read", "remake", "add"},
                            host : Hosts \cup {NoHost},
                            try : 0 .. Retries - 1, resp : Hosts \cup {NoHost}]
          /\ caller[p].host \in Hosts
      BY <1>0, <1>4 DEF ReadMsg, CallerInv
    <3>c. /\ r \in [pc : {"make", "add"}, host : Hosts \cup {NoHost},
                    try : 0 .. Retries - 1, resp : Hosts \cup {NoHost}]
          /\ r.host \in Hosts /\ r.resp \in Hosts
      BY <3>1, <3>b
    <3> HIDE DEF r
    <3>2. CallerInv'
      BY <1>0, <3>a, <3>c, SetKeeps
    <3> QED BY <1>0, <1>4, <3>2 DEF ReadMsg, cacheVars, IInv
  <2>2. CASE Goto(p, "remake") /\ answers' = answers
    <3>1. CallerInv'
      BY <1>0, <1>4, <2>2, GotoKeeps DEF ReadMsg
    <3> QED BY <1>0, <1>4, <3>1 DEF ReadMsg, cacheVars, IInv
  <2> QED BY <1>4, <2>1, <2>2 DEF ReadMsg
<1>5. ASSUME NEW p \in Callers, ReadTorn(p) PROVE IInv'
  <2>1. answers' \in Seq(Hosts)
    BY <1>0, <1>5, HeadTailProperties DEF ReadTorn
  <2>2. \/ Return(p)
        \/ /\ caller[p].try # Retries - 1
           /\ caller' = [caller EXCEPT ![p].pc = "once", ![p].try = @ + 1]
    BY <1>5 DEF ReadTorn, AskAgain
  <2>3. CallerInv'
    BY <1>0, <1>5, <2>1, <2>2, ReturnKeeps, AgainKeeps DEF ReadTorn
  <2> QED BY <1>0, <1>5, <2>3 DEF ReadTorn, cacheVars, IInv
<1>6. ASSUME NEW p \in Callers, Remake(p) PROVE IInv'
  <2>1. answers' \in Seq(Hosts)
    BY <1>0, <1>6 DEF Remake
  <2>2. \/ Return(p)
        \/ /\ caller[p].try # Retries - 1
           /\ caller' = [caller EXCEPT ![p].pc = "once", ![p].try = @ + 1]
    BY <1>6 DEF Remake, Panic, Return
  <2>3. CallerInv'
    BY <1>0, <1>6, <2>1, <2>2, ReturnKeeps, AgainKeeps DEF Remake
  <2> QED BY <1>0, <1>6, <2>3 DEF Remake, cacheVars, IInv
<1>7. ASSUME NEW p \in Callers, CacheAnswer(p) PROVE IInv'
  <2>1. caller[p].host \in Hosts /\ caller[p].resp \in Hosts
    BY <1>0, <1>7 DEF CacheAnswer, CallerInv
  <2>2. CacheInv(ll', recent', cache')
    BY <1>0, <1>7, <2>1, AddKeeps DEF CacheAnswer, cacheVars
  <2>3. CallerInv'
    BY <1>0, <1>7, ReturnKeeps DEF CacheAnswer, streamVars
  <2> QED BY <2>2, <2>3 DEF IInv
<1>8. CASE StreamEnds
  <2>1. PICK n \in 0 .. Len(answers) : answers' = SubSeq(answers, 1, n)
    BY <1>8 DEF StreamEnds
  <2>2. \A i \in 1 .. n : answers[i] \in Hosts
    BY <1>0, LenProperties, ElementOfSeq
  <2>3. answers' \in Seq(Hosts)
    BY <2>1, <2>2, SubSeqProperties
  <2> QED BY <1>0, <1>8, <2>3 DEF StreamEnds, cacheVars, CallerInv, IInv
<1>9. CASE UNCHANGED vars
  BY <1>0, <1>9 DEF vars, CallerInv, IInv
<1> QED
  BY <1>1, <1>2, <1>3, <1>4, <1>5, <1>6, <1>7, <1>8, <1>9 DEF Next, Proceed

LEMMA InitIInv == Init => IInv
<1> SUFFICES ASSUME Init PROVE IInv
  OBVIOUS
<1> USE NamesAssumption
<1>1. <<>> \in Seq(Hosts) /\ Len(<<>>) = 0
  OBVIOUS
<1>2. Begins(ll, recent)
  BY <1>1 DEF Init, Begins
<1>3. \A h \in Hosts : ~Listed(h, ll)
  BY DEF Init, Listed
<1>4. CacheInv(ll, recent, cache)
  BY <1>1, <1>2, <1>3 DEF Init, CacheInv
<1>5. CallerInv
  BY <1>1 DEF Init, CallerInv, Idle, Retries
<1> QED BY <1>4, <1>5 DEF IInv

\* What the invariant says, in the words of the two properties.
LEMMA IInvGives == IInv => CacheConsistent /\ HoldsMostRecent
<1> SUFFICES ASSUME IInv PROVE CacheConsistent /\ HoldsMostRecent
  OBVIOUS
<1>1. /\ Begins(ll, recent)
      /\ Len(ll) <= MaxEntries
      /\ Len(ll) = MaxEntries \/ Len(ll) = Len(recent)
      /\ \A h \in Hosts : cache[h] # NoHost <=> Listed(h, ll)
  BY DEF IInv, CacheInv
<1>2. /\ ll \in Seq(Hosts) /\ recent \in Seq(Hosts)
      /\ Len(ll) \in Nat /\ Len(recent) \in Nat
      /\ DOMAIN ll = 1 .. Len(ll)
      /\ Len(ll) <= Len(recent)
      /\ \A i \in 1 .. Len(ll) : ll[i] = recent[i]
      /\ \A i, j \in 1 .. Len(recent) : recent[i] = recent[j] => i = j
      /\ \A i \in 1 .. Len(ll) : ll[i] \in Hosts /\ recent[i] \in Hosts
  BY <1>1, LenProperties, ElementOfSeq DEF Begins
<1>3. IsInjective(ll)
  BY <1>2 DEF IsInjective
<1>4. \A h \in Hosts : Listed(h, ll) <=> h \in ToSet(ll)
  BY <1>2 DEF ToSet, Listed
<1>5. IsPrefix(ll, recent)
  <2> DEFINE q == SubSeq(recent, 1, Len(ll))
  <2>1. SubSeq(ll, 1, Len(ll)) = ll
    BY <1>2, SubSeqFull
  <2>2. /\ q \in Seq(Hosts)
        /\ Len(q) = IF 1 <= Len(ll) THEN Len(ll) - 1 + 1 ELSE 0
        /\ \A i \in 1 .. Len(ll) - 1 + 1 : q[i] = recent[1 + i - 1]
    <3>1. \A i \in 1 .. Len(ll) : recent[i] \in Hosts
      BY <1>2
    <3> QED BY <3>1, <1>2, SubSeqProperties
  <2> HIDE DEF q
  <2>3. Len(q) = Len(ll) /\ \A i \in 1 .. Len(ll) : q[i] = ll[i]
    BY <2>2, <1>2
  <2>4. q = ll
    BY <2>2, <2>3, <1>2, SeqEqual
  <2> QED BY <2>1, <2>4, <1>2 DEF IsPrefix, q
<1>6. Len(ll) = Len(recent) => ll = recent
  BY <1>2, SeqEqual
<1> QED BY <1>1, <1>3, <1>4, <1>5, <1>6 DEF CacheConsistent, HoldsMostRecent

\* lru.go: for every number of goroutines, hosts and entries, the list and the
\* map of the cache hold the same hosts, each once, and at most MaxEntries of
\* them, also when goroutines that missed the same host both add it.
THEOREM CacheAgrees == Spec => []CacheConsistent
<1>1. Spec => []IInv
  BY InitIInv, StepIInv, PTL DEF Spec
<1> QED BY <1>1, IInvGives, PTL

\* lru.go: the cache evicts in the order of use, whatever the interleaving of
\* hits and additions: it always holds the hosts that were used last.
THEOREM CacheIsLRU == Spec => []HoldsMostRecent
<1>1. Spec => []IInv
  BY InitIInv, StepIInv, PTL DEF Spec
<1> QED BY <1>1, IInvGives, PTL
=============================================================================
