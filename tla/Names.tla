-------------------------------- MODULE Names -------------------------------
(***************************************************************************)
(* Looking up names (ipfilter/dnscache.go, ipfilter/lru.go,                *)
(* dns/tcp_cli.go): goroutines that dial through the FilteredDialer share  *)
(* an LRU cache and, behind it, one TcpClient that sends its questions over*)
(* a stream of the tunnel and reads the answers from it.                   *)
(*                                                                         *)
(* The cache is a list with the most recently used host first and a map    *)
(* from hosts to answers, guarded by a lock that is not held during the    *)
(* query.  The TcpClient holds its RWMutex for reading during an exchange, *)
(* so that exchanges run side by side, and for writing while it replaces   *)
(* the stream.                                                             *)
(*                                                                         *)
(* The answer to a question is named by the host it is about.  Two         *)
(* goroutines that read at the same time may each get a part of an answer; *)
(* from then on the stream is garbled: what is read is no message, or the  *)
(* reader waits for bytes that never come.                                 *)
(***************************************************************************)
EXTENDS Integers, Sequences, SequencesExt

CONSTANTS Callers,    \* goroutines in FilteredDialer.Dial
          Hosts,      \* the names they look up
          Unknown,    \* those that have no address
          MaxEntries, \* of the cache (maxCache)
          NoHost      \* nil

ASSUME NamesAssumption ==
    /\ Unknown \subseteq Hosts
    /\ MaxEntries \in Nat \ {0}
    /\ NoHost \notin Hosts

Retries == 3

VARIABLES
    ll, cache,  \* the list and the map of the Cache
    recent,     \* history: the hosts in the order of their last use
    caller,     \* per goroutine: where it is, host, tries so far, answer
    stream,     \* client.conn: "nil", "open" or "closed"
    answers,    \* the answers that will be read from it, in order
    garbled,    \* readers took parts of one answer
    orphaned    \* client.lock is held for reading by a goroutine that is gone

vars == <<ll, cache, recent, caller, stream, answers, garbled, orphaned>>
cacheVars == <<ll, cache, recent>>
streamVars == <<stream, answers, garbled>>

TypeOK ==
    /\ ll \in Seq(Hosts) /\ recent \in Seq(Hosts)
    /\ cache \in [Hosts -> Hosts \cup {NoHost}]
    /\ caller \in [Callers -> [pc : {"idle", "make", "once", "read", "remake",
                                     "add"},
                               host : Hosts \cup {NoHost},
                               try : 0 .. Retries - 1,
                               resp : Hosts \cup {NoHost}]]
    /\ stream \in {"nil", "open", "closed"}
    /\ answers \in Seq(Hosts)
    /\ garbled \in BOOLEAN /\ orphaned \in BOOLEAN

Idle == [pc |-> "idle", host |-> NoHost, try |-> 0, resp |-> NoHost]

Init ==
    /\ ll = <<>> /\ recent = <<>>
    /\ cache = [h \in Hosts |-> NoHost]
    /\ caller = [p \in Callers |-> Idle]
    /\ stream = "nil"
    /\ answers = <<>> /\ garbled = FALSE
    /\ orphaned = FALSE

Goto(p, l) == caller' = [caller EXCEPT ![p].pc = l]

\* LookupIP returns to FilteredDialer.Dial, with an answer or an error.
Return(p) == caller' = [caller EXCEPT ![p] = Idle]

\* The query reads the Answer of a nil response, or exchangeOnce writes to a nil
\* connection; net/http recovers from the panic of its handler.
Panic(p) == caller' = [caller EXCEPT ![p] = Idle]

\* client.lock can be taken for writing: no exchange is under way.
NoReader == ~orphaned /\ \A p \in Callers : caller[p].pc # "read"

\* Some goroutine is at client.lock.Lock().
WriterWaits == \E p \in Callers : caller[p].pc \in {"make", "remake"}
-----------------------------------------------------------------------------
(* The LRU list: container/list and Cache. *)

MoveToFront(s, h) == <<h>> \o RemoveFirst(s, h)

\* (faulty variant) A hit does not count as a use.
Get_NoMove(h) == UNCHANGED <<ll, cache>>

\* Cache.Get, of a host that is cached.
Get(h) == ll' = MoveToFront(ll, h) /\ UNCHANGED cache

\* (faulty variant) A host that is already there is put in once more.
Add_NoTest(h, a) ==
    IF Len(ll) < MaxEntries
      THEN ll' = <<h>> \o ll /\ cache' = [cache EXCEPT ![h] = a]
      ELSE /\ ll' = <<h>> \o Front(ll)
           /\ cache' = [cache EXCEPT ![h] = a, ![Last(ll)] = NoHost]

\* Cache.Add: a host that is there is refreshed; a new one may push the oldest out.
Add(h, a) ==
    IF cache[h] # NoHost \/ Len(ll) < MaxEntries
      THEN ll' = MoveToFront(ll, h) /\ cache' = [cache EXCEPT ![h] = a]
      ELSE /\ ll' = <<h>> \o Front(ll)
           /\ cache' = [cache EXCEPT ![h] = a, ![Last(ll)] = NoHost]

Use(h) == recent' = MoveToFront(recent, h)
-----------------------------------------------------------------------------
\* DNSCache.LookupIP looks into the cache and, when it is lucky, returns.
LookupIP(p, h) ==
    /\ caller[p].pc = "idle"
    /\ IF cache[h] # NoHost
         THEN Get(h) /\ Use(h) /\ UNCHANGED caller
         ELSE /\ caller' = [caller EXCEPT ![p] = [Idle EXCEPT !.pc = "make", !.host = h]]
              /\ UNCHANGED cacheVars
    /\ UNCHANGED <<streamVars, orphaned>>

\* makeConn(true): a stream if there is none.  Dial also returns a stream that
\* the server refused; it is closed.
MakeConn(p) ==
    /\ caller[p].pc = "make" /\ NoReader
    /\ \/ /\ stream # "nil"
          /\ Goto(p, "once")
          /\ UNCHANGED streamVars
       \/ /\ stream = "nil"
          /\ stream' \in {"open", "closed"} /\ answers' = <<>> /\ garbled' = FALSE
          /\ Goto(p, "once")
       \/ /\ stream = "nil"
          /\ Return(p)
          /\ UNCHANGED streamVars
    /\ UNCHANGED <<cacheVars, orphaned>>

\* The default case of Exchange: the error is returned after the last try.
AskAgain(p) ==
    IF caller[p].try = Retries - 1
      THEN Return(p)
      ELSE caller' = [caller EXCEPT ![p].pc = "once", ![p].try = @ + 1]

\* exchangeOnce takes the lock for reading and writes the question.  The tunnel
\* may fail to send it.  On a closed stream the error is io.ErrClosedPipe.
\* Without a stream exchangeOnce panics, and nobody releases the lock.
WriteMsg(p) ==
    /\ caller[p].pc = "once"
    /\ \/ /\ stream = "open"
          /\ answers' = Append(answers, caller[p].host) /\ Goto(p, "read")
          /\ UNCHANGED orphaned
       \/ /\ stream = "open"
          /\ AskAgain(p)
          /\ UNCHANGED <<answers, orphaned>>
       \/ /\ stream = "closed"
          /\ Goto(p, "remake")
          /\ UNCHANGED <<answers, orphaned>>
       \/ /\ stream = "nil"
          /\ Panic(p)
          /\ orphaned' = TRUE
          /\ UNCHANGED answers
    /\ UNCHANGED <<cacheVars, stream, garbled>>

\* It reads the next answer; on a closed stream, io.EOF after the last one.
ReadMsg(p) ==
    /\ caller[p].pc = "read"
    /\ \/ /\ answers # <<>> /\ ~garbled
          /\ caller' = [caller EXCEPT ![p].pc = "add", ![p].resp = Head(answers)]
          /\ answers' = Tail(answers)
       \/ /\ stream = "closed" /\ answers = <<>>
          /\ Goto(p, "remake")
          /\ UNCHANGED answers
    /\ UNCHANGED <<cacheVars, stream, garbled, orphaned>>

\* What is read is part of an answer that another goroutine reads too, or comes
\* after one, and cannot be unpacked; or the stream ends in the middle of it.
ReadTorn(p) ==
    /\ caller[p].pc = "read"
    /\ \/ /\ answers # <<>>
          /\ garbled \/ \E q \in Callers \ {p} : caller[q].pc = "read"
          /\ answers' = Tail(answers)
       \/ /\ garbled /\ stream = "closed" /\ answers = <<>>
          /\ UNCHANGED answers
    /\ garbled' = TRUE
    /\ AskAgain(p)
    /\ UNCHANGED <<cacheVars, stream, orphaned>>

\* (faulty variant) The loop in Exchange has no end.
Remake_Forever(p) ==
    /\ caller[p].pc = "remake" /\ NoReader
    /\ stream' = "open" /\ answers' = <<>> /\ garbled' = FALSE
    /\ Goto(p, "once")
    /\ UNCHANGED <<cacheVars, orphaned>>

\* makeConn(false): the stream is closed, whichever it is by now, and replaced,
\* and the question is asked again.  When it cannot be closed or replaced, and
\* after the last try, Exchange returns neither an answer nor an error, and the
\* query that called it panics.
Remake(p) ==
    /\ caller[p].pc = "remake" /\ NoReader
    /\ \/ /\ stream' \in {"open", "closed"} /\ answers' = <<>> /\ garbled' = FALSE
          /\ IF caller[p].try = Retries - 1
               THEN Panic(p)
               ELSE caller' = [caller EXCEPT ![p].pc = "once", ![p].try = @ + 1]
       \/ /\ stream' = "nil" /\ answers' = <<>> /\ garbled' = FALSE
          /\ Panic(p)
       \/ /\ stream # "nil" /\ stream' = "closed"
          /\ Panic(p)
          /\ UNCHANGED <<answers, garbled>>
    /\ UNCHANGED <<cacheVars, orphaned>>

\* The answer is put into the cache, if it holds an address, and returned.
CacheAnswer(p) ==
    /\ caller[p].pc = "add"
    /\ IF caller[p].resp \in Unknown
         THEN UNCHANGED cacheVars
         ELSE Add(caller[p].host, caller[p].resp) /\ Use(caller[p].host)
    /\ Return(p)
    /\ UNCHANGED <<streamVars, orphaned>>

\* The stream ends, with its tunnel or at the server; the answers that have
\* arrived can still be read.
StreamEnds ==
    /\ stream = "open"
    /\ stream' = "closed"
    /\ \E n \in 0 .. Len(answers) : answers' = SubSeq(answers, 1, n)
    /\ UNCHANGED <<cacheVars, caller, garbled, orphaned>>

Proceed(p) ==
    \/ MakeConn(p)
    \/ WriteMsg(p)
    \/ ReadMsg(p)
    \/ ReadTorn(p)
    \/ Remake(p)
    \/ CacheAnswer(p)

Next ==
    \/ \E p \in Callers, h \in Hosts : LookupIP(p, h)
    \/ \E p \in Callers : Proceed(p)
    \/ StreamEnds

\* Goroutines that can go on do; the server answers what it is asked, or the
\* stream ends.  A waiting writer keeps new readers out of client.lock, so it
\* gets the lock, unless one of the readers never releases it.
Fairness ==
    /\ []<>(WriterWaits => NoReader \/ garbled \/ orphaned)
    /\ \A p \in Callers : SF_vars(Proceed(p))

Spec == Init /\ [][Next]_vars
FairSpec == Spec /\ Fairness
-----------------------------------------------------------------------------
\* lru.go: the list and the map hold the same hosts, each once, and at most
\* MaxEntries, also when two goroutines missed the same host and both add it.
CacheConsistent ==
    /\ Len(ll) <= MaxEntries
    /\ IsInjective(ll)
    /\ \A h \in Hosts : cache[h] # NoHost <=> h \in ToSet(ll)

\* lru.go: what the cache holds are the hosts that were used last.
HoldsMostRecent == IsPrefix(ll, recent) /\ (Len(ll) = MaxEntries \/ ll = recent)

\* TcpClient.Exchange ends, however often the stream does, as long as no two
\* goroutines have read parts of one answer (there is no timeout) and none has
\* panicked with the lock in hand.
LookupsEnd ==
    \A p \in Callers :
        caller[p].pc # "idle" ~> caller[p].pc = "idle" \/ garbled \/ orphaned

\* README.md:44, the documented first step of every request: the name is looked
\* up and the correct result obtained.  A host is cached with its own answer.
AnswersMatch == \A h \in Hosts : cache[h] \in {NoHost, h}
=============================================================================
