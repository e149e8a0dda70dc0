------------------------------- MODULE UdpMap -------------------------------
(***************************************************************************)
(* The UDP port mapper (portmapper/portmap.go and leakybuf.go).  One       *)
(* goroutine reads datagrams and hands each one to the mapping of its      *)
(* sender, which has three goroutines: SendHandler writes them to the      *)
(* destination, RecvHandler writes the answers back, and a ticker closes   *)
(* the mapping after UDP_TIMEOUT ticks without traffic.  Buffers come from *)
(* a free list that all mappings share.                                    *)
(*                                                                         *)
(* The map "ports" is keyed by the net.Addr that ReadFrom returned, which  *)
(* is a new pointer for every datagram.  So a datagram never finds the     *)
(* mapping of an earlier one, and a mapping is named by the datagram it    *)
(* was made for.                                                           *)
(*                                                                         *)
(* A tick lasts a minute: a goroutine that can run does run before a second*)
(* tick passes.                                                            *)
(***************************************************************************)
EXTENDS Integers, Sequences

CONSTANTS MaxDatagrams, \* bound: datagrams that arrive
          Source,       \* the address each one comes from
          UDP_TIMEOUT,  \* ticks without traffic after which a mapping is closed
          FREELIST,     \* buffers that the free list takes
          MaxReplies    \* bound: answers that come back on each mapping

\* UDP_TIMEOUT is 5 in the code; a single tick never closes a mapping.
ASSUME UdpAssumption ==
    /\ MaxDatagrams \in Nat /\ FREELIST \in Nat /\ MaxReplies \in Nat
    /\ UDP_TIMEOUT \in Nat /\ UDP_TIMEOUT > 1

Datagrams == 1 .. MaxDatagrams      \* in the order of arrival; each is its own payload
None == 0
Buffers == 1 .. FREELIST + MaxDatagrams + 1

VARIABLES
    reader,    \* the goroutine in UdpPortmap: where it is, its buffer and datagram,
               \* the mapping it hands over to
    arrived,   \* the number of datagrams that have been read
    upmlock,   \* upm.lock is held by the reader
    ports,     \* the mappings in upm.ports
    mapping,   \* the goroutines and connections of each mapping
    freelist,  \* buffers in the free list
    content,   \* what each buffer holds
    wrote,     \* the datagrams and payloads written to the destination
    main       \* the program: "load", "serve", "stopped" or "crashed"

udpVars == <<reader, arrived, upmlock, ports, mapping, freelist, content, wrote>>

NewMapping(kind) ==
    [kind |-> kind, send |-> "recv", buf |-> 0, of |-> None, tick |-> "on", cnt |-> 0,
     late |-> FALSE, ch |-> TRUE, dconn |-> TRUE, replies |-> MaxReplies]
NoMapping == [NewMapping("none") EXCEPT !.send = "none", !.tick = "none"]

UdpInit ==
    /\ reader = [pc |-> "off", buf |-> 0, d |-> None, m |-> None]
    /\ arrived = 0
    /\ upmlock = FALSE
    /\ ports = {}
    /\ mapping = [d \in Datagrams |-> NoMapping]
    /\ freelist = <<>>
    /\ content = [b \in Buffers |-> None]
    /\ wrote = {}

\* CreatePortmap, for a port of UDP.
StartUdp ==
    /\ reader' = [reader EXCEPT !.pc = "alloc"]
    /\ UNCHANGED <<arrived, upmlock, ports, mapping, freelist, content, wrote>>
-----------------------------------------------------------------------------
(* The reader. *)

\* A buffer that nobody refers to is as good as a new one.
InUse == {freelist[i] : i \in DOMAIN freelist} \cup {reader.buf}
            \cup {mapping[d].buf : d \in Datagrams}

\* allocbuf, from NewUdpPackage.
AllocBuf ==
    /\ reader.pc = "alloc"
    /\ \/ /\ freelist # <<>>
          /\ reader' = [reader EXCEPT !.pc = "read", !.buf = Head(freelist)]
          /\ freelist' = Tail(freelist)
       \/ /\ freelist = <<>>
          /\ reader' = [reader EXCEPT !.pc = "read", !.buf = CHOOSE b \in Buffers : b \notin InUse]
          /\ UNCHANGED freelist
    /\ UNCHANGED <<arrived, upmlock, ports, mapping, content, wrote, main>>

ReadFrom ==
    /\ reader.pc = "read"
    /\ arrived < MaxDatagrams
    /\ arrived' = arrived + 1
    /\ content' = [content EXCEPT ![reader.buf] = arrived']
    /\ reader' = [reader EXCEPT !.pc = "lock", !.d = arrived']
    /\ UNCHANGED <<upmlock, ports, mapping, freelist, wrote, main>>

\* An error of ReadFrom: the buffer is dropped.
ReadFromFails ==
    /\ reader.pc = "read"
    /\ reader' = [reader EXCEPT !.pc = "alloc", !.buf = 0]
    /\ UNCHANGED <<arrived, upmlock, ports, mapping, freelist, content, wrote, main>>

\* Faulty variant: mappings are found by the sender's address.
Lookup_ByAddress(d) == {m \in ports : Source[m] = Source[d]}

\* upm.ports[addr]
Lookup(d) == {m \in ports : m = d}

\* Without a mapping the lock is kept while the destination is dialed.
FindPort ==
    /\ reader.pc = "lock"
    /\ ~upmlock
    /\ IF Lookup(reader.d) # {}
         THEN /\ reader' = [reader EXCEPT !.pc = "send",
                                          !.m = CHOOSE m \in Lookup(reader.d) : TRUE]
              /\ UNCHANGED upmlock
         ELSE /\ reader' = [reader EXCEPT !.pc = "dial"]
              /\ upmlock' = TRUE
    /\ UNCHANGED <<arrived, ports, mapping, freelist, content, wrote, main>>

\* Dial returned a UDP connection, or through the tunnel a Conn that the server
\* has denied, since it knows no network "udp".
UdpDialed(kind) ==
    /\ reader.pc = "dial"
    /\ mapping' = [mapping EXCEPT ![reader.d] = NewMapping(kind)]
    /\ ports' = ports \cup {reader.d}
    /\ upmlock' = FALSE
    /\ reader' = [reader EXCEPT !.pc = "send", !.m = reader.d]
    /\ UNCHANGED <<arrived, freelist, content, wrote, main>>

\* Faulty variant: the lock is not released on this path.
UdpDialFails_KeepsLock ==
    /\ reader.pc = "dial"
    /\ reader' = [reader EXCEPT !.pc = "alloc", !.buf = 0, !.d = None]
    /\ UNCHANGED <<arrived, upmlock, ports, mapping, freelist, content, wrote, main>>

UdpDialFails ==
    /\ reader.pc = "dial"
    /\ upmlock' = FALSE
    /\ reader' = [reader EXCEPT !.pc = "alloc", !.buf = 0, !.d = None]
    /\ UNCHANGED <<arrived, ports, mapping, freelist, content, wrote, main>>

\* Faulty variant: one package for the whole loop.
HandOver_KeepsBuffer ==
    /\ reader.pc = "send" /\ mapping[reader.m].send = "recv"
    /\ mapping' = [mapping EXCEPT ![reader.m].send = "write", ![reader.m].buf = reader.buf,
                                  ![reader.m].of = reader.d, ![reader.m].late = FALSE]
    /\ reader' = [reader EXCEPT !.pc = "read", !.d = None, !.m = None]
    /\ UNCHANGED <<arrived, upmlock, ports, freelist, content, wrote, main>>

\* umc.ch <- up meets SendHandler in its receive, or panics on a closed channel.
HandOver ==
    LET m == reader.m IN
    /\ reader.pc = "send"
    /\ IF mapping[m].ch
         THEN /\ mapping[m].send = "recv"
              /\ mapping' = [mapping EXCEPT ![m].send = "write", ![m].buf = reader.buf,
                                            ![m].of = reader.d, ![m].late = FALSE]
              /\ reader' = [reader EXCEPT !.pc = "alloc", !.buf = 0, !.d = None, !.m = None]
              /\ UNCHANGED main
         ELSE /\ main' = "crashed"
              /\ UNCHANGED <<mapping, reader>>
    /\ UNCHANGED <<arrived, upmlock, ports, freelist, content, wrote>>
-----------------------------------------------------------------------------
(* SendHandler and RecvHandler of mapping m. *)

\* dconn.Write; on an error the buffer is dropped and the loop goes on.
SendWrites(m) ==
    /\ mapping[m].send = "write"
    /\ \/ /\ mapping[m].kind = "udp" /\ mapping[m].dconn
          /\ wrote' = wrote \cup {<<mapping[m].of, content[mapping[m].buf]>>}
          /\ mapping' = [mapping EXCEPT ![m].send = "free", ![m].late = FALSE]
       \/ /\ mapping' = [mapping EXCEPT ![m].send = "recv", ![m].buf = 0, ![m].of = None,
                                        ![m].late = FALSE]
          /\ UNCHANGED wrote
    /\ UNCHANGED <<reader, arrived, upmlock, ports, freelist, content, main>>

\* freebuf, which drops what the free list has no room for.
SendFrees(m) ==
    /\ mapping[m].send = "free"
    /\ freelist' = IF Len(freelist) < FREELIST THEN Append(freelist, mapping[m].buf) ELSE freelist
    /\ mapping' = [mapping EXCEPT ![m].send = "recv", ![m].buf = 0, ![m].of = None,
                                  ![m].cnt = 0, ![m].late = FALSE]
    /\ UNCHANGED <<reader, arrived, upmlock, ports, content, wrote, main>>

SendEnds(m) ==
    /\ mapping[m].send = "recv"
    /\ ~mapping[m].ch
    /\ mapping' = [mapping EXCEPT ![m].send = "done", ![m].dconn = FALSE]
    /\ UNCHANGED <<reader, arrived, upmlock, ports, freelist, content, wrote, main>>

\* An answer is written back to the sender.  Read of a denied Conn blocks, and
\* errors of a UDP connection are logged for ever, also after Close.
RecvAnswers(m) ==
    /\ mapping[m].kind = "udp" /\ mapping[m].dconn
    /\ mapping[m].replies > 0
    /\ mapping' = [mapping EXCEPT ![m].replies = @ - 1, ![m].cnt = 0]
    /\ UNCHANGED <<reader, arrived, upmlock, ports, freelist, content, wrote, main>>
-----------------------------------------------------------------------------
(* The ticker of mapping m. *)

Busy(m) == mapping[m].send \in {"write", "free"} \/ (reader.pc = "send" /\ reader.m = m)

Tick(m) ==
    /\ mapping[m].tick = "on"
    /\ Busy(m) => ~mapping[m].late
    /\ mapping' = [mapping EXCEPT
          ![m].cnt = @ + 1, ![m].late = Busy(m),
          ![m].tick = IF mapping[m].cnt + 1 >= UDP_TIMEOUT THEN "close" ELSE "on"]
    /\ UNCHANGED <<reader, arrived, upmlock, ports, freelist, content, wrote, main>>

\* UdpMapperConn.Close: the connection, the channel, then RemovePorts.
CloseMapping(m) ==
    /\ mapping[m].tick = "close"
    /\ mapping' = [mapping EXCEPT ![m].tick = "remove", ![m].dconn = FALSE, ![m].ch = FALSE]
    /\ UNCHANGED <<reader, arrived, upmlock, ports, freelist, content, wrote, main>>

RemovePorts(m) ==
    /\ mapping[m].tick = "remove"
    /\ ~upmlock
    /\ ports' = ports \ {m}
    /\ mapping' = [mapping EXCEPT ![m].tick = "done"]
    /\ UNCHANGED <<reader, arrived, upmlock, freelist, content, wrote, main>>
-----------------------------------------------------------------------------
ReaderStep == AllocBuf \/ HandOver
MapStep(m) == SendWrites(m) \/ SendFrees(m) \/ SendEnds(m)
TickStep(m) == Tick(m) \/ CloseMapping(m) \/ RemovePorts(m)

UdpNext ==
    /\ main = "serve"
    /\ \/ ReaderStep \/ ReadFrom \/ ReadFromFails
       \/ \E d \in Datagrams : MapStep(d) \/ RecvAnswers(d) \/ TickStep(d)

\* Goroutines that can run do run and time passes; nothing has to arrive.
UdpFairness ==
    /\ WF_udpVars(main = "serve" /\ ReaderStep)
    /\ \A d \in Datagrams : /\ WF_udpVars(main = "serve" /\ MapStep(d))
                            /\ WF_udpVars(main = "serve" /\ TickStep(d))
-----------------------------------------------------------------------------
\* What is written to the destination is the datagram that was handed over,
\* although its buffer goes round between all mappings (portmap.go:201-210,
\* leakybuf.go:5-20).
PayloadIntact == \A x \in wrote : x[1] = x[2]

\* The reader never sends to a channel that a ticker has closed: that would end
\* the whole program (portmap.go:98, 146, 156).
ChannelOpen == reader.pc = "send" => mapping[reader.m].ch
=============================================================================
