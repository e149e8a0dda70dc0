------------------------------- MODULE Session ------------------------------
(***************************************************************************)
(* From a connection to a tunnel: the exchange of initialization vectors   *)
(* (cryptconn), the authentication of the client (tunnel/client.go Create, *)
(* tunnel/server.go AuthConn) and the server's accept loop with a goroutine*)
(* for each connection (tunnel/server.go Serve, connpool/server.go Handle).*)
(*                                                                         *)
(* The goroutines that Serve starts share its variable conn with the loop  *)
(* that assigns it: each reads it twice, when it starts (defer conn.Close) *)
(* and when it calls Handle, and the loop may have moved on.  A goroutine  *)
(* is named by the connection that it was started for.                     *)
(*                                                                         *)
(* An IV is the set of the random numbers that it is the XOR of.  A message*)
(* carries the key and the IV that it was enciphered with; to a reader with*)
(* others it is garbage.                                                   *)
(***************************************************************************)
EXTENDS Integers, Sequences, FiniteSets

CONSTANTS Conns,     \* the connections, one for each call of Create
          Configs,   \* the configurations of their clients
          MaxLost,   \* bound: links that are lost
          NoConn     \* nil

\* A client is configured as the server is, or with a password that AuthPass
\* does not accept, or with another key.
Creds == {"good", "password", "key"}

ASSUME SessionAssumption ==
    /\ Configs \subseteq [Conns -> Creds]
    /\ MaxLost \in Nat
    /\ NoConn \notin Conns

IV == SUBSET {"client", "server"}
XOR(a, b) == (a \ b) \cup (b \ a)

VARIABLES
    cli,      \* per connection: where Create is, and the client's IV
    cred,     \* per connection: the configuration of its client
    up, down, \* per connection: the messages to the server, to the client
    dead,     \* the connections that lost their link: nothing arrives any more
    copen,    \* the connections that the client, and the server, may use: it
    sopen,    \* has not closed its end nor been told that the link is lost
    backlog,  \* connections not yet accepted
    acc,      \* the connection that Listener.Accept waits for an IV on, if any
    siv,      \* per connection: the server's IV
    conn,     \* the variable conn of Serve
    go,       \* per goroutine: where it is, the conn it will close, the one
              \* it handles, whether its AUTH_TIMEOUT timer is armed
    pool      \* the goroutines whose tunnel is in the pool

vars == <<cli, cred, up, down, dead, copen, sopen, backlog, acc, siv, conn, go, pool>>
serverVars == <<dead, sopen, backlog, acc, siv, conn, go, pool>>
clientVars == <<cli, cred, copen>>

Msg == [type : {"IV", "AUTH", "ERR_NONE", "ERR_AUTH"}, iv : IV, key : BOOLEAN]
TypeOK ==
    /\ cli \in [Conns -> [pc : {"idle", "recviv", "wait", "up", "failed"}, iv : IV]]
    /\ cred \in [Conns -> Creds]
    /\ \A c \in Conns : /\ Len(up[c]) <= 2 /\ Len(down[c]) <= 1
                        /\ \A q \in {up[c], down[c]} : \A i \in DOMAIN q : q[i] \in Msg
    /\ dead \subseteq Conns
    /\ copen \subseteq Conns /\ sopen \subseteq Conns
    /\ \A i \in DOMAIN backlog : backlog[i] \in Conns
    /\ acc \in Conns \cup {NoConn}
    /\ siv \in [Conns -> IV]
    /\ conn \in Conns \cup {NoConn}
    /\ go \in [Conns -> [pc : {"none", "start", "deferred", "auth", "authed",
                               "loop", "done"},
                         closes : Conns \cup {NoConn},
                         handles : Conns \cup {NoConn},
                         timer : BOOLEAN]]
    /\ pool \subseteq Conns

Init ==
    /\ cli = [c \in Conns |-> [pc |-> "idle", iv |-> {}]]
    /\ cred \in Configs
    /\ up = [c \in Conns |-> <<>>]
    /\ down = [c \in Conns |-> <<>>]
    /\ dead = {} /\ copen = {} /\ sopen = {}
    /\ backlog = <<>>
    /\ acc = NoConn
    /\ siv = [c \in Conns |-> {}]
    /\ conn = NoConn
    /\ go = [c \in Conns |-> [pc |-> "none", closes |-> NoConn,
                              handles |-> NoConn, timer |-> FALSE]]
    /\ pool = {}

\* An IV is sent in the clear, a frame enciphered.
IVMsg(iv) == [type |-> "IV", iv |-> iv, key |-> TRUE]
ClientMsg(iv, c, t) == [type |-> t, iv |-> iv, key |-> cred[c] # "key"]
ServerMsg(c, t) == [type |-> t, iv |-> siv[c], key |-> TRUE]

\* What was enciphered by one end reads well at the other.
Readable(m, iv, key) == m.iv = iv /\ m.key = key

\* A write puts the message on the way, unless the link is lost.
Sent(c, q, msg) == IF c \in dead THEN q ELSE Append(q, msg)

ClientFails(c) == cli' = [cli EXCEPT ![c] = [pc |-> "failed", iv |-> {}]]
-----------------------------------------------------------------------------
(* The client: cryptconn.Dialer.Dial, then DialerCreator.Create. *)

\* Dial and SentIV: a random IV, or an error.
Connect(c) ==
    /\ cli[c].pc = "idle"
    /\ \/ /\ cli' = [cli EXCEPT ![c] = [pc |-> "recviv", iv |-> {"client"}]]
          /\ copen' = copen \cup {c}
          /\ sopen' = sopen \cup {c}
          /\ backlog' = Append(backlog, c)
          /\ up' = [up EXCEPT ![c] = Sent(c, @, IVMsg({"client"}))]
       \/ /\ ClientFails(c)
          /\ UNCHANGED <<copen, sopen, backlog, up>>
    /\ UNCHANGED <<cred, down, dead, acc, siv, conn, go, pool>>

\* RecvIV and XOR give the IV of the session; Create arms its timer and writes
\* the AUTH frame.
SendAuth(c) ==
    /\ cli[c].pc = "recviv" /\ c \in copen /\ down[c] # <<>>
    /\ LET iv == XOR(cli[c].iv, Head(down[c]).iv)
       IN  /\ cli' = [cli EXCEPT ![c] = [pc |-> "wait", iv |-> iv]]
           /\ up' = [up EXCEPT ![c] = Sent(c, @, ClientMsg(iv, c, "AUTH"))]
    /\ down' = [down EXCEPT ![c] = Tail(@)]
    /\ UNCHANGED <<cred, copen, serverVars>>

\* (faulty variant) Without a read deadline only a closed connection ends RecvIV.
ClientRecvIVFails_NoDeadline(c) ==
    /\ cli[c].pc = "recviv" /\ (c \notin copen \/ c \notin sopen \cup dead)
    /\ ClientFails(c)
    /\ UNCHANGED <<cred, up, down, copen, serverVars>>

\* RecvIV fails: the connection has been closed, or HANDSHAKE_TIMEOUT is over.
\* Nothing closes the connection then.
ClientRecvIVFails(c) ==
    /\ cli[c].pc = "recviv"
    /\ ClientFails(c)
    /\ UNCHANGED <<cred, up, down, copen, serverVars>>

\* (faulty variant) The errno of the RESULT is not looked at.
RecvResult_AnyErrno(c) ==
    /\ cli[c].pc = "wait" /\ c \in copen /\ down[c] # <<>>
    /\ down' = [down EXCEPT ![c] = Tail(@)]
    /\ cli' = [cli EXCEPT ![c].pc = "up"]
    /\ UNCHANGED <<cred, up, copen, serverVars>>

\* The answer: ERR_NONE, and Create returns a tunnel; or an error, for which
\* Create closes the connection; or garbage.
RecvResult(c) ==
    /\ cli[c].pc = "wait" /\ c \in copen /\ down[c] # <<>>
    /\ down' = [down EXCEPT ![c] = Tail(@)]
    /\ LET m == Head(down[c]) IN
         IF Readable(m, cli[c].iv, cred[c] # "key") /\ m.type = "ERR_NONE"
           THEN /\ cli' = [cli EXCEPT ![c].pc = "up"]
                /\ UNCHANGED copen
           ELSE /\ ClientFails(c)
                /\ copen' = IF m.type = "ERR_AUTH" THEN copen \ {c} ELSE copen
    /\ UNCHANGED <<cred, up, serverVars>>

\* The connection has been closed by the server, or Create's end is told that
\* the link is lost.
RecvResultFails(c) ==
    /\ cli[c].pc = "wait"
    /\ c \notin copen \/ (c \notin sopen \cup dead /\ down[c] = <<>>)
    /\ ClientFails(c)
    /\ UNCHANGED <<cred, up, down, copen, serverVars>>

\* The timer of Create fires and closes the connection under ReadFrame.
ClientAuthTimeout(c) ==
    /\ cli[c].pc = "wait" /\ c \in copen
    /\ ClientFails(c)
    /\ copen' = copen \ {c}
    /\ UNCHANGED <<cred, up, down, serverVars>>
-----------------------------------------------------------------------------
(* The loop in Serve, which is inside Listener.Accept while it handshakes. *)

\* A connection is accepted and sent an IV; when that fails (the link has broken)
\* the loop takes the next connection.
Accept ==
    /\ acc = NoConn /\ backlog # <<>>
    /\ backlog' = Tail(backlog)
    /\ LET c == Head(backlog) IN
         IF c \in sopen
           THEN /\ acc' = c
                /\ siv' = [siv EXCEPT ![c] = {"server"}]
                /\ down' = [down EXCEPT ![c] = Sent(c, @, IVMsg({"server"}))]
           ELSE UNCHANGED <<acc, siv, down>>
    /\ UNCHANGED <<clientVars, up, dead, sopen, conn, go, pool>>

\* The client's IV has arrived and Accept returns the connection: Serve assigns
\* conn and starts a goroutine.
AcceptReturns ==
    /\ acc # NoConn /\ acc \in sopen /\ up[acc] # <<>>
    /\ siv' = [siv EXCEPT ![acc] = XOR(@, Head(up[acc]).iv)]
    /\ up' = [up EXCEPT ![acc] = Tail(@)]
    /\ conn' = acc
    /\ go' = [go EXCEPT ![acc].pc = "start"]
    /\ acc' = NoConn
    /\ UNCHANGED <<clientVars, down, dead, sopen, backlog, pool>>

\* (faulty variant) Without a read deadline.
AcceptFails_NoDeadline ==
    /\ acc # NoConn /\ (acc \notin sopen \/ acc \notin copen \cup dead)
    /\ acc' = NoConn
    /\ UNCHANGED <<clientVars, up, down, dead, sopen, backlog, siv, conn, go, pool>>

\* RecvIV fails, at the latest after HANDSHAKE_TIMEOUT; the connection is not
\* closed.
AcceptFails ==
    /\ acc # NoConn
    /\ acc' = NoConn
    /\ UNCHANGED <<clientVars, up, down, dead, sopen, backlog, siv, conn, go, pool>>
-----------------------------------------------------------------------------
(* The goroutine of a connection: Serve's function and connpool's Handle.  *)

GoVars == <<clientVars, up, down, dead, backlog, acc, siv, conn>>

\* defer conn.Close()
GoDefers(g) ==
    /\ go[g].pc = "start"
    /\ go' = [go EXCEPT ![g].pc = "deferred", ![g].closes = conn]
    /\ UNCHANGED <<GoVars, sopen, pool>>

\* (faulty variant) AuthConn without its timer.
GoHandles_NoTimer(g) ==
    /\ go[g].pc = "deferred"
    /\ go' = [go EXCEPT ![g].pc = "auth", ![g].handles = conn]
    /\ UNCHANGED <<GoVars, sopen, pool>>

\* server.Handle(conn), which arms the timer of AuthConn.
GoHandles(g) ==
    /\ go[g].pc = "deferred"
    /\ go' = [go EXCEPT ![g].pc = "auth", ![g].handles = conn, ![g].timer = TRUE]
    /\ UNCHANGED <<GoVars, sopen, pool>>

\* Handle returns, and the deferred call closes a connection (sopen' is given
\* what else was closed before).
GoExits(g, rest) ==
    /\ go' = [go EXCEPT ![g].pc = "done", ![g].closes = NoConn]
    /\ sopen' = rest \ {go[g].closes}

\* Another goroutine reads from the same connection, each a part of the frame.
Torn(g) == \E h \in Conns \ {g} :
              go[h].pc = "auth" /\ go[h].handles = go[g].handles

\* (faulty variant) The frame is looked at and stays in the stream.
OnAuth_Peeks(g) ==
    LET c == go[g].handles
    IN  /\ go[g].pc = "auth" /\ c \in sopen /\ up[c] # <<>>
        /\ \/ /\ Readable(Head(up[c]), siv[c], TRUE) /\ cred[c] # "password"
              /\ down' = [down EXCEPT ![c] = Sent(c, @, ServerMsg(c, "ERR_NONE"))]
              /\ go' = [go EXCEPT ![g].pc = "authed"]
              /\ UNCHANGED sopen
           \/ /\ ~(Readable(Head(up[c]), siv[c], TRUE) /\ cred[c] # "password")
              /\ GoExits(g, sopen)
              /\ UNCHANGED down
        /\ UNCHANGED <<clientVars, up, dead, backlog, acc, siv, conn, pool>>

\* onAuth: the AUTH frame and its answer.  A frame that cannot be read is an
\* error, or makes ReadFrame wait for the length that it seems to have.
OnAuth(g) ==
    LET c == go[g].handles
        readable == Readable(Head(up[c]), siv[c], TRUE)
    IN  /\ go[g].pc = "auth" /\ c \in sopen /\ up[c] # <<>>
        /\ up' = [up EXCEPT ![c] = Tail(@)]
        /\ \/ /\ readable /\ cred[c] # "password"
              /\ down' = [down EXCEPT ![c] = Sent(c, @, ServerMsg(c, "ERR_NONE"))]
              /\ go' = [go EXCEPT ![g].pc = "authed"]
              /\ UNCHANGED sopen
           \/ /\ readable /\ cred[c] = "password"
              /\ down' = [down EXCEPT ![c] = Sent(c, @, ServerMsg(c, "ERR_AUTH"))]
              /\ GoExits(g, sopen)
           \/ /\ ~readable \/ Torn(g)
              /\ GoExits(g, sopen) \/ UNCHANGED <<go, sopen>>
              /\ UNCHANGED down
        /\ UNCHANGED <<clientVars, dead, backlog, acc, siv, conn, pool>>

\* ReadFrame fails: the connection has been closed.
AuthFails(g) ==
    /\ go[g].pc = "auth"
    /\ LET c == go[g].handles IN
         c \notin sopen \/ (c \notin copen \cup dead /\ up[c] = <<>>)
    /\ GoExits(g, sopen)
    /\ UNCHANGED <<GoVars, pool>>

\* The timer of AuthConn, which only a successful onAuth stops.
ServerAuthTimeout(g) ==
    /\ go[g].timer
    /\ go' = [go EXCEPT ![g].timer = FALSE]
    /\ sopen' = sopen \ {go[g].handles}
    /\ UNCHANGED <<GoVars, pool>>

\* AuthConn has returned: the tunnel is put into the pool and Loop runs.
Pools(g) ==
    /\ go[g].pc = "authed"
    /\ go' = [go EXCEPT ![g].pc = "loop", ![g].timer = FALSE]
    /\ pool' = pool \cup {g}
    /\ UNCHANGED <<GoVars, sopen>>

\* Loop ends with the connection, which Fabric.Close closes, and Handle
\* removes the tunnel.
LoopEnds(g) ==
    /\ go[g].pc = "loop"
    /\ go[g].handles \notin sopen \/ go[g].handles \notin copen \cup dead
    /\ pool' = pool \ {g}
    /\ GoExits(g, sopen \ {go[g].handles})
    /\ UNCHANGED GoVars
-----------------------------------------------------------------------------
\* The client's tunnel ends.
ClientCloses(c) ==
    /\ cli[c].pc = "up" /\ c \in copen
    /\ copen' = copen \ {c}
    /\ UNCHANGED <<cli, cred, up, down, serverVars>>

\* The link is lost without a word, with what was on its way; an end may learn
\* of it later.
LinkLost(c) ==
    /\ Cardinality(dead) < MaxLost
    /\ c \in (copen \cap sopen) \ dead
    /\ dead' = dead \cup {c}
    /\ up' = [up EXCEPT ![c] = <<>>]
    /\ down' = [down EXCEPT ![c] = <<>>]
    /\ UNCHANGED <<clientVars, sopen, backlog, acc, siv, conn, go, pool>>

LossNoticed(c) ==
    /\ c \in dead
    /\ \/ copen' = copen \ {c} /\ UNCHANGED sopen
       \/ sopen' = sopen \ {c} /\ UNCHANGED copen
    /\ UNCHANGED <<cli, cred, up, down, dead, backlog, acc, siv, conn, go, pool>>

Creates(c) ==
    \/ SendAuth(c)
    \/ ClientRecvIVFails(c)
    \/ RecvResult(c)
    \/ RecvResultFails(c)
    \/ ClientAuthTimeout(c)

Accepts ==
    \/ Accept
    \/ AcceptReturns
    \/ AcceptFails

Serves(g) ==
    \/ GoDefers(g)
    \/ GoHandles(g)
    \/ OnAuth(g)
    \/ AuthFails(g)
    \/ ServerAuthTimeout(g)
    \/ Pools(g)
    \/ LoopEnds(g)

\* Every Create has returned; the server goes on waiting for connections.
Finished ==
    /\ \A c \in Conns : cli[c].pc \in {"up", "failed"}
    /\ UNCHANGED vars

Next ==
    \/ \E c \in Conns : Connect(c) \/ Creates(c) \/ ClientCloses(c) \/ LinkLost(c) \/ LossNoticed(c)
    \/ Accepts
    \/ \E g \in Conns : Serves(g)
    \/ Finished

\* Goroutines that can go on do, and the timers and deadlines that are armed
\* expire.  Nobody has to connect or to close.
Fairness ==
    /\ \A c \in Conns : WF_vars(Creates(c)) /\ WF_vars(Serves(c))
    /\ WF_vars(Accepts)

Spec == Init /\ [][Next]_vars
FairSpec == Spec /\ Fairness
-----------------------------------------------------------------------------
\* connpool.Server.Handle, AuthConn: a tunnel in the server's pool runs on a
\* connection whose client has the key and passed AuthPass, and no two run on
\* the same one, although two goroutines of Serve may handle one connection.
PoolOwnsConnection ==
    \A g \in pool :
        /\ cred[go[g].handles] = "good"
        /\ \A h \in pool \ {g} : go[h].handles # go[g].handles

\* DialerCreator.Create: a client that has a tunnel is one that the server
\* knows, and the two ends encipher with the same IV.
SessionAgreed ==
    \A c \in Conns : cli[c].pc = "up" =>
        cred[c] = "good" /\ cli[c].iv = siv[c]

\* Create returns (it holds dialer.lock meanwhile), whatever the server and the
\* connection do: HANDSHAKE_TIMEOUT and AUTH_TIMEOUT see to it.
CreateEnds ==
    \A c \in Conns : cli[c].pc # "idle" ~> cli[c].pc \in {"up", "failed"}

\* The accept loop gets back to accepting: a connection on which no IV arrives
\* holds it up for HANDSHAKE_TIMEOUT and not longer.
AcceptorReturns == acc # NoConn ~> acc = NoConn

\* AuthConn: a connection that does not authenticate is given up.
HandlersDecide ==
    \A g \in Conns : go[g].pc \in {"start", "deferred", "auth", "authed"}
                        ~> go[g].pc \in {"loop", "done"}
=============================================================================
