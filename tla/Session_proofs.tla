--------------------------- MODULE Session_proofs ---------------------------
(***************************************************************************)
(* However the goroutines of Serve interleave with its accept loop and     *)
(* share its variable conn, the tunnels in the server's pool run on        *)
(* connections of clients that the server knows, no two on one, and a      *)
(* client that has a tunnel enciphers as the server does.                  *)
(*                                                                         *)
(* Both rest on one fact: of the one AUTH frame that a client sends, a     *)
(* goroutine that authenticates the client takes it off the connection.    *)
(***************************************************************************)
EXTENDS Session, SequenceTheorems, TLAPS

Both == {"client", "server"}
ClientIV == IVMsg({"client"})
ServerIV == IVMsg({"server"})
AuthMsg(c) == ClientMsg(Both, c, "AUTH")

\* What may be on the way on connection c.
UpMsgs(c) == {ClientIV, AuthMsg(c)}
DownMsgs(c) ==
    {ServerIV} \cup {m \in {ServerMsg(c, "ERR_AUTH"), ServerMsg(c, "ERR_NONE")} :
                        siv[c] = Both /\ (m.type = "ERR_NONE" => cred[c] = "good")}

\* At most one message of q is an AUTH frame.
OneAuth(q) == \A i, j \in 1 .. Len(q) :
                 q[i].type = "AUTH" /\ q[j].type = "AUTH" => i = j

Waiting(c) == \E i \in 1 .. Len(backlog) : backlog[i] = c

\* A goroutine that has authenticated the client of its connection.
Past(g) == go[g].pc \in {"authed", "loop"}

GoRec == [pc : {"none", "start", "deferred", "auth", "authed", "loop", "done"},
          closes : Conns \cup {NoConn},
          handles : Conns \cup {NoConn},
          timer : BOOLEAN]
CliRec == [pc : {"idle", "recviv", "wait", "up", "failed"}, iv : IV]

TypeInv ==
    /\ cli \in [Conns -> CliRec]
    /\ cred \in [Conns -> Creds]
    /\ DOMAIN up = Conns /\ DOMAIN down = Conns
    /\ siv \in [Conns -> {{}, {"server"}, Both}]
    /\ acc \in Conns \cup {NoConn} /\ conn \in Conns \cup {NoConn}
    /\ go \in [Conns -> GoRec]
    /\ backlog \in Seq(Conns)
    /\ \A i, j \in 1 .. Len(backlog) : backlog[i] = backlog[j] => i = j

\* The messages on their way.
MsgInv(c) ==
    /\ up[c] \in Seq(UpMsgs(c)) /\ OneAuth(up[c])
    /\ down[c] \in Seq(DownMsgs(c))
    /\ cli[c].pc \in {"idle", "recviv"} =>
          up[c] \in Seq({ClientIV}) /\ down[c] \in Seq({ServerIV})
    /\ Waiting(c) \/ acc = c =>
          IF up[c] = <<>> THEN c \in dead ELSE Head(up[c]) = ClientIV

\* The handshake: how far the two ends are.
StageInv(c) ==
    /\ cli[c].pc = "idle" => siv[c] = {} /\ up[c] = <<>> /\ ~Waiting(c) /\ acc # c
    /\ cli[c].pc = "recviv" => cli[c].iv = {"client"}
    /\ cli[c].pc \in {"wait", "up"} => cli[c].iv = Both
    /\ cli[c].pc = "up" => cred[c] = "good" /\ siv[c] = Both
    /\ Waiting(c) => siv[c] = {}
    /\ acc = c => siv[c] = {"server"}
    /\ conn = c => siv[c] = Both

\* A goroutine, and the connection that it handles.
GoInv(g) ==
    /\ go[g].pc # "none" => siv[g] = Both /\ conn # NoConn
    /\ go[g].pc \in {"auth", "authed", "loop"} =>
          go[g].handles \in Conns /\ siv[go[g].handles] = Both
    /\ Past(g) => /\ cred[go[g].handles] = "good"
                  /\ up[go[g].handles] \in Seq({ClientIV})
                  /\ cli[go[g].handles].pc \notin {"idle", "recviv"}
    /\ g \in pool => go[g].pc = "loop"

\* No two goroutines have authenticated the client of one connection.
Alone == \A g, h \in Conns :
            Past(g) /\ Past(h) /\ go[g].handles = go[h].handles => g = h

\* The inductive invariant.
IInv ==
    /\ TypeInv
    /\ \A c \in Conns : MsgInv(c) /\ StageInv(c) /\ GoInv(c)
    /\ pool \subseteq Conns
    /\ Alone
-----------------------------------------------------------------------------
\* The three IVs that the ends of a connection may have are different ones.
LEMMA IVFacts ==
  /\ {"client"} # Both /\ {"server"} # Both /\ {} # Both
  /\ {"client"} # {"server"} /\ {"server"} # {}
  /\ XOR({"client"}, {"server"}) = Both
  /\ XOR({"server"}, {"client"}) = Both
  /\ {"client"} \in IV /\ {"server"} \in IV /\ {} \in IV /\ Both \in IV
BY DEF Both, XOR, IV

\* Taking the first message off a queue, and putting one on it.
LEMMA TailIn ==
  ASSUME NEW S, NEW q \in Seq(S), q # <<>>
  PROVE  /\ Head(q) \in S /\ Tail(q) \in Seq(S)
         /\ OneAuth(q) => OneAuth(Tail(q))
<1>1. /\ Head(q) \in S /\ Tail(q) \in Seq(S)
      /\ Len(Tail(q)) = Len(q) - 1
      /\ \A i \in 1 .. Len(Tail(q)) : Tail(q)[i] = q[i + 1]
  BY HeadTailProperties
<1>2. Len(q) \in Nat /\ Len(Tail(q)) \in Nat
  BY <1>1, LenProperties
<1>3. ASSUME OneAuth(q), NEW i \in 1 .. Len(Tail(q)), NEW j \in 1 .. Len(Tail(q)),
             Tail(q)[i].type = "AUTH", Tail(q)[j].type = "AUTH"
      PROVE  i = j
  <2>1. i + 1 \in 1 .. Len(q) /\ j + 1 \in 1 .. Len(q)
    BY <1>1, <1>2
  <2>2. q[i + 1].type = "AUTH" /\ q[j + 1].type = "AUTH"
    BY <1>1, <1>3
  <2>3. i + 1 = j + 1
    BY <2>1, <2>2, <1>3 DEF OneAuth
  <2> QED BY <2>3
<1> QED BY <1>1, <1>3 DEF OneAuth

LEMMA SentIn ==
  ASSUME NEW S, NEW q \in Seq(S), NEW m \in S, NEW c
  PROVE  Sent(c, q, m) \in Seq(S)
<1>1. Append(q, m) \in Seq(S)
  BY AppendProperties
<1> QED BY <1>1 DEF Sent

\* What is at the head of a queue stays there.
LEMMA SentBehind ==
  ASSUME NEW S, NEW q \in Seq(S), NEW m \in S, NEW c, q # <<>>
  PROVE  Sent(c, q, m) # <<>> /\ Head(Sent(c, q, m)) = Head(q)
<1>1. Append(q, m) \in Seq(S) /\ Append(q, m) # <<>>
  BY AppendProperties
<1>2. Head(Append(q, m)) = IF q = <<>> THEN m ELSE Head(q)
  BY HeadTailAppend
<1> QED BY <1>1, <1>2 DEF Sent

\* What is put on an empty queue is its head.
LEMMA SentFirst ==
  ASSUME NEW m, NEW c
  PROVE  c \notin dead => Sent(c, <<>>, m) # <<>> /\ Head(Sent(c, <<>>, m)) = m
BY DEF Sent

\* A queue of IVs has no AUTH frame; with one put on it, it has one.
LEMMA NoAuth ==
  ASSUME NEW q \in Seq({ClientIV})
  PROVE  /\ \A i \in 1 .. Len(q) : q[i].type # "AUTH"
         /\ OneAuth(q)
         /\ \A m, c : OneAuth(Sent(c, q, m))
<1>1. \A i \in 1 .. Len(q) : q[i].type # "AUTH"
  BY ElementOfSeq DEF ClientIV, IVMsg
<1>2. OneAuth(q)
  BY <1>1 DEF OneAuth
<1>3. ASSUME NEW m PROVE OneAuth(Append(q, m))
  <2>1. q \in Seq({ClientIV, m})
    BY SeqMonotonic
  <2>2. /\ Len(Append(q, m)) = Len(q) + 1
        /\ \A i \in 1 .. Len(q) : Append(q, m)[i] = q[i]
    BY <2>1, AppendProperties
  <2>3. Len(q) \in Nat
    BY LenProperties
  <2>4. \A i \in 1 .. Len(Append(q, m)) :
           Append(q, m)[i].type = "AUTH" => i = Len(q) + 1
    BY <1>1, <2>2, <2>3
  <2> QED BY <2>4 DEF OneAuth
<1> QED BY <1>1, <1>2, <1>3 DEF Sent

\* AuthConn can read nothing but the AUTH frame, of a client that has the key;
\* it is gone then.
LEMMA AuthFrame ==
  ASSUME TypeInv, NEW c \in Conns, MsgInv(c), siv[c] = Both,
         up[c] # <<>>, Readable(Head(up[c]), siv[c], TRUE)
  PROVE  /\ cred[c] # "key"
         /\ up[c] \notin Seq({ClientIV})
         /\ Tail(up[c]) \in Seq({ClientIV})
         /\ cli[c].pc \notin {"idle", "recviv"}
<1> DEFINE q == up[c]
<1>0. q \in Seq(UpMsgs(c)) /\ OneAuth(q)
  BY DEF MsgInv
<1>1. Head(q) \in UpMsgs(c) /\ Tail(q) \in Seq(UpMsgs(c))
  BY <1>0, TailIn
<1>2. Head(q) # ClientIV
  BY IVFacts DEF Readable, ClientIV, IVMsg
<1>3. Head(q) = AuthMsg(c)
  BY <1>1, <1>2 DEF UpMsgs
<1>4. cred[c] # "key"
  <2>1. AuthMsg(c).key = TRUE
    BY <1>3, Zenon DEF Readable
  <2>2. AuthMsg(c).key = (cred[c] # "key")
    BY DEF AuthMsg, ClientMsg
  <2> QED BY <2>1, <2>2, Zenon
<1>5. q \notin Seq({ClientIV})
  BY <1>2, TailIn
<1>6. Tail(q) \in Seq({ClientIV})
  <2>1. /\ Len(q) \in Nat \ {0} /\ Head(q) = q[1]
        /\ Len(Tail(q)) \in Nat /\ Len(Tail(q)) = Len(q) - 1
        /\ \A i \in 1 .. Len(Tail(q)) : Tail(q)[i] = q[i + 1]
        /\ \A i \in 1 .. Len(Tail(q)) : Tail(q)[i] \in UpMsgs(c)
    BY <1>0, <1>1, HeadTailProperties, EmptySeq, LenProperties, ElementOfSeq
  <2>2. q[1].type = "AUTH"
    BY <2>1, <1>3 DEF AuthMsg, ClientMsg
  <2>3. ASSUME NEW i \in 1 .. Len(Tail(q)) PROVE Tail(q)[i] = ClientIV
    <3>1. i + 1 \in 1 .. Len(q) /\ 1 \in 1 .. Len(q) /\ i + 1 # 1
      BY <2>1
    <3>2. q[i + 1].type # "AUTH"
      BY <3>1, <2>2, <1>0 DEF OneAuth
    <3>3. Tail(q)[i] # AuthMsg(c)
      BY <3>2, <2>1 DEF AuthMsg, ClientMsg
    <3> QED BY <3>3, <2>1 DEF UpMsgs
  <2> HIDE DEF q
  <2> DEFINE t == Tail(q)
  <2>4. t \in [1 .. Len(t) -> UpMsgs(c)] /\ Len(t) \in Nat
    BY <1>1, LenProperties
  <2>5. \A i \in 1 .. Len(t) : t[i] = ClientIV
    BY <2>3
  <2> HIDE DEF t
  <2>6. t \in [1 .. Len(t) -> {ClientIV}]
    BY <2>4, <2>5
  <2>7. t \in Seq({ClientIV})
    BY <2>4, <2>6, SeqDef
  <2> QED BY <2>7 DEF t
<1> QED BY <1>4, <1>5, <1>6 DEF MsgInv
-----------------------------------------------------------------------------
\* What a step of a client or of the accept loop must leave alone for the
\* goroutines: it moves the handshake forward and sends no second AUTH frame.
LEMMA GoFrame ==
  ASSUME IInv, UNCHANGED <<go, pool, cred>>, conn' = conn \/ conn' \in Conns,
         \A c \in Conns : siv[c] = Both => siv'[c] = Both,
         \A c \in Conns : cli[c].pc \notin {"idle", "recviv"} =>
            /\ cli'[c].pc \notin {"idle", "recviv"}
            /\ up[c] \in Seq({ClientIV}) => up'[c] \in Seq({ClientIV})
  PROVE  (\A g \in Conns : GoInv(g)') /\ pool' \subseteq Conns /\ Alone'
<1>1. ASSUME NEW g \in Conns PROVE GoInv(g)'
  <2>1. GoInv(g)
    BY DEF IInv
  <2>2. go[g].pc # "none" => siv'[g] = Both /\ conn' # NoConn
    BY <2>1, SessionAssumption DEF GoInv
  <2>3. go[g].pc \in {"auth", "authed", "loop"} =>
           go[g].handles \in Conns /\ siv'[go[g].handles] = Both
    BY <2>1 DEF GoInv
  <2>4. Past(g) => /\ cred[go[g].handles] = "good"
                   /\ up'[go[g].handles] \in Seq({ClientIV})
                   /\ cli'[go[g].handles].pc \notin {"idle", "recviv"}
    BY <2>1, <2>3 DEF GoInv, Past
  <2> QED BY <2>1, <2>2, <2>3, <2>4 DEF GoInv, Past
<1>2. Alone'
  BY DEF IInv, Alone, Past
<1> QED BY <1>1, <1>2 DEF IInv

\* What a step of the goroutines that leaves the messages alone keeps.
LEMMA ConnFrame ==
  ASSUME IInv, UNCHANGED <<cli, cred, up, down, siv, acc, backlog, conn>>,
         dead \subseteq dead',
         go' \in [Conns -> GoRec]
  PROVE  TypeInv' /\ \A c \in Conns : MsgInv(c)' /\ StageInv(c)'
<1>1. TypeInv'
  BY DEF IInv, TypeInv
<1>2. ASSUME NEW c \in Conns PROVE MsgInv(c)'
  <2>1. MsgInv(c)
    BY DEF IInv
  <2>2. UpMsgs(c)' = UpMsgs(c) /\ DownMsgs(c)' = DownMsgs(c) /\ Waiting(c)' = Waiting(c)
    BY DEF UpMsgs, DownMsgs, AuthMsg, ClientMsg, ServerMsg, Waiting
  <2> QED BY <2>1, <2>2 DEF MsgInv
<1>3. ASSUME NEW c \in Conns PROVE StageInv(c)'
  BY DEF IInv, StageInv, Waiting
<1> QED BY <1>1, <1>2, <1>3

\* A step of goroutine g.
LEMMA GoSet ==
  ASSUME go \in [Conns -> GoRec], NEW g \in Conns, NEW r \in GoRec,
         go' = [go EXCEPT ![g] = r]
  PROVE  /\ go' \in [Conns -> GoRec] /\ go'[g] = r
         /\ \A h \in Conns \ {g} : go'[h] = go[h]
OBVIOUS

\* A connection whose ends, messages and place in the accept loop a step leaves
\* alone.
LEMMA OtherConn ==
  ASSUME IInv, NEW c \in Conns, cli'[c] = cli[c], up'[c] = up[c], down'[c] = down[c],
         siv'[c] = siv[c], cred'[c] = cred[c],
         Waiting(c)' => Waiting(c), acc' = c => acc = c, conn' = c => conn = c,
         dead \subseteq dead'
  PROVE  MsgInv(c)' /\ StageInv(c)'
<1>1. MsgInv(c) /\ StageInv(c)
  BY DEF IInv
<1>2. UpMsgs(c)' = UpMsgs(c) /\ DownMsgs(c)' = DownMsgs(c)
  BY DEF UpMsgs, DownMsgs, AuthMsg, ClientMsg, ServerMsg
<1>3. MsgInv(c)'
  BY <1>1, <1>2 DEF MsgInv
<1> QED BY <1>1, <1>3 DEF StageInv
-----------------------------------------------------------------------------
(* The steps of the client. *)

\* A connection that is put on the backlog.
LEMMA Backlogged ==
  ASSUME TypeInv, NEW c \in Conns, ~Waiting(c), backlog' = Append(backlog, c)
  PROVE  /\ backlog' \in Seq(Conns)
         /\ \A i, j \in 1 .. Len(backlog') : backlog'[i] = backlog'[j] => i = j
         /\ \A d : Waiting(d)' <=> Waiting(d) \/ d = c
<1>1. /\ backlog \in Seq(Conns)
      /\ \A i, j \in 1 .. Len(backlog) : backlog[i] = backlog[j] => i = j
  BY DEF TypeInv
<1>2. Len(backlog) \in Nat
  BY <1>1, LenProperties
<1>3. /\ backlog' \in Seq(Conns)
      /\ Len(backlog') = Len(backlog) + 1
      /\ \A i \in 1 .. Len(backlog) : backlog'[i] = backlog[i]
      /\ backlog'[Len(backlog) + 1] = c
  BY <1>1, AppendProperties
<1>4. \A i \in 1 .. Len(backlog') : i \in 1 .. Len(backlog) \/ i = Len(backlog) + 1
  BY <1>2, <1>3
<1>5. \A i \in 1 .. Len(backlog) : backlog[i] # c
  BY DEF Waiting
<1>6. \A i, j \in 1 .. Len(backlog') : backlog'[i] = backlog'[j] => i = j
  BY <1>1, <1>3, <1>4, <1>5
<1>7. ASSUME NEW d PROVE Waiting(d)' <=> Waiting(d) \/ d = c
  <2>1. Len(backlog) + 1 \in 1 .. Len(backlog')
        /\ \A i \in 1 .. Len(backlog) : i \in 1 .. Len(backlog')
    BY <1>2, <1>3
  <2> QED BY <1>3, <1>4, <2>1 DEF Waiting
<1> QED BY <1>3, <1>6, <1>7

\* Create gives up.
LEMMA FailsIInv ==
  ASSUME IInv, NEW c \in Conns, ClientFails(c), UNCHANGED <<cred, up>>,
         UNCHANGED <<dead, backlog, acc, siv, conn, go, pool>>,
         \/ down' = down
         \/ down[c] # <<>> /\ down' = [down EXCEPT ![c] = Tail(@)]
  PROVE  IInv'
<1>0. TypeInv /\ MsgInv(c) /\ StageInv(c)
  BY DEF IInv
<1>1. /\ cli'[c] = [pc |-> "failed", iv |-> {}]
      /\ \A d \in Conns \ {c} : cli'[d] = cli[d] /\ down'[d] = down[d]
      /\ DOMAIN down' = Conns
      /\ cli' \in [Conns -> CliRec]
  BY <1>0, IVFacts DEF TypeInv, ClientFails, CliRec
<1>2. TypeInv'
  BY <1>0, <1>1 DEF TypeInv
<1>3. down'[c] \in Seq(DownMsgs(c))
  <2>1. down[c] \in Seq(DownMsgs(c)) /\ DOMAIN down = Conns
    BY <1>0 DEF MsgInv, TypeInv
  <2>2. CASE down' = down
    BY <2>1, <2>2
  <2>3. CASE down[c] # <<>> /\ down' = [down EXCEPT ![c] = Tail(@)]
    <3>1. down'[c] = Tail(down[c])
      BY <2>1, <2>3
    <3> QED BY <2>1, <2>3, <3>1, TailIn
  <2> QED BY <2>2, <2>3
<1>4. UpMsgs(c)' = UpMsgs(c) /\ DownMsgs(c)' = DownMsgs(c) /\ Waiting(c)' = Waiting(c)
  BY DEF UpMsgs, DownMsgs, AuthMsg, ClientMsg, ServerMsg, Waiting
<1>5. MsgInv(c)' /\ StageInv(c)'
  <2>1. MsgInv(c)'
    BY <1>0, <1>1, <1>3, <1>4 DEF MsgInv
  <2>2. StageInv(c)'
    BY <1>0, <1>1, <1>4 DEF StageInv
  <2> QED BY <2>1, <2>2
<1>6. ASSUME NEW d \in Conns, d # c PROVE MsgInv(d)' /\ StageInv(d)'
  BY <1>1, <1>6, OtherConn DEF Waiting
<1>7. (\A g \in Conns : GoInv(g)') /\ pool' \subseteq Conns /\ Alone'
  <2>1. \A d \in Conns : cli[d].pc \notin {"idle", "recviv"} =>
                             cli'[d].pc \notin {"idle", "recviv"}
    BY <1>1
  <2>2. \A d \in Conns : siv'[d] = siv[d] /\ up'[d] = up[d]
    OBVIOUS
  <2> QED BY <2>1, <2>2, GoFrame
<1>8. \A d \in Conns : MsgInv(d)' /\ StageInv(d)'
  BY <1>5, <1>6
<1> QED BY <1>2, <1>7, <1>8 DEF IInv

LEMMA ConnectIInv == ASSUME IInv, NEW c \in Conns, Connect(c) PROVE IInv'
<1>0. TypeInv /\ MsgInv(c) /\ StageInv(c)
  BY DEF IInv
<1>1. CASE ClientFails(c) /\ UNCHANGED <<copen, sopen, backlog, up>>
  BY <1>1, FailsIInv DEF Connect
<1>2. CASE /\ cli' = [cli EXCEPT ![c] = [pc |-> "recviv", iv |-> {"client"}]]
           /\ backlog' = Append(backlog, c)
           /\ up' = [up EXCEPT ![c] = Sent(c, @, IVMsg({"client"}))]
  <2>0. /\ cli[c].pc = "idle"
        /\ UNCHANGED <<cred, down, dead, acc, siv, conn, go, pool>>
    BY DEF Connect
  <2>1. siv[c] = {} /\ up[c] = <<>> /\ ~Waiting(c) /\ acc # c
    BY <1>0, <2>0 DEF StageInv
  <2>2. /\ cli'[c].pc = "recviv" /\ cli'[c].iv = {"client"}
        /\ up'[c] = Sent(c, <<>>, ClientIV)
        /\ \A d \in Conns \ {c} : cli'[d] = cli[d] /\ up'[d] = up[d]
        /\ DOMAIN up' = Conns
        /\ cli' \in [Conns -> CliRec]
    BY <1>0, <1>2, <2>1, IVFacts DEF TypeInv, ClientIV, CliRec
  <2>3. /\ backlog' \in Seq(Conns)
        /\ \A i, j \in 1 .. Len(backlog') : backlog'[i] = backlog'[j] => i = j
        /\ \A d : Waiting(d)' <=> Waiting(d) \/ d = c
    BY <1>0, <1>2, <2>1, Backlogged
  <2>4. TypeInv'
    BY <1>0, <2>0, <2>2, <2>3 DEF TypeInv
  <2>5. /\ up'[c] \in Seq({ClientIV})
        /\ IF up'[c] = <<>> THEN c \in dead ELSE Head(up'[c]) = ClientIV
    <3> DEFINE q == up[c]
               m == ClientIV
    <3>1. q \in Seq({m}) /\ q = <<>>
      BY <2>1
    <3>2. up'[c] = Sent(c, q, m)
      BY <2>1, <2>2
    <3>3. m = ClientIV
      OBVIOUS
    <3> HIDE DEF q, m
    <3>4. m \in {m}
      OBVIOUS
    <3>5. Sent(c, q, m) \in Seq({m})
      BY <3>1, <3>4, SentIn
    <3>6. c \in dead \/ (Sent(c, q, m) # <<>> /\ Head(Sent(c, q, m)) = m)
      BY <3>1, SentFirst
    <3> QED BY <3>2, <3>3, <3>5, <3>6
  <2>6. up'[c] \in Seq(UpMsgs(c)) /\ OneAuth(up'[c])
    BY <2>5, SeqMonotonic, NoAuth DEF UpMsgs
  <2>7. UpMsgs(c)' = UpMsgs(c) /\ DownMsgs(c)' = DownMsgs(c)
    BY <2>0 DEF UpMsgs, DownMsgs, AuthMsg, ClientMsg, ServerMsg
  <2>8. MsgInv(c)'
    BY <1>0, <2>0, <2>5, <2>6, <2>7 DEF MsgInv
  <2>9. StageInv(c)'
    BY <1>0, <2>0, <2>1, <2>2, IVFacts DEF StageInv
  <2>10. ASSUME NEW d \in Conns, d # c PROVE MsgInv(d)' /\ StageInv(d)'
    BY <2>0, <2>2, <2>3, <2>10, OtherConn
  <2>11. (\A g \in Conns : GoInv(g)') /\ pool' \subseteq Conns /\ Alone'
    BY <2>0, <2>2, GoFrame
  <2> QED BY <2>4, <2>8, <2>9, <2>10, <2>11 DEF IInv
<1> QED BY <1>1, <1>2 DEF Connect

LEMMA SendAuthIInv == ASSUME IInv, NEW c \in Conns, SendAuth(c) PROVE IInv'
<1>0. TypeInv /\ MsgInv(c) /\ StageInv(c)
  BY DEF IInv
<1>1. /\ cli[c].pc = "recviv" /\ down[c] # <<>>
      /\ UNCHANGED <<cred, dead, backlog, acc, siv, conn, go, pool>>
  BY DEF SendAuth, serverVars
<1>2. /\ cli[c].iv = {"client"}
      /\ up[c] \in Seq({ClientIV}) /\ down[c] \in Seq({ServerIV})
  BY <1>0, <1>1 DEF MsgInv, StageInv
<1>3. Head(down[c]) = ServerIV /\ Tail(down[c]) \in Seq({ServerIV})
  BY <1>1, <1>2, TailIn
<1>4. XOR(cli[c].iv, Head(down[c]).iv) = Both
  <2>1. Head(down[c]).iv = {"server"}
    BY <1>3 DEF ServerIV, IVMsg
  <2> QED BY <2>1, <1>2, IVFacts
<1>5. /\ cli'[c].pc = "wait" /\ cli'[c].iv = Both
      /\ up'[c] = Sent(c, up[c], AuthMsg(c))
      /\ down'[c] = Tail(down[c])
      /\ \A d \in Conns \ {c} : cli'[d] = cli[d] /\ up'[d] = up[d] /\ down'[d] = down[d]
      /\ DOMAIN up' = Conns /\ DOMAIN down' = Conns
      /\ cli' \in [Conns -> CliRec]
  BY <1>0, <1>4, IVFacts DEF SendAuth, TypeInv, AuthMsg, CliRec
<1>6. TypeInv'
  BY <1>0, <1>1, <1>5 DEF TypeInv
<1>7. UpMsgs(c)' = UpMsgs(c) /\ DownMsgs(c)' = DownMsgs(c) /\ Waiting(c)' = Waiting(c)
  BY <1>1 DEF UpMsgs, DownMsgs, AuthMsg, ClientMsg, ServerMsg, Waiting
<1>8. MsgInv(c)'
  <2>1. up'[c] \in Seq(UpMsgs(c)) /\ OneAuth(up'[c])
    <3>1. up[c] \in Seq(UpMsgs(c)) /\ AuthMsg(c) \in UpMsgs(c)
      BY <1>0 DEF MsgInv, UpMsgs
    <3>2. Sent(c, up[c], AuthMsg(c)) \in Seq(UpMsgs(c))
      BY <3>1, SentIn
    <3>3. OneAuth(Sent(c, up[c], AuthMsg(c)))
      BY <1>2, NoAuth
    <3> QED BY <3>2, <3>3, <1>5
  <2>2. Waiting(c) \/ acc = c =>
           IF up'[c] = <<>> THEN c \in dead ELSE Head(up'[c]) = ClientIV
    <3>1. up[c] = <<>> => (Waiting(c) \/ acc = c => c \in dead)
      BY <1>0 DEF MsgInv
    <3>2. up[c] # <<>> => (Waiting(c) \/ acc = c => Head(up[c]) = ClientIV)
      BY <1>0 DEF MsgInv
    <3>3. up[c] \in Seq(UpMsgs(c)) /\ AuthMsg(c) \in UpMsgs(c)
      BY <1>0 DEF MsgInv, UpMsgs
    <3>4. CASE up[c] = <<>>
      <4>1. c \in dead => up'[c] = <<>>
        BY <3>4, <1>5 DEF Sent
      <4> QED BY <3>1, <3>4, <4>1
    <3>5. CASE up[c] # <<>>
      <4>1. up'[c] # <<>> /\ Head(up'[c]) = Head(up[c])
        BY <3>3, <3>5, <1>5, SentBehind
      <4> QED BY <3>2, <3>5, <4>1
    <3> QED BY <3>4, <3>5
  <2>3. down'[c] \in Seq(DownMsgs(c))
    <3>1. down'[c] \in Seq({ServerIV})
      BY <1>3, <1>5
    <3>2. {ServerIV} \subseteq DownMsgs(c)
      BY DEF DownMsgs
    <3> QED BY <3>1, <3>2, SeqMonotonic
  <2> QED BY <1>1, <1>5, <1>7, <2>1, <2>2, <2>3 DEF MsgInv
<1>9. StageInv(c)'
  BY <1>0, <1>1, <1>5, <1>7 DEF StageInv
<1>10. ASSUME NEW d \in Conns, d # c PROVE MsgInv(d)' /\ StageInv(d)'
  BY <1>1, <1>5, <1>10, OtherConn DEF Waiting
<1>11. (\A g \in Conns : GoInv(g)') /\ pool' \subseteq Conns /\ Alone'
  BY <1>1, <1>5, GoFrame
<1> QED BY <1>6, <1>8, <1>9, <1>10, <1>11 DEF IInv

LEMMA RecvResultIInv == ASSUME IInv, NEW c \in Conns, RecvResult(c) PROVE IInv'
<1> DEFINE m == Head(down[c])
<1>0. TypeInv /\ MsgInv(c) /\ StageInv(c)
  BY DEF IInv
<1>1. /\ cli[c].pc = "wait" /\ down[c] # <<>>
      /\ down' = [down EXCEPT ![c] = Tail(@)]
      /\ UNCHANGED <<cred, up, dead, backlog, acc, siv, conn, go, pool>>
  BY DEF RecvResult, serverVars
<1>2. CASE ClientFails(c)
  BY <1>1, <1>2, FailsIInv
<1>3. CASE m.type = "ERR_NONE" /\ cli' = [cli EXCEPT ![c].pc = "up"]
  <2>1. m \in DownMsgs(c) /\ Tail(down[c]) \in Seq(DownMsgs(c))
    BY <1>0, <1>1, TailIn DEF MsgInv
  <2>2. cred[c] = "good" /\ siv[c] = Both
    <3>1. m # ServerIV
      BY <1>3 DEF ServerIV, IVMsg
    <3> QED BY <2>1, <1>3, <3>1 DEF DownMsgs
  <2>3. /\ cli'[c].pc = "up" /\ cli'[c].iv = Both
        /\ down'[c] = Tail(down[c])
        /\ \A d \in Conns \ {c} : cli'[d] = cli[d] /\ down'[d] = down[d]
        /\ DOMAIN down' = Conns
        /\ cli' \in [Conns -> CliRec]
    BY <1>0, <1>1, <1>3 DEF TypeInv, StageInv, CliRec
  <2>4. TypeInv'
    <3>1. UNCHANGED <<cred, up, siv, acc, conn, go, backlog>>
      BY <1>1
    <3> QED BY <1>0, <2>3, <3>1 DEF TypeInv
  <2>5. UpMsgs(c)' = UpMsgs(c) /\ DownMsgs(c)' = DownMsgs(c) /\ Waiting(c)' = Waiting(c)
    BY <1>1 DEF UpMsgs, DownMsgs, AuthMsg, ClientMsg, ServerMsg, Waiting
  <2>6. MsgInv(c)'
    BY <1>0, <1>1, <2>1, <2>3, <2>5 DEF MsgInv
  <2>7. StageInv(c)'
    BY <1>0, <1>1, <2>2, <2>3, <2>5 DEF StageInv
  <2>8. ASSUME NEW d \in Conns, d # c PROVE MsgInv(d)' /\ StageInv(d)'
    BY <1>1, <2>3, <2>8, OtherConn DEF Waiting
  <2>9. (\A g \in Conns : GoInv(g)') /\ pool' \subseteq Conns /\ Alone'
    BY <1>1, <2>3, GoFrame
  <2> QED BY <2>4, <2>6, <2>7, <2>8, <2>9 DEF IInv
<1> QED BY <1>2, <1>3 DEF RecvResult
-----------------------------------------------------------------------------
(* The steps of the accept loop. *)

\* The first connection is taken off the backlog.
LEMMA Unbacklogged ==
  ASSUME TypeInv, backlog # <<>>, backlog' = Tail(backlog)
  PROVE  /\ backlog' \in Seq(Conns)
         /\ \A i, j \in 1 .. Len(backlog') : backlog'[i] = backlog'[j] => i = j
         /\ Head(backlog) \in Conns /\ Waiting(Head(backlog))
         /\ \A d : Waiting(d)' => Waiting(d) /\ d # Head(backlog)
<1>1. /\ backlog \in Seq(Conns)
      /\ \A i, j \in 1 .. Len(backlog) : backlog[i] = backlog[j] => i = j
  BY DEF TypeInv
<1>2. Len(backlog) \in Nat \ {0} /\ Head(backlog) = backlog[1]
  BY <1>1, EmptySeq
<1>3. /\ Head(backlog) \in Conns
      /\ backlog' \in Seq(Conns)
      /\ Len(backlog') = Len(backlog) - 1
      /\ \A i \in 1 .. Len(backlog') : backlog'[i] = backlog[i + 1]
  BY <1>1, HeadTailProperties
<1>4. \A i \in 1 .. Len(backlog') : i + 1 \in 1 .. Len(backlog) /\ i + 1 # 1
  BY <1>2, <1>3
<1>5. 1 \in 1 .. Len(backlog)
  BY <1>2
<1>6. ASSUME NEW i \in 1 .. Len(backlog'), NEW j \in 1 .. Len(backlog'),
             backlog'[i] = backlog'[j]
      PROVE  i = j
  <2>1. i + 1 = j + 1
    BY <1>1, <1>3, <1>4, <1>6
  <2> QED BY <2>1, <1>2, <1>3
<1>7. Waiting(Head(backlog))
  BY <1>2, <1>5 DEF Waiting
<1>8. ASSUME NEW d, Waiting(d)' PROVE Waiting(d) /\ d # Head(backlog)
  <2>1. PICK i \in 1 .. Len(backlog') : backlog'[i] = d
    BY <1>8 DEF Waiting
  <2>2. i + 1 \in 1 .. Len(backlog) /\ i + 1 # 1 /\ backlog[i + 1] = d
    BY <2>1, <1>3, <1>4
  <2>3. backlog[i + 1] # backlog[1]
    BY <2>2, <1>1, <1>5
  <2> QED BY <2>2, <2>3, <1>2 DEF Waiting
<1> QED BY <1>3, <1>6, <1>7, <1>8

LEMMA AcceptIInv == ASSUME IInv, Accept PROVE IInv'
<1>0. /\ TypeInv /\ acc = NoConn /\ backlog # <<>> /\ backlog' = Tail(backlog)
      /\ UNCHANGED <<cli, cred, up, dead, conn, go, pool>>
  BY DEF IInv, Accept, clientVars
<1>a. backlog' \in Seq(Conns) /\ Head(backlog) \in Conns
  BY <1>0, Unbacklogged
<1>b. PICK c \in Conns : c = Head(backlog)
  BY <1>a
<1>1. /\ backlog' \in Seq(Conns)
      /\ \A i, j \in 1 .. Len(backlog') : backlog'[i] = backlog'[j] => i = j
      /\ c \in Conns /\ Waiting(c)
      /\ \A d : Waiting(d)' => Waiting(d) /\ d # c
  BY <1>0, <1>b, Unbacklogged
<1>2. MsgInv(c) /\ StageInv(c)
  BY <1>1 DEF IInv
<1>3. /\ siv[c] = {} /\ siv \in [Conns -> {{}, {"server"}, Both}] /\ cli[c].pc # "idle"
      /\ DOMAIN down = Conns
  BY <1>0, <1>1, <1>2 DEF StageInv, TypeInv
<1>4. CASE UNCHANGED <<acc, siv, down>>
  <2>1. TypeInv'
    BY <1>0, <1>1, <1>4 DEF TypeInv
  <2>2. ASSUME NEW d \in Conns PROVE MsgInv(d)' /\ StageInv(d)'
    BY <1>0, <1>1, <1>4, OtherConn
  <2>3. (\A g \in Conns : GoInv(g)') /\ pool' \subseteq Conns /\ Alone'
    BY <1>0, <1>4, GoFrame
  <2> QED BY <2>1, <2>2, <2>3 DEF IInv
<1>5. CASE /\ acc' = c
           /\ siv' = [siv EXCEPT ![c] = {"server"}]
           /\ down' = [down EXCEPT ![c] = Sent(c, @, IVMsg({"server"}))]
  <2>0. /\ siv' \in [Conns -> {{}, {"server"}, Both}] /\ siv'[c] = {"server"}
        /\ DOMAIN down' = Conns /\ down'[c] = Sent(c, down[c], ServerIV)
        /\ \A d \in Conns \ {c} : siv'[d] = siv[d] /\ down'[d] = down[d]
    BY <1>1, <1>3, <1>5 DEF ServerIV
  <2>1. TypeInv'
    BY <1>0, <1>1, <1>5, <2>0 DEF TypeInv
  <2>2. DownMsgs(c) = {ServerIV} /\ DownMsgs(c)' = {ServerIV}
    BY <1>3, <2>0, IVFacts DEF DownMsgs
  <2>3. down'[c] \in Seq({ServerIV})
    <3>1. down[c] \in Seq({ServerIV}) /\ ServerIV \in {ServerIV}
      BY <1>2, <2>2 DEF MsgInv
    <3>2. Sent(c, down[c], ServerIV) \in Seq({ServerIV})
      BY <3>1, SentIn
    <3> QED BY <2>0, <3>2
  <2>4. UpMsgs(c)' = UpMsgs(c)
    BY <1>0 DEF UpMsgs, AuthMsg, ClientMsg
  <2>5. MsgInv(c)'
    BY <1>0, <1>1, <1>2, <2>2, <2>3, <2>4 DEF MsgInv
  <2>6. StageInv(c)'
    BY <1>0, <1>1, <1>2, <1>3, <2>0, IVFacts DEF StageInv
  <2>7. ASSUME NEW d \in Conns, d # c PROVE MsgInv(d)' /\ StageInv(d)'
    BY <1>0, <1>1, <1>5, <2>0, <2>7, OtherConn
  <2>8. \A d \in Conns : siv[d] = Both => siv'[d] = Both
    BY <1>3, <2>0, IVFacts
  <2>9. (\A g \in Conns : GoInv(g)') /\ pool' \subseteq Conns /\ Alone'
    BY <1>0, <2>8, GoFrame
  <2> QED BY <2>1, <2>5, <2>6, <2>7, <2>9 DEF IInv
<1> QED BY <1>4, <1>5, <1>b DEF Accept

LEMMA AcceptFailsIInv == ASSUME IInv, AcceptFails PROVE IInv'
<1>0. /\ acc' = NoConn
      /\ UNCHANGED <<cli, cred, up, down, dead, backlog, siv, conn, go, pool>>
  BY DEF AcceptFails, clientVars
<1>1. TypeInv'
  BY <1>0 DEF IInv, TypeInv
<1>2. ASSUME NEW d \in Conns PROVE MsgInv(d)' /\ StageInv(d)'
  BY <1>0, SessionAssumption, OtherConn DEF Waiting
<1>3. (\A g \in Conns : GoInv(g)') /\ pool' \subseteq Conns /\ Alone'
  BY <1>0, GoFrame
<1> QED BY <1>1, <1>2, <1>3 DEF IInv

LEMMA AcceptReturnsIInv == ASSUME IInv, AcceptReturns PROVE IInv'
<1>a. TypeInv /\ acc # NoConn
  BY DEF IInv, AcceptReturns
<1>b. PICK c \in Conns : c = acc
  BY <1>a DEF TypeInv
<1>0. /\ TypeInv /\ c = acc /\ c # NoConn /\ up[c] # <<>>
      /\ siv' = [siv EXCEPT ![c] = XOR(@, Head(up[c]).iv)]
      /\ up' = [up EXCEPT ![c] = Tail(@)]
      /\ conn' = c /\ acc' = NoConn
      /\ go' = [go EXCEPT ![c].pc = "start"]
      /\ UNCHANGED <<cli, cred, down, dead, backlog, pool>>
  BY <1>a, <1>b DEF AcceptReturns, clientVars
<1>1. c \in Conns
  OBVIOUS
<1>2. MsgInv(c) /\ StageInv(c) /\ GoInv(c)
  BY <1>1 DEF IInv
<1>3. /\ siv[c] = {"server"} /\ ~Waiting(c) /\ cli[c].pc # "idle"
      /\ Head(up[c]) = ClientIV
      /\ conn # c /\ go[c].pc = "none" /\ c \notin pool
  BY <1>0, <1>2, IVFacts DEF StageInv, MsgInv, GoInv
<1>4. /\ siv' \in [Conns -> {{}, {"server"}, Both}] /\ siv'[c] = Both
      /\ \A d \in Conns \ {c} : siv'[d] = siv[d]
  <2>1. Head(up[c]).iv = {"client"}
    BY <1>3 DEF ClientIV, IVMsg
  <2>2. XOR(siv[c], Head(up[c]).iv) = Both
    BY <1>3, <2>1, IVFacts
  <2> QED BY <1>0, <1>1, <2>2 DEF TypeInv
<1>5. /\ DOMAIN up' = Conns /\ up'[c] = Tail(up[c])
      /\ \A d \in Conns \ {c} : up'[d] = up[d]
  BY <1>0, <1>1 DEF TypeInv
<1>6. /\ go' \in [Conns -> GoRec]
      /\ go'[c].pc = "start"
      /\ \A g \in Conns \ {c} : go'[g] = go[g]
  <2> DEFINE r == [go[c] EXCEPT !.pc = "start"]
  <2>1. go \in [Conns -> GoRec] /\ go[c] \in GoRec
    BY <1>0, <1>1 DEF TypeInv
  <2>2. r \in GoRec /\ r.pc = "start"
    BY <2>1 DEF GoRec
  <2>3. go' = [go EXCEPT ![c] = r]
    BY <1>0
  <2> HIDE DEF r
  <2> QED BY <2>1, <2>2, <2>3, GoSet
<1>7. TypeInv'
  <2>1. acc' \in Conns \cup {NoConn} /\ conn' \in Conns \cup {NoConn}
    BY <1>0, <1>1 DEF TypeInv
  <2>2. UNCHANGED <<cli, cred, down, backlog>>
    BY <1>0
  <2>3. /\ cli' \in [Conns -> CliRec] /\ cred' \in [Conns -> Creds]
        /\ DOMAIN down' = Conns /\ backlog' \in Seq(Conns)
        /\ \A i, j \in 1 .. Len(backlog') : backlog'[i] = backlog'[j] => i = j
    BY <1>0, <2>2 DEF TypeInv
  <2> QED BY <1>4, <1>5, <1>6, <2>1, <2>3 DEF TypeInv
<1>8. UpMsgs(c)' = UpMsgs(c) /\ DownMsgs(c) \subseteq DownMsgs(c)' /\ Waiting(c)' = Waiting(c)
  <2>1. DownMsgs(c) = {ServerIV} /\ ServerIV \in DownMsgs(c)'
    BY <1>3, IVFacts DEF DownMsgs
  <2> QED BY <1>0, <2>1 DEF UpMsgs, AuthMsg, ClientMsg, Waiting
<1>9. MsgInv(c)'
  <2>1. up'[c] \in Seq(UpMsgs(c)) /\ OneAuth(up'[c])
    BY <1>0, <1>2, <1>5, TailIn DEF MsgInv
  <2>2. down[c] \in Seq(DownMsgs(c)')
    BY <1>2, <1>8, SeqMonotonic DEF MsgInv
  <2>3. cli[c].pc \in {"idle", "recviv"} =>
           up'[c] \in Seq({ClientIV}) /\ down[c] \in Seq({ServerIV})
    BY <1>0, <1>2, <1>5, TailIn DEF MsgInv
  <2>4. ~Waiting(c)' /\ acc' # c
    BY <1>0, <1>3, <1>8
  <2> QED BY <1>0, <1>8, <2>1, <2>2, <2>3, <2>4 DEF MsgInv
<1>10. StageInv(c)'
  <2>1. ~Waiting(c)' /\ acc' # c
    BY <1>0, <1>3, <1>8
  <2> QED BY <1>0, <1>2, <1>3, <1>4, <2>1 DEF StageInv
<1>11. ASSUME NEW d \in Conns, d # c PROVE MsgInv(d)' /\ StageInv(d)'
  BY <1>0, <1>4, <1>5, <1>11, SessionAssumption, OtherConn DEF Waiting
<1>12. ASSUME NEW g \in Conns PROVE GoInv(g)'
  <2>1. CASE g = c
    BY <2>1, <1>0, <1>3, <1>4, <1>6 DEF GoInv, Past
  <2>2. CASE g # c
    <3>1. GoInv(g) /\ go'[g] = go[g]
      BY <2>2, <1>6 DEF IInv
    <3>2. \A d \in Conns : siv[d] = Both => siv'[d] = Both
      BY <1>4
    <3>3. \A d \in Conns : up[d] \in Seq({ClientIV}) => up'[d] \in Seq({ClientIV})
      BY <1>0, <1>1, <1>5, TailIn
    <3>4. Past(g) => go[g].handles \in Conns
      BY <3>1 DEF GoInv, Past
    <3> QED BY <1>0, <3>1, <3>2, <3>3, <3>4 DEF GoInv, Past
  <2> QED BY <2>1, <2>2
<1>13. Alone'
  BY <1>6 DEF IInv, Alone, Past
<1> QED BY <1>0, <1>7, <1>9, <1>10, <1>11, <1>12, <1>13 DEF IInv
-----------------------------------------------------------------------------
(* The steps of the goroutines. *)

\* A step of goroutine g that takes nothing off a connection and after which it
\* has authenticated a client only if it had before.
LEMMA GoStep ==
  ASSUME IInv, UNCHANGED GoVars, NEW g \in Conns, NEW r \in GoRec,
         go' = [go EXCEPT ![g] = r],
         r.pc # "none" => go[g].pc # "none",
         r.pc \in {"authed", "loop"} => Past(g) /\ r.handles = go[g].handles,
         r.pc = "auth" => r.handles \in Conns /\ siv[r.handles] = Both,
         pool' \subseteq pool \cup {g}, g \in pool' => r.pc = "loop"
  PROVE  IInv'
<1>0. UNCHANGED <<cli, cred, up, down, siv, acc, backlog, conn, dead>>
  BY DEF GoVars, clientVars
<1>1. /\ go' \in [Conns -> GoRec] /\ go'[g] = r
      /\ \A h \in Conns \ {g} : go'[h] = go[h]
  <2>1. go \in [Conns -> GoRec]
    BY DEF IInv, TypeInv
  <2> QED BY <2>1, GoSet
<1>2. TypeInv' /\ \A c \in Conns : MsgInv(c)' /\ StageInv(c)'
  BY <1>0, <1>1, ConnFrame
<1>3. ASSUME NEW h \in Conns PROVE GoInv(h)'
  <2>1. GoInv(h)
    BY DEF IInv
  <2>2. CASE h # g
    BY <1>0, <1>1, <2>1, <2>2 DEF GoInv, Past
  <2>3. CASE h = g
    <3>1. go'[h] = r
      BY <1>1, <2>3
    <3>2. r.pc # "none" => siv'[h] = Both /\ conn' # NoConn
      BY <1>0, <2>1, <2>3 DEF GoInv
    <3>3. r.pc \in {"authed", "loop"} =>
             /\ r.handles \in Conns /\ siv'[r.handles] = Both
             /\ cred'[r.handles] = "good"
             /\ up'[r.handles] \in Seq({ClientIV})
             /\ cli'[r.handles].pc \notin {"idle", "recviv"}
      BY <1>0, <2>1, <2>3 DEF GoInv, Past
    <3>4. h \in pool' => r.pc = "loop"
      BY <2>3
    <3> QED BY <1>0, <3>1, <3>2, <3>3, <3>4 DEF GoInv, Past
  <2> QED BY <2>2, <2>3
<1>4. \A h \in Conns : Past(h)' => Past(h) /\ go'[h].handles = go[h].handles
  BY <1>1 DEF Past
<1>5. Alone'
  BY <1>4 DEF IInv, Alone
<1>6. pool' \subseteq Conns
  BY DEF IInv
<1> QED BY <1>2, <1>3, <1>5, <1>6 DEF IInv

LEMMA ServesIInv ==
  ASSUME IInv, NEW g \in Conns,
         \/ GoDefers(g) \/ GoHandles(g) \/ AuthFails(g)
         \/ ServerAuthTimeout(g) \/ Pools(g) \/ LoopEnds(g)
  PROVE  IInv'
<1>0. /\ TypeInv /\ GoInv(g) /\ go[g] \in GoRec
      /\ conn \in Conns \cup {NoConn}
      /\ \A c \in Conns : StageInv(c)
      /\ g \in pool => go[g].pc = "loop"
  BY DEF IInv, TypeInv, GoInv
<1>1. CASE GoDefers(g)
  <2> DEFINE r == [go[g] EXCEPT !.pc = "deferred", !.closes = conn]
  <2>1. r \in GoRec /\ r.pc = "deferred"
    BY <1>0 DEF GoRec
  <2>2. go' = [go EXCEPT ![g] = r] /\ go[g].pc = "start" /\ UNCHANGED <<GoVars, pool>>
    BY <1>1 DEF GoDefers
  <2> HIDE DEF r
  <2> QED BY <1>0, <2>1, <2>2, GoStep
<1>2. CASE GoHandles(g)
  <2> DEFINE r == [go[g] EXCEPT !.pc = "auth", !.handles = conn, !.timer = TRUE]
  <2>1. r \in GoRec /\ r.pc = "auth" /\ r.handles = conn
    BY <1>0 DEF GoRec
  <2>2. go' = [go EXCEPT ![g] = r] /\ go[g].pc = "deferred" /\ UNCHANGED <<GoVars, pool>>
    BY <1>2 DEF GoHandles
  <2>3. conn \in Conns
    BY <1>0, <2>2 DEF GoInv
  <2>4. siv[conn] = Both
    BY <1>0, <2>3 DEF StageInv
  <2> HIDE DEF r
  <2> QED BY <1>0, <2>1, <2>2, <2>3, <2>4, GoStep
<1>3. CASE AuthFails(g)
  <2> DEFINE r == [go[g] EXCEPT !.pc = "done", !.closes = NoConn]
  <2>1. r \in GoRec /\ r.pc = "done"
    BY <1>0 DEF GoRec
  <2>2. go' = [go EXCEPT ![g] = r] /\ go[g].pc = "auth" /\ UNCHANGED <<GoVars, pool>>
    BY <1>3 DEF AuthFails, GoExits
  <2> HIDE DEF r
  <2> QED BY <1>0, <2>1, <2>2, GoStep
<1>4. CASE ServerAuthTimeout(g)
  <2> DEFINE r == [go[g] EXCEPT !.timer = FALSE]
  <2>1. r \in GoRec /\ r.pc = go[g].pc /\ r.handles = go[g].handles
    BY <1>0 DEF GoRec
  <2>2. go' = [go EXCEPT ![g] = r] /\ UNCHANGED <<GoVars, pool>>
    BY <1>4 DEF ServerAuthTimeout
  <2>3. go[g].pc = "auth" => go[g].handles \in Conns /\ siv[go[g].handles] = Both
    BY <1>0 DEF GoInv
  <2> HIDE DEF r
  <2> QED BY <1>0, <2>1, <2>2, <2>3, GoStep DEF Past
<1>5. CASE Pools(g)
  <2> DEFINE r == [go[g] EXCEPT !.pc = "loop", !.timer = FALSE]
  <2>1. r \in GoRec /\ r.pc = "loop" /\ r.handles = go[g].handles
    BY <1>0 DEF GoRec
  <2>2. /\ go' = [go EXCEPT ![g] = r] /\ go[g].pc = "authed"
        /\ pool' = pool \cup {g} /\ UNCHANGED GoVars
    BY <1>5 DEF Pools
  <2> HIDE DEF r
  <2> QED BY <1>0, <2>1, <2>2, GoStep DEF Past
<1>6. CASE LoopEnds(g)
  <2> DEFINE r == [go[g] EXCEPT !.pc = "done", !.closes = NoConn]
  <2>1. r \in GoRec /\ r.pc = "done"
    BY <1>0 DEF GoRec
  <2>2. /\ go' = [go EXCEPT ![g] = r] /\ go[g].pc = "loop"
        /\ pool' = pool \ {g} /\ UNCHANGED GoVars
    BY <1>6 DEF LoopEnds, GoExits
  <2> HIDE DEF r
  <2> QED BY <1>0, <2>1, <2>2, GoStep
<1> QED BY <1>1, <1>2, <1>3, <1>4, <1>5, <1>6

LEMMA OnAuthIInv == ASSUME IInv, NEW g \in Conns, OnAuth(g) PROVE IInv'
<1>a. GoInv(g) /\ go[g].pc = "auth" /\ TypeInv
  BY DEF IInv, OnAuth
<1>b. PICK c \in Conns : c = go[g].handles
  BY <1>a DEF GoInv
<1>0. /\ siv[c] = Both /\ up[c] # <<>>
      /\ up' = [up EXCEPT ![c] = Tail(@)]
      /\ UNCHANGED <<cli, cred, dead, backlog, acc, siv, conn, pool>>
  BY <1>a, <1>b DEF GoInv, OnAuth, clientVars
<1>1. MsgInv(c) /\ StageInv(c) /\ go \in [Conns -> GoRec] /\ go[g] \in GoRec
  BY DEF IInv, TypeInv
<1>2. /\ DOMAIN up' = Conns /\ up'[c] = Tail(up[c])
      /\ \A d \in Conns \ {c} : up'[d] = up[d]
  BY <1>0, <1>a DEF TypeInv
<1>3. /\ ~Waiting(c) /\ acc # c /\ cli[c].pc # "idle"
  BY <1>0, <1>1, IVFacts DEF StageInv
<1>4. \A d \in Conns : up[d] \in Seq({ClientIV}) => up'[d] \in Seq({ClientIV})
  BY <1>0, <1>2, TailIn
\* Whatever the answer is, the connections are in order.
<1>5. ASSUME go' \in [Conns -> GoRec], NEW t \in {"ERR_NONE", "ERR_AUTH"},
             \/ down' = down
             \/ /\ down' = [down EXCEPT ![c] = Sent(c, @, ServerMsg(c, t))]
                /\ t = "ERR_NONE" => cred[c] = "good"
                /\ cli[c].pc # "recviv"
      PROVE  TypeInv' /\ \A d \in Conns : MsgInv(d)' /\ StageInv(d)'
  <2>1. DOMAIN down' = Conns /\ \A d \in Conns \ {c} : down'[d] = down[d]
    BY <1>a, <1>5 DEF TypeInv
  <2>2. TypeInv'
    BY <1>a, <1>0, <1>2, <1>5, <2>1 DEF TypeInv
  <2>3. /\ UpMsgs(c)' = UpMsgs(c) /\ DownMsgs(c)' = DownMsgs(c)
        /\ Waiting(c)' = Waiting(c)
    BY <1>0 DEF UpMsgs, DownMsgs, AuthMsg, ClientMsg, ServerMsg, Waiting
  <2>4. up'[c] \in Seq(UpMsgs(c)) /\ OneAuth(up'[c])
    BY <1>0, <1>1, <1>2, TailIn DEF MsgInv
  <2>5. down'[c] \in Seq(DownMsgs(c))
    <3>1. down[c] \in Seq(DownMsgs(c))
      BY <1>1 DEF MsgInv
    <3>2. CASE down' = down
      BY <3>1, <3>2
    <3>3. CASE /\ down' = [down EXCEPT ![c] = Sent(c, @, ServerMsg(c, t))]
               /\ t = "ERR_NONE" => cred[c] = "good"
      <4>1. ServerMsg(c, t) \in DownMsgs(c)
        BY <1>0, <3>3 DEF DownMsgs, ServerMsg
      <4>2. down'[c] = Sent(c, down[c], ServerMsg(c, t))
        BY <1>a, <3>3 DEF TypeInv
      <4> QED BY <3>1, <4>1, <4>2, SentIn
    <3> QED BY <1>5, <3>2, <3>3
  <2>6. cli[c].pc \in {"idle", "recviv"} =>
           up'[c] \in Seq({ClientIV}) /\ down'[c] \in Seq({ServerIV})
    BY <1>1, <1>3, <1>4, <1>5 DEF MsgInv
  <2>7. MsgInv(c)'
    BY <1>0, <1>3, <2>3, <2>4, <2>5, <2>6 DEF MsgInv
  <2>8. StageInv(c)'
    BY <1>0, <1>1, <1>3, <2>3 DEF StageInv
  <2>9. ASSUME NEW d \in Conns, d # c PROVE MsgInv(d)' /\ StageInv(d)'
    BY <1>0, <1>2, <2>1, <2>9, OtherConn DEF Waiting
  <2> QED BY <2>2, <2>7, <2>8, <2>9
\* So are the goroutines that do not move.
<1>6. ASSUME NEW h \in Conns, go'[h] = go[h] PROVE GoInv(h)'
  <2>1. GoInv(h)
    BY DEF IInv
  <2>2. Past(h) => go[h].handles \in Conns
    BY <2>1 DEF GoInv, Past
  <2> QED BY <1>0, <1>4, <1>6, <2>1, <2>2 DEF GoInv, Past
<1>7. CASE /\ Readable(Head(up[c]), siv[c], TRUE) /\ cred[c] # "password"
           /\ down' = [down EXCEPT ![c] = Sent(c, @, ServerMsg(c, "ERR_NONE"))]
           /\ go' = [go EXCEPT ![g].pc = "authed"]
  <2> DEFINE r == [go[g] EXCEPT !.pc = "authed"]
  <2>1. r \in GoRec /\ r.pc = "authed" /\ r.handles = c /\ go' = [go EXCEPT ![g] = r]
    BY <1>1, <1>7, <1>b DEF GoRec
  <2> HIDE DEF r
  <2>2. /\ go' \in [Conns -> GoRec] /\ go'[g] = r
        /\ \A h \in Conns \ {g} : go'[h] = go[h]
    BY <1>1, <2>1, GoSet
  <2>3. /\ cred[c] # "key" /\ up[c] \notin Seq({ClientIV})
        /\ Tail(up[c]) \in Seq({ClientIV})
        /\ cli[c].pc \notin {"idle", "recviv"}
    BY <1>a, <1>0, <1>1, <1>7, AuthFrame
  <2>4. cred[c] = "good"
    BY <1>a, <1>7, <2>3 DEF TypeInv, Creds
  <2>5. TypeInv' /\ \A d \in Conns : MsgInv(d)' /\ StageInv(d)'
    BY <1>5, <1>7, <2>2, <2>3, <2>4
  <2>6. GoInv(g)'
    <3>1. g \notin pool
      BY <1>a DEF GoInv
    <3> QED BY <1>a, <1>0, <1>2, <2>1, <2>2, <2>3, <2>4, <3>1 DEF GoInv, Past
  <2>7. \A h \in Conns : Past(h) => go[h].handles # c
    BY <2>3 DEF IInv, GoInv
  <2>8. Alone'
    BY <2>1, <2>2, <2>7 DEF IInv, Alone, Past
  <2> QED BY <1>0, <1>6, <2>2, <2>5, <2>6, <2>8 DEF IInv
<1>8. ASSUME GoExits(g, sopen) \/ UNCHANGED <<go, sopen>>,
             \/ down' = down
             \/ /\ down' = [down EXCEPT ![c] = Sent(c, @, ServerMsg(c, "ERR_AUTH"))]
                /\ cli[c].pc # "recviv"
      PROVE  IInv'
  <2> DEFINE r == [go[g] EXCEPT !.pc = "done", !.closes = NoConn]
  <2>1. r \in GoRec /\ r.pc = "done"
    BY <1>1 DEF GoRec
  <2>2. go' = go \/ go' = [go EXCEPT ![g] = r]
    BY <1>8 DEF GoExits
  <2> HIDE DEF r
  <2>3. /\ go' \in [Conns -> GoRec] /\ (go'[g] = r \/ go'[g] = go[g])
        /\ \A h \in Conns \ {g} : go'[h] = go[h]
    BY <1>1, <2>1, <2>2, GoSet
  <2>4. TypeInv' /\ \A d \in Conns : MsgInv(d)' /\ StageInv(d)'
    BY <1>5, <1>8, <2>3
  <2>5. go'[g] = r => GoInv(g)'
    <3>1. g \notin pool
      BY <1>a DEF GoInv
    <3> QED BY <1>a, <1>0, <2>1, <3>1 DEF GoInv, Past
  <2>6. \A h \in Conns : Past(h)' => Past(h) /\ go'[h] = go[h]
    BY <2>1, <2>3 DEF Past
  <2>7. Alone'
    BY <2>6 DEF IInv, Alone
  <2> QED BY <1>0, <1>6, <2>3, <2>4, <2>5, <2>7 DEF IInv
<1>9. CASE /\ Readable(Head(up[c]), siv[c], TRUE)
           /\ down' = [down EXCEPT ![c] = Sent(c, @, ServerMsg(c, "ERR_AUTH"))]
           /\ GoExits(g, sopen)
  <2>1. cli[c].pc # "recviv"
    BY <1>a, <1>0, <1>1, <1>9, AuthFrame
  <2> QED BY <1>8, <1>9, <2>1
<1>10. CASE (GoExits(g, sopen) \/ UNCHANGED <<go, sopen>>) /\ UNCHANGED down
  BY <1>8, <1>10
<1> QED BY <1>7, <1>9, <1>10, <1>b DEF OnAuth
-----------------------------------------------------------------------------
LEMMA InitIInv == Init => IInv
<1> SUFFICES ASSUME Init PROVE IInv
  OBVIOUS
<1>1. TypeInv
  <2>1. [pc |-> "idle", iv |-> {}] \in CliRec
    BY IVFacts DEF CliRec
  <2>2. [pc |-> "none", closes |-> NoConn, handles |-> NoConn, timer |-> FALSE] \in GoRec
    BY DEF GoRec
  <2>3. cli \in [Conns -> CliRec] /\ go \in [Conns -> GoRec]
    BY <2>1, <2>2 DEF Init
  <2>4. cred \in [Conns -> Creds] /\ DOMAIN up = Conns /\ DOMAIN down = Conns
    BY SessionAssumption DEF Init
  <2>5. siv \in [Conns -> {{}, {"server"}, Both}]
    BY DEF Init
  <2>6. backlog \in Seq(Conns) /\ 1 .. Len(backlog) = {}
    BY DEF Init
  <2>7. acc \in Conns \cup {NoConn} /\ conn \in Conns \cup {NoConn}
    BY DEF Init
  <2> QED BY <2>3, <2>4, <2>5, <2>6, <2>7 DEF TypeInv
<1>2. ASSUME NEW c \in Conns PROVE MsgInv(c) /\ StageInv(c) /\ GoInv(c)
  <2>1. ~Waiting(c)
    BY DEF Init, Waiting
  <2>2. MsgInv(c)
    BY <2>1, SessionAssumption DEF Init, MsgInv, OneAuth
  <2>3. StageInv(c)
    BY <2>1, SessionAssumption DEF Init, StageInv
  <2>4. GoInv(c)
    BY DEF Init, GoInv, Past
  <2> QED BY <2>2, <2>3, <2>4
<1>3. Alone /\ pool \subseteq Conns
  BY DEF Init, Alone, Past
<1> QED BY <1>1, <1>2, <1>3 DEF IInv

\* Every step keeps the invariant.
LEMMA StepIInv == IInv /\ [Next]_vars => IInv'
<1> SUFFICES ASSUME IInv, [Next]_vars PROVE IInv'
  OBVIOUS
<1>1. ASSUME NEW c \in Conns, Connect(c) PROVE IInv'
  BY <1>1, ConnectIInv
<1>2. ASSUME NEW c \in Conns, SendAuth(c) PROVE IInv'
  BY <1>2, SendAuthIInv
<1>3. ASSUME NEW c \in Conns,
             ClientRecvIVFails(c) \/ RecvResultFails(c) \/ ClientAuthTimeout(c)
      PROVE  IInv'
  <2>1. ClientFails(c) /\ UNCHANGED <<cred, up, down, serverVars>>
    BY <1>3 DEF ClientRecvIVFails, RecvResultFails, ClientAuthTimeout
  <2> QED BY <2>1, FailsIInv DEF serverVars
<1>4. ASSUME NEW c \in Conns, RecvResult(c) PROVE IInv'
  BY <1>4, RecvResultIInv
<1>5. ASSUME NEW c \in Conns, ClientCloses(c) \/ LossNoticed(c) PROVE IInv'
  <2>1. UNCHANGED <<cli, cred, up, down, dead, backlog, acc, siv, conn, go, pool>>
    BY <1>5 DEF ClientCloses, LossNoticed, serverVars
  <2>2. TypeInv' /\ \A d \in Conns : MsgInv(d)' /\ StageInv(d)'
    BY <2>1, ConnFrame DEF IInv, TypeInv
  <2>3. (\A g \in Conns : GoInv(g)') /\ pool' \subseteq Conns /\ Alone'
    BY <2>1, GoFrame
  <2> QED BY <2>2, <2>3 DEF IInv
<1>6. ASSUME NEW c \in Conns, LinkLost(c) PROVE IInv'
  <2>1. /\ dead' = dead \cup {c}
        /\ up' = [up EXCEPT ![c] = <<>>] /\ down' = [down EXCEPT ![c] = <<>>]
        /\ UNCHANGED <<cli, cred, backlog, acc, siv, conn, go, pool>>
        /\ TypeInv /\ MsgInv(c) /\ StageInv(c)
    BY <1>6 DEF LinkLost, clientVars, IInv
  <2>2. /\ DOMAIN up' = Conns /\ DOMAIN down' = Conns
        /\ up'[c] = <<>> /\ down'[c] = <<>>
        /\ \A d \in Conns \ {c} : up'[d] = up[d] /\ down'[d] = down[d]
    BY <2>1 DEF TypeInv
  <2>3. TypeInv'
    BY <2>1, <2>2 DEF TypeInv
  <2>4. UpMsgs(c)' = UpMsgs(c) /\ DownMsgs(c)' = DownMsgs(c) /\ Waiting(c)' = Waiting(c)
    BY <2>1 DEF UpMsgs, DownMsgs, AuthMsg, ClientMsg, ServerMsg, Waiting
  <2>5. \A S : <<>> \in Seq(S)
    OBVIOUS
  <2>6. OneAuth(<<>>)
    BY DEF OneAuth
  <2>7. MsgInv(c)' /\ StageInv(c)'
    BY <2>1, <2>2, <2>4, <2>5, <2>6 DEF MsgInv, StageInv
  <2>8. ASSUME NEW d \in Conns, d # c PROVE MsgInv(d)' /\ StageInv(d)'
    BY <2>1, <2>2, <2>8, OtherConn DEF Waiting
  <2>9. (\A g \in Conns : GoInv(g)') /\ pool' \subseteq Conns /\ Alone'
    BY <2>1, <2>2, <2>5, GoFrame
  <2> QED BY <2>3, <2>7, <2>8, <2>9 DEF IInv
<1>7. CASE Accepts
  BY <1>7, AcceptIInv, AcceptReturnsIInv, AcceptFailsIInv DEF Accepts
<1>8. ASSUME NEW g \in Conns, Serves(g) PROVE IInv'
  BY <1>8, ServesIInv, OnAuthIInv DEF Serves
<1>9. CASE UNCHANGED vars
  <2>1. UNCHANGED <<cli, cred, up, down, dead, backlog, acc, siv, conn, go, pool>>
    BY <1>9 DEF vars
  <2>2. TypeInv' /\ \A d \in Conns : MsgInv(d)' /\ StageInv(d)'
    BY <2>1, ConnFrame DEF IInv, TypeInv
  <2>3. (\A g \in Conns : GoInv(g)') /\ pool' \subseteq Conns /\ Alone'
    BY <2>1, GoFrame
  <2> QED BY <2>2, <2>3 DEF IInv
<1> QED
  BY <1>1, <1>2, <1>3, <1>4, <1>5, <1>6, <1>7, <1>8, <1>9 DEF Next, Creates, Finished

\* connpool.Server.Handle, AuthConn: for any number of connections, and although
\* goroutines of Serve may handle the same one, every tunnel in the server's
\* pool runs on a connection of a client that has the key and passed AuthPass,
\* and no two tunnels run on the same connection.
THEOREM PoolIsOwned == Spec => []PoolOwnsConnection
<1>1. IInv => PoolOwnsConnection
  BY DEF IInv, GoInv, Alone, Past, PoolOwnsConnection
<1> QED BY <1>1, InitIInv, StepIInv, PTL DEF Spec

\* DialerCreator.Create: a client that has a tunnel is one that the server
\* knows, and the two ends encipher with the same IV, whatever the interleaving
\* of the handshakes, timeouts and lost links.
THEOREM SessionsAgree == Spec => []SessionAgreed
<1>1. IInv => SessionAgreed
  BY DEF IInv, StageInv, SessionAgreed
<1> QED BY <1>1, InitIInv, StepIInv, PTL DEF Spec
=============================================================================
