------------------------------ MODULE MCTunnel ------------------------------
(***************************************************************************)
(* Tunnel for TLC.  The configurations Tunnel*.cfg give the constants.     *)
(* This module adds the sums of bytes over queues and frames that relate a *)
(* stream to module Flow.                                                  *)
(***************************************************************************)
EXTENDS Tunnel, SequencesExt

\* The dials are interchangeable.
DialSymmetry == Permutations(Dials)

SumSeq(s) == FoldLeft(LAMBDA sum, n : sum + n, 0, s)

\* Bytes in the frames of type t for Conn c that are on the wire.
OnWire(t, c) == FoldLeft(LAMBDA sum, f : IF f.type = t /\ f.id = c[2] THEN sum + f.arg ELSE sum,
                         0, wire[c[1]])

\* The direction of Conn c is the one in which c reads and its twin writes.
Windows == INSTANCE Flow WITH
    Dirs <- Conn,
    window <- [c \in Conn |-> conn[Twin(c)].window],
    flight <- [c \in Conn |-> OnWire("DATA", c)],
    buffer <- [c \in Conn |-> SumSeq(conn[c].rqueue) + conn[c].r_rest],
    owed <- [c \in Conn |-> user[c].rn],
    credit <- [c \in Conn |-> OnWire("WND", Twin(c))]

\* Each direction of each stream keeps the promise of Flow: writeSlice, Push,
\* Read and the WND frames conserve the window, with slices, queue and reads cut
\* at different places.
ImplementsFlow == Windows!Spec

\* While both ends are established no byte of window is lost either: a stream
\* can always go back to its full window (conn.go:216, 274, 434).
NoCreditLost ==
    \A c \in Conn :
        conn[c].status = "EST" /\ conn[Twin(c)].status = "EST" /\ link =>
            conn[Twin(c)].window + OnWire("DATA", c) + SumSeq(conn[c].rqueue)
              + conn[c].r_rest + user[c].rn + OnWire("WND", Twin(c)) = WINDOWSIZE
=============================================================================
