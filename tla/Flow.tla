-------------------------------- MODULE Flow --------------------------------
(***************************************************************************)
(* What the windows of the tunnel's streams promise.  For each direction   *)
(* of each stream, the bytes that the writer may still send, that travel,  *)
(* that wait at the reader, that were read and not yet renewed, and whose  *)
(* renewal travels back never exceed WINDOWSIZE together: a reader that    *)
(* stops reading has to keep at most WINDOWSIZE bytes.  MCTunnel shows     *)
(* that the Conns of module Tunnel implement this.                         *)
(***************************************************************************)
EXTENDS Integers

CONSTANTS Dirs,        \* the directions: one for each Conn that reads
          WINDOWSIZE

VARIABLES window,   \* what the writer may send
          flight,   \* sent, not yet in the reader's queue
          buffer,   \* in the reader's queue
          owed,     \* read, the WND not yet sent
          credit    \* in WND frames on their way to the writer

vars == <<window, flight, buffer, owed, credit>>

Init == /\ window = [c \in Dirs |-> WINDOWSIZE]
        /\ flight = [c \in Dirs |-> 0]
        /\ buffer = [c \in Dirs |-> 0]
        /\ owed = [c \in Dirs |-> 0]
        /\ credit = [c \in Dirs |-> 0]

Less(f, c, n) == [f EXCEPT ![c] = @ - n]
More(f, c, n) == [f EXCEPT ![c] = @ + n]

Send(c, n) == /\ n <= window[c]
              /\ window' = Less(window, c, n)
              /\ flight' = More(flight, c, n)
              /\ UNCHANGED <<buffer, owed, credit>>

Deliver(c, n) == /\ n <= flight[c]
                 /\ flight' = Less(flight, c, n)
                 /\ buffer' = More(buffer, c, n)
                 /\ UNCHANGED <<window, owed, credit>>

Read(c, n) == /\ n <= buffer[c]
              /\ buffer' = Less(buffer, c, n)
              /\ owed' = More(owed, c, n)
              /\ UNCHANGED <<window, flight, credit>>

Renew(c, n) == /\ n <= owed[c]
               /\ owed' = Less(owed, c, n)
               /\ credit' = More(credit, c, n)
               /\ UNCHANGED <<window, flight, buffer>>

Grant(c, n) == /\ n <= credit[c]
               /\ credit' = Less(credit, c, n)
               /\ window' = More(window, c, n)
               /\ UNCHANGED <<flight, buffer, owed>>

\* Frames of a stream that is being closed, or of a broken tunnel, get lost,
\* some as they are written, and the last reads of a stream are not renewed.
Lose(c, n) == \/ /\ n <= window[c]
                 /\ window' = Less(window, c, n)
                 /\ UNCHANGED <<flight, buffer, owed, credit>>
              \/ /\ n <= flight[c]
                 /\ flight' = Less(flight, c, n)
                 /\ UNCHANGED <<window, buffer, owed, credit>>
              \/ /\ n <= owed[c]
                 /\ owed' = Less(owed, c, n)
                 /\ UNCHANGED <<window, flight, buffer, credit>>
              \/ /\ n <= credit[c]
                 /\ credit' = Less(credit, c, n)
                 /\ UNCHANGED <<window, flight, buffer, owed>>

Next == \E c \in Dirs, n \in 0..WINDOWSIZE :
            \/ Send(c, n) \/ Deliver(c, n) \/ Read(c, n)
            \/ Renew(c, n) \/ Grant(c, n) \/ Lose(c, n)

Spec == Init /\ [][Next]_vars

\* All amounts are numbers of bytes: none is ever negative.
TypeOK == /\ window \in [Dirs -> Nat]
          /\ flight \in [Dirs -> Nat]
          /\ buffer \in [Dirs -> Nat]
          /\ owed \in [Dirs -> Nat]
          /\ credit \in [Dirs -> Nat]

\* No step creates window: what is not lost is conserved.
CreditBounded ==
    \A c \in Dirs : window[c] + flight[c] + buffer[c] + owed[c] + credit[c] <= WINDOWSIZE

\* The reader's queue, which has no limit of its own (queue.go:32), holds at most
\* WINDOWSIZE bytes, and the window, an int32, never grows beyond it.
BufferBounded == \A c \in Dirs : buffer[c] <= WINDOWSIZE /\ window[c] <= WINDOWSIZE
=============================================================================
