------------------------------- MODULE MCWire -------------------------------
(* Wire for TLC: who writes how much, on which streams and sides. *)
EXTENDS Wire

\* The client writes a on stream 1 and b on stream 2, the server writes c and d.
MCLoad(a, b, c, d) ==
    [x \in Conn |-> CASE x = <<"client", 1>> -> a [] x = <<"client", 2>> -> b
                      [] x = <<"server", 1>> -> c [] OTHER -> d]

\* One stream both ways, and two streams one way.
MCLoads == {MCLoad(3, 0, 3, 0), MCLoad(3, 1, 0, 0)}
=============================================================================
