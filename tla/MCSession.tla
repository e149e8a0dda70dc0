----------------------------- MODULE MCSession ------------------------------
(* Session for TLC: two connections, the client of one configured well.   *)
EXTENDS Session

CONSTANT k1, k2

MCConns == {k1, k2}
MCConfigs == {f \in [MCConns -> Creds] : f[k1] = "good"}
=============================================================================
