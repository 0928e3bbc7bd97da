----------------------------- MODULE MCTcpProxy -----------------------------
(***************************************************************************)
(* The model-checking instances of TcpProxy and TcpProxyRelay.             *)
(***************************************************************************)
EXTENDS TcpProxyRelay, TLC

ConnSymmetry == Permutations(Allowed) \cup Permutations(Conn \ Allowed)

\* Bound: of all the clients there are, any two come.
AtMostTwo == Cardinality({c \in Conn : cli[c].at # "new"}) <= 2
=============================================================================
