-------------------------- MODULE MCServerWorkers --------------------------
(* Model-checking instance of ServerWorkers: the clients are alike.        *)
EXTENDS ServerWorkers, TLC

Symmetry == Permutations(Connections)
=============================================================================
