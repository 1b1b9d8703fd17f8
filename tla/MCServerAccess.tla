---------------------------- MODULE MCServerAccess ----------------------------
(* Instances of ServerAccess for TLC.                                      *)
EXTENDS ServerAccess, TLC

Symmetry == Permutations(Tokens) \cup Permutations(Requests)
              \cup Permutations(Sockets) \cup Permutations(Pollers)
=============================================================================
