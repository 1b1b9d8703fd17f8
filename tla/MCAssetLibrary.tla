--------------------------- MODULE MCAssetLibrary ---------------------------
(* AssetLibrary over copies of one image.                                  *)
EXTENDS AssetLibrary, TLC

CONSTANT h1

\* Every upload carries the same bytes: all duplicate relations arise.
SameHash == [a \in Assets |-> h1]

Symmetry == Permutations(Assets)
=============================================================================
