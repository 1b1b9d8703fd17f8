---------------------------- MODULE MCFaceReview ----------------------------
(***************************************************************************)
(* FaceReview with two threads, which may do the same work.                *)
(***************************************************************************)
EXTENDS FaceReview, TLC
CONSTANTS t1, t2, a1, a2, m1

Symmetry == Permutations(Threads) \cup Permutations(Assets)
=============================================================================
