---------------------------- MODULE MCSharedCaches ----------------------------
(***************************************************************************)
(* Two threads (the proofs cover any number of them), three locales for    *)
(* two places, one of the locales unknown to Babel, and a message.         *)
(***************************************************************************)
EXTENDS SharedCaches, TLC

Symmetry == Permutations(Threads) \cup Permutations(Known)
=============================================================================
