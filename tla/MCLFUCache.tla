----------------------------- MODULE MCLFUCache -----------------------------
(***************************************************************************)
(* LFUCache for TLC: threads and keys are interchangeable.  There are more *)
(* keys than nodes, so that some key is always missing.                    *)
(***************************************************************************)
EXTENDS LFUCache, TLC

Symmetry == Permutations(Threads) \cup Permutations(Keys)
=============================================================================
