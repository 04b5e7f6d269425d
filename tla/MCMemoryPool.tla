---------------------------- MODULE MCMemoryPool ----------------------------
(***************************************************************************)
(* Values for TLC.  No step tells one thread from another.                 *)
(***************************************************************************)
EXTENDS MemoryPool, TLC

CONSTANTS t1, t2, t3

MCCallers == {t1, t2, t3}

AnyCaller == Permutations(MCCallers)
=============================================================================
