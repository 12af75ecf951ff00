---------------------------- MODULE MCWorkQueue -----------------------------
(* Three warps on a ring of two words.                                     *)
EXTENDS WorkQueue, TLC

CONSTANTS w1, w2, w3, t1, t2

MCCallers == {w1, w2, w3}
MCIds == {t1, t2}

Symmetry == Permutations(MCCallers) \union Permutations(MCIds)
=============================================================================
