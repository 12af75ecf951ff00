---------------------------- MODULE MCFreeStack -----------------------------
(* A free stack shared by callers that all run in one shard.               *)
EXTENDS FreeStack, TLC

CONSTANTS c1, c2, c3

MCCallers == {c1, c2, c3}
MCShardOf == [t \in {c1, c2, c3} |-> 0]

(* The ready stack is empty whenever a caller pushes its request on it.    *)
MCLinkWords == {null_tagged}

Symmetry == Permutations(MCCallers)
=============================================================================
