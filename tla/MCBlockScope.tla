---------------------------- MODULE MCBlockScope ----------------------------
(* Kernels that join the handles of a scope themselves.                    *)
EXTENDS BlockScope

MCJoiners == {{"scope", "scope_join"}}
=============================================================================
