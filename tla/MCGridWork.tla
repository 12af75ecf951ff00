----------------------------- MODULE MCGridWork -----------------------------
(* Work functions that use threads, scopes and cooperative calls, and work *)
(* functions whose tasks trap, in scopes; and a coordinator that cancels   *)
(* what is under way.                                                      *)
EXTENDS GridWork

MCPrograms == {{"thread", "scope", "coop", "spawn_all"},
               {"scope", "spawn_all", "trap"}, {"thread", "coop", "trap"}}
MCCancelling == {{"cancel"}}
=============================================================================
