------------------------------ MODULE ForkJoin ------------------------------
(***************************************************************************)
(* What a pool of workers promises to the program that uses it: a unit of  *)
(* work that is forked is run, or fails, once; whoever joins it goes on    *)
(* only after that, and gets the result of that unit and of no other.      *)
(***************************************************************************)
EXTENDS Naturals

CONSTANT Units   \* the units of work: a task and the worker that gets it

VARIABLES forked,  \* the units handed over
          ran,     \* how often each has been run to its end
          failed,  \* the units whose worker died in them
          outcome  \* what the joiner has been told of each

forkVars == <<forked, ran, failed, outcome>>

ForkInit == /\ forked = {} /\ failed = {}
            /\ ran = [u \in Units |-> 0]
            /\ outcome = [u \in Units |-> "none"]

Waiting(u) == u \in forked /\ ran[u] = 0 /\ u \notin failed

Fork(u) == /\ u \notin forked
           /\ forked' = forked \union {u}
           /\ UNCHANGED <<ran, failed, outcome>>

RunUnit(u) == /\ Waiting(u)
              /\ ran' = [ran EXCEPT ![u] = 1]
              /\ UNCHANGED <<forked, failed, outcome>>

FailUnit(u) == /\ Waiting(u)
               /\ failed' = failed \union {u}
               /\ UNCHANGED <<forked, ran, outcome>>

JoinUnit(u) == /\ outcome[u] = "none" /\ u \in forked /\ ~Waiting(u)
               /\ outcome' = [outcome EXCEPT ![u] = IF u \in failed THEN "trapped" ELSE "ok"]
               /\ UNCHANGED <<forked, ran, failed>>

ForkNext == \E u \in Units : Fork(u) \/ RunUnit(u) \/ FailUnit(u) \/ JoinUnit(u)

ForkSpec == ForkInit /\ [][ForkNext]_forkVars
=============================================================================
