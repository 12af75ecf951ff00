------------------------------ MODULE OneCopy -------------------------------
(***************************************************************************)
(* What a GpuArray promises: as if each array had one copy, which the host *)
(* and the kernels read and write in the order of the program.             *)
(***************************************************************************)
EXTENDS Naturals

CONSTANT Arrays

VARIABLES newest,  \* the value of each array, by the write that made it
          seen     \* what the last access saw of the arrays it read

copyVars == <<newest, seen>>

CopyInit == newest = [a \in Arrays |-> 0] /\ seen = [a \in {} |-> 0]

HostReads(a) == /\ seen' = [b \in {a} |-> newest[b]]
                /\ UNCHANGED newest

HostWrites(a) == /\ seen' = [b \in {a} |-> newest[b]]
                 /\ newest' = [newest EXCEPT ![a] = @ + 1]

KernelRuns(args, outs) ==
  /\ seen' = [a \in args |-> newest[a]]
  /\ newest' = [a \in Arrays |-> IF a \in outs THEN newest[a] + 1 ELSE newest[a]]

CopyNext == \/ \E a \in Arrays : HostReads(a) \/ HostWrites(a)
            \/ \E args \in SUBSET Arrays : \E outs \in SUBSET args : KernelRuns(args, outs)

CopySpec == CopyInit /\ [][CopyNext]_copyVars
=============================================================================
