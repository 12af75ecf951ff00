----------------------------- MODULE PacketPool -----------------------------
(***************************************************************************)
(* What the hostcall packet pool promises its callers.                     *)
(*                                                                         *)
(* The hostcall buffer holds a fixed set of packets, divided among shards. *)
(* A caller takes a packet that is available in its shard, has it to       *)
(* itself until it gives it back, and may also walk away from it (a PRINT  *)
(* that timed out never returns its packet).  Between two kernels the host *)
(* makes every packet available again.  Each operation is one atomic step  *)
(* here; module FreeStack is the lock-free stack that implements it.       *)
(***************************************************************************)

CONSTANTS Callers,    \* the concurrent hostcalls: warps, or tasks on a warp
          Packets,    \* the packet indices of the whole buffer
          ShardOf,    \* the shard each caller's block uses
          Share,      \* the packets each shard starts with
          Nobody      \* held[t] when caller t has no packet

VARIABLES avail,      \* the packets each shard can hand out
          held        \* the packet each caller owns

poolVars == <<avail, held>>

PoolInit == /\ avail = Share
            /\ held = [t \in Callers |-> Nobody]

(* A successful pop: p leaves the pool and belongs to t alone.             *)
Take(t, p) == /\ held[t] = Nobody
              /\ p \in avail[ShardOf[t]]
              /\ avail' = [avail EXCEPT ![ShardOf[t]] = @ \ {p}]
              /\ held' = [held EXCEPT ![t] = p]

(* A push on the free stack: the packet is available again.                *)
Give(t) == /\ held[t] # Nobody
           /\ avail' = [avail EXCEPT ![ShardOf[t]] = @ \union {held[t]}]
           /\ held' = [held EXCEPT ![t] = Nobody]

(* The caller forgets its packet without returning it.                     *)
Forget(t) == /\ held[t] # Nobody
             /\ held' = [held EXCEPT ![t] = Nobody]
             /\ UNCHANGED avail

(* Between kernels, when no caller runs, the pool is made whole.           *)
Refill == /\ held = [t \in Callers |-> Nobody]
          /\ avail' = Share
          /\ UNCHANGED held

PoolNext == \/ \E t \in Callers : \/ \E p \in Packets : Take(t, p)
                                  \/ Give(t)
                                  \/ Forget(t)
            \/ Refill

PoolSpec == PoolInit /\ [][PoolNext]_poolVars
=============================================================================
