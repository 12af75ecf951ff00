----------------------------- MODULE FifoQueue ------------------------------
(***************************************************************************)
(* What the executor's work queue promises: a bounded first-in first-out   *)
(* queue of task ids shared by any number of callers, each of whose        *)
(* operations takes effect at one instant of its call.  A caller that is   *)
(* told the queue is empty was told the truth at some instant of its call. *)
(* An enqueue may be refused; module WorkQueue says exactly when.          *)
(***************************************************************************)
EXTENDS Naturals, Sequences

CONSTANTS Callers,   \* the concurrent users of the queue
          Ids,       \* what they put in it
          Capacity,  \* the most it holds
          Pending,   \* got[w] while w's dequeue has no result
          Nothing    \* got[w] when w found the queue empty

VARIABLES fifo,      \* the ids in the queue, oldest first
          got        \* the result of each caller's latest dequeue

fifoVars == <<fifo, got>>

FifoInit == /\ fifo = <<>>
            /\ got = [w \in Callers |-> Pending]

Put(id) == /\ Len(fifo) < Capacity
           /\ fifo' = Append(fifo, id)
           /\ UNCHANGED got

Ask(w) == /\ got' = [got EXCEPT ![w] = Pending]
          /\ UNCHANGED fifo

Take(w) == /\ got[w] = Pending
           /\ fifo # <<>>
           /\ got' = [got EXCEPT ![w] = Head(fifo)]
           /\ fifo' = Tail(fifo)

FindEmpty(w) == /\ got[w] = Pending
                /\ fifo = <<>>
                /\ got' = [got EXCEPT ![w] = Nothing]
                /\ UNCHANGED fifo

FifoNext == \/ \E id \in Ids : Put(id)
            \/ \E w \in Callers : Ask(w) \/ Take(w) \/ FindEmpty(w)

FifoSpec == FifoInit /\ [][FifoNext]_fifoVars
=============================================================================
