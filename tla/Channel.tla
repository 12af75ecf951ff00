------------------------------ MODULE Channel -------------------------------
(***************************************************************************)
(* The multi-producer single-consumer channels: MpscChannel in global      *)
(* memory, whose receiver may be a future that parks with a waker in the   *)
(* channel, BlockMpscChannel in shared memory, which has no waker, and the *)
(* scoped channels, which are one or the other.  One step is one access to *)
(* a word that another warp may be changing; only the receiver writes the  *)
(* tail, so its own loads of it are not steps.                             *)
(*                                                                         *)
(* Positions are those of the channel's whole history; a run stays below   *)
(* 2^32 of them, where only the subtraction of try_send can wrap.          *)
(* N is a power of two in the code, which takes a position modulo N by a   *)
(* mask.                                                                   *)
(***************************************************************************)
EXTENDS Naturals, Sequences, FiniteSets

CONSTANTS Senders,   \* the warps that have a sender
          N,         \* slots of the ring
          MaxSends,  \* bound: values each sender has to send
          Kinds,     \* the kinds of channel and receiver considered
          Receiver,  \* the one receiver
          NoValue,   \* what a receive that has no result yet has got
          Closed     \* what a receive gets of a channel closed and drained

ASSUME CapacityAssumption == N \in Nat \ {0} /\ MaxSends \in Nat
ASSUME KindAssumption == Kinds \subseteq {"future", "spin", "block"}

Values == Senders \X (1 .. MaxSends)

ASSUME ResultAssumption == /\ NoValue \notin Values /\ Closed \notin Values
                           /\ NoValue # Closed

Indices == 0 .. N - 1

VARIABLES kind,            \* "future": polled by the executor; "spin": recv_spin on a
                           \* global channel; "block": recv_spin in shared memory
          head, tail, closed, waker_set,
          sequence, value, \* of each slot
          pc, hd,          \* where each sender is, and the head it has loaded
          nth,             \* which of its values a sender is sending
          rpc, got,        \* where the receiver is, and what it has received
          queued,          \* how often the receiver's task is in the work queue
          refused,         \* history: a wake was refused since it was last polled
          fifo             \* history: the values claimed and not received, in order

ringVars == <<head, tail, sequence, value, fifo>>
sendVars == <<pc, hd, nth>>
recvVars == <<rpc, got>>
wakeVars == <<waker_set, queued, refused>>
chanVars == <<kind, ringVars, sendVars, recvVars, wakeVars, closed>>

Slot(position) == position % N

ChanInit ==
  /\ kind \in Kinds
  /\ head = 0 /\ tail = 0 /\ closed = FALSE /\ waker_set = FALSE
  /\ sequence = [i \in Indices |-> i]
  /\ value = [i \in Indices |-> NoValue]
  /\ pc = [s \in Senders |-> "idle"]
  /\ hd = [s \in Senders |-> 0]
  /\ nth = [s \in Senders |-> 1]
  /\ rpc = "recv" /\ got = [r \in {Receiver} |-> NoValue]
  /\ queued = 0 /\ refused = FALSE
  /\ fifo = <<>>

Goto(s, label) == pc' = [pc EXCEPT ![s] = label]

-----------------------------------------------------------------------------
(* try_send.  Of a closed channel nothing changes, and the sender stops.   *)
SendClosed(s) ==
  /\ pc[s] = "idle" /\ nth[s] <= MaxSends
  /\ closed
  /\ Goto(s, "stopped")
  /\ UNCHANGED <<kind, ringVars, hd, nth, recvVars, wakeVars, closed>>

SendOpen(s) ==
  /\ pc[s] = "idle" /\ nth[s] <= MaxSends
  /\ ~closed
  /\ Goto(s, "load_head")
  /\ UNCHANGED <<kind, ringVars, hd, nth, recvVars, wakeVars, closed>>

LoadHead(s) ==
  /\ pc[s] = "load_head"
  /\ hd' = [hd EXCEPT ![s] = head]
  /\ Goto(s, "load_tail")
  /\ UNCHANGED <<kind, ringVars, nth, recvVars, wakeVars, closed>>

(* Fault: one position too many.                                           *)
SeemsOverfull(s) == hd[s] > tail + N \/ hd[s] < tail

(* head.wrapping_sub(tail) >= N: also of a head the tail has passed since. *)
SeemsFull(s) == hd[s] >= tail + N \/ hd[s] < tail

(* The call has returned Full, and the sender may try again.               *)
Full(s) == /\ Goto(s, "idle")
           /\ hd' = [hd EXCEPT ![s] = 0]

LoadTail(s) ==
  /\ pc[s] = "load_tail"
  /\ IF SeemsFull(s) THEN Full(s)
                     ELSE Goto(s, "cas") /\ UNCHANGED hd
  /\ UNCHANGED <<kind, ringVars, nth, recvVars, wakeVars, closed>>

(* Fault: the head is stored, whatever it is by now.                       *)
ClaimStore(s) ==
  /\ pc[s] = "cas"
  /\ head' = hd[s] + 1
  /\ fifo' = Append(fifo, <<s, nth[s]>>)
  /\ Goto(s, "write")
  /\ UNCHANGED <<kind, tail, sequence, value, hd, nth, recvVars, wakeVars, closed>>

(* Fault: a lost CAS is tried again with the head it was lost with.        *)
ClaimStubborn(s) ==
  /\ pc[s] = "cas"
  /\ IF head = hd[s]
     THEN /\ head' = head + 1
          /\ fifo' = Append(fifo, <<s, nth[s]>>)
          /\ Goto(s, "write")
     ELSE UNCHANGED <<head, fifo, pc>>
  /\ UNCHANGED <<kind, tail, sequence, value, hd, nth, recvVars, wakeVars, closed>>

(* The CAS that claims a position; one that is lost is reported as Full.   *)
Claim(s) ==
  /\ pc[s] = "cas"
  /\ IF head = hd[s]
     THEN /\ head' = head + 1
          /\ fifo' = Append(fifo, <<s, nth[s]>>)
          /\ Goto(s, "write")
          /\ UNCHANGED hd
     ELSE /\ Full(s)
          /\ UNCHANGED <<head, fifo>>
  /\ UNCHANGED <<kind, tail, sequence, value, nth, recvVars, wakeVars, closed>>

WriteValue(s) ==
  /\ pc[s] = "write"
  /\ value' = [value EXCEPT ![Slot(hd[s])] = <<s, nth[s]>>]
  /\ Goto(s, "publish")
  /\ UNCHANGED <<kind, head, tail, sequence, fifo, hd, nth, recvVars, wakeVars, closed>>

(* The call has returned Ok.                                               *)
Sent(s) == /\ Goto(s, "idle")
           /\ nth' = [nth EXCEPT ![s] = @ + 1]

Publish(s) ==
  /\ pc[s] = "publish"
  /\ sequence' = [sequence EXCEPT ![Slot(hd[s])] = hd[s] + 1]
  /\ IF kind = "block" THEN Sent(s)
                       ELSE Goto(s, "wake_load") /\ UNCHANGED nth
  /\ hd' = [hd EXCEPT ![s] = 0]
  /\ UNCHANGED <<kind, head, tail, value, fifo, recvVars, wakeVars, closed>>

(* Fault: nobody is woken.                                                 *)
WakeNobody(s) ==
  /\ pc[s] = "wake_load"
  /\ Sent(s)
  /\ UNCHANGED <<kind, ringVars, hd, recvVars, wakeVars, closed>>

(* wake_consumer: load waker_set, clear it, and wake the stored waker,     *)
(* which calls enqueue for the receiver's task and drops what it returns:  *)
(* the work queue may refuse (RefusedFullOrOvertaken of module WorkQueue). *)
WakeLoad(s) ==
  /\ pc[s] = "wake_load"
  /\ IF waker_set THEN Goto(s, "wake_clear") /\ UNCHANGED nth
                  ELSE Sent(s)
  /\ UNCHANGED <<kind, ringVars, hd, recvVars, wakeVars, closed>>

WakeClear(s) ==
  /\ pc[s] = "wake_clear"
  /\ waker_set' = FALSE
  /\ Goto(s, "wake")
  /\ UNCHANGED <<kind, ringVars, hd, nth, recvVars, queued, refused, closed>>

Wake(s) ==
  /\ pc[s] = "wake"
  /\ queued' = queued + 1
  /\ Sent(s)
  /\ UNCHANGED <<kind, ringVars, hd, recvVars, waker_set, refused, closed>>

WakeRefused(s) ==
  /\ pc[s] = "wake"
  /\ refused' = TRUE
  /\ Sent(s)
  /\ UNCHANGED <<kind, ringVars, hd, recvVars, waker_set, queued, closed>>

-----------------------------------------------------------------------------
(* try_recv: the slot at the tail is readable once its sequence says so.   *)
Readable == sequence[Slot(tail)] = tail + 1

TryRecv ==
  /\ rpc \in {"recv", "again"} /\ Readable
  /\ rpc' = "read"
  /\ UNCHANGED <<kind, ringVars, sendVars, got, wakeVars, closed>>

RecvNothing ==
  /\ rpc = "recv" /\ ~Readable
  /\ rpc' = "load_closed"
  /\ UNCHANGED <<kind, ringVars, sendVars, got, wakeVars, closed>>

ReadValue ==
  /\ rpc = "read"
  /\ got' = [got EXCEPT ![Receiver] = value[Slot(tail)]]
  /\ fifo' = Tail(fifo)
  /\ rpc' = "recycle"
  /\ UNCHANGED <<kind, head, tail, sequence, value, sendVars, wakeVars, closed>>

Recycle ==
  /\ rpc = "recycle"
  /\ sequence' = [sequence EXCEPT ![Slot(tail)] = tail + N]
  /\ rpc' = "advance"
  /\ UNCHANGED <<kind, head, tail, value, fifo, sendVars, got, wakeVars, closed>>

Advance ==
  /\ rpc = "advance"
  /\ tail' = tail + 1
  /\ rpc' = "received"
  /\ UNCHANGED <<kind, head, sequence, value, fifo, sendVars, got, wakeVars, closed>>

(* Fault: a receiver in shared memory parks as well.                       *)
UndrainedParks == rpc' = "store_waker"

(* is_terminated: closed, then the head.  A receiver told No parks, after  *)
(* it has stored its waker and looked once more, or goes round.            *)
Undrained == rpc' = IF kind = "future" THEN "store_waker" ELSE "recv"

(* Fault: the future's poll does not ask whether the channel is closed.    *)
LoadClosedUnlessFuture ==
  /\ rpc = "load_closed"
  /\ IF closed /\ kind # "future" THEN rpc' = "term_head" ELSE Undrained
  /\ UNCHANGED <<kind, ringVars, sendVars, got, wakeVars, closed>>

LoadClosed ==
  /\ rpc = "load_closed"
  /\ IF closed THEN rpc' = "term_head" ELSE Undrained
  /\ UNCHANGED <<kind, ringVars, sendVars, got, wakeVars, closed>>

TermHead ==
  /\ rpc = "term_head"
  /\ IF head = tail
     THEN /\ got' = [got EXCEPT ![Receiver] = Closed]
          /\ rpc' = "ended"
     ELSE /\ Undrained
          /\ UNCHANGED got
  /\ UNCHANGED <<kind, ringVars, sendVars, wakeVars, closed>>

(* Fault: the receiver parks without looking once more.                    *)
StoreWakerAndPark ==
  /\ rpc = "store_waker"
  /\ waker_set' = TRUE
  /\ rpc' = "parked"
  /\ UNCHANGED <<kind, ringVars, sendVars, got, queued, refused, closed>>

StoreWaker ==
  /\ rpc = "store_waker"
  /\ waker_set' = TRUE
  /\ rpc' = "again"
  /\ UNCHANGED <<kind, ringVars, sendVars, got, queued, refused, closed>>

Park ==
  /\ rpc = "again" /\ ~Readable
  /\ rpc' = "parked"
  /\ UNCHANGED <<kind, ringVars, sendVars, got, wakeVars, closed>>

(* The executor polls the task again: it was woken, or its fallback finds  *)
(* it parked.                                                              *)
PollWoken ==
  /\ rpc = "parked" /\ queued > 0
  /\ queued' = queued - 1 /\ refused' = FALSE
  /\ rpc' = "recv"
  /\ UNCHANGED <<kind, ringVars, sendVars, got, waker_set, closed>>

PollFallback ==
  /\ rpc = "parked"
  /\ refused' = FALSE
  /\ rpc' = "recv"
  /\ UNCHANGED <<kind, ringVars, sendVars, got, waker_set, queued, closed>>

RecvAgain ==
  /\ rpc = "received"
  /\ got' = [got EXCEPT ![Receiver] = NoValue]
  /\ rpc' = "recv"
  /\ UNCHANGED <<kind, ringVars, sendVars, wakeVars, closed>>

(* close sets the flag and wakes nobody.                                   *)
Close ==
  /\ ~closed
  /\ closed' = TRUE
  /\ UNCHANGED <<kind, ringVars, sendVars, recvVars, wakeVars>>

SendStep(s) == \/ LoadHead(s) \/ LoadTail(s) \/ Claim(s) \/ WriteValue(s)
               \/ Publish(s) \/ WakeLoad(s) \/ WakeClear(s) \/ Wake(s)
               \/ WakeRefused(s)
RecvStep == \/ TryRecv \/ RecvNothing \/ ReadValue \/ Recycle \/ Advance
            \/ LoadClosed \/ TermHead \/ StoreWaker \/ Park \/ PollWoken
            \/ RecvAgain

(* Everything sent, or refused, and the receiver told the end.             *)
Idle(s) == pc[s] = "stopped" \/ (pc[s] = "idle" /\ nth[s] > MaxSends)
Over == /\ rpc = "ended" /\ \A s \in Senders : Idle(s)
        /\ UNCHANGED chanVars

ChanNext == \/ \E s \in Senders : SendClosed(s) \/ SendOpen(s) \/ SendStep(s)
            \/ RecvStep \/ PollFallback
            \/ Close
            \/ Over

ChanSpec == ChanInit /\ [][ChanNext]_chanVars

(* A call to try_send that has begun goes on, and so does a receiver that  *)
(* is not parked; a task that was woken is polled.                         *)
FairChanSpec == ChanSpec /\ \A s \in Senders : WF_chanVars(SendStep(s))
                         /\ WF_chanVars(RecvStep)

-----------------------------------------------------------------------------
SendLabels == {"idle", "stopped", "load_head", "load_tail", "cas", "write",
               "publish", "wake_load", "wake_clear", "wake"}
ParkLabels == {"store_waker", "again", "parked"}
RecvLabels == ParkLabels \union {"recv", "load_closed", "term_head", "read",
                                 "recycle", "advance", "received", "ended"}

RingOK ==
  /\ head \in Nat /\ tail \in Nat
  /\ sequence \in [Indices -> Nat]
  /\ value \in [Indices -> Values \union {NoValue}]
  /\ fifo \in Seq(Values)

SendersOK ==
  /\ pc \in [Senders -> SendLabels]
  /\ hd \in [Senders -> Nat]
  /\ nth \in [Senders -> 1 .. MaxSends + 1]
  /\ \A s \in Senders : pc[s] \notin {"idle", "stopped"} => nth[s] <= MaxSends
  /\ kind = "block" => \A s \in Senders : pc[s] \notin {"wake_load", "wake_clear", "wake"}

ReceiverOK ==
  /\ kind \in Kinds /\ rpc \in RecvLabels
  /\ got \in [{Receiver} -> Values \union {NoValue, Closed}]
  /\ closed \in BOOLEAN /\ waker_set \in BOOLEAN
  /\ queued \in Nat /\ refused \in BOOLEAN
  /\ rpc \in ParkLabels => kind = "future"

(* Shapes; only a future parks, and only a global channel has a waker.     *)
ChanTypeOK == RingOK /\ SendersOK /\ ReceiverOK

Writing(s) == pc[s] \in {"write", "publish"}
Reading == rpc \in {"read", "recycle", "advance"}

(* The value of a slot is a plain, unlocked memory word: no two senders    *)
(* have one slot, and none has the slot the receiver is reading.  All that *)
(* keeps them apart is the CAS on a head loaded two steps before and a     *)
(* comparison with a tail that is out of date.                             *)
SlotsHaveOneUser == \A s \in Senders : Writing(s) =>
  /\ \A u \in Senders \ {s} : Writing(u) => Slot(hd[u]) # Slot(hd[s])
  /\ Reading => Slot(hd[s]) # Slot(tail)

Waking(s) == \/ pc[s] \in {"wake_clear", "wake"}
             \/ pc[s] = "wake_load" /\ waker_set

(* The receiver registers its waker while senders load and clear           *)
(* waker_set: a parked receiver with a value to read is in the work queue, *)
(* or a sender is about to put it there, or has tried and been refused.    *)
(* No race of the registration loses a wakeup; what enqueue refuses is.    *)
NoLostWakeup ==
  rpc = "parked" /\ Readable =>
    queued > 0 \/ refused \/ \E s \in Senders : Waking(s)

(* First in, first out, each value delivered once, and "the receiver       *)
(* drains remaining items then gets None": None only of an empty channel.  *)
(* It is the queue of module FifoQueue with one consumer.                  *)
Fifo == INSTANCE FifoQueue WITH Callers <- {Receiver}, Ids <- Values, Capacity <- N,
                                Pending <- NoValue, Nothing <- Closed

ChannelIsFifo == Fifo!FifoSpec

(* Every value claimed is received in the end (the senders have finitely   *)
(* many): by wakeups alone if none of them is refused, and otherwise       *)
(* because the executor's fallback polls what is parked.  One refused wake *)
(* is enough to need it for good: the waker is cleared, and later sends    *)
(* wake nobody.                                                            *)
EverySentIsReceived ==
  []~refused \/ WF_chanVars(PollFallback) => []<>(fifo = <<>> \/ rpc = "ended")

(* try_send says Full of a full ring, of a head the tail has passed, and   *)
(* of a race it has lost, with room in the ring: "caller should retry      *)
(* later".  A sender that does retry gets its values in, whoever else      *)
(* sends, unless the channel is closed.                                    *)
RetriesSucceed ==
  (\A s \in Senders : WF_chanVars(SendOpen(s))) /\ WF_chanVars(PollFallback) =>
    \A s \in Senders : <>(closed \/ nth[s] > MaxSends)

(* After a close the receiver gets None.  close wakes nobody, so a parked  *)
(* receiver hears of it only by the fallback.                              *)
CloseIsHeard == WF_chanVars(PollFallback) => (closed ~> rpc = "ended")
=============================================================================
