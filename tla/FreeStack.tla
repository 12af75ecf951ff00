----------------------------- MODULE FreeStack ------------------------------
(***************************************************************************)
(* The lock-free stack of free packets in the hostcall buffer: hc_pop_free *)
(* and hc_push of gpu-runtime, over the buffer HostcallBuffer::init lays   *)
(* out.  One step is one access to a word that another caller may be       *)
(* changing; a write to a word of a packet the caller owns is joined to    *)
(* the load before it.                                                     *)
(*                                                                         *)
(* A stack word is a tagged pointer: a packet index and a tag.  A push     *)
(* raises the tag of the word it replaces by one.  A pop puts back the     *)
(* word that was stored in the packet's `next` field, old tag and all.     *)
(***************************************************************************)
EXTENDS Naturals

CONSTANTS Callers,       \* concurrent users of the pool
          NumShards,     \* shards of the buffer (a legacy buffer behaves as one)
          PktsPerShard,  \* packets in each shard
          ShardOf,       \* the shard of the block each caller runs in
          TagMod,        \* tags wrap at this value (2^32 in the code)
          LinkWords      \* words a caller may find at the head of a ready stack

Shards == 0 .. NumShards - 1
ShardPackets(s) == s * PktsPerShard .. (s + 1) * PktsPerShard - 1
Packets == 0 .. NumShards * PktsPerShard - 1
NULL_INDEX == 65535
Index == Packets \union {NULL_INDEX}
Tagged == [tag : 0 .. TagMod - 1, idx : Index]

ASSUME LayoutAssumption == /\ NumShards \in Nat \ {0}
                           /\ PktsPerShard \in Nat \ {0}
                           /\ NumShards * PktsPerShard <= NULL_INDEX
ASSUME CallerAssumption == ShardOf \in [Callers -> Shards]
ASSUME TagAssumption == TagMod \in Nat \ {0} /\ LinkWords \subseteq Tagged

VARIABLES free,   \* the free stack's head word in each shard
          next,   \* the `next` word of each packet
          pc,     \* where each caller is in its call
          pkt,    \* the packet a caller owns, or NULL_INDEX
          hd,     \* old_head, as the caller last loaded it
          nx,     \* the caller's copy of the head packet's `next`
          avail   \* history: the packets pushed and not popped since, by shard

stackVars == <<free, next, pc, pkt, hd, nx, avail>>

make_tagged(tag, idx) == [tag |-> tag, idx |-> idx]
null_tagged == make_tagged(0, NULL_INDEX)
same_tag(word) == word.tag                         \* fault: the push keeps the tag
bump_tag(word) == (word.tag + 1) % TagMod

(* HostcallBuffer::init chains each shard's packets in index order, with   *)
(* tag 0 throughout, and points the free stack at the first of them.       *)
IsLastOfShard(p) == \E s \in Shards : p = (s + 1) * PktsPerShard - 1
ChainAtInit == [p \in Packets |-> IF IsLastOfShard(p) THEN null_tagged
                                                      ELSE make_tagged(0, p + 1)]
HeadAtInit == [s \in Shards |-> make_tagged(0, s * PktsPerShard)]
Share == [s \in Shards |-> ShardPackets(s)]

StackInit ==
  /\ free = HeadAtInit
  /\ next = ChainAtInit
  /\ pc = [t \in Callers |-> "idle"]
  /\ pkt = [t \in Callers |-> NULL_INDEX]
  /\ hd = [t \in Callers |-> null_tagged]
  /\ nx = [t \in Callers |-> null_tagged]
  /\ avail = Share

Goto(t, label) == pc' = [pc EXCEPT ![t] = label]

(* hc_pop_free_from: load the head; an empty stack makes the pop fail.     *)
PopLoad(t) ==
  /\ pc[t] = "pop_load"
  /\ LET head == free[ShardOf[t]]
     IN  IF head.idx = NULL_INDEX
         THEN /\ Goto(t, "exhausted")
              /\ UNCHANGED hd
         ELSE /\ Goto(t, "pop_next")
              /\ hd' = [hd EXCEPT ![t] = head]
  /\ UNCHANGED <<free, next, pkt, nx, avail>>

(* Read the `next` word of the packet that was the head when loaded.       *)
PopNext(t) ==
  /\ pc[t] = "pop_next"
  /\ nx' = [nx EXCEPT ![t] = next[hd[t].idx]]
  /\ Goto(t, "pop_cas")
  /\ UNCHANGED <<free, next, pkt, hd, avail>>

(* The CAS of the pop compares all 64 bits of the head.                    *)
PopSucceeds(t) == pc[t] = "pop_cas" /\ free[ShardOf[t]] = hd[t]

(* Fault: the pop stores the new head whatever the head is by now.         *)
PopStore(t) ==
  /\ pc[t] = "pop_cas"
  /\ free' = [free EXCEPT ![ShardOf[t]] = nx[t]]
  /\ pkt' = [pkt EXCEPT ![t] = hd[t].idx]
  /\ avail' = [avail EXCEPT ![ShardOf[t]] = @ \ {hd[t].idx}]
  /\ Goto(t, "own")
  /\ hd' = [hd EXCEPT ![t] = null_tagged]
  /\ nx' = [nx EXCEPT ![t] = null_tagged]
  /\ UNCHANGED next

PopCas(t) ==
  /\ pc[t] = "pop_cas"
  /\ IF free[ShardOf[t]] = hd[t]
     THEN /\ free' = [free EXCEPT ![ShardOf[t]] = nx[t]]
          /\ pkt' = [pkt EXCEPT ![t] = hd[t].idx]
          /\ avail' = [avail EXCEPT ![ShardOf[t]] = @ \ {hd[t].idx}]
          /\ Goto(t, "own")
     ELSE /\ Goto(t, "pop_load")
          /\ UNCHANGED <<free, pkt, avail>>
  /\ hd' = [hd EXCEPT ![t] = null_tagged]
  /\ nx' = [nx EXCEPT ![t] = null_tagged]
  /\ UNCHANGED next

(* hc_push_with on the free stack: load the head and link the packet to it.*)
FreeLink(t) ==
  /\ pc[t] = "free_link"
  /\ hd' = [hd EXCEPT ![t] = free[ShardOf[t]]]
  /\ next' = [next EXCEPT ![pkt[t]] = free[ShardOf[t]]]
  /\ Goto(t, "free_cas")
  /\ UNCHANGED <<free, pkt, nx, avail>>

(* The CAS of the push; from here on the packet is not the caller's.       *)
FreeCas(t) ==
  /\ pc[t] = "free_cas"
  /\ IF free[ShardOf[t]] = hd[t]
     THEN /\ free' = [free EXCEPT ![ShardOf[t]] = make_tagged(bump_tag(hd[t]), pkt[t])]
          /\ pkt' = [pkt EXCEPT ![t] = NULL_INDEX]
          /\ avail' = [avail EXCEPT ![ShardOf[t]] = @ \union {pkt[t]}]
          /\ Goto(t, "idle")
     ELSE /\ Goto(t, "free_link")
          /\ UNCHANGED <<free, pkt, avail>>
  /\ hd' = [hd EXCEPT ![t] = null_tagged]
  /\ UNCHANGED <<next, nx>>

(* reinit_packets, between two kernels: the stacks are as init left them.  *)
ReinitStacks ==
  /\ \A t \in Callers : pc[t] = "idle"
  /\ free' = HeadAtInit
  /\ next' = ChainAtInit
  /\ avail' = Share
  /\ UNCHANGED <<pc, pkt, hd, nx>>

-----------------------------------------------------------------------------
(* What a caller does around the stack, as far as the stack can tell: it   *)
(* starts a call, gives up when the pool is exhausted or tries again, uses *)
(* its packet (which overwrites `next` when it goes on the ready stack),   *)
(* returns it, or walks away from it.  Module Hostcall has the real calls. *)

BeginPop(t) == /\ pc[t] \in {"idle", "exhausted"}
               /\ Goto(t, "pop_load")
               /\ UNCHANGED <<free, next, pkt, hd, nx, avail>>

GiveUp(t) == /\ pc[t] = "exhausted"
             /\ Goto(t, "idle")
             /\ UNCHANGED <<free, next, pkt, hd, nx, avail>>

UsePacket(t) == /\ pc[t] = "own"
                /\ \E word \in LinkWords : next' = [next EXCEPT ![pkt[t]] = word]
                /\ UNCHANGED <<free, pc, pkt, hd, nx, avail>>

BeginFree(t) == /\ pc[t] = "own"
                /\ Goto(t, "free_link")
                /\ UNCHANGED <<free, next, pkt, hd, nx, avail>>

WalkAway(t) == /\ pc[t] = "own"
               /\ pkt' = [pkt EXCEPT ![t] = NULL_INDEX]
               /\ Goto(t, "idle")
               /\ UNCHANGED <<free, next, hd, nx, avail>>

PoolStep(t) == PopLoad(t) \/ PopNext(t) \/ PopCas(t) \/ FreeLink(t) \/ FreeCas(t)
CallerStep(t) == BeginPop(t) \/ GiveUp(t) \/ UsePacket(t) \/ BeginFree(t) \/ WalkAway(t)

StackNext == \/ \E t \in Callers : PoolStep(t) \/ CallerStep(t)
             \/ ReinitStacks

StackSpec == StackInit /\ [][StackNext]_stackVars

-----------------------------------------------------------------------------
StackLabels == {"idle", "pop_load", "pop_next", "pop_cas", "exhausted",
                "own", "free_link", "free_cas"}

(* The words of the stack and the callers' locals have the shape the code  *)
(* gives them, and a caller has a packet exactly between pop and push.     *)
StackTypeOK ==
  /\ free \in [Shards -> Tagged]
  /\ next \in [Packets -> Tagged]
  /\ pc \in [Callers -> StackLabels]
  /\ pkt \in [Callers -> Index]
  /\ hd \in [Callers -> Tagged]
  /\ nx \in [Callers -> Tagged]
  /\ avail \in [Shards -> SUBSET Packets]
  /\ \A t \in Callers :
       /\ pkt[t] # NULL_INDEX <=> pc[t] \in {"own", "free_link", "free_cas"}
       /\ pc[t] \in {"pop_next", "pop_cas"} => hd[t].idx \in Packets

(* A successful pop "transfers exclusive ownership of the packet to the    *)
(* popping thread. The packet is not on any stack until explicitly pushed  *)
(* back" (the comment in hc_pop_free_from): no two callers ever have the   *)
(* same packet.                                                            *)
ExclusiveOwner ==
  \A t, u \in Callers : t # u /\ pkt[t] # NULL_INDEX => pkt[t] # pkt[u]

(* What the tags are for: when the CAS of a pop is about to succeed, the   *)
(* word it puts at the head is what the head packet links to now, not what *)
(* it linked to at some earlier time when the head looked the same.  A tag *)
(* that is put back by a pop can return, so long runs of the code lose     *)
(* this; what depends on it says so.                                       *)
NoABA ==
  \A t \in Callers : PopSucceeds(t) => nx[t] = next[hd[t].idx]

(* The packets reached from an index along the `next` words: those in all *)
(* sets that have the first of them and, with a packet, what it links to.  *)
Linked(S) == \A p \in S : next[p].idx \in S \union {NULL_INDEX}

ChainFrom(i) ==
  {p \in Packets : \A S \in SUBSET Packets :
                     i \in S \union {NULL_INDEX} /\ Linked(S) => p \in S}

(* The packets a pop can reach: the head and what it links to, in turn.    *)
OnFreeStack(s) == ChainFrom(free[s].idx)

(* No packet is lost and none is there twice over: the packets that can be *)
(* popped are those that were pushed and not popped since.                 *)
StackHoldsAvail == \A s \in Shards : OnFreeStack(s) = avail[s]

(* The chains behind StackHoldsAvail and ExclusiveOwner, without their     *)
(* order: the head is available or null; what an available packet links to *)
(* is available or null, is not the head, and is linked to by no other; a  *)
(* caller's packet is its shard's and not available, and is linked to the  *)
(* head it saw when it is about to be pushed.  Inductive under NoABA.      *)
HeadAvailable == \A s \in Shards : free[s].idx \in avail[s] \union {NULL_INDEX}

ChainsClosed == \A s \in Shards : \A p \in avail[s] :
  /\ next[p].idx \in avail[s] \union {NULL_INDEX}
  /\ next[p].idx # NULL_INDEX => next[p].idx # free[s].idx

ChainsNeverJoin == \A s \in Shards : \A p, q \in avail[s] :
  next[p].idx = next[q].idx /\ next[p].idx # NULL_INDEX => p = q

OwnedIsNotAvailable == \A t \in Callers : pkt[t] # NULL_INDEX =>
  /\ pkt[t] \in ShardPackets(ShardOf[t])
  /\ \A s \in Shards : pkt[t] \notin avail[s]

PushIsLinked == \A t \in Callers : pc[t] = "free_cas" => next[pkt[t]] = hd[t]

PoolInvariant == /\ StackTypeOK
                 /\ \A s \in Shards : avail[s] \subseteq ShardPackets(s)
                 /\ HeadAvailable
                 /\ ChainsClosed
                 /\ ChainsNeverJoin
                 /\ OwnedIsNotAvailable
                 /\ ExclusiveOwner
                 /\ PushIsLinked

(* The pool the callers see.  Every step of the lock-free stack should be  *)
(* a step of the atomic pool, or invisible to it.                          *)
Pool == INSTANCE PacketPool WITH held <- pkt, Nobody <- NULL_INDEX

ImplementsPool == Pool!PoolSpec
=============================================================================
