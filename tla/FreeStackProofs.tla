-------------------------- MODULE FreeStackProofs ---------------------------
(***************************************************************************)
(* Theorems about the free stack, for any number of callers, shards and    *)
(* packets.  The stack is type-correct.  If a stale head never passes for  *)
(* the current one (NoABA), no packet ever has two owners and the stack    *)
(* implements the atomic pool; so the tags are the only thing between the  *)
(* code and its specification.  When no two callers share a shard NoABA    *)
(* holds, and with it the rest.                                            *)
(***************************************************************************)
EXTENDS FreeStack, WellFoundedInduction, TLAPS

-----------------------------------------------------------------------------
(* Arithmetic of the layout.                                               *)

LEMMA TimesMonotone ==
  ASSUME NEW a \in Nat, NEW b \in Nat, NEW k \in Nat, a <= b
  PROVE  a * k <= b * k
<1> DEFINE d == b - a
<1>1. d \in Nat /\ b = a + d
  OBVIOUS
<1>2. b * k = a * k + d * k
  BY <1>1
<1>3. d * k \in Nat /\ a * k \in Nat
  BY <1>1
<1> QED
  BY <1>2, <1>3

LEMMA ShardBounds ==
  ASSUME NEW s \in Shards
  PROVE  /\ s * PktsPerShard \in Nat
         /\ (s + 1) * PktsPerShard = s * PktsPerShard + PktsPerShard
         /\ s * PktsPerShard \in ShardPackets(s)
         /\ ShardPackets(s) \subseteq Packets
<1>1. NumShards \in Nat /\ PktsPerShard \in Nat /\ PktsPerShard > 0
  BY LayoutAssumption
<1>2. s \in Nat /\ s + 1 <= NumShards
  BY <1>1 DEF Shards
<1>3. s * PktsPerShard \in Nat /\ (s + 1) * PktsPerShard = s * PktsPerShard + PktsPerShard
  BY <1>1, <1>2
<1>4. (s + 1) * PktsPerShard <= NumShards * PktsPerShard
  BY <1>1, <1>2, TimesMonotone
<1>5. NumShards * PktsPerShard \in Nat
  BY <1>1
<1> QED
  BY <1>1, <1>3, <1>4, <1>5 DEF ShardPackets, Packets

LEMMA ShardsApart ==
  ASSUME NEW s \in Shards, NEW u \in Shards, NEW p \in ShardPackets(s), p \in ShardPackets(u)
  PROVE  s = u
<1>1. NumShards \in Nat /\ PktsPerShard \in Nat
  BY LayoutAssumption
<1>2. s \in Nat /\ u \in Nat
  BY <1>1 DEF Shards
<1>3. p \in Nat /\ s * PktsPerShard \in Nat /\ u * PktsPerShard \in Nat
  BY <1>1, <1>2, ShardBounds DEF ShardPackets
<1>4. ASSUME s + 1 <= u PROVE FALSE
  <2>1. (s + 1) * PktsPerShard <= u * PktsPerShard
    BY <1>1, <1>2, <1>4, TimesMonotone
  <2> QED
    BY <1>1, <1>2, <1>3, <2>1, ShardBounds DEF ShardPackets
<1>5. ASSUME u + 1 <= s PROVE FALSE
  <2>1. (u + 1) * PktsPerShard <= s * PktsPerShard
    BY <1>1, <1>2, <1>5, TimesMonotone
  <2> QED
    BY <1>1, <1>2, <1>3, <2>1, ShardBounds DEF ShardPackets
<1> QED
  BY <1>2, <1>4, <1>5

LEMMA PacketIsNotNull == NULL_INDEX \notin Packets
<1>1. NumShards * PktsPerShard \in Nat /\ NumShards * PktsPerShard <= NULL_INDEX
  BY LayoutAssumption
<1> QED
  BY <1>1 DEF Packets, NULL_INDEX

LEMMA WordFacts ==
  /\ null_tagged \in Tagged
  /\ null_tagged.idx = NULL_INDEX
  /\ \A tag \in 0 .. TagMod - 1, i \in Index : make_tagged(tag, i) \in Tagged
  /\ \A w \in Tagged : bump_tag(w) \in 0 .. TagMod - 1 /\ w.idx \in Index
<1>1. TagMod \in Nat /\ TagMod > 0
  BY TagAssumption
<1>2. \A w \in Tagged : (w.tag + 1) % TagMod \in 0 .. TagMod - 1
  BY <1>1 DEF Tagged
<1> QED
  BY <1>1, <1>2 DEF null_tagged, make_tagged, bump_tag, Tagged, Index

LEMMA InitialWords ==
  /\ HeadAtInit \in [Shards -> Tagged]
  /\ ChainAtInit \in [Packets -> Tagged]
  /\ Share \in [Shards -> SUBSET Packets]
<1>1. ASSUME NEW s \in Shards
      PROVE  make_tagged(0, s * PktsPerShard) \in Tagged /\ ShardPackets(s) \subseteq Packets
  <2>1. s * PktsPerShard \in Index
    BY ShardBounds DEF Index
  <2>2. 0 \in 0 .. TagMod - 1
    BY TagAssumption
  <2> QED
    BY <2>1, <2>2, ShardBounds, WordFacts
<1>2. ASSUME NEW p \in Packets, ~ IsLastOfShard(p)
      PROVE  make_tagged(0, p + 1) \in Tagged
  <2>1. NumShards \in Nat \ {0} /\ PktsPerShard \in Nat
    BY LayoutAssumption
  <2>2. p \in Nat /\ p <= NumShards * PktsPerShard - 1
    BY <2>1 DEF Packets
  <2>3. p # NumShards * PktsPerShard - 1
    <3>1. NumShards - 1 \in Shards /\ (NumShards - 1) + 1 = NumShards
      BY <2>1 DEF Shards
    <3>2. p # ((NumShards - 1) + 1) * PktsPerShard - 1
      BY <1>2, <3>1 DEF IsLastOfShard
    <3> QED
      BY <3>1, <3>2
  <2>4. NumShards * PktsPerShard \in Nat
    BY <2>1
  <2>5. p + 1 \in Index
    BY <2>2, <2>3, <2>4 DEF Index, Packets
  <2>6. 0 \in 0 .. TagMod - 1
    BY TagAssumption
  <2> QED
    BY <2>5, <2>6, WordFacts
<1> QED
  BY <1>1, <1>2, WordFacts DEF HeadAtInit, ChainAtInit, Share

-----------------------------------------------------------------------------
(* Induction along a chain.  The order of the natural numbers is well-     *)
(* founded, so a set of them that is not empty has a least member.         *)

LEMMA LeastNatural ==
  ASSUME NEW S \in SUBSET Nat, S # {}
  PROVE  \E n \in S : \A m \in S : n <= m
<1> DEFINE R == OpToRel(<, Nat)
<1>1. IsWellFoundedOn(R, Nat)
  BY NatLessThanWellFounded
<1> HIDE DEF R
<1>2. \E n \in S : \A m \in S : <<m, n>> \notin R
  BY <1>1, WFMin
<1>3. \A m, n \in Nat : m < n => <<m, n>> \in R
  BY DEF R, OpToRel
<1>4. PICK n \in S : \A m \in S : <<m, n>> \notin R
  BY <1>2
<1>5. \A m \in S : ~ (m < n)
  BY <1>3, <1>4
<1>6. \A m \in S : m \in Nat /\ n \in Nat
  BY <1>4
<1> QED
  BY <1>4, <1>5, <1>6

(* The shards have all packets between them.                               *)
LEMMA EveryPacketHasAShard ==
  ASSUME NEW p \in Packets
  PROVE  \E s \in Shards : p \in ShardPackets(s)
<1> DEFINE T == {n \in Nat : p < (n + 1) * PktsPerShard}
<1>1. NumShards \in Nat \ {0} /\ PktsPerShard \in Nat \ {0}
  BY LayoutAssumption
<1>2. p \in Nat /\ p <= NumShards * PktsPerShard - 1
  BY <1>1 DEF Packets
<1>3. NumShards - 1 \in T
  <2>1. NumShards - 1 \in Nat /\ (NumShards - 1) + 1 = NumShards
    BY <1>1
  <2>2. NumShards * PktsPerShard \in Nat
    BY <1>1
  <2> QED
    BY <1>2, <2>1, <2>2
<1>4. PICK n \in T : \A m \in T : n <= m
  <2> HIDE DEF T
  <2>1. T \in SUBSET Nat /\ T # {}
    BY <1>3 DEF T
  <2> QED
    BY <2>1, LeastNatural
<1>5. n \in Nat /\ n <= NumShards - 1 /\ p < (n + 1) * PktsPerShard
  BY <1>3, <1>4
<1>6. n \in Shards
  BY <1>1, <1>5 DEF Shards
<1>7. n * PktsPerShard <= p
  <2>1. CASE n = 0
    BY <1>1, <1>2, <2>1
  <2>2. CASE n # 0
    <3>1. n - 1 \in Nat /\ n - 1 \notin T /\ (n - 1) + 1 = n
      BY <1>4, <1>5, <2>2
    <3>2. ~ (p < n * PktsPerShard)
      BY <3>1
    <3>3. n * PktsPerShard \in Nat
      BY <1>1, <1>5
    <3> QED
      BY <1>2, <3>2, <3>3
  <2> QED
    BY <2>1, <2>2
<1>8. n * PktsPerShard \in Nat /\ (n + 1) * PktsPerShard \in Nat
  BY <1>1, <1>5
<1>9. p \in ShardPackets(n)
  BY <1>2, <1>5, <1>7, <1>8 DEF ShardPackets
<1> QED
  BY <1>6, <1>9

-----------------------------------------------------------------------------
(* Type correctness.                                                       *)

LEMMA StackTypeInit == StackInit => StackTypeOK
<1> SUFFICES ASSUME StackInit PROVE StackTypeOK
  OBVIOUS
<1> QED
  BY InitialWords, WordFacts
  DEF StackInit, StackTypeOK, StackLabels, Index

LEMMA StackTypeStep == StackTypeOK /\ [StackNext]_stackVars => StackTypeOK'
<1> SUFFICES ASSUME StackTypeOK, [StackNext]_stackVars PROVE StackTypeOK'
  OBVIOUS
<1> USE DEF StackTypeOK, StackLabels, Goto
<1>0. NULL_INDEX \in Index /\ Packets = Index \ {NULL_INDEX}
  BY PacketIsNotNull DEF Index
<1>1. ASSUME NEW t \in Callers PROVE ShardOf[t] \in Shards
  BY CallerAssumption
<1>2. ASSUME NEW t \in Callers, PopLoad(t) PROVE StackTypeOK'
  BY <1>0, <1>1, <1>2, WordFacts DEF PopLoad
<1>3. ASSUME NEW t \in Callers, PopNext(t) PROVE StackTypeOK'
  BY <1>0, <1>1, <1>3 DEF PopNext
<1>4. ASSUME NEW t \in Callers, PopCas(t) PROVE StackTypeOK'
  <2> DEFINE s == ShardOf[t]
  <2>1. s \in Shards /\ hd[t].idx \in Packets /\ null_tagged \in Tagged
    BY <1>1, <1>4, WordFacts DEF PopCas
  <2>2. CASE free[s] = hd[t]
    BY <1>0, <1>4, <2>1, <2>2 DEF PopCas
  <2>3. CASE free[s] # hd[t]
    BY <1>0, <1>4, <2>1, <2>3 DEF PopCas
  <2> QED
    BY <2>2, <2>3
<1>5. ASSUME NEW t \in Callers, FreeLink(t) PROVE StackTypeOK'
  BY <1>0, <1>1, <1>5 DEF FreeLink
<1>6. ASSUME NEW t \in Callers, FreeCas(t) PROVE StackTypeOK'
  <2>1. pkt[t] \in Packets
    BY <1>0, <1>6 DEF FreeCas
  <2>2. make_tagged(bump_tag(hd[t]), pkt[t]) \in Tagged
    BY WordFacts
  <2> DEFINE s == ShardOf[t]
  <2>3. s \in Shards /\ null_tagged \in Tagged
    BY <1>1, WordFacts
  <2>4. CASE free[s] = hd[t]
    BY <1>0, <1>6, <2>1, <2>2, <2>3, <2>4 DEF FreeCas
  <2>5. CASE free[s] # hd[t]
    BY <1>0, <1>6, <2>1, <2>3, <2>5 DEF FreeCas
  <2> QED
    BY <2>4, <2>5
<1>7. ASSUME NEW t \in Callers, CallerStep(t) PROVE StackTypeOK'
  BY <1>0, <1>7, TagAssumption DEF CallerStep, BeginPop, GiveUp, UsePacket, BeginFree, WalkAway
<1>8. ASSUME ReinitStacks PROVE StackTypeOK'
  BY <1>8, InitialWords DEF ReinitStacks
<1>9. ASSUME UNCHANGED stackVars PROVE StackTypeOK'
  BY <1>9 DEF stackVars
<1> QED
  BY <1>2, <1>3, <1>4, <1>5, <1>6, <1>7, <1>8, <1>9 DEF StackNext, PoolStep

(* The stack words and the callers' locals are well-formed in every        *)
(* behavior, whatever the callers do with stale words.                     *)
THEOREM StackTypeCorrect == StackSpec => []StackTypeOK
<1>1. StackInit => StackTypeOK
  BY StackTypeInit
<1>2. StackTypeOK /\ [StackNext]_stackVars => StackTypeOK'
  BY StackTypeStep
<1> QED
  BY <1>1, <1>2, PTL DEF StackSpec

-----------------------------------------------------------------------------
(* Exclusive ownership, if a stale head never passes for the current one.  *)

(* The words HostcallBuffer::init and reinit_packets write.                *)
Fresh == free = HeadAtInit /\ next = ChainAtInit /\ avail = Share

LEMMA FreshChains ==
  Fresh => /\ \A s \in Shards : avail[s] \subseteq ShardPackets(s)
           /\ HeadAvailable /\ ChainsClosed /\ ChainsNeverJoin
<1> SUFFICES ASSUME Fresh
             PROVE  /\ \A s \in Shards : avail[s] \subseteq ShardPackets(s)
                    /\ HeadAvailable /\ ChainsClosed /\ ChainsNeverJoin
  OBVIOUS
<1>1. \A s \in Shards : avail[s] = ShardPackets(s)
  BY DEF Fresh, Share
<1>2. HeadAvailable
  BY <1>1, ShardBounds DEF Fresh, HeadAtInit, HeadAvailable, make_tagged
<1>3. ASSUME NEW s \in Shards, NEW p \in ShardPackets(s), next[p].idx # NULL_INDEX
      PROVE  /\ next[p].idx = p + 1
             /\ p + 1 \in ShardPackets(s)
             /\ p + 1 # s * PktsPerShard
  <2>1. p \in Packets
    BY ShardBounds
  <2>2. next[p].idx = p + 1 /\ ~IsLastOfShard(p)
    BY <2>1, <1>3 DEF Fresh, ChainAtInit, null_tagged, make_tagged
  <2>3. p # (s + 1) * PktsPerShard - 1
    BY <2>2 DEF IsLastOfShard
  <2>4. PktsPerShard \in Nat /\ s * PktsPerShard \in Nat
        /\ (s + 1) * PktsPerShard = s * PktsPerShard + PktsPerShard
    BY ShardBounds, LayoutAssumption
  <2>5. p \in Nat /\ p >= s * PktsPerShard /\ p <= (s + 1) * PktsPerShard - 1
    BY <2>4 DEF ShardPackets
  <2> QED
    BY <2>2, <2>3, <2>4, <2>5 DEF ShardPackets
<1>4. ChainsClosed
  BY <1>1, <1>3 DEF ChainsClosed, Fresh, HeadAtInit, make_tagged
<1>5. ChainsNeverJoin
  <2>1. ASSUME NEW s \in Shards, NEW p \in ShardPackets(s) PROVE p \in Nat
    BY ShardBounds DEF ShardPackets
  <2> QED
    BY <1>1, <1>3, <2>1 DEF ChainsNeverJoin
<1> QED
  BY <1>1, <1>2, <1>4, <1>5

LEMMA PoolInvariantInit == StackInit => PoolInvariant
<1> SUFFICES ASSUME StackInit PROVE PoolInvariant
  OBVIOUS
<1>1. StackTypeOK
  BY StackTypeInit
<1>2. Fresh
  BY DEF StackInit, Fresh
<1>3. OwnedIsNotAvailable /\ ExclusiveOwner /\ PushIsLinked
  BY DEF StackInit, OwnedIsNotAvailable, ExclusiveOwner, PushIsLinked
<1> QED
  BY <1>1, <1>2, <1>3, FreshChains DEF PoolInvariant

LEMMA PoolInvariantStep ==
  PoolInvariant /\ NoABA /\ [StackNext]_stackVars => PoolInvariant'
<1> SUFFICES ASSUME PoolInvariant, NoABA, [StackNext]_stackVars PROVE PoolInvariant'
  OBVIOUS
<1> USE DEF PoolInvariant
<1>1. StackTypeOK'
  BY StackTypeStep
<1>2. NULL_INDEX \notin Packets /\ \A s \in Shards : ShardPackets(s) \subseteq Packets
  BY PacketIsNotNull, ShardBounds
<1>3. ASSUME NEW t \in Callers PROVE ShardOf[t] \in Shards
  BY CallerAssumption
<1>4. ASSUME NEW t \in Callers, PopLoad(t) \/ PopNext(t) \/ BeginPop(t) \/ GiveUp(t)
                                \/ BeginFree(t) \/ WalkAway(t)
      PROVE  PoolInvariant'
  <2>1. UNCHANGED <<free, next, avail>>
    BY <1>4 DEF PopLoad, PopNext, BeginPop, GiveUp, BeginFree, WalkAway
  <2>2. \A u \in Callers : pkt'[u] = pkt[u] \/ pkt'[u] = NULL_INDEX
    BY <1>4 DEF PopLoad, PopNext, BeginPop, GiveUp, BeginFree, WalkAway, StackTypeOK
  <2>3. \A u \in Callers : pc'[u] = "free_cas" =>
                             pc[u] = "free_cas" /\ hd'[u] = hd[u] /\ pkt'[u] = pkt[u]
    BY <1>4 DEF PopLoad, PopNext, BeginPop, GiveUp, BeginFree, WalkAway, StackTypeOK, Goto
  <2> QED
    BY <1>1, <2>1, <2>2, <2>3
    DEF HeadAvailable, ChainsClosed, ChainsNeverJoin, OwnedIsNotAvailable, ExclusiveOwner,
        PushIsLinked
<1>5. ASSUME NEW t \in Callers, UsePacket(t) \/ FreeLink(t) PROVE PoolInvariant'
  <2>1. PICK word : next' = [next EXCEPT ![pkt[t]] = word]
    BY <1>5 DEF UsePacket, FreeLink
  <2>2. UNCHANGED <<free, avail, pkt>> /\ pkt[t] # NULL_INDEX
    BY <1>5 DEF UsePacket, FreeLink, StackTypeOK
  <2>3. \A s \in Shards : \A p \in avail[s] : next'[p] = next[p]
    BY <1>2, <2>1, <2>2 DEF OwnedIsNotAvailable, StackTypeOK
  <2>4. PushIsLinked'
    <3> SUFFICES ASSUME NEW u \in Callers, pc'[u] = "free_cas"
                 PROVE  next'[pkt'[u]] = hd'[u]
      BY DEF PushIsLinked
    <3>1. CASE u = t
      <4>1. FreeLink(t) /\ pkt[t] \in Packets
        BY <1>5, <2>2, <3>1 DEF UsePacket, StackTypeOK, Index
      <4> QED
        BY <4>1, <2>2, <3>1 DEF FreeLink, StackTypeOK
    <3>2. CASE u # t
      <4>1. pc[u] = "free_cas" /\ hd'[u] = hd[u]
        BY <1>5, <3>2 DEF UsePacket, FreeLink, StackTypeOK, Goto
      <4>2. pkt[u] # NULL_INDEX /\ pkt[u] # pkt[t] /\ pkt[u] \in Packets
        BY <4>1, <3>2 DEF StackTypeOK, ExclusiveOwner, Index
      <4> QED
        BY <2>1, <2>2, <4>1, <4>2 DEF PushIsLinked, StackTypeOK
    <3> QED
      BY <3>1, <3>2
  <2> QED
    BY <1>1, <2>2, <2>3, <2>4
    DEF HeadAvailable, ChainsClosed, ChainsNeverJoin, OwnedIsNotAvailable, ExclusiveOwner
<1>6. ASSUME NEW t \in Callers, PopCas(t) PROVE PoolInvariant'
  <2> DEFINE s == ShardOf[t]
             p == hd[t].idx
  <2>1. CASE free[s] # hd[t]
    <3>1. UNCHANGED <<free, next, avail, pkt>>
      BY <1>6, <2>1 DEF PopCas
    <3>2. \A u \in Callers : pc'[u] = "free_cas" => pc[u] = "free_cas" /\ hd'[u] = hd[u]
      BY <1>6, <2>1 DEF PopCas, StackTypeOK, Goto
    <3> QED
      BY <1>1, <3>1, <3>2
      DEF HeadAvailable, ChainsClosed, ChainsNeverJoin, OwnedIsNotAvailable, ExclusiveOwner,
          PushIsLinked
  <2>2. CASE free[s] = hd[t]
    <3>1. s \in Shards /\ p \in Packets /\ p \in avail[s]
      BY <1>2, <1>3, <1>6, <2>2 DEF PopCas, StackTypeOK, HeadAvailable
    <3>2. nx[t] = next[p]
      BY <1>6, <2>2 DEF NoABA, PopSucceeds, PopCas
    <3>3. /\ free' = [free EXCEPT ![s] = next[p]]
          /\ pkt' = [pkt EXCEPT ![t] = p]
          /\ avail' = [avail EXCEPT ![s] = @ \ {p}]
          /\ UNCHANGED next
      BY <1>6, <2>2, <3>2 DEF PopCas
    <3>4. /\ free'[s] = next[p] /\ avail'[s] = avail[s] \ {p}
          /\ \A u \in Shards \ {s} : free'[u] = free[u] /\ avail'[u] = avail[u]
      BY <3>1, <3>3 DEF StackTypeOK
    <3>5. pkt'[t] = p /\ \A u \in Callers \ {t} : pkt'[u] = pkt[u]
      BY <3>3 DEF StackTypeOK
    <3>6. \A u \in Shards : avail'[u] \subseteq ShardPackets(u)
      BY <3>4
    <3>7. HeadAvailable' /\ ChainsClosed'
      <4>1. next[p].idx # p
        BY <1>2, <2>2, <3>1 DEF ChainsClosed
      <4> QED
        BY <2>2, <3>1, <3>3, <3>4, <4>1 DEF HeadAvailable, ChainsClosed, ChainsNeverJoin
    <3>8. ChainsNeverJoin'
      BY <3>3, <3>4 DEF ChainsNeverJoin
    <3>9. OwnedIsNotAvailable'
      <4>1. \A u \in Shards : p \notin avail'[u]
        BY <3>1, <3>4, ShardsApart
      <4> QED
        BY <3>1, <3>4, <3>5, <4>1 DEF OwnedIsNotAvailable
    <3>10. ExclusiveOwner'
      BY <3>1, <3>5 DEF ExclusiveOwner, OwnedIsNotAvailable
    <3>11. PushIsLinked'
      BY <1>6, <2>2, <3>3, <3>5 DEF PushIsLinked, PopCas, StackTypeOK, Goto
    <3> QED
      BY <1>1, <3>6, <3>7, <3>8, <3>9, <3>10, <3>11
  <2> QED
    BY <2>1, <2>2
<1>7. ASSUME NEW t \in Callers, FreeCas(t) PROVE PoolInvariant'
  <2> DEFINE s == ShardOf[t]
             p == pkt[t]
  <2>1. CASE free[s] # hd[t]
    <3>1. UNCHANGED <<free, next, avail, pkt>>
      BY <1>7, <2>1 DEF FreeCas
    <3>2. \A u \in Callers : pc'[u] = "free_cas" => pc[u] = "free_cas" /\ hd'[u] = hd[u]
      BY <1>7, <2>1 DEF FreeCas, StackTypeOK, Goto
    <3> QED
      BY <1>1, <3>1, <3>2
      DEF HeadAvailable, ChainsClosed, ChainsNeverJoin, OwnedIsNotAvailable, ExclusiveOwner,
          PushIsLinked
  <2>2. CASE free[s] = hd[t]
    <3>1. s \in Shards /\ p # NULL_INDEX /\ p \in ShardPackets(s)
      BY <1>3, <1>7 DEF FreeCas, StackTypeOK, OwnedIsNotAvailable
    <3>2. \A u \in Shards : p \notin avail[u]
      BY <3>1 DEF OwnedIsNotAvailable
    <3>3. next[p] = free[s]
      BY <1>7, <2>2 DEF FreeCas, PushIsLinked
    <3>4. /\ free' = [free EXCEPT ![s] = make_tagged(bump_tag(hd[t]), p)]
          /\ pkt' = [pkt EXCEPT ![t] = NULL_INDEX]
          /\ avail' = [avail EXCEPT ![s] = @ \union {p}]
          /\ UNCHANGED next
      BY <1>7, <2>2 DEF FreeCas
    <3>5. /\ free'[s].idx = p /\ avail'[s] = avail[s] \union {p}
          /\ \A u \in Shards \ {s} : free'[u] = free[u] /\ avail'[u] = avail[u]
      BY <3>1, <3>4 DEF StackTypeOK, make_tagged
    <3>6. pkt'[t] = NULL_INDEX /\ \A u \in Callers \ {t} : pkt'[u] = pkt[u]
      BY <3>4 DEF StackTypeOK
    <3>7. \A u \in Shards : avail'[u] \subseteq ShardPackets(u)
      BY <3>1, <3>5
    <3>8. HeadAvailable' /\ ChainsClosed'
      BY <3>1, <3>2, <3>3, <3>4, <3>5 DEF HeadAvailable, ChainsClosed
    <3>9. ChainsNeverJoin'
      BY <3>1, <3>2, <3>3, <3>4, <3>5 DEF ChainsNeverJoin, ChainsClosed
    <3>10. OwnedIsNotAvailable' /\ ExclusiveOwner'
      BY <3>1, <3>5, <3>6 DEF OwnedIsNotAvailable, ExclusiveOwner
    <3>11. PushIsLinked'
      BY <1>7, <2>2, <3>4, <3>6 DEF PushIsLinked, FreeCas, StackTypeOK, Goto
    <3> QED
      BY <1>1, <3>7, <3>8, <3>9, <3>10, <3>11
  <2> QED
    BY <2>1, <2>2
<1>8. ASSUME ReinitStacks PROVE PoolInvariant'
  <2>1. (Fresh => /\ \A s \in Shards : avail[s] \subseteq ShardPackets(s)
                  /\ HeadAvailable /\ ChainsClosed /\ ChainsNeverJoin)'
    BY FreshChains, PTL
  <2>2. Fresh'
    BY <1>8 DEF ReinitStacks, Fresh
  <2>3. \A t \in Callers : pc'[t] = "idle" /\ pkt'[t] = NULL_INDEX
    BY <1>8 DEF ReinitStacks, StackTypeOK
  <2>4. OwnedIsNotAvailable' /\ ExclusiveOwner' /\ PushIsLinked'
    BY <2>3 DEF OwnedIsNotAvailable, ExclusiveOwner, PushIsLinked
  <2> QED
    BY <1>1, <2>1, <2>2, <2>4
<1>9. ASSUME UNCHANGED stackVars PROVE PoolInvariant'
  BY <1>1, <1>9
  DEF stackVars, HeadAvailable, ChainsClosed, ChainsNeverJoin, OwnedIsNotAvailable,
      ExclusiveOwner, PushIsLinked
<1> QED
  BY <1>4, <1>5, <1>6, <1>7, <1>8, <1>9 DEF StackNext, PoolStep, CallerStep

LEMMA PoolInvariantHolds == StackSpec /\ []NoABA => []PoolInvariant
<1>1. StackInit => PoolInvariant
  BY PoolInvariantInit
<1>2. PoolInvariant /\ NoABA /\ [StackNext]_stackVars => PoolInvariant'
  BY PoolInvariantStep
<1> QED
  BY <1>1, <1>2, PTL DEF StackSpec

(* For any number of callers and packets: in a behavior in which the tags  *)
(* do what they are for, no packet ever has two owners.                    *)
THEOREM OwnershipIsExclusive == StackSpec /\ []NoABA => []ExclusiveOwner
<1>1. PoolInvariant => ExclusiveOwner
  BY DEF PoolInvariant
<1> QED
  BY <1>1, PoolInvariantHolds, PTL

LEMMA StackStepIsPoolStep ==
  PoolInvariant /\ NoABA /\ [StackNext]_stackVars => [Pool!PoolNext]_(Pool!poolVars)
<1> SUFFICES ASSUME PoolInvariant, NoABA, [StackNext]_stackVars
             PROVE  [Pool!PoolNext]_(Pool!poolVars)
  OBVIOUS
<1> USE DEF Pool!PoolNext, Pool!poolVars
<1>1. NULL_INDEX \notin Packets /\ StackTypeOK
  BY PacketIsNotNull DEF PoolInvariant
<1>2. ASSUME NEW t \in Callers, PopLoad(t) \/ PopNext(t) \/ FreeLink(t) \/ BeginPop(t)
                                \/ GiveUp(t) \/ UsePacket(t) \/ BeginFree(t)
      PROVE  UNCHANGED <<avail, pkt>>
  BY <1>2 DEF PopLoad, PopNext, FreeLink, BeginPop, GiveUp, UsePacket, BeginFree
<1>3. ASSUME NEW t \in Callers, PopCas(t)
      PROVE  Pool!PoolNext \/ UNCHANGED <<avail, pkt>>
  <2>1. CASE free[ShardOf[t]] = hd[t]
    <3>1. ShardOf[t] \in Shards /\ hd[t].idx \in Packets /\ pkt[t] = NULL_INDEX
      BY <1>1, <1>3, CallerAssumption DEF PopCas, StackTypeOK
    <3>2. hd[t].idx \in avail[ShardOf[t]]
      BY <1>1, <2>1, <3>1 DEF PoolInvariant, HeadAvailable
    <3>3. Pool!Take(t, hd[t].idx)
      BY <1>3, <2>1, <3>1, <3>2 DEF PopCas, Pool!Take
    <3> QED
      BY <3>1, <3>3
  <2>2. CASE free[ShardOf[t]] # hd[t]
    BY <1>3, <2>2 DEF PopCas
  <2> QED
    BY <2>1, <2>2
<1>4. ASSUME NEW t \in Callers, FreeCas(t)
      PROVE  Pool!PoolNext \/ UNCHANGED <<avail, pkt>>
  <2>1. CASE free[ShardOf[t]] = hd[t]
    <3>1. Pool!Give(t)
      BY <1>1, <1>4, <2>1 DEF FreeCas, Pool!Give, StackTypeOK
    <3> QED
      BY <3>1
  <2>2. CASE free[ShardOf[t]] # hd[t]
    BY <1>4, <2>2 DEF FreeCas
  <2> QED
    BY <2>1, <2>2
<1>5. ASSUME NEW t \in Callers, WalkAway(t) PROVE Pool!PoolNext
  <2>1. Pool!Forget(t)
    BY <1>1, <1>5 DEF WalkAway, Pool!Forget, StackTypeOK
  <2> QED
    BY <2>1
<1>6. ASSUME ReinitStacks PROVE Pool!PoolNext
  <2>1. pkt = [t \in Callers |-> NULL_INDEX]
    BY <1>1, <1>6 DEF ReinitStacks, StackTypeOK
  <2>2. Pool!Refill
    BY <1>6, <2>1 DEF ReinitStacks, Pool!Refill
  <2> QED
    BY <2>2
<1>7. ASSUME UNCHANGED stackVars PROVE UNCHANGED <<avail, pkt>>
  BY <1>7 DEF stackVars
<1> QED
  BY <1>2, <1>3, <1>4, <1>5, <1>6, <1>7 DEF StackNext, PoolStep, CallerStep

(* In such a behavior the lock-free stack implements the atomic pool: each *)
(* of its steps is a Take, a Give, a Forget or a Refill, or changes none   *)
(* of what the callers see.                                                *)
THEOREM StackImplementsPool == StackSpec /\ []NoABA => ImplementsPool
<1>1. StackInit => Pool!PoolInit
  BY DEF StackInit, Pool!PoolInit
<1>2. PoolInvariant /\ NoABA /\ [StackNext]_stackVars => [Pool!PoolNext]_(Pool!poolVars)
  BY StackStepIsPoolStep
<1> QED
  BY <1>1, <1>2, PoolInvariantHolds, PTL DEF StackSpec, ImplementsPool, Pool!PoolSpec

-----------------------------------------------------------------------------
(* What can be popped.  A set that has the head of a shard's stack and is  *)
(* closed under its links has all that is available in the shard.          *)

ChainsReach == \A s \in Shards : \A S \in SUBSET Packets :
  free[s].idx \in S \union {NULL_INDEX} /\ Linked(S) => avail[s] \subseteq S

LEMMA FreshReach == Fresh => ChainsReach
<1> SUFFICES ASSUME Fresh, NEW s \in Shards, NEW S \in SUBSET Packets,
                    free[s].idx \in S \union {NULL_INDEX}, Linked(S)
             PROVE  avail[s] \subseteq S
  BY DEF ChainsReach
<1> DEFINE T == ShardPackets(s) \ S
           first == s * PktsPerShard
<1>1. /\ NULL_INDEX \notin Packets /\ ShardPackets(s) \subseteq Packets
      /\ first \in Nat /\ first \in ShardPackets(s) /\ PktsPerShard \in Nat
      /\ (s + 1) * PktsPerShard = first + PktsPerShard
  BY PacketIsNotNull, ShardBounds, LayoutAssumption
<1>2. first \in S
  BY <1>1 DEF Fresh, HeadAtInit, make_tagged
<1>3. ASSUME T # {} PROVE FALSE
  <2>1. T \in SUBSET Nat
    BY <1>1 DEF ShardPackets
  <2>2. PICK n \in T : \A m \in T : n <= m
    <3> HIDE DEF T
    <3> QED
      BY <1>3, <2>1, LeastNatural
  <2>3. n \in Nat /\ first < n /\ n <= (s + 1) * PktsPerShard - 1
    BY <1>1, <1>2, <2>2 DEF ShardPackets
  <2>4. n - 1 \in ShardPackets(s) /\ n - 1 \in Packets /\ n - 1 # (s + 1) * PktsPerShard - 1
    BY <1>1, <2>3 DEF ShardPackets
  <2>5. n - 1 \in S
    BY <2>2, <2>3, <2>4
  <2>6. ~ IsLastOfShard(n - 1)
    <3> SUFFICES ASSUME NEW u \in Shards, n - 1 = (u + 1) * PktsPerShard - 1 PROVE FALSE
      BY DEF IsLastOfShard
    <3>1. n - 1 \in ShardPackets(u)
      BY ShardBounds, LayoutAssumption DEF ShardPackets
    <3>2. s = u
      BY <2>4, <3>1, ShardsApart
    <3> QED
      BY <2>4, <3>2
  <2>7. next[n - 1].idx = n
    BY <2>3, <2>4, <2>6 DEF Fresh, ChainAtInit, make_tagged
  <2>8. n \in S \union {NULL_INDEX}
    BY <2>5, <2>7 DEF Linked
  <2> QED
    BY <1>1, <2>2, <2>8
<1>4. avail[s] = ShardPackets(s)
  BY DEF Fresh, Share
<1> QED
  BY <1>3, <1>4

LEMMA ChainsReachStep ==
  PoolInvariant /\ NoABA /\ ChainsReach /\ [StackNext]_stackVars => ChainsReach'
<1> SUFFICES ASSUME PoolInvariant, NoABA, ChainsReach, [StackNext]_stackVars
             PROVE  ChainsReach'
  OBVIOUS
<1>1. StackTypeOK /\ NULL_INDEX \notin Packets
  BY PacketIsNotNull DEF PoolInvariant
<1>2. ASSUME UNCHANGED <<free, next, avail>> PROVE ChainsReach'
  BY <1>2 DEF ChainsReach, Linked
<1>3. ASSUME NEW t \in Callers, PopLoad(t) \/ PopNext(t) \/ BeginPop(t) \/ GiveUp(t)
                                \/ BeginFree(t) \/ WalkAway(t)
      PROVE  ChainsReach'
  <2>1. UNCHANGED <<free, next, avail>>
    BY <1>3 DEF PopLoad, PopNext, BeginPop, GiveUp, BeginFree, WalkAway
  <2> QED
    BY <1>2, <2>1
<1>4. ASSUME NEW t \in Callers, UsePacket(t) \/ FreeLink(t) PROVE ChainsReach'
  <2>1. PICK word : next' = [next EXCEPT ![pkt[t]] = word]
    BY <1>4 DEF UsePacket, FreeLink
  <2>2. UNCHANGED <<free, avail>> /\ pkt[t] # NULL_INDEX
    BY <1>1, <1>4 DEF UsePacket, FreeLink, StackTypeOK
  <2>3. \A s \in Shards : \A p \in avail[s] : p \in Packets /\ next'[p] = next[p]
    BY <1>1, <2>1, <2>2 DEF PoolInvariant, OwnedIsNotAvailable, StackTypeOK
  <2> SUFFICES ASSUME NEW s \in Shards, NEW S \in SUBSET Packets,
                      free[s].idx \in S \union {NULL_INDEX}, Linked(S)'
               PROVE  avail[s] \subseteq S
    BY <2>2 DEF ChainsReach
  <2> DEFINE A == S \intersect avail[s]
  <2>4. free[s].idx \in A \union {NULL_INDEX}
    BY DEF PoolInvariant, HeadAvailable
  <2>5. Linked(A)
    BY <2>3 DEF Linked, PoolInvariant, ChainsClosed
  <2>6. A \in SUBSET Packets
    OBVIOUS
  <2> QED
    BY <2>4, <2>5, <2>6 DEF ChainsReach
<1>5. ASSUME NEW t \in Callers, PopCas(t) PROVE ChainsReach'
  <2> DEFINE h == ShardOf[t]
             p == hd[t].idx
  <2>1. CASE free[h] # hd[t]
    BY <1>2, <1>5, <2>1 DEF PopCas
  <2>2. CASE free[h] = hd[t]
    <3>1. h \in Shards /\ p \in Packets
      BY <1>1, <1>5, CallerAssumption DEF PopCas, StackTypeOK
    <3>2. /\ free' = [free EXCEPT ![h] = next[p]]
          /\ avail' = [avail EXCEPT ![h] = @ \ {p}]
          /\ UNCHANGED next
      BY <1>5, <2>2 DEF PopCas, NoABA, PopSucceeds
    <3>3. /\ free'[h] = next[p] /\ avail'[h] = avail[h] \ {p}
          /\ \A u \in Shards \ {h} : free'[u] = free[u] /\ avail'[u] = avail[u]
      BY <1>1, <3>1, <3>2 DEF StackTypeOK
    <3> SUFFICES ASSUME NEW s \in Shards, NEW S \in SUBSET Packets,
                        free'[s].idx \in S \union {NULL_INDEX}, Linked(S)'
                 PROVE  avail'[s] \subseteq S
      BY DEF ChainsReach
    <3>4. Linked(S)
      BY <3>2 DEF Linked
    <3>5. CASE s # h
      BY <3>3, <3>4, <3>5 DEF ChainsReach
    <3>6. CASE s = h
      <4>1. Linked(S \union {p})
        BY <3>3, <3>4, <3>6 DEF Linked
      <4>2. avail[s] \subseteq S \union {p}
        BY <2>2, <3>1, <3>6, <4>1 DEF ChainsReach
      <4> QED
        BY <3>3, <3>6, <4>2
    <3> QED
      BY <3>5, <3>6
  <2> QED
    BY <2>1, <2>2
<1>6. ASSUME NEW t \in Callers, FreeCas(t) PROVE ChainsReach'
  <2> DEFINE h == ShardOf[t]
             p == pkt[t]
  <2>1. CASE free[h] # hd[t]
    BY <1>2, <1>6, <2>1 DEF FreeCas
  <2>2. CASE free[h] = hd[t]
    <3>1. h \in Shards /\ p \in Packets
      BY <1>1, <1>6, CallerAssumption DEF FreeCas, StackTypeOK, Index
    <3>2. next[p] = free[h]
      BY <1>6, <2>2 DEF FreeCas, PoolInvariant, PushIsLinked
    <3>3. /\ free' = [free EXCEPT ![h] = make_tagged(bump_tag(hd[t]), p)]
          /\ avail' = [avail EXCEPT ![h] = @ \union {p}]
          /\ UNCHANGED next
      BY <1>6, <2>2 DEF FreeCas
    <3>4. /\ free'[h].idx = p /\ avail'[h] = avail[h] \union {p}
          /\ \A u \in Shards \ {h} : free'[u] = free[u] /\ avail'[u] = avail[u]
      BY <1>1, <3>1, <3>3 DEF StackTypeOK, make_tagged
    <3> SUFFICES ASSUME NEW s \in Shards, NEW S \in SUBSET Packets,
                        free'[s].idx \in S \union {NULL_INDEX}, Linked(S)'
                 PROVE  avail'[s] \subseteq S
      BY DEF ChainsReach
    <3>5. Linked(S)
      BY <3>3 DEF Linked
    <3>6. CASE s # h
      BY <3>4, <3>5, <3>6 DEF ChainsReach
    <3>7. CASE s = h
      <4>1. p \in S
        BY <1>1, <3>1, <3>4, <3>7
      <4>2. free[s].idx \in S \union {NULL_INDEX}
        BY <3>2, <3>5, <3>7, <4>1 DEF Linked
      <4> QED
        BY <3>4, <3>5, <3>7, <4>1, <4>2 DEF ChainsReach
    <3> QED
      BY <3>6, <3>7
  <2> QED
    BY <2>1, <2>2
<1>7. ASSUME ReinitStacks PROVE ChainsReach'
  <2>1. Fresh'
    BY <1>7 DEF ReinitStacks, Fresh
  <2>2. (Fresh => ChainsReach)'
    BY FreshReach, PTL
  <2> QED
    BY <2>1, <2>2
<1> QED
  BY <1>2, <1>3, <1>4, <1>5, <1>6, <1>7 DEF StackNext, PoolStep, CallerStep, stackVars

(* ChainFrom as the least closed set: it is inside each of them, has its   *)
(* first packet, and is closed.                                            *)
LEMMA ChainInside ==
  ASSUME NEW S \in SUBSET Packets, NEW i \in S \union {NULL_INDEX}, Linked(S)
  PROVE  ChainFrom(i) \subseteq S
  BY DEF ChainFrom

LEMMA ChainStarts ==
  ASSUME NEW i \in Packets
  PROVE  i \in ChainFrom(i)
  BY PacketIsNotNull DEF ChainFrom

LEMMA ChainGoesOn ==
  ASSUME next \in [Packets -> Tagged], NEW i
  PROVE  Linked(ChainFrom(i))
<1> SUFFICES ASSUME NEW p \in ChainFrom(i), next[p].idx # NULL_INDEX
             PROVE  next[p].idx \in ChainFrom(i)
  BY DEF Linked
<1>1. p \in Packets
  BY DEF ChainFrom
<1>2. next[p].idx \in Packets
  BY <1>1, WordFacts DEF Index
<1>3. ASSUME NEW S \in SUBSET Packets, i \in S \union {NULL_INDEX}, Linked(S)
      PROVE  next[p].idx \in S
  <2>1. p \in S
    BY <1>3 DEF ChainFrom
  <2> QED
    BY <1>3, <2>1 DEF Linked
<1> QED
  BY <1>2, <1>3 DEF ChainFrom

LEMMA ReachableIsAvailable == PoolInvariant /\ ChainsReach => StackHoldsAvail
<1> SUFFICES ASSUME PoolInvariant, ChainsReach, NEW s \in Shards
             PROVE  ChainFrom(free[s].idx) = avail[s]
  BY DEF StackHoldsAvail, OnFreeStack
<1>1. avail[s] \in SUBSET Packets
  BY DEF PoolInvariant, StackTypeOK
<1>2. free[s].idx \in avail[s] \union {NULL_INDEX} /\ Linked(avail[s])
  BY DEF PoolInvariant, HeadAvailable, ChainsClosed, Linked
<1>3. ChainFrom(free[s].idx) \subseteq avail[s]
  BY <1>1, <1>2, ChainInside
<1>4. avail[s] \subseteq ChainFrom(free[s].idx)
  BY <1>1 DEF ChainFrom, ChainsReach
<1> QED
  BY <1>3, <1>4

(* In a behavior in which the tags do what they are for, no packet is lost *)
(* and none joins a stack it was not pushed on: the packets that pops can  *)
(* reach from the head are just those pushed and not popped since.         *)
THEOREM NothingIsLost == StackSpec /\ []NoABA => []StackHoldsAvail
<1>1. StackInit => ChainsReach
  <2>1. StackInit => Fresh
    BY DEF StackInit, Fresh
  <2> QED
    BY <2>1, FreshReach
<1>2. PoolInvariant /\ NoABA /\ ChainsReach /\ [StackNext]_stackVars => ChainsReach'
  BY ChainsReachStep
<1>3. PoolInvariant /\ ChainsReach => StackHoldsAvail
  BY ReachableIsAvailable
<1> QED
  BY <1>1, <1>2, <1>3, PoolInvariantHolds, PTL DEF StackSpec

-----------------------------------------------------------------------------
(* One caller per shard: a buffer with a shard for every block, and blocks *)
(* that make one hostcall at a time.                                       *)

SoleCallers == \A t, u \in Callers : ShardOf[t] = ShardOf[u] => t = u

(* What the one caller has read of the stack is still so.                  *)
CopiesAreCurrent == \A t \in Callers :
  /\ pc[t] \in {"pop_next", "pop_cas"} => hd[t] = free[ShardOf[t]]
  /\ pc[t] = "pop_cas" => nx[t] = next[hd[t].idx]

LEMMA CopiesStayCurrent ==
  ASSUME SoleCallers
  PROVE  PoolInvariant /\ CopiesAreCurrent /\ [StackNext]_stackVars => CopiesAreCurrent'
<1> SUFFICES ASSUME PoolInvariant, CopiesAreCurrent, [StackNext]_stackVars,
                    NEW t \in Callers
             PROVE  /\ pc'[t] \in {"pop_next", "pop_cas"} => hd'[t] = free'[ShardOf[t]]
                    /\ pc'[t] = "pop_cas" => nx'[t] = next'[hd'[t].idx]
  BY DEF CopiesAreCurrent
<1> DEFINE s == ShardOf[t]
<1> USE DEF Goto
<1>1. StackTypeOK /\ s \in Shards /\ NULL_INDEX \notin Packets
  BY CallerAssumption, PacketIsNotNull DEF PoolInvariant
<1>2. CASE PoolStep(t) \/ CallerStep(t)
  <2>1. CASE PopLoad(t)
    BY <1>1, <2>1 DEF PopLoad, StackTypeOK
  <2>2. CASE PopNext(t)
    BY <1>1, <2>2 DEF PopNext, StackTypeOK, CopiesAreCurrent
  <2>3. CASE PopCas(t) \/ FreeLink(t) \/ FreeCas(t) \/ CallerStep(t)
    <3>1. pc'[t] \notin {"pop_next", "pop_cas"}
      BY <1>1, <2>3
      DEF PopCas, FreeLink, FreeCas, CallerStep, BeginPop, GiveUp, UsePacket, BeginFree,
          WalkAway, StackTypeOK
    <3> QED
      BY <3>1
  <2> QED
    BY <1>2, <2>1, <2>2, <2>3 DEF PoolStep
<1>3. ASSUME NEW u \in Callers \ {t}, PoolStep(u) \/ CallerStep(u)
      PROVE  /\ pc'[t] \in {"pop_next", "pop_cas"} => hd'[t] = free'[s]
             /\ pc'[t] = "pop_cas" => nx'[t] = next'[hd'[t].idx]
  <2>1. ShardOf[u] # s /\ ShardOf[u] \in Shards
    BY <1>3, CallerAssumption DEF SoleCallers
  <2>2. UNCHANGED <<pc[t], hd[t], nx[t]>>
    BY <1>1, <1>3
    DEF PoolStep, CallerStep, PopLoad, PopNext, PopCas, FreeLink, FreeCas, BeginPop, GiveUp,
        UsePacket, BeginFree, WalkAway, StackTypeOK
  <2>3. free'[s] = free[s]
    BY <1>1, <1>3, <2>1
    DEF PoolStep, CallerStep, PopLoad, PopNext, PopCas, FreeLink, FreeCas, BeginPop, GiveUp,
        UsePacket, BeginFree, WalkAway, StackTypeOK
  <2>4. ASSUME pc[t] \in {"pop_next", "pop_cas"} PROVE next'[hd[t].idx] = next[hd[t].idx]
    <3>1. hd[t].idx \in ShardPackets(s)
      BY <1>1, <2>4 DEF StackTypeOK, CopiesAreCurrent, PoolInvariant, HeadAvailable
    <3>2. pkt[u] # NULL_INDEX => pkt[u] \in ShardPackets(ShardOf[u])
      BY <1>3 DEF PoolInvariant, OwnedIsNotAvailable
    <3>3. pkt[u] # hd[t].idx
      BY <1>1, <2>1, <2>4, <3>1, <3>2, ShardsApart DEF StackTypeOK
    <3>4. next' = next \/ \E word : next' = [next EXCEPT ![pkt[u]] = word]
      BY <1>3
      DEF PoolStep, CallerStep, PopLoad, PopNext, PopCas, FreeLink, FreeCas, BeginPop, GiveUp,
          UsePacket, BeginFree, WalkAway
    <3> QED
      BY <1>1, <2>4, <3>3, <3>4 DEF StackTypeOK
  <2> QED
    BY <2>2, <2>3, <2>4 DEF CopiesAreCurrent
<1>4. CASE ReinitStacks
  <2>1. pc'[t] = "idle"
    BY <1>4 DEF ReinitStacks
  <2> QED
    BY <2>1
<1>5. CASE UNCHANGED stackVars
  BY <1>5 DEF stackVars, CopiesAreCurrent
<1> QED
  BY <1>2, <1>3, <1>4, <1>5 DEF StackNext

LEMMA CurrentCopiesPreventABA == CopiesAreCurrent => NoABA
  BY DEF CopiesAreCurrent, NoABA, PopSucceeds

(* With one caller per shard a stale head never passes for the current     *)
(* one, whatever the tags are, even TagMod = 1.                            *)
THEOREM SoleCallersAreSafe ==
  ASSUME SoleCallers
  PROVE  StackSpec => []NoABA
<1>1. StackInit => PoolInvariant /\ CopiesAreCurrent
  <2>1. StackInit => CopiesAreCurrent
    BY DEF StackInit, CopiesAreCurrent
  <2> QED
    BY <2>1, PoolInvariantInit
<1>2. PoolInvariant /\ CopiesAreCurrent /\ [StackNext]_stackVars
        => (PoolInvariant /\ CopiesAreCurrent)'
  BY PoolInvariantStep, CopiesStayCurrent, CurrentCopiesPreventABA
<1>3. PoolInvariant /\ CopiesAreCurrent => NoABA
  BY CurrentCopiesPreventABA
<1> QED
  BY <1>1, <1>2, <1>3, PTL DEF StackSpec
=============================================================================
