---------------------------- MODULE ChannelProofs ---------------------------
(***************************************************************************)
(* Theorems about Channel, for any number of senders, any capacity and     *)
(* every kind of channel and receiver.  The invariant ties the sequence    *)
(* word of each slot to the position the slot serves: positions from the   *)
(* tail on, one lap of them, each free, claimed or published.              *)
(***************************************************************************)
EXTENDS Channel, TLAPS

-----------------------------------------------------------------------------
(* Arithmetic of the ring: position p of the channel is in slot p % n.     *)

LEMMA Division ==
  ASSUME NEW p \in Nat, NEW n \in Nat \ {0}
  PROVE  p = (p \div n) * n + (p % n) /\ p \div n \in Nat /\ p % n \in 0 .. n - 1
  BY Z3T(20)

LEMMA MultiplesApart ==
  ASSUME NEW m \in Nat, NEW a \in Nat, NEW b \in Nat, a < b
  PROVE  a * m + m <= b * m
<1> DEFINE d == b - a - 1
<1>1. b * m = a * m + m + d * m /\ d * m \in Nat /\ a * m \in Nat
  OBVIOUS
<1> QED
  BY <1>1

LEMMA ModIsUnique ==
  ASSUME NEW p \in Nat, NEW n \in Nat \ {0}, NEW k \in Nat, NEW r \in 0 .. n - 1,
         p = k * n + r
  PROVE  p % n = r
  BY Z3T(20)

(* A lap later the word is the same, ...                                   *)
LEMMA ModWraps ==
  ASSUME NEW p \in Nat, NEW n \in Nat \ {0}
  PROVE  (p + n) % n = p % n
<1> DEFINE k == p \div n
<1>1. k \in Nat /\ p = k * n + (p % n) /\ p % n \in 0 .. n - 1
  BY Division
<1>2. p + n = (k + 1) * n + (p % n) /\ p + n \in Nat /\ k + 1 \in Nat
  BY <1>1
<1> HIDE DEF k
<1> QED
  BY <1>1, <1>2, ModIsUnique

(* ... and within a lap no two positions share one.                        *)
LEMMA ModApart ==
  ASSUME NEW p \in Nat, NEW q \in Nat, NEW n \in Nat \ {0}, p < q, q < p + n
  PROVE  p % n # q % n
<1>1. /\ p = (p \div n) * n + (p % n) /\ p \div n \in Nat /\ p % n \in Nat
      /\ q = (q \div n) * n + (q % n) /\ q \div n \in Nat
  BY Division
<1>2. ASSUME p \div n < q \div n, p % n = q % n PROVE FALSE
  BY <1>1, <1>2, MultiplesApart
<1>3. ASSUME q \div n <= p \div n, p % n = q % n PROVE FALSE
  BY <1>1, <1>3, MultiplesApart
<1> QED
  BY <1>1, <1>2, <1>3

LEMMA CapacityIsPositive == N \in Nat \ {0}
  BY CapacityAssumption

LEMMA SlotIsIndex == ASSUME NEW p \in Nat PROVE Slot(p) \in Indices
  BY CapacityIsPositive, Division DEF Slot, Indices

LEMMA SlotNextLap == ASSUME NEW p \in Nat PROVE Slot(p + N) = Slot(p)
<1>1. (p + N) % N = p % N
  BY CapacityIsPositive, ModWraps, Zenon
<1> QED BY <1>1 DEF Slot

LEMMA SlotsOfALap ==
  ASSUME NEW t \in Nat, NEW p \in Nat, NEW q \in Nat, p # q,
         t <= p, p < t + N, t <= q, q < t + N
  PROVE  Slot(p) # Slot(q)
<1>1. ASSUME NEW a \in Nat, NEW b \in Nat, a < b, b < a + N PROVE a % N # b % N
  BY <1>1, CapacityIsPositive, ModApart, Zenon
<1>2. CASE p < q
  <2>1. q < p + N
    BY CapacityIsPositive
  <2> QED BY <1>1, <1>2, <2>1 DEF Slot
<1>3. CASE q < p
  <2>1. p < q + N
    BY CapacityIsPositive
  <2> QED BY <1>1, <1>3, <2>1 DEF Slot
<1> QED BY <1>2, <1>3

-----------------------------------------------------------------------------
(* The invariant.                                                          *)

(* The oldest position whose value has not been received.                  *)
First == IF rpc \in {"recycle", "advance"} THEN tail + 1 ELSE tail

Published(p) == p < head /\ \A s \in Senders : Writing(s) => hd[s] # p

Counts ==
  /\ tail <= head /\ head <= tail + N
  /\ Len(fifo) = head - First
  /\ Reading => tail < head

Claims == \A s \in Senders :
  /\ pc[s] \in {"load_tail", "cas"} => hd[s] <= head
  /\ pc[s] = "cas" => hd[s] < tail + N
  /\ Writing(s) => /\ tail <= hd[s] /\ hd[s] < head
                   /\ Reading => hd[s] # tail
                   /\ \A u \in Senders : Writing(u) /\ hd[u] = hd[s] => u = s

SequenceOf(p) == IF rpc = "advance" /\ p = tail THEN tail + N
                 ELSE IF Published(p) THEN p + 1 ELSE p

Sequences ==
  \A p \in Nat : tail <= p /\ p < tail + N => sequence[Slot(p)] = SequenceOf(p)

Contents ==
  /\ \A s \in Senders : Writing(s) => fifo[hd[s] - First + 1] = <<s, nth[s]>>
  /\ \A s \in Senders : pc[s] = "publish" => value[Slot(hd[s])] = <<s, nth[s]>>
  /\ \A p \in Nat : First <= p /\ Published(p) => value[Slot(p)] = fifo[p - First + 1]

Asking ==
  rpc \notin {"recycle", "advance", "received", "ended"} => got[Receiver] = NoValue

Ring == Counts /\ Claims /\ Sequences /\ Contents
ChanInv == ChanTypeOK /\ Ring /\ Asking

LEMMA InitHolds == ChanInit => ChanInv
<1> SUFFICES ASSUME ChanInit PROVE ChanInv
  OBVIOUS
<1>0. CapacityAssumption /\ KindAssumption
  BY CapacityAssumption, KindAssumption
<1> USE DEF ChanInit
<1>1. ChanTypeOK
  <2>1. sequence \in [Indices -> Nat] /\ value \in [Indices -> Values \union {NoValue}]
    BY DEF Indices
  <2>2. fifo \in Seq(Values) /\ got \in [{Receiver} -> Values \union {NoValue, Closed}]
    OBVIOUS
  <2>3. nth \in [Senders -> 1 .. MaxSends + 1]
    BY <1>0 DEF CapacityAssumption
  <2> QED BY <2>1, <2>2, <2>3 DEF ChanTypeOK, RingOK, SendersOK, ReceiverOK, SendLabels,
                                  RecvLabels, ParkLabels
<1>2. \A s \in Senders : pc[s] = "idle"
  OBVIOUS
<1>3. Counts
  <2>1. Len(fifo) = 0 /\ First = 0 /\ ~Reading
    BY DEF First, Reading
  <2> QED BY <2>1, CapacityIsPositive DEF Counts
<1>4. Claims
  BY <1>2 DEF Claims, Writing
<1>5. Contents
  BY <1>2 DEF Contents, Writing, Published, First
<1>6. Asking
  BY DEF Asking
<1>7. Sequences
  <2> SUFFICES ASSUME NEW p \in Nat, p < N PROVE sequence[Slot(p)] = SequenceOf(p)
    BY CapacityIsPositive DEF Sequences
  <2>1. p \in 0 .. N - 1 /\ p = 0 * N + p
    BY CapacityIsPositive
  <2>2. p % N = p
    BY <2>1, ModIsUnique, CapacityIsPositive
  <2>3. sequence[Slot(p)] = p
    BY <2>1, <2>2 DEF Slot, Indices
  <2> QED BY <2>3 DEF SequenceOf, Published
<1> QED BY <1>1, <1>3, <1>4, <1>5, <1>6, <1>7 DEF ChanInv, Ring

-----------------------------------------------------------------------------
(* Types.                                                                  *)

LEMMA RingTypeStep == ChanTypeOK /\ Counts /\ [ChanNext]_chanVars => RingOK'
<1> SUFFICES ASSUME ChanTypeOK, Counts, [ChanNext]_chanVars PROVE RingOK'
  OBVIOUS
<1>0. N \in Nat /\ N > 0 /\ MaxSends \in Nat
  BY CapacityAssumption
<1>1. ASSUME NEW s \in Senders, pc[s] \notin {"idle", "stopped"} PROVE <<s, nth[s]>> \in Values
  <2>1. nth[s] \in 1 .. MaxSends
    BY <1>0, <1>1 DEF ChanTypeOK, SendersOK
  <2> QED BY <2>1 DEF Values
<1> USE DEF ChanTypeOK, RingOK
<1>2. ASSUME NEW s \in Senders, Claim(s) PROVE RingOK'
  <2>1. <<s, nth[s]>> \in Values
    BY <1>1, <1>2 DEF Claim
  <2>2. Append(fifo, <<s, nth[s]>>) \in Seq(Values)
    BY <2>1
  <2>3. /\ head' \in {head, head + 1}
        /\ fifo' \in {fifo, Append(fifo, <<s, nth[s]>>)}
        /\ UNCHANGED <<tail, sequence, value>>
    BY <1>2 DEF Claim
  <2>4. head' \in Nat
    BY <2>3
  <2>5. fifo' \in Seq(Values)
    BY <2>2, <2>3, Zenon
  <2> QED BY <2>3, <2>4, <2>5, Zenon
<1>3. ASSUME NEW s \in Senders, WriteValue(s) PROVE RingOK'
  BY <1>1, <1>3 DEF WriteValue
<1>4. ASSUME NEW s \in Senders, Publish(s) PROVE RingOK'
  <2>1. hd[s] + 1 \in Nat
    BY DEF SendersOK
  <2> QED BY <1>4, <2>1 DEF Publish
<1>5. ASSUME ReadValue PROVE RingOK'
  <2>1. fifo # <<>>
    BY <1>5 DEF ReadValue, Counts, Reading, First
  <2> QED BY <1>5, <2>1 DEF ReadValue
<1>6. ASSUME Recycle \/ Advance PROVE RingOK'
  BY <1>0, <1>6 DEF Recycle, Advance
<1>7. ASSUME UNCHANGED ringVars PROVE RingOK'
  BY <1>7 DEF ringVars
<1>8. ASSUME NEW s \in Senders,
             \/ SendClosed(s) \/ SendOpen(s) \/ LoadHead(s) \/ LoadTail(s)
             \/ WakeLoad(s) \/ WakeClear(s) \/ Wake(s) \/ WakeRefused(s)
      PROVE  UNCHANGED ringVars
  BY <1>8 DEF SendClosed, SendOpen, LoadHead, LoadTail, WakeLoad, WakeClear, Wake, WakeRefused
<1>9. ASSUME \/ TryRecv \/ RecvNothing \/ LoadClosed \/ TermHead \/ StoreWaker \/ Park
             \/ PollWoken \/ PollFallback \/ RecvAgain \/ Close \/ Over
             \/ UNCHANGED chanVars
      PROVE  UNCHANGED ringVars
  BY <1>9 DEF TryRecv, RecvNothing, LoadClosed, TermHead, StoreWaker, Park, PollWoken,
     PollFallback, RecvAgain, Close, Over, chanVars
<1> QED
  BY <1>2, <1>3, <1>4, <1>5, <1>6, <1>7, <1>8, <1>9 DEF ChanNext, SendStep, RecvStep

LEMMA SendersTypeStep == ChanTypeOK /\ [ChanNext]_chanVars => SendersOK'
<1> SUFFICES ASSUME ChanTypeOK, [ChanNext]_chanVars PROVE SendersOK'
  OBVIOUS
<1>0. MaxSends \in Nat /\ SendersOK /\ head \in Nat
  BY CapacityAssumption DEF ChanTypeOK, RingOK
<1> USE <1>0 DEF SendersOK, SendLabels, Goto, Sent
<1>1. ASSUME NEW s \in Senders, SendClosed(s) \/ SendOpen(s) PROVE SendersOK'
  BY <1>1 DEF SendClosed, SendOpen
<1>2. ASSUME NEW s \in Senders, LoadHead(s) PROVE SendersOK'
  BY <1>2 DEF LoadHead
<1>3. ASSUME NEW s \in Senders, LoadTail(s) PROVE SendersOK'
  <2>1. CASE SeemsFull(s)
    BY <1>3, <2>1 DEF LoadTail, Full
  <2>2. CASE ~SeemsFull(s)
    BY <1>3, <2>2 DEF LoadTail
  <2> QED BY <2>1, <2>2
<1>4. ASSUME NEW s \in Senders, Claim(s) PROVE SendersOK'
  <2>1. CASE head = hd[s]
    BY <1>4, <2>1 DEF Claim
  <2>2. CASE head # hd[s]
    BY <1>4, <2>2 DEF Claim, Full
  <2> QED BY <2>1, <2>2
<1>5. ASSUME NEW s \in Senders, WriteValue(s) PROVE SendersOK'
  BY <1>5 DEF WriteValue
<1>6. ASSUME NEW s \in Senders, Publish(s) PROVE SendersOK'
  BY <1>6 DEF Publish
<1>7. ASSUME NEW s \in Senders, WakeLoad(s) PROVE SendersOK'
  BY <1>7 DEF WakeLoad
<1>8. ASSUME NEW s \in Senders, WakeClear(s) \/ Wake(s) \/ WakeRefused(s)
      PROVE  SendersOK'
  BY <1>8 DEF WakeClear, Wake, WakeRefused
<1>9. ASSUME \/ RecvStep \/ PollFallback \/ Close \/ Over \/ UNCHANGED chanVars
      PROVE  UNCHANGED <<kind, sendVars>>
  BY <1>9 DEF RecvStep, TryRecv, RecvNothing, ReadValue, Recycle, Advance, LoadClosed,
     TermHead, StoreWaker, Park, PollWoken, PollFallback, RecvAgain, Close, Over, chanVars
<1>10. ASSUME UNCHANGED <<kind, sendVars>> PROVE SendersOK'
  BY <1>10 DEF sendVars
<1> QED
  BY <1>1, <1>2, <1>3, <1>4, <1>5, <1>6, <1>7, <1>8, <1>9, <1>10 DEF ChanNext, SendStep

LEMMA ReceiverTypeStep == ChanTypeOK /\ [ChanNext]_chanVars => ReceiverOK'
<1> SUFFICES ASSUME ChanTypeOK, [ChanNext]_chanVars PROVE ReceiverOK'
  OBVIOUS
<1>0. ReceiverOK
  BY DEF ChanTypeOK
<1> USE <1>0 DEF ReceiverOK, RecvLabels, ParkLabels, recvVars, wakeVars
<1>1. ASSUME NEW s \in Senders, SendClosed(s) \/ SendOpen(s) \/ SendStep(s) PROVE ReceiverOK'
  <2>1. /\ UNCHANGED <<kind, rpc, got, closed>>
        /\ waker_set' \in {waker_set, FALSE} /\ queued' \in {queued, queued + 1}
        /\ refused' \in {refused, TRUE}
    BY <1>1 DEF SendClosed, SendOpen, SendStep, LoadHead, LoadTail, Claim, WriteValue, Publish,
       WakeLoad, WakeClear, Wake, WakeRefused
  <2>2. waker_set' \in BOOLEAN /\ refused' \in BOOLEAN
    BY <2>1, Zenon
  <2>3. queued' \in Nat
    BY <2>1
  <2> QED BY <2>1, <2>2, <2>3, Zenon
<1>2. ASSUME ReadValue PROVE ReceiverOK'
  <2>1. value[Slot(tail)] \in Values \union {NoValue}
    BY SlotIsIndex DEF ChanTypeOK, RingOK
  <2> QED BY <1>2, <2>1 DEF ReadValue
<1>3. ASSUME TryRecv \/ RecvNothing \/ Recycle \/ Advance PROVE ReceiverOK'
  BY <1>3 DEF TryRecv, RecvNothing, Recycle, Advance
<1>4. ASSUME LoadClosed \/ TermHead PROVE ReceiverOK'
  BY <1>4 DEF LoadClosed, TermHead, Undrained
<1>5. ASSUME StoreWaker \/ Park \/ PollFallback PROVE ReceiverOK'
  BY <1>5 DEF StoreWaker, Park, PollFallback
<1>6. ASSUME PollWoken PROVE ReceiverOK'
  <2>1. /\ queued \in Nat /\ queued > 0 /\ queued' = queued - 1 /\ refused' = FALSE
        /\ rpc' = "recv" /\ UNCHANGED <<kind, got, waker_set, closed>>
    BY <1>6 DEF PollWoken
  <2>2. queued' \in Nat
    BY <2>1, SMT
  <2> QED BY <2>1, <2>2
<1>8. ASSUME RecvAgain PROVE ReceiverOK'
  BY <1>8 DEF RecvAgain
<1>7. ASSUME Close \/ Over \/ UNCHANGED chanVars PROVE ReceiverOK'
  BY <1>7 DEF Close, Over, chanVars
<1> QED
  BY <1>1, <1>2, <1>3, <1>4, <1>5, <1>6, <1>7, <1>8 DEF ChanNext, RecvStep

-----------------------------------------------------------------------------
(* The steps of a sender on the ring.                                      *)

(* A step that leaves the ring and the claims on it alone.                 *)
LEMMA QuietStep ==
  ASSUME ChanTypeOK, Ring, UNCHANGED ringVars,
         \A s \in Senders : /\ Writing(s)' <=> Writing(s)
                            /\ pc'[s] = "publish" <=> pc[s] = "publish"
                            /\ pc'[s] \in {"load_tail", "cas"} => pc'[s] = pc[s]
                            /\ pc'[s] \in {"load_tail", "cas", "write", "publish"} =>
                                 hd'[s] = hd[s] /\ nth'[s] = nth[s],
         rpc' # rpc => rpc \notin {"recycle", "advance"}
                       /\ rpc' \notin {"read", "recycle", "advance"}
  PROVE  Ring'
<1>1. head' = head /\ tail' = tail /\ sequence' = sequence /\ value' = value /\ fifo' = fifo
  BY DEF ringVars
<1>2. First' = First /\ (Reading' => Reading)
  BY <1>1 DEF First, Reading
<1>3. ASSUME NEW s \in Senders, Writing(s)'
      PROVE  Writing(s) /\ hd'[s] = hd[s] /\ nth'[s] = nth[s]
  BY <1>3 DEF Writing
<1>4. \A p : Published(p)' <=> Published(p)
  BY <1>1, <1>3 DEF Published
<1>5. Counts'
  BY <1>1, <1>2 DEF Ring, Counts
<1>6. Claims'
  BY <1>1, <1>2, <1>3 DEF Ring, Claims
<1>7. Sequences'
  <2>1. \A p : SequenceOf(p)' = SequenceOf(p)
    BY <1>1, <1>4 DEF SequenceOf
  <2> QED BY <1>1, <2>1 DEF Ring, Sequences, Slot
<1>8. Contents'
  BY <1>1, <1>2, <1>3, <1>4 DEF Ring, Contents, Slot
<1> QED BY <1>5, <1>6, <1>7, <1>8 DEF Ring

(* A head loaded is not beyond the head.                                   *)
LEMMA LoadHeadStep ==
  ASSUME ChanTypeOK, Ring, NEW s \in Senders, LoadHead(s) PROVE Ring'
<1>1. /\ UNCHANGED <<ringVars, nth, rpc>>
      /\ pc' = [pc EXCEPT ![s] = "load_tail"] /\ hd' = [hd EXCEPT ![s] = head]
      /\ pc[s] = "load_head"
  BY DEF LoadHead, Goto, recvVars
<1>2. head' = head /\ tail' = tail /\ sequence' = sequence /\ value' = value /\ fifo' = fifo
  BY <1>1 DEF ringVars
<1>3. pc \in [Senders -> SendLabels] /\ hd \in [Senders -> Nat] /\ head \in Nat
  BY DEF ChanTypeOK, SendersOK, RingOK
<1>4. ~Writing(s) /\ ~Writing(s)' /\ pc'[s] = "load_tail" /\ hd'[s] = head
  BY <1>1, <1>3 DEF Writing
<1>5. ASSUME NEW u \in Senders, u # s PROVE pc'[u] = pc[u] /\ hd'[u] = hd[u]
  BY <1>1, <1>3, <1>5
<1>6. ASSUME NEW u \in Senders
      PROVE  (Writing(u)' <=> Writing(u)) /\ (Writing(u) => pc'[u] = pc[u] /\ hd'[u] = hd[u])
  BY <1>4, <1>5 DEF Writing
<1>7. First' = First /\ Reading' = Reading
  BY <1>1, <1>2 DEF First, Reading
<1>8. \A p : Published(p)' <=> Published(p)
  BY <1>2, <1>6 DEF Published
<1>9. Counts'
  BY <1>2, <1>7 DEF Ring, Counts
<1>10. Claims'
  <2>1. ASSUME NEW u \in Senders, pc'[u] \in {"load_tail", "cas"} PROVE hd'[u] <= head'
    BY <1>2, <1>3, <1>4, <1>5, <2>1 DEF Ring, Claims
  <2>2. ASSUME NEW u \in Senders, pc'[u] = "cas" PROVE hd'[u] < tail' + N
    BY <1>2, <1>4, <1>5, <2>2 DEF Ring, Claims
  <2> QED BY <1>2, <1>6, <1>7, <2>1, <2>2 DEF Ring, Claims
<1>11. Sequences'
  <2>1. \A p : SequenceOf(p)' = SequenceOf(p)
    BY <1>1, <1>2, <1>8 DEF SequenceOf
  <2> QED BY <1>2, <2>1 DEF Ring, Sequences, Slot
<1>12. Contents'
  <2>1. ASSUME NEW u \in Senders, pc'[u] = "publish" PROVE pc[u] = "publish" /\ hd'[u] = hd[u]
    BY <1>4, <1>5, <2>1
  <2> QED BY <1>1, <1>2, <1>6, <1>7, <1>8, <2>1 DEF Ring, Contents, Slot
<1> QED BY <1>9, <1>10, <1>11, <1>12 DEF Ring

(* A head that does not seem full is less than a lap ahead of the tail.    *)
LEMMA LoadTailStep ==
  ASSUME ChanTypeOK, Ring, NEW s \in Senders, LoadTail(s) PROVE Ring'
<1>1. CASE SeemsFull(s)
  <2>1. /\ UNCHANGED <<ringVars, nth, rpc>> /\ pc[s] = "load_tail"
        /\ pc' = [pc EXCEPT ![s] = "idle"] /\ hd' = [hd EXCEPT ![s] = 0]
    BY <1>1 DEF LoadTail, Full, Goto, recvVars
  <2> QED BY <2>1, QuietStep DEF ChanTypeOK, SendersOK, Writing
<1>2. CASE ~SeemsFull(s)
  <2>1. /\ UNCHANGED <<ringVars, nth, rpc, hd>> /\ pc[s] = "load_tail"
        /\ pc' = [pc EXCEPT ![s] = "cas"]
    BY <1>2 DEF LoadTail, Goto, recvVars
  <2>2. head' = head /\ tail' = tail /\ sequence' = sequence /\ value' = value /\ fifo' = fifo
    BY <2>1 DEF ringVars
  <2>3. pc \in [Senders -> SendLabels] /\ hd[s] \in Nat /\ tail + N \in Nat
    BY CapacityIsPositive DEF ChanTypeOK, SendersOK, RingOK
  <2>4. hd[s] < tail + N
    BY <1>2, <2>3 DEF SeemsFull
  <2>5. \A u \in Senders : /\ Writing(u)' <=> Writing(u)
                           /\ pc'[u] = "publish" <=> pc[u] = "publish"
    BY <2>1, <2>3 DEF Writing
  <2>6. First' = First /\ Reading' = Reading /\ \A p : Published(p)' <=> Published(p)
    BY <2>1, <2>2, <2>5 DEF First, Reading, Published
  <2>7. Counts'
    BY <2>2, <2>6 DEF Ring, Counts
  <2>8. Claims'
    <3>1. ASSUME NEW u \in Senders, pc'[u] \in {"load_tail", "cas"}
          PROVE  hd[u] <= head /\ (pc'[u] = "cas" => hd[u] < tail + N)
      BY <2>1, <2>3, <2>4, <3>1 DEF Ring, Claims
    <3> QED BY <2>1, <2>2, <2>5, <2>6, <3>1 DEF Ring, Claims
  <2>9. Sequences'
    <3>1. \A p : SequenceOf(p)' = SequenceOf(p)
      BY <2>1, <2>2, <2>6 DEF SequenceOf
    <3> QED BY <2>2, <3>1 DEF Ring, Sequences, Slot
  <2>10. Contents'
    BY <2>1, <2>2, <2>5, <2>6 DEF Ring, Contents, Slot
  <2> QED BY <2>7, <2>8, <2>9, <2>10 DEF Ring
<1> QED BY <1>1, <1>2

(* The position claimed is the head: within the lap, and nobody else's.    *)
LEMMA ClaimStep ==
  ASSUME ChanTypeOK, Ring, NEW s \in Senders, Claim(s) PROVE Ring'
<1>1. CASE head # hd[s]
  <2>1. /\ UNCHANGED <<ringVars, nth, rpc>> /\ pc[s] = "cas"
        /\ pc' = [pc EXCEPT ![s] = "idle"] /\ hd' = [hd EXCEPT ![s] = 0]
    BY <1>1 DEF Claim, Full, Goto, recvVars, ringVars
  <2> QED BY <2>1, QuietStep DEF ChanTypeOK, SendersOK, Writing
<1>2. CASE head = hd[s]
  <2>1. /\ UNCHANGED <<tail, sequence, value, nth, rpc, hd>> /\ pc[s] = "cas"
        /\ pc' = [pc EXCEPT ![s] = "write"]
        /\ head' = head + 1 /\ fifo' = Append(fifo, <<s, nth[s]>>)
    BY <1>2 DEF Claim, Goto, recvVars
  <2>2. /\ pc \in [Senders -> SendLabels] /\ hd \in [Senders -> Nat]
        /\ head \in Nat /\ tail \in Nat /\ N \in Nat /\ fifo \in Seq(Values)
    BY CapacityIsPositive DEF ChanTypeOK, SendersOK, RingOK
  <2>3. Counts /\ Claims
    BY DEF Ring
  <2>4. hd[s] < tail + N /\ tail <= hd[s]
    BY <1>2, <2>1, <2>3 DEF Claims, Counts
  <2>5. \A u \in Senders : /\ Writing(u)' <=> Writing(u) \/ u = s
                           /\ pc'[u] = "publish" <=> pc[u] = "publish"
                           /\ pc'[u] \in {"load_tail", "cas"} => pc'[u] = pc[u]
    BY <2>1, <2>2 DEF Writing
  <2>6. ~Writing(s) /\ \A u \in Senders : Writing(u) => hd[u] # hd[s]
    BY <1>2, <2>1, <2>2, <2>3 DEF Writing, Claims
  <2>7. First' = First /\ Reading' = Reading
    BY <2>1 DEF First, Reading
  <2>8. \A p \in Nat : Published(p)' <=> Published(p)
    BY <1>2, <2>1, <2>2, <2>5 DEF Published
  <2>9. First \in Nat /\ First <= head /\ Len(fifo) = head - First
    BY <2>2, <2>3 DEF First, Counts, Reading
  <2>10. /\ Len(fifo') = head' - First
         /\ fifo'[head - First + 1] = <<s, nth[s]>>
         /\ \A p \in Nat : First <= p /\ p < head => fifo'[p - First + 1] = fifo[p - First + 1]
    <3>1. head - First = Len(fifo) /\ Len(fifo) \in Nat
      BY <2>2, <2>9
    <3>2. Len(fifo') = Len(fifo) + 1 /\ fifo'[Len(fifo) + 1] = <<s, nth[s]>>
      BY <2>1, <2>2
    <3>3. \A i \in 1 .. Len(fifo) : fifo'[i] = fifo[i]
      BY <2>1, <2>2
    <3>4. ASSUME NEW p \in Nat, First <= p, p < head
          PROVE  fifo'[p - First + 1] = fifo[p - First + 1]
      <4>1. p - First + 1 \in 1 .. Len(fifo)
        BY <2>2, <2>9, <3>1, <3>4
      <4> QED BY <3>3, <4>1
    <3> QED BY <2>1, <2>2, <2>9, <3>1, <3>2, <3>4
  <2>11. Counts'
    BY <1>2, <2>1, <2>2, <2>3, <2>4, <2>7, <2>10 DEF Counts
  <2>12. Claims'
    <3>1. ASSUME NEW u \in Senders, pc'[u] \in {"load_tail", "cas"}
          PROVE  hd[u] <= head + 1 /\ (pc'[u] = "cas" => hd[u] < tail + N)
      BY <2>2, <2>3, <2>5, <3>1 DEF Claims
    <3>2. ASSUME NEW u \in Senders, Writing(u)'
          PROVE  /\ tail <= hd[u] /\ hd[u] < head + 1
                 /\ Reading => hd[u] # tail
                 /\ \A v \in Senders : Writing(v)' /\ hd[v] = hd[u] => v = u
      <4>1. CASE u = s
        BY <1>2, <2>2, <2>3, <2>4, <2>5, <2>6, <4>1 DEF Counts
      <4>2. CASE u # s
        <5>1. Writing(u)
          BY <2>5, <3>2, <4>2
        <5> QED BY <2>2, <2>3, <2>5, <2>6, <5>1 DEF Claims
      <4> QED BY <4>1, <4>2
    <3> QED BY <2>1, <2>7, <3>1, <3>2 DEF Claims
  <2>13. Sequences'
    <3>1. \A p \in Nat : SequenceOf(p)' = SequenceOf(p)
      BY <2>1, <2>8 DEF SequenceOf
    <3> QED BY <2>1, <3>1 DEF Ring, Sequences, Slot
  <2>14. Contents'
    <3>1. ASSUME NEW u \in Senders, Writing(u)' PROVE fifo'[hd[u] - First + 1] = <<u, nth[u]>>
      <4>1. CASE u = s
        BY <1>2, <2>10, <4>1
      <4>2. CASE u # s
        <5>1. Writing(u)
          BY <2>5, <3>1, <4>2
        <5>2. First <= hd[u] /\ hd[u] < head /\ hd[u] \in Nat
          BY <2>2, <2>3, <5>1 DEF Claims, First, Reading
        <5> QED BY <2>10, <5>1, <5>2 DEF Ring, Contents
      <4> QED BY <4>1, <4>2
    <3>2. ASSUME NEW p \in Nat, First <= p, Published(p)
          PROVE  value[Slot(p)] = fifo'[p - First + 1]
      <4>1. p < head
        BY <3>2 DEF Published
      <4> QED BY <2>10, <3>2, <4>1 DEF Ring, Contents
    <3> QED BY <2>1, <2>5, <2>7, <2>8, <3>1, <3>2 DEF Ring, Contents, Slot
  <2> QED BY <2>11, <2>12, <2>13, <2>14 DEF Ring
<1> QED BY <1>1, <1>2

(* The value written is where the receiver will look for it.               *)
LEMMA WriteValueStep ==
  ASSUME ChanTypeOK, Ring, NEW s \in Senders, WriteValue(s) PROVE Ring'
<1>1. /\ UNCHANGED <<head, tail, sequence, fifo, hd, nth, rpc>> /\ pc[s] = "write"
      /\ pc' = [pc EXCEPT ![s] = "publish"]
      /\ value' = [value EXCEPT ![Slot(hd[s])] = <<s, nth[s]>>]
  BY DEF WriteValue, Goto, recvVars
<1>2. /\ pc \in [Senders -> SendLabels] /\ hd \in [Senders -> Nat]
      /\ head \in Nat /\ tail \in Nat /\ N \in Nat
      /\ value \in [Indices -> Values \union {NoValue}]
  BY CapacityIsPositive DEF ChanTypeOK, SendersOK, RingOK
<1>3. Counts /\ Claims /\ Contents
  BY DEF Ring
<1>4. \A u \in Senders : /\ Writing(u)' <=> Writing(u)
                         /\ pc'[u] \in {"load_tail", "cas"} => pc'[u] = pc[u]
                         /\ pc'[u] = "publish" <=> pc[u] = "publish" \/ u = s
  BY <1>1, <1>2 DEF Writing
<1>5. First' = First /\ Reading' = Reading /\ \A p : Published(p)' <=> Published(p)
  BY <1>1, <1>4 DEF First, Reading, Published
<1>6. Writing(s) /\ tail <= hd[s] /\ hd[s] < tail + N
  BY <1>1, <1>2, <1>3 DEF Writing, Claims, Counts
<1>7. ASSUME NEW p \in Nat, tail <= p, p < head, p # hd[s]
      PROVE  value'[Slot(p)] = value[Slot(p)]
  <2>1. p < tail + N
    BY <1>2, <1>3, <1>7 DEF Counts
  <2>2. Slot(p) # Slot(hd[s])
    BY <1>2, <1>6, <1>7, <2>1, SlotsOfALap
  <2> QED BY <1>1, <2>2
<1>8. value'[Slot(hd[s])] = <<s, nth[s]>>
  BY <1>1, <1>2, SlotIsIndex
<1>9. Counts'
  BY <1>1, <1>3, <1>5 DEF Counts
<1>10. Claims'
  BY <1>1, <1>3, <1>4, <1>5 DEF Claims
<1>11. Sequences'
  <2>1. \A p : SequenceOf(p)' = SequenceOf(p)
    BY <1>1, <1>5 DEF SequenceOf
  <2> QED BY <1>1, <2>1 DEF Ring, Sequences, Slot
<1>12. Contents'
  <2>1. ASSUME NEW u \in Senders, pc'[u] = "publish"
        PROVE  value'[Slot(hd[u])] = <<u, nth[u]>>
    <3>1. CASE u = s
      BY <1>8, <3>1
    <3>2. CASE u # s
      <4>1. pc[u] = "publish" /\ Writing(u)
        BY <1>4, <2>1, <3>2 DEF Writing
      <4>2. hd[u] # hd[s] /\ tail <= hd[u] /\ hd[u] < head
        BY <1>3, <1>6, <3>2, <4>1 DEF Claims
      <4> QED BY <1>2, <1>3, <1>7, <4>1, <4>2 DEF Contents
    <3> QED BY <3>1, <3>2
  <2>2. ASSUME NEW p \in Nat, First <= p, Published(p)
        PROVE  value'[Slot(p)] = fifo[p - First + 1]
    <3>1. p # hd[s] /\ p < head /\ tail <= p
      BY <1>2, <1>6, <2>2 DEF Published, First
    <3> QED BY <1>3, <1>7, <2>2, <3>1 DEF Contents
  <2> QED BY <1>1, <1>3, <1>4, <1>5, <2>1, <2>2 DEF Contents, Slot
<1> QED BY <1>9, <1>10, <1>11, <1>12 DEF Ring

(* The sequence word says published, of this position and no other.        *)
LEMMA PublishStep ==
  ASSUME ChanTypeOK, Ring, NEW s \in Senders, Publish(s) PROVE Ring'
<1>1. /\ UNCHANGED <<head, tail, value, fifo, rpc>> /\ pc[s] = "publish"
      /\ \E l \in {"idle", "wake_load"} : pc' = [pc EXCEPT ![s] = l]
      /\ sequence' = [sequence EXCEPT ![Slot(hd[s])] = hd[s] + 1]
      /\ hd' = [hd EXCEPT ![s] = 0]
      /\ \A u \in Senders \ {s} : nth'[u] = nth[u]
  BY DEF Publish, Sent, Goto, recvVars, ChanTypeOK, SendersOK
<1>2. /\ pc \in [Senders -> SendLabels] /\ hd \in [Senders -> Nat]
      /\ head \in Nat /\ tail \in Nat /\ N \in Nat
      /\ sequence \in [Indices -> Nat]
  BY CapacityIsPositive DEF ChanTypeOK, SendersOK, RingOK
<1>3. Counts /\ Claims /\ Contents /\ Sequences
  BY DEF Ring
<1>4. Writing(s) /\ tail <= hd[s] /\ hd[s] < head /\ hd[s] < tail + N
      /\ (Reading => hd[s] # tail)
  BY <1>1, <1>2, <1>3 DEF Writing, Claims, Counts
<1>5. ~Writing(s)' /\ pc'[s] \notin {"load_tail", "cas", "publish"}
  BY <1>1, <1>2 DEF Writing
<1>6. ASSUME NEW u \in Senders, u # s
      PROVE  /\ pc'[u] = pc[u] /\ hd'[u] = hd[u] /\ nth'[u] = nth[u]
             /\ Writing(u)' <=> Writing(u)
             /\ Writing(u) => hd[u] # hd[s]
  BY <1>1, <1>2, <1>3, <1>4, <1>6 DEF Writing, Claims
<1>7. First' = First /\ Reading' = Reading
  BY <1>1 DEF First, Reading
<1>8. ASSUME NEW p \in Nat PROVE Published(p)' <=> Published(p) \/ p = hd[s]
  BY <1>1, <1>4, <1>5, <1>6 DEF Published
<1>9. Counts'
  BY <1>1, <1>3, <1>7 DEF Counts
<1>10. Claims'
  <2>1. ASSUME NEW u \in Senders, pc'[u] \in {"load_tail", "cas"} \/ Writing(u)' PROVE u # s
    BY <1>5, <2>1
  <2> QED BY <1>1, <1>3, <1>6, <1>7, <2>1 DEF Claims
<1>11. Sequences'
  <2> SUFFICES ASSUME NEW p \in Nat, tail <= p, p < tail + N
               PROVE  sequence'[Slot(p)] = SequenceOf(p)'
    BY <1>1 DEF Sequences, Slot
  <2>1. CASE p = hd[s]
    <3>1. sequence'[Slot(p)] = p + 1
      BY <1>1, <1>2, <2>1, SlotIsIndex
    <3>2. ~(rpc = "advance" /\ p = tail)
      BY <1>4, <2>1 DEF Reading
    <3> QED BY <1>1, <1>8, <2>1, <3>1, <3>2 DEF SequenceOf
  <2>2. CASE p # hd[s]
    <3>1. Slot(p) # Slot(hd[s])
      BY <1>2, <1>4, <2>2, SlotsOfALap
    <3>2. sequence'[Slot(p)] = sequence[Slot(p)]
      BY <1>1, <3>1
    <3> QED BY <1>1, <1>3, <1>8, <2>2, <3>2 DEF Sequences, SequenceOf
  <2> QED BY <2>1, <2>2
<1>12. Contents'
  <2>1. ASSUME NEW u \in Senders, Writing(u)' PROVE fifo[hd'[u] - First + 1] = <<u, nth'[u]>>
    BY <1>3, <1>5, <1>6, <2>1 DEF Contents
  <2>2. ASSUME NEW u \in Senders, pc'[u] = "publish" PROVE value[Slot(hd'[u])] = <<u, nth'[u]>>
    BY <1>3, <1>5, <1>6, <2>2 DEF Contents
  <2>3. ASSUME NEW p \in Nat, First <= p, Published(p)' PROVE value[Slot(p)] = fifo[p - First + 1]
    <3>1. CASE p = hd[s]
      BY <1>1, <1>3, <1>4, <3>1 DEF Contents
    <3>2. CASE p # hd[s]
      BY <1>3, <1>8, <2>3, <3>2 DEF Contents
    <3> QED BY <3>1, <3>2
  <2> QED BY <1>1, <1>7, <2>1, <2>2, <2>3 DEF Contents, Slot
<1> QED BY <1>9, <1>10, <1>11, <1>12 DEF Ring

-----------------------------------------------------------------------------
(* The steps of the receiver on the ring.                                  *)

LEMMA ReadableIsPublished ==
  ASSUME ChanTypeOK, Ring, rpc # "advance" PROVE Readable <=> Published(tail)
<1>1. tail \in Nat /\ tail <= tail /\ tail < tail + N
  BY CapacityIsPositive DEF ChanTypeOK, RingOK
<1>2. sequence[Slot(tail)] = IF Published(tail) THEN tail + 1 ELSE tail
  BY <1>1 DEF Ring, Sequences, SequenceOf
<1> QED BY <1>1, <1>2 DEF Readable

LEMMA TryRecvStep == ASSUME ChanTypeOK, Ring, TryRecv PROVE Ring'
<1>1. /\ UNCHANGED <<ringVars, pc, hd, nth>> /\ rpc \in {"recv", "again"} /\ rpc' = "read"
  BY DEF TryRecv, sendVars
<1>2. Published(tail)
  BY <1>1, ReadableIsPublished DEF TryRecv
<1>3. head' = head /\ tail' = tail /\ sequence' = sequence /\ value' = value /\ fifo' = fifo
  BY <1>1 DEF ringVars
<1>4. First' = First /\ (\A p : Published(p)' <=> Published(p))
      /\ \A s \in Senders : Writing(s)' <=> Writing(s)
  BY <1>1, <1>3 DEF First, Published, Writing
<1>5. Counts'
  BY <1>2, <1>3, <1>4 DEF Ring, Counts, Published
<1>6. Claims'
  BY <1>1, <1>2, <1>3, <1>4 DEF Ring, Claims, Published
<1>7. Sequences'
  <2>1. \A p : SequenceOf(p)' = SequenceOf(p)
    BY <1>1, <1>3, <1>4 DEF SequenceOf
  <2> QED BY <1>3, <2>1 DEF Ring, Sequences, Slot
<1>8. Contents'
  BY <1>1, <1>3, <1>4 DEF Ring, Contents, Slot
<1> QED BY <1>5, <1>6, <1>7, <1>8 DEF Ring

(* What is read is the oldest value of the queue.                          *)
LEMMA ReadsTheOldest ==
  ASSUME ChanTypeOK, Ring, rpc = "read"
  PROVE  fifo # <<>> /\ value[Slot(tail)] = Head(fifo)
<1>1. /\ tail \in Nat /\ head \in Nat /\ fifo \in Seq(Values)
      /\ First = tail /\ tail < head /\ Len(fifo) = head - tail
  BY DEF ChanTypeOK, RingOK, Ring, Counts, First, Reading
<1>2. Published(tail)
  BY <1>1 DEF Ring, Claims, Reading, Published
<1>3. value[Slot(tail)] = fifo[tail - tail + 1]
  BY <1>1, <1>2 DEF Ring, Contents
<1> QED BY <1>1, <1>3

LEMMA ReadValueStep == ASSUME ChanTypeOK, Ring, ReadValue PROVE Ring'
<1>1. /\ UNCHANGED <<head, tail, sequence, value, pc, hd, nth>>
      /\ rpc = "read" /\ rpc' = "recycle" /\ fifo' = Tail(fifo)
  BY DEF ReadValue, sendVars
<1>2. /\ hd \in [Senders -> Nat] /\ head \in Nat /\ tail \in Nat /\ N \in Nat
      /\ fifo \in Seq(Values)
  BY CapacityIsPositive DEF ChanTypeOK, SendersOK, RingOK
<1>3. Counts /\ Claims /\ Contents /\ Sequences
  BY DEF Ring
<1>4. First = tail /\ First' = tail + 1 /\ Reading /\ Reading'
  BY <1>1 DEF First, Reading
<1>5. Len(fifo) = head - tail /\ tail < head
  BY <1>3, <1>4 DEF Counts
<1>6. Len(fifo') = head - (tail + 1)
      /\ \A i \in 1 .. Len(fifo) - 1 : fifo'[i] = fifo[i + 1]
  BY <1>1, <1>2, <1>5
<1>7. ASSUME NEW p \in Nat, tail + 1 <= p, p < head
      PROVE  fifo'[p - (tail + 1) + 1] = fifo[p - tail + 1]
  <2>1. p - tail \in 1 .. Len(fifo) - 1 /\ p - (tail + 1) + 1 = p - tail
    BY <1>2, <1>5, <1>7
  <2> QED BY <1>6, <2>1
<1>8. (\A p : Published(p)' <=> Published(p)) /\ \A s \in Senders : Writing(s)' <=> Writing(s)
  BY <1>1 DEF Published, Writing
<1>9. Counts'
  BY <1>1, <1>3, <1>4, <1>5, <1>6 DEF Counts
<1>10. Claims'
  BY <1>1, <1>3, <1>4, <1>8 DEF Claims
<1>11. Sequences'
  <2>1. \A p : SequenceOf(p)' = SequenceOf(p)
    BY <1>1, <1>8 DEF SequenceOf
  <2> QED BY <1>1, <1>3, <2>1 DEF Sequences, Slot
<1>12. Contents'
  <2>1. ASSUME NEW s \in Senders, Writing(s)
        PROVE  fifo'[hd[s] - (tail + 1) + 1] = <<s, nth[s]>>
    <3>1. hd[s] \in Nat /\ tail + 1 <= hd[s] /\ hd[s] < head
      BY <1>2, <1>3, <1>4, <2>1 DEF Claims
    <3> QED BY <1>3, <1>4, <1>7, <2>1, <3>1 DEF Contents
  <2>2. ASSUME NEW p \in Nat, tail + 1 <= p, Published(p)
        PROVE  value[Slot(p)] = fifo'[p - (tail + 1) + 1]
    <3>1. p < head /\ tail <= p
      BY <1>2, <2>2 DEF Published
    <3> QED BY <1>3, <1>4, <1>7, <2>2, <3>1 DEF Contents
  <2> QED BY <1>1, <1>3, <1>4, <1>8, <2>1, <2>2 DEF Contents, Slot
<1> QED BY <1>9, <1>10, <1>11, <1>12 DEF Ring

(* The slot read is given to the position a lap later.                     *)
LEMMA RecycleStep == ASSUME ChanTypeOK, Ring, Recycle PROVE Ring'
<1>1. /\ UNCHANGED <<head, tail, value, fifo, pc, hd, nth>>
      /\ rpc = "recycle" /\ rpc' = "advance"
      /\ sequence' = [sequence EXCEPT ![Slot(tail)] = tail + N]
  BY DEF Recycle, sendVars
<1>2. tail \in Nat /\ N \in Nat /\ N > 0 /\ sequence \in [Indices -> Nat]
  BY CapacityIsPositive DEF ChanTypeOK, RingOK
<1>3. First' = First /\ Reading /\ Reading'
  BY <1>1 DEF First, Reading
<1>4. (\A p : Published(p)' <=> Published(p)) /\ \A s \in Senders : Writing(s)' <=> Writing(s)
  BY <1>1 DEF Published, Writing
<1>5. Counts' /\ Claims'
  BY <1>1, <1>3, <1>4 DEF Ring, Counts, Claims
<1>6. Sequences'
  <2> SUFFICES ASSUME NEW p \in Nat, tail <= p, p < tail + N
               PROVE  sequence'[Slot(p)] = SequenceOf(p)'
    BY <1>1 DEF Sequences, Slot
  <2>1. CASE p = tail
    <3>1. sequence'[Slot(p)] = tail + N
      BY <1>1, <1>2, <2>1, SlotIsIndex
    <3> QED BY <1>1, <2>1, <3>1 DEF SequenceOf
  <2>2. CASE p # tail
    <3>1. Slot(p) # Slot(tail)
      BY <1>2, <2>2, SlotsOfALap
    <3>2. sequence'[Slot(p)] = sequence[Slot(p)]
      BY <1>1, <3>1
    <3>3. sequence[Slot(p)] = SequenceOf(p)
      BY DEF Ring, Sequences
    <3> QED BY <1>1, <1>4, <2>2, <3>2, <3>3 DEF SequenceOf
  <2> QED BY <2>1, <2>2
<1>7. Contents'
  BY <1>1, <1>3, <1>4 DEF Ring, Contents, Slot
<1> QED BY <1>5, <1>6, <1>7 DEF Ring

LEMMA AdvanceStep == ASSUME ChanTypeOK, Ring, Advance PROVE Ring'
<1>1. /\ UNCHANGED <<head, sequence, value, fifo, pc, hd, nth>>
      /\ rpc = "advance" /\ rpc' = "received" /\ tail' = tail + 1
  BY DEF Advance, sendVars
<1>2. /\ hd \in [Senders -> Nat] /\ head \in Nat /\ tail \in Nat /\ N \in Nat /\ N > 0
  BY CapacityIsPositive DEF ChanTypeOK, SendersOK, RingOK
<1>3. Counts /\ Claims /\ Sequences
  BY DEF Ring
<1>4. First = tail + 1 /\ First' = tail + 1 /\ Reading /\ ~Reading'
  BY <1>1 DEF First, Reading
<1>5. tail < head
  BY <1>3, <1>4 DEF Counts
<1>6. (\A p : Published(p)' <=> Published(p)) /\ \A s \in Senders : Writing(s)' <=> Writing(s)
  BY <1>1 DEF Published, Writing
<1>7. Counts'
  BY <1>1, <1>2, <1>3, <1>4, <1>5 DEF Counts
<1>8. Claims'
  BY <1>1, <1>2, <1>3, <1>4, <1>6 DEF Claims
<1>9. Sequences'
  <2> SUFFICES ASSUME NEW p \in Nat, tail + 1 <= p, p < tail + 1 + N
               PROVE  sequence[Slot(p)] = SequenceOf(p)'
    BY <1>1 DEF Sequences, Slot
  <2>1. CASE p = tail + N
    <3>1. sequence[Slot(tail)] = tail + N
      BY <1>1, <1>2, <1>3 DEF Sequences, SequenceOf
    <3>2. Slot(p) = Slot(tail)
      BY <1>2, <2>1, SlotNextLap
    <3>3. ~Published(p)
      BY <1>2, <1>3, <2>1 DEF Published, Counts
    <3> QED BY <1>1, <1>6, <2>1, <3>1, <3>2, <3>3 DEF SequenceOf
  <2>2. CASE p # tail + N
    <3>1. tail <= p /\ p < tail + N /\ p # tail
      BY <1>2, <2>2
    <3>2. sequence[Slot(p)] = SequenceOf(p)
      BY <1>3, <3>1 DEF Sequences
    <3> QED BY <1>1, <1>6, <3>1, <3>2 DEF SequenceOf
  <2> QED BY <2>1, <2>2
<1>10. Contents'
  BY <1>1, <1>4, <1>6 DEF Ring, Contents, Slot
<1> QED BY <1>7, <1>8, <1>9, <1>10 DEF Ring

-----------------------------------------------------------------------------
(* Every step.                                                             *)

LEMMA RingStep == ChanTypeOK /\ Ring /\ [ChanNext]_chanVars => Ring'
<1> SUFFICES ASSUME ChanTypeOK, Ring, [ChanNext]_chanVars PROVE Ring'
  OBVIOUS
<1>0. pc \in [Senders -> SendLabels]
  BY DEF ChanTypeOK, SendersOK
<1>1. ASSUME NEW s \in Senders,
             \/ SendClosed(s) \/ SendOpen(s) \/ WakeLoad(s) \/ WakeClear(s) \/ Wake(s)
             \/ WakeRefused(s)
      PROVE  Ring'
  <2>1. /\ UNCHANGED <<ringVars, hd, rpc>>
        /\ \E l \in {"stopped", "load_head", "idle", "wake_clear", "wake"} :
             pc' = [pc EXCEPT ![s] = l]
        /\ pc[s] \in {"idle", "wake_load", "wake_clear", "wake"}
    BY <1>1 DEF SendClosed, SendOpen, WakeLoad, WakeClear, Wake, WakeRefused, Sent, Goto,
       recvVars
  <2>2. \A u \in Senders \ {s} : nth'[u] = nth[u]
    BY <1>1 DEF SendClosed, SendOpen, WakeLoad, WakeClear, Wake, WakeRefused, Sent,
       ChanTypeOK, SendersOK
  <2>3. \A u \in Senders \ {s} : pc'[u] = pc[u]
    BY <1>0, <2>1
  <2>4. pc'[s] \in {"stopped", "load_head", "idle", "wake_clear", "wake"}
    BY <1>0, <2>1
  <2> QED BY <2>1, <2>2, <2>3, <2>4, QuietStep DEF Writing
<1>2. ASSUME NEW s \in Senders, SendStep(s) PROVE Ring'
  BY <1>1, <1>2, LoadHeadStep, LoadTailStep, ClaimStep, WriteValueStep, PublishStep DEF SendStep
<1>3. ASSUME \/ RecvNothing \/ LoadClosed \/ TermHead \/ StoreWaker \/ Park
             \/ PollWoken \/ PollFallback \/ RecvAgain
      PROVE  Ring'
  <2>1. /\ UNCHANGED <<ringVars, sendVars>>
        /\ rpc \notin {"recycle", "advance"}
        /\ rpc' \notin {"read", "recycle", "advance"}
    BY <1>3 DEF RecvNothing, LoadClosed, TermHead, Undrained, StoreWaker, Park, PollWoken,
       PollFallback, RecvAgain
  <2> QED BY <2>1, QuietStep DEF sendVars, Writing
<1>4. ASSUME RecvStep PROVE Ring'
  BY <1>3, <1>4, TryRecvStep, ReadValueStep, RecycleStep, AdvanceStep DEF RecvStep
<1>5. ASSUME Close \/ Over \/ UNCHANGED chanVars PROVE Ring'
  <2>1. UNCHANGED <<ringVars, sendVars, rpc>>
    BY <1>5 DEF Close, Over, chanVars, recvVars
  <2> QED BY <2>1, QuietStep DEF sendVars, Writing
<1> QED BY <1>1, <1>2, <1>3, <1>4, <1>5 DEF ChanNext

LEMMA AskingStep == ChanTypeOK /\ Asking /\ [ChanNext]_chanVars => Asking'
<1> SUFFICES ASSUME ChanTypeOK, Asking, [ChanNext]_chanVars PROVE Asking'
  OBVIOUS
<1>0. got \in [{Receiver} -> Values \union {NoValue, Closed}]
  BY DEF ChanTypeOK, ReceiverOK
<1> USE <1>0 DEF Asking
<1>1. ASSUME NEW s \in Senders, SendClosed(s) \/ SendOpen(s) \/ SendStep(s) PROVE Asking'
  BY <1>1 DEF SendClosed, SendOpen, SendStep, LoadHead, LoadTail, Claim, WriteValue, Publish,
     WakeLoad, WakeClear, Wake, WakeRefused, recvVars
<1>2. ASSUME RecvStep \/ PollFallback PROVE Asking'
  BY <1>2 DEF RecvStep, TryRecv, RecvNothing, ReadValue, Recycle, Advance, LoadClosed, TermHead,
     Undrained, StoreWaker, Park, PollWoken, PollFallback, RecvAgain
<1>3. ASSUME Close \/ Over \/ UNCHANGED chanVars PROVE Asking'
  BY <1>3 DEF Close, Over, chanVars, recvVars
<1> QED BY <1>1, <1>2, <1>3 DEF ChanNext

LEMMA InvStep == ChanInv /\ [ChanNext]_chanVars => ChanInv'
  BY RingTypeStep, SendersTypeStep, ReceiverTypeStep, RingStep, AskingStep
  DEF ChanInv, Ring, ChanTypeOK

LEMMA InvAlways == ChanSpec => []ChanInv
  BY InitHolds, InvStep, PTL DEF ChanSpec

(* ChanTypeOK: every word and local has its shape, and whatever a sender   *)
(* and the receiver do, no index leaves the ring.                          *)
THEOREM ChanTypeCorrect == ChanSpec => []ChanTypeOK
<1>1. ChanInv => ChanTypeOK
  BY DEF ChanInv
<1> QED BY <1>1, InvAlways, PTL

(* SlotsHaveOneUser: of the plain memory of a slot there is one user at a  *)
(* time, with any number of senders, although each compares a head and a   *)
(* tail that may be out of date when it claims its position.               *)
THEOREM SlotsAreExclusive == ChanSpec => []SlotsHaveOneUser
<1>1. ChanInv => SlotsHaveOneUser
  <2> SUFFICES ASSUME ChanInv, NEW s \in Senders, Writing(s)
               PROVE  /\ \A u \in Senders \ {s} : Writing(u) => Slot(hd[u]) # Slot(hd[s])
                      /\ Reading => Slot(hd[s]) # Slot(tail)
    BY DEF SlotsHaveOneUser
  <2>1. /\ hd \in [Senders -> Nat] /\ head \in Nat /\ tail \in Nat /\ N \in Nat \ {0}
        /\ Counts /\ Claims
    BY CapacityIsPositive DEF ChanInv, ChanTypeOK, RingOK, SendersOK, Ring
  <2>2. \A u \in Senders : Writing(u) => tail <= hd[u] /\ hd[u] < tail + N
    BY <2>1 DEF Claims, Counts
  <2>3. ASSUME NEW u \in Senders \ {s}, Writing(u) PROVE Slot(hd[u]) # Slot(hd[s])
    <3>1. hd[u] # hd[s]
      BY <2>1, <2>3 DEF Claims
    <3> QED BY <2>1, <2>2, <2>3, <3>1, SlotsOfALap
  <2>4. ASSUME Reading PROVE Slot(hd[s]) # Slot(tail)
    <3>1. hd[s] # tail /\ tail < tail + N
      BY <2>1, <2>4 DEF Claims
    <3> QED BY <2>1, <2>2, <3>1, SlotsOfALap
  <2> QED BY <2>3, <2>4
<1> QED BY <1>1, InvAlways, PTL

-----------------------------------------------------------------------------
(* A receiver that has registered its waker finds it registered still, or  *)
(* is in the work queue, or is being put there, or that was refused.       *)
Registered ==
  rpc \in {"again", "parked"} =>
    waker_set \/ queued > 0 \/ refused \/ \E s \in Senders : pc[s] = "wake"

LEMMA RegisteredStep == ChanTypeOK /\ Registered /\ [ChanNext]_chanVars => Registered'
<1> SUFFICES ASSUME ChanTypeOK, Registered, [ChanNext]_chanVars, rpc' \in {"again", "parked"}
             PROVE  waker_set' \/ queued' > 0 \/ refused' \/ \E s \in Senders : pc'[s] = "wake"
  BY DEF Registered
<1>0. pc \in [Senders -> SendLabels] /\ queued \in Nat
  BY DEF ChanTypeOK, SendersOK, ReceiverOK
<1>1. ASSUME NEW s \in Senders, WakeClear(s) PROVE pc'[s] = "wake"
  BY <1>0, <1>1 DEF WakeClear, Goto
<1>2. ASSUME NEW s \in Senders, Wake(s) PROVE queued' > 0
  BY <1>0, <1>2 DEF Wake
<1>7. ASSUME NEW s \in Senders, WakeRefused(s) PROVE refused'
  BY <1>7 DEF WakeRefused
<1>3. ASSUME NEW s \in Senders,
             \/ SendClosed(s) \/ SendOpen(s) \/ LoadHead(s) \/ LoadTail(s) \/ Claim(s)
             \/ WriteValue(s) \/ Publish(s) \/ WakeLoad(s)
      PROVE  waker_set' \/ queued' > 0 \/ refused' \/ \E u \in Senders : pc'[u] = "wake"
  <2>1. /\ UNCHANGED <<waker_set, queued, refused, rpc>> /\ pc[s] # "wake"
        /\ \E l \in SendLabels : pc' = [pc EXCEPT ![s] = l]
    BY <1>3 DEF SendClosed, SendOpen, LoadHead, LoadTail, Full, Claim, WriteValue, Publish,
       WakeLoad, Sent, Goto, SendLabels, recvVars, wakeVars
  <2>2. \A u \in Senders : pc[u] = "wake" => pc'[u] = "wake"
    BY <1>0, <2>1
  <2> QED BY <2>1, <2>2 DEF Registered
<1>4. ASSUME StoreWaker PROVE waker_set'
  BY <1>4 DEF StoreWaker
<1>5. ASSUME \/ TryRecv \/ RecvNothing \/ ReadValue \/ Recycle \/ Advance \/ LoadClosed
             \/ TermHead \/ PollWoken \/ PollFallback \/ RecvAgain
      PROVE  FALSE
  BY <1>5 DEF TryRecv, RecvNothing, ReadValue, Recycle, Advance, LoadClosed, TermHead,
     Undrained, PollWoken, PollFallback, RecvAgain
<1>6. ASSUME Park \/ Close \/ Over \/ UNCHANGED chanVars
      PROVE  waker_set' \/ queued' > 0 \/ refused' \/ \E u \in Senders : pc'[u] = "wake"
  <2>1. UNCHANGED <<waker_set, queued, refused, pc>> /\ rpc \in {"again", "parked"}
    BY <1>6 DEF Park, Close, Over, chanVars, sendVars, recvVars, wakeVars
  <2> QED BY <2>1 DEF Registered
<1> QED
  BY <1>1, <1>2, <1>3, <1>4, <1>5, <1>6, <1>7 DEF ChanNext, SendStep, RecvStep

LEMMA NoLostWakeupStep ==
  ChanTypeOK /\ Registered /\ NoLostWakeup /\ [ChanNext]_chanVars => NoLostWakeup'
<1> SUFFICES ASSUME ChanTypeOK, Registered, NoLostWakeup, [ChanNext]_chanVars,
                    rpc' = "parked", Readable'
             PROVE  queued' > 0 \/ refused' \/ \E s \in Senders : Waking(s)'
  BY DEF NoLostWakeup
<1>0. /\ pc \in [Senders -> SendLabels] /\ queued \in Nat
      /\ rpc \in ParkLabels => kind # "block"
  BY DEF ChanTypeOK, SendersOK, ReceiverOK
<1>1. ASSUME NEW s \in Senders, Publish(s) PROVE queued' > 0 \/ refused' \/ \E u \in Senders : Waking(u)'
  <2>1. rpc = "parked" /\ kind # "block"
    BY <1>0, <1>1 DEF Publish, recvVars, ParkLabels
  <2>2. pc'[s] = "wake_load" /\ UNCHANGED <<waker_set, queued, refused>>
    BY <1>0, <1>1, <2>1 DEF Publish, Goto, wakeVars
  <2>3. CASE waker_set
    BY <2>2, <2>3 DEF Waking
  <2>4. CASE ~waker_set
    <3>1. queued > 0 \/ refused \/ \E u \in Senders : pc[u] = "wake"
      BY <2>1, <2>4 DEF Registered
    <3>2. \A u \in Senders : pc[u] = "wake" => pc'[u] = "wake"
      BY <1>0, <1>1, <2>1 DEF Publish, Goto
    <3> QED BY <2>2, <3>1, <3>2 DEF Waking
  <2> QED BY <2>3, <2>4
<1>2. ASSUME NEW s \in Senders, WakeLoad(s) PROVE queued' > 0 \/ refused' \/ \E u \in Senders : Waking(u)'
  <2>1. UNCHANGED <<ringVars, rpc, waker_set, queued, refused>> /\ pc[s] = "wake_load"
        /\ \A u \in Senders \ {s} : pc'[u] = pc[u]
    BY <1>0, <1>2 DEF WakeLoad, Sent, Goto, recvVars, wakeVars
  <2>2. CASE waker_set
    BY <1>0, <1>2, <2>2 DEF WakeLoad, Goto, Waking
  <2>3. CASE ~waker_set
    <3>1. queued > 0 \/ refused \/ \E u \in Senders : pc[u] = "wake"
      BY <2>1, <2>3 DEF Registered
    <3> QED BY <2>1, <3>1 DEF Waking
  <2> QED BY <2>2, <2>3
<1>3. ASSUME NEW s \in Senders, WakeClear(s) PROVE Waking(s)'
  BY <1>0, <1>3 DEF WakeClear, Goto, Waking
<1>4. ASSUME NEW s \in Senders, Wake(s) PROVE queued' > 0
  BY <1>0, <1>4 DEF Wake
<1>9. ASSUME NEW s \in Senders, WakeRefused(s) PROVE refused'
  BY <1>9 DEF WakeRefused
<1>5. ASSUME NEW s \in Senders,
             \/ SendClosed(s) \/ SendOpen(s) \/ LoadHead(s) \/ LoadTail(s) \/ Claim(s)
             \/ WriteValue(s)
      PROVE  queued' > 0 \/ refused' \/ \E u \in Senders : Waking(u)'
  <2>1. /\ UNCHANGED <<tail, sequence, rpc, waker_set, queued, refused>>
        /\ pc[s] \notin {"wake_load", "wake_clear", "wake"}
        /\ \E l \in SendLabels : pc' = [pc EXCEPT ![s] = l]
    BY <1>5 DEF SendClosed, SendOpen, LoadHead, LoadTail, Full, Claim, WriteValue, Goto,
       SendLabels, ringVars, recvVars, wakeVars
  <2>2. queued > 0 \/ refused \/ \E u \in Senders : Waking(u)
    BY <2>1 DEF NoLostWakeup, Readable, Slot
  <2>3. \A u \in Senders : Waking(u) => Waking(u)'
    BY <1>0, <2>1 DEF Waking
  <2> QED BY <2>1, <2>2, <2>3
<1>6. ASSUME RecvStep PROVE FALSE
  BY <1>6 DEF RecvStep, TryRecv, RecvNothing, ReadValue, Recycle, Advance, LoadClosed, TermHead,
     Undrained, StoreWaker, Park, PollWoken, RecvAgain, Readable, Slot, ringVars
<1>7. ASSUME PollFallback PROVE FALSE
  BY <1>7 DEF PollFallback
<1>8. ASSUME Close \/ Over \/ UNCHANGED chanVars
      PROVE  queued' > 0 \/ refused' \/ \E u \in Senders : Waking(u)'
  <2>1. UNCHANGED <<tail, sequence, rpc, waker_set, queued, refused, pc>>
    BY <1>8 DEF Close, Over, chanVars, ringVars, sendVars, recvVars, wakeVars
  <2> QED BY <2>1 DEF NoLostWakeup, Readable, Slot, Waking
<1> QED
  BY <1>1, <1>2, <1>3, <1>4, <1>5, <1>6, <1>7, <1>8, <1>9 DEF ChanNext, SendStep

(* NoLostWakeup: a value published while the receiver parks finds its      *)
(* waker, with any number of senders that wake at once.  Only a refused    *)
(* enqueue can leave the receiver parked with a value to read.             *)
THEOREM WakersAreHeard == ChanSpec => []NoLostWakeup
<1>1. ChanInit => Registered /\ NoLostWakeup
  BY DEF ChanInit, Registered, NoLostWakeup
<1>2. ChanInv => ChanTypeOK
  BY DEF ChanInv
<1> QED
  BY <1>1, <1>2, RegisteredStep, NoLostWakeupStep, InvAlways, PTL DEF ChanSpec

-----------------------------------------------------------------------------
(* ChannelIsFifo: the CAS of a sender puts, the receiver's read takes, and *)
(* None is said only of an empty queue.                                    *)
THEOREM ChannelImplementsFifo == ChanSpec => ChannelIsFifo
<1>1. ChanInit => Fifo!FifoInit
  BY DEF ChanInit, Fifo!FifoInit
<1>2. ChanInv /\ [ChanNext]_chanVars => [Fifo!FifoNext]_Fifo!fifoVars
  <2> SUFFICES ASSUME ChanInv, [ChanNext]_chanVars
               PROVE  Fifo!FifoNext \/ UNCHANGED <<fifo, got>>
    BY DEF Fifo!fifoVars
  <2>0. ChanTypeOK /\ Ring /\ Counts /\ Claims /\ Asking
    BY DEF ChanInv, Ring
  <2>1. ASSUME NEW s \in Senders, Claim(s) PROVE Fifo!FifoNext \/ UNCHANGED <<fifo, got>>
    <3>1. CASE head = hd[s]
      <4>1. fifo' = Append(fifo, <<s, nth[s]>>) /\ got' = got
        BY <2>1, <3>1 DEF Claim, recvVars
      <4>2. <<s, nth[s]>> \in Values
        BY <2>0, <2>1, CapacityAssumption DEF Claim, ChanTypeOK, SendersOK, Values
      <4>3. Len(fifo) < N
        BY <2>0, <2>1, <3>1, CapacityIsPositive DEF Claim, ChanTypeOK, RingOK, Counts, Claims,
           First
      <4> QED BY <4>1, <4>2, <4>3 DEF Fifo!FifoNext, Fifo!Put
    <3>2. CASE head # hd[s]
      BY <2>1, <3>2 DEF Claim, recvVars
    <3> QED BY <3>1, <3>2
  <2>2. ASSUME ReadValue PROVE Fifo!FifoNext
    <3>1. fifo # <<>> /\ got' = [got EXCEPT ![Receiver] = Head(fifo)] /\ fifo' = Tail(fifo)
      BY <2>0, <2>2, ReadsTheOldest DEF ReadValue
    <3>2. got[Receiver] = NoValue
      BY <2>0, <2>2 DEF Asking, ReadValue
    <3> QED BY <3>1, <3>2 DEF Fifo!FifoNext, Fifo!Take
  <2>3. ASSUME TermHead PROVE Fifo!FifoNext \/ UNCHANGED <<fifo, got>>
    <3>1. CASE head = tail
      <4>1. Len(fifo) = 0
        BY <2>0, <2>3, <3>1 DEF TermHead, Counts, First, ChanTypeOK, RingOK
      <4>2. fifo = <<>> /\ got[Receiver] = NoValue
        BY <2>0, <2>3, <4>1 DEF TermHead, Asking, ChanTypeOK, RingOK
      <4>3. got' = [got EXCEPT ![Receiver] = Closed] /\ fifo' = fifo
        BY <2>3, <3>1 DEF TermHead, ringVars
      <4> QED BY <4>2, <4>3 DEF Fifo!FifoNext, Fifo!FindEmpty
    <3>2. CASE head # tail
      BY <2>3, <3>2 DEF TermHead, ringVars
    <3> QED BY <3>1, <3>2
  <2>4. ASSUME RecvAgain PROVE Fifo!FifoNext
    BY <2>4 DEF RecvAgain, ringVars, Fifo!FifoNext, Fifo!Ask
  <2>5. ASSUME NEW s \in Senders,
               \/ SendClosed(s) \/ SendOpen(s) \/ LoadHead(s) \/ LoadTail(s) \/ WriteValue(s)
               \/ Publish(s) \/ WakeLoad(s) \/ WakeClear(s) \/ Wake(s) \/ WakeRefused(s)
        PROVE  UNCHANGED <<fifo, got>>
    BY <2>5 DEF SendClosed, SendOpen, LoadHead, LoadTail, WriteValue, Publish, WakeLoad,
       WakeClear, Wake, WakeRefused, ringVars, recvVars
  <2>6. ASSUME \/ TryRecv \/ RecvNothing \/ Recycle \/ Advance \/ LoadClosed \/ StoreWaker
               \/ Park \/ PollWoken \/ PollFallback \/ Close \/ Over \/ UNCHANGED chanVars
        PROVE  UNCHANGED <<fifo, got>>
    BY <2>6 DEF TryRecv, RecvNothing, Recycle, Advance, LoadClosed, StoreWaker, Park, PollWoken,
       PollFallback, Close, Over, chanVars, ringVars, recvVars
  <2> QED
    BY <2>1, <2>2, <2>3, <2>4, <2>5, <2>6 DEF ChanNext, SendStep, RecvStep
<1> QED
  BY <1>1, <1>2, InvAlways, PTL DEF ChanSpec, ChannelIsFifo, Fifo!FifoSpec
=============================================================================
