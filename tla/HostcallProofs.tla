--------------------------- MODULE HostcallProofs ---------------------------
(***************************************************************************)
(* Theorems about the hostcall protocol, for any number of callers,        *)
(* shards, packets, calls and kernels, and any program: it is type-correct *)
(* (no index leaves the buffer, no service makes a word ill-formed); a     *)
(* request that is on a ready stack is never left unseen by a listener     *)
(* that goes back to polling; and it uses the free stack by the steps of   *)
(* FreeStack alone, so that what is proved there holds here.  From that,   *)
(* and an invariant of the requests on their way, it follows that a caller *)
(* finds its own answer, and that the protocol is a remote procedure call. *)
(***************************************************************************)
EXTENDS Hostcall, FreeStackProofs, SequenceTheorems

-----------------------------------------------------------------------------
(* Who may change what.                                                    *)

CallStep(t) == BeginCall(t) \/ Caller(t) \/ TimeLimit(t)
HostStep == Listener \/ IoThread \/ Host

LEMMA StepCases ==
  [HostcallNext]_vars => \/ \E t \in Callers : CallStep(t)
                         \/ HostStep
                         \/ ReinitAndLaunch
                         \/ UNCHANGED vars
  BY DEF HostcallNext, CallStep, HostStep, Terminated

LEMMA CallStepFrame ==
  ASSUME NEW t \in Callers, CallStep(t)
  PROVE  UNCHANGED <<lpc, last, scan, cur, rest, lflags, ioq, iopkt, ioflags, kernel,
                     launches, shutdown, program>>
<1> USE DEF hostcallVars, listenerVars, ioVars, hostVars
<1>1. CASE BeginCall(t)
  BY <1>1 DEF BeginCall
<1>2. CASE Caller(t)
  BY <1>2 DEF Caller, StackStep, Refused, PollAgain, ClearControl, Fill, ReadyLink, ReadyCas,
              RingDoorbell, TakeAnswer
<1>3. CASE TimeLimit(t)
  BY <1>3 DEF TimeLimit, RequestTimeout, LeavePacket, LeaveUnsent
<1> QED
  BY <1>1, <1>2, <1>3 DEF CallStep

LEMMA HostStepFrame ==
  HostStep => UNCHANGED <<free, next, pc, pkt, hd, nx, avail, role, calls, outcome,
                          doorbell, launches, program>>
<1> SUFFICES ASSUME HostStep
             PROVE  UNCHANGED <<free, next, pc, pkt, hd, nx, avail, role, calls, outcome,
                                doorbell, launches, program>>
  OBVIOUS
<1> USE DEF vars, stackVars, hostcallVars, requestVars, callVars, listenerVars, ioVars,
            hostVars
<1>1. CASE Listener
  BY <1>1 DEF Listener, ListenerLook, ListenerWake, ListenerSpin, ListenerExit, Swap,
              VisitUnfilled, VisitInline, VisitUnknown, VisitBlocking, Reply
<1>2. CASE IoThread
  BY <1>2 DEF IoThread, IoServe, IoReply
<1>3. CASE Host
  BY <1>3 DEF Host, Synchronize, SignalShutdown, DropSession
<1> QED
  BY <1>1, <1>2, <1>3 DEF HostStep

-----------------------------------------------------------------------------
(* Type correctness, one part of HostcallTypeOK at a time.                 *)

LEMMA HostcallTypeInit == HostcallInit => HostcallTypeOK
<1> SUFFICES ASSUME HostcallInit PROVE HostcallTypeOK
  OBVIOUS
<1>1. StackWordsOK
  BY InitialWords, WordFacts
  DEF HostcallInit, StackInit, StackWordsOK, CallLabels, OwnerLabels, StackLabels, Index
<1>2. RequestsOK
  BY WordFacts, HostcallAssumption
  DEF HostcallInit, RequestsOK, Requests, Blank, Services
<1>3. CallsOK
  BY HostcallAssumption
  DEF HostcallInit, StackInit, CallsOK, Outcomes, Fates, Roles, NoRole
<1>4. ListenerOK
  BY WordFacts, LayoutAssumption DEF HostcallInit, ListenerOK, Shards, Index
<1>5. HostOK
  BY HostcallAssumption, EmptySeq DEF HostcallInit, HostOK, Index
<1> QED
  BY <1>1, <1>2, <1>3, <1>4, <1>5 DEF HostcallTypeOK

LEMMA StackWordsStep == HostcallTypeOK /\ [HostcallNext]_vars => StackWordsOK'
<1> SUFFICES ASSUME HostcallTypeOK, [HostcallNext]_vars PROVE StackWordsOK'
  OBVIOUS
<1> USE DEF StackWordsOK, CallLabels, OwnerLabels, StackLabels, Goto
<1>1. StackWordsOK /\ ready \in [Shards -> Tagged]
  BY DEF HostcallTypeOK, RequestsOK
<1>2. NULL_INDEX \in Index /\ Packets = Index \ {NULL_INDEX}
  BY PacketIsNotNull DEF Index
<1>3. ASSUME NEW t \in Callers, PoolStep(t) PROVE StackWordsOK'
  <2> DEFINE s == ShardOf[t]
  <2>1. s \in Shards /\ null_tagged \in Tagged
    BY CallerAssumption, WordFacts
  <2>2. CASE PopLoad(t)
    <3>1. free[s] \in Tagged /\ free[s].idx \in Index
      BY <1>1, <2>1, WordFacts
    <3>2. CASE free[s].idx = NULL_INDEX
      BY <1>1, <2>2, <3>2 DEF PopLoad
    <3>3. CASE free[s].idx # NULL_INDEX
      BY <1>1, <1>2, <2>2, <3>1, <3>3 DEF PopLoad
    <3> QED
      BY <3>2, <3>3
  <2>3. CASE PopNext(t)
    BY <1>1, <1>2, <2>1, <2>3 DEF PopNext
  <2>4. CASE PopCas(t)
    <3>1. hd[t].idx \in Packets
      BY <1>1, <2>4 DEF PopCas
    <3>2. CASE free[s] = hd[t]
      BY <1>1, <1>2, <2>1, <2>4, <3>1, <3>2 DEF PopCas
    <3>3. CASE free[s] # hd[t]
      BY <1>1, <1>2, <2>1, <2>4, <3>3 DEF PopCas
    <3> QED
      BY <3>2, <3>3
  <2>5. CASE FreeLink(t)
    BY <1>1, <1>2, <2>1, <2>5 DEF FreeLink
  <2>6. CASE FreeCas(t)
    <3>1. pkt[t] \in Packets
      BY <1>1, <1>2, <2>6 DEF FreeCas
    <3>2. make_tagged(bump_tag(hd[t]), pkt[t]) \in Tagged
      BY <1>1, WordFacts
    <3>3. CASE free[s] = hd[t]
      BY <1>1, <1>2, <2>1, <2>6, <3>1, <3>2, <3>3 DEF FreeCas
    <3>4. CASE free[s] # hd[t]
      BY <1>1, <1>2, <2>1, <2>6, <3>4 DEF FreeCas
    <3> QED
      BY <3>3, <3>4
  <2> QED
    BY <1>3, <2>2, <2>3, <2>4, <2>5, <2>6 DEF PoolStep
<1>4. ASSUME NEW t \in Callers, BeginCall(t) \/ Refused(t) \/ PollAgain(t) PROVE StackWordsOK'
  BY <1>1, <1>4 DEF BeginCall, Refused, PollAgain
<1>5. ASSUME NEW t \in Callers, ClearControl(t) \/ Fill(t) \/ RingDoorbell(t)
                                \/ TakeAnswer(t) \/ RequestTimeout(t) \/ LeaveUnsent(t)
      PROVE  StackWordsOK'
  BY <1>1, <1>5 DEF ClearControl, Fill, RingDoorbell, TakeAnswer, RequestTimeout, LeaveUnsent
<1>6. ASSUME NEW t \in Callers, ReadyLink(t) PROVE StackWordsOK'
  BY <1>1, <1>2, <1>6, CallerAssumption DEF ReadyLink
<1>7. ASSUME NEW t \in Callers, ReadyCas(t) PROVE StackWordsOK'
  <2>1. null_tagged \in Tagged
    BY WordFacts
  <2> QED
    BY <1>1, <1>7, <2>1 DEF ReadyCas
<1>8. ASSUME NEW t \in Callers, LeavePacket(t) PROVE StackWordsOK'
  BY <1>1, <1>2, <1>8 DEF LeavePacket
<1>9. ASSUME ReinitAndLaunch PROVE StackWordsOK'
  BY <1>1, <1>9, InitialWords DEF ReinitAndLaunch, ReinitStacks
<1>10. ASSUME HostStep \/ UNCHANGED vars PROVE StackWordsOK'
  BY <1>1, <1>10, HostStepFrame DEF vars, stackVars
<1> QED
  BY <1>3, <1>4, <1>5, <1>6, <1>7, <1>8, <1>9, <1>10, StepCases
  DEF CallStep, Caller, StackStep, TimeLimit

LEMMA HandlerTypes ==
  ASSUME HostcallTypeOK, NEW p \in Packets, NEW answer \in {"ok", "err"}
  PROVE  /\ Serve(p, answer) => fate' \in [Callers -> [1 .. MaxCalls -> Fates]]
         /\ [payload EXCEPT ![p].result = answer] \in [Packets -> Requests]
         /\ FlagsFor(answer) \in {READY, READY_ERROR}
<1>1. payload \in [Packets -> Requests] /\ payload[p] \in Requests
  BY DEF HostcallTypeOK, RequestsOK
<1>2. fate \in [Callers -> [1 .. MaxCalls -> Fates]]
  BY DEF HostcallTypeOK, CallsOK
<1>3. Serve(p, answer) => fate' \in [Callers -> [1 .. MaxCalls -> Fates]]
  <2>1. CASE payload[p].of = Nobody
    BY <1>2, <2>1 DEF Serve
  <2>2. CASE payload[p].of # Nobody
    <3>1. payload[p].of \in Callers /\ payload[p].call \in 0 .. MaxCalls /\ payload[p].call # 0
      BY <1>1, <2>2 DEF Requests, HostcallTypeOK, RequestsOK
    <3>2. payload[p].call \in 1 .. MaxCalls
      BY <3>1, HostcallAssumption
    <3>3. answer \in Fates /\ "twice" \in Fates
      BY DEF Fates
    <3> QED
      BY <1>2, <2>2, <3>1, <3>2, <3>3 DEF Serve
  <2> QED
    BY <2>1, <2>2
<1>4. [payload EXCEPT ![p].result = answer] \in [Packets -> Requests]
  BY <1>1 DEF Requests
<1> QED
  BY <1>3, <1>4 DEF FlagsFor

LEMMA RequestsStep == HostcallTypeOK /\ [HostcallNext]_vars => RequestsOK'
<1> SUFFICES ASSUME HostcallTypeOK, [HostcallNext]_vars PROVE RequestsOK'
  OBVIOUS
<1>1. RequestsOK /\ StackWordsOK /\ CallsOK /\ ListenerOK /\ HostOK
  BY DEF HostcallTypeOK
<1>2. Packets = Index \ {NULL_INDEX}
  BY PacketIsNotNull DEF Index
<1>3. ASSUME NEW t \in Callers, BeginCall(t) \/ StackStep(t) \/ Refused(t) \/ PollAgain(t)
                                \/ ReadyLink(t) \/ TakeAnswer(t) \/ TimeLimit(t)
      PROVE  RequestsOK'
  <2>1. UNCHANGED requestVars
    BY <1>3 DEF BeginCall, StackStep, Refused, PollAgain, ReadyLink, TakeAnswer, TimeLimit,
                RequestTimeout, LeavePacket, LeaveUnsent, hostcallVars
  <2> QED
    BY <1>1, <2>1 DEF requestVars, RequestsOK
<1>4. ASSUME NEW t \in Callers, ClearControl(t) PROVE RequestsOK'
  BY <1>1, <1>4 DEF ClearControl, RequestsOK
<1>5. ASSUME NEW t \in Callers, Fill(t) PROVE RequestsOK'
  <2> DEFINE request == [of |-> t, call |-> calls[t], service |-> role[t].service,
                         result |-> "asked"]
  <2>1. role[t].service \in Services /\ calls[t] \in 0 .. MaxCalls /\ calls[t] # 0
    BY <1>1, <1>5 DEF Fill, CallsOK, Roles
  <2>2. request \in Requests /\ (request.of # Nobody => request.call # 0)
    BY <2>1 DEF Requests
  <2>3. control' \in [Packets -> {{}, FILLED, READY, READY_ERROR}]
    BY <1>1, <1>5 DEF Fill, RequestsOK
  <2>4. payload' = [payload EXCEPT ![pkt[t]] = request] /\ UNCHANGED <<ready, doorbell>>
    BY <1>5 DEF Fill
  <2> HIDE DEF request
  <2> QED
    BY <1>1, <2>2, <2>3, <2>4 DEF RequestsOK
<1>6. ASSUME NEW t \in Callers, ReadyCas(t) PROVE RequestsOK'
  <2>1. pkt[t] \in Index /\ hd[t] \in Tagged
    BY <1>1, <1>6 DEF StackWordsOK
  <2>2. make_tagged(bump_tag(hd[t]), pkt[t]) \in Tagged
    BY <2>1, WordFacts
  <2> QED
    BY <1>1, <1>6, <2>2 DEF ReadyCas, RequestsOK
<1>7. ASSUME NEW t \in Callers, RingDoorbell(t) PROVE RequestsOK'
  BY <1>1, <1>7 DEF RingDoorbell, RequestsOK
<1>8. ASSUME ListenerLook \/ ListenerWake \/ ListenerSpin \/ ListenerExit \/ VisitUnfilled
               \/ VisitUnknown
               \/ VisitBlocking \/ Host \/ UNCHANGED vars
      PROVE  RequestsOK'
  <2>1. UNCHANGED requestVars
    BY <1>8 DEF ListenerLook, ListenerWake, ListenerSpin, ListenerExit, VisitUnfilled,
                VisitUnknown, VisitBlocking, Host, Synchronize, SignalShutdown, DropSession, vars,
                hostcallVars
  <2> QED
    BY <1>1, <2>1 DEF requestVars, RequestsOK
<1>9. ASSUME Swap PROVE RequestsOK'
  BY <1>1, <1>9, WordFacts DEF Swap, RequestsOK
<1>10. ASSUME VisitInline PROVE RequestsOK'
  <2>1. cur \in Packets
    BY <1>1, <1>2, <1>10 DEF VisitInline, ListenerOK
  <2>2. PICK answer \in {"ok", "err"} : payload' = [payload EXCEPT ![cur].result = answer]
    BY <1>10 DEF VisitInline, AnswersOf, Handle
  <2>3. \A p \in Packets : payload'[p].of = payload[p].of /\ payload'[p].call = payload[p].call
    BY <1>1, <2>1, <2>2 DEF RequestsOK, Requests
  <2> QED
    BY <1>1, <1>10, <2>1, <2>2, <2>3, HandlerTypes DEF VisitInline, RequestsOK
<1>11. ASSUME Reply PROVE RequestsOK'
  BY <1>1, <1>11 DEF Reply, RequestsOK, ListenerOK
<1>12. ASSUME IoServe PROVE RequestsOK'
  <2>1. Head(ioq) \in Packets
    BY <1>1, <1>12, HeadTailProperties DEF IoServe, HostOK
  <2>2. PICK answer \in {"ok", "err"} : payload' = [payload EXCEPT ![Head(ioq)].result = answer]
    BY <1>12 DEF IoServe, AnswersOf, Handle
  <2>3. \A p \in Packets : payload'[p].of = payload[p].of /\ payload'[p].call = payload[p].call
    BY <1>1, <2>1, <2>2 DEF RequestsOK, Requests
  <2> QED
    BY <1>1, <1>12, <2>1, <2>2, <2>3, HandlerTypes DEF IoServe, RequestsOK
<1>13. ASSUME IoReply PROVE RequestsOK'
  BY <1>1, <1>13 DEF IoReply, RequestsOK, HostOK
<1>14. ASSUME ReinitAndLaunch PROVE RequestsOK'
  BY <1>1, <1>14, WordFacts DEF ReinitAndLaunch, RequestsOK
<1> QED
  BY <1>3, <1>4, <1>5, <1>6, <1>7, <1>8, <1>9, <1>10, <1>11, <1>12, <1>13, <1>14, StepCases
  DEF CallStep, Caller, HostStep, Listener, IoThread

LEMMA CallsStep == HostcallTypeOK /\ [HostcallNext]_vars => CallsOK'
<1> SUFFICES ASSUME HostcallTypeOK, [HostcallNext]_vars PROVE CallsOK'
  OBVIOUS
<1> USE DEF CallsOK, Goto
<1>1. RequestsOK /\ StackWordsOK /\ CallsOK /\ ListenerOK /\ HostOK /\ MaxCalls \in Nat
  BY HostcallAssumption DEF HostcallTypeOK
<1>2. Packets = Index \ {NULL_INDEX}
  BY PacketIsNotNull DEF Index
<1>3. ASSUME NEW t \in Callers, BeginCall(t) PROVE CallsOK'
  <2>1. calls[t] \in 0 .. MaxCalls /\ calls[t] + 1 \in 1 .. MaxCalls
    BY <1>1, <1>3 DEF BeginCall
  <2>2. calls' \in [Callers -> 0 .. MaxCalls] /\ calls'[t] # 0
    BY <1>1, <1>3, <2>1 DEF BeginCall
  <2>3. PICK r \in program.roles : role' = [role EXCEPT ![t] = r]
    BY <1>3 DEF BeginCall
  <2>4. r \in Roles
    BY <1>1, <2>3 DEF HostOK, Programs
  <2>5. fate' \in [Callers -> [1 .. MaxCalls -> Fates]]
    BY <1>1, <1>3, <2>1 DEF BeginCall, Fates
  <2>6. outcome' \in [Callers -> Outcomes]
    BY <1>1, <1>3 DEF BeginCall, Outcomes
  <2>7. \A u \in Callers : pc'[u] # "idle" => calls'[u] # 0 /\ role'[u] \in Roles
    BY <1>1, <1>3, <2>2, <2>3, <2>4 DEF BeginCall, StackWordsOK
  <2>8. role' \in [Callers -> Roles \union {NoRole}]
    BY <1>1, <2>3, <2>4
  <2> QED
    BY <2>2, <2>5, <2>6, <2>7, <2>8
<1>4. ASSUME NEW t \in Callers, Refused(t) PROVE CallsOK'
  <2>1. calls[t] \in 1 .. MaxCalls
    BY <1>1, <1>4 DEF Refused
  <2>2. fate' \in [Callers -> [1 .. MaxCalls -> Fates]] /\ outcome' \in [Callers -> Outcomes]
    BY <1>1, <1>4, <2>1 DEF Refused, Fates, Outcomes
  <2> QED
    BY <1>1, <1>4, <2>2 DEF Refused, StackWordsOK
<1>5. ASSUME NEW t \in Callers, StackStep(t) \/ PollAgain(t) \/ ClearControl(t) \/ Fill(t)
                                \/ ReadyLink(t) \/ ReadyCas(t) \/ RingDoorbell(t)
      PROVE  CallsOK'
  <2>1. UNCHANGED <<role, calls, outcome, fate>>
    BY <1>5 DEF StackStep, PollAgain, ClearControl, Fill, ReadyLink, ReadyCas, RingDoorbell,
                hostcallVars, callVars
  <2>2. \A u \in Callers : pc'[u] # "idle" => pc[u] # "idle"
    BY <1>1, <1>5 DEF StackStep, PoolStep, PopLoad, PopNext, PopCas, FreeLink, FreeCas, PollAgain,
                      ClearControl, Fill, ReadyLink, ReadyCas, RingDoorbell, StackWordsOK
  <2> QED
    BY <1>1, <2>1, <2>2
<1>6. ASSUME NEW t \in Callers, TakeAnswer(t) \/ TimeLimit(t)
      PROVE  CallsOK'
  <2>1. UNCHANGED <<role, calls, fate>>
    BY <1>6 DEF TakeAnswer, TimeLimit, RequestTimeout, LeavePacket, LeaveUnsent
  <2>2. \A u \in Callers : pc'[u] # "idle" => pc[u] # "idle"
    BY <1>1, <1>6 DEF TakeAnswer, TimeLimit, RequestTimeout, LeavePacket, LeaveUnsent, StackWordsOK
  <2>3. outcome' \in [Callers -> Outcomes]
    BY <1>1, <1>6 DEF TakeAnswer, TimeLimit, RequestTimeout, LeavePacket, LeaveUnsent, Outcomes
  <2> QED
    BY <1>1, <2>1, <2>2, <2>3
<1>7. ASSUME HostStep PROVE CallsOK'
  <2>1. UNCHANGED <<role, calls, outcome, pc>>
    BY <1>7, HostStepFrame
  <2>2. fate' \in [Callers -> [1 .. MaxCalls -> Fates]]
    <3>1. CASE ListenerLook \/ ListenerWake \/ ListenerSpin \/ ListenerExit \/ Swap
                 \/ VisitUnfilled \/ VisitBlocking \/ Reply \/ IoReply \/ Host
      BY <1>1, <3>1 DEF ListenerLook, ListenerWake, ListenerSpin, ListenerExit, Swap,
                        VisitUnfilled, VisitBlocking, Reply, IoReply, Host, Synchronize,
                        SignalShutdown, DropSession, vars, hostcallVars
    <3>2. CASE VisitInline \/ VisitUnknown
      <4>1. cur \in Packets
        BY <1>1, <1>2, <3>2 DEF VisitInline, VisitUnknown, ListenerOK
      <4>2. \E answer \in {"ok", "err"} : Serve(cur, answer)
        BY <3>2 DEF VisitInline, VisitUnknown, AnswersOf, Handle
      <4> QED
        BY <4>1, <4>2, HandlerTypes
    <3>3. CASE IoServe
      <4>1. Head(ioq) \in Packets
        BY <1>1, <3>3, HeadTailProperties DEF IoServe, HostOK
      <4>2. \E answer \in {"ok", "err"} : Serve(Head(ioq), answer)
        BY <3>3 DEF IoServe, AnswersOf, Handle
      <4> QED
        BY <4>1, <4>2, HandlerTypes
    <3> QED
      BY <1>7, <3>1, <3>2, <3>3 DEF HostStep, Listener, IoThread
  <2> QED
    BY <1>1, <2>1, <2>2
<1>8. ASSUME ReinitAndLaunch \/ UNCHANGED vars PROVE CallsOK'
  BY <1>1, <1>8 DEF ReinitAndLaunch, ReinitStacks, vars, stackVars, hostcallVars, callVars
<1> QED
  BY <1>3, <1>4, <1>5, <1>6, <1>7, <1>8, StepCases DEF CallStep, Caller

LEMMA GoToTypes ==
  ASSUME NEW word \in Tagged, scan \in Shards, GoTo(word)
  PROVE  /\ lpc' \in {"poll", "swap", "visit"} /\ scan' \in Shards /\ cur' \in Index
         /\ lpc' = "visit" <=> cur' # NULL_INDEX
<1>1. word.idx \in Index /\ NULL_INDEX \in Index
  BY WordFacts DEF Index
<1>2. NumShards \in Nat \ {0}
  BY LayoutAssumption
<1>3. CASE word.idx = NULL_INDEX
  <2>1. scan' \in Shards
    BY <1>2, <1>3 DEF GoTo, NextShard, Shards
  <2> QED
    BY <1>1, <1>3, <2>1 DEF GoTo, NextShard
<1>4. CASE word.idx # NULL_INDEX
  BY <1>1, <1>4 DEF GoTo
<1> QED
  BY <1>3, <1>4

LEMMA ListenerStep == HostcallTypeOK /\ [HostcallNext]_vars => ListenerOK'
<1> SUFFICES ASSUME HostcallTypeOK, [HostcallNext]_vars PROVE ListenerOK'
  OBVIOUS
<1>1. RequestsOK /\ StackWordsOK /\ ListenerOK
  BY DEF HostcallTypeOK
<1>2. scan \in Shards /\ ready[scan] \in Tagged
  BY <1>1 DEF ListenerOK, RequestsOK
<1>3. cur # NULL_INDEX => next[cur] \in Tagged
  BY <1>1, PacketIsNotNull DEF ListenerOK, StackWordsOK, Index
<1>4. ASSUME ListenerWake PROVE ListenerOK'
  <2>1. 0 \in Shards
    BY LayoutAssumption DEF Shards
  <2> QED
    BY <1>1, <1>4, <2>1 DEF ListenerWake, ListenerOK, RequestsOK
<1>5. ASSUME ListenerLook \/ ListenerSpin \/ ListenerExit PROVE ListenerOK'
  BY <1>1, <1>5 DEF ListenerLook, ListenerSpin, ListenerExit, ListenerOK
<1>6. ASSUME Swap PROVE ListenerOK'
  BY <1>1, <1>2, <1>6, GoToTypes DEF Swap, ListenerOK
<1>7. ASSUME VisitUnfilled \/ VisitBlocking PROVE ListenerOK'
  <2>1. next[cur] \in Tagged /\ GoTo(next[cur]) /\ UNCHANGED <<last, rest, lflags>>
    BY <1>1, <1>3, <1>7 DEF VisitUnfilled, VisitBlocking, ListenerOK
  <2> QED
    BY <1>1, <1>2, <2>1, GoToTypes DEF ListenerOK
<1>8. ASSUME VisitInline \/ VisitUnknown PROVE ListenerOK'
  <2>1. /\ lflags' \in {READY, READY_ERROR}
        /\ rest' = next[cur] /\ lpc = "visit" /\ lpc' = "reply" /\ UNCHANGED <<last, scan, cur>>
    BY <1>8 DEF VisitInline, VisitUnknown, FlagsFor
  <2> QED
    BY <1>1, <1>3, <2>1 DEF ListenerOK
<1>9. ASSUME Reply PROVE ListenerOK'
  <2>1. rest \in Tagged
    BY <1>1 DEF ListenerOK
  <2> QED
    BY <1>1, <1>2, <1>9, <2>1, GoToTypes, WordFacts DEF Reply, ListenerOK
<1>10. ASSUME IoThread \/ Host \/ ReinitAndLaunch \/ UNCHANGED vars
       PROVE  ListenerOK'
  BY <1>1, <1>10
  DEF IoThread, IoServe, IoReply, Host, Synchronize, SignalShutdown, DropSession, ReinitAndLaunch,
      vars, hostcallVars, listenerVars, ListenerOK
<1>11. ASSUME NEW t \in Callers, CallStep(t) PROVE ListenerOK'
  BY <1>1, <1>11, CallStepFrame DEF ListenerOK
<1> QED
  BY <1>4, <1>5, <1>6, <1>7, <1>8, <1>9, <1>10, <1>11, StepCases DEF HostStep, Listener

LEMMA HostStepTypes == HostcallTypeOK /\ [HostcallNext]_vars => HostOK'
<1> SUFFICES ASSUME HostcallTypeOK, [HostcallNext]_vars PROVE HostOK'
  OBVIOUS
<1>1. ListenerOK /\ HostOK
  BY DEF HostcallTypeOK
<1>2. Packets = Index \ {NULL_INDEX}
  BY PacketIsNotNull DEF Index
<1>3. ASSUME ListenerLook \/ ListenerWake \/ ListenerSpin \/ ListenerExit \/ Swap \/ VisitUnfilled
               \/ VisitInline \/ VisitUnknown \/ Reply \/ UNCHANGED vars
      PROVE  HostOK'
  BY <1>1, <1>3
  DEF ListenerLook, ListenerWake, ListenerSpin, ListenerExit, Swap, VisitUnfilled, VisitInline,
      VisitUnknown, Reply, vars, hostcallVars, ioVars, hostVars, HostOK
<1>4. ASSUME VisitBlocking PROVE HostOK'
  <2>1. cur \in Packets
    BY <1>1, <1>2, <1>4 DEF VisitBlocking, ListenerOK
  <2>2. Append(ioq, cur) \in Seq(Packets)
    BY <1>1, <2>1, AppendProperties DEF HostOK
  <2> QED
    BY <1>1, <1>4, <2>2 DEF VisitBlocking, HostOK, hostVars
<1>5. ASSUME IoServe PROVE HostOK'
  <2>1. Head(ioq) \in Packets /\ Tail(ioq) \in Seq(Packets)
    BY <1>1, <1>5, HeadTailProperties DEF IoServe, HostOK
  <2>2. ioflags' \in {READY, READY_ERROR}
    BY <1>5 DEF IoServe, FlagsFor
  <2> QED
    BY <1>1, <1>2, <1>5, <2>1, <2>2 DEF IoServe, HostOK, hostVars
<1>6. ASSUME IoReply PROVE HostOK'
  BY <1>1, <1>6 DEF IoReply, HostOK, hostVars, Index
<1>7. ASSUME Host PROVE HostOK'
  BY <1>1, <1>7, ZenonT(20) DEF Host, Synchronize, SignalShutdown, DropSession, HostOK, ioVars
<1>8. ASSUME ReinitAndLaunch PROVE HostOK'
  BY <1>1, <1>8 DEF ReinitAndLaunch, HostOK, ioVars
<1>9. ASSUME NEW t \in Callers, CallStep(t) PROVE HostOK'
  BY <1>1, <1>9, CallStepFrame DEF HostOK
<1> QED
  BY <1>3, <1>4, <1>5, <1>6, <1>7, <1>8, <1>9, StepCases DEF HostStep, Listener, IoThread

LEMMA HostcallTypeStep == HostcallTypeOK /\ [HostcallNext]_vars => HostcallTypeOK'
  BY StackWordsStep, RequestsStep, CallsStep, ListenerStep, HostStepTypes DEF HostcallTypeOK

(* The words of the buffer and the locals of both sides are well-formed in *)
(* every behavior, time limits, reinitializations and stale words included.*)
THEOREM HostcallTypeCorrect == HostcallSpec => []HostcallTypeOK
<1>1. HostcallInit => HostcallTypeOK
  BY HostcallTypeInit
<1>2. HostcallTypeOK /\ [HostcallNext]_vars => HostcallTypeOK'
  BY HostcallTypeStep
<1> QED
  BY <1>1, <1>2, PTL DEF HostcallSpec

-----------------------------------------------------------------------------
(* No wakeup is lost.  The listener compares the doorbell with the value   *)
(* it had, so what it has seen must never be ahead of the doorbell.        *)

WakeInvariant == HostcallTypeOK /\ last <= doorbell /\ NoLostWakeup

(* The places from which the listener still comes to shard s.              *)
ComesTo(s) == \/ lpc = "swap" /\ scan <= s
              \/ lpc \in {"visit", "reply"} /\ scan < s

LEMMA GoToComes ==
  ASSUME NEW word, GoTo(word), scan \in Shards, NEW s \in Shards, scan < s
  PROVE  ComesTo(s)'
<1>1. NumShards \in Nat /\ scan \in Nat /\ s \in Nat /\ s <= NumShards - 1
  BY LayoutAssumption DEF Shards
<1>2. CASE word.idx = NULL_INDEX
  BY <1>1, <1>2 DEF GoTo, NextShard, ComesTo
<1>3. CASE word.idx # NULL_INDEX
  BY <1>1, <1>3 DEF GoTo, ComesTo
<1> QED
  BY <1>2, <1>3

LEMMA WakeStep == WakeInvariant /\ [HostcallNext]_vars => WakeInvariant'
<1> SUFFICES ASSUME WakeInvariant, [HostcallNext]_vars PROVE WakeInvariant'
  OBVIOUS
<1>1. HostcallTypeOK' /\ HostcallTypeOK
  BY HostcallTypeStep DEF WakeInvariant
<1>2. doorbell \in Nat /\ last \in Nat /\ last <= doorbell /\ scan \in Shards
  BY <1>1 DEF WakeInvariant, HostcallTypeOK, RequestsOK, ListenerOK
<1>3. last' <= doorbell'
  <2>1. CASE \E t \in Callers : CallStep(t)
    <3>1. PICK t \in Callers : CallStep(t)
      BY <2>1
    <3>2. doorbell' \in {doorbell, doorbell + 1}
      BY <3>1 DEF CallStep, BeginCall, Caller, StackStep, Refused, PollAgain, ClearControl, Fill,
                  ReadyLink, ReadyCas, RingDoorbell, TakeAnswer, TimeLimit, RequestTimeout,
                  LeavePacket, LeaveUnsent, hostcallVars, requestVars
    <3> QED
      BY <1>2, <3>1, <3>2, CallStepFrame
  <2>2. CASE HostStep
    <3>1. last' \in {last, doorbell}
      BY <2>2 DEF HostStep, Listener, ListenerLook, ListenerWake, ListenerSpin, ListenerExit, Swap,
                  VisitUnfilled, VisitInline, VisitUnknown, VisitBlocking, Reply, IoThread,
                  IoServe, IoReply, Host, Synchronize, SignalShutdown, DropSession, vars,
                  hostcallVars, listenerVars
    <3> QED
      BY <1>2, <2>2, <3>1, HostStepFrame
  <2>3. CASE ReinitAndLaunch \/ UNCHANGED vars
    BY <1>2, <2>3 DEF ReinitAndLaunch, vars, hostcallVars, requestVars, listenerVars
  <2> QED
    BY <2>1, <2>2, <2>3, StepCases
<1>4. ASSUME NEW s \in Shards, ready'[s].idx # NULL_INDEX
      PROVE  \/ doorbell' # last'
             \/ ComesTo(s)'
             \/ \E t \in Callers : ShardOf[t] = s /\ pc'[t] = "ring"
             \/ lpc' = "exited"
  <2> DEFINE Seen == \/ doorbell # last
                     \/ ComesTo(s)
                     \/ \E t \in Callers : ShardOf[t] = s /\ pc[t] = "ring"
                     \/ lpc = "exited"
  <2>1. ready[s].idx # NULL_INDEX => Seen
    BY DEF WakeInvariant, NoLostWakeup, ComesTo
  <2>2. ASSUME NEW t \in Callers, CallStep(t) PROVE Seen'
    <3>1. UNCHANGED <<lpc, last, scan>>
      BY <2>2, CallStepFrame
    <3>2. CASE RingDoorbell(t)
      BY <1>2, <3>1, <3>2 DEF RingDoorbell
    <3>3. CASE ReadyCas(t) /\ ready[ShardOf[t]] = hd[t] /\ ShardOf[t] = s
      <4>1. pc'[t] = "ring"
        BY <1>1, <3>3 DEF ReadyCas, Goto, HostcallTypeOK, StackWordsOK
      <4> QED
        BY <3>3, <4>1
    <3>4. CASE ~ RingDoorbell(t) /\ ~ (ReadyCas(t) /\ ready[ShardOf[t]] = hd[t] /\ ShardOf[t] = s)
      <4>1. ready'[s] = ready[s] /\ doorbell' = doorbell
        BY <1>1, <2>2, <3>4
        DEF CallStep, BeginCall, Caller, StackStep, Refused, PollAgain, ClearControl, Fill,
            ReadyLink, ReadyCas, TakeAnswer, TimeLimit, RequestTimeout, LeavePacket, LeaveUnsent,
            hostcallVars, requestVars, HostcallTypeOK, RequestsOK
      <4>2. \A u \in Callers : pc[u] = "ring" => pc'[u] = "ring"
        BY <1>1, <2>2, <3>4
        DEF CallStep, BeginCall, Caller, StackStep, PoolStep, PopLoad, PopNext, PopCas, FreeLink,
            FreeCas, Refused, PollAgain, ClearControl, Fill, ReadyLink, ReadyCas, TakeAnswer,
            TimeLimit, RequestTimeout, LeavePacket, LeaveUnsent, Goto, HostcallTypeOK, StackWordsOK
      <4> QED
        BY <1>4, <2>1, <3>1, <4>1, <4>2 DEF ComesTo
    <3> QED
      BY <3>2, <3>3, <3>4
  <2>3. ASSUME HostStep PROVE Seen'
    <3>1. UNCHANGED <<doorbell, pc>>
      BY <2>3, HostStepFrame
    <3>2. CASE ListenerWake
      <4>1. scan' = 0 /\ lpc' = "swap" /\ 0 <= s
        BY <3>2, LayoutAssumption DEF ListenerWake, Shards
      <4> QED
        BY <4>1 DEF ComesTo
    <3>3. CASE Swap
      <4>1. ready' = [ready EXCEPT ![scan] = null_tagged] /\ UNCHANGED last /\ GoTo(ready[scan])
            /\ lpc = "swap"
        BY <3>3 DEF Swap
      <4>2. scan # s /\ ready'[s] = ready[s]
        BY <1>1, <1>4, <4>1, WordFacts DEF HostcallTypeOK, RequestsOK
      <4>3. scan \in Nat /\ s \in Nat
        BY <1>2, LayoutAssumption DEF Shards
      <4>4. CASE scan < s
        BY <1>2, <4>1, <4>4, GoToComes
      <4>5. CASE s < scan
        BY <1>4, <2>1, <3>1, <4>1, <4>2, <4>3, <4>5 DEF ComesTo
      <4> QED
        BY <4>2, <4>3, <4>4, <4>5
    <3>4. CASE VisitUnfilled \/ VisitBlocking \/ Reply
      <4>1. \E word : GoTo(word)
        BY <3>4 DEF VisitUnfilled, VisitBlocking, Reply
      <4>2. UNCHANGED <<ready, last>> /\ lpc \in {"visit", "reply"}
        BY <3>4 DEF VisitUnfilled, VisitBlocking, Reply, requestVars
      <4> QED
        BY <1>2, <1>4, <2>1, <3>1, <4>1, <4>2, GoToComes DEF ComesTo
    <3>5. CASE VisitInline \/ VisitUnknown
      <4>1. UNCHANGED <<ready, last, scan>> /\ lpc = "visit" /\ lpc' = "reply"
        BY <3>5 DEF VisitInline, VisitUnknown, requestVars
      <4> QED
        BY <1>4, <2>1, <3>1, <4>1 DEF ComesTo
    <3>6. CASE ListenerLook \/ ListenerSpin \/ ListenerExit
      <4>1. UNCHANGED <<ready, last>> /\ lpc \in {"poll", "look"}
        BY <3>6 DEF ListenerLook, ListenerSpin, ListenerExit, requestVars
      <4> QED
        BY <1>4, <2>1, <3>1, <3>6, <4>1 DEF ComesTo, ListenerExit
    <3>7. CASE IoThread \/ Host
      <4>1. UNCHANGED <<ready, last, scan, lpc>>
        BY <3>7 DEF IoThread, IoServe, IoReply, Host, Synchronize, SignalShutdown, DropSession,
                    vars, hostcallVars, requestVars, listenerVars
      <4> QED
        BY <1>4, <2>1, <3>1, <4>1 DEF ComesTo
    <3> QED
      BY <2>3, <3>2, <3>3, <3>4, <3>5, <3>6, <3>7 DEF HostStep, Listener
  <2>4. CASE ReinitAndLaunch
    BY <1>4, <2>4, WordFacts DEF ReinitAndLaunch
  <2>5. CASE UNCHANGED vars
    BY <1>4, <2>1, <2>5
    DEF vars, stackVars, hostcallVars, requestVars, listenerVars, ComesTo
  <2> QED
    BY <2>2, <2>3, <2>4, <2>5, StepCases
<1> QED
  BY <1>1, <1>3, <1>4 DEF WakeInvariant, NoLostWakeup, ComesTo

(* For any number of callers and shards: while a request waits on a ready  *)
(* stack, the listener has a ring to answer or is on its way to the shard, *)
(* or the caller is about to ring, or the session is shut down.            *)
THEOREM WakeupsAreKept == HostcallSpec => []NoLostWakeup
<1>1. HostcallInit => WakeInvariant
  BY HostcallTypeInit DEF HostcallInit, WakeInvariant, NoLostWakeup, null_tagged, make_tagged
<1>2. WakeInvariant /\ [HostcallNext]_vars => WakeInvariant'
  BY WakeStep
<1>3. WakeInvariant => NoLostWakeup
  BY DEF WakeInvariant
<1> QED
  BY <1>1, <1>2, <1>3, PTL DEF HostcallSpec

-----------------------------------------------------------------------------
(* The protocol keeps to the discipline the free stack needs of its users: *)
(* each step is a step of FreeStack or does not concern it.                *)

(* old_head is a local of the pop and push loops: it is forgotten between. *)
HeadForgotten ==
  \A t \in Callers : pc[t] \notin {"pop_next", "pop_cas", "free_cas", "ready_cas"}
                     => hd[t] = null_tagged

LEMMA HeadForgottenStep ==
  HostcallTypeOK /\ HeadForgotten /\ [HostcallNext]_vars => HeadForgotten'
<1> SUFFICES ASSUME HostcallTypeOK, HeadForgotten, [HostcallNext]_vars PROVE HeadForgotten'
  OBVIOUS
<1>1. pc \in [Callers -> CallLabels] /\ hd \in [Callers -> Tagged]
  BY DEF HostcallTypeOK, StackWordsOK
<1>2. ASSUME NEW t \in Callers, CallStep(t) PROVE HeadForgotten'
  <2>1. CASE PopLoad(t) \/ PopNext(t) \/ FreeLink(t) \/ ReadyLink(t)
    BY <1>1, <2>1 DEF PopLoad, PopNext, FreeLink, ReadyLink, Goto, HeadForgotten
  <2>2. CASE PopCas(t) \/ FreeCas(t) \/ ReadyCas(t)
    BY <1>1, <2>2 DEF PopCas, FreeCas, ReadyCas, Goto, HeadForgotten
  <2>3. CASE \/ BeginCall(t) \/ Refused(t) \/ PollAgain(t) \/ ClearControl(t) \/ Fill(t)
             \/ RingDoorbell(t) \/ TakeAnswer(t) \/ TimeLimit(t)
    BY <1>1, <2>3
    DEF BeginCall, Refused, PollAgain, ClearControl, Fill, RingDoorbell, TakeAnswer,
        TimeLimit, RequestTimeout, LeavePacket, LeaveUnsent, Goto, HeadForgotten
  <2> QED
    BY <1>2, <2>1, <2>2, <2>3 DEF CallStep, Caller, StackStep, PoolStep
<1>3. ASSUME HostStep \/ ReinitAndLaunch \/ UNCHANGED vars PROVE HeadForgotten'
  BY <1>3, HostStepFrame DEF ReinitAndLaunch, ReinitStacks, vars, stackVars, HeadForgotten
<1> QED
  BY <1>2, <1>3, StepCases

(* What the instance takes over unchanged.                                 *)
LEMMA SameWords ==
  /\ Stack!NULL_INDEX = NULL_INDEX /\ Stack!null_tagged = null_tagged
  /\ \A tag, idx : Stack!make_tagged(tag, idx) = make_tagged(tag, idx)
  /\ \A word : Stack!bump_tag(word) = bump_tag(word)
  BY DEF Stack!NULL_INDEX, NULL_INDEX, Stack!null_tagged, null_tagged, Stack!make_tagged,
         make_tagged, Stack!bump_tag, bump_tag

LEMMA SameLayout ==
  /\ Stack!Shards = Shards /\ Stack!Packets = Packets
  /\ Stack!HeadAtInit = HeadAtInit /\ Stack!ChainAtInit = ChainAtInit /\ Stack!Share = Share
<1>1. Stack!Shards = Shards /\ Stack!Packets = Packets
  BY DEF Stack!Shards, Shards, Stack!Packets, Packets
<1>2. \A s : Stack!ShardPackets(s) = ShardPackets(s)
  BY DEF Stack!ShardPackets, ShardPackets
<1>3. \A p : Stack!IsLastOfShard(p) <=> IsLastOfShard(p)
  BY <1>1 DEF Stack!IsLastOfShard, IsLastOfShard
<1> QED
  BY <1>1, <1>2, <1>3, SameWords
  DEF Stack!HeadAtInit, HeadAtInit, Stack!ChainAtInit, ChainAtInit, Stack!Share, Share

LEMMA HostcallStepIsStackStep ==
  HostcallTypeOK /\ HeadForgotten /\ [HostcallNext]_vars => [Stack!StackNext]_(Stack!stackVars)
<1> SUFFICES ASSUME HostcallTypeOK, HeadForgotten, [HostcallNext]_vars
             PROVE  [Stack!StackNext]_(Stack!stackVars)
  OBVIOUS
<1> USE DEF Goto, Stack!Goto, StackLabels
<1>1. /\ pc \in [Callers -> CallLabels] /\ hd \in [Callers -> Tagged]
      /\ ready \in [Shards -> Tagged]
  BY DEF HostcallTypeOK, StackWordsOK, RequestsOK
<1>2. ASSUME NEW t \in Callers, PopLoad(t) PROVE Stack!PopLoad(t)
  BY <1>1, <1>2, SameWords DEF PopLoad, Stack!PopLoad, StackPc, StackHd
<1>3. ASSUME NEW t \in Callers, PopNext(t) PROVE Stack!PopNext(t)
  BY <1>1, <1>3 DEF PopNext, Stack!PopNext, StackPc, StackHd
<1>4. ASSUME NEW t \in Callers, PopCas(t) PROVE Stack!PopCas(t)
  BY <1>1, <1>4, SameWords DEF PopCas, Stack!PopCas, StackPc, StackHd
<1>5. ASSUME NEW t \in Callers, FreeLink(t) PROVE Stack!FreeLink(t)
  BY <1>1, <1>5 DEF FreeLink, Stack!FreeLink, StackPc, StackHd
<1>6. ASSUME NEW t \in Callers, FreeCas(t) PROVE Stack!FreeCas(t)
  BY <1>1, <1>6, SameWords DEF FreeCas, Stack!FreeCas, StackPc, StackHd
<1>7. ASSUME NEW t \in Callers, BeginCall(t) \/ PollAgain(t) PROVE Stack!BeginPop(t)
  BY <1>1, <1>7 DEF BeginCall, PollAgain, Stack!BeginPop, StackPc, StackHd
<1>8. ASSUME NEW t \in Callers, Refused(t) \/ LeaveUnsent(t) PROVE Stack!GiveUp(t)
  BY <1>1, <1>8 DEF Refused, LeaveUnsent, Stack!GiveUp, StackPc, StackHd
<1>9. ASSUME NEW t \in Callers, ReadyLink(t) PROVE Stack!UsePacket(t)
  <2>1. ready[ShardOf[t]] \in Tagged /\ hd[t] = null_tagged
    BY <1>1, <1>9, CallerAssumption DEF ReadyLink, HeadForgotten
  <2>2. StackPc' = StackPc /\ StackHd' = StackHd
    BY <1>1, <1>9, <2>1 DEF ReadyLink, StackPc, StackHd
  <2> QED
    BY <1>9, <2>1, <2>2 DEF ReadyLink, Stack!UsePacket, StackPc
<1>10. ASSUME NEW t \in Callers, TakeAnswer(t) \/ RequestTimeout(t) PROVE Stack!BeginFree(t)
  BY <1>1, <1>10 DEF TakeAnswer, RequestTimeout, Stack!BeginFree, StackPc, StackHd
<1>11. ASSUME NEW t \in Callers, LeavePacket(t) PROVE Stack!WalkAway(t)
  BY <1>1, <1>11, SameWords DEF LeavePacket, Stack!WalkAway, StackPc, StackHd
<1>12. ASSUME NEW t \in Callers, ClearControl(t) \/ Fill(t) \/ ReadyCas(t) \/ RingDoorbell(t)
       PROVE  UNCHANGED Stack!stackVars
  <2>1. UNCHANGED <<free, next, pkt, nx, avail>>
    BY <1>12 DEF ClearControl, Fill, ReadyCas, RingDoorbell
  <2>2. StackPc' = StackPc /\ StackHd' = StackHd
    BY <1>1, <1>12 DEF ClearControl, Fill, ReadyCas, RingDoorbell, StackPc, StackHd
  <2> QED
    BY <2>1, <2>2 DEF Stack!stackVars
<1>13. ASSUME ReinitAndLaunch PROVE Stack!ReinitStacks
  BY <1>1, <1>13, SameLayout
  DEF ReinitAndLaunch, ReinitStacks, Stack!ReinitStacks, StackPc, StackHd
<1>14. ASSUME HostStep \/ UNCHANGED vars PROVE UNCHANGED Stack!stackVars
  BY <1>14, HostStepFrame DEF vars, stackVars, Stack!stackVars, StackPc, StackHd
<1> QED
  BY <1>2, <1>3, <1>4, <1>5, <1>6, <1>7, <1>8, <1>9, <1>10, <1>11, <1>12, <1>13, <1>14, StepCases
  DEF CallStep, Caller, StackStep, PoolStep, TimeLimit, Stack!StackNext, Stack!PoolStep,
      Stack!CallerStep

(* The hostcall protocol uses the free stack only as FreeStack says, ready *)
(* pushes, futures, time limits and reinit_packets included.               *)
THEOREM HostcallUsesTheStack == HostcallSpec => ImplementsStack
<1>1. HostcallInit => HostcallTypeOK /\ HeadForgotten
  BY HostcallTypeInit DEF HostcallInit, StackInit, HeadForgotten
<1>2. HostcallTypeOK /\ HeadForgotten /\ [HostcallNext]_vars => (HostcallTypeOK /\ HeadForgotten)'
  BY HostcallTypeStep, HeadForgottenStep
<1>3. HostcallInit => Stack!StackInit
  BY SameWords, SameLayout
  DEF HostcallInit, StackInit, Stack!StackInit, StackPc, StackHd, StackLabels
<1>4. HostcallTypeOK /\ HeadForgotten /\ [HostcallNext]_vars
        => [Stack!StackNext]_(Stack!stackVars)
  BY HostcallStepIsStackStep
<1> QED
  BY <1>1, <1>2, <1>3, <1>4, PTL DEF HostcallSpec, ImplementsStack, Stack!StackSpec

-----------------------------------------------------------------------------
(* What FreeStackProofs shows of the stack holds in the protocol.          *)

P == INSTANCE FreeStackProofs WITH pc <- StackPc, hd <- StackHd, LinkWords <- Tagged

LEMMA SameStack == Stack!StackSpec => P!StackSpec
<1> USE DEF Stack!NULL_INDEX, P!NULL_INDEX, Stack!null_tagged, P!null_tagged,
            Stack!make_tagged, P!make_tagged, Stack!bump_tag, P!bump_tag, Stack!Shards, P!Shards,
            Stack!Packets, P!Packets, Stack!ShardPackets, P!ShardPackets,
            Stack!IsLastOfShard, P!IsLastOfShard, Stack!HeadAtInit, P!HeadAtInit,
            Stack!ChainAtInit, P!ChainAtInit, Stack!Share, P!Share
<1>1. Stack!StackInit => P!StackInit
  BY DEF Stack!StackInit, P!StackInit
<1>2. [Stack!StackNext]_(Stack!stackVars) => [P!StackNext]_(P!stackVars)
  BY DEF Stack!StackNext, P!StackNext, Stack!stackVars, P!stackVars, Stack!PoolStep, P!PoolStep,
         Stack!CallerStep, P!CallerStep, Stack!PopLoad, P!PopLoad, Stack!PopNext, P!PopNext,
         Stack!PopCas, P!PopCas, Stack!FreeLink, P!FreeLink, Stack!FreeCas, P!FreeCas,
         Stack!BeginPop, P!BeginPop, Stack!GiveUp, P!GiveUp, Stack!UsePacket, P!UsePacket,
         Stack!BeginFree, P!BeginFree, Stack!WalkAway, P!WalkAway, Stack!Goto, P!Goto,
         Stack!ReinitStacks, P!ReinitStacks
<1> QED
  BY <1>1, <1>2, PTL DEF Stack!StackSpec, P!StackSpec

LEMMA SameAssumptions == P!LayoutAssumption /\ P!CallerAssumption /\ P!TagAssumption
  BY LayoutAssumption, CallerAssumption, TagAssumption
  DEF P!LayoutAssumption, P!CallerAssumption, P!TagAssumption, P!NULL_INDEX, NULL_INDEX,
      P!Shards, Shards, P!Tagged, Tagged, P!Index, Index, P!Packets, Packets

(* In a behavior of the protocol in which a stale head never passes for    *)
(* the current one, no packet is in the hands of two callers.              *)
THEOREM HostcallOwnershipIsExclusive == HostcallSpec /\ []NoABA => []ExclusiveOwner
<1>1. NoABA => P!NoABA
  BY DEF NoABA, P!NoABA, PopSucceeds, P!PopSucceeds, StackPc, StackHd, StackLabels
<1>2. P!ExclusiveOwner => ExclusiveOwner
  BY DEF ExclusiveOwner, P!ExclusiveOwner, P!NULL_INDEX, NULL_INDEX
<1>3. P!StackSpec /\ []P!NoABA => []P!ExclusiveOwner
  BY SameAssumptions, P!OwnershipIsExclusive, PTL
<1> QED
  BY <1>1, <1>2, <1>3, HostcallUsesTheStack, SameStack, PTL DEF ImplementsStack

(* With one caller per shard the protocol needs no tags: a packet has one  *)
(* owner, whatever the host and the time limits do.                        *)
THEOREM HostcallSoleCallersAreSafe ==
  ASSUME SoleCallers
  PROVE  HostcallSpec => []ExclusiveOwner
<1>1. P!SoleCallers
  BY SoleCallers DEF SoleCallers, P!SoleCallers
<1>2. P!StackSpec => []P!NoABA
  BY <1>1, SameAssumptions, P!SoleCallersAreSafe, PTL
<1>3. P!StackSpec /\ []P!NoABA => []P!ExclusiveOwner
  BY SameAssumptions, P!OwnershipIsExclusive, PTL
<1>4. P!ExclusiveOwner => ExclusiveOwner
  BY DEF ExclusiveOwner, P!ExclusiveOwner, P!NULL_INDEX, NULL_INDEX
<1> QED
  BY <1>2, <1>3, <1>4, HostcallUsesTheStack, SameStack, PTL DEF ImplementsStack

-----------------------------------------------------------------------------
(* Whose a request is.  It is sent, and the host's, while it is filled and *)
(* its owner has done with it or has left.  It is asked until a thread of  *)
(* the host serves it, and queued until the listener comes to it.          *)

Sent(p) == /\ control[p] = FILLED
           /\ \A t \in Callers : pkt[t] = p => pc[t] \in {"ring", "wait"}
Answering(p) == p = iopkt \/ (lpc = "reply" /\ p = cur)
WithIo(p) == \E i \in DOMAIN ioq : ioq[i] = p
Asked(p) == Sent(p) /\ ~Answering(p)
Queued(p) == Asked(p) /\ ~WithIo(p)

(* The stacks of requests, without their order: each begins with a queued  *)
(* packet and goes on with queued packets, no two have one in common, and  *)
(* all that is queued is in one of them.                                   *)
(* One of them is what the listener has drained and not yet come to.       *)
Hand == IF lpc = "visit" THEN cur ELSE IF lpc = "reply" THEN rest.idx ELSE NULL_INDEX
AtHead(p) == p = Hand \/ \E s \in Shards : ready[s].idx = p

HeadsAreQueued == \A p \in Packets : AtHead(p) => Queued(p)
LinksAreQueued == \A p, q \in Packets :
  Queued(p) /\ next[p].idx = q => Queued(q) /\ ~AtHead(q)
HeadsApart == \A p \in Packets : \A s \in Shards : ready[s].idx = p =>
  p # Hand /\ \A u \in Shards : ready[u].idx = p => u = s
LinksApart == \A p, q, r \in Packets :
  Queued(p) /\ Queued(q) /\ next[p].idx = r /\ next[q].idx = r => p = q
QueuedIsReached == \A S \in SUBSET Packets :
  (\A p \in Packets : AtHead(p) => p \in S) /\ Linked(S) =>
    \A p \in Packets : Queued(p) => p \in S
Stacks == HeadsAreQueued /\ LinksAreQueued /\ HeadsApart /\ LinksApart /\ QueuedIsReached

(* What the threads of the host have in hand is sent, and none has it      *)
(* twice.                                                                  *)
HostHolds ==
  /\ \A p \in Packets : WithIo(p) => Asked(p) /\ payload[p].service = "OPEN"
  /\ \A i, j \in DOMAIN ioq : ioq[i] = ioq[j] => i = j
  /\ \A p \in Packets : Answering(p) => Sent(p)
  /\ lpc = "reply" => cur # iopkt

(* The flags that go with the answer in a packet.                          *)
Fits(p, flags) ==
  /\ flags \in {READY, READY_ERROR}
  /\ payload[p].result = "asked" <=> payload[p].service = "UNKNOWN"
  /\ "ERROR" \in flags <=> payload[p].result # "ok"
  /\ payload[p].service = "PRINT" => payload[p].result = "ok"

AnswersFit == /\ \A p \in Packets : Asked(p) => payload[p].result = "asked"
              /\ \A p \in Packets : lpc = "reply" /\ p = cur => Fits(p, lflags)
              /\ \A p \in Packets : p = iopkt => Fits(p, ioflags)

Mine(t, p) == /\ payload[p].of = t /\ payload[p].call = calls[t]
              /\ payload[p].service = role[t].service

OwnerKnows(t, p) ==
  /\ pc[t] \in {"own", "fill", "free_link", "free_cas"} => control[p] # FILLED
  /\ pc[t] \in {"ready_link", "ready_cas"} =>
       control[p] = FILLED /\ Mine(t, p) /\ payload[p].result = "asked"
  /\ pc[t] = "ready_cas" => next[p] = hd[t]
  /\ pc[t] \in {"ring", "wait"} =>
       Mine(t, p) /\ (control[p] = FILLED \/ Fits(p, control[p]))
OwnersKnow == \A t \in Callers : \A p \in Packets : pkt[t] = p => OwnerKnows(t, p)

FreeIsUnfilled == \A s \in Shards : \A p \in avail[s] : control[p] # FILLED
SentIsOwned == program.limits = {} => \A p \in Packets : Sent(p) => \E t \in Callers : pkt[t] = p

Protocol == Stacks /\ HostHolds /\ AnswersFit /\ OwnersKnow /\ FreeIsUnfilled /\ SentIsOwned
ProtocolInvariant == launches >= 1 /\ (Orderly => Protocol)

(* What the record of the calls says of a packet that is sent.             *)
Unsent == {"pop_load", "pop_next", "pop_cas", "exhausted", "own", "fill", "ready_link",
           "ready_cas"}
AnswerOf(flags) == IF "ERROR" \in flags THEN "err" ELSE "ok"
FateIs(p, what) == fate[payload[p].of][payload[p].call] = what

CallsCounted == \A t \in Callers :
  /\ \A n \in 1 .. MaxCalls : fate[t][n] = "new" <=> n > calls[t]
  /\ outcome[t] = "none" <=> pc[t] \notin {"idle", "free_link", "free_cas"}
UnsentIsPending == \A t \in Callers : pc[t] \in Unsent => fate[t][calls[t]] = "pending"
SentIsInHand == \A t \in Callers : \A p \in Packets :
  Sent(p) /\ payload[p].of = t /\ payload[p].call = calls[t] =>
    pc[t] \notin Unsent /\ (pc[t] \in {"ring", "wait"} => pkt[t] = p)
SentIsACall == \A p \in Packets : Sent(p) =>
  /\ payload[p].of \in Callers /\ payload[p].call \in 1 .. calls[payload[p].of]
  /\ Asked(p) => FateIs(p, "pending")
SentOnce == \A p, q \in Packets :
  Sent(p) /\ Sent(q) /\ payload[p].of = payload[q].of /\ payload[p].call = payload[q].call => p = q
ServedIsAnswered ==
  /\ \A p \in Packets : lpc = "reply" /\ p = cur => FateIs(p, AnswerOf(lflags))
  /\ \A p \in Packets : p = iopkt => FateIs(p, AnswerOf(ioflags))
  /\ \A t \in Callers : \A p \in Packets :
       pkt[t] = p /\ pc[t] \in {"ring", "wait"} /\ control[p] # FILLED =>
         FateIs(p, AnswerOf(control[p]))

Record == /\ CallsCounted /\ UnsentIsPending /\ SentIsInHand
          /\ SentIsACall /\ SentOnce /\ ServedIsAnswered
RecordInvariant ==
  /\ program \in Scenarios
  /\ \A t \in Callers : role[t].kind = "print" => role[t].service = "PRINT"
  /\ Orderly => Record

(* The four things that happen to what is sent: nothing, the push of the   *)
(* ready stack, the service of a request, and the store of its flags.      *)

NothingSent == \A p \in Packets :
  /\ (Sent(p)' <=> Sent(p)) /\ (Asked(p)' <=> Asked(p))
  /\ Sent(p) => payload'[p] = payload[p]
SentNow(h) == \A p \in Packets :
  /\ (Sent(p)' <=> Sent(p) \/ p = h) /\ (Asked(p)' <=> Asked(p) \/ p = h)
  /\ payload'[p] = payload[p]
ServedNow(h) == Asked(h) /\ \A p \in Packets :
  /\ (Sent(p)' <=> Sent(p)) /\ (Asked(p)' <=> Asked(p) /\ p # h)
  /\ payload'[p].of = payload[p].of /\ payload'[p].call = payload[p].call
AnsweredNow(h) == Sent(h) /\ \A p \in Packets :
  /\ (Sent(p)' <=> Sent(p) /\ p # h) /\ (Asked(p)' <=> Asked(p))
  /\ payload'[p] = payload[p]

(* The four ways in which the stacks of requests change: not at all, by a  *)
(* push, by the swap that drains one, and by a step along the drained one. *)

LEMMA StacksStay ==
  ASSUME Stacks,
         \A p \in Packets : Queued(p)' <=> Queued(p),
         \A p \in Packets : Queued(p) => next'[p] = next[p],
         UNCHANGED ready, Hand' = Hand
  PROVE  Stacks'
<1>1. \A p \in Packets : AtHead(p)' <=> AtHead(p)
  BY DEF AtHead
<1>2. HeadsAreQueued'
  BY <1>1 DEF Stacks, HeadsAreQueued
<1>3. LinksAreQueued'
  BY <1>1 DEF Stacks, LinksAreQueued
<1>4. HeadsApart'
  BY DEF Stacks, HeadsApart
<1>5. LinksApart'
  BY DEF Stacks, LinksApart
<1>6. QueuedIsReached'
  <2> SUFFICES ASSUME NEW S \in SUBSET Packets, \A p \in Packets : AtHead(p) => p \in S,
                      Linked(S)'
               PROVE  \A p \in Packets : Queued(p) => p \in S
    BY <1>1 DEF QueuedIsReached
  <2> DEFINE Q == {p \in S : Queued(p)}
  <2>1. \A p \in Packets : AtHead(p) => p \in Q
    BY DEF Stacks, HeadsAreQueued
  <2>2. Linked(Q)
    BY DEF Linked, Stacks, LinksAreQueued
  <2>3. Q \in SUBSET Packets
    OBVIOUS
  <2> QED
    BY <2>1, <2>2, <2>3 DEF Stacks, QueuedIsReached
<1> QED
  BY <1>2, <1>3, <1>4, <1>5, <1>6 DEF Stacks

LEMMA StacksPush ==
  ASSUME HostcallTypeOK, Stacks, NEW s \in Shards, NEW h \in Packets, NEW word,
         ~ Queued(h), next[h] = ready[s], word.idx = h,
         \A p \in Packets : Queued(p)' <=> Queued(p) \/ p = h,
         ready' = [ready EXCEPT ![s] = word], UNCHANGED next, Hand' = Hand
  PROVE  Stacks'
<1>1. ready'[s].idx = h /\ \A u \in Shards \ {s} : ready'[u] = ready[u]
  BY DEF HostcallTypeOK, RequestsOK
<1>2. \A p \in Packets : AtHead(p)' => p = h \/ (AtHead(p) /\ next[h].idx # p)
  BY <1>1 DEF AtHead, Stacks, HeadsApart
<1>3. \A p \in Packets : AtHead(p) => p # h
  BY DEF Stacks, HeadsAreQueued
<1>4. HeadsAreQueued'
  BY <1>2 DEF Stacks, HeadsAreQueued
<1>5. LinksAreQueued'
  <2> SUFFICES ASSUME NEW p \in Packets, NEW q \in Packets, Queued(p)', next'[p].idx = q
               PROVE  Queued(q)' /\ ~ AtHead(q)'
    BY DEF LinksAreQueued
  <2>1. CASE p = h
    <3>1. AtHead(q)
      BY <2>1 DEF AtHead
    <3> QED
      BY <1>2, <1>3, <2>1, <3>1 DEF Stacks, HeadsAreQueued
  <2>2. CASE p # h
    <3>1. Queued(q) /\ ~ AtHead(q)
      BY <2>2 DEF Stacks, LinksAreQueued
    <3> QED
      BY <1>2, <3>1
  <2> QED
    BY <2>1, <2>2
<1>6. HeadsApart'
  <2>1. h # Hand
    BY <1>3 DEF AtHead
  <2>2. \A u \in Shards : ready[u].idx # h
    BY <1>3 DEF AtHead
  <2> QED
    BY <1>1, <2>1, <2>2 DEF Stacks, HeadsApart
<1>7. LinksApart'
  <2>1. \A p, r \in Packets : Queued(p) /\ next[p].idx = r => next[h].idx # r
    BY DEF Stacks, LinksAreQueued, AtHead
  <2> QED
    BY <2>1 DEF Stacks, LinksApart
<1>8. QueuedIsReached'
  <2> SUFFICES ASSUME NEW S \in SUBSET Packets, \A p \in Packets : AtHead(p)' => p \in S,
                      Linked(S)
               PROVE  \A p \in Packets : Queued(p) \/ p = h => p \in S
    BY DEF QueuedIsReached, Linked
  <2>1. h \in S
    BY <1>1 DEF AtHead
  <2>2. \A p \in Packets : AtHead(p) => AtHead(p)' \/ p = next[h].idx
    BY <1>1 DEF AtHead
  <2>3. \A p \in Packets : AtHead(p) => p \in S
    BY <2>1, <2>2, PacketIsNotNull DEF Linked
  <2> QED
    BY <2>1, <2>3 DEF Stacks, QueuedIsReached
<1> QED
  BY <1>4, <1>5, <1>6, <1>7, <1>8 DEF Stacks

LEMMA StacksSwap ==
  ASSUME HostcallTypeOK, Stacks, NEW s \in Shards, Hand = NULL_INDEX,
         \A p \in Packets : Queued(p)' <=> Queued(p),
         ready' = [ready EXCEPT ![s] = null_tagged], UNCHANGED next, Hand' = ready[s].idx
  PROVE  Stacks'
<1>1. ready'[s].idx \notin Packets /\ \A u \in Shards \ {s} : ready'[u] = ready[u]
  BY WordFacts, PacketIsNotNull DEF HostcallTypeOK, RequestsOK
<1>2. \A p \in Packets : AtHead(p)' <=> AtHead(p)
  BY <1>1, PacketIsNotNull DEF AtHead
<1>3. HeadsAreQueued'
  BY <1>2 DEF Stacks, HeadsAreQueued
<1>4. LinksAreQueued'
  BY <1>2 DEF Stacks, LinksAreQueued
<1>5. HeadsApart'
  BY <1>1 DEF Stacks, HeadsApart
<1>6. LinksApart'
  BY DEF Stacks, LinksApart
<1>7. QueuedIsReached'
  BY <1>2 DEF Stacks, QueuedIsReached, Linked
<1> QED
  BY <1>3, <1>4, <1>5, <1>6, <1>7 DEF Stacks

LEMMA StacksTake ==
  ASSUME HostcallTypeOK, Stacks, NEW h \in Packets, h = Hand,
         \A p \in Packets : Queued(p)' <=> Queued(p) /\ p # h,
         UNCHANGED <<next, ready>>, Hand' = next[h].idx
  PROVE  Stacks'
<1>1. AtHead(h) /\ Queued(h)
  BY DEF AtHead, Stacks, HeadsAreQueued
<1>2. \A p \in Packets : AtHead(p)' => p = next[h].idx \/ (AtHead(p) /\ p # h)
  BY DEF AtHead, Stacks, HeadsApart
<1>3. \A p \in Packets : p = next[h].idx => Queued(p) /\ ~ AtHead(p) /\ p # h
  BY <1>1 DEF Stacks, LinksAreQueued
<1>4. HeadsAreQueued'
  BY <1>2, <1>3 DEF Stacks, HeadsAreQueued
<1>5. LinksAreQueued'
  <2> SUFFICES ASSUME NEW p \in Packets, NEW q \in Packets, Queued(p)', next'[p].idx = q
               PROVE  Queued(q)' /\ ~ AtHead(q)'
    BY DEF LinksAreQueued
  <2>1. Queued(q) /\ ~ AtHead(q)
    BY DEF Stacks, LinksAreQueued
  <2>2. q # next[h].idx
    BY <1>1 DEF Stacks, LinksApart
  <2> QED
    BY <1>1, <1>2, <2>1, <2>2
<1>6. HeadsApart'
  BY <1>3 DEF Stacks, HeadsApart, AtHead
<1>7. LinksApart'
  BY DEF Stacks, LinksApart
<1>8. QueuedIsReached'
  <2> SUFFICES ASSUME NEW S \in SUBSET Packets, \A p \in Packets : AtHead(p)' => p \in S,
                      Linked(S)
               PROVE  \A p \in Packets : Queued(p) /\ p # h => p \in S
    BY DEF QueuedIsReached, Linked
  <2> DEFINE A == S \union {h}
  <2>1. \A p \in Packets : AtHead(p) => AtHead(p)' \/ p = h
    BY DEF AtHead
  <2>2. next[h].idx \in S \union {NULL_INDEX}
    BY WordFacts DEF HostcallTypeOK, StackWordsOK, Index, AtHead
  <2>3. Linked(A)
    BY <2>2 DEF Linked
  <2>4. A \in SUBSET Packets /\ \A p \in Packets : AtHead(p) => p \in A
    BY <2>1
  <2>5. \A p \in Packets : Queued(p) => p \in A
    BY <2>3, <2>4 DEF Stacks, QueuedIsReached
  <2> QED
    BY <2>5
<1> QED
  BY <1>4, <1>5, <1>6, <1>7, <1>8 DEF Stacks

-----------------------------------------------------------------------------
(* The steps of the host keep the invariant.                               *)

LEMMA ControlFacts ==
  FILLED # READY /\ FILLED # READY_ERROR /\ FILLED # {} /\ "FILLED" \in FILLED
  /\ "ERROR" \notin READY /\ "ERROR" \in READY_ERROR
  /\ "READY" \notin FILLED
<1>1. "FILLED" \in FILLED /\ "READY" \notin FILLED
  BY DEF FILLED
<1>2. "FILLED" \notin READY /\ "FILLED" \notin READY_ERROR
  BY DEF READY, READY_ERROR
<1> QED
  BY <1>1, <1>2 DEF READY, READY_ERROR

LEMMA HandAfterGoTo ==
  ASSUME NEW word, GoTo(word)
  PROVE  Hand' = word.idx /\ lpc' # "reply"
<1>1. CASE word.idx = NULL_INDEX
  BY <1>1 DEF GoTo, NextShard, Hand
<1>2. CASE word.idx # NULL_INDEX
  BY <1>2 DEF GoTo, Hand
<1> QED
  BY <1>1, <1>2

(* The callers' part of the invariant asks two things of the host: it      *)
(* touches only what is sent, and it answers with the right flags.         *)
LEMMA HostKeepsCallers ==
  ASSUME HostcallTypeOK, OwnersKnow, FreeIsUnfilled, SentIsOwned,
         UNCHANGED <<pc, pkt, hd, next, avail, calls, role, program>>,
         \A p \in Packets : ~ Sent(p) => control'[p] = control[p] /\ payload'[p] = payload[p],
         \A p \in Packets : Sent(p) =>
           /\ payload'[p].of = payload[p].of /\ payload'[p].call = payload[p].call
           /\ payload'[p].service = payload[p].service
           /\ control'[p] = FILLED \/ (Fits(p, control[p]))'
  PROVE  OwnersKnow' /\ FreeIsUnfilled' /\ SentIsOwned'
<1>1. \A p \in Packets : control'[p] = FILLED => control[p] = FILLED
  BY DEF Sent
<1>2. \A p \in Packets : Sent(p)' => Sent(p)
  BY <1>1 DEF Sent
<1>3. FreeIsUnfilled'
  BY <1>1 DEF FreeIsUnfilled, HostcallTypeOK, StackWordsOK
<1>4. SentIsOwned'
  BY <1>2 DEF SentIsOwned
<1>5. ASSUME NEW t \in Callers, NEW p \in Packets, pkt[t] = p
      PROVE  OwnerKnows(t, p)'
  <2>1. OwnerKnows(t, p)
    BY <1>5 DEF OwnersKnow
  <2>2. CASE pc[t] \notin {"ring", "wait"}
    <3>1. ~ Sent(p)
      BY <1>5, <2>2 DEF Sent
    <3> QED
      BY <2>1, <2>2, <3>1 DEF OwnerKnows, Mine
  <2>3. CASE pc[t] \in {"ring", "wait"}
    <3>1. Mine(t, p) /\ (control[p] = FILLED \/ Fits(p, control[p]))
      BY <2>1, <2>3 DEF OwnerKnows
    <3>2. (Mine(t, p) /\ (control[p] = FILLED \/ Fits(p, control[p])))'
      <4>1. CASE Sent(p)
        BY <3>1, <4>1 DEF Mine
      <4>2. CASE ~ Sent(p)
        BY <3>1, <4>2 DEF Mine, Fits
      <4> QED
        BY <4>1, <4>2
    <3> QED
      BY <2>3, <3>2 DEF OwnerKnows
  <2> QED
    BY <2>2, <2>3
<1>6. OwnersKnow'
  BY <1>5 DEF OwnersKnow
<1> QED
  BY <1>3, <1>4, <1>6

LEMMA VisitFacts ==
  ASSUME HostcallTypeOK, Protocol, lpc = "visit"
  PROVE  cur \in Packets /\ cur = Hand /\ Queued(cur) /\ control[cur] = FILLED
<1>1. cur \in Packets /\ cur = Hand
  BY DEF HostcallTypeOK, ListenerOK, Index, Hand
<1>2. Queued(cur)
  BY <1>1 DEF Protocol, Stacks, HeadsAreQueued, AtHead
<1> QED
  BY <1>1, <1>2 DEF Queued, Asked, Sent

(* Nothing the invariant speaks of changes.                                *)
LEMMA HostIdles ==
  ASSUME HostcallTypeOK, Protocol,
         ListenerLook \/ ListenerWake \/ ListenerSpin \/ ListenerExit \/ Host \/ UNCHANGED vars
  PROVE  Protocol' /\ NothingSent
<1>1. /\ UNCHANGED <<ready, control, payload, next, pkt, pc, hd, avail, calls, role, program>>
      /\ UNCHANGED <<ioq, iopkt, ioflags, cur, rest, lflags>>
      /\ \/ lpc' = lpc
         \/ lpc \notin {"visit", "reply"} /\ lpc' \notin {"visit", "reply"}
  BY DEF ListenerLook, ListenerWake, ListenerSpin, ListenerExit, Host, Synchronize, SignalShutdown,
         DropSession, vars, stackVars, hostcallVars, requestVars, callVars, listenerVars, ioVars
<1>2. /\ \A p \in Packets : Sent(p)' <=> Sent(p)
      /\ \A p \in Packets : Answering(p)' <=> Answering(p)
      /\ \A p \in Packets : WithIo(p)' <=> WithIo(p)
      /\ Hand' = Hand
  BY <1>1 DEF Sent, Answering, WithIo, Hand
<1>3. \A p \in Packets : (Asked(p)' <=> Asked(p)) /\ (Queued(p)' <=> Queued(p))
  BY <1>2 DEF Asked, Queued
<1>4. Stacks'
  BY <1>1, <1>2, <1>3, StacksStay DEF Protocol
<1>5. HostHolds'
  BY <1>1, <1>2, <1>3 DEF Protocol, HostHolds
<1>6. AnswersFit'
  BY <1>1, <1>3 DEF Protocol, AnswersFit, Fits
<1>7. OwnersKnow' /\ FreeIsUnfilled' /\ SentIsOwned'
  BY <1>1, HostKeepsCallers DEF Protocol, Sent
<1> QED
  BY <1>1, <1>2, <1>3, <1>4, <1>5, <1>6, <1>7 DEF Protocol, NothingSent

LEMMA SwapKeeps == ASSUME HostcallTypeOK, Protocol, Swap PROVE Protocol' /\ NothingSent
<1>1. /\ UNCHANGED <<control, payload, next, pkt, pc, hd, avail, calls, role, program>>
      /\ UNCHANGED <<ioq, iopkt, ioflags>>
      /\ ready' = [ready EXCEPT ![scan] = null_tagged] /\ scan \in Shards
      /\ lpc = "swap" /\ lpc' # "reply" /\ Hand = NULL_INDEX /\ Hand' = ready[scan].idx
  BY HandAfterGoTo DEF Swap, stackVars, callVars, ioVars, Hand, HostcallTypeOK, ListenerOK
<1>2. /\ \A p \in Packets : Sent(p)' <=> Sent(p)
      /\ \A p \in Packets : Answering(p)' <=> Answering(p)
      /\ \A p \in Packets : WithIo(p)' <=> WithIo(p)
  BY <1>1 DEF Sent, Answering, WithIo
<1>3. \A p \in Packets : (Asked(p)' <=> Asked(p)) /\ (Queued(p)' <=> Queued(p))
  BY <1>2 DEF Asked, Queued
<1>4. Stacks'
  BY <1>1, <1>3, StacksSwap DEF Protocol
<1>5. HostHolds'
  BY <1>1, <1>2, <1>3 DEF Protocol, HostHolds
<1>6. AnswersFit'
  BY <1>1, <1>3 DEF Protocol, AnswersFit, Fits
<1>7. OwnersKnow' /\ FreeIsUnfilled' /\ SentIsOwned'
  BY <1>1, HostKeepsCallers DEF Protocol, Sent
<1> QED
  BY <1>1, <1>2, <1>3, <1>4, <1>5, <1>6, <1>7 DEF Protocol, NothingSent

LEMMA VisitInlineKeeps ==
  ASSUME HostcallTypeOK, Protocol, VisitInline \/ VisitUnknown
  PROVE  Protocol' /\ ServedNow(cur)
<1> DEFINE h == cur
<1>1. /\ UNCHANGED <<ready, control, next, pkt, pc, hd, avail, calls, role, program>>
      /\ UNCHANGED <<ioq, iopkt, ioflags, cur>>
      /\ lpc = "visit" /\ lpc' = "reply" /\ rest' = next[cur]
  BY DEF VisitInline, VisitUnknown, stackVars, requestVars, callVars, ioVars
<1>2. h \in Packets /\ h = Hand /\ Queued(h) /\ control[h] = FILLED
  BY <1>1, VisitFacts
<1>3. /\ payload[h].result = "asked" /\ ~ WithIo(h) /\ h # iopkt /\ Sent(h)
      /\ payload \in [Packets -> Requests] /\ payload[h] \in Requests
  BY <1>2 DEF Protocol, AnswersFit, Queued, Asked, Answering, HostcallTypeOK, RequestsOK
<1>4. /\ \A p \in Packets \ {h} : payload'[p] = payload[p]
      /\ payload'[h].of = payload[h].of /\ payload'[h].call = payload[h].call
      /\ payload'[h].service = payload[h].service
      /\ Fits(h, lflags)'
  <2>1. CASE VisitUnknown
    <3>1. payload' = payload /\ payload[h].service = "UNKNOWN" /\ lflags' = READY_ERROR
      BY <2>1 DEF VisitUnknown, requestVars
    <3> QED
      BY <1>1, <1>3, <3>1, ControlFacts DEF Fits
  <2>2. CASE VisitInline
    <3>1. PICK answer \in AnswersOf(payload[h].service) :
                 Handle(h, answer) /\ lflags' = FlagsFor(answer)
      BY <2>2 DEF VisitInline
    <3>2. payload' = [payload EXCEPT ![h].result = answer] /\ answer \in {"ok", "err"}
      BY <3>1 DEF Handle, AnswersOf
    <3>3. payload[h].service \in {"PRINT", "TIME"}
      BY <2>2 DEF VisitInline
    <3>4. payload'[h] = [payload[h] EXCEPT !.result = answer]
      BY <1>2, <1>3, <3>2
    <3>5. /\ payload'[h].of = payload[h].of /\ payload'[h].call = payload[h].call
          /\ payload'[h].service = payload[h].service /\ payload'[h].result = answer
      BY <1>3, <3>4 DEF Requests
    <3>6. lflags' = IF answer = "err" THEN READY_ERROR ELSE READY
      BY <3>1 DEF FlagsFor
    <3>7. payload[h].service = "PRINT" => answer = "ok"
      BY <3>1 DEF AnswersOf
    <3>8. Fits(h, lflags)'
      BY <1>1, <3>2, <3>3, <3>5, <3>6, <3>7, ControlFacts DEF Fits
    <3> QED
      BY <1>3, <3>2, <3>5, <3>8
  <2> QED
    BY <2>1, <2>2
<1>5. /\ \A p \in Packets : Sent(p)' <=> Sent(p)
      /\ \A p \in Packets : Answering(p)' <=> Answering(p) \/ p = h
      /\ \A p \in Packets : WithIo(p)' <=> WithIo(p)
      /\ Hand' = next[h].idx
  BY <1>1 DEF Sent, Answering, WithIo, Hand
<1>6. \A p \in Packets : /\ Asked(p)' <=> Asked(p) /\ p # h
                         /\ Queued(p)' <=> Queued(p) /\ p # h
  BY <1>5 DEF Asked, Queued
<1>7. Stacks'
  BY <1>1, <1>2, <1>5, <1>6, StacksTake DEF Protocol
<1>8. HostHolds'
  BY <1>1, <1>3, <1>4, <1>5, <1>6 DEF Protocol, HostHolds
<1>9. AnswersFit'
  <2>1. \A p \in Packets : Asked(p)' => payload'[p].result = "asked"
    BY <1>4, <1>6 DEF Protocol, AnswersFit
  <2>2. \A p \in Packets : p = iopkt => Fits(p, ioflags)'
    BY <1>1, <1>3, <1>4 DEF Protocol, AnswersFit, Fits
  <2> QED
    BY <1>1, <1>4, <2>1, <2>2 DEF AnswersFit
<1>10. OwnersKnow' /\ FreeIsUnfilled' /\ SentIsOwned'
  <2>1. \A p \in Packets : ~ Sent(p) => control'[p] = control[p] /\ payload'[p] = payload[p]
    BY <1>1, <1>3, <1>4
  <2>2. \A p \in Packets : Sent(p) =>
           /\ payload'[p].of = payload[p].of /\ payload'[p].call = payload[p].call
           /\ payload'[p].service = payload[p].service
           /\ control'[p] = FILLED
    BY <1>1, <1>4 DEF Sent
  <2> QED
    BY <1>1, <2>1, <2>2, HostKeepsCallers DEF Protocol
<1>11. ServedNow(h)
  BY <1>2, <1>4, <1>5, <1>6 DEF ServedNow, Queued
<1> QED
  BY <1>7, <1>8, <1>9, <1>10, <1>11 DEF Protocol

LEMMA VisitBlockingKeeps ==
  ASSUME HostcallTypeOK, Protocol, VisitBlocking
  PROVE  Protocol' /\ NothingSent
<1> DEFINE h == cur
<1>1. /\ UNCHANGED <<ready, control, payload, next, pkt, pc, hd, avail, calls, role, program>>
      /\ UNCHANGED <<iopkt, ioflags>>
      /\ lpc = "visit" /\ lpc' # "reply" /\ Hand' = next[cur].idx
      /\ ioq' = Append(ioq, h) /\ payload[h].service = "OPEN"
  BY HandAfterGoTo DEF VisitBlocking, stackVars, requestVars, callVars
<1>2. h \in Packets /\ h = Hand /\ Queued(h)
  BY <1>1, VisitFacts
<1>3. /\ ioq \in Seq(Packets) /\ Len(ioq) \in Nat /\ Len(ioq') = Len(ioq) + 1
      /\ DOMAIN ioq = 1 .. Len(ioq) /\ DOMAIN ioq' = 1 .. Len(ioq) + 1
      /\ \A i \in 1 .. Len(ioq) : ioq'[i] = ioq[i]
      /\ ioq'[Len(ioq) + 1] = h
  BY <1>1, <1>2, AppendProperties DEF HostcallTypeOK, HostOK
<1>4. /\ \A p \in Packets : Sent(p)' <=> Sent(p)
      /\ \A p \in Packets : Answering(p)' <=> Answering(p)
  BY <1>1 DEF Sent, Answering
<1>5. \A p \in Packets : WithIo(p)' <=> WithIo(p) \/ p = h
  BY <1>3 DEF WithIo
<1>6. \A p \in Packets : /\ Asked(p)' <=> Asked(p)
                         /\ Queued(p)' <=> Queued(p) /\ p # h
  BY <1>4, <1>5 DEF Asked, Queued
<1>7. Stacks'
  BY <1>1, <1>2, <1>6, StacksTake DEF Protocol
<1>8. HostHolds'
  <2>1. \A p \in Packets : WithIo(p)' => Asked(p)' /\ payload'[p].service = "OPEN"
    BY <1>1, <1>2, <1>5, <1>6 DEF Protocol, HostHolds, Queued
  <2>2. \A i \in 1 .. Len(ioq) : ioq[i] # h
    BY <1>2, <1>3 DEF Queued, WithIo
  <2>3. \A i, j \in 1 .. Len(ioq) : ioq[i] = ioq[j] => i = j
    BY <1>3 DEF Protocol, HostHolds
  <2>4. \A i, j \in DOMAIN ioq' : ioq'[i] = ioq'[j] => i = j
    BY <1>3, <2>2, <2>3
  <2> QED
    BY <1>1, <1>4, <2>1, <2>4 DEF Protocol, HostHolds
<1>9. AnswersFit'
  BY <1>1, <1>6 DEF Protocol, AnswersFit, Fits
<1>10. OwnersKnow' /\ FreeIsUnfilled' /\ SentIsOwned'
  BY <1>1, HostKeepsCallers DEF Protocol, Sent
<1> QED
  BY <1>1, <1>4, <1>6, <1>7, <1>8, <1>9, <1>10 DEF Protocol, NothingSent

(* The two steps that store the flags of an answer.                        *)
LEMMA AnswerKeeps ==
  ASSUME HostcallTypeOK, Protocol, NEW h \in Packets, NEW flags, Sent(h), Answering(h),
         Fits(h, flags),
         control' = [control EXCEPT ![h] = flags],
         UNCHANGED <<ready, payload, next, pkt, pc, hd, avail, calls, role, program>>,
         UNCHANGED ioq, Hand' = Hand,
         \A p \in Packets : Answering(p)' <=> Answering(p) /\ p # h,
         lpc' = "reply" => UNCHANGED <<lpc, cur, lflags>>,
         \A p \in Packets : p = iopkt' => p = iopkt /\ ioflags' = ioflags,
         lpc' = "reply" => iopkt' = NULL_INDEX
  PROVE  Protocol' /\ AnsweredNow(h)
<1>1. /\ control'[h] = flags /\ flags # FILLED
      /\ \A p \in Packets \ {h} : control'[p] = control[p]
  BY ControlFacts DEF Fits, HostcallTypeOK, RequestsOK
<1>2. \A p \in Packets : Sent(p)' <=> Sent(p) /\ p # h
  BY <1>1 DEF Sent
<1>3. \A p \in Packets : WithIo(p)' <=> WithIo(p)
  BY DEF WithIo
<1>4. \A p \in Packets : (Asked(p)' <=> Asked(p)) /\ (Queued(p)' <=> Queued(p))
  BY <1>2, <1>3 DEF Asked, Queued
<1>5. Stacks'
  BY <1>4, StacksStay DEF Protocol
<1>6. HostHolds'
  <2>1. lpc' = "reply" => cur' # iopkt'
    <3>1. cur # NULL_INDEX \/ lpc # "reply"
      BY DEF HostcallTypeOK, ListenerOK
    <3> QED
      BY <3>1
  <2> QED
    BY <1>2, <1>3, <1>4, <2>1 DEF Protocol, HostHolds
<1>7. AnswersFit'
  BY <1>4 DEF Protocol, AnswersFit, Fits
<1>8. OwnersKnow' /\ FreeIsUnfilled' /\ SentIsOwned'
  <2>1. \A p \in Packets : ~ Sent(p) => control'[p] = control[p] /\ payload'[p] = payload[p]
    BY <1>1
  <2>2. Fits(h, control[h])'
    BY <1>1 DEF Fits
  <2>3. \A p \in Packets : Sent(p) =>
           /\ payload'[p].of = payload[p].of /\ payload'[p].call = payload[p].call
           /\ payload'[p].service = payload[p].service
           /\ control'[p] = FILLED \/ (Fits(p, control[p]))'
    BY <1>1, <2>2 DEF Sent
  <2> QED
    BY <2>1, <2>3, HostKeepsCallers DEF Protocol
<1> QED
  BY <1>2, <1>4, <1>5, <1>6, <1>7, <1>8 DEF Protocol, AnsweredNow

LEMMA ReplyKeeps == ASSUME HostcallTypeOK, Protocol, Reply PROVE Protocol' /\ AnsweredNow(cur)
<1>1. /\ UNCHANGED <<ready, payload, next, pkt, pc, hd, avail, calls, role, program>>
      /\ UNCHANGED <<ioq, iopkt, ioflags>>
      /\ control' = [control EXCEPT ![cur] = lflags]
      /\ lpc = "reply" /\ lpc' # "reply" /\ Hand' = rest.idx /\ Hand = rest.idx
  BY HandAfterGoTo DEF Reply, stackVars, callVars, ioVars, Hand
<1>2. cur \in Packets /\ Answering(cur)
  BY <1>1 DEF Answering, HostcallTypeOK, ListenerOK, Index
<1>3. Sent(cur) /\ cur # iopkt /\ Fits(cur, lflags)
  BY <1>1, <1>2 DEF Protocol, HostHolds, AnswersFit
<1>4. \A p \in Packets : Answering(p)' <=> Answering(p) /\ p # cur
  BY <1>1, <1>3 DEF Answering
<1> QED
  BY <1>1, <1>2, <1>3, <1>4, AnswerKeeps

LEMMA IoReplyKeeps == ASSUME HostcallTypeOK, Protocol, IoReply PROVE Protocol' /\ AnsweredNow(iopkt)
<1>1. /\ UNCHANGED <<ready, payload, next, pkt, pc, hd, avail, calls, role, program>>
      /\ UNCHANGED <<ioq, lpc, cur, rest, lflags>>
      /\ control' = [control EXCEPT ![iopkt] = ioflags]
      /\ iopkt # NULL_INDEX /\ iopkt' = NULL_INDEX
  BY DEF IoReply, stackVars, callVars, listenerVars
<1>2. iopkt \in Packets /\ Answering(iopkt) /\ NULL_INDEX \notin Packets
  BY <1>1, PacketIsNotNull DEF Answering, HostcallTypeOK, HostOK, Index
<1>3. Sent(iopkt) /\ (lpc = "reply" => cur # iopkt) /\ Fits(iopkt, ioflags)
  BY <1>1, <1>2 DEF Protocol, HostHolds, AnswersFit
<1>4. \A p \in Packets : Answering(p)' <=> Answering(p) /\ p # iopkt
  BY <1>1, <1>2, <1>3 DEF Answering
<1>5. Hand' = Hand
  BY <1>1 DEF Hand
<1> QED
  BY <1>1, <1>2, <1>3, <1>4, <1>5, AnswerKeeps

LEMMA IoServeKeeps == ASSUME HostcallTypeOK, Protocol, IoServe PROVE Protocol' /\ ServedNow(Head(ioq))
<1>0. PICK h \in Packets : h = Head(ioq)
  <2>1. Head(ioq) \in Packets
    BY HeadTailProperties DEF IoServe, HostcallTypeOK, HostOK
  <2> QED
    BY <2>1
<1>1. /\ UNCHANGED <<ready, control, next, pkt, pc, hd, avail, calls, role, program>>
      /\ UNCHANGED <<lpc, cur, rest, lflags>>
      /\ iopkt = NULL_INDEX /\ iopkt' = h /\ ioq # <<>> /\ ioq' = Tail(ioq)
  BY <1>0 DEF IoServe, stackVars, callVars, listenerVars
<1>2. /\ ioq \in Seq(Packets) /\ Len(ioq) \in Nat \ {0} /\ Len(ioq') = Len(ioq) - 1
      /\ DOMAIN ioq = 1 .. Len(ioq) /\ DOMAIN ioq' = 1 .. Len(ioq) - 1
      /\ \A i \in 1 .. Len(ioq) - 1 : ioq'[i] = ioq[i + 1]
      /\ h = ioq[1]
  BY <1>0, <1>1, HeadTailProperties, EmptySeq DEF HostcallTypeOK, HostOK
<1>3. \A i, j \in 1 .. Len(ioq) : ioq[i] = ioq[j] => i = j
  BY <1>2 DEF Protocol, HostHolds
<1>4. \A p \in Packets : WithIo(p)' <=> WithIo(p) /\ p # h
  <2>1. ASSUME NEW p \in Packets, WithIo(p)' PROVE WithIo(p) /\ p # h
    <3>1. PICK i \in 1 .. Len(ioq) - 1 : ioq'[i] = p
      BY <1>2, <2>1 DEF WithIo
    <3>2. i + 1 \in 1 .. Len(ioq) /\ ioq[i + 1] = p /\ 1 \in 1 .. Len(ioq) /\ i + 1 # 1
      BY <1>2, <3>1
    <3> QED
      BY <1>2, <1>3, <3>2 DEF WithIo
  <2>2. ASSUME NEW p \in Packets, WithIo(p), p # h PROVE WithIo(p)'
    <3>1. PICK i \in 1 .. Len(ioq) : ioq[i] = p
      BY <1>2, <2>2 DEF WithIo
    <3>2. i - 1 \in 1 .. Len(ioq) - 1 /\ (i - 1) + 1 = i
      BY <1>2, <2>2, <3>1
    <3>3. ioq'[i - 1] = p
      BY <1>2, <3>1, <3>2
    <3> QED
      BY <1>2, <3>2, <3>3 DEF WithIo
  <2> QED
    BY <2>1, <2>2
<1>5. WithIo(h) /\ Asked(h) /\ payload[h].service = "OPEN"
  BY <1>2 DEF WithIo, Protocol, HostHolds
<1>6. /\ payload \in [Packets -> Requests] /\ payload[h] \in Requests
      /\ payload[h].result = "asked" /\ Sent(h) /\ ~ Answering(h) /\ h # NULL_INDEX
  BY <1>2, <1>5, PacketIsNotNull DEF HostcallTypeOK, RequestsOK, Protocol, AnswersFit, Asked
<1>7. /\ \A p \in Packets \ {h} : payload'[p] = payload[p]
      /\ payload'[h].of = payload[h].of /\ payload'[h].call = payload[h].call
      /\ payload'[h].service = payload[h].service
      /\ Fits(h, ioflags)'
  <2>1. PICK answer \in AnswersOf("OPEN") : Handle(h, answer) /\ ioflags' = FlagsFor(answer)
    BY <1>0 DEF IoServe
  <2>2. payload' = [payload EXCEPT ![h].result = answer] /\ answer \in {"ok", "err"}
    BY <2>1 DEF Handle, AnswersOf
  <2>3. payload'[h] = [payload[h] EXCEPT !.result = answer]
    BY <1>2, <1>6, <2>2
  <2>4. /\ payload'[h].of = payload[h].of /\ payload'[h].call = payload[h].call
        /\ payload'[h].service = payload[h].service /\ payload'[h].result = answer
    BY <1>6, <2>3 DEF Requests
  <2>5. ioflags' = IF answer = "err" THEN READY_ERROR ELSE READY
    BY <2>1 DEF FlagsFor
  <2>6. Fits(h, ioflags)'
    <3>1. payload'[h].service = "OPEN"
      BY <1>5, <2>4
    <3>2. answer = "ok" \/ answer = "err"
      BY <2>2
    <3> QED
      BY <2>4, <2>5, <3>1, <3>2, ControlFacts DEF Fits
  <2> QED
    BY <1>6, <2>2, <2>4, <2>6
<1>8. /\ \A p \in Packets : Sent(p)' <=> Sent(p)
      /\ \A p \in Packets : Answering(p)' <=> Answering(p) \/ p = h
      /\ Hand' = Hand
  BY <1>1, PacketIsNotNull DEF Sent, Answering, Hand
<1>9. \A p \in Packets : Asked(p)' <=> Asked(p) /\ p # h
  BY <1>8 DEF Asked
<1>10. \A p \in Packets : Queued(p)' <=> Queued(p)
  BY <1>4, <1>5, <1>9 DEF Queued
<1>11. Stacks'
  BY <1>1, <1>8, <1>10, StacksStay DEF Protocol
<1>12. HostHolds'
  <2>1. \A p \in Packets : WithIo(p)' => Asked(p)' /\ payload'[p].service = "OPEN"
    BY <1>4, <1>7, <1>9 DEF Protocol, HostHolds
  <2>2. \A i, j \in 1 .. Len(ioq) - 1 : i + 1 \in 1 .. Len(ioq) /\ j + 1 \in 1 .. Len(ioq)
    BY <1>2
  <2>3. \A i, j \in DOMAIN ioq' : ioq'[i] = ioq'[j] => i = j
    BY <1>2, <1>3, <2>2
  <2>4. \A p \in Packets : Answering(p)' => Sent(p)'
    BY <1>6, <1>8 DEF Protocol, HostHolds
  <2>5. lpc' = "reply" => cur' # iopkt'
    BY <1>1, <1>6 DEF Answering
  <2> QED
    BY <2>1, <2>3, <2>4, <2>5 DEF HostHolds
<1>13. AnswersFit'
  <2>1. \A p \in Packets : Asked(p)' => payload'[p].result = "asked"
    BY <1>7, <1>9 DEF Protocol, AnswersFit
  <2>2. \A p \in Packets : lpc' = "reply" /\ p = cur' => Fits(p, lflags)'
    <3>1. lpc = "reply" => cur # h
      BY <1>6 DEF Answering
    <3> QED
      BY <1>1, <1>7, <3>1 DEF Protocol, AnswersFit, Fits
  <2> QED
    BY <1>1, <1>7, <2>1, <2>2 DEF AnswersFit
<1>14. OwnersKnow' /\ FreeIsUnfilled' /\ SentIsOwned'
  <2>1. \A p \in Packets : ~ Sent(p) => control'[p] = control[p] /\ payload'[p] = payload[p]
    BY <1>1, <1>6, <1>7
  <2>2. \A p \in Packets : Sent(p) =>
           /\ payload'[p].of = payload[p].of /\ payload'[p].call = payload[p].call
           /\ payload'[p].service = payload[p].service
           /\ control'[p] = FILLED
    BY <1>1, <1>7 DEF Sent
  <2> QED
    BY <1>1, <2>1, <2>2, HostKeepsCallers DEF Protocol
<1>15. ServedNow(h)
  BY <1>5, <1>7, <1>8, <1>9 DEF ServedNow
<1> QED
  BY <1>0, <1>11, <1>12, <1>13, <1>14, <1>15 DEF Protocol

-----------------------------------------------------------------------------
(* The steps of the callers keep the invariant, if no packet has two       *)
(* owners and what can be popped has none.                                 *)

Ownership == /\ HeadAvailable /\ OwnedIsNotAvailable /\ ExclusiveOwner
             /\ \A s \in Shards : avail[s] \subseteq Packets

LEMMA OthersUnmoved ==
  ASSUME HostcallTypeOK, NEW t \in Callers, CallStep(t)
  PROVE  \A u \in Callers \ {t} :
           /\ pc'[u] = pc[u] /\ pkt'[u] = pkt[u] /\ hd'[u] = hd[u]
           /\ calls'[u] = calls[u] /\ role'[u] = role[u]
<1> USE DEF HostcallTypeOK, StackWordsOK, CallsOK, Goto
<1>1. CASE BeginCall(t)
  BY <1>1 DEF BeginCall
<1>2. CASE PoolStep(t) /\ UNCHANGED hostcallVars
  BY <1>2 DEF PoolStep, PopLoad, PopNext, PopCas, FreeLink, FreeCas, hostcallVars, callVars
<1>3. CASE Refused(t) \/ PollAgain(t) \/ ClearControl(t) \/ Fill(t) \/ ReadyLink(t)
           \/ ReadyCas(t) \/ RingDoorbell(t) \/ TakeAnswer(t)
  BY <1>3 DEF Refused, PollAgain, ClearControl, Fill, ReadyLink, ReadyCas, RingDoorbell,
              TakeAnswer, hostcallVars, callVars
<1>4. CASE TimeLimit(t)
  BY <1>4 DEF TimeLimit, RequestTimeout, LeavePacket, LeaveUnsent
<1> QED
  BY <1>1, <1>2, <1>3, <1>4 DEF CallStep, Caller, StackStep

(* The host's part of the invariant asks one thing of the callers: they    *)
(* leave what is sent alone.                                               *)
LEMMA CallersKeepHost ==
  ASSUME Protocol, UNCHANGED <<lpc, cur, rest, lflags, ioq, iopkt, ioflags, ready>>,
         \A p \in Packets : Sent(p)' <=> Sent(p),
         \A p \in Packets : Sent(p) => next'[p] = next[p] /\ payload'[p] = payload[p]
  PROVE  Stacks' /\ HostHolds' /\ AnswersFit'
<1>1. /\ \A p \in Packets : Answering(p)' <=> Answering(p)
      /\ \A p \in Packets : WithIo(p)' <=> WithIo(p)
      /\ Hand' = Hand
  BY DEF Answering, WithIo, Hand
<1>2. \A p \in Packets : (Asked(p)' <=> Asked(p)) /\ (Queued(p)' <=> Queued(p))
  BY <1>1 DEF Asked, Queued
<1>3. Stacks'
  BY <1>1, <1>2, StacksStay DEF Protocol, Queued, Asked
<1>4. HostHolds'
  BY <1>1, <1>2 DEF Protocol, HostHolds, Asked
<1>5. AnswersFit'
  <2>1. \A p \in Packets : Asked(p)' => payload'[p].result = "asked"
    BY <1>2 DEF Protocol, AnswersFit, Asked
  <2>2. \A p \in Packets : Answering(p) => payload'[p] = payload[p]
    BY DEF Protocol, HostHolds
  <2> QED
    BY <2>1, <2>2 DEF Protocol, AnswersFit, Fits, Answering
<1> QED
  BY <1>3, <1>4, <1>5

LEMMA OwnersKeep ==
  ASSUME HostcallTypeOK, Protocol, Ownership, NEW t \in Callers, CallStep(t),
         \A p \in Packets : p # pkt[t] =>
           control'[p] = control[p] /\ payload'[p] = payload[p] /\ next'[p] = next[p],
         \A p \in Packets : pkt'[t] = p => OwnerKnows(t, p)'
  PROVE  OwnersKnow'
<1> SUFFICES ASSUME NEW u \in Callers, NEW p \in Packets, pkt'[u] = p, u # t
             PROVE  OwnerKnows(u, p)'
  BY DEF OwnersKnow
<1>1. /\ pc'[u] = pc[u] /\ pkt'[u] = pkt[u] /\ hd'[u] = hd[u]
      /\ calls'[u] = calls[u] /\ role'[u] = role[u]
  BY OthersUnmoved
<1>2. p # pkt[t]
  BY <1>1, PacketIsNotNull DEF Ownership, ExclusiveOwner
<1>3. OwnerKnows(u, p)
  BY <1>1 DEF Protocol, OwnersKnow
<1> QED
  BY <1>1, <1>2, <1>3 DEF OwnerKnows, Mine, Fits

(* A step that sends nothing and takes nothing back.                       *)
LEMMA CallerKeeps ==
  ASSUME HostcallTypeOK, Protocol, Ownership, NEW t \in Callers, CallStep(t),
         UNCHANGED ready,
         \A p \in Packets : p # pkt[t] =>
           control'[p] = control[p] /\ payload'[p] = payload[p] /\ next'[p] = next[p],
         \A p \in Packets : pkt'[t] = p => OwnerKnows(t, p)',
         \A p \in Packets : Sent(p)' <=> Sent(p),
         \A p \in Packets : Sent(p) => next'[p] = next[p] /\ payload'[p] = payload[p],
         program.limits = {} => \A p \in Packets : Sent(p) /\ pkt[t] = p => pkt'[t] = p,
         FreeIsUnfilled'
  PROVE  Protocol' /\ NothingSent
<1>1. UNCHANGED <<lpc, cur, rest, lflags, ioq, iopkt, ioflags, program>>
  BY CallStepFrame
<1>2. Stacks' /\ HostHolds' /\ AnswersFit'
  BY <1>1, CallersKeepHost
<1>3. OwnersKnow'
  BY OwnersKeep
<1>4. SentIsOwned'
  <2> SUFFICES ASSUME program.limits = {}, NEW p \in Packets, Sent(p)
               PROVE  \E u \in Callers : pkt'[u] = p
    BY <1>1 DEF SentIsOwned
  <2>1. PICK u \in Callers : pkt[u] = p
    BY DEF Protocol, SentIsOwned
  <2>2. CASE u = t
    BY <2>1, <2>2
  <2>3. CASE u # t
    BY <2>1, <2>3, OthersUnmoved
  <2> QED
    BY <2>2, <2>3
<1>5. NothingSent
  BY <1>1 DEF NothingSent, Asked, Answering
<1> QED
  BY <1>2, <1>3, <1>4, <1>5 DEF Protocol

(* Steps that change no word of a packet: what is sent stays so if the     *)
(* caller stays on its side of the push.                                   *)
LEMMA WordsUnchangedKeeps ==
  ASSUME HostcallTypeOK, Protocol, Ownership, NEW t \in Callers, CallStep(t),
         UNCHANGED <<ready, control, payload, next>>,
         \A p \in Packets : pkt'[t] = p => OwnerKnows(t, p)',
         \A p \in Packets : control[p] = FILLED /\ pkt[t] = p =>
           pkt'[t] = p /\ (pc[t] \in {"ring", "wait"} <=> pc'[t] \in {"ring", "wait"}),
         \A p \in Packets : control[p] = FILLED /\ pkt'[t] = p => pkt[t] = p,
         \A s \in Shards : \A p \in avail'[s] : control[p] # FILLED
  PROVE  Protocol' /\ NothingSent
<1>1. \A u \in Callers \ {t} : pc'[u] = pc[u] /\ pkt'[u] = pkt[u]
  BY OthersUnmoved
<1>2. \A p \in Packets : Sent(p)' <=> Sent(p)
  <2> SUFFICES ASSUME NEW p \in Packets, control[p] = FILLED
               PROVE  \A u \in Callers : (pkt'[u] = p => pc'[u] \in {"ring", "wait"})
                                         <=> (pkt[u] = p => pc[u] \in {"ring", "wait"})
    BY DEF Sent
  <2> TAKE u \in Callers
  <2>1. CASE u = t
    BY <2>1
  <2>2. CASE u # t
    BY <1>1, <2>2
  <2> QED
    BY <2>1, <2>2
<1>3. FreeIsUnfilled'
  BY DEF FreeIsUnfilled
<1>4. \A p \in Packets : Sent(p) /\ pkt[t] = p => pkt'[t] = p
  BY DEF Sent
<1> QED
  BY <1>2, <1>3, <1>4, CallerKeeps

LEMMA UnownedStepKeeps ==
  ASSUME HostcallTypeOK, Protocol, Ownership, NEW t \in Callers,
         \/ BeginCall(t) \/ Refused(t) \/ PollAgain(t) \/ LeaveUnsent(t)
         \/ ((PopLoad(t) \/ PopNext(t)) /\ UNCHANGED hostcallVars)
  PROVE  Protocol' /\ NothingSent
<1>1. CallStep(t)
  BY DEF CallStep, Caller, StackStep, PoolStep, TimeLimit
<1>2. /\ UNCHANGED <<ready, control, payload, next, pkt, avail>>
      /\ pc[t] \in {"idle", "exhausted", "pop_load", "pop_next"}
  BY DEF BeginCall, Refused, PollAgain, LeaveUnsent, PopLoad, PopNext, hostcallVars, requestVars
<1>3. pkt[t] = NULL_INDEX
  BY <1>2 DEF HostcallTypeOK, StackWordsOK, OwnerLabels
<1> QED
  BY <1>1, <1>2, <1>3, PacketIsNotNull, WordsUnchangedKeeps DEF Protocol, FreeIsUnfilled

LEMMA PopKeeps ==
  ASSUME HostcallTypeOK, Protocol, Ownership, NEW t \in Callers,
         PopCas(t), UNCHANGED hostcallVars
  PROVE  Protocol' /\ NothingSent
<1> DEFINE s == ShardOf[t]
<1>1. CallStep(t) /\ UNCHANGED <<ready, control, payload, next>>
  BY DEF CallStep, Caller, StackStep, PoolStep, PopCas, hostcallVars, requestVars
<1>2. pkt[t] = NULL_INDEX /\ pc[t] = "pop_cas" /\ s \in Shards
  BY CallerAssumption DEF PopCas, HostcallTypeOK, StackWordsOK, OwnerLabels
<1>3. CASE free[s] # hd[t]
  <2>1. UNCHANGED <<pkt, avail>>
    BY <1>3 DEF PopCas
  <2> QED
    BY <1>1, <1>2, <2>1, PacketIsNotNull, WordsUnchangedKeeps DEF Protocol, FreeIsUnfilled
<1>4. CASE free[s] = hd[t]
  <2>1. /\ pkt'[t] = free[s].idx /\ pc'[t] = "own"
        /\ avail' = [avail EXCEPT ![s] = @ \ {hd[t].idx}]
    BY <1>4 DEF PopCas, Goto, HostcallTypeOK, StackWordsOK
  <2>2. \A u \in Shards : avail'[u] \subseteq avail[u]
    BY <1>2, <2>1 DEF HostcallTypeOK, StackWordsOK
  <2>3. \A p \in Packets : pkt'[t] = p => control[p] # FILLED
    BY <1>2, <2>1, PacketIsNotNull DEF Ownership, HeadAvailable, Protocol, FreeIsUnfilled
  <2>4. \A p \in Packets : pkt'[t] = p => OwnerKnows(t, p)'
    BY <1>1, <2>1, <2>3 DEF OwnerKnows
  <2>5. \A u \in Shards : \A p \in avail'[u] : control[p] # FILLED
    BY <2>2 DEF Protocol, FreeIsUnfilled
  <2> QED
    BY <1>1, <1>2, <2>3, <2>4, <2>5, PacketIsNotNull, WordsUnchangedKeeps
<1> QED
  BY <1>3, <1>4

LEMMA OwnerFacts ==
  ASSUME HostcallTypeOK, Protocol, Ownership, NEW t \in Callers, pc[t] \in OwnerLabels
  PROVE  /\ pkt[t] \in Packets /\ OwnerKnows(t, pkt[t])
         /\ \A s \in Shards : pkt[t] \notin avail[s]
         /\ \A u \in Callers \ {t} : pkt[u] # pkt[t]
<1>1. pkt[t] \in Packets /\ pkt[t] # NULL_INDEX
  BY DEF HostcallTypeOK, StackWordsOK, Index
<1>2. \A u \in Callers \ {t} : pkt[u] # pkt[t]
  BY <1>1 DEF Ownership, ExclusiveOwner
<1>3. OwnerKnows(t, pkt[t])
  BY <1>1 DEF Protocol, OwnersKnow
<1> QED
  BY <1>1, <1>2, <1>3 DEF Ownership, OwnedIsNotAvailable

LEMMA PushKeeps ==
  ASSUME HostcallTypeOK, Protocol, Ownership, NEW t \in Callers,
         FreeCas(t), UNCHANGED hostcallVars
  PROVE  Protocol' /\ NothingSent
<1> DEFINE s == ShardOf[t]
<1>1. CallStep(t) /\ UNCHANGED <<ready, control, payload, next>>
  BY DEF CallStep, Caller, StackStep, PoolStep, FreeCas, hostcallVars, requestVars
<1>2. pc[t] = "free_cas" /\ pc[t] \in OwnerLabels /\ s \in Shards
  BY CallerAssumption DEF FreeCas, OwnerLabels, CallLabels, StackLabels
<1>3. pkt[t] \in Packets /\ control[pkt[t]] # FILLED
  BY <1>2, OwnerFacts DEF OwnerKnows
<1>4. CASE free[s] # hd[t]
  <2>1. UNCHANGED <<pkt, avail>> /\ pc'[t] = "free_link"
    BY <1>4 DEF FreeCas, Goto, HostcallTypeOK, StackWordsOK
  <2>2. \A p \in Packets : pkt'[t] = p => OwnerKnows(t, p)'
    BY <1>1, <1>3, <2>1 DEF OwnerKnows
  <2> QED
    BY <1>1, <1>2, <1>3, <2>1, <2>2, WordsUnchangedKeeps DEF Protocol, FreeIsUnfilled
<1>5. CASE free[s] = hd[t]
  <2>1. pkt'[t] = NULL_INDEX /\ avail' = [avail EXCEPT ![s] = @ \union {pkt[t]}]
    BY <1>5 DEF FreeCas, HostcallTypeOK, StackWordsOK
  <2>2. \A u \in Shards : avail'[u] \subseteq avail[u] \union {pkt[t]}
    BY <1>2, <2>1 DEF HostcallTypeOK, StackWordsOK
  <2>3. \A u \in Shards : \A p \in avail'[u] : control[p] # FILLED
    BY <1>3, <2>2 DEF Protocol, FreeIsUnfilled
  <2> QED
    BY <1>1, <1>2, <1>3, <2>1, <2>3, PacketIsNotNull, WordsUnchangedKeeps
<1> QED
  BY <1>4, <1>5

LEMMA AfterPushKeeps ==
  ASSUME HostcallTypeOK, Protocol, Ownership, NEW t \in Callers,
         RingDoorbell(t) \/ TakeAnswer(t)
  PROVE  Protocol' /\ NothingSent
<1>1. CallStep(t) /\ UNCHANGED <<ready, control, payload, next, pkt, avail, calls, role>>
  BY DEF CallStep, Caller, RingDoorbell, TakeAnswer, callVars, requestVars
<1>2. pc[t] \in {"ring", "wait"} /\ pc[t] \in OwnerLabels
  BY DEF RingDoorbell, TakeAnswer, OwnerLabels, CallLabels
<1>3. pkt[t] \in Packets /\ OwnerKnows(t, pkt[t])
  BY <1>2, OwnerFacts
<1>4. pc'[t] = "wait" \/ (pc'[t] = "free_link" /\ control[pkt[t]] # FILLED)
  BY <1>2, ControlFacts DEF RingDoorbell, TakeAnswer, Goto, HostcallTypeOK, StackWordsOK
<1>5. \A p \in Packets : pkt'[t] = p => OwnerKnows(t, p)'
  <2> TAKE p \in Packets
  <2> HAVE pkt'[t] = p
  <2>1. OwnerKnows(t, p)
    BY <1>1, <1>3
  <2> QED
    BY <1>1, <1>2, <1>4, <2>1 DEF OwnerKnows, Mine, Fits
<1> QED
  BY <1>1, <1>2, <1>3, <1>4, <1>5, WordsUnchangedKeeps DEF Protocol, FreeIsUnfilled

LEMMA LeavePacketKeeps ==
  ASSUME HostcallTypeOK, Protocol, Ownership, NEW t \in Callers, LeavePacket(t)
  PROVE  Protocol' /\ NothingSent
<1>1. CallStep(t) /\ UNCHANGED <<ready, control, payload, next, avail>>
  BY DEF CallStep, TimeLimit, LeavePacket, requestVars
<1>2. pc[t] = "wait" /\ pc[t] \in OwnerLabels /\ pkt'[t] = NULL_INDEX /\ program.limits # {}
  BY DEF LeavePacket, OwnerLabels, CallLabels, HostcallTypeOK, StackWordsOK
<1>3. \A u \in Callers \ {t} : pc'[u] = pc[u] /\ pkt'[u] = pkt[u]
  BY <1>1, OthersUnmoved
<1>4. \A p \in Packets : Sent(p)' <=> Sent(p)
  <2> SUFFICES ASSUME NEW p \in Packets, NEW u \in Callers
               PROVE  (pkt'[u] = p => pc'[u] \in {"ring", "wait"})
                      <=> (pkt[u] = p => pc[u] \in {"ring", "wait"})
    BY <1>1 DEF Sent
  <2>1. CASE u = t
    BY <1>2, <2>1, PacketIsNotNull
  <2>2. CASE u # t
    BY <1>3, <2>2
  <2> QED
    BY <2>1, <2>2
<1>5. FreeIsUnfilled'
  BY <1>1 DEF Protocol, FreeIsUnfilled
<1> QED
  BY <1>1, <1>2, <1>4, <1>5, PacketIsNotNull, CallerKeeps

(* Steps that write a word of the packet the caller owns and has not sent. *)
LEMMA OwnWordKeeps ==
  ASSUME HostcallTypeOK, Protocol, Ownership, NEW t \in Callers, CallStep(t),
         UNCHANGED <<ready, pkt, avail>>,
         pc[t] \in OwnerLabels \ {"ring", "wait"}, pc'[t] \notin {"ring", "wait"},
         \A p \in Packets : p # pkt[t] =>
           control'[p] = control[p] /\ payload'[p] = payload[p] /\ next'[p] = next[p],
         \A p \in Packets : pkt[t] = p => OwnerKnows(t, p)'
  PROVE  Protocol' /\ NothingSent
<1>1. \A u \in Callers \ {t} : pc'[u] = pc[u]
  BY OthersUnmoved
<1>2. \A p \in Packets : p = pkt[t] => ~ Sent(p) /\ ~ Sent(p)'
  BY DEF Sent
<1>3. ASSUME NEW p \in Packets, p # pkt[t] PROVE Sent(p)' <=> Sent(p)
  <2>1. \A u \in Callers : (pkt'[u] = p => pc'[u] \in {"ring", "wait"})
                           <=> (pkt[u] = p => pc[u] \in {"ring", "wait"})
    BY <1>1, <1>3
  <2> QED
    BY <1>3, <2>1 DEF Sent
<1>4. FreeIsUnfilled'
  <2>1. \A s \in Shards : pkt[t] \notin avail[s]
    BY OwnerFacts
  <2> QED
    BY <2>1 DEF Protocol, FreeIsUnfilled, Ownership
<1>5. \A p \in Packets : Sent(p)' <=> Sent(p)
  BY <1>2, <1>3
<1> QED
  BY <1>2, <1>4, <1>5, CallerKeeps

LEMMA LinkKeeps ==
  ASSUME HostcallTypeOK, Protocol, Ownership, NEW t \in Callers,
         (FreeLink(t) /\ UNCHANGED hostcallVars) \/ ReadyLink(t)
  PROVE  Protocol' /\ NothingSent
<1>1. CallStep(t) /\ UNCHANGED <<ready, control, payload, pkt, avail, calls, role>>
  BY DEF CallStep, Caller, StackStep, PoolStep, FreeLink, ReadyLink, hostcallVars, requestVars,
         callVars
<1>2. pc[t] \in {"free_link", "ready_link"} /\ pc[t] \in OwnerLabels
  BY DEF FreeLink, ReadyLink, OwnerLabels, CallLabels, StackLabels
<1>3. pkt[t] \in Packets /\ OwnerKnows(t, pkt[t])
  BY <1>2, OwnerFacts
<1>4. PICK word : hd' = [hd EXCEPT ![t] = word] /\ next' = [next EXCEPT ![pkt[t]] = word]
  BY DEF FreeLink, ReadyLink
<1>5. hd'[t] = word /\ next'[pkt[t]] = word /\ \A p \in Packets : p # pkt[t] => next'[p] = next[p]
  BY <1>3, <1>4 DEF HostcallTypeOK, StackWordsOK
<1>6. \/ pc[t] = "free_link" /\ pc'[t] = "free_cas"
      \/ pc[t] = "ready_link" /\ pc'[t] = "ready_cas"
  BY DEF FreeLink, ReadyLink, Goto, HostcallTypeOK, StackWordsOK
<1>7. \A p \in Packets : pkt[t] = p => OwnerKnows(t, p)'
  BY <1>1, <1>3, <1>5, <1>6 DEF OwnerKnows, Mine
<1> QED
  BY <1>1, <1>2, <1>5, <1>6, <1>7, OwnWordKeeps

LEMMA WriteKeeps ==
  ASSUME HostcallTypeOK, Protocol, Ownership, NEW t \in Callers, ClearControl(t) \/ Fill(t)
  PROVE  Protocol' /\ NothingSent
<1>1. CallStep(t) /\ UNCHANGED <<ready, next, pkt, avail, calls, role>>
  BY DEF CallStep, Caller, ClearControl, Fill, callVars
<1>2. pc[t] \in OwnerLabels \ {"ring", "wait"}
  BY DEF ClearControl, Fill, OwnerLabels, CallLabels, StackLabels
<1>3. pkt[t] \in Packets
  BY <1>2, OwnerFacts
<1>4. control \in [Packets -> {{}, FILLED, READY, READY_ERROR}]
      /\ payload \in [Packets -> Requests] /\ pc \in [Callers -> CallLabels]
  BY DEF HostcallTypeOK, RequestsOK, StackWordsOK
<1>5. CASE ClearControl(t)
  <2>1. control'[pkt[t]] = {} /\ pc'[t] = "fill" /\ payload' = payload
        /\ \A p \in Packets : p # pkt[t] => control'[p] = control[p]
    BY <1>3, <1>4, <1>5 DEF ClearControl, Goto
  <2>2. \A p \in Packets : pkt[t] = p => OwnerKnows(t, p)'
    BY <2>1, ControlFacts DEF OwnerKnows
  <2> QED
    BY <1>1, <1>2, <2>1, <2>2, OwnWordKeeps
<1>6. CASE Fill(t)
  <2>1. control'[pkt[t]] = FILLED /\ pc'[t] = "ready_link"
        /\ payload'[pkt[t]] = [of |-> t, call |-> calls[t], service |-> role[t].service,
                               result |-> "asked"]
        /\ \A p \in Packets : p # pkt[t] => control'[p] = control[p] /\ payload'[p] = payload[p]
    BY <1>3, <1>4, <1>6 DEF Fill, Goto
  <2>2. \A p \in Packets : pkt[t] = p => OwnerKnows(t, p)'
    BY <1>1, <2>1 DEF OwnerKnows, Mine
  <2> QED
    BY <1>1, <1>2, <2>1, <2>2, OwnWordKeeps
<1> QED
  BY <1>5, <1>6

(* The push on the ready stack: the packet is the host's.                  *)
LEMMA ReadyCasKeeps ==
  ASSUME HostcallTypeOK, Protocol, Ownership, NEW t \in Callers, ReadyCas(t)
  PROVE  /\ Protocol'
         /\ IF ready[ShardOf[t]] = hd[t] THEN SentNow(pkt[t]) ELSE NothingSent
<1> DEFINE s == ShardOf[t]
<1>1. /\ CallStep(t) /\ UNCHANGED <<control, payload, next, pkt, avail, calls, role>>
      /\ pc[t] = "ready_cas" /\ pc[t] \in OwnerLabels /\ s \in Shards
  BY CallerAssumption
  DEF CallStep, Caller, ReadyCas, callVars, OwnerLabels, CallLabels, StackLabels
<1>2. PICK h \in Packets : h = pkt[t]
  BY <1>1, OwnerFacts
<1>3. /\ OwnerKnows(t, h) /\ \A u \in Callers \ {t} : pkt[u] # h
      /\ \A u \in Shards : h \notin avail[u]
  BY <1>1, <1>2, OwnerFacts
<1>4. control[h] = FILLED /\ Mine(t, h) /\ payload[h].result = "asked" /\ next[h] = hd[t]
  BY <1>1, <1>3 DEF OwnerKnows
<1>5. CASE ready[s] # hd[t]
  <2>1. UNCHANGED ready /\ pc'[t] = "ready_link"
    BY <1>5 DEF ReadyCas, Goto, HostcallTypeOK, StackWordsOK
  <2>2. \A p \in Packets : pkt[t] = p => OwnerKnows(t, p)'
    BY <1>1, <1>2, <1>4, <2>1 DEF OwnerKnows, Mine
  <2> QED
    BY <1>1, <1>5, <2>1, <2>2, OwnWordKeeps
<1>6. CASE ready[s] = hd[t]
  <2>1. /\ ready' = [ready EXCEPT ![s] = make_tagged(bump_tag(hd[t]), h)] /\ pc'[t] = "ring"
        /\ UNCHANGED <<lpc, cur, rest, lflags, ioq, iopkt, ioflags, program>>
    BY <1>1, <1>2, <1>6, CallStepFrame DEF ReadyCas, Goto, HostcallTypeOK, StackWordsOK
  <2>2. make_tagged(bump_tag(hd[t]), h).idx = h
    BY DEF make_tagged
  <2>3. \A u \in Callers \ {t} : pc'[u] = pc[u]
    BY <1>1, OthersUnmoved
  <2>4. ~ Sent(h) /\ Sent(h)'
    BY <1>1, <1>2, <1>3, <1>4, <2>1 DEF Sent
  <2>5. \A p \in Packets : Sent(p)' <=> Sent(p) \/ p = h
    <3> SUFFICES ASSUME NEW p \in Packets, p # h PROVE Sent(p)' <=> Sent(p)
      BY <2>4
    <3>1. \A u \in Callers : (pkt[u] = p => pc'[u] \in {"ring", "wait"})
                             <=> (pkt[u] = p => pc[u] \in {"ring", "wait"})
      BY <1>2, <2>3
    <3> QED
      BY <1>1, <3>1 DEF Sent
  <2>6. /\ \A p \in Packets : Answering(p)' <=> Answering(p)
        /\ \A p \in Packets : WithIo(p)' <=> WithIo(p)
        /\ Hand' = Hand
    BY <2>1 DEF Answering, WithIo, Hand
  <2>7. ~ Answering(h) /\ ~ WithIo(h)
    BY <2>4 DEF Protocol, HostHolds, Asked
  <2>8. \A p \in Packets : (Asked(p)' <=> Asked(p) \/ p = h) /\ (Queued(p)' <=> Queued(p) \/ p = h)
    BY <2>5, <2>6, <2>7 DEF Asked, Queued
  <2>9. Stacks'
    <3>1. ~ Queued(h) /\ next[h] = ready[s]
      BY <1>4, <1>6, <2>4 DEF Queued, Asked
    <3> QED
      BY <1>1, <2>1, <2>2, <2>6, <2>8, <3>1, StacksPush DEF Protocol
  <2>10. HostHolds'
    BY <1>1, <2>1, <2>5, <2>6, <2>8 DEF Protocol, HostHolds
  <2>11. AnswersFit'
    BY <1>1, <1>4, <2>1, <2>8 DEF Protocol, AnswersFit, Fits
  <2>12. OwnersKnow'
    <3>1. OwnerKnows(t, h)'
      BY <1>1, <1>4, <2>1 DEF OwnerKnows, Mine
    <3> QED
      BY <1>1, <1>2, <3>1, OwnersKeep
  <2>13. FreeIsUnfilled'
    BY <1>1 DEF Protocol, FreeIsUnfilled
  <2>14. SentIsOwned'
    BY <1>1, <1>2, <2>1, <2>5 DEF Protocol, SentIsOwned
  <2> QED
    BY <1>1, <1>2, <1>6, <2>5, <2>8, <2>9, <2>10, <2>11, <2>12, <2>13, <2>14
    DEF Protocol, SentNow
<1> QED
  BY <1>5, <1>6

(* Between two kernels of callers that wait for their answers nothing is   *)
(* sent, so nothing is lost when the packets are made new.                 *)
LEMMA ReinitKeeps ==
  ASSUME HostcallTypeOK, Protocol, program.limits = {}, ReinitAndLaunch
  PROVE  Protocol' /\ \A p \in Packets : ~ Sent(p)' /\ ~ Answering(p)'
<1>1. /\ \A t \in Callers : pc[t] = "idle" /\ pc'[t] = "idle"
      /\ \A p \in Packets : control'[p] = {}
      /\ \A s \in Shards : ready'[s] = null_tagged
      /\ UNCHANGED <<pkt, hd, payload, calls, role, program, lpc, cur, rest, lflags, ioq, iopkt,
                     ioflags>>
  BY DEF ReinitAndLaunch, ReinitStacks, callVars, listenerVars, ioVars
<1>2. \A t \in Callers : pkt[t] = NULL_INDEX
  BY <1>1 DEF HostcallTypeOK, StackWordsOK, OwnerLabels
<1>3. \A p \in Packets : ~ Sent(p) /\ ~ Sent(p)'
  BY <1>1, <1>2, PacketIsNotNull, ControlFacts DEF Protocol, SentIsOwned, Sent
<1>4. \A p \in Packets : ~ Queued(p) /\ ~ Queued(p)' /\ ~ Asked(p)' /\ ~ WithIo(p) /\ ~ Answering(p)
  BY <1>3 DEF Queued, Asked, Protocol, HostHolds
<1>5. Hand \notin Packets
  BY <1>4 DEF Protocol, Stacks, HeadsAreQueued, AtHead
<1>6. \A p \in Packets : ~ AtHead(p)'
  <2>1. Hand' = Hand
    BY <1>1 DEF Hand
  <2> QED
    BY <1>1, <1>5, <2>1, WordFacts, PacketIsNotNull DEF AtHead
<1>7. Stacks'
  <2>1. \A p \in Packets : \A s \in Shards : ready'[s].idx # p
    BY <1>1, WordFacts, PacketIsNotNull
  <2> QED
    BY <1>4, <1>6, <2>1 DEF Stacks, HeadsAreQueued, LinksAreQueued, HeadsApart, LinksApart,
        QueuedIsReached
<1>8. \A p \in Packets : ~ WithIo(p)' /\ ~ Answering(p)'
  BY <1>1, <1>4 DEF WithIo, Answering
<1>9. HostHolds'
  BY <1>1, <1>8 DEF Protocol, HostHolds
<1>10. AnswersFit'
  BY <1>1, <1>4 DEF AnswersFit, Answering
<1>11. OwnersKnow' /\ SentIsOwned'
  BY <1>1, <1>2, <1>3, PacketIsNotNull DEF OwnersKnow, SentIsOwned
<1>12. FreeIsUnfilled'
  <2>1. \A s \in Shards : avail'[s] \subseteq Packets
    BY InitialWords DEF ReinitAndLaunch, ReinitStacks
  <2> QED
    BY <1>1, <2>1, ControlFacts DEF FreeIsUnfilled
<1> QED
  BY <1>3, <1>7, <1>8, <1>9, <1>10, <1>11, <1>12 DEF Protocol

LEMMA ProtocolInit == HostcallInit => ProtocolInvariant
<1> SUFFICES ASSUME HostcallInit PROVE Protocol /\ launches >= 1
  BY DEF ProtocolInvariant
<1>1. /\ \A p \in Packets : control[p] = {}
      /\ \A s \in Shards : ready[s] = null_tagged
      /\ \A t \in Callers : pkt[t] = NULL_INDEX
      /\ lpc = "poll" /\ ioq = <<>> /\ iopkt = NULL_INDEX /\ launches = 1
  BY DEF HostcallInit, StackInit
<1>2. NULL_INDEX \notin Packets /\ null_tagged.idx = NULL_INDEX /\ FILLED # {}
  BY PacketIsNotNull, WordFacts, ControlFacts
<1>3. \A p \in Packets : ~ Sent(p) /\ ~ Asked(p) /\ ~ Queued(p) /\ ~ AtHead(p) /\ ~ Answering(p)
  BY <1>1, <1>2 DEF Sent, Asked, Queued, AtHead, Hand, Answering
<1>4. DOMAIN ioq = {}
  BY <1>1
<1>5. Stacks
  BY <1>1, <1>2, <1>3 DEF Stacks, HeadsAreQueued, LinksAreQueued, HeadsApart, LinksApart,
    QueuedIsReached
<1>6. HostHolds /\ AnswersFit
  BY <1>1, <1>2, <1>3, <1>4 DEF HostHolds, WithIo, AnswersFit
<1>7. OwnersKnow /\ SentIsOwned
  BY <1>1, <1>2, <1>3 DEF OwnersKnow, SentIsOwned
<1>8. FreeIsUnfilled
  <2>1. \A s \in Shards : avail[s] \subseteq Packets
    BY InitialWords DEF HostcallInit, StackInit
  <2> QED
    BY <1>1, <1>2, <2>1 DEF FreeIsUnfilled
<1> QED
  BY <1>1, <1>5, <1>6, <1>7, <1>8 DEF Protocol

LEMMA HostKeepsProtocol == HostcallTypeOK /\ Protocol /\ HostStep => Protocol'
<1> SUFFICES ASSUME HostcallTypeOK, Protocol, HostStep PROVE Protocol'
  OBVIOUS
<1>1. ~ VisitUnfilled
  BY VisitFacts, ControlFacts DEF VisitUnfilled
<1> QED
  BY <1>1, HostIdles, SwapKeeps, VisitInlineKeeps, VisitBlockingKeeps, ReplyKeeps, IoServeKeeps,
     IoReplyKeeps
  DEF HostStep, Listener, IoThread

LEMMA CallKeepsProtocol ==
  ASSUME HostcallTypeOK, Protocol, Ownership, Orderly, NEW t \in Callers, CallStep(t)
  PROVE  Protocol'
<1>1. ~ RequestTimeout(t)
  BY DEF RequestTimeout, Orderly
<1> QED
  BY <1>1, UnownedStepKeeps, PopKeeps, PushKeeps, LinkKeeps, WriteKeeps, ReadyCasKeeps,
     AfterPushKeeps, LeavePacketKeeps
  DEF CallStep, Caller, StackStep, PoolStep, TimeLimit

(* An orderly behavior was orderly before.                                 *)
LEMMA OrderlyBefore ==
  ASSUME HostcallTypeOK, launches >= 1, [HostcallNext]_vars
  PROVE  /\ launches' >= 1 /\ program' = program
         /\ Orderly' => Orderly /\ (ReinitAndLaunch => program.limits = {})
<1>1. launches \in Nat
  BY DEF HostcallTypeOK, HostOK
<1>2. program' = program /\ (launches' = launches \/ ReinitAndLaunch)
  BY StepCases, CallStepFrame, HostStepFrame DEF ReinitAndLaunch, vars, hostcallVars, hostVars
<1>3. ReinitAndLaunch => launches' = launches + 1
  BY DEF ReinitAndLaunch
<1> QED
  BY <1>1, <1>2, <1>3 DEF Orderly

LEMMA ProtocolStep ==
  HostcallTypeOK /\ Ownership /\ ProtocolInvariant /\ [HostcallNext]_vars => ProtocolInvariant'
<1> SUFFICES ASSUME HostcallTypeOK, Ownership, ProtocolInvariant, [HostcallNext]_vars, Orderly'
             PROVE  Protocol'
  BY OrderlyBefore DEF ProtocolInvariant
<1>1. Orderly /\ Protocol /\ (ReinitAndLaunch => program.limits = {})
  BY OrderlyBefore DEF ProtocolInvariant
<1> QED
  BY <1>1, StepCases, CallKeepsProtocol, HostKeepsProtocol, ReinitKeeps, HostIdles

(* What FreeStackProofs shows of the free stack, in this module's words.   *)
LEMMA OwnershipHolds == HostcallSpec /\ []NoABA => []Ownership
<1>1. NoABA => P!NoABA
  BY DEF NoABA, P!NoABA, PopSucceeds, P!PopSucceeds, StackPc, StackHd, StackLabels
<1>2. P!PoolInvariant => Ownership
  <2>1. \A s \in Shards : ShardPackets(s) \subseteq Packets
    BY ShardBounds
  <2> QED
    BY <2>1
    DEF P!PoolInvariant, P!HeadAvailable, P!OwnedIsNotAvailable, P!ExclusiveOwner, P!NULL_INDEX,
        P!Shards, P!ShardPackets, Ownership, HeadAvailable, OwnedIsNotAvailable, ExclusiveOwner,
        NULL_INDEX, Shards, ShardPackets
<1>3. P!StackSpec /\ []P!NoABA => []P!PoolInvariant
  BY SameAssumptions, P!PoolInvariantHolds, PTL
<1> QED
  BY <1>1, <1>2, <1>3, HostcallUsesTheStack, SameStack, PTL DEF ImplementsStack

LEMMA ProtocolHolds == HostcallSpec /\ []NoABA => []ProtocolInvariant
<1>1. HostcallInit => ProtocolInvariant
  BY ProtocolInit
<1>2. HostcallTypeOK /\ Ownership /\ ProtocolInvariant /\ [HostcallNext]_vars
        => ProtocolInvariant'
  BY ProtocolStep
<1> QED
  BY <1>1, <1>2, HostcallTypeCorrect, OwnershipHolds, PTL DEF HostcallSpec

(* For any number of callers, shards, packets, calls and kernels and any   *)
(* program that keeps to the rule: in a behavior in which the tags do what *)
(* they are for, the answer a caller finds in its packet is the answer to  *)
(* its own call, with the error flag set just when the handler failed.     *)
THEOREM AnswersAreMine == HostcallSpec /\ []NoABA => []AnswersMatch
<1>1. HostcallTypeOK /\ ProtocolInvariant => AnswersMatch
  <2> SUFFICES ASSUME HostcallTypeOK, Protocol, NEW t \in Callers, pc[t] = "wait",
                      "READY" \in control[pkt[t]]
               PROVE  LET r == payload[pkt[t]]
                      IN  /\ r.of = t /\ r.call = calls[t]
                          /\ r.result = "asked" <=> r.service = "UNKNOWN"
                          /\ "ERROR" \in control[pkt[t]] <=> r.result # "ok"
    BY DEF ProtocolInvariant, AnswersMatch, AnswerIsMine
  <2>1. pkt[t] \in Packets
    BY DEF HostcallTypeOK, StackWordsOK, OwnerLabels, CallLabels, Index
  <2>2. OwnerKnows(t, pkt[t]) /\ control[pkt[t]] # FILLED
    BY <2>1, ControlFacts DEF Protocol, OwnersKnow
  <2> QED
    BY <2>2 DEF OwnerKnows, Mine, Fits
<1> QED
  BY <1>1, ProtocolHolds, HostcallTypeCorrect, PTL

-----------------------------------------------------------------------------
(* What is in flight is what is sent: the chains of the ready stacks and   *)
(* of the drained one have just the queued packets.                        *)

LEMMA QueuedAreLinked ==
  ASSUME HostcallTypeOK, Protocol
  PROVE  Linked({p \in Packets : Queued(p)})
<1> SUFFICES ASSUME NEW p \in Packets, Queued(p), next[p].idx # NULL_INDEX
             PROVE  next[p].idx \in Packets /\ Queued(next[p].idx)
  BY DEF Linked
<1>1. next[p].idx \in Packets
  BY WordFacts DEF HostcallTypeOK, StackWordsOK, Index
<1> QED
  BY <1>1 DEF Protocol, Stacks, LinksAreQueued

LEMMA ChainsAreQueued ==
  ASSUME HostcallTypeOK, Protocol, NEW i \in Index, i \in Packets => AtHead(i)
  PROVE  \A p \in ChainFrom(i) : p \in Packets /\ Queued(p)
<1> DEFINE Q == {p \in Packets : Queued(p)}
<1>1. i \in Q \union {NULL_INDEX}
  BY DEF Protocol, Stacks, HeadsAreQueued, Index
<1>2. Linked(Q) /\ Q \in SUBSET Packets
  BY QueuedAreLinked
<1>3. ChainFrom(i) \subseteq Q
  <2> HIDE DEF Q
  <2> QED
    BY <1>1, <1>2, ChainInside
<1> QED
  BY <1>3

LEMMA QueuedAreOnChains ==
  ASSUME HostcallTypeOK, Protocol, NEW p \in Packets, Queued(p)
  PROVE  p \in ChainFrom(Hand) \/ \E s \in Shards : p \in ChainFrom(ready[s].idx)
<1> DEFINE Chains == {ChainFrom(Hand)} \union {ChainFrom(ready[s].idx) : s \in Shards}
           U == UNION Chains
<1>1. \A C \in Chains : C \in SUBSET Packets /\ Linked(C)
  <2>1. next \in [Packets -> Tagged]
    BY DEF HostcallTypeOK, StackWordsOK
  <2>2. ASSUME NEW i PROVE ChainFrom(i) \in SUBSET Packets /\ Linked(ChainFrom(i))
    BY <2>1, ChainGoesOn DEF ChainFrom
  <2> QED
    BY <2>2
<1>2. U \in SUBSET Packets /\ Linked(U)
  <2> HIDE DEF Chains
  <2> QED
    BY <1>1 DEF Linked
<1>3. \A q \in Packets : AtHead(q) => q \in U
  BY ChainStarts DEF AtHead
<1>4. p \in U
  <2> HIDE DEF U
  <2> QED
    BY <1>2, <1>3 DEF Protocol, Stacks, QueuedIsReached
<1> QED
  BY <1>4

LEMMA InFlightIsSent ==
  ASSUME HostcallTypeOK, Protocol
  PROVE  InFlight = {p \in Packets : Sent(p)}
<1>1. /\ rest.idx \in Index /\ cur \in Index /\ iopkt \in Index /\ ioq \in Seq(Packets)
      /\ \A s \in Shards : ready[s].idx \in Index
      /\ Index = Packets \union {NULL_INDEX}
      /\ lpc = "reply" => cur # NULL_INDEX
  BY WordFacts DEF HostcallTypeOK, ListenerOK, HostOK, RequestsOK, Index
<1>2. \A p \in Packets : Queued(p) => Sent(p)
  BY DEF Queued, Asked
<1>3. ASSUME NEW p \in InFlight PROVE p \in Packets /\ Sent(p)
  <2>1. ASSUME NEW s \in Shards, p \in ChainFrom(ready[s].idx) PROVE p \in Packets /\ Sent(p)
    <3>1. PICK i \in Index : i = ready[s].idx
      BY <1>1
    <3>2. AtHead(i)
      BY <3>1 DEF AtHead
    <3> QED
      BY <1>2, <2>1, <3>1, <3>2, ChainsAreQueued
  <2>2. ASSUME lpc = "visit", p \in ChainFrom(cur) PROVE p \in Packets /\ Sent(p)
    <3>1. PICK i \in Index : i = cur
      BY <1>1
    <3>2. AtHead(i)
      BY <2>2, <3>1 DEF AtHead, Hand
    <3> QED
      BY <1>2, <2>2, <3>1, <3>2, ChainsAreQueued
  <2>3. ASSUME lpc = "reply", p \in ChainFrom(rest.idx) PROVE p \in Packets /\ Sent(p)
    <3>1. PICK i \in Index : i = rest.idx
      BY <1>1
    <3>2. AtHead(i)
      BY <2>3, <3>1 DEF AtHead, Hand
    <3> QED
      BY <1>2, <2>3, <3>1, <3>2, ChainsAreQueued
  <2>4. ASSUME lpc = "reply", p = cur PROVE p \in Packets /\ Sent(p)
    BY <1>1, <2>4 DEF Protocol, HostHolds, Answering
  <2>5. ASSUME NEW i \in DOMAIN ioq, p = ioq[i] PROVE p \in Packets /\ Sent(p)
    BY <1>1, <2>5 DEF Protocol, HostHolds, WithIo, Asked
  <2>6. ASSUME p = iopkt, p # NULL_INDEX PROVE p \in Packets /\ Sent(p)
    BY <1>1, <2>6 DEF Protocol, HostHolds, Answering
  <2> QED
    BY <2>1, <2>2, <2>3, <2>4, <2>5, <2>6 DEF InFlight
<1>4. ASSUME NEW p \in Packets, Sent(p) PROVE p \in InFlight
  <2>1. CASE Answering(p)
    BY <2>1, PacketIsNotNull DEF Answering, InFlight
  <2>2. CASE WithIo(p)
    BY <2>2 DEF WithIo, InFlight
  <2>3. CASE Queued(p)
    <3>1. CASE p \in ChainFrom(Hand)
      <4>1. Hand # NULL_INDEX
        <5>1. Linked({})
          BY DEF Linked
        <5>2. ChainFrom(NULL_INDEX) \subseteq {}
          BY <5>1, ChainInside
        <5> QED
          BY <3>1, <5>2
      <4> QED
        BY <3>1, <4>1 DEF Hand, InFlight
    <3>2. CASE \E s \in Shards : p \in ChainFrom(ready[s].idx)
      BY <3>2 DEF InFlight
    <3> QED
      BY <2>3, <3>1, <3>2, QueuedAreOnChains
  <2> QED
    BY <1>4, <2>1, <2>2, <2>3 DEF Queued, Asked
<1> QED
  BY <1>3, <1>4

LEMMA SentIsOutOfReach ==
  ASSUME HostcallTypeOK, Protocol, Ownership
  PROVE  InFlightNotFree /\ AwaitedIsInFlight
<1>1. InFlight = {p \in Packets : Sent(p)}
  BY InFlightIsSent
<1>2. InFlightNotFree
  BY <1>1, ControlFacts DEF InFlightNotFree, Sent, Protocol, FreeIsUnfilled
<1>3. AwaitedIsInFlight
  <2> SUFFICES ASSUME NEW t \in Callers, pc[t] \in {"ring", "wait"}, "READY" \notin control[pkt[t]]
               PROVE  pkt[t] \in Packets /\ Sent(pkt[t])
    BY <1>1 DEF AwaitedIsInFlight
  <2>1. pkt[t] \in Packets
    BY DEF HostcallTypeOK, StackWordsOK, OwnerLabels, CallLabels, Index
  <2>2. OwnerKnows(t, pkt[t])
    BY <2>1 DEF Protocol, OwnersKnow
  <2>3. "READY" \in READY /\ "READY" \in READY_ERROR
    BY DEF READY, READY_ERROR
  <2>4. control[pkt[t]] = FILLED
    BY <2>2, <2>3 DEF OwnerKnows, Fits
  <2>5. \A u \in Callers : pkt[u] = pkt[t] => pc[u] \in {"ring", "wait"}
    BY <2>1, PacketIsNotNull DEF Ownership, ExclusiveOwner
  <2> QED
    BY <2>1, <2>4, <2>5 DEF Sent
<1> QED
  BY <1>2, <1>3

(* For any number of callers, shards, packets, calls and kernels: in a     *)
(* behavior in which the tags do what they are for, what the host has or   *)
(* is to find is not free and has no owner but the caller that waits; and  *)
(* no push, swap or walk of a ready stack loses a packet that is awaited.  *)
THEOREM InFlightIsOwned == HostcallSpec /\ []NoABA => []InFlightOwnership
<1>1. HostcallTypeOK /\ Ownership /\ ProtocolInvariant => InFlightOwnership
  BY SentIsOutOfReach DEF ProtocolInvariant, InFlightOwnership
<1> QED
  BY <1>1, ProtocolHolds, OwnershipHolds, HostcallTypeCorrect, PTL

-----------------------------------------------------------------------------
(* The pool between two kernels.  Without time limits a packet is on its   *)
(* free stack or with a caller, at all times.                              *)

Accounted == program.limits = {} => \A p \in Packets :
  (\E s \in Shards : p \in avail[s]) \/ \E t \in Callers : pkt[t] = p

LEMMA FreshIsAccounted == avail = Share => Accounted
  BY EveryPacketHasAShard DEF Share, Accounted

LEMMA AccountedCallStep ==
  ASSUME HostcallTypeOK, Accounted, NEW t \in Callers, CallStep(t)
  PROVE  Accounted'
<1> SUFFICES ASSUME program.limits = {}, NEW p \in Packets
             PROVE  (\E s \in Shards : p \in avail'[s]) \/ \E u \in Callers : pkt'[u] = p
  BY CallStepFrame DEF Accounted
<1> DEFINE h == ShardOf[t]
<1>1. h \in Shards /\ NULL_INDEX \notin Packets /\ \A u \in Callers \ {t} : pkt'[u] = pkt[u]
  BY CallerAssumption, PacketIsNotNull, OthersUnmoved
<1>2. (\E s \in Shards : p \in avail[s]) \/ \E u \in Callers : pkt[u] = p
  BY DEF Accounted
<1>3. CASE UNCHANGED <<avail, pkt>>
  BY <1>2, <1>3
<1>4. CASE PopCas(t) /\ UNCHANGED hostcallVars
  <2>1. CASE free[h] # hd[t]
    BY <1>3, <1>4, <2>1 DEF PopCas
  <2>2. CASE free[h] = hd[t]
    <3>1. /\ avail' = [avail EXCEPT ![h] = @ \ {hd[t].idx}] /\ pkt'[t] = hd[t].idx
          /\ pkt[t] = NULL_INDEX
      BY <1>4, <2>2 DEF PopCas, HostcallTypeOK, StackWordsOK, OwnerLabels
    <3>2. \A s \in Shards : p \in avail[s] /\ p # hd[t].idx => p \in avail'[s]
      BY <3>1 DEF HostcallTypeOK, StackWordsOK
    <3> QED
      BY <1>1, <1>2, <3>1, <3>2
  <2> QED
    BY <2>1, <2>2
<1>5. CASE FreeCas(t) /\ UNCHANGED hostcallVars
  <2>1. CASE free[h] # hd[t]
    BY <1>3, <1>5, <2>1 DEF FreeCas
  <2>2. CASE free[h] = hd[t]
    <3>1. avail' = [avail EXCEPT ![h] = @ \union {pkt[t]}]
      BY <1>5, <2>2 DEF FreeCas
    <3>2. /\ \A s \in Shards : p \in avail[s] => p \in avail'[s]
          /\ p = pkt[t] => p \in avail'[h]
      BY <1>1, <3>1 DEF HostcallTypeOK, StackWordsOK
    <3> QED
      BY <1>1, <1>2, <3>2
  <2> QED
    BY <2>1, <2>2
<1>6. ~ LeavePacket(t)
  BY DEF LeavePacket
<1>7. CASE PoolStep(t) /\ UNCHANGED hostcallVars
  BY <1>3, <1>4, <1>5, <1>7 DEF PoolStep, PopLoad, PopNext, FreeLink
<1>8. CASE \/ BeginCall(t) \/ Refused(t) \/ PollAgain(t) \/ ClearControl(t) \/ Fill(t)
           \/ ReadyLink(t) \/ ReadyCas(t) \/ RingDoorbell(t) \/ TakeAnswer(t)
           \/ RequestTimeout(t) \/ LeaveUnsent(t)
  BY <1>3, <1>8
  DEF BeginCall, Refused, PollAgain, ClearControl, Fill, ReadyLink, ReadyCas, RingDoorbell,
      TakeAnswer, RequestTimeout, LeaveUnsent
<1> QED
  BY <1>6, <1>7, <1>8 DEF CallStep, Caller, StackStep, TimeLimit

LEMMA AccountedStep == HostcallTypeOK /\ Accounted /\ [HostcallNext]_vars => Accounted'
<1> SUFFICES ASSUME HostcallTypeOK, Accounted, [HostcallNext]_vars PROVE Accounted'
  OBVIOUS
<1>1. CASE HostStep \/ UNCHANGED vars
  <2>1. UNCHANGED <<avail, pkt, program>>
    BY <1>1, HostStepFrame DEF vars, stackVars, hostcallVars
  <2> QED
    BY <2>1 DEF Accounted
<1>2. CASE ReinitAndLaunch
  <2>1. (avail = Share => Accounted)'
    BY FreshIsAccounted, PTL
  <2> QED
    BY <1>2, <2>1 DEF ReinitAndLaunch, ReinitStacks
<1> QED
  BY <1>1, <1>2, AccountedCallStep, StepCases

LEMMA AccountedHolds == HostcallSpec => []Accounted
<1>1. HostcallInit => Accounted
  BY FreshIsAccounted DEF HostcallInit, StackInit
<1> QED
  BY <1>1, AccountedStep, HostcallTypeCorrect, PTL DEF HostcallSpec

(* What FreeStackProofs shows of the chains, in this module's words.       *)
Chained == StackHoldsAvail /\ \A s \in Shards : avail[s] \subseteq ShardPackets(s)

LEMMA ChainedHolds == HostcallSpec /\ []NoABA => []Chained
<1>1. NoABA => P!NoABA
  BY DEF NoABA, P!NoABA, PopSucceeds, P!PopSucceeds, StackPc, StackHd, StackLabels
<1>2. P!PoolInvariant /\ P!StackHoldsAvail => Chained
  BY DEF P!PoolInvariant, P!StackHoldsAvail, P!OnFreeStack, P!ChainFrom, P!Linked, P!NULL_INDEX,
         P!Shards, P!ShardPackets, P!Packets, Chained, StackHoldsAvail, OnFreeStack, ChainFrom,
         Linked, NULL_INDEX, Shards, ShardPackets, Packets
<1>3. P!StackSpec /\ []P!NoABA => []P!PoolInvariant /\ []P!StackHoldsAvail
  BY SameAssumptions, P!PoolInvariantHolds, P!NothingIsLost, PTL
<1> QED
  BY <1>1, <1>2, <1>3, HostcallUsesTheStack, SameStack, PTL DEF ImplementsStack

LEMMA QuietIsWhole ==
  ASSUME HostcallTypeOK, ProtocolInvariant, Accounted, Chained
  PROVE  QuietPoolIsWhole
<1> SUFFICES ASSUME program.limits = {}, \A t \in Callers : pc[t] = "idle"
             PROVE  InFlight = {} /\ \A s \in Shards : OnFreeStack(s) = ShardPackets(s)
  BY DEF QuietPoolIsWhole
<1>1. NULL_INDEX \notin Packets /\ \A t \in Callers : pkt[t] = NULL_INDEX
  BY PacketIsNotNull DEF HostcallTypeOK, StackWordsOK, OwnerLabels
<1>2. Protocol
  BY DEF ProtocolInvariant, Orderly
<1>3. InFlight = {}
  <2>1. \A p \in Packets : ~ Sent(p)
    BY <1>1, <1>2 DEF Protocol, SentIsOwned
  <2> QED
    BY <1>2, <2>1, InFlightIsSent
<1>4. ASSUME NEW s \in Shards PROVE OnFreeStack(s) = ShardPackets(s)
  <2>1. OnFreeStack(s) = avail[s] /\ avail[s] \subseteq ShardPackets(s)
    BY DEF Chained, StackHoldsAvail
  <2>2. ASSUME NEW p \in ShardPackets(s) PROVE p \in avail[s]
    <3>1. p \in Packets
      BY ShardBounds
    <3>2. PICK u \in Shards : p \in avail[u]
      BY <1>1, <3>1 DEF Accounted
    <3>3. p \in ShardPackets(u)
      BY <3>2 DEF Chained
    <3>4. s = u
      BY <3>3, ShardsApart
    <3> QED
      BY <3>2, <3>4
  <2> QED
    BY <2>1, <2>2
<1> QED
  BY <1>3, <1>4

(* In such a behavior a program without time limits leaves the pool whole: *)
(* when all callers have returned, each free stack leads to all packets of *)
(* its shard and the host has none, so that shutdown and reinit_packets    *)
(* have nothing to look for.                                               *)
THEOREM QuietPoolsAreWhole == HostcallSpec /\ []NoABA => []QuietPoolIsWhole
<1>1. HostcallTypeOK /\ ProtocolInvariant /\ Accounted /\ Chained => QuietPoolIsWhole
  BY QuietIsWhole
<1> QED
  BY <1>1, HostcallTypeCorrect, ProtocolHolds, AccountedHolds, ChainedHolds, PTL

(* With one caller per shard all this asks nothing of the tags: no stale   *)
(* head passes for the current one, at any tag width.                      *)
THEOREM SoleCallersNeedNoTags ==
  ASSUME SoleCallers
  PROVE  HostcallSpec => []NoABA
<1>1. P!SoleCallers
  BY SoleCallers DEF SoleCallers, P!SoleCallers
<1>2. P!StackSpec => []P!NoABA
  BY <1>1, SameAssumptions, P!SoleCallersAreSafe, PTL
<1>3. P!NoABA => NoABA
  BY DEF NoABA, P!NoABA, PopSucceeds, P!PopSucceeds, StackPc, StackHd, StackLabels
<1> QED
  BY <1>2, <1>3, HostcallUsesTheStack, SameStack, PTL DEF ImplementsStack

(* So each such caller finds its own answer, owns what it uses, and leaves *)
(* a whole pool.                                                           *)
THEOREM SoleCallersAreServedWell ==
  ASSUME SoleCallers
  PROVE  HostcallSpec => [](AnswersMatch /\ InFlightOwnership /\ QuietPoolIsWhole)
  BY SoleCallersNeedNoTags, AnswersAreMine, InFlightIsOwned, QuietPoolsAreWhole, PTL

-----------------------------------------------------------------------------
(* The record of the calls: the same steps, seen by who made the calls.    *)

LEMMA SentCalls ==
  ASSUME HostcallTypeOK, Record, NEW p \in Packets, Sent(p)
  PROVE  /\ payload[p].of \in Callers /\ payload[p].of # Nobody
         /\ payload[p].call \in 1 .. MaxCalls /\ payload[p].call <= calls[payload[p].of]
         /\ fate[payload[p].of] \in [1 .. MaxCalls -> Fates]
<1>1. payload[p].of \in Callers /\ payload[p].call \in 1 .. calls[payload[p].of]
  BY DEF Record, SentIsACall
<1>2. calls[payload[p].of] \in 0 .. MaxCalls /\ MaxCalls \in Nat /\ Nobody \notin Callers
  BY <1>1, HostcallAssumption DEF HostcallTypeOK, CallsOK
<1>3. fate[payload[p].of] \in [1 .. MaxCalls -> Fates]
  BY <1>1 DEF HostcallTypeOK, CallsOK
<1> QED
  BY <1>1, <1>2, <1>3

LEMMA RecordStays ==
  ASSUME Protocol, Record, NothingSent, UNCHANGED <<fate, calls>>,
         \A t \in Callers : pc'[t] \in Unsent => pc[t] \in Unsent,
         \A t \in Callers : outcome'[t] = "none" <=> pc'[t] \notin {"idle", "free_link", "free_cas"},
         \A t \in Callers : pc'[t] \in {"ring", "wait"} =>
           /\ pc[t] \in {"ring", "wait"} /\ pkt'[t] = pkt[t]
           /\ \A p \in Packets : pkt[t] = p => control'[p] = control[p] /\ payload'[p] = payload[p],
         lpc' = "reply" => UNCHANGED <<lpc, cur, lflags>>,
         UNCHANGED <<iopkt, ioflags>>
  PROVE  Record'
<1>1. CallsCounted' /\ UnsentIsPending'
  BY DEF Record, CallsCounted, UnsentIsPending
<1>2. SentIsInHand'
  BY DEF Record, SentIsInHand, NothingSent
<1>3. SentIsACall'
  BY DEF Record, SentIsACall, NothingSent, FateIs
<1>4. SentOnce'
  BY DEF Record, SentOnce, NothingSent
<1>5. ServedIsAnswered'
  <2>1. \A p \in Packets : Answering(p) => payload'[p] = payload[p]
    BY DEF Protocol, HostHolds, NothingSent
  <2>2. /\ \A p \in Packets : lpc' = "reply" /\ p = cur' => FateIs(p, AnswerOf(lflags))'
        /\ \A p \in Packets : p = iopkt' => FateIs(p, AnswerOf(ioflags))'
    BY <2>1 DEF Record, ServedIsAnswered, Answering, FateIs, AnswerOf
  <2>3. \A t \in Callers : \A p \in Packets :
          pkt'[t] = p /\ pc'[t] \in {"ring", "wait"} /\ control'[p] # FILLED =>
            FateIs(p, AnswerOf(control[p]))'
    BY DEF Record, ServedIsAnswered, FateIs, AnswerOf
  <2> QED
    BY <2>2, <2>3 DEF ServedIsAnswered
<1> QED
  BY <1>1, <1>2, <1>3, <1>4, <1>5 DEF Record

LEMMA CallerRecordStays ==
  ASSUME HostcallTypeOK, Protocol, Ownership, Record, NEW t \in Callers, CallStep(t),
         NothingSent, UNCHANGED <<fate, calls>>,
         \A p \in Packets : p # pkt[t] => control'[p] = control[p] /\ payload'[p] = payload[p],
         pc'[t] \in Unsent => pc[t] \in Unsent,
         pc'[t] \in {"ring", "wait"} =>
           pc[t] \in {"ring", "wait"} /\ UNCHANGED <<pkt, control, payload>>,
         outcome'[t] = "none" <=> pc'[t] \notin {"idle", "free_link", "free_cas"},
         \A u \in Callers : u # t => outcome'[u] = outcome[u]
  PROVE  Record'
<1>1. \A u \in Callers \ {t} : pc'[u] = pc[u] /\ pkt'[u] = pkt[u]
  BY OthersUnmoved
<1>2. \A u \in Callers \ {t} : \A p \in Packets : pkt[u] = p => p # pkt[t]
  BY PacketIsNotNull DEF Ownership, ExclusiveOwner
<1>3. \A u \in Callers : pc'[u] \in Unsent => pc[u] \in Unsent
  BY <1>1
<1>4. \A u \in Callers : outcome'[u] = "none" <=> pc'[u] \notin {"idle", "free_link", "free_cas"}
  BY <1>1 DEF Record, CallsCounted
<1>5. ASSUME NEW u \in Callers, pc'[u] \in {"ring", "wait"}
      PROVE  /\ pc[u] \in {"ring", "wait"} /\ pkt'[u] = pkt[u]
             /\ \A p \in Packets : pkt[u] = p => control'[p] = control[p] /\ payload'[p] = payload[p]
  <2>1. CASE u = t
    BY <1>5, <2>1
  <2>2. CASE u # t
    BY <1>1, <1>2, <1>5, <2>2
  <2> QED
    BY <2>1, <2>2
<1>6. UNCHANGED <<lpc, cur, lflags, iopkt, ioflags>>
  BY CallStepFrame
<1> QED
  BY <1>3, <1>4, <1>5, <1>6, RecordStays

LEMMA QuietRecord ==
  ASSUME HostcallTypeOK, Protocol, Ownership, Record, NEW t \in Callers,
         \/ PollAgain(t) \/ LeaveUnsent(t) \/ LeavePacket(t) \/ TakeAnswer(t) \/ RingDoorbell(t)
         \/ ClearControl(t) \/ Fill(t) \/ ReadyLink(t)
         \/ (PoolStep(t) /\ UNCHANGED hostcallVars)
         \/ (ReadyCas(t) /\ ready[ShardOf[t]] # hd[t])
  PROVE  Record'
<1>1. CallStep(t) /\ UNCHANGED <<fate, calls>>
  BY DEF CallStep, Caller, StackStep, TimeLimit, PollAgain, LeaveUnsent, LeavePacket, TakeAnswer,
         RingDoorbell, ClearControl, Fill, ReadyLink, ReadyCas, hostcallVars, callVars
<1>2. NothingSent
  BY UnownedStepKeeps, PopKeeps, PushKeeps, LinkKeeps, WriteKeeps, ReadyCasKeeps,
     AfterPushKeeps, LeavePacketKeeps
  DEF PoolStep
<1>3. \A p \in Packets : p # pkt[t] => control'[p] = control[p] /\ payload'[p] = payload[p]
  BY DEF PollAgain, LeaveUnsent, LeavePacket, TakeAnswer, RingDoorbell, ClearControl, Fill,
         ReadyLink, ReadyCas, hostcallVars, requestVars, HostcallTypeOK, RequestsOK
<1>4. pc \in [Callers -> CallLabels] /\ outcome \in [Callers -> Outcomes]
  BY DEF HostcallTypeOK, StackWordsOK, CallsOK
<1>5. outcome[t] = "none" <=> pc[t] \notin {"idle", "free_link", "free_cas"}
  BY DEF Record, CallsCounted
<1>6. CASE PoolStep(t) /\ UNCHANGED hostcallVars
  <2>1. /\ pc'[t] \in Unsent => pc[t] \in Unsent
        /\ pc'[t] \notin {"ring", "wait"} /\ UNCHANGED outcome
        /\ pc'[t] \in {"idle", "free_link", "free_cas"} <=> pc[t] \in {"idle", "free_link", "free_cas"}
    BY <1>4, <1>6 DEF PoolStep, PopLoad, PopNext, PopCas, FreeLink, FreeCas, Goto, Unsent,
                      hostcallVars, callVars
  <2> QED
    BY <1>1, <1>2, <1>3, <1>5, <2>1, CallerRecordStays
<1>7. CASE PollAgain(t) \/ ClearControl(t) \/ Fill(t) \/ ReadyLink(t)
           \/ (ReadyCas(t) /\ ready[ShardOf[t]] # hd[t])
  <2>1. /\ pc'[t] \in Unsent /\ pc[t] \in Unsent /\ UNCHANGED outcome
    BY <1>4, <1>7 DEF PollAgain, ClearControl, Fill, ReadyLink, ReadyCas, Goto, Unsent,
                      hostcallVars, callVars
  <2> QED
    BY <1>1, <1>2, <1>3, <1>5, <2>1, CallerRecordStays DEF Unsent
<1>8. CASE LeaveUnsent(t) \/ LeavePacket(t) \/ TakeAnswer(t)
  <2>1. /\ pc'[t] \in {"idle", "free_link"} /\ outcome'[t] # "none"
        /\ \A u \in Callers : u # t => outcome'[u] = outcome[u]
    BY <1>4, <1>8 DEF LeaveUnsent, LeavePacket, TakeAnswer, Goto
  <2> QED
    BY <1>1, <1>2, <1>3, <1>5, <2>1, CallerRecordStays DEF Unsent
<1>9. CASE RingDoorbell(t)
  <2>1. pc[t] = "ring" /\ pc'[t] = "wait" /\ UNCHANGED <<outcome, pkt, control, payload>>
    BY <1>4, <1>9 DEF RingDoorbell, Goto, callVars
  <2> QED
    BY <1>1, <1>2, <1>3, <1>5, <2>1, CallerRecordStays DEF Unsent
<1> QED
  BY <1>6, <1>7, <1>8, <1>9

LEMMA BeginRecord ==
  ASSUME HostcallTypeOK, Protocol, Ownership, Record, NEW t \in Callers, BeginCall(t)
  PROVE  Record'
<1> DEFINE n == calls[t] + 1
<1>1. CallStep(t) /\ NothingSent
  BY UnownedStepKeeps DEF CallStep
<1>2. /\ UNCHANGED <<pkt, control, payload, lpc, cur, lflags, iopkt, ioflags>>
      /\ pc[t] = "idle" /\ calls[t] < MaxCalls
      /\ calls' = [calls EXCEPT ![t] = n] /\ outcome' = [outcome EXCEPT ![t] = "none"]
      /\ fate' = [fate EXCEPT ![t][n] = "pending"]
  BY DEF BeginCall, requestVars, listenerVars, ioVars
<1>3. /\ calls \in [Callers -> 0 .. MaxCalls] /\ MaxCalls \in Nat
      /\ fate \in [Callers -> [1 .. MaxCalls -> Fates]] /\ outcome \in [Callers -> Outcomes]
      /\ pc \in [Callers -> CallLabels]
  BY HostcallAssumption DEF HostcallTypeOK, CallsOK, StackWordsOK
<1>4. n \in 1 .. MaxCalls /\ calls[t] \in Nat
  BY <1>2, <1>3
<1>5. /\ pc'[t] = "pop_load" /\ calls'[t] = n /\ fate'[t][n] = "pending" /\ outcome'[t] = "none"
      /\ \A m \in 1 .. MaxCalls : m # n => fate'[t][m] = fate[t][m]
      /\ \A u \in Callers : u # t => /\ pc'[u] = pc[u] /\ calls'[u] = calls[u]
                                     /\ fate'[u] = fate[u] /\ outcome'[u] = outcome[u]
  BY <1>2, <1>3, <1>4 DEF BeginCall, Goto
<1>6. CallsCounted'
  <2>1. \A m \in 1 .. MaxCalls : fate'[t][m] = "new" <=> m > n
    <3> TAKE m \in 1 .. MaxCalls
    <3>1. fate[t][m] = "new" <=> m > calls[t]
      BY DEF Record, CallsCounted
    <3>2. m \in Nat /\ (m > n <=> m > calls[t] /\ m # n)
      BY <1>3, <1>4
    <3> QED
      BY <1>5, <3>1, <3>2
  <2>2. outcome'[t] = "none" /\ pc'[t] \notin {"idle", "free_link", "free_cas"}
    BY <1>5
  <2>3. ASSUME NEW u \in Callers, u # t
        PROVE  (/\ \A m \in 1 .. MaxCalls : fate[u][m] = "new" <=> m > calls[u]
                /\ outcome[u] = "none" <=> pc[u] \notin {"idle", "free_link", "free_cas"})'
    BY <1>5, <2>3 DEF Record, CallsCounted
  <2> QED
    BY <1>5, <2>1, <2>2, <2>3 DEF CallsCounted
<1>7. UnsentIsPending'
  BY <1>5 DEF Record, UnsentIsPending
<1>8. ASSUME NEW p \in Packets, Sent(p)
      PROVE  /\ payload[p].of \in Callers /\ payload[p].call \in 1 .. MaxCalls
             /\ payload[p].of = t => payload[p].call # n /\ payload[p].call \in 1 .. n
             /\ fate'[payload[p].of][payload[p].call] = fate[payload[p].of][payload[p].call]
  <2>1. /\ payload[p].of \in Callers /\ payload[p].call \in 1 .. MaxCalls
        /\ payload[p].call <= calls[payload[p].of]
    BY <1>8, SentCalls
  <2>2. payload[p].of = t => payload[p].call # n /\ payload[p].call \in 1 .. n
    BY <1>3, <1>4, <2>1
  <2> QED
    BY <1>5, <2>1, <2>2
<1>9. SentIsInHand'
  <2>1. \A p \in Packets : Sent(p)' => Sent(p)
    BY <1>1 DEF NothingSent
  <2> QED
    BY <1>2, <1>5, <1>8, <2>1 DEF Record, SentIsInHand
<1>10. SentIsACall'
  <2>1. ASSUME NEW p \in Packets, Sent(p)
        PROVE  /\ payload[p].of \in Callers /\ payload[p].call \in 1 .. calls'[payload[p].of]
               /\ Asked(p) => FateIs(p, "pending")'
    BY <1>2, <1>5, <1>8, <2>1 DEF Record, SentIsACall, FateIs
  <2> QED
    BY <1>1, <1>2, <2>1 DEF SentIsACall, NothingSent
<1>11. SentOnce'
  BY <1>1 DEF Record, SentOnce, NothingSent
<1>12. ServedIsAnswered'
  <2>1. \A p \in Packets : Answering(p) => Sent(p)
    BY DEF Protocol, HostHolds
  <2>2. /\ \A p \in Packets : lpc' = "reply" /\ p = cur' => FateIs(p, AnswerOf(lflags))'
        /\ \A p \in Packets : p = iopkt' => FateIs(p, AnswerOf(ioflags))'
    BY <1>2, <1>8, <2>1 DEF Record, ServedIsAnswered, Answering, FateIs, AnswerOf
  <2>3. ASSUME NEW u \in Callers, NEW p \in Packets, pkt'[u] = p, pc'[u] \in {"ring", "wait"},
               control'[p] # FILLED
        PROVE  FateIs(p, AnswerOf(control[p]))'
    <3>1. u # t /\ pkt[u] = p /\ pc[u] \in {"ring", "wait"} /\ control[p] # FILLED
      BY <1>2, <1>5, <2>3
    <3>2. payload[p].of = u
      BY <3>1 DEF Protocol, OwnersKnow, OwnerKnows, Mine
    <3> QED
      BY <1>2, <1>5, <3>1, <3>2 DEF Record, ServedIsAnswered, FateIs, AnswerOf
  <2> QED
    BY <2>2, <2>3 DEF ServedIsAnswered
<1> QED
  BY <1>6, <1>7, <1>9, <1>10, <1>11, <1>12 DEF Record

LEMMA RefusedRecord ==
  ASSUME HostcallTypeOK, Protocol, Ownership, Record, NEW t \in Callers, Refused(t)
  PROVE  Record'
<1> DEFINE n == calls[t]
<1>1. CallStep(t) /\ NothingSent
  BY UnownedStepKeeps DEF CallStep, Caller
<1>2. /\ UNCHANGED <<pkt, control, payload, calls, lpc, cur, lflags, iopkt, ioflags>>
      /\ pc[t] = "exhausted" /\ outcome' = [outcome EXCEPT ![t] = "exhausted"]
      /\ fate' = [fate EXCEPT ![t][n] = "refused"]
  BY DEF Refused, requestVars, listenerVars, ioVars
<1>3. /\ calls \in [Callers -> 0 .. MaxCalls] /\ MaxCalls \in Nat /\ calls[t] # 0
      /\ fate \in [Callers -> [1 .. MaxCalls -> Fates]] /\ outcome \in [Callers -> Outcomes]
      /\ pc \in [Callers -> CallLabels]
  BY <1>2, HostcallAssumption DEF HostcallTypeOK, CallsOK, StackWordsOK
<1>4. n \in 1 .. MaxCalls
  BY <1>3
<1>5. /\ pc'[t] = "idle" /\ fate'[t][n] = "refused" /\ outcome'[t] = "exhausted"
      /\ \A m \in 1 .. MaxCalls : m # n => fate'[t][m] = fate[t][m]
      /\ \A u \in Callers : u # t => /\ pc'[u] = pc[u] /\ fate'[u] = fate[u]
                                     /\ outcome'[u] = outcome[u]
  BY <1>2, <1>3, <1>4 DEF Refused, Goto
<1>6. CallsCounted'
  <2>1. fate[t][n] # "new"
    BY <1>2, <1>4 DEF Record, UnsentIsPending, Unsent
  <2>2. \A m \in 1 .. MaxCalls : fate'[t][m] = "new" <=> m > n
    BY <1>4, <1>5, <2>1 DEF Record, CallsCounted
  <2>3. ASSUME NEW u \in Callers, u # t
        PROVE  (/\ \A m \in 1 .. MaxCalls : fate[u][m] = "new" <=> m > calls[u]
                /\ outcome[u] = "none" <=> pc[u] \notin {"idle", "free_link", "free_cas"})'
    BY <1>2, <1>5, <2>3 DEF Record, CallsCounted
  <2> QED
    BY <1>2, <1>5, <2>2, <2>3 DEF CallsCounted
<1>7. UnsentIsPending'
  BY <1>2, <1>5 DEF Record, UnsentIsPending, Unsent
<1>8. ASSUME NEW p \in Packets, Sent(p)
      PROVE  fate'[payload[p].of][payload[p].call] = fate[payload[p].of][payload[p].call]
  <2>1. payload[p].of \in Callers /\ payload[p].call \in 1 .. MaxCalls
    BY <1>8, SentCalls
  <2>2. payload[p].of = t => payload[p].call # n
    BY <1>2, <1>8 DEF Record, SentIsInHand, Unsent
  <2> QED
    BY <1>5, <2>1, <2>2
<1>9. SentIsInHand' /\ SentOnce'
  BY <1>1, <1>2, <1>5 DEF Record, SentIsInHand, SentOnce, NothingSent, Unsent
<1>10. SentIsACall'
  BY <1>1, <1>2, <1>8 DEF Record, SentIsACall, NothingSent, FateIs
<1>11. ServedIsAnswered'
  <2>1. \A p \in Packets : Answering(p) => Sent(p)
    BY DEF Protocol, HostHolds
  <2>2. /\ \A p \in Packets : lpc' = "reply" /\ p = cur' => FateIs(p, AnswerOf(lflags))'
        /\ \A p \in Packets : p = iopkt' => FateIs(p, AnswerOf(ioflags))'
    BY <1>2, <1>8, <2>1 DEF Record, ServedIsAnswered, Answering, FateIs, AnswerOf
  <2>3. ASSUME NEW u \in Callers, NEW p \in Packets, pkt'[u] = p, pc'[u] \in {"ring", "wait"},
               control'[p] # FILLED
        PROVE  FateIs(p, AnswerOf(control[p]))'
    <3>1. u # t /\ pkt[u] = p /\ pc[u] \in {"ring", "wait"} /\ control[p] # FILLED
      BY <1>2, <1>5, <2>3
    <3>2. payload[p].of = u
      BY <3>1 DEF Protocol, OwnersKnow, OwnerKnows, Mine
    <3> QED
      BY <1>2, <1>5, <3>1, <3>2 DEF Record, ServedIsAnswered, FateIs, AnswerOf
  <2> QED
    BY <2>2, <2>3 DEF ServedIsAnswered
<1> QED
  BY <1>6, <1>7, <1>9, <1>10, <1>11 DEF Record

LEMMA ReadyRecord ==
  ASSUME HostcallTypeOK, Protocol, Ownership, Record, NEW t \in Callers,
         ReadyCas(t), ready[ShardOf[t]] = hd[t]
  PROVE  Record'
<1>1. /\ CallStep(t) /\ pc[t] = "ready_cas" /\ pc[t] \in OwnerLabels
      /\ UNCHANGED <<pkt, control, payload, calls, fate, outcome>>
  BY DEF CallStep, Caller, ReadyCas, callVars, OwnerLabels, CallLabels
<1>2. PICK h \in Packets : h = pkt[t]
  BY <1>1, OwnerFacts
<1>3. SentNow(h)
  BY <1>2, ReadyCasKeeps
<1>4. pc'[t] = "ring" /\ \A u \in Callers : u # t => pc'[u] = pc[u]
  BY <1>1, OthersUnmoved DEF ReadyCas, Goto, HostcallTypeOK, StackWordsOK
<1>5. payload[h].of = t /\ payload[h].call = calls[t] /\ control[h] = FILLED
  BY <1>1, <1>2 DEF Protocol, OwnersKnow, OwnerKnows, Mine
<1>6. calls[t] \in 1 .. calls[t] /\ fate[t][calls[t]] = "pending"
  <2>1. calls[t] \in 0 .. MaxCalls /\ calls[t] # 0 /\ MaxCalls \in Nat
    BY <1>1, HostcallAssumption DEF HostcallTypeOK, CallsOK
  <2>2. fate[t][calls[t]] = "pending"
    BY <1>1 DEF Record, UnsentIsPending, Unsent
  <2> QED
    BY <2>1, <2>2
<1>7. \A p \in Packets : Sent(p) => ~ (payload[p].of = t /\ payload[p].call = calls[t])
  BY <1>1 DEF Record, SentIsInHand, Unsent
<1>8. CallsCounted' /\ UnsentIsPending'
  BY <1>1, <1>4 DEF Record, CallsCounted, UnsentIsPending, Unsent
<1>9. SentIsInHand'
  BY <1>1, <1>2, <1>3, <1>4, <1>5, <1>7 DEF Record, SentIsInHand, SentNow, Unsent
<1>10. SentIsACall'
  BY <1>1, <1>3, <1>5, <1>6 DEF Record, SentIsACall, SentNow, FateIs
<1>11. SentOnce'
  BY <1>1, <1>3, <1>5, <1>7 DEF Record, SentOnce, SentNow
<1>12. ServedIsAnswered'
  <2>1. UNCHANGED <<lpc, cur, lflags, iopkt, ioflags>>
    BY <1>1, CallStepFrame
  <2>2. \A u \in Callers : \A p \in Packets :
          pkt'[u] = p /\ pc'[u] \in {"ring", "wait"} /\ control'[p] # FILLED =>
            FateIs(p, AnswerOf(control[p]))'
    BY <1>1, <1>2, <1>4, <1>5 DEF Record, ServedIsAnswered, FateIs, AnswerOf
  <2>3. /\ \A p \in Packets : lpc' = "reply" /\ p = cur' => FateIs(p, AnswerOf(lflags))'
        /\ \A p \in Packets : p = iopkt' => FateIs(p, AnswerOf(ioflags))'
    BY <1>1, <2>1 DEF Record, ServedIsAnswered, FateIs, AnswerOf
  <2> QED
    BY <2>2, <2>3 DEF ServedIsAnswered
<1> QED
  BY <1>8, <1>9, <1>10, <1>11, <1>12 DEF Record

(* The service of a request: the call it is of was pending, and has now    *)
(* been served; no other request is of that call.                          *)
LEMMA ServedRecord ==
  ASSUME HostcallTypeOK, Protocol, Record, NEW h \in Packets, NEW answer \in {"ok", "err"},
         ServedNow(h), Serve(h, answer), UNCHANGED <<pc, pkt, control, calls, outcome>>,
         \A p \in Packets : lpc' = "reply" /\ p = cur' =>
           \/ p = h /\ AnswerOf(lflags') = answer
           \/ p # h /\ lpc = "reply" /\ p = cur /\ lflags' = lflags,
         \A p \in Packets : p = iopkt' =>
           \/ p = h /\ AnswerOf(ioflags') = answer
           \/ p # h /\ p = iopkt /\ ioflags' = ioflags
  PROVE  Record'
<1> DEFINE t == payload[h].of
           n == payload[h].call
<1>1. Sent(h) /\ Asked(h) /\ control[h] = FILLED
  BY DEF ServedNow, Asked, Sent
<1>2. /\ t \in Callers /\ t # Nobody /\ n \in 1 .. MaxCalls /\ n <= calls[t]
      /\ fate[t] \in [1 .. MaxCalls -> Fates]
  BY <1>1, SentCalls
<1>3. fate[t][n] = "pending"
  BY <1>1 DEF Record, SentIsACall, FateIs
<1>4. fate \in [Callers -> [1 .. MaxCalls -> Fates]]
  BY DEF HostcallTypeOK, CallsOK
<1>5. fate' = [fate EXCEPT ![t][n] = answer]
  BY <1>2, <1>3, <1>4 DEF Serve
<1>6. /\ fate'[t][n] = answer
      /\ \A m \in 1 .. MaxCalls : m # n => fate'[t][m] = fate[t][m]
      /\ \A u \in Callers : u # t => fate'[u] = fate[u]
  BY <1>2, <1>4, <1>5
<1> HIDE DEF t, n
<1>7. ASSUME NEW u \in Callers, NEW m \in 1 .. MaxCalls, u # t \/ m # n
      PROVE  fate'[u][m] = fate[u][m]
  BY <1>6, <1>7
<1>8. CallsCounted'
  <2>1. ASSUME NEW u \in Callers, NEW m \in 1 .. MaxCalls
        PROVE  fate'[u][m] = "new" <=> fate[u][m] = "new"
    <3>1. CASE u = t /\ m = n
      BY <1>3, <1>6, <3>1
    <3>2. CASE u # t \/ m # n
      BY <1>7, <3>2
    <3> QED
      BY <3>1, <3>2
  <2> QED
    BY <2>1 DEF Record, CallsCounted
<1>9. UnsentIsPending'
  <2> SUFFICES ASSUME NEW u \in Callers, pc[u] \in Unsent PROVE fate'[u][calls[u]] = "pending"
    BY DEF UnsentIsPending
  <2>1. u # t \/ calls[u] # n
    BY <1>1 DEF Record, SentIsInHand, t, n
  <2>2. calls[u] \in 1 .. MaxCalls
    BY HostcallAssumption DEF HostcallTypeOK, CallsOK, Unsent
  <2> QED
    BY <1>7, <2>1, <2>2 DEF Record, UnsentIsPending
<1>10. SentIsInHand' /\ SentOnce'
  BY DEF Record, SentIsInHand, SentOnce, ServedNow
<1>11. ASSUME NEW p \in Packets, Sent(p), p # h
       PROVE  /\ payload'[p].of \in Callers
              /\ fate'[payload'[p].of][payload'[p].call] = fate[payload[p].of][payload[p].call]
  <2>1. payload[p].of \in Callers /\ payload[p].call \in 1 .. MaxCalls
    BY <1>11, SentCalls
  <2>2. payload[p].of # t \/ payload[p].call # n
    BY <1>1, <1>11 DEF Record, SentOnce, t, n
  <2>3. payload'[p].of = payload[p].of /\ payload'[p].call = payload[p].call
    BY DEF ServedNow
  <2> QED
    BY <1>7, <2>1, <2>2, <2>3
<1>12. SentIsACall'
  BY <1>11 DEF Record, SentIsACall, ServedNow, FateIs
<1>13. fate'[payload'[h].of][payload'[h].call] = answer
  BY <1>6 DEF ServedNow, t, n
<1>14. ServedIsAnswered'
  <2>1. \A p \in Packets : Answering(p) => Sent(p)
    BY DEF Protocol, HostHolds
  <2>2. \A p \in Packets : lpc' = "reply" /\ p = cur' => FateIs(p, AnswerOf(lflags))'
    BY <1>11, <1>13, <2>1 DEF Record, ServedIsAnswered, Answering, FateIs, AnswerOf
  <2>3. \A p \in Packets : p = iopkt' => FateIs(p, AnswerOf(ioflags))'
    BY <1>11, <1>13, <2>1 DEF Record, ServedIsAnswered, Answering, FateIs, AnswerOf
  <2>4. ASSUME NEW u \in Callers, NEW p \in Packets, pkt[u] = p, pc[u] \in {"ring", "wait"},
               control[p] # FILLED
        PROVE  FateIs(p, AnswerOf(control[p]))'
    <3>1. payload[p].of = u /\ payload[p].call = calls[u]
      BY <2>4 DEF Protocol, OwnersKnow, OwnerKnows, Mine
    <3>2. u # t \/ calls[u] # n
      BY <1>1, <2>4 DEF Record, SentIsInHand, t, n
    <3>3. calls[u] \in 1 .. MaxCalls
      BY <2>4, HostcallAssumption DEF HostcallTypeOK, CallsOK
    <3>4. fate'[u][calls[u]] = fate[u][calls[u]]
      BY <1>7, <3>2, <3>3
    <3>5. payload'[p].of = u /\ payload'[p].call = calls[u]
      BY <3>1 DEF ServedNow
    <3> QED
      BY <2>4, <3>1, <3>4, <3>5 DEF Record, ServedIsAnswered, FateIs, AnswerOf
  <2> QED
    BY <2>2, <2>3, <2>4 DEF ServedIsAnswered
<1> QED
  BY <1>8, <1>9, <1>10, <1>12, <1>14 DEF Record

(* The store of the flags: the answer goes from the host to the packet.    *)
LEMMA AnsweredRecord ==
  ASSUME HostcallTypeOK, Protocol, Record, NEW h \in Packets, NEW flags,
         FateIs(h, AnswerOf(flags)), AnsweredNow(h),
         control' = [control EXCEPT ![h] = flags],
         UNCHANGED <<pc, pkt, payload, calls, outcome, fate>>,
         lpc' = "reply" => UNCHANGED <<lpc, cur, lflags>>,
         \A p \in Packets : p = iopkt' => p = iopkt /\ ioflags' = ioflags
  PROVE  Record'
<1>1. /\ control \in [Packets -> {{}, FILLED, READY, READY_ERROR}]
      /\ control'[h] = flags /\ \A p \in Packets : p # h => control'[p] = control[p]
  BY DEF HostcallTypeOK, RequestsOK
<1>2. CallsCounted' /\ UnsentIsPending'
  BY DEF Record, CallsCounted, UnsentIsPending
<1>3. SentIsInHand' /\ SentOnce'
  BY DEF Record, SentIsInHand, SentOnce, AnsweredNow
<1>4. SentIsACall'
  BY DEF Record, SentIsACall, AnsweredNow, FateIs
<1>5. ServedIsAnswered'
  <2>1. \A p \in Packets : lpc' = "reply" /\ p = cur' => FateIs(p, AnswerOf(lflags))'
    BY DEF Record, ServedIsAnswered, FateIs, AnswerOf
  <2>2. \A p \in Packets : p = iopkt' => FateIs(p, AnswerOf(ioflags))'
    BY DEF Record, ServedIsAnswered, FateIs, AnswerOf
  <2>3. \A u \in Callers : \A p \in Packets :
          pkt'[u] = p /\ pc'[u] \in {"ring", "wait"} /\ control'[p] # FILLED =>
            FateIs(p, AnswerOf(control[p]))'
    BY <1>1 DEF Record, ServedIsAnswered, FateIs, AnswerOf
  <2> QED
    BY <2>1, <2>2, <2>3 DEF ServedIsAnswered
<1> QED
  BY <1>2, <1>3, <1>4, <1>5 DEF Record

LEMMA AnswersReported ==
  ASSUME NEW answer \in {"ok", "err"}
  PROVE  AnswerOf(FlagsFor(answer)) = answer /\ AnswerOf(READY_ERROR) = "err"
  BY ControlFacts DEF AnswerOf, FlagsFor

LEMMA VisitRecord ==
  ASSUME HostcallTypeOK, Protocol, Record, VisitInline \/ VisitUnknown
  PROVE  Record'
<1>1. PICK h \in Packets : h = cur
  BY VisitFacts DEF VisitInline, VisitUnknown
<1>2. ServedNow(h)
  BY <1>1, VisitInlineKeeps DEF ServedNow
<1>3. /\ UNCHANGED <<pc, pkt, control, calls, outcome, cur, iopkt, ioflags>>
      /\ lpc = "visit" /\ lpc' = "reply"
  BY DEF VisitInline, VisitUnknown, stackVars, callVars, ioVars, requestVars
<1>4. PICK answer \in {"ok", "err"} : Serve(h, answer) /\ AnswerOf(lflags') = answer
  <2>1. CASE VisitUnknown
    <3>1. Serve(h, "err") /\ lflags' = READY_ERROR
      BY <1>1, <2>1 DEF VisitUnknown, Serve
    <3> QED
      BY <3>1, AnswersReported
  <2>2. CASE VisitInline
    <3>1. PICK answer \in AnswersOf(payload[h].service) :
                 Handle(h, answer) /\ lflags' = FlagsFor(answer)
      BY <1>1, <2>2 DEF VisitInline, Handle, Serve
    <3>2. answer \in {"ok", "err"}
      BY <3>1 DEF AnswersOf
    <3>3. AnswerOf(lflags') = answer
      BY <3>1, <3>2, AnswersReported
    <3> QED
      BY <3>1, <3>2, <3>3 DEF Handle
  <2> QED
    BY <2>1, <2>2
<1>5. h # iopkt
  BY <1>2 DEF ServedNow, Asked, Answering
<1> QED
  BY <1>1, <1>2, <1>3, <1>4, <1>5, ServedRecord

LEMMA IoServeRecord == ASSUME HostcallTypeOK, Protocol, Record, IoServe PROVE Record'
<1>1. PICK h \in Packets : h = Head(ioq)
  <2>1. Head(ioq) \in Packets
    BY HeadTailProperties DEF IoServe, HostcallTypeOK, HostOK
  <2> QED
    BY <2>1
<1>2. ServedNow(h)
  BY <1>1, IoServeKeeps DEF ServedNow
<1>3. /\ UNCHANGED <<pc, pkt, control, calls, outcome, lpc, cur, lflags>>
      /\ iopkt' = h
  BY <1>1 DEF IoServe, stackVars, callVars, listenerVars
<1>4. PICK answer \in {"ok", "err"} : Serve(h, answer) /\ AnswerOf(ioflags') = answer
  <2>1. PICK answer \in AnswersOf("OPEN") : Handle(h, answer) /\ ioflags' = FlagsFor(answer)
    BY <1>1 DEF IoServe, Handle, Serve
  <2>2. answer \in {"ok", "err"}
    BY <2>1 DEF AnswersOf
  <2> QED
    BY <2>1, <2>2, AnswersReported DEF Handle
<1>5. ~ (lpc = "reply" /\ h = cur)
  BY <1>2 DEF ServedNow, Asked, Answering
<1> QED
  BY <1>2, <1>3, <1>4, <1>5, ServedRecord

LEMMA ReplyRecord == ASSUME HostcallTypeOK, Protocol, Record, Reply PROVE Record'
<1>1. PICK h \in Packets : h = cur
  BY DEF Reply, HostcallTypeOK, ListenerOK, Index
<1>2. AnsweredNow(h)
  BY <1>1, ReplyKeeps DEF AnsweredNow
<1>3. /\ control' = [control EXCEPT ![h] = lflags] /\ lpc = "reply" /\ lpc' # "reply"
      /\ UNCHANGED <<pc, pkt, payload, calls, outcome, fate, iopkt, ioflags>>
  BY <1>1, HandAfterGoTo DEF Reply, stackVars, callVars, ioVars
<1>4. FateIs(h, AnswerOf(lflags))
  BY <1>1, <1>3 DEF Record, ServedIsAnswered
<1> QED
  BY <1>2, <1>3, <1>4, AnsweredRecord

LEMMA IoReplyRecord == ASSUME HostcallTypeOK, Protocol, Record, IoReply PROVE Record'
<1>1. PICK h \in Packets : h = iopkt
  BY DEF IoReply, HostcallTypeOK, HostOK, Index
<1>2. AnsweredNow(h)
  BY <1>1, IoReplyKeeps DEF AnsweredNow
<1>3. /\ control' = [control EXCEPT ![h] = ioflags] /\ iopkt' = NULL_INDEX
      /\ UNCHANGED <<pc, pkt, payload, calls, outcome, fate, lpc, cur, lflags>>
  BY <1>1 DEF IoReply, stackVars, callVars, listenerVars
<1>4. FateIs(h, AnswerOf(ioflags))
  BY <1>1 DEF Record, ServedIsAnswered
<1> QED
  BY <1>2, <1>3, <1>4, PacketIsNotNull, AnsweredRecord

LEMMA HostQuietRecord ==
  ASSUME HostcallTypeOK, Protocol, Record,
         \/ ListenerLook \/ ListenerWake \/ ListenerSpin \/ ListenerExit \/ Swap
                        \/ VisitBlocking \/ Host
         \/ UNCHANGED vars
  PROVE  Record'
<1>1. NothingSent
  BY HostIdles, SwapKeeps, VisitBlockingKeeps
<1>2. UNCHANGED <<pc, pkt, control, payload, calls, outcome, fate, iopkt, ioflags>>
  BY DEF ListenerLook, ListenerWake, ListenerSpin, ListenerExit, Swap, VisitBlocking, Host,
         Synchronize, SignalShutdown, DropSession, vars, stackVars, hostcallVars, requestVars,
         callVars, ioVars
<1>3. lpc' = "reply" => UNCHANGED <<lpc, cur, lflags>>
  BY HandAfterGoTo
  DEF ListenerLook, ListenerWake, ListenerSpin, ListenerExit, Swap, VisitBlocking, Host,
      Synchronize, SignalShutdown, DropSession, vars, hostcallVars, listenerVars
<1>4. \A t \in Callers : outcome'[t] = "none" <=> pc'[t] \notin {"idle", "free_link", "free_cas"}
  BY <1>2 DEF Record, CallsCounted
<1> QED
  BY <1>1, <1>2, <1>3, <1>4, RecordStays

LEMMA ReinitRecord ==
  ASSUME HostcallTypeOK, Protocol, Record, program.limits = {}, ReinitAndLaunch
  PROVE  Record'
<1>1. \A p \in Packets : ~ Sent(p)' /\ ~ Answering(p)'
  BY ReinitKeeps
<1>2. /\ \A t \in Callers : pc[t] = "idle" /\ pc'[t] = "idle"
      /\ UNCHANGED <<calls, outcome, fate>>
  BY DEF ReinitAndLaunch, ReinitStacks, callVars
<1>3. CallsCounted' /\ UnsentIsPending'
  BY <1>2 DEF Record, CallsCounted, UnsentIsPending, Unsent
<1>4. SentIsInHand' /\ SentIsACall' /\ SentOnce'
  BY <1>1 DEF SentIsInHand, SentIsACall, SentOnce
<1>5. ServedIsAnswered'
  BY <1>1, <1>2 DEF ServedIsAnswered, Answering
<1> QED
  BY <1>3, <1>4, <1>5 DEF Record

LEMMA RecordInit == HostcallInit => Record
<1> SUFFICES ASSUME HostcallInit PROVE Record
  OBVIOUS
<1>1. /\ \A p \in Packets : control[p] = {}
      /\ \A t \in Callers : /\ pc[t] = "idle" /\ calls[t] = 0 /\ outcome[t] = "idle"
                            /\ \A n \in 1 .. MaxCalls : fate[t][n] = "new"
      /\ lpc = "poll" /\ iopkt = NULL_INDEX
  BY DEF HostcallInit, StackInit
<1>2. \A p \in Packets : ~ Sent(p) /\ p # iopkt
  BY <1>1, PacketIsNotNull, ControlFacts DEF Sent
<1>3. CallsCounted
  <2>1. \A n \in 1 .. MaxCalls : n > 0
    BY HostcallAssumption
  <2> QED
    BY <1>1, <2>1 DEF CallsCounted
<1>4. UnsentIsPending /\ SentIsInHand /\ SentIsACall /\ SentOnce /\ ServedIsAnswered
  BY <1>1, <1>2
  DEF UnsentIsPending, Unsent, SentIsInHand, SentIsACall, SentOnce, ServedIsAnswered
<1> QED
  BY <1>3, <1>4 DEF Record

LEMMA HostKeepsRecord ==
  ASSUME HostcallTypeOK, Protocol, Record, HostStep
  PROVE  Record'
<1>1. ~ VisitUnfilled
  BY VisitFacts, ControlFacts DEF VisitUnfilled
<1> QED
  BY <1>1, VisitRecord, IoServeRecord, ReplyRecord, IoReplyRecord, HostQuietRecord
  DEF HostStep, Listener, IoThread

LEMMA CallKeepsRecord ==
  ASSUME HostcallTypeOK, Protocol, Ownership, Record, Orderly, NEW t \in Callers, CallStep(t)
  PROVE  Record'
<1>1. ~ RequestTimeout(t)
  BY DEF RequestTimeout, Orderly
<1>2. CASE ReadyCas(t)
  BY <1>2, ReadyRecord, QuietRecord
<1> QED
  BY <1>1, <1>2, BeginRecord, RefusedRecord, QuietRecord DEF CallStep, Caller, StackStep, TimeLimit

LEMMA RecordStep ==
  ASSUME HostcallTypeOK, Ownership, ProtocolInvariant, Orderly => Record, [HostcallNext]_vars
  PROVE  Orderly' => Record'
<1> SUFFICES ASSUME Orderly' PROVE Record'
  OBVIOUS
<1>1. Orderly /\ Protocol /\ Record /\ (ReinitAndLaunch => program.limits = {})
  BY OrderlyBefore DEF ProtocolInvariant
<1> QED
  BY <1>1, StepCases, CallKeepsRecord, HostKeepsRecord, ReinitRecord, HostQuietRecord

(* gpu_hostcall_print has no service but SERVICE_PRINT, which cannot fail. *)
PrintsPrint == \A pr \in Scenarios : \A r \in pr.roles : r.kind = "print" => r.service = "PRINT"

LEMMA RecordInvariantStep ==
  ASSUME PrintsPrint, HostcallTypeOK, Ownership, ProtocolInvariant, RecordInvariant,
         [HostcallNext]_vars
  PROVE  RecordInvariant'
<1>1. program' = program
  BY OrderlyBefore DEF ProtocolInvariant
<1>2. Orderly' => Record'
  BY RecordStep DEF RecordInvariant
<1>3. ASSUME NEW t \in Callers
      PROVE  role'[t].kind = "print" => role'[t].service = "PRINT"
  <2>1. CASE \E u \in Callers : BeginCall(u)
    <3>1. PICK u \in Callers, r \in program.roles : role' = [role EXCEPT ![u] = r]
      BY <2>1 DEF BeginCall
    <3>2. role \in [Callers -> Roles \union {NoRole}]
      BY DEF HostcallTypeOK, CallsOK
    <3>3. role'[t] = r \/ role'[t] = role[t]
      BY <3>1, <3>2
    <3>4. r.kind = "print" => r.service = "PRINT"
      BY PrintsPrint, <3>1 DEF PrintsPrint, RecordInvariant
    <3> QED
      BY <3>3, <3>4 DEF RecordInvariant
  <2>2. CASE ~ \E u \in Callers : BeginCall(u)
    <3>1. UNCHANGED role
      BY <2>2, StepCases, HostStepFrame
      DEF CallStep, Caller, StackStep, TimeLimit, Refused, PollAgain, ClearControl, Fill,
          ReadyLink, ReadyCas, RingDoorbell, TakeAnswer, RequestTimeout, LeavePacket,
          LeaveUnsent, ReinitAndLaunch, vars, hostcallVars, callVars
    <3> QED
      BY <3>1 DEF RecordInvariant
  <2> QED
    BY <2>1, <2>2
<1> QED
  BY <1>1, <1>2, <1>3 DEF RecordInvariant

LEMMA RecordHolds == ASSUME PrintsPrint PROVE HostcallSpec /\ []NoABA => []RecordInvariant
<1>1. HostcallInit => RecordInvariant
  BY RecordInit DEF RecordInvariant, HostcallInit, NoRole
<1>2. HostcallTypeOK /\ Ownership /\ ProtocolInvariant /\ RecordInvariant /\ [HostcallNext]_vars
        => RecordInvariant'
  BY PrintsPrint, RecordInvariantStep
<1> QED
  BY <1>1, <1>2, HostcallTypeCorrect, OwnershipHolds, ProtocolHolds, PTL DEF HostcallSpec

-----------------------------------------------------------------------------
(* Each step of the protocol is a step of a remote procedure call.         *)

LatestCall(t) == /\ calls[t] \in 1 .. MaxCalls /\ outcome[t] = "none"
                 /\ RPC!Latest(t, calls[t])

LEMMA RunningCall ==
  ASSUME HostcallTypeOK, Record, NEW t \in Callers, pc[t] \notin {"idle", "free_link", "free_cas"}
  PROVE  LatestCall(t)
<1>1. calls[t] \in 0 .. MaxCalls /\ calls[t] # 0 /\ MaxCalls \in Nat
  BY HostcallAssumption DEF HostcallTypeOK, CallsOK
<1>2. calls[t] \in 1 .. MaxCalls /\ ~ (calls[t] > calls[t])
  BY <1>1
<1> QED
  BY <1>2 DEF LatestCall, RPC!Latest, RPC!Calls, Record, CallsCounted

LEMMA BeginIssues ==
  ASSUME HostcallTypeOK, Record, NEW t \in Callers, BeginCall(t)
  PROVE  RPC!RPCNext
<1>1. /\ calls[t] \in 0 .. MaxCalls /\ MaxCalls \in Nat /\ calls[t] < MaxCalls
      /\ outcome' = [outcome EXCEPT ![t] = "none"] /\ outcome[t] # "none"
      /\ fate' = [fate EXCEPT ![t][calls[t] + 1] = "pending"]
  BY HostcallAssumption DEF BeginCall, HostcallTypeOK, CallsOK, Record, CallsCounted
<1>2. \A m \in 1 .. MaxCalls : fate[t][m] = "new" <=> m >= calls[t] + 1
  <2> TAKE m \in 1 .. MaxCalls
  <2>1. fate[t][m] = "new" <=> m > calls[t]
    BY DEF Record, CallsCounted
  <2>2. m > calls[t] <=> m >= calls[t] + 1
    BY <1>1
  <2> QED
    BY <2>1, <2>2
<1>3. calls[t] + 1 \in 1 .. MaxCalls
  BY <1>1
<1>4. RPC!Issue(t, calls[t] + 1)
  BY <1>1, <1>2 DEF RPC!Issue, RPC!Calls
<1> QED
  BY <1>3, <1>4 DEF RPC!RPCNext, RPC!Calls

LEMMA RefusedRefuses ==
  ASSUME HostcallTypeOK, Record, NEW t \in Callers, Refused(t)
  PROVE  RPC!RPCNext
<1>1. LatestCall(t)
  BY RunningCall DEF Refused
<1>2. RPC!Refuse(t, calls[t])
  BY <1>1 DEF RPC!Refuse, LatestCall, Refused, Record, UnsentIsPending, Unsent
<1> QED
  BY <1>1, <1>2 DEF RPC!RPCNext, RPC!Calls, LatestCall

LEMMA AnswerReturns ==
  ASSUME HostcallTypeOK, Protocol, Record, RecordInvariant, NEW t \in Callers, TakeAnswer(t)
  PROVE  RPC!RPCNext
<1>1. pc[t] = "wait" /\ LatestCall(t)
  BY RunningCall DEF TakeAnswer
<1>2. PICK h \in Packets : h = pkt[t]
  BY <1>1 DEF HostcallTypeOK, StackWordsOK, OwnerLabels, CallLabels, Index
<1>3. OwnerKnows(t, h) /\ control[h] # FILLED
  BY <1>2, ControlFacts DEF Protocol, OwnersKnow, TakeAnswer
<1>4. Mine(t, h) /\ Fits(h, control[h])
  BY <1>1, <1>3 DEF OwnerKnows
<1>5. fate[t][calls[t]] = AnswerOf(control[h])
  BY <1>1, <1>2, <1>3, <1>4 DEF Record, ServedIsAnswered, FateIs, Mine
<1>6. role[t].kind = "print" => "ERROR" \notin control[h]
  BY <1>4 DEF RecordInvariant, Mine, Fits
<1>7. outcome' = [outcome EXCEPT ![t] = fate[t][calls[t]]] /\ UNCHANGED fate
  BY <1>2, <1>5, <1>6 DEF TakeAnswer, AnswerOf
<1>8. RPC!Return(t, calls[t])
  BY <1>1, <1>5, <1>7 DEF RPC!Return, RPC!Answers, LatestCall, AnswerOf
<1> QED
  BY <1>1, <1>8 DEF RPC!RPCNext, RPC!Calls, LatestCall

LEMMA LeavingAbandons ==
  ASSUME HostcallTypeOK, Record, NEW t \in Callers, LeavePacket(t) \/ LeaveUnsent(t)
  PROVE  RPC!RPCNext
<1>1. LatestCall(t)
  BY RunningCall DEF LeavePacket, LeaveUnsent
<1>2. RPC!Abandon(t)
  BY <1>1 DEF RPC!Abandon, LatestCall, LeavePacket, LeaveUnsent
<1> QED
  BY <1>2 DEF RPC!RPCNext

LEMMA ServingServes ==
  ASSUME HostcallTypeOK, Record, NEW h \in Packets, NEW answer \in {"ok", "err"},
         Asked(h), Serve(h, answer), UNCHANGED outcome
  PROVE  RPC!RPCNext
<1>1. Sent(h)
  BY DEF Asked
<1>2. /\ payload[h].of \in Callers /\ payload[h].of # Nobody
      /\ payload[h].call \in 1 .. MaxCalls
  BY <1>1, SentCalls
<1>3. fate[payload[h].of][payload[h].call] = "pending"
  BY <1>1 DEF Record, SentIsACall, FateIs
<1>4. fate \in [Callers -> [1 .. MaxCalls -> Fates]]
  BY DEF HostcallTypeOK, CallsOK
<1>5. fate' = [fate EXCEPT ![payload[h].of][payload[h].call] = answer]
  BY <1>2, <1>3, <1>4 DEF Serve
<1>6. RPC!Serve(payload[h].of, payload[h].call)
  BY <1>3, <1>5 DEF RPC!Serve, RPC!Answers
<1> QED
  BY <1>2, <1>6 DEF RPC!RPCNext, RPC!Calls

LEMMA VisitServes ==
  ASSUME HostcallTypeOK, Protocol, Record, VisitInline \/ VisitUnknown
  PROVE  RPC!RPCNext
<1>1. PICK h \in Packets : h = cur
  BY VisitFacts DEF VisitInline, VisitUnknown
<1>2. Asked(h) /\ UNCHANGED outcome
  BY <1>1, VisitFacts DEF Queued, VisitInline, VisitUnknown, callVars
<1>3. \E answer \in {"ok", "err"} : Serve(h, answer)
  BY <1>1 DEF VisitInline, VisitUnknown, Handle, Serve, AnswersOf
<1> QED
  BY <1>2, <1>3, ServingServes

LEMMA IoServes == ASSUME HostcallTypeOK, Protocol, Record, IoServe PROVE RPC!RPCNext
<1>1. PICK h \in Packets : h = Head(ioq)
  <2>1. Head(ioq) \in Packets
    BY HeadTailProperties DEF IoServe, HostcallTypeOK, HostOK
  <2> QED
    BY <2>1
<1>2. Asked(h) /\ UNCHANGED outcome
  BY <1>1, IoServeKeeps DEF ServedNow, IoServe, callVars
<1>3. \E answer \in {"ok", "err"} : Serve(h, answer)
  BY <1>1 DEF IoServe, Handle, Serve, AnswersOf
<1> QED
  BY <1>2, <1>3, ServingServes

LEMMA RPCStep ==
  ASSUME HostcallTypeOK, ProtocolInvariant, RecordInvariant, [HostcallNext]_vars, Orderly
  PROVE  RPC!RPCNext \/ UNCHANGED <<fate, outcome>>
<1>1. Protocol /\ Record
  BY DEF ProtocolInvariant, RecordInvariant
<1>2. ASSUME NEW t \in Callers, CallStep(t)
      PROVE  RPC!RPCNext \/ UNCHANGED <<fate, outcome>>
  <2>1. ~ RequestTimeout(t)
    BY DEF RequestTimeout, Orderly
  <2>2. CASE BeginCall(t) \/ Refused(t) \/ TakeAnswer(t) \/ LeavePacket(t) \/ LeaveUnsent(t)
    BY <1>1, <2>2, BeginIssues, RefusedRefuses, AnswerReturns, LeavingAbandons
  <2>3. CASE \/ StackStep(t) \/ PollAgain(t) \/ ClearControl(t) \/ Fill(t) \/ ReadyLink(t)
             \/ ReadyCas(t) \/ RingDoorbell(t)
    BY <2>3 DEF StackStep, PollAgain, ClearControl, Fill, ReadyLink, ReadyCas, RingDoorbell,
                hostcallVars, callVars
  <2> QED
    BY <1>2, <2>1, <2>2, <2>3 DEF CallStep, Caller, TimeLimit
<1>3. ASSUME HostStep
      PROVE  RPC!RPCNext \/ UNCHANGED <<fate, outcome>>
  <2>1. CASE VisitInline \/ VisitUnknown \/ IoServe
    BY <1>1, <2>1, VisitServes, IoServes
  <2>2. CASE \/ ListenerLook \/ ListenerWake \/ ListenerSpin \/ ListenerExit \/ Swap
                 \/ VisitUnfilled
             \/ VisitBlocking \/ Reply \/ IoReply \/ Host
    BY <2>2 DEF ListenerLook, ListenerWake, ListenerSpin, ListenerExit, Swap, VisitUnfilled,
                VisitBlocking, Reply, IoReply, Host, Synchronize, SignalShutdown, DropSession,
                vars, hostcallVars, callVars
  <2> QED
    BY <1>3, <2>1, <2>2 DEF HostStep, Listener, IoThread
<1>4. ReinitAndLaunch \/ UNCHANGED vars => UNCHANGED <<fate, outcome>>
  BY DEF ReinitAndLaunch, vars, hostcallVars, callVars
<1> QED
  BY <1>2, <1>3, <1>4, StepCases

(* For any number of callers, shards, packets, calls and kernels: in a     *)
(* behavior in which the tags do what they are for, a program that keeps   *)
(* to the rule makes remote procedure calls.  No call is served twice, an  *)
(* answered call was served, and the caller returns that very answer.      *)
THEOREM CallsAreServedOnce ==
  ASSUME PrintsPrint
  PROVE  HostcallSpec /\ []NoABA => ExactlyOnce
<1>1. HostcallInit => RPC!RPCInit
  BY DEF HostcallInit, RPC!RPCInit, RPC!Calls
<1>2. HostcallTypeOK /\ ProtocolInvariant /\ RecordInvariant /\ [HostcallNext]_vars
        => [Orderly => RPC!RPCNext]_<<fate, outcome>>
  BY RPCStep
<1> QED
  BY <1>1, <1>2, PrintsPrint, HostcallTypeCorrect, ProtocolHolds, RecordHolds, PTL
  DEF ExactlyOnce, HostcallSpec

(* With one caller per shard, as when a shard is one warp's, the theorem   *)
(* asks nothing of the tags.                                               *)
THEOREM SoleCallersAreServedOnce ==
  ASSUME SoleCallers, PrintsPrint
  PROVE  HostcallSpec => ExactlyOnce
  BY SoleCallersNeedNoTags, CallsAreServedOnce, PTL
=============================================================================
