------------------------------ MODULE Hostcall ------------------------------
(***************************************************************************)
(* The hostcall protocol: how code on the GPU has the host do something.   *)
(* A caller pops a packet from its shard's free stack, writes its request  *)
(* into it, pushes it on the shard's ready stack, rings the doorbell, and  *)
(* waits for CONTROL_READY; then it pushes the packet on the free stack.   *)
(* The host's listener thread polls the doorbell, takes each ready stack   *)
(* whole, and serves what it finds in place or through the I/O thread.     *)
(* The host shuts the listener down when the kernel has finished, or makes *)
(* the packets new (reinit_packets) and launches another kernel; or it     *)
(* drops the session while the kernel runs.                                *)
(*                                                                         *)
(* The free stack is module FreeStack; this module adds what is around it. *)
(***************************************************************************)
EXTENDS FreeStack, Sequences

CONSTANTS Scenarios,    \* the calls a program makes, and which may time out
          MaxCalls,     \* bound: the calls one caller makes
          MaxLaunches,  \* bound: the kernels one session runs
          Nobody        \* the caller of a packet no one has used yet

(* gpu_hostcall_request, gpu_hostcall_print (and _trace), and the futures. *)
Kinds == {"request", "print", "future"}

(* One service of each treatment: served in place and never failing; in    *)
(* place, may fail; on the I/O thread, may fail; unknown to the host.      *)
Services == {"PRINT", "TIME", "OPEN", "UNKNOWN"}

(* A program makes calls of some roles; the kinds in `limits` may run into *)
(* their time limits before the host answers.  It may drop the session     *)
(* while a kernel runs.                                                    *)
Roles == [kind : Kinds, service : Services]
Programs == [roles : SUBSET Roles, limits : SUBSET Kinds, drops : BOOLEAN]

ASSUME HostcallAssumption == /\ Scenarios \subseteq Programs
                             /\ MaxCalls \in Nat
                             /\ MaxLaunches \in Nat
                             /\ Nobody \notin Callers

VARIABLES
  ready,      \* the ready stack's head word in each shard
  control,    \* the control word of each packet, as the set of its flags
  payload,    \* the request in each packet, and the host's answer
  doorbell,   \* the number of rings
  role,       \* what each caller's current call is
  calls,      \* the calls each caller has begun
  outcome,    \* what its latest call returned; "none" while it runs
  lpc,        \* where the listener is
  last,       \* last_doorbell
  scan,       \* the shard it drains
  cur,        \* current: the packet it has come to in the drained stack
  rest,       \* the word it read from that packet's `next`
  lflags,     \* the flags it is about to store
  ioq,        \* the channel to the I/O thread
  iopkt,      \* the packet the I/O thread serves, or NULL_INDEX
  ioflags,    \* the flags it is about to store
  kernel,     \* is the kernel running, or has the host synchronized with it?
  launches,   \* kernels launched
  shutdown,   \* the buffer's shutdown word
  program,    \* the calls this behavior's kernels make
  fate        \* history: what has become of each call

requestVars == <<ready, control, payload, doorbell>>
callVars == <<role, calls, outcome>>
listenerVars == <<lpc, last, scan, cur, rest, lflags>>
ioVars == <<ioq, iopkt, ioflags>>
hostVars == <<kernel, launches, shutdown>>
hostcallVars == <<requestVars, callVars, listenerVars, ioVars, hostVars, program, fate>>
vars == <<stackVars, hostcallVars>>

FILLED == {"FILLED"}
READY == {"READY"}
READY_ERROR == {"READY", "ERROR"}

NoRole == [kind |-> "none", service |-> "none"]
Blank == [of |-> Nobody, call |-> 0, service |-> "PRINT", result |-> "asked"]

HostcallInit ==
  /\ StackInit
  /\ ready = [s \in Shards |-> null_tagged]
  /\ control = [p \in Packets |-> {}]
  /\ payload = [p \in Packets |-> Blank]
  /\ doorbell = 0
  /\ role = [t \in Callers |-> NoRole]
  /\ calls = [t \in Callers |-> 0]
  /\ outcome = [t \in Callers |-> "idle"]
  /\ lpc = "poll" /\ last = 0 /\ scan = 0
  /\ cur = NULL_INDEX /\ rest = null_tagged /\ lflags = {}
  /\ ioq = <<>> /\ iopkt = NULL_INDEX /\ ioflags = {}
  /\ kernel = "running" /\ launches = 1 /\ shutdown = FALSE
  /\ program \in Scenarios
  /\ fate = [t \in Callers |-> [n \in 1 .. MaxCalls |-> "new"]]

-----------------------------------------------------------------------------
(* The caller, on the GPU.                                                 *)

BeginCall(t) ==
  /\ pc[t] = "idle" /\ kernel = "running" /\ calls[t] < MaxCalls
  /\ calls' = [calls EXCEPT ![t] = @ + 1]
  /\ \E r \in program.roles : role' = [role EXCEPT ![t] = r]
  /\ outcome' = [outcome EXCEPT ![t] = "none"]
  /\ fate' = [fate EXCEPT ![t][calls[t] + 1] = "pending"]
  /\ Goto(t, "pop_load")
  /\ UNCHANGED <<free, next, pkt, hd, nx, avail, requestVars, listenerVars, ioVars,
                 hostVars, program>>

(* No free packet: an error for gpu_hostcall_request and _print.           *)
Refused(t) ==
  /\ pc[t] = "exhausted" /\ role[t].kind # "future"
  /\ outcome' = [outcome EXCEPT ![t] = "exhausted"]
  /\ fate' = [fate EXCEPT ![t][calls[t]] = "refused"]
  /\ Goto(t, "idle")
  /\ UNCHANGED <<free, next, pkt, hd, nx, avail, requestVars, role, calls, listenerVars,
                 ioVars, hostVars, program>>

(* A future stays in its initial state and pops again on its next poll.    *)
PollAgain(t) ==
  /\ pc[t] = "exhausted" /\ role[t].kind = "future"
  /\ Goto(t, "pop_load")
  /\ UNCHANGED <<free, next, pkt, hd, nx, avail, hostcallVars>>

(* The owner of a packet clears its control word, writes the request, and  *)
(* marks it filled.                                                        *)
ClearControl(t) ==
  /\ pc[t] = "own"
  /\ control' = [control EXCEPT ![pkt[t]] = {}]
  /\ Goto(t, "fill")
  /\ UNCHANGED <<free, next, pkt, hd, nx, avail, ready, payload, doorbell, callVars,
                 listenerVars, ioVars, hostVars, program, fate>>

Fill(t) ==
  /\ pc[t] = "fill"
  /\ payload' = [payload EXCEPT ![pkt[t]] =
                   [of |-> t, call |-> calls[t], service |-> role[t].service,
                    result |-> "asked"]]
  /\ control' = [control EXCEPT ![pkt[t]] = FILLED]
  /\ Goto(t, "ready_link")
  /\ UNCHANGED <<free, next, pkt, hd, nx, avail, ready, doorbell, callVars, listenerVars,
                 ioVars, hostVars, program, fate>>

(* hc_push on the ready stack.                                             *)
ReadyLink(t) ==
  /\ pc[t] = "ready_link"
  /\ hd' = [hd EXCEPT ![t] = ready[ShardOf[t]]]
  /\ next' = [next EXCEPT ![pkt[t]] = ready[ShardOf[t]]]
  /\ Goto(t, "ready_cas")
  /\ UNCHANGED <<free, pkt, nx, avail, hostcallVars>>

(* Fault: the caller goes to wait without ringing.                         *)
ReadyCasNoRing(t) ==
  /\ pc[t] = "ready_cas"
  /\ IF ready[ShardOf[t]] = hd[t]
     THEN /\ ready' = [ready EXCEPT ![ShardOf[t]] = make_tagged(bump_tag(hd[t]), pkt[t])]
          /\ Goto(t, "wait")
     ELSE Goto(t, "ready_link") /\ UNCHANGED ready
  /\ hd' = [hd EXCEPT ![t] = null_tagged]
  /\ UNCHANGED <<free, next, pkt, nx, avail, control, payload, doorbell, callVars,
                 listenerVars, ioVars, hostVars, program, fate>>

ReadyCas(t) ==
  /\ pc[t] = "ready_cas"
  /\ IF ready[ShardOf[t]] = hd[t]
     THEN /\ ready' = [ready EXCEPT ![ShardOf[t]] = make_tagged(bump_tag(hd[t]), pkt[t])]
          /\ Goto(t, "ring")
     ELSE Goto(t, "ready_link") /\ UNCHANGED ready
  /\ hd' = [hd EXCEPT ![t] = null_tagged]
  /\ UNCHANGED <<free, next, pkt, nx, avail, control, payload, doorbell, callVars,
                 listenerVars, ioVars, hostVars, program, fate>>

RingDoorbell(t) ==
  /\ pc[t] = "ring"
  /\ doorbell' = doorbell + 1
  /\ Goto(t, "wait")
  /\ UNCHANGED <<free, next, pkt, hd, nx, avail, ready, control, payload, callVars,
                 listenerVars, ioVars, hostVars, program, fate>>

(* Fault: a call that fails returns at once and leaves its packet behind.  *)
TakeAnswerLeak(t) ==
  /\ pc[t] = "wait" /\ "READY" \in control[pkt[t]]
  /\ IF "ERROR" \in control[pkt[t]]
     THEN /\ outcome' = [outcome EXCEPT ![t] = "err"]
          /\ pkt' = [pkt EXCEPT ![t] = NULL_INDEX]
          /\ Goto(t, "idle")
     ELSE /\ outcome' = [outcome EXCEPT ![t] = "ok"]
          /\ Goto(t, "free_link") /\ UNCHANGED pkt
  /\ UNCHANGED <<free, next, hd, nx, avail, requestVars, role, calls, listenerVars,
                 ioVars, hostVars, program, fate>>

(* CONTROL_READY is there: take the answer and start to free the packet.   *)
(* gpu_hostcall_print does not look at CONTROL_ERROR.                      *)
TakeAnswer(t) ==
  /\ pc[t] = "wait" /\ "READY" \in control[pkt[t]]
  /\ outcome' = [outcome EXCEPT ![t] =
                   IF "ERROR" \in control[pkt[t]] /\ role[t].kind # "print"
                   THEN "err" ELSE "ok"]
  /\ Goto(t, "free_link")
  /\ UNCHANGED <<free, next, pkt, hd, nx, avail, requestVars, role, calls, listenerVars,
                 ioVars, hostVars, program, fate>>

(* The time limit of gpu_hostcall_request: the packet goes to the free     *)
(* stack, whoever has it now.                                              *)
RequestTimeout(t) ==
  /\ pc[t] = "wait" /\ role[t].kind = "request" /\ "request" \in program.limits
  /\ outcome' = [outcome EXCEPT ![t] = "timeout"]
  /\ Goto(t, "free_link")
  /\ UNCHANGED <<free, next, pkt, hd, nx, avail, requestVars, role, calls, listenerVars,
                 ioVars, hostVars, program, fate>>

(* Fault: a PRINT that times out frees its packet, as a request does.      *)
FreePacket(t) ==
  /\ pc[t] = "wait" /\ role[t].kind \in {"print", "future"} \intersect program.limits
  /\ outcome' = [outcome EXCEPT ![t] = "timeout"]
  /\ Goto(t, "free_link")
  /\ UNCHANGED <<free, next, pkt, hd, nx, avail, requestVars, role, calls, listenerVars,
                 ioVars, hostVars, program, fate>>

(* The time limit of gpu_hostcall_print and _trace, and the drop of a      *)
(* future before its answer: the packet is not returned at all.            *)
LeavePacket(t) ==
  /\ pc[t] = "wait" /\ role[t].kind \in {"print", "future"} \intersect program.limits
  /\ outcome' = [outcome EXCEPT ![t] = "timeout"]
  /\ pkt' = [pkt EXCEPT ![t] = NULL_INDEX]
  /\ Goto(t, "idle")
  /\ UNCHANGED <<free, next, hd, nx, avail, requestVars, role, calls, listenerVars,
                 ioVars, hostVars, program, fate>>

(* A future dropped before it got a packet: block_on_with is out of polls. *)
LeaveUnsent(t) ==
  /\ pc[t] = "exhausted" /\ role[t].kind = "future" /\ "future" \in program.limits
  /\ outcome' = [outcome EXCEPT ![t] = "timeout"]
  /\ Goto(t, "idle")
  /\ UNCHANGED <<free, next, pkt, hd, nx, avail, requestVars, role, calls, listenerVars,
                 ioVars, hostVars, program, fate>>

StackStep(t) == PoolStep(t) /\ UNCHANGED hostcallVars

Caller(t) == \/ StackStep(t)
             \/ Refused(t) \/ PollAgain(t)
             \/ ClearControl(t) \/ Fill(t) \/ ReadyLink(t) \/ ReadyCas(t)
             \/ RingDoorbell(t) \/ TakeAnswer(t)

TimeLimit(t) == RequestTimeout(t) \/ LeavePacket(t) \/ LeaveUnsent(t)

-----------------------------------------------------------------------------
(* The host.  A handler reads the request in the packet and leaves its     *)
(* answer there; the flags are stored after it, in a step of their own.    *)

AnswersOf(service) == IF service = "PRINT" THEN {"ok"} ELSE {"ok", "err"}

FlagsAlwaysReady(answer) == READY      \* fault: has_error is not looked at
FlagsFor(answer) == IF answer = "err" THEN READY_ERROR ELSE READY

Serve(p, answer) ==
  LET r == payload[p]
  IN  fate' = IF r.of = Nobody THEN fate
              ELSE [fate EXCEPT ![r.of][r.call] = IF @ = "pending" THEN answer ELSE "twice"]

Handle(p, answer) == /\ payload' = [payload EXCEPT ![p].result = answer]
                     /\ Serve(p, answer)

(* Go on with the packet a `next` word leads to; at the end of the stack,  *)
(* with the next shard; after the last shard, with the doorbell.           *)

(* Faults: one shard too many; and the scan ends with the first shard.     *)
NextShardTooFar == /\ lpc' = IF scan + 1 <= NumShards THEN "swap" ELSE "poll"
                   /\ scan' = IF scan + 1 <= NumShards THEN scan + 1 ELSE 0
                   /\ cur' = NULL_INDEX
NextShardNone == lpc' = "poll" /\ scan' = 0 /\ cur' = NULL_INDEX

NextShard == /\ lpc' = IF scan + 1 < NumShards THEN "swap" ELSE "poll"
             /\ scan' = IF scan + 1 < NumShards THEN scan + 1 ELSE 0
             /\ cur' = NULL_INDEX

GoTo(word) == IF word.idx = NULL_INDEX
              THEN NextShard
              ELSE lpc' = "visit" /\ cur' = word.idx /\ UNCHANGED scan

(* One turn of the listener's loop reads the shutdown word, ...            *)
ListenerLook ==
  /\ lpc = "poll" /\ ~shutdown
  /\ lpc' = "look"
  /\ UNCHANGED <<stackVars, requestVars, callVars, last, scan, cur, rest, lflags, ioVars,
                 hostVars, program, fate>>

(* ... then the doorbell, and finds it changed, ...                        *)
ListenerWake ==
  /\ lpc = "look" /\ doorbell # last
  /\ last' = doorbell
  /\ lpc' = "swap" /\ scan' = 0
  /\ UNCHANGED <<stackVars, requestVars, callVars, cur, rest, lflags, ioVars, hostVars,
                 program, fate>>

(* ... or as it was.                                                       *)
ListenerSpin ==
  /\ lpc = "look" /\ doorbell = last
  /\ lpc' = "poll"
  /\ UNCHANGED <<stackVars, requestVars, callVars, last, scan, cur, rest, lflags, ioVars,
                 hostVars, program, fate>>

(* At shutdown it drops the channel to the I/O thread.                     *)
(* Fault: the shutdown word is looked at only after a ring.                *)
ListenerExitOnRing ==
  /\ lpc = "poll" /\ shutdown /\ doorbell # last
  /\ lpc' = "exited"
  /\ UNCHANGED <<stackVars, requestVars, callVars, last, scan, cur, rest, lflags, ioVars,
                 hostVars, program, fate>>

ListenerExit ==
  /\ lpc = "poll" /\ shutdown
  /\ lpc' = "exited"
  /\ UNCHANGED <<stackVars, requestVars, callVars, last, scan, cur, rest, lflags, ioVars,
                 hostVars, program, fate>>

(* Fault: the ready stack is read and not emptied.                         *)
SwapLoad ==
  /\ lpc = "swap"
  /\ GoTo(ready[scan])
  /\ UNCHANGED <<stackVars, requestVars, callVars, last, rest, lflags, ioVars, hostVars,
                 program, fate>>

Swap ==
  /\ lpc = "swap"
  /\ ready' = [ready EXCEPT ![scan] = null_tagged]
  /\ GoTo(ready[scan])
  /\ UNCHANGED <<stackVars, control, payload, doorbell, callVars, last, rest, lflags,
                 ioVars, hostVars, program, fate>>

(* A packet of the drained stack that is not filled is passed over.        *)
VisitUnfilled ==
  /\ lpc = "visit" /\ "FILLED" \notin control[cur]
  /\ GoTo(next[cur])
  /\ UNCHANGED <<stackVars, requestVars, callVars, last, rest, lflags, ioVars, hostVars,
                 program, fate>>

VisitInline ==
  /\ lpc = "visit" /\ "FILLED" \in control[cur]
  /\ payload[cur].service \in {"PRINT", "TIME"}
  /\ rest' = next[cur]
  /\ \E answer \in AnswersOf(payload[cur].service) :
       Handle(cur, answer) /\ lflags' = FlagsFor(answer)
  /\ lpc' = "reply"
  /\ UNCHANGED <<stackVars, ready, control, doorbell, callVars, last, scan, cur, ioVars,
                 hostVars, program>>

(* Fault: a request for an unknown service is passed over.                 *)
VisitUnknownSkip ==
  /\ lpc = "visit" /\ "FILLED" \in control[cur] /\ payload[cur].service = "UNKNOWN"
  /\ GoTo(next[cur])
  /\ UNCHANGED <<stackVars, requestVars, callVars, last, rest, lflags, ioVars, hostVars,
                 program, fate>>

VisitUnknown ==
  /\ lpc = "visit" /\ "FILLED" \in control[cur] /\ payload[cur].service = "UNKNOWN"
  /\ rest' = next[cur]
  /\ Serve(cur, "err")
  /\ lflags' = READY_ERROR
  /\ lpc' = "reply"
  /\ UNCHANGED <<stackVars, requestVars, callVars, last, scan, cur, ioVars, hostVars,
                 program>>

VisitBlocking ==
  /\ lpc = "visit" /\ "FILLED" \in control[cur] /\ payload[cur].service = "OPEN"
  /\ ioq' = Append(ioq, cur)
  /\ GoTo(next[cur])
  /\ UNCHANGED <<stackVars, requestVars, callVars, last, rest, lflags, iopkt, ioflags,
                 hostVars, program, fate>>

(* The store of the flags gives the packet back to its caller.             *)
Reply ==
  /\ lpc = "reply"
  /\ control' = [control EXCEPT ![cur] = lflags]
  /\ GoTo(rest)
  /\ rest' = null_tagged /\ lflags' = {}
  /\ UNCHANGED <<stackVars, ready, payload, doorbell, callVars, last, ioVars, hostVars,
                 program, fate>>

Listener == \/ ListenerLook \/ ListenerWake \/ ListenerSpin \/ ListenerExit
            \/ Swap \/ VisitUnfilled \/ VisitInline \/ VisitUnknown \/ VisitBlocking \/ Reply

(* io_thread_loop ends when the channel is empty and its sender dropped.   *)
IoServe ==
  /\ iopkt = NULL_INDEX /\ ioq # <<>>
  /\ ioq' = Tail(ioq)
  /\ iopkt' = Head(ioq)
  /\ \E answer \in AnswersOf("OPEN") :
       Handle(Head(ioq), answer) /\ ioflags' = FlagsFor(answer)
  /\ UNCHANGED <<stackVars, ready, control, doorbell, callVars, listenerVars, hostVars,
                 program>>

IoReply ==
  /\ iopkt # NULL_INDEX
  /\ control' = [control EXCEPT ![iopkt] = ioflags]
  /\ iopkt' = NULL_INDEX /\ ioflags' = {}
  /\ UNCHANGED <<stackVars, ready, payload, doorbell, callVars, listenerVars, ioq,
                 hostVars, program, fate>>

IoThread == IoServe \/ IoReply

-----------------------------------------------------------------------------
(* The host thread that owns the session: it waits for the kernel, then    *)
(* prepares the packets and launches the next one, or shuts down.          *)

Synchronize ==
  /\ kernel = "running" /\ \A t \in Callers : pc[t] = "idle"
  /\ kernel' = "finished"
  /\ UNCHANGED <<stackVars, requestVars, callVars, listenerVars, ioVars, launches,
                 shutdown, program, fate>>

ReinitAndLaunch ==
  /\ kernel = "finished" /\ ~shutdown /\ launches < MaxLaunches
  /\ ReinitStacks
  /\ ready' = [s \in Shards |-> null_tagged]
  /\ control' = [p \in Packets |-> {}]
  /\ kernel' = "running" /\ launches' = launches + 1
  /\ UNCHANGED <<payload, doorbell, callVars, listenerVars, ioVars, shutdown, program,
                 fate>>

SignalShutdown ==
  /\ kernel = "finished" /\ ~shutdown
  /\ shutdown' = TRUE
  /\ UNCHANGED <<stackVars, requestVars, callVars, listenerVars, ioVars, kernel, launches,
                 program, fate>>

(* HostcallSession::drop, as when a stage of Pipeline::run returns early:  *)
(* the listener is told to stop though the kernel runs.                    *)
DropSession ==
  /\ kernel = "running" /\ ~shutdown /\ program.drops
  /\ shutdown' = TRUE
  /\ UNCHANGED <<stackVars, requestVars, callVars, listenerVars, ioVars, kernel, launches,
                 program, fate>>

Host == Synchronize \/ SignalShutdown \/ DropSession

Terminated == lpc = "exited" /\ ioq = <<>> /\ iopkt = NULL_INDEX /\ UNCHANGED vars

HostcallNext == \/ \E t \in Callers : BeginCall(t) \/ Caller(t) \/ TimeLimit(t)
                \/ Listener \/ IoThread
                \/ Host \/ ReinitAndLaunch
                \/ Terminated

(* The warps of a resident block make progress, and so do the threads of   *)
(* the host.  Nothing makes a caller begin a call, a limit run out, or the *)
(* session be dropped.                                                     *)
Fairness == /\ \A t \in Callers : WF_vars(Caller(t))
            /\ WF_vars(Listener)
            /\ WF_vars(IoThread)
            /\ WF_vars(Synchronize \/ SignalShutdown)

HostcallSpec == HostcallInit /\ [][HostcallNext]_vars
FairHostcallSpec == HostcallSpec /\ Fairness

-----------------------------------------------------------------------------
CallLabels == StackLabels \union {"fill", "ready_link", "ready_cas", "ring", "wait"}
OwnerLabels == CallLabels \ {"idle", "pop_load", "pop_next", "pop_cas", "exhausted"}

Fates == {"new", "pending", "refused", "ok", "err", "twice"}
Outcomes == {"idle", "none", "ok", "err", "exhausted", "timeout"}

StackWordsOK ==
  /\ free \in [Shards -> Tagged] /\ next \in [Packets -> Tagged]
  /\ pc \in [Callers -> CallLabels] /\ pkt \in [Callers -> Index]
  /\ hd \in [Callers -> Tagged] /\ nx \in [Callers -> Tagged]
  /\ avail \in [Shards -> SUBSET Packets]
  /\ \A t \in Callers : /\ pkt[t] # NULL_INDEX <=> pc[t] \in OwnerLabels
                        /\ pc[t] \in {"pop_next", "pop_cas"} => hd[t].idx \in Packets

Requests == [of : Callers \union {Nobody}, call : 0 .. MaxCalls, service : Services,
             result : {"asked", "ok", "err"}]

RequestsOK ==
  /\ ready \in [Shards -> Tagged]
  /\ control \in [Packets -> {{}, FILLED, READY, READY_ERROR}]
  /\ payload \in [Packets -> Requests]
  /\ \A p \in Packets : payload[p].of # Nobody => payload[p].call # 0
  /\ doorbell \in Nat

CallsOK ==
  /\ role \in [Callers -> Roles \union {NoRole}]
  /\ calls \in [Callers -> 0 .. MaxCalls]
  /\ \A t \in Callers : pc[t] # "idle" => calls[t] # 0 /\ role[t] \in Roles
  /\ outcome \in [Callers -> Outcomes]
  /\ fate \in [Callers -> [1 .. MaxCalls -> Fates]]

ListenerOK ==
  /\ lpc \in {"poll", "look", "swap", "visit", "reply", "exited"}
  /\ last \in Nat /\ scan \in Shards /\ cur \in Index /\ rest \in Tagged
  /\ lpc \in {"visit", "reply"} <=> cur # NULL_INDEX
  /\ lflags \in {{}, READY, READY_ERROR}

HostOK ==
  /\ ioq \in Seq(Packets) /\ iopkt \in Index /\ ioflags \in {{}, READY, READY_ERROR}
  /\ kernel \in {"running", "finished"} /\ launches \in Nat /\ shutdown \in BOOLEAN
  /\ program \in Programs

(* Every word of the buffer and every local has the shape the code gives   *)
(* it: no index leaves the buffer, no packet is used that was not popped,  *)
(* and the listener has a packet in hand just while it walks a stack.      *)
HostcallTypeOK == StackWordsOK /\ RequestsOK /\ CallsOK /\ ListenerOK /\ HostOK

(* No call of gpu_hostcall_request runs into its time limit, and no kernel *)
(* follows one whose calls left packets behind.                            *)
Orderly == /\ "request" \notin program.limits
           /\ program.limits = {} \/ launches = 1

(* A wakeup is never lost.  The listener scans all shards for one change   *)
(* of the doorbell, and rings are not counted one by one: while a request  *)
(* is on a ready stack, the doorbell differs from last_doorbell, or the    *)
(* scan under way has yet to come to that shard, or the caller is about to *)
(* ring.  (At shutdown the listener leaves without another scan.)          *)
NoLostWakeup ==
  \A s \in Shards : ready[s].idx # NULL_INDEX =>
     \/ doorbell # last
     \/ lpc = "swap" /\ scan <= s
     \/ lpc \in {"visit", "reply"} /\ scan < s
     \/ \E t \in Callers : ShardOf[t] = s /\ pc[t] = "ring"
     \/ lpc = "exited"

(* The packets the host has or is to find: on a ready stack, in what the   *)
(* listener has drained and not answered, and with the I/O thread.         *)
InFlight ==
  (UNION {ChainFrom(ready[s].idx) : s \in Shards})
    \union (IF lpc = "visit" THEN ChainFrom(cur) ELSE {})
    \union (IF lpc = "reply" THEN {cur} \union ChainFrom(rest.idx) ELSE {})
    \union {ioq[i] : i \in DOMAIN ioq}
    \union ({iopkt} \ {NULL_INDEX})

(* "Push to ready stack: transfers packet to the host for processing" (the *)
(* ownership protocol in gpu_hostcall_request); a packet that "may still   *)
(* be in-flight" is not released (gpu_hostcall_print).  Until the host has *)
(* answered, its packets are not free, and have no owner but the caller    *)
(* that waits; and a packet whose answer is awaited is the host's: no push *)
(* or swap of a ready stack loses it.                                      *)
InFlightNotFree ==
  \A p \in InFlight :
     /\ \A s \in Shards : p \notin avail[s]
     /\ \A t \in Callers : pkt[t] = p => pc[t] \in {"ring", "wait"} /\ "READY" \notin control[p]

AwaitedIsInFlight ==
  \A t \in Callers : pc[t] \in {"ring", "wait"} /\ "READY" \notin control[pkt[t]] =>
     pkt[t] \in InFlight

InFlightOwnership == Orderly => InFlightNotFree /\ AwaitedIsInFlight

(* The answer a caller finds in its packet is the answer to its own call,  *)
(* with the error flag set just when the handler failed.                   *)
AnswerIsMine ==
  \A t \in Callers : pc[t] = "wait" /\ "READY" \in control[pkt[t]] =>
     LET r == payload[pkt[t]]
     IN  /\ r.of = t /\ r.call = calls[t]
         /\ r.result = "asked" <=> r.service = "UNKNOWN"
         /\ "ERROR" \in control[pkt[t]] <=> r.result # "ok"

AnswersMatch == Orderly => AnswerIsMine

(* When every caller has returned and none gave up, the shards have all    *)
(* their packets and the host has none.  Shutdown and reinit_packets rely  *)
(* on it: neither looks for requests that are still there.                 *)
QuietPoolIsWhole ==
  program.limits = {} /\ (\A t \in Callers : pc[t] = "idle") =>
    /\ InFlight = {}
    /\ \A s \in Shards : OnFreeStack(s) = ShardPackets(s)

(* The protocol is a remote procedure call: each call is served at most    *)
(* once, an answered call was served, and the caller gets that answer.     *)
RPC == INSTANCE RemoteCall

ExactlyOnce ==
  RPC!RPCInit /\ [][Orderly => RPC!RPCNext]_<<fate, outcome>>

(* Every call returns, if the host answers within the time limits and does *)
(* not drop the session before.                                            *)
EveryCallReturns ==
  \A t \in Callers :
     program.limits = {} /\ ~program.drops /\ pc[t] # "idle" ~> pc[t] = "idle"

(* The session can be shut down or dropped: listener and I/O thread end,   *)
(* with nothing left in the channel, though a kernel still rings.          *)
ShutdownCompletes ==
  shutdown ~> lpc = "exited" /\ ioq = <<>> /\ iopkt = NULL_INDEX

(* The protocol as the free stack sees it.                                 *)
StackPc == [t \in Callers |-> IF pc[t] \in StackLabels THEN pc[t] ELSE "own"]
StackHd == [t \in Callers |-> IF pc[t] = "ready_cas" THEN null_tagged ELSE hd[t]]
Stack == INSTANCE FreeStack WITH pc <- StackPc, hd <- StackHd, LinkWords <- Tagged

ImplementsStack == Stack!StackSpec
=============================================================================
