----------------------------- MODULE RemoteCall -----------------------------
(***************************************************************************)
(* What a hostcall promises the GPU code that makes it: a remote procedure *)
(* call.  The host serves each call at most once; a call that returns an   *)
(* answer was served, and returns the answer made for it and no other.  A  *)
(* call may be refused before the host sees it (no free packet).  A caller *)
(* that gives up returns without an answer, and its call may still be      *)
(* served after that.                                                      *)
(***************************************************************************)
EXTENDS Naturals

CONSTANTS Callers,    \* the concurrent users of the service
          MaxCalls    \* the calls each of them makes at most

VARIABLES fate,       \* what has become of each call
          outcome     \* what the caller's latest call returned, "none" before

Calls == 1 .. MaxCalls
Answers == {"ok", "err"}
rpcVars == <<fate, outcome>>

RPCInit == /\ fate = [t \in Callers |-> [n \in Calls |-> "new"]]
           /\ outcome = [t \in Callers |-> "idle"]

(* n is the last call t has issued.                                        *)
Latest(t, n) == /\ fate[t][n] # "new"
                /\ \A m \in Calls : m > n => fate[t][m] = "new"

Issue(t, n) == /\ outcome[t] # "none"
               /\ \A m \in Calls : fate[t][m] = "new" <=> m >= n
               /\ fate' = [fate EXCEPT ![t][n] = "pending"]
               /\ outcome' = [outcome EXCEPT ![t] = "none"]

Refuse(t, n) == /\ outcome[t] = "none"
                /\ Latest(t, n) /\ fate[t][n] = "pending"
                /\ fate' = [fate EXCEPT ![t][n] = "refused"]
                /\ outcome' = [outcome EXCEPT ![t] = "exhausted"]

(* The host runs the call: once, whether or not the caller still waits.    *)
Serve(t, n) == /\ fate[t][n] = "pending"
               /\ \E answer \in Answers : fate' = [fate EXCEPT ![t][n] = answer]
               /\ UNCHANGED outcome

Return(t, n) == /\ outcome[t] = "none"
                /\ Latest(t, n) /\ fate[t][n] \in Answers
                /\ outcome' = [outcome EXCEPT ![t] = fate[t][n]]
                /\ UNCHANGED fate

Abandon(t) == /\ outcome[t] = "none"
              /\ outcome' = [outcome EXCEPT ![t] = "timeout"]
              /\ UNCHANGED fate

RPCNext == \E t \in Callers :
             \/ \E n \in Calls : Issue(t, n) \/ Refuse(t, n) \/ Serve(t, n) \/ Return(t, n)
             \/ Abandon(t)

RPCSpec == RPCInit /\ [][RPCNext]_rpcVars
=============================================================================
