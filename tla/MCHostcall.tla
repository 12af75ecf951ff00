----------------------------- MODULE MCHostcall -----------------------------
(* Instances of the hostcall protocol for TLC.                             *)
EXTENDS Hostcall

CONSTANTS a, b, c, nobody

Role(kind, service) == [kind |-> kind, service |-> service]
Program(roles, limits) == [roles |-> roles, limits |-> limits, drops |-> limits # {}]

PrintCall == Role("print", "PRINT")
TimeCall == Role("request", "TIME")
OpenCall == Role("request", "OPEN")
UnknownCall == Role("request", "UNKNOWN")
AsyncOpen == Role("future", "OPEN")

(* Every way of calling and every treatment by the host, without time      *)
(* limits; callers that leave their packet; requests that time out.        *)
MCScenarios == {Program({PrintCall, TimeCall, OpenCall, UnknownCall, AsyncOpen}, {}),
                Program({PrintCall, AsyncOpen}, {"print", "future"}),
                Program({TimeCall}, {"request"})}
MCPatient == {Program({PrintCall, AsyncOpen}, {})}
MCCrowded == MCPatient \union {Program({AsyncOpen}, {"future"})}
MCTimeouts == {Program({TimeCall}, {"request"})}
MCDropped == {Program({AsyncOpen}, {"future"})}

(* Two callers in one shard; and a third in a shard of its own.            *)
MCOneShard == [t \in {a, b} |-> 0]
MCTwoShards == [t \in {a, b, c} |-> IF t = c THEN 1 ELSE 0]
=============================================================================
