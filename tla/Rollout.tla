------------------------------ MODULE Rollout -------------------------------
(***************************************************************************)
(* What a call kafe.on(role, callable) promises: the hosts that are        *)
(* targets when it is called are visited one at a time, in the order of    *)
(* the inventory, none of them twice; a failure on one host ends the visit *)
(* of the others; the call reports success only after the last of them.    *)
(* ScriptEngine implements it: its loop keeps only the host at hand.       *)
(***************************************************************************)
EXTENDS Naturals

VARIABLES phase,      \* "idle", "running", or "over" when the run has ended
          targets,    \* hosts of the running call, by place in the inventory
          visited,    \* those whose visit has begun
          reply       \* report of the call that has just ended, or "none"

vars == <<phase, targets, visited, reply>>

First(i, S) == i \in S /\ \A j \in S : i <= j

Init == phase = "idle" /\ targets = {} /\ visited = {} /\ reply = "none"

Begin ==
    /\ phase = "idle" /\ phase' = "running"
    /\ targets' \in SUBSET Nat
    /\ \E i \in targets' : First(i, targets') /\ visited' = {i}
    /\ reply' = "none"

Advance ==
    /\ phase = "running"
    /\ \E i \in targets \ visited :
          First(i, targets \ visited) /\ visited' = visited \cup {i}
    /\ reply' = "none"
    /\ UNCHANGED <<phase, targets>>

Leave(result) ==
    /\ phase = "running" /\ phase' = "idle"
    /\ targets' = {} /\ visited' = {}
    /\ reply' = result

Succeed == visited = targets /\ Leave("true")

Fail == Leave("false")

\* A call that visits no host: the role is skipped, or the call is refused.
Skip ==
    /\ phase = "idle"
    /\ reply' \in {"none", "nil", "false"}
    /\ UNCHANGED <<phase, targets, visited>>

Kill ==
    /\ phase # "over" /\ phase' = "over"
    /\ targets' = {} /\ visited' = {} /\ reply' = "none"

Next == Begin \/ Advance \/ Succeed \/ Fail \/ Skip \/ Kill

Spec == Init /\ [][Next]_vars
=============================================================================
