----------------------------- MODULE Connections -----------------------------
(***************************************************************************)
(* What SshManager promises the operations of SshApi, and through them the *)
(* script: a remote has one connection, made by the first operation that   *)
(* needs it, used by all that follow until one of them finds it broken,    *)
(* and replaced by a new one then and not before.  What happens to one     *)
(* remote leaves the others alone, a failure to connect leaves everything  *)
(* alone, and of the operations only a command may end the run.            *)
(* SshSessions implements it.                                              *)
(***************************************************************************)

CONSTANTS Remotes,
          Connections,
          NoConnection,
          NoCall          \* what call is between two operations

VARIABLES connection,     \* [remote -> its connection or NoConnection]
          used,           \* connections an operation was given
          call,           \* the operation at hand, its kind and remote
          phase           \* "idle"; "waiting" for a connection; "running" on
                          \* it; or how the run ended

vars == <<connection, used, call, phase>>

Init ==
    /\ connection = [r \in Remotes |-> NoConnection]
    /\ used = {} /\ call = NoCall /\ phase = "idle"

Call(kind, r) ==
    /\ phase = "idle" /\ phase' = "waiting"
    /\ call' = [kind |-> kind, remote |-> r]
    /\ UNCHANGED <<connection, used>>

Connected == connection[call.remote] # NoConnection

Reuse ==
    /\ phase = "waiting" /\ Connected /\ phase' = "running"
    /\ UNCHANGED <<connection, used, call>>

\* A connection that was never used before.
Open(c) ==
    /\ phase = "waiting" /\ ~Connected /\ phase' = "running"
    /\ c \notin used /\ used' = used \cup {c}
    /\ connection' = [connection EXCEPT ![call.remote] = c]
    /\ UNCHANGED call

\* The operation is over; a command that failed for want of a connection, or
\* of a channel on it, ends the run.
Return ==
    /\ phase' \in {"idle"} \cup (IF call.kind = "exec" THEN {"ended"} ELSE {})
    /\ call' = NoCall
    /\ UNCHANGED used

Refused == phase = "waiting" /\ ~Connected /\ Return /\ UNCHANGED connection

Done == phase = "running" /\ Return /\ UNCHANGED connection

Broken ==
    /\ phase = "running" /\ Return
    /\ connection' = [connection EXCEPT ![call.remote] = NoConnection]

\* The program does what C++ leaves undefined (on the way to a new connection).
Lapse ==
    /\ phase = "waiting" /\ ~Connected /\ phase' = "undefined"
    /\ UNCHANGED <<connection, used, call>>

Next ==
    \/ \E kind \in {"exec", "upload", "download"}, r \in Remotes : Call(kind, r)
    \/ Reuse \/ \E c \in Connections : Open(c)
    \/ Refused \/ Done \/ Broken \/ Lapse

Spec == Init /\ [][Next]_vars
=============================================================================
