---------------------------- MODULE SshSessions -----------------------------
(***************************************************************************)
(* The SSH sessions of one run: SshManager::get_or_create_session, the     *)
(* handshake in SshSession's constructor, SshPool, and what the operations *)
(* of SshApi do to the session they are handed.                            *)
(*                                                                         *)
(* kafe uses libssh from one thread, blocking, one operation at a time; in *)
(* between any two of its calls the server may close the connection, or    *)
(* fall silent on it.  libssh notices the first (ssh_is_connected) only    *)
(* when an operation touches the socket; on the second kafe waits, since   *)
(* it sets no SSH_OPTIONS_TIMEOUT.  An exec that fails ends the run; a     *)
(* failed transfer is reported to the script, which may try again.         *)
(***************************************************************************)
EXTENDS Naturals, Sequences

CONSTANTS Remotes,      \* remote_id of the inventory items: user@host:port
          MaxHandles,   \* bound on the ssh_session objects of a run
          MaxChannels,  \* channels a server keeps open on one connection
          NoHandle

Handles == 1..MaxHandles

\* A script that names no server makes no session.
ASSUME RemotesAssumption == Remotes # {}
ASSUME MaxHandlesAssumption == MaxHandles \in Nat /\ NoHandle \notin Handles
ASSUME MaxChannelsAssumption == MaxChannels \in Nat \ {0}

VARIABLES user_pass,    \* KAFE_SSH_USER_PASS is set and not empty
          made,         \* ssh_session objects made so far
          remote,       \* [handle -> the remote it was made for]
          active,       \* handles ssh_is_connected answers true for
          up,           \* handles whose connection the server keeps open
          silent,       \* on the connection at hand no answer comes any more
          known,        \* handles whose host key was found in known_hosts
          authenticated,
          offered,      \* methods on the list the handshake at hand was given;
                        \* empty is SSH_AUTH_METHOD_UNKNOWN: it has no list
          tried,        \* methods that handshake has tried, in order
          channels,     \* [handle -> channels open on it]
          lost,         \* [handle -> uploads that failed after scp_init]
          sessions,     \* SshPool::sessions: [remote -> handle or NoHandle]
          op,           \* the operation at hand, its kind and remote, or NoOp
          step,         \* where it is, or "idle", or how the run ended
          current       \* the handle it works on

vars == <<user_pass, made, remote, active, up, silent, known, authenticated,
          tried, offered, channels, lost, sessions, op, step, current>>
servers == <<user_pass, remote>>

Kinds   == {"exec", "upload", "download"}
Methods == {"publickey", "gssapi", "password"}
Over    == {"ended", "undefined"}
Steps   == {"idle", "lookup", "connect", "verify", "none", "authenticate",
            "ready", "running"} \cup Over

NoOp == [kind |-> "none", remote |-> NoHandle]

Init ==
    /\ user_pass \in BOOLEAN
    /\ made = 0 /\ remote = [h \in Handles |-> CHOOSE r \in Remotes : TRUE]
    /\ active = {} /\ up = {} /\ silent = FALSE
    /\ known = {} /\ authenticated = {}
    /\ tried = <<>> /\ offered = {}
    /\ channels = [h \in Handles |-> 0] /\ lost = [h \in Handles |-> 0]
    /\ sessions = [r \in Remotes |-> NoHandle]
    /\ op = NoOp /\ step = "idle" /\ current = NoHandle

-----------------------------------------------------------------------------
(* SshManager and SshPool.                                                 *)

\* The script calls an operation of SshApi for remote r.
Start(kind, r) ==
    /\ step = "idle" /\ step' = "lookup"
    /\ op' = [kind |-> kind, remote |-> r]
    /\ UNCHANGED <<servers, made, active, up, silent, known, authenticated,
                   tried, offered, channels, lost, sessions, current>>

Pooled == sessions[op.remote]

\* Mutants, here and below: a definition changed the way a bug would.  None is
\* part of Spec; each stands before the definition it would replace.
ReusableInverted  == Pooled # NoHandle /\ Pooled \notin active
ReusableUnchecked == Pooled # NoHandle

\* SshManager trusts a pooled session that ssh_is_connected calls connected.
Reusable == Pooled # NoHandle /\ Pooled \in active

ReuseSession ==
    /\ step = "lookup" /\ Reusable
    /\ step' = "ready" /\ current' = Pooled
    /\ UNCHANGED <<servers, made, active, up, silent, known, authenticated,
                   tried, offered, channels, lost, sessions, op>>

RemoveSessionKept ==                    \* not erased from the pool
    /\ step = "lookup" /\ Pooled # NoHandle /\ ~Reusable
    /\ step' = "lookup"
    /\ UNCHANGED <<servers, made, active, up, silent, known, authenticated,
                   tried, offered, channels, lost, sessions, op, current>>

\* A session that is not connected leaves the pool.  SshPool::remove_session
\* reads the map node it has just erased: what happens then is undefined, and
\* in practice the session object is destroyed (its ssh_session is not, since
\* ~SshSession frees only a connected one).
RemoveSession ==
    /\ step = "lookup" /\ Pooled # NoHandle /\ ~Reusable
    /\ sessions' = [sessions EXCEPT ![op.remote] = NoHandle]
    /\ step' \in {"lookup", "undefined"}
    /\ UNCHANGED <<servers, made, active, up, silent, known, authenticated,
                   tried, offered, channels, lost, op, current>>

NewSession ==
    /\ step = "lookup" /\ Pooled = NoHandle /\ made < MaxHandles
    /\ made' = made + 1 /\ current' = made + 1
    /\ remote' = [remote EXCEPT ![made + 1] = op.remote]
    /\ step' = "connect"
    /\ UNCHANGED <<user_pass, active, up, silent, known, authenticated, tried,
                   offered, channels, lost, sessions, op>>

-----------------------------------------------------------------------------
(* SshSession's constructor.                                               *)

\* The operation is over, and with it what was local to it.
Leave(to) ==
    /\ step' = to /\ op' = NoOp /\ current' = NoHandle
    /\ tried' = <<>> /\ offered' = {} /\ silent' = FALSE

\* A RuntimeException: exec lets it through, and the run ends; a transfer
\* reports false and the script runs on.  Nobody disconnects the session.
Fails == Leave(IF op.kind = "exec" THEN "ended" ELSE "idle")

\* The next step of the same operation.
GoTo(to) == step' = to /\ UNCHANGED <<op, current, silent>>

\* A libssh call on the current session found the connection closed.
Noticed == active' = IF current \in up THEN active ELSE active \ {current}

Connect ==
    /\ step = "connect"
    /\ \/ /\ GoTo("verify") /\ UNCHANGED <<tried, offered>>
          /\ active' = active \cup {current} /\ up' = up \cup {current}
       \/ Fails /\ UNCHANGED <<active, up>>
    /\ UNCHANGED <<servers, made, known, authenticated, channels, lost, sessions>>

VerifyHostAnyway ==                     \* goes on with an unknown host
    /\ step = "verify" /\ GoTo("none")
    /\ \/ known' = known \cup {current}
       \/ UNCHANGED known
    /\ UNCHANGED <<servers, made, active, up, authenticated, tried, offered,
                   channels, lost, sessions>>

VerifyHost ==
    /\ step = "verify"
    /\ \/ /\ GoTo("none") /\ UNCHANGED <<tried, offered>>
          /\ known' = known \cup {current}
       \/ Fails /\ UNCHANGED known
    /\ UNCHANGED <<servers, made, active, up, authenticated, channels, lost,
                   sessions>>

\* What the list may hold: methods the constructor knows, or only others.
Lists == SUBSET Methods \cup {{"other"}}

\* ssh_userauth_none, to learn the methods.  There is no list when the server
\* sent an empty one or gave no answer that libssh waited for.
AuthNone ==
    /\ step = "none" /\ Noticed
    /\ \/ /\ current \in up /\ GoTo("authenticate")
          /\ offered' \in Lists /\ (silent => offered' = {})
          /\ UNCHANGED tried
       \/ Fails
    /\ UNCHANGED <<servers, made, up, known, authenticated, channels, lost,
                   sessions>>

Order == <<"publickey", "gssapi", "password">>
Place(m) == CHOOSE i \in 1..3 : Order[i] = m

UsableAnyPass ==                        \* KAFE_SSH_USER_PASS is not looked at
    IF offered = {} THEN {"publickey"} ELSE offered \cap Methods

\* The methods the constructor makes use of; without a list it is the public
\* key, which nobody offered.
Usable == IF offered = {} THEN {"publickey"}
          ELSE {m \in offered \cap Methods : m = "password" => user_pass}

\* Those it will still try.
Untried == {m \in Usable : \A i \in DOMAIN tried : tried[i] # m}

\* Try the first of them.  A success puts the session into the pool.
Authenticate ==
    /\ step = "authenticate" /\ Noticed
    /\ \E m \in Untried :
         /\ \A n \in Untried : Place(m) <= Place(n)
         /\ tried' = Append(tried, m)
    /\ \/ /\ current \in up /\ ~silent /\ GoTo("ready")
          /\ authenticated' = authenticated \cup {current}
          /\ sessions' = [sessions EXCEPT ![op.remote] = current]
       \/ GoTo("authenticate") /\ UNCHANGED <<authenticated, sessions>>
    /\ UNCHANGED <<servers, made, up, known, offered, channels, lost>>

AuthenticationFailed ==
    /\ step = "authenticate" /\ Untried = {} /\ Fails
    /\ UNCHANGED <<servers, made, active, up, known, authenticated, channels,
                   lost, sessions>>

-----------------------------------------------------------------------------
(* The operation on the session: it opens a channel, by itself or through  *)
(* ssh_scp_init, and works on it.  On a silent connection it waits.        *)

CanOpenUnlimited == current \in up

\* A channel can be opened: the connection is there and the server has not
\* reached its limit.
CanOpen == current \in up /\ channels[current] < MaxChannels

OpenChannel ==
    /\ step = "ready" /\ ~silent /\ CanOpen /\ GoTo("running")
    /\ channels' = [channels EXCEPT ![current] = @ + 1]
    /\ UNCHANGED <<servers, made, active, up, known, authenticated, tried,
                   offered, lost, sessions>>

\* No channel is had: the limit is reached, the connection is closed, or the
\* server wants none.
OpenFails ==
    /\ step = "ready" /\ ~silent /\ Noticed /\ Fails
    /\ UNCHANGED <<servers, made, up, known, authenticated, channels, lost,
                   sessions>>

\* ssh_channel_free or ssh_scp_free.
CloseChannel == channels' = [channels EXCEPT ![current] = @ - 1]

\* The command ended, or the file was transferred.
Succeed ==
    /\ step = "running" /\ ~silent /\ current \in up
    /\ Leave("idle") /\ CloseChannel
    /\ UNCHANGED <<servers, made, active, up, known, authenticated, lost,
                   sessions>>

\* The connection goes while the command runs or the file is read: reading ends
\* and the operation returns, a command with exit status -1, a download like one
\* that has the whole file.
CutShort ==
    /\ step = "running" /\ op.kind # "upload" /\ current \notin up
    /\ Noticed /\ Leave("idle") /\ CloseChannel
    /\ UNCHANGED <<servers, made, up, known, authenticated, lost, sessions>>

FailUnclosed ==                         \* an early return keeps the channel
    /\ step = "running" /\ ~silent /\ Noticed /\ Fails
    /\ UNCHANGED <<servers, made, up, known, authenticated, channels, lost,
                   sessions>>

\* The request to run the command, to receive the file or to send it fails: the
\* early returns that free the channel.
FailClean ==
    /\ step = "running" /\ ~silent /\ Noticed /\ Fails /\ CloseChannel
    /\ UNCHANGED <<servers, made, up, known, authenticated, lost, sessions>>

\* scp_push_file or scp_write fails: the exception leaves ssh_scp, and the
\* channel in it, open.
FailLeaking ==
    /\ step = "running" /\ op.kind = "upload" /\ ~silent /\ Noticed /\ Fails
    /\ lost' = [lost EXCEPT ![current] = @ + 1]
    /\ UNCHANGED <<servers, made, up, known, authenticated, channels, sessions>>

-----------------------------------------------------------------------------
(* The servers and the network.                                            *)

\* A connection is closed.
Drop(h) ==
    /\ step \notin Over /\ h \in up
    /\ up' = up \ {h}
    /\ silent' = (silent /\ h # current)
    /\ UNCHANGED <<servers, made, active, known, authenticated, tried, offered,
                   channels, lost, sessions, op, step, current>>

\* The connection at hand stays open and nothing comes on it any more.
Silence ==
    /\ step \in {"none", "authenticate", "ready", "running"}
    /\ current \in up /\ ~silent /\ silent' = TRUE
    /\ UNCHANGED <<servers, made, active, up, known, authenticated, tried,
                   offered, channels, lost, sessions, op, step, current>>

\* The bound of the model: a session is needed and no object for it is left.
OutOfHandles == step = "lookup" /\ Pooled = NoHandle /\ made = MaxHandles

\* The script ends.
Stop ==
    /\ step = "idle" \/ step \in Over \/ OutOfHandles
    /\ UNCHANGED vars

Operation ==
    \/ ReuseSession \/ RemoveSession \/ NewSession
    \/ Connect \/ VerifyHost \/ AuthNone
    \/ Authenticate \/ AuthenticationFailed
    \/ OpenChannel \/ OpenFails
    \/ Succeed \/ CutShort \/ FailClean \/ FailLeaking

Next ==
    \/ \E kind \in Kinds, r \in Remotes : Start(kind, r)
    \/ Operation
    \/ \E h \in Handles : Drop(h)
    \/ Silence
    \/ Stop

Spec == Init /\ [][Next]_vars

\* A command may run for ever on a connection that lasts.
CommandRuns == step = "running" /\ op.kind = "exec" /\ current \in up

\* What kafe waits for without a limit: an answer of a silent server, the end
\* of a remote command.
Waits == silent \/ CommandRuns

\* One thread runs an operation from its start to its end: unless it waits,
\* every libssh call returns, and the next statement follows.
FairSpec == Spec /\ WF_vars(~Waits /\ Operation)

-----------------------------------------------------------------------------
(* What should hold.                                                       *)

\* The state has the shape the comments on the variables give it.
TypeOK ==
    /\ user_pass \in BOOLEAN /\ made \in 0..MaxHandles
    /\ remote \in [Handles -> Remotes]
    /\ active \subseteq Handles /\ up \subseteq active
    /\ silent \in BOOLEAN
    /\ known \subseteq Handles /\ authenticated \subseteq Handles
    /\ tried \in Seq(Methods) /\ offered \in Lists
    /\ channels \in [Handles -> 0..MaxChannels] /\ lost \in [Handles -> Nat]
    /\ sessions \in [Remotes -> Handles \cup {NoHandle}]
    /\ op \in [kind : Kinds, remote : Remotes] \cup {NoOp}
    /\ step \in Steps /\ current \in Handles \cup {NoHandle}

\* A pooled session, and any session an operation works on, belongs to the
\* remote it is filed under, and its host key was verified and its user
\* authenticated: a handshake that was cut short leaves nothing in the pool.
PooledIsUsable ==
    /\ \A r \in Remotes : sessions[r] # NoHandle =>
          /\ remote[sessions[r]] = r
          /\ sessions[r] \in known \cap authenticated
    /\ step \in {"ready", "running"} => sessions[op.remote] = current

\* At most one authenticated session of a remote is connected: reuse never
\* makes a second one beside it.
OneUsableSession ==
    \A g, h \in active \cap authenticated : remote[g] = remote[h] => g = h

\* The handshake tries the methods in the order public key, GSSAPI, password,
\* none of them twice, on a verified host, and the password only if there is
\* one.  A method that is not on the list is tried only when there is no list,
\* and is the public key then.
MethodsInOrder ==
    /\ tried # <<>> => current \in known
    /\ \A i \in DOMAIN tried :
          /\ \/ tried[i] \in offered
             \/ offered = {} /\ tried[i] = "publickey"
          /\ tried[i] = "password" => user_pass
    /\ \A i, j \in DOMAIN tried : i < j => Place(tried[i]) < Place(tried[j])

\* Every channel that was opened is closed by its operation, on each of its
\* ways out, but for the failed uploads: so what a session has open is the
\* channel at work and one for each of those, and a server that refuses a
\* channel because of its limit was brought there by them alone.
ChannelsAccounted ==
    \A h \in Handles :
        channels[h] = lost[h] + IF step = "running" /\ current = h THEN 1 ELSE 0

\* The sessions, as the operations see them: a remote has a connection when the
\* session in its pool is connected, it gets one from a handshake that has gone
\* all its way, and it loses one by an operation that found it closed.  So an
\* operation is never handed a session libssh has seen closed, a connected one is
\* never given up or doubled, and no operation touches another remote's.
CPhase      == CASE step \in {"idle"} \cup Over  -> step
                 [] step \in {"ready", "running"} -> "running"
                 [] OTHER                         -> "waiting"
CConnection == [r \in Remotes |-> IF sessions[r] \in active THEN sessions[r]
                                  ELSE NoHandle]

connections == INSTANCE Connections WITH
                   Connections <- Handles, NoConnection <- NoHandle, NoCall <- NoOp,
                   connection <- CConnection, used <- authenticated,
                   call <- op, phase <- CPhase
ConnectionsSpec == connections!Spec

\* Every operation comes to an end, unless from some moment on kafe waits for a
\* server that is silent or for a command that never ends: no session is looked
\* up, and no method tried, over and over, and a connection that is closed
\* holds nobody.  (Nothing is asked of a run that meets the model's bound.)
OperationEnds ==
    \/ []<>(step \in {"idle"} \cup Over \/ OutOfHandles)
    \/ <>[]Waits

\* "One remote server with unique combination of host, user and port will only
\* have one connection created": violated when authentication fails and the
\* script tries the transfer again, since nobody disconnects the first one.
OneConnectionPerRemote ==
    \A g, h \in active : remote[g] = remote[h] => g = h
=============================================================================
