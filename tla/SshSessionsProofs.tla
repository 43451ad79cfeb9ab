--------------------------- MODULE SshSessionsProofs ---------------------------
(***************************************************************************)
(* Theorems about SshSessions, for every set of remotes and every bound on *)
(* session objects and channels: its invariant, and that it implements     *)
(* Connections.                                                            *)
(***************************************************************************)
EXTENDS SshSessions, SequenceTheorems, TLAPS

Handshake == {"connect", "verify", "none", "authenticate"}
OnSession == {"ready", "running"}
Ops       == [kind : Kinds, remote : Remotes]

\* What an operation under way works on.
OpShape ==
    /\ step \in Handshake \cup OnSession \cup {"lookup"} => op \in Ops
    /\ step \in Handshake \cup OnSession =>
          current \in Handles /\ current <= made /\ remote[current] = op.remote
    /\ step \in Handshake =>
          sessions[op.remote] = NoHandle /\ current \notin authenticated
    /\ step \in {"none", "authenticate"} => current \in known
    /\ step \in OnSession \cup {"authenticate"} \/ tried = <<>>

\* Nothing is known of a session object that was not made.
Made == \A h \in active \cup known \cup authenticated : h <= made

\* A usable session is in the pool, at its remote.
UsableIsPooled == \A h \in active \cap authenticated : sessions[remote[h]] = h

\* The methods still to be tried come after those that were.
UntriedLast ==
    step = "authenticate" =>
        \A m \in Untried : \A i \in DOMAIN tried : Place(tried[i]) < Place(m)

\* An operation is handed a session libssh has not seen closed.
HandedOpen == step \in OnSession => current \in active

IInv ==
    /\ TypeOK
    /\ OpShape
    /\ Made
    /\ PooledIsUsable
    /\ UsableIsPooled
    /\ HandedOpen
    /\ MethodsInOrder
    /\ UntriedLast
    /\ ChannelsAccounted

-----------------------------------------------------------------------------
LEMMA Places ==
    /\ Place("publickey") = 1
    /\ Place("gssapi") = 2
    /\ Place("password") = 3
BY DEF Place, Order

\* The places tell the methods apart.
LEMMA PlacesDiffer ==
    ASSUME NEW m \in Methods, NEW n \in Methods
    PROVE  /\ Place(m) \in 1..3
           /\ Place(m) <= Place(n) /\ m # n => Place(m) < Place(n)
BY Places DEF Methods

LEMMA InitInv == Init => IInv
<1> SUFFICES ASSUME Init PROVE IInv  OBVIOUS
<1>1. (CHOOSE r \in Remotes : TRUE) \in Remotes
  BY RemotesAssumption
<1>2. TypeOK
  <2>1. remote \in [Handles -> Remotes] /\ sessions \in [Remotes -> {NoHandle}]
    BY <1>1 DEF Init
  <2>2. channels \in [Handles -> 0..MaxChannels] /\ lost \in [Handles -> Nat]
    BY MaxChannelsAssumption DEF Init
  <2>3. sessions \in [Remotes -> Handles \cup {NoHandle}]
    BY <2>1
  <2>4. tried \in Seq(Methods)
    BY EmptySeq DEF Init
  <2>5. /\ user_pass \in BOOLEAN /\ made \in 0..MaxHandles
        /\ active \subseteq Handles /\ up \subseteq active
        /\ known \subseteq Handles /\ authenticated \subseteq Handles
        /\ silent \in BOOLEAN
    <3>1. made \in 0..MaxHandles
      BY MaxHandlesAssumption DEF Init
    <3>2. active = {} /\ up = {} /\ silent = FALSE /\ known = {} /\ authenticated = {}
          /\ user_pass \in BOOLEAN
      BY Zenon DEF Init
    <3> QED  BY <3>1, <3>2
  <2>6. /\ op \in [kind : Kinds, remote : Remotes] \cup {NoOp}
        /\ step \in Steps /\ current \in Handles \cup {NoHandle}
    BY DEF Init, Steps
  <2>7. offered \in Lists
    <3>1. {} \in SUBSET Methods
      OBVIOUS
    <3>2. {} \in Lists
      BY <3>1, Zenon DEF Lists
    <3>3. offered = {}
      BY Zenon DEF Init
    <3> QED  BY <3>2, <3>3, Zenon
  <2> QED  BY <2>1, <2>2, <2>3, <2>4, <2>5, <2>6, <2>7 DEF TypeOK
<1>3. DOMAIN tried = {}
  BY DEF Init
<1>4. MethodsInOrder /\ UntriedLast
  BY <1>3 DEF Init, MethodsInOrder, UntriedLast
<1>5. OpShape /\ Made /\ UsableIsPooled /\ HandedOpen /\ ChannelsAccounted
  BY DEF Init, OpShape, Handshake, OnSession, Made, UsableIsPooled, HandedOpen,
     ChannelsAccounted
<1>6. PooledIsUsable
  BY DEF Init, PooledIsUsable
<1> QED  BY <1>2, <1>4, <1>5, <1>6 DEF IInv

\* An operation ends, well or not: what it held is let go, what was noticed of
\* its session is kept.
LEMMA LeaveKeepsInv ==
    ASSUME IInv, NEW to \in {"idle", "ended"}, Leave(to),
           active' \subseteq active, up \subseteq active',
           \A h \in Handles : channels'[h] = lost'[h],
           channels' \in [Handles -> 0..MaxChannels], lost' \in [Handles -> Nat],
           UNCHANGED <<servers, made, up, known, authenticated, sessions>>
    PROVE  IInv'
<1> USE DEF IInv
<1>1. TypeOK'
  BY EmptySeq DEF TypeOK, Leave, servers, Steps, Over, Lists
<1>2. DOMAIN tried' = {}
  BY DEF Leave
<1>3. MethodsInOrder' /\ UntriedLast'
  BY <1>2 DEF MethodsInOrder, UntriedLast, Leave
<1>4. OpShape' /\ HandedOpen' /\ ChannelsAccounted'
  BY DEF OpShape, HandedOpen, ChannelsAccounted, Leave, Handshake, OnSession
<1>5. Made' /\ UsableIsPooled'
  BY DEF Made, UsableIsPooled, servers
<1>6. PooledIsUsable'
  BY DEF PooledIsUsable, Leave, servers
<1> QED  BY <1>1, <1>3, <1>4, <1>5, <1>6

\* A step that leaves the handshake's methods alone.
LEMMA SameMethods ==
    ASSUME IInv, UNCHANGED <<tried, offered, user_pass>>,
           tried = <<>> \/ current' = current, known \subseteq known'
    PROVE  MethodsInOrder'
<1>1. CASE tried = <<>>
  <2>1. DOMAIN tried' = {}
    BY <1>1
  <2> QED  BY <1>1, <2>1 DEF MethodsInOrder
<1>2. CASE current' = current
  BY <1>2 DEF IInv, MethodsInOrder
<1> QED  BY <1>1, <1>2

\* Between two operations, and until a channel is opened, the channels of the
\* failed uploads are all there is, ...
LEMMA NoChannelAtWork ==
    ASSUME IInv, step # "running"
    PROVE  /\ \A h \in Handles : channels[h] = lost[h]
           /\ channels \in [Handles -> 0..MaxChannels] /\ lost \in [Handles -> Nat]
BY DEF IInv, TypeOK, ChannelsAccounted

\* ... and while one is at work, it is the only one more.
LEMMA ChannelAtWork ==
    ASSUME IInv, step = "running"
    PROVE  /\ current \in Handles /\ channels[current] = lost[current] + 1
           /\ \A h \in Handles \ {current} : channels[h] = lost[h]
           /\ channels \in [Handles -> 0..MaxChannels] /\ lost \in [Handles -> Nat]
<1>1. current \in Handles
  BY DEF IInv, OpShape, OnSession
<1> QED  BY <1>1 DEF IInv, TypeOK, ChannelsAccounted

LEMMA StartKeepsInv ==
    ASSUME IInv, NEW kind \in Kinds, NEW r \in Remotes, Start(kind, r)
    PROVE  IInv'
<1> USE DEF IInv, Start, servers
<1>1. TypeOK'
  BY DEF TypeOK, Steps
<1>2. OpShape' /\ HandedOpen' /\ UntriedLast'
  BY DEF OpShape, Handshake, OnSession, Ops, HandedOpen, UntriedLast
<1>3. MethodsInOrder'
  BY SameMethods
<1>4. Made' /\ UsableIsPooled' /\ ChannelsAccounted' /\ PooledIsUsable'
  BY DEF Made, UsableIsPooled, ChannelsAccounted, PooledIsUsable
<1> QED  BY <1>1, <1>2, <1>3, <1>4

LEMMA ReuseSessionKeepsInv ==
    ASSUME IInv, ReuseSession
    PROVE  IInv'
<1> USE DEF IInv, ReuseSession, servers
<1>1. op \in Ops /\ op.remote \in Remotes /\ tried = <<>>
  BY DEF OpShape, Handshake, OnSession, Ops
<1>2. /\ current' \in Handles /\ current' \in active
      /\ current' = sessions[op.remote] /\ current' # NoHandle
  BY <1>1 DEF TypeOK, Pooled, Reusable
<1>3. TypeOK'
  BY <1>2 DEF TypeOK, Steps
<1>4. OpShape'
  BY <1>1, <1>2 DEF OpShape, Handshake, OnSession, Made, PooledIsUsable
<1>5. HandedOpen' /\ UntriedLast' /\ PooledIsUsable'
  BY <1>2 DEF HandedOpen, OnSession, UntriedLast, PooledIsUsable
<1>6. MethodsInOrder'
  BY <1>1, SameMethods
<1>7. Made' /\ UsableIsPooled' /\ ChannelsAccounted'
  BY DEF Made, UsableIsPooled, ChannelsAccounted
<1> QED  BY <1>3, <1>4, <1>5, <1>6, <1>7

LEMMA RemoveSessionKeepsInv ==
    ASSUME IInv, RemoveSession
    PROVE  IInv'
<1> USE DEF IInv, RemoveSession, servers
<1>1. op \in Ops /\ op.remote \in Remotes /\ tried = <<>>
  BY DEF OpShape, Handshake, OnSession, Ops
<1>2. TypeOK'
  BY <1>1 DEF TypeOK, Steps, Over
<1>3. OpShape' /\ HandedOpen' /\ UntriedLast'
  BY <1>1 DEF OpShape, Handshake, OnSession, HandedOpen, UntriedLast
<1>4. MethodsInOrder'
  BY <1>1, SameMethods
<1>5. UsableIsPooled'
  BY <1>1 DEF UsableIsPooled, Reusable, Pooled, TypeOK
<1>6. PooledIsUsable'
  BY <1>1 DEF PooledIsUsable, TypeOK
<1>7. Made' /\ ChannelsAccounted'
  BY DEF Made, ChannelsAccounted
<1> QED  BY <1>2, <1>3, <1>4, <1>5, <1>6, <1>7

LEMMA NewSessionKeepsInv ==
    ASSUME IInv, NewSession
    PROVE  IInv'
<1> USE DEF IInv, NewSession
<1>1. op \in Ops /\ op.remote \in Remotes /\ tried = <<>>
  BY DEF OpShape, Handshake, OnSession, Ops
<1>2. made + 1 \in Handles /\ made' \in 0..MaxHandles
  BY MaxHandlesAssumption DEF TypeOK, Handles
<1>3. made + 1 \notin active \cup known \cup authenticated
  BY DEF Made, TypeOK
<1>4. /\ \A h \in active \cup known \cup authenticated : remote'[h] = remote[h]
      /\ remote'[made + 1] = op.remote
  BY <1>2, <1>3 DEF TypeOK
<1>5. TypeOK'
  BY <1>1, <1>2 DEF TypeOK, Steps
<1>6. OpShape'
  BY <1>1, <1>2, <1>3, <1>4 DEF OpShape, Handshake, OnSession, Pooled
<1>7. HandedOpen' /\ UntriedLast'
  BY DEF HandedOpen, OnSession, UntriedLast
<1>8. MethodsInOrder'
  BY <1>1, SameMethods
<1>9. UsableIsPooled' /\ PooledIsUsable'
  BY <1>4 DEF UsableIsPooled, PooledIsUsable
<1>10. Made'
  BY <1>2 DEF Made, TypeOK, Handles
<1>11. ChannelsAccounted'
  BY DEF ChannelsAccounted
<1> QED  BY <1>5, <1>6, <1>7, <1>8, <1>9, <1>10, <1>11
-----------------------------------------------------------------------------
\* What an operation notices of a closed connection, it notices of that only.
LEMMA NoticedShape ==
    ASSUME TypeOK, Noticed
    PROVE  /\ active' \subseteq active
           /\ up \subseteq active'
           /\ current \in up => active' = active
           /\ active' \subseteq Handles
BY DEF TypeOK, Noticed

\* A failure that opens no channel.
LEMMA FailsKeepsInv ==
    ASSUME IInv, step # "running", Fails,
           active' \subseteq active, up \subseteq active',
           UNCHANGED <<servers, made, up, known, authenticated, channels, lost,
                       sessions>>
    PROVE  IInv'
<1>1. \E to \in {"idle", "ended"} : Leave(to)
  BY DEF Fails
<1>2. PICK to \in {"idle", "ended"} : Leave(to)
  BY <1>1
<1>3. /\ \A h \in Handles : channels'[h] = lost'[h]
      /\ channels' \in [Handles -> 0..MaxChannels] /\ lost' \in [Handles -> Nat]
  BY NoChannelAtWork
<1> QED  BY <1>2, <1>3, LeaveKeepsInv

LEMMA ConnectKeepsInv ==
    ASSUME IInv, Connect
    PROVE  IInv'
<1>1. CASE Fails /\ UNCHANGED <<active, up>>
  <2>1. active' \subseteq active /\ up \subseteq active'
    BY <1>1 DEF IInv, TypeOK
  <2> QED  BY <1>1, <2>1, FailsKeepsInv DEF Connect
<1>2. CASE /\ GoTo("verify") /\ UNCHANGED <<tried, offered>>
           /\ active' = active \cup {current} /\ up' = up \cup {current}
  <2> USE <1>2 DEF IInv, Connect, GoTo, servers
  <2>1. /\ op \in Ops /\ current \in Handles /\ current <= made /\ tried = <<>>
        /\ current \notin authenticated
    BY DEF OpShape, Handshake, OnSession
  <2>2. TypeOK'
    BY <2>1 DEF TypeOK, Steps
  <2>3. OpShape' /\ Made'
    BY <2>1 DEF OpShape, Handshake, OnSession, Made
  <2>4. HandedOpen' /\ UntriedLast' /\ ChannelsAccounted'
    BY DEF HandedOpen, OnSession, UntriedLast, ChannelsAccounted
  <2>5. MethodsInOrder'
    BY <2>1, SameMethods
  <2>6. UsableIsPooled' /\ PooledIsUsable'
    BY <2>1 DEF UsableIsPooled, PooledIsUsable
  <2> QED  BY <2>2, <2>3, <2>4, <2>5, <2>6
<1> QED  BY <1>1, <1>2 DEF Connect

LEMMA VerifyHostKeepsInv ==
    ASSUME IInv, VerifyHost
    PROVE  IInv'
<1>1. CASE Fails /\ UNCHANGED known
  <2>1. active' \subseteq active /\ up \subseteq active'
    BY DEF IInv, TypeOK, VerifyHost
  <2> QED  BY <1>1, <2>1, FailsKeepsInv DEF VerifyHost
<1>2. CASE /\ GoTo("none") /\ UNCHANGED <<tried, offered>>
           /\ known' = known \cup {current}
  <2> USE <1>2 DEF IInv, VerifyHost, GoTo, servers
  <2>1. /\ op \in Ops /\ current \in Handles /\ current <= made /\ tried = <<>>
    BY DEF OpShape, Handshake, OnSession
  <2>2. TypeOK'
    BY <2>1 DEF TypeOK, Steps
  <2>3. OpShape' /\ Made'
    BY <2>1 DEF OpShape, Handshake, OnSession, Made
  <2>4. HandedOpen' /\ UntriedLast' /\ ChannelsAccounted'
    BY DEF HandedOpen, OnSession, UntriedLast, ChannelsAccounted
  <2>5. MethodsInOrder'
    BY <2>1, SameMethods
  <2>6. UsableIsPooled' /\ PooledIsUsable'
    BY DEF UsableIsPooled, PooledIsUsable
  <2> QED  BY <2>2, <2>3, <2>4, <2>5, <2>6
<1> QED  BY <1>1, <1>2 DEF VerifyHost

LEMMA AuthNoneKeepsInv ==
    ASSUME IInv, AuthNone
    PROVE  IInv'
<1>1. active' \subseteq active /\ up \subseteq active'
  BY NoticedShape DEF IInv, AuthNone
<1>2. CASE Fails
  BY <1>1, <1>2, FailsKeepsInv DEF AuthNone
<1>3. CASE /\ current \in up /\ GoTo("authenticate")
           /\ offered' \in Lists /\ (silent => offered' = {})
           /\ UNCHANGED tried
  <2> USE <1>1, <1>3 DEF IInv, AuthNone, GoTo, servers
  <2>1. /\ op \in Ops /\ current \in known /\ tried = <<>> /\ DOMAIN tried = {}
    BY DEF OpShape, Handshake, OnSession
  <2>2. TypeOK'
    BY DEF TypeOK, Steps
  <2>3. OpShape' /\ Made'
    BY <2>1 DEF OpShape, Handshake, OnSession, Made
  <2>4. HandedOpen' /\ UntriedLast' /\ ChannelsAccounted'
    BY <2>1 DEF HandedOpen, OnSession, UntriedLast, ChannelsAccounted
  <2>5. MethodsInOrder'
    BY <2>1 DEF MethodsInOrder
  <2>6. UsableIsPooled' /\ PooledIsUsable'
    BY DEF UsableIsPooled, PooledIsUsable
  <2> QED  BY <2>2, <2>3, <2>4, <2>5, <2>6
<1> QED  BY <1>2, <1>3 DEF AuthNone

\* A method appended to those tried is later than each of them, and the ones
\* still untried are later than it.
LEMMA TriedGrows ==
    ASSUME IInv, step = "authenticate",
           UNCHANGED <<offered, user_pass, known, current>>,
           NEW m \in Untried, \A n \in Untried : Place(m) <= Place(n),
           tried' = Append(tried, m)
    PROVE  tried' \in Seq(Methods) /\ MethodsInOrder' /\ UntriedLast'
<1> DEFINE len == Len(tried)
<1>0. /\ m = "password" => user_pass
      /\ m \in offered \/ (offered = {} /\ m = "publickey")
  BY DEF Untried, Usable
<1>1. m \in Methods /\ tried \in Seq(Methods)
  BY DEF IInv, TypeOK, Untried, Usable, Methods
<1>2. len \in Nat /\ DOMAIN tried = 1..len /\ DOMAIN tried' = 1..(len + 1)
  BY <1>1
<1>3. tried'[len + 1] = m /\ \A i \in 1..len : tried'[i] = tried[i]
  BY <1>1
<1>4. \A i \in 1..len : /\ \/ tried[i] \in offered
                           \/ offered = {} /\ tried[i] = "publickey"
                        /\ tried[i] = "password" => user_pass
                        /\ tried[i] \in Methods
                        /\ Place(tried[i]) < Place(m)
  BY <1>1, <1>2 DEF IInv, MethodsInOrder, UntriedLast
<1> HIDE DEF len
<1>5. tried' \in Seq(Methods)
  BY <1>1, AppendProperties
<1>6. \A i \in DOMAIN tried' : /\ \/ tried'[i] \in offered'
                                  \/ offered' = {} /\ tried'[i] = "publickey"
                               /\ tried'[i] = "password" => user_pass'
  <2> SUFFICES ASSUME NEW i \in 1..(len + 1)
               PROVE  /\ \/ tried'[i] \in offered
                         \/ offered = {} /\ tried'[i] = "publickey"
                      /\ tried'[i] = "password" => user_pass
    BY <1>2
  <2>1. i \in 1..len \/ i = len + 1
    BY <1>2
  <2>2. CASE i \in 1..len
    <3>1. tried'[i] = tried[i]
      BY <2>2, <1>3
    <3> QED  BY <1>4, <2>2, <3>1, Zenon
  <2>3. CASE i = len + 1
    BY <1>0, <1>3, <2>3, Zenon
  <2> QED  BY <2>1, <2>2, <2>3
<1>7. \A i, j \in DOMAIN tried' : i < j => Place(tried'[i]) < Place(tried'[j])
  <2> SUFFICES ASSUME NEW i \in 1..(len + 1), NEW j \in 1..(len + 1), i < j
               PROVE  Place(tried'[i]) < Place(tried'[j])
    BY <1>2
  <2>1. i \in 1..len
    BY <1>2
  <2>2. CASE j = len + 1
    BY <2>1, <2>2, <1>3, <1>4
  <2>3. CASE j \in 1..len
    BY <2>1, <2>3, <1>2, <1>3 DEF IInv, MethodsInOrder
  <2> QED  BY <1>2, <2>2, <2>3
<1>8. \A n \in Untried' : \A i \in DOMAIN tried' : Place(tried'[i]) < Place(n)
  <2> SUFFICES ASSUME NEW n \in Untried', NEW i \in 1..(len + 1)
               PROVE  Place(tried'[i]) < Place(n)
    BY <1>2
  <2>1. n \in Untried /\ n # m /\ n \in Methods
    BY <1>1, <1>2, <1>3 DEF Untried, Usable, Methods
  <2>2. Place(m) < Place(n)
    <3>1. Place(m) <= Place(n)
      BY <2>1
    <3> QED  BY <1>1, <2>1, <3>1, PlacesDiffer
  <2>3. CASE i = len + 1
    BY <2>2, <2>3, <1>3
  <2>4. CASE i \in 1..len
    BY <2>1, <2>4, <1>2, <1>3 DEF IInv, UntriedLast
  <2> QED  BY <1>2, <2>3, <2>4
<1>9. current' \in known'
  BY DEF IInv, OpShape
<1>10. MethodsInOrder'
  BY <1>6, <1>7, <1>9 DEF MethodsInOrder
<1>11. UntriedLast'
  BY <1>8 DEF UntriedLast
<1> QED  BY <1>5, <1>10, <1>11

LEMMA AuthenticateKeepsInv ==
    ASSUME IInv, Authenticate
    PROVE  IInv'
<1>1. /\ active' \subseteq active /\ up \subseteq active'
      /\ current \in up => active' = active
  BY NoticedShape DEF IInv, Authenticate
<1>2. PICK m \in Untried : /\ \A n \in Untried : Place(m) <= Place(n)
                           /\ tried' = Append(tried, m)
  BY DEF Authenticate
<1>3. tried' \in Seq(Methods) /\ MethodsInOrder' /\ UntriedLast'
  BY <1>2, TriedGrows DEF Authenticate, GoTo, servers
<1>4. /\ op \in Ops /\ op.remote \in Remotes
      /\ current \in Handles /\ current <= made /\ current \in known
      /\ remote[current] = op.remote /\ sessions[op.remote] = NoHandle
      /\ current # NoHandle
  BY MaxHandlesAssumption
     DEF IInv, OpShape, Handshake, OnSession, Ops, Authenticate
<1>5. CASE /\ current \in up /\ ~silent /\ GoTo("ready")
           /\ authenticated' = authenticated \cup {current}
           /\ sessions' = [sessions EXCEPT ![op.remote] = current]
  <2> USE <1>1, <1>4, <1>5 DEF IInv, Authenticate, GoTo, servers
  <2>1. TypeOK'
    BY <1>3 DEF TypeOK, Steps
  <2>2. OpShape' /\ Made'
    BY DEF OpShape, Handshake, OnSession, Made
  <2>3. HandedOpen' /\ ChannelsAccounted'
    BY DEF HandedOpen, OnSession, ChannelsAccounted, TypeOK
  <2>5. sessions'[op.remote] = current
        /\ \A r \in Remotes \ {op.remote} : sessions'[r] = sessions[r]
    BY DEF TypeOK
  <2>6. UsableIsPooled'
    <3> SUFFICES ASSUME NEW h \in active' \cap authenticated'
                 PROVE  sessions'[remote[h]] = h
      BY DEF UsableIsPooled
    <3>1. h \in Handles /\ remote[h] \in Remotes
      BY DEF TypeOK
    <3>2. CASE h = current
      BY <3>2, <2>5
    <3>3. CASE h # current
      <4>1. h \in active \cap authenticated /\ sessions[remote[h]] = h
        BY <3>3 DEF UsableIsPooled
      <4>2. remote[h] # op.remote
        BY <4>1, <3>1, MaxHandlesAssumption
      <4> QED  BY <4>1, <4>2, <3>1, <2>5
    <3> QED  BY <3>2, <3>3
  <2>7. PooledIsUsable'
    BY <2>5 DEF PooledIsUsable
  <2> QED  BY <1>3, <2>1, <2>2, <2>3, <2>6, <2>7
<1>6. CASE GoTo("authenticate") /\ UNCHANGED <<authenticated, sessions>>
  <2> USE <1>1, <1>4, <1>6 DEF IInv, Authenticate, GoTo, servers
  <2>1. TypeOK'
    BY <1>3 DEF TypeOK, Steps
  <2>2. OpShape' /\ Made'
    BY DEF OpShape, Handshake, OnSession, Made
  <2>3. HandedOpen' /\ ChannelsAccounted'
    BY DEF HandedOpen, OnSession, ChannelsAccounted
  <2>5. UsableIsPooled' /\ PooledIsUsable'
    BY DEF UsableIsPooled, PooledIsUsable
  <2> QED  BY <1>3, <2>1, <2>2, <2>3, <2>5
<1> QED  BY <1>5, <1>6 DEF Authenticate

-----------------------------------------------------------------------------
LEMMA OpenChannelKeepsInv ==
    ASSUME IInv, OpenChannel
    PROVE  IInv'
<1> USE DEF IInv, OpenChannel, GoTo, servers
<1>1. current \in Handles
  BY DEF OpShape, OnSession
<1>2. /\ \A h \in Handles : channels[h] = lost[h]
      /\ channels \in [Handles -> 0..MaxChannels] /\ lost \in [Handles -> Nat]
      /\ channels[current] < MaxChannels
  BY NoChannelAtWork DEF CanOpen
<1>3. /\ channels' \in [Handles -> 0..MaxChannels]
      /\ channels'[current] = lost[current] + 1
      /\ \A h \in Handles \ {current} : channels'[h] = lost[h]
  BY <1>1, <1>2, MaxChannelsAssumption
<1>4. TypeOK'
  BY <1>3 DEF TypeOK, Steps
<1>5. ChannelsAccounted'
  BY <1>2, <1>3 DEF ChannelsAccounted
<1>6. OpShape' /\ Made' /\ HandedOpen'
  BY DEF OpShape, Made, HandedOpen, Handshake, OnSession
<1>7. MethodsInOrder' /\ UntriedLast'
  BY DEF MethodsInOrder, UntriedLast
<1>8. UsableIsPooled' /\ PooledIsUsable'
  BY DEF UsableIsPooled, PooledIsUsable
<1> QED  BY <1>4, <1>5, <1>6, <1>7, <1>8

\* The operation leaves its channel open and counts it as lost.
LEMMA FailLeakingKeepsInv ==
    ASSUME IInv, FailLeaking
    PROVE  IInv'
<1> USE DEF FailLeaking
<1>1. /\ current \in Handles /\ channels[current] = lost[current] + 1
      /\ \A h \in Handles \ {current} : channels[h] = lost[h]
      /\ channels \in [Handles -> 0..MaxChannels] /\ lost \in [Handles -> Nat]
  BY ChannelAtWork
<1>2. /\ lost' \in [Handles -> Nat] /\ channels' \in [Handles -> 0..MaxChannels]
      /\ \A h \in Handles : channels'[h] = lost'[h]
  BY <1>1
<1>3. PICK to \in {"idle", "ended"} : Leave(to)
  BY DEF Fails
<1>4. active' \subseteq active /\ up \subseteq active'
  BY NoticedShape DEF IInv
<1> QED  BY <1>2, <1>3, <1>4, LeaveKeepsInv

\* The operation closes its channel, having failed or not.
LEMMA ClosingKeepsInv ==
    ASSUME IInv, Succeed \/ CutShort \/ FailClean
    PROVE  IInv'
<1>1. /\ current \in Handles /\ channels[current] = lost[current] + 1
      /\ \A h \in Handles \ {current} : channels[h] = lost[h]
      /\ channels \in [Handles -> 0..MaxChannels] /\ lost \in [Handles -> Nat]
  BY ChannelAtWork DEF Succeed, CutShort, FailClean
<1>2. channels' = [channels EXCEPT ![current] = @ - 1] /\ lost' = lost
  BY DEF Succeed, CutShort, FailClean, CloseChannel
<1>3. /\ channels' \in [Handles -> 0..MaxChannels] /\ lost' \in [Handles -> Nat]
      /\ \A h \in Handles : channels'[h] = lost'[h]
  <2>1. /\ channels[current] - 1 = lost[current]
        /\ channels[current] - 1 \in 0..MaxChannels
    BY <1>1, MaxChannelsAssumption
  <2>2. /\ channels'[current] = lost[current]
        /\ \A h \in Handles \ {current} : channels'[h] = lost[h]
    BY <1>1, <1>2, <2>1
  <2>3. channels' \in [Handles -> 0..MaxChannels]
    BY <1>1, <1>2, <2>1
  <2> QED  BY <1>1, <1>2, <2>2, <2>3
<1>4. active' \subseteq active /\ up \subseteq active'
  BY NoticedShape DEF IInv, TypeOK, Succeed, CutShort, FailClean
<1>5. PICK to \in {"idle", "ended"} : Leave(to)
  BY DEF Fails, Succeed, CutShort, FailClean
<1>6. UNCHANGED <<servers, made, up, known, authenticated, sessions>>
  BY DEF Succeed, CutShort, FailClean
<1> QED  BY <1>3, <1>4, <1>5, <1>6, LeaveKeepsInv

\* No method is left, or no channel is had.
LEMMA NeverOpenedKeepsInv ==
    ASSUME IInv, AuthenticationFailed \/ OpenFails
    PROVE  IInv'
<1>1. step # "running" /\ Fails
  BY DEF AuthenticationFailed, OpenFails
<1>2. active' \subseteq active /\ up \subseteq active'
  BY NoticedShape DEF IInv, TypeOK, AuthenticationFailed, OpenFails
<1> QED  BY <1>1, <1>2, FailsKeepsInv DEF AuthenticationFailed, OpenFails

LEMMA DropKeepsInv ==
    ASSUME IInv, NEW h \in Handles, Drop(h)
    PROVE  IInv'
<1> USE DEF IInv, Drop, servers
<1>1. TypeOK'
  BY DEF TypeOK
<1>2. OpShape' /\ Made' /\ HandedOpen' /\ ChannelsAccounted'
  BY DEF OpShape, Made, HandedOpen, OnSession, ChannelsAccounted
<1>3. MethodsInOrder' /\ UntriedLast'
  BY DEF MethodsInOrder, UntriedLast, Untried, Usable
<1>4. UsableIsPooled' /\ PooledIsUsable'
  BY DEF UsableIsPooled, PooledIsUsable
<1> QED  BY <1>1, <1>2, <1>3, <1>4

LEMMA SilenceKeepsInv ==
    ASSUME IInv, Silence
    PROVE  IInv'
<1> USE DEF IInv, Silence, servers
<1>1. TypeOK'
  BY DEF TypeOK
<1>2. OpShape' /\ Made' /\ HandedOpen' /\ ChannelsAccounted'
  BY DEF OpShape, Made, HandedOpen, ChannelsAccounted
<1>3. MethodsInOrder' /\ UntriedLast'
  BY DEF MethodsInOrder, UntriedLast, Untried, Usable
<1>4. UsableIsPooled' /\ PooledIsUsable'
  BY DEF UsableIsPooled, PooledIsUsable
<1> QED  BY <1>1, <1>2, <1>3, <1>4

LEMMA StutterKeepsInv ==
    ASSUME IInv, UNCHANGED vars
    PROVE  IInv'
<1> USE DEF IInv, vars
<1>1. TypeOK'
  BY DEF TypeOK
<1>2. OpShape' /\ Made' /\ HandedOpen' /\ ChannelsAccounted'
  BY DEF OpShape, Made, HandedOpen, OnSession, ChannelsAccounted
<1>3. MethodsInOrder' /\ UntriedLast'
  BY DEF MethodsInOrder, UntriedLast, Untried, Usable
<1>4. UsableIsPooled' /\ PooledIsUsable'
  BY DEF UsableIsPooled, PooledIsUsable
<1> QED  BY <1>1, <1>2, <1>3, <1>4

LEMMA NextKeepsInv ==
    ASSUME IInv, [Next]_vars
    PROVE  IInv'
<1>1. ASSUME NEW kind \in Kinds, NEW r \in Remotes, Start(kind, r) PROVE IInv'
  BY <1>1, StartKeepsInv
<1>2. CASE ReuseSession \/ RemoveSession \/ NewSession
  BY <1>2, ReuseSessionKeepsInv, RemoveSessionKeepsInv, NewSessionKeepsInv
<1>3. CASE Connect \/ VerifyHost \/ AuthNone \/ Authenticate
  BY <1>3, ConnectKeepsInv, VerifyHostKeepsInv, AuthNoneKeepsInv,
     AuthenticateKeepsInv
<1>4. CASE Succeed \/ CutShort \/ FailClean \/ FailLeaking
  BY <1>4, ClosingKeepsInv, FailLeakingKeepsInv
<1>5. CASE AuthenticationFailed \/ OpenFails \/ OpenChannel
  BY <1>5, NeverOpenedKeepsInv, OpenChannelKeepsInv
<1>6. ASSUME NEW h \in Handles, Drop(h) PROVE IInv'
  BY <1>6, DropKeepsInv
<1>7. CASE Silence \/ Stop \/ UNCHANGED vars
  BY <1>7, SilenceKeepsInv, StutterKeepsInv DEF Stop
<1> QED
  BY <1>1, <1>2, <1>3, <1>4, <1>5, <1>6, <1>7 DEF Next, Operation

LEMMA InvAlways == Spec => []IInv
BY InitInv, NextKeepsInv, PTL DEF Spec

-----------------------------------------------------------------------------
\* Every variable keeps the values the code can give it; no libssh session has
\* more channels than its server allows.
THEOREM TypeCorrect == Spec => []TypeOK
<1>1. IInv => TypeOK
  BY DEF IInv
<1> QED  BY <1>1, InvAlways, PTL

\* SshPool holds sessions of verified hosts and authenticated users only, each
\* under its own remote, and an operation is handed the one its remote has.
THEOREM PoolHoldsUsable == Spec => []PooledIsUsable
<1>1. IInv => PooledIsUsable
  BY DEF IInv
<1> QED  BY <1>1, InvAlways, PTL

\* get_or_create_session never makes a second usable connection to a remote.
THEOREM OneSessionPerRemote == Spec => []OneUsableSession
<1>1. IInv => OneUsableSession
  BY DEF IInv, UsableIsPooled, OneUsableSession
<1> QED  BY <1>1, InvAlways, PTL

\* The constructor of SshSession tries public key, GSSAPI and password in that
\* order, once each, only on a host whose key it has verified, and none that is
\* not on the server's list, except the public key when there is no list.
THEOREM MethodsTriedInOrder == Spec => []MethodsInOrder
<1>1. IInv => MethodsInOrder
  BY DEF IInv
<1> QED  BY <1>1, InvAlways, PTL

\* A session has open the channel of the operation on it and one for each upload
\* that failed: every other way out of an operation closes what it opened.
THEOREM OnlyUploadsLeak == Spec => []ChannelsAccounted
<1>1. IInv => ChannelsAccounted
  BY DEF IInv
<1> QED  BY <1>1, InvAlways, PTL

-----------------------------------------------------------------------------
(* SshSessions implements Connections.                                     *)

Refines == [connections!Next]_(connections!vars)

\* A remote is connected when what it has in the pool is.
LEMMA ConnectionIs ==
    ASSUME IInv, NEW r \in Remotes
    PROVE  /\ CConnection[r] = IF sessions[r] \in active THEN sessions[r] ELSE NoHandle
           /\ CConnection[r] # NoHandle <=> sessions[r] \in active
BY MaxHandlesAssumption DEF IInv, TypeOK, CConnection

\* What becomes of a session that is not authenticated, no operation sees: the
\* pool does not have it.
LEMMA UnpooledUnseen ==
    ASSUME IInv, UNCHANGED sessions, active' \subseteq Handles,
           \A h \in authenticated : h \in active' <=> h \in active
    PROVE  CConnection' = CConnection
<1>1. \A r \in Remotes : sessions[r] \in active' <=> sessions[r] \in active
  <2> SUFFICES ASSUME NEW r \in Remotes
               PROVE  sessions[r] \in active' <=> sessions[r] \in active
    OBVIOUS
  <2>1. CASE sessions[r] = NoHandle
    BY <2>1, MaxHandlesAssumption DEF IInv, TypeOK
  <2>2. CASE sessions[r] # NoHandle
    BY <2>2 DEF IInv, PooledIsUsable
  <2> QED  BY <2>1, <2>2
<1> QED  BY <1>1 DEF CConnection

\* What an operation on a connection can do to it is to find it closed.
LEMMA RunningSees ==
    ASSUME IInv, step \in OnSession, UNCHANGED sessions,
           active' = active \/ active' = active \ {current}
    PROVE  \/ CConnection' = CConnection
           \/ CConnection' = [CConnection EXCEPT ![op.remote] = NoHandle]
<1>1. op.remote \in Remotes /\ sessions[op.remote] = current
  BY DEF IInv, OpShape, Ops, OnSession, PooledIsUsable
<1>2. CASE active' = active
  BY <1>2 DEF CConnection
<1>3. CASE active' = active \ {current}
  <2>1. \A r \in Remotes : r # op.remote => sessions[r] # current
    <3>1. current # NoHandle
      BY MaxHandlesAssumption DEF IInv, OpShape
    <3> QED  BY <1>1, <3>1 DEF IInv, PooledIsUsable
  <2>2. \A r \in Remotes \ {op.remote} : sessions[r] \in active' <=> sessions[r] \in active
    BY <1>3, <2>1
  <2>3. sessions[op.remote] \notin active'
    BY <1>1, <1>3
  <2> QED  BY <1>1, <2>2, <2>3 DEF CConnection
<1> QED  BY <1>2, <1>3

\* An operation that fails returns: only a command may end the run.
LEMMA FailsReturns ==
    ASSUME Fails, UNCHANGED authenticated
    PROVE  connections!Return
BY DEF Fails, Leave, connections!Return, CPhase, Over

LEMMA LeaveReturns ==
    ASSUME Leave("idle"), UNCHANGED authenticated
    PROVE  connections!Return
BY DEF Leave, connections!Return, CPhase, Over

\* In the lookup and in the handshake an operation waits.
LEMMA IsWaiting ==
    ASSUME step \in Handshake \cup {"lookup"}
    PROVE  CPhase = "waiting"
BY DEF CPhase, Handshake, Over

\* Until the handshake is over, the remote has no connection.
LEMMA Unconnected ==
    ASSUME IInv, step \in Handshake
    PROVE  op.remote \in Remotes /\ ~connections!Connected
<1>1. op.remote \in Remotes /\ sessions[op.remote] = NoHandle
  BY DEF IInv, OpShape, Ops
<1>2. NoHandle \notin active
  BY MaxHandlesAssumption DEF IInv, TypeOK
<1> QED  BY <1>1, <1>2, ConnectionIs DEF connections!Connected

\* A step inside the handshake is none of Connections; neither is one of the
\* lookup that leaves what is connected as it is.
LEMMA WaitingStutters ==
    ASSUME step \in Handshake \cup {"lookup"}, step' \in Handshake \cup {"lookup"},
           UNCHANGED <<op, authenticated>>, CConnection' = CConnection
    PROVE  Refines
<1>1. CPhase = "waiting" /\ CPhase' = "waiting"
  BY IsWaiting DEF CPhase, Handshake, Over
<1> QED  BY <1>1 DEF Refines, connections!vars

\* A handshake that fails is an operation refused.
LEMMA HandshakeFails ==
    ASSUME IInv, step \in Handshake, Fails, UNCHANGED authenticated,
           CConnection' = CConnection
    PROVE  Refines
<1>1. connections!Refused
  BY IsWaiting, Unconnected, FailsReturns DEF connections!Refused
<1> QED  BY <1>1 DEF Refines, connections!Next

\* An operation that has its connection returns, with it or without it.
LEMMA RunningReturns ==
    ASSUME IInv, step \in OnSession, Leave("idle") \/ Fails,
           UNCHANGED <<authenticated, sessions>>, active' = active \/ Noticed
    PROVE  Refines
<1>1. connections!Return /\ CPhase = "running"
  BY FailsReturns, LeaveReturns DEF CPhase, Over, OnSession
<1>2. \/ CConnection' = CConnection
      \/ CConnection' = [CConnection EXCEPT ![op.remote] = NoHandle]
  BY RunningSees DEF Noticed
<1>3. connections!Done \/ connections!Broken
  BY <1>1, <1>2 DEF connections!Done, connections!Broken
<1> QED  BY <1>3 DEF Refines, connections!Next

LEMMA LookupRefines ==
    ASSUME IInv, IInv', ReuseSession \/ RemoveSession \/ NewSession
    PROVE  Refines
<1>1. op.remote \in Remotes /\ CPhase = "waiting" /\ UNCHANGED <<op, authenticated>>
  BY IsWaiting DEF IInv, OpShape, Ops, ReuseSession, RemoveSession, NewSession
<1>2. CASE ReuseSession
  <2>1. connections!Connected
    BY <1>1, <1>2, ConnectionIs
       DEF ReuseSession, Reusable, Pooled, connections!Connected
  <2>2. CPhase' = "running" /\ CConnection' = CConnection
    BY <1>2 DEF ReuseSession, CPhase, CConnection, Over
  <2>3. connections!Reuse
    BY <1>1, <2>1, <2>2 DEF connections!Reuse
  <2> QED  BY <2>3 DEF Refines, connections!Next
<1>3. CASE RemoveSession
  <2>1. sessions[op.remote] \notin active /\ NoHandle \notin active /\ active' = active
    BY <1>3, MaxHandlesAssumption DEF RemoveSession, Reusable, Pooled, IInv, TypeOK
  <2>2. /\ sessions'[op.remote] = NoHandle
        /\ \A r \in Remotes \ {op.remote} : sessions'[r] = sessions[r]
    BY <1>1, <1>3 DEF RemoveSession, IInv, TypeOK
  <2>3. CConnection' = CConnection
    BY <2>1, <2>2 DEF CConnection
  <2>4. CASE step' = "lookup"
    BY <1>1, <1>3, <2>3, <2>4, WaitingStutters DEF RemoveSession
  <2>5. CASE step' = "undefined"
    <3>1. ~connections!Connected
      BY <1>1, <2>1, ConnectionIs DEF connections!Connected
    <3>2. CPhase' = "undefined"
      BY <2>5 DEF CPhase, Over
    <3>3. connections!Lapse
      BY <1>1, <2>3, <3>1, <3>2 DEF connections!Lapse
    <3> QED  BY <3>3 DEF Refines, connections!Next
  <2> QED  BY <1>3, <2>4, <2>5 DEF RemoveSession
<1>4. CASE NewSession
  <2>1. CConnection' = CConnection /\ step = "lookup" /\ step' = "connect"
    BY <1>4 DEF NewSession, CConnection
  <2> QED  BY <1>1, <2>1, WaitingStutters DEF Handshake
<1> QED  BY <1>2, <1>3, <1>4

LEMMA HandshakeRefines ==
    ASSUME IInv, IInv', Connect \/ VerifyHost \/ AuthNone \/ AuthenticationFailed
    PROVE  Refines
<1>1. /\ step \in Handshake /\ current \notin authenticated
      /\ UNCHANGED <<authenticated, sessions>>
  BY DEF IInv, OpShape, Handshake, Connect, VerifyHost, AuthNone, AuthenticationFailed
<1>2. active' \in {active, active \cup {current}, active \ {current}}
  BY DEF Connect, VerifyHost, AuthNone, AuthenticationFailed, Noticed
<1>3. CConnection' = CConnection
  <2>1. active' \subseteq Handles
    BY DEF IInv, TypeOK
  <2>2. \A h \in authenticated : h \in active' <=> h \in active
    BY <1>1, <1>2
  <2> QED  BY <1>1, <2>1, <2>2, UnpooledUnseen
<1>4. CASE Fails
  BY <1>1, <1>3, <1>4, HandshakeFails
<1>5. CASE \E to \in Handshake : GoTo(to)
  BY <1>1, <1>3, <1>5, WaitingStutters DEF GoTo
<1> QED
  BY <1>4, <1>5 DEF Connect, VerifyHost, AuthNone, AuthenticationFailed, Handshake

LEMMA AuthenticateRefines ==
    ASSUME IInv, IInv', Authenticate
    PROVE  Refines
<1>1. step \in Handshake /\ current \notin authenticated /\ current \in Handles
  BY DEF IInv, OpShape, Handshake, Authenticate
<1>2. CASE GoTo("authenticate") /\ UNCHANGED <<authenticated, sessions>>
  <2>1. CConnection' = CConnection
    <3>1. active' \subseteq Handles
      BY DEF IInv, TypeOK
    <3>2. \A h \in authenticated : h \in active' <=> h \in active
      BY <1>1 DEF Authenticate, Noticed
    <3> QED  BY <1>2, <3>1, <3>2, UnpooledUnseen
  <2> QED  BY <1>1, <1>2, <2>1, WaitingStutters DEF GoTo, Handshake
<1>3. CASE /\ current \in up /\ ~silent /\ GoTo("ready")
           /\ authenticated' = authenticated \cup {current}
           /\ sessions' = [sessions EXCEPT ![op.remote] = current]
  <2>1. op.remote \in Remotes /\ ~connections!Connected /\ CPhase = "waiting"
    BY <1>1, Unconnected, IsWaiting
  <2>2. active' = active /\ current \in active
    BY <1>3 DEF Authenticate, Noticed, IInv, TypeOK
  <2>3. /\ sessions'[op.remote] = current
        /\ \A r \in Remotes \ {op.remote} : sessions'[r] = sessions[r]
    BY <1>3, <2>1 DEF IInv, TypeOK
  <2>4. CConnection' = [CConnection EXCEPT ![op.remote] = current]
    BY <2>1, <2>2, <2>3 DEF CConnection
  <2>5. CPhase' = "running" /\ op' = op
    BY <1>3 DEF GoTo, CPhase, Over
  <2>6. connections!Open(current)
    BY <1>1, <1>3, <2>1, <2>4, <2>5 DEF connections!Open
  <2> QED  BY <1>1, <2>6 DEF Refines, connections!Next
<1> QED  BY <1>2, <1>3 DEF Authenticate

LEMMA OperationRefines ==
    ASSUME IInv,
           OpenFails \/ Succeed \/ CutShort \/ FailClean \/ FailLeaking
    PROVE  Refines
BY RunningReturns
   DEF OpenFails, Succeed, CutShort, FailClean, FailLeaking, OnSession

\* An operation does not see that it gets a channel.
LEMMA OpenChannelRefines ==
    ASSUME OpenChannel
    PROVE  Refines
<1>1. UNCHANGED <<sessions, active, authenticated, op>>
      /\ step = "ready" /\ step' = "running"
  BY DEF OpenChannel, GoTo
<1>2. CConnection' = CConnection /\ CPhase' = CPhase
  BY <1>1 DEF CConnection, CPhase, Over
<1> QED  BY <1>1, <1>2 DEF Refines, connections!vars

\* What no operation sees: Drop, Silence, and steps that change nothing.
LEMMA UnseenRefines ==
    ASSUME UNCHANGED <<sessions, active, authenticated, op, step>>
    PROVE  Refines
<1>1. CConnection' = CConnection /\ CPhase' = CPhase
  BY DEF CConnection, CPhase
<1> QED  BY <1>1 DEF Refines, connections!vars

LEMMA NextRefines == IInv /\ IInv' /\ [Next]_vars => Refines
<1> SUFFICES ASSUME IInv, IInv', [Next]_vars PROVE Refines  OBVIOUS
<1>1. ASSUME NEW kind \in Kinds, NEW r \in Remotes, Start(kind, r) PROVE Refines
  <2>1. CConnection' = CConnection /\ CPhase = "idle" /\ CPhase' = "waiting"
    BY <1>1 DEF Start, CConnection, CPhase, Over
  <2>2. connections!Call(kind, r)
    BY <1>1, <2>1 DEF Start, connections!Call
  <2> QED  BY <2>2 DEF Refines, connections!Next, Kinds
<1>2. ASSUME NEW h \in Handles, Drop(h) PROVE Refines
  BY <1>2, UnseenRefines DEF Drop
<1>3. CASE Silence \/ Stop \/ UNCHANGED vars
  BY <1>3, UnseenRefines DEF Silence, Stop, vars
<1> QED
  BY <1>1, <1>2, <1>3, LookupRefines, HandshakeRefines, AuthenticateRefines,
     OperationRefines, OpenChannelRefines DEF Next, Operation

\* get_or_create_session and what the operations do with its session implement
\* Connections: one connection for a remote, kept until it is found broken.
THEOREM ManagerImplementsConnections == Spec => ConnectionsSpec
<1>1. Init => connections!Init
  <2> SUFFICES ASSUME Init PROVE connections!Init  OBVIOUS
  <2>1. CConnection = [r \in Remotes |-> NoHandle]
    BY DEF Init, CConnection
  <2> QED  BY <2>1 DEF Init, connections!Init, CPhase, Over
<1>2. IInv /\ IInv' /\ [Next]_vars => [connections!Next]_(connections!vars)
  BY NextRefines DEF Refines
<1> QED
  BY <1>1, <1>2, InvAlways, PTL DEF Spec, ConnectionsSpec, connections!Spec
=============================================================================
