--------------------------- MODULE ExecChannelProofs ---------------------------
(***************************************************************************)
(* Theorems about ExecChannel, for every size of the window, every bound   *)
(* on what the command writes and every set of exit codes.                 *)
(***************************************************************************)
EXTENDS ExecChannel, TLAPS

Before == {"new", "open", "request"}

\* Up to the request there is no command, and nothing has moved.
Idle ==
    /\ command = "none" <=> step \in Before \cup {"threw"}
    /\ command = "none" =>
          window = Initial /\ \A s \in Streams : written[s] = 0 /\ taken[s] = 0

\* Nothing is taken that was not written.
TakenWritten == \A s \in Streams : taken[s] <= written[s]

\* The server sends a status for a command that has exited, and execute
\* returns no other.
Known == /\ status # NoStatus => command = "exited"
         /\ code # NoStatus => command = "exited"

\* execute has left the loop of a stream behind.
Past(s) == step \in {"status", "returned"} \/ (s = "stdout" /\ step = "stderr")

\* It did so because the read timed out, because the connection had failed, or
\* with all the command wrote; and nothing was written to the stream since.
Whole ==
    \A s \in Streams :
        Past(s) /\ s \notin timed_out => link = "failed" \/ (Eof /\ taken[s] = written[s])

Unmade == step = "new" => channel = "none"

\* While stdout is read, window is only used up by what waits in stdout or was
\* written to stderr.
Flood == IF Initial < Low THEN Initial ELSE Low
Room  == step = "stdout" => window + written["stderr"] + Buffered("stdout") >= Flood

IInv ==
    /\ TypeOK
    /\ Idle
    /\ TakenWritten
    /\ Known
    /\ Whole
    /\ ExitStatusVouches
    /\ Unmade
    /\ ChannelReleased
    /\ Room

-----------------------------------------------------------------------------
LEMMA InitInv == Init => IInv
<1> SUFFICES ASSUME Init PROVE IInv  OBVIOUS
<1> USE SizesAssumption DEF Init, Streams, Over
<1>1. TypeOK
  <2>1. written \in [Streams -> 0..MaxWritten] /\ taken \in [Streams -> 0..MaxWritten]
    OBVIOUS
  <2>2. window \in 0..Full
    OBVIOUS
  <2> QED  BY <2>1, <2>2 DEF TypeOK, Steps
<1>2. Idle /\ TakenWritten /\ Known  BY DEF Idle, TakenWritten, Known, Before
<1>3. Whole  BY DEF Whole, Past
<1>4. ExitStatusVouches /\ Unmade /\ ChannelReleased /\ Room
  BY DEF ExitStatusVouches, Unmade, ChannelReleased, Room
<1> QED  BY <1>1, <1>2, <1>3, <1>4 DEF IInv

\* The shape of the state.
LEMMA TypeStep == IInv /\ [Next]_vars => TypeOK'
<1> SUFFICES ASSUME IInv, [Next]_vars PROVE TypeOK'  OBVIOUS
<1> USE SizesAssumption, CodesAssumption DEF IInv, TypeOK, TakenWritten, Streams, Over,
        Steps, remote, Noticed, NextStep, Buffered
<1>1. CASE NewChannel  BY <1>1 DEF NewChannel
<1>2. CASE OpenChannel  BY <1>2 DEF OpenChannel
<1>3. CASE RequestExec  BY <1>3 DEF RequestExec
<1>4. CASE BeginRead  BY <1>4 DEF BeginRead
<1>5. CASE Take
  <2>1. taken[step] + 1 \in 0..MaxWritten
    BY <1>5 DEF Take
  <2>2. taken' \in [Streams -> 0..MaxWritten]
    BY <1>5, <2>1 DEF Take
  <2>3. window' \in 0..Full
    BY <1>5 DEF Take
  <2> QED  BY <1>5, <2>2, <2>3 DEF Take
<1>6. CASE EndOfOutput  BY <1>6 DEF EndOfOutput
<1>7. CASE Timeout  BY <1>7 DEF Timeout
<1>8. CASE NoticeWhileReading  BY <1>8 DEF NoticeWhileReading
<1>9. CASE GetStatus  BY <1>9 DEF GetStatus
<1>10. ASSUME NEW s \in Streams, Write(s) PROVE TypeOK'  BY <1>10 DEF Write
<1>11. CASE Detach  BY <1>11 DEF Detach
<1>12. CASE Exit  BY <1>12 DEF Exit
<1>13. CASE Silence \/ Drop  BY <1>13 DEF Silence, Drop
<1>14. CASE UNCHANGED vars  BY <1>14 DEF vars
<1> QED
  BY <1>1, <1>2, <1>3, <1>4, <1>5, <1>6, <1>7, <1>8, <1>9, <1>10, <1>11, <1>12,
     <1>13, <1>14 DEF Next, Execute

\* What was written and taken, and what is known of the command.
LEMMA CountsStep == IInv /\ [Next]_vars => Idle' /\ TakenWritten' /\ Known'
<1> SUFFICES ASSUME IInv, [Next]_vars PROVE Idle' /\ TakenWritten' /\ Known'  OBVIOUS
<1> USE SizesAssumption, CodesAssumption DEF IInv, TypeOK, Idle, TakenWritten, Known,
        Before, Streams, Over, remote, NextStep, Buffered, Alive
<1>1. CASE NewChannel  BY <1>1 DEF NewChannel
<1>2. CASE OpenChannel  BY <1>2 DEF OpenChannel
<1>3. CASE RequestExec  BY <1>3 DEF RequestExec
<1>4. CASE BeginRead  BY <1>4 DEF BeginRead
<1>5. CASE Take  BY <1>5 DEF Take
<1>6. CASE EndOfOutput  BY <1>6 DEF EndOfOutput
<1>7. CASE Timeout  BY <1>7 DEF Timeout
<1>8. CASE NoticeWhileReading  BY <1>8 DEF NoticeWhileReading
<1>9. CASE GetStatus  BY <1>9 DEF GetStatus
<1>10. ASSUME NEW s \in Streams, Write(s) PROVE Idle' /\ TakenWritten' /\ Known'
  BY <1>10 DEF Write
<1>11. CASE Detach  BY <1>11 DEF Detach
<1>12. CASE Exit  BY <1>12 DEF Exit
<1>13. CASE Silence \/ Drop  BY <1>13 DEF Silence, Drop
<1>14. CASE UNCHANGED vars  BY <1>14 DEF vars
<1> QED
  BY <1>1, <1>2, <1>3, <1>4, <1>5, <1>6, <1>7, <1>8, <1>9, <1>10, <1>11, <1>12,
     <1>13, <1>14 DEF Next, Execute

\* Why each loop has ended, and what the exit code vouches for.
LEMMA WholeStep == IInv /\ [Next]_vars => Whole' /\ ExitStatusVouches'
<1> SUFFICES ASSUME IInv, [Next]_vars PROVE Whole' /\ ExitStatusVouches'  OBVIOUS
<1> USE CodesAssumption DEF IInv, TypeOK, TakenWritten, Known, Whole, Past, Eof,
        ExitStatusVouches, Streams, Over, remote, NextStep, Buffered, Noticed
<1>1. CASE NewChannel  BY <1>1 DEF NewChannel
<1>2. CASE OpenChannel  BY <1>2 DEF OpenChannel
<1>3. CASE RequestExec  BY <1>3 DEF RequestExec
<1>4. CASE BeginRead  BY <1>4 DEF BeginRead
<1>5. CASE Take  BY <1>5 DEF Take
<1>6. CASE EndOfOutput  BY <1>6 DEF EndOfOutput
<1>7. CASE Timeout  BY <1>7 DEF Timeout
<1>8. CASE NoticeWhileReading  BY <1>8 DEF NoticeWhileReading
<1>9. CASE GetStatus
  <2>1. Whole'  BY <1>9 DEF GetStatus
  <2>2. ASSUME code' # NoStatus, timed_out = {} PROVE taken = written
    <3>1. link # "failed"  BY <1>9, <2>2 DEF GetStatus
    <3>2. \A s \in Streams : taken[s] = written[s]
      BY <1>9, <2>2, <3>1 DEF GetStatus
    <3> QED  BY <3>2
  <2>3. ExitStatusVouches'  BY <1>9, <2>2 DEF GetStatus
  <2> QED  BY <2>1, <2>3
<1>10. ASSUME NEW s \in Streams, Write(s) PROVE Whole' /\ ExitStatusVouches'
  BY <1>10 DEF Write
<1>11. CASE Detach  BY <1>11 DEF Detach
<1>12. CASE Exit  BY <1>12 DEF Exit
<1>13. CASE Silence \/ Drop  BY <1>13 DEF Silence, Drop
<1>14. CASE UNCHANGED vars  BY <1>14 DEF vars
<1> QED
  BY <1>1, <1>2, <1>3, <1>4, <1>5, <1>6, <1>7, <1>8, <1>9, <1>10, <1>11, <1>12,
     <1>13, <1>14 DEF Next, Execute

\* The life of the channel.
LEMMA ChannelStep == IInv /\ [Next]_vars => Unmade' /\ ChannelReleased'
<1> SUFFICES ASSUME IInv, [Next]_vars PROVE Unmade' /\ ChannelReleased'  OBVIOUS
<1> USE DEF IInv, TypeOK, Unmade, ChannelReleased, Streams, Over, NextStep
<1>1. CASE NewChannel  BY <1>1 DEF NewChannel
<1>2. CASE OpenChannel  BY <1>2 DEF OpenChannel
<1>3. CASE RequestExec  BY <1>3 DEF RequestExec
<1>4. CASE BeginRead \/ Take \/ NoticeWhileReading
  BY <1>4 DEF BeginRead, Take, NoticeWhileReading
<1>5. CASE EndOfOutput \/ Timeout  BY <1>5 DEF EndOfOutput, Timeout
<1>6. CASE GetStatus  BY <1>6 DEF GetStatus
<1>7. CASE (\E s \in Streams : Write(s)) \/ Detach \/ Exit \/ Silence \/ Drop
  BY <1>7 DEF Write, Detach, Exit, Silence, Drop
<1>8. CASE UNCHANGED vars  BY <1>8 DEF vars
<1> QED  BY <1>1, <1>2, <1>3, <1>4, <1>5, <1>6, <1>7, <1>8 DEF Next, Execute

\* What has become of the window.
LEMMA RoomStep == IInv /\ [Next]_vars => Room'
<1> SUFFICES ASSUME IInv, [Next]_vars PROVE Room'  OBVIOUS
<1> USE SizesAssumption DEF IInv, TypeOK, TakenWritten, Idle, Before, Room, Flood,
        Streams, Over, NextStep, Buffered
<1>1. CASE NewChannel \/ OpenChannel  BY <1>1 DEF NewChannel, OpenChannel
<1>2. CASE RequestExec  BY <1>2 DEF RequestExec
<1>3. CASE BeginRead  BY <1>3 DEF BeginRead
<1>4. CASE Take  BY <1>4 DEF Take
<1>5. CASE EndOfOutput \/ Timeout  BY <1>5 DEF EndOfOutput, Timeout
<1>6. CASE NoticeWhileReading \/ GetStatus  BY <1>6 DEF NoticeWhileReading, GetStatus
<1>7. ASSUME Write("stdout") PROVE Room'  BY <1>7 DEF Write
<1>8. ASSUME Write("stderr") PROVE Room'  BY <1>8 DEF Write
<1>9. CASE Detach \/ Exit \/ Silence \/ Drop  BY <1>9 DEF Detach, Exit, Silence, Drop
<1>10. CASE UNCHANGED vars  BY <1>10 DEF vars
<1> QED
  BY <1>1, <1>2, <1>3, <1>4, <1>5, <1>6, <1>7, <1>8, <1>9, <1>10 DEF Next, Execute

THEOREM Inductive == Spec => []IInv
<1>1. IInv /\ [Next]_vars => IInv'
  BY TypeStep, CountsStep, WholeStep, ChannelStep, RoomStep DEF IInv
<1> QED  BY InitInv, <1>1, PTL DEF Spec

-----------------------------------------------------------------------------
\* Every variable of execute keeps its type; the window never gets wider than
\* libssh opens it (ssh_channel_read_timeout).
THEOREM TypeCorrect == Spec => []TypeOK
<1>1. IInv => TypeOK  BY DEF IInv
<1> QED  BY Inductive, <1>1, PTL

\* An exit code other than -1 comes with the whole output, unless a loop of
\* ssh_read_channel_out timed out.
THEOREM CodeVouchesForOutput == Spec => []ExitStatusVouches
<1>1. IInv => ExitStatusVouches  BY DEF IInv
<1> QED  BY Inductive, <1>1, PTL

\* execute releases its channel exactly when it is left.
THEOREM ChannelsReleased == Spec => []ChannelReleased
<1>1. IInv => ChannelReleased  BY DEF IInv
<1> QED  BY Inductive, <1>1, PTL

\* Only a window's worth of stderr can make execute and the command wait on
\* each other while stdout is read.
THEOREM OnlyAFloodStands == Spec => []StandstillTakesAFlood
<1>1. IInv => StandstillTakesAFlood
  BY SizesAssumption DEF IInv, TypeOK, Room, Flood, Standstill, StandstillTakesAFlood, Streams
<1> QED  BY Inductive, <1>1, PTL
=============================================================================
