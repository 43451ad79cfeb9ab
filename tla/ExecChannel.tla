----------------------------- MODULE ExecChannel -----------------------------
(***************************************************************************)
(* SshApi::execute, from the channel it makes to the RemoteResult it       *)
(* returns, with the remote command at the other end.                      *)
(*                                                                         *)
(* Data are counted in buffers of buffer_size bytes.  stdout and stderr    *)
(* share the channel's window (libssh: what the server may still send); a  *)
(* command that writes with the window at 0 waits.  What sshd buffers for  *)
(* it is folded into the window.  Each of the two loops of                 *)
(* ssh_read_channel_out reads one stream only, stdout first.               *)
(***************************************************************************)
EXTENDS Naturals

CONSTANTS MaxWritten,       \* bound on what the command writes to a stream
          Initial, Full,    \* the window at first, and whenever libssh opens it
          Low,              \* below this libssh opens the window after a read
          Codes,            \* exit codes of commands
          NoStatus          \* ssh_channel_get_exit_status's SSH_ERROR, -1

ASSUME SizesAssumption ==
    /\ MaxWritten \in Nat /\ Full \in Nat
    /\ Initial \in 1..Full /\ Low \in 1..Full
ASSUME CodesAssumption == NoStatus \notin Codes

VARIABLES step,         \* where execute is
          reading,      \* it waits inside ssh_channel_read_timeout
          channel,      \* "none", "held" or "freed"
          window,       \* what the server may still send
          written,      \* [stream -> buffers the command has written]
          taken,        \* [stream -> buffers execute has appended to output]
          command,      \* "none", "running", "detached" or "exited"
          status,       \* the exit status the server has sent, or NoStatus
          link,         \* "up"; "silent", up, but nothing comes any more;
                        \* "down"; or "failed" once libssh has seen it
          timed_out,    \* streams whose loop ended by the 30 minute timeout
          code          \* RemoteResult::code

vars == <<step, reading, channel, window, written, taken, command, status,
          link, timed_out, code>>
remote == <<command, status>>

Streams == {"stdout", "stderr"}
Over    == {"returned", "threw"}
Steps   == {"new", "open", "request", "stdout", "stderr", "status"} \cup Over

\* What has arrived in a stream and was not read yet.
Buffered(s) == written[s] - taken[s]

\* The server has announced the end of both streams.
Eof == command \in {"detached", "exited"}

Init ==
    /\ step = "new" /\ reading = FALSE /\ channel = "none"
    /\ window = Initial
    /\ written = [s \in Streams |-> 0] /\ taken = [s \in Streams |-> 0]
    /\ command = "none" /\ status = NoStatus
    /\ link = "up" /\ timed_out = {} /\ code = NoStatus

-----------------------------------------------------------------------------
(* SshApi::execute.                                                        *)

\* A libssh call that finds the connection closed remembers it.
Noticed == link' = IF link = "down" THEN "failed" ELSE link

\* ssh_channel_new only allocates.
NewChannel ==
    /\ step = "new"
    /\ \/ step' = "open" /\ channel' = "held"
       \/ step' = "threw" /\ UNCHANGED channel
    /\ UNCHANGED <<reading, window, written, taken, remote, link, timed_out, code>>

\* Opening it and the request wait for the server's answer, without a timeout.
OpenChannel ==
    /\ step = "open" /\ link # "silent" /\ Noticed
    /\ \/ link = "up" /\ step' = "request" /\ UNCHANGED channel
       \/ step' = "threw" /\ channel' = "freed"
    /\ UNCHANGED <<reading, window, written, taken, remote, timed_out, code>>

RequestExecUnfreed ==                   \* the early return forgets the channel
    /\ step = "request" /\ link # "silent" /\ Noticed
    /\ \/ link = "up" /\ step' = "stdout" /\ command' = "running"
       \/ step' = "threw" /\ UNCHANGED command
    /\ UNCHANGED <<reading, channel, window, written, taken, status, timed_out,
                   code>>

RequestExec ==
    /\ step = "request" /\ link # "silent" /\ Noticed
    /\ \/ /\ link = "up" /\ step' = "stdout" /\ command' = "running"
          /\ UNCHANGED channel
       \/ step' = "threw" /\ channel' = "freed" /\ UNCHANGED command
    /\ UNCHANGED <<reading, window, written, taken, status, timed_out, code>>

BeginReadWidening ==                    \* opens the window by its full size
    /\ step \in Streams /\ ~reading /\ reading' = TRUE
    /\ window' = window + Full
    /\ UNCHANGED <<step, channel, written, taken, remote, link, timed_out, code>>

\* ssh_channel_read_timeout is entered: libssh opens the window when less than
\* the buffer it is given can be had.
BeginRead ==
    /\ step \in Streams /\ ~reading /\ reading' = TRUE
    /\ window' = IF Buffered(step) + window < 1 THEN Full ELSE window
    /\ UNCHANGED <<step, channel, written, taken, remote, link, timed_out, code>>

TakeNeverReopening ==                   \* the window is not opened again
    /\ step \in Streams /\ reading /\ reading' = FALSE
    /\ link # "failed" /\ Buffered(step) > 0
    /\ taken' = [taken EXCEPT ![step] = @ + 1]
    /\ UNCHANGED <<step, channel, window, written, remote, link, timed_out, code>>

\* It returns data, which the loop appends to its output.
Take ==
    /\ step \in Streams /\ reading /\ reading' = FALSE
    /\ link # "failed" /\ Buffered(step) > 0
    /\ taken' = [taken EXCEPT ![step] = @ + 1]
    /\ window' = IF window < Low THEN Full ELSE window
    /\ UNCHANGED <<step, channel, written, remote, link, timed_out, code>>

NextStep == IF step = "stdout" THEN "stderr" ELSE "status"

EndOfOutputAtEof ==                     \* what has not been read is forgotten
    /\ step \in Streams /\ reading /\ reading' = FALSE
    /\ link = "failed" \/ Eof
    /\ step' = NextStep
    /\ UNCHANGED <<channel, window, written, taken, remote, link, timed_out, code>>

\* It returns 0 at the end of the output, or an error once libssh has seen the
\* connection fail: the loop ends.
EndOfOutput ==
    /\ step \in Streams /\ reading /\ reading' = FALSE
    /\ link = "failed" \/ (Eof /\ Buffered(step) = 0)
    /\ step' = NextStep
    /\ UNCHANGED <<channel, window, written, taken, remote, link, timed_out, code>>

TimeoutRetried ==                       \* the loop reads again
    /\ step \in Streams /\ reading /\ reading' = FALSE
    /\ link # "failed" /\ ~Eof /\ Buffered(step) = 0
    /\ timed_out' = timed_out \cup {step}
    /\ UNCHANGED <<step, channel, window, written, taken, remote, link, code>>

\* Half an hour without data on this stream: it returns 0 as well.
Timeout ==
    /\ step \in Streams /\ reading /\ reading' = FALSE
    /\ link # "failed" /\ ~Eof /\ Buffered(step) = 0
    /\ timed_out' = timed_out \cup {step}
    /\ step' = NextStep
    /\ UNCHANGED <<channel, window, written, taken, remote, link, code>>

\* While it waits, libssh sees the connection fail.
NoticeWhileReading ==
    /\ step \in Streams /\ reading /\ link = "down" /\ link' = "failed"
    /\ UNCHANGED <<step, reading, channel, window, written, taken, remote,
                   timed_out, code>>

\* The channel is closed if it is open still, the exit status asked for, the
\* channel freed.  libssh waits, without a timeout, for the status or for the
\* server to close the channel, which sshd does when the command has exited and
\* not because kafe has closed it; it answers SSH_ERROR if the connection has
\* failed, or fails.
GetStatus ==
    /\ step = "status" /\ step' = "returned" /\ channel' = "freed"
    /\ Noticed
    /\ \/ command = "exited" /\ link # "failed" /\ code' = status
       \/ link \in {"down", "failed"} /\ code' = NoStatus
    /\ UNCHANGED <<reading, window, written, taken, remote, timed_out>>

-----------------------------------------------------------------------------
(* The command, the server and the network (external).                     *)

Alive == command \in {"running", "detached"} /\ link = "up"

Write(s) ==
    /\ command = "running" /\ link = "up"
    /\ window > 0 /\ written[s] < MaxWritten
    /\ window' = window - 1
    /\ written' = [written EXCEPT ![s] = @ + 1]
    /\ UNCHANGED <<step, reading, channel, taken, remote, link, timed_out, code>>

\* It closes its outputs and runs on, as a daemon does.
Detach ==
    /\ command = "running" /\ link = "up" /\ command' = "detached"
    /\ UNCHANGED <<step, reading, channel, window, written, taken, status, link,
                   timed_out, code>>

\* It exits, and the server sends its status; or it is killed, and there is none.
Exit ==
    /\ Alive /\ command' = "exited" /\ status' \in Codes \cup {NoStatus}
    /\ UNCHANGED <<step, reading, channel, window, written, taken, link,
                   timed_out, code>>

\* The server stops answering, or the network loses all it sends.
Silence ==
    /\ link = "up" /\ step \notin Over /\ link' = "silent"
    /\ UNCHANGED <<step, reading, channel, window, written, taken, remote,
                   timed_out, code>>

Drop ==
    /\ link \in {"up", "silent"} /\ step \notin Over /\ link' = "down"
    /\ UNCHANGED <<step, reading, channel, window, written, taken, remote,
                   timed_out, code>>

-----------------------------------------------------------------------------
Execute == \/ NewChannel \/ OpenChannel \/ RequestExec
           \/ BeginRead \/ Take \/ EndOfOutput \/ Timeout \/ NoticeWhileReading
           \/ GetStatus

Next == \/ Execute
        \/ \E s \in Streams : Write(s)
        \/ Detach \/ Exit \/ Silence \/ Drop

Spec == Init /\ [][Next]_vars

\* kafe is one thread, and what it can do next it does: a read returns in half
\* an hour at the latest.  Nothing is asked of the others: the command may never
\* write nor exit, the server never answer, the connection never fail.
FairSpec == Spec /\ WF_vars(Execute)

-----------------------------------------------------------------------------
(* What should hold.                                                       *)

\* The state has the shape the comments on the variables give it; the window
\* is never wider than libssh makes it.
TypeOK ==
    /\ step \in Steps /\ reading \in BOOLEAN
    /\ channel \in {"none", "held", "freed"} /\ window \in 0..Full
    /\ written \in [Streams -> 0..MaxWritten]
    /\ taken \in [Streams -> 0..MaxWritten]
    /\ command \in {"none", "running", "detached", "exited"}
    /\ status \in Codes \cup {NoStatus} /\ link \in {"up", "silent", "down", "failed"}
    /\ timed_out \subseteq Streams /\ code \in Codes \cup {NoStatus}

\* An exit code that is not -1 vouches for the output: unless a loop timed out,
\* execute returns it together with all the command had written, whatever
\* happened to the connection and in whatever order.
ExitStatusVouches ==
    step = "returned" /\ code # NoStatus /\ timed_out = {} => taken = written

\* The channel is released on every way out of execute and on none before.
ChannelReleased ==
    /\ channel = "held" => step \notin Over
    /\ channel = "freed" => step \in Over

\* The command waits for kafe, which waits for the other stream.
Standstill == /\ step \in Streams /\ reading /\ Buffered(step) = 0
              /\ command = "running" /\ window = 0

\* Reading stdout to its end before stderr brings both sides to a standstill
\* only if the command has put a window's worth into stderr first.
StandstillTakesAFlood ==
    Standstill /\ step = "stdout" =>
        written["stderr"] >= IF Initial < Low THEN Initial ELSE Low

\* What execute may wait for without a limit: an answer to its request, the end
\* of the command.
WaitsForServer ==
    \/ step \in {"open", "request"} /\ link = "silent"
    \/ step = "status" /\ command # "exited" /\ link \in {"up", "silent"}

\* execute comes to an end, or waits for ever for a server that does not answer
\* or a command that does not exit; it never reads for ever: the timeout resolves
\* the standstill.
ExecuteEnds == <>(step \in Over) \/ <>[]WaitsForServer
=============================================================================
