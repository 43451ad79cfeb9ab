---------------------------- MODULE LocalCommand -----------------------------
(***************************************************************************)
(* LocalApi::local_popen: a command run with popen, whose stdout read_out  *)
(* collects the way ssh_read_channel_out does (OutputBuffer), until its    *)
(* end, however long that takes; pclose then waits for the command.  The   *)
(* remote loop is here for comparison: its reads return what there is.     *)
(***************************************************************************)
EXTENDS OutputBuffer

VARIABLES call,     \* "called", "reading" or "returned"; or "remote"
          at_eof,   \* the last fread was a short one
          ended,    \* how the command ended, or Running
          code      \* LocalShellResult::code

localVars == <<vars, call, at_eof, ended, code>>

ExitCodes == {0, 1, 255}
Signals   == {9}
Running   == [how |-> "running", value |-> 0]
Endings   == [how : {"exit"}, value : ExitCodes]
                \cup [how : {"signal"}, value : Signals]

LocalInit == /\ Init /\ call \in {"called", "remote"} /\ at_eof = FALSE
             /\ ended = Running /\ code = 0

\* The shell is started, or cannot be.
Popen ==
    /\ call = "called"
    /\ \/ call' = "reading" /\ UNCHANGED <<code, result>>
       \/ /\ call' = "returned" /\ code' = 0 - 1
          /\ result' = [text |-> <<>>, made |-> TRUE]
    /\ UNCHANGED <<print_output, received, buffer, output, size, last_line_pos,
                   lines, reached, before, at_eof, ended>>

\* ssh_read_channel_out, for as long as it takes.
ReadRemote ==
    /\ call = "remote" /\ Next
    /\ UNCHANGED <<call, at_eof, ended, code>>

\* fread fills the buffer, unless the output ends first.
FillBuffer(chunk) ==
    /\ call = "reading" /\ ~at_eof /\ Read(chunk)
    /\ at_eof' = (Len(chunk) < BufferSize)
    /\ UNCHANGED <<call, ended, code>>

ReadOut ==
    /\ call = "reading" /\ (AppendChar \/ End)
    /\ UNCHANGED <<call, at_eof, ended, code>>

\* What wait reports of a command: its exit code in the second byte, the signal
\* that killed it in the first.
WaitStatus(e) == IF e.how = "exit" THEN e.value * 256 ELSE e.value

PcloseLowByte ==                        \* cut to a byte, as an exit code is
    /\ call = "reading" /\ result.made
    /\ ended' \in Endings
    /\ code' = WaitStatus(ended') % 256
    /\ call' = "returned"
    /\ UNCHANGED <<vars, at_eof>>

\* The command ends, and pclose returns what wait reports: local_popen hands it
\* out as the exit code.
Pclose ==
    /\ call = "reading" /\ result.made
    /\ ended' \in Endings
    /\ code' = WaitStatus(ended')
    /\ call' = "returned"
    /\ UNCHANGED <<vars, at_eof>>

LocalNext ==
    \/ ReadRemote \/ Popen \/ (\E chunk \in Chunks : FillBuffer(chunk)) \/ ReadOut \/ Pclose

LocalSpec == LocalInit /\ [][LocalNext]_localVars

-----------------------------------------------------------------------------
(* What should hold.                                                       *)

\* k.local_shell answers true, and strict mode lets a command pass, on the code
\* 0 alone: it is returned only for a command that was run, exited with 0 and
\* had its output copied, up to the last character that was read.
SuccessIsSuccess ==
    call = "returned" /\ code = 0 =>
        /\ ended = [how |-> "exit", value |-> 0]
        /\ buffer = <<>> /\ Len(output) = Len(received)
=============================================================================
