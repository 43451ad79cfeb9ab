----------------------------- MODULE ScpTransfer -----------------------------
(***************************************************************************)
(* One transfer of a script: k.upload_file, k.upload_str, k.download_file  *)
(* or k.download_str, over the scp calls of SshApi.                        *)
(*                                                                         *)
(* A file is counted in blocks of 4096 bytes, the last of which may be     *)
(* shorter.  Any libssh call may fail; what fails without a call saying so *)
(* is a fault: the connection goes (link), the end that stores the data    *)
(* stops storing (storage), the local file cannot be opened (open) or is   *)
(* written to while it is sent (source).                                   *)
(***************************************************************************)
EXTENDS Naturals

CONSTANTS MaxBlocks         \* bound on the size of a file

ASSUME MaxBlocksAssumption == MaxBlocks \in Nat

VARIABLES kind,         \* what the script called
          step,         \* where the call is
          scp,          \* the ssh_scp: "none", "open" or "freed"
          source,       \* blocks of the file, or content, to transfer
          nul_block,    \* the block that holds its first NUL, 0 if it has none
          short_tail,   \* its last block is a short one
          announced,    \* the size the sender has announced
          position,     \* blocks read from the source so far
          accepted,     \* blocks libssh has taken or given without an error
          target,       \* blocks of the new file, or Untouched
          faults,       \* the faults that have happened
          reply         \* what the script is answered: "true", "false", "none"

vars == <<kind, step, scp, source, nul_block, short_tail, announced, position,
          accepted, target, faults, reply>>
content == <<kind, nul_block, short_tail>>

Uploads   == {"upload_file", "upload_str"}
Downloads == {"download_file", "download_str"}
Strings   == {"upload_str", "download_str"}
Steps     == {"start", "init", "request", "transfer", "close", "done"}
Faults    == {"link", "storage", "source", "open"}

\* The file to be written holds what it held before the call.
Untouched == MaxBlocks + 1

Init ==
    /\ kind \in Uploads \cup Downloads /\ step = "start" /\ scp = "none"
    /\ source \in 0..MaxBlocks /\ nul_block \in 0..source
    /\ short_tail \in BOOLEAN
    /\ announced = 0 /\ position = 0 /\ accepted = 0 /\ target = Untouched
    /\ faults \in {{}, {"open"}} /\ reply = "none"
    /\ IF kind \in Strings THEN faults = {} ELSE nul_block = 0

\* What a C string keeps of n blocks of it: those before its first NUL.  Both
\* upload_str and download_str pass the text through one.
Text(n) == IF nul_block = 0 \/ nul_block > n THEN n ELSE nul_block - 1

Answer(r) == step' = "done" /\ reply' = r

\* An exception: the script is answered false.
Throws == Answer("false")

-----------------------------------------------------------------------------
(* Up to the transfer.                                                     *)

\* The local file is no file, there is no session, or ssh_scp_new fails.
Start ==
    /\ step = "start"
    /\ \/ step' = "init" /\ scp' = "open" /\ UNCHANGED reply
       \/ Throws /\ UNCHANGED scp
    /\ UNCHANGED <<content, source, announced, position, accepted, target, faults>>

ScpInit ==
    /\ step = "init"
    /\ \/ step' = "request" /\ UNCHANGED <<scp, reply>>
       \/ Throws /\ scp' = "freed"
    /\ UNCHANGED <<content, source, announced, position, accepted, target, faults>>

Size == IF kind = "upload_str" THEN Text(source) ELSE source

\* The size is taken, which may throw, and announced; the server makes the new
\* file.  The exceptions leave the ssh_scp as it is.
PushFile ==
    /\ step = "request" /\ kind \in Uploads
    /\ \/ /\ step' = "transfer" /\ "link" \notin faults
          /\ announced' = Size
          /\ target' = IF "storage" \in faults THEN target ELSE 0
          /\ UNCHANGED reply
       \/ Throws /\ UNCHANGED <<announced, target>>
    /\ UNCHANGED <<content, scp, source, position, accepted, faults>>

PullTruncating ==                       \* opens the local file before it asks
    /\ step = "request" /\ kind \in Downloads
    /\ target' = IF faults \cap {"open", "storage"} = {} THEN 0 ELSE target
    /\ \/ /\ step' = "transfer" /\ "link" \notin faults
          /\ announced' = source
          /\ UNCHANGED <<scp, reply>>
       \/ Throws /\ scp' = "freed" /\ UNCHANGED announced
    /\ UNCHANGED <<content, source, position, accepted, faults>>

PullUnfreed ==                          \* the early return forgets the scp
    /\ step = "request" /\ kind \in Downloads
    /\ \/ /\ step' = "transfer" /\ "link" \notin faults
          /\ announced' = source
          /\ target' = IF faults \cap {"open", "storage"} = {} THEN 0 ELSE target
          /\ UNCHANGED reply
       \/ Throws /\ UNCHANGED <<announced, target>>
    /\ UNCHANGED <<content, scp, source, position, accepted, faults>>

\* The server offers a new file, and its size; it is accepted, and the local
\* file is opened, which empties it.  Whether it could be opened is not asked.
PullRequest ==
    /\ step = "request" /\ kind \in Downloads
    /\ \/ /\ step' = "transfer" /\ "link" \notin faults
          /\ announced' = source
          /\ target' = IF faults \cap {"open", "storage"} = {} THEN 0 ELSE target
          /\ UNCHANGED <<scp, reply>>
       \/ Throws /\ scp' = "freed" /\ UNCHANGED <<announced, target>>
    /\ UNCHANGED <<content, source, position, accepted, faults>>

-----------------------------------------------------------------------------
(* The transfer.                                                           *)

\* What the next read from the local file or the content returns, and whether
\* the stream is good afterwards.  The content is written in one call.
CanRead    == "open" \notin faults /\ position < Size
Got        == IF ~CanRead THEN 0 ELSE IF kind = "upload_str" THEN Size ELSE 1
StreamGood == /\ CanRead /\ kind = "upload_file"
              /\ position + 1 = source => ~short_tail

Least(a, b) == IF a <= b THEN a ELSE b

Stores(n) == IF faults \cap {"link", "storage"} # {} \/ target = Untouched THEN target
             ELSE n

WriteLosingTail ==                      \* the stream is asked before the write
    /\ step = "transfer" /\ kind \in Uploads
    /\ position' = position + Got
    /\ \/ /\ StreamGood \/ kind = "upload_str"
          /\ accepted' = accepted + Got
          /\ target' = Stores(Least(accepted', announced))
          /\ step' = IF StreamGood THEN "transfer" ELSE "close"
          /\ UNCHANGED reply
       \/ /\ ~StreamGood /\ kind = "upload_file" /\ step' = "close"
          /\ UNCHANGED <<accepted, target, reply>>
       \/ Throws /\ UNCHANGED <<accepted, target>>
    /\ UNCHANGED <<content, scp, source, announced, faults>>

WriteIgnoring ==                        \* what ssh_scp_write returns is dropped
    /\ step = "transfer" /\ kind \in Uploads
    /\ position' = position + Got
    /\ \/ /\ accepted' = accepted + Got
          /\ target' = Stores(Least(accepted', announced))
       \/ UNCHANGED <<accepted, target>>
    /\ step' = IF StreamGood THEN "transfer" ELSE "close"
    /\ UNCHANGED <<content, scp, source, announced, faults, reply>>

\* A block is read and written, even if it is empty; libssh sends no more than
\* was announced.  An error throws and leaves the ssh_scp open.
Write ==
    /\ step = "transfer" /\ kind \in Uploads
    /\ position' = position + Got
    /\ \/ /\ accepted' = accepted + Got
          /\ target' = Stores(Least(accepted', announced))
          /\ step' = IF StreamGood THEN "transfer" ELSE "close"
          /\ UNCHANGED reply
       \/ Throws /\ UNCHANGED <<accepted, target>>
    /\ UNCHANGED <<content, scp, source, announced, faults>>

ReadBlock ==
    /\ step = "transfer" /\ kind \in Downloads
    /\ "link" \notin faults /\ position < announced
    /\ position' = position + 1 /\ accepted' = accepted + 1
    /\ target' = Stores(accepted')
    /\ UNCHANGED <<content, step, scp, source, announced, faults, reply>>

\* ssh_scp_read returns no data, at the end or on an error: all the same.
ReadEnds ==
    /\ step = "transfer" /\ kind \in Downloads
    /\ "link" \in faults \/ position = announced
    /\ step' = "close"
    /\ UNCHANGED <<content, scp, source, announced, position, accepted, target,
                   faults, reply>>

\* ssh_scp_close waits for the server and tells nobody what it answered.  The
\* script gets a downloaded string as a C string.
Close ==
    /\ step = "close" /\ scp' = "freed" /\ Answer("true")
    /\ target' = IF kind = "download_str" THEN Text(target) ELSE target
    /\ UNCHANGED <<content, source, announced, position, accepted, faults>>

-----------------------------------------------------------------------------
\* Something goes wrong that no call reports.  A file being sent may also grow
\* or shrink; the content of upload_str is in memory.
Fault(f) ==
    /\ step # "done" /\ f \notin faults /\ f # "open"
    /\ f = "source" => kind = "upload_file"
    /\ f = "storage" => kind # "download_str"
    /\ faults' = faults \cup {f}
    /\ IF f = "source" THEN source' \in 0..MaxBlocks ELSE UNCHANGED source
    /\ UNCHANGED <<content, step, scp, announced, position, accepted, target, reply>>

Next ==
    \/ Start \/ ScpInit \/ PushFile \/ PullRequest
    \/ Write \/ ReadBlock \/ ReadEnds \/ Close
    \/ \E f \in Faults : Fault(f)

Spec == Init /\ [][Next]_vars

-----------------------------------------------------------------------------
(* What should hold.                                                       *)

\* A download that is answered false has not touched the local file, whichever
\* call failed: every one that can be reported comes before it is opened.
FailedDownloadKeepsFile ==
    kind \in Downloads /\ reply = "false" => target = Untouched

\* An ssh_scp that outlives its call is that of an upload answered false.
ScpReleased ==
    step = "done" /\ scp = "open" => kind \in Uploads /\ reply = "false"

\* Without a fault nobody could report, true means that the file is there, whole
\* and no longer than it is, whatever its size is to that of a block; and a text
\* to its first NUL.
TrueIsExact ==
    reply = "true" /\ faults = {} =>
        target = IF kind \in Strings THEN Text(source) ELSE source

\* An upload is answered true only if libssh has accepted every block that was
\* read, faults or not.
TrueIsAccepted == kind \in Uploads /\ reply = "true" => accepted = position
=============================================================================
