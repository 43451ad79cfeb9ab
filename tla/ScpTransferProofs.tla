--------------------------- MODULE ScpTransferProofs ---------------------------
(***************************************************************************)
(* Theorems about ScpTransfer, for files of every size.                    *)
(***************************************************************************)
EXTENDS ScpTransfer, TLAPS

TypeOK ==
    /\ kind \in Uploads \cup Downloads /\ step \in Steps
    /\ scp \in {"none", "open", "freed"}
    /\ source \in 0..MaxBlocks /\ nul_block \in Nat /\ short_tail \in BOOLEAN
    /\ announced \in 0..MaxBlocks /\ position \in Nat /\ accepted \in Nat
    /\ target \in Nat /\ faults \in SUBSET Faults
    /\ reply \in {"none", "true", "false"}

\* Nothing is answered before the end, and nothing is held before the start.
Answered == (reply = "none") <=> (step # "done")
Unheld   == step = "start" => scp = "none"

\* Up to the transfer, nothing has moved; a download has not touched its file.
Before == {"start", "init", "request"}
Unmoved ==
    /\ step \in Before => position = 0 /\ accepted = 0
    /\ step \in Before /\ kind \in Downloads => target = Untouched

\* Blocks are accepted as they are read.
InStep == step \in {"transfer", "close"} => accepted = position

\* Without a fault, what was read is there, and what was announced is what there
\* is to read.  A content is written in one call.
Steady ==
    faults = {} =>
        /\ step \in {"transfer", "close"} =>
              /\ announced = Size /\ target = position /\ position <= announced
        /\ step = "close" => position = announced
        /\ step = "transfer" /\ kind = "upload_str" => position = 0

IInv ==
    /\ TypeOK
    /\ Answered
    /\ Unheld
    /\ Unmoved
    /\ InStep
    /\ Steady
    /\ FailedDownloadKeepsFile
    /\ ScpReleased
    /\ TrueIsAccepted
    /\ TrueIsExact

-----------------------------------------------------------------------------
\* A C string is no longer than the text it is of.
LEMMA TextShorter ==
  ASSUME NEW n \in 0..MaxBlocks, nul_block \in Nat
  PROVE  Text(n) \in 0..n
  BY MaxBlocksAssumption DEF Text

LEMMA SizeType == TypeOK => Size \in 0..source
  BY MaxBlocksAssumption, TextShorter DEF Size, TypeOK

\* What the next read returns, and what the server stores, are numbers.
LEMMA BlocksType ==
  ASSUME TypeOK
  PROVE  /\ Got \in Nat
         /\ \A n \in Nat : Stores(n) \in Nat
         /\ \A a, b \in Nat : Least(a, b) \in Nat /\ Least(a, b) <= a /\ Least(a, b) <= b
<1>1. Got \in Nat
  BY SizeType, MaxBlocksAssumption DEF Got, TypeOK
<1> QED  BY <1>1 DEF Stores, Least, TypeOK

LEMMA InitInv == Init => IInv
<1> SUFFICES ASSUME Init PROVE IInv  OBVIOUS
<1> USE MaxBlocksAssumption DEF Init
<1>1. faults \in SUBSET Faults
  BY DEF Faults
<1>2. TypeOK
  BY <1>1 DEF TypeOK, Steps, Untouched
<1> QED
  BY <1>2 DEF IInv, Answered, Unheld, Unmoved, InStep, Steady,
              FailedDownloadKeepsFile, ScpReleased, TrueIsAccepted, TrueIsExact

\* A call that ends early with an exception, before it has touched anything it
\* must not touch: an upload, or a download whose ssh_scp is freed or not made.
LEMMA ThrowsKeeps ==
  ASSUME IInv, TypeOK', Throws, step # "done", kind' = kind, target' = target,
         kind \in Uploads \/ (step \in Before /\ scp' # "open")
  PROVE  IInv'
<1> USE DEF IInv, Throws, Answer
<1>1. step' = "done" /\ reply' = "false"
  OBVIOUS
<1>2. Answered' /\ Unheld' /\ Unmoved' /\ InStep' /\ Steady' /\ TrueIsAccepted' /\ TrueIsExact'
  BY <1>1 DEF Answered, Unheld, Unmoved, InStep, Steady, TrueIsAccepted, TrueIsExact, Before
<1>3. FailedDownloadKeepsFile' /\ ScpReleased'
  BY <1>1 DEF FailedDownloadKeepsFile, ScpReleased, Unmoved, Uploads, Downloads, Untouched
<1> QED  BY <1>2, <1>3

\* A call that goes on: its reply is still none.
LEMMA GoesOn ==
  ASSUME IInv, step # "done", step' # "done", reply' = reply,
         TypeOK', Unheld', Unmoved', InStep', Steady'
  PROVE  IInv'
<1>1. reply = "none"
  BY DEF IInv, Answered
<1> QED
  BY <1>1 DEF IInv, Answered, FailedDownloadKeepsFile, ScpReleased, TrueIsAccepted, TrueIsExact

-----------------------------------------------------------------------------
LEMMA BeginInv == IInv /\ (Start \/ ScpInit) => IInv'
<1> SUFFICES ASSUME IInv, Start \/ ScpInit PROVE IInv'  OBVIOUS
<1>1. CASE Start
  <2> USE <1>1 DEF Start, content
  <2>1. TypeOK'
    BY DEF IInv, TypeOK, Steps, Throws, Answer
  <2>2. CASE Throws /\ UNCHANGED scp
    BY <2>1, <2>2, ThrowsKeeps DEF IInv, Unheld, Before
  <2>3. CASE step' = "init" /\ scp' = "open" /\ UNCHANGED reply
    <3>1. Unheld' /\ Unmoved' /\ InStep' /\ Steady'
      BY <2>3 DEF IInv, Unheld, Unmoved, InStep, Steady, Before, Untouched
    <3> QED  BY <2>1, <2>3, <3>1, GoesOn
  <2> QED  BY <2>2, <2>3
<1>2. CASE ScpInit
  <2> USE <1>2 DEF ScpInit, content
  <2>1. TypeOK'
    BY DEF IInv, TypeOK, Steps, Throws, Answer
  <2>2. CASE Throws /\ scp' = "freed"
    BY <2>1, <2>2, ThrowsKeeps DEF Before
  <2>3. CASE step' = "request" /\ UNCHANGED <<scp, reply>>
    <3>1. Unheld' /\ Unmoved' /\ InStep' /\ Steady'
      BY <2>3 DEF IInv, Unheld, Unmoved, InStep, Steady, Before, Untouched
    <3> QED  BY <2>1, <2>3, <3>1, GoesOn
  <2> QED  BY <2>2, <2>3
<1> QED  BY <1>1, <1>2

LEMMA PushInv == IInv /\ PushFile => IInv'
<1> SUFFICES ASSUME IInv, PushFile PROVE IInv'  OBVIOUS
<1> USE MaxBlocksAssumption DEF PushFile, content
<1>1. Size \in 0..MaxBlocks
  BY SizeType DEF IInv, TypeOK
<1>2. TypeOK'
  BY <1>1 DEF IInv, TypeOK, Steps, Throws, Answer
<1>3. CASE Throws /\ UNCHANGED <<announced, target>>
  BY <1>2, <1>3, ThrowsKeeps
<1>4. CASE /\ step' = "transfer" /\ announced' = Size /\ UNCHANGED reply
           /\ target' = IF "storage" \in faults THEN target ELSE 0
  <2>1. Size' = Size
    BY DEF Size, Text
  <2>2. position = 0 /\ accepted = 0
    BY DEF IInv, Unmoved, Before
  <2>3. Steady'
    BY <1>1, <1>4, <2>1, <2>2 DEF Steady
  <2>4. Unheld' /\ Unmoved' /\ InStep'
    BY <1>4, <2>2 DEF Unheld, Unmoved, InStep, Before
  <2> QED  BY <1>2, <1>4, <2>3, <2>4, GoesOn
<1> QED  BY <1>3, <1>4

LEMMA PullInv == IInv /\ PullRequest => IInv'
<1> SUFFICES ASSUME IInv, PullRequest PROVE IInv'  OBVIOUS
<1> USE MaxBlocksAssumption DEF PullRequest, content
<1>1. TypeOK'
  BY DEF IInv, TypeOK, Steps, Throws, Answer
<1>2. CASE Throws /\ scp' = "freed" /\ UNCHANGED <<announced, target>>
  BY <1>1, <1>2, ThrowsKeeps DEF Before
<1>3. CASE /\ step' = "transfer" /\ announced' = source /\ UNCHANGED <<scp, reply>>
           /\ target' = IF faults \cap {"open", "storage"} = {} THEN 0 ELSE target
  <2>1. Size' = source
    BY DEF Size, Downloads
  <2>2. position = 0 /\ accepted = 0 /\ source \in Nat
    BY DEF IInv, TypeOK, Unmoved, Before
  <2>3. Steady'
    BY <1>3, <2>1, <2>2 DEF Steady, Downloads
  <2>4. Unheld' /\ Unmoved' /\ InStep'
    BY <1>3, <2>2 DEF Unheld, Unmoved, InStep, Before
  <2> QED  BY <1>1, <1>3, <2>3, <2>4, GoesOn
<1> QED  BY <1>2, <1>3

\* After a write that was accepted: a stream that is not good has been read to
\* its end.
LEMMA WriteInv == IInv /\ Write => IInv'
<1> SUFFICES ASSUME IInv, Write PROVE IInv'  OBVIOUS
<1> USE MaxBlocksAssumption DEF Write, content
<1>1. Got \in Nat /\ position' \in Nat /\ accepted' \in Nat /\ target' \in Nat
  <2>1. Got \in Nat
    BY BlocksType DEF IInv
  <2>2. position' \in Nat /\ accepted' \in Nat /\ announced \in Nat
    BY <2>1 DEF IInv, TypeOK
  <2>3. target' \in {target, Stores(Least(accepted', announced))}
    OBVIOUS
  <2>4. Stores(Least(accepted', announced)) \in Nat
    BY <2>2, BlocksType DEF IInv
  <2> QED  BY <2>1, <2>2, <2>3, <2>4 DEF IInv, TypeOK
<1>2. TypeOK'
  BY <1>1 DEF IInv, TypeOK, Steps, Throws, Answer
<1>3. CASE Throws /\ UNCHANGED <<accepted, target>>
  BY <1>2, <1>3, ThrowsKeeps
<1>4. CASE /\ accepted' = accepted + Got
           /\ target' = Stores(Least(accepted', announced))
           /\ step' = IF StreamGood THEN "transfer" ELSE "close"
           /\ UNCHANGED reply
  <2>1. accepted' = position' /\ step' \in {"transfer", "close"}
    BY <1>4 DEF IInv, InStep
  <2>2. Size' = Size /\ Size \in 0..source /\ source \in 0..MaxBlocks
    BY SizeType DEF IInv, TypeOK, Size, Text
  <2>3. ASSUME faults = {}
        PROVE  /\ announced' = Size' /\ target' = position' /\ position' <= announced'
               /\ step' = "close" => position' = announced'
               /\ step' = "transfer" => kind # "upload_str"
    <3>1. announced = Size /\ target = position /\ position <= announced
          /\ (kind = "upload_str" => position = 0)
      BY <2>3 DEF IInv, Steady
    <3>2. target # Untouched
      BY <2>2, <3>1 DEF IInv, TypeOK, Untouched
    <3>3. target' = Least(position', announced)
      BY <1>4, <2>1, <2>3, <3>2 DEF Stores
    <3>4. position + Got <= announced
      BY <2>2, <3>1 DEF Got, CanRead, IInv, TypeOK
    <3>5. target' = position'
      BY <1>1, <3>3, <3>4 DEF Least
    <3>6. ~StreamGood => position + Got = announced
      <4>1. CASE kind = "upload_str"
        BY <2>2, <2>3, <3>1, <4>1 DEF Got, CanRead, IInv, TypeOK
      <4>2. CASE kind = "upload_file"
        BY <2>2, <2>3, <3>1, <4>2 DEF StreamGood, Got, CanRead, IInv, TypeOK, Size
      <4> QED  BY <4>1, <4>2 DEF Uploads
    <3>7. StreamGood => kind # "upload_str"
      BY DEF StreamGood
    <3> QED  BY <1>4, <2>2, <3>1, <3>4, <3>5, <3>6, <3>7
  <2>4. Steady'
    BY <2>3 DEF Steady
  <2>5. Unheld' /\ Unmoved' /\ InStep'
    BY <2>1 DEF Unheld, Unmoved, InStep, Before
  <2> QED  BY <1>2, <1>4, <2>1, <2>4, <2>5, GoesOn
<1> QED  BY <1>3, <1>4

LEMMA ReadInv == IInv /\ (ReadBlock \/ ReadEnds) => IInv'
<1> SUFFICES ASSUME IInv, ReadBlock \/ ReadEnds PROVE IInv'  OBVIOUS
<1> USE MaxBlocksAssumption DEF content
<1>1. CASE ReadBlock
  <2> USE <1>1 DEF ReadBlock
  <2>1. position' \in Nat /\ accepted' \in Nat /\ target' \in Nat
    BY BlocksType DEF IInv, TypeOK
  <2>2. TypeOK'
    BY <2>1 DEF IInv, TypeOK
  <2>3. accepted' = position'
    BY DEF IInv, InStep
  <2>4. Size' = Size
    BY DEF Size, Text
  <2>5. ASSUME faults = {}  PROVE target' = position' /\ position' <= announced
    <3>1. target = position /\ position < announced
      BY <2>5 DEF IInv, Steady
    <3>2. target # Untouched
      BY <3>1 DEF IInv, TypeOK, Untouched
    <3> QED  BY <2>1, <2>3, <2>5, <3>1, <3>2 DEF Stores, IInv, TypeOK
  <2>6. Steady'
    BY <2>4, <2>5 DEF IInv, Steady, Downloads
  <2>7. Unheld' /\ Unmoved' /\ InStep'
    BY <2>3 DEF Unheld, Unmoved, InStep, Before
  <2> QED  BY <2>2, <2>6, <2>7, GoesOn
<1>2. CASE ReadEnds
  <2> USE <1>2 DEF ReadEnds
  <2>1. TypeOK'
    BY DEF IInv, TypeOK, Steps
  <2>2. Size' = Size
    BY DEF Size, Text
  <2>3. Steady'
    BY <2>2 DEF IInv, Steady
  <2>4. Unheld' /\ Unmoved' /\ InStep'
    BY DEF IInv, Unheld, Unmoved, InStep, Before
  <2> QED  BY <2>1, <2>3, <2>4, GoesOn
<1> QED  BY <1>1, <1>2

LEMMA CloseInv == IInv /\ Close => IInv'
<1> SUFFICES ASSUME IInv, Close PROVE IInv'  OBVIOUS
<1> USE MaxBlocksAssumption DEF Close, Answer, content
<1>1. faults = {} => target = Size
  BY DEF IInv, Steady
<1>2. target' \in Nat
  BY DEF IInv, TypeOK, Text
<1>3. TypeOK'
  BY <1>2 DEF IInv, TypeOK, Steps
<1>4. TrueIsExact'
  BY <1>1 DEF TrueIsExact, Size, Text, Strings
<1>5. TrueIsAccepted'
  BY DEF IInv, InStep, TrueIsAccepted
<1> QED
  BY <1>3, <1>4, <1>5 DEF IInv, Answered, Unheld, Unmoved, InStep, Steady, Before,
                          FailedDownloadKeepsFile, ScpReleased

LEMMA FaultInv == ASSUME IInv, NEW f \in Faults, Fault(f)  PROVE IInv'
<1> USE DEF Fault, content
<1>1. source' \in 0..MaxBlocks /\ faults' \in SUBSET Faults /\ faults' # {}
  BY DEF IInv, TypeOK
<1>2. TypeOK'
  BY <1>1 DEF IInv, TypeOK
<1>3. Steady'
  BY <1>1 DEF Steady
<1>4. Unheld' /\ Unmoved' /\ InStep'
  BY DEF IInv, Unheld, Unmoved, InStep, Untouched
<1> QED  BY <1>2, <1>3, <1>4, GoesOn

LEMMA StepInv == IInv /\ [Next]_vars => IInv'
<1> SUFFICES ASSUME IInv, [Next]_vars PROVE IInv'  OBVIOUS
<1>1. CASE UNCHANGED vars
  BY <1>1 DEF vars, IInv, TypeOK, Answered, Unheld, Unmoved, InStep, Steady, Size, Text,
              Untouched, FailedDownloadKeepsFile, ScpReleased, TrueIsAccepted, TrueIsExact
<1> QED
  BY <1>1, BeginInv, PushInv, PullInv, WriteInv, ReadInv, CloseInv, FaultInv DEF Next

-----------------------------------------------------------------------------
\* The properties and what they rest on hold at every step of every transfer.
THEOREM Inductive == Spec => []IInv
<1> QED  BY InitInv, StepInv, PTL DEF Spec

\* A download answered false has left the local file as it was.
THEOREM FailuresKeepFile == Spec => []FailedDownloadKeepsFile
<1>1. IInv => FailedDownloadKeepsFile  BY DEF IInv
<1> QED  BY <1>1, Inductive, PTL

\* Only an upload that is answered false leaves its ssh_scp behind.
THEOREM OnlyUploadsLeak == Spec => []ScpReleased
<1>1. IInv => ScpReleased  BY DEF IInv
<1> QED  BY <1>1, Inductive, PTL

\* An upload answered true had every block accepted, whatever went wrong.
THEOREM UploadsAccepted == Spec => []TrueIsAccepted
<1>1. IInv => TrueIsAccepted  BY DEF IInv
<1> QED  BY <1>1, Inductive, PTL

\* Without a fault no call can report, true means that all of it is there.
THEOREM TransfersExact == Spec => []TrueIsExact
<1>1. IInv => TrueIsExact  BY DEF IInv
<1> QED  BY <1>1, Inductive, PTL
=============================================================================
