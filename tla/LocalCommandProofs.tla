-------------------------- MODULE LocalCommandProofs --------------------------
(***************************************************************************)
(* Theorems about LocalCommand and OutputBuffer: the local and the remote  *)
(* loop together, for every size of the two buffers and every length of    *)
(* the output.                                                             *)
(***************************************************************************)
EXTENDS LocalCommand, SequenceTheorems, FiniteSetTheorems, WellFoundedInduction, TLAPS

CallType ==
    /\ call \in {"called", "remote", "reading", "returned"}
    /\ ended \in Endings \cup {Running}
    /\ code \in Int

\* There is room for what was collected.
Fits == Len(output) <= size

\* It has grown by the size of the buffer each time.
Grown == \E k \in 0..size : size = OutputSize + k * BufferSize

\* The string is made when everything read has been copied.
MadeLast == call \in {"remote", "reading"} /\ result.made => buffer = <<>>

Unstarted == call = "called" => ~result.made

\* What is written before the output is written when the string is made.
BeforeLast == before => result.made

IInv ==
    /\ TypeOK
    /\ CallType
    /\ Fits
    /\ Grown
    /\ AtMostOnePast
    /\ TextKept
    /\ MadeLast
    /\ Unstarted
    /\ BeforeLast
    /\ SuccessIsSuccess

-----------------------------------------------------------------------------
(* C strings.                                                              *)

\* A set of numbers has a least one.
LEMMA LeastNumber ==
  ASSUME NEW T \in SUBSET Nat, T # {}
  PROVE  \E i \in T : \A j \in T : i <= j
<1>1. \E i \in T : \A j \in T : ~(<<j, i>> \in OpToRel(<, Nat))
  BY NatLessThanWellFounded, WFMin
<1>2. PICK i \in T : \A j \in T : ~(<<j, i>> \in OpToRel(<, Nat))
  BY <1>1
<1>3. ASSUME NEW j \in T  PROVE i <= j
  <2>1. i \in Nat /\ j \in Nat
    OBVIOUS
  <2>2. ~(j < i)
    BY <1>2, <2>1 DEF OpToRel
  <2> QED  BY <2>1, <2>2
<1> QED  BY <1>3

\* A C string is a text of the characters of the text it is of.
LEMMA CStringType ==
  ASSUME NEW S, NEW s \in Seq(S)
  PROVE  CString(s) \in Seq(S)
<1>1. CASE NulsOf(s) = {}
  BY <1>1 DEF CString
<1>2. CASE NulsOf(s) # {}
  <2> DEFINE n == CHOOSE i \in NulsOf(s) : \A j \in NulsOf(s) : i <= j
  <2>1. NulsOf(s) \in SUBSET Nat
    BY DEF NulsOf
  <2>2. \E i \in NulsOf(s) : \A j \in NulsOf(s) : i <= j
    BY <1>2, <2>1, LeastNumber
  <2>3. n \in NulsOf(s)
    BY <2>2
  <2>4. n \in 1..Len(s) /\ n - 1 \in Int /\ Len(s) \in Nat
    BY <2>3, LenProperties DEF NulsOf
  <2> HIDE DEF n
  <2>5. \A i \in 1..(n - 1) : s[i] \in S
    BY <2>4, LenProperties, ElementOfSeq
  <2>6. SubSeq(s, 1, n - 1) \in Seq(S)
    BY <2>4, <2>5, SubSeqProperties
  <2> QED  BY <1>2, <2>6 DEF CString, n
<1> QED  BY <1>1, <1>2

\* The end of a text is a text.
LEMMA LineType ==
  ASSUME NEW S, NEW s \in Seq(S), NEW m \in Nat \ {0}, NEW n \in Nat, n <= Len(s)
  PROVE  SubSeq(s, m, n) \in Seq(S)
<1>1. Len(s) \in Nat
  BY LenProperties
<1>2. \A i \in m..n : s[i] \in S
  BY <1>1, ElementOfSeq
<1> QED  BY <1>2, SubSeqProperties

-----------------------------------------------------------------------------
(* The loop.                                                               *)

LEMMA InitInv == LocalInit => IInv
<1> SUFFICES ASSUME LocalInit PROVE IInv  OBVIOUS
<1> USE SizesAssumption DEF LocalInit, Init
<1>1. <<>> \in Seq(Chars) /\ <<>> \in Seq(Seq(Chars))
      /\ <<>> \in Seq(Chars \cup {"undefined"}) /\ Len(<<>>) = 0
  BY EmptySeq
<1>2. TypeOK
  BY <1>1 DEF TypeOK, NotYet
<1>3. CallType
  BY DEF CallType
<1>4. Fits /\ AtMostOnePast /\ Grown
  <2>1. 0 \in 0..size /\ size = OutputSize + 0 * BufferSize
    OBVIOUS
  <2> QED  BY <1>1, <2>1 DEF Fits, AtMostOnePast, Grown
<1>5. TextKept
  BY <1>1 DEF TextKept, current_pos
<1>6. MadeLast /\ Unstarted /\ BeforeLast /\ SuccessIsSuccess
  BY DEF MadeLast, Unstarted, BeforeLast, SuccessIsSuccess, NotYet
<1> QED  BY <1>2, <1>3, <1>4, <1>5, <1>6 DEF IInv

\* realloc leaves a text as long as it was, and what there was room for.
LEMMA ReallocKeeps ==
  ASSUME NEW text \in Seq(Chars), NEW room \in Nat, NEW moved \in Realloc(text, room)
  PROVE  /\ moved \in Seq(Chars) /\ Len(moved) = Len(text)
         /\ \A i \in 1..Len(text) : i <= room => moved[i] = text[i]
<1>1. Len(text) \in Nat /\ DOMAIN text = 1..Len(text)
  BY LenProperties
<1>2. moved \in [1..Len(text) -> Chars]
      /\ \A i \in 1..Len(text) : i <= room => moved[i] = text[i]
  BY <1>1 DEF Realloc
<1>3. moved \in Seq(Chars)
  BY <1>1, <1>2, SeqDef
<1>4. Len(moved) = Len(text)
  BY <1>1, <1>2, <1>3, LenProperties
<1> QED  BY <1>2, <1>3, <1>4

\* One turn of the loop adds a character to the text and leaves the others; the
\* character added is the next one of the buffer, unless the output grows.
LEMMA AppendWrites ==
  ASSUME TypeOK, Fits, AppendChar
  PROVE  /\ Len(output) \in Nat /\ size \in Nat
         /\ Head(buffer) \in Chars /\ Tail(buffer) \in Seq(Chars)
         /\ output' \in Seq(Chars) /\ Len(output') = Len(output) + 1
         /\ \A i \in 1..Len(output) : output'[i] = output[i]
         /\ \/ size' = size /\ output'[Len(output) + 1] = Head(buffer)
                  /\ Len(output) + 1 <= size
            \/ size' = size + BufferSize /\ Len(output) = size
<1> DEFINE written == Append(output, Head(buffer))
<1>1. Head(buffer) \in Chars /\ Tail(buffer) \in Seq(Chars)
  BY HeadTailProperties DEF TypeOK, AppendChar
<1>2. /\ written \in Seq(Chars) /\ Len(written) = Len(output) + 1
      /\ \A i \in 1..Len(output) : written[i] = output[i]
      /\ written[Len(output) + 1] = Head(buffer)
  BY <1>1, AppendProperties DEF TypeOK
<1>3. Len(output) \in Nat /\ size \in Nat /\ Len(output) <= size
  BY LenProperties DEF TypeOK, Fits
<1>4. IF Len(output) + 1 > size
      THEN size' = size + BufferSize /\ output' \in Realloc(written, size)
      ELSE size' = size /\ output' = written
  BY DEF AppendChar, current_pos
<1> HIDE DEF written
<1>5. CASE Len(output) + 1 > size
  <2>1. output' \in Seq(Chars) /\ Len(output') = Len(written)
        /\ \A i \in 1..Len(written) : i <= size => output'[i] = written[i]
    BY <1>2, <1>3, <1>4, <1>5, ReallocKeeps
  <2>2. Len(output) = size
    BY <1>3, <1>5
  <2>3. ASSUME NEW i \in 1..Len(output)  PROVE output'[i] = output[i]
    BY <1>2, <1>3, <2>1, <2>2
  <2> QED  BY <1>1, <1>2, <1>3, <1>4, <1>5, <2>1, <2>2, <2>3
<1>6. CASE ~(Len(output) + 1 > size)
  BY <1>1, <1>2, <1>3, <1>4, <1>6
<1> QED  BY <1>5, <1>6

\* A string that was made is a result.
LEMMA MadeType ==
  ASSUME NEW T, NEW t \in T, NEW r, r = [text |-> t, made |-> TRUE]
  PROVE  r \in [text : T, made : BOOLEAN] /\ r.made
  OBVIOUS

\* What the three steps of the loop keep, whichever of the two loops it is.
Loop == TypeOK /\ Fits /\ Grown /\ AtMostOnePast /\ TextKept /\ BeforeLast

LEMMA ReadKeeps ==
  ASSUME Loop, NEW chunk \in Seq(Chars), Read(chunk)
  PROVE  Loop' /\ ~result.made /\ ~result'.made
<1> USE DEF Loop
<1>1. /\ received' = received \o chunk /\ buffer' = chunk /\ buffer = <<>> /\ ~result.made
      /\ UNCHANGED <<print_output, output, size, last_line_pos, lines, reached, before, result>>
  BY DEF Read
<1>2. /\ received' \in Seq(Chars) /\ Len(received') = Len(received) + Len(chunk)
      /\ \A i \in 1..Len(received) + Len(chunk) :
            received'[i] = IF i <= Len(received) THEN received[i] ELSE chunk[i - Len(received)]
  BY <1>1, ConcatProperties DEF TypeOK
<1>3. TypeOK'
  BY <1>1, <1>2 DEF TypeOK
<1>4. Len(received) \in Nat /\ Len(chunk) \in Nat /\ Len(output) = Len(received)
  BY <1>1, LenProperties, EmptySeq DEF TypeOK, TextKept, current_pos
<1>5. TextKept'
  <2>1. current_pos' = Len(received)
    BY <1>1, <1>4 DEF current_pos
  <2>2. ASSUME NEW i \in 1..Len(chunk)  PROVE chunk[i] = received'[Len(received) + i]
    BY <1>2, <1>4
  <2>3. ASSUME NEW i \in 1..Len(received)  PROVE output'[i] = received'[i] \/ AtGrowth(i)
    <3>1. output[i] = received[i] \/ AtGrowth(i)
      BY <1>4 DEF TextKept, current_pos
    <3>2. received'[i] = received[i]
      BY <1>2, <1>4
    <3> QED  BY <1>1, <3>1, <3>2
  <2> QED  BY <1>1, <1>2, <2>1, <2>2, <2>3 DEF TextKept, AtGrowth
<1> QED  BY <1>1, <1>3, <1>5 DEF Fits, Grown, AtMostOnePast, BeforeLast

\* The place behind the output is one at which it grows.
LEMMA GrowthAtEnd ==
  ASSUME TypeOK, Grown
  PROVE  AtGrowth(size + 1)
<1>1. PICK k \in 0..size : size = OutputSize + k * BufferSize
  BY DEF Grown
<1>2. k \in 0..(size + 1)
  BY DEF TypeOK
<1>3. size + 1 = OutputSize + k * BufferSize + 1
  BY <1>1
<1> QED  BY <1>2, <1>3 DEF AtGrowth

\* It grows by the size of the buffer.
LEMMA GrowsOn ==
  ASSUME TypeOK, Grown, size' = size + BufferSize
  PROVE  Grown'
<1>1. PICK k \in 0..size : size = OutputSize + k * BufferSize
  BY DEF Grown
<1> DEFINE b == k * BufferSize
<1>2. k \in Nat /\ BufferSize \in Nat \ {0} /\ OutputSize \in Nat /\ size \in Nat
  BY SizesAssumption DEF TypeOK
<1>3. (k + 1) * BufferSize = b + BufferSize /\ b \in Nat
  BY <1>2
<1>4. size = OutputSize + b
  BY <1>1
<1> HIDE DEF b
<1>5. size' = OutputSize + (k + 1) * BufferSize
  BY <1>2, <1>3, <1>4
<1>6. k + 1 \in 0..size'
  BY <1>1, <1>2
<1> QED  BY <1>5, <1>6 DEF Grown

LEMMA AppendKeeps ==
  ASSUME Loop, AppendChar
  PROVE  Loop'
<1> USE DEF Loop
<1> DEFINE n == Len(output)
<1>1. /\ n \in Nat /\ size \in Nat /\ Head(buffer) \in Chars /\ Tail(buffer) \in Seq(Chars)
      /\ output' \in Seq(Chars) /\ Len(output') = n + 1
      /\ \A i \in 1..n : output'[i] = output[i]
      /\ \/ size' = size /\ output'[n + 1] = Head(buffer) /\ n + 1 <= size
         \/ size' = size + BufferSize /\ n = size
  BY AppendWrites
<1>2. /\ buffer # <<>> /\ buffer' = Tail(buffer) /\ reached' = n + 1
      /\ UNCHANGED <<print_output, received, before, result>>
  BY DEF AppendChar, current_pos
<1>3. /\ buffer \in Seq(Chars) /\ Len(buffer) \in Nat /\ Len(received) \in Nat
      /\ last_line_pos \in Nat
  BY LenProperties DEF TypeOK
<1>4. /\ Len(buffer) >= 1 /\ Len(Tail(buffer)) = Len(buffer) - 1
      /\ \A i \in 1..Len(Tail(buffer)) : Tail(buffer)[i] = buffer[i + 1]
      /\ Head(buffer) = buffer[1]
  BY <1>2, <1>3, EmptySeq, HeadTailProperties
<1>5. /\ n + Len(buffer) = Len(received)
      /\ \A i \in 1..Len(buffer) : buffer[i] = received[n + i]
      /\ \A i \in 1..n : output[i] = received[i] \/ AtGrowth(i)
  BY DEF TextKept, current_pos
<1> HIDE DEF n
<1>6. size' \in Nat /\ reached' \in Nat /\ n + 1 <= size' /\ n <= size
  BY <1>1, <1>2, SizesAssumption
<1>7. last_line_pos' \in Nat /\ lines' \in Seq(Seq(Chars))
  <2> DEFINE written == Append(output, Head(buffer))
             line == CString(SubSeq(written, last_line_pos + 1, n + 1))
  <2>1. written \in Seq(Chars) /\ Len(written) = n + 1
    BY <1>1, AppendProperties DEF TypeOK, n
  <2>2. line \in Seq(Chars)
    <3> HIDE DEF written
    <3>1. last_line_pos + 1 \in Nat \ {0} /\ n + 1 \in Nat /\ n + 1 <= Len(written)
      BY <1>1, <1>3, <2>1
    <3>2. SubSeq(written, last_line_pos + 1, n + 1) \in Seq(Chars)
      BY <2>1, <3>1, LineType
    <3> QED  BY <3>2, CStringType
  <2>3. \/ lines' = Append(lines, line) /\ last_line_pos' = n + 1
        \/ lines' = lines /\ last_line_pos' = last_line_pos
    BY DEF AppendChar, current_pos, n
  <2> HIDE DEF line
  <2>4. Append(lines, line) \in Seq(Seq(Chars)) /\ lines \in Seq(Seq(Chars))
    BY <2>2, AppendProperties DEF TypeOK
  <2>5. n + 1 \in Nat
    BY <1>1
  <2> QED  BY <1>3, <2>3, <2>4, <2>5, Zenon
<1>8. TypeOK'
  BY <1>1, <1>2, <1>6, <1>7 DEF TypeOK
<1>9. Fits' /\ AtMostOnePast' /\ BeforeLast'
  <2>1. Fits'
    BY <1>1, <1>6 DEF Fits
  <2>2. AtMostOnePast' /\ BeforeLast'
    BY <1>2, <1>6, <1>8 DEF AtMostOnePast, BeforeLast, TypeOK
  <2> QED  BY <2>1, <2>2
<1>10. Grown'
  <2>1. size' = size => Grown'
    BY DEF Grown
  <2> QED  BY <1>1, <2>1, GrowsOn
<1>11. TextKept'
  <2>1. current_pos' = n + 1
    BY <1>1 DEF current_pos
  <2>2. n + 1 + Len(buffer') = Len(received')
    BY <1>1, <1>2, <1>3, <1>4, <1>5
  <2>3. ASSUME NEW i \in 1..Len(buffer')  PROVE buffer'[i] = received'[n + 1 + i]
    <3>1. i + 1 \in 1..Len(buffer) /\ n + (i + 1) = n + 1 + i
      BY <1>1, <1>2, <1>3, <1>4
    <3>2. buffer'[i] = buffer[i + 1]
      BY <1>2, <1>4
    <3>3. buffer[i + 1] = received[n + (i + 1)]
      BY <1>5, <3>1
    <3> QED  BY <1>2, <3>1, <3>2, <3>3
  <2>4. ASSUME NEW i \in 1..(n + 1)  PROVE output'[i] = received'[i] \/ AtGrowth(i)
    <3>1. CASE i \in 1..n
      BY <1>1, <1>2, <1>5, <3>1
    <3>2. CASE i = n + 1
      <4>1. CASE output'[n + 1] = Head(buffer)
        <5>1. 1 \in 1..Len(buffer)
          BY <1>3, <1>4
        <5>2. Head(buffer) = received[n + 1]
          BY <1>4, <1>5, <5>1
        <5> QED  BY <1>2, <3>2, <4>1, <5>2
      <4>2. CASE n = size
        BY <3>2, <4>2, GrowthAtEnd
      <4> QED  BY <1>1, <4>1, <4>2
    <3> QED  BY <1>1, <3>1, <3>2
  <2> QED  BY <2>1, <2>2, <2>3, <2>4 DEF TextKept, AtGrowth
<1> QED  BY <1>8, <1>9, <1>10, <1>11

LEMMA EndKeeps ==
  ASSUME Loop, End
  PROVE  Loop' /\ result'.made /\ buffer' = <<>>
<1> USE DEF Loop
<1> DEFINE Out == Seq(Chars \cup {"undefined"})
<1>1. Len(output) \in Nat /\ size \in Nat /\ (output # <<>> => Len(output) >= 1)
      /\ Len(output) <= size /\ reached \in Nat /\ before \in BOOLEAN
  BY LenProperties, EmptySeq DEF TypeOK, Fits
<1>2. /\ buffer = <<>> /\ ~result.made
      /\ UNCHANGED <<print_output, received, buffer, output, size, last_line_pos, lines>>
  BY DEF End
<1>3. ~before
  BY <1>2 DEF BeforeLast
<1>4. reached' \in Nat /\ reached' <= size + 1
  <2>1. reached <= size + 1
    BY DEF AtMostOnePast
  <2>2. reached' \in {1, reached, Len(output), Len(output) + 1}
    BY DEF End, current_pos
  <2> QED  BY <1>1, <2>1, <2>2
<1>5. before' \in BOOLEAN /\ (before' => output = <<>>)
  BY <1>1, <1>3 DEF End
<1>6. output = <<>> => received = <<>>
  <2>1. output = <<>> => Len(received) = 0
    BY <1>2, EmptySeq DEF TextKept, current_pos
  <2> QED  BY <2>1, EmptySeq DEF TypeOK
<1>7. AtMostOnePast'
  BY <1>2, <1>4, <1>5, <1>6 DEF AtMostOnePast
<1>8. <<>> \in Out /\ <<"undefined">> \in Out
  BY EmptySeq
<1>9. output # <<>> => CString(Stripped) \in Out
  <2> SUFFICES ASSUME output # <<>> PROVE CString(Stripped) \in Out  OBVIOUS
  <2>1. output \in Out
    BY SeqMonotonic DEF TypeOK
  <2>2. SubSeq(output, 1, Len(output) - 1) \in Out
    <3>1. Len(output) - 1 \in Nat /\ Len(output) - 1 <= Len(output)
      BY <1>1
    <3> QED  BY <2>1, <3>1, LineType
  <2>3. Stripped \in Out
    BY <2>1, <2>2 DEF Stripped, current_pos
  <2> QED  BY <2>3, CStringType
<1> HIDE DEF Out
<1>10. result' \in [text : Out, made : BOOLEAN] /\ result'.made
  <2>1. \E t \in Out : result' = [text |-> t, made |-> TRUE]
    BY <1>8, <1>9 DEF End, Undefined
  <2> QED  BY <2>1, MadeType
<1>11. TypeOK'
  BY <1>2, <1>4, <1>5, <1>10 DEF TypeOK, Out
<1>12. TextKept' /\ Fits' /\ Grown' /\ BeforeLast'
  BY <1>2, <1>10 DEF TextKept, current_pos, AtGrowth, Fits, Grown, BeforeLast
<1> QED  BY <1>2, <1>7, <1>10, <1>11, <1>12

LEMMA ChunksAreTexts == Chunks \subseteq Seq(Chars)
  BY SizesAssumption, SeqDef DEF Chunks

-----------------------------------------------------------------------------
LEMMA StepInv == IInv /\ [LocalNext]_localVars => IInv'
<1> SUFFICES ASSUME IInv, [LocalNext]_localVars PROVE IInv'  OBVIOUS
<1> USE DEF IInv, Loop
<1>1. ASSUME NEW chunk \in Chunks, Read(chunk), UNCHANGED <<call, ended, code>>,
             call \in {"remote", "reading"}
      PROVE  IInv'
  <2>1. chunk \in Seq(Chars)
    BY ChunksAreTexts
  <2>2. Loop' /\ ~result'.made
    BY <1>1, <2>1, ReadKeeps
  <2> QED  BY <1>1, <2>2 DEF CallType, MadeLast, Unstarted, SuccessIsSuccess
<1>2. ASSUME AppendChar, UNCHANGED <<call, ended, code>>, call \in {"remote", "reading"}
      PROVE  IInv'
  <2>1. Loop'
    BY <1>2, AppendKeeps
  <2>2. result' = result /\ ~result.made
    BY <1>2 DEF AppendChar, MadeLast
  <2> QED  BY <1>2, <2>1, <2>2 DEF CallType, MadeLast, Unstarted, SuccessIsSuccess
<1>3. ASSUME End, UNCHANGED <<call, ended, code>>, call \in {"remote", "reading"}
      PROVE  IInv'
  <2>1. Loop' /\ result'.made /\ buffer' = <<>>
    BY <1>3, EndKeeps
  <2> QED  BY <1>3, <2>1 DEF CallType, MadeLast, Unstarted, SuccessIsSuccess
<1>4. CASE ReadRemote
  BY <1>1, <1>2, <1>3, <1>4 DEF ReadRemote, Next
<1>5. CASE Popen
  <2> USE <1>5 DEF Popen
  <2>1. result' = result \/ result' = [text |-> <<>>, made |-> TRUE]
    OBVIOUS
  <2>2. result' \in [text : Seq(Chars \cup {"undefined"}), made : BOOLEAN]
    BY <2>1, EmptySeq, MadeType DEF TypeOK
  <2>3. TypeOK'
    BY <2>2 DEF TypeOK
  <2>4. ~before /\ before' = before
    BY DEF Unstarted, BeforeLast
  <2>5. Fits' /\ Grown' /\ AtMostOnePast' /\ TextKept' /\ BeforeLast'
    BY <2>4 DEF Fits, Grown, AtMostOnePast, TextKept, AtGrowth, current_pos, BeforeLast
  <2>6. CallType'
    BY DEF CallType
  <2>7. call' = "reading" => ~result'.made
    BY DEF Unstarted
  <2>8. call' = "returned" => code' # 0
    OBVIOUS
  <2>9. call' \in {"reading", "returned"}
    OBVIOUS
  <2> QED  BY <2>3, <2>5, <2>6, <2>7, <2>8, <2>9 DEF MadeLast, Unstarted, SuccessIsSuccess
<1>6. ASSUME NEW chunk \in Chunks, FillBuffer(chunk)  PROVE IInv'
  BY <1>1, <1>6 DEF FillBuffer
<1>7. CASE ReadOut
  BY <1>2, <1>3, <1>7 DEF ReadOut
<1>8. CASE Pclose
  <2> USE <1>8 DEF Pclose, vars
  <2>1. Loop'
    BY DEF TypeOK, Fits, Grown, AtMostOnePast, TextKept, AtGrowth, current_pos, BeforeLast
  <2>2. ended' \in Endings /\ code' \in Int
    BY DEF Endings, ExitCodes, Signals, WaitStatus
  <2>3. code' = 0 => ended' = [how |-> "exit", value |-> 0]
    BY DEF Endings, ExitCodes, Signals, WaitStatus
  <2>4. buffer = <<>> /\ Len(output) = Len(received)
    <3>1. buffer = <<>>
      BY DEF MadeLast
    <3> QED  BY <3>1, EmptySeq, LenProperties DEF TextKept, current_pos, TypeOK
  <2> QED  BY <2>1, <2>2, <2>3, <2>4 DEF CallType, MadeLast, Unstarted, SuccessIsSuccess
<1>9. CASE UNCHANGED localVars
  BY <1>9 DEF localVars, vars, TypeOK, CallType, Fits, Grown, AtMostOnePast, TextKept,
              AtGrowth, current_pos, MadeLast, Unstarted, BeforeLast, SuccessIsSuccess
<1> QED  BY <1>4, <1>5, <1>6, <1>7, <1>8, <1>9 DEF LocalNext

-----------------------------------------------------------------------------
(* The lines of a text that grows by a character.                          *)

Upto(s, i) == {j \in Newlines(s) : j <= i}

\* The newlines of a text can be counted off.
Counted(s) ==
    \A k \in 1..Cardinality(Newlines(s)) :
        \E i \in Newlines(s) : Cardinality(Upto(s, i)) = k

\* There are finitely many newlines, at places in the text.
LEMMA NewlinesFinite ==
  ASSUME NEW s \in Seq(Chars)
  PROVE  /\ IsFiniteSet(Newlines(s)) /\ Cardinality(Newlines(s)) \in Nat
         /\ Len(s) \in Nat /\ Newlines(s) \subseteq 1..Len(s)
         /\ \A i : IsFiniteSet(Upto(s, i)) /\ Cardinality(Upto(s, i)) \in Nat
                   /\ Cardinality(Upto(s, i)) <= Cardinality(Newlines(s))
<1>1. Len(s) \in Nat /\ Newlines(s) \subseteq 1..Len(s)
  BY LenProperties DEF Newlines
<1>2. IsFiniteSet(1..Len(s))
  BY <1>1, FS_Interval
<1>3. IsFiniteSet(Newlines(s))
  BY <1>1, <1>2, FS_Subset
<1>4. ASSUME NEW i
      PROVE  IsFiniteSet(Upto(s, i)) /\ Cardinality(Upto(s, i)) <= Cardinality(Newlines(s))
  <2>1. Upto(s, i) \in SUBSET Newlines(s)
    BY DEF Upto
  <2> QED  BY <1>3, <2>1, FS_Subset
<1> QED  BY <1>1, <1>3, <1>4, FS_CardinalityType

\* Later newlines have more before them.
LEMMA UptoGrows ==
  ASSUME NEW s \in Seq(Chars), NEW i \in Newlines(s), NEW j \in Newlines(s), i < j
  PROVE  Cardinality(Upto(s, i)) < Cardinality(Upto(s, j))
<1>1. i \in Nat /\ j \in Nat /\ Newlines(s) \subseteq Nat
  BY NewlinesFinite
<1>2. Upto(s, i) \in SUBSET Upto(s, j)
  BY <1>1 DEF Upto
<1>3. j \in Upto(s, j) /\ j \notin Upto(s, i)
  BY <1>1 DEF Upto
<1>4. IsFiniteSet(Upto(s, j)) /\ Cardinality(Upto(s, j)) \in Nat
      /\ Cardinality(Upto(s, i)) \in Nat
  BY NewlinesFinite
<1>5. Cardinality(Upto(s, i)) <= Cardinality(Upto(s, j))
      /\ (Cardinality(Upto(s, i)) = Cardinality(Upto(s, j)) => Upto(s, i) = Upto(s, j))
  BY <1>2, <1>4, FS_Subset
<1>6. Upto(s, i) # Upto(s, j)
  BY <1>3
<1> QED  BY <1>4, <1>5, <1>6

\* A newline with k up to it ends the k-th line.
LEMMA LineEndIs ==
  ASSUME NEW s \in Seq(Chars), NEW k, NEW i \in Newlines(s), Cardinality(Upto(s, i)) = k
  PROVE  LineEnd(s, k) = i
<1> DEFINE e == LineEnd(s, k)
<1>1. e \in Newlines(s) /\ Cardinality(Upto(s, e)) = k
  BY DEF LineEnd, Upto
<1> HIDE DEF e
<1>2. i \in Nat /\ e \in Nat /\ k \in Nat
  BY <1>1, NewlinesFinite
<1>3. ~(i < e) /\ ~(e < i)
  BY <1>1, <1>2, UptoGrows
<1>4. e = i
  BY <1>2, <1>3
<1> QED  BY <1>4 DEF e

\* The k-th line ends with a newline.
LEMMA LineEndType ==
  ASSUME NEW s \in Seq(Chars), Counted(s), NEW k \in 1..Cardinality(Newlines(s))
  PROVE  LineEnd(s, k) \in Newlines(s) /\ Cardinality(Upto(s, LineEnd(s, k))) = k
<1>1. PICK i \in Newlines(s) : Cardinality(Upto(s, i)) = k
  BY DEF Counted
<1> QED  BY <1>1, LineEndIs

\* Lines end one after the other.
LEMMA LineEndsGrow ==
  ASSUME NEW s \in Seq(Chars), Counted(s),
         NEW k \in 1..Cardinality(Newlines(s)), k # 1
  PROVE  /\ k - 1 \in 1..Cardinality(Newlines(s))
         /\ LineEnd(s, k - 1) \in Nat /\ LineEnd(s, k) \in Nat
         /\ LineEnd(s, k - 1) < LineEnd(s, k)
<1>1. k - 1 \in 1..Cardinality(Newlines(s)) /\ k \in Nat
  BY NewlinesFinite
<1> DEFINE d == LineEnd(s, k - 1)
           e == LineEnd(s, k)
<1>2. /\ d \in Newlines(s) /\ Cardinality(Upto(s, d)) = k - 1
      /\ e \in Newlines(s) /\ Cardinality(Upto(s, e)) = k
  BY <1>1, LineEndType
<1> HIDE DEF d, e
<1>3. d \in Nat /\ e \in Nat
  BY <1>2, NewlinesFinite
<1>4. ~(e < d)
  BY <1>1, <1>2, <1>3, UptoGrows
<1>5. e # d
  BY <1>1, <1>2
<1>6. d < e
  BY <1>3, <1>4, <1>5
<1> QED  BY <1>1, <1>3, <1>6 DEF d, e

\* A character more: a newline is the last one, the others stay.
LEMMA NewlinesOfAppend ==
  ASSUME NEW s \in Seq(Chars), NEW c \in Chars
  PROVE  /\ Append(s, c) \in Seq(Chars) /\ Len(Append(s, c)) = Len(s) + 1 /\ Len(s) \in Nat
         /\ c # "nl" => Newlines(Append(s, c)) = Newlines(s)
         /\ c = "nl" => Newlines(Append(s, c)) = Newlines(s) \cup {Len(s) + 1}
<1>1. Append(s, c) \in Seq(Chars) /\ Len(Append(s, c)) = Len(s) + 1 /\ Len(s) \in Nat
      /\ (\A i \in 1..Len(s) : Append(s, c)[i] = s[i]) /\ Append(s, c)[Len(s) + 1] = c
  BY AppendProperties, LenProperties
<1>2. c # "nl" => Newlines(Append(s, c)) = Newlines(s)
  BY <1>1 DEF Newlines
<1>3. c = "nl" => Newlines(Append(s, c)) = Newlines(s) \cup {Len(s) + 1}
  BY <1>1 DEF Newlines
<1> QED  BY <1>1, <1>2, <1>3

\* They are counted as before.
LEMMA LineEndsStay ==
  ASSUME NEW s \in Seq(Chars), NEW c \in Chars, Counted(s),
         NEW k \in 1..Cardinality(Newlines(s))
  PROVE  /\ LineEnd(Append(s, c), k) = LineEnd(s, k)
         /\ LineEnd(s, k) \in Newlines(Append(s, c))
         /\ Cardinality(Upto(Append(s, c), LineEnd(s, k))) = k
<1> DEFINE t == Append(s, c)
           e == LineEnd(s, k)
<1>1. e \in Newlines(s) /\ Cardinality(Upto(s, e)) = k
  BY LineEndType
<1>2. t \in Seq(Chars) /\ e \in Newlines(t)
      /\ (Newlines(t) = Newlines(s) \/ Newlines(t) = Newlines(s) \cup {Len(s) + 1})
  BY <1>1, NewlinesOfAppend
<1>3. e \in 1..Len(s) /\ Len(s) \in Nat
  BY <1>1, NewlinesFinite
<1> HIDE DEF t, e
<1>4. Upto(t, e) = Upto(s, e)
  BY <1>2, <1>3 DEF Upto
<1>5. LineEnd(t, k) = e
  BY <1>1, <1>2, <1>4, LineEndIs
<1> QED  BY <1>1, <1>2, <1>4, <1>5 DEF t, e

\* A newline is counted last.
LEMMA LineEndIsLast ==
  ASSUME NEW s \in Seq(Chars)
  PROVE  LET t == Append(s, "nl")
             K == Cardinality(Newlines(s))
         IN  /\ Cardinality(Newlines(t)) = K + 1
             /\ LineEnd(t, K + 1) = Len(s) + 1
             /\ Len(s) + 1 \in Newlines(t) /\ Cardinality(Upto(t, Len(s) + 1)) = K + 1
<1> DEFINE t == Append(s, "nl")
           K == Cardinality(Newlines(s))
<1>1. "nl" \in Chars
  BY DEF Chars
<1>2. t \in Seq(Chars) /\ Len(t) = Len(s) + 1 /\ Len(s) \in Nat
      /\ Newlines(t) = Newlines(s) \cup {Len(s) + 1}
  BY <1>1, NewlinesOfAppend
<1>3. Len(s) + 1 \notin Newlines(s) /\ K \in Nat /\ IsFiniteSet(Newlines(s))
  BY <1>2, NewlinesFinite
<1>4. Cardinality(Newlines(t)) = K + 1
  BY <1>2, <1>3, FS_AddElement
<1> HIDE DEF t, K
<1>5. Upto(t, Len(s) + 1) = Newlines(t)
  <2>1. Newlines(t) \subseteq 1..Len(t)
    BY <1>2, NewlinesFinite
  <2> QED  BY <1>2, <2>1 DEF Upto
<1>6. Len(s) + 1 \in Newlines(t) /\ Cardinality(Upto(t, Len(s) + 1)) = K + 1
  BY <1>2, <1>4, <1>5
<1>7. LineEnd(t, K + 1) = Len(s) + 1
  BY <1>2, <1>6, LineEndIs
<1> QED  BY <1>4, <1>6, <1>7 DEF t, K

\* A text that can be counted off can be when it has grown.
LEMMA CountedAppend ==
  ASSUME NEW s \in Seq(Chars), NEW c \in Chars, Counted(s)
  PROVE  Counted(Append(s, c))
<1> DEFINE t == Append(s, c)
           K == Cardinality(Newlines(s))
<1> SUFFICES ASSUME NEW k \in 1..Cardinality(Newlines(t))
             PROVE  \E i \in Newlines(t) : Cardinality(Upto(t, i)) = k
  BY DEF Counted
<1>1. CASE k \in 1..K
  BY <1>1, LineEndsStay
<1>2. CASE k \notin 1..K
  <2>1. K \in Nat
    BY NewlinesFinite
  <2>2. c = "nl"
    <3>1. c # "nl" => Cardinality(Newlines(t)) = K
      BY NewlinesOfAppend
    <3> QED  BY <1>2, <3>1
  <2>3. Cardinality(Newlines(t)) = K + 1
    BY <2>2, LineEndIsLast
  <2>4. k = K + 1
    BY <1>2, <2>1, <2>3
  <2> QED  BY <2>2, <2>4, LineEndIsLast
<1> QED  BY <1>1, <1>2

\* Where the k-th line of a text begins, and that line in the text collected.
LineBegin(s, k) == IF k = 1 THEN 1 ELSE LineEnd(s, k - 1) + 1
Line(s, text, k) == CString(Append(SubSeq(text, LineBegin(s, k), LineEnd(s, k) - 1), "nl"))

LEMMA LineIs ==
  ASSUME NEW s, NEW x, NEW k, NEW a, NEW e, a = LineBegin(s, k), LineEnd(s, k) = e
  PROVE  Line(s, x, k) = CString(Append(SubSeq(x, a, e - 1), "nl"))
  BY DEF Line

\* The last character of a text ends each of its ends.
LEMMA SubSeqLast ==
  ASSUME NEW s \in Seq(Chars), NEW n \in Nat, Len(s) = n + 1,
         NEW a \in Nat \ {0}, a <= n + 1
  PROVE  SubSeq(s, a, n + 1) = SubSeq(s, a, n) \o <<s[n + 1]>>
<1> DEFINE m == n + 1
<1>1. m \in Nat /\ Len(s) = m /\ m - 1 = n /\ a <= m
  OBVIOUS
<1> HIDE DEF m
<1>2. a \in 1..Len(s) /\ m \in a..Len(s)
  BY <1>1
<1>3. SubSeq(s, a, m) = SubSeq(s, a, m - 1) \o <<s[m]>>
  BY <1>2, SubSeqRecursiveSecond
<1> QED  BY <1>1, <1>3 DEF m

\* Texts that agree have the same characters in them.
LEMMA SubSeqSame ==
  ASSUME NEW s \in Seq(Chars), NEW t \in Seq(Chars), NEW n \in Nat, n <= Len(s), n <= Len(t),
         \A i \in 1..n : t[i] = s[i], NEW a \in Nat \ {0}, NEW e \in Nat, e <= n
  PROVE  SubSeq(t, a, e) = SubSeq(s, a, e) /\ SubSeq(t, a, e) \in Seq(Chars)
<1> DEFINE u == SubSeq(t, a, e)
           v == SubSeq(s, a, e)
<1>1. Len(s) \in Nat /\ Len(t) \in Nat
  BY LenProperties
<1>2. (\A i \in a..e : s[i] \in Chars) /\ (\A i \in a..e : t[i] \in Chars)
  BY <1>1, ElementOfSeq
<1>3. /\ u \in Seq(Chars) /\ Len(u) = (IF a <= e THEN e - a + 1 ELSE 0)
      /\ \A i \in 1..e - a + 1 : u[i] = t[a + i - 1]
  BY <1>2, SubSeqProperties
<1>4. /\ v \in Seq(Chars) /\ Len(v) = (IF a <= e THEN e - a + 1 ELSE 0)
      /\ \A i \in 1..e - a + 1 : v[i] = s[a + i - 1]
  BY <1>2, SubSeqProperties
<1> HIDE DEF u, v
<1>5. ASSUME NEW i \in 1..Len(u)  PROVE u[i] = v[i]
  <2>1. i \in 1..e - a + 1 /\ a + i - 1 \in 1..n
    BY <1>3
  <2> QED  BY <1>3, <1>4, <2>1
<1>6. u = v
  BY <1>3, <1>4, <1>5, SeqEqual
<1> QED  BY <1>3, <1>6 DEF u, v

\* The complete lines do not change when the text grows.
LEMMA LinesStay ==
  ASSUME NEW s \in Seq(Chars), NEW c \in Chars, Counted(s),
         NEW x \in Seq(Chars), NEW y \in Seq(Chars), Len(x) = Len(s), Len(y) = Len(s) + 1,
         \A i \in 1..Len(s) : y[i] = x[i],
         NEW k \in 1..Cardinality(Newlines(s))
  PROVE  Line(Append(s, c), y, k) = Line(s, x, k)
<1> DEFINE t == Append(s, c)
           a == LineBegin(s, k)
           e == LineEnd(s, k)
<1>1. Cardinality(Newlines(s)) \in Nat /\ Newlines(s) \subseteq 1..Len(s) /\ Len(s) \in Nat
  BY NewlinesFinite
<1>2. k = 1 \/ k - 1 \in 1..Cardinality(Newlines(s))
  BY <1>1
<1>3. LineEnd(t, k) = e /\ LineBegin(t, k) = a
  BY <1>2, LineEndsStay DEF LineBegin
<1>4. e \in 1..Len(s)
  BY <1>1, LineEndType
<1>5. a \in Nat \ {0}
  BY <1>1, <1>4, LineEndsGrow DEF LineBegin
<1> HIDE DEF t, a, e
<1>6. e - 1 \in Nat /\ e - 1 <= Len(s) /\ Len(s) <= Len(x) /\ Len(s) <= Len(y)
  BY <1>1, <1>4
<1>7. SubSeq(y, a, e - 1) = SubSeq(x, a, e - 1)
  <2> DEFINE m == Len(s)
             f == e - 1
  <2>1. /\ m \in Nat /\ m <= Len(x) /\ m <= Len(y) /\ f \in Nat /\ f <= m
        /\ \A i \in 1..m : y[i] = x[i]
    BY <1>1, <1>6
  <2> HIDE DEF m, f
  <2>2. SubSeq(y, a, f) = SubSeq(x, a, f)
    BY <1>5, <2>1, SubSeqSame
  <2> QED  BY <2>2 DEF f
<1> QED  BY <1>3, <1>7 DEF Line, t, a, e

\* The logging of a line, and of a character that ends none.
LEMMA LinesOfAppend ==
  ASSUME NEW s \in Seq(Chars), NEW c \in Chars, Counted(s),
         NEW x \in Seq(Chars), NEW y \in Seq(Chars), Len(x) = Len(s), Len(y) = Len(s) + 1,
         \A i \in 1..Len(s) : y[i] = x[i], LinesOf(s, x) \in Seq(Seq(Chars))
  PROVE  /\ c # "nl" => LinesOf(Append(s, c), y) = LinesOf(s, x)
         /\ c = "nl" =>
               \A line \in Seq(Chars) :
                   line = Line(Append(s, c), y, Cardinality(Newlines(Append(s, c)))) =>
                       LinesOf(Append(s, c), y) = Append(LinesOf(s, x), line)
<1> DEFINE t == Append(s, c)
           K == Cardinality(Newlines(s))
<1>1. K \in Nat
  BY NewlinesFinite
<1>2. \A k \in 1..K : Line(t, y, k) = Line(s, x, k)
  BY LinesStay
<1>3. LinesOf(s, x) = [k \in 1..K |-> Line(s, x, k)]
  BY DEF LinesOf, Line, LineBegin
<1>4. LinesOf(t, y) = [k \in 1..Cardinality(Newlines(t)) |-> Line(t, y, k)]
  BY DEF LinesOf, Line, LineBegin
<1>5. c # "nl" => Newlines(t) = Newlines(s)
  BY NewlinesOfAppend
<1>6. c = "nl" => Cardinality(Newlines(t)) = K + 1
  BY LineEndIsLast
<1> HIDE DEF t, K
<1>7. c # "nl" => LinesOf(t, y) = LinesOf(s, x)
  <2>1. c # "nl" => Cardinality(Newlines(t)) = K
    BY <1>5 DEF K
  <2> QED  BY <1>2, <1>3, <1>4, <2>1
<1>8. ASSUME c = "nl", NEW line \in Seq(Chars), line = Line(t, y, Cardinality(Newlines(t)))
      PROVE  LinesOf(t, y) = Append(LinesOf(s, x), line)
  <2>1. Len(LinesOf(s, x)) = K
    BY <1>1, <1>3, LenProperties
  <2> DEFINE both == Append(LinesOf(s, x), line)
  <2>2. /\ both \in Seq(Seq(Chars)) /\ Len(both) = K + 1
        /\ \A k \in 1..K : both[k] = LinesOf(s, x)[k]
        /\ both[K + 1] = line
    BY <2>1, AppendProperties
  <2> HIDE DEF both
  <2>3. both = [k \in 1..K + 1 |-> both[k]]
    BY <2>2, LenProperties
  <2>4. ASSUME NEW k \in 1..K + 1  PROVE both[k] = Line(t, y, k)
    <3>1. CASE k \in 1..K
      BY <1>2, <1>3, <2>2, <3>1
    <3>2. CASE k = K + 1
      BY <1>6, <1>8, <2>2, <3>2
    <3> QED  BY <1>1, <3>1, <3>2
  <2>5. LinesOf(t, y) = [k \in 1..K + 1 |-> Line(t, y, k)]
    BY <1>4, <1>6, <1>8
  <2>6. LinesOf(t, y) = both
    BY <2>3, <2>4, <2>5
  <2> QED  BY <2>6 DEF both
<1> QED  BY <1>7, <1>8 DEF t

-----------------------------------------------------------------------------
(* The lines of what is copied.                                            *)

\* What a text begins with.
LEMMA PrefixIs ==
  ASSUME NEW r \in Seq(Chars), NEW n \in Nat, n <= Len(r)
  PROVE  /\ SubSeq(r, 1, n) \in Seq(Chars) /\ Len(SubSeq(r, 1, n)) = n
         /\ \A i \in 1..n : SubSeq(r, 1, n)[i] = r[i]
<1>1. \A i \in 1..n : r[i] \in Chars
  BY LenProperties, ElementOfSeq
<1>2. /\ SubSeq(r, 1, n) \in Seq(Chars)
      /\ Len(SubSeq(r, 1, n)) = (IF 1 <= n THEN n - 1 + 1 ELSE 0)
      /\ \A i \in 1..n - 1 + 1 : SubSeq(r, 1, n)[i] = r[1 + i - 1]
  BY <1>1, SubSeqProperties
<1>3. Len(SubSeq(r, 1, n)) = n /\ n - 1 + 1 = n
  BY <1>2
<1>4. ASSUME NEW i \in 1..n  PROVE SubSeq(r, 1, n)[i] = r[i]
  <2>1. 1 + i - 1 = i
    OBVIOUS
  <2> QED  BY <1>2, <1>3, <2>1
<1> QED  BY <1>2, <1>3, <1>4

\* No more is copied than was read.
LEMMA CopiedIsRead ==
  ASSUME Loop
  PROVE  /\ received \in Seq(Chars) /\ Len(received) \in Nat /\ output \in Seq(Chars)
         /\ Len(output) \in Nat /\ Len(output) <= Len(received)
<1>1. /\ received \in Seq(Chars) /\ Len(received) \in Nat /\ output \in Seq(Chars)
      /\ Len(output) \in Nat /\ Len(buffer) \in Nat
  BY LenProperties DEF Loop, TypeOK
<1> QED  BY <1>1 DEF Loop, TextKept, current_pos

\* A read leaves what is copied alone, and a turn of the loop adds to it the
\* character that it copies.
LEMMA ReadCopies ==
  ASSUME Loop, NEW chunk \in Seq(Chars), Read(chunk)
  PROVE  Copied' = Copied
<1> DEFINE n == Len(output)
           r == received \o chunk
<1>1. received' = r /\ output' = output
  BY DEF Read
<1>2. received \in Seq(Chars) /\ Len(received) \in Nat /\ n \in Nat /\ n <= Len(received)
      /\ Len(chunk) \in Nat
  BY CopiedIsRead, LenProperties
<1>3. /\ r \in Seq(Chars) /\ Len(r) = Len(received) + Len(chunk)
      /\ \A i \in 1..Len(received) + Len(chunk) :
            r[i] = IF i <= Len(received) THEN received[i] ELSE chunk[i - Len(received)]
  BY <1>2, ConcatProperties
<1> HIDE DEF n, r
<1>4. \A i \in 1..n : r[i] = received[i]
  BY <1>2, <1>3
<1>5. SubSeq(r, 1, n) = SubSeq(received, 1, n)
  BY <1>2, <1>3, <1>4, SubSeqSame
<1> QED  BY <1>1, <1>5 DEF Copied, current_pos, n

LEMMA AppendCopies ==
  ASSUME Loop, AppendChar
  PROVE  Copied' = Append(Copied, Head(buffer))
<1> DEFINE n == Len(output)
           s == SubSeq(received, 1, n)
           t == SubSeq(received, 1, n + 1)
           u == Append(s, Head(buffer))
<1>1. received \in Seq(Chars) /\ Len(received) \in Nat /\ n \in Nat
  BY CopiedIsRead
<1>2. Len(output') = n + 1 /\ Head(buffer) \in Chars
  BY AppendWrites DEF Loop
<1>3. received' = received /\ buffer # <<>>
  BY DEF AppendChar
<1>4. n + 1 <= Len(received) /\ Head(buffer) = received[n + 1]
  <2>1. buffer \in Seq(Chars) /\ Len(buffer) \in Nat /\ Len(buffer) # 0
    BY <1>3, EmptySeq, LenProperties DEF Loop, TypeOK
  <2>2. n + Len(buffer) = Len(received)
        /\ \A i \in 1..Len(buffer) : buffer[i] = received[n + i]
    BY DEF Loop, TextKept, current_pos
  <2>3. 1 \in 1..Len(buffer) /\ Head(buffer) = buffer[1]
    BY <2>1
  <2> HIDE DEF n
  <2> QED  BY <1>1, <2>1, <2>2, <2>3
<1> HIDE DEF n
<1>5. s \in Seq(Chars) /\ Len(s) = n /\ \A i \in 1..n : s[i] = received[i]
  BY <1>1, <1>4, PrefixIs
<1>6. t \in Seq(Chars) /\ Len(t) = n + 1 /\ \A i \in 1..(n + 1) : t[i] = received[i]
  <2>1. n + 1 \in Nat
    BY <1>1
  <2> QED  BY <1>1, <1>4, <2>1, PrefixIs
<1> HIDE DEF s, t
<1>7. /\ u \in Seq(Chars) /\ Len(u) = n + 1 /\ u[n + 1] = Head(buffer)
      /\ \A i \in 1..n : u[i] = s[i]
  BY <1>1, <1>2, <1>5, AppendProperties
<1> HIDE DEF u
<1>8. ASSUME NEW i \in 1..(n + 1)  PROVE t[i] = u[i]
  <2>1. CASE i \in 1..n
    BY <1>1, <1>5, <1>6, <1>7, <2>1
  <2>2. CASE i = n + 1
    BY <1>1, <1>4, <1>6, <1>7, <2>2
  <2> QED  BY <1>1, <2>1, <2>2
<1>9. t = u
  BY <1>6, <1>7, <1>8, SeqEqual
<1> QED  BY <1>2, <1>3, <1>9 DEF Copied, current_pos, n, s, t, u

-----------------------------------------------------------------------------
\* last_line_pos is the end of the last complete line.
LogInv ==
    /\ Counted(Copied)
    /\ LoggedAreLines
    /\ print_output =>
          last_line_pos = IF Newlines(Copied) = {} THEN 0
                          ELSE LineEnd(Copied, Cardinality(Newlines(Copied)))

\* Without any output there is no line.
LEMMA InitLog == LocalInit => LogInv
<1> SUFFICES ASSUME LocalInit PROVE LogInv  OBVIOUS
<1>1. Newlines(<<>>) = {}
  BY EmptySeq DEF Newlines
<1>2. Cardinality({}) = 0
  BY FS_EmptySet
<1>3. Counted(<<>>)
  <2>1. Cardinality(Newlines(<<>>)) = 0
    BY <1>1, <1>2, Zenon
  <2>2. 1..0 = {}
    OBVIOUS
  <2> QED  BY <2>1, <2>2, Zenon DEF Counted
<1>4. LinesOf(<<>>, <<>>) = <<>>
  BY <1>1, <1>2, SMTT(30) DEF LinesOf
<1>5. output = <<>> /\ received = <<>> /\ lines = <<>> /\ last_line_pos = 0
  BY DEF LocalInit, Init
<1>6. Copied = <<>>
  BY <1>5, EmptySeq, SubSeqEmpty DEF Copied, current_pos
<1>7. LoggedAreLines
  BY <1>4, <1>5, <1>6 DEF LoggedAreLines
<1> QED  BY <1>1, <1>3, <1>5, <1>6, <1>7 DEF LogInv

\* The turn of the loop that logs a line, or does not.
LEMMA AppendLog == IInv /\ LogInv /\ AppendChar => LogInv'
<1> SUFFICES ASSUME IInv, LogInv, AppendChar PROVE LogInv'  OBVIOUS
<1> DEFINE c == Head(buffer)
           n == Len(output)
           s == Copied
           K == Cardinality(Newlines(s))
           written == Append(output, c)
<1>1. Loop
  BY DEF IInv, Loop
<1>2. /\ print_output' = print_output
      /\ IF print_output /\ c = "nl"
         THEN /\ lines' = Append(lines, CString(SubSeq(written, last_line_pos + 1, n + 1)))
              /\ last_line_pos' = n + 1
         ELSE UNCHANGED <<lines, last_line_pos>>
  BY DEF AppendChar, current_pos
<1>3. /\ n \in Nat /\ c \in Chars /\ output \in Seq(Chars)
      /\ output' \in Seq(Chars) /\ Len(output') = n + 1
      /\ \A i \in 1..n : output'[i] = output[i]
  BY <1>1, AppendWrites, CopiedIsRead DEF Loop
<1>4. s \in Seq(Chars) /\ Len(s) = n /\ Copied' = Append(s, c)
  BY <1>1, <1>3, CopiedIsRead, PrefixIs, AppendCopies DEF Copied, current_pos
<1>5. last_line_pos \in Nat /\ lines \in Seq(Seq(Chars))
  BY <1>1 DEF Loop, TypeOK
<1>6. /\ written \in Seq(Chars) /\ Len(written) = n + 1 /\ written[n + 1] = c
      /\ \A i \in 1..n : written[i] = output[i]
  BY <1>3, AppendProperties
<1>7. Counted(s) /\ LoggedAreLines
      /\ (print_output => last_line_pos = IF Newlines(s) = {} THEN 0 ELSE LineEnd(s, K))
  BY DEF LogInv
<1> HIDE DEF c, n, s, K, written
<1>8. K \in Nat /\ IsFiniteSet(Newlines(s))
  BY <1>4, NewlinesFinite DEF K
<1> DEFINE t == Append(s, c)
<1>9. /\ Counted(t)
      /\ c # "nl" => Newlines(t) = Newlines(s)
  BY <1>3, <1>4, <1>7, NewlinesOfAppend, CountedAppend
<1>10. c = "nl" => /\ Cardinality(Newlines(t)) = K + 1
                   /\ LineEnd(t, K + 1) = n + 1
                   /\ Newlines(t) # {}
  BY <1>4, LineEndIsLast DEF K
<1>11. ASSUME NEW k \in 1..K  PROVE LineEnd(t, k) = LineEnd(s, k)
  BY <1>3, <1>4, <1>7, LineEndsStay DEF K
<1>12. K = 0 <=> Newlines(s) = {}
  BY <1>8, FS_EmptySet DEF K
<1>13. print_output /\ LinesOf(s, output) \in Seq(Seq(Chars)) =>
         /\ c # "nl" => LinesOf(t, output') = LinesOf(s, output)
         /\ c = "nl" =>
               \A line \in Seq(Chars) :
                   line = Line(t, output', Cardinality(Newlines(t))) =>
                       LinesOf(t, output') = Append(LinesOf(s, output), line)
  <2>1. Len(output) = Len(s) /\ Len(output') = Len(s) + 1
        /\ \A i \in 1..Len(s) : output'[i] = output[i]
    BY <1>3, <1>4 DEF n
  <2> DEFINE x == output
             y == output'
  <2>2. /\ x \in Seq(Chars) /\ y \in Seq(Chars) /\ Len(x) = Len(s) /\ Len(y) = Len(s) + 1
        /\ \A i \in 1..Len(s) : y[i] = x[i]
    BY <1>3, <2>1
  <2> HIDE DEF x, y
  <2>3. LinesOf(s, x) \in Seq(Seq(Chars)) =>
         /\ c # "nl" => LinesOf(t, y) = LinesOf(s, x)
         /\ c = "nl" =>
               \A line \in Seq(Chars) :
                   line = Line(t, y, Cardinality(Newlines(t))) =>
                       LinesOf(t, y) = Append(LinesOf(s, x), line)
    <3>1. s \in Seq(Chars) /\ c \in Chars /\ Counted(s)
      BY <1>3, <1>4, <1>7
    <3> SUFFICES ASSUME LinesOf(s, x) \in Seq(Seq(Chars))
                 PROVE  /\ c # "nl" => LinesOf(t, y) = LinesOf(s, x)
                        /\ c = "nl" =>
                              \A line \in Seq(Chars) :
                                  line = Line(t, y, Cardinality(Newlines(t))) =>
                                      LinesOf(t, y) = Append(LinesOf(s, x), line)
      OBVIOUS
    <3> QED  BY <2>2, <3>1, LinesOfAppend
  <2> QED  BY <2>3 DEF x, y
<1> HIDE DEF t
<1>14. Copied' = t
  BY <1>4 DEF t
<1>15. CASE ~print_output
  <2>1. lines = <<>>
    BY <1>7, <1>15 DEF LoggedAreLines
  <2> QED  BY <1>2, <1>9, <1>14, <1>15, <2>1 DEF LogInv, LoggedAreLines
<1>16. CASE print_output /\ c # "nl"
  <2>1. lines = LinesOf(s, output)
    BY <1>7, <1>16 DEF LoggedAreLines, s
  <2>2. LinesOf(t, output') = lines
    BY <1>5, <1>13, <1>16, <2>1
  <2>3. lines' = lines /\ last_line_pos' = last_line_pos
    BY <1>2, <1>16
  <2>4. Newlines(t) = Newlines(s) /\ Cardinality(Newlines(t)) = K
    BY <1>9, <1>16 DEF K
  <2>5. K # 0 => K \in 1..K
    BY <1>8
  <2>6. last_line_pos' = IF Newlines(t) = {} THEN 0
                         ELSE LineEnd(t, Cardinality(Newlines(t)))
    BY <1>7, <1>11, <1>12, <1>16, <2>3, <2>4, <2>5
  <2> QED  BY <1>2, <1>9, <1>14, <1>16, <2>2, <2>3, <2>6 DEF LogInv, LoggedAreLines
<1>17. CASE print_output /\ c = "nl"
  <2>1. lines = LinesOf(s, output)
    BY <1>7, <1>17 DEF LoggedAreLines, s
  <2> DEFINE a == last_line_pos + 1
             line == CString(SubSeq(written, a, n + 1))
  <2>2. lines' = Append(lines, line) /\ last_line_pos' = n + 1
    BY <1>2, <1>17
  <2>3. a = LineBegin(t, K + 1)
    <3>1. CASE K = 0
      BY <1>7, <1>12, <1>17, <3>1 DEF LineBegin
    <3>2. CASE K # 0
      <4>1. K \in 1..K /\ K + 1 # 1 /\ K + 1 - 1 = K
        BY <1>8, <3>2
      <4>2. last_line_pos = LineEnd(s, K) /\ LineEnd(t, K) = LineEnd(s, K)
        BY <1>7, <1>11, <1>12, <1>17, <3>2, <4>1
      <4> QED  BY <4>1, <4>2 DEF LineBegin
    <3> QED  BY <3>1, <3>2
  <2>4. a \in Nat \ {0} /\ a <= n + 1
    <3>1. CASE K = 0
      BY <1>3, <1>7, <1>12, <1>17, <3>1
    <3>2. CASE K # 0
      <4>1. K \in 1..K
        BY <1>8, <3>2
      <4>2. LineEnd(s, K) \in Newlines(s)
        BY <1>4, <1>7, <4>1, LineEndType DEF K
      <4>3. LineEnd(s, K) \in 1..n
        BY <1>4, <4>2, NewlinesFinite
      <4>4. last_line_pos = LineEnd(s, K)
        BY <1>7, <1>12, <1>17, <3>2
      <4> QED  BY <1>3, <4>3, <4>4
    <3> QED  BY <3>1, <3>2
  <2> HIDE DEF a
  <2>5. SubSeq(written, a, n + 1) \in Seq(Chars)
    BY <1>3, <1>6, <2>4, LineType
  <2>6. line \in Seq(Chars)
    BY <2>5, CStringType
  <2>7. SubSeq(written, a, n + 1) = Append(SubSeq(output', a, n), "nl")
    <3>1. SubSeq(output', a, n) = SubSeq(written, a, n)
          /\ SubSeq(output', a, n) \in Seq(Chars)
      <4>1. n <= Len(written) /\ n <= Len(output')
        BY <1>3, <1>6
      <4>2. \A i \in 1..n : output'[i] = written[i]
        BY <1>3, <1>6
      <4> QED  BY <1>3, <1>6, <2>4, <4>1, <4>2, SubSeqSame
    <3>3. SubSeq(written, a, n + 1) = SubSeq(written, a, n) \o <<written[n + 1]>>
      BY <1>3, <1>6, <2>4, SubSeqLast
    <3>4. SubSeq(written, a, n + 1) = SubSeq(output', a, n) \o <<"nl">>
      BY <1>6, <1>17, <3>1, <3>3
    <3>5. "nl" \in Chars
      BY DEF Chars
    <3> QED  BY <3>1, <3>4, <3>5, AppendIsConcat
  <2>8. line = Line(t, output', Cardinality(Newlines(t)))
    <3>1. Cardinality(Newlines(t)) = K + 1 /\ LineEnd(t, K + 1) = n + 1
      BY <1>10, <1>17
    <3> DEFINE k == K + 1
               e == n + 1
               y == output'
    <3>2. a = LineBegin(t, k) /\ LineEnd(t, k) = e
      BY <2>3, <3>1
    <3>3. e - 1 = n
      BY <1>3
    <3> HIDE DEF k, e, y
    <3>4. Line(t, y, k) = CString(Append(SubSeq(y, a, e - 1), "nl"))
      BY <3>2, LineIs
    <3>5. Line(t, y, k) = CString(Append(SubSeq(y, a, n), "nl"))
      BY <3>3, <3>4
    <3> QED  BY <2>7, <3>1, <3>5 DEF k, y
  <2> HIDE DEF line
  <2>9. LinesOf(t, output') = Append(lines, line)
    BY <1>5, <1>13, <1>17, <2>1, <2>6, <2>8
  <2>10. last_line_pos' = IF Newlines(t) = {} THEN 0
                          ELSE LineEnd(t, Cardinality(Newlines(t)))
    BY <1>10, <1>17, <2>2
  <2> QED  BY <1>2, <1>9, <1>14, <1>17, <2>2, <2>9, <2>10 DEF LogInv, LoggedAreLines
<1> QED  BY <1>15, <1>16, <1>17

\* The other steps leave the lines alone.
LEMMA StepLog == IInv /\ LogInv /\ [LocalNext]_localVars => LogInv'
<1> SUFFICES ASSUME IInv, LogInv, [LocalNext]_localVars PROVE LogInv'  OBVIOUS
<1>1. CASE AppendChar
  BY <1>1, AppendLog
<1>2. CASE UNCHANGED <<print_output, output, lines, last_line_pos, Copied>>
  BY <1>2 DEF LogInv, LoggedAreLines
<1>3. ASSUME NEW chunk \in Chunks, Read(chunk)
      PROVE  UNCHANGED <<print_output, output, lines, last_line_pos, Copied>>
  <2>1. Copied' = Copied
    BY <1>3, ChunksAreTexts, ReadCopies DEF IInv, Loop
  <2> QED  BY <1>3, <2>1 DEF Read
<1>4. \/ AppendChar
      \/ \E chunk \in Chunks : Read(chunk)
      \/ UNCHANGED <<print_output, output, lines, last_line_pos, received>>
  BY DEF LocalNext, ReadRemote, Next, End, Popen, FillBuffer, ReadOut, Pclose,
         localVars, vars
<1>5. UNCHANGED <<output, received>> => UNCHANGED Copied
  BY DEF Copied, current_pos
<1> QED  BY <1>1, <1>2, <1>3, <1>4, <1>5

-----------------------------------------------------------------------------
\* The properties that follow, and what they rest on, hold at every moment of
\* every command, local or remote.
THEOREM Inductive == LocalSpec => []IInv
<1> QED  BY InitInv, StepInv, PTL DEF LocalSpec

\* The buffer that grows one byte late is overrun by one character at most,
\* whatever its size and whatever it grows by; before it a character is written
\* only when nothing was read.
THEOREM OverrunByOne == LocalSpec => []AtMostOnePast
<1>1. IInv => AtMostOnePast  BY DEF IInv
<1> QED  BY <1>1, Inductive, PTL

\* The text collected has the length of what was read, and differs from it at
\* most in the character that was behind the end when it grew: the growth loses
\* no more than one, however often it happens.
THEOREM OutputIsKept == LocalSpec => []TextKept
<1>1. IInv => TextKept  BY DEF IInv
<1> QED  BY <1>1, Inductive, PTL

\* The code 0 is that of a local command which ran, succeeded and was read.
THEOREM ZeroIsSuccess == LocalSpec => []SuccessIsSuccess
<1>1. IInv => SuccessIsSuccess  BY DEF IInv
<1> QED  BY <1>1, Inductive, PTL

\* The listener is given every complete line once, whole and in order, though
\* the loop keeps only the position where the next one begins.
THEOREM LinesAreLogged == LocalSpec => []LoggedAreLines
<1>1. LogInv => LoggedAreLines  BY DEF LogInv
<1> QED  BY <1>1, InitLog, StepLog, Inductive, PTL DEF LocalSpec
=============================================================================
