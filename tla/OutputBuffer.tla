---------------------------- MODULE OutputBuffer -----------------------------
(***************************************************************************)
(* ssh_read_channel_out: how the output of a command is collected, logged  *)
(* line by line, and made a string.  LocalApi::read_out is the same loop   *)
(* (LocalCommand).                                                         *)
(*                                                                         *)
(* A character is a newline, a NUL or any other.  Output has room for size *)
(* characters.  What is written behind it stays there until the output     *)
(* grows: realloc moves as many characters as there was room for, and what *)
(* follows them in the larger room is arbitrary.                           *)
(***************************************************************************)
EXTENDS Naturals, Sequences, FiniteSets

CONSTANTS BufferSize,   \* buffer_size: the most one read returns, 256
          OutputSize,   \* output_size at first, 4096
          MaxLength     \* bound on the length of a command's output

ASSUME SizesAssumption ==
    BufferSize \in Nat \ {0} /\ OutputSize \in Nat \ {0} /\ MaxLength \in Nat

VARIABLES print_output,     \* the script wants the output logged
          received,         \* all that was read so far
          buffer,           \* what the last read returned and is not copied yet
          output, size,     \* the text collected, and the room for it
          last_line_pos,    \* where the line begins that was not logged yet
          lines,            \* what the listener was given
          reached,          \* the highest place written in output, plus 1
          before,           \* the byte before output was written
          result            \* NotYet, or the string made in the end

vars == <<print_output, received, buffer, output, size, last_line_pos, lines,
          reached, before, result>>

Chars == {"c", "nl", "nul"}

\* Results that are no text: none yet, and none the code promises.
NotYet    == [text |-> <<>>, made |-> FALSE]
Undefined == [text |-> <<"undefined">>, made |-> TRUE]

current_pos == Len(output)

\* A C string: what stands before the first NUL.
NulsOf(s)    == {i \in 1..Len(s) : s[i] = "nul"}
CString(s) ==
    IF NulsOf(s) = {} THEN s
    ELSE SubSeq(s, 1, (CHOOSE i \in NulsOf(s) : \A j \in NulsOf(s) : i <= j) - 1)

Init ==
    /\ print_output \in BOOLEAN
    /\ received = <<>> /\ buffer = <<>> /\ output = <<>> /\ size = OutputSize
    /\ last_line_pos = 0 /\ lines = <<>>
    /\ reached = 0 /\ before = FALSE /\ result = NotYet

-----------------------------------------------------------------------------
\* The read returns some characters.
Read(chunk) ==
    /\ buffer = <<>> /\ ~result.made
    /\ chunk # <<>> /\ Len(chunk) <= BufferSize
    /\ Len(received) + Len(chunk) <= MaxLength
    /\ buffer' = chunk /\ received' = received \o chunk
    /\ UNCHANGED <<print_output, output, size, last_line_pos, lines, reached, before,
                   result>>

\* The text after realloc, of which the first room characters are moved.
Realloc(text, room) ==
    {moved \in [DOMAIN text -> Chars] : \A i \in DOMAIN text : i <= room => moved[i] = text[i]}

AppendGrowingLate ==                    \* grows one character later still
    LET written == Append(output, Head(buffer)) IN
    /\ buffer # <<>>
    /\ buffer' = Tail(buffer) /\ reached' = current_pos + 1
    /\ IF print_output /\ Head(buffer) = "nl"
       THEN /\ lines' = Append(lines, CString(SubSeq(written, last_line_pos + 1, current_pos + 1)))
            /\ last_line_pos' = current_pos + 1
       ELSE UNCHANGED <<lines, last_line_pos>>
    /\ IF current_pos > size
       THEN size' = size + BufferSize /\ output' \in Realloc(written, size)
       ELSE size' = size /\ output' = written
    /\ UNCHANGED <<print_output, received, before, result>>

AppendKeepingLine ==                    \* last_line_pos is not moved
    LET written == Append(output, Head(buffer)) IN
    /\ buffer # <<>>
    /\ buffer' = Tail(buffer) /\ reached' = current_pos + 1
    /\ IF print_output /\ Head(buffer) = "nl"
       THEN lines' = Append(lines, CString(SubSeq(written, last_line_pos + 1, current_pos + 1)))
       ELSE UNCHANGED lines
    /\ IF current_pos + 1 > size
       THEN size' = size + BufferSize /\ output' \in Realloc(written, size)
       ELSE size' = size /\ output' = written
    /\ UNCHANGED <<print_output, received, last_line_pos, before, result>>

\* One turn of the inner loop: the character is stored; a newline completes a
\* line, which is logged up to its first NUL; the output grows when the next
\* place is beyond its size, not when it is its size: the character that was
\* stored last is then behind what realloc moves.
AppendChar ==
    LET written == Append(output, Head(buffer)) IN
    /\ buffer # <<>>
    /\ buffer' = Tail(buffer) /\ reached' = current_pos + 1
    /\ IF print_output /\ Head(buffer) = "nl"
       THEN /\ lines' = Append(lines, CString(SubSeq(written, last_line_pos + 1, current_pos + 1)))
            /\ last_line_pos' = current_pos + 1
       ELSE UNCHANGED <<lines, last_line_pos>>
    /\ IF current_pos + 1 > size
       THEN size' = size + BufferSize /\ output' \in Realloc(written, size)
       ELSE size' = size /\ output' = written
    /\ UNCHANGED <<print_output, received, before, result>>

\* The text without its last newline.
Stripped == IF output[current_pos] = "nl" THEN SubSeq(output, 1, current_pos - 1)
            ELSE output

\* The read returns 0 or an error.  A last newline is replaced by the NUL that
\* ends the string, which otherwise goes behind the text.  Without any text the
\* byte before the output is looked at, and what is found there decides: if it
\* is a newline the NUL goes there, and the string is what malloc left.
End ==
    /\ buffer = <<>> /\ ~result.made
    /\ IF output = <<>>
       THEN \/ /\ result' = [text |-> <<>>, made |-> TRUE] /\ reached' = 1
               /\ UNCHANGED before
            \/ result' = Undefined /\ before' = TRUE /\ UNCHANGED reached
       ELSE /\ result' = [text |-> CString(Stripped), made |-> TRUE]
            /\ reached' = IF output[current_pos] = "nl" THEN current_pos
                          ELSE current_pos + 1
            /\ UNCHANGED before
    /\ UNCHANGED <<print_output, received, buffer, output, size, last_line_pos, lines>>

Chunks == UNION {[1..n -> Chars] : n \in 1..BufferSize}

Next == (\E chunk \in Chunks : Read(chunk)) \/ AppendChar \/ End

Spec == Init /\ [][Next]_vars

-----------------------------------------------------------------------------
(* What should hold.                                                       *)

\* The state has the shape the comments on the variables give it.
TypeOK ==
    /\ print_output \in BOOLEAN
    /\ received \in Seq(Chars) /\ buffer \in Seq(Chars) /\ output \in Seq(Chars)
    /\ size \in Nat /\ last_line_pos \in Nat /\ lines \in Seq(Seq(Chars))
    /\ reached \in Nat /\ before \in BOOLEAN
    /\ result \in [text : Seq(Chars \cup {"undefined"}), made : BOOLEAN]

\* No character, the terminating NUL included, is ever written more than one
\* place behind the end of output, however the output was cut into reads and
\* however often it has grown; and the byte before it only when the command
\* wrote nothing at all.
AtMostOnePast == reached <= size + 1 /\ (before => received = <<>>)

\* The character that was behind the end when the output grew.
AtGrowth(i) == \E k \in 0..i : i = OutputSize + k * BufferSize + 1

\* Nothing is lost, doubled or moved where two reads meet, where a line is
\* logged or where the output grows: the text has the length of what was read
\* and not left in the buffer, and differs from it at most in the one character
\* at each growth.
TextKept ==
    /\ current_pos + Len(buffer) = Len(received)
    /\ \A i \in 1..Len(buffer) : buffer[i] = received[current_pos + i]
    /\ \A i \in 1..current_pos : output[i] = received[i] \/ AtGrowth(i)

\* What was read and is copied, and the lines in it.
Copied == SubSeq(received, 1, current_pos)
Newlines(s) == {i \in 1..Len(s) : s[i] = "nl"}
LineEnd(s, k) == CHOOSE i \in Newlines(s) :
                    Cardinality({j \in Newlines(s) : j <= i}) = k

\* The lines of s in the text collected, each with the newline that ended it, as
\* they should be logged.
LinesOf(s, text) ==
    [k \in 1..Cardinality(Newlines(s)) |->
        CString(Append(SubSeq(text, IF k = 1 THEN 1 ELSE LineEnd(s, k - 1) + 1,
                              LineEnd(s, k) - 1), "nl"))]

\* If the output is to be logged, the listener has been given every complete
\* line of it, once, whole and in order, and nothing otherwise.
LoggedAreLines == lines = IF print_output THEN LinesOf(Copied, output) ELSE <<>>
=============================================================================
