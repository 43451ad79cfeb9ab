-------------------------------- MODULE Texts --------------------------------
(***************************************************************************)
(* What kafe makes of the texts it is given: the list of tasks on the      *)
(* command line (main), and then the variables of a script and the         *)
(* templates made of them, k.define, k.strfvars, k.strfenv and k.getenv    *)
(* over ExecutionScope's replace_vars, replace_env and get_env.  Every     *)
(* text a script hands to a command or a path passes through replace_vars. *)
(*                                                                         *)
(* A text is a sequence of characters: braces, commas and letters.         *)
(***************************************************************************)
EXTENDS Naturals, Sequences

CONSTANTS Keys,         \* names of variables, in use or not
          Texts,        \* what a script expands
          Definitions,  \* what it defines a variable as
          TaskLists,    \* the argument of kafe do that names the tasks
          MaxValue,     \* bound on the length of a value
          Undefined     \* no value

ASSUME TextsAssumption ==
    /\ Undefined \notin Texts /\ MaxValue \in Nat
    /\ Texts \cup Definitions \cup TaskLists \subseteq Seq(STRING)

VARIABLES values,       \* ExecutionScope::values
          environment,  \* the environment kafe was started in
          last          \* the last call, its text and what it returned

vars == <<values, environment, last>>

Nothing == [op |-> "none", text |-> <<>>, out |-> <<>>]

Init ==
    /\ values = [k \in Keys |-> Undefined]
    /\ environment \in [Keys -> {Undefined, <<"e">>}]
    /\ last = Nothing

Npos == 0

\* string::find for a token of two equal braces.
find(text, brace, pos) ==
    LET found == {i \in pos..(Len(text) - 1) : text[i] = brace /\ text[i + 1] = brace}
    IN  IF found = {} THEN Npos ELSE CHOOSE i \in found : \A j \in found : i <= j

Lookup(from, key) ==
    IF key \in Keys /\ from[key] # Undefined THEN from[key] ELSE <<>>

\* Where the next placeholder after a position begins, and where it is closed.
subst_pos(text, pos) == find(text, "{", pos)
end_pos(text, pos)   == IF subst_pos(text, pos) = Npos THEN Npos
                        ELSE find(text, "}", subst_pos(text, pos))

expandOneShort(text, from) ==       \* goes on one brace too early
    LET From[pos \in 1..(Len(text) + 1)] ==
            IF end_pos(text, pos) = Npos THEN SubSeq(text, pos, Len(text))
            ELSE SubSeq(text, pos, subst_pos(text, pos) - 1)
                    \o Lookup(from, SubSeq(text, subst_pos(text, pos) + 2,
                                           end_pos(text, pos) - 1))
                    \o From[end_pos(text, pos) + 1]
    IN  From

\* The loop of replace_vars and of replace_env: what it adds to the result from
\* a position on, which is the one after the last placeholder.
expandFrom(text, from) ==
    LET From[pos \in 1..(Len(text) + 1)] ==
            IF end_pos(text, pos) = Npos THEN SubSeq(text, pos, Len(text))
            ELSE SubSeq(text, pos, subst_pos(text, pos) - 1)
                    \o Lookup(from, SubSeq(text, subst_pos(text, pos) + 2,
                                           end_pos(text, pos) - 1))
                    \o From[end_pos(text, pos) + 2]
    IN  From

expand(text, from) == expandFrom(text, from)[1]

replace_vars(text) == expand(text, values)

\* The pointer replace_env looks a key up with points into a string that is
\* gone.  The keys whose characters are still there are found; for the others,
\* overwritten, another one is looked up, in practice none.
Found(intact) == [key \in Keys |-> IF key \in intact THEN environment[key] ELSE Undefined]

replace_env(text, intact) == expand(text, Found(intact))

\* The next delimiter, if there is one.
Delimiter(text, delimiter, pos) ==
    LET ends == {i \in pos..Len(text) : text[i] = delimiter}
    IN  IF ends = {} THEN Npos ELSE CHOOSE i \in ends : \A j \in ends : i <= j

splitSkippingEmpty(text, delimiter) ==  \* an empty part is no task
    LET From[pos \in 1..(Len(text) + 1)] ==
            LET end == Delimiter(text, delimiter, pos) IN
            IF pos > Len(text) THEN <<>>
            ELSE IF end = Npos THEN <<SubSeq(text, pos, Len(text))>>
            ELSE (IF end = pos THEN <<>> ELSE <<SubSeq(text, pos, end - 1)>>)
                     \o From[end + 1]
    IN  From

\* getline: what stands between two delimiters is a part even if it is empty;
\* after the last one there is none if nothing follows.
splitFrom(text, delimiter) ==
    LET From[pos \in 1..(Len(text) + 1)] ==
            IF pos > Len(text) THEN <<>>
            ELSE IF Delimiter(text, delimiter, pos) = Npos
                 THEN <<SubSeq(text, pos, Len(text))>>
            ELSE <<SubSeq(text, pos, Delimiter(text, delimiter, pos) - 1)>>
                     \o From[Delimiter(text, delimiter, pos) + 1]
    IN  From

split_csv_arguments(text, delimiter) == splitFrom(text, delimiter)[1]

-----------------------------------------------------------------------------
\* kafe do and kafe local give the Context its tasks.
MakeContext(text) ==
    /\ last = Nothing /\ \A key \in Keys : values[key] = Undefined
    /\ last' = [op |-> "tasks", text |-> text, out |-> split_csv_arguments(text, ",")]
    /\ UNCHANGED <<values, environment>>

\* A value is expanded when it is defined, with what is defined by then.
Define(key, text) ==
    /\ last = Nothing
    /\ Len(replace_vars(text)) <= MaxValue
    /\ values' = [values EXCEPT ![key] = replace_vars(text)]
    /\ last' = [op |-> "define", text |-> text, out |-> values'[key]]
    /\ UNCHANGED environment

Strfvars(text) ==
    /\ last = Nothing
    /\ last' = [op |-> "strfvars", text |-> text, out |-> replace_vars(text)]
    /\ UNCHANGED <<values, environment>>

Strfenv(text) ==
    /\ last = Nothing
    /\ \E intact \in SUBSET Keys :
          last' = [op |-> "strfenv", text |-> text, out |-> replace_env(text, intact)]
    /\ UNCHANGED <<values, environment>>

\* nil (no text) for a variable that is not set, and for one that is empty.
Getenv(key) ==
    /\ last = Nothing
    /\ last' = [op |-> "getenv", text |-> key, out |-> Lookup(environment, key)]
    /\ UNCHANGED <<values, environment>>

\* The script goes on with what it was returned.
Return == last # Nothing /\ last' = Nothing /\ UNCHANGED <<values, environment>>

Next ==
    \/ Return
    \/ \E text \in TaskLists : MakeContext(text)
    \/ \E key \in Keys : Getenv(key) \/ \E text \in Definitions : Define(key, text)
    \/ \E text \in Texts : Strfvars(text) \/ Strfenv(text)

Spec == Init /\ [][Next]_vars

-----------------------------------------------------------------------------
(* What should hold.                                                       *)

\* Parts joined again, from one of them on.
JoinedFrom(parts) ==
    LET From[n \in 1..(Len(parts) + 1)] ==
            IF n > Len(parts) THEN <<>>
            ELSE parts[n] \o (IF n = Len(parts) THEN <<>> ELSE <<",">>) \o From[n + 1]
    IN  From

Joined(parts) == JoinedFrom(parts)[1]

\* The tasks are the parts of the list, in order, none left out, doubled or
\* shortened: joined again they are the list, but for one comma at its end.  An
\* empty part is a task too, which the verification then refuses.
TasksAreTheList ==
    last.op = "tasks" =>
        /\ \A i \in DOMAIN last.out :
              \A j \in DOMAIN last.out[i] : last.out[i][j] # ","
        /\ last.text \in {Joined(last.out), Joined(last.out) \o <<",">>}

\* The form of a text: what stands before the first {{, the key up to the first
\* }} behind it, and the rest; a text without both holds no placeholder.
Opens(text)  == {i \in 1..(Len(text) - 1) : SubSeq(text, i, i + 1) = <<"{", "{">>}
Closes(text) == {i \in 1..(Len(text) - 1) : SubSeq(text, i, i + 1) = <<"}", "}">>}
First(S)     == CHOOSE i \in S : \A j \in S : i <= j

Before(text) == SubSeq(text, 1, First(Opens(text)) - 1)
After(text)  == SubSeq(text, First(Opens(text)) + 2, Len(text))
Key(text)    == SubSeq(After(text), 1, First(Closes(After(text))) - 1)
Rest(text)   == SubSeq(After(text), First(Closes(After(text))) + 2, Len(After(text)))

HasPlaceholder(text) == Opens(text) # {} /\ Closes(After(text)) # {}

\* The expansions of a text and of all its ends.
Suffixes(text) == {SubSeq(text, i, Len(text)) : i \in 1..(Len(text) + 1)}

Expansions(text, of) ==
    LET Of[end \in Suffixes(text)] ==
            IF ~HasPlaceholder(end) THEN end
            ELSE Before(end) \o Lookup(of, Key(end)) \o Of[Rest(end)]
    IN  Of

Expansion(text, of) == Expansions(text, of)[text]

\* Every placeholder is replaced once, by its value or by nothing, wherever
\* braces that are no placeholder stand, and what a value holds is not looked
\* at again; in strfenv as well, but that variables may be missed.
ExpandsPlaceholders ==
    /\ last.op = "strfvars" => last.out = Expansion(last.text, values)
    /\ last.op = "strfenv" =>
          \E intact \in SUBSET Keys : last.out = Expansion(last.text, Found(intact))
=============================================================================
