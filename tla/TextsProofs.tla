----------------------------- MODULE TextsProofs -----------------------------
(***************************************************************************)
(* Theorems about Texts, for texts and task lists of every length: the     *)
(* loops of replace_vars and of split_csv_arguments compute what the       *)
(* recursive definitions of the properties say.                            *)
(*                                                                         *)
(* The loops are recursive functions of the position they go on from, so   *)
(* each is shown to exist (Downwards) before anything is said of it, and   *)
(* what is said of it is shown by taking the last position it fails for    *)
(* (LastFailure).                                                          *)
(***************************************************************************)
EXTENDS Texts, SequenceTheorems, WellFoundedInduction, TLAPS

LEMMA LeastNumber ==
    ASSUME NEW T \in SUBSET Nat, T # {}
    PROVE  \E i \in T : \A j \in T : i <= j
<1>1. PICK i \in T : \A j \in T : ~(<<j, i>> \in OpToRel(<, Nat))
  BY NatLessThanWellFounded, WFMin
<1>2. ASSUME NEW j \in T PROVE i <= j
  <2>1. i \in Nat /\ j \in Nat /\ ~(j < i)
    BY <1>1 DEF OpToRel
  <2> QED  BY <2>1
<1> QED  BY <1>2

\* Of the positions at which something fails there is a last one.
LEMMA LastFailure ==
    ASSUME NEW N \in Nat, NEW T \in SUBSET (1..N), T # {}
    PROVE  \E i \in T : \A j \in (i + 1)..N : j \notin T
<1> DEFINE U == {N - i : i \in T}
<1>1. U \in SUBSET Nat /\ U # {}
  <2>1. \A i \in T : i \in 1..N /\ N - i \in Nat
    OBVIOUS
  <2> QED  BY <2>1
<1>2. PICK k \in U : \A j \in U : k <= j
  BY <1>1, LeastNumber
<1>3. PICK i \in T : k = N - i
  BY <1>2
<1>4. ASSUME NEW j \in (i + 1)..N, j \in T PROVE FALSE
  <2>1. k <= N - j
    BY <1>2, <1>4
  <2> QED  BY <1>3, <2>1
<1> QED  BY <1>4

\* A function of the positions of a text may be defined by what it is at a later
\* one.  (next is where it goes on, or 0.)
GoesDown(f, N, next, end, head) ==
    f = [pos \in 1..N |-> IF next[pos] = 0 THEN end[pos]
                          ELSE head[pos] \o f[next[pos]]]

LEMMA Downwards ==
    ASSUME NEW N \in Nat, NEW next, NEW end, NEW head,
           \A pos \in 1..N : next[pos] # 0 => next[pos] \in (pos + 1)..N
    PROVE  \E f : GoesDown(f, N, next, end, head)
<1> DEFINE Body(f, pos) ==
               IF next[pos] = 0 THEN end[pos] ELSE head[pos] \o f[next[pos]]
           Defined(k) == \E f : f = [pos \in k..N |-> Body(f, pos)]
           T == {k \in 1..N : ~Defined(k)}
<1>1. ASSUME NEW f, NEW k \in 1..N, f = [pos \in (k + 1)..N |-> Body(f, pos)]
      PROVE  Defined(k)
  <2> DEFINE g == [pos \in k..N |-> IF pos = k THEN Body(f, k) ELSE f[pos]]
  <2>1. \A pos \in (k + 1)..N : g[pos] = f[pos]
    OBVIOUS
  <2>2. ASSUME NEW pos \in k..N PROVE g[pos] = Body(g, pos)
    <3>1. Body(g, pos) = Body(f, pos)
      BY <2>1
    <3>2. CASE pos = k
      BY <3>1, <3>2
    <3>3. CASE pos # k
      <4>1. pos \in (k + 1)..N
        BY <3>3
      <4>2. f[pos] = Body(f, pos)
        BY <1>1, <4>1
      <4> QED  BY <2>1, <3>1, <4>1, <4>2
    <3> QED  BY <3>2, <3>3
  <2>3. g = [pos \in k..N |-> Body(g, pos)]
    BY <2>2
  <2> QED  BY <2>3
<1> HIDE DEF Defined
<1>2. Defined(N + 1)
  <2>1. (N + 1)..N = {}
    OBVIOUS
  <2> DEFINE f == [pos \in {} |-> 0]
  <2>2. f = [pos \in (N + 1)..N |-> Body(f, pos)]
    BY <2>1
  <2> QED  BY <2>2 DEF Defined
<1>3. T = {}
  <2> SUFFICES ASSUME T # {} PROVE FALSE
    OBVIOUS
  <2>1. PICK k \in T : \A j \in (k + 1)..N : j \notin T
    BY LastFailure
  <2>2. k \in 1..N /\ ~Defined(k)
    BY <2>1
  <2>3. Defined(k + 1)
    <3>1. CASE k = N
      BY <1>2, <3>1
    <3>2. CASE k # N
      BY <2>1, <2>2, <3>2
    <3> QED  BY <3>1, <3>2
  <2>4. PICK f : f = [pos \in (k + 1)..N |-> Body(f, pos)]
    BY <2>3, Zenon DEF Defined
  <2> QED  BY <1>1, <2>2, <2>4
<1>4. Defined(1)
  <2>1. CASE N = 0
    BY <1>2, <2>1
  <2>2. CASE N # 0
    BY <1>3, <2>2
  <2> QED  BY <2>1, <2>2
<1> QED  BY <1>4, Zenon DEF Defined, GoesDown

-----------------------------------------------------------------------------
(* The loop of replace_vars.                                               *)

Pairs(text, brace) ==
    {i \in 1..(Len(text) - 1) : text[i] = brace /\ text[i + 1] = brace}

LEMMA LeastIs ==
    ASSUME NEW T \in SUBSET Nat, T # {}
    PROVE  LET least == CHOOSE i \in T : \A j \in T : i <= j
           IN  least \in T /\ \A j \in T : least <= j
BY LeastNumber

\* find returns the first pair of braces from pos on, or Npos.
LEMMA FindIs ==
    ASSUME NEW S, NEW text \in Seq(S), NEW brace, NEW pos \in Nat \ {0},
           NEW f, f = find(text, brace, pos)
    PROVE  /\ f = Npos => \A j \in pos..(Len(text) - 1) : j \notin Pairs(text, brace)
           /\ f # Npos => /\ f \in pos..(Len(text) - 1) /\ f \in Pairs(text, brace)
                          /\ \A j \in pos..(f - 1) : j \notin Pairs(text, brace)
<1> DEFINE found == {i \in pos..(Len(text) - 1) : text[i] = brace /\ text[i + 1] = brace}
<1>1. Len(text) \in Nat
  BY LenProperties
<1>2. found \in SUBSET Nat /\ 0 \notin found
  BY <1>1
<1>3. f = IF found = {} THEN Npos ELSE CHOOSE i \in found : \A j \in found : i <= j
  BY DEF find
<1>4. CASE found = {}
  BY <1>3, <1>4 DEF Pairs, Npos
<1>5. CASE found # {}
  <2>1. f = CHOOSE i \in found : \A j \in found : i <= j
    BY <1>3, <1>5
  <2>2. f \in found /\ \A j \in found : f <= j
    BY <1>2, <1>5, <2>1, LeastIs
  <2>3. f \in pos..(Len(text) - 1) /\ f \in Pairs(text, brace)
    BY <2>2 DEF Pairs
  <2>4. ASSUME NEW j \in pos..(f - 1), j \in Pairs(text, brace) PROVE FALSE
    <3>1. j \in found
      BY <1>1, <2>3, <2>4 DEF Pairs
    <3> QED  BY <1>1, <2>2, <2>3, <3>1
  <2> QED  BY <1>2, <2>2, <2>3, <2>4 DEF Npos
<1> QED  BY <1>4, <1>5

\* The key is behind the two braces that open the placeholder, as no closing
\* brace is one of them, and the loop goes on behind those that close it.
LEMMA EndType ==
    ASSUME NEW S, NEW text \in Seq(S), NEW pos \in 1..(Len(text) + 1),
           end_pos(text, pos) # Npos
    PROVE  /\ subst_pos(text, pos) \in pos..(Len(text) - 1)
           /\ end_pos(text, pos) \in (subst_pos(text, pos) + 2)..(Len(text) - 1)
           /\ subst_pos(text, pos) \in Pairs(text, "{")
           /\ \A j \in pos..(subst_pos(text, pos) - 1) : j \notin Pairs(text, "{")
           /\ end_pos(text, pos) \in Pairs(text, "}")
           /\ \A j \in subst_pos(text, pos)..(end_pos(text, pos) - 1) :
                 j \notin Pairs(text, "}")
<1> DEFINE o == subst_pos(text, pos)
           e == end_pos(text, pos)
<1>1. Len(text) \in Nat /\ pos \in Nat \ {0}
  BY LenProperties
<1>2. /\ o # Npos /\ o = find(text, "{", pos)
      /\ e # Npos /\ e = find(text, "}", o)
  BY DEF end_pos, subst_pos
<1> HIDE DEF o, e
<1>3. /\ o \in pos..(Len(text) - 1)
      /\ o \in Pairs(text, "{")
      /\ \A j \in pos..(o - 1) : j \notin Pairs(text, "{")
  BY <1>1, <1>2, FindIs
<1>4. o \in Nat \ {0}
  <2>1. o \in pos..(Len(text) - 1)
    BY <1>3
  <2> QED  BY <1>1, <2>1
<1>5. /\ e \in o..(Len(text) - 1) /\ e \in Pairs(text, "}")
      /\ \A j \in o..(e - 1) : j \notin Pairs(text, "}")
  BY <1>2, <1>4, FindIs
<1>6. e # o /\ e # o + 1
  BY <1>3, <1>5 DEF Pairs
<1>7. e \in (o + 2)..(Len(text) - 1)
  <2>1. o \in pos..(Len(text) - 1) /\ e \in o..(Len(text) - 1)
    BY <1>3, <1>5
  <2> QED  BY <1>1, <1>4, <1>6, <2>1
<1> QED  BY <1>3, <1>5, <1>7 DEF o, e

LEMMA GoesOn ==
    ASSUME NEW S, NEW text \in Seq(S), NEW pos \in 1..(Len(text) + 1),
           end_pos(text, pos) # Npos
    PROVE  /\ end_pos(text, pos) + 2 \in (pos + 1)..(Len(text) + 1)
           /\ end_pos(text, pos) + 2 # 0
<1> DEFINE o == subst_pos(text, pos)
           e == end_pos(text, pos)
<1>1. o \in pos..(Len(text) - 1) /\ e \in (o + 2)..(Len(text) - 1)
  BY EndType
<1>2. Len(text) \in Nat
  BY LenProperties
<1> HIDE DEF o, e
<1>3. e + 2 \in (pos + 1)..(Len(text) + 1) /\ e + 2 # 0
  BY <1>1, <1>2
<1> QED  BY <1>3 DEF e

\* What the loop adds from a position on.
Loop(text, from, F, pos) ==
    IF end_pos(text, pos) = Npos THEN SubSeq(text, pos, Len(text))
    ELSE SubSeq(text, pos, subst_pos(text, pos) - 1)
            \o Lookup(from, SubSeq(text, subst_pos(text, pos) + 2,
                                   end_pos(text, pos) - 1))
            \o F[end_pos(text, pos) + 2]

LEMMA ExpandFromIs ==
    ASSUME NEW S, NEW text \in Seq(S), NEW from
    PROVE  \A pos \in 1..(Len(text) + 1) :
               expandFrom(text, from)[pos] = Loop(text, from, expandFrom(text, from), pos)
<1> DEFINE N    == Len(text) + 1
           next == [pos \in 1..N |-> IF end_pos(text, pos) = Npos THEN 0
                                     ELSE end_pos(text, pos) + 2]
           end  == [pos \in 1..N |-> SubSeq(text, pos, Len(text))]
           head == [pos \in 1..N |->
                       SubSeq(text, pos, subst_pos(text, pos) - 1)
                          \o Lookup(from, SubSeq(text, subst_pos(text, pos) + 2,
                                                 end_pos(text, pos) - 1))]
<1>1. N \in Nat
  BY LenProperties
<1>2. ASSUME NEW pos \in 1..N, next[pos] # 0 PROVE next[pos] \in (pos + 1)..N
  <2>1. end_pos(text, pos) # Npos /\ next[pos] = end_pos(text, pos) + 2
    BY <1>2
  <2> QED  BY <2>1, GoesOn
<1>3. PICK f : GoesDown(f, N, next, end, head)
  <2>1. \A pos \in 1..N : next[pos] # 0 => next[pos] \in (pos + 1)..N
    BY <1>2
  <2> HIDE DEF next, end, head, N
  <2> QED  BY <1>1, <2>1, Downwards
<1>4. ASSUME NEW pos \in 1..N
      PROVE  (IF next[pos] = 0 THEN end[pos] ELSE head[pos] \o f[next[pos]])
                 = Loop(text, from, f, pos)
  <2>1. CASE end_pos(text, pos) = Npos
    BY <2>1 DEF Loop
  <2>2. CASE end_pos(text, pos) # Npos
    <3>1. next[pos] = end_pos(text, pos) + 2 /\ next[pos] # 0
      BY <2>2, GoesOn
    <3> QED  BY <2>2, <3>1 DEF Loop
  <2> QED  BY <2>1, <2>2
<1>5. f = [pos \in 1..N |-> Loop(text, from, f, pos)]
  BY <1>3, <1>4 DEF GoesDown
<1>6. expandFrom(text, from) = [pos \in 1..N |-> Loop(text, from, expandFrom(text, from), pos)]
  BY <1>5 DEF expandFrom, Loop
<1> QED  BY <1>6

-----------------------------------------------------------------------------
(* Ends of a text, and the form of one.                                    *)

LEMMA SuffixIs ==
    ASSUME NEW S, NEW text \in Seq(S), NEW pos \in 1..(Len(text) + 1),
           NEW s, s = SubSeq(text, pos, Len(text))
    PROVE  /\ s \in Seq(S)
           /\ Len(s) = Len(text) + 1 - pos
           /\ \A i \in 1..Len(s) : s[i] = text[pos + i - 1]
<1>1. Len(text) \in Nat /\ pos \in Int /\ pos <= Len(text) + 1
  BY LenProperties
<1>2. \A i \in pos..Len(text) : text[i] \in S
  BY <1>1, ElementOfSeq
<1>3. /\ s \in Seq(S)
      /\ Len(s) = IF pos <= Len(text) THEN Len(text) - pos + 1 ELSE 0
      /\ \A i \in 1..(Len(text) - pos + 1) : s[i] = text[pos + i - 1]
  BY <1>1, <1>2, SubSeqProperties
<1>4. Len(s) = Len(text) + 1 - pos
  BY <1>1, <1>3
<1> QED  BY <1>1, <1>3, <1>4

LEMMA SubOfSuffix ==
    ASSUME NEW S, NEW text \in Seq(S), NEW pos \in 1..(Len(text) + 1),
           NEW s, s = SubSeq(text, pos, Len(text)),
           NEW a \in Nat \ {0}, NEW b \in Int, b <= Len(s)
    PROVE  SubSeq(s, a, b) = SubSeq(text, pos + a - 1, pos + b - 1)
<1> DEFINE u == SubSeq(s, a, b)
           v == SubSeq(text, pos + a - 1, pos + b - 1)
<1>1. Len(text) \in Nat /\ pos \in Nat \ {0}
  BY LenProperties
<1>2. /\ s \in Seq(S) /\ Len(s) = Len(text) + 1 - pos
      /\ \A i \in 1..Len(s) : s[i] = text[pos + i - 1]
  BY SuffixIs
<1>3. \A i \in a..b : s[i] \in S
  BY <1>1, <1>2, ElementOfSeq
<1>4. /\ u \in Seq(S)
      /\ Len(u) = IF a <= b THEN b - a + 1 ELSE 0
      /\ \A i \in 1..(b - a + 1) : u[i] = s[a + i - 1]
  BY <1>3, SubSeqProperties
<1>5. pos + a - 1 \in Nat \ {0} /\ pos + b - 1 \in Int /\ pos + b - 1 <= Len(text)
  BY <1>1, <1>2
<1>6. \A i \in (pos + a - 1)..(pos + b - 1) : text[i] \in S
  BY <1>1, <1>5, ElementOfSeq
<1>7. /\ v \in Seq(S)
      /\ Len(v) = IF pos + a - 1 <= pos + b - 1
                  THEN (pos + b - 1) - (pos + a - 1) + 1 ELSE 0
      /\ \A i \in 1..((pos + b - 1) - (pos + a - 1) + 1) :
            v[i] = text[(pos + a - 1) + i - 1]
  BY <1>5, <1>6, SubSeqProperties
<1> HIDE DEF u, v
<1>8. Len(u) = Len(v)
  <2>1. a <= b <=> pos + a - 1 <= pos + b - 1
    BY <1>1
  <2>2. (pos + b - 1) - (pos + a - 1) + 1 = b - a + 1
    BY <1>1
  <2> QED  BY <1>4, <1>7, <2>1, <2>2
<1>9. ASSUME NEW i \in 1..Len(u) PROVE u[i] = v[i]
  <2>1. a <= b /\ i \in 1..(b - a + 1)
    BY <1>4, <1>9
  <2>2. u[i] = s[a + i - 1] /\ v[i] = text[(pos + a - 1) + i - 1]
    BY <1>1, <1>4, <1>7, <2>1
  <2>3. a + i - 1 \in 1..Len(s)
    BY <1>1, <1>2, <2>1
  <2>4. s[a + i - 1] = text[pos + (a + i - 1) - 1]
    BY <1>2, <2>3
  <2>5. pos + (a + i - 1) - 1 = (pos + a - 1) + i - 1
    BY <1>1, <2>1
  <2> QED  BY <2>2, <2>4, <2>5
<1>10. u = v
  BY <1>4, <1>7, <1>8, <1>9, SeqEqual
<1> QED  BY <1>10 DEF u, v

\* Two characters of a text are a pair of braces.
LEMMA PairIs ==
    ASSUME NEW S, NEW text \in Seq(S), NEW brace, NEW i \in 1..(Len(text) - 1)
    PROVE  SubSeq(text, i, i + 1) = <<brace, brace>> <=> i \in Pairs(text, brace)
<1> DEFINE u == SubSeq(text, i, i + 1)
<1>1. Len(text) \in Nat /\ i \in Nat \ {0}
  BY LenProperties
<1>2. \A j \in i..(i + 1) : text[j] \in S
  BY <1>1, ElementOfSeq
<1>3. /\ u \in Seq(S)
      /\ Len(u) = IF i <= i + 1 THEN (i + 1) - i + 1 ELSE 0
      /\ \A j \in 1..((i + 1) - i + 1) : u[j] = text[i + j - 1]
  BY <1>1, <1>2, SubSeqProperties
<1> HIDE DEF u
<1>4. Len(u) = 2 /\ u[1] = text[i] /\ u[2] = text[i + 1]
  <2>1. i <= i + 1 /\ (i + 1) - i + 1 = 2 /\ i + 1 - 1 = i /\ i + 2 - 1 = i + 1
    BY <1>1
  <2>2. Len(u) = 2 /\ \A j \in 1..2 : u[j] = text[i + j - 1]
    BY <1>3, <2>1
  <2>3. 1 \in 1..2 /\ 2 \in 1..2
    OBVIOUS
  <2> QED  BY <2>1, <2>2, <2>3
<1>5. ASSUME u = <<brace, brace>> PROVE i \in Pairs(text, brace)
  BY <1>4, <1>5 DEF Pairs
<1>6. ASSUME i \in Pairs(text, brace) PROVE u = <<brace, brace>>
  <2>1. brace \in S /\ <<brace, brace>> \in Seq(S) /\ Len(<<brace, brace>>) = 2
    BY <1>1, <1>2, <1>6 DEF Pairs
  <2>2. \A j \in 1..2 : u[j] = <<brace, brace>>[j]
    BY <1>4, <1>6 DEF Pairs
  <2> QED  BY <1>3, <1>4, <2>1, <2>2, SeqEqual
<1> QED  BY <1>5, <1>6 DEF u

LEMMA BracesOf ==
    ASSUME NEW S, NEW text \in Seq(S)
    PROVE  Opens(text) = Pairs(text, "{") /\ Closes(text) = Pairs(text, "}")
<1>1. \A i \in 1..(Len(text) - 1) : \A brace :
         SubSeq(text, i, i + 1) = <<brace, brace>> <=> i \in Pairs(text, brace)
  BY PairIs
<1>2. \A brace : Pairs(text, brace) \subseteq 1..(Len(text) - 1)
  BY DEF Pairs
<1>3. Opens(text) = Pairs(text, "{")
  BY <1>1, <1>2 DEF Opens
<1>4. Closes(text) = Pairs(text, "}")
  BY <1>1, <1>2 DEF Closes
<1> QED  BY <1>3, <1>4

\* What find finds from a position on is what the end of the text begins with.
LEMMA FirstPair ==
    ASSUME NEW S, NEW text \in Seq(S), NEW brace, NEW pos \in 1..(Len(text) + 1),
           NEW s, s = SubSeq(text, pos, Len(text)),
           NEW f, f = find(text, brace, pos)
    PROVE  /\ f = Npos <=> Pairs(s, brace) = {}
           /\ f # Npos => /\ First(Pairs(s, brace)) \in Pairs(s, brace)
                          /\ f = pos + First(Pairs(s, brace)) - 1
<1> DEFINE T == Pairs(s, brace)
<1>1. Len(text) \in Nat /\ pos \in Nat \ {0}
  BY LenProperties
<1>2. /\ s \in Seq(S) /\ Len(s) = Len(text) + 1 - pos /\ Len(s) \in Nat
      /\ \A i \in 1..Len(s) : s[i] = text[pos + i - 1]
  BY SuffixIs, LenProperties
<1>3. ASSUME NEW i \in 1..(Len(s) - 1)
      PROVE  i \in T <=> pos + i - 1 \in Pairs(text, brace)
  <2>1. s[i] = text[pos + i - 1] /\ s[i + 1] = text[pos + i - 1 + 1]
    BY <1>1, <1>2
  <2>2. pos + i - 1 \in 1..(Len(text) - 1)
    BY <1>1, <1>2
  <2> QED  BY <2>1, <2>2 DEF Pairs
<1>4. T \in SUBSET Nat /\ \A i \in T : i \in 1..(Len(s) - 1)
  BY <1>2 DEF Pairs
<1> HIDE DEF T
<1>5. CASE f = Npos
  <2>1. \A j \in pos..(Len(text) - 1) : j \notin Pairs(text, brace)
    BY <1>1, <1>5, FindIs
  <2>2. ASSUME NEW i \in T PROVE FALSE
    <3>1. i \in 1..(Len(s) - 1) /\ pos + i - 1 \in Pairs(text, brace)
      BY <1>3, <1>4
    <3>2. pos + i - 1 \in pos..(Len(text) - 1)
      BY <1>1, <1>2, <3>1
    <3> QED  BY <2>1, <3>1, <3>2
  <2> QED  BY <1>5, <2>2 DEF T
<1>6. CASE f # Npos
  <2>1. /\ f \in pos..(Len(text) - 1) /\ f \in Pairs(text, brace)
        /\ \A j \in pos..(f - 1) : j \notin Pairs(text, brace)
    BY <1>1, <1>6, FindIs
  <2>2. f - pos + 1 \in 1..(Len(s) - 1) /\ pos + (f - pos + 1) - 1 = f
    <3>1. f \in pos..(Len(text) - 1)
      BY <2>1
    <3> QED  BY <1>1, <1>2, <3>1
  <2>3. f - pos + 1 \in T
    BY <1>3, <2>1, <2>2
  <2> DEFINE least == First(T)
  <2>4. least \in T /\ \A j \in T : least <= j
    BY <1>4, <2>3, LeastIs DEF First
  <2> HIDE DEF least
  <2>5. least \in 1..(Len(s) - 1) /\ pos + least - 1 \in Pairs(text, brace)
    BY <1>3, <1>4, <2>4
  <2>6. ~(pos + least - 1 \in pos..(f - 1))
    BY <2>1, <2>5
  <2>7. f \in Int /\ least \in Int /\ least >= 1 /\ least <= f - pos + 1
    <3>1. f \in pos..(Len(text) - 1)
      BY <2>1
    <3> QED  BY <1>1, <1>2, <2>3, <2>4, <2>5, <3>1
  <2>8. f = pos + least - 1
    <3>1. pos + least - 1 >= pos /\ pos + least - 1 \in Int
      BY <1>1, <2>7
    <3>2. ~(pos + least - 1 <= f - 1)
      BY <1>1, <2>6, <2>7, <3>1
    <3>3. pos \in Int
      BY <1>1
    <3> QED  BY <2>7, <3>1, <3>2, <3>3
  <2>9. T # {}
    BY <2>3
  <2> QED  BY <1>6, <2>4, <2>8, <2>9 DEF least, T
<1> QED  BY <1>5, <1>6

LEMMA Behind ==
    ASSUME NEW n \in Nat, NEW o \in Nat
    PROVE  /\ \A i \in o..(n - 1) : i # o /\ i # o + 1 => i \in (o + 2)..(n - 1)
           /\ \A i \in (o + 2)..(n - 1) : i \in o..(n - 1)
OBVIOUS

\* Behind two opening braces the search for closing ones begins at the key.
LEMMA FindBehind ==
    ASSUME NEW S, NEW text \in Seq(S), NEW o \in Nat, o \in Pairs(text, "{")
    PROVE  find(text, "}", o) = find(text, "}", o + 2)
<1>1. Len(text) \in Nat /\ o \in Nat
  BY LenProperties
<1> DEFINE Braces(k) == {i \in k..(Len(text) - 1) : text[i] = "}" /\ text[i + 1] = "}"}
<1>2. \A i \in o..(Len(text) - 1) : i # o /\ i # o + 1 => i \in (o + 2)..(Len(text) - 1)
  BY <1>1, Behind
<1>3. \A i \in (o + 2)..(Len(text) - 1) : i \in o..(Len(text) - 1)
  BY <1>1, Behind
<1>4. text[o] = "{" /\ text[o + 1] = "{"
  BY DEF Pairs
<1>5. "{" # "}"
  OBVIOUS
<1>6. \A i : i \in Braces(o) <=> i \in Braces(o + 2)
  <2>1. \A i : text[i] = "}" => i # o /\ i # o + 1
    BY <1>4, <1>5, Zenon
  <2>2. ASSUME NEW i \in Braces(o) PROVE i \in Braces(o + 2)
    BY <1>2, <2>1, <2>2, Zenon
  <2>3. ASSUME NEW i \in Braces(o + 2) PROVE i \in Braces(o)
    BY <1>3, <2>3, Zenon
  <2> QED  BY <2>2, <2>3
<1>7. Braces(o) = Braces(o + 2)
  BY <1>6, Zenon
<1>8. \A k : find(text, "}", k) =
                 IF Braces(k) = {} THEN Npos
                 ELSE CHOOSE i \in Braces(k) : \A j \in Braces(k) : i <= j
  BY Zenon DEF find
<1> HIDE DEF Braces
<1> QED  BY <1>7, <1>8, Zenon

\* A suffix is cut as the text is.
LEMMA CutIs ==
    ASSUME NEW S, NEW text \in Seq(S), NEW pos \in 1..(Len(text) + 1),
           NEW s, s = SubSeq(text, pos, Len(text)),
           NEW c \in 1..(Len(s) - 1), NEW f, f = pos + c - 1
    PROVE  /\ SubSeq(s, 1, c - 1) = SubSeq(text, pos, f - 1)
           /\ SubSeq(s, c + 2, Len(s)) = SubSeq(text, f + 2, Len(text))
           /\ f + 2 \in 1..(Len(text) + 1)
<1>1. Len(text) \in Nat /\ pos \in Nat \ {0}
  BY LenProperties
<1>2. s \in Seq(S) /\ Len(s) = Len(text) + 1 - pos /\ Len(s) \in Nat
  BY SuffixIs, LenProperties
<1>3. c \in Nat \ {0} /\ c - 1 \in Int /\ c - 1 <= Len(s) /\ c + 2 \in Nat \ {0}
      /\ Len(s) \in Int /\ Len(s) <= Len(s) /\ 1 \in Nat \ {0}
  BY <1>2
<1>4. /\ SubSeq(s, 1, c - 1) = SubSeq(text, pos + 1 - 1, pos + (c - 1) - 1)
      /\ SubSeq(s, c + 2, Len(s)) = SubSeq(text, pos + (c + 2) - 1, pos + Len(s) - 1)
  BY <1>3, SubOfSuffix
<1>5. /\ pos + 1 - 1 = pos /\ pos + (c - 1) - 1 = f - 1
      /\ pos + (c + 2) - 1 = f + 2 /\ pos + Len(s) - 1 = Len(text)
      /\ f + 2 \in 1..(Len(text) + 1)
  BY <1>1, <1>2, <1>3
<1> QED  BY <1>4, <1>5

\* The end of a text from a position on has the form that the loop finds there.
LEMMA SuffixForm ==
    ASSUME NEW S, NEW text \in Seq(S), NEW pos \in 1..(Len(text) + 1),
           NEW s, s = SubSeq(text, pos, Len(text)),
           NEW o, o = subst_pos(text, pos), NEW e, e = end_pos(text, pos)
    PROVE  /\ HasPlaceholder(s) <=> e # Npos
           /\ e # Npos => /\ Before(s) = SubSeq(text, pos, o - 1)
                          /\ Key(s) = SubSeq(text, o + 2, e - 1)
                          /\ Rest(s) = SubSeq(text, e + 2, Len(text))
<1>1. Len(text) \in Nat /\ pos \in Nat \ {0}
  BY LenProperties
<1>2. s \in Seq(S) /\ Len(s) = Len(text) + 1 - pos /\ Len(s) \in Nat
  BY SuffixIs, LenProperties
<1>3. /\ o = Npos <=> Opens(s) = {}
      /\ o # Npos => First(Opens(s)) \in Opens(s) /\ o = pos + First(Opens(s)) - 1
  <2>1. Opens(s) = Pairs(s, "{")
    BY <1>2, BracesOf
  <2>2. o = find(text, "{", pos)
    BY DEF subst_pos
  <2> QED  BY <2>1, <2>2, FirstPair
<1>4. o = Npos => e = Npos
  BY DEF end_pos
<1>5. CASE o = Npos
  BY <1>3, <1>4, <1>5 DEF HasPlaceholder
<1>6. CASE o # Npos
  <2>1. PICK open : open = First(Opens(s))
    OBVIOUS
  <2>2. open \in 1..(Len(s) - 1) /\ o = pos + open - 1
    BY <1>3, <1>6, <2>1 DEF Opens
  <2>3. PICK k : k = o + 2
    OBVIOUS
  <2>4. /\ Before(s) = SubSeq(text, pos, o - 1)
        /\ After(s) = SubSeq(text, k, Len(text)) /\ k \in 1..(Len(text) + 1)
    <3>1. /\ SubSeq(s, 1, open - 1) = SubSeq(text, pos, o - 1)
          /\ SubSeq(s, open + 2, Len(s)) = SubSeq(text, o + 2, Len(text))
          /\ o + 2 \in 1..(Len(text) + 1)
      BY <2>2, CutIs
    <3> QED  BY <2>1, <2>3, <3>1 DEF Before, After
  <2>5. o \in Pairs(text, "{")
    BY <1>1, <1>6, FindIs DEF subst_pos
  <2>6. e = find(text, "}", k)
    <3>1. o \in Nat
      BY <1>1, <2>2
    <3> QED  BY <1>6, <2>3, <2>5, <3>1, FindBehind DEF end_pos, subst_pos
  <2>7. PICK a : a = After(s)
    OBVIOUS
  <2>8. a = SubSeq(text, k, Len(text)) /\ a \in Seq(S)
    BY <2>4, <2>7, SuffixIs
  <2>9. PICK close : close = First(Closes(a))
    OBVIOUS
  <2>10. /\ e = Npos <=> Closes(a) = {}
         /\ e # Npos => close \in Closes(a) /\ e = k + close - 1
    <3>1. Closes(a) = Pairs(a, "}")
      BY <2>8, BracesOf
    <3> QED  BY <2>4, <2>6, <2>8, <2>9, <3>1, FirstPair
  <2>11. HasPlaceholder(s) <=> e # Npos
    BY <1>3, <1>6, <2>7, <2>10 DEF HasPlaceholder
  <2>12. ASSUME e # Npos
         PROVE  /\ Key(s) = SubSeq(text, k, e - 1)
                /\ Rest(s) = SubSeq(text, e + 2, Len(text))
    <3>1. close \in 1..(Len(a) - 1) /\ e = k + close - 1
      BY <2>10, <2>12 DEF Closes
    <3>2. /\ SubSeq(a, 1, close - 1) = SubSeq(text, k, e - 1)
          /\ SubSeq(a, close + 2, Len(a)) = SubSeq(text, e + 2, Len(text))
      BY <2>4, <2>8, <3>1, CutIs
    <3> QED  BY <2>7, <2>9, <3>2 DEF Key, Rest
  <2> QED  BY <2>3, <2>4, <2>11, <2>12
<1> QED  BY <1>5, <1>6

-----------------------------------------------------------------------------
(* The loop computes the expansion.                                        *)

\* What the expansion of an end is, in terms of those of shorter ends.
Form(of, F, end) ==
    IF ~HasPlaceholder(end) THEN end
    ELSE Before(end) \o Lookup(of, Key(end)) \o F[Rest(end)]

\* A function of the ends of a text, seen as one of positions.
Ends(text, F) == [pos \in 1..(Len(text) + 1) |-> F[SubSeq(text, pos, Len(text))]]

LEMMA FormIsLoop ==
    ASSUME NEW S, NEW text \in Seq(S), NEW of, NEW F,
           NEW pos \in 1..(Len(text) + 1)
    PROVE  Form(of, F, SubSeq(text, pos, Len(text))) = Loop(text, of, Ends(text, F), pos)
<1> DEFINE s == SubSeq(text, pos, Len(text))
           o == subst_pos(text, pos)
           e == end_pos(text, pos)
<1>1. /\ HasPlaceholder(s) <=> e # Npos
      /\ e # Npos => /\ Before(s) = SubSeq(text, pos, o - 1)
                     /\ Key(s) = SubSeq(text, o + 2, e - 1)
                     /\ Rest(s) = SubSeq(text, e + 2, Len(text))
  BY SuffixForm
<1>2. e # Npos => e + 2 \in 1..(Len(text) + 1)
  <2>1. Len(text) \in Nat /\ pos \in Nat \ {0}
    BY LenProperties
  <2>2. e # Npos => e + 2 \in (pos + 1)..(Len(text) + 1)
    BY GoesOn
  <2> QED  BY <2>1, <2>2
<1>3. e # Npos => Ends(text, F)[e + 2] = F[SubSeq(text, e + 2, Len(text))]
  BY <1>2 DEF Ends
<1> HIDE DEF s, o, e
<1>4. Form(of, F, s) = IF e = Npos THEN s
                       ELSE SubSeq(text, pos, o - 1)
                               \o Lookup(of, SubSeq(text, o + 2, e - 1))
                               \o Ends(text, F)[e + 2]
  BY <1>1, <1>3 DEF Form
<1> QED  BY <1>4 DEF Loop, s, o, e

\* The loop's function over positions is one over ends, which shows that there
\* is one as the definition of Expansions wants it.
LEMMA ExpansionsIs ==
    ASSUME NEW S, NEW text \in Seq(S), NEW of
    PROVE  \A end \in Suffixes(text) :
               Expansions(text, of)[end] = Form(of, Expansions(text, of), end)
<1> DEFINE L == expandFrom(text, of)
           G == [end \in Suffixes(text) |-> L[Len(text) + 1 - Len(end)]]
<1>1. ASSUME NEW pos \in 1..(Len(text) + 1)
      PROVE  G[SubSeq(text, pos, Len(text))] = L[pos]
  <2> DEFINE s == SubSeq(text, pos, Len(text))
  <2>1. s \in Suffixes(text)
    BY DEF Suffixes
  <2>2. Len(s) = Len(text) + 1 - pos /\ Len(text) \in Nat /\ pos \in Nat
    BY SuffixIs, LenProperties
  <2>3. Len(text) + 1 - Len(s) = pos
    BY <2>2
  <2> QED  BY <2>1, <2>3
<1>2. ASSUME NEW pos \in 1..(Len(text) + 1)
      PROVE  Loop(text, of, Ends(text, G), pos) = Loop(text, of, L, pos)
  <2>1. ASSUME end_pos(text, pos) # Npos
        PROVE  Ends(text, G)[end_pos(text, pos) + 2] = L[end_pos(text, pos) + 2]
    <3> DEFINE k == end_pos(text, pos) + 2
    <3>1. Len(text) \in Nat /\ pos \in Nat \ {0} /\ k \in (pos + 1)..(Len(text) + 1)
      BY <2>1, GoesOn, LenProperties
    <3> HIDE DEF k, G, L
    <3>2. k \in 1..(Len(text) + 1)
      BY <3>1
    <3>3. Ends(text, G)[k] = L[k]
      BY <1>1, <3>2 DEF Ends
    <3> QED  BY <3>3 DEF k
  <2> QED  BY <2>1 DEF Loop
<1>3. ASSUME NEW end \in Suffixes(text) PROVE G[end] = Form(of, G, end)
  <2>1. PICK pos \in 1..(Len(text) + 1) : end = SubSeq(text, pos, Len(text))
    BY DEF Suffixes
  <2>2. G[end] = L[pos]
    BY <1>1, <2>1
  <2>3. L[pos] = Loop(text, of, L, pos)
    BY ExpandFromIs
  <2>4. Form(of, G, end) = Loop(text, of, Ends(text, G), pos)
    BY <2>1, FormIsLoop
  <2> QED  BY <1>2, <2>2, <2>3, <2>4
<1>4. G = [end \in Suffixes(text) |-> Form(of, G, end)]
  BY <1>3
<1>5. PICK f : f = [end \in Suffixes(text) |-> Form(of, f, end)]
  BY <1>4
<1>6. Expansions(text, of) = [end \in Suffixes(text) |-> Form(of, Expansions(text, of), end)]
  BY <1>5 DEF Expansions, Form
<1> QED  BY <1>6

\* replace_vars and replace_env return the expansion.
LEMMA ExpandIsExpansion ==
    ASSUME NEW S, NEW text \in Seq(S), NEW of
    PROVE  expand(text, of) = Expansion(text, of)
<1> DEFINE N == Len(text) + 1
           L == expandFrom(text, of)
           E == Expansions(text, of)
           T == {pos \in 1..N : Ends(text, E)[pos] # L[pos]}
<1>1. N \in Nat /\ Len(text) \in Nat
  BY LenProperties
<1>0. T \in SUBSET (1..N) /\ \A pos \in 1..N : pos \in T <=> Ends(text, E)[pos] # L[pos]
  OBVIOUS
<1> HIDE DEF T
<1>2. ASSUME NEW pos \in 1..N
      PROVE  Ends(text, E)[pos] = Loop(text, of, Ends(text, E), pos)
  <2>1. SubSeq(text, pos, Len(text)) \in Suffixes(text)
    BY DEF Suffixes
  <2>2. E[SubSeq(text, pos, Len(text))] = Form(of, E, SubSeq(text, pos, Len(text)))
    BY <2>1, ExpansionsIs
  <2>3. Ends(text, E)[pos] = E[SubSeq(text, pos, Len(text))]
    BY DEF Ends
  <2> QED  BY <2>2, <2>3, FormIsLoop
<1>3. T = {}
  <2> SUFFICES ASSUME T # {} PROVE FALSE
    OBVIOUS
  <2>1. PICK pos \in T : \A j \in (pos + 1)..N : j \notin T
    BY <1>0, <1>1, LastFailure
  <2>2. pos \in 1..N /\ Ends(text, E)[pos] # L[pos]
    BY <1>0, <2>1
  <2>3. ASSUME end_pos(text, pos) # Npos
        PROVE  Ends(text, E)[end_pos(text, pos) + 2] = L[end_pos(text, pos) + 2]
    <3> DEFINE k == end_pos(text, pos) + 2
    <3>1. k \in (pos + 1)..N
      BY <2>2, <2>3, GoesOn
    <3> HIDE DEF k, E, L
    <3>2. k \in 1..N
      BY <1>1, <2>2, <3>1
    <3>3. k \notin T
      BY <2>1, <3>1
    <3>4. Ends(text, E)[k] = L[k]
      BY <1>0, <3>2, <3>3
    <3> QED  BY <3>4 DEF k
  <2>4. Loop(text, of, Ends(text, E), pos) = Loop(text, of, L, pos)
    BY <2>3 DEF Loop
  <2>5. L[pos] = Loop(text, of, L, pos)
    BY <2>2, ExpandFromIs
  <2> QED  BY <1>2, <2>2, <2>4, <2>5
<1>4. 1 \in 1..N /\ Ends(text, E)[1] = L[1]
  BY <1>0, <1>1, <1>3
<1>5. Ends(text, E)[1] = E[text]
  BY <1>4, SubSeqFull DEF Ends
<1> QED  BY <1>4, <1>5 DEF expand, Expansion

-----------------------------------------------------------------------------
(* The loop of split_csv_arguments.                                        *)

Marks(text, mark) == {i \in 1..Len(text) : text[i] = mark}

\* Delimiter returns the first one from pos on, or Npos.
LEMMA DelimiterIs ==
    ASSUME NEW S, NEW text \in Seq(S), NEW mark, NEW pos \in Nat \ {0},
           NEW f, f = Delimiter(text, mark, pos)
    PROVE  /\ f = Npos => \A j \in pos..Len(text) : j \notin Marks(text, mark)
           /\ f # Npos => /\ f \in pos..Len(text) /\ f \in Marks(text, mark)
                          /\ \A j \in pos..(f - 1) : j \notin Marks(text, mark)
<1> DEFINE ends == {i \in pos..Len(text) : text[i] = mark}
<1>1. Len(text) \in Nat
  BY LenProperties
<1>2. ends \in SUBSET Nat /\ 0 \notin ends
  BY <1>1
<1>3. f = IF ends = {} THEN Npos ELSE CHOOSE i \in ends : \A j \in ends : i <= j
  BY DEF Delimiter
<1>4. CASE ends = {}
  BY <1>3, <1>4 DEF Marks, Npos
<1>5. CASE ends # {}
  <2>1. f = CHOOSE i \in ends : \A j \in ends : i <= j
    BY <1>3, <1>5
  <2>2. f \in ends /\ \A j \in ends : f <= j
    BY <1>2, <1>5, <2>1, LeastIs
  <2>3. f \in pos..Len(text) /\ f \in Marks(text, mark)
    BY <1>1, <2>2 DEF Marks
  <2>4. ASSUME NEW j \in pos..(f - 1), j \in Marks(text, mark) PROVE FALSE
    <3>1. j \in ends
      BY <1>1, <2>3, <2>4 DEF Marks
    <3> QED  BY <1>1, <2>2, <2>3, <3>1
  <2> QED  BY <1>2, <2>2, <2>3, <2>4 DEF Npos
<1> QED  BY <1>4, <1>5

\* What the loop adds from a position on.
Split(text, mark, F, pos) ==
    IF pos > Len(text) THEN <<>>
    ELSE IF Delimiter(text, mark, pos) = Npos THEN <<SubSeq(text, pos, Len(text))>>
    ELSE <<SubSeq(text, pos, Delimiter(text, mark, pos) - 1)>>
             \o F[Delimiter(text, mark, pos) + 1]

LEMMA SplitGoesOn ==
    ASSUME NEW S, NEW text \in Seq(S), NEW mark, NEW pos \in 1..(Len(text) + 1),
           Delimiter(text, mark, pos) # Npos
    PROVE  /\ Delimiter(text, mark, pos) + 1 \in (pos + 1)..(Len(text) + 1)
           /\ Delimiter(text, mark, pos) + 1 # 0
<1> DEFINE f == Delimiter(text, mark, pos)
<1>1. Len(text) \in Nat /\ pos \in Nat \ {0}
  BY LenProperties
<1>2. f \in pos..Len(text)
  BY <1>1, DelimiterIs
<1> HIDE DEF f
<1>3. f + 1 \in (pos + 1)..(Len(text) + 1) /\ f + 1 # 0
  BY <1>1, <1>2
<1> QED  BY <1>3 DEF f

LEMMA SplitFromIs ==
    ASSUME NEW S, NEW text \in Seq(S), NEW mark
    PROVE  \A pos \in 1..(Len(text) + 1) :
               splitFrom(text, mark)[pos] = Split(text, mark, splitFrom(text, mark), pos)
<1> DEFINE N    == Len(text) + 1
           next == [pos \in 1..N |-> IF pos > Len(text) THEN 0
                                     ELSE IF Delimiter(text, mark, pos) = Npos THEN 0
                                     ELSE Delimiter(text, mark, pos) + 1]
           end  == [pos \in 1..N |-> IF pos > Len(text) THEN <<>>
                                     ELSE <<SubSeq(text, pos, Len(text))>>]
           head == [pos \in 1..N |->
                       <<SubSeq(text, pos, Delimiter(text, mark, pos) - 1)>>]
<1>1. N \in Nat
  BY LenProperties
<1>2. ASSUME NEW pos \in 1..N, next[pos] # 0 PROVE next[pos] \in (pos + 1)..N
  <2>1. Delimiter(text, mark, pos) # Npos /\ next[pos] = Delimiter(text, mark, pos) + 1
    BY <1>2
  <2> QED  BY <2>1, SplitGoesOn
<1>3. PICK f : GoesDown(f, N, next, end, head)
  <2>1. \A pos \in 1..N : next[pos] # 0 => next[pos] \in (pos + 1)..N
    BY <1>2
  <2> HIDE DEF next, end, head, N
  <2> QED  BY <1>1, <2>1, Downwards
<1>4. ASSUME NEW pos \in 1..N
      PROVE  (IF next[pos] = 0 THEN end[pos] ELSE head[pos] \o f[next[pos]])
                 = Split(text, mark, f, pos)
  <2>1. CASE pos > Len(text)
    BY <2>1 DEF Split
  <2>2. CASE ~(pos > Len(text)) /\ Delimiter(text, mark, pos) = Npos
    BY <2>2 DEF Split
  <2>3. CASE ~(pos > Len(text)) /\ Delimiter(text, mark, pos) # Npos
    <3>1. next[pos] = Delimiter(text, mark, pos) + 1 /\ next[pos] # 0
      BY <2>3, SplitGoesOn
    <3> QED  BY <2>3, <3>1 DEF Split
  <2> QED  BY <2>1, <2>2, <2>3
<1>5. f = [pos \in 1..N |-> Split(text, mark, f, pos)]
  BY <1>3, <1>4 DEF GoesDown
<1>6. splitFrom(text, mark) = [pos \in 1..N |-> Split(text, mark, splitFrom(text, mark), pos)]
  BY <1>5 DEF splitFrom, Split
<1> QED  BY <1>6

-----------------------------------------------------------------------------
(* Parts joined again.                                                     *)

\* What joining adds from a part on.
Join(parts, F, n) ==
    IF n > Len(parts) THEN <<>>
    ELSE parts[n] \o (IF n = Len(parts) THEN <<>> ELSE <<",">>) \o F[n + 1]

LEMMA JoinedFromIs ==
    ASSUME NEW S, NEW parts \in Seq(S)
    PROVE  \A n \in 1..(Len(parts) + 1) :
               JoinedFrom(parts)[n] = Join(parts, JoinedFrom(parts), n)
<1> DEFINE N    == Len(parts) + 1
           next == [n \in 1..N |-> IF n > Len(parts) THEN 0 ELSE n + 1]
           end  == [n \in 1..N |-> <<>>]
           head == [n \in 1..N |->
                       parts[n] \o (IF n = Len(parts) THEN <<>> ELSE <<",">>)]
<1>1. N \in Nat /\ Len(parts) \in Nat
  BY LenProperties
<1>2. \A n \in 1..N : next[n] # 0 => next[n] \in (n + 1)..N
  BY <1>1
<1>3. PICK f : GoesDown(f, N, next, end, head)
  <2> HIDE DEF next, end, head, N
  <2> QED  BY <1>1, <1>2, Downwards
<1>4. ASSUME NEW n \in 1..N
      PROVE  (IF next[n] = 0 THEN end[n] ELSE head[n] \o f[next[n]]) = Join(parts, f, n)
  <2>1. CASE n > Len(parts)
    BY <2>1 DEF Join
  <2>2. CASE ~(n > Len(parts))
    <3>1. next[n] = n + 1 /\ next[n] # 0
      BY <1>1, <2>2
    <3> QED  BY <2>2, <3>1 DEF Join
  <2> QED  BY <2>1, <2>2
<1>5. f = [n \in 1..N |-> Join(parts, f, n)]
  BY <1>3, <1>4 DEF GoesDown
<1>6. JoinedFrom(parts) = [n \in 1..N |-> Join(parts, JoinedFrom(parts), n)]
  BY <1>5 DEF JoinedFrom, Join
<1> QED  BY <1>6

LEMMA JoinedNone == Joined(<<>>) = <<>>
<1>1. <<>> \in Seq({}) /\ Len(<<>>) = 0 /\ 1 \in 1..(Len(<<>>) + 1)
  BY EmptySeq
<1>2. JoinedFrom(<<>>)[1] = Join(<<>>, JoinedFrom(<<>>), 1)
  BY <1>1, JoinedFromIs
<1> QED  BY <1>1, <1>2 DEF Joined, Join

LEMMA SingleIs ==
    ASSUME NEW S, NEW a \in S
    PROVE  <<a>> \in Seq(S) /\ Len(<<a>>) = 1 /\ <<a>>[1] = a
OBVIOUS

LEMMA JoinedOne ==
    ASSUME NEW S, NEW a \in Seq(S)
    PROVE  Joined(<<a>>) = a
<1> DEFINE P == <<a>>
           F == JoinedFrom(P)
<1>1. P \in Seq(Seq(S)) /\ Len(P) = 1 /\ P[1] = a
  OBVIOUS
<1>2. /\ F[1] = Join(P, F, 1)
      /\ F[2] = Join(P, F, 2)
  <2>1. 1 \in 1..(Len(P) + 1) /\ 2 \in 1..(Len(P) + 1)
    BY <1>1
  <2> HIDE DEF P, F
  <2> QED  BY <1>1, <2>1, JoinedFromIs DEF F
<1> HIDE DEF P, F
<1>3. F[2] = <<>> /\ F[1] = a \o <<>> \o F[2]
  BY <1>1, <1>2 DEF Join
<1>4. a \o <<>> = a
  BY ConcatEmptySeq
<1>5. F[1] = a
  BY <1>3, <1>4
<1> QED  BY <1>5 DEF Joined, F, P

\* One part more at the front.
LEMMA JoinedMore ==
    ASSUME NEW S, NEW a \in Seq(S), NEW Q \in Seq(Seq(S)), Q # <<>>
    PROVE  Joined(<<a>> \o Q) = a \o <<",">> \o Joined(Q)
<1> DEFINE P == <<a>> \o Q
           F == JoinedFrom(P)
           G == JoinedFrom(Q)
           N == Len(Q) + 1
           T == {n \in 1..N : F[n + 1] # G[n]}
<1>1. <<a>> \in Seq(Seq(S)) /\ Len(<<a>>) = 1 /\ <<a>>[1] = a
  OBVIOUS
<1>2. Len(Q) \in Nat /\ Len(Q) # 0 /\ N \in Nat
  BY LenProperties, EmptySeq
<1>3. /\ P \in Seq(Seq(S)) /\ Len(P) = N
      /\ P[1] = a /\ \A n \in 1..Len(Q) : P[n + 1] = Q[n]
  <2>1. /\ P \in Seq(Seq(S)) /\ Len(P) = 1 + Len(Q)
        /\ \A i \in 1..(1 + Len(Q)) : P[i] = IF i <= 1 THEN <<a>>[i] ELSE Q[i - 1]
    BY <1>1, ConcatProperties
  <2> HIDE DEF P
  <2>2. ASSUME NEW n \in 1..Len(Q) PROVE P[n + 1] = Q[n]
    <3>1. n + 1 \in 1..(1 + Len(Q)) /\ ~(n + 1 <= 1) /\ (n + 1) - 1 = n
      BY <1>2
    <3> QED  BY <2>1, <3>1
  <2>3. P[1] = a
    BY <1>1, <1>2, <2>1
  <2> QED  BY <1>2, <2>1, <2>2, <2>3
<1> HIDE DEF P
<1>4. /\ \A n \in 1..(N + 1) : F[n] = Join(P, F, n)
      /\ \A n \in 1..N : G[n] = Join(Q, G, n)
  <2>1. \A n \in 1..(Len(P) + 1) : F[n] = Join(P, F, n)
    BY <1>3, JoinedFromIs
  <2>2. \A n \in 1..(Len(Q) + 1) : G[n] = Join(Q, G, n)
    BY JoinedFromIs
  <2> QED  BY <1>3, <2>1, <2>2
<1>11. T \in SUBSET (1..N) /\ \A n \in 1..N : n \in T <=> F[n + 1] # G[n]
  OBVIOUS
<1> HIDE DEF F, G, T
<1>5. T = {}
  <2> SUFFICES ASSUME T # {} PROVE FALSE
    OBVIOUS
  <2>1. PICK n \in T : \A j \in (n + 1)..N : j \notin T
    BY <1>2, <1>11, LastFailure
  <2>2. n \in 1..N /\ F[n + 1] # G[n] /\ n \in Nat /\ n + 1 \in 1..(N + 1)
    BY <1>2, <1>11, <2>1
  <2>3. F[n + 1] = Join(P, F, n + 1) /\ G[n] = Join(Q, G, n)
    BY <1>4, <2>2
  <2>4. CASE n = N
    <3>1. n + 1 > Len(P) /\ n > Len(Q)
      BY <1>2, <1>3, <2>4
    <3> QED  BY <2>2, <2>3, <3>1 DEF Join
  <2>5. CASE n # N
    <3>1. n \in 1..Len(Q) /\ n + 1 \in (n + 1)..N /\ n + 1 \in 1..N
      BY <1>2, <2>2, <2>5
    <3>2. F[n + 1 + 1] = G[n + 1]
      BY <1>11, <2>1, <3>1
    <3>3. P[n + 1] = Q[n]
      BY <1>3, <3>1
    <3>4. ~(n + 1 > N) /\ ~(n > Len(Q)) /\ (n + 1 = N <=> n = Len(Q))
      BY <1>2, <3>1
    <3> QED  BY <1>3, <2>2, <2>3, <3>2, <3>3, <3>4 DEF Join
  <2> QED  BY <2>4, <2>5
<1>6. F[2] = G[1]
  <2>1. 1 \in 1..N /\ 1 + 1 = 2
    BY <1>2
  <2> QED  BY <1>5, <1>11, <2>1
<1>7. F[1] = Join(P, F, 1)
  BY <1>2, <1>4
<1>8. ~(1 > Len(P)) /\ 1 # Len(P) /\ 1 + 1 = 2
  BY <1>2, <1>3
<1>9. F[1] = a \o <<",">> \o F[2]
  BY <1>3, <1>7, <1>8 DEF Join
<1> QED  BY <1>6, <1>9 DEF Joined, F, G, P

\* The characters are of any set with a comma in it.
Comma == ","

\* Parts without a comma, which joined are a text or all of it but a last comma.
Plain(S) == {part \in Seq(S) : Marks(part, Comma) = {}}

Fits(S, text, parts) ==
    /\ parts \in Seq(Plain(S)) /\ Joined(parts) \in Seq(S)
    /\ text \in {Joined(parts), Joined(parts) \o <<Comma>>}

LEMMA PlainIsText == \A S : Plain(S) \subseteq Seq(S)
BY DEF Plain

LEMMA FitsNone == \A S : Fits(S, <<>>, <<>>)
<1> TAKE S
<1>1. <<>> \in Seq(Plain(S)) /\ <<>> \in Seq(S)
  BY EmptySeq
<1> QED  BY <1>1, JoinedNone DEF Fits

LEMMA FitsOne ==
    ASSUME NEW S, Comma \in S, NEW a \in Plain(S), NEW text \in {a, a \o <<Comma>>}
    PROVE  Fits(S, text, <<a>>)
<1>1. <<a>> \in Seq(Plain(S)) /\ a \in Seq(S)
  BY SingleIs, PlainIsText
<1>2. Joined(<<a>>) = a
  BY <1>1, JoinedOne
<1> QED  BY <1>1, <1>2 DEF Fits

LEMMA FitsMore ==
    ASSUME NEW S, Comma \in S, NEW a \in Plain(S),
           NEW rest, NEW Q, Fits(S, rest, Q), Q # <<>>
    PROVE  Fits(S, a \o <<Comma>> \o rest, <<a>> \o Q)
<1> DEFINE P == <<a>> \o Q
           c == <<Comma>>
           J == Joined(Q)
<1>1. /\ Q \in Seq(Plain(S)) /\ J \in Seq(S)
      /\ rest = J \/ rest = J \o c
  BY DEF Fits
<1>2. /\ a \in Seq(S) /\ c \in Seq(S)
      /\ Q \in Seq(Seq(S)) /\ <<a>> \in Seq(Plain(S))
  BY <1>1, SingleIs, PlainIsText, SeqMonotonic
<1>3. Joined(P) = a \o c \o J
  BY <1>2, JoinedMore DEF Comma
<1>4. P \in Seq(Plain(S))
  BY <1>1, <1>2, ConcatProperties
<1> HIDE DEF c, J, P
<1>5. a \o c \in Seq(S) /\ a \o c \o J \in Seq(S)
  BY <1>1, <1>2, ConcatProperties
<1>6. a \o c \o rest \in {Joined(P), Joined(P) \o c}
  <2>1. \A x, y, z \in Seq(S) : (x \o y) \o z = x \o (y \o z)
    BY ConcatAssociative
  <2> DEFINE x == a \o c
  <2>2. x \in Seq(S) /\ x \o J = Joined(P) /\ x \o rest = a \o c \o rest
    BY <1>3, <1>5
  <2> HIDE DEF x
  <2>3. (x \o J) \o c = x \o (J \o c)
    BY <1>1, <1>2, <2>1, <2>2, Zenon
  <2> QED  BY <1>1, <2>2, <2>3
<1> QED  BY <1>3, <1>4, <1>5, <1>6 DEF Fits, c, P

-----------------------------------------------------------------------------
(* The task list.                                                          *)

\* Up to the delimiter, the delimiter, and what follows.
LEMMA CutAt ==
    ASSUME NEW S, NEW text \in Seq(S), NEW pos \in 1..Len(text),
           NEW f \in pos..Len(text)
    PROVE  SubSeq(text, pos, Len(text)) =
               SubSeq(text, pos, f - 1) \o <<text[f]>> \o SubSeq(text, f + 1, Len(text))
<1>1. Len(text) \in Nat /\ pos \in Nat /\ f \in Nat
  BY LenProperties
<1>2. f \in 1..Len(text)
  BY <1>1
<1>3. SubSeq(text, pos, f) = SubSeq(text, pos, f - 1) \o <<text[f]>>
  <2>1. pos \in 1..Len(text) /\ f \in pos..Len(text)
    OBVIOUS
  <2> QED  BY <2>1, SubSeqRecursiveSecond
<1>4. pos \in 1..(Len(text) + 1) /\ f \in (pos - 1)..Len(text)
      /\ Len(text) \in f..Len(text)
  BY <1>1
<1>5. SubSeq(text, pos, f) \o SubSeq(text, f + 1, Len(text)) = SubSeq(text, pos, Len(text))
  BY <1>4, ConcatAdjacentSubSeq
<1> QED  BY <1>3, <1>5

\* A stretch of a text that meets no mark.
LEMMA NoMark ==
    ASSUME NEW S, NEW text \in Seq(S), NEW mark, NEW m \in Nat \ {0},
           NEW n \in Int, n <= Len(text),
           \A j \in m..n : j \notin Marks(text, mark)
    PROVE  SubSeq(text, m, n) \in Seq(S) /\ Marks(SubSeq(text, m, n), mark) = {}
<1> DEFINE u == SubSeq(text, m, n)
<1>1. Len(text) \in Nat
  BY LenProperties
<1>2. \A j \in m..n : text[j] \in S /\ j \in 1..Len(text)
  BY <1>1, ElementOfSeq
<1>3. /\ u \in Seq(S) /\ Len(u) = IF m <= n THEN n - m + 1 ELSE 0
      /\ \A i \in 1..(n - m + 1) : u[i] = text[m + i - 1]
  BY <1>2, SubSeqProperties
<1> HIDE DEF u
<1>4. ASSUME NEW i \in 1..Len(u) PROVE u[i] # mark
  <2>1. i \in 1..(n - m + 1)
    BY <1>3
  <2>2. m + i - 1 \in m..n
    BY <2>1
  <2>3. m + i - 1 \in 1..Len(text) /\ m + i - 1 \notin Marks(text, mark)
    BY <1>2, <2>2
  <2> QED  BY <1>3, <2>1, <2>3 DEF Marks
<1>5. Marks(u, mark) = {}
  BY <1>4 DEF Marks
<1> QED  BY <1>3, <1>5 DEF u

\* From every position on, the parts fit what is left of the list.
LEMMA SplitFits ==
    ASSUME NEW S, Comma \in S, NEW text \in Seq(S)
    PROVE  \A pos \in 1..(Len(text) + 1) :
               Fits(S, SubSeq(text, pos, Len(text)), splitFrom(text, Comma)[pos])
<1> DEFINE N == Len(text) + 1
           F == splitFrom(text, Comma)
           Good(pos) == /\ Fits(S, SubSeq(text, pos, Len(text)), F[pos])
                        /\ pos <= Len(text) => F[pos] # <<>>
           T == {pos \in 1..N : ~Good(pos)}
<1>1. N \in Nat /\ Len(text) \in Nat
  BY LenProperties
<1>2. ASSUME NEW pos \in 1..N, \A j \in (pos + 1)..N : Good(j)
      PROVE  Good(pos)
  <2>1. F[pos] = Split(text, Comma, F, pos)
    BY SplitFromIs
  <2>2. PICK f : f = Delimiter(text, Comma, pos)
    OBVIOUS
  <2>3. pos \in Nat \ {0}
    BY <1>1
  <2>4. CASE pos > Len(text)
    <3>1. F[pos] = <<>> /\ SubSeq(text, pos, Len(text)) = <<>>
      BY <1>1, <2>1, <2>3, <2>4, SubSeqEmpty DEF Split
    <3> QED  BY <1>1, <2>3, <2>4, <3>1, FitsNone
  <2>5. CASE ~(pos > Len(text)) /\ f = Npos
    <3> DEFINE a == SubSeq(text, pos, Len(text))
    <3>1. F[pos] = <<a>>
      BY <2>1, <2>2, <2>5 DEF Split
    <3>2. \A j \in pos..Len(text) : j \notin Marks(text, Comma)
      BY <2>2, <2>3, <2>5, DelimiterIs
    <3>3. a \in Plain(S)
      BY <1>1, <2>3, <3>2, NoMark DEF Plain
    <3> HIDE DEF a
    <3>4. Fits(S, a, <<a>>) /\ <<a>> # <<>>
      BY <3>3, FitsOne
    <3> QED  BY <3>1, <3>4 DEF a
  <2>6. CASE ~(pos > Len(text)) /\ f # Npos
    <3> DEFINE a    == SubSeq(text, pos, f - 1)
               rest == SubSeq(text, f + 1, Len(text))
               Q    == F[f + 1]
    <3>1. F[pos] = <<a>> \o Q
      BY <2>1, <2>2, <2>6 DEF Split
    <3>2. /\ f \in pos..Len(text) /\ f \in Marks(text, Comma)
          /\ \A j \in pos..(f - 1) : j \notin Marks(text, Comma)
      BY <2>2, <2>3, <2>6, DelimiterIs
    <3>3. f \in Int /\ pos <= f /\ f <= Len(text) /\ text[f] = Comma
      BY <1>1, <2>3, <3>2 DEF Marks
    <3>4. a \in Plain(S)
      <4>1. f - 1 \in Int /\ f - 1 <= Len(text)
        BY <1>1, <3>3
      <4> QED  BY <2>3, <3>2, <4>1, NoMark DEF Plain
    <3>5. SubSeq(text, pos, Len(text)) = a \o <<Comma>> \o rest
      <4>1. pos \in 1..Len(text)
        BY <1>1, <2>3, <2>6
      <4> QED  BY <3>2, <3>3, <4>1, CutAt
    <3>6. Good(f + 1)
      <4>1. f + 1 \in (pos + 1)..N
        BY <1>1, <2>3, <3>3
      <4> QED  BY <1>2, <4>1
    <3>7. Fits(S, rest, Q) /\ (f + 1 <= Len(text) => Q # <<>>)
      BY <3>6
    <3>8. Q \in Seq(Plain(S))
      BY <3>7 DEF Fits
    <3>9. f = Len(text) => Q = <<>> /\ rest = <<>>
      <4>1. ASSUME f = Len(text) PROVE f + 1 > Len(text) /\ f + 1 \in 1..N
        BY <1>1, <2>3, <3>3, <4>1
      <4>2. ASSUME f = Len(text) PROVE Q = Split(text, Comma, F, f + 1)
        BY <4>1, <4>2, SplitFromIs
      <4> QED  BY <1>1, <3>3, <4>1, <4>2, SubSeqEmpty DEF Split
    <3> HIDE DEF a, rest, Q, F
    <3>10. a \in Seq(S) /\ <<Comma>> \in Seq(S) /\ <<a>> \in Seq(Plain(S))
      BY <3>4, PlainIsText, SingleIs
    <3>11. CASE f = Len(text)
      <4>1. a \o <<Comma>> \in Seq(S)
        BY <3>10, ConcatProperties
      <4>2. a \o <<Comma>> \o rest = a \o <<Comma>> /\ <<a>> \o Q = <<a>>
        BY <3>9, <3>10, <3>11, <4>1, ConcatEmptySeq
      <4>3. Fits(S, a \o <<Comma>>, <<a>>) /\ <<a>> # <<>>
        BY <3>4, FitsOne
      <4> QED  BY <3>1, <3>5, <4>2, <4>3
    <3>12. CASE f # Len(text)
      <4>1. Q # <<>>
        BY <1>1, <3>3, <3>7, <3>12
      <4>2. Fits(S, a \o <<Comma>> \o rest, <<a>> \o Q)
        BY <3>4, <3>7, <4>1, FitsMore
      <4>3. <<a>> \o Q # <<>>
        BY <3>8, <3>10, ConcatEqualIffEmpty
      <4> QED  BY <3>1, <3>5, <4>2, <4>3
    <3> QED  BY <3>11, <3>12
  <2> QED  BY <2>4, <2>5, <2>6
<1>3. T = {}
  <2> SUFFICES ASSUME T # {} PROVE FALSE
    OBVIOUS
  <2> HIDE DEF Good
  <2>1. PICK pos \in T : \A j \in (pos + 1)..N : j \notin T
    BY <1>1, LastFailure
  <2>2. pos \in 1..N /\ ~Good(pos) /\ pos \in Nat
    BY <1>1, <2>1
  <2>3. ASSUME NEW j \in (pos + 1)..N PROVE Good(j)
    <3>1. j \in 1..N
      BY <1>1, <2>2
    <3> QED  BY <2>1, <3>1
  <2> QED  BY <1>2, <2>2, <2>3
<1> QED  BY <1>3

\* What the command line makes of the list of tasks.
LEMMA TasksFit ==
    ASSUME NEW S, Comma \in S, NEW text \in Seq(S)
    PROVE  LET tasks == split_csv_arguments(text, Comma) IN
           /\ \A i \in DOMAIN tasks : \A j \in DOMAIN tasks[i] : tasks[i][j] # Comma
           /\ text \in {Joined(tasks), Joined(tasks) \o <<Comma>>}
<1> DEFINE tasks == split_csv_arguments(text, Comma)
<1>1. Len(text) \in Nat /\ 1 \in 1..(Len(text) + 1) /\ SubSeq(text, 1, Len(text)) = text
  BY LenProperties, SubSeqFull
<1>2. Fits(S, text, tasks)
  BY <1>1, SplitFits DEF split_csv_arguments
<1> HIDE DEF tasks
<1>3. tasks \in Seq(Plain(S)) /\ text \in {Joined(tasks), Joined(tasks) \o <<Comma>>}
  BY <1>2 DEF Fits
<1>4. ASSUME NEW i \in DOMAIN tasks, NEW j \in DOMAIN tasks[i]
      PROVE  tasks[i][j] # Comma
  <2>1. tasks[i] \in Plain(S)
    BY <1>3, LenProperties, ElementOfSeq
  <2>2. tasks[i] \in Seq(S) /\ Marks(tasks[i], Comma) = {}
    BY <2>1 DEF Plain
  <2>3. j \in 1..Len(tasks[i])
    BY <2>2, LenProperties
  <2> QED  BY <2>2, <2>3 DEF Marks
<1> QED  BY <1>3, <1>4 DEF tasks

-----------------------------------------------------------------------------
(* The theorems.                                                           *)

\* The tasks that main hands to the Context are the list that was given,
\* whatever its length: no part is lost, doubled, cut short or joined with
\* another (split_csv_arguments).
THEOREM TasksAreGiven == Spec => []TasksAreTheList
<1>1. Init => TasksAreTheList
  <2>1. Init => last.op # "tasks"
    BY DEF Init, Nothing
  <2> QED  BY <2>1, Zenon DEF TasksAreTheList
<1>2. TasksAreTheList /\ [Next]_vars => TasksAreTheList'
  <2> SUFFICES ASSUME TasksAreTheList, [Next]_vars PROVE TasksAreTheList'
    OBVIOUS
  <2>1. ASSUME NEW text \in TaskLists, MakeContext(text) PROVE TasksAreTheList'
    <3>1. text \in Seq(STRING \cup {Comma}) /\ Comma \in STRING \cup {Comma}
      <4>1. text \in Seq(STRING)
        BY TextsAssumption
      <4> QED  BY <4>1, SeqMonotonic
    <3>2. last'.text = text /\ last'.out = split_csv_arguments(text, Comma)
      BY <2>1 DEF MakeContext, Comma
    <3>3. /\ \A i \in DOMAIN last'.out :
                \A j \in DOMAIN last'.out[i] : last'.out[i][j] # Comma
          /\ last'.text \in {Joined(last'.out), Joined(last'.out) \o <<Comma>>}
      BY <3>1, <3>2, TasksFit
    <3> QED  BY <3>3 DEF TasksAreTheList, Comma
  <2>2. CASE UNCHANGED vars
    BY <2>2 DEF TasksAreTheList, vars
  <2>3. ASSUME last'.op # "tasks" PROVE TasksAreTheList'
    BY <2>3 DEF TasksAreTheList
  <2> QED
    BY <2>1, <2>2, <2>3
       DEF Next, Return, Nothing, Getenv, Define, Strfvars, Strfenv
<1> QED  BY <1>1, <1>2, PTL DEF Spec

\* For texts of every length: each placeholder is replaced once, by the value its
\* variable has, and nothing else is touched (replace_vars); in replace_env as
\* well, but that variables may be missed.
THEOREM PlaceholdersExpand == Spec => []ExpandsPlaceholders
<1>1. Init => ExpandsPlaceholders
  BY DEF Init, Nothing, ExpandsPlaceholders
<1>2. ExpandsPlaceholders /\ [Next]_vars => ExpandsPlaceholders'
  <2> SUFFICES ASSUME ExpandsPlaceholders, [Next]_vars PROVE ExpandsPlaceholders'
    OBVIOUS
  <2>1. \A text \in Texts : \A of : expand(text, of) = Expansion(text, of)
    BY TextsAssumption, ExpandIsExpansion
  <2>2. ASSUME NEW text \in Texts, Strfvars(text) PROVE ExpandsPlaceholders'
    <3>1. last'.op = "strfvars" /\ last'.text = text /\ last'.out = expand(text, values)
          /\ values' = values
      BY <2>2 DEF Strfvars, replace_vars
    <3> QED  BY <2>1, <3>1 DEF ExpandsPlaceholders
  <2>3. ASSUME NEW text \in Texts, Strfenv(text) PROVE ExpandsPlaceholders'
    <3>1. PICK intact \in SUBSET Keys :
             last' = [op |-> "strfenv", text |-> text, out |-> replace_env(text, intact)]
      BY <2>3 DEF Strfenv
    <3>2. last'.op = "strfenv" /\ last'.text = text
          /\ last'.out = expand(text, Found(intact))
      BY <3>1 DEF replace_env
    <3>3. last'.out = Expansion(last'.text, Found(intact)) /\ Found(intact)' = Found(intact)
      BY <2>1, <2>3, <3>2 DEF Strfenv, Found
    <3> QED  BY <3>2, <3>3 DEF ExpandsPlaceholders
  <2>4. CASE UNCHANGED vars
    BY <2>4 DEF ExpandsPlaceholders, vars, Found
  <2>5. ASSUME last'.op \notin {"strfvars", "strfenv"} PROVE ExpandsPlaceholders'
    BY <2>5 DEF ExpandsPlaceholders
  <2>6. Return => last'.op \notin {"strfvars", "strfenv"}
    BY DEF Return, Nothing
  <2>7. ASSUME NEW text, MakeContext(text)
        PROVE  last'.op \notin {"strfvars", "strfenv"}
    <3>1. last' = [op |-> "tasks", text |-> text, out |-> split_csv_arguments(text, ",")]
      BY <2>7, Zenon DEF MakeContext
    <3> QED  BY <3>1
  <2>8. \A key : Getenv(key) => last'.op \notin {"strfvars", "strfenv"}
    BY DEF Getenv
  <2>9. ASSUME NEW key, NEW text, Define(key, text)
        PROVE  last'.op \notin {"strfvars", "strfenv"}
    <3>1. last' = [op |-> "define", text |-> text, out |-> values'[key]]
      BY <2>9 DEF Define
    <3> QED  BY <3>1
  <2> QED
    BY <2>2, <2>3, <2>4, <2>5, <2>6, <2>7, <2>8, <2>9, Zenon DEF Next
<1> QED  BY <1>1, <1>2, PTL DEF Spec
=============================================================================
