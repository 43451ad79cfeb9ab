--------------------------- MODULE ArchiveWalkProofs ---------------------------
(***************************************************************************)
(* Theorems about ArchiveWalk, for trees of every size and shape and every *)
(* .kafeignore.                                                            *)
(***************************************************************************)
EXTENDS ArchiveWalk, SequenceTheorems, TLAPS

\* The first n names of a path.
Upper(path, n) == SubSeq(path, 1, n)

TreeOK ==
    /\ tree \in [Paths -> Kinds]
    /\ \A path \in Paths : path \in Seq(STRING) /\ path # <<>>
    /\ \A path \in Paths : \A n \in 1..Len(path) - 1 : Upper(path, n) \in Paths

WalkType == todo \in SUBSET Paths /\ archived \in SUBSET Paths /\ lines \in IgnoreFiles

\* As long as nobody changes the directory, what is there is in directories.
Grown ==
    ~changed => \A path \in Paths : \A n \in 1..Len(path) - 1 :
                    tree[path] # "none" => tree[Upper(path, n)] = "dir"

\* Before a path is come to, its directory got its entry, or is ignored.
ParentFirst ==
    \A path \in todo : Len(path) > 1 =>
        Upper(path, Len(path) - 1) \in archived \/ is_ignored(Upper(path, Len(path) - 1))

\* What belongs in the archive.
Belongs(path) == tree[path] \notin {"none", "special"} /\ ~Excluded(path)

\* The iterator is still to come to the path, or to a directory it is in.
Pending(path) == \E n \in 1..Len(path) : Upper(path, n) \in todo

OnlyWhatBelongs == ~changed => \A path \in archived : Belongs(path)

AllToCome ==
    step = "walking" /\ ~changed =>
        \A path \in Paths : Belongs(path) => path \in archived \/ Pending(path)

IInv ==
    /\ TreeOK
    /\ WalkType
    /\ Grown
    /\ ParentFirst
    /\ OnlyWhatBelongs
    /\ AllToCome
    /\ ExactlyTheUnignored
    /\ NoOrphans
    /\ RefusedChangesNothing

-----------------------------------------------------------------------------
(* Paths and patterns.                                                     *)

LEMMA UpperPath ==
  ASSUME NEW path \in Seq(STRING), NEW n \in 1..Len(path)
  PROVE  /\ Upper(path, n) \in Seq(STRING) /\ Len(Upper(path, n)) = n
         /\ \A i \in 1..n : Upper(path, n)[i] = path[i]
         /\ \A k \in 1..n : Upper(Upper(path, n), k) = Upper(path, k)
<1>1. Len(path) \in Nat
  BY LenProperties
<1>2. \A i \in 1..n : path[i] \in STRING
  BY <1>1, ElementOfSeq
<1>3. Upper(path, n) \in Seq(STRING) /\ Len(Upper(path, n)) = n
      /\ \A i \in 1..n : Upper(path, n)[i] = path[i]
  BY <1>1, <1>2, SubSeqProperties DEF Upper
<1>4. ASSUME NEW k \in 1..n  PROVE Upper(Upper(path, n), k) = Upper(path, k)
  BY <1>1, SubSeqOfSubSeq DEF Upper
<1> QED  BY <1>3, <1>4

\* A pattern that matches a directory matches what is in it.
LEMMA IgnoredBelow ==
  ASSUME NEW path \in Seq(STRING), NEW n \in 1..Len(path), is_ignored(Upper(path, n)),
         WalkType
  PROVE  is_ignored(path)
<1>1. PICK pattern \in read_ignore_file(lines) : fnmatch(pattern, Upper(path, n))
  BY DEF is_ignored
<1>2. PICK line \in lines : pattern = line.pattern
  BY DEF read_ignore_file
<1>3. Len(pattern) \in Nat /\ Len(path) \in Nat
  BY <1>2, IgnoreFilesAssumption, LenProperties DEF WalkType
<1>4. fnmatch(pattern, path)
  BY <1>1, <1>3, UpperPath DEF fnmatch
<1> QED  BY <1>4 DEF is_ignored

\* is_ignored is what the property says of the lines.
LEMMA IgnoredIsExcluded ==
  ASSUME NEW path, WalkType, path \in Seq(STRING)
  PROVE  is_ignored(path) <=> Excluded(path)
<1>1. ASSUME NEW line \in lines
      PROVE  Len(line.pattern) \in Nat /\ (line.pattern # <<>> => Len(line.pattern) >= 1)
  <2>1. line.pattern \in Seq([not : BOOLEAN, name : STRING])
    BY IgnoreFilesAssumption DEF WalkType
  <2> QED  BY <2>1, LenProperties, EmptySeq
<1>2. Len(path) \in Nat
  BY LenProperties
<1>3. is_ignored(path) => Excluded(path)
  <2> SUFFICES ASSUME NEW line \in lines, line.pattern # <<>>, ~line.comment,
                      fnmatch(line.pattern, path)
               PROVE  Excluded(path)
    BY DEF is_ignored, read_ignore_file
  <2>1. Len(line.pattern) \in 1..Len(path)
    BY <1>1, <1>2 DEF fnmatch
  <2> QED  BY <2>1 DEF Excluded, fnmatch
<1>4. Excluded(path) => is_ignored(path)
  <2> SUFFICES ASSUME NEW line \in lines, line.pattern # <<>>, ~line.comment,
                      NEW n \in 1..Len(path), Len(line.pattern) = n,
                      \A i \in 1..n : PartMatches(line.pattern[i], path[i])
               PROVE  is_ignored(path)
    BY DEF Excluded
  <2>1. fnmatch(line.pattern, path)
    BY <1>2 DEF fnmatch
  <2> QED  BY <2>1 DEF is_ignored, read_ignore_file
<1> QED  BY <1>3, <1>4

-----------------------------------------------------------------------------
LEMMA InitInv == Init => IInv
<1> SUFFICES ASSUME Init PROVE IInv  OBVIOUS
<1> USE DEF Init
<1>1. TreeOK /\ Grown
  BY TreesAssumption DEF TreeOK, Grown, Paths, Upper
<1> QED
  BY <1>1 DEF IInv, WalkType, ParentFirst, OnlyWhatBelongs, AllToCome,
              ExactlyTheUnignored, NoOrphans, RefusedChangesNothing

\* A step that leaves the tree, the lines and the walk alone.
LEMMA QuietKeeps ==
  ASSUME IInv, UNCHANGED <<tree, lines, todo, archived, changed>>,
         AllToCome', ExactlyTheUnignored', RefusedChangesNothing'
  PROVE  IInv'
<1>1. TreeOK' /\ WalkType' /\ Grown'
  BY DEF IInv, TreeOK, WalkType, Grown, Paths
<1>2. ParentFirst'
  BY DEF IInv, ParentFirst, is_ignored
<1>3. OnlyWhatBelongs' /\ NoOrphans'
  BY DEF IInv, OnlyWhatBelongs, NoOrphans, Belongs, Excluded
<1> QED  BY <1>1, <1>2, <1>3 DEF IInv

LEMMA OpenInv == IInv /\ Open => IInv'
<1> SUFFICES ASSUME IInv, Open PROVE IInv'  OBVIOUS
<1> USE DEF Open, call
<1>1. TreeOK' /\ Grown' /\ todo' \in SUBSET Paths /\ WalkType'
  BY DEF IInv, TreeOK, WalkType, Grown, Paths, Children
<1>2. ASSUME NEW path \in todo'  PROVE Len(path) = 1
  BY <1>2, EmptySeq DEF Children
<1>3. ParentFirst'
  BY <1>2 DEF ParentFirst
<1>4. OnlyWhatBelongs' /\ NoOrphans'
  BY DEF IInv, OnlyWhatBelongs, NoOrphans, Belongs, Excluded
<1>5. AllToCome'
  <2> SUFFICES ASSUME ~changed, NEW path \in Paths, tree[path] # "none"
               PROVE  1 \in 1..Len(path) /\ Upper(path, 1) \in todo'
    BY DEF AllToCome, Belongs, Pending, Paths
  <2>1. path \in Seq(STRING) /\ Len(path) \in Nat /\ Len(path) >= 1
    BY LenProperties, EmptySeq DEF IInv, TreeOK
  <2>2. Len(Upper(path, 1)) = 1
    <3>1. 1 \in 1..Len(path)
      BY <2>1
    <3> QED  BY <2>1, <3>1, UpperPath
  <2>3. Upper(path, 1) \in Paths /\ tree[Upper(path, 1)] # "none"
    <3>1. CASE Len(path) = 1
      <4>1. Upper(path, 1) = path
        BY <2>1, <3>1, SubSeqFull DEF Upper
      <4> QED  BY <4>1
    <3>2. CASE Len(path) # 1
      <4>1. 1 \in 1..Len(path) - 1
        BY <2>1, <3>2
      <4>2. Upper(path, 1) \in Paths
        BY <4>1 DEF IInv, TreeOK
      <4>3. tree[Upper(path, 1)] = "dir"
        BY <4>1 DEF IInv, Grown
      <4> QED  BY <4>2, <4>3
    <3> QED  BY <3>1, <3>2
  <2>4. Len(<<>>) = 0 /\ SubSeq(Upper(path, 1), 1, 0) = <<>>
    BY SubSeqEmpty
  <2>5. Upper(path, 1) \in Children(<<>>)
    BY <2>2, <2>3, <2>4 DEF Children
  <2> QED  BY <2>1, <2>5
<1>6. ExactlyTheUnignored' /\ RefusedChangesNothing'
  BY DEF ExactlyTheUnignored, RefusedChangesNothing
<1> QED  BY <1>1, <1>3, <1>4, <1>5, <1>6 DEF IInv

LEMMA VisitInv == IInv /\ Visit => IInv'
<1> SUFFICES ASSUME IInv, Visit PROVE IInv'  OBVIOUS
<1> USE DEF Visit, call
<1> DEFINE Entry(p) == /\ is_file_or_symlink(tree[p]) \/ is_directory(tree[p])
                       /\ ~is_ignored(p)
<1>1. PICK p \in todo :
         /\ tree[p] # "dangling"
         /\ todo' = (todo \ {p}) \cup IF tree[p] = "dir" THEN Children(p) ELSE {}
         /\ archived' = IF Entry(p) THEN archived \cup {p} ELSE archived
  BY DEF EntryOf
<1>2. p \in Paths /\ p \in Seq(STRING) /\ Len(p) \in Nat /\ Len(p) >= 1
  BY LenProperties, EmptySeq DEF IInv, TreeOK, WalkType
<1>3. tree[p] \in Kinds
  BY <1>2 DEF IInv, TreeOK
<1>4. Entry(p) <=> Belongs(p)
  BY <1>1, <1>2, <1>3, IgnoredIsExcluded
     DEF IInv, Belongs, is_file_or_symlink, is_directory, Kinds
<1> HIDE DEF Entry
<1>5. TreeOK' /\ Grown'
  BY DEF IInv, TreeOK, Grown, Paths
<1>6. WalkType'
  BY <1>1, <1>2 DEF IInv, WalkType, Children, Paths
<1>7. ParentFirst'
  <2> SUFFICES ASSUME NEW q \in todo', Len(q) > 1
               PROVE  Upper(q, Len(q) - 1) \in archived' \/ is_ignored(Upper(q, Len(q) - 1))
    BY DEF ParentFirst, is_ignored
  <2>1. CASE q \in todo
    BY <1>1, <2>1 DEF IInv, ParentFirst
  <2>2. CASE tree[p] = "dir" /\ q \in Children(p)
    <3>1. Upper(q, Len(q) - 1) = p
      BY <1>2, <2>2 DEF Children, Upper
    <3>2. Entry(p) \/ is_ignored(p)
      BY <2>2 DEF Entry, is_directory
    <3> QED  BY <1>1, <3>1, <3>2
  <2> QED  BY <1>1, <2>1, <2>2
<1>8. NoOrphans'
  <2> SUFFICES ASSUME Entry(p), Len(p) > 1
               PROVE  Upper(p, Len(p) - 1) \in archived
    BY <1>1 DEF IInv, NoOrphans, Upper
  <2>1. Len(p) - 1 \in 1..Len(p)
    BY <1>2
  <2>2. ~is_ignored(Upper(p, Len(p) - 1))
    BY <1>2, <2>1, IgnoredBelow DEF IInv, Entry
  <2> QED  BY <1>1, <2>2 DEF IInv, ParentFirst
<1>9. \A path : Belongs(path)' <=> Belongs(path)
  BY DEF Belongs, Excluded
<1>10. OnlyWhatBelongs'
  BY <1>1, <1>4, <1>9 DEF IInv, OnlyWhatBelongs
<1>11. AllToCome'
  <2> SUFFICES ASSUME ~changed, NEW path \in Paths, Belongs(path), path \notin archived'
               PROVE  \E n \in 1..Len(path) : Upper(path, n) \in todo'
    BY <1>9 DEF AllToCome, Pending, Paths
  <2>1. path \notin archived
    BY <1>1
  <2>2. PICK n \in 1..Len(path) : Upper(path, n) \in todo
    BY <2>1 DEF IInv, AllToCome, Pending
  <2>3. path \in Seq(STRING) /\ Len(path) \in Nat
    BY LenProperties DEF IInv, TreeOK
  <2>4. CASE Upper(path, n) # p
    BY <1>1, <2>2, <2>4
  <2>5. CASE Upper(path, n) = p
    <3>1. n # Len(path)
      BY <1>1, <1>4, <2>3, <2>5, SubSeqFull DEF Upper
    <3>2. n \in 1..Len(path) - 1 /\ n + 1 \in 1..Len(path)
      BY <2>3, <3>1
    <3>3. tree[path] # "none" /\ tree[p] = "dir"
      BY <2>5, <3>2 DEF IInv, Grown, Belongs
    <3>4. Upper(path, n + 1) \in Paths /\ tree[Upper(path, n + 1)] # "none"
      <4>1. CASE n + 1 = Len(path)
        BY <2>3, <3>3, <4>1, SubSeqFull DEF Upper
      <4>2. CASE n + 1 # Len(path)
        <5>1. n + 1 \in 1..Len(path) - 1
          BY <2>3, <3>2, <4>2
        <5> QED  BY <3>3, <5>1 DEF IInv, TreeOK, Grown
      <4> QED  BY <4>1, <4>2
    <3>5. Len(p) = n /\ Len(Upper(path, n + 1)) = n + 1
          /\ SubSeq(Upper(path, n + 1), 1, n) = p
      BY <2>3, <2>5, <3>2, UpperPath DEF Upper
    <3>6. Upper(path, n + 1) \in Children(p)
      BY <3>4, <3>5 DEF Children
    <3> QED  BY <1>1, <3>2, <3>3, <3>6
  <2> QED  BY <2>4, <2>5
<1>12. ExactlyTheUnignored' /\ RefusedChangesNothing'
  BY DEF ExactlyTheUnignored, RefusedChangesNothing
<1> QED  BY <1>5, <1>6, <1>7, <1>8, <1>10, <1>11, <1>12 DEF IInv

\* What is left when the walk is given up: the directory at hand may have its
\* entry already.
LEMMA AbortInv == IInv /\ Abort => IInv'
<1> SUFFICES ASSUME IInv, Abort PROVE IInv'  OBVIOUS
<1> USE DEF Abort, call
<1>1. PICK p \in todo :
         \/ UNCHANGED archived
         \/ tree[p] = "dir" /\ archived' = archived \cup EntryOf(p)
  OBVIOUS
<1>2. p \in Paths /\ p \in Seq(STRING) /\ Len(p) \in Nat /\ Len(p) >= 1
  BY LenProperties, EmptySeq DEF IInv, TreeOK, WalkType
<1>3. archived' = archived
      \/ (archived' = archived \cup {p} /\ tree[p] = "dir" /\ ~is_ignored(p))
  BY <1>1 DEF EntryOf
<1>4. TreeOK' /\ Grown' /\ WalkType'
  BY <1>2, <1>3 DEF IInv, TreeOK, Grown, WalkType, Paths
<1>5. ParentFirst'
  BY <1>3 DEF IInv, ParentFirst, is_ignored
<1>6. NoOrphans'
  <2> SUFFICES ASSUME ~is_ignored(p), Len(p) > 1
               PROVE  Upper(p, Len(p) - 1) \in archived
    BY <1>3 DEF IInv, NoOrphans, Upper
  <2>1. Len(p) - 1 \in 1..Len(p)
    BY <1>2
  <2>2. ~is_ignored(Upper(p, Len(p) - 1))
    BY <1>2, <2>1, IgnoredBelow DEF IInv
  <2> QED  BY <2>2 DEF IInv, ParentFirst
<1>7. \A path : Belongs(path)' <=> Belongs(path)
  BY DEF Belongs, Excluded
<1>8. OnlyWhatBelongs'
  <2>1. tree[p] = "dir" /\ ~is_ignored(p) => Belongs(p)
    BY <1>2, IgnoredIsExcluded DEF IInv, Belongs
  <2> QED  BY <1>3, <1>7, <2>1 DEF IInv, OnlyWhatBelongs
<1>9. AllToCome' /\ ExactlyTheUnignored' /\ RefusedChangesNothing'
  BY DEF AllToCome, ExactlyTheUnignored, RefusedChangesNothing
<1> QED  BY <1>4, <1>5, <1>6, <1>8, <1>9 DEF IInv

LEMMA FinishInv == IInv /\ Finish => IInv'
<1> SUFFICES ASSUME IInv, Finish PROVE IInv'  OBVIOUS
<1> USE DEF Finish, call
<1>1. ASSUME ~changed  PROVE archived = {path \in Paths : Belongs(path)}
  <2>1. \A path \in Paths : ~Pending(path)
    BY DEF Pending
  <2>2. \A path \in Paths : Belongs(path) => path \in archived
    BY <1>1, <2>1 DEF IInv, AllToCome
  <2>3. \A path \in archived : path \in Paths /\ Belongs(path)
    BY <1>1 DEF IInv, OnlyWhatBelongs, WalkType
  <2> QED  BY <2>2, <2>3
<1>2. ExactlyTheUnignored'
  BY <1>1 DEF ExactlyTheUnignored, Belongs, Paths, Excluded
<1>3. AllToCome' /\ RefusedChangesNothing'
  BY DEF AllToCome, RefusedChangesNothing
<1> QED  BY <1>2, <1>3, QuietKeeps

LEMMA ChangeInv == IInv /\ Change => IInv'
<1> SUFFICES ASSUME IInv, Change PROVE IInv'  OBVIOUS
<1> USE DEF Change, call
<1>1. tree' \in [Paths -> Kinds]
  BY DEF IInv, TreeOK, Kinds, Paths
<1>2. Paths' = Paths
  BY <1>1 DEF Paths
<1>3. TreeOK' /\ WalkType'
  BY <1>1, <1>2 DEF IInv, TreeOK, WalkType
<1>4. ParentFirst' /\ NoOrphans'
  BY DEF IInv, ParentFirst, NoOrphans, is_ignored
<1>5. Grown' /\ OnlyWhatBelongs' /\ AllToCome' /\ ExactlyTheUnignored'
  BY DEF Grown, OnlyWhatBelongs, AllToCome, ExactlyTheUnignored
<1>6. RefusedChangesNothing'
  BY DEF RefusedChangesNothing
<1> QED  BY <1>3, <1>4, <1>5, <1>6 DEF IInv

LEMMA StepInv == IInv /\ [Next]_vars => IInv'
<1> SUFFICES ASSUME IInv, [Next]_vars PROVE IInv'  OBVIOUS
<1>1. CASE Refuse \/ AbortBefore
  <2>1. AllToCome' /\ ExactlyTheUnignored'
    BY <1>1 DEF Refuse, AbortBefore, AllToCome, ExactlyTheUnignored
  <2>2. RefusedChangesNothing'
    BY <1>1 DEF Refuse, AbortBefore, call, IInv, RefusedChangesNothing
  <2>3. UNCHANGED <<tree, lines, todo, archived, changed>>
    BY <1>1 DEF Refuse, AbortBefore, call
  <2> QED  BY <2>1, <2>2, <2>3, QuietKeeps
<1>2. CASE UNCHANGED vars
  <2> USE <1>2 DEF vars
  <2>1. AllToCome' /\ ExactlyTheUnignored'
    BY DEF IInv, AllToCome, ExactlyTheUnignored, Belongs, Excluded, Pending, Paths
  <2> QED  BY <2>1, QuietKeeps DEF IInv, RefusedChangesNothing
<1> QED  BY <1>1, <1>2, OpenInv, VisitInv, AbortInv, FinishInv, ChangeInv DEF Next

-----------------------------------------------------------------------------
\* The properties and what they rest on hold at every step of every walk.
THEOREM Inductive == Spec => []IInv
<1> QED  BY InitInv, StepInv, PTL DEF Spec

\* An undisturbed walk archives what .kafeignore leaves, and nothing else.
THEOREM ArchiveIsExact == Spec => []ExactlyTheUnignored
<1>1. IInv => ExactlyTheUnignored  BY DEF IInv
<1> QED  BY <1>1, Inductive, PTL

\* Every entry has its directory in the archive, whatever others do to the
\* directory meanwhile.
THEOREM EntriesHaveParents == Spec => []NoOrphans
<1>1. IInv => NoOrphans  BY DEF IInv
<1> QED  BY <1>1, Inductive, PTL

\* A call that is refused has not touched what was at the archive's path.
THEOREM RefusalIsHarmless == Spec => []RefusedChangesNothing
<1>1. IInv => RefusedChangesNothing  BY DEF IInv
<1> QED  BY <1>1, Inductive, PTL
=============================================================================
