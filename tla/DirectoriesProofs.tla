-------------------------- MODULE DirectoriesProofs --------------------------
(***************************************************************************)
(* Theorems about Directories, for every tree of directories, any number   *)
(* of hosts and every name: where k.local_within leads, where commands run *)
(* and where uploads write.                                                *)
(***************************************************************************)
EXTENDS Directories, TLAPS

\* What the properties leave unsaid: kafe's own directory is where a shell would
\* be until k.local_within succeeds; the SshApi at hand has what k.within was
\* given in this body; only a command leaves directories behind, and it leaves
\* those it was to run in.
IInv ==
    /\ task \in {1, 2} /\ told \in Paths
    /\ set_by = 0 => cd = Cwd
    /\ LocalWithinIsCd
    /\ host # NoHost => remote_chdir = told
    /\ OrdinaryCommandsStay

-----------------------------------------------------------------------------
(* Paths.                                                                  *)

LEMMA Kinds ==
    /\ NoPath.kind = "empty" /\ NoPath.names = <<>>
    /\ \A names : Abs(names).kind = "abs" /\ Abs(names).names = names
    /\ \A names : Abs(names) # NoPath
BY DEF Abs, NoPath, Path

\* A path is of one of the four kinds, and empty in one way only.
LEMMA PathKind ==
    ASSUME NEW p \in Paths
    PROVE  /\ p.kind \in {"abs", "rel", "home", "empty"}
           /\ p.kind = "empty" <=> p = NoPath
BY DEF Paths, NoPath, Path

\* An absolute base, and one more path: what cd does.
LEMMA AbsoluteIs ==
    ASSUME NEW p, NEW names, p.kind \in {"abs", "rel", "empty"}
    PROVE  absolute(p, Abs(names)) =
               Abs(IF p.kind = "abs" THEN p.names ELSE names \o p.names)
BY Kinds DEF absolute

\* normalize takes a path to where cd looks for it, from the directory that
\* local_chdir or, without one, kafe's own directory is.
LEMMA NormalizeIsCd ==
    ASSUME IInv, NEW p \in Paths
    PROVE  LET target == CASE p.kind = "abs"              -> p.names
                           [] p.kind \in {"rel", "empty"} -> cd \o p.names
                           [] p.kind = "home"             -> Home \o p.names
           IN  normalize(p, local_chdir) = Abs(target)
<1>1. (IF local_chdir = NoPath THEN Abs(Cwd) ELSE local_chdir) = Abs(cd)
  BY Kinds DEF IInv, LocalWithinIsCd
<1>2. CASE p.kind = "home"
  <2>1. expand(p) = Abs(Home \o p.names) /\ expand(p).kind = "abs"
        /\ expand(p).names = Home \o p.names
    BY <1>2, Kinds DEF expand
  <2>2. absolute(expand(p), Abs(cd)) = Abs(Home \o p.names)
    BY <2>1, Kinds DEF absolute
  <2>3. normalize(p, local_chdir) = Abs(Home \o p.names)
    BY <1>1, <2>2 DEF normalize
  <2> QED  BY <1>2, <2>3
<1>3. CASE p.kind # "home"
  <2>1. expand(p) = p /\ p.kind \in {"abs", "rel", "empty"}
    BY <1>3, PathKind DEF expand
  <2>2. normalize(p, local_chdir) =
            Abs(IF p.kind = "abs" THEN p.names ELSE cd \o p.names)
    BY <1>1, <2>1, AbsoluteIs DEF normalize
  <2> QED  BY <2>1, <2>2
<1> QED  BY <1>2, <1>3

-----------------------------------------------------------------------------
(* The steps.                                                              *)

\* A step after which no command is remembered need not care for commands.
LEMMA NothingStays ==
    ASSUME last' = Nothing
    PROVE  OrdinaryCommandsStay'
BY DEF OrdinaryCommandsStay, Nothing

LEMMA LocalWithinKeepsInv ==
    ASSUME IInv, NEW p \in Paths, LocalWithin(p)
    PROVE  IInv'
<1> DEFINE target == CASE p.kind = "abs"              -> p.names
                       [] p.kind \in {"rel", "empty"} -> cd \o p.names
                       [] p.kind = "home"             -> Home \o p.names
<1>1. normalize(p, local_chdir) = Abs(target)
  BY NormalizeIsCd
<1>2. cd' = IF target \in local THEN target ELSE cd
  BY DEF LocalWithin, Cd
<1> HIDE DEF target
<1>3. normalize(Abs(target), Abs(Cwd)) = Abs(target)
  BY Kinds, AbsoluteIs DEF normalize, expand
<1>4. OrdinaryCommandsStay'
  BY NothingStays DEF LocalWithin
<1>5. CASE target \in local
  <2>1. local_chdir' = Abs(target) /\ set_by' = task /\ cd' = target
    BY <1>1, <1>2, <1>3, <1>5, Kinds DEF LocalWithin
  <2> QED  BY <1>4, <2>1 DEF IInv, LocalWithin, LocalWithinIsCd
<1>6. CASE target \notin local
  <2>1. UNCHANGED <<local_chdir, set_by>> /\ cd' = cd
    BY <1>1, <1>2, <1>6, Kinds DEF LocalWithin
  <2> QED  BY <1>4, <2>1 DEF IInv, LocalWithin, LocalWithinIsCd
<1> QED  BY <1>5, <1>6

\* A single command, or one joined by &&, runs in its directory or not at all.
LEMMA RanThere ==
    ASSUME NEW dir, NEW exists, NEW start, NEW join,
           join \in {"single", "and"}
    PROVE  Ran(dir, exists, start, join) \subseteq {dir}
BY DEF Ran

LEMMA LocalExecKeepsInv ==
    ASSUME IInv, NEW join \in Joins, LocalExec(join)
    PROVE  IInv'
<1>1. /\ UNCHANGED <<local_chdir, remote_chdir, host, cd, told, task, set_by>>
      /\ last'.op = "local_exec" /\ last'.join = join
      /\ last'.at = IF local_chdir = NoPath THEN {Cwd}
                    ELSE Ran(local_chdir.names, local_chdir.names \in local, Cwd, join)
  BY DEF LocalExec
<1>2. CASE local_chdir = NoPath
  <2>1. cd = Cwd
    BY <1>2, Kinds DEF IInv, LocalWithinIsCd
  <2>2. OrdinaryCommandsStay'
    BY <1>1, <1>2, <2>1 DEF OrdinaryCommandsStay, Told
  <2> QED  BY <1>1, <2>2 DEF IInv, LocalWithinIsCd
<1>3. CASE local_chdir # NoPath
  <2>1. local_chdir.names = cd
    BY <1>3, Kinds DEF IInv, LocalWithinIsCd
  <2>2. Told' = cd /\ last'.at = Ran(cd, cd \in local, Cwd, join)
    BY <1>1, <1>3, <2>1 DEF Told
  <2>3. join \in {"single", "and"} => last'.at \subseteq {cd}
    BY <2>2, RanThere
  <2>4. OrdinaryCommandsStay'
    BY <1>1, <2>2, <2>3 DEF OrdinaryCommandsStay
  <2> QED  BY <1>1, <2>4 DEF IInv, LocalWithinIsCd
<1> QED  BY <1>2, <1>3

LEMMA RemoteExecKeepsInv ==
    ASSUME IInv, NEW join \in Joins, RemoteExec(join)
    PROVE  IInv'
<1>1. CASE is_local_context
  BY <1>1, LocalExecKeepsInv DEF RemoteExec
<1>2. CASE ~is_local_context
  <2>1. /\ UNCHANGED <<local_chdir, remote_chdir, host, cd, told, task, set_by>>
        /\ last'.op = "exec" /\ last'.join = join
        /\ last'.at = IF told = NoPath THEN {RemoteHome}
                      ELSE Ran(AtRemote(told), AtRemote(told) \in remote,
                               RemoteHome, join)
    BY <1>2 DEF RemoteExec, IInv
  <2>2. Told' = IF told = NoPath THEN RemoteHome ELSE AtRemote(told)
    BY <2>1 DEF Told, AtRemote
  <2>3. join \in {"single", "and"} => last'.at \subseteq {Told'}
    BY <2>1, <2>2, RanThere
  <2>4. OrdinaryCommandsStay'
    BY <2>1, <2>3 DEF OrdinaryCommandsStay
  <2> QED  BY <2>1, <2>4 DEF IInv, LocalWithinIsCd
<1> QED  BY <1>1, <1>2

\* What happens to the bodies, tasks and directories moves nothing.
LEMMA OtherKeepsInv ==
    ASSUME IInv,
           (\E h \in Hosts : BeginHost(h)) \/ EndHost \/ NextTask \/ Change
    PROVE  IInv'
<1>1. OrdinaryCommandsStay'
  BY NothingStays DEF BeginHost, EndHost, NextTask, Change
<1>2. UNCHANGED <<local_chdir, cd, set_by>> /\ task' \in {1, 2}
  BY DEF IInv, BeginHost, EndHost, NextTask, Change
<1>3. told' \in Paths /\ (host' # NoHost => remote_chdir' = told')
  BY DEF IInv, Paths, BeginHost, EndHost, NextTask, Change
<1> QED  BY <1>1, <1>2, <1>3 DEF IInv, LocalWithinIsCd

LEMMA NextKeepsInv == IInv /\ [Next]_vars => IInv'
<1> SUFFICES ASSUME IInv, [Next]_vars PROVE IInv'
  OBVIOUS
<1>1. ASSUME NEW p \in Paths, LocalWithin(p) PROVE IInv'
  BY <1>1, LocalWithinKeepsInv
<1>2. ASSUME NEW p \in Paths, RemoteWithin(p) PROVE IInv'
  <2>1. CASE is_local_context
    BY <1>2, <2>1, LocalWithinKeepsInv DEF RemoteWithin
  <2>2. CASE ~is_local_context
    <3>1. OrdinaryCommandsStay'
      BY <1>2, <2>2, NothingStays DEF RemoteWithin
    <3> QED  BY <1>2, <2>2, <3>1 DEF RemoteWithin, IInv, LocalWithinIsCd
  <2> QED  BY <2>1, <2>2
<1>3. ASSUME NEW join \in Joins, LocalExec(join) \/ RemoteExec(join) PROVE IInv'
  BY <1>3, LocalExecKeepsInv, RemoteExecKeepsInv
<1>4. CASE UNCHANGED <<local_chdir, remote_chdir, host, cd, told, task, set_by, last>>
  BY <1>4 DEF IInv, LocalWithinIsCd, OrdinaryCommandsStay, Told, AtRemote
<1>5. ASSUME NEW p \in Paths, LocalWithinThrows(p) PROVE IInv'
  BY <1>4, <1>5 DEF LocalWithinThrows
<1>6. CASE UNCHANGED vars
  BY <1>4, <1>6 DEF vars
<1> QED
  BY <1>1, <1>2, <1>3, <1>5, <1>6, OtherKeepsInv DEF Next, Step, Ended

-----------------------------------------------------------------------------
(* The theorems.                                                           *)

LEMMA Invariance == Spec => []IInv
<1>1. Init => IInv
  BY Kinds DEF Init, IInv, LocalWithinIsCd, OrdinaryCommandsStay, Nothing, Paths
<1> QED  BY <1>1, NextKeepsInv, PTL DEF Spec

\* k.local_within moves as cd does, from where the last one led (LocalApi's
\* chdir, which lua_api_local_within calls with a path normalized already).
THEOREM LocalWithinMoves == Spec => []LocalWithinIsCd
BY Invariance, PTL DEF IInv

\* No single command, and no part joined by && alone, runs outside its
\* directory (local_popen and SshApi::execute put "cd <dir> && " before it).
THEOREM CommandsStay == Spec => []OrdinaryCommandsStay
BY Invariance, PTL DEF IInv

LEMMA InvMeets == IInv => UploadMeetsCommand
<1> SUFFICES ASSUME IInv, host # NoHost, told.kind \in {"abs", "empty"},
                    NEW p \in {q \in Paths : q.kind \in {"abs", "rel"}}
             PROVE  UploadTarget(p) =
                        IF p.kind = "abs" THEN p.names
                        ELSE (IF told = NoPath THEN RemoteHome ELSE told.names)
                                 \o p.names
  BY DEF UploadMeetsCommand
<1>1. remote_chdir = told /\ told \in Paths
  BY DEF IInv
<1>2. CASE told = NoPath
  BY <1>1, <1>2 DEF UploadTarget, AtRemote
<1>3. CASE told # NoPath
  <2>1. told = Abs(told.names)
    BY <1>1, <1>3, PathKind DEF Paths, Abs, Path
  <2> QED
    BY <1>1, <1>3, <2>1, Kinds, AbsoluteIs DEF UploadTarget
<1> QED  BY <1>2, <1>3

\* An upload (scp_upload_file) writes where a command of the same body finds the
\* file, when k.within was given an absolute path or nothing.
THEOREM UploadsMeetCommands == Spec => []UploadMeetsCommand
BY Invariance, InvMeets, PTL
=============================================================================
