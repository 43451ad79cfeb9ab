----------------------------- MODULE Directories -----------------------------
(***************************************************************************)
(* The two working directories of a script: the local one (LocalApi,       *)
(* k.local_within), one for the whole run, and the remote one (SshApi,     *)
(* k.within), one for each host of a role; what commands and uploads make  *)
(* of them; FileSystem's path arithmetic.                                  *)
(*                                                                         *)
(* A path is a kind and the names after it.  Directories come and go       *)
(* between two calls of the script, as commands make and remove them.      *)
(* Symbolic links and ".." are left out: canonical, which resolves them,   *)
(* returns a path of this model as it is.                                  *)
(***************************************************************************)
EXTENDS Naturals, Sequences

CONSTANTS Hosts, NoHost,
          Names,            \* names a directory can have
          Cwd, Home,        \* kafe's working and home directory, from the root
          RemoteHome,       \* where a remote command starts
          LocalDirs,        \* directories there can be locally, from the root
          RemoteDirs        \* and on a host

ASSUME DirsAssumption ==
    /\ NoHost \notin Hosts
    /\ Cwd \in LocalDirs /\ Home \in LocalDirs /\ RemoteHome \in RemoteDirs
    /\ LocalDirs \cup RemoteDirs \subseteq Seq(Names)

VARIABLES is_local_context,     \* kafe local
          local_chdir,          \* LocalApi::current_chdir
          remote_chdir,         \* SshApi::current_chdir of the host at hand
          host,                 \* whose body runs, or NoHost
          local, remote,        \* the directories that exist now
          cd,                   \* where a shell would be that was told to cd
                                \* to all the script gave to k.local_within
          told,                 \* what k.within was given last in this body
          task,                 \* the task that runs
          set_by,               \* the task that set local_chdir, or 0
          home_set,             \* HOME is in kafe's environment
          ended,                \* a RuntimeException has ended the run
          last                  \* the last command: its kind, how it is joined
                                \* and the directories its parts ran in

vars == <<is_local_context, local_chdir, remote_chdir, host, local, remote, cd,
          told, task, set_by, home_set, ended, last>>
directories == <<is_local_context, home_set, local, remote>>

Path(kind, names) == [kind |-> kind, names |-> names]
Abs(names) == Path("abs", names)
NoPath == Path("empty", <<>>)
Paths  == {NoPath} \cup [kind : {"abs", "rel", "home"},
                         names : {<<>>} \cup {<<n>> : n \in Names}]

\* A command is a single one, or two joined by &&, ; or ||.
Joins   == {"single", "and", "semicolon", "or"}
Nothing == [op |-> "none", join |-> "single", at |-> {}]

Init ==
    /\ is_local_context \in BOOLEAN
    /\ local_chdir = NoPath /\ remote_chdir = NoPath /\ host = NoHost
    /\ local = LocalDirs /\ remote = RemoteDirs
    /\ cd = Cwd /\ told = NoPath /\ task = 1 /\ set_by = 0 /\ last = Nothing
    /\ home_set \in BOOLEAN /\ ended = FALSE

-----------------------------------------------------------------------------
(* FileSystem.                                                             *)

\* expand asks for HOME whatever the path begins with.
expandThrows(p) == ~home_set /\ p # NoPath
expand(p) == IF p.kind = "home" THEN Abs(Home \o p.names) ELSE p

\* A base that is relative itself is relative to kafe's working directory.
\* What begins with ~ is a relative path here.
absolute(p, base) ==
    LET From(names, q) ==
            CASE q.kind = "abs"             -> q.names
              [] q.kind \in {"rel", "empty"} -> names \o q.names
              [] q.kind = "home"            -> names \o <<"~">> \o q.names
    IN  Abs(From(From(Cwd, base), p))

normalizeFromCwd(p, base) == absolute(expand(p), Abs(Cwd))  \* the base is lost

normalize(p, base) ==
    absolute(expand(p), IF base = NoPath THEN Abs(Cwd) ELSE base)

-----------------------------------------------------------------------------
(* The working directories.                                                *)

\* What cd does in a shell that is in directory dir.
Cd(dir, p) ==
    LET target == CASE p.kind = "abs"              -> p.names
                    [] p.kind \in {"rel", "empty"} -> dir \o p.names
                    [] p.kind = "home"             -> Home \o p.names
    IN  IF target \in local THEN target ELSE dir

\* k.local_within: an error if there is no such directory, which changes
\* nothing.  LocalApi::chdir normalizes again, against kafe's own directory.
LocalWithin(p) ==
    /\ ~expandThrows(p)
    /\ LET directory_norm == normalize(p, local_chdir) IN
       IF directory_norm.names \in local
       THEN /\ ~expandThrows(directory_norm)
            /\ local_chdir' = normalize(directory_norm, Abs(Cwd)) /\ set_by' = task
       ELSE UNCHANGED <<local_chdir, set_by>>
    /\ cd' = Cd(cd, p) /\ last' = Nothing
    /\ UNCHANGED <<directories, remote_chdir, host, told, task>>

\* Without HOME one of the two throws, and nobody in the script can catch it.
LocalWithinThrows(p) ==
    /\ ~ended /\ ended' = TRUE
    /\ LET directory_norm == normalize(p, local_chdir) IN
       \/ expandThrows(p)
       \/ directory_norm.names \in local /\ expandThrows(directory_norm)
    /\ UNCHANGED <<directories, local_chdir, remote_chdir, host, cd, told, task,
                   set_by, last>>

\* k.within: the same call in local mode.  Otherwise it takes what it is given.
RemoteWithin(p) ==
    IF is_local_context THEN LocalWithin(p)
    ELSE /\ host # NoHost
         /\ remote_chdir' = p /\ told' = p /\ last' = Nothing
         /\ UNCHANGED <<directories, local_chdir, host, cd, task, set_by>>

BeginHostAgain(h) ==                    \* with the SshApi of the host before
    /\ host = NoHost
    /\ host' = h /\ told' = NoPath /\ last' = Nothing
    /\ UNCHANGED <<directories, local_chdir, remote_chdir, cd, task, set_by>>

\* kafe.on enters a host, with an SshApi of its own, and leaves it.
BeginHost(h) ==
    /\ host = NoHost
    /\ host' = h /\ remote_chdir' = NoPath /\ told' = NoPath /\ last' = Nothing
    /\ UNCHANGED <<directories, local_chdir, cd, task, set_by>>

EndHost ==
    /\ host # NoHost /\ host' = NoHost /\ last' = Nothing
    /\ UNCHANGED <<directories, local_chdir, remote_chdir, cd, told, task, set_by>>

\* The second task begins.  The LocalApi is the run's.
NextTask ==
    /\ host = NoHost /\ task = 1 /\ task' = 2 /\ last' = Nothing
    /\ UNCHANGED <<directories, local_chdir, remote_chdir, host, cd, told, set_by>>

-----------------------------------------------------------------------------
(* Commands and transfers.                                                 *)

RanRegardless(dir, exists, start, join) ==      \* cd <dir> ; <command>
    {IF exists THEN dir ELSE start}

\* Where parts of `cd <dir> && <command>` run: && binds the cd to the first of
\* them only, and after ; or || the second runs wherever the shell is.
Ran(dir, exists, start, join) ==
    IF exists THEN {dir}
    ELSE IF join \in {"semicolon", "or"} THEN {start} ELSE {}

LocalExec(join) ==
    /\ last' = [op |-> "local_exec", join |-> join,
                at |-> IF local_chdir = NoPath THEN {Cwd}
                       ELSE Ran(local_chdir.names, local_chdir.names \in local,
                                Cwd, join)]
    /\ UNCHANGED <<directories, local_chdir, remote_chdir, host, cd, told, task, set_by>>

\* Where a path leads in a shell of the host.
AtRemote(p) == IF p.kind = "abs" THEN p.names ELSE RemoteHome \o p.names

\* In local mode a remote command is a local one.
RemoteExec(join) ==
    IF is_local_context THEN LocalExec(join)
    ELSE /\ host # NoHost
         /\ last' = [op |-> "exec", join |-> join,
                     at |-> IF remote_chdir = NoPath THEN {RemoteHome}
                            ELSE Ran(AtRemote(remote_chdir),
                                     AtRemote(remote_chdir) \in remote, RemoteHome, join)]
         /\ UNCHANGED <<directories, local_chdir, remote_chdir, host, cd, told,
                        task, set_by>>

UploadTargetAsGiven(p) == AtRemote(p)   \* the remote directory is not used

\* The remote file an upload writes.  (A download takes the path as given.)
UploadTarget(p) ==
    IF remote_chdir = NoPath THEN AtRemote(p) ELSE absolute(p, remote_chdir).names

-----------------------------------------------------------------------------
(* The directories, which commands make and remove (external).             *)

Trees(dirs, kept) ==
    {tree \in SUBSET dirs :
        kept \subseteq tree /\ \A d \in tree : SubSeq(d, 1, Len(d) - 1) \in tree}
LocalTrees  == Trees(LocalDirs, {Cwd, Home, <<>>})
RemoteTrees == Trees(RemoteDirs, {RemoteHome, <<>>})

Change ==
    /\ \/ local' \in LocalTrees /\ UNCHANGED remote
       \/ remote' \in RemoteTrees /\ UNCHANGED local
    /\ last' = Nothing
    /\ UNCHANGED <<is_local_context, home_set, local_chdir, remote_chdir, host, cd,
                   told, task, set_by>>

Step ==
    \/ \E p \in Paths : LocalWithin(p) \/ RemoteWithin(p)
    \/ (\E h \in Hosts : BeginHost(h)) \/ EndHost \/ NextTask
    \/ \E join \in Joins : LocalExec(join) \/ RemoteExec(join)
    \/ Change

Ended == ended /\ UNCHANGED vars

Next ==
    \/ ~ended /\ Step /\ UNCHANGED ended
    \/ \E p \in Paths : LocalWithinThrows(p)
    \/ Ended

Spec == Init /\ [][Next]_vars

-----------------------------------------------------------------------------
(* What should hold.                                                       *)

\* k.local_within moves as cd does, from where the last one led, whatever was
\* removed in between; one that fails moves nowhere.
LocalWithinIsCd ==
    local_chdir = IF set_by = 0 THEN NoPath ELSE Abs(cd)

\* Where commands should run: where k.local_within has led, or what k.within
\* was told last in the body of this host.
Told == IF last.op = "local_exec" THEN cd
        ELSE IF told = NoPath THEN RemoteHome ELSE AtRemote(told)

\* A single command, and one joined by &&, has no part that runs anywhere but
\* in its directory, whether or not that exists (any more).
OrdinaryCommandsStay ==
    last.join \in {"single", "and"} => last.at \subseteq {Told}

\* An upload writes where a command of the same body finds the file, if k.within
\* was given an absolute path, or nothing.
UploadMeetsCommand ==
    host # NoHost /\ told.kind \in {"abs", "empty"} =>
        \A p \in {q \in Paths : q.kind \in {"abs", "rel"}} :
            UploadTarget(p) =
                IF p.kind = "abs" THEN p.names
                ELSE (IF told = NoPath THEN RemoteHome ELSE told.names) \o p.names
=============================================================================
