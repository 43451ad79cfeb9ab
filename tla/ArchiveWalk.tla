----------------------------- MODULE ArchiveWalk -----------------------------
(***************************************************************************)
(* Archive::archive_from_directory: what k.archive_dir and                 *)
(* k.archive_dir_tmp put into an archive, with .kafeignore, while other    *)
(* processes may change the directory.                                     *)
(*                                                                         *)
(* A path is the sequence of its names below the directory.  A pattern has *)
(* one part for each name it looks at: a name, "*", or all names but one.  *)
(* Sizes and contents are left out.                                        *)
(***************************************************************************)
EXTENDS Naturals, Sequences

CONSTANTS Trees,        \* what the directory may hold: [path -> kind]
          IgnoreFiles   \* what .kafeignore may hold: sets of lines

\* dirlink: a symbolic link to a directory; special: a socket, pipe or device.
Kinds == {"none", "file", "dir", "link", "dirlink", "dangling", "special"}

ASSUME IgnoreFilesAssumption ==
    \A lines \in IgnoreFiles : \A line \in lines :
        line.comment \in BOOLEAN /\ line.pattern \in Seq([not : BOOLEAN, name : STRING])

\* What is below something that is no directory is not there.
ASSUME TreesAssumption ==
    \A t \in Trees :
        /\ t \in [DOMAIN t -> Kinds]
        /\ \A path \in DOMAIN t :
              /\ path \in Seq(STRING) /\ path # <<>>
              /\ \A n \in 1..Len(path) - 1 :
                    /\ SubSeq(path, 1, n) \in DOMAIN t
                    /\ t[path] # "none" => t[SubSeq(path, 1, n)] = "dir"

VARIABLES tree,         \* [path -> kind], for all paths there can be
          lines,        \* of .kafeignore
          is_dir,       \* what is to be archived is a directory
          out, parent,  \* what is at the archive's path, and at its directory
          writable,     \* the archive file can be made
          found,        \* what was at the archive's path before the call
          todo,         \* paths the iterator has listed and not left yet
          archived,     \* paths with an entry in the archive
          changed,      \* the directory was changed meanwhile
          step          \* "called", "walking", "done", "refused", "aborted"

vars == <<tree, lines, is_dir, out, parent, writable, found, todo, archived, changed, step>>
call == <<lines, is_dir, writable, found>>

Paths == DOMAIN tree
Children(p) == {q \in Paths : Len(q) = Len(p) + 1 /\ SubSeq(q, 1, Len(p)) = p
                              /\ tree[q] # "none"}

Init ==
    /\ tree \in Trees /\ lines \in IgnoreFiles /\ is_dir \in BOOLEAN
    /\ out \in {"none", "file", "dir", "dangling"}
    /\ parent \in {"dir", "file", "none"} /\ (out # "none" => parent = "dir")
    /\ writable \in BOOLEAN /\ (out = "dir" => ~writable)
    /\ found = out
    /\ todo = {} /\ archived = {} /\ changed = FALSE /\ step = "called"

-----------------------------------------------------------------------------
\* is_regular_file and is_directory follow a link, is_symlink does not.
is_file_or_symlink(kind) == kind \in {"file", "link", "dirlink", "dangling"}
is_directory(kind)       == kind \in {"dir", "dirlink"}

readLines(all) == {line.pattern : line \in {l \in all : l.pattern # <<>>}}

\* The patterns: the lines that are neither empty nor comments.
read_ignore_file(all) ==
    {line.pattern : line \in {l \in all : l.pattern # <<>> /\ ~l.comment}}

PartMatches(part, name) ==
    IF part.not THEN part.name # name ELSE part.name \in {"*", name}

fnmatchWhole(pattern, path) ==          \* without FNM_LEADING_DIR
    /\ Len(pattern) = Len(path)
    /\ \A i \in 1..Len(pattern) : PartMatches(pattern[i], path[i])

\* FNM_PATHNAME: part for part.  FNM_LEADING_DIR: a pattern that matches the
\* first names of a path matches the path.
fnmatch(pattern, path) ==
    /\ Len(pattern) <= Len(path)
    /\ \A i \in 1..Len(pattern) : PartMatches(pattern[i], path[i])

is_ignored(path) == \E pattern \in read_ignore_file(lines) : fnmatch(pattern, path)

\* A RuntimeException.
Refuse ==
    /\ step = "called"
    /\ ~is_dir \/ is_file_or_symlink(out) \/ parent = "file"
    /\ step' = "refused"
    /\ UNCHANGED <<call, tree, out, parent, todo, archived, changed>>

OpenFirst ==                            \* the file is made before it is asked for
    /\ step = "called"
    /\ out' = IF writable THEN "file" ELSE out
    /\ IF ~is_dir \/ is_file_or_symlink(out) \/ parent = "file" THEN
          step' = "refused" /\ UNCHANGED <<todo, parent>>
       ELSE step' = "walking" /\ todo' = Children(<<>>) /\ parent' = "dir"
    /\ UNCHANGED <<call, tree, archived, changed>>

\* A directory missing for the archive is made.  What opening it returns is not
\* looked at, nor what a directory at its path makes of it.
Open ==
    /\ step = "called"
    /\ is_dir /\ ~is_file_or_symlink(out) /\ parent # "file"
    /\ parent' = "dir"
    /\ out' = IF writable THEN "file" ELSE out
    /\ todo' = Children(<<>>)
    /\ step' = "walking"
    /\ UNCHANGED <<call, tree, archived, changed>>

\* What a path adds to the archive: only what is a file, a directory or a link
\* gets an entry.
EntryOf(path) ==
    IF (is_file_or_symlink(tree[path]) \/ is_directory(tree[path])) /\ ~is_ignored(path)
    THEN {path} ELSE {}

\* The iterator comes to a path it has listed: the contents of a directory are
\* listed when it is left, those of a linked one are not.
Visit ==
    /\ step = "walking"
    /\ \E path \in todo :
         /\ tree[path] # "dangling"
         /\ todo' = (todo \ {path}) \cup IF tree[path] = "dir" THEN Children(path) ELSE {}
         /\ archived' = archived \cup EntryOf(path)
    /\ UNCHANGED <<call, tree, out, parent, changed, step>>

\* A std::filesystem_error, which nobody catches.  Before the walk: the directory
\* for the archive cannot be made, or the one to archive not be listed.
AbortBefore ==
    /\ step = "called"
    /\ is_dir /\ ~is_file_or_symlink(out) /\ parent # "file"
    /\ parent' \in {parent, "dir"}
    /\ step' = "aborted"
    /\ UNCHANGED <<call, tree, out, todo, archived, changed>>

\* In the walk: the size of a dangling link, ignored or not, or of what went away
\* since it was listed; or the iterator, leaving a directory, cannot list it.
Abort ==
    /\ step = "walking" /\ step' = "aborted"
    /\ \E path \in todo :
         \/ tree[path] \in {"dangling", "none"} /\ UNCHANGED archived
         \/ tree[path] = "dir" /\ archived' = archived \cup EntryOf(path)
    /\ UNCHANGED <<call, tree, out, parent, todo, changed>>

Finish ==
    /\ step = "walking" /\ todo = {} /\ step' = "done"
    /\ UNCHANGED <<call, tree, out, parent, todo, archived, changed>>

\* Another process removes a path and what is below it, or makes a file.
Change ==
    /\ step = "walking" /\ ~changed /\ changed' = TRUE
    /\ \E path \in Paths :
         \/ tree' = [q \in Paths |->
                IF Len(q) >= Len(path) /\ SubSeq(q, 1, Len(path)) = path
                THEN "none" ELSE tree[q]]
         \/ /\ tree[path] = "none"
            /\ Len(path) > 1 => tree[SubSeq(path, 1, Len(path) - 1)] = "dir"
            /\ tree' = [tree EXCEPT ![path] = "file"]
    /\ UNCHANGED <<call, out, parent, todo, archived, step>>

Next == Refuse \/ AbortBefore \/ Open \/ Visit \/ Abort \/ Finish \/ Change

Spec == Init /\ [][Next]_vars

-----------------------------------------------------------------------------
(* What should hold.                                                       *)

\* A line that is no comment names, part for part, the path or a directory it
\* is in.
Excluded(path) ==
    \E line \in lines : \E n \in 1..Len(path) :
        /\ ~line.comment /\ line.pattern # <<>> /\ Len(line.pattern) = n
        /\ \A i \in 1..n : PartMatches(line.pattern[i], path[i])

\* In a directory nobody changes, the archive has exactly the files, links and
\* directories that .kafeignore does not exclude.
ExactlyTheUnignored ==
    step = "done" /\ ~changed =>
        archived = {path \in Paths : /\ tree[path] \notin {"none", "special"}
                                    /\ ~Excluded(path)}

\* Every entry has its directory in the archive, before it, even if the
\* directory is ignored, or changed, during the walk.
NoOrphans ==
    \A path \in archived : Len(path) > 1 => SubSeq(path, 1, Len(path) - 1) \in archived

\* A call that is refused has written nothing.
RefusedChangesNothing == step \in {"called", "refused"} => out = found
=============================================================================
