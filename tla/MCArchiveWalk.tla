---------------------------- MODULE MCArchiveWalk ----------------------------
\* Trees three levels deep, with every kind of file at the top, and patterns
\* that name a directory, what is in it, and all of it but one name.
EXTENDS ArchiveWalk

MCTrees ==
    {t \in [{<<"x">>, <<"d">>, <<"d", "x">>, <<"d", "d">>, <<"d", "d", "x">>} -> Kinds] :
        /\ t[<<"d">>] \in {"none", "dir", "dirlink"}
        /\ t[<<"d", "x">>] \in {"none", "file", "dangling"}
        /\ t[<<"d", "d">>] \in {"none", "dir"}
        /\ t[<<"d", "d", "x">>] \in {"none", "file"}
        /\ t[<<"d">>] # "dir" => t[<<"d", "x">>] = "none" /\ t[<<"d", "d">>] = "none"
        /\ t[<<"d", "d">>] # "dir" => t[<<"d", "d", "x">>] = "none"}

Name(n) == [not |-> FALSE, name |-> n]
Line(pattern) == [comment |-> FALSE, pattern |-> pattern]

MCLines == {Line(<<>>), Line(<<Name("d")>>), Line(<<Name("d"), Name("*")>>),
            Line(<<Name("d"), [not |-> TRUE, name |-> "x"]>>),
            Line(<<Name("d"), Name("*"), Name("*")>>),
            Line(<<Name("x")>>), [comment |-> TRUE, pattern |-> <<Name("x")>>]}
MCIgnoreFiles == {{k, l} : k, l \in MCLines}
=============================================================================
