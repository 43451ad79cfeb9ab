------------------------------- MODULE MCTexts -------------------------------
\* Texts of up to five pieces, so that braces stand single, double, tripled,
\* nested and unmatched, and two placeholders follow each other; task lists with
\* commas at both ends, in the middle and next to each other.
EXTENDS Texts

Pieces == {<<"{", "{">>, <<"}", "}">>, <<"{">>, <<"}">>, <<"k">>}

RECURSIVE UpTo(_)
UpTo(n) == IF n = 0 THEN {<<>>}
           ELSE UpTo(n - 1) \cup {t \o p : t \in UpTo(n - 1), p \in Pieces}

Placeholder == <<"{", "{", "k", "}", "}">>
Twice       == {Placeholder \o t \o Placeholder : t \in UpTo(1)}

MCKeys        == {<<>>, <<"k">>}
MCTexts       == UpTo(4) \cup Twice
MCTaskLists   == UNION {[1..n -> {"k", ","}] : n \in 0..5}
MCDefinitions == {<<"k">>, <<"{", "{">>, <<"}", "}">>, Placeholder}
=============================================================================
