------------------------------ MODULE MCTagFiles ------------------------------
(***************************************************************************)
(* Small tag files for TLC: three tags, two of which differ in case only,   *)
(* a longer name, and two tags of one name.                                 *)
(***************************************************************************)
EXTENDS ReadTags

Tag(name, rest) == name \o <<TAB, rest, NL>>

a == Tag(<<"a">>, "0")
A == Tag(<<"A">>, "0")
b == Tag(<<"b", "b">>, "0")
b1 == Tag(<<"b", "b">>, "1")

MCTagLines == {a, A, b}

\* What ctags leaves: no tags, a few in any order, two in an order that has a flag.
MCOldFiles ==
    {<<>>, <<"#", NL>>}
    \cup {PseudoTag(flag) : flag \in SortMethods}
    \cup {PseudoTag(Unsorted) \o b1 \o A, PseudoTag(Sorted) \o A \o a \o b1,
          PseudoTag(FoldSorted) \o a \o b1}

MCLookupNames == {<<"a">>, <<"b">>, <<"b", "b">>}

AllSorts == SortMethods \X BOOLEAN
\* "sort -u -f" keeps one of the lines that differ in case only: a run of its own.
KeepingSorts == AllSorts \ {<<FoldSorted, TRUE>>}

\* What the theorems about the tag file presuppose of the files there are.
ASSUME OldFilesAssumption == OldFilesAreTagFiles
=============================================================================
