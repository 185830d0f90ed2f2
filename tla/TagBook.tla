------------------------------- MODULE TagBook -------------------------------
(***************************************************************************)
(* What a tag file promises: a run takes over the tags of an existing file *)
(* when it appends and none otherwise, adds the tags of one source file    *)
(* after the other, each file's all at once, and at the end only arranges  *)
(* what is there.                                                          *)
(***************************************************************************)
CONSTANT Tags

VARIABLES book,     \* the tags in the file
          sources,  \* the tags of the source files done
          stage     \* "before", "open" or "done"

vars == <<book, sources, stage>>

Init == book \in SUBSET Tags /\ sources = {} /\ stage = "before"

Open(append) ==
    /\ stage = "before"
    /\ stage' = "open"
    /\ book' = IF append THEN book ELSE {}
    /\ UNCHANGED sources

Refuse ==
    /\ stage = "before"
    /\ stage' = "done"
    /\ UNCHANGED <<book, sources>>

AddFile ==
    /\ stage = "open"
    /\ sources' \in SUBSET Tags
    /\ sources \subseteq sources'
    /\ book' = book \cup sources'
    /\ UNCHANGED stage

Close ==
    /\ stage = "open"
    /\ stage' = "done"
    /\ UNCHANGED <<book, sources>>

Next ==
    \/ \E append \in BOOLEAN : Open(append)
    \/ Refuse
    \/ AddFile
    \/ Close

Spec == Init /\ [][Next]_vars
=============================================================================
