---------------------------- MODULE ConditionalNest ----------------------------
(***************************************************************************)
(* What a reader of a well-formed source may rely on, whichever branches   *)
(* the heuristics of get.c choose: conditionals nest; a branch may be      *)
(* shown only if the text around its conditional is; #endif brings back    *)
(* what held before the matching #if; and text is delivered to the parser  *)
(* exactly when the innermost branch is shown.                             *)
(***************************************************************************)
EXTENDS Integers, Sequences

VARIABLES
  shown,       \* per open conditional, whether its current branch is shown
  delivered    \* whether text is handed to the parser

\* Whether the text around the conditional at depth d is shown.
Around(d) == d <= 1 \/ shown[d - 1]

Init == shown = << >> /\ delivered = TRUE

Open(v) ==
  /\ v => Around(Len(shown) + 1)
  /\ shown' = Append(shown, v)
  /\ delivered' = v

Switch(v) ==
  /\ shown # << >>
  /\ v => Around(Len(shown))
  /\ shown' = [shown EXCEPT ![Len(shown)] = v]
  /\ delivered' = v

Close ==
  /\ shown # << >>
  /\ shown' = SubSeq(shown, 1, Len(shown) - 1)
  /\ delivered' = Around(Len(shown))

Next == Close \/ \E v \in BOOLEAN : Open(v) \/ Switch(v)

Spec == Init /\ [][Next]_<< shown, delivered >>
===============================================================================
