--------------------------- MODULE MCCppConditionals ---------------------------
(***************************************************************************)
(* The conditionals on a shortened array: what an earlier file may have    *)
(* left in it.                                                              *)
(***************************************************************************)
EXTENDS CppConditionals

StaleLevels ==
  { Clear, [ignoreAllBranches |-> TRUE, singleBranch |-> TRUE,
            branchChosen |-> TRUE, ignoring |-> TRUE] }
===============================================================================
