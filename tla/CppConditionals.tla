---------------------------- MODULE CppConditionals ----------------------------
(***************************************************************************)
(* The conditional directives of get.c as the C parser drives them.  The   *)
(* source is read line by line; get.c decides for every line whether its   *)
(* text reaches the parser, from a stack of conditionals of fixed size and *)
(* from resolveRequired, by which the parser tells whether a statement is  *)
(* incomplete.                                                             *)
(*                                                                         *)
(* The source is the environment: any sequence of text and directives,     *)
(* balanced or not.  "depth" is how many conditionals are open in it, if   *)
(* "balanced" says that every #endif so far had its #if.  As long as it is *)
(* "plain", so that moreover the array suffices, "open" is its true nest.  *)
(* The program has no such variables, they are kept to compare its         *)
(* decisions with them.                                                    *)
(***************************************************************************)
EXTENDS Integers, Sequences

CONSTANTS
  MaxCppNestingLevel,   \* size of the ifdef array
  BraceFormat,          \* second pass, by brace formatting
  if0,                  \* Option.if0
  Stale,                \* what ifdef may hold above level 0 at the start
  MaxDepth              \* bound on the true nest of the source

Conditional == [ignoreAllBranches : BOOLEAN, singleBranch : BOOLEAN,
                branchChosen : BOOLEAN, ignoring : BOOLEAN]
Levels == 0 .. MaxCppNestingLevel - 1

ASSUME CppAssumption ==
  /\ MaxCppNestingLevel \in Nat \ {0}
  /\ BraceFormat \in BOOLEAN /\ if0 \in BOOLEAN
  /\ Stale \subseteq Conditional
  /\ MaxDepth \in Nat

VARIABLES
  nestLevel,        \* Cpp.directive.nestLevel
  ifdef,            \* Cpp.directive.ifdef
  resolveRequired,  \* Cpp.resolveRequired
  skipping,         \* cppGetc goes on to the next line: directive and ignore
  hashPending,      \* Cpp.directive.state is DRCTV_HASH between two lines
  depth,            \* conditionals open in the source (history)
  balanced,         \* no #endif without #if, no null directive so far (history)
  plain,            \* nor anything after #else but #endif, no directive that ends
                    \* with its name, no conditional past the array (history)
  open              \* the nest of a plain source, no more is kept of another (history)

sourceVars == << depth, balanced, plain, open >>
vars == << nestLevel, ifdef, resolveRequired, skipping, hashPending, sourceVars >>

Clear == [ignoreAllBranches |-> FALSE, singleBranch |-> FALSE,
          branchChosen |-> FALSE, ignoring |-> FALSE]

isIgnore == ifdef[nestLevel].ignoring

-------------------------------------------------------------------------------
(* The functions of get.c on the stack of conditionals                     *)

\* Mutant: a nested conditional does not look at the branch around it.
PushedAlone(firstBranchChosen) ==
  [ ignoreAllBranches |-> FALSE,
    singleBranch      |-> resolveRequired,
    branchChosen      |-> firstBranchChosen,
    ignoring          |-> ~firstBranchChosen /\ ~BraceFormat
                            /\ (resolveRequired \/ ~if0) ]

\* The conditional pushConditional makes.
Pushed(firstBranchChosen) ==
  [ ignoreAllBranches |-> isIgnore,
    singleBranch      |-> resolveRequired,
    branchChosen      |-> firstBranchChosen,
    ignoring          |-> isIgnore \/ (~firstBranchChosen /\ ~BraceFormat
                                         /\ (resolveRequired \/ ~if0)) ]

Full == nestLevel >= MaxCppNestingLevel - 1

\* pushConditional: when the array is full nothing is pushed.
PushConditional(firstBranchChosen) ==
  IF Full THEN UNCHANGED << nestLevel, ifdef >>
  ELSE /\ nestLevel' = nestLevel + 1
       /\ ifdef' = [ifdef EXCEPT ![nestLevel + 1] = Pushed(firstBranchChosen)]

\* isIgnoreBranch, which may also set singleBranch.
SingleBranch == ifdef[nestLevel].singleBranch \/ (resolveRequired /\ ~BraceFormat)
isIgnoreBranch ==
  \/ ifdef[nestLevel].ignoreAllBranches
  \/ ifdef[nestLevel].branchChosen /\ SingleBranch

\* chooseBranch after #else, called when the branch is not ignored.
Chosen(isElse) ==
  IF isElse /\ ~isIgnoreBranch /\ ~BraceFormat
  THEN SingleBranch \/ resolveRequired
  ELSE ifdef[nestLevel].branchChosen

\* Mutant: a statement found incomplete at the branch is not looked at.
SwitchBranchAtEntry(isElse) ==
  LET cond    == ifdef[nestLevel]
      ignored == cond.ignoreAllBranches \/ (cond.branchChosen /\ cond.singleBranch)
  IN  ifdef' = [ifdef EXCEPT ![nestLevel] =
                  [cond EXCEPT !.branchChosen = Chosen(isElse), !.ignoring = ignored]]

\* #elif and #else.
SwitchBranch(isElse) ==
  ifdef' = [ifdef EXCEPT ![nestLevel] =
              [ ignoreAllBranches |-> @.ignoreAllBranches,
                singleBranch      |-> SingleBranch,
                branchChosen      |-> Chosen(isElse),
                ignoring          |-> isIgnoreBranch ]]

-------------------------------------------------------------------------------
(* The source *)

\* A true conditional, when its #if is read.
Opened(zero) ==
  [ zero       |-> zero,              \* #if 0
    incomplete |-> resolveRequired,   \* a statement is incomplete at its #if
    outer      |-> ~skipping,         \* the text around it is delivered
    branch     |-> 1,                 \* number of the current branch, 2 for "later"
    isElse     |-> FALSE,             \* the current branch is the #else
    followed   |-> 0,                 \* branches delivered so far, 2 for "several"
    enRoute    |-> FALSE ]            \* found incomplete at a later branch

Few(x) == IF x > 2 THEN 2 ELSE x
\* The innermost conditional after a directive that shows or hides a branch.
Count(cond, shows) ==
  [cond EXCEPT !.followed = IF shows THEN Few(cond.followed + 1) ELSE @]

Later(cond, isElse, shows) ==
  Count([cond EXCEPT !.branch = 2, !.isElse = isElse,
           !.enRoute = @ \/ (resolveRequired /\ ~BraceFormat /\ cond.followed > 0)], shows)

\* The source is as plain as it was only if "fits"; "nest" is then its nest.
GoesOn(fits, nest) ==
  /\ plain' = (plain /\ fits)
  /\ open' = IF plain' THEN nest ELSE << >>

\* What an #if, an #elif or #else and an #endif make of the source.
Opens(zero) ==
  /\ depth < MaxDepth
  /\ depth' = depth + 1
  /\ GoesOn(depth < MaxCppNestingLevel - 1,
            Append(open, Count(Opened(zero), ~skipping')))
  /\ UNCHANGED balanced

Switches(isElse) ==
  /\ GoesOn(depth > 0 /\ (plain => ~open[depth].isElse),
            [open EXCEPT ![depth] = Later(@, isElse, ~skipping')])
  /\ UNCHANGED << depth, balanced >>

Closes ==
  /\ depth' = IF depth > 0 THEN depth - 1 ELSE depth
  /\ balanced' = (balanced /\ depth > 0)
  /\ GoesOn(depth > 0, SubSeq(open, 1, depth - 1))

-------------------------------------------------------------------------------
(* One action per kind of line                                             *)

Init ==
  /\ nestLevel = 0
  /\ ifdef \in {f \in [Levels -> Stale \cup {Clear}] : f[0] = Clear}
  /\ resolveRequired = FALSE
  /\ skipping = FALSE
  /\ hashPending = FALSE
  /\ depth = 0
  /\ balanced = TRUE
  /\ plain = TRUE
  /\ open = << >>

\* A line of text.  Delivered, it may begin or end a statement
\* (cppBeginStatement, cppEndStatement).
DeliverText ==
  /\ ~skipping
  /\ resolveRequired' \in BOOLEAN
  /\ UNCHANGED << nestLevel, ifdef, skipping, hashPending, sourceVars >>

\* Skipped, every character goes to handleDirective, which asks isIgnore
\* again; after a null directive the first word is taken for the name of a
\* directive, and a word that is none shows the text unless the line goes on.
SkipText(word, rest) ==
  /\ skipping
  /\ word # "other" => rest
  /\ IF hashPending /\ word = "if"
     THEN PushConditional(TRUE)
     ELSE IF hashPending /\ word = "else"
          THEN SwitchBranch(TRUE) /\ UNCHANGED nestLevel
          ELSE UNCHANGED << nestLevel, ifdef >>
  /\ skipping' = (ifdef'[nestLevel'].ignoring /\ (hashPending => rest))
  /\ hashPending' = FALSE
  /\ UNCHANGED << resolveRequired, sourceVars >>

\* A line with nothing but '#'.  While skipping, the state it leaves behind
\* is used by the next line.
NullDirective ==
  /\ balanced' = FALSE
  /\ GoesOn(FALSE, open)
  /\ hashPending' = skipping
  /\ UNCHANGED << nestLevel, ifdef, resolveRequired, skipping, depth >>

\* Mutant: the size of the array is not looked at.
IfPastEnd(zero, short) ==
  /\ zero => short
  /\ nestLevel' = nestLevel + 1
  /\ ifdef' = IF Full THEN ifdef ELSE [ifdef EXCEPT ![nestLevel + 1] = Pushed(~zero)]
  /\ skipping' = (~Full /\ Pushed(~zero).ignoring)
  /\ hashPending' = FALSE
  /\ Opens(zero)
  /\ UNCHANGED resolveRequired

\* #if, #ifdef, #ifndef.  "zero" is #if 0; "short" says that the condition
\* is one character long, so that the value pushConditional returned decides
\* and no later character asks isIgnore again.
If(zero, short) ==
  /\ zero => short
  /\ PushConditional(~zero)
  /\ skipping' = IF short THEN ~Full /\ Pushed(~zero).ignoring
                 ELSE ifdef'[nestLevel'].ignoring
  /\ hashPending' = FALSE
  /\ Opens(zero)
  /\ UNCHANGED resolveRequired

\* #elif and #else.
ElifElse(isElse) ==
  /\ SwitchBranch(isElse)
  /\ skipping' = isIgnoreBranch
  /\ hashPending' = FALSE
  /\ Switches(isElse)
  /\ UNCHANGED << nestLevel, resolveRequired >>

\* Mutant: the outermost conditional is never popped.
EndifKeepsOne ==
  /\ Closes
  /\ nestLevel' = IF nestLevel > 1 THEN nestLevel - 1 ELSE nestLevel
  /\ skipping' = ifdef[nestLevel'].ignoring
  /\ hashPending' = FALSE
  /\ UNCHANGED << ifdef, resolveRequired >>

\* Mutant: #endif answers with the state of the conditional it closes.
EndifBeforePop ==
  /\ Closes
  /\ nestLevel' = IF nestLevel > 0 THEN nestLevel - 1 ELSE nestLevel
  /\ skipping' = isIgnore
  /\ hashPending' = FALSE
  /\ UNCHANGED << ifdef, resolveRequired >>

\* #endif: popConditional.
Endif ==
  /\ Closes
  /\ nestLevel' = IF nestLevel > 0 THEN nestLevel - 1 ELSE nestLevel
  /\ skipping' = ifdef[nestLevel'].ignoring
  /\ hashPending' = FALSE
  /\ UNCHANGED << ifdef, resolveRequired >>

\* #define, #undef, #pragma and every directive get.c does not know.
\* directiveHash answers that the text is shown, and only a later character of
\* the line asks isIgnore again: there is none ("rest" is false) in #include
\* "file", whose name is a string, or where the name stands alone.
OtherDirective(rest) ==
  /\ skipping' = (rest /\ isIgnore)
  /\ hashPending' = FALSE
  /\ GoesOn(rest, open)
  /\ UNCHANGED << nestLevel, ifdef, resolveRequired, depth, balanced >>

Directive ==
  \/ \E zero, short \in BOOLEAN : If(zero, short)
  \/ \E isElse \in BOOLEAN : ElifElse(isElse)
  \/ Endif

Next ==
  \/ DeliverText
  \/ \E word \in {"if", "else", "other"}, rest \in BOOLEAN : SkipText(word, rest)
  \/ NullDirective
  \/ Directive
  \/ \E rest \in BOOLEAN : OtherDirective(rest)

Spec == Init /\ [][Next]_vars

-------------------------------------------------------------------------------
(* Properties *)

TrueConditional ==
  [zero : BOOLEAN, incomplete : BOOLEAN, outer : BOOLEAN, branch : {1, 2},
   isElse : BOOLEAN, followed : 0 .. 2, enRoute : BOOLEAN]

\* Types; that nestLevel stays an index of the ifdef array is part of it.
TypeOK ==
  /\ nestLevel \in Levels
  /\ ifdef \in [Levels -> Conditional]
  /\ resolveRequired \in BOOLEAN
  /\ skipping \in BOOLEAN
  /\ hashPending \in BOOLEAN
  /\ depth \in 0 .. MaxDepth
  /\ balanced \in BOOLEAN
  /\ plain \in BOOLEAN
  /\ open \in Seq(TrueConditional)
  /\ Len(open) = IF plain THEN depth ELSE 0

\* As long as a source is balanced, however deep, get.c never thinks it is
\* deeper than it is: when all conditionals are closed it is at level 0 again.
NeverDeeper == balanced => nestLevel <= depth

\* As long as the source is plain, what the parser is given follows the rules
\* of nested conditionals: ConditionalNest, with a branch shown that get.c does
\* not ignore.
ShownBranches == [d \in 1 .. nestLevel |-> ~ifdef[d].ignoring]
Nest == INSTANCE ConditionalNest WITH
          shown <- ShownBranches, delivered <- ~skipping
ImplementsNest ==
  /\ Nest!Init
  /\ [][plain' => Nest!Next]_<< ShownBranches, skipping >>

\* As long as the array suffices, nestLevel is the depth of the source.
LevelIsDepth == plain => nestLevel = depth

\* ctags.1, C: if a conditional is met within a statement, ctags "follows only
\* the first branch of that conditional", unless it is an #if 0.  And get.c,
\* isIgnoreBranch: once a statement is found incomplete at a later branch,
\* "we must follow no further branches".  In either case only text the
\* conditional's surroundings deliver is at stake.
Shown(d) == ~ifdef[d].ignoring
BranchChoice ==
  \A d \in DOMAIN open :
    open[d].outer /\ ~open[d].zero =>
      /\ open[d].incomplete => (Shown(d) <=> open[d].branch = 1)
      /\ open[d].enRoute => ~Shown(d)

\* ctags.1: in the special case of "#if 0" within a statement, ctags "follows
\* only the last branch".
OneBranchOfIfZero ==
  \A d \in DOMAIN open : open[d].zero /\ open[d].incomplete => open[d].followed <= 1

\* However wild the source, no text is withheld from the parser unless the
\* conditional get.c takes for the current one ignores its branch.
SkipsOnlyIgnored == skipping => isIgnore
===============================================================================
