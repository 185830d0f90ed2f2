------------------------ MODULE CppConditionals_proofs ------------------------
(***************************************************************************)
(* Proofs about the conditional directives, for arrays and sources of any  *)
(* size: the index into the array is always valid, and as long as the      *)
(* array is large enough the text the parser gets follows the rules of     *)
(* nested conditionals.                                                    *)
(***************************************************************************)
EXTENDS CppConditionals, TLAPS

-------------------------------------------------------------------------------
(* Operators *)

LEMMA LevelFacts ==
  /\ 0 \in Levels
  /\ \A d \in Levels : d \in Nat /\ d <= MaxCppNestingLevel - 1
  /\ \A d \in Levels : d > 0 => d - 1 \in Levels
  /\ \A d \in Levels : ~(d >= MaxCppNestingLevel - 1) => d + 1 \in Levels
BY CppAssumption DEF CppAssumption, Levels

LEMMA PushedType ==
  ASSUME TypeOK, NEW chosen \in BOOLEAN
  PROVE  Pushed(chosen) \in Conditional
BY CppAssumption DEF CppAssumption, TypeOK, Pushed, Conditional, isIgnore

LEMMA PushType ==
  ASSUME TypeOK, NEW chosen \in BOOLEAN, PushConditional(chosen)
  PROVE  nestLevel' \in Levels /\ ifdef' \in [Levels -> Conditional]
<1>1. CASE Full
  BY <1>1 DEF PushConditional, TypeOK
<1>2. CASE ~Full
  <2>1. nestLevel + 1 \in Levels
    BY <1>2, LevelFacts DEF Full, TypeOK
  <2> QED
    BY <1>2, <2>1, PushedType DEF PushConditional, TypeOK
<1> QED
  BY <1>1, <1>2

LEMMA SwitchType ==
  ASSUME TypeOK, NEW isElse \in BOOLEAN, SwitchBranch(isElse)
  PROVE  ifdef' \in [Levels -> Conditional]
<1>1. nestLevel \in Levels /\ ifdef[nestLevel] \in Conditional
  BY DEF TypeOK
<1>2. SingleBranch \in BOOLEAN /\ isIgnoreBranch \in BOOLEAN
  BY <1>1 DEF SingleBranch, isIgnoreBranch, Conditional
<1>3. Chosen(isElse) \in BOOLEAN
  BY <1>1, <1>2 DEF Chosen, Conditional, TypeOK
<1> QED
  BY <1>1, <1>2, <1>3 DEF SwitchBranch, Conditional, TypeOK

LEMMA CountType ==
  ASSUME NEW c \in TrueConditional, NEW shows \in BOOLEAN
  PROVE  Count(c, shows) \in TrueConditional
BY DEF Count, Few, TrueConditional

LEMMA OpenedType ==
  ASSUME TypeOK, NEW zero \in BOOLEAN
  PROVE  Opened(zero) \in TrueConditional
BY DEF Opened, TrueConditional, TypeOK

LEMMA LaterType ==
  ASSUME TypeOK, NEW c \in TrueConditional, NEW isElse \in BOOLEAN,
         NEW shows \in BOOLEAN
  PROVE  Later(c, isElse, shows) \in TrueConditional
<1> DEFINE found == resolveRequired /\ ~BraceFormat /\ c.followed > 0
           base  == [c EXCEPT !.branch = 2, !.isElse = isElse, !.enRoute = @ \/ found]
<1>1. found \in BOOLEAN
  BY CppAssumption DEF CppAssumption, TypeOK
<1> HIDE DEF found
<1>2. base \in TrueConditional
  <2>1. c.enRoute \/ found \in BOOLEAN
    BY <1>1 DEF TrueConditional
  <2> QED
    BY <2>1 DEF TrueConditional
<1>3. Later(c, isElse, shows) = Count(base, shows)
  BY DEF Later, found
<1> QED
  BY <1>2, <1>3, CountType

\* The nest without its innermost conditional.
LEMMA PoppedSeq ==
  ASSUME NEW S, NEW s \in Seq(S), s # << >>
  PROVE  /\ SubSeq(s, 1, Len(s) - 1) \in Seq(S)
         /\ Len(SubSeq(s, 1, Len(s) - 1)) = Len(s) - 1
         /\ \A d \in 1 .. Len(s) - 1 : SubSeq(s, 1, Len(s) - 1)[d] = s[d]
<1> DEFINE m == Len(s) - 1
<1>1. Len(s) \in Nat /\ Len(s) > 0
  OBVIOUS
<1>2. m \in Nat /\ m <= Len(s)
  BY <1>1
<1> HIDE DEF m
<1>3. SubSeq(s, 1, m) \in Seq(S)
  BY <1>2
<1>4. Len(SubSeq(s, 1, m)) = m
  BY <1>2
<1>5. \A d \in 1 .. m : SubSeq(s, 1, m)[d] = s[d]
  BY <1>2
<1> QED
  BY <1>3, <1>4, <1>5 DEF m

-------------------------------------------------------------------------------
(* Type correctness *)

LEMMA InitType == Init => TypeOK
<1> SUFFICES ASSUME Init PROVE TypeOK
  OBVIOUS
<1>1. ifdef \in [Levels -> Conditional]
  <2>1. Stale \cup {Clear} \subseteq Conditional
    <3>1. Clear \in Conditional
      BY DEF Clear, Conditional
    <3> QED
      BY <3>1, CppAssumption DEF CppAssumption
  <2> QED
    BY <2>1 DEF Init
<1>2. open \in Seq(TrueConditional) /\ Len(open) = depth /\ depth \in 0 .. MaxDepth
  BY CppAssumption DEF CppAssumption, Init
<1>3. nestLevel \in Levels
  BY LevelFacts DEF Init
<1> QED
  BY <1>1, <1>2, <1>3 DEF Init, TypeOK

\* The source stays plain or does not, and its nest is kept or dropped.
LEMMA GoesOnType ==
  ASSUME TypeOK, NEW fits \in BOOLEAN, NEW nest, GoesOn(fits, nest),
         plain /\ fits => nest \in Seq(TrueConditional) /\ Len(nest) = depth'
  PROVE  /\ plain' \in BOOLEAN /\ open' \in Seq(TrueConditional)
         /\ Len(open') = IF plain' THEN depth' ELSE 0
<1>1. << >> \in Seq(TrueConditional) /\ Len(<< >>) = 0
  OBVIOUS
<1> QED
  BY <1>1 DEF GoesOn, TypeOK

LEMMA SkipTextType ==
  ASSUME TypeOK, NEW word, NEW rest \in BOOLEAN, SkipText(word, rest)
  PROVE  TypeOK'
<1>1. nestLevel' \in Levels /\ ifdef' \in [Levels -> Conditional]
  <2>1. CASE hashPending /\ word = "if"
    BY <2>1, PushType DEF SkipText
  <2>2. CASE hashPending /\ word = "else"
    BY <2>2, SwitchType DEF SkipText, TypeOK
  <2>3. CASE ~hashPending \/ (word # "if" /\ word # "else")
    BY <2>3 DEF SkipText, TypeOK
  <2> QED
    BY <2>1, <2>2, <2>3
<1>2. skipping' \in BOOLEAN
  BY <1>1 DEF SkipText, Conditional, TypeOK
<1> QED
  BY <1>1, <1>2 DEF SkipText, sourceVars, TypeOK

LEMMA IfType ==
  ASSUME TypeOK, NEW zero \in BOOLEAN, NEW short \in BOOLEAN, If(zero, short)
  PROVE  TypeOK'
<1>1. nestLevel' \in Levels /\ ifdef' \in [Levels -> Conditional]
  BY PushType DEF If
<1>2. skipping' \in BOOLEAN
  BY <1>1, PushedType DEF If, Conditional, Full
<1>3. GoesOn(depth < MaxCppNestingLevel - 1, Append(open, Count(Opened(zero), ~skipping')))
  BY DEF If, Opens
<1>4. plain => /\ Append(open, Count(Opened(zero), ~skipping')) \in Seq(TrueConditional)
               /\ Len(Append(open, Count(Opened(zero), ~skipping'))) = depth'
  <2>1. Count(Opened(zero), ~skipping') \in TrueConditional
    BY <1>2, OpenedType, CountType
  <2>2. open \in Seq(TrueConditional) /\ (plain => depth' = Len(open) + 1)
    BY DEF If, Opens, TypeOK
  <2> QED
    BY <2>1, <2>2
<1>5. depth' \in 0 .. MaxDepth /\ UNCHANGED balanced
  BY CppAssumption DEF CppAssumption, If, Opens, TypeOK
<1>6. (depth < MaxCppNestingLevel - 1) \in BOOLEAN
  OBVIOUS
<1>7. /\ plain' \in BOOLEAN /\ open' \in Seq(TrueConditional)
      /\ Len(open') = IF plain' THEN depth' ELSE 0
  BY <1>3, <1>4, <1>6, GoesOnType
<1> QED
  BY <1>1, <1>2, <1>5, <1>7 DEF If, TypeOK

LEMMA ElifElseType ==
  ASSUME TypeOK, NEW isElse \in BOOLEAN, ElifElse(isElse)
  PROVE  TypeOK'
<1>1. ifdef' \in [Levels -> Conditional]
  BY SwitchType DEF ElifElse
<1>2. skipping' \in BOOLEAN
  BY DEF ElifElse, isIgnoreBranch, TypeOK, Conditional
<1> DEFINE later == Later(open[depth], isElse, ~skipping')
<1>3. GoesOn(depth > 0 /\ (plain => ~open[depth].isElse), [open EXCEPT ![depth] = later])
  BY DEF ElifElse, Switches
<1>4. /\ open \in Seq(TrueConditional) /\ UNCHANGED depth /\ depth \in Nat
      /\ plain => Len(open) = depth
  BY CppAssumption DEF CppAssumption, ElifElse, Switches, TypeOK
<1>5. ASSUME plain, depth > 0
      PROVE  /\ [open EXCEPT ![depth] = later] \in Seq(TrueConditional)
             /\ Len([open EXCEPT ![depth] = later]) = depth'
  <2>1. depth \in 1 .. Len(open)
    BY <1>4, <1>5
  <2>2. open[depth] \in TrueConditional /\ (~skipping') \in BOOLEAN
    BY <1>4, <2>1
  <2>3. later \in TrueConditional
    BY <2>2, LaterType
  <2> HIDE DEF later
  <2> QED
    BY <1>4, <1>5, <2>1, <2>3
<1> HIDE DEF later
<1>6. (depth > 0 /\ (plain => ~open[depth].isElse)) \in BOOLEAN
  OBVIOUS
<1>7. /\ plain' \in BOOLEAN /\ open' \in Seq(TrueConditional)
      /\ Len(open') = IF plain' THEN depth' ELSE 0
  BY <1>3, <1>5, <1>6, GoesOnType
<1> QED
  BY <1>1, <1>2, <1>7 DEF ElifElse, Switches, TypeOK

LEMMA EndifType == ASSUME TypeOK, Endif PROVE TypeOK'
<1>1. nestLevel' \in Levels
  BY LevelFacts DEF Endif, TypeOK
<1>2. depth' \in 0 .. MaxDepth /\ balanced' \in BOOLEAN
  BY CppAssumption DEF CppAssumption, Endif, Closes, TypeOK
<1>3. GoesOn(depth > 0, SubSeq(open, 1, depth - 1))
  BY DEF Endif, Closes
<1>4. ASSUME plain, depth > 0
      PROVE  /\ SubSeq(open, 1, depth - 1) \in Seq(TrueConditional)
             /\ Len(SubSeq(open, 1, depth - 1)) = depth'
  <2>1. open \in Seq(TrueConditional) /\ open # << >> /\ depth = Len(open)
    BY <1>4 DEF TypeOK
  <2>2. depth' = depth - 1
    BY <1>4 DEF Endif, Closes
  <2> QED
    BY <2>1, <2>2, PoppedSeq
<1>5. (depth > 0) \in BOOLEAN
  OBVIOUS
<1>6. /\ plain' \in BOOLEAN /\ open' \in Seq(TrueConditional)
      /\ Len(open') = IF plain' THEN depth' ELSE 0
  BY <1>3, <1>4, <1>5, GoesOnType
<1> QED
  BY <1>1, <1>2, <1>6 DEF Endif, TypeOK, Conditional

LEMMA NextType == TypeOK /\ [Next]_vars => TypeOK'
<1> SUFFICES ASSUME TypeOK, [Next]_vars PROVE TypeOK'
  OBVIOUS
<1>1. CASE DeliverText
  BY <1>1 DEF DeliverText, sourceVars, TypeOK
<1>2. CASE \E word \in {"if", "else", "other"}, rest \in BOOLEAN : SkipText(word, rest)
  BY <1>2, SkipTextType
<1>3. CASE NullDirective
  <2>1. GoesOn(FALSE, open)
    BY <1>3 DEF NullDirective
  <2>2. /\ plain' \in BOOLEAN /\ open' \in Seq(TrueConditional)
        /\ Len(open') = IF plain' THEN depth' ELSE 0
    BY <2>1, GoesOnType
  <2> QED
    BY <1>3, <2>2 DEF NullDirective, TypeOK
<1>4. CASE \E zero, short \in BOOLEAN : If(zero, short)
  BY <1>4, IfType
<1>5. CASE \E isElse \in BOOLEAN : ElifElse(isElse)
  BY <1>5, ElifElseType
<1>6. CASE Endif
  BY <1>6, EndifType
<1>7. ASSUME NEW rest \in BOOLEAN, OtherDirective(rest)
      PROVE  TypeOK'
  <2>1. skipping' \in BOOLEAN
    BY <1>7 DEF OtherDirective, TypeOK, isIgnore, Conditional
  <2>2. /\ GoesOn(rest, open) /\ open \in Seq(TrueConditional) /\ UNCHANGED depth
        /\ plain => Len(open) = depth
    BY <1>7 DEF OtherDirective, TypeOK
  <2> QED
    BY <1>7, <2>1, <2>2, GoesOnType DEF OtherDirective, TypeOK
<1>8. CASE UNCHANGED vars
  BY <1>8 DEF vars, sourceVars, TypeOK
<1> QED
  BY <1>1, <1>2, <1>3, <1>4, <1>5, <1>6, <1>7, <1>8 DEF Next, Directive

\* The variables keep their types for every source, the wildest included: in
\* particular nestLevel is an index of the array, whatever its size.
THEOREM CppTypeCorrect == Spec => []TypeOK
BY InitType, NextType, PTL DEF Spec

-------------------------------------------------------------------------------
(* Text is withheld on account of the current conditional only             *)

LEMMA PushIgnoring ==
  ASSUME TypeOK, NEW chosen \in BOOLEAN, PushConditional(chosen)
  PROVE  ~Full => /\ nestLevel' = nestLevel + 1
                  /\ nestLevel' \in Levels
                  /\ ifdef'[nestLevel'] = Pushed(chosen)
                  /\ \A d \in Levels : d # nestLevel' => ifdef'[d] = ifdef[d]
<1> SUFFICES ASSUME ~Full PROVE
             /\ nestLevel' = nestLevel + 1
             /\ nestLevel' \in Levels
             /\ ifdef'[nestLevel'] = Pushed(chosen)
             /\ \A d \in Levels : d # nestLevel' => ifdef'[d] = ifdef[d]
  OBVIOUS
<1>1. nestLevel + 1 \in Levels
  BY LevelFacts DEF Full, TypeOK
<1> QED
  BY <1>1 DEF PushConditional, TypeOK

LEMMA SwitchIgnoring ==
  ASSUME TypeOK, NEW isElse \in BOOLEAN, SwitchBranch(isElse)
  PROVE  /\ ifdef'[nestLevel].ignoring = isIgnoreBranch
         /\ ifdef'[nestLevel].ignoreAllBranches = ifdef[nestLevel].ignoreAllBranches
         /\ \A d \in Levels : d # nestLevel => ifdef'[d] = ifdef[d]
BY DEF SwitchBranch, TypeOK

LEMMA NextSkips == TypeOK /\ SkipsOnlyIgnored /\ [Next]_vars => SkipsOnlyIgnored'
<1> SUFFICES ASSUME TypeOK, SkipsOnlyIgnored, [Next]_vars, skipping'
             PROVE  isIgnore'
  BY DEF SkipsOnlyIgnored
<1> USE DEF SkipsOnlyIgnored, isIgnore
<1>1. CASE DeliverText
  BY <1>1 DEF DeliverText
<1>2. CASE \E word \in {"if", "else", "other"}, rest \in BOOLEAN : SkipText(word, rest)
  BY <1>2 DEF SkipText
<1>3. CASE NullDirective
  BY <1>3 DEF NullDirective
<1>4. ASSUME NEW zero \in BOOLEAN, NEW short \in BOOLEAN, If(zero, short)
      PROVE  isIgnore'
  <2>1. CASE short
    <3>1. ~Full /\ Pushed(~zero).ignoring
      BY <1>4, <2>1 DEF If
    <3> QED
      BY <1>4, <3>1, PushIgnoring DEF If
  <2>2. CASE ~short
    BY <1>4, <2>2 DEF If
  <2> QED
    BY <2>1, <2>2
<1>5. ASSUME NEW isElse \in BOOLEAN, ElifElse(isElse) PROVE isIgnore'
  BY <1>5, SwitchIgnoring DEF ElifElse
<1>6. CASE Endif
  BY <1>6 DEF Endif
<1>7. ASSUME NEW rest \in BOOLEAN, OtherDirective(rest)
      PROVE  isIgnore'
  BY <1>7 DEF OtherDirective
<1>8. CASE UNCHANGED vars
  BY <1>8 DEF vars
<1> QED
  BY <1>1, <1>2, <1>3, <1>4, <1>5, <1>6, <1>7, <1>8 DEF Next, Directive

\* However wild the source, text is withheld only while the conditional that
\* get.c takes for the current one ignores its branch.
THEOREM SkipsCorrect == Spec => []SkipsOnlyIgnored
<1>1. Init => SkipsOnlyIgnored
  BY DEF Init, SkipsOnlyIgnored
<1> QED
  BY <1>1, InitType, NextType, NextSkips, PTL DEF Spec

-------------------------------------------------------------------------------
(* Balanced sources of any depth *)

\* Without null directives no word of the text is taken for a directive.
DepthInv == TypeOK /\ NeverDeeper /\ (balanced => ~hashPending)

LEMMA DepthStep ==
  ASSUME DepthInv, TypeOK', [Next]_vars, balanced'
  PROVE  nestLevel' <= depth' /\ ~hashPending'
<1>1. /\ nestLevel \in Nat /\ nestLevel' \in Nat /\ depth \in Nat /\ depth' \in Nat
      /\ balanced => nestLevel <= depth /\ ~hashPending
  BY LevelFacts, CppAssumption DEF CppAssumption, DepthInv, TypeOK, NeverDeeper
<1>2. ASSUME NEW zero \in BOOLEAN, NEW short \in BOOLEAN, If(zero, short)
      PROVE  nestLevel' <= depth' /\ ~hashPending'
  <2>1. balanced /\ depth' = depth + 1 /\ ~hashPending'
    BY <1>2 DEF If, Opens
  <2>2. nestLevel' <= nestLevel + 1
    BY <1>1, <1>2 DEF If, PushConditional
  <2> QED
    BY <1>1, <2>1, <2>2
<1>3. ASSUME NEW isElse \in BOOLEAN, ElifElse(isElse)
      PROVE  nestLevel' <= depth' /\ ~hashPending'
  BY <1>1, <1>3 DEF ElifElse, Switches
<1>4. CASE Endif
  <2>1. balanced /\ depth > 0 /\ depth' = depth - 1 /\ ~hashPending'
    BY <1>4 DEF Endif, Closes
  <2>2. nestLevel' = IF nestLevel > 0 THEN nestLevel - 1 ELSE nestLevel
    BY <1>4 DEF Endif
  <2> QED
    BY <1>1, <2>1, <2>2
<1>5. CASE NullDirective
  BY <1>5 DEF NullDirective
<1>6. CASE \/ DeliverText
           \/ \E word \in {"if", "else", "other"}, rest \in BOOLEAN : SkipText(word, rest)
           \/ \E rest \in BOOLEAN : OtherDirective(rest)
           \/ UNCHANGED vars
  <2>1. UNCHANGED << depth, balanced >>
    BY <1>6 DEF DeliverText, SkipText, OtherDirective, sourceVars, vars
  <2>2. balanced /\ ~hashPending
    BY <1>1, <2>1
  <2>3. UNCHANGED nestLevel /\ ~hashPending'
    BY <1>6, <2>2 DEF DeliverText, SkipText, OtherDirective, vars
  <2> QED
    BY <1>1, <2>1, <2>2, <2>3
<1> QED
  BY <1>2, <1>3, <1>4, <1>5, <1>6 DEF Next, Directive

\* As long as a source is balanced, #if and #endif never leave get.c deeper
\* than the source, however many conditionals it had no room for.
THEOREM NeverDeeperCorrect == Spec => []NeverDeeper
<1>1. Init => DepthInv
  <2> SUFFICES ASSUME Init PROVE DepthInv
    OBVIOUS
  <2>1. nestLevel = 0 /\ depth = 0 /\ ~hashPending
    BY DEF Init
  <2> QED
    BY <2>1, InitType DEF DepthInv, NeverDeeper
<1>2. DepthInv /\ [Next]_vars => DepthInv'
  <2> SUFFICES ASSUME DepthInv, [Next]_vars PROVE DepthInv'
    OBVIOUS
  <2>1. TypeOK'
    BY NextType DEF DepthInv
  <2> QED
    BY <2>1, DepthStep DEF DepthInv, NeverDeeper
<1>3. DepthInv => NeverDeeper
  BY DEF DepthInv
<1> QED
  BY <1>1, <1>2, <1>3, PTL DEF Spec

-------------------------------------------------------------------------------
(* Plain sources *)

\* Every conditional knows whether the text around it is ignored, and then
\* ignores all of its own.
Inherits ==
  \A d \in Levels : d > 0 /\ d <= nestLevel =>
    /\ ifdef[d].ignoreAllBranches <=> ifdef[d - 1].ignoring
    /\ ifdef[d].ignoreAllBranches => ifdef[d].ignoring
NestInv ==
  /\ TypeOK
  /\ plain /\ nestLevel = depth
  /\ (skipping <=> isIgnore) /\ ~hashPending
  /\ ~ifdef[0].ignoring
  /\ Inherits

LEMMA InitNest == Init => NestInv
<1> SUFFICES ASSUME Init PROVE NestInv
  OBVIOUS
<1>1. ~ifdef[0].ignoring
  BY LevelFacts DEF Init, Clear
<1>2. \A d \in Levels : ~(d > 0 /\ d <= 0)
  BY LevelFacts
<1> QED
  <2>1. nestLevel = 0 /\ depth = 0 /\ plain /\ open = << >> /\ ~skipping /\ ~hashPending
    BY DEF Init
  <2>2. Inherits
    BY <1>2, <2>1 DEF Inherits
  <2> QED
    BY <1>1, <2>1, <2>2, InitType DEF NestInv, isIgnore

\* A source that is plain after a step was so before.
LEMMA StaysPlain == ASSUME [Next]_vars, plain' PROVE plain
<1>1. CASE \/ DeliverText
           \/ \E word \in {"if", "else", "other"}, rest \in BOOLEAN : SkipText(word, rest)
           \/ UNCHANGED vars
  BY <1>1 DEF DeliverText, SkipText, sourceVars, vars
<1>2. ASSUME NEW fits, NEW nest, GoesOn(fits, nest) PROVE plain
  BY <1>2 DEF GoesOn
<1>3. CASE Directive
  BY <1>2, <1>3 DEF Directive, If, Opens, ElifElse, Switches, Endif, Closes
<1>4. CASE NullDirective \/ \E rest \in BOOLEAN : OtherDirective(rest)
  BY <1>2, <1>4 DEF NullDirective, OtherDirective
<1> QED
  BY <1>1, <1>3, <1>4 DEF Next

\* What a directive makes of the nest of a source that it leaves plain.
LEMMA OpensPlain ==
  ASSUME NestInv, NEW zero \in BOOLEAN, Opens(zero), plain'
  PROVE  /\ ~Full /\ depth' = depth + 1
         /\ open' = Append(open, Count(Opened(zero), ~skipping'))
<1> DEFINE nest == Append(open, Count(Opened(zero), ~skipping'))
<1>1. GoesOn(depth < MaxCppNestingLevel - 1, nest) /\ depth' = depth + 1
  BY DEF Opens
<1> HIDE DEF nest
<1>2. depth < MaxCppNestingLevel - 1 /\ open' = nest
  BY <1>1 DEF GoesOn
<1>3. nestLevel = depth /\ nestLevel \in Nat /\ MaxCppNestingLevel \in Nat
  BY LevelFacts, CppAssumption DEF CppAssumption, NestInv, TypeOK
<1>4. ~Full
  BY <1>2, <1>3 DEF Full
<1> QED
  BY <1>1, <1>2, <1>4 DEF nest

LEMMA SwitchesPlain ==
  ASSUME NestInv, NEW isElse \in BOOLEAN, Switches(isElse), plain'
  PROVE  /\ depth > 0 /\ depth' = depth /\ ~open[depth].isElse
         /\ open' = [open EXCEPT ![depth] = Later(open[depth], isElse, ~skipping')]
BY DEF Switches, GoesOn, NestInv

LEMMA ClosesPlain ==
  ASSUME NestInv, Closes, plain'
  PROVE  /\ depth > 0 /\ depth' = depth - 1 /\ open' = SubSeq(open, 1, depth - 1)
BY DEF Closes, GoesOn, NestInv

LEMMA SkipTextNest ==
  ASSUME NestInv, NEW word, NEW rest \in BOOLEAN, SkipText(word, rest)
  PROVE  /\ UNCHANGED << nestLevel, ifdef, depth, open >>
         /\ skipping /\ skipping' /\ isIgnore /\ ~hashPending'
<1>1. skipping /\ isIgnore /\ ~hashPending
  BY DEF SkipText, NestInv
<1>2. UNCHANGED << nestLevel, ifdef, depth, open >> /\ ~hashPending'
  BY <1>1 DEF SkipText, sourceVars
<1>3. skipping'
  BY <1>1, <1>2 DEF SkipText, isIgnore
<1> QED
  BY <1>1, <1>2, <1>3

LEMMA IfNest ==
  ASSUME NestInv, plain', TypeOK', NEW zero \in BOOLEAN, NEW short \in BOOLEAN,
         If(zero, short)
  PROVE  /\ NestInv'
         /\ nestLevel' = nestLevel + 1
         /\ \A d \in Levels : d <= nestLevel => ifdef'[d] = ifdef[d]
<1>1. /\ ~Full /\ PushConditional(~zero) /\ (~zero) \in BOOLEAN
      /\ depth' = depth + 1
  BY OpensPlain DEF If
<1>2. TypeOK /\ nestLevel \in Levels /\ nestLevel \in Nat
  BY LevelFacts DEF NestInv, TypeOK
<1>3. /\ nestLevel' = nestLevel + 1 /\ nestLevel' \in Levels
      /\ ifdef'[nestLevel'] = Pushed(~zero)
      /\ \A d \in Levels : d # nestLevel' => ifdef'[d] = ifdef[d]
  BY <1>1, <1>2, PushIgnoring
<1>4. \A d \in Levels : d <= nestLevel => ifdef'[d] = ifdef[d]
  BY <1>2, <1>3, LevelFacts
<1>5. nestLevel' = depth'
  BY <1>1, <1>3 DEF NestInv
<1>6. (skipping' <=> isIgnore') /\ ~hashPending'
  <2>1. short => skipping' = Pushed(~zero).ignoring
    BY <1>1, PushedType, <1>2 DEF If, Conditional
  <2> QED
    BY <2>1, <1>3 DEF If, isIgnore
<1>7. ~ifdef'[0].ignoring
  BY <1>2, <1>4, LevelFacts DEF NestInv
<1>8. Inherits'
  <2> SUFFICES ASSUME NEW d \in Levels, d > 0, d <= nestLevel'
               PROVE  /\ ifdef'[d].ignoreAllBranches <=> ifdef'[d - 1].ignoring
                      /\ ifdef'[d].ignoreAllBranches => ifdef'[d].ignoring
    BY DEF Inherits
  <2>1. d - 1 \in Levels /\ d \in Nat
    BY LevelFacts
  <2>2. CASE d = nestLevel'
    <3>1. ifdef'[d - 1] = ifdef[nestLevel]
      BY <1>2, <1>3, <1>4, <2>1, <2>2
    <3>2. ifdef'[d] = Pushed(~zero)
      BY <2>2, <1>3
    <3>3. ifdef'[d].ignoreAllBranches = ifdef[nestLevel].ignoring
      BY <3>2 DEF Pushed, isIgnore
    <3>4. ifdef[nestLevel].ignoring => ifdef'[d].ignoring
      <4>1. isIgnore => Pushed(~zero).ignoring
        BY Zenon DEF Pushed
      <4> QED
        BY <3>2, <4>1 DEF isIgnore
    <3> QED
      BY <3>1, <3>3, <3>4
  <2>3. CASE d # nestLevel'
    <3>1. d <= nestLevel /\ d - 1 <= nestLevel
      BY <1>2, <1>3, <2>1, <2>3
    <3>2. ifdef'[d] = ifdef[d] /\ ifdef'[d - 1] = ifdef[d - 1]
      BY <1>4, <2>1, <3>1
    <3> QED
      BY <3>1, <3>2 DEF NestInv, Inherits
  <2> QED
    BY <2>2, <2>3
<1> QED
  BY <1>3, <1>4, <1>5, <1>6, <1>7, <1>8 DEF NestInv

LEMMA ElifElseNest ==
  ASSUME NestInv, plain', TypeOK', NEW isElse \in BOOLEAN, ElifElse(isElse)
  PROVE  /\ NestInv' /\ UNCHANGED nestLevel /\ nestLevel > 0
         /\ ifdef'[nestLevel].ignoring = skipping'
         /\ ifdef[nestLevel].ignoreAllBranches => skipping'
         /\ \A d \in Levels : d # nestLevel => ifdef'[d] = ifdef[d]
<1>1. /\ TypeOK /\ nestLevel \in Levels /\ nestLevel \in Nat /\ UNCHANGED nestLevel
      /\ skipping' = isIgnoreBranch
  BY LevelFacts DEF NestInv, TypeOK, ElifElse
<1>2. nestLevel > 0 /\ depth' = depth
  BY SwitchesPlain DEF ElifElse, NestInv
<1>3. /\ ifdef'[nestLevel].ignoring = isIgnoreBranch
      /\ ifdef'[nestLevel].ignoreAllBranches = ifdef[nestLevel].ignoreAllBranches
      /\ \A d \in Levels : d # nestLevel => ifdef'[d] = ifdef[d]
  BY <1>1, SwitchIgnoring DEF ElifElse
<1>4. ifdef[nestLevel].ignoreAllBranches => isIgnoreBranch
  BY DEF isIgnoreBranch
<1>5. ~ifdef'[0].ignoring
  BY <1>2, <1>3, LevelFacts DEF NestInv
<1>6. Inherits'
  <2> SUFFICES ASSUME NEW d \in Levels, d > 0, d <= nestLevel
               PROVE  /\ ifdef'[d].ignoreAllBranches <=> ifdef'[d - 1].ignoring
                      /\ ifdef'[d].ignoreAllBranches => ifdef'[d].ignoring
    BY <1>1 DEF Inherits
  <2>1. d - 1 \in Levels /\ d \in Nat /\ d - 1 # nestLevel
    BY <1>1, LevelFacts
  <2>2. ifdef'[d - 1] = ifdef[d - 1]
    BY <1>3, <2>1
  <2>3. /\ ifdef[d].ignoreAllBranches <=> ifdef[d - 1].ignoring
        /\ ifdef[d].ignoreAllBranches => ifdef[d].ignoring
    BY DEF NestInv, Inherits
  <2>4. CASE d = nestLevel
    BY <2>2, <2>3, <2>4, <1>3, <1>4
  <2>5. CASE d # nestLevel
    BY <2>2, <2>3, <2>5, <1>3
  <2> QED
    BY <2>4, <2>5
<1>7. (skipping' <=> isIgnore') /\ ~hashPending'
  BY <1>1, <1>3 DEF ElifElse, isIgnore
<1> QED
  BY <1>1, <1>2, <1>3, <1>4, <1>5, <1>6, <1>7 DEF NestInv

LEMMA EndifNest ==
  ASSUME NestInv, plain', TypeOK', Endif
  PROVE  /\ NestInv' /\ nestLevel' = nestLevel - 1 /\ nestLevel > 0
         /\ UNCHANGED ifdef
<1>1. nestLevel \in Levels /\ nestLevel \in Nat /\ nestLevel' \in Levels
  BY LevelFacts DEF NestInv, TypeOK
<1>2. depth > 0 /\ depth' = depth - 1 /\ depth = nestLevel
  BY ClosesPlain DEF Endif, NestInv
<1>3. nestLevel' = nestLevel - 1 /\ UNCHANGED ifdef
  BY <1>2 DEF Endif
<1>5. nestLevel' = depth'
  BY <1>2, <1>3
<1>6. Inherits'
  <2> SUFFICES ASSUME NEW d \in Levels, d > 0, d <= nestLevel'
               PROVE  /\ ifdef[d].ignoreAllBranches <=> ifdef[d - 1].ignoring
                      /\ ifdef[d].ignoreAllBranches => ifdef[d].ignoring
    BY <1>3 DEF Inherits
  <2>1. d \in Nat /\ d <= nestLevel
    BY <1>1, <1>3, LevelFacts
  <2> QED
    BY <2>1 DEF NestInv, Inherits
<1>7. (skipping' <=> isIgnore') /\ ~hashPending'
  BY <1>3 DEF Endif, isIgnore
<1> QED
  BY <1>1, <1>2, <1>3, <1>5, <1>6, <1>7 DEF NestInv

\* The steps that leave the stack of conditionals and the text alone.
LEMMA QuietNest ==
  ASSUME NestInv, plain', TypeOK',
         \/ DeliverText
         \/ \E word \in {"if", "else", "other"}, rest \in BOOLEAN : SkipText(word, rest)
         \/ NullDirective
         \/ \E rest \in BOOLEAN : OtherDirective(rest)
         \/ UNCHANGED vars
  PROVE  /\ NestInv' /\ UNCHANGED << nestLevel, ifdef, depth, open >>
         /\ skipping' <=> skipping
<1>1. /\ UNCHANGED << nestLevel, ifdef, depth, open >> /\ ~hashPending'
      /\ skipping' <=> skipping
  <2>1. CASE DeliverText
    BY <2>1 DEF DeliverText, sourceVars, NestInv
  <2>2. CASE \E word \in {"if", "else", "other"}, rest \in BOOLEAN : SkipText(word, rest)
    BY <2>2, SkipTextNest
  <2>3. CASE NullDirective
    BY <2>3 DEF NullDirective, GoesOn
  <2>4. ASSUME NEW rest \in BOOLEAN, OtherDirective(rest)
        PROVE  /\ UNCHANGED << nestLevel, ifdef, depth, open >> /\ ~hashPending'
               /\ skipping' <=> skipping
    <3>1. rest
      BY <2>4 DEF OtherDirective, GoesOn
    <3> QED
      BY <2>4, <3>1 DEF OtherDirective, GoesOn, NestInv
  <2>5. CASE UNCHANGED vars
    BY <2>5 DEF vars, sourceVars, NestInv
  <2> QED
    BY <2>1, <2>2, <2>3, <2>4, <2>5
<1>2. nestLevel' = depth' /\ ~ifdef'[0].ignoring /\ Inherits'
  BY <1>1 DEF NestInv, Inherits
<1>3. skipping' <=> isIgnore'
  BY <1>1 DEF NestInv, isIgnore
<1> QED
  BY <1>1, <1>2, <1>3 DEF NestInv

LEMMA NextNest ==
  ASSUME NestInv, [Next]_vars, plain'
  PROVE  NestInv'
<1>1. TypeOK'
  BY NextType DEF NestInv
<1>2. CASE \E zero, short \in BOOLEAN : If(zero, short)
  BY <1>1, <1>2, IfNest
<1>3. CASE \E isElse \in BOOLEAN : ElifElse(isElse)
  BY <1>1, <1>3, ElifElseNest
<1>4. CASE Endif
  BY <1>1, <1>4, EndifNest
<1> QED
  BY <1>1, <1>2, <1>3, <1>4, QuietNest DEF Next, Directive

\* What holds of plain sources is kept with the types of all.
PlainInv == TypeOK /\ (plain => NestInv)

LEMMA NextPlain == PlainInv /\ [Next]_vars => PlainInv'
BY NextType, NextNest, StaysPlain DEF PlainInv

LEMMA PlainInvariant == Spec => []PlainInv
<1>1. Init => PlainInv
  BY InitType, InitNest DEF PlainInv
<1> QED
  BY <1>1, NextPlain, PTL DEF Spec

\* As long as the source is plain, nestLevel is its true depth.
THEOREM LevelCorrect == Spec => []LevelIsDepth
<1>1. PlainInv => LevelIsDepth
  BY DEF PlainInv, NestInv, LevelIsDepth
<1> QED
  BY <1>1, PlainInvariant, PTL

-------------------------------------------------------------------------------
(* Which branches of a conditional are followed                            *)

\* A conditional c of the source and its level f in the array: a branch has been
\* chosen until the #else, and a statement found incomplete leaves its mark.
Choice(c, f) ==
  /\ ~c.zero /\ ~c.isElse => f.branchChosen
  /\ c.incomplete \/ c.enRoute => f.singleBranch
  /\ c.outer /\ ~c.zero =>
       /\ c.incomplete => (~f.ignoring <=> c.branch = 1)
       /\ c.enRoute => f.ignoring

Choices == \A d \in 1 .. depth : Choice(open[d], ifdef[d])

BranchInv == NestInv /\ Choices

\* The levels of the array that are in use.
LEMMA DepthLevels ==
  ASSUME NestInv
  PROVE  /\ depth = nestLevel /\ depth \in Nat /\ open \in Seq(TrueConditional)
         /\ Len(open) = depth
         /\ \A d \in 1 .. depth : d \in Levels /\ d <= nestLevel
                                  /\ open[d] \in TrueConditional
<1>1. /\ nestLevel \in Nat /\ depth = nestLevel /\ open \in Seq(TrueConditional)
      /\ Len(open) = depth
  BY LevelFacts DEF NestInv, TypeOK
<1>2. \A d \in 1 .. nestLevel : d \in Levels
  BY <1>1, CppAssumption DEF CppAssumption, Levels, NestInv, TypeOK
<1>3. \A d \in 1 .. depth : open[d] \in TrueConditional
  BY <1>1
<1> QED
  BY <1>1, <1>2, <1>3

LEMMA IfChoice ==
  ASSUME BranchInv, plain', TypeOK', NEW zero \in BOOLEAN, NEW short \in BOOLEAN,
         If(zero, short)
  PROVE  BranchInv'
<1>1. /\ NestInv /\ NestInv' /\ nestLevel' = nestLevel + 1
      /\ \A d \in Levels : d <= nestLevel => ifdef'[d] = ifdef[d]
  BY IfNest DEF BranchInv
<1>2. ifdef'[nestLevel'] = Pushed(~zero) /\ (skipping <=> isIgnore)
  <2>1. ~Full /\ PushConditional(~zero) /\ (~zero) \in BOOLEAN
    BY <1>1, OpensPlain DEF If
  <2> QED
    BY <1>1, <2>1, PushIgnoring DEF NestInv
<1> DEFINE c == Count(Opened(zero), ~skipping')
<1>3. open' = Append(open, c) /\ depth' = depth + 1
  BY <1>1, OpensPlain DEF If
<1>4. Choice(c, Pushed(~zero))
  <2>1. /\ c.zero = zero /\ c.incomplete = resolveRequired /\ c.outer = ~skipping
        /\ c.branch = 1 /\ ~c.isElse /\ ~c.enRoute
    BY DEF Count, Opened
  <2>2. /\ Pushed(~zero).branchChosen = ~zero
        /\ Pushed(~zero).singleBranch = resolveRequired
        /\ ~zero /\ ~isIgnore => ~Pushed(~zero).ignoring
    BY DEF Pushed
  <2> HIDE DEF c
  <2> QED
    BY <1>2, <2>1, <2>2 DEF Choice
<1> HIDE DEF c
<1>5. ASSUME NEW d \in 1 .. depth' PROVE Choice(open'[d], ifdef'[d])
  <2>1. /\ depth' = depth + 1 /\ depth \in Nat /\ open \in Seq(TrueConditional)
        /\ Len(open) = depth
    BY <1>1, <1>3, DepthLevels
  <2>2. CASE d = depth + 1
    <3>1. open'[d] = c /\ ifdef'[d] = Pushed(~zero)
      BY <1>1, <1>2, <1>3, <2>1, <2>2, DepthLevels
    <3> QED
      BY <1>4, <3>1
  <2>3. CASE d # depth + 1
    <3>1. d \in 1 .. depth
      BY <2>1, <2>3
    <3>2. open'[d] = open[d]
      BY <1>3, <2>1, <3>1
    <3>3. ifdef'[d] = ifdef[d]
      BY <1>1, <3>1, DepthLevels
    <3> QED
      BY <3>1, <3>2, <3>3 DEF BranchInv, Choices
  <2> QED
    BY <2>2, <2>3
<1> QED
  BY <1>1, <1>5 DEF BranchInv, Choices

LEMMA ElifElseChoice ==
  ASSUME BranchInv, plain', TypeOK', NEW isElse \in BOOLEAN, ElifElse(isElse)
  PROVE  BranchInv'
<1>1. /\ NestInv /\ NestInv' /\ UNCHANGED nestLevel /\ nestLevel > 0
      /\ \A d \in Levels : d # nestLevel => ifdef'[d] = ifdef[d]
  BY ElifElseNest DEF BranchInv
<1>2. /\ depth = nestLevel /\ depth \in 1 .. depth /\ depth \in Levels
      /\ open \in Seq(TrueConditional) /\ Len(open) = depth
      /\ ifdef[depth] \in Conditional /\ resolveRequired \in BOOLEAN
  BY <1>1, DepthLevels DEF NestInv, TypeOK
<1> DEFINE c == open[depth]
           f == ifdef[depth]
           new == Later(c, isElse, ~skipping')
<1>3. ~c.isElse
  BY <1>1, SwitchesPlain DEF ElifElse
<1>4. open' = [open EXCEPT ![depth] = new] /\ depth' = depth
  BY <1>1, SwitchesPlain DEF ElifElse
<1>5. /\ ifdef'[depth].branchChosen = Chosen(isElse)
      /\ ifdef'[depth].singleBranch = SingleBranch
      /\ ifdef'[depth].ignoring = isIgnoreBranch
  BY <1>1, <1>2 DEF ElifElse, SwitchBranch, NestInv, TypeOK
<1>6. /\ new.zero = c.zero /\ new.incomplete = c.incomplete /\ new.outer = c.outer
      /\ new.branch = 2 /\ new.isElse = isElse
      /\ new.enRoute => c.enRoute \/ (resolveRequired /\ ~BraceFormat)
  <2>1. c \in TrueConditional
    BY <1>1, <1>2, DepthLevels
  <2> HIDE DEF c
  <2> QED
    BY <2>1 DEF Later, Count, TrueConditional
<1>7. Choice(c, f)
  BY <1>2 DEF BranchInv, Choices
<1> HIDE DEF c, new
<1>8. Choice(new, ifdef'[depth])
  <2>1. /\ SingleBranch <=> f.singleBranch \/ (resolveRequired /\ ~BraceFormat)
        /\ isIgnoreBranch <=> f.ignoreAllBranches \/ (f.branchChosen /\ SingleBranch)
        /\ ~isElse => Chosen(isElse) = f.branchChosen
    BY <1>2 DEF SingleBranch, isIgnoreBranch, Chosen
  <2>2. /\ ~c.zero => f.branchChosen
        /\ c.incomplete \/ c.enRoute => f.singleBranch
    BY <1>3, <1>7 DEF Choice
  <2>3. ~new.zero /\ ~new.isElse => ifdef'[depth].branchChosen
    BY <1>5, <1>6, <2>1, <2>2
  <2>4. new.incomplete \/ new.enRoute => ifdef'[depth].singleBranch
    BY <1>5, <1>6, <2>1, <2>2
  <2>5. ~new.zero /\ (new.incomplete \/ new.enRoute) => ifdef'[depth].ignoring
    BY <1>5, <1>6, <2>1, <2>2
  <2>6. new.branch # 1
    BY <1>6
  <2> QED
    BY <2>3, <2>4, <2>5, <2>6 DEF Choice
<1>9. ASSUME NEW d \in 1 .. depth' PROVE Choice(open'[d], ifdef'[d])
  <2>1. depth' = depth /\ d \in 1 .. depth /\ depth \in Nat
    BY <1>2, <1>4
  <2>2. CASE d = depth
    BY <1>2, <1>4, <1>8, <2>2
  <2>3. CASE d # depth
    <3>1. open'[d] = open[d]
      BY <1>2, <1>4, <2>1, <2>3
    <3>2. ifdef'[d] = ifdef[d]
      BY <1>1, <1>2, <2>1, <2>3, DepthLevels
    <3> QED
      BY <2>1, <3>1, <3>2 DEF BranchInv, Choices
  <2> QED
    BY <2>2, <2>3
<1> QED
  BY <1>1, <1>9 DEF BranchInv, Choices

LEMMA EndifChoice ==
  ASSUME BranchInv, plain', TypeOK', Endif
  PROVE  BranchInv'
<1>1. NestInv /\ NestInv' /\ nestLevel > 0 /\ UNCHANGED ifdef
  BY EndifNest DEF BranchInv
<1>2. /\ depth = nestLevel /\ depth \in Nat /\ open \in Seq(TrueConditional)
      /\ Len(open) = depth
  BY <1>1, DepthLevels
<1>3. open # << >> /\ open' = SubSeq(open, 1, Len(open) - 1) /\ depth' = depth - 1
  BY <1>1, <1>2, ClosesPlain DEF Endif
<1>4. depth' = depth - 1 /\ \A d \in 1 .. depth - 1 : open'[d] = open[d]
  BY <1>2, <1>3, PoppedSeq
<1>5. ASSUME NEW d \in 1 .. depth' PROVE Choice(open'[d], ifdef'[d])
  <2>1. d \in 1 .. depth /\ open'[d] = open[d] /\ ifdef'[d] = ifdef[d]
    BY <1>1, <1>2, <1>4
  <2> QED
    BY <2>1 DEF BranchInv, Choices
<1> QED
  BY <1>1, <1>5 DEF BranchInv, Choices

\* As long as the source is plain, of a conditional within a statement get.c
\* follows the first branch only, and none after one in which a statement was
\* found incomplete, in either pass and whatever the parser tells it.
THEOREM BranchChoiceCorrect == Spec => []BranchChoice
<1> DEFINE PlainChoices == PlainInv /\ (plain => Choices)
<1>1. Init => PlainChoices
  <2> SUFFICES ASSUME Init PROVE PlainChoices
    OBVIOUS
  <2>1. depth = 0
    BY DEF Init
  <2> QED
    BY <2>1, InitType, InitNest DEF PlainInv, Choices
<1>2. PlainChoices /\ [Next]_vars => PlainChoices'
  <2> SUFFICES ASSUME PlainChoices, [Next]_vars, plain' PROVE Choices'
    BY NextPlain
  <2> SUFFICES BranchInv'
    BY DEF BranchInv
  <2>1. BranchInv /\ TypeOK'
    BY StaysPlain, NextType DEF PlainInv, BranchInv
  <2>2. CASE \E zero, short \in BOOLEAN : If(zero, short)
    BY <2>1, <2>2, IfChoice
  <2>3. CASE \E isElse \in BOOLEAN : ElifElse(isElse)
    BY <2>1, <2>3, ElifElseChoice
  <2>4. CASE Endif
    BY <2>1, <2>4, EndifChoice
  <2>5. CASE \/ DeliverText
             \/ \E word \in {"if", "else", "other"}, rest \in BOOLEAN : SkipText(word, rest)
             \/ NullDirective
             \/ \E rest \in BOOLEAN : OtherDirective(rest)
             \/ UNCHANGED vars
    <3>1. NestInv' /\ UNCHANGED << ifdef, depth, open >>
      BY <2>1, <2>5, QuietNest DEF BranchInv
    <3> QED
      BY <2>1, <3>1 DEF BranchInv, Choices
  <2> QED
    BY <2>1, <2>2, <2>3, <2>4, <2>5 DEF Next, Directive
<1>3. PlainChoices => BranchChoice
  <2> SUFFICES ASSUME PlainChoices, NEW d \in DOMAIN open,
                      open[d].outer /\ ~open[d].zero
               PROVE  /\ open[d].incomplete => (Shown(d) <=> open[d].branch = 1)
                      /\ open[d].enRoute => ~Shown(d)
    BY DEF BranchChoice
  <2>1. plain /\ d \in 1 .. depth
    BY DEF PlainInv, TypeOK
  <2>2. Choice(open[d], ifdef[d])
    BY <2>1 DEF Choices
  <2> QED
    BY <2>2 DEF Choice, Shown
<1> QED
  BY <1>1, <1>2, <1>3, PTL DEF Spec

-------------------------------------------------------------------------------
(* The conditionals implement ConditionalNest                              *)

LEMMA ShownSeq ==
  ASSUME NestInv
  PROVE  /\ ShownBranches \in Seq(BOOLEAN) /\ Len(ShownBranches) = nestLevel
         /\ nestLevel \in Nat
         /\ \A d \in 1 .. nestLevel : d \in Levels /\ ShownBranches[d] = ~ifdef[d].ignoring
<1>1. nestLevel \in Nat
  BY LevelFacts DEF NestInv, TypeOK
<1>2. \A d \in 1 .. nestLevel : d \in Levels
  BY <1>1, CppAssumption DEF CppAssumption, Levels, NestInv, TypeOK
<1> QED
  BY <1>1, <1>2 DEF ShownBranches

\* What is around conditional d is the level below it.
LEMMA AroundLevel ==
  ASSUME NestInv, NEW d \in 1 .. nestLevel + 1
  PROVE  Nest!Around(d) <=> ~ifdef[d - 1].ignoring
<1>1. nestLevel \in Nat
  BY ShownSeq
<1>2. CASE d = 1
  BY <1>2 DEF Nest!Around, NestInv
<1>3. CASE d # 1
  <2>1. d - 1 \in 1 .. nestLevel /\ ~(d <= 1)
    BY <1>1, <1>3
  <2> QED
    BY <2>1, ShownSeq DEF Nest!Around
<1> QED
  BY <1>2, <1>3

LEMMA IfOpens ==
  ASSUME NestInv, plain', TypeOK', NEW zero \in BOOLEAN, NEW short \in BOOLEAN,
         If(zero, short)
  PROVE  \E v \in BOOLEAN : Nest!Open(v)
<1> DEFINE v == ~skipping'
<1>1. /\ NestInv' /\ nestLevel' = nestLevel + 1
      /\ \A d \in Levels : d <= nestLevel => ifdef'[d] = ifdef[d]
  BY IfNest
<1>2. v <=> ~ifdef'[nestLevel'].ignoring
  BY <1>1 DEF NestInv, isIgnore
<1>3. v => Nest!Around(Len(ShownBranches) + 1)
  <2>1. nestLevel' > 0 /\ nestLevel' \in Levels /\ nestLevel' - 1 = nestLevel /\ nestLevel \in Levels
    BY <1>1, ShownSeq DEF NestInv, TypeOK
  <2>2. ifdef'[nestLevel].ignoring => ifdef'[nestLevel'].ignoring
    <3>1. nestLevel' <= nestLevel'
      BY <2>1, LevelFacts
    <3>2. Inherits'
      BY <1>1 DEF NestInv
    <3>3. /\ ifdef'[nestLevel'].ignoreAllBranches <=> ifdef'[nestLevel' - 1].ignoring
          /\ ifdef'[nestLevel'].ignoreAllBranches => ifdef'[nestLevel'].ignoring
      BY <2>1, <3>1, <3>2 DEF Inherits
    <3> QED
      BY <2>1, <3>3
  <2>3. ifdef'[nestLevel] = ifdef[nestLevel]
    BY <1>1, <2>1, ShownSeq
  <2>4. nestLevel + 1 \in 1 .. nestLevel + 1 /\ nestLevel + 1 - 1 = nestLevel
    BY ShownSeq
  <2>5. Nest!Around(nestLevel + 1) <=> ~ifdef[nestLevel].ignoring
    <3>1. PICK d \in 1 .. nestLevel + 1 : d = nestLevel + 1
      BY <2>4
    <3>2. Nest!Around(d) <=> ~ifdef[d - 1].ignoring
      BY AroundLevel
    <3>3. d - 1 = nestLevel
      BY <3>1, ShownSeq
    <3>4. Nest!Around(d) <=> ~ifdef[nestLevel].ignoring
      BY <3>2, <3>3
    <3> QED
      BY <3>1, <3>4
  <2>6. Len(ShownBranches) = nestLevel
    BY ShownSeq
  <2> QED
    BY <1>2, <2>2, <2>3, <2>5, <2>6
<1>4. ShownBranches' = Append(ShownBranches, v)
  <2>1. /\ ShownBranches' \in Seq(BOOLEAN) /\ Len(ShownBranches') = nestLevel + 1
        /\ \A d \in 1 .. nestLevel + 1 : d \in Levels /\ ShownBranches'[d] = ~ifdef'[d].ignoring
    <3>1. /\ ShownBranches' \in Seq(BOOLEAN) /\ Len(ShownBranches') = nestLevel'
          /\ \A d \in 1 .. nestLevel' : d \in Levels /\ ShownBranches'[d] = ~ifdef'[d].ignoring
      BY <1>1, CppAssumption DEF CppAssumption, ShownBranches, NestInv, TypeOK, Levels
    <3> QED
      BY <1>1, <3>1
  <2>2. \A d \in 1 .. nestLevel : ShownBranches'[d] = ShownBranches[d]
    BY <1>1, <2>1, ShownSeq
  <2>3. ShownBranches'[nestLevel + 1] = v
    <3>1. ShownBranches'[nestLevel + 1] = ~ifdef'[nestLevel'].ignoring
      BY <1>1, <2>1, ShownSeq
    <3> QED
      BY <1>2, <3>1, <1>1 DEF NestInv, TypeOK
  <2> HIDE DEF v
  <2> QED
    BY <2>1, <2>2, <2>3, ShownSeq
<1>5. v \in BOOLEAN
  OBVIOUS
<1>6. Nest!Open(v)
  BY <1>3, <1>4 DEF Nest!Open
<1> QED
  BY <1>5, <1>6

LEMMA ElifElseSwitches ==
  ASSUME NestInv, plain', TypeOK', NEW isElse \in BOOLEAN, ElifElse(isElse)
  PROVE  \E v \in BOOLEAN : Nest!Switch(v)
<1> DEFINE v == ~skipping'
<1>1. /\ NestInv' /\ UNCHANGED nestLevel /\ nestLevel > 0
      /\ ifdef'[nestLevel].ignoring = skipping'
      /\ ifdef[nestLevel].ignoreAllBranches => skipping'
      /\ \A d \in Levels : d # nestLevel => ifdef'[d] = ifdef[d]
  BY ElifElseNest
<1>2. /\ nestLevel \in Nat /\ Len(ShownBranches) = nestLevel
      /\ \A d \in 1 .. nestLevel : d \in Levels /\ ShownBranches[d] = ~ifdef[d].ignoring
  BY ShownSeq
<1>3. v => Nest!Around(Len(ShownBranches))
  <2>1. ifdef[nestLevel].ignoreAllBranches <=> ifdef[nestLevel - 1].ignoring
    BY <1>1, <1>2 DEF NestInv, Inherits, TypeOK
  <2>2. nestLevel \in 1 .. nestLevel + 1
    BY <1>1, <1>2
  <2> QED
    BY <1>1, <1>2, <2>1, <2>2, AroundLevel
<1>4. ShownBranches' = [ShownBranches EXCEPT ![nestLevel] = v]
  <2> DEFINE new(d) == ~ifdef'[d].ignoring
             updated(d) == IF d = nestLevel THEN v ELSE ShownBranches[d]
  <2>1. ShownBranches' = [d \in 1 .. nestLevel |-> new(d)]
    BY <1>1 DEF ShownBranches
  <2>2. [ShownBranches EXCEPT ![nestLevel] = v] = [d \in 1 .. nestLevel |-> updated(d)]
    BY DEF ShownBranches
  <2>3. ASSUME NEW d \in 1 .. nestLevel PROVE new(d) = updated(d)
    <3>1. CASE d = nestLevel
      <4>1. v <=> new(d)
        BY <1>1, <3>1
      <4> QED
        BY <3>1, <4>1
    <3>2. CASE d # nestLevel
      <4>1. ifdef'[d] = ifdef[d]
        BY <1>1, <1>2, <3>2
      <4> QED
        BY <1>2, <3>2, <4>1
    <3> QED
      BY <3>1, <3>2
  <2> HIDE DEF new, updated
  <2> QED
    BY <2>1, <2>2, <2>3
<1>5. ShownBranches # << >>
  BY <1>1, <1>2
<1>6. v \in BOOLEAN
  OBVIOUS
<1>7. Nest!Switch(v)
  BY <1>2, <1>3, <1>4, <1>5 DEF Nest!Switch
<1> QED
  BY <1>6, <1>7

LEMMA EndifCloses ==
  ASSUME NestInv, plain', TypeOK', Endif
  PROVE  Nest!Close
<1>1. NestInv' /\ nestLevel' = nestLevel - 1 /\ nestLevel > 0 /\ UNCHANGED ifdef
  BY EndifNest
<1>2. /\ nestLevel \in Nat /\ Len(ShownBranches) = nestLevel
      /\ ShownBranches \in Seq(BOOLEAN)
  BY ShownSeq
<1>3. ShownBranches # << >>
  BY <1>1, <1>2
<1>4. ShownBranches' = SubSeq(ShownBranches, 1, Len(ShownBranches) - 1)
  <2>1. ShownBranches' = [d \in 1 .. nestLevel - 1 |-> ~ifdef[d].ignoring]
    BY <1>1 DEF ShownBranches
  <2>2. ShownBranches = [d \in 1 .. nestLevel |-> ~ifdef[d].ignoring]
    BY DEF ShownBranches
  <2>3. nestLevel - 1 \in Nat /\ nestLevel - 1 <= nestLevel
    BY <1>1, <1>2
  <2> QED
    BY <2>1, <2>2, <2>3, <1>2
<1>5. ~skipping' <=> Nest!Around(Len(ShownBranches))
  <2>1. nestLevel \in 1 .. nestLevel + 1
    BY <1>1, <1>2
  <2>2. skipping' <=> ifdef[nestLevel - 1].ignoring
    BY <1>1 DEF NestInv, isIgnore
  <2> QED
    BY <1>2, <2>1, <2>2, AroundLevel
<1> QED
  BY <1>3, <1>4, <1>5 DEF Nest!Close, Nest!Around

\* As long as the source is plain, get.c delivers text by the rules of nested
\* conditionals.
THEOREM NestCorrect == Spec => ImplementsNest
<1>1. Init => Nest!Init
  <2> SUFFICES ASSUME Init PROVE Nest!Init
    OBVIOUS
  <2>1. nestLevel = 0 /\ ~skipping
    BY DEF Init
  <2>2. ShownBranches = << >>
    BY <2>1 DEF ShownBranches
  <2> QED
    BY <2>1, <2>2 DEF Nest!Init
<1>2. PlainInv /\ [Next]_vars => [plain' => Nest!Next]_<< ShownBranches, skipping >>
  <2> SUFFICES ASSUME PlainInv, [Next]_vars, plain'
               PROVE  Nest!Next \/ UNCHANGED << ShownBranches, skipping >>
    OBVIOUS
  <2>1. NestInv /\ TypeOK'
    BY StaysPlain, NextType DEF PlainInv
  <2>2. CASE \E zero, short \in BOOLEAN : If(zero, short)
    BY <2>1, <2>2, IfOpens DEF Nest!Next
  <2>3. CASE \E isElse \in BOOLEAN : ElifElse(isElse)
    BY <2>1, <2>3, ElifElseSwitches DEF Nest!Next
  <2>4. CASE Endif
    BY <2>1, <2>4, EndifCloses DEF Nest!Next
  <2>5. CASE \/ DeliverText
             \/ \E word \in {"if", "else", "other"}, rest \in BOOLEAN : SkipText(word, rest)
             \/ NullDirective
             \/ \E rest \in BOOLEAN : OtherDirective(rest)
             \/ UNCHANGED vars
    <3>1. /\ UNCHANGED << nestLevel, ifdef >>
          /\ skipping' <=> skipping
      BY <2>1, <2>5, QuietNest
    <3>2. UNCHANGED ShownBranches
      BY <3>1 DEF ShownBranches
    <3>3. skipping \in BOOLEAN /\ skipping' \in BOOLEAN
      BY <2>1 DEF NestInv, TypeOK
    <3> QED
      BY <3>1, <3>2, <3>3
  <2> QED
    BY <2>1, <2>2, <2>3, <2>4, <2>5 DEF Next, Directive
<1> QED
  BY <1>1, <1>2, PlainInvariant, PTL DEF Spec, ImplementsNest
===============================================================================
