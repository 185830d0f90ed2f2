--------------------------- MODULE CStatements_proofs ---------------------------
(***************************************************************************)
(* The statements of c.c keep in step with the source: what the innermost  *)
(* statement holds is a matter of the place in the declaration it reads,   *)
(* and what those around it hold one of the blocks they have opened.       *)
(***************************************************************************)
EXTENDS CStatements, Iteration, SequenceTheorems

\* Sources c.c reads as they are meant, in the plug-in and in the first pass of
\* ctags, with the bodies of functions skipped.
AsMeant == Deviations = {} /\ "local" \in Disabled /\ Passes \subseteq {0, 1}

-------------------------------------------------------------------------------
(* Types                                                                       *)

\* The fields of a statement, of a position in the source and of a block.
Fields ==
  { "scope", "declaration", "gotName", "haveQualifyingName", "gotParenName", "gotArgs",
    "isPointer", "inFunction", "assignment", "notVariable", "implementation", "token",
    "context", "blockName", "access", "accessDefault" }

IsStatement(st) == DOMAIN st = Fields /\ DOMAIN st.token = 1 .. 3

TypeKinds == {"class", "struct", "union", "enum"}

Block ==
  [ kind : TypeKinds \union {"namespace", "linkage"}, name : {B, Anon},
    access : {"undef", "private", "public"}, storage : {"none", "typedef", "static", "extern"} ]

PositionFields == {"blocks", "at", "storage", "head", "listed", "next", "after", "made"}

IsPosition(g) ==
  /\ DOMAIN g = PositionFields /\ g.blocks \in Seq(Block) /\ g.listed \in BOOLEAN
  /\ g.storage \in {"none", "typedef", "static", "extern", "virtual"}
  /\ g.head \in TypeKinds \union {"none"} /\ g.after \in {"end", "namespace", "using"}

\* Tokens.
NameToken(n) == [type |-> "name", word |-> n]
KeyToken(k)  == [type |-> "key", word |-> k]
Mark(c)      == [type |-> c, word |-> ""]

\* Punctuation by name: the provers do not take these characters in a string.
Semicolon == ";"    Comma == ","    Opening == "{"    Closing == "}"

IsSequence(s) == s \in Seq({s[i] : i \in DOMAIN s})

-------------------------------------------------------------------------------
(* The blocks around a position and their statements                       *)

\* Which blocks may be in which, and what they are declared with.
Nested(blocks) ==
  \A i \in 1 .. Len(blocks) :
    /\ blocks[i].kind \in {"namespace", "linkage"} => blocks[i].storage = "none"
    /\ i < Len(blocks) => blocks[i].kind # "enum"
    /\ blocks[i].kind \notin {"class", "struct", "union"} => blocks[i].access = "undef"
    /\ \A j \in 1 .. i - 1 :
         /\ blocks[i].kind = "namespace" => blocks[j].kind \in {"namespace", "linkage"}
         /\ blocks[i].kind = "linkage" => blocks[j].kind = "linkage"

\* The storage class a declaration is made with, as the parser keeps it.
ScopeOf(storage) == IF storage \in {"none", "virtual"} THEN "global" ELSE storage

AccessIn(blocks, i) == IF i = 0 THEN "undef" ELSE blocks[i].access

\* What all statements have in common that are not in the midst of a declarator.
Plain(st) ==
  /\ ~ st.inFunction /\ ~ st.assignment /\ ~ st.notVariable

\* A statement around others, at the brace of its block.
Encloses(blocks, i, st) ==
  /\ IsStatement(st) /\ Plain(st)
  /\ st.declaration = IF blocks[i].kind = "linkage" THEN "nomangle" ELSE blocks[i].kind
  /\ blocks[i].kind # "linkage" => st.blockName = [type |-> "name", word |-> blocks[i].name]
  /\ st.scope = ScopeOf(blocks[i].storage) /\ st.implementation = "default"
  /\ st.access = AccessIn(blocks, i - 1) /\ st.accessDefault = AccessIn(blocks, i - 1)
  /\ ~ st.gotParenName /\ ~ st.gotArgs /\ ~ st.isPointer
  /\ st.context = << >> /\ active(st) = Mark(Opening)

Enclosing(blocks, up) ==
  /\ IsSequence(up) /\ Len(up) = Len(blocks)
  /\ \A i \in 1 .. Len(blocks) : Encloses(blocks, i, up[i])

-------------------------------------------------------------------------------
(* The innermost statement at each place of a declaration                  *)

\* A token that does not make what comes after it a declaration ahead.
NoHead(token) == ~ (token.type = "key" /\ token.word \in ContextualKeywords)

\* The declaration of a statement whose type is known.
DeclaredAs(g) == IF g.head = "none" THEN "base" ELSE g.head

\* A type of the user is one only once the name of what is declared is read.
TypeRead(g, st) ==
  st.declaration = DeclaredAs(g) \/ (st.declaration = "none" /\ st.gotName /\ g.head = "none")

Specified(g) == g.storage # "none" \/ g.head # "none" \/ g.listed

Qualifieds == {"qualified", "qualifiedname", "qualifiedargs"}

\* What does not depend on the place, or on it alone.
Common(g, st) ==
  /\ IsStatement(st) /\ Plain(st) /\ st.token[1] = None
  /\ st.scope = (IF g.at = "linkage" THEN "extern" ELSE ScopeOf(g.storage))
  /\ st.access = Top(g).access /\ st.accessDefault = Top(g).access
  /\ st.context = (IF g.at \in Qualifieds THEN << B >> ELSE << >>)
  /\ (st.isPointer <=> g.at \in {"fptr", "fargs"})
  /\ (st.gotParenName <=> g.at \in {"fptr", "fargs"})
  /\ g.at # "call" => (st.gotArgs <=> g.at \in {"args", "fargs", "ctorargs", "qualifiedargs"})
  /\ st.implementation = IF g.storage = "virtual" /\ ~ g.listed THEN "virtual" ELSE "default"

\* Where a member of an enumeration may be read, and where nothing else may.
Enumerated(g) ==
  IF Top(g).kind = "enum" THEN g.at \in {"start", "enumerator", "last"}
                          ELSE g.at \notin {"enumerator", "last"}

AtStart(g, st) ==
  /\ ~ Specified(g)
  /\ g.after = "end" =>
       /\ st.declaration = (IF IsMemberOf(g) THEN "base" ELSE "none")
       /\ ~ st.gotName /\ ~ st.haveQualifyingName /\ prev(st) = None /\ prev2(st) = None
  /\ g.after # "end" => ~ ClassLike(g) /\ Top(g).kind # "enum"
  /\ g.after = "using" => st.declaration = "ignore" /\ prev(st) = KeyToken("using")
  /\ g.after = "namespace" => st.declaration = "namespace" /\ prev(st) = Mark(Closing)

AtSpec(g, st) ==
  /\ g.storage # "none" /\ g.head = "none" /\ ~ g.listed
  /\ st.declaration \in {"base", "none"} /\ prev(st) \in {None, KeyToken("virtual")}

AtType(g, st) ==
  /\ TypeRead(g, st) /\ NoHead(prev(st))
  /\ ~ g.listed => prev(st).type # "none" /\ g.head = "none"

AtUserType(g, st) ==
  /\ ~ Specified(g) /\ FileLevel(g) /\ st.declaration = "none" /\ st.gotName
  /\ prev(st) = NameToken(T) /\ prev2(st) = None

AtPointer(g, st) == TypeRead(g, st) /\ NoHead(prev(st))

AtName(g, st) ==
  /\ st.declaration = DeclaredAs(g) /\ st.haveQualifyingName
  /\ prev(st) = NameToken(e) /\ NoHead(prev2(st))

AtFptr(g, st) ==
  /\ st.declaration = DeclaredAs(g) /\ st.haveQualifyingName /\ prev(st) = NameToken(e)

\* After the parameters of a function of some name.
AtArgs(g, st, name) ==
  /\ st.declaration = DeclaredAs(g) /\ st.haveQualifyingName
  /\ prev(st) = Mark("args") /\ prev2(st) = NameToken(name)

AtCtor(g, st) ==
  /\ ~ Specified(g) /\ ClassLike(g) /\ st.declaration = "base" /\ st.haveQualifyingName
  /\ prev(st) = NameToken(B)

AtHead(g, st) ==
  /\ ~ g.listed /\ g.storage # "virtual" /\ g.head # "none" /\ st.declaration = g.head

AtQualifier(g, st) ==
  ~ Specified(g) /\ g.blocks = << >> /\ st.declaration = "base"

AtCall(g, st) ==
  /\ ~ Specified(g) /\ FileLevel(g) /\ st.declaration = "none"
  /\ prev(st) \in {None, Mark("args")}

AtNamespace(g, st) ==
  ~ Specified(g) /\ ~ ClassLike(g) /\ st.declaration = "namespace"

AtLinkage(g, st) ==
  ~ Specified(g) /\ FileLevel(g) /\ prev(st) = None

Placed(g, st) ==
  /\ g.at = "start"         => AtStart(g, st)
  /\ g.at = "spec"          => AtSpec(g, st)
  /\ g.at = "type"          => AtType(g, st)
  /\ g.at = "usertype"      => AtUserType(g, st)
  /\ g.at = "pointer"       => AtPointer(g, st)
  /\ g.at = "name"          => AtName(g, st)
  /\ g.at = "fptr"          => AtFptr(g, st)
  /\ g.at \in {"args", "fargs"} => AtArgs(g, st, e)
  /\ g.at = "ctor"          => AtCtor(g, st)
  /\ g.at = "args" /\ g.next = "=" => g.storage = "virtual"
  /\ g.at = "ctorargs"      => AtArgs(g, st, B) /\ ~ Specified(g) /\ g.next \notin {Comma, "="}
  /\ g.at = "head"          => AtHead(g, st) /\ prev(st) = KeyToken(g.head)
  /\ g.at \in {"headname", "bases"} =>
       AtHead(g, st) /\ prev(st) = NameToken(B) /\ prev2(st) = KeyToken(g.head)
  /\ g.at = "closed"        => AtHead(g, st) /\ prev(st) = Mark(Closing)
  /\ g.at = "qualifier"     => AtQualifier(g, st) /\ prev(st) = NameToken(B)
  /\ g.at = "qualified"     => AtQualifier(g, st) /\ prev(st) = Mark("::")
  /\ g.at = "qualifiedname" =>
       AtQualifier(g, st) /\ st.haveQualifyingName
       /\ prev(st) = NameToken(e) /\ prev2(st) = Mark("::")
  /\ g.at = "qualifiedargs" => AtQualifier(g, st) /\ AtArgs(g, st, e)
  /\ g.at = "call"          => AtCall(g, st)
  /\ g.at = "namespace"     => AtNamespace(g, st) /\ prev(st) = KeyToken("namespace")
  /\ g.at = "namespacename" => AtNamespace(g, st) /\ prev(st) = NameToken(B)
  /\ g.at = "linkage"       => AtLinkage(g, st) /\ ~ st.haveQualifyingName
  /\ g.at = "linked"        => AtLinkage(g, st) /\ st.declaration = "nomangle"
  /\ g.at \in {"enumerator", "last"} => ~ Specified(g) /\ st.declaration = "base"

-------------------------------------------------------------------------------
(* The invariant                                                           *)

Around(sts) == SubSeq(sts, 1, Len(sts) - 1)
Innermost(sts) == sts[Len(sts)]

Places ==
  { "start", "spec", "type", "usertype", "pointer", "name", "fptr", "fargs", "args", "ctor",
    "ctorargs", "head", "headname", "bases", "closed", "qualifier", "qualified",
    "qualifiedname", "qualifiedargs", "call", "namespace", "namespacename", "linkage",
    "linked", "enumerator", "last" }

\* A statement that fits the position g.
Matches(g, st) == g.at \in Places /\ Enumerated(g) /\ Common(g, st) /\ Placed(g, st)

InStep(sts, g) ==
  /\ IsPosition(g) /\ Nested(g.blocks)
  /\ IsSequence(sts) /\ Len(sts) = Len(g.blocks) + 1
  /\ Enclosing(g.blocks, Around(sts)) /\ Matches(g, Innermost(sts))

StatementInv ==
  /\ language \in {"c", "cpp"} /\ passCount \in {0, 1}
  /\ exception = "running" => InStep(statements, src)
  /\ exception # "running" => statements = << >>
  /\ ErrorsFit /\ TagsAsDeclared /\ ResolvedBetween

-------------------------------------------------------------------------------
(* Sequences of any values                                                 *)

LEMMA SequenceIs ==
  ASSUME NEW s, IsSequence(s)
  PROVE  Len(s) \in Nat /\ DOMAIN s = 1 .. Len(s)
BY DEF IsSequence

LEMMA InSequence ==
  ASSUME NEW S, NEW s \in Seq(S)
  PROVE  IsSequence(s)
<1> DEFINE V == {s[i] : i \in DOMAIN s}
<1>1. Len(s) \in Nat /\ DOMAIN s = 1 .. Len(s) /\ \A i \in 1 .. Len(s) : s[i] \in V
  OBVIOUS
<1>2. s = [i \in 1 .. Len(s) |-> s[i]]
  OBVIOUS
<1> HIDE DEF V
<1>3. [i \in 1 .. Len(s) |-> s[i]] \in Seq(V)
  BY <1>1
<1>4. s \in Seq(V)
  BY <1>2, <1>3
<1> QED
  BY <1>4 DEF IsSequence, V

\* The last element of a sequence and the others.
LEMMA LastAndFront ==
  ASSUME NEW up, IsSequence(up), NEW x
  PROVE  LET s == Append(up, x)
         IN  /\ IsSequence(s) /\ Len(s) = Len(up) + 1
             /\ Around(s) = up /\ Innermost(s) = x
<1> DEFINE V == {up[i] : i \in DOMAIN up}
           W == V \union {x}
           s == Append(up, x)
<1>1. up \in Seq(V)
  BY DEF IsSequence
<1> HIDE DEF V
<1>2. up \in Seq(W) /\ x \in W
  BY <1>1
<1> HIDE DEF W
<1>3. s \in Seq(W) /\ Len(s) = Len(up) + 1 /\ s[Len(s)] = x
  BY <1>2
<1>4. SubSeq(s, 1, Len(s) - 1) = up
  BY <1>2
<1>5. IsSequence(s)
  BY <1>3, InSequence
<1> HIDE DEF s
<1> QED
  BY <1>3, <1>4, <1>5 DEF Around, Innermost, s

LEMMA FrontIs ==
  ASSUME NEW s, IsSequence(s), Len(s) > 0
  PROVE  /\ IsSequence(Around(s)) /\ Len(Around(s)) = Len(s) - 1
         /\ \A i \in 1 .. Len(s) - 1 : Around(s)[i] = s[i]
<1> DEFINE V == {s[i] : i \in DOMAIN s}
<1>1. s \in Seq(V)
  BY DEF IsSequence
<1> HIDE DEF V
<1>2. Around(s) \in Seq(V) /\ Len(Around(s)) = Len(s) - 1
  <2>1. Len(s) \in Nat /\ Len(s) - 1 \in 0 .. Len(s)
    BY <1>1
  <2>2. SubSeq(s, 1, Len(s) - 1) \in Seq(V)
    BY <1>1, <2>1
  <2>3. Len(SubSeq(s, 1, Len(s) - 1)) = Len(s) - 1
    BY <1>1, <2>1, SubSeqProperties
  <2> QED
    BY <2>2, <2>3 DEF Around
<1>3. \A i \in 1 .. Len(s) - 1 : Around(s)[i] = s[i]
  BY <1>1 DEF Around
<1> QED
  BY <1>2, <1>3, InSequence

-------------------------------------------------------------------------------
(* The statements around the innermost                                     *)

\* What a statement asks of those around it.
LEMMA Surroundings ==
  ASSUME NEW g, IsPosition(g), NEW up, Enclosing(g.blocks, up)
  PROVE  /\ parentDecl(up) = (IF g.blocks = << >> THEN "none"
                              ELSE IF Top(g).kind = "linkage" THEN "nomangle" ELSE Top(g).kind)
         /\ isContextual(up) <=> IsMemberOf(g)
         /\ insideEnumBody(up) <=> Top(g).kind = "enum"
         /\ ~ (IF up = << >> THEN FALSE ELSE up[Len(up)].inFunction)
         /\ up = << >> <=> g.blocks = << >>
<1> DEFINE blocks == g.blocks
           top == Top(g)
<1>1. blocks \in Seq(Block) /\ IsSequence(up) /\ Len(up) = Len(blocks)
  BY DEF IsPosition, Enclosing
<1>2. up = << >> <=> blocks = << >>
  <2>1. up \in Seq({up[i] : i \in DOMAIN up})
    BY <1>1 DEF IsSequence
  <2> QED
    BY <1>1, <2>1
<1>3. CASE blocks = << >>
  <2>1. top.kind = "file"
    BY <1>3 DEF Top
  <2>2. parentDecl(up) = "none"
    BY <1>2, <1>3 DEF parentDecl
  <2> QED
    BY <1>2, <1>3, <2>1, <2>2
       DEF isContextual, isContextualDecl, ContextualKeywords, insideEnumBody,
           IsMemberOf, ClassLike
<1>4. CASE blocks # << >>
  <2>1. /\ up # << >> /\ Len(blocks) \in 1 .. Len(blocks) /\ top = blocks[Len(blocks)]
        /\ top \in Block
    BY <1>1, <1>2, <1>4 DEF Top
  <2>2. Encloses(blocks, Len(blocks), up[Len(up)])
    BY <1>1, <2>1 DEF Enclosing
  <2>3. top.kind \in TypeKinds \union {"namespace", "linkage"}
    BY <2>1 DEF Block
  <2>4. parentDecl(up) = IF top.kind = "linkage" THEN "nomangle" ELSE top.kind
    BY <2>1, <2>2, <1>1 DEF parentDecl, Encloses
  <2>5. ~ up[Len(up)].inFunction
    BY <2>2 DEF Encloses, Plain
  <2> HIDE DEF top, blocks
  <2>6. isContextual(up) <=> IsMemberOf(g)
    BY <2>3, <2>4
       DEF isContextual, isContextualDecl, ContextualKeywords, IsMemberOf, ClassLike,
           TypeKinds, top
  <2>7. insideEnumBody(up) <=> top.kind = "enum"
    BY <2>3, <2>4 DEF insideEnumBody
  <2> QED
    BY <1>2, <1>4, <2>1, <2>4, <2>5, <2>6, <2>7 DEF blocks, top
<1> QED
  BY <1>3, <1>4

\* The values of a statement that starts anew.
Anew(g, st) ==
  /\ IsStatement(st) /\ Plain(st) /\ st.scope = "global"
  /\ st.declaration = (IF IsMemberOf(g) THEN "base" ELSE "none")
  /\ ~ st.gotName /\ ~ st.haveQualifyingName /\ ~ st.gotParenName /\ ~ st.gotArgs
  /\ ~ st.isPointer /\ st.implementation = "default" /\ st.context = << >>
  /\ active(st) = None /\ prev(st) = None /\ prev2(st) = None

LEMMA Reinit ==
  ASSUME NEW g, IsPosition(g), NEW up, Enclosing(g.blocks, up), NEW st, IsStatement(st)
  PROVE  LET fresh == reinitStatement(st, up, FALSE)
         IN  Anew(g, fresh) /\ fresh.access = st.accessDefault
               /\ fresh.accessDefault = st.accessDefault
<1>1. /\ ~ (IF up = << >> THEN FALSE ELSE up[Len(up)].inFunction)
      /\ FirstDeclaration(up) = (IF IsMemberOf(g) THEN "base" ELSE "none")
  BY Surroundings DEF FirstDeclaration
<1> DEFINE inFunction == IF up = << >> THEN FALSE ELSE up[Len(up)].inFunction
           first == FirstDeclaration(up)
           fresh == reinitStatement(st, up, FALSE)
<1> HIDE DEF inFunction, first
<1>2. IsStatement(fresh)
  <2>1. DOMAIN fresh = Fields
    BY DEF reinitStatement, Cleared, IsStatement
  <2>2. fresh.token = << None, None, None >>
    BY DEF reinitStatement, Cleared, IsStatement, Fields
  <2> HIDE DEF fresh
  <2> QED
    BY <2>1, <2>2 DEF IsStatement
<1>5. fresh.inFunction = inFunction /\ ~ fresh.assignment /\ ~ fresh.notVariable
  BY DEF reinitStatement, Cleared, IsStatement, Fields, inFunction
<1>6. Plain(fresh)
  BY <1>1, <1>5 DEF Plain, inFunction
<1>3. /\ fresh.scope = "global" /\ fresh.declaration = first
      /\ ~ fresh.gotName /\ ~ fresh.haveQualifyingName /\ ~ fresh.gotParenName
      /\ ~ fresh.gotArgs /\ ~ fresh.isPointer
  BY DEF reinitStatement, Cleared, IsStatement, Fields, first
<1>4. /\ fresh.implementation = "default" /\ fresh.context = << >>
      /\ active(fresh) = None /\ prev(fresh) = None /\ prev2(fresh) = None
      /\ fresh.access = st.accessDefault /\ fresh.accessDefault = st.accessDefault
  BY DEF reinitStatement, Cleared, IsStatement, Fields, active, prev, prev2
<1> QED
  BY <1>1, <1>2, <1>3, <1>4, <1>6 DEF Anew, first

-------------------------------------------------------------------------------
(* What reading a lexeme does to the statement                             *)

\* Two statements differ in some fields only.
Agree(t, s, fields) == \A f \in Fields \ fields : t[f] = s[f]

LEMMA PartialReinit ==
  ASSUME NEW g, IsPosition(g), NEW up, Enclosing(g.blocks, up), NEW st, IsStatement(st)
  PROVE  LET next == reinitStatement(st, up, TRUE)
         IN  /\ IsStatement(next) /\ Plain(next)
             /\ next.scope = st.scope /\ next.declaration = st.declaration
             /\ next.access = st.access /\ next.accessDefault = st.accessDefault
             /\ ~ next.gotName /\ ~ next.haveQualifyingName /\ ~ next.gotParenName
             /\ ~ next.gotArgs /\ ~ next.isPointer /\ next.implementation = "default"
             /\ next.context = << >>
             /\ active(next) = None /\ prev(next) = None /\ prev2(next) = None
<1>1. ~ (IF up = << >> THEN FALSE ELSE up[Len(up)].inFunction)
  BY Surroundings
<1> DEFINE inFunction == IF up = << >> THEN FALSE ELSE up[Len(up)].inFunction
           next == reinitStatement(st, up, TRUE)
<1> HIDE DEF inFunction
<1>2. DOMAIN next = Fields
  BY DEF reinitStatement, Cleared, IsStatement
<1>3. next.token = << None, None, None >>
  BY DEF reinitStatement, Cleared, IsStatement, Fields
<1>4. next.inFunction = inFunction /\ ~ next.assignment /\ ~ next.notVariable
  BY DEF reinitStatement, Cleared, IsStatement, Fields, inFunction
<1>5. /\ next.scope = st.scope /\ next.declaration = st.declaration
      /\ next.access = st.access /\ next.accessDefault = st.accessDefault
      /\ ~ next.gotName /\ ~ next.haveQualifyingName /\ ~ next.gotParenName
      /\ ~ next.gotArgs /\ ~ next.isPointer /\ next.implementation = "default"
      /\ next.context = << >>
  BY DEF reinitStatement, Cleared, IsStatement, Fields
<1> HIDE DEF next
<1>6. Plain(next)
  BY <1>1, <1>4 DEF Plain, inFunction
<1>7. IsStatement(next) /\ active(next) = None /\ prev(next) = None /\ prev2(next) = None
  BY <1>2, <1>3 DEF IsStatement, active, prev, prev2
<1> QED
  BY <1>5, <1>6, <1>7 DEF next

LEMMA Advanced ==
  ASSUME NEW st, IsStatement(st)
  PROVE  LET next == advanceToken(st)
         IN  /\ IsStatement(next) /\ Agree(next, st, {"token"})
             /\ active(next) = None /\ prev(next) = active(st) /\ prev2(next) = prev(st)
<1> DEFINE next == advanceToken(st)
<1>1. DOMAIN next = Fields /\ next.token = << None, active(st), prev(st) >>
  BY DEF advanceToken, IsStatement, Fields, active, prev
<1>2. Agree(next, st, {"token"})
  BY DEF advanceToken, Agree, IsStatement, Fields
<1> HIDE DEF next
<1>3. IsStatement(next) /\ active(next) = None /\ prev(next) = active(st) /\ prev2(next) = prev(st)
  BY <1>1 DEF IsStatement, active, prev, prev2
<1> QED
  BY <1>2, <1>3 DEF next

LEMMA TokenSet ==
  ASSUME NEW st, IsStatement(st), NEW c
  PROVE  LET next == setToken(st, c)
         IN  /\ IsStatement(next) /\ Agree(next, st, {"token"})
             /\ active(next) = Mark(c) /\ prev(next) = prev(st) /\ prev2(next) = prev2(st)
<1> DEFINE next == setToken(st, c)
<1>1. IsStatement(next) /\ Agree(next, st, {"token"})
  BY DEF setToken, Agree, IsStatement, Fields
<1> DEFINE mark == Mark(c)
<1>2. next = [st EXCEPT !.token[1] = mark]
  BY DEF setToken, Mark
<1> HIDE DEF mark
<1>3. active(next) = mark /\ prev(next) = prev(st) /\ prev2(next) = prev2(st)
  BY <1>2 DEF IsStatement, Fields, active, prev, prev2
<1> QED
  BY <1>1, <1>3 DEF mark

LEMMA NameRead ==
  ASSUME NEW st, IsStatement(st), NEW n
  PROVE  LET next == ReadName(st, n)
         IN  /\ IsStatement(next) /\ next.gotName /\ next.haveQualifyingName
             /\ Agree(next, st, {"token", "declaration", "gotName", "haveQualifyingName",
                                 "context"})
             /\ next.declaration =
                  IF st.gotName /\ st.declaration = "none" THEN "base" ELSE st.declaration
             /\ next.context = IF prev(st).type = "name" THEN << >> ELSE st.context
             /\ active(next) = NameToken(n) /\ prev(next) = prev(st) /\ prev2(next) = prev2(st)
<1> DEFINE next == ReadName(st, n)
<1>1. /\ IsStatement(next) /\ next.gotName /\ next.haveQualifyingName
      /\ next.declaration =
           IF st.gotName /\ st.declaration = "none" THEN "base" ELSE st.declaration
      /\ next.context = IF prev(st).type = "name" THEN << >> ELSE st.context
  BY DEF ReadName, processName, IsStatement, Fields, prev
<1>2. active(next) = NameToken(n) /\ prev(next) = prev(st) /\ prev2(next) = prev2(st)
  BY DEF ReadName, processName, IsStatement, Fields, active, prev, prev2, NameToken
<1>3. Agree(next, st, {"token", "declaration", "gotName", "haveQualifyingName", "context"})
  BY DEF ReadName, processName, Agree, IsStatement, Fields
<1> HIDE DEF next
<1> QED
  BY <1>1, <1>2, <1>3 DEF next

\* Keywords that are tokens of their own.
LEMMA KeyRead ==
  ASSUME NEW st, IsStatement(st), NEW up,
         NEW k \in {"int", "using", "virtual"} \union ContextualKeywords
  PROVE  LET next == ReadKeyword(st, up, k)
         IN  /\ IsStatement(next)
             /\ Agree(next, st, {"token", "declaration", "implementation"})
             /\ next.declaration = (CASE k = "int" -> "base" [] k = "using" -> "ignore"
                                      [] k = "virtual" -> st.declaration [] OTHER -> k)
             /\ next.implementation =
                  IF k = "virtual" THEN "virtual" ELSE st.implementation
             /\ active(next) = KeyToken(k) /\ prev(next) = prev(st) /\ prev2(next) = prev2(st)
<1> DEFINE next == ReadKeyword(st, up, k)
           read == [st EXCEPT !.token[1] = [type |-> "key", word |-> k]]
<1>1. /\ IsStatement(read) /\ Agree(read, st, {"token"})
      /\ active(read) = KeyToken(k) /\ prev(read) = prev(st) /\ prev2(read) = prev2(st)
  BY DEF Agree, IsStatement, Fields, active, prev, prev2, KeyToken
<1> HIDE DEF read
<1>2. CASE k = "int"
  <2>1. next = [read EXCEPT !.declaration = "base"]
    BY <1>2 DEF ReadKeyword, read, ContextualKeywords
  <2> QED
    BY <1>1, <1>2, <2>1 DEF Agree, IsStatement, Fields, active, prev, prev2
<1>3. CASE k = "using"
  <2>1. next = [read EXCEPT !.declaration = "ignore"]
    BY <1>3 DEF ReadKeyword, read, ContextualKeywords
  <2> QED
    BY <1>1, <1>3, <2>1 DEF Agree, IsStatement, Fields, active, prev, prev2
<1>4. CASE k = "virtual"
  <2>1. next = [read EXCEPT !.implementation = "virtual"]
    BY <1>4 DEF ReadKeyword, read, ContextualKeywords
  <2> QED
    BY <1>1, <1>4, <2>1 DEF Agree, IsStatement, Fields, active, prev, prev2
<1>5. CASE k \in ContextualKeywords
  <2>1. next = [read EXCEPT !.declaration = k]
    BY <1>5 DEF ReadKeyword, read, ContextualKeywords
  <2>2. k \notin {"int", "using", "virtual"}
    BY <1>5 DEF ContextualKeywords
  <2> QED
    BY <1>1, <2>1, <2>2 DEF Agree, IsStatement, Fields, active, prev, prev2
<1> QED
  BY <1>2, <1>3, <1>4, <1>5

\* Storage classes start the statement anew and are no tokens.
LEMMA StorageRead ==
  ASSUME NEW g, IsPosition(g), NEW up, Enclosing(g.blocks, up), NEW st, IsStatement(st),
         NEW k \in {"typedef", "extern", "static"}, NEW next, next = ReadKeyword(st, up, k)
  PROVE  /\ IsStatement(next) /\ Plain(next) /\ next.scope = k
         /\ next.declaration = (IF k = "typedef" /\ ~ IsMemberOf(g) THEN "none" ELSE "base")
         /\ next.access = st.accessDefault /\ next.accessDefault = st.accessDefault
         /\ ~ next.gotName /\ ~ next.haveQualifyingName /\ ~ next.gotParenName
         /\ ~ next.gotArgs /\ ~ next.isPointer /\ next.implementation = "default"
         /\ next.context = << >>
         /\ active(next) = None /\ prev(next) = None /\ prev2(next) = None
<1> DEFINE fresh == reinitStatement(st, up, FALSE)
<1>1. Anew(g, fresh) /\ fresh.access = st.accessDefault /\ fresh.accessDefault = st.accessDefault
  BY Reinit
<1> HIDE DEF fresh
<1>2. next = IF k = "typedef" THEN [fresh EXCEPT !.scope = "typedef"]
             ELSE [fresh EXCEPT !.scope = k, !.declaration = "base"]
  BY DEF ReadKeyword, ContextualKeywords, fresh
<1>3. CASE k = "typedef"
  BY <1>1, <1>2, <1>3 DEF Anew, IsStatement, Fields, Plain, active, prev, prev2
<1>4. CASE k # "typedef"
  BY <1>1, <1>2, <1>4 DEF Anew, IsStatement, Fields, Plain, active, prev, prev2
<1> QED
  BY <1>3, <1>4

-------------------------------------------------------------------------------
(* The scope of a tag                                                      *)

\* The blocks of linkage are the outermost ones.
LEMMA LinkagesFirst ==
  ASSUME NEW g, IsPosition(g), Nested(g.blocks)
  PROVE  /\ Linkages(g) \in 0 .. Len(g.blocks)
         /\ \A i \in 1 .. Len(g.blocks) : g.blocks[i].kind = "linkage" <=> i <= Linkages(g)
<1> DEFINE blocks == g.blocks
           m == Len(blocks)
           Beyond == {k \in 0 .. m : \A i \in 1 .. m : i > k => blocks[i].kind # "linkage"}
<1>1. m \in Nat
  BY DEF IsPosition
<1>2. \A i \in 1 .. m : blocks[i].kind = "linkage" =>
        \A j \in 1 .. i - 1 : blocks[j].kind = "linkage"
  BY DEF Nested
<1> HIDE DEF m, blocks
<1>3. m \in Beyond /\ Beyond \in SUBSET Nat
  BY <1>1
<1>4. PICK n \in Beyond : \A k \in Beyond : n <= k
  <2> HIDE DEF Beyond
  <2> QED
    BY <1>3, LeastNumber
<1>5. \A i \in 1 .. m : blocks[i].kind = "linkage" <=> i <= n
  <2>1. n \in 0 .. m /\ \A i \in 1 .. m : i > n => blocks[i].kind # "linkage"
    BY <1>4
  <2>2. ASSUME n # 0 PROVE n \in 1 .. m /\ blocks[n].kind = "linkage"
    <3>1. n - 1 \in 0 .. m /\ n - 1 \notin Beyond
      BY <1>1, <1>4, <2>1, <2>2
    <3>2. PICK i \in 1 .. m : i > n - 1 /\ blocks[i].kind = "linkage"
      BY <3>1
    <3>3. i = n
      BY <1>1, <2>1, <3>2
    <3> QED
      BY <3>2, <3>3
  <2>3. ASSUME NEW i \in 1 .. m, i <= n PROVE blocks[i].kind = "linkage"
    <3>1. n # 0 /\ (i = n \/ i \in 1 .. n - 1)
      BY <1>1, <2>1, <2>3
    <3> QED
      BY <1>2, <2>2, <3>1
  <2> QED
    BY <1>1, <2>1, <2>3
<1>6. \E k \in 0 .. Len(g.blocks) :
        \A i \in 1 .. Len(g.blocks) : g.blocks[i].kind = "linkage" <=> i <= k
  BY <1>4, <1>5 DEF m, blocks
<1> QED
  BY <1>6 DEF Linkages

\* The names of the blocks around a position that have one.
Names(g) ==
  [i \in 1 .. Len(g.blocks) - Linkages(g) |-> g.blocks[Linkages(g) + i].name]

\* findScopeHierarchy finds them in the statements around the innermost.
LEMMA ScopeIs ==
  ASSUME NEW g, IsPosition(g), Nested(g.blocks), NEW up, Enclosing(g.blocks, up), NEW st
  PROVE  findScopeHierarchy(st, up) = Names(g) \o st.context
<1> DEFINE blocks == g.blocks
           n == Linkages(g)
           m == Len(up)
           Follows(f) == f = [i \in 0 .. m |-> IF i = 0 THEN << >> ELSE f[i - 1] \o BlockScope(up[i])]
           outer == CHOOSE f : Follows(f)
           prefix == [k \in 0 .. m |->
                        IF k <= n THEN << >> ELSE [i \in 1 .. k - n |-> blocks[n + i].name]]
<1>1. /\ m \in Nat /\ m = Len(blocks) /\ n \in 0 .. m
      /\ \A i \in 1 .. m : blocks[i].kind = "linkage" <=> i <= n
  BY LinkagesFirst DEF IsPosition, Enclosing
<1>2. \A i \in 1 .. m : BlockScope(up[i]) = IF i <= n THEN << >> ELSE << blocks[i].name >>
  <2> TAKE i \in 1 .. m
  <2>1. Encloses(blocks, i, up[i]) /\ blocks[i] \in Block
    BY <1>1 DEF Enclosing, IsPosition
  <2>2. blocks[i].kind \in TypeKinds \union {"namespace", "linkage"}
    BY <2>1 DEF Block
  <2>3. blocks[i].kind = "linkage" <=> i <= n
    BY <1>1
  <2>4. /\ up[i].declaration = IF blocks[i].kind = "linkage" THEN "nomangle" ELSE blocks[i].kind
        /\ blocks[i].kind # "linkage" => up[i].blockName.word = blocks[i].name
        /\ up[i].context = << >>
    <3> HIDE DEF blocks, n, m
    <3>1. up[i].declaration = IF blocks[i].kind = "linkage" THEN "nomangle" ELSE blocks[i].kind
      BY <2>1 DEF Encloses
    <3>2. ASSUME blocks[i].kind # "linkage" PROVE up[i].blockName.word = blocks[i].name
      <4>1. up[i].blockName = [type |-> "name", word |-> blocks[i].name]
        BY <2>1, <3>2 DEF Encloses
      <4> QED
        BY <4>1
    <3>3. up[i].context = << >>
      BY <2>1 DEF Encloses
    <3> QED
      BY <3>1, <3>2, <3>3
  <2> HIDE DEF blocks, n, m
  <2>5. CASE i <= n
    <3>1. up[i].declaration = "nomangle"
      BY <2>3, <2>4, <2>5
    <3> QED
      BY <2>5, <3>1 DEF BlockScope, isContextualDecl, ContextualKeywords
  <2>6. CASE ~ i <= n
    <3>1. up[i].declaration \in ContextualKeywords
      BY <2>2, <2>3, <2>4, <2>6 DEF ContextualKeywords, TypeKinds
    <3>2. BlockScope(up[i]) = << >> \o << blocks[i].name >>
      BY <2>3, <2>4, <2>6, <3>1 DEF BlockScope, isContextualDecl
    <3> QED
      BY <2>6, <3>2
  <2> QED
    BY <2>5, <2>6
<1>3. findScopeHierarchy(st, up) = outer[m] \o st.context
  BY DEF findScopeHierarchy
<1>4. Names(g) = IF m <= n THEN << >> ELSE prefix[m]
  <2>1. CASE m <= n
    <3>1. 1 .. Len(g.blocks) - Linkages(g) = {}
      BY <1>1, <2>1
    <3> QED
      BY <2>1, <3>1 DEF Names
  <2>2. CASE ~ m <= n
    BY <1>1, <2>2 DEF Names
  <2> QED
    BY <2>1, <2>2
<1> HIDE DEF m, n, blocks
<1>5. Follows(prefix)
  <2> DEFINE values == [i \in 0 .. m |-> IF i = 0 THEN << >> ELSE prefix[i - 1] \o BlockScope(up[i])]
  <2>1. ASSUME NEW k \in 0 .. m PROVE prefix[k] = values[k]
    <3>1. CASE k = 0
      BY <1>1, <3>1
    <3>2. CASE k # 0 /\ k <= n
      <4>1. k \in 1 .. m /\ k - 1 \in 0 .. m /\ k - 1 <= n
        BY <1>1, <3>2
      <4>2. prefix[k] = << >> /\ prefix[k - 1] = << >> /\ BlockScope(up[k]) = << >>
        BY <1>2, <3>2, <4>1
      <4>3. values[k] = prefix[k - 1] \o BlockScope(up[k])
        BY <3>2
      <4> HIDE DEF prefix, values
      <4> QED
        BY <4>2, <4>3
    <3>3. CASE k # 0 /\ ~ k <= n
      <4> DEFINE name == [i \in 1 .. m |-> blocks[i].name]
                 before == prefix[k - 1]
      <4>1. k \in 1 .. m /\ k - 1 \in 0 .. m /\ k - n \in 1 .. m /\ n + (k - n) = k
        BY <1>1, <3>3
      <4>2. BlockScope(up[k]) = << blocks[k].name >>
        <5> HIDE DEF prefix
        <5>1. BlockScope(up[k]) = IF k <= n THEN << >> ELSE << blocks[k].name >>
          BY <1>2, <4>1
        <5> QED
          BY <3>3, <5>1
      <4>3. before = [i \in 1 .. k - 1 - n |-> blocks[n + i].name]
        <5>1. CASE k - 1 = n
          <6>1. 1 .. k - 1 - n = {}
            BY <1>1, <4>1, <5>1
          <6>2. before = << >>
            BY <1>1, <4>1, <5>1
          <6> HIDE DEF before
          <6> QED
            BY <6>1, <6>2
        <5>2. CASE k - 1 # n
          BY <1>1, <3>3, <4>1, <5>2
        <5> QED
          BY <5>1, <5>2
      <4>4. prefix[k] = [i \in 1 .. k - n |-> blocks[n + i].name]
        BY <1>1, <3>3
      <4>5. values[k] = before \o BlockScope(up[k])
        BY <3>3
      <4> HIDE DEF prefix, values, before
      <4>6. before \o << blocks[k].name >> = [i \in 1 .. k - n |-> blocks[n + i].name]
        <5> DEFINE V == {blocks[i].name : i \in 1 .. m}
        <5>1. k - 1 - n \in Nat /\ k - n \in Nat /\ k - n = k - 1 - n + 1
          BY <1>1, <3>3
        <5>2. \A i \in 1 .. k - 1 - n : n + i \in 1 .. m
          BY <1>1, <3>3
        <5>3. before \in Seq(V) /\ Len(before) = k - 1 - n
          BY <4>3, <5>1, <5>2
        <5>4. << blocks[k].name >> \in Seq(V)
          BY <4>1
        <5>5. before \o << blocks[k].name >> \in Seq(V)
              /\ Len(before \o << blocks[k].name >>) = k - n
          BY <5>1, <5>3, <5>4
        <5>6. ASSUME NEW i \in 1 .. k - n
              PROVE  (before \o << blocks[k].name >>)[i] = blocks[n + i].name
          <6>1. CASE i = k - n
            BY <4>1, <5>1, <5>3, <5>4, <6>1
          <6>2. CASE i # k - n
            <7>1. i \in 1 .. k - 1 - n
              BY <5>1, <6>2
            <7>2. (before \o << blocks[k].name >>)[i] = before[i]
              BY <5>1, <5>3, <5>4, <7>1
            <7> QED
              BY <4>3, <7>1, <7>2
          <6> QED
            BY <6>1, <6>2
        <5> QED
          BY <5>5, <5>6, SMTT(30)
      <4> QED
        BY <4>2, <4>4, <4>5, <4>6
    <3> QED
      BY <1>1, <3>1, <3>2, <3>3
  <2>2. prefix = [k \in 0 .. m |-> prefix[k]] /\ values = [k \in 0 .. m |-> values[k]]
    OBVIOUS
  <2>3. prefix = values
    <3> HIDE DEF prefix, values
    <3> QED
      BY <2>1, <2>2
  <2> QED
    BY <2>3
<1>6. Follows(outer)
  <2> HIDE DEF Follows, prefix
  <2> QED
    BY <1>5
<1>7. outer[m] = prefix[m]
  <2> HIDE DEF outer, prefix
  <2>1. /\ outer = [i \in 0 .. m |-> IF i = 0 THEN << >> ELSE outer[i - 1] \o BlockScope(up[i])]
        /\ prefix = [i \in 0 .. m |-> IF i = 0 THEN << >> ELSE prefix[i - 1] \o BlockScope(up[i])]
    BY <1>5, <1>6
  <2> DEFINE Same == {k \in 0 .. m : outer[k] = prefix[k]}
  <2>2. 0 \in Same
    BY <1>1, <2>1
  <2>3. \A k \in 1 .. m : k - 1 \in Same => k \in Same
    <3> SUFFICES ASSUME NEW k \in 1 .. m, k - 1 \in Same PROVE k \in Same
      OBVIOUS
    <3>1. k \in 0 .. m /\ k # 0 /\ outer[k - 1] = prefix[k - 1]
      BY <1>1
    <3>2. outer[k] = outer[k - 1] \o BlockScope(up[k])
      BY <2>1, <3>1
    <3>3. prefix[k] = prefix[k - 1] \o BlockScope(up[k])
      BY <2>1, <3>1
    <3> QED
      BY <3>1, <3>2, <3>3
  <2> HIDE DEF Same
  <2>4. 0 .. m \subseteq Same
    BY <1>1, <2>2, <2>3, TurnInduction
  <2> QED
    BY <1>1, <2>4 DEF Same
<1>8. prefix[m] = IF m <= n THEN << >> ELSE prefix[m]
  BY <1>1
<1> HIDE DEF outer, prefix
<1> QED
  BY <1>3, <1>4, <1>7, <1>8

-------------------------------------------------------------------------------
(* Tags                                                                    *)

\* The tags of some that are asked for.
Included(made) == {tag \in made : tag.type \notin Disabled}

LEMMA OneIncluded ==
  ASSUME NEW name, NEW type \in CKinds, NEW scope, NEW access
  PROVE  Included({Tag(name, type, scope, access)})
           = IF includeTag(type) THEN {Tag(name, type, scope, access)} ELSE {}
<1> DEFINE tag == Tag(name, type, scope, access)
<1>1. tag.type = type
  BY DEF Tag
<1> HIDE DEF tag
<1>2. Included({tag}) = IF includeTag(type) THEN {tag} ELSE {}
  BY <1>1 DEF Included, includeTag
<1> QED
  BY <1>2 DEF tag

\* What is declared in a block is tagged with its scope and access.
LEMMA TagHere ==
  ASSUME NEW g, IsPosition(g), Nested(g.blocks), NEW up, Enclosing(g.blocks, up),
         NEW st, st.context = << >>, st.scope # "friend", st.access = Top(g).access,
         NEW w, NEW type \in Scoped
  PROVE  makeTag(NameToken(w), st, up, type) = Included(Here(g, w, type))
<1>1. isMember(st, up) <=> IsMemberOf(g)
  BY Surroundings DEF isMember
<1>2. NameToken(w).type = "name" /\ NameToken(w).word = w
  BY DEF NameToken
<1>3. CASE IsMemberOf(g)
  <2>1. findScopeHierarchy(st, up) = Path(g)
    <3>1. findScopeHierarchy(st, up) = Names(g) \o << >>
      BY ScopeIs
    <3>2. Names(g) \in Seq({Names(g)[i] : i \in DOMAIN Names(g)})
      <4>1. Len(g.blocks) - Linkages(g) \in Nat
        BY LinkagesFirst DEF IsPosition
      <4> DEFINE n == Len(g.blocks) - Linkages(g)
                 s == Names(g)
                 V == {s[i] : i \in DOMAIN s}
      <4>2. DOMAIN s = 1 .. n /\ s = [i \in 1 .. n |-> s[i]]
        BY DEF Names
      <4>3. \A i \in 1 .. n : s[i] \in V
        BY <4>2
      <4> HIDE DEF n, s, V
      <4>4. n \in Nat
        BY <4>1 DEF n
      <4>5. [i \in 1 .. n |-> s[i]] \in Seq(V)
        BY <4>3, <4>4
      <4>6. s \in Seq(V)
        BY <4>2, <4>5
      <4> QED
        BY <4>6 DEF s, V
    <3>3. Names(g) \o << >> = Names(g)
      <4> DEFINE s == Names(g)
                 V == {s[i] : i \in DOMAIN s}
      <4>1. s \in Seq(V)
        BY <3>2
      <4> HIDE DEF s, V
      <4>2. s \o << >> = s
        BY <4>1
      <4> QED
        BY <4>2 DEF s
    <3> QED
      BY <1>3, <3>1, <3>3 DEF Path, Names
  <2>2. makeTag(NameToken(w), st, up, type)
          = IF includeTag(type) THEN {Tag(w, type, Path(g), Top(g).access)} ELSE {}
    BY <1>1, <1>2, <1>3, <2>1 DEF makeTag
  <2> QED
    BY <2>2, OneIncluded DEF Here, Scoped
<1>4. CASE ~ IsMemberOf(g)
  <2>1. Top(g).access = "undef"
    <3>1. CASE g.blocks = << >>
      BY <3>1 DEF Top
    <3>2. CASE g.blocks # << >>
      <4>1. Len(g.blocks) \in 1 .. Len(g.blocks) /\ Top(g) = g.blocks[Len(g.blocks)]
        BY <3>2 DEF IsPosition, Top
      <4>2. Top(g).kind \notin {"class", "struct", "union"}
        BY <1>4 DEF IsMemberOf, ClassLike
      <4> QED
        BY <4>1, <4>2 DEF Nested
    <3> QED
      BY <3>1, <3>2
  <2>2. Path(g) = << >>
    BY <1>4 DEF Path
  <2>3. makeTag(NameToken(w), st, up, type)
          = IF includeTag(type) THEN {Tag(w, type, << >>, "undef")} ELSE {}
    BY <1>1, <1>2, <1>4 DEF makeTag
  <2> QED
    BY <2>1, <2>2, <2>3, OneIncluded DEF Here, Scoped
<1> QED
  BY <1>3, <1>4

\* Variables that are no members are tagged with their name alone.
LEMMA TagBare ==
  ASSUME NEW up, NEW st, NEW w, NEW type \in {"variable", "externvar"}
  PROVE  makeTag(NameToken(w), st, up, type) = Included(Bare(w, type))
<1>1. NameToken(w).type = "name" /\ NameToken(w).word = w /\ type \notin Scoped /\ type \in CKinds
  BY DEF NameToken, Scoped, CKinds
<1>2. makeTag(NameToken(w), st, up, type)
        = IF includeTag(type) THEN {Tag(w, type, << >>, "undef")} ELSE {}
  BY <1>1 DEF makeTag
<1> QED
  BY <1>1, <1>2, OneIncluded DEF Bare

\* A qualified name at file level is tagged with its qualifier.
LEMMA TagQualified ==
  ASSUME NEW g, IsPosition(g), Nested(g.blocks), g.blocks = << >>,
         NEW up, Enclosing(g.blocks, up),
         NEW st, st.context = << B >>, st.scope = "global", st.access = "undef",
         NEW w, NEW type \in Scoped
  PROVE  makeTag(NameToken(w), st, up, type) = Included({Tag(w, type, << B >>, "undef")})
<1>1. isMember(st, up) /\ NameToken(w).type = "name" /\ NameToken(w).word = w
  BY DEF isMember, NameToken
<1>2. findScopeHierarchy(st, up) = << B >>
  <2>1. Names(g) = << >>
    <3>1. 1 .. Len(g.blocks) - Linkages(g) = {}
      BY LinkagesFirst
    <3> QED
      BY <3>1 DEF Names
  <2>2. << >> \o << B >> = << B >>
    OBVIOUS
  <2> QED
    BY <2>1, <2>2, ScopeIs
<1>3. makeTag(NameToken(w), st, up, type)
        = IF includeTag(type) THEN {Tag(w, type, << B >>, "undef")} ELSE {}
  BY <1>1, <1>2 DEF makeTag
<1> QED
  BY <1>3, OneIncluded DEF Scoped

-------------------------------------------------------------------------------
(* What createTags does once a lexeme is read                              *)

\* The file goes on with the statement t inside of the statements "up".
Goes(up, t, made) ==
  statements' = Append(up, t) /\ tags' = made /\ exception' = "running"

GivesUp(exc) == statements' = << >> /\ tags' = {} /\ exception' = exc

LEMMA TagChecked ==
  ASSUME NEW st, NEW up
  PROVE  /\ active(st).type \in {Semicolon, Comma} => tagCheck(st, up).tags = EndsDeclarator(st, up)
         /\ active(st).type = Opening => tagCheck(st, up) = OpensBlock(st, up)
         /\ active(st).type = "name" =>
              tagCheck(st, up).tags = IF insideEnumBody(up)
                                        THEN makeTag(active(st), st, up, "enumerator") ELSE {}
         /\ active(st).type \notin {Semicolon, Comma, Opening, "name"} => tagCheck(st, up).tags = {}
BY DEF tagCheck, Semicolon, Comma, Opening

LEMMA Outcome ==
  ASSUME NEW lx, createTags(lx), NEW up, up = Around(statements),
         NEW r, r = nextToken(Innermost(statements), up, lx)
  PROVE  /\ r.exc # "none" => GivesUp(r.exc)
         /\ r.exc = "none" =>
              /\ active(r.st).type = "none" => Goes(up, r.st, {})
              /\ active(r.st).type = "::" => Goes(up, advanceToken(addContext(r.st)), {})
              /\ active(r.st).type = Comma =>
                   Goes(up, reinitStatement(r.st, up, TRUE), EndsDeclarator(r.st, up))
              /\ active(r.st).type = Semicolon =>
                   /\ Goes(up, reinitStatement(r.st, up, FALSE), EndsDeclarator(r.st, up))
                   /\ ~ resolveRequired'
              /\ active(r.st).type = "name" =>
                   Goes(up, advanceToken(r.st),
                        IF insideEnumBody(up)
                          THEN makeTag(active(r.st), r.st, up, "enumerator") ELSE {})
              /\ active(r.st).type = "key" => Goes(up, advanceToken(r.st), {})
              /\ active(r.st).type = Opening => OpenBlock(r, up, lx)
              /\ active(r.st).type = Closing => CloseBlock(r, up)
<1> USE DEF Semicolon, Comma, Opening, Closing
<1>1. /\ exception = "running"
      /\ \/ Raise(r) \/ ReadOn(r, up) \/ CloseBlock(r, up) \/ Qualify(r, up)
         \/ OpenBlock(r, up, lx) \/ TakeToken(r, up)
  BY DEF createTags, Around, Innermost
<1>2. CASE r.exc # "none"
  <2>1. Raise(r)
    BY <1>1, <1>2 DEF ReadOn, CloseBlock, Qualify, OpenBlock, TakeToken
  <2> QED
    BY <1>2, <2>1 DEF Raise, Leaves, GivesUp
<1>3. CASE r.exc = "none"
  <2>1. ASSUME active(r.st).type = "none" PROVE Goes(up, r.st, {})
    <3>1. ReadOn(r, up)
      BY <1>1, <1>3, <2>1 DEF Raise, CloseBlock, Qualify, OpenBlock, TakeToken
    <3> QED
      BY <1>1, <3>1 DEF ReadOn, Goes
  <2>2. ASSUME active(r.st).type = "::" PROVE Goes(up, advanceToken(addContext(r.st)), {})
    <3>1. Qualify(r, up)
      BY <1>1, <1>3, <2>2 DEF Raise, CloseBlock, ReadOn, OpenBlock, TakeToken
    <3> QED
      BY <1>1, <3>1 DEF Qualify, Goes
  <2>3. ASSUME active(r.st).type = Opening PROVE OpenBlock(r, up, lx)
    BY <1>1, <1>3, <2>3 DEF Raise, CloseBlock, ReadOn, Qualify, TakeToken
  <2>4. ASSUME active(r.st).type = Closing PROVE CloseBlock(r, up)
    BY <1>1, <1>3, <2>4 DEF Raise, OpenBlock, ReadOn, Qualify, TakeToken
  <2>5. ASSUME active(r.st).type \in {Semicolon, Comma, "name", "key"}
        PROVE  /\ tags' = tagCheck(r.st, up).tags /\ exception' = "running"
               /\ statements' = Append(up, checkStatementEnd(r.st, up).st)
               /\ resolveRequired' = checkStatementEnd(r.st, up).required
    <3>1. TakeToken(r, up)
      BY <1>1, <1>3, <2>5 DEF Raise, OpenBlock, ReadOn, Qualify, CloseBlock
    <3> QED
      BY <1>1, <3>1 DEF TakeToken, Continue
  <2>6. ASSUME active(r.st).type = Comma
        PROVE  Goes(up, reinitStatement(r.st, up, TRUE), EndsDeclarator(r.st, up))
    BY <2>5, <2>6, TagChecked DEF Goes, checkStatementEnd
  <2>7. ASSUME active(r.st).type = Semicolon
        PROVE  Goes(up, reinitStatement(r.st, up, FALSE), EndsDeclarator(r.st, up))
               /\ ~ resolveRequired'
    BY <2>5, <2>7, TagChecked DEF Goes, checkStatementEnd, isStatementEnd
  <2>8. ASSUME active(r.st).type = "name"
        PROVE  Goes(up, advanceToken(r.st),
                    IF insideEnumBody(up)
                      THEN makeTag(active(r.st), r.st, up, "enumerator") ELSE {})
    BY <2>5, <2>8, TagChecked DEF Goes, checkStatementEnd, isStatementEnd
  <2>9. ASSUME active(r.st).type = "key" PROVE Goes(up, advanceToken(r.st), {})
    BY <2>5, <2>9, TagChecked DEF Goes, checkStatementEnd, isStatementEnd
  <2> QED
    BY <1>3, <2>1, <2>2, <2>3, <2>4, <2>6, <2>7, <2>8, <2>9
<1> QED
  BY <1>2, <1>3

-------------------------------------------------------------------------------
(* Positions                                                               *)

\* The next place of the same declaration, or of the next one.
Going(g, at, made) == [At(g, at) EXCEPT !.made = made]
Ending(g, made)    == [Ended(g) EXCEPT !.made = made]

LEMMA Moved ==
  ASSUME NEW g, IsPosition(g), NEW at, NEW made, NEW h, h = Going(g, at, made)
  PROVE  IsPosition(h) /\ h.at = at /\ h.made = made /\ h.blocks = g.blocks
         /\ h.storage = g.storage /\ h.head = g.head /\ h.listed = g.listed
         /\ h.next = g.next /\ h.after = g.after
BY DEF Going, At, IsPosition, PositionFields

\* The start of a declaration.
LEMMA Started ==
  ASSUME NEW g, IsPosition(g), NEW made, NEW h, h = Ending(g, made)
  PROVE  /\ IsPosition(h) /\ h.at = "start" /\ h.made = made /\ h.blocks = g.blocks
         /\ h.after = "end" /\ ~ Specified(h) /\ h.storage = "none" /\ h.head = "none" /\ ~ h.listed
BY DEF Ending, Ended, File, IsPosition, PositionFields, Specified

LEMMA SameBlocks ==
  ASSUME NEW g, NEW h, h.blocks = g.blocks
  PROVE  /\ Top(h) = Top(g) /\ ClassLike(h) = ClassLike(g) /\ IsMemberOf(h) = IsMemberOf(g)
         /\ FileLevel(h) = FileLevel(g)
BY DEF Top, ClassLike, IsMemberOf, FileLevel

-------------------------------------------------------------------------------
(* Steps that keep the blocks                                              *)

\* The innermost statement is st and those around it are up, at the position g.
Reading(g, up, st) ==
  /\ IsPosition(g) /\ Nested(g.blocks) /\ Enclosing(g.blocks, up) /\ Matches(g, st)
  /\ up = Around(statements) /\ st = Innermost(statements)

\* What a step to the position h has to do.
Served(h) ==
  /\ tags' = Included(h.made)
  /\ h.at \notin Broken => exception' = "running" /\ InStep(statements', h)
  /\ h.at \in Broken => exception' = h.at /\ statements' = << >>
  /\ h.at = "start" /\ h.after = "end" /\ h.blocks = << >> => ~ resolveRequired'

LEMMA Stays ==
  ASSUME NEW g, NEW up, NEW st, Reading(g, up, st),
         NEW h, IsPosition(h), h.blocks = g.blocks, NEW t, Matches(h, t),
         Goes(up, t, Included(h.made)),
         h.at = "start" /\ h.after = "end" /\ h.blocks = << >> => ~ resolveRequired'
  PROVE  Served(h)
<1>1. IsSequence(up) /\ Len(up) = Len(g.blocks) /\ Nested(g.blocks) /\ Enclosing(g.blocks, up)
  BY DEF Reading, Enclosing
<1> DEFINE sts == Append(up, t)
<1>2. /\ IsSequence(sts) /\ Len(sts) = Len(up) + 1
      /\ Around(sts) = up /\ Innermost(sts) = t
  BY <1>1, LastAndFront
<1> HIDE DEF sts
<1>3. InStep(sts, h)
  BY <1>1, <1>2 DEF InStep
<1>4. h.at \in Places /\ h.at \notin Broken
  BY DEF Matches, Places, Broken
<1> QED
  BY <1>3, <1>4 DEF Served, Goes, sts

\* To a place that asks for no tags.
LEMMA Included0 == Included({}) = {}
BY DEF Included

LEMMA TakesName ==
  ASSUME NEW g, NEW up, NEW st, Reading(g, up, st), NEW n, createTags(Name(n)),
         NEW t, t = advanceToken(ReadName(st, n))
  PROVE  /\ Goes(up, t, IF Top(g).kind = "enum"
                          THEN makeTag(NameToken(n), ReadName(st, n), up, "enumerator") ELSE {})
         /\ IsStatement(t) /\ t.gotName /\ t.haveQualifyingName
         /\ Agree(t, st, {"token", "declaration", "gotName", "haveQualifyingName", "context"})
         /\ t.declaration = IF st.gotName /\ st.declaration = "none" THEN "base" ELSE st.declaration
         /\ t.context = IF prev(st).type = "name" THEN << >> ELSE st.context
         /\ active(t) = None /\ prev(t) = NameToken(n) /\ prev2(t) = prev(st)
<1>1. IsStatement(st) /\ (insideEnumBody(up) <=> Top(g).kind = "enum")
  BY Surroundings DEF Reading, Matches, Common
<1> DEFINE read == ReadName(st, n)
<1>2. /\ IsStatement(read) /\ read.gotName /\ read.haveQualifyingName
      /\ Agree(read, st, {"token", "declaration", "gotName", "haveQualifyingName", "context"})
      /\ read.declaration = IF st.gotName /\ st.declaration = "none" THEN "base" ELSE st.declaration
      /\ read.context = IF prev(st).type = "name" THEN << >> ELSE st.context
      /\ active(read) = NameToken(n) /\ prev(read) = prev(st) /\ prev2(read) = prev2(st)
  BY <1>1, NameRead
<1>3. nextToken(st, up, Name(n)) = Read(read)
  BY DEF nextToken, Name
<1> HIDE DEF read
<1>4. Read(read).st = read /\ Read(read).exc = "none"
  BY DEF Read
<1>5. Goes(up, advanceToken(read), IF insideEnumBody(up)
                                     THEN makeTag(active(read), read, up, "enumerator") ELSE {})
  <2>1. active(read).type = "name"
    BY <1>2 DEF NameToken
  <2> QED
    BY <1>3, <1>4, <2>1, Outcome DEF Reading
<1>6. /\ IsStatement(t) /\ Agree(t, read, {"token"})
      /\ active(t) = None /\ prev(t) = active(read) /\ prev2(t) = prev(read)
  BY <1>2, Advanced DEF read
<1>7. t.gotName /\ t.haveQualifyingName /\ t.declaration = read.declaration /\ t.context = read.context
  BY <1>2, <1>6 DEF Agree, Fields
<1>8. Agree(t, st, {"token", "declaration", "gotName", "haveQualifyingName", "context"})
  BY <1>2, <1>6 DEF Agree
<1>9. Goes(up, t, IF Top(g).kind = "enum" THEN makeTag(NameToken(n), read, up, "enumerator") ELSE {})
  BY <1>1, <1>2, <1>5 DEF read
<1> QED
  BY <1>2, <1>6, <1>7, <1>8, <1>9 DEF read

LEMMA TakesKey ==
  ASSUME NEW g, NEW up, NEW st, Reading(g, up, st),
         NEW k \in {"int", "using", "virtual"} \union ContextualKeywords, createTags(Key(k)),
         NEW t, t = advanceToken(ReadKeyword(st, up, k))
  PROVE  /\ Goes(up, t, {}) /\ IsStatement(t)
         /\ Agree(t, st, {"token", "declaration", "implementation"})
         /\ t.declaration = (CASE k = "int" -> "base" [] k = "using" -> "ignore"
                               [] k = "virtual" -> st.declaration [] OTHER -> k)
         /\ t.implementation = IF k = "virtual" THEN "virtual" ELSE st.implementation
         /\ active(t) = None /\ prev(t) = KeyToken(k) /\ prev2(t) = prev(st)
<1>1. IsStatement(st)
  BY DEF Reading, Matches, Common
<1> DEFINE read == ReadKeyword(st, up, k)
           said == CASE k = "int" -> "base" [] k = "using" -> "ignore"
                     [] k = "virtual" -> st.declaration [] OTHER -> k
<1>2. /\ IsStatement(read)
      /\ Agree(read, st, {"token", "declaration", "implementation"})
      /\ read.declaration = said
      /\ read.implementation = IF k = "virtual" THEN "virtual" ELSE st.implementation
      /\ active(read) = KeyToken(k) /\ prev(read) = prev(st) /\ prev2(read) = prev2(st)
  BY <1>1, KeyRead
<1>3. nextToken(st, up, Key(k)) = Read(read)
  BY DEF nextToken, Key
<1> HIDE DEF read, said
<1>4. Read(read).st = read /\ Read(read).exc = "none"
  BY DEF Read
<1>5. Goes(up, advanceToken(read), {})
  <2>1. active(read).type = "key"
    BY <1>2 DEF KeyToken
  <2> QED
    BY <1>3, <1>4, <2>1, Outcome DEF Reading
<1>6. /\ IsStatement(t) /\ Agree(t, read, {"token"})
      /\ active(t) = None /\ prev(t) = active(read) /\ prev2(t) = prev(read)
  BY <1>2, Advanced DEF read
<1>7. t.declaration = said /\ t.implementation = read.implementation
  BY <1>2, <1>6 DEF Agree, Fields
<1>8. Agree(t, st, {"token", "declaration", "implementation"})
  BY <1>2, <1>6 DEF Agree
<1> QED
  BY <1>2, <1>5, <1>6, <1>7, <1>8 DEF read, said

-------------------------------------------------------------------------------
(* Declarators                                                             *)

\* Where a declarator begins.
BeforeName == {"type", "usertype", "pointer", "headname", "closed"}

LEMMA BeforeNameIs ==
  ASSUME NEW g, NEW st, IsPosition(g), Matches(g, st), g.at \in BeforeName
  PROVE  /\ TypeRead(g, st) /\ NoHead(prev(st)) /\ Top(g).kind # "enum"
         /\ g.at # "pointer" /\ ~ g.listed => prev(st).type # "none"
<1>1. Placed(g, st) /\ Enumerated(g)
  BY DEF Matches
<1>2. Top(g).kind # "enum"
  BY <1>1 DEF Enumerated, BeforeName
<1>3. CASE g.at = "type"
  BY <1>1, <1>2, <1>3 DEF Placed, AtType
<1>4. CASE g.at = "usertype"
  BY <1>1, <1>2, <1>4 DEF Placed, AtUserType, TypeRead, Specified, NoHead, NameToken
<1>5. CASE g.at = "pointer"
  BY <1>1, <1>2, <1>5 DEF Placed, AtPointer
<1>6. CASE g.at = "headname"
  BY <1>1, <1>2, <1>6 DEF Placed, AtHead, TypeRead, DeclaredAs, NoHead, NameToken
<1>7. CASE g.at = "closed"
  <2>1. AtHead(g, st) /\ prev(st) = Mark(Closing)
    BY <1>1, <1>7 DEF Placed
  <2>2. Mark(Closing).type \notin {"none", "key"}
    BY DEF Mark, Closing
  <2> QED
    BY <1>2, <2>1, <2>2 DEF AtHead, TypeRead, DeclaredAs, NoHead
<1> QED
  BY <1>3, <1>4, <1>5, <1>6, <1>7 DEF BeforeName

LEMMA NameDeclared ==
  ASSUME NEW g, NEW up, NEW st, Reading(g, up, st), g.at \in BeforeName,
         createTags(Name(e)), NEW h, h = Going(g, "name", {})
  PROVE  Served(h)
<1> DEFINE t == advanceToken(ReadName(st, e))
<1>1. IsPosition(g) /\ Matches(g, st) /\ Common(g, st)
  BY DEF Reading, Matches
<1>2. /\ TypeRead(g, st) /\ NoHead(prev(st)) /\ Top(g).kind # "enum"
  BY <1>1, BeforeNameIs
<1>3. /\ Goes(up, t, {}) /\ IsStatement(t) /\ t.gotName /\ t.haveQualifyingName
      /\ Agree(t, st, {"token", "declaration", "gotName", "haveQualifyingName", "context"})
      /\ t.declaration = IF st.gotName /\ st.declaration = "none" THEN "base" ELSE st.declaration
      /\ t.context = IF prev(st).type = "name" THEN << >> ELSE st.context
      /\ active(t) = None /\ prev(t) = NameToken(e) /\ prev2(t) = prev(st)
  BY <1>2, TakesName
<1>4. /\ IsPosition(h) /\ h.at = "name" /\ h.made = {} /\ h.blocks = g.blocks
      /\ h.storage = g.storage /\ h.head = g.head /\ h.listed = g.listed
  BY <1>1, Moved
<1>5. Top(h) = Top(g)
  BY <1>4, SameBlocks
<1> HIDE DEF t
<1>6. Common(h, t)
  BY <1>1, <1>3, <1>4, <1>5
     DEF Common, Agree, Fields, Plain, BeforeName, Qualifieds, active
<1>7. AtName(h, t)
  BY <1>1, <1>2, <1>3, <1>4
     DEF AtName, TypeRead, DeclaredAs, IsPosition, TypeKinds
<1>8. Matches(h, t)
  BY <1>2, <1>4, <1>5, <1>6, <1>7 DEF Matches, Placed, Enumerated, Places
<1> QED
  BY <1>3, <1>4, <1>8, Stays, Included0

LEMMA TokensAre ==
  /\ None.type = "none"
  /\ \A w : Mark(w).type = w
  /\ \A w : NameToken(w).type = "name" /\ NameToken(w).word = w
  /\ \A w : KeyToken(w).type = "key" /\ KeyToken(w).word = w
BY DEF None, Mark, NameToken, KeyToken

LEMMA ReadIs ==
  /\ \A st : Read(st).st = st /\ Read(st).exc = "none"
  /\ \A st, next : PutBack(st, next).st = st /\ PutBack(st, next).exc = "none"
  /\ \A st, exc : Throw(st, exc).exc = exc
BY DEF Read, PutBack, Throw

LEMMA PunctRead ==
  ASSUME NEW st, NEW up
  PROVE  /\ nextToken(st, up, Punct("*")) = Read([st EXCEPT !.haveQualifyingName = FALSE])
         /\ nextToken(st, up, Punct("[")) = Read(st)
         /\ nextToken(st, up, Punct("::"))
              = Read([setToken(st, "::") EXCEPT !.haveQualifyingName = FALSE])
         /\ \A c \in {Semicolon, Comma, Opening, Closing} : nextToken(st, up, Punct(c)) = Read(setToken(st, c))
<1>1. \A c : Punct(c).t = "punct" /\ Punct(c).w = c
  BY DEF Punct
<1>2. ASSUME NEW c \in {Semicolon, Comma, Opening, Closing}
      PROVE  nextToken(st, up, Punct(c)) = Read(setToken(st, c))
  BY <1>1 DEF nextToken, Semicolon, Comma, Opening, Closing
<1>3. nextToken(st, up, Punct("*")) = Read([st EXCEPT !.haveQualifyingName = FALSE])
  BY <1>1 DEF nextToken
<1>4. nextToken(st, up, Punct("[")) = Read(st)
  BY <1>1 DEF nextToken
<1>5. nextToken(st, up, Punct("::")) = Read([setToken(st, "::") EXCEPT !.haveQualifyingName = FALSE])
  BY <1>1 DEF nextToken
<1> QED
  BY <1>2, <1>3, <1>4, <1>5

\* A lexeme that completes no token.
LEMMA NoTokenYet ==
  ASSUME NEW g, NEW up, NEW st, Reading(g, up, st), NEW lx, createTags(lx), NEW x, NEW next,
         nextToken(st, up, lx) = PutBack(x, next), active(x) = None
  PROVE  Goes(up, x, {})
<1>1. PutBack(x, next).st = x /\ PutBack(x, next).exc = "none" /\ active(x).type = "none"
  BY ReadIs, TokensAre
<1> QED
  BY <1>1, Outcome DEF Reading

LEMMA StarDeclared ==
  ASSUME NEW g, NEW up, NEW st, Reading(g, up, st), g.at \in BeforeName, g.at # "pointer",
         createTags(Punct("*")), NEW h, h = Going(g, "pointer", {})
  PROVE  Served(h)
<1> DEFINE t == [st EXCEPT !.haveQualifyingName = FALSE]
<1>1. IsPosition(g) /\ Matches(g, st) /\ Common(g, st) /\ IsStatement(st)
  BY DEF Reading, Matches, Common
<1>2. /\ TypeRead(g, st) /\ NoHead(prev(st)) /\ Top(g).kind # "enum"
  BY <1>1, BeforeNameIs
<1>3. /\ IsStatement(t) /\ Agree(t, st, {"haveQualifyingName"}) /\ t.token = st.token
  BY <1>1 DEF IsStatement, Fields, Agree
<1>4. /\ IsPosition(h) /\ h.at = "pointer" /\ h.made = {} /\ h.blocks = g.blocks
      /\ h.storage = g.storage /\ h.head = g.head /\ h.listed = g.listed
  BY <1>1, Moved
<1>5. Top(h) = Top(g)
  BY <1>4, SameBlocks
<1>6. nextToken(st, up, Punct("*")) = PutBack(t, "any")
  BY PunctRead DEF Read, PutBack
<1> HIDE DEF t
<1>7. Common(h, t)
  BY <1>1, <1>3, <1>4, <1>5 DEF Common, Agree, Fields, Plain, BeforeName, Qualifieds
<1>8. AtPointer(h, t)
  BY <1>2, <1>3, <1>4 DEF AtPointer, TypeRead, DeclaredAs, Agree, Fields, prev
<1>9. Matches(h, t)
  BY <1>2, <1>4, <1>5, <1>7, <1>8 DEF Matches, Placed, Enumerated, Places
<1>10. Goes(up, t, {})
  <2>1. active(t) = None
    BY <1>7 DEF Common, active
  <2> QED
    BY <1>6, <2>1, NoTokenYet
<1> QED
  BY <1>4, <1>9, <1>10, Stays, Included0

LEMMA BracketRead ==
  ASSUME NEW g, NEW up, NEW st, Reading(g, up, st), g.at = "name",
         createTags(Punct("[")), NEW h, h = [g EXCEPT !.made = {}]
  PROVE  Served(h)
<1>1. IsPosition(g) /\ Matches(g, st) /\ Common(g, st)
  BY DEF Reading, Matches
<1>2. /\ IsPosition(h) /\ h.at = "name" /\ h.made = {} /\ h.blocks = g.blocks
      /\ h.storage = g.storage /\ h.head = g.head /\ h.listed = g.listed
  BY <1>1 DEF IsPosition, PositionFields
<1>3. Top(h) = Top(g)
  BY <1>2, SameBlocks
<1>4. Goes(up, st, {})
  <2>1. active(st) = None
    BY <1>1 DEF Common, active
  <2>2. nextToken(st, up, Punct("[")) = PutBack(st, "any")
    BY PunctRead DEF Read, PutBack
  <2> QED
    BY <2>1, <2>2, NoTokenYet
<1>5. Common(h, st)
  BY <1>1, <1>2, <1>3 DEF Common, Qualifieds
<1>6. AtName(g, st) /\ Top(g).kind # "enum"
  BY <1>1 DEF Matches, Placed, Enumerated
<1>7. AtName(h, st)
  BY <1>2, <1>6 DEF AtName, DeclaredAs
<1>8. Matches(h, st)
  BY <1>2, <1>3, <1>5, <1>6, <1>7 DEF Matches, Placed, Enumerated, Places
<1> QED
  BY <1>2, <1>4, <1>8, Stays, Included0

LEMMA QualifierRead ==
  ASSUME NEW g, NEW up, NEW st, Reading(g, up, st), g.at \in {"type", "usertype"},
         g.blocks = << >>, ~ g.listed, g.storage = "none",
         createTags(Name(B)), NEW h, h = Going(g, "qualifier", {})
  PROVE  Served(h)
<1> DEFINE t == advanceToken(ReadName(st, B))
<1>1. IsPosition(g) /\ Matches(g, st) /\ Common(g, st)
  BY DEF Reading, Matches
<1>2. TypeRead(g, st) /\ Top(g).kind # "enum"
  BY <1>1, BeforeNameIs DEF BeforeName
<1>3. /\ Goes(up, t, {}) /\ IsStatement(t) /\ t.gotName /\ t.haveQualifyingName
      /\ Agree(t, st, {"token", "declaration", "gotName", "haveQualifyingName", "context"})
      /\ t.declaration = IF st.gotName /\ st.declaration = "none" THEN "base" ELSE st.declaration
      /\ t.context = IF prev(st).type = "name" THEN << >> ELSE st.context
      /\ active(t) = None /\ prev(t) = NameToken(B) /\ prev2(t) = prev(st)
  BY <1>2, TakesName
<1>4. /\ IsPosition(h) /\ h.at = "qualifier" /\ h.made = {} /\ h.blocks = g.blocks
      /\ h.storage = g.storage /\ h.head = g.head /\ h.listed = g.listed
  BY <1>1, Moved
<1>5. Top(h) = Top(g)
  BY <1>4, SameBlocks
<1> HIDE DEF t
<1>6. Common(h, t)
  BY <1>1, <1>3, <1>4, <1>5 DEF Common, Agree, Fields, Plain, Qualifieds, active
<1>7. g.head = "none"
  <2>1. CASE g.at = "type"
    BY <1>1, <2>1 DEF Matches, Placed, AtType
  <2>2. CASE g.at = "usertype"
    BY <1>1, <2>2 DEF Matches, Placed, AtUserType, Specified
  <2> QED
    BY <2>1, <2>2
<1>8. AtQualifier(h, t)
  BY <1>2, <1>3, <1>4, <1>7 DEF AtQualifier, TypeRead, DeclaredAs, Specified
<1>9. Matches(h, t)
  BY <1>2, <1>3, <1>4, <1>5, <1>6, <1>8 DEF Matches, Placed, Enumerated, Places
<1> QED
  BY <1>3, <1>4, <1>9, Stays, Included0

LEMMA ColonsRead ==
  ASSUME NEW g, NEW up, NEW st, Reading(g, up, st), g.at = "qualifier",
         createTags(Punct("::")), NEW h, h = Going(g, "qualified", {})
  PROVE  Served(h)
<1> DEFINE x == [setToken(st, "::") EXCEPT !.haveQualifyingName = FALSE]
           y == addContext(x)
           t == advanceToken(y)
<1>1. IsPosition(g) /\ Matches(g, st) /\ Common(g, st) /\ IsStatement(st)
  BY DEF Reading, Matches, Common
<1>2. AtQualifier(g, st) /\ prev(st) = NameToken(B) /\ Top(g).kind # "enum"
  BY <1>1 DEF Matches, Placed, Enumerated
<1>3. /\ IsStatement(x) /\ Agree(x, st, {"token", "haveQualifyingName"})
      /\ active(x) = Mark("::") /\ prev(x) = NameToken(B)
  <2> DEFINE s == setToken(st, "::")
  <2>1. /\ IsStatement(s) /\ Agree(s, st, {"token"})
        /\ active(s) = Mark("::") /\ prev(s) = prev(st)
    BY <1>1, TokenSet
  <2> HIDE DEF s
  <2>2. /\ IsStatement([s EXCEPT !.haveQualifyingName = FALSE])
        /\ Agree([s EXCEPT !.haveQualifyingName = FALSE], s, {"haveQualifyingName"})
        /\ [s EXCEPT !.haveQualifyingName = FALSE].token = s.token
    BY <2>1 DEF IsStatement, Fields, Agree
  <2>3. x = [s EXCEPT !.haveQualifyingName = FALSE]
    BY DEF s
  <2> HIDE DEF x
  <2> QED
    BY <1>2, <2>1, <2>2, <2>3 DEF Agree, active, prev
<1>4. /\ IsPosition(h) /\ h.at = "qualified" /\ h.made = {} /\ h.blocks = g.blocks
      /\ h.storage = g.storage /\ h.head = g.head /\ h.listed = g.listed
  BY <1>1, Moved
<1>5. Top(h) = Top(g)
  BY <1>4, SameBlocks
<1>6. Goes(up, t, {})
  <2>1. nextToken(st, up, Punct("::")) = Read(x)
    BY PunctRead
  <2>2. Read(x).st = x /\ Read(x).exc = "none" /\ active(x).type = "::"
    <3> HIDE DEF x
    <3> QED
      BY <1>3, ReadIs, TokensAre
  <2> HIDE DEF x
  <2> QED
    BY <2>1, <2>2, Outcome DEF Reading
<1> HIDE DEF x
<1>7. /\ IsStatement(y) /\ Agree(y, x, {"context"}) /\ y.context = << B >>
      /\ active(y) = Mark("::")
  <2>1. x.context = << >> /\ prev(x).type = "name" /\ prev(x).word = B
    BY <1>1, <1>3, <1>4 DEF Agree, Fields, Common, NameToken, Qualifieds
  <2>2. y = [x EXCEPT !.context = << B >>]
    BY <2>1 DEF addContext
  <2> HIDE DEF y
  <2> QED
    BY <1>3, <2>2 DEF IsStatement, Fields, Agree, active
<1> HIDE DEF y
<1>8. IsStatement(t) /\ Agree(t, y, {"token"}) /\ active(t) = None /\ prev(t) = Mark("::")
  BY <1>7, Advanced
<1> HIDE DEF t
<1>9. Agree(t, st, {"token", "haveQualifyingName", "context"}) /\ t.context = << B >>
  BY <1>3, <1>7, <1>8 DEF Agree, Fields
<1>10. Common(h, t)
  BY <1>1, <1>8, <1>9, <1>4, <1>5 DEF Common, Agree, Fields, Plain, Qualifieds, active
<1>11. AtQualifier(h, t)
  BY <1>2, <1>9, <1>4 DEF AtQualifier, Specified, Agree, Fields
<1>12. Matches(h, t)
  BY <1>2, <1>8, <1>4, <1>5, <1>10, <1>11 DEF Matches, Placed, Enumerated, Places
<1> QED
  BY <1>4, <1>6, <1>12, Stays, Included0

LEMMA QualifiedNameRead ==
  ASSUME NEW g, NEW up, NEW st, Reading(g, up, st), g.at = "qualified",
         createTags(Name(e)), NEW h, h = Going(g, "qualifiedname", {})
  PROVE  Served(h)
<1> DEFINE t == advanceToken(ReadName(st, e))
<1>1. IsPosition(g) /\ Matches(g, st) /\ Common(g, st)
  BY DEF Reading, Matches
<1>2. AtQualifier(g, st) /\ prev(st) = Mark("::") /\ Top(g).kind # "enum"
  BY <1>1 DEF Matches, Placed, Enumerated
<1>3. /\ Goes(up, t, {}) /\ IsStatement(t) /\ t.gotName /\ t.haveQualifyingName
      /\ Agree(t, st, {"token", "declaration", "gotName", "haveQualifyingName", "context"})
      /\ t.declaration = IF st.gotName /\ st.declaration = "none" THEN "base" ELSE st.declaration
      /\ t.context = IF prev(st).type = "name" THEN << >> ELSE st.context
      /\ active(t) = None /\ prev(t) = NameToken(e) /\ prev2(t) = prev(st)
  BY <1>2, TakesName
<1>4. /\ IsPosition(h) /\ h.at = "qualifiedname" /\ h.made = {} /\ h.blocks = g.blocks
      /\ h.storage = g.storage /\ h.head = g.head /\ h.listed = g.listed
  BY <1>1, Moved
<1>5. Top(h) = Top(g)
  BY <1>4, SameBlocks
<1> HIDE DEF t
<1>6. t.context = << B >>
  <2>1. prev(st).type # "name"
    BY <1>2, TokensAre
  <2>2. st.context = << B >>
    BY <1>1 DEF Common, Qualifieds
  <2> QED
    BY <1>3, <2>1, <2>2
<1>7. Common(h, t)
  BY <1>1, <1>3, <1>4, <1>5, <1>6 DEF Common, Agree, Fields, Plain, Qualifieds, active
<1>8. AtQualifier(h, t)
  BY <1>2, <1>3, <1>4 DEF AtQualifier, Specified
<1>9. Matches(h, t)
  BY <1>2, <1>3, <1>4, <1>5, <1>7, <1>8 DEF Matches, Placed, Enumerated, Places
<1> QED
  BY <1>3, <1>4, <1>9, Stays, Included0

-------------------------------------------------------------------------------
(* Ends of declarators                                                     *)

\* What a statement holds when a declarator ends in it.
Declared(g, x) ==
  /\ IsStatement(x) /\ x.scope = ScopeOf(g.storage) /\ x.declaration = DeclaredAs(g)
  /\ ~ x.notVariable /\ ~ x.inFunction /\ x.context = << >> /\ x.haveQualifyingName
  /\ x.access = Top(g).access /\ x.accessDefault = Top(g).access

LEMMA DeclaredIs ==
  ASSUME NEW g, IsPosition(g), NEW up, Enclosing(g.blocks, up), NEW x, Declared(g, x)
  PROVE  /\ isValidTypeSpecifier(x.declaration) /\ x.scope # "friend"
         /\ x.scope = "typedef" <=> g.storage = "typedef"
         /\ x.scope = "extern" <=> g.storage = "extern"
         /\ isMember(x, up) <=> IsMemberOf(g)
<1>1. isValidTypeSpecifier(x.declaration)
  BY DEF Declared, DeclaredAs, isValidTypeSpecifier, IsPosition, TypeKinds
<1>2. /\ x.scope # "friend" /\ (x.scope = "typedef" <=> g.storage = "typedef")
      /\ (x.scope = "extern" <=> g.storage = "extern")
  BY DEF Declared, ScopeOf, IsPosition
<1>3. isMember(x, up) <=> IsMemberOf(g)
  BY Surroundings DEF isMember, Declared
<1> QED
  BY <1>1, <1>2, <1>3

LEMMA VariablesTagged ==
  ASSUME NEW g, IsPosition(g), Nested(g.blocks), NEW up, Enclosing(g.blocks, up),
         Top(g).kind # "enum", NEW x, Declared(g, x),
         \/ prev(x) = NameToken(e) /\ NoHead(prev2(x))
         \/ prev(x) = Mark("args") /\ prev2(x) = NameToken(e) /\ x.isPointer
  PROVE  EndsDeclarator(x, up) = Included(VariableTags(g))
<1>1. /\ isValidTypeSpecifier(x.declaration) /\ x.scope # "friend"
      /\ x.scope = "typedef" <=> g.storage = "typedef"
      /\ x.scope = "extern" <=> g.storage = "extern"
      /\ isMember(x, up) <=> IsMemberOf(g)
  BY DeclaredIs
<1>2. x.scope = ScopeOf(g.storage) /\ x.context = << >> /\ x.access = Top(g).access
  BY DEF Declared
<1>3. EndsDeclarator(x, up) = qualifyVariableTag(x, up, NameToken(e))
  <2>1. ~ insideEnumBody(up)
    BY Surroundings
  <2>2. CASE prev(x) = NameToken(e) /\ NoHead(prev2(x))
    BY <2>1, <2>2, TokensAre DEF EndsDeclarator, NoHead
  <2>3. CASE prev(x) = Mark("args") /\ prev2(x) = NameToken(e) /\ x.isPointer
    <3>1. prev(x).type = "args" /\ prev2(x).type = "name"
      BY <2>3, TokensAre
    <3> QED
      BY <2>1, <2>3, <3>1 DEF EndsDeclarator
  <2> QED
    BY <2>2, <2>3
<1>4. \A type \in Scoped : makeTag(NameToken(e), x, up, type) = Included(Here(g, e, type))
  BY <1>1, <1>2, TagHere
<1>5. \A type \in {"variable", "externvar"} :
        makeTag(NameToken(e), x, up, type) = Included(Bare(e, type))
  BY TagBare
<1>6. CASE g.storage = "typedef"
  <2>1. qualifyVariableTag(x, up, NameToken(e)) = makeTag(NameToken(e), x, up, "typedef")
    BY <1>1, <1>6 DEF qualifyVariableTag
  <2>2. "typedef" \in Scoped
    BY DEF Scoped, CKinds
  <2> QED
    BY <1>3, <1>4, <1>6, <2>1, <2>2 DEF VariableTags
<1>7. CASE g.storage # "typedef" /\ IsMemberOf(g)
  <2>1. ~ x.notVariable
    BY DEF Declared
  <2>2. CASE g.storage = "extern"
    <3>1. qualifyVariableTag(x, up, NameToken(e)) = {}
      BY <1>1, <1>7, <2>1, <2>2, <1>2 DEF qualifyVariableTag, ScopeOf
    <3> QED
      BY <1>3, <1>7, <2>2, <3>1, Included0 DEF VariableTags
  <2>3. CASE g.storage # "extern"
    <3>1. x.scope \in {"global", "static"}
      BY <1>2, <1>7, <2>3 DEF ScopeOf, IsPosition
    <3>2. qualifyVariableTag(x, up, NameToken(e)) = makeTag(NameToken(e), x, up, "member")
      BY <1>1, <1>7, <2>1, <3>1 DEF qualifyVariableTag
    <3>3. "member" \in Scoped
      BY DEF Scoped, CKinds
    <3> QED
      BY <1>3, <1>4, <1>7, <2>3, <3>2, <3>3 DEF VariableTags
  <2> QED
    BY <2>2, <2>3
<1>8. CASE g.storage # "typedef" /\ ~ IsMemberOf(g)
  <2>1. ~ x.notVariable /\ x.haveQualifyingName /\ ~ x.inFunction
    BY DEF Declared
  <2>2. qualifyVariableTag(x, up, NameToken(e))
          = makeTag(NameToken(e), x, up, IF g.storage = "extern" THEN "externvar" ELSE "variable")
    BY <1>1, <1>8, <2>1 DEF qualifyVariableTag
  <2> QED
    BY <1>3, <1>5, <1>8, <2>2 DEF VariableTags
<1> QED
  BY <1>6, <1>7, <1>8

LEMMA PrototypesTagged ==
  ASSUME NEW g, IsPosition(g), Nested(g.blocks), NEW up, Enclosing(g.blocks, up),
         Top(g).kind # "enum", NEW x, Declared(g, x), NEW name, ~ x.isPointer,
         prev(x) = Mark("args"), prev2(x) = NameToken(name)
  PROVE  EndsDeclarator(x, up) = Included(PrototypeTags(g, name))
<1>1. /\ isValidTypeSpecifier(x.declaration) /\ x.scope # "friend"
      /\ x.scope = "typedef" <=> g.storage = "typedef"
  BY DeclaredIs
<1>2. x.context = << >> /\ x.access = Top(g).access
  BY DEF Declared
<1>3. EndsDeclarator(x, up) = qualifyFunctionDeclTag(x, up, NameToken(name))
  <2>1. ~ insideEnumBody(up)
    BY Surroundings
  <2>2. prev(x).type = "args" /\ prev2(x).type = "name"
    BY TokensAre
  <2> QED
    BY <2>1, <2>2 DEF EndsDeclarator
<1>4. \A type \in Scoped : makeTag(NameToken(name), x, up, type) = Included(Here(g, name, type))
  BY <1>1, <1>2, TagHere
<1>5. qualifyFunctionDeclTag(x, up, NameToken(name))
        = makeTag(NameToken(name), x, up, IF g.storage = "typedef" THEN "typedef" ELSE "prototype")
  BY <1>1 DEF qualifyFunctionDeclTag
<1>6. {"typedef", "prototype"} \subseteq Scoped
  BY DEF Scoped, CKinds
<1> QED
  BY <1>3, <1>4, <1>5, <1>6 DEF PrototypeTags

\* A statement that starts anew fits the start of a declaration.
LEMMA Restarts ==
  ASSUME NEW g, NEW up, NEW st, Reading(g, up, st),
         NEW x, IsStatement(x), x.accessDefault = Top(g).access, NEW made,
         Goes(up, reinitStatement(x, up, FALSE), Included(made)), ~ resolveRequired',
         NEW h, h = Ending(g, made)
  PROVE  Served(h)
<1> DEFINE t == reinitStatement(x, up, FALSE)
<1>1. IsPosition(g) /\ Enclosing(g.blocks, up)
  BY DEF Reading
<1>2. Goes(up, t, Included(made))
  OBVIOUS
<1>3. Anew(g, t) /\ t.access = Top(g).access /\ t.accessDefault = Top(g).access
  <2>1. Anew(g, t) /\ t.access = x.accessDefault /\ t.accessDefault = x.accessDefault
    BY <1>1, Reinit, ZenonT(60)
  <2> HIDE DEF t
  <2> QED
    BY <2>1
<1>4. /\ IsPosition(h) /\ h.at = "start" /\ h.made = made /\ h.blocks = g.blocks
      /\ h.after = "end" /\ ~ Specified(h) /\ h.storage = "none" /\ h.head = "none" /\ ~ h.listed
  BY <1>1, Started
<1>5. /\ Top(h) = Top(g) /\ IsMemberOf(h) = IsMemberOf(g)
  BY <1>4, SameBlocks
<1> HIDE DEF t
<1>6. Common(h, t)
  BY <1>3, <1>4, <1>5 DEF Common, Anew, active, Qualifieds, ScopeOf
<1>7. AtStart(h, t)
  BY <1>3, <1>4, <1>5 DEF AtStart, Anew
<1>8. Matches(h, t)
  BY <1>4, <1>6, <1>7 DEF Matches, Placed, Enumerated, Places
<1> QED
  BY <1>2, <1>4, <1>8, Stays

\* A semicolon starts the next declaration of the block.
LEMMA DeclarationEnds ==
  ASSUME NEW g, NEW up, NEW st, Reading(g, up, st), NEW lx, createTags(lx),
         NEW x, nextToken(st, up, lx) = Read(x), IsStatement(x), active(x) = Mark(Semicolon),
         x.accessDefault = Top(g).access,
         NEW made, EndsDeclarator(x, up) = Included(made), NEW h, h = Ending(g, made)
  PROVE  Served(h)
<1>1. active(x).type = Semicolon
  BY TokensAre
<1>2. up = Around(statements) /\ Read(x) = nextToken(Innermost(statements), up, lx)
  BY DEF Reading
<1>3. Read(x).st = x /\ Read(x).exc = "none"
  BY ReadIs
<1>4. Goes(up, reinitStatement(x, up, FALSE), EndsDeclarator(x, up)) /\ ~ resolveRequired'
  BY <1>1, <1>2, <1>3, Outcome
<1> QED
  BY <1>4, Restarts

\* A comma starts the next declarator of the same type.
Listing(g, made) == [[At(g, "type") EXCEPT !.listed = TRUE] EXCEPT !.made = made]

LEMMA DeclaratorEnds ==
  ASSUME NEW g, NEW up, NEW st, Reading(g, up, st), Top(g).kind # "enum",
         NEW lx, createTags(lx),
         NEW x, nextToken(st, up, lx) = Read(x), Declared(g, x), active(x) = Mark(Comma),
         NEW made, EndsDeclarator(x, up) = Included(made), NEW h, h = Listing(g, made)
  PROVE  Served(h)
<1> DEFINE t == reinitStatement(x, up, TRUE)
<1>1. IsPosition(g) /\ Enclosing(g.blocks, up)
  BY DEF Reading
<1>2. Goes(up, t, Included(made))
  <2>1. active(x).type = Comma
    BY TokensAre
  <2>2. up = Around(statements) /\ Read(x) = nextToken(Innermost(statements), up, lx)
    BY DEF Reading
  <2>3. Read(x).st = x /\ Read(x).exc = "none"
    BY ReadIs
  <2>4. Goes(up, t, EndsDeclarator(x, up))
    BY <2>1, <2>2, <2>3, Outcome
  <2> QED
    BY <2>4
<1>3. /\ IsStatement(t) /\ Plain(t)
      /\ t.scope = x.scope /\ t.declaration = x.declaration
      /\ t.access = x.access /\ t.accessDefault = x.accessDefault
      /\ ~ t.gotName /\ ~ t.haveQualifyingName /\ ~ t.gotParenName
      /\ ~ t.gotArgs /\ ~ t.isPointer /\ t.implementation = "default"
      /\ t.context = << >>
      /\ active(t) = None /\ prev(t) = None /\ prev2(t) = None
  BY <1>1, PartialReinit DEF Declared
<1>4. /\ IsPosition(h) /\ h.at = "type" /\ h.made = made /\ h.blocks = g.blocks
      /\ h.storage = g.storage /\ h.head = g.head /\ h.listed
  BY <1>1 DEF Listing, At, IsPosition, PositionFields
<1>5. Top(h) = Top(g)
  BY <1>4, SameBlocks
<1> HIDE DEF t
<1>6. Common(h, t)
  BY <1>3, <1>4, <1>5 DEF Common, Declared, active, Qualifieds
<1>7. AtType(h, t)
  BY <1>3, <1>4, TokensAre DEF AtType, Declared, TypeRead, DeclaredAs, NoHead
<1>8. Matches(h, t)
  BY <1>4, <1>5, <1>6, <1>7 DEF Matches, Placed, Enumerated, Places
<1> QED
  BY <1>2, <1>4, <1>8, Stays

\* Where a declarator may end.
AtEnd == {"name", "fargs", "args", "ctorargs"}

LEMMA DeclaredAtEnd ==
  ASSUME NEW g, NEW st, IsPosition(g), Matches(g, st), g.at \in AtEnd
  PROVE  /\ Declared(g, st) /\ Top(g).kind # "enum"
         /\ g.at = "name" => prev(st) = NameToken(e) /\ NoHead(prev2(st))
         /\ g.at \in {"fargs", "args"} => prev(st) = Mark("args") /\ prev2(st) = NameToken(e)
         /\ g.at = "ctorargs" => prev(st) = Mark("args") /\ prev2(st) = NameToken(B)
         /\ st.isPointer <=> g.at = "fargs"
<1>1. Common(g, st) /\ Placed(g, st) /\ Top(g).kind # "enum"
  BY DEF Matches, Enumerated, AtEnd
<1>2. /\ g.at = "name" => AtName(g, st)
      /\ g.at \in {"fargs", "args"} => AtArgs(g, st, e)
      /\ g.at = "ctorargs" => AtArgs(g, st, B)
  BY <1>1 DEF Placed
<1>3. st.declaration = DeclaredAs(g) /\ st.haveQualifyingName
  BY <1>2 DEF AtEnd, AtName, AtArgs
<1>4. Declared(g, st)
  BY <1>1, <1>3 DEF Declared, Common, Plain, AtEnd, Qualifieds
<1>5. st.isPointer <=> g.at = "fargs"
  BY <1>1 DEF Common, AtEnd
<1> QED
  BY <1>1, <1>2, <1>4, <1>5 DEF AtName, AtArgs

\* The punctuation is set in the statement.
LEMMA PunctSet ==
  ASSUME NEW g, NEW st, IsPosition(g), Declared(g, st), NEW c \in {Semicolon, Comma},
         NEW x, x = setToken(st, c)
  PROVE  /\ Declared(g, x) /\ active(x) = Mark(c)
         /\ prev(x) = prev(st) /\ prev2(x) = prev2(st) /\ x.isPointer = st.isPointer
<1>1. IsStatement(st)
  BY DEF Declared
<1>2. /\ IsStatement(x) /\ Agree(x, st, {"token"})
      /\ active(x) = Mark(c) /\ prev(x) = prev(st) /\ prev2(x) = prev2(st)
  BY <1>1, TokenSet
<1>3. Declared(g, x) /\ x.isPointer = st.isPointer
  BY <1>2 DEF Declared, Agree, Fields
<1> QED
  BY <1>2, <1>3

\* The tags of the declarator that ends.
EndTags(g) ==
  CASE g.at \in {"name", "fargs"} -> VariableTags(g)
    [] g.at = "args"              -> PrototypeTags(g, e)
    [] g.at = "ctorargs"          -> PrototypeTags(g, B)

LEMMA EndTagged ==
  ASSUME NEW g, NEW up, NEW st, Reading(g, up, st), g.at \in AtEnd,
         NEW x, Declared(g, x), prev(x) = prev(st), prev2(x) = prev2(st),
         x.isPointer = st.isPointer
  PROVE  EndsDeclarator(x, up) = Included(EndTags(g))
<1>1. /\ IsPosition(g) /\ Nested(g.blocks) /\ Enclosing(g.blocks, up) /\ Matches(g, st)
  BY DEF Reading
<1>2. /\ Top(g).kind # "enum"
      /\ g.at = "name" => prev(st) = NameToken(e) /\ NoHead(prev2(st))
      /\ g.at \in {"fargs", "args"} => prev(st) = Mark("args") /\ prev2(st) = NameToken(e)
      /\ g.at = "ctorargs" => prev(st) = Mark("args") /\ prev2(st) = NameToken(B)
      /\ st.isPointer <=> g.at = "fargs"
  BY <1>1, DeclaredAtEnd
<1>3. CASE g.at = "name"
  <2>1. EndsDeclarator(x, up) = Included(VariableTags(g))
    BY <1>1, <1>2, <1>3, VariablesTagged
  <2> QED
    BY <1>3, <2>1 DEF EndTags
<1>4. CASE g.at = "fargs"
  <2>1. EndsDeclarator(x, up) = Included(VariableTags(g))
    BY <1>1, <1>2, <1>4, VariablesTagged
  <2> QED
    BY <1>4, <2>1 DEF EndTags
<1>5. CASE g.at = "args"
  <2>1. EndsDeclarator(x, up) = Included(PrototypeTags(g, e))
    BY <1>1, <1>2, <1>5, PrototypesTagged
  <2> QED
    BY <1>5, <2>1 DEF EndTags
<1>6. CASE g.at = "ctorargs"
  <2>1. EndsDeclarator(x, up) = Included(PrototypeTags(g, B))
    BY <1>1, <1>2, <1>6, PrototypesTagged
  <2> QED
    BY <1>6, <2>1 DEF EndTags
<1> QED
  BY <1>3, <1>4, <1>5, <1>6 DEF AtEnd

\* A semicolon or a comma, by itself or after a bit-field.
LEMMA EndRead ==
  ASSUME NEW g, NEW up, NEW st, Reading(g, up, st), g.at \in AtEnd,
         NEW c \in {Semicolon, Comma}, NEW lx, createTags(lx),
         nextToken(st, up, lx) = Read(setToken(st, c)),
         NEW h, h = IF c = Semicolon THEN Ending(g, EndTags(g)) ELSE Listing(g, EndTags(g))
  PROVE  Served(h)
<1> DEFINE x == setToken(st, c)
<1>1. /\ IsPosition(g) /\ Matches(g, st)
  BY DEF Reading
<1>2. Declared(g, st) /\ Top(g).kind # "enum"
  BY <1>1, DeclaredAtEnd
<1>3. /\ Declared(g, x) /\ active(x) = Mark(c)
      /\ prev(x) = prev(st) /\ prev2(x) = prev2(st) /\ x.isPointer = st.isPointer
  BY <1>1, <1>2, PunctSet
<1> HIDE DEF x
<1>4. EndsDeclarator(x, up) = Included(EndTags(g))
  BY <1>3, EndTagged
<1>5. CASE c = Semicolon
  <2>1. IsStatement(x) /\ x.accessDefault = Top(g).access
    BY <1>3 DEF Declared
  <2>2. h = Ending(g, EndTags(g)) /\ nextToken(st, up, lx) = Read(x) /\ active(x) = Mark(Semicolon)
    BY <1>3, <1>5 DEF x
  <2> QED
    BY <1>4, <2>1, <2>2, DeclarationEnds
<1>6. CASE c = Comma
  <2>1. h = Listing(g, EndTags(g)) /\ nextToken(st, up, lx) = Read(x) /\ active(x) = Mark(Comma)
    BY <1>3, <1>6 DEF x, Semicolon, Comma
  <2> QED
    BY <1>2, <1>3, <1>4, <2>1, DeclaratorEnds
<1> QED
  BY <1>5, <1>6

\* processColon, with a bit-field.
LEMMA BitFieldEnds ==
  ASSUME NEW g, NEW up, NEW st, Reading(g, up, st), g.at = "name", g.head \in {"none", "enum"},
         Top(g).kind = "struct", NEW c \in {Semicolon, Comma}, createTags(Colon(c)),
         NEW h, h = IF c = Semicolon THEN Ending(g, EndTags(g)) ELSE Listing(g, EndTags(g))
  PROVE  Served(h)
<1>1. /\ IsPosition(g) /\ Matches(g, st) /\ Enclosing(g.blocks, up)
  BY DEF Reading
<1>2. st.declaration \notin {"class", "struct"}
  <2>1. AtName(g, st)
    BY <1>1 DEF Matches, Placed
  <2> QED
    BY <2>1 DEF AtName, DeclaredAs
<1>3. parentDecl(up) = "struct"
  <2>1. g.blocks # << >>
    BY DEF Top
  <2> QED
    BY <1>1, <2>1, Surroundings
<1>4. nextToken(st, up, Colon(c)) = Read(setToken(st, c))
  <2>1. nextToken(st, up, Colon(c)) = processColon(st, up, c)
    BY DEF nextToken, Colon
  <2>2. processColon(st, up, c) = Read(setToken(st, c))
    BY <1>2, <1>3 DEF processColon, Semicolon, Comma
  <2> QED
    BY <2>1, <2>2
<1> QED
  BY <1>4, EndRead DEF AtEnd

\* processInitializer, with the initializer of a variable.
LEMMA ValueEnds ==
  ASSUME NEW g, NEW up, NEW st, Reading(g, up, st), g.at = "name", g.storage # "typedef",
         NEW c \in {Semicolon, Comma}, c = Comma => g.storage # "extern",
         createTags(Value(c)),
         NEW h, h = IF c = Semicolon THEN Ending(g, VariableTags(Initialized(g)))
                                     ELSE Listing(g, VariableTags(Initialized(g)))
  PROVE  Served(h)
<1> DEFINE s == setToken(st, c)
           i == Initialized(g)
           x == [s EXCEPT !.assignment = TRUE, !.scope = IF @ = "extern" THEN "global" ELSE @]
<1>1. /\ IsPosition(g) /\ Matches(g, st) /\ Enclosing(g.blocks, up) /\ Nested(g.blocks)
  BY DEF Reading
<1>2. /\ Declared(g, st) /\ Top(g).kind # "enum"
      /\ prev(st) = NameToken(e) /\ NoHead(prev2(st))
  BY <1>1, DeclaredAtEnd DEF AtEnd
<1>3. /\ Declared(g, s) /\ active(s) = Mark(c) /\ prev(s) = prev(st) /\ prev2(s) = prev2(st)
  BY <1>1, <1>2, PunctSet
<1>4. nextToken(st, up, Value(c)) = Read(x)
  <2>1. nextToken(st, up, Value(c)) = processInitializer(st, up, Value(c))
    BY DEF nextToken, Value
  <2>2. Value(c).rest = c /\ Value(c).zero = FALSE
    BY DEF Value
  <2>3. c \notin {"eof", Closing}
    BY DEF Semicolon, Comma, Closing
  <2>4. c \notin {"eof", "}"}
    BY <2>3 DEF Closing
  <2>5. processInitializer(st, up, Value(c))
          = Read([s EXCEPT !.assignment = TRUE, !.implementation = s.implementation,
                           !.scope = IF @ = "extern" THEN "global" ELSE @])
    BY <2>2, <2>4 DEF processInitializer
  <2>6. [s EXCEPT !.assignment = TRUE, !.implementation = s.implementation,
                  !.scope = IF @ = "extern" THEN "global" ELSE @] = x
    <3>1. IsStatement(s)
      BY <1>3 DEF Declared
    <3> HIDE DEF s
    <3> QED
      BY <3>1 DEF IsStatement, Fields
  <2> QED
    BY <2>1, <2>5, <2>6
<1> HIDE DEF s
<1>5. /\ IsPosition(i) /\ i.blocks = g.blocks /\ i.head = g.head
      /\ i.storage = IF g.storage = "extern" THEN "none" ELSE g.storage
  BY <1>1 DEF Initialized, IsPosition, PositionFields
<1>6. Top(i) = Top(g)
  BY <1>5, SameBlocks
<1> HIDE DEF i
<1>7. /\ Declared(i, x) /\ active(x) = Mark(c) /\ prev(x) = prev(st) /\ prev2(x) = prev2(st)
  <2>1. /\ IsStatement(x) /\ Agree(x, s, {"assignment", "scope"}) /\ x.token = s.token
        /\ x.scope = IF s.scope = "extern" THEN "global" ELSE s.scope
    BY <1>3 DEF Declared, IsStatement, Fields, Agree
  <2> HIDE DEF x
  <2>2. x.scope = ScopeOf(i.storage)
    BY <1>3, <1>5, <2>1 DEF Declared, ScopeOf
  <2>3. Declared(i, x)
    BY <1>3, <1>5, <1>6, <2>1, <2>2 DEF Declared, Agree, Fields, DeclaredAs
  <2> QED
    BY <1>3, <2>1, <2>3 DEF active, prev, prev2
<1> HIDE DEF x
<1>8. EndsDeclarator(x, up) = Included(VariableTags(i))
  BY <1>1, <1>2, <1>5, <1>6, <1>7, VariablesTagged
<1>9. CASE c = Semicolon
  <2>1. IsStatement(x) /\ x.accessDefault = Top(g).access
    BY <1>6, <1>7 DEF Declared
  <2>2. h = Ending(g, VariableTags(i)) /\ active(x) = Mark(Semicolon)
        /\ nextToken(st, up, Value(c)) = Read(x)
    BY <1>4, <1>7, <1>9 DEF i
  <2> QED
    BY <1>8, <2>1, <2>2, DeclarationEnds
<1>10. CASE c = Comma
  <2>1. h = Listing(g, VariableTags(i)) /\ active(x) = Mark(Comma)
        /\ nextToken(st, up, Value(c)) = Read(x)
    BY <1>4, <1>7, <1>10 DEF i, Semicolon, Comma
  <2>2. Declared(g, x)
    BY <1>5, <1>6, <1>7, <1>10 DEF Declared, DeclaredAs
  <2> QED
    BY <1>2, <1>8, <2>1, <2>2, DeclaratorEnds
<1> QED
  BY <1>9, <1>10

\* The initializer of a pure virtual function.
LEMMA PureEnds ==
  ASSUME NEW g, NEW up, NEW st, Reading(g, up, st), g.at = "args", g.next = "=",
         createTags(Pure), NEW h, h = Ending(g, PrototypeTags(g, e))
  PROVE  Served(h)
<1> DEFINE s == setToken(st, Semicolon)
           how == IF s.implementation = "virtual" THEN "pure virtual" ELSE s.implementation
           x == [s EXCEPT !.assignment = TRUE, !.implementation = how]
<1>1. /\ IsPosition(g) /\ Matches(g, st) /\ Enclosing(g.blocks, up) /\ Nested(g.blocks)
  BY DEF Reading
<1>2. Declared(g, st) /\ st.scope = "global"
  <2>1. Declared(g, st)
    BY <1>1, DeclaredAtEnd DEF AtEnd
  <2>2. g.storage = "virtual"
    BY <1>1 DEF Matches, Placed
  <2> QED
    BY <2>1, <2>2 DEF Declared, ScopeOf
<1>3. /\ Declared(g, s) /\ active(s) = Mark(Semicolon) /\ prev(s) = prev(st)
      /\ prev2(s) = prev2(st) /\ s.isPointer = st.isPointer
  BY <1>1, <1>2, PunctSet
<1>4. nextToken(st, up, Pure) = Read(x)
  <2>1. nextToken(st, up, Pure) = processInitializer(st, up, Pure)
    BY DEF nextToken, Pure
  <2>2. Pure.rest = Semicolon /\ Pure.zero = TRUE
    BY DEF Pure, Semicolon
  <2>3. Semicolon \notin {"eof", "}"}
    BY DEF Semicolon
  <2>4. processInitializer(st, up, Pure)
          = Read([s EXCEPT !.assignment = TRUE, !.implementation = how,
                           !.scope = IF @ = "extern" THEN "global" ELSE @])
    BY <2>2, <2>3 DEF processInitializer
  <2>5. [s EXCEPT !.assignment = TRUE, !.implementation = how,
                  !.scope = IF @ = "extern" THEN "global" ELSE @] = x
    <3>1. IsStatement(s) /\ s.scope = "global"
      BY <1>2, <1>3 DEF Declared
    <3> HIDE DEF s, how
    <3> QED
      BY <3>1 DEF IsStatement, Fields
  <2> QED
    BY <2>1, <2>4, <2>5
<1> HIDE DEF s
<1>5. /\ Declared(g, x) /\ active(x) = Mark(Semicolon) /\ prev(x) = prev(st)
      /\ prev2(x) = prev2(st) /\ x.isPointer = st.isPointer
  <2> HIDE DEF how
  <2>1. /\ IsStatement(x) /\ Agree(x, s, {"assignment", "implementation"}) /\ x.token = s.token
    BY <1>3 DEF Declared, IsStatement, Fields, Agree
  <2> HIDE DEF x
  <2>2. Declared(g, x) /\ x.isPointer = s.isPointer
    BY <1>3, <2>1 DEF Declared, Agree, Fields
  <2> QED
    BY <1>3, <2>1, <2>2 DEF active, prev, prev2
<1> HIDE DEF x
<1>6. EndsDeclarator(x, up) = Included(PrototypeTags(g, e))
  BY <1>5, EndTagged DEF AtEnd, EndTags
<1> QED
  BY <1>4, <1>5, <1>6, DeclarationEnds DEF Declared

-------------------------------------------------------------------------------
(* Bodies of functions                                                     *)

\* Where a body may follow, and the name it is the function of.
BeforeBody == {"args", "ctorargs", "qualifiedargs"}
BodyName(g) == IF g.at = "ctorargs" THEN B ELSE e
BodyTags(g) == IF g.at = "qualifiedargs" THEN {Tag(e, "function", << B >>, "undef")}
                                         ELSE Here(g, BodyName(g), "function")

LEMMA BeforeBodyIs ==
  ASSUME NEW g, NEW st, IsPosition(g), Matches(g, st), g.at \in BeforeBody
  PROVE  /\ IsStatement(st) /\ st.haveQualifyingName /\ st.accessDefault = Top(g).access
         /\ prev(st) = Mark("args") /\ prev2(st) = NameToken(BodyName(g))
         /\ st.access = Top(g).access /\ st.scope # "friend"
         /\ g.at # "qualifiedargs" => st.context = << >>
         /\ g.at = "qualifiedargs" => st.context = << B >> /\ g.blocks = << >> /\ st.scope = "global"
<1>1. Common(g, st) /\ Placed(g, st)
  BY DEF Matches
<1>2. AtArgs(g, st, BodyName(g))
  BY <1>1 DEF Placed, BeforeBody, BodyName
<1>3. g.at = "qualifiedargs" => AtQualifier(g, st)
  BY <1>1 DEF Placed
<1>4. /\ st.scope # "friend" /\ (g.at = "qualifiedargs" => st.scope = "global")
      /\ st.access = Top(g).access /\ st.accessDefault = Top(g).access /\ IsStatement(st)
  BY <1>1, <1>3 DEF Common, ScopeOf, IsPosition, BeforeBody, AtQualifier, Specified
<1>5. /\ g.at # "qualifiedargs" => st.context = << >>
      /\ g.at = "qualifiedargs" => st.context = << B >>
  BY <1>1 DEF Common, BeforeBody, Qualifieds
<1> QED
  BY <1>2, <1>3, <1>4, <1>5 DEF AtArgs, AtQualifier

\* tagCheck and nest, at the brace of a body.
LEMMA BodyOpened ==
  ASSUME "local" \in Disabled, NEW g, NEW up, NEW st, Reading(g, up, st), g.at \in BeforeBody,
         NEW lx, createTags(lx), nextToken(st, up, lx) = Read(setToken(st, Opening))
  PROVE  \E y : /\ IsStatement(y) /\ y.accessDefault = Top(g).access
                /\ tags' = Included(BodyTags(g))
                /\ lx.t # "unclosed" =>
                     /\ Goes(up, reinitStatement(y, up, FALSE), Included(BodyTags(g)))
                     /\ ~ resolveRequired'
                /\ lx.t = "unclosed" => exception' = "brace" /\ statements' = << >>
<1> DEFINE x == setToken(st, Opening)
           name == IF prev2(x).type = "name" THEN prev2(x) ELSE x.blockName
           x1 == [x EXCEPT !.declaration = "function", !.blockName = name]
           inner == [x1 EXCEPT !.inFunction = TRUE]
           y == setToken(advanceToken(inner), Closing)
<1>1. /\ IsPosition(g) /\ Matches(g, st) /\ Enclosing(g.blocks, up) /\ Nested(g.blocks)
  BY DEF Reading
<1>2. /\ IsStatement(st) /\ st.haveQualifyingName /\ st.accessDefault = Top(g).access
      /\ prev(st) = Mark("args") /\ prev2(st) = NameToken(BodyName(g))
      /\ st.access = Top(g).access /\ st.scope # "friend"
      /\ g.at # "qualifiedargs" => st.context = << >>
      /\ g.at = "qualifiedargs" => st.context = << B >> /\ g.blocks = << >> /\ st.scope = "global"
  BY <1>1, BeforeBodyIs
<1>3. /\ IsStatement(x) /\ Agree(x, st, {"token"})
      /\ active(x) = Mark(Opening) /\ prev(x) = prev(st) /\ prev2(x) = prev2(st)
  BY <1>2, TokenSet
<1>4. OpenBlock(Read(x), up, lx) /\ exception = "running"
  <2>1. active(x).type = Opening
    BY <1>3, TokensAre
  <2>2. up = Around(statements) /\ Read(x) = nextToken(Innermost(statements), up, lx)
    BY DEF Reading
  <2>3. Read(x).st = x /\ Read(x).exc = "none"
    BY ReadIs
  <2> HIDE DEF x
  <2> QED
    BY <2>1, <2>2, <2>3, Outcome DEF createTags
<1> HIDE DEF x
<1>5. /\ tags' = OpensBlock(x, up).tags
      /\ nest(OpensBlock(x, up).st, up, lx.t # "unclosed")
  <2>1. tagCheck(x, up) = OpensBlock(x, up)
    BY <1>3, TagChecked, TokensAre
  <2> QED
    BY <1>4, <2>1, ReadIs DEF OpenBlock
<1>6. x.haveQualifyingName /\ x.accessDefault = Top(g).access
  BY <1>2, <1>3 DEF Agree, Fields
<1>7. OpensBlock(x, up) = [st |-> x1, tags |-> makeTag(NameToken(BodyName(g)), x, up, "function")]
  <2>1. prev(x).type = "args"
    BY <1>2, <1>3, TokensAre
  <2> QED
    BY <1>2, <1>3, <1>6, <2>1 DEF OpensBlock
<1>8. OpensBlock(x, up).st = x1
      /\ OpensBlock(x, up).tags = makeTag(NameToken(BodyName(g)), x, up, "function")
  BY <1>7
<1> HIDE DEF name
<1>9. /\ IsStatement(x1) /\ x1.declaration = "function" /\ x1.accessDefault = Top(g).access
  BY <1>3, <1>6 DEF IsStatement, Fields
<1> HIDE DEF x1
<1>10. /\ IsStatement(inner) /\ inner.declaration = "function"
       /\ inner.accessDefault = Top(g).access
  BY <1>9 DEF IsStatement, Fields
<1>11. ~ entersBlock(x1)
  BY <1>9 DEF entersBlock, ContextualKeywords
<1>12. [x1 EXCEPT !.inFunction = @ \/ x1.declaration = "function"] = inner
  BY <1>9
<1>13. /\ lx.t # "unclosed" => AfterBlock(inner, up) /\ exception' = exception
       /\ lx.t = "unclosed" => Leaves("brace")
  BY <1>5, <1>8, <1>11, <1>12 DEF nest
<1> HIDE DEF inner
<1>14. /\ IsStatement(y) /\ y.declaration = "function" /\ y.accessDefault = Top(g).access
       /\ active(y).type = Closing
  <2> DEFINE z == advanceToken(inner)
  <2>1. IsStatement(z) /\ Agree(z, inner, {"token"})
    BY <1>10, Advanced
  <2> HIDE DEF z
  <2>2. IsStatement(setToken(z, Closing)) /\ Agree(setToken(z, Closing), z, {"token"})
        /\ active(setToken(z, Closing)) = Mark(Closing)
    BY <2>1, TokenSet
  <2>3. y = setToken(z, Closing)
    BY DEF z
  <2> HIDE DEF y
  <2> QED
    BY <1>10, <2>1, <2>2, <2>3, TokensAre DEF Agree, Fields
<1>15. y = setToken(advanceToken(inner), "}")
  BY DEF Closing
<1> HIDE DEF y
<1>16. AfterBlock(inner, up) =>
         statements' = Append(up, reinitStatement(y, up, FALSE)) /\ ~ resolveRequired'
  <2>1. checkStatementEnd(y, up) = [st |-> reinitStatement(y, up, FALSE), required |-> FALSE]
    <3>1. isStatementEnd(y)
      BY <1>14 DEF isStatementEnd, isContextualDecl, ContextualKeywords, Closing
    <3>2. active(y).type # ","
      BY <1>14 DEF Closing
    <3> QED
      BY <3>1, <3>2 DEF checkStatementEnd
  <2>2. AfterBlock(inner, up) => Continue(y, up)
    BY <1>15 DEF AfterBlock
  <2>3. Continue(y, up) =>
          statements' = Append(up, reinitStatement(y, up, FALSE)) /\ ~ resolveRequired'
    <3>1. checkStatementEnd(y, up).st = reinitStatement(y, up, FALSE)
          /\ ~ checkStatementEnd(y, up).required
      BY <2>1
    <3> QED
      BY <3>1 DEF Continue
  <2> QED
    BY <2>2, <2>3
<1>17. tags' = Included(BodyTags(g))
  <2>1. /\ x.context = st.context /\ x.scope = st.scope /\ x.access = st.access
    BY <1>3 DEF Agree, Fields
  <2>2. "function" \in Scoped
    BY DEF Scoped, CKinds
  <2>3. CASE g.at # "qualifiedargs"
    <3>1. makeTag(NameToken(BodyName(g)), x, up, "function")
            = Included(Here(g, BodyName(g), "function"))
      BY <1>1, <1>2, <2>1, <2>2, <2>3, TagHere
    <3> QED
      BY <1>5, <1>8, <2>3, <3>1 DEF BodyTags
  <2>4. CASE g.at = "qualifiedargs"
    <3>1. Top(g).access = "undef"
      BY <1>2, <2>4 DEF Top
    <3>2. makeTag(NameToken(e), x, up, "function")
            = Included({Tag(e, "function", << B >>, "undef")})
      BY <1>1, <1>2, <2>1, <2>2, <2>4, <3>1, TagQualified
    <3> QED
      BY <1>5, <1>8, <2>4, <3>2 DEF BodyTags, BodyName
  <2> QED
    BY <2>3, <2>4
<1> QED
  BY <1>4, <1>13, <1>14, <1>16, <1>17 DEF Goes, Leaves

LEMMA BodyRead ==
  ASSUME "local" \in Disabled, NEW g, NEW up, NEW st, Reading(g, up, st), g.at \in BeforeBody,
         createTags(Punct(Opening)), NEW h, h = Ending(g, BodyTags(g))
  PROVE  Served(h)
<1>1. nextToken(st, up, Punct(Opening)) = Read(setToken(st, Opening))
  BY PunctRead
<1>2. Punct(Opening).t # "unclosed"
  BY DEF Punct
<1>3. PICK y : /\ IsStatement(y) /\ y.accessDefault = Top(g).access
               /\ Goes(up, reinitStatement(y, up, FALSE), Included(BodyTags(g)))
               /\ ~ resolveRequired'
  BY <1>1, <1>2, BodyOpened
<1> QED
  BY <1>3, Restarts

LEMMA BodyBreaks ==
  ASSUME "local" \in Disabled, NEW g, NEW up, NEW st, Reading(g, up, st), g.at \in BeforeBody,
         createTags(Unclosed(Opening)), NEW h, h = Going(g, "brace", BodyTags(g))
  PROVE  Served(h)
<1>1. nextToken(st, up, Unclosed(Opening)) = Read(setToken(st, Opening))
  BY DEF nextToken, Unclosed, Opening
<1>2. Unclosed(Opening).t = "unclosed"
  BY DEF Unclosed
<1>3. /\ tags' = Included(BodyTags(g)) /\ exception' = "brace" /\ statements' = << >>
  BY <1>1, <1>2, BodyOpened
<1>4. h.at = "brace" /\ h.made = BodyTags(g)
  BY Moved DEF Reading
<1> QED
  BY <1>3, <1>4 DEF Served, Broken

-------------------------------------------------------------------------------
(* Parenthesised groups                                                    *)

LEMMA NoneIs == None = Mark("none")
BY DEF None, Mark

LEMMA ParenIs ==
  ASSUME NEW shape, NEW next, NEW to
  PROVE  /\ Paren(shape, next, to).t = "paren" /\ Paren(shape, next, to).shape = shape
         /\ Paren(shape, next, to).next = next /\ Paren(shape, next, to).to = to
         /\ Paren(shape, next, to).w = IF shape = "pointer" THEN e ELSE T
BY DEF Paren

\* Plain statements have no variable to doubt.
Doubted(st) == [st EXCEPT !.notVariable = @ \/ (st.inFunction /\ ~ st.assignment)]

LEMMA DoubtedIs ==
  ASSUME NEW st, IsStatement(st), Plain(st)
  PROVE  LET x == Doubted(st)
         IN  IsStatement(x) /\ Plain(x) /\ Agree(x, st, {"notVariable"}) /\ x.token = st.token
BY DEF Doubted, IsStatement, Plain, Fields, Agree

\* What the parentheses of a function leave.
TakesArgs(t, st) ==
  /\ IsStatement(t) /\ Plain(t) /\ t.gotArgs /\ Agree(t, st, {"token", "gotArgs", "notVariable"})
  /\ active(t) = None /\ prev(t) = Mark("args") /\ prev2(t) = prev(st)

\* A group that does not declare a name is one of arguments.
LEMMA ArgsRead ==
  ASSUME NEW g, NEW up, NEW st, Reading(g, up, st),
         NEW shape \in {"empty", "typed", "single", "macro"}, NEW next, NEW to,
         createTags(Paren(shape, next, to)),
         shape = "macro" => prev2(st).type # "name",
         prev(st).type # "none", ~ st.gotArgs,
         \/ st.gotParenName
         \/ shape \in {"typed", "macro"}
         \/ /\ st.haveQualifyingName /\ st.declaration # "none" /\ next # "("
            /\ next = "=" => st.implementation = "virtual",
         \/ next \in {Semicolon, Comma, Opening, "="}
         \/ next \in {"const", ":"} /\ to # "eof"
         \/ next = "decls" /\ ~ cpp /\ shape = "single" /\ to # "eof"
  PROVE  \E t : Goes(up, t, {}) /\ TakesArgs(t, st)
<1> DEFINE lx == Paren(shape, next, to)
           info == parenInfo(shape)
           x == Doubted(st)
           s == setToken(x, "args")
           t == advanceToken([s EXCEPT !.gotArgs = TRUE])
           u == setToken(t, "none")
<1>1. IsStatement(st) /\ Plain(st) /\ active(st) = None
  BY DEF Reading, Matches, Common, active
<1>2. /\ IsStatement(x) /\ Plain(x) /\ Agree(x, st, {"notVariable"})
      /\ active(x) = None /\ prev(x) = prev(st) /\ prev2(x) = prev2(st)
  BY <1>1, DoubtedIs DEF active, prev, prev2
<1>3. /\ lx.t = "paren" /\ lx.shape = shape /\ lx.next = next /\ lx.to = to
  BY ParenIs
<1>4. /\ info.invalidContents = FALSE /\ info.isParamList
      /\ info.isNameCandidate <=> shape \in {"empty", "single"}
      /\ info.isName => shape = "single"
      /\ ~ cpp /\ shape = "single" => info.isKnrParamList /\ info.parameterCount = 1
  BY DEF parenInfo
<1> HIDE DEF info, x, lx
<1>5. ~ DeclaresName(x, info, next)
  <2>1. /\ x.gotParenName = st.gotParenName /\ x.haveQualifyingName = st.haveQualifyingName
        /\ x.declaration = st.declaration /\ x.implementation = st.implementation
    BY <1>2 DEF Agree, Fields
  <2> QED
    BY <1>4, <2>1 DEF DeclaresName
<1>6. /\ IsStatement(s) /\ Agree(s, x, {"token"}) /\ active(s) = Mark("args")
      /\ prev(s) = prev(x) /\ prev2(s) = prev2(x)
  BY <1>2, TokenSet
<1> HIDE DEF s
<1>7. TakesArgs(t, st)
  <2> DEFINE a == [s EXCEPT !.gotArgs = TRUE]
  <2>1. IsStatement(a) /\ Agree(a, s, {"gotArgs"}) /\ a.gotArgs /\ a.token = s.token
    BY <1>6 DEF IsStatement, Fields, Agree
  <2> HIDE DEF a
  <2>2. /\ IsStatement(t) /\ Agree(t, a, {"token"})
        /\ active(t) = None /\ prev(t) = active(a) /\ prev2(t) = prev(a)
    BY <2>1, Advanced DEF a
  <2> HIDE DEF t
  <2>3. Agree(t, st, {"token", "gotArgs", "notVariable"}) /\ t.gotArgs /\ t.notVariable = x.notVariable
    BY <1>2, <1>6, <2>1, <2>2 DEF Agree, Fields
  <2>4. Plain(t)
    <3>1. t.inFunction = st.inFunction /\ t.assignment = st.assignment
      BY <2>3 DEF Agree, Fields
    <3> QED
      BY <1>1, <1>2, <2>3, <3>1 DEF Plain
  <2> QED
    BY <1>2, <1>6, <2>1, <2>2, <2>3, <2>4 DEF TakesArgs, active, prev
<1> HIDE DEF t
<1>8. TakesArgs(u, st)
  <2>1. /\ IsStatement(u) /\ Agree(u, t, {"token"})
        /\ active(u) = None /\ prev(u) = prev(t) /\ prev2(u) = prev2(t)
    BY <1>7, TokenSet, NoneIs DEF TakesArgs
  <2> HIDE DEF u
  <2>2. Plain(u) /\ u.gotArgs
    BY <1>7, <2>1 DEF TakesArgs, Agree, Fields, Plain
  <2>3. Agree(u, st, {"token", "gotArgs", "notVariable"})
    BY <1>7, <2>1 DEF TakesArgs, Agree
  <2> QED
    BY <1>7, <2>1, <2>2, <2>3 DEF TakesArgs
<1>9. nextToken(st, up, lx) =
        IF st.scope = "typedef" THEN PutBack(t, next) ELSE analyzePostParens(t, up, info, lx)
  <2>1. nextToken(st, up, lx) = analyzeParens(st, up, lx)
    BY <1>3 DEF nextToken
  <2>2. (IF shape = "macro" THEN skipMacro(x) ELSE x) = x
    BY <1>2 DEF skipMacro
  <2>3. ~ x.gotArgs
    BY <1>2 DEF Agree, Fields
  <2>4. analyzeParens(st, up, lx) =
          IF st.scope = "typedef" THEN PutBack(t, next) ELSE analyzePostParens(t, up, info, lx)
    <3> DEFINE read == IF shape = "macro" THEN skipMacro(x) ELSE x
    <3> HIDE DEF read
    <3>1. prev(st).type # "none" /\ ~ info.invalidContents /\ ~ DeclaresName(read, info, next)
          /\ ~ read.gotArgs /\ info.isParamList /\ read = x
      BY <1>4, <1>5, <2>2, <2>3 DEF read
    <3>2. analyzeParens(st, up, lx) =
            IF prev(st).type = "none" THEN Ungrouped(x, info, lx)
            ELSE IF info.invalidContents THEN PutBack(reinitStatement(read, up, FALSE), next)
            ELSE IF DeclaresName(read, info, next)
              THEN PutBack([ ReadName(read, lx.w) EXCEPT !.context = read.context,
                               !.gotParenName = TRUE, !.isPointer = info.isPointer ], next)
            ELSE IF ~ read.gotArgs /\ info.isParamList
              THEN IF st.scope = "typedef"
                     THEN PutBack(advanceToken([setToken(read, "args") EXCEPT !.gotArgs = TRUE]), next)
                     ELSE analyzePostParens(
                            advanceToken([setToken(read, "args") EXCEPT !.gotArgs = TRUE]), up, info, lx)
            ELSE PutBack(setToken(read, "none"), next)
      BY <1>3 DEF analyzeParens, Doubted, x, info, read
    <3>3. advanceToken([setToken(read, "args") EXCEPT !.gotArgs = TRUE]) = t
      BY <3>1 DEF t, s
    <3> QED
      BY <3>1, <3>2, <3>3
  <2> QED
    BY <2>1, <2>4
<1> HIDE DEF u
<1>10. \E v \in {t, u} : \E after : nextToken(st, up, lx) = PutBack(v, after)
  <2>1. CASE st.scope = "typedef"
    BY <1>9, <2>1
  <2>2. CASE st.scope # "typedef" /\ next \in {Semicolon, Comma, Opening, "="}
    <3>1. analyzePostParens(t, up, info, lx) = PutBack(t, next)
      BY <1>3, <2>2 DEF analyzePostParens, Semicolon, Comma, Opening
    <3> QED
      BY <1>9, <2>2, <3>1
  <2>3. CASE st.scope # "typedef" /\ next \in {"const", ":", "decls"} /\ to # "eof"
             /\ (next = "decls" => ~ cpp /\ shape = "single")
    <3>1. analyzePostParens(t, up, info, lx) = skipPostArgumentStuff(t, up, info, lx)
      BY <1>3, <2>3 DEF analyzePostParens
    <3>2. CASE next \in {"const", ":"}
      <4>1. skipPostArgumentStuff(t, up, info, lx) = PutBack(u, to)
        BY <1>3, <2>3, <3>2 DEF skipPostArgumentStuff, u
      <4> QED
        BY <1>9, <2>3, <3>1, <4>1
    <3>3. CASE next = "decls"
      <4>1. info.isKnrParamList /\ info.parameterCount > 0
        BY <1>4, <2>3, <3>3
      <4>2. skipPostArgumentStuff(t, up, info, lx) = PutBack(u, to)
        BY <1>3, <2>3, <3>3, <4>1 DEF skipPostArgumentStuff, u
      <4> QED
        BY <1>9, <2>3, <3>1, <4>2
    <3> QED
      BY <2>3, <3>2, <3>3
  <2> QED
    BY <2>1, <2>2, <2>3
<1>11. PICK v, after : v \in {t, u} /\ nextToken(st, up, lx) = PutBack(v, after)
  BY <1>10
<1>12. TakesArgs(v, st)
  BY <1>7, <1>8, <1>11
<1>13. Goes(up, v, {})
  BY <1>11, <1>12, NoTokenYet DEF TakesArgs, lx
<1> QED
  BY <1>12, <1>13

\* Where arguments may follow, and the place after them.
BeforeArgs == {"name", "fptr", "ctor", "qualifiedname"}

AfterArgs(at) ==
  CASE at = "name" -> "args" [] at = "fptr" -> "fargs" [] at = "ctor" -> "ctorargs"
    [] at = "qualifiedname" -> "qualifiedargs"

LEMMA AfterArgsIs ==
  /\ AfterArgs("name") = "args" /\ AfterArgs("fptr") = "fargs"
  /\ AfterArgs("ctor") = "ctorargs" /\ AfterArgs("qualifiedname") = "qualifiedargs"
BY DEF AfterArgs

LEMMA BeforeArgsIs ==
  ASSUME NEW g, NEW st, IsPosition(g), Matches(g, st), g.at \in BeforeArgs
  PROVE  /\ Top(g).kind # "enum" /\ st.haveQualifyingName /\ st.declaration = DeclaredAs(g)
         /\ st.declaration # "none" /\ prev(st) = NameToken(IF g.at = "ctor" THEN B ELSE e)
         /\ ~ st.gotArgs /\ (st.gotParenName <=> g.at = "fptr")
         /\ g.at \in {"ctor", "qualifiedname"} => ~ Specified(g)
         /\ g.at = "qualifiedname" => g.blocks = << >>
<1>1. Common(g, st) /\ Placed(g, st) /\ Top(g).kind # "enum"
  BY DEF Matches, Enumerated, BeforeArgs
<1>2. ~ st.gotArgs /\ (st.gotParenName <=> g.at = "fptr")
  BY <1>1 DEF Common, BeforeArgs
<1>3. DeclaredAs(g) # "none"
  BY DEF DeclaredAs
<1>4. CASE g.at = "name"
  BY <1>1, <1>2, <1>3, <1>4 DEF Placed, AtName
<1>5. CASE g.at = "fptr"
  BY <1>1, <1>2, <1>3, <1>5 DEF Placed, AtFptr
<1>6. CASE g.at = "ctor"
  BY <1>1, <1>2, <1>3, <1>6 DEF Placed, AtCtor, DeclaredAs, Specified
<1>7. CASE g.at = "qualifiedname"
  BY <1>1, <1>2, <1>3, <1>7 DEF Placed, AtQualifier, DeclaredAs, Specified
<1> QED
  BY <1>4, <1>5, <1>6, <1>7 DEF BeforeArgs

LEMMA ArgsPlaced ==
  ASSUME NEW g, NEW up, NEW st, Reading(g, up, st), g.at \in BeforeArgs,
         NEW t, Goes(up, t, {}), TakesArgs(t, st),
         NEW h, IsPosition(h), h.at = AfterArgs(g.at), h.made = {}, h.blocks = g.blocks,
         h.storage = g.storage, h.head = g.head, h.listed = g.listed,
         h.at = "args" /\ h.next = "=" => h.storage = "virtual",
         h.at = "ctorargs" => h.next \notin {Comma, "="}
  PROVE  Served(h)
<1>1. IsPosition(g) /\ Matches(g, st) /\ Common(g, st)
  BY DEF Reading, Matches
<1>2. /\ Top(g).kind # "enum" /\ st.haveQualifyingName /\ st.declaration = DeclaredAs(g)
      /\ prev(st) = NameToken(IF g.at = "ctor" THEN B ELSE e)
      /\ g.at \in {"ctor", "qualifiedname"} => ~ Specified(g)
      /\ g.at = "qualifiedname" => g.blocks = << >>
  BY <1>1, BeforeArgsIs
<1>3. Top(h) = Top(g)
  BY SameBlocks
<1>4. h.at \in {"args", "fargs", "ctorargs", "qualifiedargs"}
      /\ (h.at = "ctorargs" <=> g.at = "ctor") /\ (h.at = "fargs" <=> g.at = "fptr")
      /\ (h.at = "qualifiedargs" <=> g.at = "qualifiedname")
  BY AfterArgsIs DEF BeforeArgs
<1>5. Common(h, t)
  BY <1>1, <1>3, <1>4 DEF Common, TakesArgs, Agree, Fields, BeforeArgs, Qualifieds, active
<1>6. AtArgs(h, t, IF g.at = "ctor" THEN B ELSE e)
  BY <1>2 DEF AtArgs, TakesArgs, Agree, Fields, DeclaredAs
<1>7. h.at \in {"ctorargs", "qualifiedargs"} => ~ Specified(h)
  BY <1>2, <1>4 DEF Specified
<1>8. h.at = "qualifiedargs" => AtQualifier(h, t)
  BY <1>2, <1>4, <1>6, <1>7 DEF AtQualifier, AtArgs, DeclaredAs, Specified
<1>9. Placed(h, t)
  BY <1>4, <1>6, <1>7, <1>8 DEF Placed
<1>10. Matches(h, t)
  BY <1>2, <1>3, <1>4, <1>5, <1>9 DEF Matches, Enumerated, Places
<1> QED
  BY <1>4, <1>10, Stays, Included0

\* The place before the lexeme "next".
GoingBefore(g, at, next) == [[At(g, at) EXCEPT !.next = next] EXCEPT !.made = {}]

LEMMA MovedBefore ==
  ASSUME NEW g, IsPosition(g), NEW at, NEW next, NEW h, h = GoingBefore(g, at, next)
  PROVE  /\ IsPosition(h) /\ h.at = at /\ h.made = {} /\ h.next = next /\ h.blocks = g.blocks
         /\ h.storage = g.storage /\ h.head = g.head /\ h.listed = g.listed
BY DEF GoingBefore, At, IsPosition, PositionFields

\* The groups that may follow a name, with what comes after them.
Followed(g, shape, next, to) ==
  \/ next \in {Semicolon, Comma, Opening}
  \/ next = "=" /\ g.storage = "virtual" /\ ~ g.listed
  \/ next \in {"const", ":"} /\ to # "eof"
  \/ next = "decls" /\ ~ cpp /\ shape = "single" /\ to # "eof"

LEMMA ArgsTaken ==
  ASSUME NEW g, NEW up, NEW st, Reading(g, up, st), g.at \in BeforeArgs,
         NEW shape \in {"empty", "typed", "single"}, NEW next, NEW to,
         createTags(Paren(shape, next, to)), Followed(g, shape, next, to)
  PROVE  \E t : Goes(up, t, {}) /\ TakesArgs(t, st)
<1>1. IsPosition(g) /\ Matches(g, st) /\ Common(g, st)
  BY DEF Reading, Matches
<1>2. /\ st.haveQualifyingName /\ st.declaration # "none" /\ ~ st.gotArgs
      /\ prev(st) = NameToken(IF g.at = "ctor" THEN B ELSE e)
  BY <1>1, BeforeArgsIs
<1>3. prev(st).type # "none"
  BY <1>2, TokensAre
<1>4. next # "("
  BY DEF Followed, Semicolon, Comma, Opening
<1>5. next = "=" => st.implementation = "virtual"
  <2>1. next = "=" => g.storage = "virtual" /\ ~ g.listed
    BY DEF Followed, Semicolon, Comma, Opening
  <2> QED
    BY <1>1, <2>1 DEF Common
<1>6. \/ next \in {Semicolon, Comma, Opening, "="}
      \/ next \in {"const", ":"} /\ to # "eof"
      \/ next = "decls" /\ ~ cpp /\ shape = "single" /\ to # "eof"
  BY DEF Followed
<1>7. shape # "macro" /\ shape \in {"empty", "typed", "single", "macro"}
  OBVIOUS
<1> QED
  BY <1>2, <1>3, <1>4, <1>5, <1>6, <1>7, ArgsRead

LEMMA GroupFollows ==
  ASSUME NEW g, NEW up, NEW st, Reading(g, up, st), g.at \in BeforeArgs,
         NEW shape \in {"empty", "typed", "single"}, NEW next, NEW to, NEW then,
         createTags(Paren(shape, next, to)), Followed(g, shape, next, to),
         then = "=" => g.storage = "virtual", g.at = "ctor" => then \notin {Comma, "="},
         NEW h, h = GoingBefore(g, AfterArgs(g.at), then)
  PROVE  Served(h)
<1>1. PICK t : Goes(up, t, {}) /\ TakesArgs(t, st)
  BY ArgsTaken
<1>2. /\ IsPosition(h) /\ h.at = AfterArgs(g.at) /\ h.made = {} /\ h.next = then
      /\ h.blocks = g.blocks /\ h.storage = g.storage /\ h.head = g.head /\ h.listed = g.listed
  BY MovedBefore DEF Reading
<1>3. h.at = "ctorargs" => g.at = "ctor"
  BY <1>2, AfterArgsIs DEF BeforeArgs
<1> QED
  BY <1>1, <1>2, <1>3, ArgsPlaced

LEMMA QualifiedArgsRead ==
  ASSUME NEW g, NEW up, NEW st, Reading(g, up, st), g.at = "qualifiedname",
         NEW shape \in {"empty", "typed", "single"}, createTags(Paren(shape, Opening, Opening)),
         NEW h, h = Going(g, "qualifiedargs", {})
  PROVE  Served(h)
<1>1. PICK t : Goes(up, t, {}) /\ TakesArgs(t, st)
  BY ArgsTaken DEF BeforeArgs, Followed
<1>2. /\ IsPosition(h) /\ h.at = "qualifiedargs" /\ h.made = {} /\ h.blocks = g.blocks
      /\ h.storage = g.storage /\ h.head = g.head /\ h.listed = g.listed
  BY Moved DEF Reading
<1> QED
  BY <1>1, <1>2, ArgsPlaced, AfterArgsIs DEF BeforeArgs

\* A name in parentheses, of a pointer to a function.
LEMMA PointerDeclared ==
  ASSUME NEW g, NEW up, NEW st, Reading(g, up, st), g.at \in BeforeName, g.at # "pointer",
         ~ g.listed, createTags(Paren("pointer", "(", "(")), NEW h, h = Going(g, "fptr", {})
  PROVE  Served(h)
<1> DEFINE lx == Paren("pointer", "(", "(")
           info == parenInfo("pointer")
           x == Doubted(st)
           n == ReadName(x, e)
           y == [n EXCEPT !.context = x.context, !.gotParenName = TRUE, !.isPointer = info.isPointer]
           t == advanceToken(y)
<1>1. IsPosition(g) /\ Matches(g, st) /\ Common(g, st) /\ IsStatement(st) /\ Plain(st)
  BY DEF Reading, Matches, Common
<1>2. /\ TypeRead(g, st) /\ Top(g).kind # "enum" /\ prev(st).type # "none"
  BY <1>1, BeforeNameIs
<1>3. /\ IsStatement(x) /\ Plain(x) /\ Agree(x, st, {"notVariable"}) /\ x.token = st.token
  BY <1>1, DoubtedIs
<1>4. /\ info.invalidContents = FALSE /\ ~ info.isParamList /\ info.isNameCandidate
      /\ info.isName /\ info.isPointer
  BY DEF parenInfo
<1>5. /\ lx.t = "paren" /\ lx.shape = "pointer" /\ lx.next = "(" /\ lx.w = e
  BY ParenIs
<1> HIDE DEF x, info, lx
<1>6. DeclaresName(x, info, "(")
  <2>1. ~ x.gotParenName
    <3>1. x.gotParenName = st.gotParenName
      BY <1>3 DEF Agree, Fields
    <3> QED
      BY <1>1, <3>1 DEF Common, BeforeName
  <2> QED
    BY <1>4, <2>1 DEF DeclaresName
<1>7. nextToken(st, up, lx) = PutBack(y, "(")
  <2>1. nextToken(st, up, lx) = analyzeParens(st, up, lx)
    BY <1>5 DEF nextToken
  <2>2. analyzeParens(st, up, lx) = PutBack(y, "(")
    BY <1>2, <1>4, <1>5, <1>6 DEF analyzeParens, Doubted, x, info
  <2> QED
    BY <2>1, <2>2
<1>8. /\ IsStatement(n) /\ n.gotName /\ n.haveQualifyingName
      /\ Agree(n, x, {"token", "declaration", "gotName", "haveQualifyingName", "context"})
      /\ n.declaration = IF x.gotName /\ x.declaration = "none" THEN "base" ELSE x.declaration
      /\ active(n) = NameToken(e)
  BY <1>3, NameRead
<1> HIDE DEF n
<1>9. /\ IsStatement(y) /\ Agree(y, n, {"context", "gotParenName", "isPointer"})
      /\ y.context = x.context /\ y.gotParenName /\ y.isPointer /\ y.token = n.token
  BY <1>4, <1>8 DEF IsStatement, Fields, Agree
<1> HIDE DEF y
<1>10. /\ IsStatement(t) /\ Agree(t, y, {"token"}) /\ active(t) = None
       /\ prev(t) = NameToken(e)
  BY <1>8, <1>9, Advanced DEF active
<1>11. Goes(up, t, {})
  <2>1. active(y).type = "name"
    BY <1>8, <1>9, TokensAre DEF active
  <2>2. up = Around(statements) /\ PutBack(y, "(") = nextToken(Innermost(statements), up, lx)
    BY <1>7 DEF Reading
  <2>3. PutBack(y, "(").st = y /\ PutBack(y, "(").exc = "none"
    BY ReadIs
  <2>4. ~ insideEnumBody(up)
    BY <1>2, Surroundings DEF Reading
  <2>5. Goes(up, t, IF insideEnumBody(up) THEN makeTag(active(y), y, up, "enumerator") ELSE {})
    BY <2>1, <2>2, <2>3, Outcome DEF lx
  <2> QED
    BY <2>4, <2>5
<1> HIDE DEF t
<1>12. /\ IsPosition(h) /\ h.at = "fptr" /\ h.made = {} /\ h.blocks = g.blocks
       /\ h.storage = g.storage /\ h.head = g.head /\ h.listed = g.listed
  BY <1>1, Moved
<1>13. Top(h) = Top(g)
  BY <1>12, SameBlocks
<1>14. /\ Agree(t, st, {"token", "declaration", "gotName", "haveQualifyingName",
                        "gotParenName", "isPointer", "notVariable", "context"})
       /\ t.context = st.context /\ t.gotParenName /\ t.isPointer /\ t.haveQualifyingName
       /\ t.declaration = IF st.gotName /\ st.declaration = "none" THEN "base" ELSE st.declaration
       /\ ~ t.notVariable
  BY <1>3, <1>8, <1>9, <1>10 DEF Agree, Fields, Plain
<1>15. Common(h, t)
  BY <1>1, <1>10, <1>12, <1>13, <1>14
     DEF Common, Agree, Fields, Plain, BeforeName, Qualifieds, active
<1>16. AtFptr(h, t)
  BY <1>2, <1>1, <1>10, <1>12, <1>14 DEF AtFptr, TypeRead, DeclaredAs, IsPosition, TypeKinds
<1>17. Matches(h, t)
  BY <1>2, <1>12, <1>13, <1>15, <1>16 DEF Matches, Placed, Enumerated, Places
<1> QED
  BY <1>11, <1>12, <1>17, Stays, Included0

-------------------------------------------------------------------------------
(* Ends of declarations that are not of declarators                        *)

\* At file level nothing is a member.
LEMMA FileLevelIs ==
  ASSUME NEW g, IsPosition(g), FileLevel(g)
  PROVE  ~ IsMemberOf(g) /\ ~ ClassLike(g) /\ Top(g).kind \in {"file", "linkage"}
<1>1. Top(g).kind \in {"file", "linkage"}
  <2>1. CASE g.blocks = << >>
    BY <2>1 DEF Top
  <2>2. CASE g.blocks # << >>
    <3>1. Len(g.blocks) \in DOMAIN g.blocks /\ Top(g) = g.blocks[Len(g.blocks)]
      BY <2>2 DEF IsPosition, Top
    <3> QED
      BY <3>1 DEF FileLevel
  <2> QED
    BY <2>1, <2>2
<1> QED
  BY <1>1 DEF IsMemberOf, ClassLike

\* A semicolon where there is nothing to tag.
LEMMA NothingEnds ==
  ASSUME NEW g, NEW up, NEW st, Reading(g, up, st), createTags(Punct(Semicolon)),
         prev(st).type \notin {"name", "args"}, NEW h, h = Ending(g, {})
  PROVE  Served(h)
<1> DEFINE x == setToken(st, Semicolon)
<1>1. IsStatement(st) /\ st.accessDefault = Top(g).access
  BY DEF Reading, Matches, Common
<1>2. /\ IsStatement(x) /\ Agree(x, st, {"token"}) /\ active(x) = Mark(Semicolon)
      /\ prev(x) = prev(st)
  BY <1>1, TokenSet
<1>3. nextToken(st, up, Punct(Semicolon)) = Read(x)
  BY PunctRead
<1> HIDE DEF x
<1>4. EndsDeclarator(x, up) = Included({})
  BY <1>2, Included0 DEF EndsDeclarator
<1>5. x.accessDefault = Top(g).access
  BY <1>1, <1>2 DEF Agree, Fields
<1> QED
  BY <1>2, <1>3, <1>4, <1>5, DeclarationEnds

LEMMA StartEnds ==
  ASSUME NEW g, NEW up, NEW st, Reading(g, up, st), g.at \in {"start", "closed"},
         createTags(Punct(Semicolon)), NEW h, h = Ending(g, {})
  PROVE  Served(h)
<1>1. IsPosition(g) /\ Placed(g, st)
  BY DEF Reading, Matches
<1>2. prev(st) \in {None, KeyToken("using"), Mark(Closing)}
  <2>1. CASE g.at = "start"
    BY <1>1, <2>1 DEF Placed, AtStart, IsPosition
  <2>2. CASE g.at = "closed"
    BY <1>1, <2>2 DEF Placed
  <2> QED
    BY <2>1, <2>2
<1>3. Closing \notin {"name", "args"}
  BY DEF Closing
<1>4. prev(st).type \in {"none", "key", Closing}
  BY <1>2, TokensAre
<1> QED
  BY <1>3, <1>4, NothingEnds

\* A type declared ahead.
LEMMA ForwardEnds ==
  ASSUME NEW g, NEW up, NEW st, Reading(g, up, st), g.at = "headname",
         createTags(Punct(Semicolon)), NEW h, h = Ending(g, Bare(B, "externvar"))
  PROVE  Served(h)
<1> DEFINE x == setToken(st, Semicolon)
<1>1. /\ IsPosition(g) /\ IsStatement(st) /\ st.accessDefault = Top(g).access
      /\ Placed(g, st) /\ Top(g).kind # "enum" /\ Enclosing(g.blocks, up)
  BY DEF Reading, Matches, Common, Enumerated
<1>2. /\ prev(st) = NameToken(B) /\ prev2(st) = KeyToken(g.head) /\ g.head \in TypeKinds
  BY <1>1 DEF Placed, AtHead, IsPosition
<1>3. /\ IsStatement(x) /\ Agree(x, st, {"token"}) /\ active(x) = Mark(Semicolon)
      /\ prev(x) = prev(st) /\ prev2(x) = prev2(st)
  BY <1>1, TokenSet
<1>4. nextToken(st, up, Punct(Semicolon)) = Read(x)
  BY PunctRead
<1> HIDE DEF x
<1>5. EndsDeclarator(x, up) = Included(Bare(B, "externvar"))
  <2>1. ~ insideEnumBody(up)
    BY <1>1, Surroundings
  <2>2. prev2(x).type = "key" /\ prev2(x).word \in ContextualKeywords
    BY <1>2, <1>3, TokensAre DEF TypeKinds, ContextualKeywords
  <2>3. prev(x).type = "name"
    BY <1>2, <1>3, TokensAre
  <2>4. EndsDeclarator(x, up) = makeTag(NameToken(B), x, up, "externvar")
    BY <1>2, <1>3, <2>1, <2>2, <2>3 DEF EndsDeclarator
  <2> QED
    BY <2>4, TagBare
<1>6. x.accessDefault = Top(g).access
  BY <1>1, <1>3 DEF Agree, Fields
<1> QED
  BY <1>3, <1>4, <1>5, <1>6, DeclarationEnds

\* A member that is defined outside of its class, with a value or without.
LEMMA QualifiedEnded ==
  ASSUME NEW g, NEW up, NEW st, Reading(g, up, st), g.at = "qualifiedname",
         NEW lx \in {Punct(Semicolon), Value(Semicolon)}, createTags(lx),
         NEW h, h = Ending(g, {Tag(e, "member", << B >>, "undef")})
  PROVE  Served(h)
<1> DEFINE s == setToken(st, Semicolon)
           w == [s EXCEPT !.assignment = TRUE]
<1>1. /\ IsPosition(g) /\ IsStatement(st) /\ Common(g, st) /\ AtQualifier(g, st)
      /\ Enclosing(g.blocks, up) /\ Nested(g.blocks) /\ Top(g).kind # "enum"
      /\ st.haveQualifyingName /\ prev(st) = NameToken(e) /\ prev2(st) = Mark("::")
  BY DEF Reading, Matches, Common, Placed, Enumerated
<1>2. /\ IsStatement(s) /\ Agree(s, st, {"token"}) /\ active(s) = Mark(Semicolon)
      /\ prev(s) = prev(st) /\ prev2(s) = prev2(st)
  BY <1>1, TokenSet
<1>3. /\ st.scope = "global" /\ st.context = << B >> /\ st.access = "undef"
      /\ st.accessDefault = "undef" /\ st.declaration = "base" /\ Plain(st)
  BY <1>1 DEF Common, AtQualifier, Specified, ScopeOf, Qualifieds, Top
<1>4. nextToken(st, up, Punct(Semicolon)) = Read(s)
  BY PunctRead
<1>5. nextToken(st, up, Value(Semicolon)) = Read(w)
  <2>1. nextToken(st, up, Value(Semicolon)) = processInitializer(st, up, Value(Semicolon))
    BY DEF nextToken, Value
  <2>2. Value(Semicolon).rest = Semicolon /\ Value(Semicolon).zero = FALSE
    BY DEF Value
  <2>3. Semicolon \notin {"eof", "}"}
    BY DEF Semicolon
  <2>4. processInitializer(st, up, Value(Semicolon))
          = Read([s EXCEPT !.assignment = TRUE, !.implementation = s.implementation,
                           !.scope = IF @ = "extern" THEN "global" ELSE @])
    BY <2>2, <2>3 DEF processInitializer
  <2>5. [s EXCEPT !.assignment = TRUE, !.implementation = s.implementation,
                  !.scope = IF @ = "extern" THEN "global" ELSE @] = w
    <3>1. IsStatement(s) /\ s.scope = "global"
      BY <1>2, <1>3 DEF Agree, Fields
    <3> HIDE DEF s
    <3> QED
      BY <3>1 DEF IsStatement, Fields
  <2> QED
    BY <2>1, <2>4, <2>5
<1> HIDE DEF s
<1>6. /\ IsStatement(w) /\ Agree(w, s, {"assignment"}) /\ w.token = s.token
  BY <1>2 DEF IsStatement, Fields, Agree
<1> HIDE DEF w
<1>7. ASSUME NEW x \in {s, w}
      PROVE  /\ IsStatement(x) /\ active(x) = Mark(Semicolon) /\ x.accessDefault = Top(g).access
             /\ EndsDeclarator(x, up) = Included({Tag(e, "member", << B >>, "undef")})
  <2>1. /\ IsStatement(x) /\ active(x) = Mark(Semicolon) /\ prev(x) = NameToken(e)
        /\ prev2(x) = Mark("::")
    BY <1>1, <1>2, <1>6 DEF active, prev, prev2
  <2>2. Agree(x, st, {"token", "assignment"})
    BY <1>2, <1>6 DEF Agree
  <2>3. /\ x.scope = "global" /\ x.context = << B >> /\ x.access = "undef"
        /\ x.accessDefault = "undef" /\ x.declaration = "base" /\ ~ x.notVariable
    BY <1>3, <2>2 DEF Agree, Fields, Plain
  <2>4. EndsDeclarator(x, up) = qualifyVariableTag(x, up, NameToken(e))
    <3>1. ~ insideEnumBody(up)
      BY <1>1, Surroundings
    <3> QED
      BY <2>1, <3>1, TokensAre DEF EndsDeclarator
  <2>5. qualifyVariableTag(x, up, NameToken(e)) = makeTag(NameToken(e), x, up, "member")
    BY <2>3 DEF qualifyVariableTag, isValidTypeSpecifier, isMember
  <2>6. makeTag(NameToken(e), x, up, "member") = Included({Tag(e, "member", << B >>, "undef")})
    <3>1. "member" \in Scoped /\ g.blocks = << >>
      BY <1>1 DEF Scoped, CKinds, AtQualifier
    <3> QED
      BY <1>1, <2>3, <3>1, TagQualified
  <2>7. Top(g).access = "undef"
    BY <1>1 DEF AtQualifier, Top
  <2> QED
    BY <2>1, <2>3, <2>4, <2>5, <2>6, <2>7
<1> QED
  BY <1>4, <1>5, <1>7, DeclarationEnds

\* The use of a macro, and its end.
LEMMA CallRead ==
  ASSUME NEW g, NEW up, NEW st, Reading(g, up, st), g.at = "usertype",
         NEW shape \in {"value", "macro", "typed"}, createTags(Paren(shape, Semicolon, Semicolon)),
         NEW h, h = Going(g, "call", {})
  PROVE  Served(h)
<1>1. IsPosition(g) /\ Matches(g, st) /\ Common(g, st) /\ AtUserType(g, st)
      /\ Enclosing(g.blocks, up) /\ Top(g).kind # "enum" /\ IsStatement(st) /\ Plain(st)
  BY DEF Reading, Matches, Placed, Enumerated, Common
<1>2. /\ IsPosition(h) /\ h.at = "call" /\ h.made = {} /\ h.blocks = g.blocks
      /\ h.storage = g.storage /\ h.head = g.head /\ h.listed = g.listed
  BY <1>1, Moved
<1>3. Top(h) = Top(g) /\ FileLevel(h) = FileLevel(g)
  BY <1>2, SameBlocks
<1>4. prev(st).type = "name" /\ prev2(st).type = "none"
  BY <1>1, TokensAre DEF AtUserType
<1>5. \E t : /\ Goes(up, t, {}) /\ Common(h, t) /\ t.declaration = "none"
             /\ prev(t) \in {None, Mark("args")}
  <2>1. CASE shape # "value"
    <3>1. ~ st.gotArgs
      BY <1>1 DEF Common
    <3>2. PICK t : Goes(up, t, {}) /\ TakesArgs(t, st)
      BY <1>4, <2>1, <3>1, ArgsRead
    <3>3. Common(h, t)
      BY <1>1, <1>2, <1>3, <3>2 DEF Common, TakesArgs, Agree, Fields, Qualifieds, active
    <3>4. t.declaration = "none" /\ prev(t) = Mark("args")
      BY <1>1, <3>2 DEF TakesArgs, Agree, Fields, AtUserType
    <3> QED
      BY <3>2, <3>3, <3>4
  <2>2. CASE shape = "value"
    <3> DEFINE lx == Paren(shape, Semicolon, Semicolon)
               info == parenInfo(shape)
               x == Doubted(st)
               t == reinitStatement(x, up, FALSE)
    <3>1. IsStatement(x) /\ Agree(x, st, {"notVariable"})
      BY <1>1, DoubtedIs
    <3>2. nextToken(st, up, lx) = PutBack(t, Semicolon)
      <4>1. /\ lx.t = "paren" /\ lx.shape = "value" /\ lx.next = Semicolon
        BY <2>2, ParenIs
      <4>2. info.invalidContents
        BY <2>2 DEF parenInfo
      <4> HIDE DEF lx, info, x
      <4>3. nextToken(st, up, lx) = analyzeParens(st, up, lx)
        BY <4>1 DEF nextToken
      <4>4. analyzeParens(st, up, lx) = PutBack(t, Semicolon)
        BY <1>4, <2>2, <4>1, <4>2 DEF analyzeParens, Doubted, x, info
      <4> QED
        BY <4>3, <4>4
    <3> HIDE DEF x, lx
    <3>3. Anew(g, t) /\ t.access = x.accessDefault /\ t.accessDefault = x.accessDefault
      BY <1>1, <3>1, Reinit
    <3> HIDE DEF t
    <3>4. t.access = Top(g).access /\ t.accessDefault = Top(g).access
      BY <1>1, <3>1, <3>3 DEF Agree, Fields, Common
    <3>5. t.declaration = "none"
      BY <1>1, <3>3, FileLevelIs DEF Anew, AtUserType
    <3>6. Common(h, t)
      BY <1>1, <1>2, <1>3, <3>3, <3>4
         DEF Common, Anew, Qualifieds, active, AtUserType, Specified, ScopeOf
    <3>7. Goes(up, t, {})
      BY <3>2, <3>3, NoTokenYet DEF Anew, lx
    <3>8. prev(t) = None
      BY <3>3 DEF Anew
    <3> QED
      BY <3>5, <3>6, <3>7, <3>8
  <2> QED
    BY <2>1, <2>2
<1>6. PICK t : /\ Goes(up, t, {}) /\ Common(h, t) /\ t.declaration = "none"
               /\ prev(t) \in {None, Mark("args")}
  BY <1>5
<1>7. AtCall(h, t)
  BY <1>1, <1>2, <1>3, <1>6 DEF AtCall, AtUserType, Specified
<1>8. Matches(h, t)
  BY <1>1, <1>2, <1>3, <1>6, <1>7 DEF Matches, Placed, Enumerated, Places
<1> QED
  BY <1>2, <1>6, <1>8, Stays, Included0

LEMMA CallEnds ==
  ASSUME NEW g, NEW up, NEW st, Reading(g, up, st), g.at = "call",
         createTags(Punct(Semicolon)), NEW h, h = Ending(g, {})
  PROVE  Served(h)
<1> DEFINE x == setToken(st, Semicolon)
<1>1. /\ IsPosition(g) /\ IsStatement(st) /\ Common(g, st) /\ AtCall(g, st)
      /\ Enclosing(g.blocks, up) /\ Top(g).kind # "enum"
  BY DEF Reading, Matches, Common, Placed, Enumerated
<1>2. /\ st.accessDefault = Top(g).access /\ st.scope = "global" /\ ~ st.isPointer
  BY <1>1 DEF Common, AtCall, Specified, ScopeOf
<1>3. /\ IsStatement(x) /\ Agree(x, st, {"token"}) /\ active(x) = Mark(Semicolon)
      /\ prev(x) = prev(st)
  BY <1>1, TokenSet
<1>4. nextToken(st, up, Punct(Semicolon)) = Read(x)
  BY PunctRead
<1> HIDE DEF x
<1>5. /\ x.accessDefault = Top(g).access /\ x.scope = "global" /\ ~ x.isPointer
      /\ x.declaration = "none"
  BY <1>1, <1>2, <1>3 DEF Agree, Fields, AtCall
<1>6. EndsDeclarator(x, up) = Included({})
  <2>1. ~ insideEnumBody(up)
    BY <1>1, Surroundings
  <2>2. prev(x).type \in {"none", "args"}
    BY <1>1, <1>3, TokensAre DEF AtCall
  <2>3. qualifyFunctionDeclTag(x, up, prev2(x)) = {}
    BY <1>5 DEF qualifyFunctionDeclTag, isValidTypeSpecifier
  <2> QED
    BY <1>5, <2>1, <2>2, <2>3, Included0 DEF EndsDeclarator
<1> QED
  BY <1>3, <1>4, <1>5, <1>6, DeclarationEnds

-------------------------------------------------------------------------------
(* Starts of declarations                                                  *)

\* A position of another storage class or type.
Specifying(g, s) == [[At(g, "spec") EXCEPT !.storage = s] EXCEPT !.made = {}]
Heading(g, k)    == [[At(g, "head") EXCEPT !.head = k] EXCEPT !.made = {}]

LEMMA MovedOn ==
  ASSUME NEW g, IsPosition(g)
  PROVE  /\ \A s \in {"typedef", "static", "extern", "virtual"} : \A h : h = Specifying(g, s) =>
              /\ IsPosition(h) /\ h.at = "spec" /\ h.made = {} /\ h.blocks = g.blocks
              /\ h.storage = s /\ h.head = g.head /\ h.listed = g.listed
         /\ \A k \in TypeKinds : \A h : h = Heading(g, k) =>
              /\ IsPosition(h) /\ h.at = "head" /\ h.made = {} /\ h.blocks = g.blocks
              /\ h.storage = g.storage /\ h.head = k /\ h.listed = g.listed
<1>1. ASSUME NEW s \in {"typedef", "static", "extern", "virtual"}, NEW h, h = Specifying(g, s)
      PROVE  /\ IsPosition(h) /\ h.at = "spec" /\ h.made = {} /\ h.blocks = g.blocks
             /\ h.storage = s /\ h.head = g.head /\ h.listed = g.listed
  BY <1>1 DEF Specifying, At, IsPosition, PositionFields
<1>2. ASSUME NEW k \in TypeKinds, NEW h, h = Heading(g, k)
      PROVE  /\ IsPosition(h) /\ h.at = "head" /\ h.made = {} /\ h.blocks = g.blocks
             /\ h.storage = g.storage /\ h.head = k /\ h.listed = g.listed
  BY <1>2 DEF Heading, At, IsPosition, PositionFields
<1> QED
  BY <1>1, <1>2

\* Where a type begins.
BeforeType == {"start", "spec"}

LEMMA BeforeTypeIs ==
  ASSUME NEW g, NEW st, IsPosition(g), Matches(g, st), g.at \in BeforeType
  PROVE  /\ g.head = "none" /\ ~ g.listed /\ IsStatement(st) /\ Common(g, st)
         /\ g.at = "start" => g.storage = "none" /\ ~ Specified(g) /\ AtStart(g, st)
         /\ g.at = "spec" => g.storage # "none" /\ AtSpec(g, st)
         /\ g.after = "end" \/ g.at = "spec" => st.declaration \in {"base", "none"}
<1>1. Common(g, st) /\ Placed(g, st) /\ IsStatement(st)
  BY DEF Matches, Common
<1>2. CASE g.at = "start"
  BY <1>1, <1>2 DEF Placed, AtStart, Specified
<1>3. CASE g.at = "spec"
  BY <1>1, <1>3 DEF Placed, AtSpec
<1> QED
  BY <1>1, <1>2, <1>3 DEF BeforeType

LEMMA IntRead ==
  ASSUME NEW g, NEW up, NEW st, Reading(g, up, st), g.at \in BeforeType, Top(g).kind # "enum",
         createTags(Key("int")), NEW h, h = Going(g, "type", {})
  PROVE  Served(h)
<1> DEFINE t == advanceToken(ReadKeyword(st, up, "int"))
<1>1. IsPosition(g) /\ Matches(g, st)
  BY DEF Reading
<1>2. /\ g.head = "none" /\ ~ g.listed /\ IsStatement(st) /\ Common(g, st)
  BY <1>1, BeforeTypeIs
<1>3. /\ Goes(up, t, {}) /\ IsStatement(t)
      /\ Agree(t, st, {"token", "declaration", "implementation"})
      /\ t.declaration = "base" /\ t.implementation = st.implementation
      /\ active(t) = None /\ prev(t) = KeyToken("int")
  BY TakesKey
<1>4. /\ IsPosition(h) /\ h.at = "type" /\ h.made = {} /\ h.blocks = g.blocks
      /\ h.storage = g.storage /\ h.head = g.head /\ h.listed = g.listed
  BY <1>1, Moved
<1>5. Top(h) = Top(g)
  BY <1>4, SameBlocks
<1> HIDE DEF t
<1>6. Common(h, t)
  BY <1>2, <1>3, <1>4, <1>5 DEF Common, Agree, Fields, Plain, BeforeType, Qualifieds, active
<1>7. AtType(h, t)
  <2>1. prev(t).type = "key" /\ prev(t).word = "int"
    BY <1>3, TokensAre
  <2> QED
    BY <1>2, <1>3, <1>4, <2>1
       DEF AtType, TypeRead, DeclaredAs, NoHead, ContextualKeywords
<1>8. Matches(h, t)
  BY <1>4, <1>5, <1>6, <1>7 DEF Matches, Placed, Enumerated, Places
<1> QED
  BY <1>3, <1>4, <1>8, Stays, Included0

LEMMA TypeNameRead ==
  ASSUME NEW g, NEW up, NEW st, Reading(g, up, st), g.at \in BeforeType, Top(g).kind # "enum",
         g.after = "end" \/ g.storage # "none", createTags(Name(T)),
         NEW at, at = (IF g.storage = "none" /\ FileLevel(g) THEN "usertype" ELSE "type"),
         NEW h, h = Going(g, at, {})
  PROVE  Served(h)
<1> DEFINE t == advanceToken(ReadName(st, T))
<1>1. IsPosition(g) /\ Matches(g, st)
  BY DEF Reading
<1>2. /\ g.head = "none" /\ ~ g.listed /\ IsStatement(st) /\ Common(g, st)
      /\ g.at = "start" => g.storage = "none" /\ ~ Specified(g) /\ AtStart(g, st)
      /\ g.at = "spec" => g.storage # "none" /\ AtSpec(g, st)
      /\ g.after = "end" \/ g.at = "spec" => st.declaration \in {"base", "none"}
  BY <1>1, BeforeTypeIs
<1>3. /\ Goes(up, t, {}) /\ IsStatement(t) /\ t.gotName /\ t.haveQualifyingName
      /\ Agree(t, st, {"token", "declaration", "gotName", "haveQualifyingName", "context"})
      /\ t.declaration = IF st.gotName /\ st.declaration = "none" THEN "base" ELSE st.declaration
      /\ t.context = IF prev(st).type = "name" THEN << >> ELSE st.context
      /\ active(t) = None /\ prev(t) = NameToken(T) /\ prev2(t) = prev(st)
  BY TakesName
<1>4. /\ IsPosition(h) /\ h.at = at /\ h.made = {} /\ h.blocks = g.blocks
      /\ h.storage = g.storage /\ h.head = g.head /\ h.listed = g.listed
  BY <1>1, Moved
<1>5. Top(h) = Top(g) /\ FileLevel(h) = FileLevel(g)
  BY <1>4, SameBlocks
<1> HIDE DEF t
<1>6. Common(h, t)
  BY <1>2, <1>3, <1>4, <1>5 DEF Common, Agree, Fields, Plain, BeforeType, Qualifieds, active
<1>7. st.declaration \in {"base", "none"} /\ prev(t).type = "name"
  BY <1>2, <1>3, TokensAre DEF BeforeType
<1>8. ASSUME at = "type" PROVE Matches(h, t)
  <2>1. AtType(h, t)
    BY <1>2, <1>3, <1>4, <1>7 DEF AtType, TypeRead, DeclaredAs, NoHead
  <2> QED
    BY <1>4, <1>5, <1>6, <1>8, <2>1 DEF Matches, Placed, Enumerated, Places
<1>9. ASSUME at = "usertype" PROVE Matches(h, t)
  <2>1. g.at = "start" /\ g.storage = "none" /\ FileLevel(g) /\ g.after = "end"
    BY <1>2, <1>9 DEF BeforeType
  <2>2. st.declaration = "none" /\ ~ st.gotName /\ prev(st) = None
    BY <1>1, <1>2, <2>1, FileLevelIs DEF AtStart
  <2>3. AtUserType(h, t)
    BY <1>2, <1>3, <1>4, <1>5, <2>1, <2>2 DEF AtUserType, Specified
  <2> QED
    BY <1>4, <1>5, <1>6, <1>9, <2>3 DEF Matches, Placed, Enumerated, Places
<1>10. Matches(h, t)
  BY <1>8, <1>9
<1> QED
  BY <1>3, <1>4, <1>10, Stays, Included0

LEMMA HeadRead ==
  ASSUME NEW g, NEW up, NEW st, Reading(g, up, st), g.at \in BeforeType, Top(g).kind # "enum",
         g.storage # "virtual", NEW k \in TypeKinds, createTags(Key(k)), NEW h, h = Heading(g, k)
  PROVE  Served(h)
<1> DEFINE t == advanceToken(ReadKeyword(st, up, k))
<1>1. IsPosition(g) /\ Matches(g, st)
  BY DEF Reading
<1>2. /\ g.head = "none" /\ ~ g.listed /\ IsStatement(st) /\ Common(g, st)
  BY <1>1, BeforeTypeIs
<1>3. /\ Goes(up, t, {}) /\ IsStatement(t)
      /\ Agree(t, st, {"token", "declaration", "implementation"})
      /\ t.declaration = k /\ t.implementation = st.implementation
      /\ active(t) = None /\ prev(t) = KeyToken(k)
  <2>1. k \in ContextualKeywords /\ k \notin {"int", "using", "virtual"}
    BY DEF TypeKinds, ContextualKeywords
  <2> QED
    BY <2>1, TakesKey
<1>4. /\ IsPosition(h) /\ h.at = "head" /\ h.made = {} /\ h.blocks = g.blocks
      /\ h.storage = g.storage /\ h.head = k /\ h.listed = g.listed
  BY <1>1, MovedOn
<1>5. Top(h) = Top(g)
  BY <1>4, SameBlocks
<1> HIDE DEF t
<1>6. Common(h, t)
  BY <1>2, <1>3, <1>4, <1>5 DEF Common, Agree, Fields, Plain, BeforeType, Qualifieds, active
<1>7. AtHead(h, t) /\ prev(t) = KeyToken(h.head)
  BY <1>2, <1>3, <1>4 DEF AtHead, TypeKinds
<1>8. Matches(h, t)
  BY <1>4, <1>5, <1>6, <1>7 DEF Matches, Placed, Enumerated, Places
<1> QED
  BY <1>3, <1>4, <1>8, Stays, Included0

LEMMA StorageSpecified ==
  ASSUME NEW g, NEW up, NEW st, Reading(g, up, st), g.at = "start", Top(g).kind # "enum",
         NEW k \in {"typedef", "static", "extern"}, createTags(Key(k)),
         NEW h, h = Specifying(g, k)
  PROVE  Served(h)
<1> DEFINE t == ReadKeyword(st, up, k)
<1>1. IsPosition(g) /\ Matches(g, st) /\ Enclosing(g.blocks, up)
  BY DEF Reading
<1>2. /\ g.head = "none" /\ ~ g.listed /\ IsStatement(st) /\ Common(g, st)
  BY <1>1, BeforeTypeIs DEF BeforeType
<1>3. /\ IsStatement(t) /\ Plain(t) /\ t.scope = k
      /\ t.declaration = (IF k = "typedef" /\ ~ IsMemberOf(g) THEN "none" ELSE "base")
      /\ t.access = st.accessDefault /\ t.accessDefault = st.accessDefault
      /\ ~ t.gotParenName /\ ~ t.gotArgs /\ ~ t.isPointer /\ t.implementation = "default"
      /\ t.context = << >> /\ active(t) = None /\ prev(t) = None
  BY <1>1, <1>2, StorageRead
<1>4. /\ IsPosition(h) /\ h.at = "spec" /\ h.made = {} /\ h.blocks = g.blocks
      /\ h.storage = k /\ h.head = g.head /\ h.listed = g.listed
  BY <1>1, MovedOn
<1>5. Top(h) = Top(g)
  BY <1>4, SameBlocks
<1>6. Goes(up, t, {})
  <2>1. nextToken(st, up, Key(k)) = PutBack(t, "any")
    BY DEF nextToken, Key, Read, PutBack
  <2> HIDE DEF t
  <2> QED
    BY <1>3, <2>1, NoTokenYet
<1> HIDE DEF t
<1>7. Common(h, t)
  BY <1>2, <1>3, <1>4, <1>5 DEF Common, Qualifieds, active, ScopeOf
<1>8. AtSpec(h, t)
  BY <1>2, <1>3, <1>4 DEF AtSpec
<1>9. Matches(h, t)
  BY <1>4, <1>5, <1>7, <1>8 DEF Matches, Placed, Enumerated, Places
<1> QED
  BY <1>4, <1>6, <1>9, Stays, Included0

LEMMA VirtualSpecified ==
  ASSUME NEW g, NEW up, NEW st, Reading(g, up, st), g.at = "start", ClassLike(g),
         createTags(Key("virtual")), NEW h, h = Specifying(g, "virtual")
  PROVE  Served(h)
<1> DEFINE t == advanceToken(ReadKeyword(st, up, "virtual"))
<1>1. IsPosition(g) /\ Matches(g, st)
  BY DEF Reading
<1>2. /\ g.head = "none" /\ ~ g.listed /\ IsStatement(st) /\ Common(g, st)
      /\ g.storage = "none" /\ AtStart(g, st)
  BY <1>1, BeforeTypeIs DEF BeforeType
<1>3. /\ Goes(up, t, {}) /\ IsStatement(t)
      /\ Agree(t, st, {"token", "declaration", "implementation"})
      /\ t.declaration = st.declaration /\ t.implementation = "virtual"
      /\ active(t) = None /\ prev(t) = KeyToken("virtual")
  <2>1. "virtual" \notin ContextualKeywords
    BY DEF ContextualKeywords
  <2> QED
    BY <2>1, TakesKey
<1>4. /\ IsPosition(h) /\ h.at = "spec" /\ h.made = {} /\ h.blocks = g.blocks
      /\ h.storage = "virtual" /\ h.head = g.head /\ h.listed = g.listed
  BY <1>1, MovedOn
<1>5. Top(h) = Top(g) /\ Top(g).kind # "enum"
  BY <1>4, SameBlocks DEF ClassLike
<1> HIDE DEF t
<1>6. st.declaration = "base"
  BY <1>2 DEF AtStart, IsMemberOf
<1>7. Common(h, t)
  BY <1>2, <1>3, <1>4, <1>5
     DEF Common, Agree, Fields, Plain, Qualifieds, active, ScopeOf
<1>8. AtSpec(h, t)
  BY <1>2, <1>3, <1>4, <1>6 DEF AtSpec
<1>9. Matches(h, t)
  BY <1>4, <1>5, <1>7, <1>8 DEF Matches, Placed, Enumerated, Places
<1> QED
  BY <1>3, <1>4, <1>9, Stays, Included0

LEMMA ConstructorRead ==
  ASSUME NEW g, NEW up, NEW st, Reading(g, up, st), g.at = "start", ClassLike(g),
         createTags(Name(B)), NEW h, h = Going(g, "ctor", {})
  PROVE  Served(h)
<1> DEFINE t == advanceToken(ReadName(st, B))
<1>1. IsPosition(g) /\ Matches(g, st)
  BY DEF Reading
<1>2. /\ IsStatement(st) /\ Common(g, st) /\ ~ Specified(g) /\ AtStart(g, st)
  BY <1>1, BeforeTypeIs DEF BeforeType
<1>3. Top(g).kind # "enum" /\ st.declaration = "base"
  BY <1>2 DEF AtStart, IsMemberOf, ClassLike
<1>4. /\ Goes(up, t, {}) /\ IsStatement(t) /\ t.haveQualifyingName
      /\ Agree(t, st, {"token", "declaration", "gotName", "haveQualifyingName", "context"})
      /\ t.declaration = IF st.gotName /\ st.declaration = "none" THEN "base" ELSE st.declaration
      /\ t.context = IF prev(st).type = "name" THEN << >> ELSE st.context
      /\ active(t) = None /\ prev(t) = NameToken(B)
  BY <1>3, TakesName
<1>5. /\ IsPosition(h) /\ h.at = "ctor" /\ h.made = {} /\ h.blocks = g.blocks
      /\ h.storage = g.storage /\ h.head = g.head /\ h.listed = g.listed
  BY <1>1, Moved
<1>6. Top(h) = Top(g) /\ ClassLike(h) = ClassLike(g)
  BY <1>5, SameBlocks
<1> HIDE DEF t
<1>7. Common(h, t)
  BY <1>2, <1>4, <1>5, <1>6 DEF Common, Agree, Fields, Plain, Qualifieds, active
<1>8. AtCtor(h, t)
  BY <1>2, <1>3, <1>4, <1>5, <1>6 DEF AtCtor, Specified
<1>9. Matches(h, t)
  BY <1>3, <1>5, <1>6, <1>7, <1>8 DEF Matches, Placed, Enumerated, Places
<1> QED
  BY <1>4, <1>5, <1>9, Stays, Included0

\* A position after a directive, and its statement that goes on.
EndingBy(g, what) == [EndedBy(g, what) EXCEPT !.made = {}]

LEMMA UsingRead ==
  ASSUME NEW g, NEW up, NEW st, Reading(g, up, st), g.at = "start", ~ ClassLike(g),
         Top(g).kind # "enum", createTags(Key("using")), NEW h, h = EndingBy(g, "using")
  PROVE  Served(h)
<1> DEFINE t == advanceToken(ReadKeyword(st, up, "using"))
<1>1. IsPosition(g) /\ Matches(g, st)
  BY DEF Reading
<1>2. /\ IsStatement(st) /\ Common(g, st) /\ ~ Specified(g)
  BY <1>1, BeforeTypeIs DEF BeforeType
<1>3. /\ Goes(up, t, {}) /\ IsStatement(t)
      /\ Agree(t, st, {"token", "declaration", "implementation"})
      /\ t.declaration = "ignore" /\ t.implementation = st.implementation
      /\ active(t) = None /\ prev(t) = KeyToken("using")
  <2>1. "using" \notin ContextualKeywords
    BY DEF ContextualKeywords
  <2> QED
    BY <2>1, TakesKey
<1>4. /\ IsPosition(h) /\ h.at = "start" /\ h.made = {} /\ h.blocks = g.blocks
      /\ h.storage = "none" /\ h.head = "none" /\ ~ h.listed /\ h.after = "using"
  BY <1>1 DEF EndingBy, EndedBy, Ended, File, IsPosition, PositionFields
<1>5. Top(h) = Top(g) /\ ClassLike(h) = ClassLike(g)
  BY <1>4, SameBlocks
<1> HIDE DEF t
<1>6. Common(h, t)
  BY <1>2, <1>3, <1>4, <1>5
     DEF Common, Agree, Fields, Plain, Qualifieds, active, Specified, ScopeOf
<1>7. AtStart(h, t)
  BY <1>3, <1>4, <1>5 DEF AtStart, Specified
<1>8. Matches(h, t)
  BY <1>4, <1>5, <1>6, <1>7 DEF Matches, Placed, Enumerated, Places
<1> QED
  BY <1>3, <1>4, <1>8, Stays, Included0

LEMMA NamespaceRead ==
  ASSUME NEW g, NEW up, NEW st, Reading(g, up, st), g.at = "start", ~ ClassLike(g),
         Top(g).kind # "enum", createTags(Key("namespace")), NEW h, h = Going(g, "namespace", {})
  PROVE  Served(h)
<1> DEFINE t == advanceToken(ReadKeyword(st, up, "namespace"))
<1>1. IsPosition(g) /\ Matches(g, st)
  BY DEF Reading
<1>2. /\ IsStatement(st) /\ Common(g, st) /\ ~ Specified(g)
  BY <1>1, BeforeTypeIs DEF BeforeType
<1>3. /\ Goes(up, t, {}) /\ IsStatement(t)
      /\ Agree(t, st, {"token", "declaration", "implementation"})
      /\ t.declaration = "namespace" /\ t.implementation = st.implementation
      /\ active(t) = None /\ prev(t) = KeyToken("namespace")
  <2>1. "namespace" \in ContextualKeywords
    BY DEF ContextualKeywords
  <2> QED
    BY <2>1, TakesKey
<1>4. /\ IsPosition(h) /\ h.at = "namespace" /\ h.made = {} /\ h.blocks = g.blocks
      /\ h.storage = g.storage /\ h.head = g.head /\ h.listed = g.listed
  BY <1>1, Moved
<1>5. Top(h) = Top(g) /\ ClassLike(h) = ClassLike(g)
  BY <1>4, SameBlocks
<1> HIDE DEF t
<1>6. Common(h, t)
  BY <1>2, <1>3, <1>4, <1>5
     DEF Common, Agree, Fields, Plain, Qualifieds, active
<1>7. AtNamespace(h, t)
  BY <1>2, <1>3, <1>4, <1>5 DEF AtNamespace, Specified
<1>8. Matches(h, t)
  BY <1>3, <1>4, <1>5, <1>6, <1>7 DEF Matches, Placed, Enumerated, Places
<1> QED
  BY <1>3, <1>4, <1>8, Stays, Included0

LEMMA LinkageRead ==
  ASSUME NEW g, NEW up, NEW st, Reading(g, up, st), g.at = "start", FileLevel(g),
         createTags(Key("extern")), NEW h, h = Going(g, "linkage", {})
  PROVE  Served(h)
<1> DEFINE t == ReadKeyword(st, up, "extern")
<1>1. IsPosition(g) /\ Matches(g, st) /\ Enclosing(g.blocks, up)
  BY DEF Reading
<1>2. /\ IsStatement(st) /\ Common(g, st) /\ ~ Specified(g)
  BY <1>1, BeforeTypeIs DEF BeforeType
<1>3. /\ IsStatement(t) /\ Plain(t) /\ t.scope = "extern"
      /\ t.access = st.accessDefault /\ t.accessDefault = st.accessDefault
      /\ ~ t.haveQualifyingName
      /\ ~ t.gotParenName /\ ~ t.gotArgs /\ ~ t.isPointer /\ t.implementation = "default"
      /\ t.context = << >> /\ active(t) = None /\ prev(t) = None
  BY <1>1, <1>2, StorageRead
<1>4. /\ IsPosition(h) /\ h.at = "linkage" /\ h.made = {} /\ h.blocks = g.blocks
      /\ h.storage = g.storage /\ h.head = g.head /\ h.listed = g.listed
  BY <1>1, Moved
<1>5. Top(h) = Top(g) /\ FileLevel(h) = FileLevel(g)
  BY <1>4, SameBlocks
<1>6. Goes(up, t, {})
  <2>1. nextToken(st, up, Key("extern")) = PutBack(t, "any")
    BY DEF nextToken, Key, Read, PutBack
  <2> HIDE DEF t
  <2> QED
    BY <1>3, <2>1, NoTokenYet
<1> HIDE DEF t
<1>7. Common(h, t)
  BY <1>2, <1>3, <1>4, <1>5 DEF Common, Qualifieds, active, Specified
<1>8. AtLinkage(h, t)
  BY <1>2, <1>3, <1>4, <1>5 DEF AtLinkage, Specified
<1>9. Top(h).kind # "enum"
  BY <1>1, <1>5, FileLevelIs
<1>10. Matches(h, t)
  BY <1>3, <1>4, <1>7, <1>8, <1>9 DEF Matches, Placed, Enumerated, Places
<1> QED
  BY <1>4, <1>6, <1>10, Stays, Included0

LEMMA StringRead ==
  ASSUME NEW g, NEW up, NEW st, Reading(g, up, st), g.at = "linkage",
         createTags(String), NEW h, h = Going(g, "linked", {})
  PROVE  Served(h)
<1> DEFINE t == [st EXCEPT !.declaration = "nomangle", !.scope = "global"]
<1>1. /\ IsPosition(g) /\ IsStatement(st) /\ Common(g, st) /\ Top(g).kind # "enum"
      /\ AtLinkage(g, st) /\ ~ st.haveQualifyingName
  BY DEF Reading, Matches, Common, Placed, Enumerated
<1>2. /\ IsStatement(t) /\ Agree(t, st, {"declaration", "scope"}) /\ t.token = st.token
      /\ t.declaration = "nomangle" /\ t.scope = "global"
  BY <1>1 DEF IsStatement, Fields, Agree
<1>3. /\ IsPosition(h) /\ h.at = "linked" /\ h.made = {} /\ h.blocks = g.blocks
      /\ h.storage = g.storage /\ h.head = g.head /\ h.listed = g.listed
  BY <1>1, Moved
<1>4. Top(h) = Top(g) /\ FileLevel(h) = FileLevel(g)
  BY <1>3, SameBlocks
<1>5. nextToken(st, up, String) = PutBack(t, "any")
  BY <1>1 DEF nextToken, String, Read, PutBack, Common
<1> HIDE DEF t
<1>6. Common(h, t)
  BY <1>1, <1>2, <1>3, <1>4
     DEF Common, Agree, Fields, Plain, Qualifieds, AtLinkage, Specified, ScopeOf
<1>7. AtLinkage(h, t)
  BY <1>1, <1>2, <1>3, <1>4 DEF AtLinkage, Specified, prev
<1>8. Matches(h, t)
  BY <1>1, <1>2, <1>3, <1>4, <1>6, <1>7 DEF Matches, Placed, Enumerated, Places
<1>9. Goes(up, t, {})
  <2>1. active(t) = None
    BY <1>6 DEF Common, active
  <2> QED
    BY <1>5, <2>1, NoTokenYet
<1> QED
  BY <1>3, <1>8, <1>9, Stays, Included0

\* The names of blocks.
LEMMA BlockNamed ==
  ASSUME NEW g, NEW up, NEW st, Reading(g, up, st), g.at \in {"head", "namespace"},
         createTags(Name(B)), NEW at, at = (IF g.at = "head" THEN "headname" ELSE "namespacename"),
         NEW h, h = Going(g, at, {})
  PROVE  Served(h)
<1> DEFINE t == advanceToken(ReadName(st, B))
<1>1. /\ IsPosition(g) /\ IsStatement(st) /\ Common(g, st) /\ Top(g).kind # "enum"
      /\ Placed(g, st)
  BY DEF Reading, Matches, Common, Enumerated
<1>2. /\ Goes(up, t, {}) /\ IsStatement(t)
      /\ Agree(t, st, {"token", "declaration", "gotName", "haveQualifyingName", "context"})
      /\ t.declaration = IF st.gotName /\ st.declaration = "none" THEN "base" ELSE st.declaration
      /\ t.context = IF prev(st).type = "name" THEN << >> ELSE st.context
      /\ active(t) = None /\ prev(t) = NameToken(B) /\ prev2(t) = prev(st)
  BY <1>1, TakesName
<1>3. /\ IsPosition(h) /\ h.at = at /\ h.made = {} /\ h.blocks = g.blocks
      /\ h.storage = g.storage /\ h.head = g.head /\ h.listed = g.listed
  BY <1>1, Moved
<1>4. Top(h) = Top(g) /\ ClassLike(h) = ClassLike(g)
  BY <1>3, SameBlocks
<1> HIDE DEF t
<1>5. Common(h, t)
  BY <1>1, <1>2, <1>3, <1>4 DEF Common, Agree, Fields, Plain, Qualifieds, active
<1>6. ASSUME g.at = "head" PROVE Matches(h, t)
  <2>1. AtHead(g, st) /\ prev(st) = KeyToken(g.head) /\ g.head # "none"
    BY <1>1, <1>6 DEF Placed, AtHead
  <2>2. AtHead(h, t) /\ prev(t) = NameToken(B) /\ prev2(t) = KeyToken(h.head)
    BY <1>2, <1>3, <2>1 DEF AtHead
  <2> QED
    BY <1>1, <1>3, <1>4, <1>5, <1>6, <2>2 DEF Matches, Placed, Enumerated, Places
<1>7. ASSUME g.at = "namespace" PROVE Matches(h, t)
  <2>1. AtNamespace(h, t)
    BY <1>1, <1>2, <1>3, <1>4, <1>7 DEF AtNamespace, Placed, Specified
  <2> QED
    BY <1>1, <1>2, <1>3, <1>4, <1>5, <1>7, <2>1 DEF Matches, Placed, Enumerated, Places
<1>8. Matches(h, t)
  BY <1>6, <1>7
<1> QED
  BY <1>2, <1>3, <1>8, Stays, Included0

\* The base classes.
LEMMA BasesRead ==
  ASSUME NEW g, NEW up, NEW st, Reading(g, up, st), g.at = "headname",
         cpp, g.head \in {"class", "struct"}, createTags(Colon(Opening)),
         NEW h, h = Going(g, "bases", {})
  PROVE  Served(h)
<1>1. /\ IsPosition(g) /\ Common(g, st) /\ Top(g).kind # "enum"
      /\ AtHead(g, st) /\ prev(st) = NameToken(B) /\ prev2(st) = KeyToken(g.head)
  BY DEF Reading, Matches, Placed, Enumerated
<1>2. /\ IsPosition(h) /\ h.at = "bases" /\ h.made = {} /\ h.blocks = g.blocks
      /\ h.storage = g.storage /\ h.head = g.head /\ h.listed = g.listed
  BY <1>1, Moved
<1>3. Top(h) = Top(g)
  BY <1>2, SameBlocks
<1>4. nextToken(st, up, Colon(Opening)) = PutBack(st, Opening)
  <2>1. nextToken(st, up, Colon(Opening)) = processColon(st, up, Opening)
    BY DEF nextToken, Colon
  <2>2. st.declaration \in {"class", "struct"}
    BY <1>1 DEF AtHead
  <2>3. Opening # "eof"
    BY DEF Opening
  <2>4. processColon(st, up, Opening) = PutBack(st, Opening)
    BY <2>2, <2>3 DEF processColon, Opening
  <2> QED
    BY <2>1, <2>4
<1>5. Goes(up, st, {})
  <2>1. active(st) = None
    BY <1>1 DEF Common, active
  <2> QED
    BY <1>4, <2>1, NoTokenYet
<1>6. Common(h, st)
  BY <1>1, <1>2, <1>3 DEF Common, Qualifieds
<1>7. AtHead(h, st) /\ prev2(st) = KeyToken(h.head)
  BY <1>1, <1>2 DEF AtHead
<1>8. Matches(h, st)
  BY <1>1, <1>2, <1>3, <1>6, <1>7 DEF Matches, Placed, Enumerated, Places
<1> QED
  BY <1>2, <1>5, <1>8, Stays, Included0

-------------------------------------------------------------------------------
(* Members of enumerations                                                 *)

LEMMA EnumeratorRead ==
  ASSUME NEW g, NEW up, NEW st, Reading(g, up, st), g.at = "start", Top(g).kind = "enum",
         createTags(Name(e)), NEW h, h = Going(g, "enumerator", Here(g, e, "enumerator"))
  PROVE  Served(h)
<1> DEFINE read == ReadName(st, e)
           t == advanceToken(read)
<1>1. /\ IsPosition(g) /\ Nested(g.blocks) /\ Enclosing(g.blocks, up) /\ IsStatement(st)
      /\ Common(g, st) /\ AtStart(g, st)
  BY DEF Reading, Matches, Common, Placed
<1>2. /\ g.after = "end" /\ IsMemberOf(g) /\ ~ Specified(g)
  BY <1>1 DEF AtStart, IsMemberOf
<1>3. /\ st.declaration = "base" /\ prev(st).type = "none"
  BY <1>1, <1>2, TokensAre DEF AtStart
<1>4. /\ Goes(up, t, makeTag(NameToken(e), read, up, "enumerator")) /\ IsStatement(t)
      /\ Agree(t, st, {"token", "declaration", "gotName", "haveQualifyingName", "context"})
      /\ t.declaration = IF st.gotName /\ st.declaration = "none" THEN "base" ELSE st.declaration
      /\ t.context = IF prev(st).type = "name" THEN << >> ELSE st.context
      /\ active(t) = None
  BY TakesName
<1>5. /\ Agree(read, st, {"token", "declaration", "gotName", "haveQualifyingName", "context"})
      /\ read.context = IF prev(st).type = "name" THEN << >> ELSE st.context
  BY <1>1, NameRead
<1> HIDE DEF read
<1>6. makeTag(NameToken(e), read, up, "enumerator") = Included(Here(g, e, "enumerator"))
  <2>1. /\ read.context = << >> /\ read.scope # "friend" /\ read.access = Top(g).access
    BY <1>1, <1>2, <1>3, <1>5 DEF Agree, Fields, Common, Qualifieds, Specified, ScopeOf
  <2>2. "enumerator" \in Scoped
    BY DEF Scoped, CKinds
  <2> QED
    BY <1>1, <2>1, <2>2, TagHere
<1>7. /\ IsPosition(h) /\ h.at = "enumerator" /\ h.made = Here(g, e, "enumerator")
      /\ h.blocks = g.blocks
      /\ h.storage = g.storage /\ h.head = g.head /\ h.listed = g.listed
  BY <1>1, Moved
<1>8. Top(h) = Top(g)
  BY <1>7, SameBlocks
<1> HIDE DEF t
<1>9. Common(h, t)
  BY <1>1, <1>3, <1>4, <1>7, <1>8 DEF Common, Agree, Fields, Plain, Qualifieds, active
<1>10. Matches(h, t)
  BY <1>2, <1>3, <1>4, <1>7, <1>8, <1>9 DEF Matches, Placed, Enumerated, Places, Specified
<1> QED
  BY <1>4, <1>6, <1>7, <1>10, Stays

\* The comma after a member, which an initializer without one counts as.
LEMMA EnumeratorEnds ==
  ASSUME NEW g, NEW up, NEW st, Reading(g, up, st), g.at = "enumerator", NEW lx, createTags(lx),
         NEW x, NEW next, nextToken(st, up, lx) = PutBack(x, next), IsStatement(x),
         Agree(x, st, {"token", "assignment"}), active(x) = Mark(Comma),
         NEW h, h = Ending(g, {}) \/ h = Going(g, "last", {})
  PROVE  Served(h)
<1> DEFINE t == reinitStatement(x, up, TRUE)
<1>1. /\ IsPosition(g) /\ Enclosing(g.blocks, up) /\ Common(g, st) /\ Top(g).kind = "enum"
      /\ ~ Specified(g) /\ st.declaration = "base"
  BY DEF Reading, Matches, Enumerated, Placed
<1>2. Goes(up, t, {})
  <2>1. active(x).type = Comma
    BY TokensAre
  <2>2. up = Around(statements) /\ PutBack(x, next) = nextToken(Innermost(statements), up, lx)
    BY DEF Reading
  <2>3. PutBack(x, next).st = x /\ PutBack(x, next).exc = "none"
    BY ReadIs
  <2>4. Goes(up, t, EndsDeclarator(x, up))
    BY <2>1, <2>2, <2>3, Outcome
  <2>5. EndsDeclarator(x, up) = {}
    BY <1>1, Surroundings DEF EndsDeclarator
  <2> QED
    BY <2>4, <2>5
<1>3. /\ IsStatement(t) /\ Plain(t)
      /\ t.scope = x.scope /\ t.declaration = x.declaration
      /\ t.access = x.access /\ t.accessDefault = x.accessDefault
      /\ ~ t.gotName /\ ~ t.haveQualifyingName /\ ~ t.gotParenName
      /\ ~ t.gotArgs /\ ~ t.isPointer /\ t.implementation = "default"
      /\ t.context = << >>
      /\ active(t) = None /\ prev(t) = None /\ prev2(t) = None
  BY <1>1, PartialReinit
<1> HIDE DEF t
<1>4. /\ t.scope = "global" /\ t.declaration = "base"
      /\ t.access = Top(g).access /\ t.accessDefault = Top(g).access
  BY <1>1, <1>3 DEF Agree, Fields, Common, Specified, ScopeOf
<1>5. /\ IsPosition(h) /\ h.at \in {"start", "last"} /\ h.made = {} /\ h.blocks = g.blocks
      /\ ~ Specified(h) /\ h.storage = "none" /\ (h.at = "start" => h.after = "end")
  <2>1. CASE h = Ending(g, {})
    BY <1>1, <2>1, Started
  <2>2. CASE h = Going(g, "last", {})
    BY <1>1, <2>2, Moved DEF Specified
  <2> QED
    BY <2>1, <2>2
<1>6. Top(h) = Top(g) /\ IsMemberOf(h)
  <2>1. Top(h) = Top(g)
    BY <1>5, SameBlocks
  <2> QED
    BY <1>1, <2>1 DEF IsMemberOf
<1>7. Common(h, t)
  BY <1>3, <1>4, <1>5, <1>6 DEF Common, Qualifieds, active, ScopeOf
<1>8. h.at = "start" => AtStart(h, t)
  BY <1>3, <1>4, <1>5, <1>6 DEF AtStart
<1>9. Matches(h, t)
  BY <1>1, <1>4, <1>5, <1>6, <1>7, <1>8 DEF Matches, Placed, Enumerated, Places
<1>10. h.blocks # << >>
  BY <1>1, <1>5 DEF Top
<1> QED
  BY <1>2, <1>5, <1>9, <1>10, Stays, Included0

LEMMA EnumeratorComma ==
  ASSUME NEW g, NEW up, NEW st, Reading(g, up, st), g.at = "enumerator",
         createTags(Punct(Comma)), NEW h, h = Ending(g, {})
  PROVE  Served(h)
<1> DEFINE x == setToken(st, Comma)
<1>1. IsStatement(st)
  BY DEF Reading, Matches, Common
<1>2. IsStatement(x) /\ Agree(x, st, {"token"}) /\ active(x) = Mark(Comma)
  BY <1>1, TokenSet
<1>3. nextToken(st, up, Punct(Comma)) = PutBack(x, "any")
  BY PunctRead DEF Read, PutBack
<1> HIDE DEF x
<1>4. Agree(x, st, {"token", "assignment"})
  BY <1>2 DEF Agree
<1> QED
  BY <1>2, <1>3, <1>4, EnumeratorEnds

LEMMA EnumeratorValue ==
  ASSUME NEW g, NEW up, NEW st, Reading(g, up, st), g.at = "enumerator",
         NEW c \in {Comma, Closing}, createTags(Value(c)),
         NEW h, h = IF c = Comma THEN Ending(g, {}) ELSE Going(g, "last", {})
  PROVE  Served(h)
<1> DEFINE s == setToken(st, Comma)
           x == [s EXCEPT !.assignment = TRUE]
           how(old) == IF FALSE /\ old = "virtual" THEN "pure virtual" ELSE old
<1>1. /\ IsPosition(g) /\ Enclosing(g.blocks, up) /\ Common(g, st) /\ Top(g).kind = "enum"
      /\ ~ Specified(g) /\ IsStatement(st)
  BY DEF Reading, Matches, Enumerated, Placed, Common
<1>2. IsStatement(s) /\ Agree(s, st, {"token"}) /\ active(s) = Mark(Comma)
  BY <1>1, TokenSet
<1>3. s.scope = "global"
  BY <1>1, <1>2 DEF Agree, Fields, Common, Specified, ScopeOf
<1>4. nextToken(st, up, Value(c)) = PutBack(x, IF c = Comma THEN "any" ELSE Closing)
  <2>1. nextToken(st, up, Value(c)) = processInitializer(st, up, Value(c))
    BY DEF nextToken, Value
  <2>2. Value(c).rest = c /\ Value(c).zero = FALSE
    BY DEF Value
  <2>3. insideEnumBody(up)
    BY <1>1, Surroundings
  <2> DEFINE y == [s EXCEPT !.assignment = TRUE, !.implementation = s.implementation,
                            !.scope = IF @ = "extern" THEN "global" ELSE @]
  <2>4. y = x
    <3> HIDE DEF s
    <3> QED
      BY <1>2, <1>3 DEF IsStatement, Fields
  <2>5. CASE c = Comma
    <3>1. c \notin {"eof", "}"}
      BY <2>5 DEF Comma
    <3>2. processInitializer(st, up, Value(c)) = Read(y)
      BY <2>2, <2>5, <3>1 DEF processInitializer
    <3> QED
      BY <2>1, <2>4, <2>5, <3>2 DEF Read, PutBack
  <2>6. CASE c # Comma
    <3>1. c = Closing /\ c = "}" /\ c # "eof"
      BY <2>6 DEF Closing
    <3>2. processInitializer(st, up, Value(c)) = PutBack(y, Closing)
      BY <2>2, <2>3, <3>1 DEF processInitializer, Comma, Closing
    <3> QED
      BY <2>1, <2>4, <2>6, <3>2
  <2> QED
    BY <2>5, <2>6
<1> HIDE DEF s
<1>5. /\ IsStatement(x) /\ Agree(x, s, {"assignment"}) /\ x.token = s.token
  BY <1>2 DEF IsStatement, Fields, Agree
<1> HIDE DEF x
<1>6. Agree(x, st, {"token", "assignment"}) /\ active(x) = Mark(Comma)
  BY <1>2, <1>5 DEF Agree, active
<1>7. h = Ending(g, {}) \/ h = Going(g, "last", {})
  OBVIOUS
<1> QED
  BY <1>4, <1>5, <1>6, <1>7, EnumeratorEnds

-------------------------------------------------------------------------------
(* Steps that change the blocks                                            *)

\* Stays, with the blocks of the new position.
LEMMA Arrives ==
  ASSUME NEW h, IsPosition(h), Nested(h.blocks), NEW up, Enclosing(h.blocks, up),
         NEW t, Matches(h, t), Goes(up, t, Included(h.made)),
         h.at = "start" /\ h.after = "end" /\ h.blocks = << >> => ~ resolveRequired'
  PROVE  Served(h)
<1>1. IsSequence(up) /\ Len(up) = Len(h.blocks)
  BY DEF Enclosing
<1> DEFINE sts == Append(up, t)
<1>2. /\ IsSequence(sts) /\ Len(sts) = Len(up) + 1
      /\ Around(sts) = up /\ Innermost(sts) = t
  BY <1>1, LastAndFront
<1> HIDE DEF sts
<1>3. InStep(sts, h)
  BY <1>1, <1>2 DEF InStep
<1>4. h.at \in Places /\ h.at \notin Broken
  BY DEF Matches, Places, Broken
<1> QED
  BY <1>3, <1>4 DEF Served, Goes, sts

\* Another access of the members to come.
Accessing(g, a) == [[Ended(g) EXCEPT !.blocks[Len(g.blocks)].access = a] EXCEPT !.made = {}]

LEMMA AccessRead ==
  ASSUME NEW g, NEW up, NEW st, Reading(g, up, st), g.at = "start", ClassLike(g),
         NEW a \in {"private", "public"}, createTags(Access(a)), NEW h, h = Accessing(g, a)
  PROVE  Served(h)
<1> DEFINE n == Len(g.blocks)
           blocks == h.blocks
           fresh == reinitStatement(st, up, FALSE)
           t == [fresh EXCEPT !.accessDefault = a, !.access = a]
<1>1. /\ IsPosition(g) /\ Nested(g.blocks) /\ Enclosing(g.blocks, up) /\ IsStatement(st)
      /\ g.blocks \in Seq(Block)
  BY DEF Reading, Matches, Common, IsPosition
<1>2. /\ n \in 1 .. n /\ n \in Nat /\ Top(g) = g.blocks[n]
      /\ g.blocks[n].kind \in {"class", "struct", "union"}
  <2>1. g.blocks # << >>
    BY DEF ClassLike, Top
  <2>2. n \in 1 .. n /\ n \in Nat /\ Top(g) = g.blocks[n]
    BY <1>1, <2>1 DEF Top
  <2> QED
    BY <2>2 DEF ClassLike
<1>3. /\ h.at = "start" /\ h.made = {} /\ h.after = "end" /\ h.storage = "none"
      /\ h.head = "none" /\ h.listed = FALSE /\ DOMAIN h = PositionFields
      /\ blocks = [g.blocks EXCEPT ![n].access = a]
  BY DEF Accessing, Ended, File, PositionFields
<1>4. /\ blocks \in Seq(Block) /\ Len(blocks) = n
      /\ \A i \in 1 .. n :
           /\ blocks[i].kind = g.blocks[i].kind /\ blocks[i].name = g.blocks[i].name
           /\ blocks[i].storage = g.blocks[i].storage
           /\ blocks[i].access = IF i = n THEN a ELSE g.blocks[i].access
  <2> DEFINE new == [g.blocks[n] EXCEPT !.access = a]
  <2>1. g.blocks[n] \in Block
    BY <1>1, <1>2
  <2>2. /\ new \in Block /\ new.kind = g.blocks[n].kind /\ new.name = g.blocks[n].name
        /\ new.storage = g.blocks[n].storage /\ new.access = a
    BY <2>1 DEF Block
  <2>3. blocks = [g.blocks EXCEPT ![n] = new]
    BY <1>3
  <2> HIDE DEF new, blocks
  <2>4. blocks \in Seq(Block) /\ Len(blocks) = n
    BY <1>1, <1>2, <2>2, <2>3
  <2>5. \A i \in 1 .. n : blocks[i] = IF i = n THEN new ELSE g.blocks[i]
    BY <1>1, <1>2, <2>3
  <2> QED
    BY <2>2, <2>4, <2>5
<1> HIDE DEF blocks, n
<1>5. IsPosition(h)
  BY <1>3, <1>4 DEF IsPosition, blocks
<1>6. Nested(blocks)
  <2> SUFFICES ASSUME NEW i \in 1 .. Len(blocks)
               PROVE  /\ blocks[i].kind \in {"namespace", "linkage"} => blocks[i].storage = "none"
                      /\ i < Len(blocks) => blocks[i].kind # "enum"
                      /\ blocks[i].kind \notin {"class", "struct", "union"} => blocks[i].access = "undef"
                      /\ \A j \in 1 .. i - 1 :
                           /\ blocks[i].kind = "namespace" => blocks[j].kind \in {"namespace", "linkage"}
                           /\ blocks[i].kind = "linkage" => blocks[j].kind = "linkage"
    BY DEF Nested
  <2>1. i \in 1 .. n /\ \A j \in 1 .. i - 1 : j \in 1 .. n
    BY <1>2, <1>4
  <2>2. /\ g.blocks[i].kind \in {"namespace", "linkage"} => g.blocks[i].storage = "none"
        /\ i < n => g.blocks[i].kind # "enum"
        /\ g.blocks[i].kind \notin {"class", "struct", "union"} => g.blocks[i].access = "undef"
        /\ \A j \in 1 .. i - 1 :
             /\ g.blocks[i].kind = "namespace" => g.blocks[j].kind \in {"namespace", "linkage"}
             /\ g.blocks[i].kind = "linkage" => g.blocks[j].kind = "linkage"
    BY <1>1, <2>1 DEF Nested, n
  <2> QED
    BY <1>2, <1>4, <2>1, <2>2
<1>7. Enclosing(blocks, up)
  <2>1. IsSequence(up) /\ Len(up) = Len(blocks)
    BY <1>1, <1>4 DEF Enclosing, n
  <2>2. ASSUME NEW i \in 1 .. Len(blocks) PROVE Encloses(blocks, i, up[i])
    <3>1. i \in 1 .. n /\ Encloses(g.blocks, i, up[i])
      BY <1>1, <1>4 DEF Enclosing, n
    <3>2. AccessIn(blocks, i - 1) = AccessIn(g.blocks, i - 1)
      <4>1. CASE i = 1
        BY <4>1 DEF AccessIn
      <4>2. CASE i # 1
        <5>1. i - 1 \in 1 .. n /\ i - 1 # n /\ i - 1 # 0
          BY <1>2, <3>1, <4>2
        <5> QED
          BY <1>4, <5>1 DEF AccessIn
      <4> QED
        BY <4>1, <4>2
    <3>3. blocks[i].kind = g.blocks[i].kind /\ blocks[i].name = g.blocks[i].name
          /\ blocks[i].storage = g.blocks[i].storage
      BY <1>4, <3>1
    <3> QED
      BY <3>1, <3>2, <3>3 DEF Encloses
  <2> QED
    BY <2>1, <2>2 DEF Enclosing
<1>8. /\ Top(h).kind = Top(g).kind /\ Top(h).access = a /\ ClassLike(h) /\ IsMemberOf(h)
      /\ h.blocks # << >>
  <2>0. blocks # << >>
    BY <1>2, <1>4
  <2>1. blocks # << >> /\ Top(h) = blocks[n]
    BY <1>4, <2>0 DEF Top, blocks
  <2>2. Top(h).kind = Top(g).kind /\ Top(h).access = a
    BY <1>2, <1>4, <2>1
  <2> QED
    BY <1>2, <2>1, <2>2 DEF ClassLike, IsMemberOf, blocks
<1>9. Anew(g, fresh) /\ IsMemberOf(g)
  BY <1>1, Reinit DEF IsMemberOf
<1>10. nextToken(st, up, Access(a)) = PutBack(t, "any")
  <2>1. isMember(st, up)
    BY <1>1, <1>9, Surroundings DEF isMember
  <2>2. nextToken(st, up, Access(a)) = setAccess(st, up, a)
    BY DEF nextToken, Access
  <2> QED
    BY <2>1, <2>2 DEF setAccess, Read, PutBack
<1> HIDE DEF fresh
<1>11. /\ IsStatement(t) /\ Agree(t, fresh, {"access", "accessDefault"}) /\ t.token = fresh.token
       /\ t.access = a /\ t.accessDefault = a
  BY <1>9 DEF Anew, IsStatement, Fields, Agree
<1> HIDE DEF t
<1>12. /\ Plain(t) /\ t.scope = "global" /\ t.declaration = "base"
       /\ ~ t.gotName /\ ~ t.haveQualifyingName /\ ~ t.gotParenName /\ ~ t.gotArgs
       /\ ~ t.isPointer /\ t.implementation = "default" /\ t.context = << >>
       /\ active(t) = None /\ prev(t) = None /\ prev2(t) = None
  BY <1>9, <1>11 DEF Agree, Fields, Anew, Plain, active, prev, prev2
<1>13. Goes(up, t, {})
  BY <1>10, <1>12, NoTokenYet
<1>14. Common(h, t)
  BY <1>3, <1>8, <1>11, <1>12 DEF Common, Qualifieds, active, ScopeOf
<1>15. AtStart(h, t)
  BY <1>3, <1>8, <1>12 DEF AtStart, Specified
<1>16. Matches(h, t)
  BY <1>2, <1>3, <1>8, <1>14, <1>15 DEF Matches, Placed, Enumerated, Places
<1> QED
  BY <1>3, <1>5, <1>6, <1>7, <1>8, <1>13, <1>16, Arrives, Included0 DEF blocks

-------------------------------------------------------------------------------
(* Blocks that are entered                                                 *)

BlockKinds == TypeKinds \union {"namespace", "linkage"}

\* The access of what is declared first in a block.
FirstAccess(kind) ==
  CASE kind = "class" -> "private" [] kind \in {"struct", "union"} -> "public" [] OTHER -> "undef"

Entering(g, kind, name, made) == [Enter(g, kind, name) EXCEPT !.made = made]

\* What is declared with a block, and where.
MayEnter(g, kind, name) ==
  /\ kind \in BlockKinds /\ name \in {B, Anon}
  /\ Top(g).kind # "enum" /\ g.storage # "virtual"
  /\ kind \in {"namespace", "linkage"} => g.storage = "none"
  /\ kind = "namespace" => ~ ClassLike(g)
  /\ kind = "linkage" => FileLevel(g)

LEMMA Entered ==
  ASSUME NEW g, IsPosition(g), Nested(g.blocks), NEW kind, NEW name, MayEnter(g, kind, name),
         NEW made, NEW h, h = Entering(g, kind, name, made)
  PROVE  LET n == Len(g.blocks)
         IN  /\ IsPosition(h) /\ h.at = "start" /\ h.after = "end" /\ h.made = made
             /\ h.storage = "none" /\ h.head = "none" /\ ~ h.listed
             /\ Nested(h.blocks) /\ n \in Nat /\ Len(h.blocks) = n + 1
             /\ \A i \in 1 .. n : h.blocks[i] = g.blocks[i]
             /\ h.blocks[n + 1] = [kind |-> kind, name |-> name, storage |-> g.storage,
                                   access |-> FirstAccess(kind)]
             /\ Top(h) = h.blocks[n + 1] /\ AccessIn(h.blocks, n) = Top(g).access
<1> DEFINE n == Len(g.blocks)
           blocks == h.blocks
           new == [kind |-> kind, name |-> name, storage |-> g.storage,
                   access |-> FirstAccess(kind)]
<1>0. /\ kind \in BlockKinds /\ name \in {B, Anon}
      /\ Top(g).kind # "enum" /\ g.storage # "virtual"
      /\ kind \in {"namespace", "linkage"} => g.storage = "none"
      /\ kind = "namespace" => ~ ClassLike(g)
      /\ kind = "linkage" => FileLevel(g)
  BY DEF MayEnter
<1>1. /\ h.at = "start" /\ h.after = "end" /\ h.made = made /\ h.storage = "none"
      /\ h.head = "none" /\ h.listed = FALSE /\ DOMAIN h = PositionFields
      /\ blocks = Append(g.blocks, new)
  BY DEF Entering, Enter, File, PositionFields, FirstAccess
<1>2. g.blocks \in Seq(Block) /\ n \in Nat
  BY DEF IsPosition
<1>3. /\ new.kind = kind /\ new.name = name /\ new.storage = g.storage
      /\ new.access = FirstAccess(kind) /\ new \in Block
  BY <1>0 DEF IsPosition, Block, BlockKinds, FirstAccess
<1>4. FirstAccess(kind) = IF kind \in {"class", "struct", "union"} THEN FirstAccess(kind) ELSE "undef"
  BY DEF FirstAccess
<1> HIDE DEF new, blocks
<1>5. /\ blocks \in Seq(Block) /\ Len(blocks) = n + 1 /\ blocks[n + 1] = new
      /\ \A i \in 1 .. n : blocks[i] = g.blocks[i]
  BY <1>1, <1>2, <1>3
<1>6. IsPosition(h)
  BY <1>1, <1>5 DEF IsPosition, blocks
<1>7. /\ n # 0 => Top(g) = g.blocks[n] /\ n \in 1 .. n
      /\ n = 0 => Top(g).kind = "file" /\ Top(g).access = "undef"
  <2>1. n = 0 <=> g.blocks = << >>
    BY <1>2
  <2>2. n # 0 => n \in 1 .. n
    BY <1>2
  <2>3. n # 0 => Top(g) = g.blocks[n]
    BY <2>1 DEF Top
  <2>4. n = 0 => Top(g).kind = "file" /\ Top(g).access = "undef"
    BY <2>1 DEF Top
  <2> QED
    BY <2>2, <2>3, <2>4
<1> HIDE DEF n
<1>8. AccessIn(blocks, n) = Top(g).access
  BY <1>2, <1>5, <1>7 DEF AccessIn
<1>9. \A j \in 1 .. n : /\ kind = "namespace" => blocks[j].kind \in {"namespace", "linkage"}
                        /\ kind = "linkage" => blocks[j].kind = "linkage"
  <2> SUFFICES ASSUME NEW j \in 1 .. n
               PROVE  /\ kind = "namespace" => blocks[j].kind \in {"namespace", "linkage"}
                      /\ kind = "linkage" => blocks[j].kind = "linkage"
    OBVIOUS
  <2>1. n # 0 /\ n \in 1 .. n /\ (j = n \/ j \in 1 .. n - 1) /\ Top(g) = g.blocks[n]
    BY <1>2, <1>7
  <2>2. ASSUME kind = "namespace" PROVE g.blocks[j].kind \in {"namespace", "linkage"}
    <3>1. g.blocks[n] \in Block
      BY <1>2, <2>1 DEF n
    <3>2. g.blocks[n].kind \in {"namespace", "linkage"}
      BY <1>0, <2>1, <2>2, <3>1 DEF ClassLike, Block, TypeKinds
    <3>3. j # n => g.blocks[j].kind \in {"namespace", "linkage"}
      BY <2>1, <3>2 DEF Nested, n
    <3> QED
      BY <3>2, <3>3
  <2>3. ASSUME kind = "linkage" PROVE g.blocks[j].kind = "linkage"
    BY <1>0, <1>2, <2>3 DEF FileLevel, n
  <2> QED
    BY <1>5, <2>2, <2>3
<1>10. Nested(blocks)
  <2> SUFFICES ASSUME NEW i \in 1 .. Len(blocks)
               PROVE  /\ blocks[i].kind \in {"namespace", "linkage"} => blocks[i].storage = "none"
                      /\ i < Len(blocks) => blocks[i].kind # "enum"
                      /\ blocks[i].kind \notin {"class", "struct", "union"} => blocks[i].access = "undef"
                      /\ \A j \in 1 .. i - 1 :
                           /\ blocks[i].kind = "namespace" => blocks[j].kind \in {"namespace", "linkage"}
                           /\ blocks[i].kind = "linkage" => blocks[j].kind = "linkage"
    BY DEF Nested
  <2>1. CASE i = n + 1
    BY <1>0, <1>2, <1>3, <1>4, <1>5, <1>9, <2>1
  <2>2. CASE i # n + 1
    <3>1. i \in 1 .. n /\ \A j \in 1 .. i - 1 : j \in 1 .. n
      BY <1>2, <1>5, <2>2
    <3>2. /\ g.blocks[i].kind \in {"namespace", "linkage"} => g.blocks[i].storage = "none"
          /\ i < n => g.blocks[i].kind # "enum"
          /\ g.blocks[i].kind \notin {"class", "struct", "union"} => g.blocks[i].access = "undef"
          /\ \A j \in 1 .. i - 1 :
               /\ g.blocks[i].kind = "namespace" => g.blocks[j].kind \in {"namespace", "linkage"}
               /\ g.blocks[i].kind = "linkage" => g.blocks[j].kind = "linkage"
      BY <3>1 DEF Nested, n
    <3>3. g.blocks[i].kind # "enum"
      BY <1>0, <1>2, <1>7, <3>1, <3>2
    <3> QED
      BY <1>5, <3>1, <3>2, <3>3
  <2> QED
    BY <2>1, <2>2
<1>11. Top(h) = blocks[n + 1]
  <2>1. blocks # << >>
    BY <1>2, <1>5
  <2> QED
    BY <1>5, <2>1 DEF Top, blocks
<1> QED
  BY <1>1, <1>2, <1>5, <1>6, <1>8, <1>10, <1>11 DEF n, blocks, new

\* The first statement of a block.
LEMMA FirstStatement ==
  ASSUME NEW g, IsPosition(g), NEW up, Enclosing(g.blocks, up), NEW t, t = initStatement(up)
  PROVE  Anew(g, t) /\ t.access = accessDefault(up) /\ t.accessDefault = accessDefault(up)
<1> DEFINE first ==
      [ scope |-> "global", declaration |-> "none", gotName |-> FALSE,
        haveQualifyingName |-> FALSE, gotParenName |-> FALSE, gotArgs |-> FALSE,
        isPointer |-> FALSE, inFunction |-> FALSE, assignment |-> FALSE,
        notVariable |-> FALSE, implementation |-> "default",
        token |-> << None, None, None >>, context |-> << >>, blockName |-> None,
        access |-> accessDefault(up), accessDefault |-> accessDefault(up) ]
       fresh == reinitStatement(first, up, FALSE)
<1>1. IsStatement(first) /\ first.accessDefault = accessDefault(up)
  BY DEF IsStatement, Fields
<1>2. t = fresh
  BY DEF initStatement
<1> HIDE DEF first
<1>3. Anew(g, fresh) /\ fresh.access = first.accessDefault
      /\ fresh.accessDefault = first.accessDefault
  BY <1>1, Reinit
<1> HIDE DEF fresh
<1> QED
  BY <1>1, <1>2, <1>3

\* Two statements at the end of a sequence.
LEMMA TwoMore ==
  ASSUME NEW up, IsSequence(up), NEW x, NEW y
  PROVE  up \o << x, y >> = Append(Append(up, x), y)
<1> DEFINE V == {up[i] : i \in DOMAIN up}
           W == V \union {x, y}
<1>1. up \in Seq(V)
  BY DEF IsSequence
<1> HIDE DEF V
<1>2. up \in Seq(W) /\ x \in W /\ y \in W
  BY <1>1
<1> HIDE DEF W
<1> QED
  BY <1>2

\* The statement of the block x joins the ones around the innermost.
LEMMA EnclosingMore ==
  ASSUME NEW blocks, NEW more, NEW up, NEW n \in Nat, n = Len(blocks), Enclosing(blocks, up),
         Len(more) = n + 1, \A i \in 1 .. n : more[i] = blocks[i],
         NEW x, Encloses(more, n + 1, x)
  PROVE  Enclosing(more, Append(up, x))
<1> DEFINE s == Append(up, x)
           V == {up[i] : i \in DOMAIN up}
           W == V \union {x}
<1>1. IsSequence(up) /\ Len(up) = n /\ \A i \in 1 .. n : Encloses(blocks, i, up[i])
  BY DEF Enclosing
<1>2. IsSequence(s) /\ Len(s) = n + 1
  BY <1>1, LastAndFront
<1>3. up \in Seq(V)
  BY <1>1 DEF IsSequence
<1> HIDE DEF V
<1>4. up \in Seq(W) /\ x \in W
  BY <1>3
<1> HIDE DEF W
<1>5. s[n + 1] = x /\ \A i \in 1 .. n : s[i] = up[i]
  BY <1>1, <1>4
<1> HIDE DEF s
<1>6. ASSUME NEW i \in 1 .. n + 1 PROVE Encloses(more, i, s[i])
  <2>1. CASE i = n + 1
    BY <1>5, <2>1
  <2>2. CASE i # n + 1
    <3>1. i \in 1 .. n /\ (i - 1 = 0 \/ i - 1 \in 1 .. n)
      BY <2>2
    <3>2. AccessIn(more, i - 1) = AccessIn(blocks, i - 1)
      BY <3>1 DEF AccessIn
    <3>3. Encloses(blocks, i, s[i]) /\ more[i] = blocks[i]
      BY <1>1, <1>5, <3>1
    <3> QED
      BY <3>2, <3>3 DEF Encloses
  <2> QED
    BY <2>1, <2>2
<1> QED
  BY <1>2, <1>6 DEF Enclosing, s

\* nest, for a block createTags enters.
LEMMA BlockEntered ==
  ASSUME NEW g, NEW up, NEW st, Reading(g, up, st),
         NEW kind, NEW name, MayEnter(g, kind, name), NEW made, NEW h, h = Entering(g, kind, name, made),
         NEW x, IsStatement(x), Plain(x),
         x.declaration = (IF kind = "linkage" THEN "nomangle" ELSE kind),
         kind # "linkage" => x.blockName = NameToken(name),
         x.scope = ScopeOf(g.storage), x.implementation = "default",
         x.access = Top(g).access, x.accessDefault = Top(g).access,
         ~ x.gotParenName, ~ x.gotArgs, ~ x.isPointer, x.context = << >>,
         active(x) = Mark(Opening),
         statements' = up \o << x, initStatement(Append(up, x)) >>,
         tags' = Included(made), exception' = "running"
  PROVE  Served(h)
<1> DEFINE n == Len(g.blocks)
           more == Append(up, x)
           t == initStatement(more)
<1>1. IsPosition(g) /\ Nested(g.blocks) /\ Enclosing(g.blocks, up) /\ IsSequence(up)
  BY DEF Reading, Enclosing
<1>0. kind \in BlockKinds
  BY DEF MayEnter
<1>2. /\ IsPosition(h) /\ h.at = "start" /\ h.after = "end" /\ h.made = made
      /\ h.storage = "none" /\ h.head = "none" /\ ~ h.listed
      /\ Nested(h.blocks) /\ n \in Nat /\ Len(h.blocks) = n + 1
      /\ \A i \in 1 .. n : h.blocks[i] = g.blocks[i]
      /\ h.blocks[n + 1] = [kind |-> kind, name |-> name, storage |-> g.storage,
                            access |-> FirstAccess(kind)]
      /\ Top(h) = h.blocks[n + 1] /\ AccessIn(h.blocks, n) = Top(g).access
  BY <1>1, Entered
<1>3. /\ Top(h).kind = kind /\ Top(h).name = name /\ Top(h).storage = g.storage
      /\ Top(h).access = FirstAccess(kind)
  BY <1>2
<1>4. Encloses(h.blocks, n + 1, x)
  <2>1. n + 1 - 1 = n
    BY <1>2
  <2>2. kind # "linkage" => x.blockName = [type |-> "name", word |-> name]
    BY DEF NameToken
  <2> QED
    BY <1>2, <1>3, <2>1, <2>2 DEF Encloses
<1>5. Enclosing(h.blocks, more)
  BY <1>1, <1>2, <1>4, EnclosingMore
<1>6. statements' = Append(more, t)
  BY <1>1, TwoMore
<1> HIDE DEF more
<1>7. /\ parentDecl(more) = (IF kind = "linkage" THEN "nomangle" ELSE kind)
      /\ h.blocks # << >>
  <2>1. h.blocks # << >>
    BY <1>2
  <2> QED
    BY <1>2, <1>3, <1>5, <2>1, Surroundings
<1>8. accessDefault(more) = FirstAccess(kind)
  BY <1>0, <1>7 DEF accessDefault, FirstAccess, BlockKinds, TypeKinds
<1>9. Anew(h, t) /\ t.access = FirstAccess(kind) /\ t.accessDefault = FirstAccess(kind)
  BY <1>2, <1>5, <1>8, FirstStatement
<1> HIDE DEF t
<1>10. Common(h, t)
  BY <1>2, <1>3, <1>9 DEF Common, Anew, Qualifieds, ScopeOf, active
<1>11. AtStart(h, t)
  BY <1>2, <1>9 DEF AtStart, Anew, Specified
<1>12. Matches(h, t)
  BY <1>2, <1>10, <1>11 DEF Matches, Placed, Enumerated, Places
<1>13. Goes(more, t, Included(h.made))
  BY <1>2, <1>6 DEF Goes
<1> QED
  BY <1>2, <1>5, <1>7, <1>12, <1>13, Arrives

\* Where a block may begin, its kind and name, and the tags of it.
BeforeBlock == {"head", "headname", "bases", "namespace", "namespacename", "linked"}
BlockKind(g) ==
  CASE g.at \in {"namespace", "namespacename"} -> "namespace" [] g.at = "linked" -> "linkage"
    [] OTHER -> g.head
BlockName(g) == IF g.at \in {"headname", "bases", "namespacename"} THEN B ELSE Anon
BlockTags(g) == IF BlockName(g) = B THEN Here(g, B, BlockKind(g)) ELSE {}

LEMMA NamesDiffer == B # Anon /\ B # e /\ B # T
BY DEF B, Anon, e, T

LEMMA BeforeBlockIs ==
  ASSUME NEW g, NEW st, IsPosition(g), Matches(g, st), g.at \in BeforeBlock
  PROVE  /\ MayEnter(g, BlockKind(g), BlockName(g)) /\ IsStatement(st) /\ Plain(st)
         /\ st.declaration = (IF BlockKind(g) = "linkage" THEN "nomangle" ELSE BlockKind(g))
         /\ st.scope = ScopeOf(g.storage) /\ st.implementation = "default"
         /\ st.access = Top(g).access /\ st.accessDefault = Top(g).access
         /\ ~ st.gotParenName /\ ~ st.gotArgs /\ ~ st.isPointer /\ st.context = << >>
         /\ IF BlockName(g) = B THEN prev(st) = NameToken(B)
                                ELSE prev(st).type \notin {"name", "args"}
<1>1. Common(g, st) /\ Placed(g, st) /\ Top(g).kind # "enum"
  BY DEF Matches, Enumerated, BeforeBlock
<1>2. CASE g.at \in {"head", "headname", "bases"}
  <2>1. /\ AtHead(g, st) /\ BlockKind(g) = g.head /\ g.head \in TypeKinds
        /\ g.storage # "virtual"
    BY <1>1, <1>2 DEF Placed, AtHead, BlockKind, IsPosition
  <2>2. MayEnter(g, BlockKind(g), BlockName(g))
    BY <1>1, <2>1 DEF MayEnter, BlockKinds, TypeKinds, BlockName
  <2>3. /\ st.declaration = (IF BlockKind(g) = "linkage" THEN "nomangle" ELSE BlockKind(g))
        /\ st.implementation = "default"
    BY <1>1, <2>1 DEF AtHead, TypeKinds, Common
  <2>4. IF BlockName(g) = B THEN prev(st) = NameToken(B) ELSE prev(st).type \notin {"name", "args"}
    BY <1>1, <1>2, NamesDiffer, TokensAre DEF Placed, BlockName
  <2> QED
    BY <1>1, <1>2, <2>2, <2>3, <2>4 DEF Common, Qualifieds
<1>3. CASE g.at \in {"namespace", "namespacename"}
  <2>1. AtNamespace(g, st) /\ BlockKind(g) = "namespace"
    BY <1>1, <1>3 DEF Placed, BlockKind
  <2>2. MayEnter(g, BlockKind(g), BlockName(g))
    BY <1>1, <2>1 DEF MayEnter, BlockKinds, BlockName, AtNamespace, Specified
  <2>3. /\ st.declaration = (IF BlockKind(g) = "linkage" THEN "nomangle" ELSE BlockKind(g))
        /\ st.implementation = "default"
    BY <1>1, <2>1 DEF AtNamespace, Common, Specified
  <2>4. IF BlockName(g) = B THEN prev(st) = NameToken(B) ELSE prev(st).type \notin {"name", "args"}
    BY <1>1, <1>3, NamesDiffer, TokensAre DEF Placed, BlockName
  <2> QED
    BY <1>1, <1>3, <2>2, <2>3, <2>4 DEF Common, Qualifieds
<1>4. CASE g.at = "linked"
  <2>1. AtLinkage(g, st) /\ st.declaration = "nomangle" /\ BlockKind(g) = "linkage"
    BY <1>1, <1>4 DEF Placed, BlockKind
  <2>2. MayEnter(g, BlockKind(g), BlockName(g))
    BY <1>1, <2>1 DEF MayEnter, BlockKinds, BlockName, AtLinkage, Specified
  <2>3. /\ st.declaration = (IF BlockKind(g) = "linkage" THEN "nomangle" ELSE BlockKind(g))
        /\ st.implementation = "default"
    BY <1>1, <2>1 DEF AtLinkage, Common, Specified
  <2>4. IF BlockName(g) = B THEN prev(st) = NameToken(B) ELSE prev(st).type \notin {"name", "args"}
    BY <1>4, <2>1, NamesDiffer, TokensAre DEF AtLinkage, BlockName
  <2> QED
    BY <1>1, <1>4, <2>2, <2>3, <2>4 DEF Common, Qualifieds
<1> QED
  BY <1>2, <1>3, <1>4 DEF BeforeBlock

\* tagCheck and nest, at the brace of a block.
LEMMA BlockOpened ==
  ASSUME NEW g, NEW up, NEW st, Reading(g, up, st), g.at \in BeforeBlock,
         createTags(Punct(Opening)),
         NEW h, h = Entering(g, BlockKind(g), BlockName(g), BlockTags(g))
  PROVE  Served(h)
<1> DEFINE kind == BlockKind(g)
           name == BlockName(g)
           lx == Punct(Opening)
           x == setToken(st, Opening)
           y == IF kind = "linkage" THEN x ELSE [x EXCEPT !.blockName = NameToken(name)]
           inner == [y EXCEPT !.inFunction = @ \/ y.declaration = "function"]
<1>1. /\ IsPosition(g) /\ Matches(g, st) /\ Enclosing(g.blocks, up) /\ Nested(g.blocks)
  BY DEF Reading
<1>2. /\ MayEnter(g, kind, name) /\ IsStatement(st) /\ Plain(st)
      /\ st.declaration = (IF kind = "linkage" THEN "nomangle" ELSE kind)
      /\ st.scope = ScopeOf(g.storage) /\ st.implementation = "default"
      /\ st.access = Top(g).access /\ st.accessDefault = Top(g).access
      /\ ~ st.gotParenName /\ ~ st.gotArgs /\ ~ st.isPointer /\ st.context = << >>
      /\ IF name = B THEN prev(st) = NameToken(B) ELSE prev(st).type \notin {"name", "args"}
  BY <1>1, BeforeBlockIs
<1> HIDE DEF kind, name
<1>3. /\ IsStatement(x) /\ Agree(x, st, {"token"})
      /\ active(x) = Mark(Opening) /\ prev(x) = prev(st)
  BY <1>2, TokenSet
<1>4. OpenBlock(Read(x), up, lx) /\ exception = "running"
  <2>1. active(x).type = Opening
    BY <1>3, TokensAre
  <2>2. up = Around(statements) /\ Read(x) = nextToken(Innermost(statements), up, lx)
    BY PunctRead DEF Reading
  <2>3. Read(x).st = x /\ Read(x).exc = "none"
    BY ReadIs
  <2> HIDE DEF x
  <2> QED
    BY <2>1, <2>2, <2>3, Outcome DEF createTags
<1> HIDE DEF x
<1>5. /\ tags' = OpensBlock(x, up).tags
      /\ nest(OpensBlock(x, up).st, up, lx.t # "unclosed")
  <2>1. tagCheck(x, up) = OpensBlock(x, up)
    BY <1>3, TagChecked, TokensAre
  <2> QED
    BY <1>4, <2>1, ReadIs DEF OpenBlock
<1>6. kind \in BlockKinds /\ name \in {B, Anon}
  BY <1>2 DEF MayEnter
<1>7. /\ x.declaration = (IF kind = "linkage" THEN "nomangle" ELSE kind)
      /\ x.scope = ScopeOf(g.storage) /\ x.implementation = "default"
      /\ x.access = Top(g).access /\ x.accessDefault = Top(g).access
      /\ ~ x.gotParenName /\ ~ x.gotArgs /\ ~ x.isPointer /\ x.context = << >> /\ Plain(x)
      /\ isContextualDecl(x.declaration) <=> kind # "linkage"
  <2>1. /\ x.declaration = (IF kind = "linkage" THEN "nomangle" ELSE kind)
        /\ x.scope = ScopeOf(g.storage) /\ x.implementation = "default"
        /\ x.access = Top(g).access /\ x.accessDefault = Top(g).access
        /\ ~ x.gotParenName /\ ~ x.gotArgs /\ ~ x.isPointer /\ x.context = << >>
    BY <1>2, <1>3 DEF Agree, Fields
  <2>2. Plain(x)
    BY <1>2, <1>3 DEF Agree, Fields, Plain
  <2>3. isContextualDecl(x.declaration) <=> kind # "linkage"
    BY <1>6, <2>1 DEF isContextualDecl, ContextualKeywords, BlockKinds, TypeKinds
  <2> QED
    BY <2>1, <2>2, <2>3
<1>8. prev(x).type # "args" /\ (prev(x).type = "name" <=> name = B)
  BY <1>2, <1>3, TokensAre
<1>9. OpensBlock(x, up).st = y
  <2>1. CASE kind = "linkage"
    BY <1>7, <1>8, <2>1 DEF OpensBlock
  <2>2. CASE kind # "linkage"
    <3>1. (IF prev(x).type = "name" THEN prev(x) ELSE [type |-> "name", word |-> Anon])
            = NameToken(name)
      BY <1>2, <1>3, <1>6, <1>8 DEF NameToken
    <3> QED
      BY <1>7, <1>8, <2>2, <3>1 DEF OpensBlock
  <2> QED
    BY <2>1, <2>2
<1>10. tags' = Included(BlockTags(g))
  <2>1. CASE kind = "linkage"
    <3>1. name # B
      BY <1>1, <2>1, NamesDiffer DEF kind, name, BlockKind, BlockName, IsPosition, TypeKinds
    <3> QED
      BY <1>5, <1>7, <1>8, <2>1, <3>1, Included0 DEF OpensBlock, BlockTags, name
  <2>2. CASE kind # "linkage" /\ name # B
    <3>1. makeTag(prev(x), x, up, x.declaration) = {}
      BY <1>8, <2>2 DEF makeTag
    <3> QED
      BY <1>5, <1>7, <1>8, <2>2, <3>1, Included0 DEF OpensBlock, BlockTags, name
  <2>3. CASE kind # "linkage" /\ name = B
    <3>1. kind \in Scoped /\ x.declaration = kind /\ x.scope # "friend"
      BY <1>1, <1>6, <1>7, <2>3
         DEF Scoped, CKinds, BlockKinds, TypeKinds, ScopeOf, IsPosition
    <3>2. makeTag(NameToken(B), x, up, kind) = Included(Here(g, B, kind))
      BY <1>1, <1>7, <3>1, TagHere
    <3>3. OpensBlock(x, up).tags = makeTag(NameToken(B), x, up, kind)
      BY <1>2, <1>3, <1>7, <1>8, <2>3, <3>1 DEF OpensBlock
    <3> QED
      BY <1>5, <2>3, <3>2, <3>3 DEF BlockTags, name, kind
  <2> QED
    BY <2>1, <2>2, <2>3
<1>11. /\ IsStatement(y) /\ Agree(y, x, {"blockName"}) /\ y.token = x.token
       /\ kind # "linkage" => y.blockName = NameToken(name)
  BY <1>3 DEF IsStatement, Fields, Agree
<1> HIDE DEF y
<1>12. y.declaration = x.declaration /\ ~ y.inFunction
  BY <1>7, <1>11 DEF Agree, Fields, Plain
<1>13. y.declaration # "function" /\ entersBlock(y)
  BY <1>6, <1>7, <1>12 DEF entersBlock, ContextualKeywords, BlockKinds, TypeKinds
<1>14. /\ statements' = up \o << inner, initStatement(Append(up, inner)) >>
       /\ exception' = "running"
  BY <1>4, <1>5, <1>9, <1>13 DEF nest
<1>15. /\ IsStatement(inner) /\ Agree(inner, y, {"inFunction"}) /\ inner.token = y.token
  BY <1>11 DEF IsStatement, Fields, Agree
<1>16. ~ inner.inFunction
  BY <1>11, <1>12, <1>13 DEF IsStatement, Fields
<1> HIDE DEF inner
<1>17. Agree(inner, x, {"blockName", "inFunction"}) /\ active(inner) = Mark(Opening)
  BY <1>3, <1>11, <1>15 DEF Agree, active
<1>18. /\ Plain(inner) /\ inner.declaration = (IF kind = "linkage" THEN "nomangle" ELSE kind)
       /\ inner.scope = ScopeOf(g.storage) /\ inner.implementation = "default"
       /\ inner.access = Top(g).access /\ inner.accessDefault = Top(g).access
       /\ ~ inner.gotParenName /\ ~ inner.gotArgs /\ ~ inner.isPointer /\ inner.context = << >>
  BY <1>7, <1>16, <1>17 DEF Agree, Fields, Plain
<1>19. kind # "linkage" => inner.blockName = NameToken(name)
  BY <1>11, <1>15 DEF Agree, Fields
<1>20. h = Entering(g, kind, name, BlockTags(g))
  BY DEF kind, name
<1> QED
  BY <1>2, <1>10, <1>14, <1>15, <1>17, <1>18, <1>19, <1>20, BlockEntered

-------------------------------------------------------------------------------
(* Blocks that are left                                                    *)

Leaving(g) == [Leave(g) EXCEPT !.made = {}]

LEMMA Left ==
  ASSUME NEW g, IsPosition(g), Nested(g.blocks), g.blocks # << >>, NEW h, h = Leaving(g)
  PROVE  LET n == Len(g.blocks)
             k == Top(g).kind
         IN  /\ IsPosition(h) /\ h.made = {} /\ ~ h.listed
             /\ n \in Nat /\ n \in 1 .. n /\ Top(g) = g.blocks[n] /\ k \in BlockKinds
             /\ Len(h.blocks) = n - 1 /\ Nested(h.blocks)
             /\ \A i \in 1 .. n - 1 : h.blocks[i] = g.blocks[i]
             /\ Top(h).access = AccessIn(g.blocks, n - 1) /\ Top(h).kind # "enum"
             /\ k = "namespace" => /\ h.at = "start" /\ h.after = "namespace" /\ ~ ClassLike(h)
                                   /\ ~ Specified(h) /\ h.storage = "none"
             /\ k = "linkage" => /\ h.at = "start" /\ h.after = "end"
                                 /\ ~ Specified(h) /\ h.storage = "none"
             /\ k \in TypeKinds => /\ h.at = "closed" /\ h.storage = Top(g).storage
                                   /\ h.head = k /\ h.storage # "virtual"
             /\ k \in {"namespace", "linkage"} => Top(g).storage = "none"
<1> DEFINE n == Len(g.blocks)
           k == Top(g).kind
           blocks == h.blocks
<1>1. g.blocks \in Seq(Block) /\ n \in Nat /\ n \in 1 .. n
  BY DEF IsPosition
<1>2. Top(g) = g.blocks[n]
  BY DEF Top
<1>3. g.blocks[n] \in Block
  BY <1>1
<1>4. k \in BlockKinds /\ Top(g).storage \in {"none", "typedef", "static", "extern"}
  BY <1>2, <1>3 DEF Block, BlockKinds
<1>5. blocks = SubSeq(g.blocks, 1, n - 1)
  BY DEF Leaving, Leave, File
<1>6. /\ h.made = {} /\ h.listed = FALSE /\ DOMAIN h = PositionFields
  BY DEF Leaving, Leave, File, PositionFields
<1>7. /\ k = "namespace" => h.at = "start" /\ h.after = "namespace" /\ h.storage = "none"
                              /\ h.head = "none"
      /\ k = "linkage" => h.at = "start" /\ h.after = "end" /\ h.storage = "none"
                            /\ h.head = "none"
  BY DEF Leaving, Leave, File
<1>8. k \in TypeKinds => h.at = "closed" /\ h.storage = Top(g).storage /\ h.head = k
                           /\ h.after = "end"
  BY DEF Leaving, Leave, File, TypeKinds
<1> HIDE DEF blocks
<1>9. /\ blocks \in Seq(Block) /\ Len(blocks) = n - 1
      /\ \A i \in 1 .. n - 1 : blocks[i] = g.blocks[i]
  <2>1. n - 1 \in 0 .. n
    BY <1>1
  <2>2. blocks \in Seq(Block)
    BY <1>1, <1>5, <2>1
  <2>3. Len(blocks) = n - 1
    BY <1>1, <1>5, <2>1, SubSeqProperties
  <2>4. \A i \in 1 .. n - 1 : blocks[i] = g.blocks[i]
    BY <1>1, <1>5
  <2> QED
    BY <2>2, <2>3, <2>4
<1>10. IsPosition(h)
  <2>1. h.storage \in {"none", "typedef", "static", "extern", "virtual"}
    BY <1>4, <1>7, <1>8 DEF BlockKinds
  <2>2. h.head \in TypeKinds \union {"none"} /\ h.after \in {"end", "namespace", "using"}
    BY <1>4, <1>7, <1>8 DEF BlockKinds
  <2> QED
    BY <1>6, <1>9, <2>1, <2>2 DEF IsPosition, blocks
<1> HIDE DEF n, k
<1>11. Nested(blocks)
  <2> SUFFICES ASSUME NEW i \in 1 .. Len(blocks)
               PROVE  /\ blocks[i].kind \in {"namespace", "linkage"} => blocks[i].storage = "none"
                      /\ i < Len(blocks) => blocks[i].kind # "enum"
                      /\ blocks[i].kind \notin {"class", "struct", "union"} => blocks[i].access = "undef"
                      /\ \A j \in 1 .. i - 1 :
                           /\ blocks[i].kind = "namespace" => blocks[j].kind \in {"namespace", "linkage"}
                           /\ blocks[i].kind = "linkage" => blocks[j].kind = "linkage"
    BY DEF Nested
  <2>1. i \in 1 .. n - 1 /\ i \in 1 .. n /\ i < n /\ \A j \in 1 .. i - 1 : j \in 1 .. n - 1
    BY <1>1, <1>9
  <2>2. /\ g.blocks[i].kind \in {"namespace", "linkage"} => g.blocks[i].storage = "none"
        /\ i < n => g.blocks[i].kind # "enum"
        /\ g.blocks[i].kind \notin {"class", "struct", "union"} => g.blocks[i].access = "undef"
        /\ \A j \in 1 .. i - 1 :
             /\ g.blocks[i].kind = "namespace" => g.blocks[j].kind \in {"namespace", "linkage"}
             /\ g.blocks[i].kind = "linkage" => g.blocks[j].kind = "linkage"
    BY <2>1 DEF Nested, n
  <2> QED
    BY <1>9, <2>1, <2>2
<1>12. /\ Top(h).access = AccessIn(g.blocks, n - 1) /\ Top(h).kind # "enum"
       /\ k = "namespace" => ~ ClassLike(h)
  <2>1. CASE n - 1 = 0
    <3>1. h.blocks = << >>
      BY <1>9, <2>1 DEF blocks
    <3>2. Top(h).kind = "file" /\ Top(h).access = "undef"
      BY <3>1 DEF Top
    <3> QED
      BY <2>1, <3>2 DEF AccessIn, ClassLike
  <2>2. CASE n - 1 # 0
    <3>1. n - 1 \in 1 .. n - 1 /\ n - 1 \in 1 .. n /\ n - 1 < n
      BY <1>1, <2>2
    <3>2. h.blocks # << >> /\ Len(h.blocks) = n - 1
      BY <1>9, <2>2 DEF blocks
    <3>3. Top(h) = h.blocks[n - 1]
      BY <3>2 DEF Top
    <3>4. Top(h) = g.blocks[n - 1]
      BY <1>9, <3>1, <3>3 DEF blocks
    <3>5. g.blocks[n - 1].kind # "enum"
      BY <3>1 DEF Nested, n
    <3>6. k = "namespace" => g.blocks[n - 1].kind \in {"namespace", "linkage"}
      BY <1>1, <1>2, <3>1 DEF Nested, n, k
    <3> QED
      BY <2>2, <3>4, <3>5, <3>6 DEF AccessIn, ClassLike
  <2> QED
    BY <2>1, <2>2
<1>13. k \in {"namespace", "linkage"} => Top(g).storage = "none"
  BY <1>1, <1>2 DEF Nested, n, k
<1>14. /\ k = "namespace" => ~ Specified(h)
       /\ k = "linkage" => ~ Specified(h)
  BY <1>6, <1>7 DEF Specified
<1>15. h.storage # "virtual"
  BY <1>4, <1>7, <1>8 DEF BlockKinds
<1> QED
  BY <1>1, <1>2, <1>4, <1>6, <1>7, <1>8, <1>9, <1>10, <1>11, <1>12, <1>13, <1>14, <1>15
     DEF n, k, blocks

\* The statement of the block leaves the ones around the innermost.
LEMMA EnclosingFewer ==
  ASSUME NEW blocks, NEW fewer, NEW up, NEW n \in Nat, n = Len(blocks), n # 0,
         Enclosing(blocks, up), Len(fewer) = n - 1, \A i \in 1 .. n - 1 : fewer[i] = blocks[i]
  PROVE  /\ Enclosing(fewer, Around(up)) /\ Encloses(blocks, n, up[Len(up)])
         /\ up # << >> /\ IsSequence(up)
<1>1. IsSequence(up) /\ Len(up) = n /\ \A i \in 1 .. n : Encloses(blocks, i, up[i])
  BY DEF Enclosing
<1>2. /\ IsSequence(Around(up)) /\ Len(Around(up)) = n - 1
      /\ \A i \in 1 .. n - 1 : Around(up)[i] = up[i]
  BY <1>1, FrontIs
<1>3. ASSUME NEW i \in 1 .. n - 1 PROVE Encloses(fewer, i, Around(up)[i])
  <2>1. i \in 1 .. n /\ (i - 1 = 0 \/ i - 1 \in 1 .. n - 1)
    OBVIOUS
  <2>2. AccessIn(fewer, i - 1) = AccessIn(blocks, i - 1)
    BY <2>1 DEF AccessIn
  <2>3. Encloses(blocks, i, Around(up)[i]) /\ fewer[i] = blocks[i]
    BY <1>1, <1>2, <2>1
  <2> QED
    BY <2>2, <2>3 DEF Encloses
<1>4. Encloses(blocks, n, up[Len(up)])
  BY <1>1
<1>5. up # << >>
  BY <1>1
<1> QED
  BY <1>1, <1>2, <1>3, <1>4, <1>5 DEF Enclosing

\* The end of nest, in the statement of the block.
LEMMA BlockLeft ==
  ASSUME NEW g, NEW up, NEW st, Reading(g, up, st), g.blocks # << >>,
         createTags(Punct(Closing)), NEW h, h = Leaving(g)
  PROVE  Served(h)
<1> DEFINE n == Len(g.blocks)
           k == Top(g).kind
           rest == Around(up)
           outer == up[Len(up)]
           x == setToken(st, Closing)
           y == setToken(advanceToken(outer), Closing)
<1>1. /\ IsPosition(g) /\ Enclosing(g.blocks, up) /\ Nested(g.blocks) /\ IsStatement(st)
  BY DEF Reading, Matches, Common
<1>2. /\ IsPosition(h) /\ h.made = {} /\ ~ h.listed
      /\ n \in Nat /\ n \in 1 .. n /\ Top(g) = g.blocks[n] /\ k \in BlockKinds
      /\ Len(h.blocks) = n - 1 /\ Nested(h.blocks)
      /\ \A i \in 1 .. n - 1 : h.blocks[i] = g.blocks[i]
      /\ Top(h).access = AccessIn(g.blocks, n - 1) /\ Top(h).kind # "enum"
      /\ k = "namespace" => /\ h.at = "start" /\ h.after = "namespace" /\ ~ ClassLike(h)
                            /\ ~ Specified(h) /\ h.storage = "none"
      /\ k = "linkage" => /\ h.at = "start" /\ h.after = "end"
                          /\ ~ Specified(h) /\ h.storage = "none"
      /\ k \in TypeKinds => /\ h.at = "closed" /\ h.storage = Top(g).storage
                            /\ h.head = k /\ h.storage # "virtual"
      /\ k \in {"namespace", "linkage"} => Top(g).storage = "none"
  BY <1>1, Left
<1>3. /\ Enclosing(h.blocks, rest) /\ Encloses(g.blocks, n, outer)
      /\ up # << >> /\ IsSequence(up)
  <2> DEFINE blocks == g.blocks
             fewer == h.blocks
  <2>1. /\ n \in Nat /\ n = Len(blocks) /\ n # 0 /\ Enclosing(blocks, up)
        /\ Len(fewer) = n - 1 /\ \A i \in 1 .. n - 1 : fewer[i] = blocks[i]
    BY <1>1, <1>2
  <2> HIDE DEF blocks, fewer, n
  <2>2. /\ Enclosing(fewer, Around(up)) /\ Encloses(blocks, n, up[Len(up)])
        /\ up # << >> /\ IsSequence(up)
    BY <2>1, EnclosingFewer
  <2> QED
    BY <2>2 DEF blocks, fewer
<1>4. CloseBlock(Read(x), up) /\ exception = "running"
  <2>1. IsStatement(x) /\ active(x).type = Closing
    BY <1>1, TokenSet, TokensAre
  <2>2. up = Around(statements) /\ Read(x) = nextToken(Innermost(statements), up, Punct(Closing))
    BY PunctRead DEF Reading
  <2>3. Read(x).st = x /\ Read(x).exc = "none"
    BY ReadIs
  <2> HIDE DEF x
  <2> QED
    BY <2>1, <2>2, <2>3, Outcome DEF createTags
<1> HIDE DEF x, rest, outer
<1>5. tags' = {} /\ AfterBlock(outer, rest) /\ exception' = "running"
  BY <1>3, <1>4 DEF CloseBlock, rest, outer, Around
<1>6. /\ IsStatement(outer) /\ Plain(outer)
      /\ outer.declaration = (IF k = "linkage" THEN "nomangle" ELSE k)
      /\ outer.scope = ScopeOf(Top(g).storage) /\ outer.implementation = "default"
      /\ outer.access = Top(h).access /\ outer.accessDefault = Top(h).access
      /\ ~ outer.gotParenName /\ ~ outer.gotArgs /\ ~ outer.isPointer
      /\ outer.context = << >>
  <2>1. Encloses(g.blocks, n, outer)
    BY <1>3
  <2>2. g.blocks[n].kind = k /\ g.blocks[n].storage = Top(g).storage
    BY <1>2
  <2> QED
    BY <1>2, <2>1, <2>2 DEF Encloses
<1>7. IsStatement(y) /\ Agree(y, outer, {"token"}) /\ active(y) = Mark(Closing)
  <2> DEFINE z == advanceToken(outer)
  <2>1. IsStatement(z) /\ Agree(z, outer, {"token"})
    BY <1>6, Advanced
  <2> HIDE DEF z
  <2>2. IsStatement(setToken(z, Closing)) /\ Agree(setToken(z, Closing), z, {"token"})
        /\ active(setToken(z, Closing)) = Mark(Closing)
    BY <2>1, TokenSet
  <2>3. y = setToken(z, Closing)
    BY DEF z
  <2> HIDE DEF y
  <2> QED
    BY <2>1, <2>2, <2>3 DEF Agree
<1>8. Continue(y, rest)
  BY <1>5 DEF AfterBlock, Closing
<1> HIDE DEF y
<1>9. /\ Plain(y) /\ y.declaration = (IF k = "linkage" THEN "nomangle" ELSE k)
      /\ y.scope = ScopeOf(Top(g).storage) /\ y.implementation = "default"
      /\ y.access = Top(h).access /\ y.accessDefault = Top(h).access
      /\ ~ y.gotParenName /\ ~ y.gotArgs /\ ~ y.isPointer
      /\ y.context = << >>
  BY <1>6, <1>7 DEF Agree, Fields, Plain
<1>10. active(y).type = "}" /\ active(y).type # "," /\ active(y).type # ";"
  <2>1. active(y).type = Closing
    BY <1>7, TokensAre
  <2> QED
    BY <2>1 DEF Closing
<1>11. CASE k = "linkage"
  <2> DEFINE t == reinitStatement(y, rest, FALSE)
  <2>1. isStatementEnd(y)
    BY <1>9, <1>10, <1>11 DEF isStatementEnd, isContextualDecl, ContextualKeywords
  <2>2. Goes(rest, t, {}) /\ ~ resolveRequired'
    <3>1. checkStatementEnd(y, rest) = [st |-> t, required |-> FALSE]
      BY <1>10, <2>1 DEF checkStatementEnd
    <3>2. checkStatementEnd(y, rest).st = t /\ ~ checkStatementEnd(y, rest).required
      BY <3>1
    <3> HIDE DEF t
    <3> QED
      BY <1>5, <1>8, <3>2 DEF Continue, Goes
  <2>7. IsPosition(h) /\ Enclosing(h.blocks, rest) /\ IsStatement(y)
    BY <1>2, <1>3, <1>7
  <2>3. Anew(h, t) /\ t.access = y.accessDefault /\ t.accessDefault = y.accessDefault
    BY <2>7, Reinit, ZenonT(60)
  <2> HIDE DEF t
  <2>4. Common(h, t)
    BY <1>2, <1>9, <1>11, <2>3 DEF Common, Anew, Qualifieds, active, ScopeOf
  <2>5. AtStart(h, t)
    BY <1>2, <1>11, <2>3 DEF AtStart, Anew
  <2>6. Matches(h, t)
    BY <1>2, <1>11, <2>4, <2>5 DEF Matches, Placed, Enumerated, Places
  <2> QED
    BY <1>2, <1>3, <2>2, <2>6, Arrives, Included0
<1>12. CASE k # "linkage"
  <2> DEFINE t == advanceToken(y)
  <2>1. ~ isStatementEnd(y)
    BY <1>2, <1>9, <1>10, <1>12
       DEF isStatementEnd, isContextualDecl, ContextualKeywords, BlockKinds, TypeKinds
  <2>2. Goes(rest, t, {})
    <3>1. checkStatementEnd(y, rest) = [st |-> t, required |-> TRUE]
      BY <1>10, <2>1 DEF checkStatementEnd
    <3>2. checkStatementEnd(y, rest).st = t
      BY <3>1
    <3> HIDE DEF t
    <3> QED
      BY <1>5, <1>8, <3>2 DEF Continue, Goes
  <2>3. /\ IsStatement(t) /\ Agree(t, y, {"token"})
        /\ active(t) = None /\ prev(t) = Mark(Closing)
    BY <1>7, Advanced
  <2> HIDE DEF t
  <2>4. /\ Plain(t) /\ t.declaration = k
        /\ t.scope = ScopeOf(Top(g).storage) /\ t.implementation = "default"
        /\ t.access = Top(h).access /\ t.accessDefault = Top(h).access
        /\ ~ t.gotParenName /\ ~ t.gotArgs /\ ~ t.isPointer
        /\ t.context = << >>
    BY <1>9, <1>12, <2>3 DEF Agree, Fields, Plain
  <2>5. CASE k = "namespace"
    <3>1. Common(h, t)
      BY <1>2, <2>3, <2>4, <2>5 DEF Common, Qualifieds, active
    <3>2. AtStart(h, t)
      BY <1>2, <2>3, <2>4, <2>5 DEF AtStart
    <3>3. Matches(h, t)
      BY <1>2, <2>5, <3>1, <3>2 DEF Matches, Placed, Enumerated, Places
    <3> QED
      BY <1>2, <1>3, <2>2, <2>5, <3>3, Arrives, Included0
  <2>6. CASE k # "namespace"
    <3>0. k \in TypeKinds /\ h.at = "closed" /\ h.storage = Top(g).storage
          /\ h.head = k /\ h.storage # "virtual"
      BY <1>2, <1>12, <2>6 DEF BlockKinds
    <3>1. Common(h, t)
      BY <2>3, <2>4, <3>0 DEF Common, Qualifieds, active
    <3>2. AtHead(h, t) /\ prev(t) = Mark(Closing)
      BY <1>2, <2>3, <2>4, <3>0 DEF AtHead, TypeKinds
    <3>3. Matches(h, t)
      BY <1>2, <3>0, <3>1, <3>2 DEF Matches, Placed, Enumerated, Places
    <3> QED
      BY <1>2, <1>3, <2>2, <3>0, <3>3, Arrives, Included0
  <2> QED
    BY <2>5, <2>6
<1> QED
  BY <1>11, <1>12

-------------------------------------------------------------------------------
(* Sources that end or break off                                           *)

LEMMA GaveUp ==
  ASSUME NEW g, IsPosition(g), NEW exc \in Broken, GivesUp(exc), NEW h, h = Going(g, exc, {})
  PROVE  Served(h)
<1>1. h.at = exc /\ h.made = {}
  BY Moved
<1> QED
  BY <1>1, Included0 DEF Served, GivesUp, Broken

\* A lexeme nextToken leaves at.
LEMMA Thrown ==
  ASSUME NEW g, NEW up, NEW st, Reading(g, up, st), NEW lx, createTags(lx),
         NEW x, NEW exc \in Broken, nextToken(st, up, lx) = Throw(x, exc),
         NEW h, h = Going(g, exc, {})
  PROVE  Served(h)
<1>1. Throw(x, exc).exc = exc /\ exc # "none"
  BY ReadIs DEF Broken
<1>2. up = Around(statements) /\ Throw(x, exc) = nextToken(Innermost(statements), up, lx)
  BY DEF Reading
<1>3. GivesUp(exc)
  BY <1>1, <1>2, Outcome
<1> QED
  BY <1>3, GaveUp DEF Reading

LEMMA EndOfFile ==
  ASSUME NEW g, NEW up, NEW st, Reading(g, up, st), createTags(Eof),
         NEW h, h = Going(g, "eof", {})
  PROVE  Served(h)
<1>1. nextToken(st, up, Eof) = Throw(st, "eof")
  BY DEF nextToken, Eof
<1> QED
  BY <1>1, Thrown DEF Broken

LEMMA BracketBreaks ==
  ASSUME NEW g, NEW up, NEW st, Reading(g, up, st), createTags(Unclosed("[")),
         NEW h, h = Going(g, "format", {})
  PROVE  Served(h)
<1>1. nextToken(st, up, Unclosed("[")) = Throw(st, "format")
  <2>1. Unclosed("[").t = "unclosed" /\ Unclosed("[").w # Opening
    BY DEF Unclosed, Opening
  <2> QED
    BY <2>1 DEF nextToken, Opening
<1> QED
  BY <1>1, Thrown DEF Broken

\* skipInitializer at the end of the file.
LEMMA ValueBreaks ==
  ASSUME NEW g, NEW up, NEW st, Reading(g, up, st), createTags(Value("eof")),
         NEW h, h = Going(g, "format", {})
  PROVE  Served(h)
<1>1. nextToken(st, up, Value("eof")) = Throw(st, "format")
  <2>1. nextToken(st, up, Value("eof")) = processInitializer(st, up, Value("eof"))
    BY DEF nextToken, Value
  <2>2. Value("eof").rest = "eof"
    BY DEF Value
  <2>3. processInitializer(st, up, Value("eof")) = Throw(st, "format")
    BY <2>2 DEF processInitializer
  <2> QED
    BY <2>1, <2>3
<1> QED
  BY <1>1, Thrown DEF Broken

\* In the first pass a closing brace in an initializer is an error.
LEMMA BraceBreaks ==
  ASSUME NEW g, NEW up, NEW st, Reading(g, up, st), g.at = "name", passCount \in {0, 1},
         createTags(Value(Closing)), NEW h, h = Going(g, "brace", {})
  PROVE  Served(h)
<1>1. nextToken(st, up, Value(Closing)) = Throw(st, "brace")
  <2>1. nextToken(st, up, Value(Closing)) = processInitializer(st, up, Value(Closing))
    BY DEF nextToken, Value
  <2>2. Value(Closing).rest = Closing
    BY DEF Value
  <2>3. ~ insideEnumBody(up) /\ ~ isBraceFormat
    <3>1. IsPosition(g) /\ Enclosing(g.blocks, up) /\ Top(g).kind # "enum"
      BY DEF Reading, Matches, Enumerated
    <3>2. ~ insideEnumBody(up)
      BY <3>1, Surroundings
    <3>3. ~ isBraceFormat
      BY DEF isBraceFormat
    <3> QED
      BY <3>2, <3>3
  <2>4. Closing = "}" /\ Closing # "eof"
    BY DEF Closing
  <2>5. processInitializer(st, up, Value(Closing)) = Throw(st, "brace")
    BY <2>2, <2>3, <2>4 DEF processInitializer
  <2> QED
    BY <2>1, <2>5
<1> QED
  BY <1>1, Thrown DEF Broken

\* skipPostArgumentStuff at the end of the file.
LEMMA ArgsBreak ==
  ASSUME NEW g, NEW up, NEW st, Reading(g, up, st), g.at = "name", g.storage # "typedef",
         NEW shape \in {"empty", "typed", "single"}, createTags(Paren(shape, "eof", "eof")),
         NEW h, h = Going(g, "format", {})
  PROVE  Served(h)
<1> DEFINE lx == Paren(shape, "eof", "eof")
           info == parenInfo(shape)
           x == Doubted(st)
           t == advanceToken([setToken(x, "args") EXCEPT !.gotArgs = TRUE])
<1>1. /\ IsPosition(g) /\ Matches(g, st) /\ Common(g, st) /\ IsStatement(st) /\ Plain(st)
  BY DEF Reading, Matches, Common
<1>2. /\ st.haveQualifyingName /\ st.declaration # "none" /\ prev(st).type # "none"
  BY <1>1, BeforeArgsIs, TokensAre DEF BeforeArgs
<1>3. ~ st.gotArgs /\ st.scope # "typedef"
  BY <1>1 DEF Common, ScopeOf
<1>4. /\ lx.t = "paren" /\ lx.shape = shape /\ lx.next = "eof"
  BY ParenIs
<1>5. /\ info.invalidContents = FALSE /\ info.isParamList
  BY DEF parenInfo
<1>6. ~ x.gotArgs /\ x.haveQualifyingName /\ x.declaration # "none"
  <2>1. Agree(x, st, {"notVariable"})
    BY <1>1, DoubtedIs
  <2> HIDE DEF x
  <2> QED
    BY <1>2, <1>3, <2>1 DEF Agree, Fields
<1> HIDE DEF lx, info, x
<1>7. ~ DeclaresName(x, info, "eof")
  BY <1>5, <1>6 DEF DeclaresName
<1>8. nextToken(st, up, lx) = Throw(setToken(t, "none"), "format")
  <2>1. nextToken(st, up, lx) = analyzeParens(st, up, lx)
    BY <1>4 DEF nextToken
  <2>2. analyzeParens(st, up, lx) = analyzePostParens(t, up, info, lx)
    <3> DEFINE read == IF shape = "macro" THEN skipMacro(x) ELSE x
    <3>1. read = x
      OBVIOUS
    <3> HIDE DEF read
    <3>2. analyzeParens(st, up, lx) =
            IF prev(st).type = "none" THEN Ungrouped(x, info, lx)
            ELSE IF info.invalidContents THEN PutBack(reinitStatement(read, up, FALSE), "eof")
            ELSE IF DeclaresName(read, info, "eof")
              THEN PutBack([ ReadName(read, lx.w) EXCEPT !.context = read.context,
                               !.gotParenName = TRUE, !.isPointer = info.isPointer ], "eof")
            ELSE IF ~ read.gotArgs /\ info.isParamList
              THEN IF st.scope = "typedef"
                     THEN PutBack(advanceToken([setToken(read, "args") EXCEPT !.gotArgs = TRUE]), "eof")
                     ELSE analyzePostParens(
                            advanceToken([setToken(read, "args") EXCEPT !.gotArgs = TRUE]), up, info, lx)
            ELSE PutBack(setToken(read, "none"), "eof")
      BY <1>4 DEF analyzeParens, Doubted, x, info, read
    <3>3. advanceToken([setToken(read, "args") EXCEPT !.gotArgs = TRUE]) = t
      BY <3>1 DEF t
    <3> QED
      BY <1>2, <1>3, <1>5, <1>6, <1>7, <3>1, <3>2, <3>3
  <2> HIDE DEF t
  <2>4. analyzePostParens(t, up, info, lx) = skipPostArgumentStuff(t, up, info, lx)
    BY <1>4 DEF analyzePostParens
  <2>5. skipPostArgumentStuff(t, up, info, lx) = Throw(setToken(t, "none"), "format")
    BY <1>4 DEF skipPostArgumentStuff
  <2> QED
    BY <2>1, <2>2, <2>4, <2>5
<1> HIDE DEF t
<1> QED
  BY <1>8, Thrown DEF Broken, lx

\* A brace that closes nothing.
LEMMA NothingLeft ==
  ASSUME NEW g, NEW up, NEW st, Reading(g, up, st), g.blocks = << >>,
         createTags(Punct(Closing)), NEW h, h = Going(g, "brace", {})
  PROVE  Served(h)
<1> DEFINE x == setToken(st, Closing)
<1>1. IsPosition(g) /\ Enclosing(g.blocks, up) /\ IsStatement(st)
  BY DEF Reading, Matches, Common
<1>2. CloseBlock(Read(x), up)
  <2>1. IsStatement(x) /\ active(x).type = Closing
    BY <1>1, TokenSet, TokensAre
  <2>2. up = Around(statements) /\ Read(x) = nextToken(Innermost(statements), up, Punct(Closing))
    BY PunctRead DEF Reading
  <2>3. Read(x).st = x /\ Read(x).exc = "none"
    BY ReadIs
  <2> HIDE DEF x
  <2> QED
    BY <2>1, <2>2, <2>3, Outcome
<1>3. up = << >>
  BY <1>1, Surroundings
<1>4. GivesUp("brace")
  BY <1>2, <1>3 DEF CloseBlock, Leaves, GivesUp
<1> QED
  BY <1>1, <1>4, GaveUp DEF Broken

-------------------------------------------------------------------------------
(* Every continuation of a source is served                                *)

\* A lexeme and the position after it.
Step(lx, h) == [lexeme |-> lx, then |-> h]

Serves(steps) == \A s \in steps : createTags(s.lexeme) => Served(s.then)

LEMMA StepIs ==
  ASSUME NEW lx, NEW h
  PROVE  Step(lx, h).lexeme = lx /\ Step(lx, h).then = h
BY DEF Step

LEMMA ServesOne ==
  ASSUME NEW lx, NEW h, createTags(lx) => Served(h)
  PROVE  Serves({Step(lx, h)})
BY StepIs DEF Serves

LEMMA ServesNone == Serves({})
BY DEF Serves

LEMMA ServesBoth ==
  ASSUME NEW some, NEW others, Serves(some), Serves(others)
  PROVE  Serves(some \union others)
BY DEF Serves

\* Only at its three places is a position in an enumeration.
LEMMA NotEnumerated ==
  ASSUME NEW g, NEW up, NEW st, Reading(g, up, st), g.at \notin {"start", "enumerator", "last"}
  PROVE  Top(g).kind # "enum"
BY DEF Reading, Matches, Enumerated

LEMMA ServesTwo ==
  ASSUME NEW lx, NEW h, createTags(lx) => Served(h), NEW ly, NEW i, createTags(ly) => Served(i)
  PROVE  Serves({Step(lx, h), Step(ly, i)})
BY StepIs DEF Serves

LEMMA ServesIf ==
  ASSUME NEW p, NEW some, p => Serves(some)
  PROVE  Serves(IF p THEN some ELSE {})
BY DEF Serves

\* Declarators, after a type or a comma.
LEMMA DeclaratorsServed ==
  ASSUME Deviations = {}, NEW g, NEW up, NEW st, Reading(g, up, st),
         g.at \in BeforeName, g.at # "pointer"
  PROVE  Serves(Declarators(g))
<1> DEFINE named == {Step(Name(e), Going(g, "name", {})), Step(Punct("*"), Going(g, "pointer", {}))}
           grouped == {Step(Paren("pointer", "(", "("), Going(g, "fptr", {}))}
<1>1. Serves(named)
  BY NameDeclared, StarDeclared, ServesTwo
<1>2. ~ g.listed => Serves(grouped)
  BY PointerDeclared, ServesOne
<1>3. Declarators(g) = named \union (IF ~ g.listed THEN grouped ELSE {})
  <2>1. Declarators(g)
          = named \union (IF ~ g.listed \/ "pointer" \in Deviations THEN grouped ELSE {})
    BY Zenon DEF Declarators, To, Step, Going
  <2>2. (~ g.listed \/ "pointer" \in Deviations) <=> ~ g.listed
    BY Zenon
  <2> HIDE DEF named, grouped
  <2> QED
    BY <2>1, <2>2
<1> HIDE DEF named, grouped
<1> QED
  BY <1>1, <1>2, <1>3, ServesBoth, ServesIf

LEMMA QualifiedServed ==
  ASSUME NEW g, NEW up, NEW st, Reading(g, up, st), g.at \in {"type", "usertype"}
  PROVE  Serves(Qualified(g, cpp))
<1> DEFINE named == {Step(Name(B), Going(g, "qualifier", {}))}
           p == cpp /\ g.blocks = <<>> /\ ~ g.listed /\ g.storage = "none"
<1>1. p => Serves(named)
  BY QualifierRead, ServesOne
<1>2. Qualified(g, cpp) = IF p THEN named ELSE {}
  BY Zenon DEF Qualified, To, Step, Going
<1> HIDE DEF named, p
<1> QED
  BY <1>1, <1>2, ServesIf

LEMMA CallsServed ==
  ASSUME NEW g, NEW up, NEW st, Reading(g, up, st), g.at = "usertype"
  PROVE  Serves(Calls(g))
<1>1. \A s \in {"value", "macro", "typed"} :
        createTags(Paren(s, Semicolon, Semicolon)) => Served(Going(g, "call", {}))
  BY CallRead
<1>2. Calls(g) = { Step(Paren(s, Semicolon, Semicolon), Going(g, "call", {})) :
                     s \in {"value", "macro", "typed"} }
  BY Zenon DEF Calls, To, Step, Going, Semicolon
<1> QED
  BY <1>1, <1>2, StepIs DEF Serves

LEMMA FinishesServed ==
  ASSUME NEW g, NEW up, NEW st, Reading(g, up, st), g.at \in {"start", "closed", "call"}
  PROVE  Serves(Finishes(g))
<1>1. Finishes(g) = {Step(Punct(Semicolon), Ending(g, {}))}
  BY Zenon DEF Finishes, To, Step, Ending, Semicolon
<1>2. createTags(Punct(Semicolon)) => Served(Ending(g, {}))
  BY StartEnds, CallEnds
<1> QED
  BY <1>1, <1>2, ServesOne

LEMMA ClosesServed ==
  ASSUME NEW g, NEW up, NEW st, Reading(g, up, st), g.blocks # << >>
  PROVE  Serves(Closes(g))
<1>1. Closes(g) = {Step(Punct(Closing), Leaving(g))}
  BY Zenon DEF Closes, To, Step, Leaving, Closing
<1>2. createTags(Punct(Closing)) => Served(Leaving(g))
  BY BlockLeft
<1> QED
  BY <1>1, <1>2, ServesOne

LEMMA PunctEnds ==
  ASSUME NEW g, NEW up, NEW st, Reading(g, up, st), g.at \in AtEnd
  PROVE  /\ createTags(Punct(Semicolon)) => Served(Ending(g, EndTags(g)))
         /\ createTags(Punct(Comma)) => Served(Listing(g, EndTags(g)))
<1>1. /\ nextToken(st, up, Punct(Semicolon)) = Read(setToken(st, Semicolon))
      /\ nextToken(st, up, Punct(Comma)) = Read(setToken(st, Comma))
  BY PunctRead
<1>2. Comma # Semicolon
  BY Zenon DEF Comma, Semicolon
<1>3. ASSUME createTags(Punct(Semicolon))
      PROVE  Served(Ending(g, EndTags(g)))
  BY <1>1, <1>3, EndRead
<1>4. ASSUME createTags(Punct(Comma))
      PROVE  Served(Listing(g, EndTags(g)))
  BY <1>1, <1>2, <1>4, EndRead
<1> QED
  BY <1>3, <1>4

LEMMA EndsServed ==
  ASSUME NEW g, NEW up, NEW st, Reading(g, up, st), g.at \in {"name", "fargs"}
  PROVE  Serves(Ends(g))
<1>1. Ends(g) = { Step(Punct(Semicolon), Ending(g, VariableTags(g))),
                  Step(Punct(Comma), Listing(g, VariableTags(g))) }
  BY Zenon DEF Ends, Making, Step, Ending, Listing, Semicolon, Comma
<1>2. g.at \in AtEnd /\ EndTags(g) = VariableTags(g)
  BY DEF AtEnd, EndTags
<1>3. createTags(Punct(Semicolon)) => Served(Ending(g, VariableTags(g)))
  BY <1>2, PunctEnds
<1>4. createTags(Punct(Comma)) => Served(Listing(g, VariableTags(g)))
  BY <1>2, PunctEnds
<1> QED
  BY <1>1, <1>3, <1>4, ServesTwo

\* processInitializer keeps no storage class "extern".
LEMMA ValuesServed ==
  ASSUME Deviations = {}, NEW g, NEW up, NEW st, Reading(g, up, st), g.at = "name"
  PROVE  Serves(Values(g))
<1> DEFINE tagged == VariableTags(Initialized(g))
           ended  == {Step(Value(Semicolon), Ending(g, tagged))}
           listed == {Step(Value(Comma), Listing(g, tagged))}
<1>1. Values(g) = IF g.storage = "typedef" THEN {}
                  ELSE ended \union (IF g.storage # "extern" \/ "extern" \in Deviations
                                       THEN listed ELSE {})
  BY Zenon DEF Values, Making, Step, Ending, Listing, Semicolon, Comma
<1>2. Comma # Semicolon
  BY Zenon DEF Comma, Semicolon
<1>3. g.storage # "typedef" => Serves(ended)
  BY <1>2, ValueEnds, ServesOne
<1>4. g.storage # "typedef" /\ g.storage # "extern" => Serves(listed)
  BY <1>2, ValueEnds, ServesOne
<1> HIDE DEF ended, listed
<1> QED
  BY <1>1, <1>3, <1>4, ServesNone, ServesBoth, ServesIf

LEMMA BitFieldsServed ==
  ASSUME Deviations = {}, NEW g, NEW up, NEW st, Reading(g, up, st), g.at = "name"
  PROVE  Serves(BitFields(g))
<1> DEFINE p == /\ g.storage = "none" /\ g.head \in {"none", "enum"}
                /\ ClassLike(g) /\ (Top(g).kind = "struct" \/ "bits" \in Deviations)
           fields == { Step(Colon(Semicolon), Ending(g, VariableTags(g))),
                       Step(Colon(Comma), Listing(g, VariableTags(g))) }
<1>1. BitFields(g) = IF p THEN fields ELSE {}
  BY Zenon DEF BitFields, Making, Step, Ending, Listing, Semicolon, Comma
<1>2. EndTags(g) = VariableTags(g)
  BY DEF EndTags
<1>3. Comma # Semicolon
  BY Zenon DEF Comma, Semicolon
<1>4. p => g.head \in {"none", "enum"} /\ Top(g).kind = "struct"
  OBVIOUS
<1> HIDE DEF p
<1>5. p /\ createTags(Colon(Semicolon)) => Served(Ending(g, VariableTags(g)))
  BY <1>2, <1>4, BitFieldEnds
<1>6. p /\ createTags(Colon(Comma)) => Served(Listing(g, VariableTags(g)))
  BY <1>2, <1>3, <1>4, BitFieldEnds
<1>7. p => Serves(fields)
  BY <1>5, <1>6, ServesTwo
<1> HIDE DEF fields
<1> QED
  BY <1>1, <1>7, ServesIf

\* Groups of parameters.
LEMMA GroupsServed ==
  ASSUME NEW g, NEW up, NEW st, Reading(g, up, st), g.at \in BeforeArgs,
         NEW next, NEW to, next \in {to, "const", ":"}, to \in {Semicolon, Comma, Opening},
         g.at = "ctor" => to # Comma
  PROVE  Serves(Groups(g, AfterArgs(g.at), next, to))
<1> DEFINE at == AfterArgs(g.at)
<1>1. Groups(g, at, next, to) = {Step(Paren(s, next, to), GoingBefore(g, at, to)) : s \in Shapes}
  BY Zenon DEF Groups, To, Step, GoingBefore
<1>2. to # "=" /\ to # "eof"
  <2>1. /\ Semicolon # "=" /\ Comma # "=" /\ Opening # "="
        /\ Semicolon # "eof" /\ Comma # "eof" /\ Opening # "eof"
    BY Zenon DEF Semicolon, Comma, Opening
  <2> QED
    BY <2>1
<1>3. ASSUME NEW s \in Shapes, createTags(Paren(s, next, to))
      PROVE  Served(GoingBefore(g, at, to))
  <2>1. s \in {"empty", "typed", "single"}
    BY DeclarationsAssumption
  <2>2. Followed(g, s, next, to)
    BY <1>2 DEF Followed
  <2> QED
    BY <1>2, <1>3, <2>1, <2>2, GroupFollows
<1> HIDE DEF at
<1> QED
  BY <1>1, <1>3, StepIs DEF Serves, at

\* The parameters of a function.
LEMMA ParametersServed ==
  ASSUME Deviations = {}, NEW g, NEW up, NEW st, Reading(g, up, st), g.at = "name"
  PROVE  Serves(Parameters(g, cpp))
<1> DEFINE Some(next, to) == Groups(g, "args", next, to)
           decls == {Step(Paren("single", "decls", Opening), GoingBefore(g, "args", Opening))}
           p == cpp /\ ClassLike(g) /\ g.storage # "typedef"
           q == ~ cpp /\ ~ g.listed /\ g.storage # "typedef" /\ "single" \in Shapes
           r == g.storage = "virtual" /\ (~ g.listed \/ "virtual" \in Deviations)
<1>1. Parameters(g, cpp)
        = Some(Semicolon, Semicolon) \union Some(Comma, Comma)
          \union (IF g.listed \/ g.storage = "typedef" THEN {} ELSE Some(Opening, Opening))
          \union (IF p THEN Some("const", Semicolon)
                              \union (IF g.listed THEN {} ELSE Some("const", Opening)) ELSE {})
          \union (IF q THEN decls ELSE {}) \union (IF r THEN Some("=", "=") ELSE {})
  BY Zenon DEF Parameters, To, Step, GoingBefore, Semicolon, Comma, Opening
<1>2. g.at \in BeforeArgs /\ AfterArgs(g.at) = "args" /\ g.at # "ctor"
  BY AfterArgsIs DEF BeforeArgs
<1>3. \A to \in {Semicolon, Comma, Opening} : Serves(Some(to, to)) /\ Serves(Some("const", to))
  BY <1>2, GroupsServed
<1>4. q => Serves(decls)
  <2>1. Opening # "=" /\ Opening # "eof"
    BY Zenon DEF Opening
  <2>2. ASSUME q, createTags(Paren("single", "decls", Opening))
        PROVE  Served(GoingBefore(g, "args", Opening))
    <3>1. Followed(g, "single", "decls", Opening)
      BY <2>1, <2>2 DEF Followed
    <3> QED
      BY <1>2, <2>1, <2>2, <3>1, GroupFollows
  <2> QED
    BY <2>2, ServesOne
<1>5. r => Serves(Some("=", "="))
  <2>1. Some("=", "=") = {Step(Paren(s, "=", "="), GoingBefore(g, "args", "=")) : s \in Shapes}
    BY Zenon DEF Groups, To, Step, GoingBefore
  <2>2. ASSUME r, NEW s \in Shapes, createTags(Paren(s, "=", "="))
        PROVE  Served(GoingBefore(g, "args", "="))
    <3>1. s \in {"empty", "typed", "single"}
      BY DeclarationsAssumption
    <3>2. g.storage = "virtual" /\ Followed(g, s, "=", "=")
      BY <2>2 DEF Followed
    <3> QED
      BY <1>2, <2>2, <3>1, <3>2, GroupFollows
  <2> HIDE DEF Some, r
  <2> QED
    BY <2>1, <2>2, StepIs DEF Serves
<1> HIDE DEF Some, decls, p, q, r
<1>6. Serves(Some(Semicolon, Semicolon) \union Some(Comma, Comma))
  BY <1>3, ServesBoth
<1>7. Serves(IF g.listed \/ g.storage = "typedef" THEN {} ELSE Some(Opening, Opening))
  BY <1>3, ServesNone
<1>8. Serves(IF p THEN Some("const", Semicolon)
                         \union (IF g.listed THEN {} ELSE Some("const", Opening)) ELSE {})
  BY <1>3, ServesNone, ServesBoth
<1> QED
  BY <1>1, <1>4, <1>5, <1>6, <1>7, <1>8, ServesBoth, ServesIf

\* The end of a function's declaration, or its body.
LEMMA FunctionEndsServed ==
  ASSUME "local" \in Disabled, NEW g, NEW up, NEW st, Reading(g, up, st),
         g.at \in {"args", "ctorargs"}, NEW name, name = (IF g.at = "args" THEN e ELSE B)
  PROVE  Serves(FunctionEnds(g, name))
<1> DEFINE ended  == {Step(Punct(Semicolon), Ending(g, PrototypeTags(g, name)))}
           listed == {Step(Punct(Comma), Listing(g, PrototypeTags(g, name)))}
           body   == {Step(Punct(Opening), Ending(g, Here(g, name, "function")))}
           pure   == {Step(Pure, Ending(g, PrototypeTags(g, name)))}
<1>1. FunctionEnds(g, name)
        = (IF g.next = Semicolon THEN ended ELSE {}) \union (IF g.next = Comma THEN listed ELSE {})
          \union (IF g.next = Opening THEN body ELSE {}) \union (IF g.next = "=" THEN pure ELSE {})
  BY Zenon DEF FunctionEnds, Making, Step, Ending, Listing, Semicolon, Comma, Opening
<1>2. /\ g.at \in AtEnd /\ EndTags(g) = PrototypeTags(g, name)
      /\ g.at \in BeforeBody /\ BodyTags(g) = Here(g, name, "function")
  BY DEF AtEnd, EndTags, BeforeBody, BodyTags, BodyName
<1>3. Serves(ended)
  BY <1>2, PunctEnds, ServesOne
<1>4. Serves(listed)
  BY <1>2, PunctEnds, ServesOne
<1>5. Serves(body)
  BY <1>2, BodyRead, ServesOne
<1>6. g.next = "=" => Serves(pure)
  <2>1. g.next = "=" => g.at = "args"
    BY DEF Reading, Matches, Placed
  <2> QED
    BY <2>1, PureEnds, ServesOne
<1> HIDE DEF ended, listed, body, pure
<1> QED
  BY <1>1, <1>3, <1>4, <1>5, <1>6, ServesBoth, ServesIf

\* An enumeration is a block.
LEMMA EnumeratedInside ==
  ASSUME NEW g, NEW up, NEW st, Reading(g, up, st), g.at \in {"enumerator", "last"}
  PROVE  g.blocks # << >>
<1>1. Top(g).kind = "enum"
  BY DEF Reading, Matches, Enumerated
<1>2. g.blocks = << >> => Top(g).kind = "file"
  BY Zenon DEF Top
<1> QED
  BY <1>1, <1>2

LEMMA ConstructorsServed ==
  ASSUME NEW g, NEW up, NEW st, Reading(g, up, st), g.at = "ctor"
  PROVE  Serves(Constructors(g))
<1> DEFINE Some(next, to) == Groups(g, "ctorargs", next, to)
<1>1. Constructors(g)
        = Some(Semicolon, Semicolon) \union Some(Opening, Opening) \union Some(":", Opening)
  BY Zenon DEF Constructors, Semicolon, Opening
<1>2. Semicolon # Comma /\ Opening # Comma
  BY Zenon DEF Semicolon, Comma, Opening
<1>3. g.at \in BeforeArgs /\ AfterArgs(g.at) = "ctorargs"
  BY AfterArgsIs DEF BeforeArgs
<1>4. \A to \in {Semicolon, Opening} : Serves(Some(to, to)) /\ Serves(Some(":", to))
  BY <1>2, <1>3, GroupsServed
<1> HIDE DEF Some
<1> QED
  BY <1>1, <1>4, ServesBoth

LEMMA PointerArgumentsServed ==
  ASSUME NEW g, NEW up, NEW st, Reading(g, up, st), g.at = "fptr"
  PROVE  Serves(PointerArguments(g))
<1> DEFINE Some(to) == Groups(g, "fargs", to, to)
<1>1. PointerArguments(g) = Some(Semicolon) \union Some(Comma)
  BY Zenon DEF PointerArguments, Semicolon, Comma
<1>2. g.at \in BeforeArgs /\ AfterArgs(g.at) = "fargs"
  BY AfterArgsIs DEF BeforeArgs
<1>3. \A to \in {Semicolon, Comma} : Serves(Some(to))
  BY <1>2, GroupsServed
<1> HIDE DEF Some
<1> QED
  BY <1>1, <1>3, ServesBoth

LEMMA QualifiedEndsServed ==
  ASSUME NEW g, NEW up, NEW st, Reading(g, up, st), g.at = "qualifiedname"
  PROVE  Serves(QualifiedEnds(g))
<1> DEFINE made == {Tag(e, "member", << B >>, "undef")}
           groups == {Step(Paren(s, Opening, Opening), Going(g, "qualifiedargs", {})) : s \in Shapes}
           ends   == {Step(lx, Ending(g, made)) : lx \in {Punct(Semicolon), Value(Semicolon)}}
<1>1. QualifiedEnds(g) = groups \union ends
  BY Zenon DEF QualifiedEnds, To, Making, Step, Going, Ending, Semicolon, Opening
<1>2. Shapes \subseteq {"empty", "typed", "single"}
  BY DeclarationsAssumption
<1>3. \A s \in Shapes : createTags(Paren(s, Opening, Opening)) => Served(Going(g, "qualifiedargs", {}))
  BY <1>2, QualifiedArgsRead
<1>4. \A lx \in {Punct(Semicolon), Value(Semicolon)} : createTags(lx) => Served(Ending(g, made))
  BY QualifiedEnded
<1>5. Serves(groups)
  BY <1>3, StepIs DEF Serves
<1>6. Serves(ends)
  BY <1>4, StepIs DEF Serves
<1> HIDE DEF groups, ends
<1> QED
  BY <1>1, <1>5, <1>6, ServesBoth

LEMMA QualifiedBodyServed ==
  ASSUME "local" \in Disabled, NEW g, NEW up, NEW st, Reading(g, up, st), g.at = "qualifiedargs"
  PROVE  Serves(QualifiedBody(g))
<1> DEFINE made == {Tag(e, "function", << B >>, "undef")}
<1>1. QualifiedBody(g) = {Step(Punct(Opening), Ending(g, made))}
  BY Zenon DEF QualifiedBody, Making, Step, Ending, Opening
<1>2. g.at \in BeforeBody /\ BodyTags(g) = made
  BY DEF BeforeBody, BodyTags
<1>3. createTags(Punct(Opening)) => Served(Ending(g, made))
  BY <1>2, BodyRead
<1> QED
  BY <1>1, <1>3, ServesOne

\* Blocks that are opened, with a name or without.
LEMMA OpeningServed ==
  ASSUME NEW g, NEW up, NEW st, Reading(g, up, st), g.at \in BeforeBlock
  PROVE  Serves({Step(Punct(Opening), Entering(g, BlockKind(g), BlockName(g), BlockTags(g)))})
BY BlockOpened, ServesOne

LEMMA BodiesServed ==
  ASSUME NEW g, NEW up, NEW st, Reading(g, up, st), g.at = "head"
  PROVE  Serves(Bodies(g))
<1>1. Bodies(g) = IF CanEnter(g) THEN {Step(Punct(Opening), Entering(g, g.head, Anon, {}))} ELSE {}
  BY Zenon DEF Bodies, To, Step, Entering, Opening
<1>2. /\ g.at \in BeforeBlock /\ BlockKind(g) = g.head /\ BlockName(g) = Anon /\ BlockTags(g) = {}
  BY NamesDiffer DEF BeforeBlock, BlockKind, BlockName, BlockTags
<1> QED
  BY <1>1, <1>2, OpeningServed, ServesIf

LEMMA NamedBodiesServed ==
  ASSUME NEW g, NEW up, NEW st, Reading(g, up, st), g.at \in {"headname", "bases"}
  PROVE  Serves(NamedBodies(g))
<1>1. NamedBodies(g) = IF CanEnter(g)
                         THEN {Step(Punct(Opening), Entering(g, g.head, B, Here(g, B, g.head)))}
                         ELSE {}
  BY Zenon DEF NamedBodies, Making, Step, Entering, Opening
<1>2. /\ g.at \in BeforeBlock /\ BlockKind(g) = g.head /\ BlockName(g) = B
      /\ BlockTags(g) = Here(g, B, g.head)
  BY DEF BeforeBlock, BlockKind, BlockName, BlockTags
<1> QED
  BY <1>1, <1>2, OpeningServed, ServesIf

LEMMA NamespacesServed ==
  ASSUME NEW g, NEW up, NEW st, Reading(g, up, st), g.at = "namespace"
  PROVE  Serves(Namespaces(g))
<1>1. Namespaces(g) = { Step(Name(B), Going(g, "namespacename", {})),
                        Step(Punct(Opening), Entering(g, "namespace", Anon, {})) }
  BY Zenon DEF Namespaces, To, Step, Going, Entering, Opening
<1>2. /\ g.at \in BeforeBlock /\ BlockKind(g) = "namespace" /\ BlockName(g) = Anon
      /\ BlockTags(g) = {}
  BY NamesDiffer DEF BeforeBlock, BlockKind, BlockName, BlockTags
<1>3. createTags(Name(B)) => Served(Going(g, "namespacename", {}))
  BY BlockNamed
<1>4. createTags(Punct(Opening)) => Served(Entering(g, "namespace", Anon, {}))
  BY <1>2, BlockOpened
<1> QED
  BY <1>1, <1>3, <1>4, ServesTwo

LEMMA NamedNamespacesServed ==
  ASSUME NEW g, NEW up, NEW st, Reading(g, up, st), g.at = "namespacename"
  PROVE  Serves(NamedNamespaces(g))
<1>1. NamedNamespaces(g)
        = {Step(Punct(Opening), Entering(g, "namespace", B, Here(g, B, "namespace")))}
  BY Zenon DEF NamedNamespaces, Making, Step, Entering, Opening
<1>2. /\ g.at \in BeforeBlock /\ BlockKind(g) = "namespace" /\ BlockName(g) = B
      /\ BlockTags(g) = Here(g, B, "namespace")
  BY DEF BeforeBlock, BlockKind, BlockName, BlockTags
<1> QED
  BY <1>1, <1>2, OpeningServed

LEMMA LinkageBlocksServed ==
  ASSUME NEW g, NEW up, NEW st, Reading(g, up, st), g.at = "linked"
  PROVE  Serves(LinkageBlocks(g))
<1>1. LinkageBlocks(g) = {Step(Punct(Opening), Entering(g, "linkage", Anon, {}))}
  BY Zenon DEF LinkageBlocks, To, Step, Entering, Opening
<1>2. /\ g.at \in BeforeBlock /\ BlockKind(g) = "linkage" /\ BlockName(g) = Anon /\ BlockTags(g) = {}
  BY NamesDiffer DEF BeforeBlock, BlockKind, BlockName, BlockTags
<1> QED
  BY <1>1, <1>2, OpeningServed

LEMMA BasesServed ==
  ASSUME NEW g, NEW up, NEW st, Reading(g, up, st), g.at = "headname"
  PROVE  Serves(Bases(g, cpp))
<1>1. Bases(g, cpp) = IF cpp /\ g.head \in {"class", "struct"} /\ CanEnter(g)
                        THEN {Step(Colon(Opening), Going(g, "bases", {}))} ELSE {}
  BY Zenon DEF Bases, To, Step, Going, Opening
<1> QED
  BY <1>1, BasesRead, ServesOne, ServesIf

LEMMA ForwardsServed ==
  ASSUME NEW g, NEW up, NEW st, Reading(g, up, st), g.at = "headname"
  PROVE  Serves(Forwards(g))
<1>1. Forwards(g) = IF g.storage = "none" /\ g.head # "enum"
                      THEN {Step(Punct(Semicolon), Ending(g, Bare(B, "externvar")))} ELSE {}
  BY Zenon DEF Forwards, Making, Step, Ending, Semicolon
<1> QED
  BY <1>1, ForwardEnds, ServesOne, ServesIf

LEMMA EnumeratorsServed ==
  ASSUME NEW g, NEW up, NEW st, Reading(g, up, st), g.at = "enumerator"
  PROVE  Serves(Enumerators(g))
<1> DEFINE commas == {Step(Punct(Comma), Ending(g, {})), Step(Value(Comma), Ending(g, {}))}
           last   == {Step(Value(Closing), Going(g, "last", {}))}
<1>1. \A s : s \in Enumerators(g) => s \in commas \/ s \in last \/ s \in Closes(g)
  BY Zenon DEF Enumerators, To, Step, Ending, Going, Comma, Closing
<1>2. Comma # Closing
  BY Zenon DEF Comma, Closing
<1>3. Serves(commas)
  BY EnumeratorComma, EnumeratorValue, ServesTwo
<1>4. Serves(last)
  BY <1>2, EnumeratorValue, ServesOne
<1>5. Serves(Closes(g))
  <2>1. g.blocks # << >>
    BY EnumeratedInside
  <2> QED
    BY <2>1, ClosesServed
<1> HIDE DEF commas, last
<1> QED
  BY <1>1, <1>3, <1>4, <1>5 DEF Serves

-------------------------------------------------------------------------------
(* The places of a declaration                                             *)

LEMMA TypesServed ==
  ASSUME Deviations = {}, NEW g, NEW up, NEW st, Reading(g, up, st), g.at \in BeforeType,
         Top(g).kind # "enum"
  PROVE  Serves(Types(g))
<1> DEFINE base  == {Step(Key("int"), Going(g, "type", {}))}
           at    == IF g.storage = "none" /\ FileLevel(g) THEN "usertype" ELSE "type"
           named == {Step(Name(T), Going(g, at, {}))}
           heads == {Step(Key(k), Heading(g, k)) : k \in {k \in Heads : g.storage # "virtual"}}
           p     == g.after = "end" \/ g.after \in Deviations \/ g.storage # "none"
<1>1. Types(g) = base \union (IF p THEN named ELSE {}) \union heads
  BY Zenon DEF Types, To, Step, Going, Heading
<1>2. Serves(base)
  BY IntRead, ServesOne
<1>3. p => Serves(named)
  <2>1. p => g.after = "end" \/ g.storage # "none"
    OBVIOUS
  <2> HIDE DEF p
  <2> QED
    BY <2>1, TypeNameRead, ServesOne
<1>4. Serves(heads)
  <2>1. Heads \subseteq TypeKinds
    BY DeclarationsAssumption DEF TypeKinds
  <2>2. ASSUME NEW k \in Heads, g.storage # "virtual", createTags(Key(k))
        PROVE  Served(Heading(g, k))
    BY <2>1, <2>2, HeadRead
  <2> QED
    BY <2>2, StepIs DEF Serves
<1> HIDE DEF base, named, heads, p
<1> QED
  BY <1>1, <1>2, <1>3, <1>4, ServesBoth, ServesIf

LEMMA SpecifiersServed ==
  ASSUME NEW g, NEW up, NEW st, Reading(g, up, st), g.at = "start", Top(g).kind # "enum"
  PROVE  Serves(Specifiers(g, cpp))
<1> DEFINE used == { s \in Storages :
                       /\ s = "virtual" => cpp /\ ClassLike(g)
                       /\ s = "extern" => ~ ClassLike(g)
                       /\ s = "static" => cpp \/ ~ ClassLike(g)
                       /\ s = "typedef" => cpp \/ ~ ClassLike(g) }
<1>1. Specifiers(g, cpp) = {Step(Key(s), Specifying(g, s)) : s \in used}
  BY Zenon DEF Specifiers, To, Step, Specifying
<1>2. ASSUME NEW s \in used, createTags(Key(s))
      PROVE  Served(Specifying(g, s))
  <2>1. CASE s \in {"typedef", "static", "extern"}
    BY <1>2, <2>1, StorageSpecified
  <2>2. CASE s = "virtual"
    BY <1>2, <2>2, VirtualSpecified
  <2> QED
    BY <1>2, <2>1, <2>2, DeclarationsAssumption
<1> HIDE DEF used
<1> QED
  BY <1>1, <1>2, StepIs DEF Serves

LEMMA CppOnlyServed ==
  ASSUME NEW g, NEW up, NEW st, Reading(g, up, st), g.at = "start", Top(g).kind # "enum"
  PROVE  Serves(CppOnly(g))
<1> DEFINE marks   == {Step(Access(a), Accessing(g, a)) : a \in {"private", "public"}}
           made    == {Step(Name(B), Going(g, "ctor", {}))}
           using   == {Step(Key("using"), EndingBy(g, "using"))}
           names   == {Step(Key("namespace"), Going(g, "namespace", {}))}
           linkage == {Step(Key("extern"), Going(g, "linkage", {}))}
           p == Top(g).name = B
           q == CanEnter(g)
           r == FileLevel(g) /\ CanEnter(g)
<1>1. CppOnly(g)
        = (IF ClassLike(g) THEN marks \union (IF p THEN made ELSE {})
                           ELSE using \union (IF q THEN names ELSE {}))
          \union (IF r THEN linkage ELSE {})
  BY Zenon DEF CppOnly, To, Step, Going, EndingBy, Accessing
<1>2. ClassLike(g) => Serves(marks)
  BY AccessRead, StepIs DEF Serves
<1>3. ClassLike(g) => Serves(made)
  BY ConstructorRead, ServesOne
<1>4. ~ ClassLike(g) => Serves(using)
  BY UsingRead, ServesOne
<1>5. ~ ClassLike(g) => Serves(names)
  BY NamespaceRead, ServesOne
<1>6. r => Serves(linkage)
  BY LinkageRead, ServesOne
<1> HIDE DEF marks, made, using, names, linkage, p, q, r
<1>7. ClassLike(g) => Serves(marks \union (IF p THEN made ELSE {}))
  BY <1>2, <1>3, ServesBoth, ServesIf
<1>8. ~ ClassLike(g) => Serves(using \union (IF q THEN names ELSE {}))
  BY <1>4, <1>5, ServesBoth, ServesIf
<1> QED
  BY <1>1, <1>6, <1>7, <1>8, ServesBoth, ServesIf

LEMMA StartsServed ==
  ASSUME Deviations = {}, NEW g, NEW up, NEW st, Reading(g, up, st), g.at = "start"
  PROVE  Serves(Starts(g, cpp))
<1> DEFINE member == {Step(Name(e), Going(g, "enumerator", Here(g, e, "enumerator")))}
           file   == {Step(Eof, Going(g, "eof", {}))}
           others == Types(g) \union Specifiers(g, cpp) \union (IF cpp THEN CppOnly(g) ELSE {})
                     \union Finishes(g)
<1>1. Starts(g, cpp) = (IF Top(g).kind = "enum" THEN member ELSE others)
                       \union (IF g.blocks = << >> THEN file ELSE Closes(g))
  BY Zenon DEF Starts, To, Making, Step, Going
<1>2. Top(g).kind = "enum" => Serves(member)
  BY EnumeratorRead, ServesOne
<1>3. Top(g).kind # "enum" => Serves(others)
  <2>1. g.at \in BeforeType
    BY DEF BeforeType
  <2>2. Top(g).kind # "enum" =>
          /\ Serves(Types(g)) /\ Serves(Specifiers(g, cpp)) /\ Serves(CppOnly(g))
          /\ Serves(Finishes(g))
    BY <2>1, TypesServed, SpecifiersServed, CppOnlyServed, FinishesServed
  <2> QED
    BY <2>2, ServesBoth, ServesIf
<1>4. Serves(file)
  BY EndOfFile, ServesOne
<1>5. g.blocks # << >> => Serves(Closes(g))
  BY ClosesServed
<1> HIDE DEF member, file, others
<1> QED
  BY <1>1, <1>2, <1>3, <1>4, <1>5, ServesBoth

\* What follows the name that is declared.
LEMMA NameServed ==
  ASSUME Deviations = {}, NEW g, NEW up, NEW st, Reading(g, up, st), g.at = "name"
  PROVE  Serves(Ends(g) \union Values(g) \union BitFields(g) \union Parameters(g, cpp)
                \union {To(Punct("["), g)})
<1> DEFINE bracket == {Step(Punct("["), [g EXCEPT !.made = {}])}
<1>1. {To(Punct("["), g)} = bracket
  BY Zenon DEF To, Step
<1>2. Serves(bracket)
  BY BracketRead, ServesOne
<1>3. /\ Serves(Ends(g)) /\ Serves(Values(g)) /\ Serves(BitFields(g))
      /\ Serves(Parameters(g, cpp))
  BY EndsServed, ValuesServed, BitFieldsServed, ParametersServed
<1> HIDE DEF bracket
<1> QED
  BY <1>1, <1>2, <1>3, ServesBoth

\* A lexeme that leads to a place of the same declaration.
LEMMA GoingServed ==
  ASSUME NEW g, NEW lx, NEW at, createTags(lx) => Served(Going(g, at, {}))
  PROVE  Serves({To(lx, At(g, at))})
<1>1. To(lx, At(g, at)) = Step(lx, Going(g, at, {}))
  BY Zenon DEF To, Step, Going
<1> QED
  BY <1>1, ServesOne

\* The places in the type of a declaration.
LEMMA TypePlaces ==
  ASSUME Deviations = {}, NEW g, NEW up, NEW st, Reading(g, up, st),
         g.at \in {"start", "spec", "type", "usertype", "pointer", "head", "headname", "bases",
                   "closed"}
  PROVE  Serves(Continuations(g, cpp))
<1>1. CASE g.at = "start"
  BY <1>1, StartsServed DEF Continuations
<1>2. CASE g.at = "spec"
  <2>1. g.at \in BeforeType /\ Top(g).kind # "enum"
    BY <1>2, NotEnumerated DEF BeforeType
  <2> QED
    BY <1>2, <2>1, TypesServed DEF Continuations
<1>3. CASE g.at \in {"type", "usertype"}
  <2>1. Serves(Declarators(g)) /\ Serves(Qualified(g, cpp))
    BY <1>3, DeclaratorsServed, QualifiedServed DEF BeforeName
  <2>2. g.at = "usertype" => Serves(Calls(g))
    BY CallsServed
  <2> QED
    BY <1>3, <2>1, <2>2, ServesBoth DEF Continuations
<1>4. CASE g.at = "pointer"
  <2>1. Serves({To(Name(e), At(g, "name"))})
    BY <1>4, NameDeclared, GoingServed DEF BeforeName
  <2> QED
    BY <1>4, <2>1 DEF Continuations
<1>5. CASE g.at = "head"
  <2>1. Serves({To(Name(B), At(g, "headname"))})
    BY <1>5, BlockNamed, GoingServed
  <2> QED
    BY <1>5, <2>1, BodiesServed, ServesBoth DEF Continuations
<1>6. CASE g.at = "headname"
  <2>1. /\ Serves(NamedBodies(g)) /\ Serves(Bases(g, cpp)) /\ Serves(Forwards(g))
        /\ Serves(Declarators(g))
    BY <1>6, NamedBodiesServed, BasesServed, ForwardsServed, DeclaratorsServed DEF BeforeName
  <2> QED
    BY <1>6, <2>1, ServesBoth DEF Continuations
<1>7. CASE g.at = "bases"
  BY <1>7, NamedBodiesServed DEF Continuations
<1>8. CASE g.at = "closed"
  <2>1. Serves(Finishes(g)) /\ Serves(Declarators(g))
    BY <1>8, FinishesServed, DeclaratorsServed DEF BeforeName
  <2> QED
    BY <1>8, <2>1, ServesBoth DEF Continuations
<1> QED
  BY <1>1, <1>2, <1>3, <1>4, <1>5, <1>6, <1>7, <1>8

\* The places after a name that is declared.
LEMMA NamePlaces ==
  ASSUME Deviations = {}, "local" \in Disabled, NEW g, NEW up, NEW st, Reading(g, up, st),
         g.at \in {"name", "fptr", "fargs", "args", "ctor", "ctorargs", "call"}
  PROVE  Serves(Continuations(g, cpp))
<1>1. CASE g.at = "name"
  BY <1>1, NameServed DEF Continuations
<1>2. CASE g.at = "fptr"
  BY <1>2, PointerArgumentsServed DEF Continuations
<1>3. CASE g.at = "fargs"
  <2>1. Serves(Ends(g))
    BY <1>3, EndsServed
  <2>2. Serves({p \in Ends(g) : p.lexeme.w = g.next})
    BY <2>1 DEF Serves
  <2> QED
    BY <1>3, <2>2 DEF Continuations
<1>4. CASE g.at \in {"args", "ctorargs"}
  BY <1>4, FunctionEndsServed DEF Continuations
<1>5. CASE g.at = "ctor"
  BY <1>5, ConstructorsServed DEF Continuations
<1>6. CASE g.at = "call"
  BY <1>6, FinishesServed DEF Continuations
<1> QED
  BY <1>1, <1>2, <1>3, <1>4, <1>5, <1>6

\* The places of qualified names.
LEMMA QualifierPlaces ==
  ASSUME "local" \in Disabled, NEW g, NEW up, NEW st, Reading(g, up, st),
         g.at \in {"qualifier", "qualified", "qualifiedname", "qualifiedargs"}
  PROVE  Serves(Continuations(g, cpp))
<1>1. CASE g.at = "qualifier"
  <2>1. Serves({To(Punct("::"), At(g, "qualified"))})
    BY <1>1, ColonsRead, GoingServed
  <2> QED
    BY <1>1, <2>1 DEF Continuations
<1>2. CASE g.at = "qualified"
  <2>1. Serves({To(Name(e), At(g, "qualifiedname"))})
    BY <1>2, QualifiedNameRead, GoingServed
  <2> QED
    BY <1>2, <2>1 DEF Continuations
<1>3. CASE g.at = "qualifiedname"
  BY <1>3, QualifiedEndsServed DEF Continuations
<1>4. CASE g.at = "qualifiedargs"
  BY <1>4, QualifiedBodyServed DEF Continuations
<1> QED
  BY <1>1, <1>2, <1>3, <1>4

\* The places of enumerations, namespaces and blocks of linkage.
LEMMA BlockPlaces ==
  ASSUME NEW g, NEW up, NEW st, Reading(g, up, st),
         g.at \in {"enumerator", "last", "namespace", "namespacename", "linkage", "linked"}
  PROVE  Serves(Continuations(g, cpp))
<1>1. CASE g.at = "enumerator"
  BY <1>1, EnumeratorsServed DEF Continuations
<1>2. CASE g.at = "last"
  <2>1. Serves(Closes(g))
    BY <1>2, EnumeratedInside, ClosesServed
  <2> QED
    BY <1>2, <2>1 DEF Continuations
<1>3. CASE g.at = "namespace"
  BY <1>3, NamespacesServed DEF Continuations
<1>4. CASE g.at = "namespacename"
  BY <1>4, NamedNamespacesServed DEF Continuations
<1>5. CASE g.at = "linkage"
  <2>1. Serves({To(String, At(g, "linked"))})
    BY <1>5, StringRead, GoingServed
  <2> QED
    BY <1>5, <2>1 DEF Continuations
<1>6. CASE g.at = "linked"
  BY <1>6, LinkageBlocksServed DEF Continuations
<1> QED
  BY <1>1, <1>2, <1>3, <1>4, <1>5, <1>6

-------------------------------------------------------------------------------
(* A source that breaks off anywhere                                       *)

LEMMA BreaksServed ==
  ASSUME "local" \in Disabled, passCount \in {0, 1}, NEW g, NEW up, NEW st, Reading(g, up, st)
  PROVE  Serves(Breaks(g))
<1> DEFINE file     == {Step(Eof, Going(g, "eof", {}))}
           brackets == {Step(Unclosed("["), Going(g, "format", {}))}
           values   == { Step(Value("eof"), Going(g, "format", {})),
                         Step(Value(Closing), Going(g, "brace", {})) }
           groups   == {Step(Paren(s, "eof", "eof"), Going(g, "format", {})) : s \in Shapes}
           name     == IF g.at = "args" THEN e ELSE B
           body     == {Step(Unclosed(Opening), Going(g, "brace", Here(g, name, "function")))}
           brace    == {Step(Punct(Closing), Going(g, "brace", {}))}
           p == g.at \in {"start", "name", "type"}
           q == g.at = "name" /\ g.storage # "typedef"
           r == g.at \in {"args", "ctorargs"} /\ g.next = Opening
           s == g.at = "start" /\ g.blocks = << >>
<1>1. Breaks(g) = file \union (IF p THEN brackets ELSE {})
                  \union (IF q THEN values \union groups ELSE {})
                  \union (IF r THEN body ELSE {}) \union (IF s THEN brace ELSE {})
  BY Zenon DEF Breaks, To, Making, Step, Going, Opening, Closing
<1>2. Serves(file)
  BY EndOfFile, ServesOne
<1>3. Serves(brackets)
  BY BracketBreaks, ServesOne
<1>4. q => Serves(values)
  BY ValueBreaks, BraceBreaks, ServesTwo
<1>5. q => Serves(groups)
  <2>1. Shapes \subseteq {"empty", "typed", "single"}
    BY DeclarationsAssumption
  <2> QED
    BY <2>1, ArgsBreak, StepIs DEF Serves
<1>6. r => Serves(body)
  <2>1. r => g.at \in BeforeBody /\ BodyTags(g) = Here(g, name, "function")
    BY DEF BeforeBody, BodyTags, BodyName
  <2> HIDE DEF r, name
  <2> QED
    BY <2>1, BodyBreaks, ServesOne
<1>7. s => Serves(brace)
  BY NothingLeft, ServesOne
<1> HIDE DEF file, brackets, values, groups, body, brace, p, q, r, s
<1> QED
  BY <1>1, <1>2, <1>3, <1>4, <1>5, <1>6, <1>7, ServesBoth, ServesIf

LEMMA SourcesServed ==
  ASSUME Deviations = {}, "local" \in Disabled, passCount \in {0, 1},
         NEW g, NEW up, NEW st, Reading(g, up, st)
  PROVE  Serves(Sources(g, cpp))
<1>1. g.at \in Places
  BY DEF Reading, Matches
<1>2. Serves(Continuations(g, cpp))
  BY <1>1, TypePlaces, NamePlaces, QualifierPlaces, BlockPlaces DEF Places
<1>3. Serves(Breaks(g))
  BY BreaksServed
<1> QED
  BY <1>2, <1>3, ServesNone, ServesBoth DEF Sources

-------------------------------------------------------------------------------
(* The invariant                                                           *)

\* A statement that starts anew fits the start of a declaration.
LEMMA BeginsAnew ==
  ASSUME NEW h, IsPosition(h), h.at = "start", h.after = "end", h.storage = "none",
         h.head = "none", ~ h.listed,
         NEW t, Anew(h, t), t.access = Top(h).access, t.accessDefault = Top(h).access
  PROVE  Matches(h, t)
<1>1. ~ Specified(h)
  BY DEF Specified
<1>2. Common(h, t)
  BY DEF Common, Anew, active, Qualifieds, ScopeOf
<1>3. AtStart(h, t)
  BY <1>1 DEF AtStart, Anew
<1> QED
  BY <1>2, <1>3 DEF Matches, Placed, Enumerated, Places

\* The beginning of a file.
LEMMA FileIs ==
  /\ IsPosition(File) /\ File.blocks = << >> /\ File.at = "start" /\ File.after = "end"
  /\ File.storage = "none" /\ File.head = "none" /\ ~ File.listed /\ File.made = {}
  /\ Top(File).kind = "file" /\ Top(File).access = "undef"
<1>1. /\ File.blocks = << >> /\ File.at = "start" /\ File.after = "end"
      /\ File.storage = "none" /\ File.head = "none" /\ File.listed = FALSE /\ File.made = {}
  BY DEF File
<1>2. DOMAIN File = PositionFields
  BY DEF File, PositionFields
<1>3. Top(File).kind = "file" /\ Top(File).access = "undef"
  BY Zenon, <1>1 DEF Top
<1>4. IsPosition(File)
  <2>1. File.blocks \in Seq(Block)
    BY <1>1
  <2> QED
    BY <1>1, <1>2, <2>1 DEF IsPosition
<1> QED
  BY <1>1, <1>3, <1>4

LEMMA InitIs ==
  ASSUME AsMeant, Init
  PROVE  StatementInv
<1> DEFINE t == initStatement(<< >>)
<1>1. Enclosing(File.blocks, << >>)
  BY FileIs DEF Enclosing, IsSequence
<1>2. accessDefault(<< >>) = "undef"
  BY <1>1, FileIs, Surroundings DEF accessDefault
<1>3. Anew(File, t) /\ t.access = "undef" /\ t.accessDefault = "undef"
  BY <1>1, <1>2, FileIs, FirstStatement
<1> HIDE DEF t
<1>4. Matches(File, t)
  BY <1>3, FileIs, BeginsAnew
<1>5. statements = << t >> /\ src = File /\ exception = "running" /\ tags = {}
  BY DEF Init, t
<1>6. Around(statements) = << >> /\ Innermost(statements) = t /\ IsSequence(statements)
      /\ Len(statements) = 1
  BY <1>5 DEF Around, Innermost, IsSequence
<1>7. InStep(statements, src)
  <2>1. Nested(File.blocks) /\ Len(File.blocks) = 0
    BY FileIs DEF Nested
  <2> QED
    BY <1>1, <1>4, <1>5, <1>6, <2>1, FileIs DEF InStep
<1>8. language \in {"c", "cpp"} /\ passCount \in {0, 1}
  BY StatementsAssumption DEF Init, AsMeant
<1>9. ErrorsFit /\ TagsAsDeclared /\ ResolvedBetween
  BY <1>5, FileIs DEF ErrorsFit, TagsAsDeclared, ResolvedBetween, Broken, Init
<1> QED
  BY <1>5, <1>7, <1>8, <1>9 DEF StatementInv

\* The statements that fit a position are read into there.
LEMMA ReadingIs ==
  ASSUME InStep(statements, src)
  PROVE  Reading(src, Around(statements), Innermost(statements))
BY DEF InStep, Reading

LEMMA StepKeeps ==
  ASSUME AsMeant, StatementInv, [Next]_vars
  PROVE  StatementInv'
<1>1. ASSUME NEW s \in Sources(src, cpp), createTags(s.lexeme), src' = s.then,
             UNCHANGED << language, passCount >>
      PROVE  StatementInv'
  <2>1. exception = "running"
    BY <1>1 DEF createTags
  <2>2. Reading(src, Around(statements), Innermost(statements)) /\ passCount \in {0, 1}
    BY <2>1, ReadingIs DEF StatementInv
  <2>3. Serves(Sources(src, cpp))
    BY <2>2, SourcesServed DEF AsMeant
  <2>4. Served(src')
    BY <1>1, <2>3 DEF Serves
  <2>5. /\ exception' = "running" => InStep(statements', src')
        /\ exception' # "running" => statements' = << >>
    BY <2>4 DEF Served, Broken
  <2>6. ErrorsFit' /\ TagsAsDeclared' /\ ResolvedBetween'
    BY <2>4 DEF Served, Included, ErrorsFit, TagsAsDeclared, ResolvedBetween
  <2>7. language' \in {"c", "cpp"} /\ passCount' \in {0, 1}
    BY <1>1 DEF StatementInv
  <2> QED
    BY <2>5, <2>6, <2>7 DEF StatementInv
<1>2. ASSUME UNCHANGED vars
      PROVE  StatementInv'
  <2>1. /\ language' = language /\ passCount' = passCount /\ statements' = statements
        /\ exception' = exception /\ resolveRequired' = resolveRequired /\ tags' = tags
        /\ src' = src
    BY <1>2 DEF vars
  <2> QED
    BY <2>1 DEF StatementInv, ErrorsFit, TagsAsDeclared, ResolvedBetween
<1> QED
  BY <1>1, <1>2 DEF Next

\* Statements in step with the source are those of its blocks.
LEMMA BlocksFollow ==
  ASSUME StatementInv
  PROVE  StatementsAreBlocks
<1> SUFFICES ASSUME exception = "running"
             PROVE  /\ Len(statements) = Len(src.blocks) + 1
                    /\ \A i \in 1 .. Len(src.blocks) :
                         /\ isContextualDecl(statements[i].declaration)
                              <=> src.blocks[i].kind # "linkage"
                         /\ isContextualDecl(statements[i].declaration) =>
                              /\ statements[i].declaration = src.blocks[i].kind
                              /\ statements[i].blockName
                                   = [type |-> "name", word |-> src.blocks[i].name]
  BY DEF StatementInv, StatementsAreBlocks
<1> DEFINE n == Len(src.blocks)
<1>1. /\ IsPosition(src) /\ IsSequence(statements) /\ Len(statements) = n + 1
      /\ Enclosing(src.blocks, Around(statements))
  BY DEF StatementInv, InStep
<1>2. src.blocks \in Seq(Block) /\ n \in Nat
  BY <1>1 DEF IsPosition
<1>3. ASSUME NEW i \in 1 .. n
      PROVE  /\ isContextualDecl(statements[i].declaration) <=> src.blocks[i].kind # "linkage"
             /\ isContextualDecl(statements[i].declaration) =>
                  /\ statements[i].declaration = src.blocks[i].kind
                  /\ statements[i].blockName = [type |-> "name", word |-> src.blocks[i].name]
  <2>1. Around(statements)[i] = statements[i]
    BY <1>1, <1>2, FrontIs
  <2>2. Encloses(src.blocks, i, statements[i])
    BY <1>1, <2>1 DEF Enclosing
  <2>3. src.blocks[i].kind \in TypeKinds \union {"namespace", "linkage"}
    <3>1. src.blocks[i] \in Block
      BY <1>2
    <3> QED
      BY <3>1 DEF Block
  <2> QED
    BY <2>2, <2>3 DEF Encloses, TypeKinds, isContextualDecl, ContextualKeywords
<1> QED
  BY <1>1, <1>3

-------------------------------------------------------------------------------
(* The theorems                                                            *)

\* Whatever declarations a source holds and wherever it breaks off, the
\* statements of c.c are in step with it, for every number of blocks in each
\* other: createTags, nest and the reading of lexemes keep the invariant.
THEOREM StatementsInStep ==
  ASSUME AsMeant
  PROVE  Spec => []StatementInv
<1>1. Init => StatementInv
  BY InitIs
<1>2. StatementInv /\ [Next]_vars => StatementInv'
  BY StepKeeps
<1> QED
  BY <1>1, <1>2, PTL DEF Spec

\* Every lexeme makes the tags its declaration calls for, with their kinds,
\* scopes and access, and no others: reinitStatement, nest and the comma leave
\* nothing behind, and findScopeHierarchy finds the blocks around it.
THEOREM TagsCorrect ==
  ASSUME AsMeant
  PROVE  Spec => []TagsAsDeclared
<1>1. StatementInv => TagsAsDeclared
  BY DEF StatementInv
<1> QED
  BY <1>1, StatementsInStep, PTL

\* A file is given up exactly when it breaks off, with the reason findCTags
\* chooses a second pass by.
THEOREM ErrorsCorrect ==
  ASSUME AsMeant
  PROVE  Spec => []ErrorsFit
<1>1. StatementInv => ErrorsFit
  BY DEF StatementInv
<1> QED
  BY <1>1, StatementsInStep, PTL

\* There is one statement for each block the source is in and one for the file,
\* with the declarations and names of the blocks, and none once the file is
\* given up.
THEOREM BlocksCorrect ==
  ASSUME AsMeant
  PROVE  Spec => []StatementsAreBlocks
<1>1. StatementInv => StatementsAreBlocks
  BY BlocksFollow
<1> QED
  BY <1>1, StatementsInStep, PTL

\* Between two declarations of a file get.c has not been told that a statement
\* is incomplete.
THEOREM ResolvedCorrect ==
  ASSUME AsMeant
  PROVE  Spec => []ResolvedBetween
<1>1. StatementInv => ResolvedBetween
  BY DEF StatementInv
<1> QED
  BY <1>1, StatementsInStep, PTL

===============================================================================
