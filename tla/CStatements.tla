------------------------------ MODULE CStatements ------------------------------
(***************************************************************************)
(* The statements of c.c for C and C++: createTags reads tokens into the   *)
(* innermost statement, makes tags from the last three, opens a statement  *)
(* for a block and frees it at the closing brace.  Errors leave by longjmp *)
(* from any depth, and findCTags frees what is left.                       *)
(*                                                                         *)
(* The source is the environment: any sequence of declarations, which may  *)
(* break off anywhere.  "src" is the position in it, for comparison only;  *)
(* "ahead" is what the parser has seen of the next lexeme and put back.    *)
(***************************************************************************)
EXTENDS CDeclarations

CONSTANTS
  Languages,   \* subset of {"c", "cpp"}
  Passes,      \* values of passCount: 0 in the plug-in, 1 and 2 in ctags
  Disabled     \* kinds of tags that are not included

ASSUME StatementsAssumption ==
  /\ Languages \subseteq {"c", "cpp"}
  /\ Passes \subseteq 0 .. 2

VARIABLES
  language,         \* getSourceLanguage ()
  passCount,        \* argument of findCTags
  statements,       \* CurrentStatement and its parents, innermost last
  exception,        \* value setjmp returns last; "running" while parsing
  resolveRequired,  \* of get.c, set by cppBeginStatement
  tags,             \* tags made from the last lexeme
  ahead,            \* what the next lexeme must be
  src               \* position in the source (history)

vars == << language, passCount, statements, exception, resolveRequired, tags, ahead, src >>

cpp == language = "cpp"
isBraceFormat == passCount > 1

-------------------------------------------------------------------------------
(* Tokens and statements                                                   *)

None == [type |-> "none", word |-> ""]

ContextualKeywords == {"class", "enum", "namespace", "struct", "union"}

isContextualDecl(declaration) == declaration \in ContextualKeywords

\* A statement: the ring of tokens is kept as <<active, previous, the one before>>.
advanceToken(st) == [st EXCEPT !.token = << None, @[1], @[2] >>]
retardToken(st)  == [st EXCEPT !.token = << None, @[3], @[1] >>]
setToken(st, type) == [st EXCEPT !.token[1] = [type |-> type, word |-> ""]]

active(st) == st.token[1]
prev(st)   == st.token[2]
prev2(st)  == st.token[3]

parentDecl(up) == IF up = <<>> THEN "none" ELSE up[Len(up)].declaration
isContextual(up)   == isContextualDecl(parentDecl(up))
insideEnumBody(up) == parentDecl(up) = "enum"
isMember(st, up)   == st.context # <<>> \/ isContextual(up)

\* What a statement loses in any case when it starts anew.
Cleared(st, up) ==
  [ st EXCEPT
    !.gotParenName = FALSE, !.isPointer = FALSE, !.assignment = FALSE,
    !.notVariable = FALSE, !.implementation = "default", !.gotArgs = FALSE,
    !.gotName = FALSE, !.haveQualifyingName = FALSE,
    !.inFunction = IF up = <<>> THEN FALSE ELSE up[Len(up)].inFunction,
    !.token = << None, None, None >>, !.context = <<>> ]

FirstDeclaration(up) == IF isContextual(up) THEN "base" ELSE "none"

\* Mutant: the storage class is kept.
ReinitKeepingScope(st, up, partial) ==
  IF partial THEN Cleared(st, up)
  ELSE [ Cleared(st, up) EXCEPT !.declaration = FirstDeclaration(up), !.blockName = None,
                                !.access = st.accessDefault ]

reinitStatement(st, up, partial) ==
  IF partial THEN Cleared(st, up)
  ELSE [ Cleared(st, up) EXCEPT !.scope = "global", !.declaration = FirstDeclaration(up),
                                !.blockName = None, !.access = st.accessDefault ]

accessDefault(up) ==
  CASE parentDecl(up) = "class"               -> "private"
    [] parentDecl(up) \in {"struct", "union"} -> "public"
    [] OTHER                                  -> "undef"

initStatement(up) ==
  reinitStatement(
    [ scope |-> "global", declaration |-> "none", gotName |-> FALSE,
      haveQualifyingName |-> FALSE, gotParenName |-> FALSE, gotArgs |-> FALSE,
      isPointer |-> FALSE, inFunction |-> FALSE, assignment |-> FALSE,
      notVariable |-> FALSE, implementation |-> "default",
      token |-> << None, None, None >>, context |-> <<>>, blockName |-> None,
      access |-> accessDefault(up), accessDefault |-> accessDefault(up) ],
    up, FALSE)

-------------------------------------------------------------------------------
(* Tags                                                                    *)

\* The kinds of the table CKinds; another type would index it with -1.
CKinds == { "class", "enumerator", "function", "enum", "local", "member", "namespace",
            "prototype", "struct", "typedef", "union", "variable", "externvar" }

includeTag(type) == type \in CKinds \ Disabled

\* What the block of a statement adds to the scope.
BlockScope(st) ==
  IF isContextualDecl(st.declaration) THEN st.context \o << st.blockName.word >> ELSE <<>>

\* The scope of a tag: the names of the blocks around it, and its qualifier.
findScopeHierarchy(st, up) ==
  LET Outer[i \in 0 .. Len(up)] == IF i = 0 THEN <<>> ELSE Outer[i - 1] \o BlockScope(up[i])
  IN Outer[Len(up)] \o st.context

\* Types whose tags carry the scope and the access of a member.
Scoped == CKinds \ {"local", "variable", "externvar"}

makeTag(token, st, up, type) ==
  IF token.type = "name" /\ includeTag(type)
    THEN { IF type \in Scoped /\ isMember(st, up)
             THEN Tag(token.word, type, findScopeHierarchy(st, up),
                      IF st.scope = "friend" THEN "friend" ELSE st.access)
             ELSE Tag(token.word, type, <<>>, "undef") }
    ELSE {}

isValidTypeSpecifier(declaration) ==
  declaration \in {"base", "class", "enum", "struct", "union"}

qualifyFunctionDeclTag(st, up, name) ==
  IF st.scope = "typedef" THEN makeTag(name, st, up, "typedef")
  ELSE IF isValidTypeSpecifier(st.declaration) THEN makeTag(name, st, up, "prototype")
  ELSE {}

qualifyVariableTag(st, up, name) ==
  IF st.scope = "typedef" THEN makeTag(name, st, up, "typedef")
  ELSE IF ~ isValidTypeSpecifier(st.declaration) \/ st.notVariable THEN {}
  ELSE IF isMember(st, up)
    THEN IF st.scope \in {"global", "static"} THEN makeTag(name, st, up, "member") ELSE {}
  ELSE makeTag(name, st, up,
         IF st.scope = "extern" \/ ~ st.haveQualifyingName THEN "externvar"
         ELSE IF st.inFunction THEN "local" ELSE "variable")

\* tagCheck at "{": the statement is a function, or its block gets a name.
OpensBlock(st, up) ==
  IF prev(st).type = "args"
    THEN IF st.haveQualifyingName
           THEN [ st    |-> [ st EXCEPT !.declaration = "function",
                                !.blockName = IF prev2(st).type = "name" THEN prev2(st) ELSE @ ],
                  tags  |-> makeTag(prev2(st), st, up, "function") ]
           ELSE [ st |-> st, tags |-> {} ]
    ELSE IF isContextualDecl(st.declaration)
      THEN [ st   |-> [ st EXCEPT !.blockName =
                          IF prev(st).type = "name" THEN prev(st)
                                                    ELSE [type |-> "name", word |-> Anon] ],
             tags |-> makeTag(prev(st), st, up, st.declaration) ]
      ELSE [ st |-> st, tags |-> {} ]

\* tagCheck at ";" and ",".
EndsDeclarator(st, up) ==
  IF insideEnumBody(up) THEN {}
  ELSE IF prev(st).type = "name"
    THEN IF prev2(st).type = "key" /\ prev2(st).word \in ContextualKeywords
           THEN makeTag(prev(st), st, up, "externvar")
           ELSE qualifyVariableTag(st, up, prev(st))
  ELSE IF prev(st).type = "args" /\ prev2(st).type = "name"
    THEN IF st.isPointer THEN qualifyVariableTag(st, up, prev2(st))
                         ELSE qualifyFunctionDeclTag(st, up, prev2(st))
  ELSE {}

tagCheck(st, up) ==
  CASE active(st).type = "name"      -> [ st |-> st,
                                          tags |-> IF insideEnumBody(up)
                                                     THEN makeTag(active(st), st, up, "enumerator")
                                                     ELSE {} ]
    [] active(st).type = "{"         -> OpensBlock(st, up)
    [] active(st).type \in {";", ","} -> [ st |-> st, tags |-> EndsDeclarator(st, up) ]
    [] OTHER                         -> [ st |-> st, tags |-> {} ]

-------------------------------------------------------------------------------
(* Lexemes: what nextToken does with each, as a record of the statement,   *)
(* the error it leaves with, and what it has put back of the source.       *)

Read(st)           == [st |-> st, exc |-> "none", ahead |-> "any"]
PutBack(st, next)  == [st |-> st, exc |-> "none", ahead |-> next]
Throw(st, exc)     == [st |-> st, exc |-> exc, ahead |-> "any"]

processName(st) ==
  [ st EXCEPT !.declaration = IF st.gotName /\ @ = "none" THEN "base" ELSE @,
              !.gotName = TRUE, !.haveQualifyingName = TRUE ]

\* parseGeneralToken with a name: a name after a name drops the qualifier.
ReadName(st, n) ==
  LET named == processName([st EXCEPT !.token[1] = [type |-> "name", word |-> n]])
  IN [named EXCEPT !.context = IF prev(st).type = "name" THEN <<>> ELSE @]

\* processToken with a keyword.
ReadKeyword(st, up, k) ==
  LET read  == [st EXCEPT !.token[1] = [type |-> "key", word |-> k]]
      fresh == reinitStatement(st, up, FALSE)
  IN CASE k \in {"int", "const"}   -> [read EXCEPT !.declaration = "base"]
       [] k \in ContextualKeywords -> [read EXCEPT !.declaration = k]
       [] k = "typedef"            -> [fresh EXCEPT !.scope = "typedef"]
       [] k \in {"extern", "static"} ->
            [fresh EXCEPT !.scope = k, !.declaration = "base"]
       [] k = "virtual"            -> [read EXCEPT !.implementation = "virtual"]
       [] k = "friend"             -> [read EXCEPT !.scope = "friend"]
       [] k \in {"using", "return"} -> [read EXCEPT !.declaration = "ignore"]
       [] OTHER                    -> read

setAccess(st, up, a) ==
  IF isMember(st, up)
    THEN Read([ reinitStatement(st, up, FALSE) EXCEPT !.accessDefault = a, !.access = a ])
    ELSE PutBack([st EXCEPT !.token[1] = [type |-> "key", word |-> a]], ":")

processColon(st, up, rest) ==
  IF cpp /\ st.declaration \in {"class", "struct"}
    THEN PutBack(st, IF rest = "eof" THEN "eof" ELSE "{")
  ELSE IF parentDecl(up) = "struct"
    THEN CASE rest = "eof" -> PutBack(st, "eof")
           [] rest = ","   -> Read(setToken(st, ","))
           [] OTHER        -> Read(setToken(st, ";"))
  ELSE PutBack(IF prev(st).word = "default" \/ prev2(st).word = "case" \/ up # <<>>
                 THEN reinitStatement(st, up, FALSE) ELSE st,
               rest)

processInitializer(st, up, lx) ==
  LET after(type) ==
        [ setToken(st, type) EXCEPT
            !.assignment = TRUE,
            !.implementation = IF lx.zero /\ @ = "virtual" THEN "pure virtual" ELSE @,
            !.scope = IF @ = "extern" THEN "global" ELSE @ ]
  IN CASE lx.rest = "eof"                       -> Throw(st, "format")
       [] lx.rest = "}" /\ insideEnumBody(up)   -> PutBack(after(","), "}")
       [] lx.rest = "}" /\ ~ insideEnumBody(up) -> IF isBraceFormat THEN Read(after(";"))
                                                   ELSE Throw(st, "brace")
       [] OTHER                                 -> Read(after(lx.rest))

-------------------------------------------------------------------------------
(* Parenthesised groups                                                    *)

\* parseParens: what a group of each shape is found to be.  The shapes are
\*   "empty" (), "typed" (int x), "single" (T), "pair" (U T), "list" (x, y),
\*   "pointer" (*T), "value" (3) and "macro" ((...)).
parenInfo(shape) ==
  [ isPointer       |-> shape = "pointer",
    isParamList     |-> shape # "pointer" /\ shape # "value",
    isKnrParamList  |-> ~ cpp /\ shape \in {"empty", "single", "list"},
    isNameCandidate |-> shape \in {"empty", "single", "pair", "pointer"},
    invalidContents |-> shape = "value",
    parameterCount  |-> CASE shape = "empty" -> 0 [] shape = "list" -> 2 [] OTHER -> 1,
    isName          |-> shape \in {"single", "pair", "pointer"} ]

restartStatement(st, up, lx) ==
  LET fresh == reinitStatement(st, up, FALSE)
  IN IF lx.t = "name" THEN ReadName(fresh, lx.w) ELSE ReadKeyword(fresh, up, lx.w)

\* Mutant: what follows the arguments is skipped without a look for the end.
PostArgumentsAnyEnd(st, up, info, lx) == PutBack(setToken(st, "none"), lx.to)

\* skipPostArgumentStuff, after the token of the arguments.
skipPostArgumentStuff(st, up, info, lx) ==
  LET done == setToken(st, "none")
  IN CASE lx.next \in {"const", ":", "("} ->
            IF lx.to = "eof" THEN Throw(done, "format") ELSE PutBack(done, lx.to)
       [] lx.next = "eof" -> Throw(done, "format")
       [] lx.next = "}"   -> PutBack(done, "}")
       [] lx.next \in {"decls", "name"} ->
            IF info.isKnrParamList /\ info.parameterCount > 0
              THEN IF lx.to = "eof" THEN Throw(done, "format") ELSE PutBack(done, lx.to)
              ELSE Read(restartStatement(st, up,
                     IF lx.next = "name" THEN Name(e) ELSE Key("int")))
       [] lx.next = "static" -> Read(restartStatement(st, up, Key("static")))

analyzePostParens(st, up, info, lx) ==
  IF lx.next \in {"{", ";", ",", "="} THEN PutBack(st, lx.next)
  ELSE skipPostArgumentStuff(st, up, info, lx)

\* skipMacro gives the token of the macro's name up, if there is one.
skipMacro(st) == IF prev2(st).type = "name" THEN retardToken(st) ELSE st

\* Whether a group holds the name that is declared.
DeclaresName(st, info, next) ==
  /\ info.isNameCandidate /\ info.isName /\ ~ st.gotParenName
  /\ \/ ~ info.isParamList
     \/ ~ st.haveQualifyingName
     \/ next = "("
     \/ next = "=" /\ st.implementation # "virtual"
     \/ st.declaration = "none" /\ next \in {",", ";"}

\* Without a token before it a group is no group: its name is read as any other.
Ungrouped(st, info, lx) ==
  PutBack(IF info.isName THEN ReadName(st, lx.w) ELSE st, lx.next)

analyzeParens(st, up, lx) ==
  LET info  == parenInfo(lx.shape)
      begun == [st EXCEPT !.notVariable = @ \/ (st.inFunction /\ ~ st.assignment)]
      read  == IF lx.shape = "macro" THEN skipMacro(begun) ELSE begun
  IN IF prev(st).type = "none" THEN Ungrouped(begun, info, lx)
     ELSE IF info.invalidContents THEN PutBack(reinitStatement(read, up, FALSE), lx.next)
     ELSE IF DeclaresName(read, info, lx.next)
       THEN PutBack([ ReadName(read, lx.w) EXCEPT !.context = read.context,
                        !.gotParenName = TRUE, !.isPointer = info.isPointer ], lx.next)
     ELSE IF ~ read.gotArgs /\ info.isParamList
       THEN LET args == advanceToken([setToken(read, "args") EXCEPT !.gotArgs = TRUE])
            IN IF st.scope = "typedef" THEN PutBack(args, lx.next)
               ELSE analyzePostParens(args, up, info, lx)
     ELSE PutBack(setToken(read, "none"), lx.next)

\* nextToken, with one lexeme.
nextToken(st, up, lx) ==
  CASE lx.t = "name"   -> Read(ReadName(st, lx.w))
    [] lx.t = "key"    -> Read(ReadKeyword(st, up, lx.w))
    [] lx.t = "access" -> setAccess(st, up, lx.w)
    [] lx.t = "colon"  -> processColon(st, up, lx.rest)
    [] lx.t = "init"   -> processInitializer(st, up, lx)
    [] lx.t = "paren"  -> analyzeParens(st, up, lx)
    [] lx.t = "string" ->
         Read(IF st.scope = "extern" /\ ~ st.haveQualifyingName
                THEN [st EXCEPT !.declaration = "nomangle", !.scope = "global"] ELSE st)
    [] lx.t = "eof"      -> Throw(st, "eof")
    [] lx.t = "unclosed" -> IF lx.w = "{" THEN Read(setToken(st, "{"))
                                          ELSE Throw(st, "format")
    [] lx.t = "punct"    ->
         Read(CASE lx.w = "*"  -> [st EXCEPT !.haveQualifyingName = FALSE]
                [] lx.w = "::" -> [setToken(st, "::") EXCEPT !.haveQualifyingName = FALSE]
                [] lx.w = "."  -> [st EXCEPT !.notVariable = @ \/ ~ st.assignment]
                [] lx.w = "["  -> st
                [] OTHER       -> setToken(st, lx.w))

-------------------------------------------------------------------------------
(* createTags                                                              *)

\* Mutant: no closing brace ends a statement.
SemicolonEnds(st) == active(st).type = ";"

isStatementEnd(st) ==
  \/ active(st).type = ";"
  \/ active(st).type = "}" /\ ~ isContextualDecl(st.declaration)

\* checkStatementEnd, with what it tells get.c.
checkStatementEnd(st, up) ==
  IF active(st).type = ","  THEN [st |-> reinitStatement(st, up, TRUE), required |-> resolveRequired]
  ELSE IF isStatementEnd(st) THEN [st |-> reinitStatement(st, up, FALSE), required |-> FALSE]
  ELSE [st |-> advanceToken(st), required |-> TRUE]

Continue(st, up) ==
  LET end == checkStatementEnd(st, up)
  IN statements' = Append(up, end.st) /\ resolveRequired' = end.required

\* Mutant: the statements are not deleted.
LeavesStatements(exc) == exception' = exc /\ UNCHANGED << statements, resolveRequired >>

\* longjmp out of createTags; findCTags deletes all statements.
Leaves(exc) ==
  statements' = <<>> /\ exception' = exc /\ UNCHANGED resolveRequired

\* The end of nest, in the statement the block belongs to.
AfterBlock(st, up) == Continue(setToken(advanceToken(st), "}"), up)

addContext(st) ==
  [st EXCEPT !.context = IF prev(st).type = "name" THEN Append(@, prev(st).word) ELSE @]

\* Mutant: the block of extern "C" is skipped.
EntersNamed(st) == st.declaration \in ContextualKeywords \/ "local" \notin Disabled

\* Blocks createTags enters; others are skipped over.
entersBlock(st) ==
  st.declaration \in ContextualKeywords \union {"nomangle"} \/ "local" \notin Disabled

\* nest, with a block that is closed or runs into the end of the file.
nest(st, up, closed) ==
  LET inner == [st EXCEPT !.inFunction = @ \/ st.declaration = "function"]
  IN IF entersBlock(st)
       THEN /\ statements' = up \o << inner, initStatement(Append(up, inner)) >>
            /\ UNCHANGED << resolveRequired, exception >>
       ELSE IF closed THEN AfterBlock(inner, up) /\ UNCHANGED exception
       ELSE Leaves("brace")

-------------------------------------------------------------------------------
(* The loop of createTags: one lexeme is read; once it completes a token,  *)
(* the token is dealt with.  "up" are the statements around the innermost. *)

Fits(lx) ==
  ahead \in {"any", CASE lx.t = "punct" -> lx.w     [] lx.t = "unclosed" -> lx.w
                      [] lx.t = "key"   -> lx.w     [] lx.t = "colon"    -> ":"
                      [] lx.t = "init"  -> "="      [] lx.t = "paren"    -> "("
                      [] OTHER          -> lx.t}

\* An error, or the end of the file, found while reading.
Raise(r) == r.exc # "none" /\ tags' = {} /\ Leaves(r.exc)

\* No token yet: nextToken reads on.
ReadOn(r, up) ==
  /\ r.exc = "none" /\ active(r.st).type = "none"
  /\ statements' = Append(up, r.st) /\ tags' = {}
  /\ UNCHANGED << resolveRequired, exception >>

CloseBlock(r, up) ==
  /\ r.exc = "none" /\ active(r.st).type = "}"
  /\ tags' = {}
  /\ IF up = <<>> THEN Leaves("brace")
     ELSE /\ AfterBlock(up[Len(up)], SubSeq(up, 1, Len(up) - 1))
          /\ UNCHANGED exception

Qualify(r, up) ==
  /\ r.exc = "none" /\ active(r.st).type = "::"
  /\ statements' = Append(up, advanceToken(addContext(r.st))) /\ tags' = {}
  /\ UNCHANGED << resolveRequired, exception >>

OpenBlock(r, up, lx) ==
  /\ r.exc = "none" /\ active(r.st).type = "{"
  /\ tags' = tagCheck(r.st, up).tags
  /\ nest(tagCheck(r.st, up).st, up, lx.t # "unclosed")

TakeToken(r, up) ==
  /\ r.exc = "none" /\ active(r.st).type \notin {"none", "}", "::", "{"}
  /\ tags' = tagCheck(r.st, up).tags
  /\ Continue(r.st, up) /\ UNCHANGED exception

createTags(lx) ==
  LET up == SubSeq(statements, 1, Len(statements) - 1)
      r  == nextToken(statements[Len(statements)], up, lx)
  IN /\ exception = "running" /\ Fits(lx)
     /\ ahead' = r.ahead
     /\ \/ Raise(r)
        \/ ReadOn(r, up)
        \/ CloseBlock(r, up)
        \/ Qualify(r, up)
        \/ OpenBlock(r, up, lx)
        \/ TakeToken(r, up)

Init ==
  /\ language \in Languages /\ passCount \in Passes
  /\ statements = << initStatement(<<>>) >>
  /\ exception = "running" /\ resolveRequired = FALSE
  /\ tags = {} /\ ahead = "any" /\ src = File

Next ==
  \/ \E s \in Sources(src, cpp) :
       createTags(s.lexeme) /\ src' = s.then /\ UNCHANGED << language, passCount >>
  \/ exception # "running" /\ UNCHANGED vars

Spec == Init /\ [][Next]_vars

-------------------------------------------------------------------------------
(* Properties                                                              *)

\* Every lexeme makes the tags its declaration calls for, with their kinds,
\* scopes and access, and no others: nothing of an earlier statement, of a block
\* or of a declarator before a comma is left in the statement that is read
\* (reinitStatement, tagCheck, findScopeHierarchy).
TagsAsDeclared == tags = {tag \in src.made : tag.type \notin Disabled}

\* A file is given up exactly when it breaks off, and for the reason it does:
\* only "brace" makes findCTags ask for a second pass (skipToMatch,
\* skipInitializer, createTags).
ErrorsFit == exception = IF src.at \in Broken THEN src.at ELSE "running"

\* While a file is parsed there is one statement for each block the source is in,
\* and one for the file; once it is given up there is none (findCTags).  The
\* statements around a block have the name of their block, as findScopeHierarchy
\* asserts.
StatementsAreBlocks ==
  /\ exception # "running" => statements = <<>>
  /\ exception = "running" =>
    /\ Len(statements) = Len(src.blocks) + 1
    /\ \A i \in 1 .. Len(src.blocks) :
         /\ isContextualDecl(statements[i].declaration) <=> src.blocks[i].kind # "linkage"
         /\ isContextualDecl(statements[i].declaration) =>
              /\ statements[i].declaration = src.blocks[i].kind
              /\ statements[i].blockName = [type |-> "name", word |-> src.blocks[i].name]

\* Between two declarations of a file get.c is not told that a statement is
\* incomplete, and so it follows all branches there (cppEndStatement).  After a
\* namespace or a using directive it is: their statements go on.
ResolvedBetween ==
  (src.at = "start" /\ src.after = "end" /\ src.blocks = <<>>) => ~ resolveRequired
===============================================================================
