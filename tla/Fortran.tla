--------------------------------- MODULE Fortran ---------------------------------
(***************************************************************************)
(* fortran.c: program units, their specification and execution parts.      *)
(* "NL" and ";" end statements; a number that begins a line is its label.  *)
(* A keyword run together with "end" stands in second, as does the token   *)
(* that readSubToken reads ahead.                                          *)
(***************************************************************************)
EXTENDS TokenStream, TLC

TypeSpecs == { "byte", "integer", "real", "double", "complex", "character", "logical",
               "record", "type" }
Prefixes == { "elemental", "pure", "recursive", "stdcall" }
Qualifiers == { "parameter", "allocatable", "external", "intrinsic", "optional", "private",
                "pointer", "public", "save", "target" }
Ignored == { "cexternal", "cglobal", "dll_export", "dll_import", "external", "format",
             "include", "inline", "parameter", "pascal", "pexternal", "pglobal", "static",
             "value", "virtual", "volatile" }
Specifications == { "allocatable", "data", "dimension", "equivalence", "external", "intent",
                    "intrinsic", "optional", "pointer", "private", "public", "save", "target" }
UnitWords == { "block", "module", "program", "function", "subroutine", "interface", "structure",
           "union", "map", "contains", "common", "namelist", "entry", "end" }

FortranKeywordTable ==
  UNION { TypeSpecs, Prefixes, Qualifiers, Ignored, Specifications, UnitWords } \union
  { "assignment", "automatic", "do", "if", "implicit", "operator", "precision", "select",
    "sequence", "then", "use", "where", "while" }

Disabled == { "interface", "local" }

\* Words that readIdentifier finds to be "end" and a keyword.
EndWords == ("endif" :> "if") @@ ("enddo" :> "do") @@ ("endselect" :> "select")
            @@ ("endwhere" :> "where") @@ ("endtype" :> "type") @@ ("endfunction" :> "function")
            @@ ("endsubroutine" :> "subroutine") @@ ("endmodule" :> "module")

StatementEnds == { "NL", ";" }
Operators == { "*", "/", "+", "=", "//" }
Numbers == { "8", "10", "100" }
Marks == UNION { StatementEnds, Operators, Numbers, {",", "::", "(", ")", "%", "'a'"} }

keyword(tok) ==
  CASE tok \in DOMAIN EndWords      -> "end"
    [] tok \in FortranKeywordTable -> tok
    [] OTHER                       -> ""

isIdentifier(s) == s.tok \notin FortranKeywordTable \union Marks \union {"", "EOF"}
isKeyword(s, keywords) == keyword(s.tok) \in keywords
isStatementEnd(s) == Is(s, StatementEnds)
isTypeSpec(s) == isKeyword(s, TypeSpecs)
isSubprogramPrefix(s) == isKeyword(s, Prefixes)

-------------------------------------------------------------------------------
(* The units around, and tags                                              *)

Ancestor(tag, name) == [tag |-> tag, name |-> name]
ancestorPush(s, ancestor) == [s EXCEPT !.ancestors = Append(@, ancestor)]
ancestorPop(s) == IF AtEnd(s) THEN s
                  ELSE [s EXCEPT !.ancestors = SubSeq(@, 1, Len(@) - 1)]

insideInterface(s) == \E i \in DOMAIN s.ancestors : s.ancestors[i].tag = "interface"

\* The nearest unit around that has a tag.
ancestorScope(s) ==
  LET Named == {i \in DOMAIN s.ancestors : s.ancestors[i].tag \notin {"", "interface"}}
  IN IF Named = {} THEN <<>>
     ELSE LET a == s.ancestors[CHOOSE i \in Named : \A j \in Named : j <= i]
          IN << a.tag, a.name >>

\* Nothing within an interface has a tag.
makeFortranTag(s, tag, name) ==
  IF tag \in Disabled \/ insideInterface(s) THEN s
  ELSE MakeTag(s, << tag, name, ancestorScope(s) >>)

\* The name of a unit, if it is one, and the unit on the stack.
Enter(s, tag) ==
  IF isIdentifier(s) THEN ancestorPush(makeFortranTag(s, tag, s.tok), Ancestor(tag, s.tok))
  ELSE ancestorPush(s, Ancestor("", ""))

-------------------------------------------------------------------------------
(* Reading                                                                 *)

\* A label before the statement that begins here.
Label(s) ==
  IF s.in # <<>> /\ Head(s.in) \in Numbers
  THEN makeFortranTag([s EXCEPT !.in = Tail(@)], "label", Head(s.in))
  ELSE s

\* In fixed form the label is seen as soon as the end of the line before it is, and
\* that end is read with the last word, number or operator of the line.
LooksAhead(s) == ~ s.free /\ s.in # <<>> /\ Head(s.in) = "NL"
                 /\ s.tok \notin {"NL", ";", ",", "::", "(", ")", "%", "'a'"}

LabelAhead(s) ==
  LET labelled == Label([s EXCEPT !.in = Tail(@)])
  IN [labelled EXCEPT !.in = << "NL" >> \o @]

readToken(s) ==
  LET t == ReadOn(s)
      u == [t EXCEPT !.second = IF t.tok \in DOMAIN EndWords THEN EndWords[t.tok] ELSE ""]
  IN CASE Is(t, {"NL"})  -> Label(u)
       [] LooksAhead(u)  -> LabelAhead(u)
       [] OTHER          -> u

readSubToken(s) ==
  IF s.second # "" \/ AtEnd(s) THEN s
  ELSE LET t == readToken(s) IN IF AtEnd(t) THEN t ELSE [t EXCEPT !.tok = s.tok, !.second = t.tok]

skipToToken(s, types) ==
  While(s, LAMBDA t : t.tok \notin types \union StatementEnds /\ t.second \notin StatementEnds,
        readToken)

skipPast(s, types) ==
  LET t == skipToToken(s, types) IN When(t, ~ isStatementEnd(t), readToken)

skipToStatementEnd(s) == skipToToken(s, {})

skipToNextStatement(s) == While(readToken(skipToStatementEnd(s)), isStatementEnd, readToken)

skipOverParens(s) ==
  LET RECURSIVE Skip(_, _)
      Skip(t, level) ==
        LET next == level + (IF Is(t, {"("}) THEN 1 ELSE 0) - (IF Is(t, {")"}) THEN 1 ELSE 0)
            u == readToken(t)
        IN IF isStatementEnd(t) \/ AtEnd(t) THEN t
           ELSE IF next > 0 THEN Skip(u, next) ELSE u
  IN Skip(s, 0)

\* Mutant: what is in parentheses is not skipped.
keepParens(s) == s

\* "(...)" if there is one.
Parens(s) == When(s, Is(s, {"("}), skipOverParens)
After(s, types) == When(s, Is(s, types), readToken)

-------------------------------------------------------------------------------
(* Declarations                                                            *)

RECURSIVE parseTypeDeclarationStmt(_), parseStructureStmt(_), parseUnionStmt(_),
          parseSubprogram(_, _), parseInterfaceBlock(_)

parseQualifierSpecList(s) ==
  LET RECURSIVE Specs(_)
      Specs(t) ==
        LET first == readToken(t)
            u == CASE isKeyword(first, Qualifiers) -> readToken(first)
                   [] isKeyword(first, {"dimension", "intent"}) -> skipOverParens(readToken(first))
                   [] OTHER -> skipToStatementEnd(first)
        IN IF Is(u, {","}) THEN Specs(u) ELSE u
      last == Specs(s)
  IN IF Is(last, {"::"}) THEN last ELSE skipToStatementEnd(last)

variableTagType(s) ==
  IF s.ancestors = <<>> THEN "variable"
  ELSE LET tag == s.ancestors[Len(s.ancestors)].tag
       IN CASE tag = "type" -> "component"
            [] tag \in {"function", "subroutine"} -> "local"
            [] OTHER -> "variable"

\* A name, its bounds, its length and its initial value.
parseEntityDecl(s) ==
  LET named  == Parens(readToken(makeFortranTag(s, variableTagType(s), s.tok)))
      Length(t) == LET u == readToken(t) IN IF Is(u, {"("}) THEN skipOverParens(u) ELSE readToken(u)
      sized  == When(named, Is(named, {"*"}), Length)
  IN CASE Is(sized, {"/"}) -> skipPast(readToken(sized), Operators)
       [] Is(sized, {"="}) -> While(sized, LAMBDA t : ~ Is(t, {","} \union StatementEnds),
                                    LAMBDA t : Parens(readToken(t)))
       [] OTHER -> sized

\* Keywords may be names, but for those of subprograms.
parseEntityDeclList(s) ==
  LET RECURSIVE Entities(_)
      isName(t) == isIdentifier(t)
                   \/ keyword(t.tok) \notin {"", "function", "subroutine"}
      Entities(t) ==
        LET u == parseEntityDecl(t) IN
        IF AtEnd(t) \/ ~ isName(t) THEN t
        ELSE IF isStatementEnd(u) THEN skipToNextStatement(u) ELSE Entities(After(u, {","}))
  IN IF Is(s, {"%"}) THEN skipToNextStatement(s) ELSE Entities(s)

Attributes(s) ==
  After(When(s, Is(s, {","}), parseQualifierSpecList), {"::"})

\* The token left is the one at the end of the type's last statement.
parseDerivedTypeDef(s) ==
  LET named  == Enter(Attributes(s), "type")
      first  == skipToNextStatement(named)
      start  == When(first, isKeyword(first, {"private", "sequence"}), skipToNextStatement)
      last   == While(start, LAMBDA t : ~ isKeyword(t, {"end"}), LAMBDA t :
                  IF isTypeSpec(t) THEN parseTypeDeclarationStmt([t EXCEPT !.ret = TRUE])
                  ELSE skipToNextStatement(t))
  IN ancestorPop(skipToStatementEnd(readSubToken(last)))

parseTypeSpec(s) ==
  LET t == readToken(s)
      Starred(u) == IF Is(u, {"*"}) THEN readToken(u) ELSE u
      u == Starred(t)
      size == Parens(t)
  IN CASE isKeyword(s, {"character"}) ->
            CASE Is(u, {"("}) -> skipOverParens(u) [] Is(u, Numbers) -> readToken(u) [] OTHER -> u
       [] isKeyword(s, {"byte", "complex", "integer", "logical", "real"}) ->
            IF Is(size, {"*"}) THEN readToken(readToken(size)) ELSE size
       [] isKeyword(s, {"double"}) ->
            IF isKeyword(t, {"complex", "precision"}) THEN readToken(t) ELSE skipToStatementEnd(t)
       [] isKeyword(s, {"record"}) ->
            IF Is(t, {"/"}) THEN readToken(readToken(readToken(t))) ELSE t
       [] OTHER -> IF Is(t, {"("}) THEN skipOverParens(t) ELSE parseDerivedTypeDef(t)

\* Also parseComponentDefStmt, when ret: it does not ask for the end of the statement.
parseTypeDeclarationStmt(s) ==
  LET component == s.ret
      typed == parseTypeSpec([s EXCEPT !.ret = FALSE])
      t == IF isStatementEnd(typed) /\ ~ component THEN typed
           ELSE parseEntityDeclList(Attributes(typed))
  IN When(t, isStatementEnd(t) /\ ~ component, skipToNextStatement)

parseCommonNamelistStmt(s) ==
  LET tag == keyword(s.tok)
      Block(t) ==
        LET name == readToken(t)
            last == IF isIdentifier(name) THEN readToken(makeFortranTag(name, tag, name.tok))
                    ELSE name
        IN skipPast(last, Operators)
      RECURSIVE Objects(_)
      Objects(t) ==
        LET object == readToken(When(t, Is(t, {"/"}), Block))
            u == After(Parens(object), {","})
        IN IF isStatementEnd(u) \/ AtEnd(u) THEN u ELSE Objects(u)
  IN skipToNextStatement(Objects(readToken(s)))

parseFieldDefinition(s) ==
  CASE isTypeSpec(s)                 -> parseTypeDeclarationStmt([s EXCEPT !.ret = FALSE])
    [] isKeyword(s, {"structure"})   -> parseStructureStmt(s)
    [] isKeyword(s, {"union"})       -> parseUnionStmt(s)
    [] OTHER                         -> skipToNextStatement(s)

Fields(s) ==
  skipToNextStatement(readSubToken(
    While(s, LAMBDA t : ~ isKeyword(t, {"end"}), parseFieldDefinition)))

parseMap(s) == Fields(skipToNextStatement(s))

parseUnionStmt(s) ==
  LET maps == While(skipToNextStatement(s), LAMBDA t : isKeyword(t, {"map"}), parseMap)
  IN skipToNextStatement(readSubToken(maps))

parseStructureStmt(s) ==
  LET t == readToken(s)
      u == readToken(t)
      isNamed == isIdentifier(u)
      name == CASE ~ Is(t, {"/"}) -> Ancestor("type", "anonymous")
                [] isNamed -> Ancestor("type", u.tok)
                [] OTHER -> Ancestor("", "")
      named == IF Is(t, {"/"})
               THEN skipPast(IF isNamed THEN makeFortranTag(u, "type", u.tok) ELSE u, Operators)
               ELSE t
      fields == While(named, isIdentifier, LAMBDA v :
                  After(readToken(makeFortranTag(v, "component", v.tok)), {","}))
  IN ancestorPop(Fields(ancestorPush(skipToNextStatement(fields), name)))

\* The contents of an interface have no tags, as the ancestor shows.
parseInterfaceBlock(s) ==
  LET Statement(t) ==
        CASE isKeyword(t, {"function", "subroutine"}) -> parseSubprogram(t, keyword(t.tok))
          [] isSubprogramPrefix(t) -> readToken(t)
          [] isTypeSpec(t)         -> parseTypeSpec(t)
          [] OTHER                 -> skipToNextStatement(t)
      first == readToken(s)
      t == CASE ~ isIdentifier(first) /\ isKeyword(first, {"assignment", "operator"}) ->
                  After(readToken(first), {"("})
             [] OTHER -> first
      last == While(ancestorPush(t, Ancestor("interface", "")),
                    LAMBDA u : ~ isKeyword(u, {"end"}), Statement)
  IN ancestorPop(skipToNextStatement(readSubToken(last)))

-------------------------------------------------------------------------------
(* Program units                                                           *)

parseEntryStmt(s) ==
  LET t == readToken(s)
  IN skipToNextStatement(IF isIdentifier(t) THEN makeFortranTag(t, "entry", t.tok) ELSE t)

\* Returns whether a statement function was found; its first statement that is none
\* has been passed over all the same.
parseStmtFunctionStmt(s) ==
  LET t == readToken(s)
      u == Parens(t)
  IN Return(skipToNextStatement(u), Is(t, {"("}) /\ Is(u, {"="}))

\* A word such as "enddo" is an identifier here.
parseDeclarationConstruct(s) ==
  LET t == readToken(s)
      Declared(u) == Return(u, TRUE)
  IN CASE isKeyword(s, {"entry"})     -> Declared(parseEntryStmt(s))
       [] isKeyword(s, {"interface"}) -> Declared(parseInterfaceBlock(s))
       [] isKeyword(s, {"stdcall"})   -> Declared(t)
       [] isKeyword(s, {"automatic"}) ->
            Declared(IF isTypeSpec(t) THEN parseTypeDeclarationStmt([t EXCEPT !.ret = FALSE])
                     ELSE skipToNextStatement(t))
       [] isKeyword(s, Ignored)       -> Declared(skipToNextStatement(s))
       [] isTypeSpec(s)     -> Declared(parseTypeDeclarationStmt([s EXCEPT !.ret = FALSE]))
       [] isIdentifier(s)   -> parseStmtFunctionStmt(s)
       [] isKeyword(s, {"common", "namelist"}) -> Declared(parseCommonNamelistStmt(s))
       [] isKeyword(s, {"structure"})          -> Declared(parseStructureStmt(s))
       [] isKeyword(s, Specifications)         -> Declared(skipToNextStatement(s))
       [] OTHER                                -> Return(s, FALSE)

parseImplicitPartStmt(s) ==
  CASE isKeyword(s, {"entry"}) -> Return(parseEntryStmt(s), TRUE)
    [] isKeyword(s, {"implicit", "include", "parameter", "format"}) ->
         Return(skipToNextStatement(s), TRUE)
    [] OTHER -> Return(s, FALSE)

\* As long as F finds something; returns whether it did.
Repeatedly(s, F(_)) ==
  LET RECURSIVE Loop(_, _)
      Loop(t, found) ==
        LET u == F(t) IN IF u.ret /\ ~ AtEnd(u) THEN Loop(u, TRUE) ELSE Return(u, found)
  IN Loop(s, FALSE)

skipStatementIfKeyword(s, keywords) ==
  IF isKeyword(s, keywords) THEN Return(skipToNextStatement(s), TRUE) ELSE Return(s, FALSE)

parseSpecificationPart(s) ==
  LET uses      == Repeatedly(s, LAMBDA t : skipStatementIfKeyword(t, {"use"}))
      implicits == Repeatedly(uses, parseImplicitPartStmt)
      others    == Repeatedly(implicits, parseDeclarationConstruct)
  IN Return(others, uses.ret \/ implicits.ret \/ others.ret)

\* To the end of the unit, and past it.
FinishUnit(s) ==
  LET t == While(s, LAMBDA u : ~ isKeyword(u, {"end"}), skipToNextStatement)
  IN ancestorPop(skipToNextStatement(readSubToken(t)))

parseBlockData(s) ==
  LET t == readToken(s)
      entered == IF isKeyword(t, {"data"}) THEN Enter(readToken(t), "block data")
                 ELSE ancestorPush(t, Ancestor("", ""))
  IN FinishUnit(parseSpecificationPart(skipToNextStatement(entered)))

parseInternalSubprogramPart(s) ==
  While(When(s, isKeyword(s, {"contains"}), skipToNextStatement),
        LAMBDA t : ~ isKeyword(t, {"end"}),
        LAMBDA t : CASE isKeyword(t, {"function", "subroutine"}) -> parseSubprogram(t, keyword(t.tok))
                     [] isTypeSpec(t) -> parseTypeSpec(t)
                     [] OTHER         -> readToken(t))

Contained(s) == When(s, isKeyword(s, {"contains"}), parseInternalSubprogramPart)

parseModule(s) ==
  FinishUnit(Contained(parseSpecificationPart(
    skipToNextStatement(Enter(readToken(s), "module")))))

\* Returns whether any statement was found.
parseExecutionPart(s) ==
  LET Statement(t) ==
        LET ended == readSubToken(t) IN
        CASE isKeyword(t, {"contains", "function", "subroutine"}) -> Return(t, FALSE)
          [] isKeyword(t, {"entry"}) -> Return(parseEntryStmt(t), TRUE)
          [] isKeyword(t, {"end"}) ->
               IF keyword(ended.second) \in {"do", "if", "select", "where"}
               THEN Return(skipToNextStatement(ended), TRUE) ELSE Return(ended, FALSE)
          [] isSubprogramPrefix(t)   -> Return(readToken(t), TRUE)
          [] OTHER                   -> Return(skipToNextStatement(t), TRUE)
  IN Repeatedly(s, Statement)

\* A subprogram is taken to end where its execution part does.
parseSubprogram(s, tag) ==
  LET start == skipToNextStatement(Enter(readToken(s), tag))
      body  == Contained(parseExecutionPart(parseSpecificationPart(start)))
  IN ancestorPop(skipToNextStatement(readSubToken(body)))

parseProgramUnit(s) ==
  LET Unit(t) ==
        LET one == parseSpecificationPart(t)
            two == parseExecutionPart(one)
        IN CASE isStatementEnd(t)            -> readToken(t)
             [] isKeyword(t, {"block"})      -> parseBlockData(t)
             [] isKeyword(t, {"end"})        -> skipToNextStatement(t)
             [] isKeyword(t, {"module"})     -> parseModule(t)
             [] isKeyword(t, {"program", "function", "subroutine"}) ->
                  parseSubprogram(t, keyword(t.tok))
             [] isSubprogramPrefix(t)        -> readToken(t)
             [] OTHER -> IF one.ret \/ two.ret THEN two ELSE readToken(two)
  IN While(readToken(s), LAMBDA t : TRUE, Unit)

newToken(text, free) ==
  Start(text) @@ [free |-> free, second |-> "", ancestors |-> <<>>]

\* In fixed form a label may stand in the margin of the first line as well.
findFortranTags(text, free) ==
  LET s == newToken(text, free)
  IN parseProgramUnit(IF free THEN s ELSE Label(s)).tags

-------------------------------------------------------------------------------
(* Fortran as one writes it, with its tags.  The variables of subprograms  *)
(* and what is within interfaces have none.  Units end with an "end" that  *)
(* stands alone, and no label follows the first line of one.               *)

Tag(kind, name, scope) == << kind, name, scope >>
Line(tokens) == Lit(tokens \o << "NL" >>)

End(unit) == Lit(<< "end", "NL" >>) \union Lit(<< "end", unit, "NL" >>)


Variable(tokens, kind, name, scope) ==
  Decl(tokens \o << "NL" >>, Tag(kind, name, scope))

Variables(kind, scope) ==
  UNION { Variable(<< "integer", "x" >>, kind, "x", scope),
          Variable(<< "real", "(", "8", ")", ",", "intent", "(", "in", ")", "::", "q" >>,
                   kind, "q", scope),
          Variable(<< "character", "*", "8", "c", "=", "'a'" >>, kind, "c", scope),
          Decl(<< "double", "precision", "d" >>, Tag(kind, "d", scope))
            ** Decl(<< ",", "e", "(", "10", ")", "NL" >>, Tag(kind, "e", scope)) }

Execution(scope) ==
  UNION { Line(<< "x", "=", "a" >>),
          Line(<< "if", "(", "a", ")", "then" >>) ** Line(<< "call", "b" >>) ** Line(<< "end", "if" >>),
          Line(<< "call", "b" >>) ** Decl(<< "100", "continue", "NL" >>, Tag("label", "100", scope))
            ** Line(<< "x", "=", "8" >>) }

Type(scope) ==
  Decl(<< "type", "t", "NL" >>, Tag("type", "t", scope))
    ** Opt(Line(<< "private" >>))
    ** Decl(<< "integer", "::", "m", "NL" >>, Tag("component", "m", << "type", "t" >>))
    ** Lit(<< "end", "type", "NL" >>)

Interface ==
  Line(<< "interface" >>) ** Line(<< "function", "i", "(", ")" >>) ** Line(<< "real", "x" >>)
    ** Line(<< "end", "function" >>) ** Line(<< "end", "interface" >>)

Common(scope) ==
  Decl(<< "common", "/", "cb", "/", "x", ",", "y", "(", "10", ")", "NL" >>,
       Tag("common", "cb", scope))

Subprogram(kind, prefix, name, scope) ==
  LET inside == << kind, name >> IN
  Decl(prefix \o << kind, name, "(", "a", ")", "NL" >>, Tag(kind, name, scope))
    ** (UNION { Line(<< "integer", "a" >>), Type(inside), Interface, Common(inside),
                Line(<< "implicit", "none" >>) })
    ** Execution(inside)
    ** End(kind)

\* A subroutine without variables.
Brief(name, scope) ==
  Decl(<< "subroutine", name, "NL" >>, Tag("subroutine", name, scope))
    ** Line(<< "call", "b" >>) ** Line(<< "end", "subroutine" >>)

Module ==
  LET inside == << "module", "m" >> IN
  Decl(<< "module", "m", "NL" >>, Tag("module", "m", <<>>))
    ** Opt(Line(<< "use", "o" >>))
    ** Variables("variable", inside)
    ** Opt(Line(<< "contains" >>) ** Brief("s", inside) ** Opt(Brief("g", inside)))
    ** End("module")

Program ==
  LET inside == << "program", "p" >> IN
  Decl(<< "program", "p", "NL" >>, Tag("program", "p", <<>>))
    ** Variables("variable", inside) ** Execution(inside) ** Lit(<< "end", "program", "NL" >>)

Structure ==
  Decl(<< "block", "data", "bd", "NL" >>, Tag("block data", "bd", <<>>))
    ** Decl(<< "structure", "/", "st", "/", "NL" >>, Tag("type", "st", << "block data", "bd" >>))
    ** Line(<< "union" >>)
    ** Line(<< "map" >>) ** Decl(<< "real", "u", "NL" >>, Tag("component", "u", << "type", "st" >>))
    ** Line(<< "end", "map" >>) ** Line(<< "end", "union" >>)
    ** Line(<< "end", "structure" >>)
    ** Common(<< "block data", "bd" >>) ** End("block")

Units ==
  UNION { Subprogram("subroutine", <<>>, "s1", <<>>),
          Subprogram("function", << "recursive" >>, "f", <<>>),
          Subprogram("function", << "integer" >>, "h", <<>>),
          Module, Program, Structure }

Sources == Units \union (Units ** Brief("z", <<>>))
================================================================================
