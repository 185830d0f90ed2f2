----------------------------------- MODULE Sql -----------------------------------
(***************************************************************************)
(* sql.c: the declarations of several dialects, between words that are     *)
(* skipped.                                                                *)
(***************************************************************************)
EXTENDS TokenStream, TLC

Marks == { "(", ")", ";", ",", ".", ":", "{", "}", "=", "[", "]", "~", "/", "<<", ">>" }

MLTable == { "ml_add_table_script", "ml_add_lang_table_script", "ml_add_dnet_table_script",
             "ml_add_java_table_script", "ml_add_lang_table_script_chk" }
MLConn == { "ml_add_connection_script", "ml_add_lang_connection_script",
            "ml_add_dnet_connection_script", "ml_add_java_connection_script",
            "ml_add_lang_conn_script_chk" }

Keywords == MLTable \union MLConn \union
  { "as", "is", "begin", "body", "cursor", "declare", "end", "function", "if", "else",
    "elseif", "endif", "loop", "while", "case", "for", "do", "call", "package", "pragma",
    "procedure", "record", "object", "ref", "return", "returns", "subtype", "table",
    "trigger", "type", "index", "event", "publication", "service", "domain", "datatype",
    "result", "url", "internal", "external", "when", "then", "variable", "exception",
    "at", "on", "primary", "references", "unique", "check", "constraint", "foreign",
    "ml_add_property", "local", "temporary", "drop", "view", "synonym", "handler",
    "comment", "create", "go" }

Strings == { "'a'", "'b'", "'c'" }

is == { "is", "as" }

isIdentifier(tok) == tok \notin Marks \union Keywords \union Strings \union {"EOF"}
isName(tok) == isIdentifier(tok) \/ tok \in Strings
String(tok) == IF tok \in Marks THEN NoName ELSE << tok >>

newToken(text) == Start(text) @@ [scope |-> NoName, begin_end_nest_lvl |-> 0]

Disabled == { "prototype", "local", "record" }

makeSqlTag(s, scope, tok, kind) ==
  IF kind \in Disabled THEN s ELSE MakeTag(s, << kind, Dot(scope, String(tok)) >>)

readToken(s) == ReadOn(s)

\* Reading into another token: the one in hand stays.
Aside(s) ==
  LET t == ReadOn(s) IN
  [s |-> IF AtEnd(t) THEN t ELSE [t EXCEPT !.tok = s.tok], tok |-> t.tok]

isCmdTerm(s) == Is(s, {";", "~", "/", "go"})

isMatchedEnd(s, nest_lvl) == nest_lvl > 0 /\ Is(s, {"end"}) /\ s.begin_end_nest_lvl = nest_lvl

ReadTo(s, tokens) == While(s, LAMBDA t : ~ Is(t, tokens), readToken)

findToken(s, tok) == ReadTo(s, {tok})

findCmdTerm(s, check_first) ==
  IF check_first /\ isCmdTerm(s) THEN s
  ELSE While(readToken(s), LAMBDA t : ~ isCmdTerm(t)
                                      /\ ~ isMatchedEnd(t, s.begin_end_nest_lvl), readToken)

\* Mutant: brackets within brackets are not counted.
skipToFirst(s) ==
  CASE Is(s, {"("}) -> readToken(ReadTo(s, {")"}))
    [] OTHER        -> s

skipToMatched(s) ==
  CASE Is(s, {"("}) -> readToken(SkipGroup(s, "(", ")"))
    [] Is(s, {"{"}) -> readToken(SkipGroup(s, "{", "}"))
    [] Is(s, {"["}) -> readToken(SkipGroup(s, "[", "]"))
    [] OTHER        -> s

skipArgumentList(s) == IF Is(s, {"("}) THEN skipToMatched(s) ELSE s

RECURSIVE parseBlock(_, _), parseDeclare(_, _), parseKeywords(_), parseStatements(_, _)

\* The name of a subprogram, which may have an owner, and what follows it.
SubProgramName(s) ==
  LET name  == readToken(s)
      mark  == readToken(name)
      owner == IF s.scope = NoName THEN mark ELSE addToScope(mark, String(name.tok))
      part  == readToken(owner)
  IN IF Is(mark, {"."}) THEN [s |-> readToken(part), tok |-> part.tok, scope |-> part.scope]
     ELSE [s |-> mark, tok |-> name.tok, scope |-> name.scope]

SkipReturns(s) ==
  IF Is(s, {"return", "returns"}) THEN skipArgumentList(readToken(readToken(s))) ELSE s

BodyStart == is \union {"begin"}
Elsewhere == {"at", "internal", "external", "url"}

\* A prototype, a body, or a body that is elsewhere.
parseSubProgram(s) ==
  LET kind == IF Is(s, {"function"}) THEN "function" ELSE "procedure"
      name == SubProgramName(s)
      args == skipArgumentList(name.s)
      head == IF kind = "function" THEN SkipReturns(args) ELSE args
      Skip(t) == IF Is(t, {"result"}) THEN skipArgumentList(readToken(t)) ELSE readToken(t)
      body == While(head, LAMBDA t : ~ Is(t, BodyStart \union Elsewhere \union {"="})
                                     /\ ~ isCmdTerm(t), Skip)
      equal == IF Is(body, {"="}) THEN readToken(body) ELSE body
      start == IF Is(equal, {"declare"}) THEN parseDeclare(equal, FALSE) ELSE equal
      Tagged(t) == makeSqlTag(addToScope(t, String(name.tok)), name.scope, name.tok, kind)
      last == CASE isCmdTerm(head)     -> makeSqlTag(head, name.scope, name.tok, "prototype")
                [] Is(body, Elsewhere) -> Tagged(body)
                [] Is(start, BodyStart) -> parseBlock(Tagged(start), TRUE)
                [] OTHER               -> start
  IN [last EXCEPT !.scope = s.scope]

\* The fields of a record or the columns of a table.
parseRecord(s) ==
  LET RECURSIVE Fields(_)
      Fields(t) ==
        LET field == IF Is(t, {",", "("}) THEN readToken(t) ELSE t
            tagged == IF isName(field.tok) THEN makeSqlTag(field, field.scope, field.tok, "field")
                      ELSE field
            after == While(tagged, LAMBDA u : ~ Is(u, {",", ")", "("}),
                           LAMBDA u : skipArgumentList(readToken(u)))
        IN IF Is(after, {")", "EOF"}) THEN after ELSE Fields(after)
  IN Fields(IF Is(s, {"("}) THEN s ELSE readToken(s))

parseType(s) ==
  LET name == Aside(s)
      word == readToken(name.s)
      kind == addToScope(readToken(word), String(name.tok))
      ref  == readToken(kind)
      last == CASE ~ isIdentifier(name.tok)      -> name.s
                [] ~ Is(word, is)                -> word
                [] Is(kind, {"record", "object"}) ->
                     parseRecord(makeSqlTag(kind, s.scope, name.tok, "record"))
                [] Is(kind, {"table"})           -> makeSqlTag(kind, s.scope, name.tok, "table")
                [] Is(kind, {"ref"}) -> IF Is(ref, {"cursor"})
                                          THEN makeSqlTag(ref, s.scope, name.tok, "cursor") ELSE ref
                [] OTHER                         -> kind
  IN [last EXCEPT !.scope = s.scope]

parseSimple(s, kind) ==
  LET t == readToken(s) IN IF isName(t.tok) THEN makeSqlTag(t, t.scope, t.tok, kind) ELSE t

TagVariable(s, tok, local) == makeSqlTag(s, s.scope, tok, IF local THEN "local" ELSE "variable")

\* Declarations between DECLARE, or IS, and BEGIN.
Declaration(s, local) ==
  CASE Is(s, {"cursor"})  -> parseSimple(s, "cursor")
    [] Is(s, {"subtype"}) -> parseSimple(s, "subtype")
    [] Is(s, {"trigger"}) -> parseSimple(s, "trigger")
    [] Is(s, {"function", "procedure"}) -> parseSubProgram(s)
    [] Is(s, {"type"})    -> parseType(s)
    [] isIdentifier(s.tok) -> TagVariable(s, s.tok, local)
    [] OTHER              -> s

parseDeclare(s, local) ==
  While(IF Is(s, {"declare"}) THEN readToken(s) ELSE s,
        LAMBDA t : ~ Is(t, {"begin", "end"}),
        LAMBDA t : readToken(findToken(Declaration(t, local), ";")))

\* Declarations that each have a DECLARE of their own, within BEGIN.
DeclarationANSI(s, local) ==
  LET first == readToken(s)
      type  == Aside(first)
      table == readToken(type.s)
      name  == readToken(table)
  IN CASE type.tok = "cursor" -> makeSqlTag(type.s, first.scope, first.tok, "cursor")
       [] Is(first, {"local"}) /\ type.tok = "temporary" ->
            IF ~ Is(table, {"table"}) THEN table
            ELSE IF isName(name.tok) THEN makeSqlTag(name, name.scope, name.tok, "table") ELSE name
       [] isName(first.tok) -> TagVariable(type.s, first.tok, local)
       [] OTHER -> type.s

parseDeclareANSI(s, local) ==
  While(s, LAMBDA t : Is(t, {"declare"}),
        LAMBDA t : readToken(findToken(DeclarationANSI(t, local), ";")))

\* "<<label>>".
parseLabel(s) ==
  LET t == readToken(s) IN
  IF isIdentifier(t.tok) THEN readToken(makeSqlTag(t, t.scope, t.tok, "label")) ELSE t

-------------------------------------------------------------------------------
(* Statements                                                              *)

On(s) == [s |-> s, term |-> FALSE, out |-> FALSE]
Ended(s) == [s |-> s, term |-> isCmdTerm(s), out |-> FALSE]

\* Statements up to a word that ends them, each with its terminator.
StatementsTo(s, words, exit_on_endif, F(_)) ==
  While(s, LAMBDA t : ~ Is(t, words), LAMBDA t :
    LET u == parseStatements(F(t), exit_on_endif) IN IF isCmdTerm(u) THEN readToken(u) ELSE u)

Same(s) == s
PastElse(s) == IF Is(s, {"else", "elseif"}) THEN readToken(s) ELSE s

\* IF is followed by THEN and statements, or by a block.
IfStatement(s) ==
  LET then  == ReadTo(s, {"then", "begin"})
      last  == StatementsTo(readToken(then), {"end", "endif"}, TRUE, PastElse)
      end   == IF Is(last, {"end"}) THEN readToken(last) ELSE last
  IN CASE Is(then, {"begin"})      -> Ended(parseBlock(then, FALSE))
       [] Is(end, {"if", "endif"}) -> Ended(readToken(end))
       [] OTHER                    -> On(end)

LoopBody(s) ==
  LET last == StatementsTo(readToken(s), {"end"}, FALSE, Same)
      end  == readToken(last)
  IN Ended(IF Is(end, {"loop", "case", "for"}) THEN readToken(end) ELSE end)

LoopStatement(s) ==
  LET as == readToken(readToken(s)) IN
  CASE ~ Is(s, {"for"}) -> LoopBody(s)
    [] Is(as, is)       -> LoopBody(ReadTo(as, {"do"}))
    [] OTHER            -> [On(as) EXCEPT !.out = TRUE]

StatementStart(s) ==
  CASE Is(s, {"if"})                   -> IfStatement(s)
    [] Is(s, {"loop", "case", "for"})  -> LoopStatement(s)
    [] Is(s, {"create"})               -> On(parseKeywords(readToken(s)))
    [] Is(s, {"declare", "begin"})     -> On(parseBlock(s, TRUE))
    [] Is(s, {"end"})                  -> On(s)
    [] OTHER                           -> On(readToken(s))

\* The words of a statement up to its terminator; those that begin a statement of
\* their own are parsed as one.
RECURSIVE StatementRest(_, _)
StatementRest(r, exit_on_endif) ==
  LET colon == IF Is(r.s, {":"}) THEN readToken(r.s) ELSE r.s
      word  == skipToMatched(readToken(colon))
      next  == CASE Is(word, {"<<", "exception", "loop", "case", "for", "begin"}) ->
                      parseStatements(word, FALSE)
                 [] Is(word, {"if"}) -> parseStatements(word, TRUE)
                 [] OTHER            -> word
      Out(t) == [r EXCEPT !.s = t, !.out = TRUE]
  IN CASE r.out \/ r.term \/ isCmdTerm(r.s) \/ Is(r.s, {"end", "EOF"}) -> r
       [] exit_on_endif /\ Is(r.s, {"endif"})                          -> Out(r.s)
       [] Is(r.s, {":"}) /\ Is(colon, {"loop", "while", "for"})        -> Out(colon)
       [] OTHER -> StatementRest([r EXCEPT !.s = next], exit_on_endif)

parseStatements(s, exit_on_endif) ==
  LET r == CASE Is(s, {"<<"})        -> Ended(parseLabel(s))
             [] Is(s, {"exception"}) -> On(readToken(s))
             [] Is(s, {"when"})      -> On(readToken(ReadTo(s, {"then"})))
             [] OTHER -> LET q == StatementRest(StatementStart(s), exit_on_endif)
                         IN [q EXCEPT !.term = @ \/ isCmdTerm(q.s)]
  IN IF r.out \/ r.term \/ Is(r.s, {"end", "EOF"}) \/ (exit_on_endif /\ Is(r.s, {"endif"}))
       THEN r.s ELSE parseStatements(r.s, exit_on_endif)

parseBlock(s, local) ==
  LET label == IF Is(s, {"<<"}) THEN readToken(parseLabel(s)) ELSE s
      begin == IF Is(label, {"begin"}) THEN label ELSE parseDeclare(readToken(label), local)
      first == parseDeclareANSI(readToken(begin), local)
      last  == StatementsTo([first EXCEPT !.begin_end_nest_lvl = @ + 1], {"end"}, FALSE, Same)
  IN IF Is(begin, {"begin"}) THEN readToken([last EXCEPT !.begin_end_nest_lvl = @ - 1])
     ELSE begin

-------------------------------------------------------------------------------
(* What CREATE creates                                                     *)

\* A name, which may have an owner.
OwnedName(s) ==
  LET name == Aside(s)
      mark == readToken(name.s)
      part == Aside(mark)
  IN IF Is(mark, {"."}) THEN [s |-> readToken(part.s), tok |-> part.tok]
     ELSE [s |-> mark, tok |-> name.tok]

TagName(s, name, kind) == IF isName(name) THEN makeSqlTag(s, NoName, name, kind) ELSE s

parsePackage(s) ==
  LET first == Aside(s)
      name  == IF first.tok = "body" THEN Aside(first.s) ELSE first
      RECURSIVE Parts(_)
      Parts(n) == LET t == readToken(n.s) IN
                  CASE Is(t, is \union {"EOF"}) -> [n EXCEPT !.s = t]
                    [] Is(t, {"."})             -> Parts(Aside(t))
                    [] OTHER                    -> Parts([n EXCEPT !.s = t])
      whole == Parts(name)
      body  == parseBlock(addToScope(TagName(whole.s, whole.tok, "package"), String(whole.tok)),
                          FALSE)
  IN findCmdTerm([body EXCEPT !.scope = NoName], FALSE)

\* A name, or one in brackets.
BracketedName(s) ==
  LET first == Aside(s)
      inner == Aside(first.s)
  IN IF first.tok = "[" THEN [s |-> readToken(inner.s), tok |-> inner.tok] ELSE first

\* The last of up to three parts of a name, of which the second may be missing.
TableName(s) ==
  LET a == BracketedName(s)
      first  == [a EXCEPT !.s = readToken(a.s)]
      b == BracketedName(first.s)
      c == IF b.tok = "." THEN BracketedName(b.s) ELSE b
      second == [c EXCEPT !.s = readToken(c.s)]
      d == BracketedName(second.s)
  IN CASE ~ Is(first.s, {"."})  -> first
       [] ~ Is(second.s, {"."}) -> second
       [] OTHER                 -> [d EXCEPT !.s = readToken(d.s)]

parseTable(s) ==
  LET name   == TableName(s)
      tagged == TagName(name.s, name.tok, "table")
      record == parseRecord([tagged EXCEPT !.scope = String(name.tok)])
  IN findCmdTerm(CASE Is(name.s, {"("}) /\ isName(name.tok) -> [record EXCEPT !.scope = NoName]
                   [] Is(name.s, {"at"}) /\ isIdentifier(name.tok) -> tagged
                   [] OTHER -> name.s, FALSE)

parseIndex(s) ==
  LET name  == OwnedName(s)
      owner == OwnedName(name.s)
  IN findCmdTerm(IF Is(name.s, {"on"}) /\ isName(name.tok)
                   THEN makeSqlTag(owner.s, String(owner.tok), name.tok, "index")
                   ELSE name.s, FALSE)

parseEvent(s) ==
  LET first == Aside(s)
      mark  == readToken(first.s)
      name  == IF Is(mark, {"."}) THEN Aside(mark) ELSE [first EXCEPT !.s = mark]
      found == ReadTo(name.s, {"handler", ";"})
      tagged == makeSqlTag(found, NoName, name.tok, "event")
      body  == readToken(tagged)
  IN IF Is(found, {"handler"})
       THEN findCmdTerm(IF Is(body, {"begin"}) THEN parseBlock(body, TRUE) ELSE body, TRUE)
       ELSE tagged

parseTrigger(s) ==
  LET name  == OwnedName(s)
      on    == While(name.s, LAMBDA t : ~ Is(t, {"on"}) /\ ~ isCmdTerm(t), readToken)
      table == OwnedName(on)
      Declared(t) == [parseDeclare(addToScope(t, String(name.tok)), TRUE) EXCEPT !.scope = NoName]
      body  == While(table.s, LAMBDA t : ~ Is(t, {"begin", "call"}) /\ ~ isCmdTerm(t),
                     LAMBDA t : IF Is(t, {"declare"}) THEN Declared(t) ELSE readToken(t))
      tagged == addToScope(makeSqlTag(body, String(table.tok), name.tok, "trigger"),
                           String(table.tok))
      last  == IF Is(body, {"begin"}) THEN parseBlock(tagged, TRUE) ELSE tagged
  IN findCmdTerm(CASE isCmdTerm(on) -> on
                   [] Is(body, {"begin", "call"}) -> [last EXCEPT !.scope = NoName]
                   [] OTHER -> body, TRUE)

parsePublication(s) ==
  LET name == OwnedName(s) IN
  findCmdTerm(IF Is(name.s, {"("}) THEN TagName(name.s, name.tok, "publication") ELSE name.s,
              FALSE)

parseService(s) ==
  LET name == Aside(s)
      t    == readToken(name.s)
  IN findCmdTerm(IF Is(t, {"type"}) THEN TagName(t, name.tok, "service") ELSE t, FALSE)

parseDomain(s) ==
  LET first == Aside(s)
      name  == IF first.tok \in is THEN Aside(first.s) ELSE first
  IN findCmdTerm(TagName(readToken(name.s), name.tok, "domain"), FALSE)

parseDrop(s) == findCmdTerm(s, FALSE)

parseVariable(s) ==
  LET name == Aside(s)
      t    == readToken(name.s)
  IN findCmdTerm(IF Is(t, {";"}) THEN t ELSE TagName(t, name.tok, "variable"), TRUE)

parseSynonym(s) ==
  LET name == Aside(s)
      t    == readToken(name.s)
  IN findCmdTerm(IF Is(t, {"for"}) THEN TagName(t, name.tok, "synonym") ELSE t, TRUE)

parseView(s) ==
  LET name == OwnedName(s)
      t    == ReadTo(skipArgumentList(name.s), is \union {";"})
  IN findCmdTerm(IF Is(t, is) THEN TagName(t, name.tok, "view") ELSE t, TRUE)

\* The first n arguments of a call; nothing is read after the last.
Arguments(s, n) ==
  LET RECURSIVE Read(_, _)
      Read(t, args) ==
        LET arg  == Aside(t)
            next == ReadTo(readToken(arg.s), {",", ")"})
            all  == Append(args, arg.tok)
        IN CASE Len(all) = n  -> [s |-> arg.s, args |-> all]
             [] Is(next, {","}) -> Read(next, all)
             [] OTHER         -> [s |-> next, args |-> all]
  IN Read(s, <<>>)

\* parseMLTable, parseMLConn and parseMLProp: n strings, of which the first is the
\* name and the others its scope.
parseML(s, n, kind) ==
  LET open == readToken(s)
      call == Arguments(open, n)
      isTag == Len(call.args) = n /\ \A i \in 1 .. n : call.args[i] \in Strings
      tagged == IF isTag THEN makeSqlTag(call.s, Tail(call.args), call.args[1], kind) ELSE call.s
  IN findCmdTerm(IF Is(open, {"("}) THEN findToken(tagged, ")") ELSE open, TRUE)

\* COMMENT ON ... IS {...}.
parseComment(s) ==
  LET text == readToken(ReadTo(s, is)) IN
  findCmdTerm(IF Is(text, {"{"}) THEN findToken(text, "}") ELSE text, TRUE)

parseKeywords(s) ==
  CASE Is(s, {"begin", "declare"})      -> parseBlock(s, FALSE)
    [] Is(s, {"comment"})               -> parseComment(s)
    [] Is(s, {"cursor"})                -> parseSimple(s, "cursor")
    [] Is(s, {"datatype", "domain"})    -> parseDomain(s)
    [] Is(s, {"drop"})                  -> parseDrop(s)
    [] Is(s, {"event"})                 -> parseEvent(s)
    [] Is(s, {"function", "procedure"}) -> parseSubProgram(s)
    [] Is(s, {"if"})                    -> parseStatements(s, FALSE)
    [] Is(s, {"index"})                 -> parseIndex(s)
    [] Is(s, MLTable)                   -> parseML(s, 3, "mltable")
    [] Is(s, MLConn)                    -> parseML(s, 2, "mlconn")
    [] Is(s, {"ml_add_property"})       -> parseML(s, 3, "mlprop")
    [] Is(s, {"package"})               -> parsePackage(s)
    [] Is(s, {"publication"})           -> parsePublication(s)
    [] Is(s, {"service"})               -> parseService(s)
    [] Is(s, {"subtype"})               -> parseSimple(s, "subtype")
    [] Is(s, {"synonym"})               -> parseSynonym(s)
    [] Is(s, {"table"})                 -> parseTable(s)
    [] Is(s, {"trigger"})               -> parseTrigger(s)
    [] Is(s, {"type"})                  -> parseType(s)
    [] Is(s, {"variable"})              -> parseVariable(s)
    [] Is(s, {"view"})                  -> parseView(s)
    [] OTHER                            -> s

parseSqlFile(s) ==
  While(s, LAMBDA t : TRUE, LAMBDA t :
    LET u == readToken(t) IN IF Is(u, {"<<"}) THEN parseLabel(u) ELSE parseKeywords(u))

findSqlTags(text) == parseSqlFile(newToken(text)).tags

-------------------------------------------------------------------------------
(* SQL scripts as one writes them, with their tags.                        *)

Tag(kind, name) == << kind, name >>

Simple == Lit(<< "call", "x", "(", "y", ")", ";" >>)

Compound ==
  UNION { Lit(<< "if", "a", "then" >>) ** Simple ** Lit(<< "else" >>) ** Simple
            ** Lit(<< "end", "if", ";" >>),
          Lit(<< "loop" >>) ** Simple ** Lit(<< "end", "loop", ";" >>),
          Lit(<< "begin" >>) ** Simple ** Lit(<< "end", ";" >>),
          Lit(<< "case", "a", "when", "b", "then" >>) ** Simple ** Lit(<< "end", "case", ";" >>) }

\* Prototypes, which have no tags unless asked for, are within packages.
Body == Lit(<< "begin" >>) ** (Lit(<< "x", ";" >>) \union Compound) ** Lit(<< "end", ";" >>)

Routines ==
  UNION { Decl(<< "create", "function", "f", "(", "a", "b", ")", "return", "t", "is" >>,
               Tag("function", << "f" >>)) ** Body,
          Decl(<< "create", "procedure", "p", "as" >>, Tag("procedure", << "p" >>)) ** Body,
          Decl(<< "create", "procedure", "o", ".", "q", "(", "a", "b", ")" >>,
               Tag("procedure", << "q" >>)) ** Body }

Package ==
  Decl(<< "create", "package", "k", "as" >>, Tag("package", << "k" >>))
    ** Opt(Lit(<< "procedure", "pp", ";" >>))
    ** Opt(Decl(<< "type", "y", "is", "record", "(", "a", "t", ")", ";" >>,
                Tag("field", << "k", "y", "a" >>)))
    ** Lit(<< "end", ";" >>)

PackageBody ==
  Decl(<< "create", "package", "body", "j", "as" >>, Tag("package", << "j" >>))
    ** Opt(Decl(<< "v", "t", ";" >>, Tag("variable", << "j", "v" >>)))
    ** Opt(Decl(<< "cursor", "c", "is", "x", ";" >>, Tag("cursor", << "j", "c" >>)))
    ** Decl(<< "procedure", "h", "is" >>, Tag("procedure", << "j", "h" >>)) ** Body
    ** Lit(<< "end", "j", ";" >>)

Tables ==
  Decl(<< "create", "table", "t1", "(" >>, Tag("table", << "t1" >>))
    ** Decl(<< "a", "b" >>, Tag("field", << "t1", "a" >>))
    ** Opt(Decl(<< ",", "c", "d", "(", "e", ",", "(", "g", ")", ")" >>, Tag("field", << "t1", "c" >>)))
    ** Opt(Decl(<< ",", "i", "b" >>, Tag("field", << "t1", "i" >>)))
    ** Opt(Lit(<< ",", "primary", "key", "(", "a", ",", "c", ")" >>))
    ** Lit(<< ")", ";" >>)

Triggers ==
  Decl(<< "create", "trigger", "g", "after", "u", "on", "t" >>, Tag("trigger", << "t", "g" >>))
    ** Opt(Lit(<< "for", "each" >>)) ** Body

Others ==
  UNION { Decl(<< "create", "index", "i", "on", "t", "(", "a", ")", ";" >>, Tag("index", << "t", "i" >>)),
          Decl(<< "create", "event", "e", "handler" >>, Tag("event", << "e" >>)) ** Body,
          Decl(<< "create", "publication", "pb", "(", "table", "x", ")", ";" >>,
               Tag("publication", << "pb" >>)),
          Decl(<< "create", "service", "sv", "type", "a", ";" >>, Tag("service", << "sv" >>)),
          Decl(<< "create", "domain", "d1", "t", ";" >>, Tag("domain", << "d1" >>)),
          Decl(<< "create", "variable", "v1", "t", ";" >>, Tag("variable", << "v1" >>)),
          Decl(<< "create", "synonym", "s1", "for", "x", ";" >>, Tag("synonym", << "s1" >>)),
          Decl(<< "create", "view", "w1", "(", "a", ",", "b", ")", "as", "x", ";" >>,
               Tag("view", << "w1" >>)),
          Decl(<< "call", "ml_add_table_script", "(", "'a'", ",", "'b'", ",", "'c'", ",", "x", ")", ";" >>,
               Tag("mltable", << "'b'", "'c'", "'a'" >>)),
          Decl(<< "declare", "v2", "t", ";" >>, Tag("variable", << "v2" >>)) ** Body,
          Decl(<< "<<", "lab", ">>" >>, Tag("label", << "lab" >>)) ** Body,
          Lit(<< "drop", "table", "x", ";" >>),
          Lit(<< "comment", "on", "x", "is", "y", ";" >>) }

Statements == UNION { Routines, Package, PackageBody, Tables, Triggers, Others, Body }

\* What comes after shows what a statement has left.
Followers ==
  UNION { Decl(<< "create", "procedure", "last", "as" >>, Tag("procedure", << "last" >>)) ** Body,
          Decl(<< "create", "table", "last", "(" >>, Tag("table", << "last" >>))
            ** Decl(<< "a", "b", ")", ";" >>, Tag("field", << "last", "a" >>)),
          Decl(<< "create", "package", "body", "last", "as" >>, Tag("package", << "last" >>))
            ** Decl(<< "v", "t", ";" >>, Tag("variable", << "last", "v" >>))
            ** Lit(<< "end", ";" >>) }

Sources == Statements ** Followers
================================================================================
