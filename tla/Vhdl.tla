---------------------------------- MODULE Vhdl ----------------------------------
(***************************************************************************)
(* vhdl.c: declarations by their keyword, wherever it is.  The kinds of    *)
(* components, prototypes and local definitions are disabled.              *)
(***************************************************************************)
EXTENDS TokenStream

VhdlKeywordTable ==
  { "abs", "access", "after", "alias", "all", "and", "architecture", "array", "assert",
    "attribute", "begin", "block", "body", "buffer", "bus", "case", "component",
    "configuration", "constant", "disconnect", "downto", "else", "elsif", "end", "entity",
    "exit", "file", "for", "function", "generate", "generic", "group", "guarded", "if",
    "impure", "in", "inertial", "inout", "is", "label", "library", "linkage", "literal",
    "loop", "map", "mod", "nand", "new", "next", "nor", "not", "null", "of", "on", "open",
    "or", "others", "out", "package", "port", "postponed", "procedure", "process", "pure",
    "range", "record", "register", "reject", "return", "rol", "ror", "select", "severity",
    "signal", "shared", "sla", "sli", "sra", "srl", "subtype", "then", "to", "transport",
    "type", "unaffected", "units", "until", "use", "variable", "wait", "when", "while",
    "with", "xnor", "xor" }

\* Tokens without a text, and strings; the text of a string is its name.
Marks == { "(", ")", ";", ".", ",", ":", ":=", "<=", "'", "-", "+", "1", "=" }
Strings == { "'+'" }

isIdentifier(tok) == tok \notin VhdlKeywordTable \union Marks \union Strings
String(tok) == IF tok \in Marks THEN "" ELSE tok

Enabled == { "constant", "type", "subtype", "record", "entity", "function", "procedure", "package" }

makeVhdlTag(s, kind, name) ==
  IF kind \in Enabled THEN MakeTag(s, << kind, String(name) >>) ELSE s

\* At the end of the file the token in hand stays, until another is read.
fileSkipToCharacter(s, c) ==
  LET RECURSIVE Skip(_)
      Skip(in) == IF in = <<>> THEN <<>> ELSE IF in[1] = c THEN Tail(in) ELSE Skip(Tail(in))
  IN IF AtEnd(s) THEN s ELSE [s EXCEPT !.in = Skip(@)]

ToSemicolon(s) == fileSkipToCharacter(s, ";")
skipToKeyword(s, keyword) == While(ReadOn(s), LAMBDA t : ~ Is(t, {keyword}), ReadOn)
skipToMatched(s) == ReadOn(SkipGroup(s, "(", ")"))

parsePackage(s) ==
  LET t == ReadOn(s)
      body == ReadOn(t)
  IN CASE Is(t, {"body"})     -> makeVhdlTag(body, "package", body.tok)
       [] isIdentifier(t.tok) -> makeVhdlTag(t, "package", t.tok)
       [] OTHER               -> t

\* Nothing is looked for within an entity or a component.
ModuleEnd(s) == ToSemicolon(skipToKeyword(s, "end"))
parseModule(s) ==
  LET name == ReadOn(s)
      t == ReadOn(name)
  IN CASE Is(s, {"component"}) -> ModuleEnd(makeVhdlTag(name, "component", name.tok))
       [] Is(t, {"is"})        -> ModuleEnd(makeVhdlTag(t, "entity", name.tok))
       [] OTHER                -> t

parseRecord(s) ==
  LET Field(name) == ReadOn(makeVhdlTag(ToSemicolon(ReadOn(name)), "record", name.tok))
  IN ToSemicolon(While(Field(ReadOn(s)), LAMBDA t : ~ Is(t, {"end"}), Field))

parseTypes(s) ==
  LET name == ReadOn(s)
      t == ReadOn(name)
      u == makeVhdlTag(ReadOn(t), s.tok, name.tok)
  IN CASE ~ Is(t, {"is"})     -> t
       [] Is(u, {"record"})   -> parseRecord(u)
       [] OTHER               -> u

parseConstant(s, local) ==
  LET name == ReadOn(s)
  IN ToSemicolon(makeVhdlTag(name, IF local THEN "local" ELSE "constant", name.tok))

RECURSIVE parseKeywords(_, _)

\* Mutant: the name after the end is not looked at.
endsByKind(tok, kind, name) == tok = kind

\* The end of the subprogram names it, or says what it is.
EndsSubProgram(tok, kind, name) == tok = kind \/ (tok = name /\ isIdentifier(name))

Body(s, kind, name) ==
  LET One(t) ==
        LET u == ReadOn(t)
            v == ReadOn(u)
        IN CASE AtEnd(u)       -> u
             [] Is(u, {"end"}) -> Return(ToSemicolon(v), EndsSubProgram(v.tok, kind, name))
             [] OTHER          -> Return(parseKeywords(u, TRUE), FALSE)
  IN While(Return(s, FALSE), LAMBDA t : ~ t.ret, One)

parseSubProgram(s) ==
  LET kind == s.tok
      name == ReadOn(s)
      t == ReadOn(name)
      u == When(t, Is(t, {"("}), skipToMatched)
      v == When(u, kind = "function" /\ Is(u, {"return"}),
                LAMBDA w : While(ReadOn(w), LAMBDA x : ~ Is(x, { "is", ";" }), ReadOn))
  IN CASE Is(v, {";"})  -> makeVhdlTag(v, "prototype", name.tok)
       [] Is(v, {"is"}) -> Body(makeVhdlTag(v, kind, name.tok), kind, name.tok)
       [] OTHER         -> v

parseKeywords(s, local) ==
  CASE Is(s, {"end"})                     -> ToSemicolon(s)
    [] Is(s, {"constant"})                -> parseConstant(s, local)
    [] Is(s, { "type", "subtype" })       -> parseTypes(s)
    [] Is(s, { "entity", "component" })   -> parseModule(s)
    [] Is(s, { "function", "procedure" }) -> parseSubProgram(s)
    [] Is(s, {"package"})                 -> parsePackage(s)
    [] OTHER                              -> s

findVhdlTags(text) ==
  While(Start(text), LAMBDA s : TRUE, LAMBDA s : parseKeywords(ReadOn(s), FALSE)).tags

-------------------------------------------------------------------------------
(* VHDL as one writes it, with its tags.  The end of a subprogram repeats  *)
(* "function" or "procedure", or its name; an end on its own is left out.  *)

Ports == << "port", "(", "a", ":", "in", "T", ";", "b", ":", "out", "T", "(", "1", ")", ")", ";" >>
Signature == { <<>>, << "(", "a", ":", "T", ";", "b", ":", "T", "(", "1", ")", ")" >> }

Entity == Decl(<< "entity", "E", "is" >> \o Ports, << "entity", "E" >>)
            ** (Lit(<< "end", "E", ";" >>) \union Lit(<< "end", ";" >>))

Constant == Decl(<< "constant", "c", ":", "T", ":=", "1", ";" >>, << "constant", "c" >>)

Type(name, text) == Decl(<< "type", name, "is" >> \o text, << "type", name >>)
Types ==
  UNION { Type("t1", << "(", "x", ",", "y", ")", ";" >>),
          Type("t2", << "array", "(", "1", "to", "1", ")", "of", "T", ";" >>),
          Decl(<< "subtype", "s1", "is", "T", "range", "1", "to", "1", ";" >>, << "subtype", "s1" >>),
          Type("t3", << "record" >>) ** Decl(<< "f1", ":", "T", ";" >>, << "record", "f1" >>)
            ** Decl(<< "f2", ":", "T", ":=", "1", ";" >>, << "record", "f2" >>)
            ** Lit(<< "end", "record", ";" >>) }

Statements ==
  UNION { Lit(<< "x", ":=", "y", "-", "1", ";" >>),
          Lit(<< "if", "x", "then", "return", "y", ";", "end", "if", ";" >>),
          Lit(<< "loop", "wait", "until", "clk", "'", "event", "and", "clk", "=", "'+'", ";", "end", "loop", ";" >>) }

\* The constants of a subprogram are local.
LocalConstant == Lit(<< "constant", "l", ":", "T", ":=", "1", ";" >>)

Ends(kind, name) == Lit(<< "end", kind, ";" >>) \union Lit(<< "end", name, ";" >>)

\* inner: the subprograms of a subprogram.
SubProgram(kind, name, inner) ==
  (UNION {Decl(<< kind, name >> \o h \o (IF kind = "function" THEN << "return", "T", "is" >> ELSE << "is" >>),
               << kind, name >>) : h \in Signature})
    ** Opt(LocalConstant) ** inner ** Lit(<< "begin" >>) ** Statements ** Ends(kind, name)

Helper == Decl(<< "procedure", "q", "is", "begin", "x", ":=", "1", ";", "end", "q", ";" >>, << "procedure", "q" >>)

SubPrograms == SubProgram("function", "f", Opt(Helper)) \union SubProgram("procedure", "p", Lit(<<>>))

Prototypes ==
  UNION {Lit(<< "function", "f" >> \o h \o << "return", "T", ";", "procedure", "p" >> \o h \o << ";" >>) :
           h \in Signature}

Package(body, inner) ==
  Decl(<< "package" >> \o body \o << "P", "is" >>, << "package", "P" >>) ** inner
    ** (Lit(<< "end", "P", ";" >>) \union Lit(<< "end", "package", ";" >>))

Architecture ==
  Lit(<< "architecture", "A", "of", "E", "is", "signal", "s", ":", "T", ";",
         "component", "C", "is" >> \o Ports \o << "end", "component", ";" >>)
    ** Constant ** Lit(<< "begin", "process", "begin" >>) ** Statements
    ** Lit(<< "end", "process", ";", "end", "A", ";" >>)

Sources ==
  (UNION { Entity, Architecture, Package(<<>>, Prototypes), Package(<<>>, Types),
           Package(<< "body" >>, SubPrograms) })
    ** Decl(<< "constant", "last", ":", "T", ";" >>, << "constant", "last" >>)
================================================================================
