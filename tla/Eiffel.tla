--------------------------------- MODULE Eiffel ---------------------------------
(***************************************************************************)
(* eiffel.c: classes, and the features they declare or rename.  Tags are   *)
(* << kind, name, class >>; a string in quotes is a token, and the name of *)
(* an operator feature.                                                    *)
(***************************************************************************)
EXTENDS TokenStream, TLC

EiffelKeywordTable ==
  { "alias", "all", "and", "as", "assign", "attached", "check", "class", "convert", "create",
    "creation", "current", "debug", "deferred", "detachable", "do", "else", "elseif", "end",
    "ensure", "expanded", "export", "external", "false", "feature", "from", "frozen", "if",
    "implies", "indexing", "infix", "inherit", "inspect", "invariant", "is", "like", "local",
    "loop", "not", "obsolete", "old", "once", "or", "prefix", "redefine", "rename", "require",
    "rescue", "result", "retry", "select", "separate", "strip", "then", "true", "undefine",
    "unique", "until", "variant", "when", "xor" }

Operators == { "+", "*", "^", "=", "-", ":=", "?=", "<", "<=", "<>", ">", ">=", "/", "//", "\\", "@" }
Strings == { "'+'", "'s'", "'t'" }
Others == { ";", "!", "}", "]", ")", ",", "$", ".", "{", "[", "(", "~", "->", ":", "?", "8" }

isKeyword(s) == s.tok \in EiffelKeywordTable
isOperator(s) == s.tok \in Operators
isString(s) == s.tok \in Strings
isIdentifier(s) == s.tok \notin EiffelKeywordTable \union Operators \union Strings \union Others
                                \union { "", "EOF" }

Begin(text) == [class |-> ""] @@ Start(text)
makeEiffelClassTag(s) == [MakeTag(s, << "class", s.tok, "" >>) EXCEPT !.class = s.tok]
makeEiffelFeatureTag(s) == MakeTag(s, << "feature", s.tok, s.class >>)

findToken(s, token) == While(s, LAMBDA t : ~ Is(t, {token}), ReadOn)
ReadIf(s, tokens) == When(s, Is(s, tokens), ReadOn)

-------------------------------------------------------------------------------
(* Types                                                                   *)

RECURSIVE parseType(_)

\* Of the brackets, counted, and the types between them.
parseGeneric(s) ==
  LET RECURSIVE Within(_, _)
      Within(t, depth) ==
        LET u == IF Is(t, { "[", "]" }) THEN ReadOn(t) ELSE parseType(t)
            d == CASE Is(t, {"["}) -> depth + 1 [] Is(t, {"]"}) -> depth - 1 [] OTHER -> depth
        IN IF AtEnd(u) \/ d = 0 THEN u ELSE Within(u, d)
  IN Within(s, 0)

\* id is the token before the one in hand.
parseType(s) ==
  LET t == ReadOn(s)
      label == Is(t, {":"})
      named == IF label THEN ReadOn(t) ELSE s
      u == IF label THEN ReadOn(named) ELSE t
      marked == Is(named, { "attached", "detachable", "expanded" })
      id == IF marked THEN u ELSE named
      v == IF marked THEN ReadOn(u) ELSE u
  IN CASE AtEnd(v)            -> v
       [] Is(named, {"like"}) -> When(u, isIdentifier(u) \/ Is(u, {"current"}), ReadOn)
       [] ~ isIdentifier(id)  -> v
       [] Is(v, {"["})        -> parseGeneric(v)
       [] OTHER               -> When(v, Is(id, {"BIT"}), ReadOn)

parseEntityType(s) == When(ReadIf(ReadOn(s), { "!", "?" }), TRUE, parseType)

-------------------------------------------------------------------------------
(* Features                                                                *)

\* The kind of local entities is disabled: no tag.
parseLocal(s) ==
  While(ReadOn(s), LAMBDA t : ~ Is(t, { "do", "once" }),
        LAMBDA t : LET u == ReadOn(t) IN When(u, Is(u, {":"}), parseEntityType))

Bodies == { "deferred", "do", "external", "local", "obsolete", "once", "require" }
Inner == { "check", "debug", "from", "if", "inspect" }

\* Up to the end of the body, and past it.
FindBodyEnd(s) ==
  LET RECURSIVE Find(_, _)
      Find(t, depth) ==
        LET d == CASE Is(t, Inner) -> depth + 1 [] Is(t, {"end"}) -> depth - 1 [] OTHER -> depth
            u == ReadOn(When(t, Is(t, {"local"}), parseLocal))
        IN IF AtEnd(u) \/ d = 0 THEN u ELSE Find(u, d)
  IN Find(s, 1)

findFeatureEnd(s) ==
  LET isFound == Is(s, {"is"})
      t == ReadIf(s, {"is"})
  IN CASE Is(t, Bodies)            -> FindBodyEnd(t)
       [] isFound \/ isOperator(t) -> ReadOn(When(t, isOperator(t), ReadOn))
       [] OTHER                    -> t

\* The result tells whether the token in hand is the name of a feature.
readFeatureName(s) ==
  LET t == ReadIf(s, {"frozen"})
      u == ReadIf(t, { "infix", "prefix" })
  IN Return(u, IF Is(t, { "infix", "prefix" }) THEN isString(u)
               ELSE isIdentifier(t) \/ Is(t, {"assign"}))

parseArguments(s) == ReadOn(findToken(s, ")"))

AfterName(s) == ReadIf(ReadOn(s), {","})
ParseNames(s) ==
  While(readFeatureName(s), LAMBDA t : t.ret,
        LAMBDA t : readFeatureName(AfterName(makeEiffelFeatureTag(t))))

ParseAlias(s) == LET t == ReadOn(s) IN ReadOn(When(t, isString(t), makeEiffelFeatureTag))
ParseObsolete(s) == LET t == ReadOn(s) IN When(t, isString(t), ReadOn)

parseFeature(s) ==
  LET found == readFeatureName(s).ret
      a == ParseNames(s)
      b == When(a, Is(a, {"alias"}), ParseAlias)
      c == When(b, Is(b, {"("}), parseArguments)
      d == When(c, Is(c, {":"}), parseEntityType)
      e == When(d, Is(d, {"assign"}), LAMBDA t : ReadOn(ReadOn(t)))
      f == When(e, Is(e, {"obsolete"}), ParseObsolete)
  IN Return(IF found THEN When(f, TRUE, findFeatureEnd) ELSE a, found)

\* Mutant: the export clause is part of the first feature.
skipExport(s) == ReadOn(s)

\* Who may use the features changes no tag.
parseExport(s) ==
  LET t == ReadOn(s) IN When(t, Is(t, {"{"}), LAMBDA u : ReadOn(findToken(u, "}")))

parseFeatureClauses(s) ==
  LET Clause(t) ==
        LET u == When(t, Is(t, {"feature"}), parseExport)
            v == parseFeature(u)
        IN CASE AtEnd(u) \/ Is(u, { "feature", "invariant", "indexing" }) -> u
             [] v.ret -> v
             [] OTHER -> ReadOn(v)
  IN While(Clause(s), LAMBDA t : ~ Is(t, { "end", "invariant", "indexing" }), Clause)

-------------------------------------------------------------------------------
(* Classes                                                                 *)

NewName(s) ==
  LET t == readFeatureName(ReadOn(s)) IN
  When(t, t.ret, LAMBDA u : ReadOn(makeEiffelFeatureTag(u)))

RenameOne(s) ==
  LET t == readFeatureName(ReadOn(s))
      u == ReadOn(t)
  IN IF ~ t.ret THEN t ELSE When(u, Is(u, {"as"}), NewName)

parseRename(s) == While(RenameOne(s), LAMBDA t : Is(t, {","}), RenameOne)

parseInherit(s) ==
  LET Adapted(t) ==
        CASE Is(t, {"rename"}) -> ReadOn(findToken(parseRename(t), "end"))
          [] Is(t, { "export", "undefine", "redefine", "select" }) -> ReadOn(findToken(t, "end"))
          [] OTHER -> ReadIf(t, {"end"})
  IN While(ReadOn(s), isIdentifier, LAMBDA t : ReadIf(Adapted(parseType(t)), {";"}))

\* The name of a procedure is still in hand where its "(" or ":" is looked for.
parseConvert(s) == While(ReadOn(s), LAMBDA t : Is(t, {","}), ReadOn)

parseClass(s) ==
  LET t == ReadOn(s)
      Part(u) ==
        CASE Is(u, {"["})       -> parseGeneric(u)
          [] Is(u, {"inherit"}) -> parseInherit(u)
          [] Is(u, {"feature"}) -> parseFeatureClauses(u)
          [] Is(u, {"convert"}) -> parseConvert(u)
          [] OTHER              -> ReadOn(u)
      named == When(t, isIdentifier(t), LAMBDA u : ReadOn(makeEiffelClassTag(u)))
  IN While(When(named, TRUE, Part), LAMBDA u : ~ Is(u, {"end"}), Part)

findEiffelTags(text) ==
  While(Begin(text), LAMBDA s : TRUE,
        LAMBDA s : When(findToken(s, "class"), TRUE, parseClass)).tags

-------------------------------------------------------------------------------
(* Eiffel as one writes it, with its tags.  Creation and conversion        *)
(* clauses come before the features; notes before or after the class.      *)

Feature(text, name) == Decl(text, << "feature", name, "C" >>)

Types ==
  { << "D" >>, << "LIST", "[", "D", ",", "LIST", "[", "D", "]", "]" >>, << "like", "current" >>,
    << "detachable", "D" >>, << "?", "D" >>, << "BIT", "8" >>, << "TUPLE", "[", "v", ":", "D", "]" >> }
Typed == UNION {Lit(<< ":" >> \o t) : t \in Types}
Arguments == Lit(<< "(", "x", ":", "D", ";", "y", ":", "LIST", "[", "D", "]", ")" >>)

Instructions ==
  UNION { Lit(<< "x", ":=", "y" >>),
          Lit(<< "if", "x", "then", "y", ":=", "8", "else", "x", ":=", "y", "end" >>),
          Lit(<< "from", "x", ":=", "8", "until", "y", "loop", "check", "y", "end", "end" >>) }

Routine ==
  (UNION { Lit(<< "do" >>) ** Instructions ** Opt(Lit(<< "rescue", "retry" >>)),
          Lit(<< "require", "x", "local", "z", ":", "LIST", "[", "D", "]", "do" >>) ** Instructions
            ** Lit(<< "ensure", "y" >>),
          Lit(<< "is", "deferred" >>), Lit(<< "once", "x", ":=", "y" >>),
          Lit(<< "is", "external", "'s'", "alias", "'s'" >>),
          Lit(<< "obsolete", "'s'", "do" >>) }) ** Lit(<< "end" >>)

\* A query without a body is an attribute.
Signature == Opt(Arguments) ** (Lit(<< ":", "D" >>) \union Lit(<<>>))
Features ==
  UNION { Feature(<< "f" >>, "f") ** Signature ** Routine,
          Feature(<< "a" >>, "a") ** Typed,
          Feature(<< "b", "," >>, "b") ** Feature(<< "c" >>, "c") ** Typed,
          Feature(<< "k" >>, "k") ** Lit(<< ":", "D" >>)
            ** (Lit(<< "is", "8" >>) \union Lit(<< "=", "8" >>)),
          Feature(<< "infix", "'+'" >>, "'+'") ** Arguments ** Lit(<< ":", "D", "is", "do", "end" >>),
          Feature(<< "frozen", "p" >>, "p")
            ** Feature(<< "alias", "'+'" >>, "'+'") ** Arguments ** Lit(<< ":", "D", "do", "end" >>),
          Feature(<< "g" >>, "g") ** Lit(<< ":", "D", "assign", "h" >>) }

LastFeature == Feature(<< "last" >>, "last") ** Lit(<< ":", "D" >>)

Clauses ==
  Lit(<< "feature" >>)
    ** (UNION { Features ** LastFeature, Lit(<< "{", "NONE", "}" >>) ** LastFeature,
               LastFeature ** Lit(<< "feature", "{", "D", ",", "LIST", "}" >>) ** Features })

Inheritance ==
  UNION { Lit(<< "inherit", "A" >>),
          Lit(<< "inherit", "A", "redefine", "f", "end", "LIST", "[", "D", "]", ";", "B" >>),
          Lit(<< "inherit", "A", "rename", "f", "as" >>) ** Feature(<< "r" >>, "r")
            ** Lit(<< ",", "infix", "'t'", "as" >>) ** Feature(<< "s" >>, "s")
            ** Lit(<< "export", "{", "NONE", "}", "all", "end", "B" >>) }

Heading == Decl(<< "class", "C" >>, << "class", "C", "" >>)
          ** Opt(Lit(<< "[", "G", "->", "D", "create", "make", "end", ",", "H", "]" >>))

Sources ==
  Opt(Lit(<< "indexing", "x", ":", "'s'", "deferred" >>))
    ** (UNION { Heading ** Clauses,
               Heading ** Inheritance ** Opt(Lit(<< "create", "make", ",", "f" >>))
                 ** Lit(<< "feature" >>) ** LastFeature ** Opt(Lit(<< "invariant", "x", "=", "y" >>)),
               Heading ** Lit(<< "convert", "make", "(", "{", "D", "}", ")" >>)
                 ** Lit(<< "feature" >>) ** LastFeature })
    ** Lit(<< "end" >>)
================================================================================
