------------------------------- MODULE JavaScript -------------------------------
(***************************************************************************)
(* jscript.c: statements, blocks and functions.                            *)
(***************************************************************************)
EXTENDS ScriptTokens

Keywords == { "function", "object", "prototype", "var", "new", "this", "for", "while",
              "do", "if", "else", "switch", "try", "catch", "finally" }

noKeyword(s) == s.tok \notin Keywords /\ ~ AtEnd(s)

newToken(text) ==
  Start(Lexed(text)) @@ [scope |-> NoName, nestLevel |-> 0, ignoreTag |-> FALSE,
                         ClassNames |-> {}, FunctionNames |-> {}]

makeJsTag(s, full, kind) == MakeTag(s, << kind, full >>)

makeClassTag(s, full) ==
  IF full \in s.ClassNames THEN s
  ELSE makeJsTag([s EXCEPT !.ClassNames = @ \union {full}], full, "class")

makeFunctionTag(s, full) ==
  IF full \in s.FunctionNames THEN s
  ELSE makeJsTag([s EXCEPT !.FunctionNames = @ \union {full}], full, "function")

makeEitherTag(s, full, is_class) ==
  IF is_class THEN makeClassTag(s, full) ELSE makeFunctionTag(s, full)

\* A block whose parent is the token itself, whose string changes as it is read.
Itself == << "Itself" >>

RECURSIVE parseBlock(_, _), parseLine(_, _), parseIf(_), parseFunction(_),
          parseStatement(_, _)

findCmdTerm(s) ==
  While(s, LAMBDA t : ~ Is(t, {";", "}"}),
        LAMBDA t : CASE Is(t, {"{"}) -> parseBlock(t, Itself)
                     [] Is(t, {"("}) -> skipArgumentList(t)
                     [] OTHER        -> readToken(t))

parseSwitch(s) ==
  LET t == skipArgumentList(readToken(s)) IN
  When(t, Is(t, {"{"}), LAMBDA u : parseBlock(u, Itself))

parseLoop(s) ==
  LET Body(t) == IF Is(t, {"{"}) THEN parseBlock(t, Itself) ELSE parseLine(t, FALSE)
      done == readToken(Body(readToken(s)))
  IN IF Is(s, {"for", "while"}) THEN Body(skipArgumentList(readToken(s)))
     ELSE When(done, Is(done, {"while"}), LAMBDA t : skipArgumentList(readToken(t)))

\* Also for else, try, catch and finally.  Returns whether to read another token.
parseIf(s) ==
  LET first == readToken(s)
      head  == skipArgumentList(When(first, Is(first, {"if"}), readToken))
      line  == findCmdTerm(head)
      next  == readToken(line)
  IN CASE Is(head, {"{"})    -> Return(parseBlock(head, Itself), TRUE)
       [] Is(line, {"}"})    -> Return(line, FALSE)
       [] Is(next, {"}"})    -> Return(next, FALSE)
       [] Is(next, {"else"}) -> parseIf(next)
       [] OTHER              -> Return(next, TRUE)

\* The further parts of a name with periods are added to it.
QualifiedName(s, string) ==
  LET RECURSIVE Parts(_, _)
      Parts(t, parts) ==
        LET u == readToken(t) IN
        IF Is(t, {"."}) THEN IF noKeyword(u) THEN Parts(readToken(u), Dot(parts, String(u)))
                             ELSE Parts(u, parts)
        ELSE [s |-> t, string |-> parts]
  IN Parts(s, string)

parseFunction(s) ==
  LET named == readToken(s)
      whole == QualifiedName(readToken(named), String(named))
      head  == skipArgumentList(whole.s)
      body  == parseBlock(head, whole.string)
  IN findCmdTerm(IF Is(head, {"{"})
                   THEN makeEitherTag(body, Dot(s.scope, whole.string), body.ret)
                   ELSE head)

\* One statement of a block; returns whether to read another token after it.
BlockStatement(s, parent, is_class) ==
  LET string == IF parent = Itself THEN String(s) ELSE parent
      Inside(F(_)) == Return([F(addToScope(s, string)) EXCEPT !.scope = s.scope], TRUE)
  IN CASE Is(s, {"this"})     -> Inside(LAMBDA t : parseLine(t, TRUE))
       [] Is(s, {"var"})      -> Inside(LAMBDA t : parseLine(t, is_class))
       [] Is(s, {"function"}) -> Inside(parseFunction)
       [] Is(s, {"{"})        -> Return(parseBlock(s, parent), TRUE)
       [] OTHER               -> parseLine(s, is_class)

\* The block ends at its brace, or at a statement without a terminator.  Returns
\* whether it is that of a class, that is, whether it speaks of "this".
parseBlock(s, parent) ==
  LET RECURSIVE Statements(_, _)
      Statements(t, is_class) ==
        LET class == is_class \/ Is(t, {"this"})
            after == BlockStatement(t, parent, is_class)
            next  == IF after.ret THEN readToken(after) ELSE after
        IN IF after.ret /\ ~ Is(next, {"}", "EOF"}) THEN Statements(next, class)
           ELSE Return(next, class)
      first == When(s, Is(s, {"{"}), readToken)
      inner == [first EXCEPT !.nestLevel = @ + 1]
      last  == IF Is(first, {"}", "EOF"}) THEN Return(inner, FALSE) ELSE Statements(inner, FALSE)
  IN [last EXCEPT !.nestLevel = @ - 1]

\* After the name of a member and its colon.
Member(s, name) ==
  LET head   == skipArgumentList(readToken(s))
      method == makeJsTag(head, Full(name), "method")
  IN CASE Is(s, {"function"}) /\ Is(head, {"{"}) ->
            Return(readToken(parseBlock(method, Full(name))), TRUE)
       [] Is(s, {"function"}) -> head
       [] OTHER -> Return(readToken(makeJsTag(s, Full(name), "property")), TRUE)

\* Returns whether any member was found; an empty table, or one with a comma at
\* its end, has none.
parseMethods(s, class) ==
  LET RECURSIVE Members(_)
      Members(t) ==
        LET first == readToken([t EXCEPT !.ret = FALSE])
            colon == readToken(first)
            name  == [Named(first) EXCEPT !.scope = Dot(@, class)]
            after == CASE ~ noKeyword(first)  -> [first EXCEPT !.ret = t.ret]
                       [] ~ Is(colon, {":"})  -> [colon EXCEPT !.ret = t.ret]
                       [] OTHER -> LET m == Member(readToken(colon), name)
                                   IN [m EXCEPT !.ret = @ \/ t.ret]
        IN CASE Is(first, {"}"}) -> first
             [] Is(after, {","}) -> Members(after)
             [] OTHER -> Return(findCmdTerm(after), after.ret)
  IN Members(Return(s, FALSE))

-------------------------------------------------------------------------------
(* Statements                                                              *)

\* r joins the token's state and the variables of parseStatement.

\* "X.prototype": X is a class; "X.prototype.m = ..." a method of it, with all that
\* follows, and "X.prototype = {...}" a list of them.
Prototype(r) ==
  LET class  == makeClassTag(r.s, Full(r.name))
      named  == IF Full(r.name) \in r.s.ClassNames THEN r.name ELSE Tagged(r.name)
      mark   == readToken(class)
      next   == readToken(mark)
      method == addToScope(next, named.string)
      tagged == IF next.ignoreTag THEN method
                ELSE makeJsTag(method, Full(Named(method)), "method")
      Done(t, save) == [r EXCEPT !.s = [t EXCEPT !.ignoreTag = FALSE], !.name = named,
                                 !.save = save, !.done = TRUE]
  IN CASE Is(mark, {"."}) /\ noKeyword(next) ->
            Done(findCmdTerm([tagged EXCEPT !.ignoreTag = TRUE]), next.scope)
       [] Is(mark, {"="}) /\ Is(next, {"{"}) ->
            Done(findCmdTerm(parseMethods(next, named.string)), r.save)
       [] OTHER -> [r EXCEPT !.s = readToken(IF Is(mark, {".", "="}) THEN next ELSE mark),
                             !.name = named, !.is_class = TRUE]

\* The part of a name after a period.
NamePart(r) ==
  LET t == readToken(r.s)
      scoped == [r EXCEPT !.save = t.scope, !.s = readToken(addToScope(t, r.name.string))]
      longer == [r EXCEPT !.s = readToken(t), !.name.string = Dot(@, String(t))]
  IN CASE Is(t, {"prototype"}) -> Prototype([r EXCEPT !.s = t])
       [] noKeyword(t)         -> IF r.is_class THEN scoped ELSE longer
       [] OTHER                -> [r EXCEPT !.s = readToken(t)]

\* Up to the end of the statement or an equal sign: the name, and what follows it.
RECURSIVE StatementHead(_)
StatementHead(r) ==
  LET RECURSIVE Parts(_)
      Parts(q) == IF Is(q.s, {"."}) /\ ~ q.done THEN Parts(NamePart(q)) ELSE q
      next  == [r EXCEPT !.s = readToken(r.s)]
      parts == Parts([next EXCEPT !.is_global = @ /\ ~ Is(next.s, {"."})])
      lists == [parts EXCEPT !.s = skipArrayList(skipArgumentList(@))]
  IN IF Is(r.s, {"}", ";", "=", "EOF"}) THEN r
     ELSE IF parts.done THEN parts ELSE StatementHead(lists)

\* "x = function ..." is a class, a function or, within a class, a method; the
\* function's own name is a second function.
AssignFunction(r) ==
  LET t == readToken(r.s)
      isNamed == noKeyword(t) /\ ~ Is(t, {"("})
      head == skipArgumentList(IF isNamed THEN readToken(t) ELSE t)
      Second(u) == IF isNamed /\ String(t) # NoName THEN makeFunctionTag(u, Full(Named(t))) ELSE u
      body == parseBlock(head, r.name.string)
  IN CASE ~ Is(head, {"{"}) -> [r EXCEPT !.s = head]
       [] r.inside -> [r EXCEPT !.s = parseBlock(Second(makeJsTag(head, Full(r.name), "method")),
                                                 Full(r.name))]
       [] OTHER    -> [r EXCEPT !.s = Second(makeEitherTag(body, Full(r.name), body.ret)),
                                !.done = TRUE]

\* Is it a name that may be that of a function?
KnownName(s) == Dot(s.scope, String(s)) \in s.FunctionNames \union s.ClassNames

VariableAtEnd(r, t) ==
  [r EXCEPT !.s = IF Is(t, {";"}) THEN makeJsTag(t, Full(r.name), "variable") ELSE t]

GlobalHere(r) == r.s.nestLevel = 0 /\ r.is_global

AssignTable(r) ==
  LET t == parseMethods(r.s, r.name.string)
      q == [r EXCEPT !.s = t]
  IN IF ~ t.ret /\ GlobalHere(q) /\ ~ KnownName(t)
       THEN VariableAtEnd(q, findCmdTerm(readToken(t)))
       ELSE q

AssignNew(r) ==
  LET t    == readToken(r.s)
      head == skipArgumentList(readToken(t))
      object == r.is_class \/ Is(t, {"object"})
  IN IF Is(t, {"function", "object"})
       THEN [r EXCEPT !.s = IF Is(head, {";"}) /\ head.nestLevel = 0
                              THEN makeEitherTag(head, Full(r.name), object) ELSE head]
       ELSE [r EXCEPT !.s = t]

\* "x = (...) {...}" is a method.
AssignNameless(r) ==
  LET head == skipArgumentList(r.s) IN
  [r EXCEPT !.s = When(head, Is(head, {"{"}), LAMBDA t :
                    parseBlock(makeJsTag(t, Full(r.name), "method"), Full(r.name)))]

Assignment(r) ==
  LET q == [r EXCEPT !.s = readToken(@)] IN
  CASE Is(q.s, {"function"}) -> AssignFunction(q)
    [] Is(q.s, {"("})        -> AssignNameless(q)
    [] Is(q.s, {"{"})        -> AssignTable(q)
    [] Is(q.s, {"new"})      -> AssignNew(q)
    [] noKeyword(q.s) /\ GlobalHere(q) /\ ~ KnownName(q.s) -> VariableAtEnd(q, findCmdTerm(q.s))
    [] OTHER                 -> q

\* Returns whether the statement was terminated.
parseStatement(s, is_inside_class) ==
  LET first == IF Is(s, {"var"}) THEN readToken(s) ELSE s
      this  == IF Is(first, {"this"}) THEN readToken(first) ELSE first
      start == IF Is(first, {"this"}) /\ Is(this, {"."}) THEN readToken(this) ELSE this
      head  == StatementHead([s |-> start, name |-> Named(start), inside |-> is_inside_class,
                              is_class |-> is_inside_class, save |-> NoName, done |-> FALSE,
                              is_global |-> Is(s, {"var"}) /\ s.nestLevel = 0])
      value == Assignment(head)
      last  == CASE head.done \/ Is(head.s, {"}", "EOF"}) -> head.s
                 [] Is(head.s, {";"}) ->
                      IF GlobalHere(head) THEN makeJsTag(head.s, Full(head.name), "variable")
                      ELSE head.s
                 [] OTHER -> IF value.done THEN value.s ELSE findCmdTerm(value.s)
  IN Return([last EXCEPT !.scope = head.save], head.done \/ ~ Is(head.s, {"}"}))

parseLine(s, is_inside_class) ==
  CASE Is(s, {"for", "while", "do"}) -> Return(parseLoop(s), TRUE)
    [] Is(s, {"if", "else", "try", "catch", "finally"}) -> parseIf(s)
    [] Is(s, {"switch"}) -> Return(parseSwitch(s), TRUE)
    [] ~ noKeyword(s) -> Return(parseStatement(s, is_inside_class), TRUE)
    [] OTHER -> parseStatement(s, is_inside_class)

parseJsFile(s) ==
  While(s, LAMBDA t : TRUE, LAMBDA t :
    LET u == readToken(t) IN
    IF Is(u, {"function"}) THEN parseFunction(u) ELSE parseLine(u, FALSE))

findJsTags(text) == parseJsFile(newToken(text)).tags

-------------------------------------------------------------------------------
(* JavaScript as one writes it, with the tags it calls for.                *)

Tag(kind, name) == << kind, name >>
Call == Lit(<< "y", "(", ")", ";" >>)

Simple == Call \union Lit(<< "x", "=", "b", "[", "c", "]", "+", "a", ";" >>)

\* A function within the given ones.
Function(scope, name, body) ==
  Decl(<< "function", name, "(", "a", ",", "b", ")", "{" >>, Tag("function", scope \o << name >>))
    ** body ** Lit(<< "}" >>)

Functions ==
  LET Inner == Function(<< "f" >>, "g", Simple) IN
  Function(<< >>, "f", Simple \union Inner \union (Inner ** Function(<< "f" >>, "h", Simple)))

Anonymous(body) == Lit(<< "function", "(", "a", ")", "{" >>) ** body ** Lit(<< "}" >>)

Constructor ==
  Decl(<< "function", "C", "(", ")", "{", "this", ".", "a", "=", "b", ";" >>, Tag("class", << "C" >>))
    ** UpTo(1, Decl(<< "this", ".", "m", "=" >>, Tag("method", << "C", "m" >>))
                 ** Anonymous(Simple) ** Lit(<< ";" >>))
    ** Lit(<< "}" >>)

Prototypes ==
  (Decl(<< "D", ".", "prototype", ".", "m", "=" >>, Tag("method", << "D", "m" >>))
     ** Anonymous(Simple) ** Lit(<< ";" >>))
  \union
  (Decl(<< "D", ".", "prototype", "=", "{", "p", ":", "1", "," >>, Tag("property", << "D", "p" >>))
     ** Decl(<< "q", ":" >>, Tag("method", << "D", "q" >>))
     ** Anonymous(Simple) ** Lit(<< "}", ";" >>))

WithPrototype == Decl(<< >>, Tag("class", << "D" >>)) ** Prototypes

Values ==
  Decl(<< "var", "v", "=", "b", ";" >>, Tag("variable", << "v" >>))
  \union Decl(<< "var", "w", ";" >>, Tag("variable", << "w" >>))
  \union Decl(<< "var", "u", "=", "new", "Object", "(", ")", ";" >>, Tag("class", << "u" >>))
  \union Decl(<< "var", "n", "=", "new", "Function", "(", ")", ";" >>, Tag("function", << "n" >>))
  \union (Decl(<< "var", "t", "=", "{", "a", ":", "b", ",", "c", ":" >>, Tag("property", << "t", "a" >>))
            ** Decl(<< >>, Tag("method", << "t", "c" >>)) ** Anonymous(Simple) ** Lit(<< "}", ";" >>))

Assigned ==
  (Decl(<< "h", "=" >>, Tag("function", << "h" >>)) ** Anonymous(Simple) ** Lit(<< ";" >>))
  \union (Decl(<< "A", ".", "b", "=" >>, Tag("function", << "A", "b" >>))
            ** Anonymous(Simple) ** Lit(<< ";" >>))
  \union (Decl(<< "k", "=" >>, Tag("class", << "k" >>))
            ** Anonymous(Lit(<< "this", ".", "a", "=", "b", ";" >>)) ** Lit(<< ";" >>))

Control ==
  (Lit(<< "if", "(", "x", ")", "{" >>) ** Call ** Lit(<< "}", "else", "{" >>) ** Call ** Lit(<< "}" >>))
  \union (Lit(<< "for", "(", ";", ";", ")", "{" >>) ** Call ** Lit(<< "}" >>))
  \union (Lit(<< "do", "{" >>) ** Call ** Lit(<< "}", "while", "(", "x", ")", ";" >>))
  \union (Lit(<< "try", "{" >>) ** Call ** Lit(<< "}", "catch", "(", "e", ")", "{" >>) ** Call
            ** Lit(<< "}" >>))
  \union (Lit(<< "switch", "(", "x", ")", "{" >>) ** Call ** Lit(<< "}" >>))

\* What is within the arguments of a call has no tags.
Callback ==
  Lit(<< "y", "(", "a", "(", "b", ")", ",", "function", "(", ")", "{", "h", "=", "function", "(", ")",
         "{", "}", ";", "}", ")", ";" >>)

Item == UNION { Simple, Callback, Functions, Constructor, WithPrototype, Values, Assigned, Control }

Sources == UpTo(2, Item)
================================================================================
