---------------------------------- MODULE Flex ----------------------------------
(***************************************************************************)
(* flex.c: ActionScript, alone or within the elements of MXML.             *)
(***************************************************************************)
EXTENDS ScriptTokens

Keywords == { "function", "object", "prototype", "var", "new", "this", "for", "while",
              "do", "if", "else", "switch", "try", "catch", "finally", "public",
              "private", "static", "class", "id", "name", "script", "cdata", "mx", "fx",
              "override" }

noKeyword(s) == s.tok \notin Keywords /\ ~ AtEnd(s)
Identifier(s) == noKeyword(s) /\ s.tok \notin Marks

\* "<" is read on for: <mx:, <fx:, <s:, <!-- and their like.  Of the characters
\* given back only the last is kept, so "<![" reads as "<!" and "<main" as "< min".
Cut(word) ==
  CASE word = "<!["    -> << "<", "!" >>
    [] word = "<main"  -> << "<", "min" >>
    [] word = "</main" -> << "<", "min" >>
    [] word = "<!--"   -> <<>>
    [] OTHER           -> << analyzeToken(word) >>

Tokens(text) ==
  LET Up[i \in 0 .. Len(text)] == IF i = 0 THEN <<>> ELSE Up[i - 1] \o Cut(text[i])
  IN Up[Len(text)]

newToken(text) ==
  Start(Tokens(text)) @@ [scope |-> NoName, nestLevel |-> 0, ignoreTag |-> FALSE,
                          isClass |-> FALSE, ClassNames |-> {}, FunctionNames |-> {}]

copyToken(s) == Named(s) @@ [isClass |-> s.isClass]

\* A function of a class is a method.
makeFlexTag(s, name, kind) ==
  MakeTag(s, << IF kind = "function" /\ name.isClass THEN "method" ELSE kind, Full(name) >>)

makeClassTag(s, name) ==
  IF Full(name) \in s.ClassNames THEN s
  ELSE makeFlexTag([s EXCEPT !.ClassNames = @ \union {Full(name)}], name, "class")

makeMXTag(s, name) == makeFlexTag(s, name, "mxtag")

makeFunctionTag(s, name) ==
  IF Full(name) \in s.FunctionNames THEN s
  ELSE makeFlexTag([s EXCEPT !.FunctionNames = @ \union {Full(name)}], name, "function")

\* Mutant: the type is not skipped.
keepType(s) == s

\* ": Type" after a name or a list of arguments.
SkipType(s) == When(s, Is(s, {":"}), LAMBDA t : readToken(readToken(t)))

RECURSIVE parseBlock(_), parseLine(_), parseIf(_), parseStatement(_), parseMXML(_),
          parseNamespace(_), parseActionScript(_)

findCmdTerm(s) ==
  While(s, LAMBDA t : ~ Is(t, {";", "}"}),
        LAMBDA t : CASE Is(t, {"{"}) -> parseBlock(t)
                     [] Is(t, {"("}) -> skipArgumentList(t)
                     [] OTHER        -> readToken(t))

ReadTo(s, tokens) == While(readToken(s), LAMBDA t : ~ Is(t, tokens), readToken)

\* The body of a switch ends at its first brace.
parseSwitch(s) ==
  LET t == skipArgumentList(readToken(s)) IN
  When(t, Is(t, {"{"}), LAMBDA u : ReadTo(u, {"/>", "</mx:", "}", ">"}))

parseLoop(s) ==
  LET Body(t) == IF Is(t, {"{"}) THEN parseBlock(t) ELSE parseLine(t)
      done == readToken(Body(readToken(s)))
  IN IF Is(s, {"for", "while"}) THEN Body(skipArgumentList(readToken(s)))
     ELSE When(done, Is(done, {"while"}), LAMBDA t : skipArgumentList(readToken(t)))

\* Also for else, try, catch and finally.  Returns whether to read another token.
parseIf(s) ==
  LET first == readToken(s)
      head  == skipArgumentList(When(first, Is(first, {"if"}), readToken))
      line  == findCmdTerm(head)
      next  == readToken(line)
  IN CASE Is(head, {"{"})    -> Return(parseBlock(head), TRUE)
       [] Is(line, {"}"})    -> Return(line, FALSE)
       [] Is(next, {"}"})    -> Return(next, FALSE)
       [] Is(next, {"else"}) -> parseIf(next)
       [] OTHER              -> Return(next, TRUE)

parseFunction(s) ==
  LET named == When(s, Is(s, {"function"}), readToken)
      head  == SkipType(skipArgumentList(readToken(named)))
  IN findCmdTerm(When(head, Is(head, {"{"}), LAMBDA t :
                      makeFunctionTag(parseBlock(t), copyToken(named))))

\* The block ends at its brace, or at a statement without a terminator.
parseBlock(s) ==
  LET RECURSIVE Statements(_)
      Statements(t) ==
        LET after == IF Is(t, {"{"}) THEN Return(parseBlock(t), TRUE) ELSE parseLine(t)
            next  == IF after.ret THEN readToken(after) ELSE after
        IN IF after.ret /\ ~ Is(next, {"}", "EOF"}) THEN Statements(next) ELSE next
      first == When(s, Is(s, {"{"}), readToken)
      inner == [first EXCEPT !.nestLevel = @ + 1]
      last  == IF Is(first, {"}", "EOF"}) THEN inner ELSE Statements(inner)
  IN [last EXCEPT !.nestLevel = @ - 1]

\* After the name of a member and its colon.
Member(s, name) ==
  LET head   == skipArgumentList(readToken(s))
      method == makeFlexTag(head, name, "method")
  IN CASE ~ Is(s, {"function"}) -> readToken(makeFlexTag(s, name, "property"))
       [] Is(head, {"{"}) -> readToken(parseBlock(method))
       [] OTHER -> head

parseMethods(s, class) ==
  LET RECURSIVE Members(_)
      Members(t) ==
        LET first == readToken(t)
            colon == readToken(first)
            after == CASE ~ noKeyword(first)  -> first
                       [] ~ Is(colon, {":"})  -> colon
                       [] OTHER -> Member(readToken(colon),
                                          [copyToken(first) EXCEPT !.scope = Dot(@, class)])
        IN IF Is(after, {","}) THEN Members(after) ELSE findCmdTerm(after)
  IN Members(s)

\* Only public variables have tags.
parseVar(s, is_public) ==
  LET named == When(s, Is(s, {"var"}), readToken)
      last  == While(SkipType(readToken(named)), LAMBDA t : ~ Is(t, {";"}), readToken)
  IN [(IF is_public THEN makeFlexTag(last, copyToken(named), "variable") ELSE last)
        EXCEPT !.scope = s.scope]

\* The name of the class is added to the scope before it is copied.
parseClass(s) ==
  LET named == When(s, Is(s, {"class"}), readToken)
      class == addToScope([named EXCEPT !.isClass = TRUE], String(named))
      head  == readToken(class)
      body  == When(head, Is(head, {"{"}), LAMBDA t :
                 parseBlock(makeClassTag(t, copyToken(class))))
  IN [body EXCEPT !.scope = s.scope, !.isClass = s.isClass]

-------------------------------------------------------------------------------
(* Statements                                                              *)

\* r joins the token's state and the variables of parseStatement.

\* "X.prototype": X is a class; "X.prototype.m = ..." a method of it, with all that
\* follows, and "X.prototype = {...}" a list of them.
Prototype(r) ==
  LET class  == makeClassTag(r.s, r.name)
      named  == IF Full(r.name) \in r.s.ClassNames THEN r.name ELSE Tagged(r.name)
      mark   == readToken(class)
      next   == readToken(mark)
      method == addToScope(next, named.string)
      tagged == IF next.ignoreTag THEN method
                ELSE makeFlexTag(method, copyToken(method), "method")
      Done(t, save) == [r EXCEPT !.s = [t EXCEPT !.ignoreTag = FALSE], !.name = named,
                                 !.save = save, !.done = TRUE]
  IN CASE Is(mark, {"."}) /\ noKeyword(next) ->
            Done(findCmdTerm([tagged EXCEPT !.ignoreTag = TRUE]), next.scope)
       [] Is(mark, {"="}) /\ Is(next, {"{"}) ->
            Done(findCmdTerm(parseMethods(next, named.string)), r.save)
       [] OTHER -> [r EXCEPT !.s = readToken(IF Is(mark, {".", "="}) THEN next ELSE mark),
                             !.name = named, !.is_class = TRUE]

NamePart(r) ==
  LET t == readToken(r.s)
      scoped == [r EXCEPT !.save = t.scope, !.s = readToken(addToScope(t, r.name.string))]
      longer == [r EXCEPT !.s = readToken(t), !.name.string = Dot(@, String(t))]
  IN CASE Is(t, {"prototype"}) -> Prototype([r EXCEPT !.s = t])
       [] noKeyword(t)         -> IF r.is_class THEN scoped ELSE longer
       [] OTHER                -> [r EXCEPT !.s = readToken(t)]

\* Up to the end of the statement or an equal sign: the name, and what follows it.
RECURSIVE StatementHead(_)
StatementHead(r) ==
  LET RECURSIVE Parts(_)
      Parts(q) == IF Is(q.s, {"."}) /\ ~ q.done THEN Parts(NamePart(q)) ELSE q
      parts == Parts([r EXCEPT !.s = readToken(r.s)])
      lists == [parts EXCEPT !.s = skipArrayList(SkipType(skipArgumentList(@)))]
  IN IF Is(r.s, {"}", ";", "=", "EOF"}) THEN r
     ELSE IF parts.done THEN parts ELSE StatementHead(lists)

\* "x = function ..." is a function or, within a class, a method; the function's own
\* name is a second function.
AssignFunction(r) ==
  LET t == readToken(r.s)
      isNamed == noKeyword(t) /\ ~ Is(t, {"("})
      head == skipArgumentList(IF isNamed THEN readToken(t) ELSE t)
      Second(u) == IF isNamed /\ String(t) # NoName THEN makeFunctionTag(u, copyToken(t)) ELSE u
  IN CASE ~ Is(head, {"{"}) -> [r EXCEPT !.s = head]
       [] head.isClass -> [r EXCEPT !.s = parseBlock(Second(makeFlexTag(head, r.name, "method")))]
       [] OTHER -> [r EXCEPT !.s = Second(makeFunctionTag(parseBlock(head), r.name)), !.done = TRUE]

AssignNew(r) ==
  LET t    == readToken(r.s)
      head == skipArgumentList(readToken(t))
      tagged == IF r.is_class \/ Is(t, {"object"}) THEN makeClassTag(head, r.name)
                ELSE makeFunctionTag(head, r.name)
  IN IF Is(t, {"function", "object"})
       THEN [r EXCEPT !.s = IF Is(head, {";"}) /\ head.nestLevel = 0 THEN tagged ELSE head]
       ELSE [r EXCEPT !.s = t]

\* "x = (...) {...}" is a method.
AssignNameless(r) ==
  LET head == skipArgumentList(r.s) IN
  [r EXCEPT !.s = When(head, Is(head, {"{"}), LAMBDA t :
                    parseBlock(makeFlexTag(t, r.name, "method")))]

\* is_global stays FALSE, so an assignment of anything else has no tag.
Assignment(r) ==
  LET q == [r EXCEPT !.s = readToken(@)] IN
  CASE Is(q.s, {"function"}) -> AssignFunction(q)
    [] Is(q.s, {"("})        -> AssignNameless(q)
    [] Is(q.s, {"{"})        -> [q EXCEPT !.s = parseMethods(@, q.name.string)]
    [] Is(q.s, {"new"})      -> AssignNew(q)
    [] OTHER                 -> q

Modifiers(s) ==
  LET public  == When(s, Is(s, {"public"}), readToken)
      private == When(public, Is(public, {"private"}), readToken)
  IN When(private, Is(private, {"static"}), readToken)

\* What a keyword begins, before the rest is read as a statement.
Compound(s) ==
  CASE Is(s, {"for", "while", "do"}) -> Return(parseLoop(s), TRUE)
    [] Is(s, {"if", "else", "try", "catch", "finally"}) -> parseIf(s)
    [] Is(s, {"switch"}) -> Return(parseSwitch(s), TRUE)
    [] Is(s, Keywords)   -> Return(readToken(s), TRUE)
    [] OTHER             -> Return(s, TRUE)

\* Returns whether the statement was terminated.
Simple(s, scope) ==
  LET head  == StatementHead([s |-> s, name |-> copyToken(s), is_class |-> FALSE,
                              save |-> scope, done |-> FALSE])
      value == Assignment(head)
      last  == CASE head.done \/ Is(head.s, {"}", ";", "EOF"}) -> head.s
                 [] value.done -> value.s
                 [] OTHER      -> findCmdTerm(value.s)
      ended == ~ Is(head.s, {"}"}) /\ (s.ret \/ Is(head.s, {";"}) \/ ~ Is(last, {"}"}))
  IN Return([last EXCEPT !.scope = head.save], head.done \/ ended)

parseStatement(s) ==
  LET first == Modifiers(s) IN
  CASE Is(first, {"class"})    -> Return(parseClass(first), TRUE)
    [] Is(first, {"function"}) -> Return(parseFunction(first), TRUE)
    [] Is(first, {"var"})      -> Return(parseVar(first, Is(s, {"public"})), TRUE)
    [] OTHER                   -> Simple(Compound(first), s.scope)

parseLine(s) ==
  CASE Is(s, {"for", "while", "do"}) -> Return(parseLoop(s), TRUE)
    [] Is(s, {"if", "else", "try", "catch", "finally"}) -> parseIf(s)
    [] Is(s, {"switch"}) -> Return(parseSwitch(s), TRUE)
    [] Is(s, Keywords) -> Return(parseStatement(s), TRUE)
    [] OTHER -> parseStatement(s)

-------------------------------------------------------------------------------
(* Elements                                                                *)

Ends == {"/>", "</mx:"}

\* "</mx:Name>".
CloseElement(s) == When(s, Is(s, {"</mx:"}), LAMBDA t : readToken(readToken(t)))

parseCDATA(s) ==
  LET mark   == readToken(s)
      word   == readToken(mark)
      open   == readToken(word)
      script == parseActionScript(open)
      end    == When(script, Is(script, {"]"}), readToken)
  IN CASE ~ Is(s, {"<"})     -> parseActionScript(s)
       [] ~ Is(mark, {"!"})  -> mark
       [] ~ Is(word, {"cdata"}) -> word
       [] ~ Is(open, {"["})  -> open
       [] OTHER -> When(end, Is(script, {"]"}) /\ Is(end, {"]"}), readToken)

\* An element of a namespace other than mx, with the elements in it.
parseNamespace(s) ==
  LET name  == When(s, Is(s, {"<"}), readToken)
      colon == readToken(name)
      local == readToken(colon)
      RECURSIVE Elements(_)
      Elements(t) ==
        LET inner == IF Is(t, {"<"}) THEN readToken(parseNamespace(t)) ELSE t
            next  == IF Is(inner, {"<mx:"}) THEN parseMXML(inner) ELSE readToken(inner)
        IN IF Is(next, Ends \union {"EOF"}) THEN next ELSE Elements(next)
  IN CASE ~ Identifier(name)  -> name
       [] ~ Is(colon, {":"})  -> colon
       [] ~ Identifier(local) -> local
       [] OTHER               -> Elements(local)

\* The element of a script: a file elsewhere, or the script itself.
ScriptElement(s) ==
  LET head == ReadTo(s, Ends \union {">"}) IN
  IF Is(head, {">"}) THEN CloseElement(readToken(parseCDATA(readToken(head))))
  ELSE CloseElement(head)

\* An element has a tag by its first id or name.
parseMXML(s) ==
  LET type == readToken(s)
      RECURSIVE Parts(_, _, _)
      Parts(t, inside, name) ==
        LET attributes == inside /\ ~ Is(t, {">"})
            value   == readToken(readToken(t))
            isId    == attributes /\ Is(t, {"id", "name"}) /\ name = NoName
            id      == [copyToken(value) EXCEPT !.scope = Dot(@, String(type))]
            next    == CASE Is(t, {"<"})    -> readToken(parseNamespace(t))
                         [] Is(t, {"<mx:"}) -> readToken(parseMXML(t))
                         [] isId            -> makeMXTag(value, id)
                         [] OTHER           -> readToken(t)
        IN IF Is(next, Ends \union {"EOF"}) THEN next
           ELSE Parts(next, attributes, IF isId THEN Full(id) ELSE name)
  IN IF Is(type, {"script"}) THEN ScriptElement(type)
     ELSE CloseElement(Parts(readToken(type), TRUE, NoName))

\* Up to two of private, public and override.
ScriptLine(s) ==
  LET Modifier(t) == When(t, Is(t, {"private", "public", "override"}), readToken)
      t == Modifier(Modifier(s))
  IN IF Is(t, {"function"}) THEN parseFunction(t) ELSE parseLine(t)

\* Until the end of a CDATA section or of an element.
parseActionScript(s) ==
  LET first  == readToken(s)
      t      == IF Is(first, {"<"}) THEN readToken(first) ELSE first
      second == readToken(t)
      third  == readToken(second)
  IN CASE AtEnd(t) -> t
       [] Is(t, {"]"}) -> IF ~ Is(second, {"]"}) THEN parseActionScript(second)
                          ELSE IF Is(third, {">"}) THEN third ELSE parseActionScript(third)
       [] Is(t, {"</mx:"}) -> readToken(second)
       [] Is(t, {"<mx:"})  -> parseActionScript(parseMXML(t))
       [] OTHER            -> parseActionScript(ScriptLine(t))

\* "<? ... ?>" and elements without a namespace are passed over.
parseFlexFile(s) ==
  While(s, LAMBDA t : TRUE, LAMBDA t :
    LET first  == readToken(t)
        second == readToken(first)
    IN CASE Is(first, {"<mx:"})    -> parseMXML(first)
         [] ~ Is(first, {"<"})     -> parseActionScript(first)
         [] Is(second, {"?"})      -> readToken(ReadTo(second, {"?"}))
         [] noKeyword(second)      -> ReadTo(second, {">"})
         [] OTHER                  -> second)

findFlexTags(text) == parseFlexFile(newToken(text)).tags

-------------------------------------------------------------------------------
(* ActionScript and MXML as one writes them, with their tags.  The first   *)
(* word of a script is lost, and a class that extends another has no tag:  *)
(* neither is written here.  Of the tag of a class only its own name is    *)
(* claimed, and of variables nothing: parseClass tags a class D as D.D,    *)
(* and parseVar the public variables of classes, though it means to make   *)
(* those of global scope only (flex.c:1386).                               *)

Claimed(tags) ==
  LET Own(tag) == IF tag[1] = "class" THEN << "class", << tag[2][Len(tag[2])] >> >> ELSE tag
  IN SelectSeq([i \in DOMAIN tags |-> Own(tags[i])], LAMBDA tag : tag[1] # "variable")

Tag(kind, name) == << kind, name >>
Call == Lit(<< "x", "(", "y", ")", ";" >>)

Arguments == { << "(", ")" >>, << "(", "a", ":", "T", ",", "b", ":", "T", ")", ":", "T" >> }

Function(access, name, tag, body) ==
  UNION {Decl(access \o << "function", name >> \o a \o << "{" >>, tag) ** body ** Lit(<< "}" >>)
           : a \in Arguments}

Functions == Function(<<>>, "f", Tag("function", << "f" >>), Call)

Class ==
  Decl(<< "public", "class", "D", "{" >>, Tag("class", << "D" >>))
    ** Opt(Lit(<< "public", "var", "v", ":", "T", "=", "b", ";" >>))
    ** Opt(Lit(<< "private", "static", "var", "u", ":", "T", ";" >>))
    ** Opt(Function(<< "private" >>, "g", Tag("method", << "D", "g" >>), Call))
    ** Function(<< "public", "static" >>, "h", Tag("method", << "D", "h" >>), Call)
    ** Lit(<< "}" >>)

Anonymous == Lit(<< "function", "(", "a", ")", "{" >>) ** Call ** Lit(<< "}" >>)

Prototypes ==
  Decl(<< "P", ".", "prototype" >>, Tag("class", << "P" >>))
    ** (UNION { Decl(<< ".", "m", "=" >>, Tag("method", << "P", "m" >>)) ** Anonymous,
                Decl(<< "=", "{", "q", ":", "c", "," >>, Tag("property", << "P", "q" >>))
                  ** Decl(<< "m", ":" >>, Tag("method", << "P", "m" >>))
                  ** Anonymous ** Lit(<< "}" >>) })
    ** Lit(<< ";" >>)

Assigned == Decl(<< "A", ".", "b", "=" >>, Tag("function", << "A", "b" >>)) ** Anonymous
              ** Lit(<< ";" >>)

Control ==
  (UNION { Lit(<< "if", "(", "x", ")", "{" >>) ** Call ** Lit(<< "}", "else", "{" >>) ** Call,
          Lit(<< "for", "(", ";", ";", ")", "{" >>) ** Call,
          Lit(<< "try", "{" >>) ** Call ** Lit(<< "}", "catch", "(", "e", ")", "{" >>) ** Call })
    ** Lit(<< "}" >>)

Script == Lit(<< "import", "a", ";" >>)
            ** UpTo(2, UNION { Functions, Class, Prototypes, Assigned, Control, Call })

-------------------------------------------------------------------------------

\* The identity of an element; those within it are of no scope.
Element(element, id) ==
  Decl(<< "<mx:", element, "id", "=", id >>, Tag("mxtag", << element, id >>))

Embedded ==
  Lit(<< "<mx:", "Script", ">", "<![", "CDATA", "[" >>)
    ** Function(<< "private" >>, "k", Tag("function", << "k" >>), Call)
    ** Function(<< "public" >>, "l", Tag("function", << "l" >>), Call)
    ** Lit(<< "]", "]", ">", "</mx:", "Script", ">" >>)

Elements ==
  UNION { Embedded,
          Element("Button", "r") ** Lit(<< "/>" >>),
          Element("Panel", "p") ** Lit(<< ">" >>) ** Element("Button", "q")
            ** (Lit(<< "/>" >>) \union Lit(<< ">", "</mx:", "Button", ">" >>))
            ** Lit(<< "</mx:", "Panel", ">" >>) }

Sources == Script \union UpTo(3, Elements)
================================================================================
