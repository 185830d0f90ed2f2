--------------------------------- MODULE Python ---------------------------------
(***************************************************************************)
(* python.c: logical lines, and the classes and functions around them,     *)
(* told by their indentation.  A source is a sequence of lines, a line its *)
(* indentation and its tokens; "(" is written next to the word before it,  *)
(* "*" next to the one after it.  A tag is << kind, name, scope >>.        *)
(***************************************************************************)
EXTENDS TokenStream, SequencesExt

Line(indent, toks) == [indent |-> indent, toks |-> toks]

Triples == { "DDD", "SSS" }
NoWord == Triples \union { "(", ")", "[", "]", ",", ":", ".", "=", "==", "+", "*", "#", "@", ";",
                     "\\", "1", "'s'" }
isWord(tok) == tok \notin NoWord
isAssignment(tok) == tok \in { "=", "==" }

\* A word that begins like one that begins a definition, or like "import".
Definers == { "def", "class", "cdef", "cpdef", "default", "classes" }
Importers == { "import", "important" }

At(toks, i) == IF i \in DOMAIN toks THEN toks[i] ELSE ""
WordAt(toks, i) == IF i \in DOMAIN toks /\ isWord(toks[i]) THEN toks[i] ELSE ""
From(toks, i) == SubSeq(toks, i, Len(toks))

\* The least of a set of places, 0 if there is none.
First(places) == IF places = {} THEN 0 ELSE CHOOSE i \in places : \A j \in places : i <= j

\* "#" is skipped like a string, up to another one.
hidden(toks, i) == Len(SelectSeq(SubSeq(toks, 1, i), LAMBDA tok : tok = "#")) % 2 = 1
VisibleWords(toks) == {i \in DOMAIN toks : isWord(toks[i]) /\ ~ hidden(toks, i)}

-------------------------------------------------------------------------------
(* Classes and functions around a line                                     *)

\* The levels a line of this indentation is in.
Around(levels, indent) ==
  LET i == First({j \in DOMAIN levels : indent <= levels[j].indentation})
  IN IF i = 0 THEN levels ELSE SubSeq(levels, 1, i - 1)

Names(levels) == [i \in DOMAIN levels |-> levels[i].name]
isClass(levels) == levels # <<>> /\ levels[Len(levels)].isClass

constructParentString(s) == [s EXCEPT !.parent = Names(Around(s.levels, s.line.indent))]
Empty(parent) == parent \in { <<>>, << "" >> }

\* The name of the last parent is forgotten where its block has ended.
checkParent(s) ==
  LET i == First({j \in DOMAIN s.levels : Names(s.levels)[j] = (IF s.parent = <<>> THEN "" ELSE s.parent[1])})
  IN IF Len(s.parent) <= 1 /\ i # 0 /\ s.line.indent <= s.levels[i].indentation
     THEN [s EXCEPT !.levels[i].name = ""] ELSE s

\* Mutant: the levels of the same indentation stay.
addAfterLevel(s, name, class) ==
  [s EXCEPT !.levels = Append(Around(@, s.line.indent + 1),
                              [indentation |-> s.line.indent, name |-> name, isClass |-> class])]

addNestingLevel(s, name, class) ==
  [s EXCEPT !.levels = Append(Around(@, s.line.indent),
                              [indentation |-> s.line.indent, name |-> name, isClass |-> class])]

-------------------------------------------------------------------------------
(* What a line declares                                                    *)

Scope(s, class) ==
  IF Empty(s.parent) THEN <<>> ELSE << IF class THEN "class" ELSE "function", s.parent >>
Made(s, kind, name, scope) == [s EXCEPT !.tags = Append(@, << kind, name, scope >>)]

\* The bases may go on on the next lines: the lines up to the ")" are read.
parseClass(s, toks, inClass) ==
  LET close == First({i \in DOMAIN s.in : Contains(s.in[i].toks, ")")})
      t == IF At(toks, 2) = "(" /\ ~ Contains(toks, ")")
           THEN [s EXCEPT !.in = IF close = 0 THEN <<>> ELSE From(@, close + 1)] ELSE s
  IN Made(t, "class", WordAt(toks, 1), Scope(t, inClass))

\* The line is cut off after the arguments.
parseArglist(s) ==
  LET toks == s.line.toks
      Count(p, i) == Cardinality({j \in DOMAIN toks : j <= i /\ toks[j] = p})
      open == First({j \in DOMAIN toks : toks[j] = "(" /\ j > s.at})
      Before(p, i) == Count(p, i) - Count(p, open - 1)
      close == First({i \in DOMAIN toks : i > open /\ Before("(", i) = Before(")", i)})
  IN IF open = 0 \/ close = 0 THEN s ELSE [s EXCEPT !.line.toks = SubSeq(@, 1, close)]

parseFunction(s, toks, inClass) ==
  LET kind == IF inClass /\ ~ Empty(s.parent) THEN "member" ELSE "function"
  IN parseArglist(Made(s, kind, WordAt(toks, 1), Scope(s, inClass)))

\* What a cdef declares: a class or a function, after at most one word; or nothing.
skipTypeDecl(toks) ==
  LET ext == At(toks, 1) = "extern"
      t == SelectSeq(IF ext THEN From(toks, 2) ELSE toks, LAMBDA tok : tok # "*")
  IN CASE ext /\ At(t, 1) = "from" -> <<>>
       [] At(t, 1) = "class"       -> t
       [] At(t, 2) = "("           -> toks
       [] At(t, 3) = "(" /\ isWord(At(t, 2)) -> From(t, 2)
       [] OTHER                    -> <<>>

\* What follows the keyword, "class" before a class.
Definition(toks, i) ==
  CASE At(toks, i + 1) \in { "", "(" }        -> <<>>
    [] toks[i] \in { "cdef", "cpdef" }        -> skipTypeDecl(From(toks, i + 1))
    [] toks[i] = "class"                      -> From(toks, i)
    [] toks[i] = "def"                        -> From(toks, i + 1)
    [] OTHER                                  -> <<>>

findDefinitionOrClass(toks) == First({i \in VisibleWords(toks) : toks[i] \in Definers})

Define(s) ==
  LET i == findDefinitionOrClass(s.line.toks)
      toks == IF i = 0 THEN <<>> ELSE Definition(s.line.toks, i)
      class == At(toks, 1) = "class" /\ s.line.toks[i] # "def"
      rest == IF class THEN From(toks, 2) ELSE toks
      t == constructParentString([s EXCEPT !.at = i])
      inClass == isClass(Around(s.levels, s.line.indent))
  IN IF toks = <<>> THEN s
     ELSE addNestingLevel(IF class THEN parseClass(t, rest, inClass)
                          ELSE parseFunction(t, rest, inClass), WordAt(rest, 1), class)

\* A word, "=", and no other assignment before a "(" or a comment.
findVariable(toks) ==
  LET others == {i \in DOMAIN toks : i > 2 /\ isAssignment(toks[i])}
      stop == First({i \in DOMAIN toks : i > 2 /\ toks[i] \in { "(", "#" }})
  IN /\ WordAt(toks, 1) # "" /\ At(toks, 2) = "="
     /\ \A i \in others : stop # 0 /\ stop < i

ImportedNames(words) ==
  SelectSeq([i \in DOMAIN words |-> IF At(words, i + 1) = "as" THEN "as" ELSE words[i]],
            LAMBDA word : word # "as")

parseImports(s) ==
  LET toks == s.line.toks
      first == First(VisibleWords(toks))
      i == First({j \in DOMAIN toks : first # 0 /\ j >= first /\ toks[j] \in Importers})
      rest == From(toks, i + 1)
      words == SelectSeq([j \in DOMAIN rest |-> j], LAMBDA j : j \in VisibleWords(rest))
  IN IF i = 0 \/ toks[i] # "import" THEN s
     ELSE FoldLeft(LAMBDA t, name : Made(t, "namespace", name, <<>>), s,
                   ImportedNames([j \in DOMAIN words |-> rest[words[j]]]))

\* A variable of a function has no tag.
Variable(s) ==
  LET t == constructParentString(s)
      inClass == isClass(Around(s.levels, s.line.indent))
  IN CASE ~ findVariable(s.line.toks)      -> parseImports(s)
       [] ~ inClass /\ ~ Empty(t.parent)   -> t
       [] OTHER -> parseImports(Made(t, "variable", s.line.toks[1], Scope(t, TRUE)))

-------------------------------------------------------------------------------
(* Lines                                                                   *)

\* The long string that is open after the tokens.
LongAfter(open, toks) ==
  FoldLeft(LAMBDA o, tok : CASE tok \notin Triples -> o [] o = "" -> tok [] tok = o -> ""
                             [] OTHER -> o, open, toks)

Logical(u) ==
  LET s == checkParent(u)
      toks == s.line.toks
  IN IF s.long # "" \/ \E i \in DOMAIN toks : toks[i] \in Triples
     THEN [s EXCEPT !.long = LongAfter(@, toks)] ELSE Variable(Define(s))

\* Empty lines and comments are not even the end of a joined line.
ReadOneLine(s) ==
  LET line == Head(s.in)
      t == [s EXCEPT !.in = Tail(@)]
      whole == IF s.joining THEN [s.line EXCEPT !.toks = @ \o line.toks] ELSE line
      n == Len(whole.toks)
  IN CASE line.toks = <<>> \/ (line.toks[1] = "#" /\ s.long = "") -> t
       [] whole.toks[n] = "\\" ->
            [t EXCEPT !.joining = TRUE, !.line = [whole EXCEPT !.toks = SubSeq(@, 1, n - 1)]]
       [] OTHER -> Logical([t EXCEPT !.joining = FALSE, !.line = whole])

findPythonTags(text) ==
  LET Begin == [in |-> text, tok |-> "", tags |-> <<>>, line |-> Line(0, <<>>), joining |-> FALSE,
                long |-> "", parent |-> <<>>, levels |-> <<>>, at |-> 0]
  IN While(Begin, LAMBDA s : s.in # <<>>, ReadOneLine).tags

-------------------------------------------------------------------------------
(* Python as one writes it, line by line, with its tags.  A block that is  *)
(* not one of a class or function comes before the classes and functions   *)
(* of its level: after them it would count as part of them.                *)

Scoped(kind, path) == IF path = <<>> THEN <<>> ELSE << kind, path >>
One(indent, toks) == << Line(indent, toks) >>

Imports(n) ==
  UNION { Decl(One(n, << "import", "a", "as", "b" >>), << "namespace", "b", <<>> >>),
          Decl(One(n, << "from", "p", "import", "c", "as", "d" >>), << "namespace", "d", <<>> >>) }

\* Statements that declare nothing.
Statements(n) ==
  UNION { Lit(One(n, << "f", "(", "x", "=", "1", ")" >>)),
          Lit(One(n, << "return", "x", "==", "1", "#", "def", "q" >>)),
          Lit(<< Line(n, << "DDD", "class", "Q" >>), Line(0, <<>>), Line(0, << "def", "q", "DDD" >>) >>),
          Lit(One(n, << "#", "class", "Q" >>)) }

Variable1(n, path) ==
  Decl(One(n, << "v", "=", "f", "(", "x", "=", "1", ")" >>), << "variable", "v", Scoped("class", path) >>)
Variable2(n, path) ==
  Decl(<< Line(n, << "w", "=", "x", "+", "\\" >>), Line(0, << "y" >>) >>,
       << "variable", "w", Scoped("class", path) >>)

\* A function: its scope is that of a class (member) or of a function.
Heads(n, name) ==
  { One(n, << "def", name, "(", "x", ",", "y", "=", "1", ")", ":" >>),
    One(n, << "cdef", "int", "*", name, "(", "x", ")", ":" >>),
    << Line(n, << "def", name, "(", "x", ",", "\\" >>), Line(n + 1, << "y", ")", ":" >>) >> }
Function(n, name, kind, scope, body) ==
  (UNION {Decl(h, << kind, name, scope >>) : h \in Heads(n, name)}) ** body

FunctionBody(n) ==
  Statements(n) \union (Lit(One(n, << "z", "=", "1" >>)) ** Statements(n))

Method(n, path, name) ==
  Function(n, name, IF path = <<>> THEN "function" ELSE "member", Scoped("class", path),
           FunctionBody(n + 1))

ClassHeads(n, name) ==
  { One(n, << "class", name, ":" >>), One(n, << "class", name, "(", "B", ")", ":" >>),
    << Line(n, << "class", name, "(", "A", "," >>), Line(n + 2, << "B", ")", ":" >>) >> }
Class(n, path, name, body) ==
  (UNION {Decl(h, << "class", name, Scoped("class", path) >>) : h \in ClassHeads(n, name)}) ** body

ClassBody(n, path) ==
  UNION { Variable1(n, path), Method(n, path, "m"),
          Variable2(n, path) ** Method(n, path, "m"),
          Class(n, path, "I", Variable1(n + 1, Append(path, "I"))) ** Variable2(n, path) }

Blocks ==
  Lit(One(0, << "if", "x", ":" >>)) ** (Variable1(1, <<>>) \union Imports(1))

Nested ==
  Function(0, "o", "function", <<>>,
           Decl(One(1, << "def", "i", "(", ")", ":" >>), << "function", "i", << "function", << "o" >> >> >>)
             ** Lit(One(2, << "z", "=", "1" >>))
             ** Decl(One(1, << "class", "K", ":" >>), << "class", "K", << "function", << "o" >> >> >>)
             ** Decl(One(2, << "k", "=", "1" >>), << "variable", "k", << "class", << "o", "K" >> >> >>))

Start0 == UNION { Lit(<<>>), Imports(0), Blocks, Statements(0) }
Final == Decl(One(0, << "last", "=", "1" >>), << "variable", "last", <<>> >>)

Sources ==
  Start0 ** (UNION { Variable2(0, <<>>), Nested, Method(0, <<>>, "f"),
                     Class(0, <<>>, "C", ClassBody(1, << "C" >>)) }) ** Final
================================================================================
