--------------------------------- MODULE Pascal ---------------------------------
(***************************************************************************)
(* pascal.c: characters, looked through for words that begin a procedure;  *)
(* its tag is made when the word after its ";" is neither "forward" nor    *)
(* "extern".  A source is a sequence of tokens; a word has a blank or a    *)
(* line end before it, except after "(".  A tag is << kind, name >>.       *)
(***************************************************************************)
EXTENDS TokenStream, SequencesExt

\* Words that end in a keyword are one, too.
Kinds == [procedure |-> "procedure", constructor |-> "procedure", destructor |-> "procedure",
          function |-> "function", myFunction |-> "function"]

Marks == { "(", ")", ";", ":", ",", "=", "{", "}", "(*", "*)", "'s'", "." }
isName(tok) == tok \notin Marks
ForwardWords == { "forward", "Forward", "extern" }

createPascalTag(s, name) == [s EXCEPT !.name = name, !.getName = FALSE, !.found = TRUE]

Forget(s) == [s EXCEPT !.found = FALSE, !.verify = FALSE]

makePascalTag(s) ==
  IF s.name = "" THEN Forget(s) ELSE [Forget(s) EXCEPT !.tags = Append(@, << s.kind, s.name >>)]

\* What stands after the ";": the tag is dropped, or made and the word read as any.
VerifyTag(s) ==
  IF s.in[1] \in ForwardWords THEN Forget([s EXCEPT !.in = Tail(@)]) ELSE makePascalTag(s)

\* Mutant: a ";" between parameters ends the heading.
endsAnywhere(s) == s.found

endsHeading(s) == s.found /\ ~ s.inParms

\* Brackets and ";" are passed over; of a word next to "(" the first letter is.
TagName(s, tok, t) ==
  CASE tok \in { ")", ";", "(" } -> [t EXCEPT !.open = (tok = "(")]
    [] isName(tok) -> createPascalTag(t, IF s.open THEN Tail(tok) ELSE tok)
    [] OTHER -> IF t.in # <<>> /\ isName(t.in[1])
                THEN createPascalTag([t EXCEPT !.in = Tail(@)], t.in[1]) ELSE createPascalTag(t, "")

Character(s) ==
  LET tok == s.in[1]
      t == [s EXCEPT !.in = Tail(@)]
  IN IF s.comment # "" THEN IF tok = s.comment THEN [t EXCEPT !.comment = ""] ELSE t
     ELSE IF s.verify THEN VerifyTag(s)
     ELSE
     CASE tok = "'s'" -> t
       [] tok = "{"   -> [t EXCEPT !.comment = "}"]
       [] tok = "(*"  -> [t EXCEPT !.comment = "*)"]
       [] tok \notin { "'s'", "{", "(*" } /\ s.getName -> TagName(s, tok, t)
       [] tok = "(" /\ s.found                -> [t EXCEPT !.inParms = TRUE]
       [] tok = ")" /\ s.found                -> [t EXCEPT !.inParms = FALSE]
       [] tok = ";" /\ endsHeading(s)         -> [t EXCEPT !.verify = TRUE]
       [] tok \in DOMAIN Kinds /\ ~ s.found /\ ~ s.getName ->
            [t EXCEPT !.getName = TRUE, !.open = FALSE, !.kind = Kinds[tok]]
       [] OTHER -> t

findPascalTags(text) ==
  LET Begin == [in |-> text, tok |-> "", tags |-> <<>>, comment |-> "", name |-> "", kind |-> "",
                getName |-> FALSE, open |-> FALSE, found |-> FALSE, inParms |-> FALSE, verify |-> FALSE]
  IN While(Begin, LAMBDA s : s.in # <<>>, Character).tags

-------------------------------------------------------------------------------
(* Pascal as one writes it, with its tags: no procedural types, no names   *)
(* that end in a keyword, and no comment before the name, or before        *)
(* "forward" or "extern".                                                  *)

Comments == Lit(<< "{", "procedure", "q", ";", "x", "}" >>) \union Lit(<< "(*", "function", "q", "*)" >>)
Simple == Lit(<< "x", ":", "=", "'s'", ";" >>) \union Lit(<< "y", "(", "x", ")", ";" >>) \union Comments

Arguments == { <<>>, << "(", "a", ",", "b", ":", "T", ";", "c", ":", "T", ")" >>, << "{", "x", "}" >> }
Results == [procedure |-> <<>>, function |-> << ":", "T" >>,
            constructor |-> <<>>, destructor |-> <<>>]

Heading(word, name, a) == << word, name >> \o a \o Results[word] \o << ";" >>
Block(body) == Lit(<< "begin" >>) ** body ** Lit(<< "end", ";" >>)
Declared(word, name, body) ==
  (UNION {Decl(Heading(word, name, a), << Kinds[word], name >>) : a \in Arguments}) ** body

Announced(word, name) ==
  UNION {Lit(Heading(word, name, a) \o << w, ";" >>) : a \in Arguments, w \in ForwardWords}

Nested == Declared("procedure", "T.p", Declared("function", "i", Block(Simple)) ** Block(Simple))
Methods ==
  Declared("constructor", "T.c", Block(Simple)) ** Decl(<< "destructor", "T.d", ";" >>, << "procedure", "T.d" >>)
    ** Block(Simple)
Final == Lit(<< "begin", "end", "." >>)

Sources ==
  UNION { Announced("function", "f") ** Opt(Comments) ** Declared("function", "f", Block(Simple)) ** Final,
          Nested ** Final,
          Announced("procedure", "p") ** Methods ** Final }
================================================================================
