----------------------------------- MODULE Tex -----------------------------------
(***************************************************************************)
(* tex.c: the titles of chapters, sections and the like.  A source is a    *)
(* sequence of tokens, the end of a line "NL"; a command is the backslash  *)
(* and its word.  A tag is << kind, title >>, the title the words that are *)
(* joined with blanks, a mark counting as an empty word.                   *)
(***************************************************************************)
EXTENDS TokenStream

TexKeywordTable == { "chapter", "section", "subsection", "subsubsection", "part",
                     "paragraph", "subparagraph", "include" }
Commands == [chapter |-> "\\chapter", section |-> "\\section", subsection |-> "\\subsection",
             subsubsection |-> "\\subsubsection", part |-> "\\part", paragraph |-> "\\paragraph",
             subparagraph |-> "\\subparagraph", include |-> "\\include", emph |-> "\\emph"]

\* A backslash before what is no letter is a mark of its own.
Marks == { "{", "}", "[", "]", "(", ")", ",", "*", "\\", "!" }

\* The word of a command, "" if it is none.
Word(tok) == IF \E w \in DOMAIN Commands : Commands[w] = tok
             THEN CHOOSE w \in DOMAIN Commands : Commands[w] = tok ELSE ""

isKeyword(s) == Word(s.tok) \in TexKeywordTable
isString(tok) == tok \in { "'s'" }
isIdentifier(s) == s.tok \notin Marks /\ ~ isKeyword(s) /\ ~ isString(s.tok)

readToken(s) ==
  LET RECURSIVE Read(_, _)
      Read(t, comment) ==
        LET u == ReadOn(t) IN
        CASE u.tok = "NL"                                -> Read(u, FALSE)
          [] u.tok = "%" \/ (comment /\ ~ Is(u, { "NL", "EOF" })) -> Read(u, TRUE)
          [] OTHER                                       -> u
  IN Read(s, FALSE)

\* The words of a title with one more: a mark at its start leaves no trace.
AddWord(s) ==
  LET word == CASE s.tok \in Marks -> "" [] Word(s.tok) # "" -> Word(s.tok) [] OTHER -> s.tok
  IN IF s.title = <<>> /\ word = "" THEN s ELSE [s EXCEPT !.title = Append(@, word)]

makeTexTag(s, kind) == MakeTag(s, << kind, s.title >>)

\* The short description is the title where there is one, words only.
ShortName(s, kind) ==
  makeTexTag(While(readToken(s), LAMBDA t : ~ Is(t, {"]"}),
                   LAMBDA t : readToken(IF isIdentifier(t) THEN AddWord(t) ELSE t)), kind)

LongName(s, kind) ==
  makeTexTag(While(readToken(s), LAMBDA t : ~ Is(t, {"}"}), LAMBDA t : readToken(AddWord(t))), kind)

\* Mutant: the title of the section before is still there.
BeginKept(s) == readToken(s)

Begin(s) == readToken([s EXCEPT !.title = <<>>])

\* A "*" is passed over, but no "[" is looked for after it; what follows a short
\* description is read as any text.
parseTag(s) ==
  LET kind == Word(s.tok)
      t == Begin(s)
      u == IF Is(t, {"*"}) THEN readToken(t) ELSE t
  IN IF Is(t, {"["}) THEN ShortName(t, kind)
     ELSE IF Is(u, {"{"}) THEN LongName(u, kind) ELSE u

parseTexFile(s) ==
  While(s, LAMBDA t : TRUE, LAMBDA t : LET u == readToken(t) IN IF isKeyword(u) THEN parseTag(u) ELSE u)

findTexTags(text) ==
  parseTexFile([in |-> text, tok |-> "", tags |-> <<>>, title |-> <<>>]).tags

-------------------------------------------------------------------------------
(* LaTeX as one writes it, with its tags: no braces within a title, no     *)
(* short description after "*", and no apostrophes.                        *)

Asides ==
  UNION { Lit(<< "a", "(", "\\emph", "{", "b", "}", ",", "'s'", ")", "NL" >>),
          Lit(<< "%", "\\section", "{", "q", "}", "NL" >>),
          Lit(<< "\\", "{", "a", "\\", "}", "NL" >>) }

Titles == { << "a" >>, << "a", "b" >>, << "a", "NL", "b", ",", "c", "!" >>,
            << "(", "a", ")", "%", "}", "NL", "b" >>, << "\\emph", "a", "'s'" >> }

\* What is joined of a title, its marks as empty words.
Joined(title) ==
  CASE title = << "a", "NL", "b", ",", "c", "!" >>            -> << "a", "b", "", "c", "" >>
    [] title = << "(", "a", ")", "%", "}", "NL", "b" >>       -> << "a", "", "b" >>
    [] title = << "\\emph", "a", "'s'" >>                    -> << "emph", "a", "'s'" >>
    [] OTHER                                                  -> title

Plain(kind, star) ==
  UNION {Decl(<< Commands[kind] >> \o star \o << "{" >> \o title \o << "}", "NL" >>, << kind, Joined(title) >>) :
           title \in Titles}
Short(kind) ==
  Decl(<< Commands[kind], "[", "s", ",", "t", "]", "{", "a", "b", "}", "NL" >>, << kind, << "s", "t" >> >>)
Section(kind) == UNION { Plain(kind, <<>>), Plain(kind, << "*" >>), Short(kind) }

\* A command of the same name that is no heading.
Toc == Lit(<< "\\part", "a", "NL" >>)

Sources ==
  UNION { Section("chapter") ** Asides ** Section("section"),
          Opt(Asides) ** Section("subsection") ** Opt(Toc) ** Decl(<< "\\include", "{", "f", "}", "NL" >>, << "include", << "f" >> >>),
          Section("paragraph") ** Asides ** Section("subparagraph"),
          Section("part") ** Section("subsubsection") }
================================================================================
