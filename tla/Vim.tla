----------------------------------- MODULE Vim -----------------------------------
(***************************************************************************)
(* vim.c: lines, told by how they begin.  The tests follow each other on   *)
(* the one line buffer, which holds another line once a test has read on.  *)
(* A source is a sequence of lines, a line its tokens; what is in Glued is *)
(* written next to the token after it.  A tag is << kind, name >>.         *)
(***************************************************************************)
EXTENDS TokenStream, SequencesExt

At(toks, i) == IF i \in DOMAIN toks THEN toks[i] ELSE ""
Without(toks, words) == SelectSeq(toks, LAMBDA tok : tok \notin words)

isUpper(name) == name \in { "F", "G" }

\* Commands, abbreviated or not; those that only begin like one are none.
Commands == { "com", "command", "command!" }
Functions == { "fu", "function", "function!" }
Autogroups == { "aug", "augroup" }
Maps == { "map", "map!", "nnoremap", "inoremap", "cmap" }

\* Any word that begins like an abbreviation of a map is one.
isMap(word) == word \in Maps \union { "normal", "nohlsearch", "imenu" }

SpecialArguments == { "<buffer>", "<silent>", "<script>", "<unique>", "<expr>", "<special>" }

\* Scopes of functions: of the script, of a dictionary, autoloaded.
skipPrefix(toks) ==
  CASE At(toks, 1) \in { "s:", "<SID>" }   -> << "s", At(toks, 2) >>
    [] At(toks, 1) = "g:"                  -> << "g", At(toks, 2) >>
    [] At(toks, 1) = "d.f"                 -> << "d", At(toks, 1) >>
    [] At(toks, 1) = "a#f"                 -> << "a", At(toks, 1) >>
    [] OTHER                               -> << "", At(toks, 1) >>

Made(s, kind, name) ==
  IF name = "" THEN s ELSE [s EXCEPT !.tags = Append(@, << kind, name >>)]

\* The next line that is no comment; the buffer is empty at the end of the file.
readVimLine(s) ==
  LET n == CHOOSE k \in 0 .. Len(s.in) :
             /\ \A i \in 1 .. k : At(s.in[i], 1) = "\""
             /\ k = Len(s.in) \/ At(s.in[k + 1], 1) # "\""
  IN IF n = Len(s.in) THEN [s EXCEPT !.in = <<>>, !.line = <<>>, !.tok = "EOF"]
     ELSE [s EXCEPT !.in = SubSeq(@, n + 2, Len(@)), !.line = s.in[n + 1]]

-------------------------------------------------------------------------------
(* What a line declares                                                    *)

EndsFunction(toks) == At(toks, 1) \in { "endf", "endfunction" }

\* What is in a function declares nothing.
parseFunction(s) ==
  LET found == skipPrefix(Tail(s.line))
      t == IF isUpper(found[2]) \/ found[1] \in { "s", "d", "a" }
           THEN Made(s, "function", found[2]) ELSE s
  IN While(readVimLine(t), LAMBDA u : ~ EndsFunction(u.line), readVimLine)

parseAutogroup(s) ==
  IF At(s.line, 2) \in { "END", "ending" } THEN s ELSE Made(s, "augroup", At(s.line, 2))

isOption(tok) == tok \in { "-nargs=1", "-bang" }

\* There is no line where one is read: what the program then does is no tag of any script.
Crash(s) == [s EXCEPT !.tags = Append(@, << "crash", "" >>)]

\* The name of a command is its first word that is no option.  Without one the next line
\* is gone on with if it continues or begins a command; if there is no next line, NULL is.
parseCommand(s) ==
  LET RECURSIVE Command(_)
      Command(t) ==
        LET words == SelectSeq(Tail(t.line), LAMBDA tok : ~ isOption(tok))
            next == readVimLine(t)
        IN CASE At(t.line, 1) \in Commands /\ Len(t.line) = 1    -> t
             [] words # <<>>                                     -> Made(t, "command", words[1])
             [] AtEnd(next)                                      -> Crash(next)
             [] At(next.line, 1) \in Commands \union { "\\" }    -> Command(next)
             [] OTHER                                            -> next
  IN Command(s)

\* Options, registers, lists and the variables of Vim are no variables.
parseLet(s) ==
  IF At(s.line, 2) \in { "&", "@", "[", "v:" } THEN s ELSE Made(s, "variable", At(s.line, 2))

\* Mutant: the special arguments are not skipped.
parseMapPlain(s) == Made(s, "map", At(s.line, 2))

parseMap(s) == Made(s, "map", At(Without(Tail(s.line), SpecialArguments), 1))

-------------------------------------------------------------------------------
(* Lines                                                                   *)

Test(s, words, F(_)) == IF At(s.line, 1) \in words THEN F(s) ELSE s

parseVimLine(s) ==
  LET t == Test(s, Commands, parseCommand)
      u == IF isMap(At(t.line, 1)) THEN parseMap(t) ELSE t
      v == Test(u, Functions, parseFunction)
      w == Test(v, Autogroups, parseAutogroup)
  IN Test(w, { "let" }, parseLet)

findVimTags(text) ==
  LET Begin == [in |-> text, tok |-> "", tags |-> <<>>, line |-> <<>>]
  IN While(readVimLine(Begin), LAMBDA s : TRUE, LAMBDA s : readVimLine(parseVimLine(s))).tags

-------------------------------------------------------------------------------
(* Vim scripts as one writes them, with their tags.  No ":normal",         *)
(* ":nohlsearch" or menu: they begin like maps.                            *)

\* Cut where a command has options and no name yet: on such a script the program crashes.
EndsInCommand(text) ==
  LET code == SelectSeq(text, LAMBDA line : At(line, 1) # "\"")
  IN code # <<>> /\ At(Last(code), 1) \in Commands \union { "\\" }
       /\ Len(Last(code)) > 1 /\ \A i \in 2 .. Len(Last(code)) : isOption(Last(code)[i])

Line(toks) == Lit(<< toks >>)
Declared(toks, kind, name) == Decl(<< toks >>, << kind, name >>)

Asides ==
  UNION { Line(<< "\"", "let", "q", "=", "1" >>), Line(<< "if", "x" >>), Line(<<>>),
          Line(<< "let", "&", "q", "=", "1" >>), Line(<< "let", "v:", "q", "=", "1" >>),
          Line(<< "comclear" >>), Line(<< "command" >>), Line(<< "letters", "x" >>), Line(<< "map" >>) }

Body ==
  UNION { Lit(<<>>), Line(<< "let", "l:x", "=", "1" >>), Line(<< "for", "x", "in", "y" >>) ** Line(<< "endfor" >>),
          Line(<< "\"", "endfunction" >>) ** Line(<< "map", "x", "y" >>) }

FunctionOf(head, names) ==
  (UNION {Declared(head \o name, "function", name[Len(name)]) : name \in names})
    ** Body ** Line(<< "endfunction" >>)
Script == FunctionOf(<< "function!" >>, { << "F" >>, << "s:", "f" >>, << "g:", "F" >>, << "a#f" >> })
Dictionary == FunctionOf(<< "fu" >>, { << "G" >>, << "<SID>", "g" >>, << "d.f" >> })

CommandDecl ==
  UNION { Declared(<< "com", "Edit", "edit" >>, "command", "Edit"),
          Declared(<< "command!", "-nargs=1", "-bang", "Edit", "edit" >>, "command", "Edit"),
          Line(<< "command", "-nargs=1", "-bang" >>) ** Opt(Line(<< "\"", "x" >>))
            ** Declared(<< "\\", "Edit", "edit" >>, "command", "Edit"),
          Line(<< "command", "-nargs=1" >>) ** Line(<< "\\", "-bang" >>)
            ** Declared(<< "\\", "Edit", "let" >>, "command", "Edit"),
          Line(<< "command", "-bang" >>) ** Declared(<< "com", "Edit", "edit" >>, "command", "Edit") }

Mapping ==
  UNION { Declared(<< "map", "K", "x" >>, "map", "K"),
          Declared(<< "nnoremap", "<silent>", "<F8>", "x" >>, "map", "<F8>"),
          Declared(<< "inoremap", "<buffer>", "<expr>", "<Leader>k", "x" >>, "map", "<Leader>k"),
          Declared(<< "map!", "<unique>", "<Leader>", "x" >>, "map", "<Leader>") }

Group == Declared(<< "augroup", "g" >>, "augroup", "g") ** Line(<< "au", "x" >>) ** Line(<< "augroup", "END" >>)

VariableDecl ==
  Declared(<< "let", "s:x", "=", "1" >>, "variable", "s:x")
    \union Declared(<< "let", "$X", "=", "1" >>, "variable", "$X")

Sources ==
  UNION { Opt(Asides) ** Script ** CommandDecl ** Mapping,
          Mapping ** Dictionary ** Opt(Asides) ** VariableDecl,
          CommandDecl ** Asides ** Group ** VariableDecl }
================================================================================
