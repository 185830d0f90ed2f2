---------------------------------- MODULE Perl ----------------------------------
(***************************************************************************)
(* perl.c: lines, told by the word they begin with; the name, and what     *)
(* tells a subroutine from its declaration, may be on the lines after.  A  *)
(* source is a sequence of lines, a line its tokens.  A tag is             *)
(* << kind, name >>.                                                       *)
(***************************************************************************)
EXTENDS TokenStream, SequencesExt

At(toks, i) == IF i \in DOMAIN toks THEN toks[i] ELSE ""
From(toks, i) == SubSeq(toks, i, Len(toks))

NoWord == { "", ":", "::", ";", "(", ")", "{", "}", "#", "=", "=>", "$", "@", "'A;'", "." }
Kinds == [sub |-> "subroutine", use |-> "constant", package |-> "package", format |-> "format"]

\* Words that begin like one that begins a declaration.
Prefixed == [subject |-> "sub", users |-> "use", packages |-> "package", formats |-> "format"]

PodWords == { "=head1", "=over", "=item", "=pod", "=begin", "=end", "=for" }
isPodWord(word) == word \in PodWords
NotPod == { "=encoding" }

isIdentifier(tok) == tok \notin NoWord \union PodWords \union NotPod \union { "=cut" }

-------------------------------------------------------------------------------
(* Declarations                                                            *)

\* Mutant: a semicolon in a prototype ends the declaration.
endsAnywhere(tok, nparens) == tok = ";"

endsDeclaration(tok, nparens) == tok = ";" /\ nparens = 0

\* What the lines after the name of a subroutine come to: << is it a declaration,
\* the lines left >>.  Parentheses hide, an attribute that ends its line ends the search.
isSubroutineDeclaration(toks, lines) ==
  LET RECURSIVE Search(_, _, _, _)
      Search(t, in, attr, nparens) ==
        LET Rest == Tail(t) IN
        CASE t = <<>> /\ in = <<>>               -> << FALSE, in >>
          [] t = <<>> /\ in # <<>>               -> Search(Head(in), Tail(in), attr, nparens)
          [] At(t, 1) = "("                      -> Search(Rest, in, attr, nparens + 1)
          [] At(t, 1) = ")"                      -> Search(Rest, in, attr, nparens - 1)
          [] At(t, 1) = ":" /\ nparens = 0 /\ ~ attr -> Search(Rest, in, TRUE, nparens)
          [] endsDeclaration(At(t, 1), nparens)  -> << TRUE, in >>
          [] isIdentifier(At(t, 1)) /\ attr /\ Rest # <<>> -> Search(Rest, in, FALSE, nparens)
          [] ~ attr /\ nparens # 0 /\ At(t, 1) \notin { "", "(", ")" } -> Search(Rest, in, attr, nparens)
          [] OTHER                               -> << FALSE, in >>
  IN Search(toks, lines, FALSE, 0)

\* A package is named with its path, anything else up to the first "::".
Path(toks) ==
  LET Part(i) == IF i % 2 = 1 THEN isIdentifier(toks[i]) ELSE toks[i] = "::"
      n == CHOOSE k \in 0 .. Len(toks) :
             /\ \A i \in 1 .. k : Part(i)
             /\ k = Len(toks) \/ ~ Part(k + 1)
  IN FoldLeft(LAMBDA name, tok : name \o tok, "", SubSeq(toks, 1, n))

Named(toks, kind) ==
  CASE kind = "package"                     -> Path(toks)
    [] kind # "package" /\ isIdentifier(At(toks, 1)) -> toks[1]
    [] kind = "format" /\ At(toks, 1) = "=" -> "STDOUT"
    [] OTHER                                -> ""

\* The tag, and the one with the name qualified by the package.
Made(s, kind, name) ==
  [s EXCEPT !.tags = @ \o << << kind, name >> >>
     \o IF kind \in { "package", "label" } \/ s.package = "" THEN <<>>
        ELSE << << kind, s.package \o name >> >>]

\* The name is on this line, or the first after it that is no comment.
Declaration(s, toks, kind) ==
  LET RECURSIVE Gobble(_, _)
      Gobble(t, in) == IF At(t, 1) \notin { "", "#" } THEN << t, in >>
                       ELSE IF in = <<>> THEN << <<>>, in >> ELSE Gobble(Head(in), Tail(in))
      found == Gobble(toks, s.in)
      name == Named(found[1], kind)
      verdict == isSubroutineDeclaration(Tail(found[1]), found[2])
      t == [s EXCEPT !.in = found[2]]
  IN IF name = "" THEN t
     ELSE IF kind # "subroutine" THEN Made(t, kind, name)
     ELSE IF verdict[1] THEN [t EXCEPT !.in = verdict[2]]
     ELSE Made([t EXCEPT !.in = verdict[2]], kind, name)

-------------------------------------------------------------------------------
(* Lines                                                                   *)

\* "packages" begins like "package", and is taken for the name of one.
setPackage(s, toks) ==
  IF toks[1] = "package" THEN [s EXCEPT !.package = Path(Tail(toks)) \o "::"]
  ELSE [s EXCEPT !.package = "s::"]

ReadLine(s) ==
  LET toks == Head(s.in)
      word == At(toks, 1)
      t == [s EXCEPT !.in = Tail(@)]
  IN IF s.pod THEN [t EXCEPT !.pod = word # "=cut"]
     ELSE
     CASE isPodWord(word)                      -> [t EXCEPT !.pod = TRUE]
       [] word = "__END__"                     -> [t EXCEPT !.in = <<>>]
       [] word = "package"                     -> Declaration(setPackage(t, toks), Tail(toks), "package")
       [] word = "packages"                    -> setPackage(t, toks)
       [] word = "use" /\ At(toks, 2) = "constant" -> Declaration(t, From(toks, 3), "constant")
       [] word \in { "sub", "format" }         -> Declaration(t, Tail(toks), Kinds[word])
       [] isIdentifier(word) /\ word \notin DOMAIN Kinds \union DOMAIN Prefixed /\ At(toks, 2) = ":" ->
            Declaration(t, toks, "label")
       [] OTHER -> t

findPerlTags(text) ==
  LET Begin == [in |-> text, tok |-> "", tags |-> <<>>, package |-> "", pod |-> FALSE]
  IN While(Begin, LAMBDA s : s.in # <<>>, ReadLine).tags

-------------------------------------------------------------------------------
(* Perl as one writes it, with its tags, qualified ones included.  Names   *)
(* are not qualified where they are declared, constants not in a list; a   *)
(* label does not begin like "sub", "use", "package" or "format", and a    *)
(* declaration is on one line: cut off, it would count as a definition.    *)

Line(toks) == Lit(<< toks >>)

Tags(kind, name, package) ==
  { << kind, name >> } \union (IF package = "" THEN {} ELSE { << kind, package \o name >> })

Declared(lines, kind, name, package) == { Piece(lines, Tags(kind, name, package)) }

Pod(word) == Line(<< word, "x" >>) ** Line(<< "sub", "q", "{" >>) ** Line(<< "=cut" >>)
Asides == UNION { Line(<< "#", "sub", "q", "{" >>), Line(<< "subject", "(", ")", ";" >>),
                  Line(<< "use", "constants", ";" >>), Pod("=head1"),
                  Line(<< "=encoding", "x" >>) }

Statements == Line(<< "x", "(", ")", ";" >>) \union Line(<< "my", "$", "x", ";" >>)
Labelled(name) == Declared(<< << name, ":", "for", "(", ";", ";", ")", "{" >>, << "}" >> >>, "label", name, "")
Body == Opt(Statements) \union Labelled("L") \union Asides

Heads(name) ==
  { << << "sub", name, "{" >> >>,
    << << "sub", name >>, << "{" >> >>,
    << << "sub" >>, <<>>, << "#", "x" >>, << name, "{" >> >>,
    << << "sub", name, "(", "$", ";", "@", ")", ":", "attr", "(", "x", ":", ")", "{" >> >>,
    << << "sub", name, ":", "attr" >>, << "{" >> >> }
Sub(name, package) ==
  (UNION {Declared(h, "subroutine", name, package) : h \in Heads(name)}) ** Body ** Line(<< "}" >>)

Forward ==
  Line(<< "sub", "d", ";" >>) \union Line(<< "sub", "d", "(", "$", ";", "@", ")", ":", "attr", ";" >>)

Constant(package) ==
  Declared(<< << "use", "constant", "K", "=>", "'A;'", ";" >> >>, "constant", "K", package)
    \union Declared(<< << "use", "constant" >>, << "K", "=>", "'A;'", ";" >> >>, "constant", "K", package)
Format(package) ==
  Declared(<< << "format", "=" >>, << "@" >>, << "." >> >>, "format", "STDOUT", package)
    \union Declared(<< << "format", "F", "=" >>, << "." >> >>, "format", "F", package)

Members(package) ==
  UNION { Sub("f", package) ** Opt(Forward), Asides ** Constant(package) ** Sub("f", package),
          Forward ** Format(package) }

Package(toks, name) == Declared(<< << "package" >> \o toks \o << ";" >> >>, "package", name, "")

Final == Line(<< "__END__" >>) ** Line(<< "sub", "q", "{" >>)

Sources ==
  UNION { Members("") ** Final,
          Constant("") ** Package(<< "P" >>, "P") ** Members("P::") ** Final,
          Package(<< "P", "::", "Q" >>, "P::Q") ** Members("P::Q::")
            ** Package(<< "R" >>, "R") ** Declared(<< << "sub", "g", "{", "}" >> >>, "subroutine", "g", "R::") }
================================================================================
