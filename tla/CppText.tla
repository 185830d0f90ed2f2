-------------------------------- MODULE CppText --------------------------------
(***************************************************************************)
(* cppGetc: the text of a C, C++, C# or Java file as its parser gets it,   *)
(* without comments, contents of strings and directives, and the tags of   *)
(* macros.  A text is a sequence of characters, of which a run of letters  *)
(* and digits is one.  The parser is between two statements, so branches   *)
(* are ignored under an #if 0 only; what conditionals do within a          *)
(* statement, and how deep they go, is the matter of CppConditionals.      *)
(***************************************************************************)
EXTENDS Naturals, Sequences, TokenStream

EOF == "EOF"
NL == "NEWLINE"
Quote == "\""
Backslash == "\\"
STRING_SYMBOL == "STRING"
CHAR_SYMBOL == "CHAR"

Names == {"a", "b", "M", "N", "X", "weak", "x",
          "define", "undef", "if", "ifdef", "elif", "else", "endif", "pragma",
          "error", "include"}
Based == {"b", "b1010", "define"}             \* words that begin with one of D, H, O and B
isalnum(c) == c \in Names \cup Based \cup {"0", "1"}
isident1(c) == c \in Names \cup Based

-------------------------------------------------------------------------------
(* The state: the file from here on, Cpp, the locals of cppGetc, the tags  *)

Outside == [ignoreAllBranches |-> FALSE, ignoring |-> FALSE]

cppInit(text, hasAtLiteralStrings) ==
  [in |-> text, c |-> "", ungetch |-> <<>>, accept |-> TRUE, state |-> "NONE",
   ifdef |-> <<Outside>>, at |-> hasAtLiteralStrings, directive |-> FALSE,
   ignore |-> FALSE, tags |-> <<>>]

After(in, n) == SubSeq(in, n + 1, Len(in))
Next1(in) == IF in = <<>> THEN EOF ELSE Head(in)
fileGetc(s) == [s EXCEPT !.c = Next1(s.in), !.in = After(@, 1)]

\* Of three characters the first is lost.
cppUngetc(s, c) == [s EXCEPT !.ungetch = SubSeq(<<c>> \o @, 1, IF @ = <<>> THEN 1 ELSE 2)]

-------------------------------------------------------------------------------
(* Comments, strings, characters: what is left of the file after them      *)

\* From the first of the stops on, a backslash taken with what follows it.
RECURSIVE From(_, _, _)
From(in, stops, escapes) ==
  CASE in = <<>> \/ Next1(in) \in stops        -> in
    [] Next1(in) = Backslash /\ escapes        -> From(After(in, 2), stops, escapes)
    [] OTHER                                   -> From(After(in, 1), stops, escapes)

\* What is left begins with what the comment stands for.
RECURSIVE skipOverCComment(_)
skipOverCComment(in) ==
  LET star == From(in, {"*"}, FALSE) IN
  IF star = <<>> THEN <<EOF>>
  ELSE IF Next1(After(star, 1)) = "/" THEN <<" ">> \o After(star, 2)
       ELSE skipOverCComment(After(star, 1))

\* Mutant: the line after one that ends in a backslash is taken for text.
skipOverOneLine(in) == From(in, {NL}, FALSE)

skipOverCplusComment(in) == From(in, {NL}, TRUE)

skipToEndOfString(in, ignoreBackslash) == After(From(in, {Quote}, ~ ignoreBackslash), 1)

\* A character, or a number with a base, as Vera has them.
RECURSIVE CharEnd(_, _, _)
CharEnd(in, count, base) ==
  LET c == Next1(in) IN
  CASE c \in {EOF, NL}          -> in
    [] c = Backslash            -> CharEnd(After(in, 2), count + 1, base)
    [] c = "'"                  -> After(in, 1)
    [] count = 0 /\ c \in Based -> CharEnd(After(in, 1), 1, TRUE)
    [] base /\ ~ isalnum(c)     -> in
    [] OTHER                    -> CharEnd(After(in, 1), count + 1, base)

skipToEndOfChar(in) == CharEnd(in, 0, FALSE)

-------------------------------------------------------------------------------
(* Directives                                                              *)

isIgnore(s) == s.ifdef[Len(s.ifdef)].ignoring

makeDefineTag(s, name) == [s EXCEPT !.tags = Append(@, name)]

directiveDefine(s, c) ==
  IF isident1(c) /\ ~ isIgnore(s) THEN makeDefineTag(s, c) ELSE s

RECURSIVE PastSpaces(_)
PastSpaces(in) == IF Next1(in) = " " THEN PastSpaces(After(in, 1)) ELSE in

\* What follows weak is read, whatever it is, and in whatever branch.
directivePragma(s, c) ==
  IF c # "weak" THEN s
  ELSE LET t == fileGetc([s EXCEPT !.in = PastSpaces(@)])
       IN IF isident1(t.c) THEN makeDefineTag(t, t.c) ELSE t

pushConditional(s, firstBranchChosen) ==
  [s EXCEPT !.ifdef = Append(@, [ignoreAllBranches |-> isIgnore(s),
                                 ignoring |-> isIgnore(s) \/ ~ firstBranchChosen])]

popConditional(s) ==
  IF Len(s.ifdef) = 1 THEN s ELSE [s EXCEPT !.ifdef = SubSeq(@, 1, Len(@) - 1)]

\* Between statements a later branch is ignored with all others only.
nextBranch(s) ==
  [s EXCEPT !.ifdef[Len(s.ifdef)].ignoring = s.ifdef[Len(s.ifdef)].ignoreAllBranches]

Showing(s) == [s EXCEPT !.ignore = isIgnore(s)]

directiveHash(s, directive) ==
  LET t == [s EXCEPT !.state = "NONE", !.ignore = FALSE] IN
  CASE directive \in {"define", "undef"} -> [t EXCEPT !.state = "DEFINE"]
    [] directive \in {"if", "ifdef"}     -> [t EXCEPT !.state = "IF"]
    [] directive \in {"elif", "else"}    -> Showing(nextBranch(t))
    [] directive = "endif"               -> Showing(popConditional(t))
    [] directive = "pragma"              -> [t EXCEPT !.state = "PRAGMA"]
    [] OTHER                             -> t

\* The character in hand, within a directive.
handleDirective(s) ==
  LET t == [Showing(s) EXCEPT !.state = "NONE"] IN
  CASE s.state = "NONE"   -> t
    [] s.state = "DEFINE" -> directiveDefine(t, s.c)
    [] s.state = "HASH"   -> directiveHash(s, s.c)
    [] s.state = "IF"     -> Showing(pushConditional(t, s.c # "0"))
    [] s.state = "PRAGMA" -> [directivePragma(t, s.c) EXCEPT !.c = s.c]

-------------------------------------------------------------------------------
(* cppGetc                                                                 *)

\* A directive ends with its line, and an ignored branch with a directive.
Newline(s) ==
  [s EXCEPT !.directive = @ /\ s.ignore, !.accept = TRUE]

Hash(s) ==
  IF s.accept THEN [s EXCEPT !.directive = TRUE, !.state = "HASH", !.accept = FALSE] ELSE s

Slash(s) ==
  CASE Next1(s.in) = "*" ->
         fileGetc([s EXCEPT !.in = skipOverCComment(After(@, 1))])
    [] Next1(s.in) = "/" ->
         LET rest == skipOverCplusComment(After(s.in, 1))
         IN [s EXCEPT !.in = rest, !.c = Next1(rest)]
    [] OTHER -> [s EXCEPT !.accept = FALSE]

\* A line goes on, but the parser gets the backslash.
Continuation(s) ==
  CASE Next1(s.in) = NL  -> [s EXCEPT !.in = After(@, 1)]
    [] Next1(s.in) = "?" -> cppUngetc([s EXCEPT !.in = After(@, 1)], "?")
    [] OTHER             -> s

Other(s) ==
  IF s.c = "@" /\ s.at /\ Next1(s.in) = Quote
  THEN [s EXCEPT !.accept = FALSE, !.c = STRING_SYMBOL,
                 !.in = skipToEndOfString(After(@, 1), TRUE)]
  ELSE LET t == [s EXCEPT !.accept = FALSE,
                          !.in = IF s.c = "@" /\ s.at THEN After(@, 1) ELSE @]
       IN IF s.directive THEN handleDirective(t) ELSE t

Trigraphs == [b \in {"(", ")", "<", ">", "!", "'", "-"} |->
                CASE b = "(" -> "[" [] b = ")" -> "]" [] b = "<" -> "{" [] b = ">" -> "}"
                  [] b = "!" -> "|" [] b = "'" -> "^" [] b = "-" -> "~"]

\* Mutant: what a trigraph stands for is not looked at again.
QuestionAsText(s) ==
  LET third == Next1(After(s.in, 1)) IN
  IF Next1(s.in) # "?" THEN s
  ELSE CASE third \in DOMAIN Trigraphs -> [s EXCEPT !.in = After(@, 2), !.c = Trigraphs[third]]
         [] third = "/" -> [s EXCEPT !.in = After(@, 2), !.c = Backslash]
         [] third = "=" -> [s EXCEPT !.in = After(@, 2), !.c = "#"]
         [] OTHER       -> cppUngetc([s EXCEPT !.in = After(@, 1)], "?")

Question(s) ==
  LET third == Next1(After(s.in, 1)) IN
  IF Next1(s.in) # "?" THEN s
  ELSE CASE third \in DOMAIN Trigraphs -> [s EXCEPT !.in = After(@, 2), !.c = Trigraphs[third]]
         [] third = "/" -> Continuation([s EXCEPT !.in = After(@, 2), !.c = Backslash])
         [] third = "=" -> Hash([s EXCEPT !.in = After(@, 2), !.c = "#"])
         [] OTHER       -> cppUngetc([s EXCEPT !.in = After(@, 1)], "?")

process(s) ==
  CASE s.c = EOF       -> [s EXCEPT !.directive = FALSE, !.ignore = FALSE]
    [] s.c = " "       -> s
    [] s.c = NL        -> Newline(s)
    [] s.c = Quote     -> [s EXCEPT !.accept = FALSE, !.c = STRING_SYMBOL,
                                    !.in = skipToEndOfString(@, FALSE)]
    [] s.c = "#"       -> Hash(s)
    [] s.c = "'"       -> [s EXCEPT !.accept = FALSE, !.c = CHAR_SYMBOL,
                                    !.in = skipToEndOfChar(@)]
    [] s.c = "/"       -> Slash(s)
    [] s.c = Backslash -> Continuation(s)
    [] s.c = "?"       -> Question(s)
    [] OTHER           -> Other(s)

RECURSIVE Read(_)
Read(s) ==
  LET t == process(fileGetc(s)) IN IF t.directive \/ t.ignore THEN Read(t) ELSE t

cppGetc(s) ==
  IF s.ungetch # <<>> THEN [s EXCEPT !.c = Head(s.ungetch), !.ungetch = Tail(@)]
  ELSE Read([s EXCEPT !.directive = FALSE, !.ignore = FALSE])

\* All a parser gets of a file, blanks left out, and the tags of macros.
Blank == {" ", NL, Backslash}
RECURSIVE Delivered(_, _)
Delivered(s, text) ==
  LET t == cppGetc(s) IN
  CASE t.c = EOF      -> [text |-> text, tags |-> t.tags]
    [] t.c \in Blank  -> Delivered(t, text)
    [] OTHER          -> Delivered(t, Append(text, t.c))

-------------------------------------------------------------------------------
(* Texts, what a reader sees of them, and the macros they define           *)

Says(text, shown) == {[text |-> text, tags |-> {}, shown |-> shown, at |-> FALSE]}
Unseen(text) == Says(text, <<>>)
Macro(text, name) == {[text |-> text, tags |-> {name}, shown |-> <<>>, at |-> FALSE]}

A ++ B ==
  {[text |-> p[1].text \o p[2].text, tags |-> p[1].tags \union p[2].tags,
    shown |-> p[1].shown \o p[2].shown, at |-> p[1].at \/ p[2].at] :
     p \in {q \in A \X B : q[1].tags \intersect q[2].tags = {}}}

\* A literal of C#, in which a backslash is nothing special.
AtLiteral ==
  {[p EXCEPT !.at = TRUE] : p \in Says(<<"@", Quote, "a", Backslash, Quote>>, <<STRING_SYMBOL>>)}

Literals ==
  UNION {Says(<<Quote, "a", Quote>>, <<STRING_SYMBOL>>),
         Says(<<Quote, Backslash, Quote, "/", "*", Quote>>, <<STRING_SYMBOL>>),
         Says(<<Quote, "'", "/", "/", Backslash, NL, "#", Quote>>, <<STRING_SYMBOL>>),
         Says(<<"'", Quote, "'">>, <<CHAR_SYMBOL>>),
         Says(<<"'", Backslash, "'", "'">>, <<CHAR_SYMBOL>>),
         Says(<<"'", Backslash, Backslash, "'">>, <<CHAR_SYMBOL>>),
         Says(<<"'", "b", "'">>, <<CHAR_SYMBOL>>),
         Says(<<"'", "b1010", ";">>, <<CHAR_SYMBOL, ";">>),
         AtLiteral}

Comments ==
  UNION {Unseen(<<"/", "*", Quote, "'", "*", "*", "/">>),
         Unseen(<<"/", "*", "/", "*", "/">>),
         Unseen(<<"/", "*", NL, "#", "define", " ", "X", NL, "*", "/">>)}

Marks ==
  UNION {Says(<<"?", "?", "(">>, <<"[">>), Says(<<"?", "?", "'">>, <<"^">>),
         Says(<<"?", "?", "a">>, <<"?", "?", "a">>), Says(<<"?", "a">>, <<"?", "a">>),
         Says(<<"b", "/", "a">>, <<"b", "/", "a">>), Says(<<"a", " ", "#">>, <<"a", "#">>),
         Says(<<"a", "?", "?", "=">>, <<"a", "#">>),
         Says(<<"a", Backslash, NL, "b">>, <<"a", "b">>),
         Says(<<"a", "?", "?", "/", NL, "b">>, <<"a", "b">>)}

Words == Literals \union Comments \union Marks

\* Comments to the end of a line, or of the next.
LineEnds ==
  UNION {Unseen(<<NL>>),
         Unseen(<<"/", "/", Quote, "/", "*", NL>>),
         Unseen(<<"/", "/", "'", Backslash, NL, Quote, NL>>)}

Line == Words ++ LineEnds

\* What directives are followed by.
Rests ==
  UNION {Unseen(<<NL>>), Unseen(<<"(", "x", ")", " ", Quote, "a", Quote, NL>>),
         Unseen(<<" ", Backslash, NL, "a", NL>>), Unseen(<<" ", "/", "*", NL, "a", "*", "/", "b", NL>>),
         Unseen(<<" ", "/", "/", "a", NL>>), Unseen(<<" ", "'", "a", NL>>)}

Define(name) ==
  UNION {Macro(<<"#", "define", " ", name>>, name),
         Macro(<<" ", "#", " ", "define", " ", " ", name>>, name),
         Macro(<<"/", "*", "a", "*", "/", "#", "define", "/", "*", NL, "*", "/", name>>, name),
         Macro(<<"?", "?", "=", "define", " ", Backslash, NL, name>>, name)}

Pragma ==
  Macro(<<"#", "pragma", " ", "weak", " ", " ", "N", NL>>, "N")
    \union Unseen(<<"#", "pragma", " ", "a", " ", "weak", " ", "X", NL>>)

Others ==
  UNION {Unseen(<<"#", "error", " ", "a", "'", "b", NL>>), Unseen(<<"#", NL>>),
         Unseen(<<"#", "include", " ", Quote, "a", Quote, NL>>),
         Unseen(<<"#", "include", " ", "<", "a", ">", NL>>)}

Directives == (Define("M") ++ Rests) \union Pragma \union Others

\* In a branch that is not compiled, where no macro is defined: ctags.1:518 promises its
\* tag, and directiveDefine makes none.
Hidden(A) == {[p EXCEPT !.shown = <<>>] : p \in {q \in A : q.tags = {}}}

If(condition, A, B) ==
  Unseen(<<"#", "if", " ", condition, NL>>) ++ A ++ Unseen(<<"#", "else", NL>>) ++ B
    ++ Unseen(<<"#", "endif", NL>>)

Plain == Says(<<"a", NL>>, <<"a">>)

Few ==
  UNION {Plain, Define("M") ++ Unseen(<<NL>>), Literals ++ Unseen(<<NL>>),
         Comments ++ Unseen(<<NL>>), Unseen(<<"/", "/", Quote, NL>>)}

Branches ==
  UNION {If("0", Hidden(Few), Plain), If("X", Few, Plain), If("0", Hidden(Plain), Few),
         If("0", Hidden(If("0", Plain, Few)), Plain),
         If("0", Hidden(If("X", Few, Plain)), Plain),
         If("0", Hidden(Plain), If("0", Hidden(Few), Plain)),
         If("X", If("0", Hidden(Few), Plain), Plain)}

Sources ==
  UNION {Words ++ Unseen(<<" ">>) ++ Line, Directives ++ Line, Line ++ Directives,
         Branches ++ Says(<<"b">>, <<"b">>)}

\* A text as it should be delivered; one that goes on, by the words there are.
AsWritten(read, source, whole) ==
  LET Seen(s) == SelectSeq(s, LAMBDA c : c \in Names) IN
  IF whole THEN read.text = source.shown
  ELSE Len(Seen(read.text)) <= Len(Seen(source.shown))
         /\ Seen(read.text) = SubSeq(Seen(source.shown), 1, Len(Seen(read.text)))
================================================================================
