------------------------------ MODULE TokenStream ------------------------------
(***************************************************************************)
(* What the recursive-descent parsers of ctags have in common.  A parser's *)
(* state is a record: the tokens still to be read, the one in hand, the    *)
(* tags made.  Reading on at the end of a file is a longjmp to the         *)
(* function that began the file: here the token "EOF", on which nothing is *)
(* read, every loop ends, and no tag is made.                              *)
(***************************************************************************)
EXTENDS Naturals, Sequences, FiniteSets

AtEnd(s) == s.tok = "EOF"
Is(s, tokens) == s.tok \in tokens

Start(text) == [in |-> text, tok |-> "", tags |-> <<>>, ret |-> FALSE]

\* The result of a function of the program.
Return(s, value) == [s EXCEPT !.ret = value]

ReadOn(s) ==
  IF s.in = <<>> THEN [s EXCEPT !.tok = "EOF"]
  ELSE [s EXCEPT !.tok = Head(s.in), !.in = Tail(s.in)]

MakeTag(s, tag) == IF AtEnd(s) THEN s ELSE [s EXCEPT !.tags = Append(@, tag)]

When(s, condition, F(_)) == IF condition /\ ~ AtEnd(s) THEN F(s) ELSE s

While(s, P(_), F(_)) ==
  LET RECURSIVE Loop(_)
      Loop(t) == IF AtEnd(t) \/ ~ P(t) THEN t ELSE Loop(F(t))
  IN Loop(s)

\* From an opening token to the one that closes it, nested ones counted.
SkipGroup(s, open, close) ==
  LET RECURSIVE Skip(_, _)
      Skip(t, depth) ==
        LET u == ReadOn(t) IN
        CASE AtEnd(t) \/ depth = 0 -> t
          [] Is(u, {open})         -> Skip(u, depth + 1)
          [] Is(u, {close})        -> Skip(u, depth - 1)
          [] OTHER                 -> Skip(u, depth)
  IN Skip(s, 1)

-------------------------------------------------------------------------------
(* Names with a scope before them, as sequences of identifiers.  Some parsers *)
(* keep the scope so far in their token.                                      *)

NoName == << "" >>

\* vStringCatS of a period, if there is anything before it, and of the rest.
Dot(a, b) == IF a = NoName THEN b ELSE a \o b

addToScope(s, extra) == [s EXCEPT !.scope = Dot(@, extra)]

-------------------------------------------------------------------------------
(* Sources with the tags a reader expects of them, and how sets of them are   *)
(* put together: the sentences of a grammar, up to a bound.                   *)

Piece(text, tags) == [text |-> text, tags |-> tags]

\* Tokens that declare nothing.
Lit(text) == {Piece(text, {})}

\* Tokens with one tag.
Decl(text, tag) == {Piece(text, {tag})}

\* One after the other; what one declares, the other does not.
A ** B ==
  {Piece(p[1].text \o p[2].text, p[1].tags \union p[2].tags) :
     p \in {q \in A \X B : q[1].tags \intersect q[2].tags = {}}}

Opt(A) == A \union Lit(<<>>)

\* One after another, at most n.
UpTo(n, A) ==
  LET Of[k \in 0 .. n] == IF k = 0 THEN Lit(<<>>) ELSE Opt(A ** Of[k - 1]) IN Of[n]

SetOf(s) == {s[i] : i \in DOMAIN s}

\* The tags made are those of the source, each once.
Exactly(tags, source) == SetOf(tags) = source.tags /\ Len(tags) = Cardinality(source.tags)
================================================================================
