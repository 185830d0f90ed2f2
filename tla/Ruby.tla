---------------------------------- MODULE Ruby ----------------------------------
(***************************************************************************)
(* ruby.c: lines, and the scopes around them, entered and left as words    *)
(* like "do" and "end" are met.  A source is a sequence of lines, a line   *)
(* its tokens; what is in Glued is written next to the word before it, "." *)
(* and the word after it are one token.  A tag is << kind, name, scope >>. *)
(***************************************************************************)
EXTENDS TokenStream, SequencesExt

Glued == { ".to_s", ",", ")", "::" }
Marks == { "?", "!", "=" }
RUBY_OPERATORS == { "[]", "[]=", "+", "-@", "<=>", "==", "!" }

At(line, i) == IF i \in DOMAIN line THEN line[i] ELSE ""

\* A word counts only if a blank or "(" or nothing follows.
canMatch(line, i, words) == At(line, i) \in words /\ At(line, i + 1) \notin Glued

stringListToScope(nesting) == SelectSeq(nesting, LAMBDA name : name # "")

emitRubyTag(s, kind, name) ==
  [s EXCEPT !.tags = Append(@, << kind, name, stringListToScope(s.nesting) >>),
            !.nesting = Append(@, name)]

enterUnnamedScope(nesting) == Append(nesting, "")

-------------------------------------------------------------------------------
(* A line                                                                  *)

NamePlace(line, kind) == IF kind = "method" /\ At(line, 3) = "." THEN 4 ELSE 2

\* The mark of a method is part of its name; that of a singleton method is not.
parseIdentifier(line, kind) ==
  LET name == At(line, NamePlace(line, kind))
      mark == At(line, 3)
  IN CASE NamePlace(line, kind) = 4 -> << "singleton method", name >>
       [] kind = "method" /\ mark \in Marks -> << kind, name \o mark >>
       [] kind # "method" /\ name \in RUBY_OPERATORS \union {"<<"} -> << kind, "" >>
       [] OTHER -> << kind, name >>

readAndEmitTag(s, line, kind) ==
  LET tag == parseIdentifier(line, kind)
  IN IF tag[2] = "" THEN s ELSE emitRubyTag(s, tag[1], tag[2])

\* The words that open or close a scope at the start of a line, and those that define.
Openers == { "case", "for", "if", "unless", "while" }
Definers == [module |-> "module", class |-> "class", def |-> "method"]

\* Mutant: the modifiers open a scope, too.
LineStartAnywhere(s, line) ==
  CASE \E i \in DOMAIN line : canMatch(line, i, Openers) -> [s EXCEPT !.nesting = enterUnnamedScope(@)]
    [] canMatch(line, 1, DOMAIN Definers) -> readAndEmitTag(s, line, Definers[line[1]])
    [] OTHER -> s

LineStart(s, line) ==
  CASE canMatch(line, 1, Openers) -> [s EXCEPT !.nesting = enterUnnamedScope(@)]
    [] canMatch(line, 1, DOMAIN Definers) -> readAndEmitTag(s, line, Definers[line[1]])
    [] OTHER -> s

\* The quote that ends a string is taken for one that begins the next: nothing is
\* seen of a line after a string.
Visible(line) ==
  LET name == IF canMatch(line, 1, DOMAIN Definers) THEN NamePlace(line, Definers[line[1]]) ELSE 0
  IN SelectSeq([i \in DOMAIN line |-> i],
               LAMBDA i : i # name /\ \A j \in 1 .. i : line[j] \notin { "#", "STRING" })

LineRest(s, line) ==
  LET Meet(nesting, i) ==
        CASE canMatch(line, i, { "begin", "do" }) -> enterUnnamedScope(nesting)
          [] canMatch(line, i, { "end" }) /\ nesting # <<>> -> Front(nesting)
          [] OTHER -> nesting
  IN IF s.comment THEN s ELSE [s EXCEPT !.nesting = FoldLeft(Meet, @, Visible(line))]

ReadLine(s) ==
  LET line == Head(s.in)
      t == [s EXCEPT !.in = Tail(@)]
  IN CASE canMatch(line, 1, { "=begin" }) -> [t EXCEPT !.comment = TRUE]
       [] canMatch(line, 1, { "=end" })   -> [t EXCEPT !.comment = FALSE]
       [] OTHER -> LineRest(LineStart(t, line), line)

findRubyTags(text) ==
  LET Begin == [in |-> text, tok |-> "", tags |-> <<>>, nesting |-> <<>>, comment |-> FALSE]
  IN While(Begin, LAMBDA s : s.in # <<>>, ReadLine).tags

-------------------------------------------------------------------------------
(* Ruby as one writes it, with its tags.  A loop is written without "do",  *)
(* no "do" follows a string, no "end" is glued to what follows, and there  *)
(* are neither "until" nor "class << self": the nesting would be lost.     *)

Line(toks) == Lit(<< toks >>)
End == Line(<< "end" >>)
Block(head, body) == Line(head) ** body ** End

Simple ==
  UNION { Line(<< "x", ".end", "if", "y" >>),
          Line(<< "puts", "STRING", "unless", "z" >>),
          Line(<< "x", "=", "1", "#", "do", "it", "end" >>),
          Line(<< "=begin" >>) ** Line(<< "end", "of", "class", "Q" >>) ** Line(<< "=end" >>) }

Compound(body) ==
  UNION { Block(<< "if", "x" >>, body ** Line(<< "else" >>) ** body),
          Block(<< "while", "x" >>, body),
          Block(<< "case", "x" >>, Line(<< "when", "y" >>) ** body),
          Block(<< "y", ".each", "do", "|x|" >>, body),
          Block(<< "z", "=", "begin" >>, body),
          Line(<< "y", ".each", "do", "|x|", "x", "end" >>) }

Defined(scope, kind, name, head, body) ==
  Decl(<< head >>, << kind, name, scope >>) ** body ** End

Methods(scope, body) ==
  UNION { Defined(scope, "method", "m", << "def", "m", "(", "a", ")" >>, body),
          Defined(scope, "method", "m?", << "def", "m", "?" >>, body),
          Defined(scope, "singleton method", "s", << "def", "self", ".", "s", "(", "a", ")" >>, body),
          Decl(<< << "def", "[]=", "(", "k", ")", ";", "k", ";", "end" >> >>,
               << "method", "[]=", scope >>) }

Attribute(scope) ==
  Decl(<< << "def", "a", "=", "(", "v", ")" >>, << "@a", "=", "v" >>, << "end" >> >>, << "method", "a=", scope >>)

Classes(scope, body) ==
  UNION { Defined(scope, "class", "C", << "class", "C", "<", "B" >>, body),
          Defined(scope, "module", "C", << "module", "C" >>, body) }

Sources ==
  LET Bodies == Simple \union Compound(Simple)
      Inner == Append(<< "O" >>, "C")
  IN UNION { Methods(<<>>, Bodies) ** Attribute(<<>>),
             Classes(<<>>, Methods(<< "C" >>, Bodies) ** Attribute(<< "C" >>)) ** Attribute(<<>>),
             Defined(<<>>, "method", "end", << "def", "end" >>, Bodies),
             Defined(<<>>, "module", "O", << "module", "O" >>,
                     Classes(<< "O" >>, Methods(Inner, Line(<< "x" >>))) ** Attribute(<< "O" >>)) }
================================================================================
