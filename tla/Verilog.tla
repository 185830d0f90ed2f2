--------------------------------- MODULE Verilog ---------------------------------
(***************************************************************************)
(* verilog.c: names listed after a keyword that begins a line or a         *)
(* statement.  "NL" is the end of a line.  A string is "@"; "#" is written *)
(* next to the "(" after it, "}" next to what follows, a backquote is "'". *)
(***************************************************************************)
EXTENDS TokenStream

Kinds == [constant |-> { "'define", "parameter", "specparam" },
          event    |-> {"event"},
          function |-> {"function"},
          module   |-> {"module"},
          net      |-> { "supply0", "supply1", "tri0", "tri1", "triand", "tri", "trior", "trireg",
                         "wand", "wire", "wor" },
          port     |-> { "inout", "input", "output" },
          register |-> { "integer", "real", "realtime", "reg", "time" },
          task     |-> {"task"}]

Tagged(word) == \E kind \in DOMAIN Kinds : word \in Kinds[kind]
kindOf(word) == CHOOSE kind \in DOMAIN Kinds : word \in Kinds[kind]

Marks == { "(", ")", "[", "]", "{", "}", ",", ";", "=", "#", ":", "@", ".", "+", "-", "NL", "EOF", "" }
isIdentifier(s) == s.tok \notin Marks

Unread(s) == IF AtEnd(s) THEN s ELSE [s EXCEPT !.in = << s.tok >> \o @]

skipWhite(s) == While(s, LAMBDA t : Is(t, {"NL"}), ReadOn)
NextVisible(s) == skipWhite(ReadOn(s))

\* What follows the bracket that matches the one in hand.
skipPastMatch(s, close) == ReadOn(SkipGroup(s, s.tok, close))
PastMatch(s, open, close) == skipWhite(When(s, Is(s, {open}), LAMBDA t : skipPastMatch(t, close)))

\* Mutant: what a name is set to is not skipped.
keepValue(s) == NextVisible(s)

\* The character after a list in braces is lost, and the brace is in hand again.
Value(s) ==
  LET t == NextVisible(s)
  IN IF Is(t, {"{"})
     THEN LET u == skipPastMatch(t, "}") IN IF AtEnd(u) THEN u ELSE [u EXCEPT !.tok = "{"]
     ELSE While(ReadOn(t), LAMBDA u : ~ Is(u, { ",", ";" }), ReadOn)

\* The result tells whether a "," has been read: the list goes on.
OneName(s, kind) ==
  LET t == PastMatch(NextVisible(MakeTag(s, << kind, s.tok >>)), "[", "]")
      u == When(t, Is(t, {"="}), Value)
  IN IF Is(u, {","}) THEN Return(NextVisible(u), TRUE) ELSE Return(u, FALSE)

tagNameList(s, kind) ==
  Unread(While(OneName(s, kind), LAMBDA t : t.ret /\ isIdentifier(t), LAMBDA t : OneName(t, kind)))

\* Up to the end of the line, which is still to be read.
SkipLine(s) == Unread(While(ReadOn(s), LAMBDA t : ~ Is(t, {"NL"}), ReadOn))

findTag(s) ==
  LET t == NextVisible(s)
      u == PastMatch(PastMatch(t, "(", ")"), "[", "]")
      delay == ReadOn(u)
      v == IF Is(u, {"#"}) THEN PastMatch(delay, "(", ")") ELSE u
  IN CASE ~ Tagged(s.tok)      -> s
       [] s.tok = "'define"    -> SkipLine(When(t, isIdentifier(t), LAMBDA w : MakeTag(w, << "constant", w.tok >>)))
       [] isIdentifier(v)      -> tagNameList(v, kindOf(s.tok))
       [] OTHER                -> v

\* The result tells whether a statement begins.
findVerilogTags(text) ==
  LET One(s) ==
        LET t == ReadOn(s)
        IN Return(IF s.ret /\ isIdentifier(t) THEN findTag(t) ELSE t, Is(t, { ";", "NL" }))
  IN While(Return(Start(text), TRUE), LAMBDA s : TRUE, One).tags

-------------------------------------------------------------------------------
(* Verilog as one writes it, with its tags.  Ports are declared within the *)
(* module: of those declared in its heading, one in two would be lost.     *)

Name(kind, name) == Decl(<< name >>, << kind, name >>)
Range == Opt(Lit(<< "[", "1", ":", "0", "]" >>))
Values == UNION { Lit(<< "=", "x", "+", "1" >>), Lit(<< "=", "x", "[", "1", "]" >>) }

\* One or two names after the keyword; the last may be set to a list in braces.
Declaration(kind, word, before, after) ==
  Lit(<< word >>) ** before ** Name(kind, "a") ** after
    ** Opt(Lit(<< ",", "NL" >>) ** Name(kind, "b") ** after) ** Lit(<< ";", "NL" >>)

Delay == Lit(<< "#", "(", "1", ",", "x", ")" >>)

Declarations ==
  UNION { Declaration("port", "input", Range, Lit(<<>>)),
          Declaration("register", "reg", Range, Opt(Lit(<< "[", "0", ":", "1", "]" >>))),
          Declaration("net", "wire", Delay, Opt(Values)),
          Declaration("net", "trireg", Lit(<< "(", "x", ")" >>) ** Range ** Delay, Lit(<<>>)),
          Declaration("constant", "parameter", Lit(<<>>), Values),
          Declaration("register", "integer", Lit(<<>>), Lit(<<>>)),
          Declaration("event", "event", Lit(<<>>), Lit(<<>>)),
          Lit(<< "wire" >>) ** Name("net", "a") ** Lit(<< "=", "{", "x", ",", "y", "}", ";", "NL" >>),
          Lit(<< "'define" >>) ** Name("constant", "D") ** Lit(<< "reg", "x", ",", "y", "NL" >>) }

Always == Lit(<< "always", "@", "(", "x", ")", "begin", "x", "=", "y", ";", "end", "NL" >>)

Function ==
  Lit(<< "function" >>) ** Range ** Name("function", "f") ** Lit(<< ";", "NL", "input" >>)
    ** Name("port", "z") ** Lit(<< ";", "f", "=", "z", ";", "NL", "endfunction", "NL" >>)
Task == Lit(<< "task" >>) ** Name("task", "t") ** Lit(<< ";", "NL" >>) ** Always ** Lit(<< "endtask", "NL" >>)

Sources ==
  Lit(<< "module" >>) ** Name("module", "m")
    ** (UNION { Lit(<< ";", "NL" >>), Lit(<< "(", "a", ",", "NL", "b", ")", ";", "NL" >>) })
    ** (UNION { Declarations, Function, Task, Always })
    ** Lit(<< "reg" >>) ** Name("register", "last") ** Lit(<< ";", "NL", "endmodule", "NL" >>)
================================================================================
