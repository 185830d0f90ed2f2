------------------------------ MODULE ScriptTokens ------------------------------
(***************************************************************************)
(* What jscript.c and flex.c have in common.  Names and scopes are         *)
(* sequences of identifiers, as in A.b.c; a token that is no word has an   *)
(* empty one.                                                              *)
(***************************************************************************)
EXTENDS TokenStream, TLC

Marks == { "(", ")", ";", ",", ".", ":", "{", "}", "=", "[", "]", "+",
           "<", ">", "/>", "<mx:", "</mx:", "?", "!" }

\* Keywords are looked up in lower case.
analyzeToken(word) ==
  CASE word = "Function" -> "function" [] word = "Object" -> "object"
    [] word = "CDATA" -> "cdata" [] word = "Script" -> "script" [] OTHER -> word

Lexed(text) == [i \in DOMAIN text |-> analyzeToken(text[i])]

readToken(s) == ReadOn(s)

String(s) == IF s.tok \in Marks THEN NoName ELSE << s.tok >>

\* A name read: copyToken.  Tagging it puts the scope into its string.
Named(s) == [string |-> String(s), scope |-> s.scope]
Full(name) == Dot(name.scope, name.string)
Tagged(name) == [name EXCEPT !.string = Full(name)]

\* Mutant: a list ends at the first bracket that closes.
skipFirst(s) == When(s, Is(s, {"("}), LAMBDA t :
                  readToken(While(t, LAMBDA u : ~ Is(u, {")"}), readToken)))

skipArgumentList(s) == When(s, Is(s, {"("}), LAMBDA t : readToken(SkipGroup(t, "(", ")")))
skipArrayList(s) == When(s, Is(s, {"["}), LAMBDA t : readToken(SkipGroup(t, "[", "]")))
================================================================================
