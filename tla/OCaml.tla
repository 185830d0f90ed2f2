---------------------------------- MODULE OCaml ----------------------------------
(***************************************************************************)
(* ocaml.c: one token at a time is given to the parser of the moment       *)
(* (toDoNext), which may name another, what to wait for, and where to go   *)
(* on then (comeAfter).  The stack has the contexts around, with the       *)
(* parser to go back to.  name is the last word or operator read, whatever *)
(* the token is.                                                           *)
(***************************************************************************)
EXTENDS Naturals, Integers, Sequences, TokenStream, SequencesExt

OCAML_MAX_STACK_SIZE == 256

Capitals == { "A", "B", "C", "D", "E", "F", "M", "N", "O" }

OcamlKeywordTable ==
  { "and", "begin", "class", "do", "done", "else", "end", "exception", "for", "fun", "function",
    "functor", "in", "let", "match", "method", "module", "mutable", "object", "of", "rec",
    "sig", "struct", "then", "try", "type", "val", "value", "virtual", "while", "with" }

\* Its characters are those of isOperator; "or" and its like are in the table.
Operators == { "+", "*", "::", ":", ":=", ".", "~", "?", "<", "@", "or", "asr" }
Values == { "1", "2", "'s'", "_", "true", "false" }
Marks == { "(", ")", "[", "]", "{", "}", "'", "|", "=", "->", ";", ",", "#" }

\* The kind of a token.
lex(tok) ==
  CASE tok = "function"       -> "fun"
    [] tok \in OcamlKeywordTable \union Marks -> tok
    [] tok \in Operators      -> "operator"
    [] tok \in Values         -> "constant"
    [] OTHER                  -> "identifier"

\* The words and operators are those with a name.
named(tok) == tok \notin { "(", ")", "[", "]", "{", "}", "'", ";", ",", "#", "1", "2", "'s'", "_" }

-------------------------------------------------------------------------------
(* The stack of contexts                                                   *)

Goto(s, parser) == [s EXCEPT !.toDoNext = parser]
GotoTill(s, till, waited, after) ==
  [s EXCEPT !.toDoNext = till, !.waitedToken = waited, !.comeAfter = after]

Pop(s, n) == [s EXCEPT !.stack = SubSeq(@, 1, n)]

\* The last context that satisfies P, or 0.
LastContext(s, P(_)) ==
  LET Found == {i \in DOMAIN s.stack : P(s.stack[i])}
  IN IF Found = {} THEN 0 ELSE CHOOSE i \in Found : \A j \in Found : j <= i

getLastNamedIndex(s) == LastContext(s, LAMBDA c : c.contextName # <<>>)

contextTypeSuffix(type) ==
  CASE type = "type" -> "." [] type = "class" -> "#" [] type = "begin/end" -> " " [] OTHER -> "/"

\* A full stack takes no more.
pushContext(s, kind, type, callback, name) ==
  LET parent == getLastNamedIndex(s)
      prefix == IF parent = 0 \/ name = <<>> THEN <<>>
                ELSE Append(s.stack[parent].contextName, contextTypeSuffix(s.stack[parent].type))
      context == [kind |-> kind, type |-> type, callback |-> callback,
                  contextName |-> prefix \o name]
  IN IF Len(s.stack) >= OCAML_MAX_STACK_SIZE THEN s ELSE [s EXCEPT !.stack = Append(@, context)]

Named(s) == << s.name >>
pushStrongContext(s, name, type) == pushContext(s, "strong", type, "globalScope", name)
pushSoftContext(s, callback, type) == pushContext(s, "soft", type, callback, Named(s))
pushEmptyContext(s, callback) == pushContext(s, "soft", "value", callback, <<>>)

\* Back to what the i-th context says, without it; to the global scope if there is none.
Back(s, i) == IF i = 0 THEN Goto(Pop(s, 0), "globalScope")
              ELSE Goto(Pop(s, i - 1), s.stack[i].callback)

popLastNamed(s) == Back(s, getLastNamedIndex(s))
popSoftContext(s) == Back(s, Len(s.stack))
LastStrong(s) == LastContext(s, LAMBDA c : c.kind = "strong")
popStrongContext(s) == Back(s, LastStrong(s))

\* The declaration that ends with the context, too.
killCurrentState(s) ==
  LET i == LastStrong(s) IN
  IF i # 0 /\ s.stack[i].type \in {"value", "function", "method", "type"}
  THEN popStrongContext(popStrongContext(s)) ELSE popStrongContext(s)

requestStrongPoping(s) == [s EXCEPT !.needStrongPoping = TRUE]
\* Mutant: the context of the declaration before stays.
keepContext(s) == [s EXCEPT !.needStrongPoping = FALSE]

cleanupPreviousParser(s) ==
  IF s.needStrongPoping THEN popStrongContext([s EXCEPT !.needStrongPoping = FALSE]) ELSE s

Scope(s) ==
  LET i == getLastNamedIndex(s)
  IN IF i = 0 THEN <<>> ELSE << s.stack[i].type, s.stack[i].contextName >>

prepareTag(s, kind) == << kind, s.name, Scope(s) >>
Made(s, tag) == [s EXCEPT !.tags = Append(@, tag)]

\* No word has been read yet where there is no name.
addTag(s, kind) == IF s.name = "" THEN s ELSE Made(s, prepareTag(s, kind))

-------------------------------------------------------------------------------
(* Waiting                                                                 *)

RECURSIVE globalScope(_, _), localScope(_, _), letParam(_, _)

EndOf(s) == Goto(popStrongContext(s), "globalScope")

tillToken(s, what) ==
  CASE what = s.waitedToken -> Goto(s, s.comeAfter) [] what = "end" -> EndOf(s) [] OTHER -> s

\* The counts go down at an opening bracket; they outlive the wait.
contextualTillToken(s, what) ==
  LET Count(n, open, close) == n + (CASE what = open -> -1 [] what = close -> 1 [] OTHER -> 0)
      t == [s EXCEPT !.parentheses = Count(@, "(", ")"), !.bracket = Count(@, "[", "]"),
                     !.curly = Count(@, "{", "}")]
  IN CASE what = t.waitedToken /\ t.parentheses = 0 /\ t.bracket = 0 /\ t.curly = 0 ->
            Goto(t, t.comeAfter)
       [] what = "end" -> EndOf(t)
       [] OTHER -> t

tillTokenOrFallback(s, what) ==
  IF what = s.waitedToken THEN Goto(s, s.comeAfter) ELSE globalScope(s, what)

tillTokenOrTerminatingOrFallback(s, what) ==
  CASE what = s.waitedToken      -> Goto(s, s.comeAfter)
    [] what = s.terminatingToken -> Goto(s, "globalScope")
    [] OTHER                     -> globalScope(s, what)

ignoreToken(s, what) == Goto(s, s.comeAfter)

-------------------------------------------------------------------------------
(* Types                                                                   *)

AtPipe(s) == GotoTill(s, "tillTokenOrFallback", "|", "typeSpecification")

typeRecord(s, what) ==
  CASE what = "identifier" ->
         [GotoTill(addTag(s, "Record field"), "tillTokenOrTerminatingOrFallback", ";", "typeRecord")
            EXCEPT !.terminatingToken = "}"]
    [] what = "}" -> EndOf(s)
    [] OTHER      -> s

exceptionDecl(s, what) ==
  Goto(IF what = "identifier" THEN addTag(s, "Exception") ELSE globalScope(s, what), "globalScope")

\* A capital and then a period is the path of a type.
constructorValidation(s, what) ==
  LET tagged == Made(s, s.tempTag) IN
  CASE what = "operator" -> [popStrongContext(s) EXCEPT !.needStrongPoping = FALSE]
    [] what = "of" -> AtPipe(tagged)
    [] what = "|"  -> Goto(tagged, "typeSpecification")
    [] OTHER       -> globalScope(popStrongContext(AtPipe(tagged)), what)

typeDecl(s, what) ==
  CASE what = "'" -> [Goto(s, "ignoreToken") EXCEPT !.comeAfter = "typeDecl"]
    [] what = "(" -> GotoTill(s, "tillToken", ")", "typeDecl")
    [] what = "identifier" ->
         GotoTill(requestStrongPoping(pushStrongContext(addTag(s, "type"), Named(s), "type")),
                  "tillTokenOrFallback", "=", "typeSpecification")
    [] OTHER -> globalScope(s, what)

typeSpecification(s, what) ==
  CASE what = "identifier" /\ s.name \in Capitals ->
         [Goto(s, "constructorValidation") EXCEPT !.tempTag = prepareTag(s, "Constructor")]
    [] what = "identifier" /\ s.name \notin Capitals -> AtPipe(s)
    [] what = "and" -> Goto(s, "typeDecl")
    [] what = "{"   -> Goto(s, "typeRecord")
    [] OTHER        -> s

-------------------------------------------------------------------------------
(* Bindings and their parameters                                           *)

BackToParam(s, what) ==
  IF s.labelPar = 0 /\ s.dirtySpecialParam THEN letParam(Goto(s, "letParam"), what) ELSE s

Colon(s) == s.name \in { ":", "::", ":=" }

parseLabel(s, what) ==
  CASE what = "identifier" -> [s EXCEPT !.dirtySpecialParam = TRUE]
    [] what = "(" -> [s EXCEPT !.labelPar = @ + 1]
    [] what = ")" -> [s EXCEPT !.labelPar = @ - 1,
                               !.toDoNext = IF s.labelPar = 1 THEN "letParam" ELSE @]
    [] what = "operator" /\ Colon(s) -> [Goto(s, "ignoreToken") EXCEPT !.comeAfter = "letParam"]
    [] OTHER -> BackToParam(s, what)

parseOptionnal(s, what) ==
  CASE what = "identifier" /\ ~ s.dirtySpecialParam ->
         [s EXCEPT !.dirtySpecialParam = TRUE,
                   !.toDoNext = IF s.optionPar = 0 THEN "letParam" ELSE @]
    [] what = "(" -> [s EXCEPT !.optionPar = @ + 1]
    [] what = ")" -> [s EXCEPT !.optionPar = @ - 1,
                               !.toDoNext = IF s.optionPar = 1 THEN "letParam" ELSE @]
    [] OTHER -> s

localLet(s, what) ==
  CASE what \in {"(", "rec"} -> s
    [] what = "operator" -> Goto(pushSoftContext(s, "mayRedeclare", "function"), "letParam")
    [] what \in {"constant", "identifier"} ->
         Goto(pushSoftContext(s, "mayRedeclare", "value"), "letParam")
    [] what = "end" -> popStrongContext(s)
    [] OTHER        -> Goto(s, "localScope")

matchPattern(s, what) ==
  CASE what = "->"    -> Goto(pushEmptyContext(s, "matchPattern"), "mayRedeclare")
    [] what = "value" -> globalScope(popLastNamed(s), what)
    [] what = "in"    -> popLastNamed(s)
    [] OTHER          -> s

mayRedeclare(s, what) ==
  CASE what = "value" -> globalScope(s, what)
    [] what \in {"let", "val"} -> Goto(s, "localLet")
    [] what = "object" ->
         [Goto(pushContext(s, "strong", "class", "localScope", <<>>), "globalScope")
            EXCEPT !.needStrongPoping = FALSE, !.lastClass = <<>>]
    [] what \in {"for", "while"} -> GotoTill(s, "tillToken", "do", "mayRedeclare")
    [] what = "try" -> pushSoftContext(Goto(s, "mayRedeclare"), "matchPattern", "function")
    [] what = "fun" -> Goto(s, "matchPattern")
    [] OTHER -> localScope(Goto(s, "localScope"), what)

letParam(s, what) ==
  LET Special(parser) == [Goto(s, parser) EXCEPT !.dirtySpecialParam = FALSE] IN
  CASE what = "=" -> Goto(s, "mayRedeclare")
    [] what = "operator" /\ Colon(s) -> GotoTill(s, "tillTokenOrFallback", "=", "mayRedeclare")
    [] what = "operator" /\ s.name = "~" -> Special("parseLabel")
    [] what = "operator" /\ s.name = "?" -> Special("parseOptionnal")
    [] OTHER -> s

-------------------------------------------------------------------------------
(* Classes, modules and what is global                                     *)

classSpecif(s, what) ==
  Goto(IF what = "object" THEN pushStrongContext(s, s.lastClass, "class")
       ELSE [s EXCEPT !.lastClass = <<>>], "globalScope")

methodDecl(s, what) ==
  CASE what \in {"(", "mutable", "virtual", "rec"} -> s
    [] what = "identifier" ->
         Goto(pushStrongContext(addTag(s, "method"), Named(s), "method"), "letParam")
    [] what = "end" -> popStrongContext(s)
    [] OTHER        -> Goto(s, "globalScope")

moduleSpecif(s, what) ==
  CASE what = "functor" -> GotoTill(s, "contextualTillToken", "->", "moduleSpecif")
    [] what \in {"struct", "sig"} ->
         Goto(pushStrongContext(s, s.lastModule, "Module"), "globalScope")
    [] what = "(" -> contextualTillToken(GotoTill(s, "contextualTillToken", ")", "globalScope"), what)
    [] OTHER -> [Goto(s, "globalScope") EXCEPT !.lastModule = <<>>]

moduleDecl(s, what) ==
  IF what # "identifier" THEN s
  ELSE [GotoTill(addTag(s, "module"), "contextualTillToken", "=", "moduleSpecif")
          EXCEPT !.lastModule = Named(s)]

classDecl(s, what) ==
  CASE what = "identifier" ->
         [GotoTill(addTag(s, "class"), "contextualTillToken", "=", "classSpecif")
            EXCEPT !.lastClass = Named(s)]
    [] what = "[" -> GotoTill(s, "tillToken", "]", "classDecl")
    [] OTHER -> s

globalLet(s, what) ==
  CASE what \in {"(", "mutable", "virtual", "rec"} -> s
    [] what = "operator" ->
         Goto(pushStrongContext(addTag(s, "function"), Named(s), "function"), "letParam")
    [] what = "identifier" ->
         Goto(requestStrongPoping(pushStrongContext(addTag(s, "var"), Named(s), "value")), "letParam")
    [] what = "end" -> popStrongContext(s)
    [] OTHER        -> Goto(s, "globalScope")

\* A declaration ends the one before it; "and" goes on with one more of its kind.
globalScope(s, what) ==
  LET Declare(parser, previous) ==
        [Goto(cleanupPreviousParser(s), parser) EXCEPT !.previousParser = previous]
      Same(parser) == Declare(parser, parser)
  IN CASE what = "and"       -> Same(s.previousParser)
       [] what = "type"      -> Same("typeDecl")
       [] what = "class"     -> Same("classDecl")
       [] what = "module"    -> Same("moduleDecl")
       [] what = "end"       -> killCurrentState([s EXCEPT !.needStrongPoping = FALSE])
       [] what = "method"    -> Declare("methodDecl", s.previousParser)
       [] what \in {"val", "value", "let"} -> Same("globalLet")
       [] what = "exception" -> Declare("exceptionDecl", "globalScope")
       [] OTHER              -> s

localScope(s, what) ==
  LET Empty(t) == Goto(pushEmptyContext(t, "localScope"), "mayRedeclare") IN
  CASE what \in {"|", ")", "]", "}"} -> popSoftContext(s)
    [] what = "begin" -> Goto(pushContext(s, "strong", "begin/end", "mayRedeclare", <<>>), "mayRedeclare")
    [] what = "in"    -> popLastNamed(s)
    [] what = "{"     -> contextualTillToken(GotoTill(s, "contextualTillToken", "}", "localScope"), what)
    [] what = ";"     -> Goto(s, "mayRedeclare")
    [] what \in {"(", "[", "match"} -> Empty(s)
    [] what = "and"   -> Goto(popLastNamed(s), "localLet")
    [] what \in {"else", "then"} -> Empty(popSoftContext(s))
    [] what = "with"  -> pushEmptyContext(Goto(popSoftContext(s), "matchPattern"), "matchPattern")
    [] what = "end"   -> killCurrentState(s)
    [] what = "fun"   -> GotoTill(s, "tillToken", "->", "mayRedeclare")
    [] what \in {"done", "val"} -> s
    [] OTHER          -> globalScope(requestStrongPoping(s), what)

-------------------------------------------------------------------------------
(* Files                                                                   *)

\* The parser of the moment is called by its name.
Do(s, what) ==
  CASE s.toDoNext = "globalScope" -> globalScope(s, what)
    [] s.toDoNext = "localScope" -> localScope(s, what)
    [] s.toDoNext = "mayRedeclare" -> mayRedeclare(s, what)
    [] s.toDoNext = "letParam" -> letParam(s, what)
    [] s.toDoNext = "globalLet" -> globalLet(s, what)
    [] s.toDoNext = "localLet" -> localLet(s, what)
    [] s.toDoNext = "matchPattern" -> matchPattern(s, what)
    [] s.toDoNext = "parseLabel" -> parseLabel(s, what)
    [] s.toDoNext = "parseOptionnal" -> parseOptionnal(s, what)
    [] s.toDoNext = "typeDecl" -> typeDecl(s, what)
    [] s.toDoNext = "typeSpecification" -> typeSpecification(s, what)
    [] s.toDoNext = "typeRecord" -> typeRecord(s, what)
    [] s.toDoNext = "constructorValidation" -> constructorValidation(s, what)
    [] s.toDoNext = "exceptionDecl" -> exceptionDecl(s, what)
    [] s.toDoNext = "classDecl" -> classDecl(s, what)
    [] s.toDoNext = "classSpecif" -> classSpecif(s, what)
    [] s.toDoNext = "methodDecl" -> methodDecl(s, what)
    [] s.toDoNext = "moduleDecl" -> moduleDecl(s, what)
    [] s.toDoNext = "moduleSpecif" -> moduleSpecif(s, what)
    [] s.toDoNext = "tillToken" -> tillToken(s, what)
    [] s.toDoNext = "contextualTillToken" -> contextualTillToken(s, what)
    [] s.toDoNext = "tillTokenOrFallback" -> tillTokenOrFallback(s, what)
    [] s.toDoNext = "tillTokenOrTerminatingOrFallback" -> tillTokenOrTerminatingOrFallback(s, what)
    [] s.toDoNext = "ignoreToken" -> ignoreToken(s, what)

Step(s, tok) ==
  LET t == [s EXCEPT !.name = IF named(tok) THEN tok ELSE @] IN Do(t, lex(tok))

\* The variables of the program before the first file.
Globals ==
  [comeAfter |-> "", waitedToken |-> "", terminatingToken |-> "", needStrongPoping |-> FALSE,
   dirtySpecialParam |-> FALSE, parentheses |-> 0, bracket |-> 0, curly |-> 0, labelPar |-> 0,
   optionPar |-> 0, previousParser |-> "globalScope", tempTag |-> <<>>,
   toDoNext |-> "globalScope", stack |-> <<>>, lastClass |-> <<>>, lastModule |-> <<>>,
   name |-> "", tags |-> <<>>]

\* What a file begins with: the rest is as the file before has left it.  The file itself
\* is a module.
BeginFile(globals) ==
  [globals EXCEPT !.toDoNext = "globalScope", !.stack = <<>>, !.lastClass = <<>>,
                  !.lastModule = <<>>, !.name = "", !.tags = << << "module", "X", <<>> >> >>]

FileAfter(globals, text) == FoldLeft(Step, BeginFile(globals), text)

findOcamlTags(text) == FileAfter(Globals, text).tags

-------------------------------------------------------------------------------
(* OCaml as one writes it, with its tags.  A variant is neither within a   *)
(* module, which what follows would lose, nor at the end of the file,      *)
(* where its last constructor would have no tag.                           *)

Tag(kind, name, scope) == << kind, name, scope >>

Match == Lit(<< "match", "a", "with", "A", "->", "1", "|", "_", "->", "2" >>)

Expression ==
  UNION { Lit(<< "a", "+", "1" >>),
          Lit(<< "(", "a", ",", "[", "b", ";", "c", "]", ")" >>),
          Lit(<< "{", "a", "=", "1", ";", "b", "=", "2", "}" >>),
          Lit(<< "let", "d", "=", "1", "in", "d" >>),
          Lit(<< "fun", "q", "->", "q" >>) }

Bindings(scope) ==
  LET Begun == UNION { Decl(<< "let", "x", "=" >>, Tag("var", "x", scope)),
                      Decl(<< "let", "rec", "f", "(", "a", ":", "t", ")", "~", "b", "=" >>,
                           Tag("var", "f", scope)) }
  IN Begun ** Expression

\* Types joined by "and"; bindings that are joined count as local.
Joined(scope) ==
  Decl(<< "type", "t5", "=", "t" >>, Tag("type", "t5", scope))
    ** Decl(<< "and", "t6", "=", "t" >>, Tag("type", "t6", scope))

Record ==
  Decl(<< "type", "t3", "=", "{" >>, Tag("type", "t3", <<>>))
    ** Decl(<< "r1", ":", "t", ";", "mutable" >>, Tag("Record field", "r1", << "type", << "t3" >> >>))
    ** Decl(<< "r2", ":", "t", "}" >>, Tag("Record field", "r2", << "type", << "t3" >> >>))

Variant ==
  LET inside == << "type", << "t4" >> >> IN
  Decl(<< "type", "t4", "=" >>, Tag("type", "t4", <<>>))
    ** Decl(<< "A", "|" >>, Tag("Constructor", "A", inside))
    ** (Decl(<< "B", "of", "t" >>, Tag("Constructor", "B", inside))
          \union Decl(<< "B" >>, Tag("Constructor", "B", inside)))

Exception(scope) == Decl(<< "exception", "F", "of", "t" >>, Tag("Exception", "F", scope))

Class(scope, path) ==
  LET inside == << "class", Append(path, "c" ) >> IN
  Decl(<< "class", "c", "=", "object" >>, Tag("class", "c", scope))
    ** Opt(Decl(<< "val", "mutable", "v", "=", "1" >>, Tag("var", "v", inside)))
    ** Decl(<< "method", "m", "a", "=", "a" >>, Tag("method", "m", inside))
    ** Lit(<< "end" >>)

\* A module or functor and what it contains.
Module(name, head, scope, body) ==
  UNION {Decl(<< "module", name, "=" >> \o h, Tag("module", name, scope))
           ** body ** Lit(<< "end" >>) : h \in head}

Structs == { << "struct" >>, << "functor", "(", "A", ":", "B", ")", "->", "struct" >> }

Modules ==
  LET M == << "Module", << "M" >> >>
      inner == << "Module", << "M", "/", "N" >> >>
  IN Module("M", Structs, <<>>,
       UNION { Bindings(M), Joined(M),
               Bindings(M) ** Module("N", { << "struct" >> }, M,
                                     Decl(<< "let", "n", "=", "1" >>, Tag("var", "n", inner))),
               Exception(M) ** Decl(<< "let", "n", "=", "1" >>, Tag("var", "n", M)),
               Class(M, << "M", "/" >>) })

Item == UNION { Bindings(<<>>), Joined(<<>>), Record, Exception(<<>>), Class(<<>>, <<>>), Modules,
                Decl(<< "type", "t1" >>, Tag("type", "t1", <<>>)),
                Decl(<< "type", "'", "a", "t2", "=", "t" >>, Tag("type", "t2", <<>>)) }

LastLet == Decl(<< "let", "last", "=", "1" >>, Tag("var", "last", <<>>))

\* The file itself is a module.
File(A) == Decl(<<>>, Tag("module", "X", <<>>)) ** A

Sources ==
  File(UNION { Item, Item ** LastLet, Variant ** LastLet, LastLet ** Item, LastLet ** Match })
================================================================================
