---------------------------------- MODULE ObjC ----------------------------------
(***************************************************************************)
(* objc.c: one token at a time is given to the parser of the moment        *)
(* (toDoNext), which may name another and where to go on then (comeAfter). *)
(* Only the names begin anew with a file; the static variables of the      *)
(* functions and the parsers to come back to are those the last file left. *)
(* A tag is << kind, name, scope >>, its name a sequence: the parts of a   *)
(* method's.                                                               *)
(***************************************************************************)
EXTENDS Naturals, Integers, Sequences, TokenStream, SequencesExt, TLC

objcKeywordTable ==
  { "typedef", "struct", "enum", "@implementation", "@interface", "@protocol", "@encode",
    "@property", "@synchronized", "@selector", "@end", "@defs", "@class", "@private", "@package",
    "@public", "@protected", "@synthesize", "@dynamic", "@optional", "@required" }

Marks == { ",", "+", "-", "(", ")", "{", "}", "[", "]", ";", ":", "#", "\\", "EOL" }
Others == { "=", "*", "<", ">", "1", "_", "'s'", "@other" }

\* The kind of a token.
lex(tok) ==
  CASE tok \in objcKeywordTable \union Marks -> tok
    [] tok \in Others                        -> "any"
    [] OTHER                                 -> "identifier"

-------------------------------------------------------------------------------
(* The tags and the parsers to come                                        *)

Goto(s, parser) == [s EXCEPT !.toDoNext = parser]
After(s, parser, after) == [s EXCEPT !.toDoNext = parser, !.comeAfter = after]
Back(s) == Goto(s, s.comeAfter)

pushEnclosingContext(s, type, name) == [s EXCEPT !.parentName = << name >>, !.parentType = type]
popEnclosingContext(s) == [s EXCEPT !.parentName = <<>>]

\* parentName is never NULL: outside of every context the scope has an empty name.
Scope(s) == << s.parentType >> \o s.parentName

addTag(s, kind, name) == [s EXCEPT !.tags = Append(@, << kind, name, Scope(s) >>)]

Keep(s, tok) == [s EXCEPT !.tempName = << tok >>]
TagKept(s, kind) == [addTag(s, kind, s.tempName) EXCEPT !.tempName = <<>>]

RECURSIVE Do(_, _)

tillToken(s, tok) == IF tok = s.waitedToken THEN Back(s) ELSE s

tillTokenOrFallBack(s, tok) ==
  CASE tok = s.waitedToken   -> Back(s)
    [] tok = s.fallBackToken -> Goto(s, s.fallback)
    [] OTHER                 -> s

\* The count is static.
ignoreBalanced(s, tok) ==
  LET n == s.count + (CASE tok \in { "(", "{", "[" } -> 1 [] tok \in { ")", "}", "]" } -> -1
                        [] OTHER -> 0)
      t == [s EXCEPT !.count = n]
  IN IF n = 0 THEN Back(t) ELSE t

\* The bracket is counted before the parser to come back to is set.
Ignore(s, tok, after) == [ignoreBalanced(Goto(s, "ignoreBalanced"), tok) EXCEPT !.comeAfter = after]
IgnoreFrom(s, tok, after) == ignoreBalanced(After(s, "ignoreBalanced", after), tok)
TillParR(s, after) == [After(s, "tillToken", after) EXCEPT !.waitedToken = ")"]

-------------------------------------------------------------------------------
(* Classes                                                                 *)

\* A bracket that is opened here is not counted.
parseFields(s, tok) ==
  CASE tok = "}"                 -> Goto(s, "parseMethods")
    [] tok \in { "[", "(" }      -> After(s, "ignoreBalanced", "parseFields")
    [] lex(tok) = "identifier"   -> Keep(s, tok)
    [] tok = ";"                 -> TagKept(s, "field")
    [] OTHER                     -> s

Method(s, tok, kind) ==
  CASE tok \in { "+" } -> [Goto(s, kind) EXCEPT !.methodKind = "class"]
    [] tok \in { "-" } -> [Goto(s, kind) EXCEPT !.methodKind = "method"]

\* Mutant: what follows the class is part of it.
stayInClass(s) == Goto(s, "globalScope")

EndOfClass(s) == Goto(popEnclosingContext(s), "globalScope")

parseImplemMethods(s, tok) ==
  CASE tok \in { "+", "-" } -> Method(s, tok, "parseMethodsImplemName")
    [] tok = "@end"         -> EndOfClass(s)
    [] tok = "{"            -> Ignore(s, tok, "parseImplemMethods")
    [] OTHER                -> s

\* The parts of the name, up to the body or the ";"; then on with next.
MethodName(s, tok, self, next) ==
  CASE tok = "("               -> TillParR(s, self)
    [] tok = ":"               -> [s EXCEPT !.fullMethodName = @ \o s.prevIdent \o << ":" >>,
                                            !.prevIdent = <<>>]
    [] lex(tok) = "identifier" -> [s EXCEPT !.prevIdent = << tok >>]
    [] tok \in { "{", ";" }    ->
         LET name == IF s.fullMethodName = <<>> THEN s.prevIdent ELSE s.fullMethodName
             t == [addTag(s, s.methodKind, name) EXCEPT !.fullMethodName = <<>>]
         IN [parseImplemMethods(Goto(t, next), tok) EXCEPT !.prevIdent = <<>>]
    [] OTHER -> s

parseMethodsName(s, tok) == MethodName(s, tok, "parseMethodsName", "parseMethods")
parseMethodsImplemName(s, tok) ==
  MethodName(s, tok, "parseMethodsImplemName", "parseImplemMethods")

\* There is no way back from here.
parseProperty(s, tok) ==
  CASE tok = "("               -> TillParR(s, "parseProperty")
    [] lex(tok) = "identifier" -> Keep(s, tok)
    [] tok = ";"               -> TagKept(s, "property")
    [] OTHER                   -> s

parseMethods(s, tok) ==
  CASE tok \in { "+", "-" } -> Method(s, tok, "parseMethodsName")
    [] tok = "@property"    -> Goto(s, "parseProperty")
    [] tok = "@end"         -> EndOfClass(s)
    [] tok = "{"            -> Goto(s, "parseFields")
    [] OTHER                -> s

\* A protocol is pushed before its tag is made.
parseProtocol(s, tok) ==
  LET t == pushEnclosingContext(s, "protocol", tok) IN
  Goto(IF lex(tok) = "identifier" THEN addTag(t, "protocol", << tok >>) ELSE s, "parseMethods")

ClassName(s, tok, kind) ==
  IF lex(tok) = "identifier"
  THEN pushEnclosingContext(addTag(s, kind, << tok >>), kind, tok) ELSE s
parseImplementation(s, tok) == Goto(ClassName(s, tok, "implementation"), "parseImplemMethods")
parseInterface(s, tok) == Goto(ClassName(s, tok, "interface"), "parseMethods")

-------------------------------------------------------------------------------
(* Structures, enumerations, types                                         *)

\* What was to come after, before the brackets of a member.
Restored(s, f) == IF s[f] = "" THEN s ELSE [s EXCEPT !.comeAfter = s[f], ![f] = ""]

parseStructMembers(u, tok) ==
  LET s == Restored(u, "prevOfMembers") IN
  CASE lex(tok) = "identifier"   -> Keep(s, tok)
    [] tok = ";"                 -> TagKept(s, "field")
    [] tok \in { "{", "(", "[" } ->
         IgnoreFrom([s EXCEPT !.prevOfMembers = s.comeAfter], tok, "parseStructMembers")
    [] tok = "}"                 -> Back(s)
    [] OTHER                     -> s

\* gotName, named: the flag f is set at the name and cleared at a second one.
Tagged(s, tok, kind, f) ==
  IF ~ s[f] THEN [pushEnclosingContext(addTag(s, kind, << tok >>), kind, tok) EXCEPT ![f] = TRUE]
  ELSE Do(Back([popEnclosingContext(s) EXCEPT ![f] = FALSE]), tok)
NoBody(s, tok, f) == Do(Back(IF s[f] THEN popEnclosingContext(s) ELSE s), tok)

parseStruct(s, tok) ==
  CASE lex(tok) = "identifier" -> Tagged(s, tok, "struct", "gotName")
    [] tok = "{"               -> Goto(s, "parseStructMembers")
    [] tok = ";"               -> NoBody(s, tok, "gotName")
    [] OTHER                   -> s

parseEnumFields(u, tok) ==
  LET s == Restored(u, "prevOfEnum") IN
  CASE lex(tok) = "identifier" ->
         [After(addTag(s, "enum", << tok >>), "tillTokenOrFallBack", "parseEnumFields")
            EXCEPT !.prevOfEnum = s.comeAfter, !.waitedToken = ",", !.fallBackToken = "}",
                   !.fallback = s.comeAfter]
    [] tok = "}"               -> popEnclosingContext(Back(s))
    [] OTHER                   -> s

parseEnum(s, tok) ==
  CASE lex(tok) = "identifier" -> Tagged(s, tok, "enum", "named")
    [] tok = "{"               -> [Goto(s, "parseEnumFields") EXCEPT !.named = FALSE]
    [] tok = ";"               -> NoBody(s, tok, "named")
    [] OTHER                   -> s

parseTypedef(s, tok) ==
  CASE tok = "struct"          -> After(s, "parseStruct", "parseTypedef")
    [] tok = "enum"            -> After(s, "parseEnum", "parseTypedef")
    [] lex(tok) = "identifier" -> Keep(s, tok)
    [] tok = ";"               -> Goto(TagKept(s, "typedef"), "globalScope")
    [] OTHER                   -> s

-------------------------------------------------------------------------------
(* The preprocessor, and the top of a file                                 *)

ignorePreprocStuff(s, tok) ==
  LET t == [s EXCEPT !.escaped = tok = "\\"]
  IN IF tok = "EOL" /\ ~ s.escaped THEN Goto(t, "globalScope") ELSE t

parseMacroName(s, tok) ==
  Goto(IF lex(tok) = "identifier" THEN addTag(s, "macro", << tok >>) ELSE s, "ignorePreprocStuff")

parsePreproc(s, tok) ==
  Goto(s, IF tok = "define" THEN "parseMacroName" ELSE "ignorePreprocStuff")

globalScope(s, tok) ==
  CASE tok = "#"               -> Goto(s, "parsePreproc")
    [] tok = "struct"          -> After(s, "parseStruct", "globalScope")
    [] lex(tok) = "identifier" -> Keep(s, tok)
    [] tok = "("               -> IgnoreFrom(TagKept(s, "function"), tok, "globalScope")
    [] tok = "@interface"      -> Goto(s, "parseInterface")
    [] tok = "@implementation" -> Goto(s, "parseImplementation")
    [] tok = "@protocol"       -> Goto(s, "parseProtocol")
    [] tok = "typedef"         -> After(s, "parseTypedef", "globalScope")
    [] tok = "{"               -> IgnoreFrom(s, tok, "globalScope")
    [] OTHER                   -> s

Do(s, tok) ==
  CASE s.toDoNext = "globalScope"            -> globalScope(s, tok)
    [] s.toDoNext = "tillToken"              -> tillToken(s, tok)
    [] s.toDoNext = "tillTokenOrFallBack"    -> tillTokenOrFallBack(s, tok)
    [] s.toDoNext = "ignoreBalanced"         -> ignoreBalanced(s, tok)
    [] s.toDoNext = "parseFields"            -> parseFields(s, tok)
    [] s.toDoNext = "parseMethodsName"       -> parseMethodsName(s, tok)
    [] s.toDoNext = "parseMethodsImplemName" -> parseMethodsImplemName(s, tok)
    [] s.toDoNext = "parseImplemMethods"     -> parseImplemMethods(s, tok)
    [] s.toDoNext = "parseProperty"          -> parseProperty(s, tok)
    [] s.toDoNext = "parseMethods"           -> parseMethods(s, tok)
    [] s.toDoNext = "parseProtocol"          -> parseProtocol(s, tok)
    [] s.toDoNext = "parseImplementation"    -> parseImplementation(s, tok)
    [] s.toDoNext = "parseInterface"         -> parseInterface(s, tok)
    [] s.toDoNext = "parseStructMembers"     -> parseStructMembers(s, tok)
    [] s.toDoNext = "parseStruct"            -> parseStruct(s, tok)
    [] s.toDoNext = "parseEnumFields"        -> parseEnumFields(s, tok)
    [] s.toDoNext = "parseEnum"              -> parseEnum(s, tok)
    [] s.toDoNext = "parseTypedef"           -> parseTypedef(s, tok)
    [] s.toDoNext = "ignorePreprocStuff"     -> ignorePreprocStuff(s, tok)
    [] s.toDoNext = "parseMacroName"         -> parseMacroName(s, tok)
    [] s.toDoNext = "parsePreproc"           -> parsePreproc(s, tok)

-------------------------------------------------------------------------------
(* Files                                                                   *)

Names == [toDoNext |-> "globalScope", tempName |-> <<>>, parentName |-> <<>>,
          fullMethodName |-> <<>>, prevIdent |-> <<>>, tags |-> <<>>]

Globals == [comeAfter |-> "", fallback |-> "", waitedToken |-> "", fallBackToken |-> "",
            parentType |-> "interface", methodKind |-> "interface", count |-> 0, prevOfMembers |-> "",
            prevOfEnum |-> "", gotName |-> FALSE, named |-> FALSE, escaped |-> FALSE] @@ Names

\* The state after a file that begins with the globals another left.
FileAfter(globals, text) == FoldLeft(Do, Names @@ globals, text)

findObjcTags(text) == FileAfter(Globals, text).tags

-------------------------------------------------------------------------------
(* Objective-C as one writes it, with its tags.  Properties, names of      *)
(* structures and enumerations, and arrays in classes are left out: after  *)
(* one of them the parser goes on elsewhere than one would think.  A scope *)
(* without a name is taken for none, and of the scope of a protocol's own  *)
(* tag, which the parser puts into itself, nothing is claimed.             *)

Claimed(tags) ==
  LET Outside(tag) == tag[1] = "protocol" \/ Len(tag[3]) = 1
  IN [i \in DOMAIN tags |->
        IF Outside(tags[i]) THEN << tags[i][1], tags[i][2], <<>> >> ELSE tags[i]]

Tag(kind, name, scope) == << kind, << name >>, scope >>
LongTag(kind, scope) == << kind, << "a", ":", "b", ":" >>, scope >>

Type == << "(", "D", "*", ")" >>
Arguments == << "a", ":" >> \o Type \o << "x", "b", ":" >> \o Type \o << "y" >>

\* A declaration ends with ";", a definition is a block.
Ends == { << ";" >> }
Blocks == { << "{", "}" >>, << "{", "if", "(", "x", ")", "{", "[", "y", "f", ":", "x", "]", ";", "}", "}" >> }

Methods(scope, ends) ==
  UNION {UNION {Decl(<< "-" >> \o Type \o << "m" >> \o e, Tag("method", "m", scope)),
                Decl(<< "+", "k" >> \o e, Tag("class", "k", scope)),
                Decl(<< "-", "n", ":" >> \o Type \o << "x" >> \o e,
                     << "method", << "n", ":" >>, scope >>),
                Decl(<< "+" >> \o Type \o Arguments \o e, LongTag("class", scope))} : e \in ends}

Fields ==
  LET scope == << "interface", "C" >> IN
  Lit(<< "{" >>)
    ** Opt(Decl(<< "@private", "D", "*", "v", ";" >>, Tag("field", "v", scope)))
    ** Decl(<< "D", "w", ";", "}" >>, Tag("field", "w", scope))

Class(word, kind, body) ==
  Decl(<< word, "C" >>, Tag(kind, "C", <<>>)) ** body ** Lit(<< "@end" >>)

Interface ==
  Class("@interface", "interface", Opt(Lit(<< ":", "B", "<", "P", ">" >>)) ** Opt(Fields)
                       ** UpTo(2, Methods(<< "interface", "C" >>, Ends)))
Implementation ==
  Class("@implementation", "implementation", UpTo(2, Methods(<< "implementation", "C" >>, Blocks)))
Protocol ==
  Decl(<< "@protocol", "P" >>, Tag("protocol", "P", <<>>))
    ** Methods(<< "protocol", "P" >>, Ends) ** Lit(<< "@end" >>)

Structure ==
  Lit(<< "typedef", "struct", "{" >>)
    ** Decl(<< "D", "x", ";" >>, Tag("field", "x", <<>>))
    ** Decl(<< "D", "y", "[", "1", "]", ";", "}" >>, Tag("field", "y", <<>>))
    ** Decl(<< "S", ";" >>, Tag("typedef", "S", <<>>))
Enumeration ==
  Lit(<< "typedef", "enum", "{" >>)
    ** Decl(<< "I", "=", "1", "," >>, Tag("enum", "I", <<>>))
    ** Decl(<< "J", "}" >>, Tag("enum", "J", <<>>))
    ** Decl(<< "E", ";" >>, Tag("typedef", "E", <<>>))

Functions ==
  UNION {Decl(<< "D", "f", "(", "D", "x", ")" >> \o e, Tag("function", "f", <<>>)) : e \in Ends \union Blocks}

Item ==
  UNION { Interface, Implementation, Protocol, Structure, Enumeration, Functions,
          Decl(<< "typedef", "D", "*", "T", ";" >>, Tag("typedef", "T", <<>>)),
          Decl(<< "#", "define", "M", "\\", "EOL", "1", "EOL" >>, Tag("macro", "M", <<>>)),
          Lit(<< "#", "import", "<", "h", ">", "EOL" >>), Lit(<< "@class", "C", ";" >>) }

LastFunction == Decl(<< "D", "last", "(", ")", ";" >>, Tag("function", "last", <<>>))

Sources == Item ** LastFunction
================================================================================
