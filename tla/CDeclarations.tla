----------------------------- MODULE CDeclarations -----------------------------
(***************************************************************************)
(* Declarations of C and C++ as a language: which lexeme may follow which, *)
(* and the tags a reader expects of each.  It knows nothing of c.c, whose  *)
(* parser is compared with it.                                             *)
(*                                                                         *)
(* A lexeme is what the parser reads at one go.  A parenthesised group, a  *)
(* bracketed one, a function body and an initializer are one lexeme each.  *)
(* A position in a source is a record: the blocks it is in, the place in   *)
(* its declaration, and the tags the last lexeme should have made.         *)
(*                                                                         *)
(* Names stand for their role: T is a type declared elsewhere, B a name of *)
(* a block, e any other name that is declared.                             *)
(***************************************************************************)
EXTENDS Naturals, Sequences, FiniteSets

CONSTANTS
  Heads,       \* keywords of types with a block
  Storages,    \* storage classes in use
  Shapes,      \* shapes of parameter lists in use
  MaxDepth,    \* bound on the nest of blocks
  Deviations,  \* declarations c.c is known to misread, see below
  Damaged      \* whether a source may break off

ASSUME DeclarationsAssumption ==
  /\ Heads \subseteq {"class", "struct", "union", "enum"}
  /\ Storages \subseteq {"typedef", "static", "extern", "virtual"}
  /\ Shapes \subseteq {"empty", "typed", "single"}
  /\ MaxDepth \in Nat
  /\ Deviations \subseteq {"namespace", "using", "bits", "extern", "pointer", "virtual"}
  /\ Damaged \in BOOLEAN

T == "T"    B == "B"    e == "e"    Anon == "__anon"

Name(n)  == [t |-> "name", w |-> n]
Key(k)   == [t |-> "key", w |-> k]
Punct(c) == [t |-> "punct", w |-> c]
String   == [t |-> "string"]
Eof      == [t |-> "eof"]

\* A group or a body, begun with w, that the file ends in.
Unclosed(w) == [t |-> "unclosed", w |-> w]

\* "private:" and the like.
Access(a) == [t |-> "access", w |-> a]

\* ":" and the text after it up to the punctuation "rest".
Colon(rest) == [t |-> "colon", rest |-> rest]

\* "=" and the value up to "rest", which is read too unless it is "}".
Value(rest) == [t |-> "init", rest |-> rest, zero |-> FALSE]
Pure       == [t |-> "init", rest |-> ";", zero |-> TRUE]

\* A parenthesised group of a shape, with the name in it; "next" comes after
\* it, and after qualifiers, old-style declarations or initializers of members
\* comes "to".
Paren(shape, next, to) ==
  [ t |-> "paren", shape |-> shape,
    w |-> IF shape = "pointer" THEN e ELSE T, next |-> next, to |-> to ]

Tag(name, type, scope, access) ==
  [name |-> name, type |-> type, scope |-> scope, access |-> access]

-------------------------------------------------------------------------------
(* Positions                                                               *)

File == [ blocks |-> <<>>, at |-> "start", storage |-> "none", head |-> "none",
          listed |-> FALSE, next |-> "any", after |-> "end", made |-> {} ]

Top(g) == IF g.blocks = <<>> THEN [kind |-> "file", name |-> "", access |-> "undef",
                                   storage |-> "none"]
          ELSE g.blocks[Len(g.blocks)]

ClassLike(g)   == Top(g).kind \in {"class", "struct", "union"}
IsMemberOf(g)  == ClassLike(g) \/ Top(g).kind \in {"namespace", "enum"}
FileLevel(g)   == \A i \in DOMAIN g.blocks : g.blocks[i].kind = "linkage"

\* Blocks of linkage are at file level only, and so around all others.
Linkages(g) ==
  CHOOSE n \in 0 .. Len(g.blocks) :
    \A i \in 1 .. Len(g.blocks) : g.blocks[i].kind = "linkage" <=> i <= n

\* The names of the blocks around a position, outermost first.
Path(g) ==
  IF IsMemberOf(g)
    THEN [ i \in 1 .. Len(g.blocks) - Linkages(g) |-> g.blocks[Linkages(g) + i].name ]
    ELSE <<>>

\* A tag of something declared here, with its scope and access.
Here(g, name, type) == {Tag(name, type, Path(g), Top(g).access)}
Bare(name, type)    == {Tag(name, type, <<>>, "undef")}

VariableTags(g) ==
  CASE g.storage = "typedef"               -> Here(g, e, "typedef")
    [] g.storage = "extern"                -> IF IsMemberOf(g) THEN {} ELSE Bare(e, "externvar")
    [] OTHER -> IF IsMemberOf(g) THEN Here(g, e, "member") ELSE Bare(e, "variable")

PrototypeTags(g, name) ==
  Here(g, name, IF g.storage = "typedef" THEN "typedef" ELSE "prototype")

-------------------------------------------------------------------------------
(* What may follow a position: pairs of a lexeme and the next position     *)

To(lx, g) == [lexeme |-> lx, then |-> [g EXCEPT !.made = {}]]
Making(lx, g, tags) == [lexeme |-> lx, then |-> [g EXCEPT !.made = tags]]

At(g, place) == [g EXCEPT !.at = place]

\* The next declaration of the same block.
Ended(g) == [File EXCEPT !.blocks = g.blocks]
EndedBy(g, what) == [Ended(g) EXCEPT !.after = what]

Enter(g, kind, name) ==
  [File EXCEPT !.blocks = Append(g.blocks,
     [ kind |-> kind, name |-> name, storage |-> g.storage,
       access |-> CASE kind = "class" -> "private"
                    [] kind \in {"struct", "union"} -> "public"
                    [] OTHER -> "undef" ])]

Leave(g) ==
  IF Top(g).kind \in {"namespace", "linkage"}
    THEN [ File EXCEPT !.blocks = SubSeq(g.blocks, 1, Len(g.blocks) - 1),
                       !.after = IF Top(g).kind = "namespace" THEN "namespace" ELSE "end" ]
    ELSE [ File EXCEPT !.blocks = SubSeq(g.blocks, 1, Len(g.blocks) - 1),
                       !.at = "closed", !.storage = Top(g).storage,
                       !.head = Top(g).kind ]

CanEnter(g) == Len(g.blocks) < MaxDepth

\* The start of a type.  c.c does not end the statement of a namespace at its
\* brace, nor that of a using directive, and then misses what is declared with
\* a type of the user.
Types(g) ==
  {To(Key("int"), At(g, "type"))}
  \union (IF g.after = "end" \/ g.after \in Deviations \/ g.storage # "none"
            THEN {To(Name(T), At(g, IF g.storage = "none" /\ FileLevel(g)
                                      THEN "usertype" ELSE "type"))}
            ELSE {})
  \union { To(Key(k), [At(g, "head") EXCEPT !.head = k]) :
             k \in {k \in Heads : g.storage # "virtual"} }

Specifiers(g, cpp) ==
  { To(Key(s), [At(g, "spec") EXCEPT !.storage = s]) :
      s \in { s \in Storages :
                /\ s = "virtual" => cpp /\ ClassLike(g)
                /\ s = "extern" => ~ ClassLike(g)
                /\ s = "static" => cpp \/ ~ ClassLike(g)
                /\ s = "typedef" => cpp \/ ~ ClassLike(g) } }

\* Blocks and marks only C++ has; the blocks of linkage at file level only.
CppOnly(g) ==
  (IF ClassLike(g)
     THEN { To(Access(a), [Ended(g) EXCEPT !.blocks[Len(g.blocks)].access = a]) :
              a \in {"private", "public"} }
          \union (IF Top(g).name = B THEN {To(Name(B), At(g, "ctor"))} ELSE {})
     ELSE {To(Key("using"), EndedBy(g, "using"))}
          \union (IF CanEnter(g) THEN {To(Key("namespace"), At(g, "namespace"))} ELSE {}))
  \union (IF FileLevel(g) /\ CanEnter(g) THEN {To(Key("extern"), At(g, "linkage"))} ELSE {})

\* A semicolon that ends a declaration with nothing to tag, and the end of a block.
Finishes(g) == {To(Punct(";"), Ended(g))}
Closes(g)   == {To(Punct("}"), Leave(g))}

Starts(g, cpp) ==
  (IF Top(g).kind = "enum"
     THEN {Making(Name(e), At(g, "enumerator"), Here(g, e, "enumerator"))}
     ELSE Types(g) \union Specifiers(g, cpp) \union (IF cpp THEN CppOnly(g) ELSE {})
          \union Finishes(g))
  \union (IF g.blocks = <<>> THEN {To(Eof, At(g, "eof"))} ELSE Closes(g))

Enumerators(g) ==
  { To(Punct(","), Ended(g)), To(Value(","), Ended(g)), To(Value("}"), At(g, "last")) }
  \union Closes(g)

\* A declarator may be a name, a pointer or a pointer to a function, which c.c
\* takes for a prototype if a comma comes before it.
Declarators(g) ==
  { To(Name(e), At(g, "name")), To(Punct("*"), At(g, "pointer")) }
  \union (IF ~ g.listed \/ "pointer" \in Deviations
            THEN {To(Paren("pointer", "(", "("), At(g, "fptr"))} ELSE {})

\* Outside of its class a member is defined by its qualified name.
Qualified(g, cpp) ==
  IF cpp /\ g.blocks = <<>> /\ ~ g.listed /\ g.storage = "none"
    THEN {To(Name(B), At(g, "qualifier"))} ELSE {}

QualifiedEnds(g) ==
  { To(Paren(s, "{", "{"), At(g, "qualifiedargs")) : s \in Shapes }
  \union { Making(lx, Ended(g), {Tag(e, "member", <<B>>, "undef")}) :
             lx \in {Punct(";"), Value(";")} }

QualifiedBody(g) == {Making(Punct("{"), Ended(g), {Tag(e, "function", <<B>>, "undef")})}

\* The use of a macro as a declaration.
Calls(g) == {To(Paren(s, ";", ";"), At(g, "call")) : s \in {"value", "macro", "typed"}}

\* Groups of parameters of any shape before the lexeme "next", and then "to".
Groups(g, place, next, to) ==
  {To(Paren(s, next, to), [At(g, place) EXCEPT !.next = to]) : s \in Shapes}

\* The group of parameters, with what follows it.  c.c forgets "virtual" at a
\* comma, and then takes a parameter for the name of what is initialized.
Parameters(g, cpp) ==
  Groups(g, "args", ";", ";") \union Groups(g, "args", ",", ",")
  \union (IF g.listed \/ g.storage = "typedef" THEN {} ELSE Groups(g, "args", "{", "{"))
  \union (IF cpp /\ ClassLike(g) /\ g.storage # "typedef"
            THEN Groups(g, "args", "const", ";")
                 \union (IF g.listed THEN {} ELSE Groups(g, "args", "const", "{"))
            ELSE {})
  \union (IF ~ cpp /\ ~ g.listed /\ g.storage # "typedef" /\ "single" \in Shapes
            THEN {To(Paren("single", "decls", "{"), [At(g, "args") EXCEPT !.next = "{"])}
            ELSE {})
  \union (IF g.storage = "virtual" /\ (~ g.listed \/ "virtual" \in Deviations)
            THEN Groups(g, "args", "=", "=") ELSE {})

\* Ends of a declarator that is not a function.  Only in a struct does c.c
\* understand a bit-field, and after an initializer it forgets "extern".
Ends(g) ==
  { Making(Punct(";"), Ended(g), VariableTags(g)),
    Making(Punct(","), [At(g, "type") EXCEPT !.listed = TRUE], VariableTags(g)) }

Initialized(g) == [g EXCEPT !.storage = IF @ = "extern" THEN "none" ELSE @]

Values(g) ==
  IF g.storage = "typedef" THEN {}
  ELSE {Making(Value(";"), Ended(g), VariableTags(Initialized(g)))}
       \union (IF g.storage # "extern" \/ "extern" \in Deviations
                 THEN {Making(Value(","), [At(g, "type") EXCEPT !.listed = TRUE],
                              VariableTags(Initialized(g)))}
                 ELSE {})

BitFields(g) ==
  IF /\ g.storage = "none" /\ g.head \in {"none", "enum"}
     /\ ClassLike(g) /\ (Top(g).kind = "struct" \/ "bits" \in Deviations)
    THEN { Making(Colon(";"), Ended(g), VariableTags(g)),
           Making(Colon(","), [At(g, "type") EXCEPT !.listed = TRUE], VariableTags(g)) }
    ELSE {}

FunctionEnds(g, name) ==
  (IF g.next = ";" THEN {Making(Punct(";"), Ended(g), PrototypeTags(g, name))} ELSE {})
  \union (IF g.next = ","
            THEN {Making(Punct(","), [At(g, "type") EXCEPT !.listed = TRUE],
                         PrototypeTags(g, name))}
            ELSE {})
  \union (IF g.next = "{"
            THEN {Making(Punct("{"), Ended(g), Here(g, name, "function"))} ELSE {})
  \union (IF g.next = "=" THEN {Making(Pure, Ended(g), PrototypeTags(g, name))} ELSE {})

PointerArguments(g) == Groups(g, "fargs", ";", ";") \union Groups(g, "fargs", ",", ",")

Constructors(g) ==
  Groups(g, "ctorargs", ";", ";") \union Groups(g, "ctorargs", "{", "{")
  \union Groups(g, "ctorargs", ":", "{")

\* A block of a type, named or not; a declaration ahead; bases; declarators.
Bodies(g) ==
  IF CanEnter(g) THEN {To(Punct("{"), Enter(g, g.head, Anon))} ELSE {}

NamedBodies(g) ==
  IF CanEnter(g)
    THEN {Making(Punct("{"), Enter(g, g.head, B), Here(g, B, g.head))} ELSE {}

Bases(g, cpp) ==
  IF cpp /\ g.head \in {"class", "struct"} /\ CanEnter(g)
    THEN {To(Colon("{"), At(g, "bases"))} ELSE {}

Forwards(g) ==
  IF g.storage = "none" /\ g.head # "enum"
    THEN {Making(Punct(";"), Ended(g), Bare(B, "externvar"))} ELSE {}

Namespaces(g) ==
  { To(Name(B), At(g, "namespacename")), To(Punct("{"), Enter(g, "namespace", Anon)) }

NamedNamespaces(g) ==
  {Making(Punct("{"), Enter(g, "namespace", B), Here(g, B, "namespace"))}

LinkageBlocks(g) == {To(Punct("{"), Enter(g, "linkage", Anon))}

Continuations(g, cpp) ==
  CASE g.at = "start"         -> Starts(g, cpp)
    [] g.at = "spec"          -> Types(g)
    [] g.at = "type"          -> Declarators(g) \union Qualified(g, cpp)
    [] g.at = "usertype"      -> Declarators(g) \union Qualified(g, cpp) \union Calls(g)
    [] g.at = "qualifier"     -> {To(Punct("::"), At(g, "qualified"))}
    [] g.at = "qualified"     -> {To(Name(e), At(g, "qualifiedname"))}
    [] g.at = "qualifiedname" -> QualifiedEnds(g)
    [] g.at = "qualifiedargs" -> QualifiedBody(g)
    [] g.at = "call"          -> Finishes(g)
    [] g.at = "pointer"       -> {To(Name(e), At(g, "name"))}
    [] g.at = "name"          -> Ends(g) \union Values(g) \union BitFields(g)
                                 \union Parameters(g, cpp)
                                 \union {To(Punct("["), g)}
    [] g.at = "fptr"          -> PointerArguments(g)
    [] g.at = "fargs"         -> {p \in Ends(g) : p.lexeme.w = g.next}
    [] g.at = "args"          -> FunctionEnds(g, e)
    [] g.at = "ctor"          -> Constructors(g)
    [] g.at = "ctorargs"      -> FunctionEnds(g, B)
    [] g.at = "head"          -> {To(Name(B), At(g, "headname"))} \union Bodies(g)
    [] g.at = "headname"      -> NamedBodies(g) \union Bases(g, cpp) \union Forwards(g)
                                 \union Declarators(g)
    [] g.at = "bases"         -> NamedBodies(g)
    [] g.at = "closed"        -> Finishes(g) \union Declarators(g)
    [] g.at = "enumerator"    -> Enumerators(g)
    [] g.at = "last"          -> Closes(g)
    [] g.at = "namespace"     -> Namespaces(g)
    [] g.at = "namespacename" -> NamedNamespaces(g)
    [] g.at = "linkage"       -> {To(String, At(g, "linked"))}
    [] g.at = "linked"        -> LinkageBlocks(g)
    [] OTHER                  -> {}

-------------------------------------------------------------------------------
(* Damaged sources                                                         *)

\* Where the file breaks off and how the parser should find out: "eof" between
\* lexemes, "format" in a group or an initializer, "brace" in a body, at a brace
\* that closes nothing or at one in an initializer.
Broken == {"eof", "format", "brace"}

Breaks(g) ==
  {To(Eof, At(g, "eof"))}
  \union (IF g.at \in {"start", "name", "type"}
            THEN {To(Unclosed("["), At(g, "format"))} ELSE {})
  \union (IF g.at = "name" /\ g.storage # "typedef"
            THEN {To(Value("eof"), At(g, "format")), To(Value("}"), At(g, "brace"))}
                 \union {To(Paren(s, "eof", "eof"), At(g, "format")) : s \in Shapes}
            ELSE {})
  \union (IF g.at \in {"args", "ctorargs"} /\ g.next = "{"
            THEN {Making(Unclosed("{"), At(g, "brace"),
                         Here(g, IF g.at = "args" THEN e ELSE B, "function"))}
            ELSE {})
  \union (IF g.at = "start" /\ g.blocks = <<>>
            THEN {To(Punct("}"), At(g, "brace"))} ELSE {})

Sources(g, cpp) ==
  IF g.at \in Broken THEN {}
  ELSE Continuations(g, cpp) \union (IF Damaged THEN Breaks(g) ELSE {})
===============================================================================
