------------------------------ MODULE TokenParsers ------------------------------
(***************************************************************************)
(* The parsers that read a token or a line at a time, and the preprocessor *)
(* the C family reads through, each over the texts of its grammar.  A text *)
(* grows by a token or line: at every step the parser has read what there  *)
(* is of it, as of a file that is cut there.                               *)
(***************************************************************************)
EXTENDS Naturals, Sequences, TokenStream

VARIABLES language, source, length

vars == << language, source, length >>

JavaScript == INSTANCE JavaScript
Flex == INSTANCE Flex
Sql == INSTANCE Sql
Fortran == INSTANCE Fortran
OCaml == INSTANCE OCaml
Eiffel == INSTANCE Eiffel
ObjC == INSTANCE ObjC
Python == INSTANCE Python
Vhdl == INSTANCE Vhdl
Verilog == INSTANCE Verilog
Ruby == INSTANCE Ruby
Perl == INSTANCE Perl
Vim == INSTANCE Vim
Pascal == INSTANCE Pascal
Tex == INSTANCE Tex
Cpp == INSTANCE CppText

Sources ==
  [JavaScript |-> JavaScript!Sources,
   Flex |-> Flex!Sources,
   Sql |-> Sql!Sources,
   Fortran |-> Fortran!Sources,
   OCaml |-> OCaml!Sources,
   Eiffel |-> Eiffel!Sources,
   ObjC |-> ObjC!Sources,
   Python |-> Python!Sources,
   Vhdl |-> Vhdl!Sources,
   Verilog |-> Verilog!Sources,
   Ruby |-> Ruby!Sources,
   Perl |-> Perl!Sources,
   Vim |-> Vim!Sources,
   Pascal |-> Pascal!Sources,
   Tex |-> Tex!Sources,
   Cpp |-> Cpp!Sources]

Init ==
  /\ language \in DOMAIN Sources
  /\ source \in Sources[language]
  /\ length = 0

Read ==
  /\ length < Len(source.text)
  /\ length' = length + 1
  /\ UNCHANGED << language, source >>

Next == Read

Spec == Init /\ [][Next]_vars

Text == SubSeq(source.text, 1, length)

\* What a parser makes of a file that goes on to where it is read now: no tag that
\* the source has not if it is cut there; of the whole source all its tags, in any
\* order, and each once.
AsDeclared(tags) ==
  /\ SetOf(tags) \subseteq source.tags
  /\ length' = Len(source.text) => Exactly(tags, source)

\* Functions, classes, methods, properties and variables of JavaScript, ActionScript
\* and MXML are tagged as declared, with their scope, whatever block ends or line end is
\* read before (jscript.c:470, :1042, flex.c:1460).
ScriptTags ==
  [][/\ language = "JavaScript" => AsDeclared(JavaScript!findJsTags(Text'))
     /\ language = "Flex" => AsDeclared(Flex!Claimed(Flex!findFlexTags(Text')))]_vars

\* SQL is tagged as declared, across the dialects' ways to end a block
\* (sql.c:734).
SqlTags ==
  [][language = "Sql" => AsDeclared(Sql!findSqlTags(Text'))]_vars

\* Fortran is tagged as declared, in fixed and in free form, with the unit around
\* as scope (fortran.c:1080, :2040).
FortranTags ==
  [][language = "Fortran" =>
       \A free \in BOOLEAN : AsDeclared(Fortran!findFortranTags(Text', free))]_vars

\* OCaml is tagged as declared: a declaration without an end of its own ends
\* where the next begins (ocaml.c:921).
OCamlTags ==
  [][language = "OCaml" => AsDeclared(OCaml!findOcamlTags(Text'))]_vars

\* Eiffel is tagged as declared (eiffel.c:1084).
EiffelTags ==
  [][language = "Eiffel" => AsDeclared(Eiffel!findEiffelTags(Text'))]_vars

\* Objective-C is tagged as declared, the parts of a method name joined
\* (objc.c:618).
ObjCTags ==
  [][language = "ObjC" => AsDeclared(ObjC!Claimed(ObjC!findObjcTags(Text')))]_vars

\* Python is tagged as declared, with the blocks around by indentation
\* (python.c:470).
PythonTags ==
  [][language = "Python" => AsDeclared(Python!findPythonTags(Text'))]_vars

\* VHDL and Verilog are tagged as declared, names in lists included; what is
\* local to a subprogram is not (vhdl.c:688, verilog.c:214).
HardwareTags ==
  [][/\ language = "Vhdl" => AsDeclared(Vhdl!findVhdlTags(Text'))
     /\ language = "Verilog" => AsDeclared(Verilog!findVerilogTags(Text'))]_vars

\* Ruby, Perl, Vim, Pascal and TeX are tagged as declared, by parsers that keep
\* scopes, pending names and titles from line to line; but for a Vim script that is
\* cut within a command (ruby.c:272, perl.c:171, vim.c:576, pascal.c:87, tex.c:362).
LineParsersTags ==
  [][/\ language = "Ruby" => AsDeclared(Ruby!findRubyTags(Text'))
     /\ language = "Perl" => AsDeclared(Perl!findPerlTags(Text'))
     /\ language = "Vim" /\ ~ Vim!EndsInCommand(Text') => AsDeclared(Vim!findVimTags(Text'))
     /\ language = "Pascal" => AsDeclared(Pascal!findPascalTags(Text'))
     /\ language = "Tex" => AsDeclared(Tex!findTexTags(Text'))]_vars

\* The parsers of the C family get a text without comments, contents of strings,
\* directives and branches under an #if 0, all of it and in order, however comments,
\* quotes, trigraphs and lines that go on meet; and the macros of the branches that are
\* left have tags (get.c:534, :322).
CppDelivers ==
  [][language = "Cpp" =>
       LET read == Cpp!Delivered(Cpp!cppInit(Text', source.at), <<>>)
       IN /\ Cpp!AsWritten(read, source, length' = Len(source.text))
          /\ AsDeclared(read.tags)]_vars
================================================================================
