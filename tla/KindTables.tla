------------------------------ MODULE KindTables ------------------------------
(***************************************************************************)
(* The static tables of GetMetadataForFile.m and of ctags' parser list:    *)
(* which ctags language a uniform type identifier forces, under which      *)
(* number the importer looks that language up, which Spotlight attribute   *)
(* every kind letter of a language goes to, and the letters some parsers   *)
(* can emit.  Pure data: the runs restrict these tables to a few languages *)
(* and letters, the tables of the importer themselves are complete.        *)
(***************************************************************************)
EXTENDS Integers, Sequences

-------------------------------------------------------------------------------
(* Languages: a language is its position in PARSER_LIST, counted from zero *)

ParserNames ==
  << "Ant", "Asm", "Asp", "Awk", "Basic", "BETA", "C", "C++", "C#", "Cobol",
     "DosBatch", "Eiffel", "Erlang", "Flex", "Fortran", "HTML", "Java",
     "JavaScript", "Lisp", "Lua", "Make", "MatLab", "ObjectiveC", "OCaml",
     "Pascal", "Perl", "PHP", "Python", "REXX", "Ruby", "Scheme", "Sh",
     "SLang", "SML", "SQL", "Tcl", "Tex", "Vera", "Verilog", "VHDL", "Vim",
     "YACC" >>

AllLanguages  == 0 .. Len(ParserNames) - 1

LANG_AUTO   == -1
LANG_IGNORE == -2

\* The number of the parser registered under a name (the tables below spell
\* the names as the parsers do, so the comparison need not fold case).
getNamedLanguage(name) ==
  IF \E i \in AllLanguages : ParserNames[i + 1] = name
  THEN CHOOSE i \in AllLanguages : ParserNames[i + 1] = name
  ELSE LANG_IGNORE

-------------------------------------------------------------------------------
(* Uniform type identifiers.  A row is: identifiers, name given to         *)
(* --language-force, number used to look the kind table up.                *)

utiTranslation ==
  { << {"public.c-source", "public.c-header"}, "C", 6 >>,
    << {"public.c-plus-plus-source", "public.c-plus-plus-header"}, "C++", 6 >>,
    << {"com.sun.java-source"}, "Java", 16 >>,
    << {"com.netscape.javascript-source", "com.apple.dashcode.javascript"},
       "JavaScript", 17 >>,
    << {"public.perl-script"}, "Perl", 25 >>,
    << {"public.python-script"}, "Python", 27 >>,
    << {"public.ruby-script"}, "Ruby", 29 >>,
    << {"public.php-script"}, "PHP", 26 >>,
    << {"public.shell-script", "public.csh-script", "public.ksh-script"},
       "Sh", 31 >>,
    << {"public.objective-c-source"}, "ObjectiveC", 22 >>,
    << {"public.csharp-source", "org.vim.cs-file"}, "C#", 8 >>,
    << {"public.lua-script"}, "Lua", 19 >>,
    << {"public.pascal-source", "com.apple.xcode.pascal-source"},
       "Pascal", 24 >>,
    << {"public.scheme-source"}, "Scheme", 30 >>,
    << {"public.erlang-source", "org.vim.erl-file"}, "Erlang", 12 >>,
    << {"public.ocaml-source"}, "OCaml", 23 >>,
    << {"public.tcl-script", "org.vim.tcl-file"}, "Tcl", 35 >>,
    << {"public.verilog-source"}, "Verilog", 28 >>,
    << {"public.vhdl-source"}, "VHDL", 19 >>,
    << {"public.eiffel-source"}, "Eiffel", 11 >>,
    << {"public.lisp-source", "org.vim.lisp-file"}, "Lisp", 18 >>,
    << {"public.assembly-source"}, "Asm", 1 >>,
    << {"public.fortran-source", "public.public.fortran-90-source",
        "public.public.fortran-95-source", "public.fortran-95-source",
        "com.apple.xcode.fortran-source"}, "Fortran", 14 >>,
    << {"public.sml-source", "com.real.smil"}, "SML", 33 >> }

TranslatedUtis == UNION { row[1] : row \in utiTranslation }
RowOf(uti)     == CHOOSE row \in utiTranslation : uti \in row[1]

-------------------------------------------------------------------------------
(* Kind letters to Spotlight attributes, one table per language number     *)

cKindTable ==
  [ c |-> "Classes", d |-> "Macros", t |-> "Types", s |-> "Structures",
    v |-> "Globals", x |-> "Globals", e |-> "Constants", f |-> "Functions",
    g |-> "Enums" ]
objcKindTable ==
  [ i |-> "Interfaces", m |-> "Methods", f |-> "Functions", e |-> "Enums",
    M |-> "Macros", p |-> "Properties", s |-> "Structures",
    v |-> "Globals", c |-> "Methods" ]
pythonKindTable ==
  [ c |-> "Classes", f |-> "Functions", m |-> "Methods", v |-> "Globals",
    i |-> "Modules" ]
csharpKindTable ==
  [ c |-> "Classes", g |-> "Enums", s |-> "Structures", t |-> "Types",
    n |-> "Modules", i |-> "Interfaces", p |-> "Properties" ]
javaKindTable ==
  [ c |-> "Classes", e |-> "Enums", m |-> "Methods", p |-> "Modules",
    i |-> "Interfaces" ]
phpKindTable ==
  [ c |-> "Classes", i |-> "Interfaces", d |-> "Constants",
    f |-> "Functions" ]
javascriptKindTable ==
  [ f |-> "Functions", c |-> "Classes", m |-> "Methods",
    p |-> "Properties", v |-> "Globals" ]
fortranKindTable ==
  [ f |-> "Functions", i |-> "Interfaces", m |-> "Modules",
    s |-> "Functions", v |-> "Globals", t |-> "Types", k |-> "Properties" ]
ocamlKindTable ==
  [ c |-> "Classes", M |-> "Modules", m |-> "Methods", t |-> "Types",
    C |-> "Constructors", f |-> "Functions", v |-> "Globals" ]
smlKindTable ==
  [ f |-> "Functions", r |-> "Structures", t |-> "Types", v |-> "Globals",
    c |-> "Modules" ]
verilogKindTable ==
  [ c |-> "Constants", f |-> "Functions", m |-> "Modules", r |-> "Types",
    n |-> "Types" ]
vhdlKindTable ==
  [ c |-> "Constants", f |-> "Functions", p |-> "Functions",
    P |-> "Modules", d |-> "Interfaces", t |-> "Types", T |-> "Types",
    r |-> "Types" ]
functionsOnlyTable == [ f |-> "Functions" ]    \* sh, lua, pascal, lisp

NULL_LANG == << >>        \* the empty table: no letter is mapped

assocBuilders ==
  [ id \in AllLanguages |->
      CASE id = 1  -> [ m |-> "Macros", t |-> "Types", l |-> "Functions",
                        d |-> "Globals" ]
        [] id \in {6, 7}           -> cKindTable
        [] id = 8  -> csharpKindTable
        [] id = 11 -> [ c |-> "Classes" ]
        [] id = 12 -> [ d |-> "Macros", m |-> "Modules", f |-> "Functions",
                        r |-> "Structures" ]
        [] id = 14 -> fortranKindTable
        [] id = 16 -> javaKindTable
        [] id = 17 -> javascriptKindTable
        [] id \in {18, 19, 24, 31} -> functionsOnlyTable
        [] id = 22 -> objcKindTable
        [] id = 23 -> ocamlKindTable
        [] id = 25 -> [ c |-> "Constants", p |-> "Modules", s |-> "Functions" ]
        [] id = 26 -> phpKindTable
        [] id = 27 -> pythonKindTable
        [] id = 29 -> [ c |-> "Classes", f |-> "Methods", m |-> "Modules" ]
        [] id = 30 -> [ f |-> "Functions", s |-> "Globals" ]
        [] id = 33 -> smlKindTable
        [] id = 35 -> [ c |-> "Classes", m |-> "Methods", p |-> "Functions" ]
        [] id = 38 -> verilogKindTable
        [] id = 39 -> vhdlKindTable
        [] OTHER   -> NULL_LANG ]

-------------------------------------------------------------------------------
(* The letters of the kinds a few parsers emit by default                  *)

CKinds       == {"c", "d", "e", "f", "g", "m", "n", "s", "t", "u", "v"}
ObjcKinds    == {"i", "I", "p", "m", "c", "v", "F", "f", "t", "s", "e", "M"}
PythonKinds  == {"c", "f", "m", "v", "i"}
VerilogKinds == {"c", "e", "f", "m", "n", "p", "r", "t"}
VhdlKinds    == {"c", "t", "T", "r", "e", "f", "p", "P"}

parserKinds ==
  [ id \in {6, 7, 19, 22, 27, 38, 39} |->
      CASE id \in {6, 7} -> CKinds
        [] id = 19 -> {"f"}
        [] id = 22 -> ObjcKinds
        [] id = 27 -> PythonKinds
        [] id = 38 -> VerilogKinds
        [] id = 39 -> VhdlKinds ]

\* The character code of a letter: its index in an array of letters.
CharCode ==
  LET Upper == << "A", "B", "C", "D", "E", "F", "G", "H", "I", "J", "K", "L",
                  "M", "N", "O", "P", "Q", "R", "S", "T", "U", "V", "W", "X",
                  "Y", "Z" >>
      Lower == << "a", "b", "c", "d", "e", "f", "g", "h", "i", "j", "k", "l",
                  "m", "n", "o", "p", "q", "r", "s", "t", "u", "v", "w", "x",
                  "y", "z" >>
      Index(s, l) == CHOOSE i \in DOMAIN s : s[i] = l
  IN [ l \in {Upper[i] : i \in 1 .. 26} \cup {Lower[i] : i \in 1 .. 26} |->
         IF \E i \in 1 .. 26 : Upper[i] = l
         THEN 64 + Index(Upper, l) ELSE 96 + Index(Lower, l) ]
===============================================================================
