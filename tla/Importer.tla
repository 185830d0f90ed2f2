------------------------------- MODULE Importer -------------------------------
(***************************************************************************)
(* GetMetadataForURL as the Spotlight worker calls it: one import after    *)
(* another in one process, each of them a whole run of ctags between       *)
(* initialisation and cleanup.  What the process keeps from one import to  *)
(* the next is explicit: Option.language, the kind table and the array     *)
(* pointers of the global MetaDataContext, and the retain counts of the    *)
(* arrays the host still holds through the attributes dictionaries; and    *)
(* ctags' keyword table and pattern sets, which every run fills and frees. *)
(*                                                                         *)
(* Imports are numbered.  prepareContext makes one array per kind, so an   *)
(* array is named by the import that made it and its kind.  A tag stands   *)
(* for the CFString of its name; the letter, the file and the position are *)
(* carried along so that properties can tell where an entry comes from.    *)
(***************************************************************************)
EXTENDS Integers, Sequences, RunTables

CONSTANTS
  Utis,           \* content types the host hands over
  Languages,      \* numbers of the registered parsers the runs reach
  Letters,        \* kind letters
  Kinds,          \* the KindIndex values before kindUNVALID
  Translated,     \* the identifiers utiTranslation has a row for
  langForce,      \* [Translated -> Languages], the forced language
  langId,         \* [Translated -> Nat], index into builders
  builders,       \* assocBuilders: number -> kind table, empty for NULL_LANG
  emitted,        \* [Languages -> SUBSET Letters], the kinds of a parser
  code,           \* character code of a letter
  ConfigLanguages,\* what option files may force: languages, AUTO or NoForce
  NameLanguages,  \* what getFileLanguage may answer for a file name
  Junk,           \* what the words after the kind table may hold at start
  MaxImports,     \* bound on imports in one behaviour
  MaxTags         \* bound on tags per file

LANG_AUTO   == -1
LANG_IGNORE == -2
NoForce     == -3        \* no option file sets --language-force
kindUNVALID == "kindUNVALID"
NULL        == 0         \* no array, no dictionary entry

ImportNos == 1 .. MaxImports
KindCells == Kinds \cup {kindUNVALID}

ASSUME ConstantsAssumption ==
  /\ MaxImports \in Nat
  /\ MaxTags \in Nat
  /\ Languages \subseteq Nat
  /\ kindUNVALID \notin Kinds
  /\ langForce \in [Translated -> Languages]
  /\ langId \in [Translated -> DOMAIN builders]
  /\ \A id \in DOMAIN builders :
        /\ DOMAIN builders[id] \subseteq Letters
        /\ \A l \in DOMAIN builders[id] : builders[id][l] \in Kinds
  /\ emitted \in [Languages -> SUBSET Letters]
  /\ code \in [Letters -> Nat]
  /\ ConfigLanguages \subseteq Languages \cup {LANG_AUTO, NoForce}
  /\ NameLanguages \subseteq Languages \cup {LANG_IGNORE}
  /\ Junk \subseteq KindCells

VARIABLES
  pc,        \* where GetMetadataForURL stands; "idle" between two calls
  n,         \* number of imports begun
  request,   \* per import its content type and the language of its name
  language,  \* Option.language
  parsing,   \* the language parseFile settled on
  kindTable, \* ctxt.kindTable, by letter, the cells past its end included
  kindLists, \* ctxt.kindLists: the import that made the array, or NULL
  heap,      \* the arrays: retain count and contents
  dicts,     \* the attributes dictionaries: per kind the array, or NULL
  held,      \* imports whose dictionary the host has not released
  tags,      \* per import, the tags its parser made (history)
  HashTable, \* keyword.c: the pointer, hashTableIsAllocated and the chains
  Sets,      \* lregex.c: the pattern sets and SetUpper
  asked      \* the --regex options of the import under way (history)

vars == << pc, n, request, language, parsing, kindTable, kindLists, heap,
           dicts, held, tags, HashTable, Sets, asked >>

tables == << HashTable, Sets, asked >>

-------------------------------------------------------------------------------
(* Helpers *)

\* sizeof(char) * 8, used as the number of cells of a table indexed by char
KindTableSize == 8

\* fillTable: reset the first KindTableSize cells, then write the mapping.
FillTable(def, table) ==
  [ l \in Letters |->
      IF l \in DOMAIN def THEN def[l]
      ELSE IF code[l] < KindTableSize THEN kindUNVALID ELSE table[l] ]

\* findCTagLanguage: the number for a content type, -1 if it has no row.
LangId(uti) == IF uti \in Translated THEN langId[uti] ELSE -1

\* The builder prepareContext uses; none for -1 and for NULL_LANG.
HasBuilder(uti) ==
  /\ uti \in Translated
  /\ DOMAIN builders[langId[uti]] # {}

\* Mutant: option files are read after the command line, and win.
ForcedLanguageConfigLast(uti, config) ==
  IF config # NoForce THEN config
  ELSE IF uti \in Translated THEN langForce[uti] ELSE language

\* --language-force on the command line, else in an option file, else
\* whatever Option.language holds already.
ForcedLanguage(uti, config) ==
  IF uti \in Translated THEN langForce[uti]
  ELSE IF config # NoForce THEN config ELSE language

EmptyArray == [rc |-> 1, items |-> << >>]
NoArray    == [rc |-> 0, items |-> << >>]

Array(k)  == heap[kindLists[k]][k]
Usable(k) == kindLists[k] # NULL /\ Array(k).rc > 0
\* Touching NULL crashes; touching a released array may also do nothing.
CanSurvive(K) == \A k \in K : Usable(k) \/ kindLists[k] # NULL

Retain(h, K, lists, delta) ==
  [ m \in ImportNos |->
      [ k \in Kinds |-> IF k \in K /\ lists[k] = m
                        THEN [h[m][k] EXCEPT !.rc = @ + delta]
                        ELSE h[m][k] ] ]

Crash ==
  /\ pc' = "crashed"
  /\ UNCHANGED << n, request, language, parsing, kindTable, kindLists, heap,
                  dicts, held, tags, tables >>

-------------------------------------------------------------------------------
(* One action per stage of GetMetadataForURL                               *)

\* The statics of a process that has just been started, and its heap.
NoLists        == [k \in Kinds |-> NULL]
FreshHeap      == [m \in ImportNos |-> [k \in Kinds |-> NoArray]]
NoDictionaries == [m \in ImportNos |-> NoLists]

Init ==
  /\ pc = "idle"
  /\ n = 0
  /\ request = [m \in ImportNos |-> [uti |-> "", byName |-> LANG_IGNORE]]
  /\ language = LANG_AUTO
  /\ parsing = LANG_IGNORE
  /\ kindTable \in [Letters -> Junk]
  /\ kindLists = NoLists
  /\ heap = FreshHeap
  /\ dicts = NoDictionaries
  /\ held = {}
  /\ tags = [m \in ImportNos |-> << >>]
  /\ HashTable = NoHashTable
  /\ Sets = NoSets
  /\ asked = << >>

\* From the call to checkOptions: argv is built from the translation of the
\* content type, option files and the command line set Option.language.  The
\* parsers are installed before option files are read.
BeginImport(uti, byName, config) ==
  /\ pc = "idle"
  /\ n < MaxImports
  /\ n' = n + 1
  /\ request' = [request EXCEPT ![n'] = [uti |-> uti, byName |-> byName]]
  /\ language' = ForcedLanguage(uti, config)
  /\ held' = held \cup {n'}
  /\ pc' = "begun"
  /\ HashTable' = initializeKeywords(HashTable)
  /\ asked' \in RegexOptions
  /\ Sets' = WithOptions(initializePatterns(Sets), asked')
  /\ UNCHANGED << parsing, kindTable, kindLists, heap, dicts, tags >>

\* prepareContext, its result ignored, and the head of parseFile.
PrepareContext ==
  /\ pc = "begun"
  /\ IF HasBuilder(request[n].uti)
     THEN /\ kindTable' = FillTable(builders[LangId(request[n].uti)], kindTable)
          /\ kindLists' = [k \in Kinds |-> n]
          /\ heap' = [heap EXCEPT ![n] = [k \in Kinds |-> EmptyArray]]
     ELSE UNCHANGED << kindTable, kindLists, heap >>
  /\ parsing' = IF language = LANG_AUTO THEN request[n].byName ELSE language
  /\ pc' = "parsing"
  /\ UNCHANGED << n, request, language, dicts, held, tags, tables >>

\* The parser makes a tag: makeTagEntry hands it to notifySystemTagEntry,
\* which drops a letter without a kind and a name that is no UTF-8.
NotifySystemTagEntry(letter, valid) ==
  LET tag == [file |-> n, at |-> Len(tags[n]) + 1,
              letter |-> letter, valid |-> valid]
      k   == kindTable[letter]
  IN /\ pc = "parsing"
     /\ parsing # LANG_IGNORE
     /\ letter \in emitted[parsing]
     /\ Len(tags[n]) < MaxTags
     /\ \/ /\ k = kindUNVALID \/ ~valid
           /\ tags' = [tags EXCEPT ![n] = Append(@, tag)]
           /\ UNCHANGED << pc, heap >>
        \/ /\ k # kindUNVALID /\ valid /\ Usable(k)
           /\ tags' = [tags EXCEPT ![n] = Append(@, tag)]
           /\ heap' = [heap EXCEPT ![kindLists[k]][k].items = Append(@, tag)]
           /\ UNCHANGED pc
        \/ /\ k # kindUNVALID /\ valid /\ ~Usable(k)
           /\ CanSurvive({k})
           /\ tags' = [tags EXCEPT ![n] = Append(@, tag)]
           /\ UNCHANGED << pc, heap >>
        \/ /\ k # kindUNVALID /\ valid /\ ~Usable(k)
           /\ pc' = "crashed"
           /\ UNCHANGED << tags, heap >>
     /\ UNCHANGED << n, request, language, parsing, kindTable, kindLists,
                     dicts, held, tables >>

\* Mutant: the dictionary is made without retain callbacks.
DumpContextUnretained ==
  LET filled == {k \in Kinds : Usable(k) /\ Array(k).items # << >>} IN
  /\ pc = "parsing"
  /\ CanSurvive(Kinds)
  /\ dicts' = [dicts EXCEPT ![n] =
                 [k \in Kinds |-> IF k \in filled THEN kindLists[k] ELSE NULL]]
  /\ pc' = "dumped"
  /\ UNCHANGED << n, request, language, parsing, kindTable, kindLists, heap,
                  held, tags, tables >>

\* parseFile has returned: dumpContextInAttributes adds every array that is
\* not empty to the dictionary, which retains it.
DumpContextInAttributes ==
  LET filled == {k \in Kinds : Usable(k) /\ Array(k).items # << >>} IN
  /\ pc = "parsing"
  /\ CanSurvive(Kinds)
  /\ dicts' = [dicts EXCEPT ![n] =
                 [k \in Kinds |-> IF k \in filled THEN kindLists[k] ELSE NULL]]
  /\ heap' = Retain(heap, filled, kindLists, 1)
  /\ pc' = "dumped"
  /\ UNCHANGED << n, request, language, parsing, kindTable, kindLists, held,
                  tags, tables >>

\* The free... calls of ctags.
FreeResources ==
  /\ HashTable' = freeKeywordTable(HashTable)
  /\ Sets' = freeRegexResources(Sets)
  /\ asked' = << >>

\* Mutant: cleanupContext releases the arrays the dictionary took only.
CleanupContextFilled ==
  LET filled == {k \in Kinds : Usable(k) /\ Array(k).items # << >>} IN
  /\ pc = "dumped"
  /\ CanSurvive(Kinds)
  /\ heap' = Retain(heap, filled, kindLists, -1)
  /\ pc' = "idle"
  /\ FreeResources
  /\ UNCHANGED << n, request, language, parsing, kindTable, kindLists, dicts,
                  held, tags >>

\* Mutant: cleanupContext releases every array twice.
CleanupContextTwice ==
  LET usable == {k \in Kinds : Usable(k)} IN
  /\ pc = "dumped"
  /\ CanSurvive(Kinds)
  /\ heap' = Retain(heap, usable, kindLists, -2)
  /\ pc' = "idle"
  /\ FreeResources
  /\ UNCHANGED << n, request, language, parsing, kindTable, kindLists, dicts,
                  held, tags >>

\* Mutant: cleanupContext empties the arrays before it releases them.
CleanupContextEmptied ==
  LET usable == {k \in Kinds : Usable(k)} IN
  /\ pc = "dumped"
  /\ CanSurvive(Kinds)
  /\ heap' = [Retain(heap, usable, kindLists, -1) EXCEPT ![n] =
                [k \in Kinds |-> [rc |-> @[k].rc, items |-> << >>]]]
  /\ pc' = "idle"
  /\ FreeResources
  /\ UNCHANGED << n, request, language, parsing, kindTable, kindLists, dicts,
                  held, tags >>

\* The free... calls of ctags, cleanupContext and the return to the host.
\* The pointers in ctxt are left as they are.
CleanupContext ==
  LET usable == {k \in Kinds : Usable(k)} IN
  /\ pc = "dumped"
  /\ CanSurvive(Kinds)
  /\ heap' = Retain(heap, usable, kindLists, -1)
  /\ pc' = "idle"
  /\ FreeResources
  /\ UNCHANGED << n, request, language, parsing, kindTable, kindLists, dicts,
                  held, tags >>

\* Dumping or releasing an array that is not there.
ListFault ==
  /\ pc \in {"parsing", "dumped"}
  /\ \E k \in Kinds : ~Usable(k)
  /\ Crash

\* The host lets go of the dictionary of a finished import.
HostRelease(m) ==
  LET K == {k \in Kinds : dicts[m][k] # NULL}
      gone == {k \in K : heap[dicts[m][k]][k].rc = 0}
  IN /\ pc # "crashed"
     /\ m \in held
     /\ m # n \/ pc = "idle"
     /\ \/ /\ heap' = Retain(heap, K \ gone, dicts[m], -1)
           /\ dicts' = [dicts EXCEPT ![m] = NoLists]
           /\ held' = held \ {m}
           /\ UNCHANGED << pc, n, request, language, parsing, kindTable,
                           kindLists, tags, tables >>
        \/ /\ gone # {}
           /\ Crash

\* The worker process is started again after a crash.
Relaunch ==
  /\ pc = "crashed"
  /\ pc' = "idle"
  /\ language' = LANG_AUTO
  /\ kindTable' \in [Letters -> Junk]
  /\ kindLists' = NoLists
  /\ heap' = FreshHeap
  /\ dicts' = NoDictionaries
  /\ held' = {}
  /\ HashTable' = NoHashTable
  /\ Sets' = NoSets
  /\ asked' = << >>
  /\ UNCHANGED << n, request, parsing, tags >>

Next ==
  \/ \E u \in Utis, b \in NameLanguages, c \in ConfigLanguages :
        BeginImport(u, b, c)
  \/ PrepareContext
  \/ \E l \in Letters, v \in BOOLEAN : NotifySystemTagEntry(l, v)
  \/ DumpContextInAttributes
  \/ CleanupContext
  \/ ListFault
  \/ \E m \in ImportNos : HostRelease(m)
  \/ Relaunch

\* Nothing is assumed of the worker: a parser may read on for ever.  The host, by
\* the rules of CFDictionary, releases every dictionary it has been given.
Spec ==
  /\ Init /\ [][Next]_vars
  /\ \A m \in ImportNos : WF_vars(HostRelease(m))

-------------------------------------------------------------------------------
(* Properties *)

Tag == [file : ImportNos, at : Nat, letter : Letters, valid : BOOLEAN]

\* Types of the variables: ctxt, Option.language, the arrays, the history.  (What
\* ctags' tables hold is the matter of TablesOfThisRun.)
TypeOK ==
  /\ pc \in {"idle", "begun", "parsing", "dumped", "crashed"}
  /\ n \in 0 .. MaxImports
  /\ request \in [ImportNos -> [uti : Utis \cup {""},
                              byName : NameLanguages \cup {LANG_IGNORE}]]
  /\ language \in Languages \cup {LANG_AUTO}
  /\ parsing \in Languages \cup {LANG_IGNORE}
  /\ kindTable \in [Letters -> KindCells]
  /\ kindLists \in [Kinds -> 0 .. MaxImports]
  /\ heap \in [ImportNos -> [Kinds -> [rc : Nat, items : Seq(Tag)]]]
  /\ dicts \in [ImportNos -> [Kinds -> 0 .. MaxImports]]
  /\ held \subseteq ImportNos
  /\ tags \in [ImportNos -> Seq(Tag)]

\* The worker never touches an array that is absent or already released
\* (cleanupContext leaves ctxt's pointers dangling, prepareContext may not
\* replace them).
NeverCrashes == pc # "crashed"

\* A crash is always the work of a content type prepareContext has no table
\* for: however imports, releases and relaunches interleave, the imports of
\* the other types alone bring the worker down never.
CrashesOnlyUntabled ==
  pc = "crashed" => \E m \in 1 .. n : ~HasBuilder(request[m].uti)

\* While an import parses and dumps, ctxt's arrays are its own and alive.
InImport == pc \in {"parsing", "dumped"}
OwnArrays ==
  InImport => \A k \in Kinds : kindLists[k] = n /\ Array(k).rc > 0

\* A dictionary holds an array of its own import or none.
OwnEntries == \A m \in ImportNos, k \in Kinds : dicts[m][k] \in {NULL, m}

\* The retain count of an array is the number of owners it really has: ctxt
\* during the import that made it, and the dictionary while the host holds
\* it.  So nothing leaks over a long run and nothing is released twice.
Owners(m, k) ==
  (IF InImport /\ kindLists[k] = m THEN 1 ELSE 0)
    + (IF dicts[m][k] = m THEN 1 ELSE 0)
RetainCounts == \A m \in ImportNos, k \in Kinds : heap[m][k].rc = Owners(m, k)

\* During an import its number and content type are set, and until it dumps,
\* as for every import to come, its dictionary is empty.
Running == pc \in {"begun", "parsing", "dumped"} => n \in ImportNos /\ request[n].uti \in Utis
EmptyUntilDumped ==
  \A m \in ImportNos, k \in Kinds :
    m > n \/ (m = n /\ pc \in {"begun", "parsing"}) => dicts[m][k] = NULL

\* The language parsed is the one the host's content type forces, whatever
\* option files and earlier imports did to Option.language.
ForcedLanguageWins ==
  InImport /\ request[n].uti \in Translated =>
    parsing = langForce[request[n].uti]

\* What the host sees, import by import, is what SpotlightService promises:
\* in particular a later import never changes the dictionary of an earlier.
ServiceView ==
  [ m \in ImportNos |->
      LET status == IF m > n THEN "none"
                    ELSE IF m = n /\ pc # "idle" THEN "asked"
                    ELSE IF m \in held THEN "delivered" ELSE "released"
          shown(k) == IF dicts[m][k] = NULL THEN << >>
                      ELSE heap[dicts[m][k]][k].items
      IN [ status |-> status,
           uti    |-> request[m].uti,
           tags   |-> IF status = "delivered" THEN tags[m] ELSE << >>,
           attrs  |-> [k \in Kinds |->
                         IF status = "delivered" THEN shown(k) ELSE << >>] ] ]

TableOf(uti) == builders[langId[uti]]
Service == INSTANCE SpotlightService WITH
             Imports <- ImportNos, Table <- TableOf, service <- ServiceView
ImplementsService == Service!Spec

\* Nothing leaks in a worker that imports file after file: once an import has
\* returned, each of its arrays, delivered or left empty, is sooner or later
\* freed (cleanupContext, and the host's release of the dictionary).
Returned(m) == m < n \/ (m = n /\ pc = "idle")
NothingLeaks ==
  \A m \in ImportNos : Returned(m) ~> \A k \in Kinds : heap[m][k].rc = 0

\* GetMetadataForFile.m, notifySystemTagEntry: "if the kind char is not
\* mappend, drop it".  No array shows a tag whose letter the table of the
\* file's content type does not map.
UnmappedDropped ==
  \A m \in ImportNos, k \in Kinds :
    \A i \in DOMAIN heap[m][k].items :
      LET t == heap[m][k].items[i] IN
      request[t.file].uti \in Translated
        => t.letter \in DOMAIN TableOf(request[t.file].uti)

\* Every import works with the keywords and patterns of its own run and language,
\* whatever other languages share a bucket or the imports before it left
\* (keyword.c:174, lregex.c:677).
TablesOfThisRun ==
  pc \in {"begun", "parsing", "dumped"} =>
    \A lang \in Installed :
      /\ \A word \in Words :
           lookupKeyword(HashTable, word, lang) = ValueOf(word, lang)
      /\ matchRegex(Sets, lang) = PatternsOf(lang, asked)

\* ctags.1, --language-force: a file for which nothing forces a language is
\* parsed with the language of its name.
AutomaticSelection ==
  InImport /\ request[n].uti \notin Translated /\ ConfigLanguages = {NoForce}
    => parsing = request[n].byName
===============================================================================
