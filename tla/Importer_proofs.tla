---------------------------- MODULE Importer_proofs ----------------------------
(***************************************************************************)
(* Proofs about the importer: type correctness for all content types, the  *)
(* language an import parses, and, for content types that have a kind      *)
(* table, that the worker never touches a dead array and never leaks one,  *)
(* and that the importer is then a SpotlightService: what the host sees of *)
(* each import moves as the service says, and what is delivered is what    *)
(* the contract promises.                                                  *)
(***************************************************************************)
EXTENDS Importer, TLAPS

-------------------------------------------------------------------------------
(* The operators the actions are built from *)

LEMMA MaxImportsType == MaxImports \in Nat
BY ConstantsAssumption DEF ConstantsAssumption

LEMMA FillTableType ==
  ASSUME NEW uti \in Utis, HasBuilder(uti),
         NEW table \in [Letters -> KindCells]
  PROVE  FillTable(builders[LangId(uti)], table) \in [Letters -> KindCells]
<1>1. /\ uti \in Translated
      /\ langId[uti] \in DOMAIN builders
      /\ LangId(uti) = langId[uti]
  BY ConstantsAssumption DEF ConstantsAssumption, HasBuilder, LangId
<1>2. \A l \in DOMAIN builders[langId[uti]] :
         builders[langId[uti]][l] \in Kinds
  BY <1>1, ConstantsAssumption DEF ConstantsAssumption
<1> QED
  BY <1>1, <1>2 DEF FillTable, KindCells

\* A table filled for a content type maps exactly as that type's table does.
LEMMA FillTableMaps ==
  ASSUME NEW uti, NEW table, NEW l \in Letters, l \in DOMAIN builders[LangId(uti)]
  PROVE  FillTable(builders[LangId(uti)], table)[l] = builders[LangId(uti)][l]
BY DEF FillTable

Heaps == [ImportNos -> [Kinds -> [rc : Nat, items : Seq(Tag)]]]

LEMMA RetainValue ==
  ASSUME NEW h \in Heaps, NEW K, NEW lists, NEW d \in {-1, 1},
         NEW m \in ImportNos, NEW k \in Kinds
  PROVE  /\ Retain(h, K, lists, d)[m][k].items = h[m][k].items
         /\ Retain(h, K, lists, d)[m][k].rc =
              h[m][k].rc + (IF k \in K /\ lists[k] = m THEN d ELSE 0)
BY DEF Retain, Heaps

\* Retaining, and releasing arrays whose count is positive, keeps the heap.
LEMMA RetainType ==
  ASSUME NEW h \in Heaps, NEW K, NEW lists, NEW d \in {-1, 1},
         \A m \in ImportNos, k \in Kinds :
           k \in K /\ lists[k] = m => d = 1 \/ h[m][k].rc # 0
  PROVE  Retain(h, K, lists, d) \in Heaps
<1>1. ASSUME NEW m \in ImportNos, NEW k \in Kinds
      PROVE  (IF k \in K /\ lists[k] = m
              THEN [h[m][k] EXCEPT !.rc = @ + d] ELSE h[m][k])
               \in [rc : Nat, items : Seq(Tag)]
  <2>1. h[m][k] \in [rc : Nat, items : Seq(Tag)]
    BY DEF Heaps
  <2>2. CASE k \in K /\ lists[k] = m
    BY <2>1, <2>2
  <2>3. CASE ~(k \in K /\ lists[k] = m)
    BY <2>1, <2>3
  <2> QED BY <2>2, <2>3
<1> QED
  BY <1>1 DEF Retain, Heaps

-------------------------------------------------------------------------------
(* Type correctness *)

TypeInv == TypeOK /\ Running

LEMMA FreshTypes ==
  /\ [Letters -> Junk] \subseteq [Letters -> KindCells]
  /\ NoLists \in [Kinds -> 0 .. MaxImports]
  /\ FreshHeap \in Heaps
  /\ NoDictionaries \in [ImportNos -> [Kinds -> 0 .. MaxImports]]
<1>1. Junk \subseteq KindCells
  BY ConstantsAssumption DEF ConstantsAssumption
<1>2. NoLists \in [Kinds -> 0 .. MaxImports]
  BY MaxImportsType DEF NoLists, NULL
<1>3. NoArray \in [rc : Nat, items : Seq(Tag)]
  BY DEF NoArray
<1> QED
  BY <1>1, <1>2, <1>3 DEF FreshHeap, NoDictionaries, Heaps

LEMMA InitType == Init => TypeInv
<1> SUFFICES ASSUME Init PROVE TypeInv
  OBVIOUS
<1>1. n \in 0 .. MaxImports
  <2>1. n = 0
    BY DEF Init
  <2> QED
    BY <2>1, MaxImportsType
<1>2. request \in [ImportNos -> [uti : Utis \cup {""},
                                 byName : NameLanguages \cup {LANG_IGNORE}]]
  BY DEF Init
<1>3. tags \in [ImportNos -> Seq(Tag)]
  <2>1. tags = [m \in ImportNos |-> << >>]
    BY DEF Init
  <2>2. << >> \in Seq(Tag)
    OBVIOUS
  <2> QED
    BY <2>1, <2>2
<1>4. kindTable \in [Letters -> KindCells] /\ heap \in Heaps
  BY FreshTypes DEF Init
<1> QED
  BY <1>1, <1>2, <1>3, <1>4, FreshTypes DEF Init, TypeInv, TypeOK, Running, Heaps

LEMMA BeginType ==
  ASSUME TypeInv, NEW u \in Utis, NEW b \in NameLanguages,
         NEW c \in ConfigLanguages, BeginImport(u, b, c)
  PROVE  TypeInv'
<1>1. n' \in ImportNos /\ n' \in 0 .. MaxImports
  <2>1. n \in 0 .. MaxImports
    BY DEF TypeInv, TypeOK
  <2>2. n < MaxImports /\ n' = n + 1
    BY DEF BeginImport
  <2> QED
    BY <2>1, <2>2, MaxImportsType DEF ImportNos
<1>2. language' \in Languages \cup {LANG_AUTO}
  BY ConstantsAssumption
     DEF ConstantsAssumption, BeginImport, ForcedLanguage, TypeInv, TypeOK, NoForce, LANG_AUTO
<1>3. request' \in [ImportNos -> [uti : Utis \cup {""},
                                  byName : NameLanguages \cup {LANG_IGNORE}]]
      /\ request'[n'].uti \in Utis
  BY <1>1 DEF BeginImport, TypeInv, TypeOK
<1> QED
  BY <1>1, <1>2, <1>3 DEF BeginImport, TypeInv, TypeOK, Running

LEMMA PrepareType == ASSUME TypeInv, PrepareContext PROVE TypeInv'
<1>1. n \in ImportNos /\ request[n].uti \in Utis
  BY DEF TypeInv, Running, PrepareContext
<1>2. kindTable' \in [Letters -> KindCells]
  <2>1. kindTable \in [Letters -> KindCells]
    BY DEF TypeInv, TypeOK
  <2>2. CASE HasBuilder(request[n].uti)
    BY <1>1, <2>1, <2>2, FillTableType DEF PrepareContext
  <2>3. CASE ~HasBuilder(request[n].uti)
    BY <2>1, <2>3 DEF PrepareContext
  <2> QED
    BY <2>2, <2>3
<1>3. kindLists' \in [Kinds -> 0 .. MaxImports]
  BY <1>1 DEF PrepareContext, TypeInv, TypeOK, ImportNos
<1>4. heap' \in Heaps
  <2>1. [k \in Kinds |-> EmptyArray] \in [Kinds -> [rc : Nat, items : Seq(Tag)]]
    BY DEF EmptyArray
  <2>2. heap \in Heaps
    BY DEF TypeInv, TypeOK, Heaps
  <2> QED
    BY <2>1, <2>2, <1>1 DEF PrepareContext, Heaps
<1>5. parsing' \in Languages \cup {LANG_IGNORE}
  BY <1>1, ConstantsAssumption
     DEF ConstantsAssumption, PrepareContext, TypeInv, TypeOK
<1> QED
  BY <1>1, <1>2, <1>3, <1>4, <1>5
     DEF PrepareContext, TypeInv, TypeOK, Running, Heaps

LEMMA NotifyType ==
  ASSUME TypeInv, NEW l \in Letters, NEW v \in BOOLEAN,
         NotifySystemTagEntry(l, v)
  PROVE  TypeInv'
<1> DEFINE tag == [file |-> n, at |-> Len(tags[n]) + 1, letter |-> l, valid |-> v]
           k   == kindTable[l]
<1>1. n \in ImportNos /\ request[n].uti \in Utis
  BY DEF TypeInv, Running, NotifySystemTagEntry
<1>2. tag \in Tag
  <2>1. tags[n] \in Seq(Tag)
    BY <1>1 DEF TypeInv, TypeOK
  <2>2. Len(tags[n]) + 1 \in Nat
    BY <2>1
  <2> QED
    BY <1>1, <2>2 DEF Tag
<1>3. tags' \in [ImportNos -> Seq(Tag)]
  <2>1. tags' = tags \/ tags' = [tags EXCEPT ![n] = Append(@, tag)]
    BY DEF NotifySystemTagEntry
  <2>2. tags \in [ImportNos -> Seq(Tag)]
    BY DEF TypeInv, TypeOK
  <2>3. Append(tags[n], tag) \in Seq(Tag)
    BY <2>2, <1>1, <1>2
  <2> HIDE DEF tag
  <2> QED
    BY <2>1, <2>2, <2>3, <1>1
<1>4. heap' \in Heaps
  <2>1. heap \in Heaps
    BY DEF TypeInv, TypeOK, Heaps
  <2>2. CASE heap' = heap
    BY <2>1, <2>2
  <2>3. CASE k # kindUNVALID /\ Usable(k)
             /\ heap' = [heap EXCEPT ![kindLists[k]][k].items = Append(@, tag)]
    <3>1. k \in Kinds
      BY <2>3 DEF TypeInv, TypeOK, KindCells
    <3>2. kindLists[k] \in ImportNos
      <4>1. kindLists[k] \in 0 .. MaxImports
        BY <3>1 DEF TypeInv, TypeOK
      <4>2. kindLists[k] # 0
        BY <2>3 DEF Usable, NULL
      <4> QED
        BY <4>1, <4>2, MaxImportsType DEF ImportNos
    <3>3. heap[kindLists[k]][k] \in [rc : Nat, items : Seq(Tag)]
      BY <2>1, <3>1, <3>2 DEF Heaps
    <3>4. Append(heap[kindLists[k]][k].items, tag) \in Seq(Tag)
      BY <3>3, <1>2
    <3> HIDE DEF tag, k
    <3> QED
      BY <2>1, <2>3, <3>1, <3>2, <3>3, <3>4 DEF Heaps
  <2> QED
    BY <2>2, <2>3 DEF NotifySystemTagEntry
<1> QED
  BY <1>1, <1>3, <1>4 DEF NotifySystemTagEntry, TypeInv, TypeOK, Running, Heaps

LEMMA DumpType == ASSUME TypeInv, DumpContextInAttributes PROVE TypeInv'
<1> DEFINE filled == {k \in Kinds : Usable(k) /\ Array(k).items # << >>}
<1>1. n \in ImportNos /\ request[n].uti \in Utis
  BY DEF TypeInv, Running, DumpContextInAttributes
<1>2. heap \in Heaps
  BY DEF TypeInv, TypeOK, Heaps
<1>3. heap' \in Heaps
  <2>1. heap' = Retain(heap, filled, kindLists, 1)
    BY DEF DumpContextInAttributes
  <2> HIDE DEF filled
  <2> QED
    BY <2>1, <1>2, RetainType
<1>4. dicts' \in [ImportNos -> [Kinds -> 0 .. MaxImports]]
  <2>1. [k \in Kinds |-> IF k \in filled THEN kindLists[k] ELSE NULL]
          \in [Kinds -> 0 .. MaxImports]
    <3>1. kindLists \in [Kinds -> 0 .. MaxImports]
      BY DEF TypeInv, TypeOK
    <3>2. NULL \in 0 .. MaxImports
      BY MaxImportsType DEF NULL
    <3> HIDE DEF filled
    <3> QED
      BY <3>1, <3>2
  <2>2. dicts \in [ImportNos -> [Kinds -> 0 .. MaxImports]]
    BY DEF TypeInv, TypeOK
  <2> QED
    BY <2>1, <2>2, <1>1 DEF DumpContextInAttributes
<1> QED
  BY <1>1, <1>3, <1>4 DEF DumpContextInAttributes, TypeInv, TypeOK, Running, Heaps

LEMMA CleanupType == ASSUME TypeInv, CleanupContext PROVE TypeInv'
<1> DEFINE usable == {k \in Kinds : Usable(k)}
<1>1. heap \in Heaps
  BY DEF TypeInv, TypeOK, Heaps
<1>2. heap' = Retain(heap, usable, kindLists, -1)
  BY DEF CleanupContext
<1>3. ASSUME NEW m \in ImportNos, NEW k \in Kinds, k \in usable, kindLists[k] = m
      PROVE  heap[m][k].rc # 0
  BY <1>3, <1>1 DEF Usable, Array, Heaps
<1>4. heap' \in Heaps
  <2> HIDE DEF usable
  <2> QED
    BY <1>1, <1>2, <1>3, RetainType
<1> QED
  BY <1>4 DEF CleanupContext, TypeInv, TypeOK, Running, Heaps

LEMMA ReleaseType ==
  ASSUME TypeInv, NEW m \in ImportNos, HostRelease(m) PROVE TypeInv'
<1> DEFINE K    == {k \in Kinds : dicts[m][k] # NULL}
           gone == {k \in K : heap[dicts[m][k]][k].rc = 0}
<1>1. heap \in Heaps
  BY DEF TypeInv, TypeOK, Heaps
<1>2. CASE Crash
  BY <1>2 DEF Crash, TypeInv, TypeOK, Running
<1>3. CASE /\ heap' = Retain(heap, K \ gone, dicts[m], -1)
           /\ dicts' = [dicts EXCEPT ![m] = NoLists]
           /\ held' = held \ {m}
           /\ UNCHANGED << pc, n, request, language, parsing, kindTable,
                           kindLists, tags >>
  <2>1. ASSUME NEW o \in ImportNos, NEW k \in Kinds, k \in K \ gone,
               dicts[m][k] = o
        PROVE  heap[o][k].rc # 0
    BY <2>1
  <2>2. heap' \in Heaps
    <3> HIDE DEF K, gone
    <3> QED BY <1>1, <1>3, <2>1, RetainType
  <2>3. dicts' \in [ImportNos -> [Kinds -> 0 .. MaxImports]]
    <3>1. dicts \in [ImportNos -> [Kinds -> 0 .. MaxImports]]
      BY DEF TypeInv, TypeOK
    <3> QED
      BY <1>3, <3>1, FreshTypes
  <2> QED
    BY <1>3, <2>2, <2>3 DEF TypeInv, TypeOK, Running, Heaps
<1> QED
  BY <1>2, <1>3 DEF HostRelease

LEMMA RelaunchType == ASSUME TypeInv, Relaunch PROVE TypeInv'
BY FreshTypes DEF Relaunch, TypeInv, TypeOK, Running, Heaps

LEMMA NextType == TypeInv /\ [Next]_vars => TypeInv'
<1> SUFFICES ASSUME TypeInv, [Next]_vars PROVE TypeInv'
  OBVIOUS
<1>1. CASE \E u \in Utis, b \in NameLanguages, c \in ConfigLanguages :
              BeginImport(u, b, c)
  BY <1>1, BeginType
<1>2. CASE PrepareContext
  BY <1>2, PrepareType
<1>3. CASE DumpContextInAttributes
  BY <1>3, DumpType
<1>4. CASE CleanupContext
  BY <1>4, CleanupType
<1>5. CASE \E l \in Letters, v \in BOOLEAN : NotifySystemTagEntry(l, v)
  BY <1>5, NotifyType
<1>6. CASE ListFault
  BY <1>6 DEF ListFault, Crash, TypeInv, TypeOK, Running
<1>7. CASE \E m \in ImportNos : HostRelease(m)
  BY <1>7, ReleaseType
<1>8. CASE Relaunch
  BY <1>8, RelaunchType
<1>9. CASE UNCHANGED vars
  BY <1>9 DEF vars, TypeInv, TypeOK, Running
<1> QED
  BY <1>1, <1>2, <1>3, <1>4, <1>5, <1>6, <1>7, <1>8, <1>9 DEF Next

\* The variables of the importer keep their types, for every set of content
\* types, tables and option files, crashes and relaunches included.
THEOREM TypeCorrect == Spec => []TypeOK
<1>1. TypeInv => TypeOK
  BY DEF TypeInv
<1> QED
  BY InitType, NextType, <1>1, PTL DEF Spec

LEMMA TypeInvariant == Spec => []TypeInv
BY InitType, NextType, PTL DEF Spec

-------------------------------------------------------------------------------
(* The language an import parses *)

\* Once the options are read, Option.language is the forced language.
LanguageSet ==
  pc \in {"begun", "parsing", "dumped"} /\ request[n].uti \in Translated =>
    language = langForce[request[n].uti]
LanguageInv == TypeInv /\ LanguageSet /\ ForcedLanguageWins

LEMMA NextLanguage == LanguageInv /\ [Next]_vars => LanguageInv'
<1> SUFFICES ASSUME LanguageInv, [Next]_vars PROVE LanguageInv'
  OBVIOUS
<1>0. TypeInv'
  BY NextType DEF LanguageInv
<1> USE DEF LanguageInv, LanguageSet, ForcedLanguageWins, InImport
<1>1. ASSUME NEW u \in Utis, NEW b \in NameLanguages, NEW c \in ConfigLanguages,
             BeginImport(u, b, c)
      PROVE  LanguageInv'
  <2>1. request'[n'].uti = u /\ pc' = "begun"
    <3>1. n' \in ImportNos
      BY <1>0, <1>1 DEF TypeInv, Running, BeginImport
    <3> QED
      BY <3>1, <1>1 DEF BeginImport, TypeInv, TypeOK
  <2> QED
    BY <1>0, <1>1, <2>1 DEF BeginImport, ForcedLanguage
<1>2. CASE PrepareContext
  <2>1. request[n].uti \in Translated => langForce[request[n].uti] \in Nat
    BY ConstantsAssumption DEF ConstantsAssumption
  <2> QED
    BY <1>0, <1>2, <2>1 DEF PrepareContext, LANG_AUTO
<1>3. CASE DumpContextInAttributes
  BY <1>0, <1>3 DEF DumpContextInAttributes
<1>4. CASE CleanupContext
  BY <1>0, <1>4 DEF CleanupContext
<1>5. ASSUME NEW l \in Letters, NEW v \in BOOLEAN, NotifySystemTagEntry(l, v)
      PROVE  LanguageInv'
  <2>1. UNCHANGED << n, request, language, parsing >> /\ pc' \in {pc, "crashed"}
        /\ pc = "parsing"
    BY <1>5 DEF NotifySystemTagEntry
  <2> QED
    BY <1>0, <2>1
<1>6. CASE ListFault
  BY <1>0, <1>6 DEF ListFault, Crash
<1>7. ASSUME NEW m \in ImportNos, HostRelease(m) PROVE LanguageInv'
  <2>1. UNCHANGED << n, request, language, parsing >> /\ pc' \in {pc, "crashed"}
    BY <1>7 DEF HostRelease, Crash
  <2> QED
    BY <1>0, <2>1
<1>8. CASE Relaunch
  BY <1>0, <1>8 DEF Relaunch
<1>9. CASE UNCHANGED vars
  BY <1>0, <1>9 DEF vars
<1> QED
  BY <1>1, <1>2, <1>3, <1>4, <1>5, <1>6, <1>7, <1>8, <1>9 DEF Next

\* Whatever option files say and earlier imports left in Option.language, a
\* translated content type is parsed with the language it forces.
THEOREM ForcedLanguageCorrect == Spec => []ForcedLanguageWins
<1>1. Init => LanguageInv
  BY InitType DEF Init, LanguageInv, LanguageSet, ForcedLanguageWins, InImport
<1>2. LanguageInv => ForcedLanguageWins
  BY DEF LanguageInv
<1> QED
  BY <1>1, <1>2, NextLanguage, PTL DEF Spec

-------------------------------------------------------------------------------
(* Arrays and their owners, when every content type has a kind table       *)

AllTabled == \A u \in Utis : HasBuilder(u)

\* All that a step needs: the import about to be prepared has a table.
CurrentTabled == pc = "begun" => HasBuilder(request[n].uti)

\* RetainCounts is not inductive alone: the count of an array can only be
\* followed if the dictionary of the import that runs is still empty
\* (EmptyUntilDumped), entries stay within their import (OwnEntries) and the
\* arrays in ctxt are those of the running import (OwnArrays).
Ownership == OwnArrays /\ OwnEntries /\ EmptyUntilDumped /\ RetainCounts
SafetyInv == TypeInv /\ NeverCrashes /\ Ownership

LEMMA InitSafety == Init => SafetyInv
<1> SUFFICES ASSUME Init PROVE SafetyInv
  OBVIOUS
<1>1. TypeInv
  BY InitType
<1>2. pc = "idle" /\ heap = FreshHeap /\ dicts = NoDictionaries
  BY DEF Init
<1>3. RetainCounts
  BY <1>2 DEF RetainCounts, Owners, InImport, FreshHeap, NoDictionaries,
              NoLists, NoArray, NULL, ImportNos
<1> QED
  BY <1>1, <1>2, <1>3
     DEF SafetyInv, Ownership, NeverCrashes, OwnArrays, OwnEntries, EmptyUntilDumped,
         InImport, NoDictionaries, NoLists

LEMMA BeginSafety ==
  ASSUME SafetyInv, TypeInv', NEW u \in Utis, NEW b \in NameLanguages,
         NEW c \in ConfigLanguages, BeginImport(u, b, c)
  PROVE  SafetyInv'
<1>1. /\ pc = "idle" /\ pc' = "begun" /\ n' = n + 1
      /\ UNCHANGED << kindLists, heap, dicts >>
  BY DEF BeginImport
<1>2. n \in Nat
  <2>1. n \in 0 .. MaxImports
    BY DEF SafetyInv, TypeInv, TypeOK
  <2> QED
    BY <2>1, MaxImportsType
<1>3. EmptyUntilDumped'
  BY <1>1, <1>2 DEF SafetyInv, Ownership, EmptyUntilDumped, ImportNos
<1> QED
  BY <1>1, <1>3
     DEF SafetyInv, Ownership, NeverCrashes, OwnArrays, OwnEntries, RetainCounts,
         Owners, InImport

LEMMA PrepareSafety ==
  ASSUME CurrentTabled, SafetyInv, TypeInv', PrepareContext
  PROVE  SafetyInv'
<1>1. n \in ImportNos /\ HasBuilder(request[n].uti)
  BY DEF CurrentTabled, SafetyInv, TypeInv, Running, PrepareContext
<1>2. /\ pc = "begun" /\ pc' = "parsing"
      /\ kindLists' = [k \in Kinds |-> n]
      /\ heap' = [heap EXCEPT ![n] = [k \in Kinds |-> EmptyArray]]
      /\ UNCHANGED << n, dicts >>
  BY <1>1 DEF PrepareContext
<1>3. heap \in Heaps
  BY DEF SafetyInv, TypeInv, TypeOK, Heaps
<1>4. n # NULL
  BY <1>1 DEF ImportNos, NULL
<1>5. OwnArrays'
  BY <1>1, <1>2, <1>3 DEF OwnArrays, Array, EmptyArray, Heaps
<1>6. EmptyUntilDumped' /\ OwnEntries'
  BY <1>2 DEF SafetyInv, Ownership, EmptyUntilDumped, OwnEntries
<1>7. RetainCounts'
  <2> SUFFICES ASSUME NEW m \in ImportNos, NEW k \in Kinds
               PROVE  heap'[m][k].rc = Owners(m, k)'
    BY DEF RetainCounts
  <2>1. heap[m][k].rc = IF dicts[m][k] = m THEN 1 ELSE 0
    BY <1>2 DEF SafetyInv, Ownership, RetainCounts, Owners, InImport
  <2>2. CASE m = n
    <3>1. dicts[m][k] = NULL
      BY <1>2, <2>2 DEF SafetyInv, Ownership, EmptyUntilDumped
    <3>2. heap'[m][k].rc = 1
      BY <1>1, <1>2, <1>3, <2>2 DEF EmptyArray, Heaps
    <3> QED
      BY <1>2, <1>4, <2>2, <3>1, <3>2 DEF Owners, InImport
  <2>3. CASE m # n
    <3>1. heap'[m][k] = heap[m][k]
      BY <1>2, <1>3, <2>3 DEF Heaps
    <3> QED
      BY <1>2, <2>1, <2>3, <3>1 DEF Owners, InImport
  <2> QED
    BY <2>2, <2>3
<1> QED
  BY <1>2, <1>5, <1>6, <1>7 DEF SafetyInv, Ownership, NeverCrashes

\* Under the invariant every array in ctxt is usable while an import runs.
LEMMA ListsUsable ==
  ASSUME SafetyInv, InImport, NEW k \in Kinds
  PROVE  Usable(k) /\ kindLists[k] = n /\ n \in ImportNos
<1>1. n \in ImportNos
  BY DEF SafetyInv, TypeInv, Running, InImport
<1>2. kindLists[k] = n /\ Array(k).rc > 0
  BY DEF SafetyInv, Ownership, OwnArrays
<1> QED
  BY <1>1, <1>2 DEF Usable, NULL, ImportNos

LEMMA NotifySafety ==
  ASSUME SafetyInv, TypeInv', NEW l \in Letters, NEW v \in BOOLEAN,
         NotifySystemTagEntry(l, v)
  PROVE  SafetyInv'
<1> DEFINE k   == kindTable[l]
           tag == [file |-> n, at |-> Len(tags[n]) + 1, letter |-> l, valid |-> v]
<1>1. pc = "parsing" /\ UNCHANGED << n, kindLists, dicts >>
  BY DEF NotifySystemTagEntry
<1>2. k \in KindCells
  BY DEF SafetyInv, TypeInv, TypeOK
<1>3. k # kindUNVALID => Usable(k)
  BY <1>1, <1>2, ListsUsable DEF KindCells, InImport
<1>4. pc' = "parsing"
  BY <1>1, <1>3 DEF NotifySystemTagEntry
<1>5. heap \in Heaps
  BY DEF SafetyInv, TypeInv, TypeOK, Heaps
<1>6. \A m \in ImportNos, j \in Kinds : heap'[m][j].rc = heap[m][j].rc
  <2>1. \/ heap' = heap
        \/ heap' = [heap EXCEPT ![kindLists[k]][k].items = Append(@, tag)]
    BY DEF NotifySystemTagEntry
  <2> HIDE DEF k, tag
  <2> SUFFICES ASSUME NEW m \in ImportNos, NEW j \in Kinds
               PROVE  heap'[m][j].rc = heap[m][j].rc
    OBVIOUS
  <2>2. CASE heap' = heap
    BY <2>2
  <2>3. CASE heap' = [heap EXCEPT ![kindLists[k]][k].items = Append(@, tag)]
    <3>1. heap[m] \in [Kinds -> [rc : Nat, items : Seq(Tag)]]
      BY <1>5 DEF Heaps
    <3>2. CASE m = kindLists[k] /\ j = k
      <4>1. heap'[m][j] = [heap[m][j] EXCEPT !.items = Append(@, tag)]
        BY <1>5, <2>3, <3>1, <3>2 DEF Heaps
      <4> QED
        BY <3>1, <4>1
    <3>3. CASE ~(m = kindLists[k] /\ j = k)
      <4>1. heap'[m][j] = heap[m][j]
        BY <1>5, <2>3, <3>1, <3>3 DEF Heaps
      <4> QED
        BY <4>1
    <3> QED
      BY <3>2, <3>3
  <2> QED
    BY <2>1, <2>2, <2>3
<1>7. OwnArrays'
  <2> SUFFICES ASSUME NEW j \in Kinds
               PROVE  kindLists'[j] = n' /\ heap'[kindLists'[j]][j].rc > 0
    BY DEF OwnArrays, Array
  <2>1. Usable(j) /\ kindLists[j] = n /\ n \in ImportNos
    BY <1>1, ListsUsable DEF InImport
  <2> QED
    BY <2>1, <1>1, <1>6 DEF Usable, Array
<1>8. RetainCounts'
  BY <1>1, <1>4, <1>6 DEF SafetyInv, Ownership, RetainCounts, Owners, InImport
<1> QED
  BY <1>1, <1>4, <1>7, <1>8
     DEF SafetyInv, Ownership, NeverCrashes, OwnEntries, EmptyUntilDumped

LEMMA DumpSafety ==
  ASSUME SafetyInv, TypeInv', DumpContextInAttributes
  PROVE  SafetyInv'
<1> DEFINE filled == {k \in Kinds : Usable(k) /\ Array(k).items # << >>}
<1>1. /\ pc = "parsing" /\ pc' = "dumped" /\ UNCHANGED << n, kindLists >>
      /\ heap' = Retain(heap, filled, kindLists, 1)
      /\ dicts' = [dicts EXCEPT ![n] =
                     [k \in Kinds |-> IF k \in filled THEN kindLists[k] ELSE NULL]]
  BY DEF DumpContextInAttributes
<1>2. InImport
  BY <1>1 DEF InImport
<1>3. heap \in Heaps /\ n \in ImportNos
      /\ dicts \in [ImportNos -> [Kinds -> 0 .. MaxImports]]
  BY <1>1 DEF SafetyInv, TypeInv, TypeOK, Running, Heaps
<1> HIDE DEF filled
<1>4. ASSUME NEW m \in ImportNos, NEW k \in Kinds
      PROVE  /\ heap'[m][k].rc =
                  heap[m][k].rc + (IF k \in filled /\ kindLists[k] = m THEN 1 ELSE 0)
             /\ dicts'[m][k] = IF m = n THEN IF k \in filled THEN n ELSE NULL
                               ELSE dicts[m][k]
             /\ kindLists[k] = n
             /\ heap[m][k].rc \in Nat
  <2>1. kindLists[k] = n
    BY <1>2, ListsUsable
  <2>2. heap[m][k].rc \in Nat
    BY <1>3 DEF Heaps
  <2>3. heap'[m][k].rc =
          heap[m][k].rc + (IF k \in filled /\ kindLists[k] = m THEN 1 ELSE 0)
    BY <1>1, <1>3, RetainValue
  <2> QED
    BY <2>1, <2>2, <2>3, <1>1, <1>3
<1>5. OwnArrays'
  <2> SUFFICES ASSUME NEW j \in Kinds
               PROVE  kindLists'[j] = n' /\ heap'[kindLists'[j]][j].rc > 0
    BY DEF OwnArrays, Array
  <2>1. heap[n][j].rc > 0
    BY <1>2, ListsUsable DEF Usable, Array
  <2> QED
    BY <2>1, <1>1, <1>3, <1>4
<1>6. OwnEntries' /\ EmptyUntilDumped'
  <2> SUFFICES ASSUME NEW m \in ImportNos, NEW k \in Kinds
               PROVE  /\ dicts'[m][k] \in {NULL, m}
                      /\ m > n => dicts'[m][k] = NULL
    BY <1>1 DEF OwnEntries, EmptyUntilDumped
  <2>1. dicts[m][k] \in {NULL, m} /\ (m > n => dicts[m][k] = NULL)
    BY DEF SafetyInv, Ownership, OwnEntries, EmptyUntilDumped
  <2>2. m = n => ~(m > n)
    BY DEF ImportNos
  <2> QED
    BY <1>4, <2>1, <2>2
<1>7. RetainCounts'
  <2> SUFFICES ASSUME NEW m \in ImportNos, NEW k \in Kinds
               PROVE  heap'[m][k].rc = Owners(m, k)'
    BY DEF RetainCounts
  <2>1. heap[m][k].rc = (IF n = m THEN 1 ELSE 0) + (IF dicts[m][k] = m THEN 1 ELSE 0)
    BY <1>2, <1>4 DEF SafetyInv, Ownership, RetainCounts, Owners
  <2>2. m = n => dicts[m][k] = NULL
    BY <1>1 DEF SafetyInv, Ownership, EmptyUntilDumped
  <2>3. m # NULL
    BY DEF ImportNos, NULL
  <2>4. Owners(m, k)' = (IF n = m THEN 1 ELSE 0) + (IF dicts'[m][k] = m THEN 1 ELSE 0)
    BY <1>1, <1>4 DEF Owners, InImport
  <2> QED
    BY <2>1, <2>2, <2>3, <2>4, <1>4
<1> QED
  BY <1>1, <1>5, <1>6, <1>7 DEF SafetyInv, Ownership, NeverCrashes

LEMMA CleanupSafety ==
  ASSUME SafetyInv, TypeInv', CleanupContext
  PROVE  SafetyInv'
<1> DEFINE usable == {k \in Kinds : Usable(k)}
<1>1. /\ pc = "dumped" /\ pc' = "idle" /\ UNCHANGED << n, kindLists, dicts >>
      /\ heap' = Retain(heap, usable, kindLists, -1)
  BY DEF CleanupContext
<1>2. InImport
  BY <1>1 DEF InImport
<1>3. heap \in Heaps
  BY DEF SafetyInv, TypeInv, TypeOK, Heaps
<1>4. \A k \in Kinds : k \in usable /\ kindLists[k] = n
  BY <1>2, ListsUsable
<1> HIDE DEF usable
<1>5. RetainCounts'
  <2> SUFFICES ASSUME NEW m \in ImportNos, NEW k \in Kinds
               PROVE  heap'[m][k].rc = Owners(m, k)'
    BY DEF RetainCounts
  <2>1. heap'[m][k].rc = heap[m][k].rc + (IF n = m THEN -1 ELSE 0)
    BY <1>1, <1>3, <1>4, RetainValue
  <2>2. heap[m][k].rc = (IF n = m THEN 1 ELSE 0) + (IF dicts[m][k] = m THEN 1 ELSE 0)
    BY <1>2, <1>4 DEF SafetyInv, Ownership, RetainCounts, Owners
  <2>3. Owners(m, k)' = IF dicts[m][k] = m THEN 1 ELSE 0
    BY <1>1 DEF Owners, InImport
  <2> QED
    BY <2>1, <2>2, <2>3
<1> QED
  BY <1>1, <1>5
     DEF SafetyInv, Ownership, NeverCrashes, OwnArrays, OwnEntries,
         EmptyUntilDumped, InImport

LEMMA ReleaseSafety ==
  ASSUME SafetyInv, TypeInv', NEW m \in ImportNos, HostRelease(m)
  PROVE  SafetyInv'
<1> DEFINE K    == {k \in Kinds : dicts[m][k] # NULL}
           gone == {k \in K : heap[dicts[m][k]][k].rc = 0}
<1>1. heap \in Heaps /\ dicts \in [ImportNos -> [Kinds -> 0 .. MaxImports]]
  BY DEF SafetyInv, TypeInv, TypeOK, Heaps
<1>2. \A k \in K : dicts[m][k] = m /\ heap[m][k].rc > 0
  <2> SUFFICES ASSUME NEW k \in Kinds, dicts[m][k] # NULL
               PROVE  dicts[m][k] = m /\ heap[m][k].rc > 0
    OBVIOUS
  <2>1. dicts[m][k] = m
    BY DEF SafetyInv, Ownership, OwnEntries
  <2>2. heap[m][k].rc = Owners(m, k) /\ Owners(m, k) \in {1, 2}
    BY <2>1 DEF SafetyInv, Ownership, RetainCounts, Owners
  <2> QED
    BY <2>1, <2>2
<1>3. gone = {}
  BY <1>2
<1>4. /\ heap' = Retain(heap, K, dicts[m], -1)
      /\ dicts' = [dicts EXCEPT ![m] = NoLists]
      /\ UNCHANGED << pc, n, kindLists >>
      /\ m # n \/ pc = "idle"
  <2>1. K \ gone = K
    BY <1>3
  <2> QED
    BY <1>3, <2>1 DEF HostRelease
<1>5. ASSUME NEW o \in ImportNos, NEW k \in Kinds
      PROVE  /\ heap'[o][k].rc =
                  heap[o][k].rc + (IF k \in K /\ dicts[m][k] = o THEN -1 ELSE 0)
             /\ heap[o][k].rc \in Nat
             /\ dicts'[o][k] = IF o = m THEN NULL ELSE dicts[o][k]
  <2>1. heap[o][k].rc \in Nat
    BY <1>1 DEF Heaps
  <2>2. dicts'[o][k] = IF o = m THEN NULL ELSE dicts[o][k]
    BY <1>1, <1>4 DEF NoLists
  <2> HIDE DEF K
  <2> QED
    BY <1>1, <1>4, <2>1, <2>2, RetainValue
<1>6. OwnEntries' /\ EmptyUntilDumped'
  <2>1. \A o \in ImportNos, k \in Kinds : dicts'[o][k] \in {NULL, dicts[o][k]}
    BY <1>5
  <2>2. OwnEntries'
    BY <2>1 DEF SafetyInv, Ownership, OwnEntries
  <2>3. EmptyUntilDumped'
    BY <1>4, <2>1 DEF SafetyInv, Ownership, EmptyUntilDumped
  <2> QED
    BY <2>2, <2>3
<1>7. RetainCounts'
  <2> SUFFICES ASSUME NEW o \in ImportNos, NEW k \in Kinds
               PROVE  heap'[o][k].rc = Owners(o, k)'
    BY DEF RetainCounts
  <2>0. o # NULL /\ m # NULL
    BY DEF ImportNos, NULL
  <2>1. heap[o][k].rc = Owners(o, k)
    BY DEF SafetyInv, Ownership, RetainCounts
  <2>2. CASE o = m
    <3>1. k \in K <=> dicts[m][k] = m
      BY <1>2, <2>0
    <3> HIDE DEF K
    <3> QED
      BY <1>4, <1>5, <2>0, <2>1, <2>2, <3>1 DEF Owners, InImport
  <2>3. CASE o # m
    <3>1. ~(k \in K /\ dicts[m][k] = o)
      BY <1>2, <2>3
    <3> HIDE DEF K
    <3> QED
      BY <1>4, <1>5, <2>1, <2>3, <3>1 DEF Owners, InImport
  <2> QED
    BY <2>2, <2>3
<1>8. OwnArrays'
  <2> SUFFICES ASSUME InImport', NEW j \in Kinds
               PROVE  kindLists'[j] = n' /\ heap'[kindLists'[j]][j].rc > 0
    BY DEF OwnArrays, Array
  <2>1. InImport /\ m # n
    BY <1>4 DEF InImport
  <2>2. Usable(j) /\ kindLists[j] = n /\ n \in ImportNos
    BY <2>1, ListsUsable
  <2>3. ~(j \in K /\ dicts[m][j] = n)
    BY <1>2, <2>1
  <2> HIDE DEF K
  <2> QED
    BY <1>4, <1>5, <2>2, <2>3 DEF Usable, Array
<1> QED
  BY <1>4, <1>6, <1>7, <1>8 DEF SafetyInv, Ownership, NeverCrashes

LEMMA NextSafety == CurrentTabled /\ SafetyInv /\ [Next]_vars => SafetyInv'
<1> SUFFICES ASSUME CurrentTabled, SafetyInv, [Next]_vars PROVE SafetyInv'
  OBVIOUS
<1>0. TypeInv'
  BY NextType DEF SafetyInv
<1>1. CASE \E u \in Utis, b \in NameLanguages, c \in ConfigLanguages :
              BeginImport(u, b, c)
  BY <1>0, <1>1, BeginSafety
<1>2. CASE PrepareContext
  BY <1>0, <1>2, PrepareSafety
<1>3. CASE DumpContextInAttributes
  BY <1>0, <1>3, DumpSafety
<1>4. CASE CleanupContext
  BY <1>0, <1>4, CleanupSafety
<1>5. CASE \E l \in Letters, v \in BOOLEAN : NotifySystemTagEntry(l, v)
  BY <1>0, <1>5, NotifySafety
<1>6. CASE ListFault
  BY <1>6, ListsUsable DEF ListFault, InImport
<1>7. CASE \E m \in ImportNos : HostRelease(m)
  BY <1>0, <1>7, ReleaseSafety
<1>8. CASE Relaunch
  BY <1>8 DEF Relaunch, SafetyInv, NeverCrashes
<1>9. CASE UNCHANGED vars
  BY <1>0, <1>9
     DEF vars, SafetyInv, Ownership, NeverCrashes, OwnArrays, OwnEntries,
         EmptyUntilDumped, RetainCounts, Owners, InImport, Array
<1> QED
  BY <1>1, <1>2, <1>3, <1>4, <1>5, <1>6, <1>7, <1>8, <1>9 DEF Next

LEMMA SafetyInvariant == ASSUME AllTabled PROVE Spec => []SafetyInv
<1>1. Init => SafetyInv
  BY InitSafety
<1>2. SafetyInv => CurrentTabled
  BY DEF SafetyInv, TypeInv, Running, AllTabled, CurrentTabled
<1>3. SafetyInv /\ [Next]_vars => SafetyInv'
  BY <1>2, NextSafety
<1> QED
  BY <1>1, <1>3, PTL DEF Spec

\* With a kind table for every content type, no sequence of imports, tags
\* and releases makes the worker touch an array that is gone.
THEOREM TabledNeverCrashes == ASSUME AllTabled PROVE Spec => []NeverCrashes
<1>1. SafetyInv => NeverCrashes
  BY DEF SafetyInv
<1> QED
  BY <1>1, SafetyInvariant, PTL

\* ... and every array is retained exactly by those that own it.
THEOREM TabledRetainCounts == ASSUME AllTabled PROVE Spec => []RetainCounts
<1>1. SafetyInv => RetainCounts
  BY DEF SafetyInv, Ownership
<1> QED
  BY <1>1, SafetyInvariant, PTL
-------------------------------------------------------------------------------
(* Crashes, whatever the content types                                     *)

TabledSoFar == \A m \in 1 .. n : HasBuilder(request[m].uti)

\* Until the first import without a table nothing can go wrong, and what an
\* import without one has left is never forgotten: the history of requests
\* outlives the process.
CrashInv == TypeInv /\ (TabledSoFar => SafetyInv)

LEMMA TabledBefore == TypeInv /\ [Next]_vars /\ TabledSoFar' => TabledSoFar
<1> SUFFICES ASSUME TypeInv, [Next]_vars, TabledSoFar', NEW m \in 1 .. n
             PROVE  HasBuilder(request[m].uti)
  BY DEF TabledSoFar
<1>1. n \in Nat /\ m \in ImportNos
  <2>1. n \in 0 .. MaxImports
    BY DEF TypeInv, TypeOK
  <2> QED
    BY <2>1, MaxImportsType DEF ImportNos
<1>2. m \in 1 .. n' /\ request'[m] = request[m]
  <2>1. CASE \E u \in Utis, b \in NameLanguages, c \in ConfigLanguages :
               BeginImport(u, b, c)
    <3>1. n' = n + 1
      BY <2>1 DEF BeginImport
    <3>2. \A i \in ImportNos : i # n' => request'[i] = request[i]
      BY <2>1 DEF BeginImport, TypeInv, TypeOK
    <3> QED
      BY <1>1, <3>1, <3>2
  <2>2. CASE UNCHANGED << n, request >>
    BY <2>2
  <2>3. \/ \E u \in Utis, b \in NameLanguages, c \in ConfigLanguages :
               BeginImport(u, b, c)
        \/ UNCHANGED << n, request >>
    BY DEF Next, PrepareContext, DumpContextInAttributes, CleanupContext,
           NotifySystemTagEntry, ListFault, Crash, HostRelease, Relaunch, vars
  <2> QED
    BY <2>1, <2>2, <2>3
<1> QED
  BY <1>2 DEF TabledSoFar, HasBuilder

\* Whatever content types come, in whatever order, and however often the worker
\* is started again: it crashes only after an import without a kind table.
THEOREM OnlyUntabledCrash == Spec => []CrashesOnlyUntabled
<1>1. Init => CrashInv
  BY InitSafety DEF CrashInv, SafetyInv
<1>2. CrashInv /\ [Next]_vars => CrashInv'
  <2> SUFFICES ASSUME CrashInv, [Next]_vars PROVE CrashInv'
    OBVIOUS
  <2>1. TypeInv /\ TypeInv'
    BY NextType DEF CrashInv
  <2>2. ASSUME TabledSoFar' PROVE SafetyInv'
    <3>1. TabledSoFar /\ SafetyInv
      BY <2>1, <2>2, TabledBefore DEF CrashInv
    <3>2. CurrentTabled
      <4> SUFFICES ASSUME pc = "begun" PROVE HasBuilder(request[n].uti)
        BY DEF CurrentTabled
      <4>1. n \in 1 .. n
        BY <2>1, MaxImportsType DEF TypeInv, Running, ImportNos
      <4> QED
        BY <3>1, <4>1 DEF TabledSoFar
    <3> QED
      BY <3>1, <3>2, NextSafety
  <2> QED
    BY <2>1, <2>2 DEF CrashInv
<1>3. CrashInv => CrashesOnlyUntabled
  BY DEF CrashInv, TabledSoFar, SafetyInv, NeverCrashes, CrashesOnlyUntabled
<1> QED
  BY <1>1, <1>2, <1>3, PTL DEF Spec

-------------------------------------------------------------------------------
(* The importer as a SpotlightService                                      *)

\* What the host sees of an import, named part by part.
Status(m) ==
  IF m > n THEN "none"
  ELSE IF m = n /\ pc # "idle" THEN "asked"
  ELSE IF m \in held THEN "delivered" ELSE "released"

Shown(m, k) == IF dicts[m][k] = NULL THEN << >> ELSE heap[dicts[m][k]][k].items

Entry(m) ==
  [ status |-> Status(m),
    uti    |-> request[m].uti,
    tags   |-> IF Status(m) = "delivered" THEN tags[m] ELSE << >>,
    attrs  |-> [k \in Kinds |-> IF Status(m) = "delivered" THEN Shown(m, k) ELSE << >>] ]

LEMMA ViewIs ==
  /\ ServiceView = [m \in ImportNos |-> Entry(m)]
  /\ ServiceView' = [m \in ImportNos |-> Entry(m)']
BY DEF ServiceView, Entry, Status, Shown

\* A step that changes one entry.
LEMMA ViewChanges ==
  ASSUME NEW m \in ImportNos, NEW e, Entry(m)' = e,
         \A o \in ImportNos : o # m => Entry(o)' = Entry(o)
  PROVE  ServiceView' = [ServiceView EXCEPT ![m] = e] /\ ServiceView'[m] = e
                                                     /\ ServiceView[m] = Entry(m)
BY ViewIs

\* The refinement needs more than safety: only imports begun are held; an import
\* not begun has no content type and, until it parses, no tags; while it parses
\* the kind table agrees with that of its content type wherever this maps a
\* letter, and the arrays show what is due of the tags made so far; and what is
\* dumped is every array that is not empty.
HeldBegun == held \subseteq 1 .. n /\ (pc # "idle" => n \in held)
NotBegun ==
  /\ \A m \in ImportNos : m > n => request[m].uti = ""
  /\ \A m \in ImportNos : m > n \/ (m = n /\ pc = "begun") => tags[m] = << >>
TableInPlace ==
  pc = "parsing" =>
    \A l \in DOMAIN TableOf(request[n].uti) : kindTable[l] = TableOf(request[n].uti)[l]
ArraysDue ==
  InImport => \A k \in Kinds : Service!Lists(request[n].uti, tags[n], k, heap[n][k].items)
AllDumped ==
  pc = "dumped" =>
    \A k \in Kinds : dicts[n][k] = IF heap[n][k].items # << >> THEN n ELSE NULL
Showing == HeldBegun /\ NotBegun /\ TableInPlace /\ ArraysDue /\ AllDumped
ServiceInv == SafetyInv /\ Showing

LEMMA CountType == ASSUME TypeInv PROVE n \in Nat /\ n <= MaxImports
<1>1. n \in 0 .. MaxImports
  BY DEF TypeInv, TypeOK
<1> QED
  BY <1>1, MaxImportsType

LEMMA InitShowing == Init => Showing
<1> SUFFICES ASSUME Init PROVE Showing
  OBVIOUS
<1> QED
  BY DEF Init, Showing, HeldBegun, NotBegun, TableInPlace, ArraysDue, AllDumped, InImport

LEMMA NothingListed == ASSUME NEW uti, NEW k PROVE Service!Lists(uti, << >>, k, << >>)
<1> DEFINE place == [i \in DOMAIN << >> |-> i]
<1>1. place \in [DOMAIN << >> -> DOMAIN << >>]
  OBVIOUS
<1>2. DOMAIN << >> = {}
  OBVIOUS
<1> QED BY <1>1, <1>2 DEF Service!Lists

\* Whether a tag of a file of type uti is due to be shown by kind k.
DueTo(uti, t, k) == t.valid /\ TableOf(uti)[t.letter] = k

\* A tag that is mapped and not due changes no list ...
LEMMA ListKept ==
  ASSUME NEW uti, NEW ts \in Seq(Tag), NEW k, NEW list \in Seq(Tag), NEW t \in Tag,
         Service!Lists(uti, ts, k, list),
         Service!Mapped(uti, t) => ~ DueTo(uti, t, k)
  PROVE  Service!Lists(uti, Append(ts, t), k, list)
<1>1. PICK place \in [DOMAIN list -> DOMAIN ts] :
        /\ \A i \in DOMAIN list : list[i] = ts[place[i]]
        /\ \A i, j \in DOMAIN list : i < j => place[i] < place[j]
        /\ \A p \in DOMAIN ts : Service!Mapped(uti, ts[p]) =>
             ((\E i \in DOMAIN list : place[i] = p) <=> DueTo(uti, ts[p], k))
  BY DEF Service!Lists, DueTo
<1> DEFINE new == Append(ts, t)
<1>2. /\ DOMAIN ts = 1 .. Len(ts) /\ DOMAIN new = 1 .. Len(ts) + 1 /\ Len(ts) \in Nat
      /\ \A p \in DOMAIN ts : new[p] = ts[p]
      /\ new[Len(ts) + 1] = t
  OBVIOUS
<1>3. place \in [DOMAIN list -> DOMAIN new]
  BY <1>1, <1>2
<1>4. \A i \in DOMAIN list : list[i] = new[place[i]]
  BY <1>1, <1>2
<1>5. ASSUME NEW p \in DOMAIN new, Service!Mapped(uti, new[p])
      PROVE  (\E i \in DOMAIN list : place[i] = p) <=> DueTo(uti, new[p], k)
  <2>1. CASE p \in DOMAIN ts
    <3>1. new[p] = ts[p]
      BY <1>2, <2>1
    <3> QED
      BY <1>1, <1>5, <2>1, <3>1
  <2>2. CASE p = Len(ts) + 1
    <3>1. \A i \in DOMAIN list : place[i] # p
      BY <1>1, <1>2, <2>2
    <3>2. new[p] = t
      BY <1>2, <2>2
    <3> QED
      BY <1>5, <3>1, <3>2
  <2> QED
    BY <1>2, <2>1, <2>2
<1> HIDE DEF new
<1>6. Service!Lists(uti, new, k, list)
  BY <1>1, <1>3, <1>4, <1>5 DEF Service!Lists, DueTo
<1> QED
  BY <1>6 DEF new

\* ... and one that is added to a list is in its place there, if it is not mapped
\* elsewhere.
LEMMA ListGrown ==
  ASSUME NEW uti, NEW ts \in Seq(Tag), NEW k, NEW list \in Seq(Tag), NEW t \in Tag,
         Service!Lists(uti, ts, k, list),
         Service!Mapped(uti, t) => DueTo(uti, t, k)
  PROVE  Service!Lists(uti, Append(ts, t), k, Append(list, t))
<1>1. PICK place \in [DOMAIN list -> DOMAIN ts] :
        /\ \A i \in DOMAIN list : list[i] = ts[place[i]]
        /\ \A i, j \in DOMAIN list : i < j => place[i] < place[j]
        /\ \A p \in DOMAIN ts : Service!Mapped(uti, ts[p]) =>
             ((\E i \in DOMAIN list : place[i] = p) <=> DueTo(uti, ts[p], k))
  BY DEF Service!Lists, DueTo
<1> DEFINE new   == Append(ts, t)
           grown == Append(list, t)
           at    == [i \in DOMAIN grown |-> IF i \in DOMAIN list THEN place[i] ELSE Len(ts) + 1]
<1>2. /\ DOMAIN ts = 1 .. Len(ts) /\ DOMAIN new = 1 .. Len(ts) + 1 /\ Len(ts) \in Nat
      /\ \A p \in DOMAIN ts : new[p] = ts[p]
      /\ new[Len(ts) + 1] = t
  OBVIOUS
<1>3. /\ DOMAIN list = 1 .. Len(list) /\ DOMAIN grown = 1 .. Len(list) + 1 /\ Len(list) \in Nat
      /\ \A p \in DOMAIN list : grown[p] = list[p]
      /\ grown[Len(list) + 1] = t
  OBVIOUS
<1> HIDE DEF new, grown
<1>4. /\ at \in [DOMAIN grown -> DOMAIN new]
      /\ \A i \in DOMAIN list : at[i] = place[i] /\ place[i] \in DOMAIN ts
      /\ at[Len(list) + 1] = Len(ts) + 1
  BY <1>1, <1>2, <1>3
<1> HIDE DEF at
<1>5. \A i \in DOMAIN grown : grown[i] = new[at[i]]
  BY <1>1, <1>2, <1>3, <1>4
<1>6. \A i, j \in DOMAIN grown : i < j => at[i] < at[j]
  <2> SUFFICES ASSUME NEW i \in DOMAIN grown, NEW j \in DOMAIN grown, i < j
               PROVE  at[i] < at[j]
    OBVIOUS
  <2>1. i \in DOMAIN list
    BY <1>3
  <2>2. CASE j \in DOMAIN list
    BY <1>1, <1>4, <2>1, <2>2
  <2>3. CASE j = Len(list) + 1
    BY <1>2, <1>4, <2>1, <2>3
  <2> QED
    BY <1>3, <2>2, <2>3
<1>7. ASSUME NEW p \in DOMAIN new, Service!Mapped(uti, new[p])
      PROVE  (\E i \in DOMAIN grown : at[i] = p) <=> DueTo(uti, new[p], k)
  <2>1. CASE p \in DOMAIN ts
    <3>1. new[p] = ts[p]
      BY <1>2, <2>1
    <3>2. (\E i \in DOMAIN grown : at[i] = p) <=> (\E i \in DOMAIN list : place[i] = p)
      <4>1. p # Len(ts) + 1
        BY <1>2, <2>1
      <4>2. \A i \in DOMAIN grown : i \in DOMAIN list \/ i = Len(list) + 1
        BY <1>3
      <4>3. \A i \in DOMAIN list : i \in DOMAIN grown
        BY <1>3
      <4> QED
        BY <1>4, <4>1, <4>2, <4>3
    <3> QED
      BY <1>1, <1>7, <2>1, <3>1, <3>2
  <2>2. CASE p = Len(ts) + 1
    <3>1. Len(list) + 1 \in DOMAIN grown /\ at[Len(list) + 1] = p
      BY <1>3, <1>4, <2>2
    <3>2. new[p] = t
      BY <1>2, <2>2
    <3> QED
      BY <1>7, <3>1, <3>2
  <2> QED
    BY <1>2, <2>1, <2>2
<1>8. Service!Lists(uti, new, k, grown)
  BY <1>4, <1>5, <1>6, <1>7 DEF Service!Lists, DueTo
<1> QED
  BY <1>8 DEF new, grown

LEMMA BeginShowing ==
  ASSUME ServiceInv, NEW u \in Utis, NEW b \in NameLanguages, NEW c \in ConfigLanguages,
         BeginImport(u, b, c)
  PROVE  Showing'
<1>1. n \in Nat /\ n' = n + 1 /\ pc' = "begun" /\ held' = held \cup {n'} /\ tags' = tags
  BY CountType DEF BeginImport, ServiceInv, SafetyInv
<1>2. \A m \in ImportNos : m # n' => request'[m] = request[m]
  BY DEF BeginImport, ServiceInv, SafetyInv, TypeInv, TypeOK
<1>3. HeldBegun'
  BY <1>1 DEF ServiceInv, Showing, HeldBegun
<1>4. NotBegun'
  <2> SUFFICES ASSUME NEW m \in ImportNos
               PROVE  /\ m > n' => request'[m].uti = ""
                      /\ m > n' \/ m = n' => tags'[m] = << >>
    BY DEF NotBegun
  <2>1. (m > n' => m > n /\ m # n') /\ (m = n' => m > n)
    BY <1>1 DEF ImportNos
  <2> QED
    BY <1>1, <1>2, <2>1 DEF ServiceInv, Showing, NotBegun
<1> QED
  BY <1>1, <1>3, <1>4 DEF Showing, TableInPlace, ArraysDue, AllDumped, InImport

LEMMA PrepareShowing ==
  ASSUME AllTabled, ServiceInv, PrepareContext
  PROVE  Showing'
<1> DEFINE uti == request[n].uti
<1>1. n \in ImportNos /\ uti \in Utis /\ HasBuilder(uti)
  BY DEF ServiceInv, SafetyInv, TypeInv, Running, PrepareContext, AllTabled
<1>2. /\ pc = "begun" /\ pc' = "parsing"
      /\ kindTable' = FillTable(builders[LangId(uti)], kindTable)
      /\ heap' = [heap EXCEPT ![n] = [k \in Kinds |-> EmptyArray]]
      /\ UNCHANGED << n, request, held, tags >>
  BY <1>1 DEF PrepareContext
<1>3. HeldBegun' /\ NotBegun'
  BY <1>2 DEF ServiceInv, Showing, HeldBegun, NotBegun
<1>4. TableInPlace'
  <2>1. TableOf(uti) = builders[LangId(uti)] /\ DOMAIN TableOf(uti) \subseteq Letters
    BY <1>1, ConstantsAssumption DEF ConstantsAssumption, TableOf, LangId, HasBuilder
  <2>2. \A l \in DOMAIN TableOf(uti) : kindTable'[l] = TableOf(uti)[l]
    BY <1>2, <2>1, FillTableMaps
  <2> QED
    BY <1>2, <2>2 DEF TableInPlace, TableOf
<1>5. ArraysDue'
  <2>1. tags[n] = << >>
    BY <1>1, <1>2 DEF ServiceInv, Showing, NotBegun
  <2>2. \A k \in Kinds : heap'[n][k].items = << >>
    BY <1>1, <1>2 DEF EmptyArray, ServiceInv, SafetyInv, TypeInv, TypeOK
  <2>3. \A k \in Kinds : Service!Lists(uti, tags[n], k, heap'[n][k].items)
    BY <2>1, <2>2, NothingListed
  <2>4. uti = request'[n'].uti /\ tags[n] = tags'[n'] /\ heap'[n] = heap'[n']
    BY <1>2
  <2> HIDE DEF uti
  <2> QED
    BY <2>3, <2>4 DEF ArraysDue, Service!Lists, Service!Mapped, TableOf
<1> QED
  BY <1>2, <1>3, <1>4, <1>5 DEF Showing, AllDumped

LEMMA NotifyShowing ==
  ASSUME AllTabled, ServiceInv, SafetyInv', NEW l \in Letters, NEW v \in BOOLEAN,
         NotifySystemTagEntry(l, v)
  PROVE  Showing'
<1> DEFINE uti  == request[n].uti
           tag  == [file |-> n, at |-> Len(tags[n]) + 1, letter |-> l, valid |-> v]
           cell == kindTable[l]
<1>1. n \in ImportNos /\ uti \in Utis /\ HasBuilder(uti)
  BY DEF ServiceInv, SafetyInv, TypeInv, Running, NotifySystemTagEntry, AllTabled
<1>2. pc = "parsing" /\ UNCHANGED << n, request, kindTable, kindLists, dicts, held >>
  BY DEF NotifySystemTagEntry
<1>3. cell \in KindCells /\ (cell \in Kinds => Usable(cell) /\ kindLists[cell] = n)
  BY <1>2, ListsUsable DEF ServiceInv, SafetyInv, TypeInv, TypeOK, KindCells, InImport
<1>4. /\ pc' = "parsing"
      /\ tags' = [tags EXCEPT ![n] = Append(@, tag)]
      /\ \/ (cell = kindUNVALID \/ ~ v) /\ heap' = heap
         \/ /\ cell \in Kinds /\ v
            /\ heap' = [heap EXCEPT ![n][cell].items = Append(@, tag)]
  <2>1. pc' # "crashed"
    BY DEF SafetyInv, NeverCrashes
  <2>2. cell \in Kinds \/ cell = kindUNVALID
    BY <1>3 DEF KindCells
  <2> QED
    BY <1>2, <1>3, <2>1, <2>2 DEF NotifySystemTagEntry
<1>5. tags \in [ImportNos -> Seq(Tag)] /\ heap \in Heaps
  BY DEF ServiceInv, SafetyInv, TypeInv, TypeOK, Heaps
<1>6. tag \in Tag /\ tag.letter = l /\ tag.valid = v
  <2>1. Len(tags[n]) + 1 \in Nat
    BY <1>1, <1>5
  <2> QED
    BY <1>1, <2>1 DEF Tag
<1>7. ASSUME Service!Mapped(uti, tag)
      PROVE  cell = TableOf(uti)[l] /\ cell \in Kinds
  <2>1. l \in DOMAIN TableOf(uti) /\ TableOf(uti)[l] = cell
    BY <1>2, <1>6, <1>7 DEF Service!Mapped, ServiceInv, Showing, TableInPlace
  <2>2. TableOf(uti)[l] \in Kinds
    BY <1>1, <2>1, ConstantsAssumption DEF ConstantsAssumption, TableOf, HasBuilder
  <2> QED
    BY <2>1, <2>2
<1>8. HeldBegun' /\ NotBegun' /\ TableInPlace'
  <2>1. \A m \in ImportNos : m > n => tags'[m] = tags[m]
    <3>1. \A m \in ImportNos : m > n => m # n
      BY <1>1 DEF ImportNos
    <3> QED
      BY <1>4, <1>5, <3>1
  <2>2. TableInPlace'
    BY <1>2 DEF ServiceInv, Showing, TableInPlace, TableOf
  <2> QED
    BY <1>2, <1>4, <2>1, <2>2 DEF ServiceInv, Showing, HeldBegun, NotBegun
<1>9. ASSUME NEW k \in Kinds
      PROVE  Service!Lists(uti, tags'[n], k, heap'[n][k].items)
  <2>1. Service!Lists(uti, tags[n], k, heap[n][k].items)
    BY <1>2 DEF ServiceInv, Showing, ArraysDue, InImport
  <2>2. tags[n] \in Seq(Tag) /\ heap[n][k].items \in Seq(Tag)
    BY <1>1, <1>5 DEF Heaps
  <2>3. tags'[n] = Append(tags[n], tag)
    BY <1>1, <1>4, <1>5
  <2> HIDE DEF tag
  <2>4. CASE heap' = heap /\ (cell = kindUNVALID \/ ~ v)
    <3>1. Service!Mapped(uti, tag) => ~ DueTo(uti, tag, k)
      BY <1>6, <1>7, <2>4, ConstantsAssumption DEF ConstantsAssumption, DueTo
    <3> HIDE DEF uti
    <3> QED
      BY <1>6, <2>1, <2>2, <2>3, <2>4, <3>1, ListKept
  <2>5. CASE cell \in Kinds /\ v /\ heap' = [heap EXCEPT ![n][cell].items = Append(@, tag)]
    <3> HIDE DEF cell
    <3>1. CASE k = cell
      <4>1. heap'[n][k].items = Append(heap[n][k].items, tag)
        BY <1>1, <1>5, <2>5, <3>1 DEF Heaps
      <4>2. Service!Mapped(uti, tag) => DueTo(uti, tag, k)
        BY <1>6, <1>7, <2>5, <3>1 DEF DueTo
      <4> HIDE DEF uti
      <4> QED
        BY <1>6, <2>1, <2>2, <2>3, <4>1, <4>2, ListGrown
    <3>2. CASE k # cell
      <4>1. heap'[n][k].items = heap[n][k].items
        BY <1>1, <1>5, <2>5, <3>2 DEF Heaps
      <4>2. Service!Mapped(uti, tag) => ~ DueTo(uti, tag, k)
        BY <1>6, <1>7, <3>2 DEF DueTo
      <4> HIDE DEF uti
      <4> QED
        BY <1>6, <2>1, <2>2, <2>3, <4>1, <4>2, ListKept
    <3> QED
      BY <3>1, <3>2
  <2> QED
    BY <1>4, <2>4, <2>5
<1>10. ArraysDue'
  <2>1. uti = request'[n'].uti /\ n' = n
    BY <1>2
  <2> HIDE DEF uti
  <2> QED
    BY <1>9, <2>1 DEF ArraysDue, Service!Lists, Service!Mapped, TableOf
<1> QED
  BY <1>4, <1>8, <1>10 DEF Showing, AllDumped

LEMMA RetainItems ==
  ASSUME NEW h \in Heaps, NEW K, NEW lists, NEW d \in {-1, 1}
  PROVE  \A m \in ImportNos, k \in Kinds : Retain(h, K, lists, d)[m][k].items = h[m][k].items
BY RetainValue

\* What a step leaves that touches neither lists nor their contents.
LEMMA KeepsArrays ==
  ASSUME ServiceInv, n \in ImportNos, UNCHANGED << n, request, tags >>,
         InImport' => InImport,
         \A m \in ImportNos, k \in Kinds : heap'[m][k].items = heap[m][k].items
  PROVE  ArraysDue'
<1> SUFFICES ASSUME InImport', NEW k \in Kinds
             PROVE  Service!Lists(request[n].uti, tags[n], k, heap'[n][k].items)
  BY DEF ArraysDue, Service!Lists, Service!Mapped, TableOf
<1>1. heap'[n][k].items = heap[n][k].items
  OBVIOUS
<1>2. Service!Lists(request[n].uti, tags[n], k, heap[n][k].items)
  BY DEF ServiceInv, Showing, ArraysDue
<1> QED
  BY <1>1, <1>2

LEMMA DumpShowing ==
  ASSUME ServiceInv, DumpContextInAttributes
  PROVE  Showing'
<1> DEFINE filled == {k \in Kinds : Usable(k) /\ Array(k).items # << >>}
<1>1. /\ pc = "parsing" /\ pc' = "dumped" /\ UNCHANGED << n, request, held, tags, kindTable >>
      /\ heap' = Retain(heap, filled, kindLists, 1)
      /\ dicts' = [dicts EXCEPT ![n] =
                     [k \in Kinds |-> IF k \in filled THEN kindLists[k] ELSE NULL]]
  BY DEF DumpContextInAttributes
<1>2. InImport /\ InImport' /\ n \in ImportNos
  BY <1>1 DEF InImport, ServiceInv, SafetyInv, TypeInv, Running
<1>3. \A m \in ImportNos, k \in Kinds : heap'[m][k].items = heap[m][k].items
  <2>1. heap \in Heaps
    BY DEF ServiceInv, SafetyInv, TypeInv, TypeOK, Heaps
  <2> HIDE DEF filled
  <2> QED
    BY <1>1, <2>1, RetainItems
<1>4. ASSUME NEW k \in Kinds
      PROVE  dicts'[n][k] = IF heap'[n][k].items # << >> THEN n ELSE NULL
  <2>1. Usable(k) /\ kindLists[k] = n
    BY <1>2, ListsUsable DEF ServiceInv
  <2>2. k \in filled <=> heap[n][k].items # << >>
    BY <2>1 DEF Array
  <2>3. dicts \in [ImportNos -> [Kinds -> 0 .. MaxImports]]
    BY DEF ServiceInv, SafetyInv, TypeInv, TypeOK
  <2> HIDE DEF filled
  <2> QED
    BY <1>1, <1>2, <1>3, <2>1, <2>2, <2>3
<1> HIDE DEF filled
<1>5. ArraysDue'
  BY <1>1, <1>2, <1>3, KeepsArrays
<1> QED
  BY <1>1, <1>4, <1>5
     DEF ServiceInv, Showing, HeldBegun, NotBegun, TableInPlace, AllDumped

LEMMA CleanupShowing ==
  ASSUME ServiceInv, CleanupContext
  PROVE  Showing'
<1>1. pc = "dumped" /\ pc' = "idle" /\ UNCHANGED << n, request, held, tags >>
  BY DEF CleanupContext
<1> QED
  BY <1>1 DEF ServiceInv, Showing, HeldBegun, NotBegun, TableInPlace, ArraysDue, AllDumped,
              InImport

\* Releasing a dictionary that is whole: as HostRelease acts under the invariant.
LEMMA ReleaseActs ==
  ASSUME SafetyInv, SafetyInv', NEW m \in ImportNos, HostRelease(m)
  PROVE  /\ m \in held /\ (m # n \/ pc = "idle")
         /\ UNCHANGED << pc, n, request, language, parsing, kindTable, kindLists, tags >>
         /\ dicts' = [dicts EXCEPT ![m] = NoLists] /\ held' = held \ {m}
         /\ \A o \in ImportNos, k \in Kinds : heap'[o][k].items = heap[o][k].items
<1> DEFINE K    == {k \in Kinds : dicts[m][k] # NULL}
           gone == {k \in K : heap[dicts[m][k]][k].rc = 0}
<1>1. ~ Crash
  BY DEF Crash, SafetyInv, NeverCrashes
<1>2. heap \in Heaps
  BY DEF SafetyInv, TypeInv, TypeOK, Heaps
<1>3. heap' = Retain(heap, K \ gone, dicts[m], -1)
  BY <1>1 DEF HostRelease
<1>4. \A o \in ImportNos, k \in Kinds : heap'[o][k].items = heap[o][k].items
  <2> HIDE DEF K, gone
  <2> QED
    BY <1>2, <1>3, RetainItems
<1> QED
  BY <1>1, <1>4 DEF HostRelease

LEMMA ReleaseShowing ==
  ASSUME ServiceInv, SafetyInv', NEW m \in ImportNos, HostRelease(m)
  PROVE  Showing'
<1>1. /\ m # n \/ pc = "idle"
      /\ UNCHANGED << pc, n, request, kindTable, kindLists, tags >>
      /\ dicts' = [dicts EXCEPT ![m] = NoLists] /\ held' = held \ {m}
      /\ \A o \in ImportNos, k \in Kinds : heap'[o][k].items = heap[o][k].items
  BY ReleaseActs DEF ServiceInv
<1>2. CASE pc \in {"parsing", "dumped"}
  <2>1. n \in ImportNos
    BY <1>2 DEF ServiceInv, SafetyInv, TypeInv, Running
  <2>2. ArraysDue'
    BY <1>1, <2>1, KeepsArrays DEF InImport
  <2>3. AllDumped'
    <3>1. dicts'[n] = dicts[n]
      BY <1>1, <1>2, <2>1 DEF ServiceInv, SafetyInv, TypeInv, TypeOK
    <3> QED
      BY <1>1, <2>1, <3>1 DEF AllDumped, ServiceInv, Showing
  <2> QED
    BY <1>1, <2>2, <2>3
       DEF ServiceInv, Showing, HeldBegun, NotBegun, TableInPlace, TableOf
<1>3. CASE pc \notin {"parsing", "dumped"}
  BY <1>1, <1>3
     DEF ServiceInv, Showing, HeldBegun, NotBegun, TableInPlace, ArraysDue, AllDumped, InImport
<1> QED
  BY <1>2, <1>3

LEMMA StutterShowing == ASSUME ServiceInv, UNCHANGED vars PROVE Showing'
<1>1. UNCHANGED << pc, n, request, kindTable, heap, dicts, held, tags >>
  BY DEF vars
<1>2. ArraysDue'
  <2>1. CASE InImport
    <3>1. n \in ImportNos
      BY <2>1 DEF ServiceInv, SafetyInv, TypeInv, Running, InImport
    <3> QED
      BY <1>1, <2>1, <3>1, KeepsArrays
  <2>2. CASE ~ InImport
    BY <1>1, <2>2 DEF ArraysDue, InImport
  <2> QED
    BY <2>1, <2>2
<1> QED
  BY <1>1, <1>2
     DEF ServiceInv, Showing, HeldBegun, NotBegun, TableInPlace, AllDumped, TableOf

LEMMA NextService ==
  ASSUME AllTabled PROVE ServiceInv /\ [Next]_vars => ServiceInv'
<1> SUFFICES ASSUME ServiceInv, [Next]_vars PROVE ServiceInv'
  OBVIOUS
<1>0. SafetyInv'
  BY NextSafety DEF ServiceInv, SafetyInv, TypeInv, Running, AllTabled, CurrentTabled
<1>1. CASE \E u \in Utis, b \in NameLanguages, c \in ConfigLanguages :
              BeginImport(u, b, c)
  BY <1>0, <1>1, BeginShowing DEF ServiceInv
<1>2. CASE PrepareContext
  BY <1>0, <1>2, PrepareShowing DEF ServiceInv
<1>3. CASE DumpContextInAttributes
  BY <1>0, <1>3, DumpShowing DEF ServiceInv
<1>4. CASE CleanupContext
  BY <1>0, <1>4, CleanupShowing DEF ServiceInv
<1>5. CASE \E l \in Letters, v \in BOOLEAN : NotifySystemTagEntry(l, v)
  BY <1>0, <1>5, NotifyShowing DEF ServiceInv
<1>6. CASE ListFault
  BY <1>6, ListsUsable DEF ListFault, InImport, ServiceInv
<1>7. CASE \E m \in ImportNos : HostRelease(m)
  BY <1>0, <1>7, ReleaseShowing DEF ServiceInv
<1>8. CASE Relaunch
  BY <1>8 DEF Relaunch, ServiceInv, SafetyInv, NeverCrashes
<1>9. CASE UNCHANGED vars
  BY <1>0, <1>9, StutterShowing DEF ServiceInv
<1> QED
  BY <1>1, <1>2, <1>3, <1>4, <1>5, <1>6, <1>7, <1>8, <1>9 DEF Next

-------------------------------------------------------------------------------
(* Every step of the importer is a step of the service or none             *)

LEMMA InitView == Init => Service!Init
<1> SUFFICES ASSUME Init PROVE ServiceView = [m \in ImportNos |-> Service!NotAsked]
  BY DEF Service!Init
<1>1. ASSUME NEW m \in ImportNos PROVE Entry(m) = Service!NotAsked
  <2>1. n = 0 /\ m > 0 /\ request[m].uti = ""
    <3>1. n = 0 /\ request = [i \in ImportNos |-> [uti |-> "", byName |-> LANG_IGNORE]]
      BY DEF Init
    <3>2. m > 0
      BY DEF ImportNos
    <3> QED
      BY <3>1, <3>2
  <2>2. Status(m) = "none"
    BY <2>1 DEF Status
  <2> QED
    BY <2>1, <2>2 DEF Entry, Service!NotAsked
<1> QED
  BY <1>1, ViewIs

\* The parts of an import's entry that are shown do not change.
LEMMA EntryKept ==
  ASSUME NEW m, Status(m)' = Status(m), request'[m].uti = request[m].uti,
         Status(m) = "delivered" => /\ tags'[m] = tags[m]
                                   /\ \A k \in Kinds : Shown(m, k)' = Shown(m, k)
  PROVE  Entry(m)' = Entry(m)
<1>1. CASE Status(m) = "delivered"
  <2>1. [k \in Kinds |-> Shown(m, k)]' = [k \in Kinds |-> Shown(m, k)]
    BY <1>1
  <2> QED
    BY <1>1, <2>1 DEF Entry
<1>2. CASE Status(m) # "delivered"
  BY <1>2 DEF Entry
<1> QED BY <1>1, <1>2

\* An import's arrays are shown as they are in the heap.
LEMMA ShownKept ==
  ASSUME ServiceInv, NEW m \in ImportNos, dicts'[m] = dicts[m],
         \A k \in Kinds : heap'[m][k].items = heap[m][k].items
  PROVE  \A k \in Kinds : Shown(m, k)' = Shown(m, k)
<1> SUFFICES ASSUME NEW k \in Kinds PROVE Shown(m, k)' = Shown(m, k)
  OBVIOUS
<1>1. dicts[m][k] \in {NULL, m}
  BY DEF ServiceInv, SafetyInv, Ownership, OwnEntries
<1> QED
  BY <1>1 DEF Shown

\* A step that only works on the import that runs shows nothing.
LEMMA ViewKept ==
  ASSUME ServiceInv, UNCHANGED << n, request, held >>, pc # "idle", pc' # "idle",
         \A m \in ImportNos : m # n => /\ tags'[m] = tags[m] /\ dicts'[m] = dicts[m]
                                     /\ \A k \in Kinds : heap'[m][k].items = heap[m][k].items
  PROVE  UNCHANGED ServiceView
<1>1. ASSUME NEW m \in ImportNos PROVE Entry(m)' = Entry(m)
  <2>1. Status(m)' = Status(m) /\ (Status(m) = "delivered" => m # n)
    BY DEF Status
  <2>2. m # n => \A k \in Kinds : Shown(m, k)' = Shown(m, k)
    BY ShownKept
  <2> QED
    BY <2>1, <2>2, EntryKept
<1> QED
  BY <1>1, ViewIs

\* An import whose arrays are not shown has but a state and a content type.
LEMMA BareEntry ==
  ASSUME NEW u, NEW st
  PROVE  [ status |-> st, uti |-> u, tags |-> << >>, attrs |-> [k \in Kinds |-> << >>] ]
           = [Service!NotAsked EXCEPT !.status = st, !.uti = u]
<1> DEFINE bare == [k \in Kinds |-> << >>]
<1>1. Service!NotAsked = [status |-> "none", uti |-> "", tags |-> << >>, attrs |-> bare]
  BY DEF Service!NotAsked
<1> HIDE DEF bare
<1> DEFINE made == [ status |-> st, uti |-> u, tags |-> << >>, attrs |-> bare ]
           from == Service!NotAsked
           copied == [from EXCEPT !.status = st, !.uti = u]
<1>2. /\ made.status = copied.status /\ made.uti = copied.uti
      /\ made.tags = copied.tags /\ made.attrs = copied.attrs
  BY <1>1
<1>3. DOMAIN made = DOMAIN copied
  BY <1>1
<1>4. made = copied
  BY <1>1, <1>2, <1>3
<1> QED
  BY <1>4 DEF bare

LEMMA EntryBare ==
  ASSUME NEW m, Status(m)' # "delivered", NEW u, request'[m].uti = u,
         NEW st, Status(m)' = st
  PROVE  Entry(m)' = [Service!NotAsked EXCEPT !.status = st, !.uti = u]
<1>1. [k \in Kinds |-> IF Status(m) = "delivered" THEN Shown(m, k) ELSE << >>]'
        = [k \in Kinds |-> << >>]
  OBVIOUS
<1>2. Entry(m)' = [ status |-> st, uti |-> u, tags |-> << >>, attrs |-> [k \in Kinds |-> << >>] ]
  BY <1>1 DEF Entry
<1>3. [ status |-> st, uti |-> u, tags |-> << >>, attrs |-> [k \in Kinds |-> << >>] ]
        = [Service!NotAsked EXCEPT !.status = st, !.uti = u]
  BY BareEntry
<1> DEFINE then == Entry(m)'
           bare == [ status |-> st, uti |-> u, tags |-> << >>, attrs |-> [k \in Kinds |-> << >>] ]
           expected == [Service!NotAsked EXCEPT !.status = st, !.uti = u]
<1>4. then = bare /\ bare = expected
  BY <1>2, <1>3
<1> HIDE DEF then, bare, expected
<1>5. then = expected
  BY <1>4
<1> QED
  BY <1>5 DEF then, expected

LEMMA BeginAsks ==
  ASSUME ServiceInv, NEW u \in Utis, NEW b \in NameLanguages, NEW c \in ConfigLanguages,
         BeginImport(u, b, c)
  PROVE  Service!Next
<1>1. n \in Nat /\ n' = n + 1 /\ n' \in ImportNos
  <2>1. n \in Nat /\ n < MaxImports /\ n' = n + 1
    BY CountType DEF BeginImport, ServiceInv, SafetyInv
  <2> QED
    BY <2>1, MaxImportsType DEF ImportNos
<1>2. PICK new \in ImportNos : new = n'
  BY <1>1
<1>3. /\ new = n + 1 /\ pc = "idle" /\ pc' = "begun" /\ held' = held \cup {new}
      /\ UNCHANGED << tags, dicts, heap >>
      /\ request' = [request EXCEPT ![new] = [uti |-> u, byName |-> b]]
  BY <1>1, <1>2 DEF BeginImport
<1>4. \A m \in ImportNos :
        request'[m] = IF m = new THEN [uti |-> u, byName |-> b] ELSE request[m]
  BY <1>3 DEF ServiceInv, SafetyInv, TypeInv, TypeOK
<1>5. ASSUME NEW m \in ImportNos, m # new PROVE Entry(m)' = Entry(m)
  <2>1. Status(m)' = Status(m)
    <3>1. m > new <=> m > n
      BY <1>1, <1>3, <1>5 DEF ImportNos
    <3> QED
      BY <1>2, <1>3, <1>5, <3>1 DEF Status
  <2>2. \A k \in Kinds : Shown(m, k)' = Shown(m, k)
    BY <1>3, ShownKept
  <2> QED
    BY <1>3, <1>4, <1>5, <2>1, <2>2, EntryKept
<1> DEFINE entry == [Service!NotAsked EXCEPT !.status = "asked", !.uti = u]
<1>6. Entry(new)' = entry
  <2>1. Status(new)' = "asked"
    BY <1>1, <1>2, <1>3 DEF Status
  <2>2. request'[new].uti = u
    BY <1>4
  <2> QED
    BY <2>1, <2>2, EntryBare
<1>7. Entry(new).status = "none"
  BY <1>1, <1>3 DEF Entry, Status
<1>8. entry.status = "asked" /\ entry.uti = u
  BY DEF Service!NotAsked
<1> HIDE DEF entry
<1>9. /\ ServiceView' = [ServiceView EXCEPT ![new] = entry]
      /\ ServiceView'[new] = entry /\ ServiceView[new].status = "none"
  BY <1>5, <1>6, <1>7, ViewChanges
<1>10. Service!Ask(new)
  BY <1>8, <1>9 DEF Service!Ask, entry
<1> QED
  BY <1>10 DEF Service!Next

LEMMA CleanupDelivers ==
  ASSUME ServiceInv, CleanupContext
  PROVE  Service!Next
<1> DEFINE usable == {k \in Kinds : Usable(k)}
<1>1. /\ pc = "dumped" /\ pc' = "idle" /\ n \in ImportNos
      /\ UNCHANGED << n, request, held, tags, dicts >>
      /\ heap' = Retain(heap, usable, kindLists, -1)
  BY DEF CleanupContext, ServiceInv, SafetyInv, TypeInv, Running
<1>2. \A m \in ImportNos, k \in Kinds : heap'[m][k].items = heap[m][k].items
  <2>1. heap \in Heaps
    BY DEF ServiceInv, SafetyInv, TypeInv, TypeOK, Heaps
  <2> HIDE DEF usable
  <2> QED
    BY <1>1, <2>1, RetainItems
<1>3. PICK m \in ImportNos : m = n
  BY <1>1
<1>4. Status(m) = "asked" /\ Status(m)' = "delivered"
  <2>1. n \in held /\ ~ (n > n)
    BY <1>1 DEF ServiceInv, Showing, HeldBegun, ImportNos
  <2> QED
    BY <1>1, <1>3, <2>1 DEF Status
<1>5. ASSUME NEW o \in ImportNos, o # m PROVE Entry(o)' = Entry(o)
  <2>1. Status(o)' = Status(o)
    BY <1>1, <1>3, <1>5 DEF Status
  <2>2. \A k \in Kinds : Shown(o, k)' = Shown(o, k)
    BY <1>1, <1>2, ShownKept
  <2> QED
    BY <1>1, <1>5, <2>1, <2>2, EntryKept
<1> DEFINE attrs == [k \in Kinds |-> heap[m][k].items]
           entry == [ status |-> "delivered", uti |-> request[m].uti, tags |-> tags[m],
                      attrs |-> attrs ]
<1>6. Entry(m)' = entry
  <2>1. ASSUME NEW k \in Kinds PROVE Shown(m, k)' = heap[m][k].items
    <3>1. dicts[m][k] = IF heap[m][k].items # << >> THEN m ELSE NULL
      BY <1>1, <1>3 DEF ServiceInv, Showing, AllDumped
    <3>2. Shown(m, k)' = Shown(m, k)
      BY <1>1, <1>2, ShownKept
    <3>3. m # NULL
      BY DEF ImportNos, NULL
    <3> QED
      BY <3>1, <3>2, <3>3 DEF Shown
  <2>2. [k \in Kinds |-> Shown(m, k)]' = attrs
    BY <2>1
  <2> QED
    BY <1>1, <1>4, <2>2 DEF Entry
<1>7. Entry(m).status = "asked" /\ Entry(m).uti = request[m].uti
  BY <1>4 DEF Entry
<1>8. Service!Contract(request[m].uti, tags[m], attrs)
  <2>1. \A k \in Kinds : Service!Lists(request[m].uti, tags[m], k, heap[m][k].items)
    BY <1>1, <1>3 DEF ServiceInv, Showing, ArraysDue, InImport
  <2> QED
    BY <2>1 DEF Service!Contract
<1>9. /\ ServiceView' = [ServiceView EXCEPT ![m] = entry] /\ ServiceView'[m] = entry
      /\ ServiceView[m].status = "asked" /\ ServiceView[m].uti = request[m].uti
  <2> HIDE DEF entry
  <2> QED
    BY <1>5, <1>6, <1>7, ViewChanges
<1>10. entry.tags = tags[m] /\ entry.attrs = attrs
  OBVIOUS
<1>11. entry = [ status |-> "delivered", uti |-> ServiceView[m].uti,
                 tags |-> ServiceView'[m].tags, attrs |-> ServiceView'[m].attrs ]
  BY <1>9
<1> HIDE DEF entry, attrs
<1>12. ServiceView' = [ServiceView EXCEPT ![m] =
         [ status |-> "delivered", uti |-> @.uti, tags |-> ServiceView'[m].tags,
           attrs |-> ServiceView'[m].attrs ]]
  BY <1>9, <1>11
<1>13. Service!Contract(ServiceView[m].uti, ServiceView'[m].tags, ServiceView'[m].attrs)
  BY <1>8, <1>9, <1>10
<1>14. Service!Deliver(m)
  BY <1>9, <1>12, <1>13 DEF Service!Deliver
<1> QED
  BY <1>14 DEF Service!Next

LEMMA HostReleases ==
  ASSUME ServiceInv, SafetyInv', NEW m \in ImportNos, HostRelease(m)
  PROVE  Service!Next
<1>1. /\ m \in held /\ (m # n \/ pc = "idle")
      /\ UNCHANGED << pc, n, request, tags >>
      /\ dicts' = [dicts EXCEPT ![m] = NoLists] /\ held' = held \ {m}
      /\ \A o \in ImportNos, k \in Kinds : heap'[o][k].items = heap[o][k].items
  BY ReleaseActs DEF ServiceInv
<1>2. Status(m) = "delivered" /\ Status(m)' = "released"
  <2>1. ~ (m > n)
    BY <1>1, CountType DEF ServiceInv, SafetyInv, Showing, HeldBegun
  <2> QED
    BY <1>1, <2>1 DEF Status
<1>3. ASSUME NEW o \in ImportNos, o # m PROVE Entry(o)' = Entry(o)
  <2>1. Status(o)' = Status(o)
    BY <1>1, <1>3 DEF Status
  <2>2. dicts'[o] = dicts[o]
    BY <1>1, <1>3 DEF ServiceInv, SafetyInv, TypeInv, TypeOK
  <2>3. \A k \in Kinds : Shown(o, k)' = Shown(o, k)
    BY <1>1, <2>2, ShownKept
  <2> QED
    BY <1>1, <2>1, <2>3, EntryKept
<1> DEFINE entry == [Service!NotAsked EXCEPT !.status = "released", !.uti = request[m].uti]
<1>4. Entry(m)' = entry
  <2>1. request'[m].uti = request[m].uti /\ Status(m)' # "delivered"
    BY <1>1, <1>2
  <2>2. Entry(m)' = [Service!NotAsked EXCEPT !.status = "released", !.uti = request[m].uti]
    BY <1>2, <2>1, EntryBare
  <2> QED
    BY <2>2
<1>5. Entry(m).status = "delivered" /\ Entry(m).uti = request[m].uti
  BY <1>2 DEF Entry
<1> HIDE DEF entry
<1>6. /\ ServiceView' = [ServiceView EXCEPT ![m] = entry]
      /\ ServiceView[m].status = "delivered" /\ ServiceView[m].uti = request[m].uti
  BY <1>3, <1>4, <1>5, ViewChanges
<1>7. Service!Release(m)
  BY <1>6 DEF Service!Release, entry
<1> QED
  BY <1>7 DEF Service!Next

LEMMA NextView ==
  ASSUME AllTabled, ServiceInv, ServiceInv', [Next]_vars
  PROVE  [Service!Next]_ServiceView
<1>1. CASE \E u \in Utis, b \in NameLanguages, c \in ConfigLanguages :
              BeginImport(u, b, c)
  BY <1>1, BeginAsks
<1>2. CASE PrepareContext
  <2>1. /\ UNCHANGED << n, request, held, tags, dicts >> /\ pc = "begun" /\ pc' = "parsing"
        /\ \/ heap' = heap
           \/ heap' = [heap EXCEPT ![n] = [k \in Kinds |-> EmptyArray]]
    BY <1>2 DEF PrepareContext
  <2>2. \A m \in ImportNos : m # n => heap'[m] = heap[m]
    BY <2>1 DEF ServiceInv, SafetyInv, TypeInv, TypeOK
  <2> QED
    BY <2>1, <2>2, ViewKept
<1>3. CASE DumpContextInAttributes
  <2> DEFINE filled == {k \in Kinds : Usable(k) /\ Array(k).items # << >>}
  <2>1. /\ UNCHANGED << n, request, held, tags >> /\ pc = "parsing" /\ pc' = "dumped"
        /\ heap' = Retain(heap, filled, kindLists, 1)
        /\ dicts' = [dicts EXCEPT ![n] =
                       [k \in Kinds |-> IF k \in filled THEN kindLists[k] ELSE NULL]]
    BY <1>3 DEF DumpContextInAttributes
  <2>2. heap \in Heaps /\ dicts \in [ImportNos -> [Kinds -> 0 .. MaxImports]]
    BY DEF ServiceInv, SafetyInv, TypeInv, TypeOK, Heaps
  <2> HIDE DEF filled
  <2>3. \A m \in ImportNos, k \in Kinds : heap'[m][k].items = heap[m][k].items
    BY <2>1, <2>2, RetainItems
  <2>4. \A m \in ImportNos : m # n => dicts'[m] = dicts[m]
    BY <2>1, <2>2
  <2> QED
    BY <2>1, <2>3, <2>4, ViewKept
<1>4. CASE CleanupContext
  BY <1>4, CleanupDelivers
<1>5. ASSUME NEW l \in Letters, NEW v \in BOOLEAN, NotifySystemTagEntry(l, v)
      PROVE  [Service!Next]_ServiceView
  <2> DEFINE tag == [file |-> n, at |-> Len(tags[n]) + 1, letter |-> l, valid |-> v]
             cell == kindTable[l]
  <2>1. /\ pc = "parsing" /\ pc' # "idle" /\ UNCHANGED << n, request, held, dicts >>
        /\ \/ tags' = tags
           \/ tags' = [tags EXCEPT ![n] = Append(@, tag)]
        /\ \/ heap' = heap
           \/ /\ cell # kindUNVALID
              /\ heap' = [heap EXCEPT ![kindLists[cell]][cell].items = Append(@, tag)]
    BY <1>5 DEF NotifySystemTagEntry
  <2>2. cell # kindUNVALID => kindLists[cell] = n
    BY <2>1, ListsUsable DEF ServiceInv, SafetyInv, TypeInv, TypeOK, KindCells, InImport
  <2>3. tags \in [ImportNos -> Seq(Tag)] /\ heap \in Heaps
    BY DEF ServiceInv, SafetyInv, TypeInv, TypeOK, Heaps
  <2> HIDE DEF tag, cell
  <2>4. \A m \in ImportNos : m # n => tags'[m] = tags[m] /\ heap'[m] = heap[m]
    BY <2>1, <2>2, <2>3 DEF Heaps
  <2> QED
    BY <2>1, <2>4, ViewKept
<1>6. CASE ListFault
  BY <1>6, ListsUsable DEF ListFault, InImport, ServiceInv
<1>7. CASE \E m \in ImportNos : HostRelease(m)
  BY <1>7, HostReleases DEF ServiceInv
<1>8. CASE Relaunch
  BY <1>8 DEF Relaunch, ServiceInv, SafetyInv, NeverCrashes
<1>9. CASE UNCHANGED vars
  BY <1>9 DEF vars, ServiceView
<1> QED
  BY <1>1, <1>2, <1>3, <1>4, <1>5, <1>6, <1>7, <1>8, <1>9 DEF Next

\* With a kind table for every content type the importer is the service it promises
\* to be: every import is answered once, by the names of its own file that the table
\* of its content type calls for, in the order of the file, and what the host was
\* given stays as it is until the host releases it.
THEOREM TabledImplementsService == ASSUME AllTabled PROVE Spec => ImplementsService
<1>1. Init => ServiceInv
  BY InitSafety, InitShowing DEF ServiceInv
<1>2. ServiceInv /\ [Next]_vars => ServiceInv'
  BY NextService
<1>3. Init => Service!Init
  BY InitView
<1>4. ServiceInv /\ ServiceInv' /\ [Next]_vars => [Service!Next]_ServiceView
  BY NextView
<1> QED
  BY <1>1, <1>2, <1>3, <1>4, PTL DEF Spec, ImplementsService, Service!Spec

====
