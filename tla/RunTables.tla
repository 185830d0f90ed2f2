------------------------------- MODULE RunTables -------------------------------
(***************************************************************************)
(* The tables every run of ctags fills and frees again: the keywords of    *)
(* all languages in one hash table (keyword.c) and the patterns of each    *)
(* (lregex.c).  Parsers fill them when they are installed, and option      *)
(* files add to the patterns.  Both are static, so that an import finds    *)
(* what the one before it has left.                                        *)
(***************************************************************************)
EXTENDS Integers, Sequences, FiniteSets

CONSTANTS
  Count,           \* LanguageCount
  keywordTables,   \* per language its keywords, in the order they are added
  patternTables,   \* per language the patterns its parser adds
  Words,           \* what parsers look up
  hashValue,       \* the bucket of a word
  RegexOptions     \* the --regex options of option files: << language, pattern >>

Installed == 0 .. Count - 1
Cleared == ""      \* --regex-<LANG>= without a pattern

ASSUME TablesAssumption ==
  /\ Count \in Nat
  /\ keywordTables \in [Installed -> Seq(Words)]
  /\ patternTables \in [Installed -> Seq(STRING)]
  /\ DOMAIN hashValue = Words
  /\ RegexOptions \subseteq Seq(Installed \X STRING)

NoHashTable ==
  [pointer |-> "NULL", hashTableIsAllocated |-> FALSE, chains |-> [w \in Words |-> << >>]]
NoSets == [upper |-> -1, patterns |-> << >>]

-------------------------------------------------------------------------------
(* keyword.c *)

getHashTable(t) ==
  IF t.hashTableIsAllocated THEN t
  ELSE [NoHashTable EXCEPT !.pointer = "live", !.hashTableIsAllocated = TRUE]

\* A chain is kept under each word of its bucket.
addKeyword(t, entry) ==
  [getHashTable(t) EXCEPT !.chains =
     [w \in Words |-> IF hashValue[w] = hashValue[entry.string] THEN Append(@[w], entry)
                      ELSE @[w]]]

\* What memory that has been freed may hold: no keyword's value.
Freed == << 0 >>

FirstOf(places) == CHOOSE i \in places : \A j \in places : i <= j

\* The value of a word, none if it is no keyword of the language.
lookupKeyword(t, word, lang) ==
  LET chain == getHashTable(t).chains[word]
      found == {i \in DOMAIN chain : chain[i].language = lang /\ chain[i].string = word}
  IN IF getHashTable(t).pointer # "live" THEN Freed
     ELSE IF found = {} THEN << >> ELSE << chain[FirstOf(found)].value >>

\* Mutant: the table is taken for allocated ever after.
freeKeywordTableOnce(t) ==
  IF t.pointer = "NULL" THEN t ELSE [t EXCEPT !.pointer = "freed"]

freeKeywordTable(t) ==
  IF t.pointer = "NULL" THEN t
  ELSE [t EXCEPT !.pointer = "freed", !.hashTableIsAllocated = FALSE]

-------------------------------------------------------------------------------
(* lregex.c *)

\* The sets grow to the language's number.
Grown(sets, lang) ==
  IF lang <= sets.upper THEN sets
  ELSE [upper |-> lang,
        patterns |-> [i \in 1 .. lang + 1 |->
                        IF i <= sets.upper + 1 THEN sets.patterns[i] ELSE << >>]]

addCompiledTagPattern(sets, lang, pattern) ==
  [Grown(sets, lang) EXCEPT !.patterns[lang + 1] = Append(@, pattern)]

\* Mutant: the sets above are cut off.
clearAbove(sets, lang) ==
  IF lang > sets.upper THEN sets
  ELSE [upper |-> lang, patterns |-> Append(SubSeq(sets.patterns, 1, lang), << >>)]

clearPatternSet(sets, lang) ==
  IF lang > sets.upper THEN sets
  ELSE [sets EXCEPT !.patterns[lang + 1] = << >>]

processLanguageRegex(sets, lang, pattern) ==
  IF pattern = Cleared THEN clearPatternSet(sets, lang)
  ELSE addCompiledTagPattern(sets, lang, pattern)

\* The patterns matchRegex tries on a line.
matchRegex(sets, lang) ==
  IF lang <= sets.upper THEN sets.patterns[lang + 1] ELSE << >>

\* Mutant: the sets outlive the run.
freeRegexKeepsSets(sets) == sets

freeRegexResources(sets) == NoSets

-------------------------------------------------------------------------------
(* A run of ctags *)

\* A parser adds its keywords, the k-th with its number.
Keyword(lang, k) == [string |-> keywordTables[lang][k], language |-> lang, value |-> k]
addKeywords(t, lang) ==
  LET after[k \in 0 .. Len(keywordTables[lang])] ==
        IF k = 0 THEN t ELSE addKeyword(after[k - 1], Keyword(lang, k))
  IN after[Len(keywordTables[lang])]

addPatterns(sets, lang) ==
  LET after[k \in 0 .. Len(patternTables[lang])] ==
        IF k = 0 THEN sets
        ELSE addCompiledTagPattern(after[k - 1], lang, patternTables[lang][k])
  IN after[Len(patternTables[lang])]

\* initializeParsers: every parser is initialized, in the order of their numbers.
initializeKeywords(t) ==
  LET after[c \in 0 .. Count] == IF c = 0 THEN t ELSE addKeywords(after[c - 1], c - 1)
  IN after[Count]

initializePatterns(sets) ==
  LET after[c \in 0 .. Count] == IF c = 0 THEN sets ELSE addPatterns(after[c - 1], c - 1)
  IN after[Count]

\* Then come the options, one after the other.
WithOptions(sets, options) ==
  LET after[k \in 0 .. Len(options)] ==
        IF k = 0 THEN sets
        ELSE processLanguageRegex(after[k - 1], options[k][1], options[k][2])
  IN after[Len(options)]

-------------------------------------------------------------------------------
(* What a run should find *)

\* The value a language gives a word, whatever other languages add.
ValueOf(word, lang) ==
  LET places == {i \in DOMAIN keywordTables[lang] : keywordTables[lang][i] = word}
  IN IF places = {} THEN << >> ELSE << FirstOf(places) >>

\* The patterns of a language: its parser's, unless one of the options asked for
\* has cleared them, and those of the options since.
PatternsOf(lang, asked) ==
  LET Clears(i) == asked[i] = << lang, Cleared >>
      places == {i \in DOMAIN asked :
                   asked[i][1] = lang /\ ~ \E j \in i .. Len(asked) : Clears(j)}
      Nth(m) == CHOOSE i \in places : Cardinality({j \in places : j <= i}) = m
      added == [m \in 1 .. Cardinality(places) |-> asked[Nth(m)][2]]
  IN IF \E i \in DOMAIN asked : Clears(i) THEN added ELSE patternTables[lang] \o added
===============================================================================
