---------------------------- MODULE RunTables_proofs ----------------------------
(***************************************************************************)
(* Proofs about the tables of a run, for any languages, words, hash,       *)
(* patterns and options: every import looks up in its tables what its own  *)
(* run has put there.                                                      *)
(*                                                                         *)
(* The argument: what one keyword or one pattern adds to what is looked    *)
(* up, which is the same as what it adds to what should be found; by       *)
(* induction over the turns, what the loops of a language, of all          *)
(* languages and of the options leave; and between two imports the tables  *)
(* are as good as new, though the pointer may be a stale one.              *)
(***************************************************************************)
EXTENDS Importer, Iteration, SequenceTheorems

-------------------------------------------------------------------------------
(* keyword.c *)

Entries == [string : Words, language : Installed, value : Nat]

KeywordTables ==
  [pointer : {"NULL", "live", "freed"}, hashTableIsAllocated : BOOLEAN,
   chains : [Words -> Seq(Entries)]]

\* A table that is taken for allocated is not a freed one.
TableOK(t) == t \in KeywordTables /\ (t.hashTableIsAllocated => t.pointer = "live")

\* What a chain says of a word.
InChain(chain, word, lang) ==
  LET found == {i \in DOMAIN chain : chain[i].language = lang /\ chain[i].string = word}
  IN IF found = {} THEN << >> ELSE << chain[FirstOf(found)].value >>

\* The first of positions, of which the last was added last.
LEMMA FirstStays ==
  ASSUME NEW P \in SUBSET Nat, NEW m \in Nat, \A i \in P : i < m
  PROVE  /\ P # {} => FirstOf(P) \in P /\ FirstOf(P \cup {m}) = FirstOf(P)
         /\ P = {} => FirstOf(P \cup {m}) = m
<1>1. CASE P = {}
  <2>1. P \cup {m} = {m}
    BY <1>1
  <2> QED
    BY <1>1, <2>1 DEF FirstOf
<1>2. CASE P # {}
  <2>1. PICK a \in P : \A i \in P : a <= i
    BY <1>2, LeastNumber
  <2>2. FirstOf(P) \in P /\ \A i \in P : FirstOf(P) <= i
    BY <2>1 DEF FirstOf
  <2> DEFINE Q == P \cup {m}
  <2>3. a \in Q /\ (\A i \in Q : a <= i) /\ Q \subseteq Nat
    BY <2>1
  <2> HIDE DEF Q
  <2>4. FirstOf(Q) \in Q /\ \A i \in Q : FirstOf(Q) <= i
    BY <2>3 DEF FirstOf
  <2>5. FirstOf(P) = a
    <3>1. FirstOf(P) <= a /\ a <= FirstOf(P) /\ FirstOf(P) \in Nat /\ a \in Nat
      BY <2>1, <2>2
    <3> QED
      BY <3>1
  <2>6. FirstOf(Q) = a
    <3>1. FirstOf(Q) <= a /\ a <= FirstOf(Q) /\ FirstOf(Q) \in Nat /\ a \in Nat
      BY <2>3, <2>4
    <3> QED
      BY <3>1
  <2> QED
    BY <1>2, <2>2, <2>5, <2>6 DEF Q
<1> QED
  BY <1>1, <1>2

LEMMA EmptyChain == \A word, lang : InChain(<< >>, word, lang) = << >>
BY DEF InChain

LEMMA ChainGrows ==
  ASSUME NEW chain \in Seq(Entries), NEW e \in Entries, NEW word \in Words, NEW lang \in Installed
  PROVE  InChain(Append(chain, e), word, lang) =
           IF InChain(chain, word, lang) # << >> THEN InChain(chain, word, lang)
           ELSE IF e.language = lang /\ e.string = word THEN << e.value >> ELSE << >>
<1> DEFINE longer == Append(chain, e)
           m == Len(longer)
           Is(i, c) == c[i].language = lang /\ c[i].string = word
           found == {i \in DOMAIN chain : Is(i, chain)}
           now == {i \in DOMAIN longer : Is(i, longer)}
<1>1. /\ longer \in Seq(Entries) /\ m = Len(chain) + 1 /\ m \in Nat /\ Len(chain) \in Nat
      /\ DOMAIN longer = 1 .. m /\ DOMAIN chain = 1 .. Len(chain) /\ longer[m] = e
      /\ \A i \in 1 .. Len(chain) : longer[i] = chain[i]
  OBVIOUS
<1> HIDE DEF longer, m
<1>2. found \in SUBSET Nat /\ \A i \in found : i < m /\ i \in 1 .. Len(chain)
  BY <1>1
<1>3. CASE Is(m, longer)
  <2>1. now = found \cup {m}
    BY <1>1, <1>2, <1>3
  <2>2. e.language = lang /\ e.string = word
    BY <1>1, <1>3
  <2> HIDE DEF found, now, Is
  <2>3. CASE found = {}
    <3>1. FirstOf(now) = m /\ now # {}
      BY <1>1, <1>2, <2>1, <2>3, FirstStays
    <3>2. InChain(longer, word, lang) = << e.value >>
      BY <1>1, <3>1 DEF InChain, now, Is
    <3>3. InChain(chain, word, lang) = << >>
      BY <2>3 DEF InChain, found, Is
    <3> QED
      BY <2>2, <3>2, <3>3 DEF longer
  <2>4. CASE found # {}
    <3>1. FirstOf(now) = FirstOf(found) /\ FirstOf(found) \in found /\ now # {}
      BY <1>1, <1>2, <2>1, <2>4, FirstStays
    <3>2. longer[FirstOf(found)] = chain[FirstOf(found)]
      BY <1>1, <1>2, <3>1
    <3>3. InChain(longer, word, lang) = << chain[FirstOf(found)].value >>
      BY <3>1, <3>2 DEF InChain, now, Is
    <3>4. InChain(chain, word, lang) = << chain[FirstOf(found)].value >>
      BY <2>4 DEF InChain, found, Is
    <3> QED
      BY <3>3, <3>4 DEF longer
  <2> QED
    BY <2>3, <2>4
<1>4. CASE ~ Is(m, longer)
  <2>1. now = found
    BY <1>1, <1>2, <1>4
  <2>2. ~ (e.language = lang /\ e.string = word)
    BY <1>1, <1>4
  <2>3. CASE found = {}
    <3>1. InChain(longer, word, lang) = << >> /\ InChain(chain, word, lang) = << >>
      BY <2>1, <2>3 DEF InChain
    <3> QED
      BY <2>2, <3>1 DEF longer
  <2>4. CASE found # {}
    <3> HIDE DEF found, now, Is
    <3>1. FirstOf(found) \in found
      BY <1>1, <1>2, <2>4, FirstStays
    <3>2. longer[FirstOf(found)] = chain[FirstOf(found)]
      BY <1>1, <1>2, <3>1
    <3>3. InChain(longer, word, lang) = << chain[FirstOf(found)].value >>
      BY <2>1, <2>4, <3>2 DEF InChain, now, Is
    <3>4. InChain(chain, word, lang) = << chain[FirstOf(found)].value >>
      BY <2>4 DEF InChain, found, Is
    <3> QED
      BY <3>3, <3>4 DEF longer
  <2> QED
    BY <2>3, <2>4
<1> QED
  BY <1>3, <1>4

-------------------------------------------------------------------------------
(* The loops that add keywords *)

Looked(t, word, lang) == InChain(getHashTable(t).chains[word], word, lang)

LEMMA GetKeeps ==
  ASSUME NEW t, TableOK(t)
  PROVE  /\ TableOK(getHashTable(t)) /\ getHashTable(t).pointer = "live"
         /\ getHashTable(t).hashTableIsAllocated
<1>1. CASE t.hashTableIsAllocated
  BY <1>1 DEF getHashTable, TableOK, KeywordTables
<1>2. CASE ~ t.hashTableIsAllocated
  <2>1. << >> \in Seq(Entries)
    OBVIOUS
  <2>2. [w \in Words |-> << >>] \in [Words -> Seq(Entries)]
    BY <2>1
  <2>3. getHashTable(t) = [pointer |-> "live", hashTableIsAllocated |-> TRUE,
                           chains |-> [w \in Words |-> << >>]]
    BY <1>2 DEF getHashTable, NoHashTable
  <2> QED
    BY <2>2, <2>3 DEF TableOK, KeywordTables
<1> QED
  BY <1>1, <1>2 DEF TableOK, KeywordTables

LEMMA LookupIs ==
  ASSUME NEW t, TableOK(t), NEW word, NEW lang
  PROVE  lookupKeyword(t, word, lang) = Looked(t, word, lang)
BY GetKeeps DEF lookupKeyword, Looked, InChain

\* A keyword is found from then on, unless the word had been one before.
LEMMA KeywordAdds ==
  ASSUME NEW t, TableOK(t), NEW e \in Entries
  PROVE  /\ TableOK(addKeyword(t, e))
         /\ \A word \in Words, lang \in Installed :
              Looked(addKeyword(t, e), word, lang) =
                IF Looked(t, word, lang) # << >> THEN Looked(t, word, lang)
                ELSE IF e.language = lang /\ e.string = word THEN << e.value >> ELSE << >>
<1> DEFINE g == getHashTable(t)
           chains == [w \in Words |-> IF hashValue[w] = hashValue[e.string]
                                      THEN Append(g.chains[w], e) ELSE g.chains[w]]
           u == addKeyword(t, e)
<1>1. TableOK(g) /\ g.pointer = "live" /\ g.hashTableIsAllocated
  BY GetKeeps
<1>2. u = [g EXCEPT !.chains = chains]
  BY DEF addKeyword
<1> HIDE DEF g, u
<1>3. g.chains \in [Words -> Seq(Entries)]
  BY <1>1 DEF TableOK, KeywordTables
<1>4. chains \in [Words -> Seq(Entries)]
  BY <1>3
<1>5. u.chains = chains /\ u.pointer = "live" /\ u.hashTableIsAllocated = TRUE /\ TableOK(u)
  <2> HIDE DEF chains
  <2> QED
    BY <1>1, <1>2, <1>4 DEF TableOK, KeywordTables
<1>6. ASSUME NEW word \in Words, NEW lang \in Installed
      PROVE  Looked(u, word, lang) =
                IF Looked(t, word, lang) # << >> THEN Looked(t, word, lang)
                ELSE IF e.language = lang /\ e.string = word THEN << e.value >> ELSE << >>
  <2>1. Looked(u, word, lang) = InChain(chains[word], word, lang)
    BY <1>5 DEF Looked, getHashTable
  <2>2. Looked(t, word, lang) = InChain(g.chains[word], word, lang)
    BY DEF Looked, g
  <2>3. CASE hashValue[word] = hashValue[e.string]
    <3>1. chains[word] = Append(g.chains[word], e) /\ g.chains[word] \in Seq(Entries)
      BY <1>3, <2>3
    <3> HIDE DEF chains
    <3> QED
      BY <2>1, <2>2, <3>1, ChainGrows
  <2>4. CASE hashValue[word] # hashValue[e.string]
    <3>1. chains[word] = g.chains[word] /\ e.string # word
      BY <2>4
    <3>2. Looked(u, word, lang) = Looked(t, word, lang)
      BY <2>1, <2>2, <3>1
    <3> QED
      BY <3>1, <3>2
  <2> QED
    BY <2>3, <2>4
<1> QED
  BY <1>5, <1>6 DEF u

\* The value of a word among the first m keywords of a language.
ValueUpTo(word, lang, m) ==
  LET places == {i \in 1 .. m : keywordTables[lang][i] = word}
  IN IF places = {} THEN << >> ELSE << FirstOf(places) >>

LEMMA ValueGrows ==
  ASSUME NEW word, NEW lang, NEW m \in Nat \ {0}
  PROVE  ValueUpTo(word, lang, m) =
           IF ValueUpTo(word, lang, m - 1) # << >> THEN ValueUpTo(word, lang, m - 1)
           ELSE IF keywordTables[lang][m] = word THEN << m >> ELSE << >>
<1> DEFINE P == {i \in 1 .. m - 1 : keywordTables[lang][i] = word}
           Q == {i \in 1 .. m : keywordTables[lang][i] = word}
<1>1. P \in SUBSET Nat /\ \A i \in P : i < m
  OBVIOUS
<1>2. Q = IF keywordTables[lang][m] = word THEN P \cup {m} ELSE P
  OBVIOUS
<1>3. /\ ValueUpTo(word, lang, m - 1) = IF P = {} THEN << >> ELSE << FirstOf(P) >>
      /\ ValueUpTo(word, lang, m) = IF Q = {} THEN << >> ELSE << FirstOf(Q) >>
  BY DEF ValueUpTo
<1> HIDE DEF P, Q
<1>4. << FirstOf(P) >> # << >>
  OBVIOUS
<1>5. P = {} => FirstOf(P \cup {m}) = m
  BY <1>1, FirstStays
<1>6. P # {} => FirstOf(P \cup {m}) = FirstOf(P)
  BY <1>1, FirstStays
<1> QED
  BY <1>2, <1>3, <1>4, <1>5, <1>6

LEMMA KeywordType ==
  ASSUME NEW lang \in Installed
  PROVE  /\ Len(keywordTables[lang]) \in Nat
         /\ DOMAIN keywordTables[lang] = 1 .. Len(keywordTables[lang])
         /\ \A k \in 1 .. Len(keywordTables[lang]) : Keyword(lang, k) \in Entries
<1>1. keywordTables[lang] \in Seq(Words)
  BY TablesAssumption
<1>2. ASSUME NEW k \in 1 .. Len(keywordTables[lang]) PROVE Keyword(lang, k) \in Entries
  <2>1. keywordTables[lang][k] \in Words /\ k \in Nat
    BY <1>1
  <2> QED
    BY <2>1 DEF Keyword, Entries
<1> QED
  BY <1>1, <1>2

\* A word that is no keyword of the language yet has its value afterwards; other
\* languages keep theirs.
LEMMA LanguageAdds ==
  ASSUME NEW t, TableOK(t), NEW lang \in Installed
  PROVE  /\ TableOK(addKeywords(t, lang))
         /\ \A word \in Words, l \in Installed :
              Looked(addKeywords(t, lang), word, l) =
                IF l = lang /\ Looked(t, word, l) = << >> THEN ValueOf(word, lang)
                ELSE Looked(t, word, l)
<1> DEFINE N == Len(keywordTables[lang])
           S == {u \in KeywordTables : TableOK(u)}
           Follows(after) == after = [k \in 0 .. N |-> IF k = 0 THEN t
                                        ELSE addKeyword(after[k - 1], Keyword(lang, k))]
           A == CHOOSE after : Follows(after)
<1>1. N \in Nat /\ \A k \in 1 .. N : Keyword(lang, k) \in Entries
  BY KeywordType
<1>2. addKeywords(t, lang) = A[N]
  BY DEF addKeywords
<1> HIDE DEF N
<1>3. Follows(A)
  <2> DEFINE step == [p \in S \X (1 .. N) |-> addKeyword(p[1], Keyword(lang, p[2]))]
  <2>1. step \in [S \X (1 .. N) -> S]
    <3>1. ASSUME NEW u \in S, NEW k \in 1 .. N PROVE addKeyword(u, Keyword(lang, k)) \in S
      <4>1. TableOK(addKeyword(u, Keyword(lang, k)))
        BY <1>1, KeywordAdds
      <4> QED
        BY <4>1 DEF TableOK
    <3> QED
      BY <3>1
  <2>2. t \in S
    BY DEF TableOK
  <2> HIDE DEF S
  <2>3. PICK after : Loop(S, t, N, step, after)
    <3> HIDE DEF step
    <3> QED
      BY <1>1, <2>1, <2>2, LoopRuns
  <2>4. ASSUME NEW k \in 0 .. N
        PROVE  after[k] = IF k = 0 THEN t ELSE addKeyword(after[k - 1], Keyword(lang, k))
    <3>1. CASE k # 0
      <4>1. k \in 1 .. N /\ k - 1 \in 0 .. N
        BY <1>1, <3>1
      <4>2. after[k - 1] \in S /\ after[k] = step[<< after[k - 1], k >>]
        BY <2>3, <4>1 DEF Loop
      <4> QED
        BY <3>1, <4>1, <4>2
    <3> QED
      BY <2>3, <3>1 DEF Loop
  <2>5. Follows(after)
    BY <2>3, <2>4 DEF Loop
  <2> HIDE DEF Follows
  <2> QED
    BY <2>5
<1>4. A[0] = t /\ \A k \in 1 .. N : A[k] = addKeyword(A[k - 1], Keyword(lang, k))
  <2> HIDE DEF A
  <2>1. 0 \in 0 .. N /\ \A k \in 1 .. N : k \in 0 .. N /\ k # 0
    BY <1>1
  <2> QED
    BY <1>3, <2>1
<1> HIDE DEF A
<1> DEFINE Says(u, k) ==
             \A word \in Words, l \in Installed :
                Looked(u, word, l) =
                  IF l = lang /\ Looked(t, word, l) = << >> THEN ValueUpTo(word, lang, k)
                  ELSE Looked(t, word, l)
           Good == {k \in 0 .. N : TableOK(A[k]) /\ Says(A[k], k)}
<1>5. 0 \in Good
  <2>1. \A word : ValueUpTo(word, lang, 0) = << >>
    BY DEF ValueUpTo
  <2>2. Says(t, 0)
    BY <2>1
  <2> QED
    BY <1>1, <1>4, <2>2
<1>6. ASSUME NEW k \in 1 .. N, k - 1 \in Good PROVE k \in Good
  <2>1. TableOK(A[k - 1]) /\ Says(A[k - 1], k - 1) /\ Keyword(lang, k) \in Entries
        /\ A[k] = addKeyword(A[k - 1], Keyword(lang, k)) /\ k \in Nat \ {0}
    BY <1>1, <1>4, <1>6
  <2>2. TableOK(A[k])
    BY <2>1, KeywordAdds
  <2>3. ASSUME NEW word \in Words, NEW l \in Installed
        PROVE  Looked(A[k], word, l) =
                 IF l = lang /\ Looked(t, word, l) = << >> THEN ValueUpTo(word, lang, k)
                 ELSE Looked(t, word, l)
    <3> DEFINE old == Looked(A[k - 1], word, l)
               e == Keyword(lang, k)
    <3>1. Looked(A[k], word, l) =
            IF old # << >> THEN old
            ELSE IF e.language = l /\ e.string = word THEN << e.value >> ELSE << >>
      <4> HIDE DEF e
      <4> QED
        BY <2>1, KeywordAdds DEF e
    <3>2. e.language = lang /\ e.string = keywordTables[lang][k] /\ e.value = k
      BY DEF Keyword
    <3>3. old = IF l = lang /\ Looked(t, word, l) = << >> THEN ValueUpTo(word, lang, k - 1)
                ELSE Looked(t, word, l)
      BY <2>1
    <3> HIDE DEF old, e
    <3>4. CASE l = lang /\ Looked(t, word, l) = << >>
      <4>1. old = ValueUpTo(word, lang, k - 1)
        BY <3>3, <3>4
      <4>2. ValueUpTo(word, lang, k) = IF old # << >> THEN old
               ELSE IF keywordTables[lang][k] = word THEN << k >> ELSE << >>
        BY <2>1, <4>1, ValueGrows
      <4> QED
        BY <3>1, <3>2, <3>4, <4>2
    <3>5. CASE ~ (l = lang /\ Looked(t, word, l) = << >>)
      BY <3>1, <3>2, <3>3, <3>5
    <3> QED
      BY <3>4, <3>5
  <2> QED
    BY <1>1, <2>2, <2>3
<1>7. N \in Good
  <2>1. 0 .. N \subseteq Good
    <3> HIDE DEF Good
    <3> QED
      BY <1>1, <1>5, <1>6, TurnInduction
  <2>2. N \in 0 .. N
    BY <1>1
  <2> QED
    BY <2>1, <2>2
<1>8. ASSUME NEW word PROVE ValueUpTo(word, lang, N) = ValueOf(word, lang)
  BY KeywordType DEF ValueUpTo, ValueOf, N
<1> QED
  BY <1>2, <1>7, <1>8

\* Initialized, the table has for every language the values of its own keywords.
LEMMA KeywordsAdded ==
  ASSUME NEW t, TableOK(t),
         \A word \in Words, lang \in Installed : Looked(t, word, lang) = << >>
  PROVE  /\ TableOK(initializeKeywords(t))
         /\ \A word \in Words, lang \in Installed :
              Looked(initializeKeywords(t), word, lang) = ValueOf(word, lang)
<1> DEFINE S == {u \in KeywordTables : TableOK(u)}
           Follows(after) == after = [c \in 0 .. Count |-> IF c = 0 THEN t
                                        ELSE addKeywords(after[c - 1], c - 1)]
           A == CHOOSE after : Follows(after)
           Says(u, c) ==
             \A word \in Words, lang \in Installed :
                Looked(u, word, lang) = IF lang < c THEN ValueOf(word, lang) ELSE << >>
<1>1. Count \in Nat /\ \A c \in 1 .. Count : c - 1 \in Installed
  BY TablesAssumption DEF Installed
<1>2. initializeKeywords(t) = A[Count]
  BY DEF initializeKeywords
<1>3. ASSUME NEW u, TableOK(u), NEW c \in 1 .. Count
      PROVE  /\ TableOK(addKeywords(u, c - 1))
             /\ Says(u, c - 1) => Says(addKeywords(u, c - 1), c)
  <2> DEFINE l == c - 1
             v == addKeywords(u, l)
  <2>1. l \in Installed /\ c \in Nat
    BY <1>1
  <2>2. /\ TableOK(v)
        /\ \A word \in Words, lang \in Installed :
             Looked(v, word, lang) = IF lang = l /\ Looked(u, word, lang) = << >>
                                     THEN ValueOf(word, l) ELSE Looked(u, word, lang)
    <3> HIDE DEF l
    <3> QED
      BY <1>3, <2>1, LanguageAdds
  <2> HIDE DEF v
  <2>3. ASSUME NEW word \in Words, NEW lang \in Installed, Says(u, l)
        PROVE  Looked(v, word, lang) = IF lang < c THEN ValueOf(word, lang) ELSE << >>
    <3>1. lang \in Nat /\ c \in Nat /\ l = c - 1
      BY <1>1, <2>1 DEF Installed
    <3>2. Looked(u, word, lang) = IF lang < l THEN ValueOf(word, lang) ELSE << >>
      BY <2>3
    <3> HIDE DEF l
    <3> QED
      BY <2>2, <3>1, <3>2
  <2> QED
    BY <2>2, <2>3 DEF v
<1>4. Follows(A)
  <2> DEFINE step == [p \in S \X (1 .. Count) |-> addKeywords(p[1], p[2] - 1)]
  <2>1. step \in [S \X (1 .. Count) -> S]
    <3>1. ASSUME NEW u \in S, NEW c \in 1 .. Count PROVE addKeywords(u, c - 1) \in S
      <4>1. TableOK(addKeywords(u, c - 1))
        BY <1>3
      <4> QED
        BY <4>1 DEF TableOK
    <3> QED
      BY <3>1
  <2>2. t \in S
    BY DEF TableOK
  <2> HIDE DEF S
  <2>3. PICK after : Loop(S, t, Count, step, after)
    <3> HIDE DEF step
    <3> QED
      BY <1>1, <2>1, <2>2, LoopRuns
  <2>4. ASSUME NEW c \in 0 .. Count
        PROVE  after[c] = IF c = 0 THEN t ELSE addKeywords(after[c - 1], c - 1)
    <3>1. CASE c # 0
      <4>1. c \in 1 .. Count /\ c - 1 \in 0 .. Count
        BY <1>1, <3>1
      <4>2. after[c - 1] \in S /\ after[c] = step[<< after[c - 1], c >>]
        BY <2>3, <4>1 DEF Loop
      <4> QED
        BY <3>1, <4>1, <4>2
    <3> QED
      BY <2>3, <3>1 DEF Loop
  <2>5. Follows(after)
    BY <2>3, <2>4 DEF Loop
  <2> HIDE DEF Follows
  <2> QED
    BY <2>5
<1>5. A[0] = t /\ \A c \in 1 .. Count : A[c] = addKeywords(A[c - 1], c - 1)
  <2> HIDE DEF A
  <2>1. 0 \in 0 .. Count /\ \A c \in 1 .. Count : c \in 0 .. Count /\ c # 0
    BY <1>1
  <2> QED
    BY <1>4, <2>1
<1> HIDE DEF A
<1> DEFINE Good == {c \in 0 .. Count : TableOK(A[c]) /\ Says(A[c], c)}
<1>6. 0 \in Good
  <2>1. \A lang \in Installed : ~ (lang < 0)
    BY <1>1 DEF Installed
  <2>2. Says(t, 0)
    BY <2>1
  <2> QED
    BY <1>1, <1>5, <2>2
<1>7. ASSUME NEW c \in 1 .. Count, c - 1 \in Good PROVE c \in Good
  <2> HIDE DEF Says
  <2>1. TableOK(A[c - 1]) /\ Says(A[c - 1], c - 1) /\ A[c] = addKeywords(A[c - 1], c - 1)
    BY <1>5, <1>7
  <2>2. c \in 0 .. Count
    BY <1>1
  <2> QED
    BY <1>3, <2>1, <2>2
<1>8. Count \in Good
  <2>1. 0 .. Count \subseteq Good
    <3> HIDE DEF Good
    <3> QED
      BY <1>1, <1>6, <1>7, TurnInduction
  <2>2. Count \in 0 .. Count
    BY <1>1
  <2> QED
    BY <2>1, <2>2
<1>9. \A lang \in Installed : lang < Count
  BY <1>1 DEF Installed
<1> QED
  BY <1>2, <1>8, <1>9

-------------------------------------------------------------------------------
(* lregex.c *)

Patterns == Seq(STRING)

PatternSets ==
  {s \in [upper : Int, patterns : Seq(Patterns)] : s.upper >= -1 /\ Len(s.patterns) = s.upper + 1}

LEMMA InstalledType == Count \in Nat /\ \A lang \in Installed : lang \in Nat /\ lang < Count
BY TablesAssumption DEF Installed

LEMMA MatchType ==
  ASSUME NEW s \in PatternSets, NEW lang \in Installed
  PROVE  matchRegex(s, lang) \in Patterns
<1>1. lang \in Nat /\ s.patterns \in Seq(Patterns) /\ Len(s.patterns) = s.upper + 1 /\ s.upper \in Int
  BY InstalledType DEF PatternSets
<1>2. << >> \in Patterns
  BY DEF Patterns
<1>3. lang <= s.upper => s.patterns[lang + 1] \in Patterns
  BY <1>1
<1> QED
  BY <1>2, <1>3 DEF matchRegex

\* Growing the sets changes no pattern.
LEMMA GrownKeeps ==
  ASSUME NEW s \in PatternSets, NEW lang \in Installed
  PROVE  /\ Grown(s, lang) \in PatternSets /\ lang <= Grown(s, lang).upper
         /\ \A l \in Installed : matchRegex(Grown(s, lang), l) = matchRegex(s, l)
<1> DEFINE more == [i \in 1 .. lang + 1 |->
                      IF i <= s.upper + 1 THEN s.patterns[i] ELSE << >>]
           g == [upper |-> lang, patterns |-> more]
<1>1. /\ lang \in Nat /\ s.patterns \in Seq(Patterns) /\ Len(s.patterns) = s.upper + 1
      /\ s.upper \in Int /\ s.upper >= -1
  BY InstalledType DEF PatternSets
<1>2. CASE lang <= s.upper
  BY <1>1, <1>2 DEF Grown
<1>3. CASE ~ (lang <= s.upper)
  <2>1. Grown(s, lang) = g
    BY <1>3 DEF Grown
  <2>2. << >> \in Patterns
    BY DEF Patterns
  <2>3. \A i \in 1 .. lang + 1 : more[i] \in Patterns
    BY <1>1, <2>2
  <2>4. more \in Seq(Patterns) /\ Len(more) = lang + 1
    BY <1>1, <2>3
  <2>5. g \in PatternSets
    <3> HIDE DEF more
    <3> QED
      BY <1>1, <2>4 DEF PatternSets
  <2>6. ASSUME NEW l \in Installed PROVE matchRegex(g, l) = matchRegex(s, l)
    <3>1. l \in Nat
      BY InstalledType
    <3>2. l <= lang => more[l + 1] = IF l <= s.upper THEN s.patterns[l + 1] ELSE << >>
      BY <1>1, <3>1
    <3>3. matchRegex(g, l) = IF l <= lang THEN more[l + 1] ELSE << >>
      BY DEF matchRegex
    <3> HIDE DEF more
    <3> QED
      BY <1>1, <1>3, <3>1, <3>2, <3>3 DEF matchRegex
  <2> QED
    BY <1>1, <2>1, <2>5, <2>6
<1> QED
  BY <1>2, <1>3

\* Writing the patterns of a language leaves those of the others.
Written(s, lang, new) == [s EXCEPT !.patterns[lang + 1] = new]

LEMMA PatternsSet ==
  ASSUME NEW s \in PatternSets, NEW lang \in Installed, lang <= s.upper, NEW new \in Patterns
  PROVE  /\ Written(s, lang, new) \in PatternSets
         /\ \A l \in Installed :
              matchRegex(Written(s, lang, new), l) =
                IF l = lang THEN new ELSE matchRegex(s, l)
<1> DEFINE written == [s.patterns EXCEPT ![lang + 1] = new]
           t == [s EXCEPT !.patterns = written]
<1>1. /\ lang \in Nat /\ s.patterns \in Seq(Patterns) /\ Len(s.patterns) = s.upper + 1
      /\ s.upper \in Int /\ s.upper >= -1
  BY InstalledType DEF PatternSets
<1>2. lang + 1 \in 1 .. Len(s.patterns)
  BY <1>1
<1>3. written \in Seq(Patterns) /\ Len(written) = Len(s.patterns)
      /\ \A i \in 1 .. Len(s.patterns) : written[i] = IF i = lang + 1 THEN new ELSE s.patterns[i]
  BY <1>1, <1>2
<1> HIDE DEF written
<1>4. t.patterns = written /\ t.upper = s.upper /\ t \in PatternSets
  BY <1>1, <1>3 DEF PatternSets
<1>5. ASSUME NEW l \in Installed
      PROVE  matchRegex(t, l) = IF l = lang THEN new ELSE matchRegex(s, l)
  <2>1. l \in Nat
    BY InstalledType
  <2>2. l <= s.upper => written[l + 1] = IF l = lang THEN new ELSE s.patterns[l + 1]
    BY <1>1, <1>3, <2>1
  <2> HIDE DEF t
  <2> QED
    BY <1>1, <1>4, <2>1, <2>2 DEF matchRegex
<1>6. Written(s, lang, new) = t
  BY DEF Written, written
<1> HIDE DEF t
<1> QED
  BY <1>4, <1>5, <1>6

LEMMA PatternAdds ==
  ASSUME NEW s \in PatternSets, NEW lang \in Installed, NEW pattern \in STRING
  PROVE  /\ addCompiledTagPattern(s, lang, pattern) \in PatternSets
         /\ \A l \in Installed :
              matchRegex(addCompiledTagPattern(s, lang, pattern), l) =
                IF l = lang THEN Append(matchRegex(s, l), pattern) ELSE matchRegex(s, l)
<1> DEFINE g == Grown(s, lang)
           new == Append(g.patterns[lang + 1], pattern)
<1>1. g \in PatternSets /\ lang <= g.upper /\ \A l \in Installed : matchRegex(g, l) = matchRegex(s, l)
  BY GrownKeeps
<1>2. addCompiledTagPattern(s, lang, pattern) = [g EXCEPT !.patterns[lang + 1] = new]
  BY DEF addCompiledTagPattern
<1> HIDE DEF g
<1>3. g.patterns[lang + 1] = matchRegex(s, lang)
  BY <1>1 DEF matchRegex
<1>4. new \in Patterns /\ new = Append(matchRegex(s, lang), pattern)
  BY <1>3, MatchType DEF Patterns
<1> HIDE DEF new
<1>5. addCompiledTagPattern(s, lang, pattern) = Written(g, lang, new)
  BY <1>2 DEF Written
<1>6. /\ Written(g, lang, new) \in PatternSets
      /\ \A l \in Installed :
           matchRegex(Written(g, lang, new), l) = IF l = lang THEN new ELSE matchRegex(g, l)
  <2>1. g \in PatternSets /\ lang <= g.upper
    BY <1>1
  <2>2. new \in Patterns
    BY <1>4
  <2> QED
    BY <2>1, <2>2, PatternsSet
<1> QED
  BY <1>1, <1>4, <1>5, <1>6

LEMMA PatternsClear ==
  ASSUME NEW s \in PatternSets, NEW lang \in Installed
  PROVE  /\ clearPatternSet(s, lang) \in PatternSets
         /\ \A l \in Installed :
              matchRegex(clearPatternSet(s, lang), l) =
                IF l = lang THEN << >> ELSE matchRegex(s, l)
<1>1. lang \in Nat /\ s.upper \in Int
  BY InstalledType DEF PatternSets
<1>2. CASE lang > s.upper
  <2>1. matchRegex(s, lang) = << >>
    BY <1>1, <1>2 DEF matchRegex
  <2> QED
    BY <1>2, <2>1 DEF clearPatternSet
<1>3. CASE ~ (lang > s.upper)
  <2>1. << >> \in Patterns /\ lang <= s.upper
    BY <1>1, <1>3 DEF Patterns
  <2>2. clearPatternSet(s, lang) = Written(s, lang, << >>)
    BY <1>3 DEF clearPatternSet, Written
  <2> QED
    BY <2>1, <2>2, PatternsSet
<1> QED
  BY <1>2, <1>3

-------------------------------------------------------------------------------
(* The loops that add patterns *)

LEMMA PatternTableType ==
  ASSUME NEW lang \in Installed
  PROVE  /\ patternTables[lang] \in Patterns /\ Len(patternTables[lang]) \in Nat
         /\ \A k \in 1 .. Len(patternTables[lang]) : patternTables[lang][k] \in STRING
BY TablesAssumption DEF Patterns

LEMMA SingleIsSeq == ASSUME NEW S, NEW e \in S PROVE << e >> \in Seq(S)
OBVIOUS

LEMMA AppendAfter ==
  ASSUME NEW S, NEW x \in Seq(S), NEW y \in Seq(S), NEW e \in S
  PROVE  x \o Append(y, e) = Append(x \o y, e)
<1>1. << e >> \in Seq(S) /\ x \o y \in Seq(S)
  BY SingleIsSeq, ConcatProperties
<1>2. Append(y, e) = y \o << e >> /\ Append(x \o y, e) = (x \o y) \o << e >>
  BY <1>1, AppendIsConcat
<1>3. (x \o y) \o << e >> = x \o (y \o << e >>)
  BY <1>1, ConcatAssociative
<1> QED
  BY <1>2, <1>3

\* A sequence continued by the first of another.
Begun(x, y, k) == x \o SubSeq(y, 1, k)

LEMMA BegunGrows ==
  ASSUME NEW x \in Patterns, NEW y \in Patterns
  PROVE  /\ Begun(x, y, 0) = x /\ Begun(x, y, Len(y)) = x \o y
         /\ \A k \in 1 .. Len(y) : Begun(x, y, k) = Append(Begun(x, y, k - 1), y[k])
<1>1. Len(y) \in Nat
  BY DEF Patterns
<1>2. SubSeq(y, 1, 0) = << >> /\ SubSeq(y, 1, Len(y)) = y
  BY DEF Patterns
<1>3. ASSUME NEW k \in 1 .. Len(y) PROVE Begun(x, y, k) = Append(Begun(x, y, k - 1), y[k])
  <2> DEFINE u == SubSeq(y, 1, k - 1)
             v == SubSeq(y, 1, k)
             e == y[k]
  <2>1. u \in Seq(STRING) /\ e \in STRING /\ v = Append(u, e)
    BY <1>1 DEF Patterns
  <2> HIDE DEF u, v, e
  <2>2. x \in Seq(STRING)
    BY DEF Patterns
  <2>3. x \o Append(u, e) = Append(x \o u, e)
    <3>1. u \in Seq(STRING) /\ e \in STRING
      BY <2>1
    <3> DEFINE S == STRING
    <3>2. x \in Seq(S) /\ u \in Seq(S) /\ e \in S
      BY <2>2, <3>1
    <3> HIDE DEF S
    <3> QED
      BY <3>2, AppendAfter
  <2> QED
    BY <2>1, <2>3 DEF Begun, u, v, e
<1> QED
  BY <1>2, <1>3 DEF Begun, Patterns

\* The patterns of a language's parser come after those it has.
LEMMA LanguagePatterns ==
  ASSUME NEW s \in PatternSets, NEW lang \in Installed
  PROVE  /\ addPatterns(s, lang) \in PatternSets
         /\ \A l \in Installed :
              matchRegex(addPatterns(s, lang), l) =
                IF l = lang THEN matchRegex(s, l) \o patternTables[lang] ELSE matchRegex(s, l)
<1> DEFINE y == patternTables[lang]
           N == Len(y)
           Follows(after) == after = [k \in 0 .. N |-> IF k = 0 THEN s
                                        ELSE addCompiledTagPattern(after[k - 1], lang, y[k])]
           A == CHOOSE after : Follows(after)
<1>1. N \in Nat /\ y \in Patterns /\ \A k \in 1 .. N : y[k] \in STRING
  BY PatternTableType
<1>2. addPatterns(s, lang) = A[N]
  BY DEF addPatterns
<1>3. matchRegex(s, lang) \in Patterns
  BY MatchType
<1> HIDE DEF y, N
<1>4. Follows(A)
  <2> DEFINE step == [p \in PatternSets \X (1 .. N) |-> addCompiledTagPattern(p[1], lang, y[p[2]])]
  <2>1. step \in [PatternSets \X (1 .. N) -> PatternSets]
    <3>1. ASSUME NEW u \in PatternSets, NEW k \in 1 .. N
          PROVE  addCompiledTagPattern(u, lang, y[k]) \in PatternSets
      BY <1>1, PatternAdds
    <3> QED
      BY <3>1
  <2>2. PICK after : Loop(PatternSets, s, N, step, after)
    <3> HIDE DEF step
    <3> QED
      BY <1>1, <2>1, LoopRuns
  <2>3. ASSUME NEW k \in 0 .. N
        PROVE  after[k] = IF k = 0 THEN s ELSE addCompiledTagPattern(after[k - 1], lang, y[k])
    <3>1. CASE k # 0
      <4>1. k \in 1 .. N /\ k - 1 \in 0 .. N
        BY <1>1, <3>1
      <4>2. after[k - 1] \in PatternSets /\ after[k] = step[<< after[k - 1], k >>]
        BY <2>2, <4>1 DEF Loop
      <4> QED
        BY <3>1, <4>1, <4>2
    <3> QED
      BY <2>2, <3>1 DEF Loop
  <2>4. Follows(after)
    BY <2>2, <2>3 DEF Loop
  <2> HIDE DEF Follows
  <2> QED
    BY <2>4
<1>5. A[0] = s /\ \A k \in 1 .. N : A[k] = addCompiledTagPattern(A[k - 1], lang, y[k])
  <2> HIDE DEF A
  <2>1. 0 \in 0 .. N /\ \A k \in 1 .. N : k \in 0 .. N /\ k # 0
    BY <1>1
  <2> QED
    BY <1>4, <2>1
<1> HIDE DEF A
<1> DEFINE x == matchRegex(s, lang)
           Says(u, k) ==
             \A l \in Installed :
                matchRegex(u, l) = IF l = lang THEN Begun(x, y, k) ELSE matchRegex(s, l)
           Good == {k \in 0 .. N : A[k] \in PatternSets /\ Says(A[k], k)}
<1>6. /\ Begun(x, y, 0) = x /\ Begun(x, y, N) = x \o y
      /\ \A k \in 1 .. N : Begun(x, y, k) = Append(Begun(x, y, k - 1), y[k])
  BY <1>1, <1>3, BegunGrows DEF N
<1> HIDE DEF x
<1>7. 0 \in Good
  <2>1. Says(s, 0)
    BY <1>6 DEF x
  <2> QED
    BY <1>1, <1>5, <2>1
<1>8. ASSUME NEW k \in 1 .. N, k - 1 \in Good PROVE k \in Good
  <2>1. A[k - 1] \in PatternSets /\ Says(A[k - 1], k - 1) /\ y[k] \in STRING /\ k \in 0 .. N
        /\ A[k] = addCompiledTagPattern(A[k - 1], lang, y[k])
    BY <1>1, <1>5, <1>8
  <2>2. /\ A[k] \in PatternSets
        /\ \A l \in Installed :
             matchRegex(A[k], l) =
                IF l = lang THEN Append(matchRegex(A[k - 1], l), y[k]) ELSE matchRegex(A[k - 1], l)
    <3> DEFINE u == A[k - 1]
               e == y[k]
    <3>1. u \in PatternSets /\ e \in STRING /\ A[k] = addCompiledTagPattern(u, lang, e)
      BY <2>1
    <3> HIDE DEF u, e
    <3> DEFINE v == addCompiledTagPattern(u, lang, e)
    <3>2. /\ v \in PatternSets
          /\ \A l \in Installed :
               matchRegex(v, l) =
                  IF l = lang THEN Append(matchRegex(u, l), e) ELSE matchRegex(u, l)
      BY <3>1, PatternAdds
    <3> QED
      BY <3>1, <3>2 DEF u, e
  <2>3. Says(A[k], k)
    BY <1>6, <2>1, <2>2
  <2> QED
    BY <2>1, <2>2, <2>3
<1>9. N \in Good
  <2>1. 0 .. N \subseteq Good
    <3> HIDE DEF Good
    <3> QED
      BY <1>1, <1>7, <1>8, TurnInduction
  <2>2. N \in 0 .. N
    BY <1>1
  <2> QED
    BY <2>1, <2>2
<1> QED
  BY <1>2, <1>6, <1>9 DEF x, y

\* Initialized, the sets have for every language the patterns of its own parser.
LEMMA PatternsAdded ==
  ASSUME NEW s \in PatternSets, \A lang \in Installed : matchRegex(s, lang) = << >>
  PROVE  /\ initializePatterns(s) \in PatternSets
         /\ \A lang \in Installed : matchRegex(initializePatterns(s), lang) = patternTables[lang]
<1> DEFINE Follows(after) == after = [c \in 0 .. Count |-> IF c = 0 THEN s
                                        ELSE addPatterns(after[c - 1], c - 1)]
           A == CHOOSE after : Follows(after)
           Says(u, c) ==
             \A lang \in Installed :
                matchRegex(u, lang) = IF lang < c THEN patternTables[lang] ELSE << >>
<1>1. Count \in Nat /\ \A c \in 1 .. Count : c - 1 \in Installed
  BY TablesAssumption DEF Installed
<1>2. initializePatterns(s) = A[Count]
  BY DEF initializePatterns
<1>3. ASSUME NEW u \in PatternSets, NEW c \in 1 .. Count
      PROVE  /\ addPatterns(u, c - 1) \in PatternSets
             /\ Says(u, c - 1) => Says(addPatterns(u, c - 1), c)
  <2> DEFINE l == c - 1
             v == addPatterns(u, l)
  <2>1. l \in Installed /\ c \in Nat
    BY <1>1
  <2>2. /\ v \in PatternSets
        /\ \A lang \in Installed :
             matchRegex(v, lang) = IF lang = l THEN matchRegex(u, lang) \o patternTables[l]
                                   ELSE matchRegex(u, lang)
    <3> HIDE DEF l
    <3> QED
      BY <1>3, <2>1, LanguagePatterns
  <2> HIDE DEF v
  <2>3. ASSUME NEW lang \in Installed, Says(u, l)
        PROVE  matchRegex(v, lang) = IF lang < c THEN patternTables[lang] ELSE << >>
    <3>1. lang \in Nat /\ c \in Nat /\ l = c - 1
      BY <2>1, InstalledType
    <3>2. matchRegex(u, lang) = IF lang < l THEN patternTables[lang] ELSE << >>
      BY <2>3
    <3>3. patternTables[lang] \in Seq(STRING)
      BY PatternTableType DEF Patterns
    <3>4. << >> \o patternTables[lang] = patternTables[lang]
      BY <3>3, ConcatEmptySeq
    <3>5. matchRegex(v, lang) = IF lang = l THEN matchRegex(u, lang) \o patternTables[l]
                                ELSE matchRegex(u, lang)
      BY <2>2
    <3> HIDE DEF l
    <3>6. CASE lang = l
      <4>1. matchRegex(u, lang) = << >> /\ lang < c
        BY <3>1, <3>2, <3>6
      <4> QED
        BY <3>4, <3>5, <3>6, <4>1
    <3>7. CASE lang # l
      <4>1. lang < l <=> lang < c
        BY <3>1, <3>7
      <4> QED
        BY <3>2, <3>5, <3>7, <4>1
    <3> QED
      BY <3>6, <3>7
  <2> QED
    BY <2>2, <2>3 DEF v
<1>4. Follows(A)
  <2> DEFINE step == [p \in PatternSets \X (1 .. Count) |-> addPatterns(p[1], p[2] - 1)]
  <2>1. step \in [PatternSets \X (1 .. Count) -> PatternSets]
    BY <1>3
  <2>2. PICK after : Loop(PatternSets, s, Count, step, after)
    <3> HIDE DEF step
    <3> QED
      BY <1>1, <2>1, LoopRuns
  <2>3. ASSUME NEW c \in 0 .. Count
        PROVE  after[c] = IF c = 0 THEN s ELSE addPatterns(after[c - 1], c - 1)
    <3>1. CASE c # 0
      <4>1. c \in 1 .. Count /\ c - 1 \in 0 .. Count
        BY <1>1, <3>1
      <4>2. after[c - 1] \in PatternSets /\ after[c] = step[<< after[c - 1], c >>]
        BY <2>2, <4>1 DEF Loop
      <4> QED
        BY <3>1, <4>1, <4>2
    <3> QED
      BY <2>2, <3>1 DEF Loop
  <2>4. Follows(after)
    BY <2>2, <2>3 DEF Loop
  <2> HIDE DEF Follows
  <2> QED
    BY <2>4
<1>5. A[0] = s /\ \A c \in 1 .. Count : A[c] = addPatterns(A[c - 1], c - 1)
  <2> HIDE DEF A
  <2>1. 0 \in 0 .. Count /\ \A c \in 1 .. Count : c \in 0 .. Count /\ c # 0
    BY <1>1
  <2> QED
    BY <1>4, <2>1
<1> HIDE DEF A
<1> DEFINE Good == {c \in 0 .. Count : A[c] \in PatternSets /\ Says(A[c], c)}
<1>6. 0 \in Good
  <2>1. \A lang \in Installed : ~ (lang < 0)
    BY InstalledType
  <2>2. Says(s, 0)
    BY <2>1
  <2> QED
    BY <1>1, <1>5, <2>2
<1>7. ASSUME NEW c \in 1 .. Count, c - 1 \in Good PROVE c \in Good
  <2> HIDE DEF Says
  <2>1. A[c - 1] \in PatternSets /\ Says(A[c - 1], c - 1) /\ A[c] = addPatterns(A[c - 1], c - 1)
    BY <1>5, <1>7
  <2>2. c \in 0 .. Count
    BY <1>1
  <2> QED
    BY <1>3, <2>1, <2>2
<1>8. Count \in Good
  <2>1. 0 .. Count \subseteq Good
    <3> HIDE DEF Good
    <3> QED
      BY <1>1, <1>6, <1>7, TurnInduction
  <2>2. Count \in 0 .. Count
    BY <1>1
  <2> QED
    BY <2>1, <2>2
<1> QED
  BY <1>2, <1>8, InstalledType

-------------------------------------------------------------------------------
(* The loop over the options *)

OptionsSeq == Seq(Installed \X STRING)

\* The patterns that the options at some places add, in their order.
AddedAt(P, o) == [m \in 1 .. Cardinality(P) |-> o[Place(P, m)][2]]

LEMMA NothingAdded == ASSUME NEW o PROVE AddedAt({}, o) = << >>
<1>1. Cardinality({}) = 0
  BY FS_EmptySet
<1> QED
  BY <1>1 DEF AddedAt

LEMMA PlaceAdds ==
  ASSUME NEW o, NEW P \in SUBSET Nat, IsFiniteSet(P), NEW k \in Nat, \A i \in P : i < k,
         AddedAt(P, o) \in Seq(STRING)
  PROVE  AddedAt(P \cup {k}, o) = Append(AddedAt(P, o), o[k][2])
<1> DEFINE Q == P \cup {k}
           c == Cardinality(P)
           old == AddedAt(P, o)
           new == AddedAt(Q, o)
<1>1. /\ c \in Nat /\ Cardinality(Q) = c + 1 /\ Place(Q, c + 1) = k
      /\ \A m \in 1 .. c : Place(Q, m) = Place(P, m)
  BY PlaceToTheRight
<1> HIDE DEF c
<1>2. Len(old) = c /\ old \in Seq(STRING) /\ \A m \in 1 .. c : old[m] = o[Place(P, m)][2]
  BY <1>1 DEF AddedAt, c
<1>3. new = [m \in 1 .. c + 1 |-> o[Place(Q, m)][2]]
  BY <1>1 DEF AddedAt
<1> HIDE DEF Q, old, new
<1>4. Append(old, o[k][2]) = [m \in 1 .. c + 1 |-> IF m = c + 1 THEN o[k][2] ELSE old[m]]
  BY <1>1, <1>2
<1>5. ASSUME NEW m \in 1 .. c + 1
       PROVE  o[Place(Q, m)][2] = IF m = c + 1 THEN o[k][2] ELSE old[m]
  <2>1. CASE m = c + 1
    BY <1>1, <2>1
  <2>2. CASE m # c + 1
    <3>1. m \in 1 .. c
      BY <1>1, <2>2
    <3> QED
      BY <1>1, <1>2, <2>2, <3>1
  <2> QED
    BY <2>1, <2>2
<1> QED
  BY <1>3, <1>4, <1>5 DEF Q, old, new

\* What PatternsOf says of the first options.
PlacesUpTo(lang, o, k) ==
  {i \in 1 .. k : o[i][1] = lang /\ ~ \E j \in i .. k : o[j] = << lang, Cleared >>}
ClearedUpTo(lang, o, k) == \E i \in 1 .. k : o[i] = << lang, Cleared >>
PatternsUpTo(lang, o, k) ==
  IF ClearedUpTo(lang, o, k) THEN AddedAt(PlacesUpTo(lang, o, k), o)
  ELSE patternTables[lang] \o AddedAt(PlacesUpTo(lang, o, k), o)

LEMMA PlacesFinite ==
  ASSUME NEW lang, NEW o, NEW k \in Nat
  PROVE  PlacesUpTo(lang, o, k) \in SUBSET Nat /\ IsFiniteSet(PlacesUpTo(lang, o, k))
         /\ \A i \in PlacesUpTo(lang, o, k) : i <= k
<1>1. PlacesUpTo(lang, o, k) \subseteq 1 .. k
  BY DEF PlacesUpTo
<1>2. IsFiniteSet(1 .. k)
  BY FS_Interval
<1> QED
  BY <1>1, <1>2, FS_Subset

\* One more option adds to what should be found what it adds to the sets.
LEMMA OptionGrows ==
  ASSUME NEW o \in OptionsSeq, NEW k \in 1 .. Len(o), NEW lang \in Installed,
         AddedAt(PlacesUpTo(lang, o, k - 1), o) \in Seq(STRING)
  PROVE  /\ AddedAt(PlacesUpTo(lang, o, k), o) \in Seq(STRING)
         /\ PatternsUpTo(lang, o, k) =
              IF o[k][1] # lang THEN PatternsUpTo(lang, o, k - 1)
              ELSE IF o[k][2] = Cleared THEN << >>
              ELSE Append(PatternsUpTo(lang, o, k - 1), o[k][2])
<1> DEFINE P == PlacesUpTo(lang, o, k - 1)
           Q == PlacesUpTo(lang, o, k)
           x == patternTables[lang]
<1>1. /\ k \in Nat /\ k - 1 \in Nat /\ o[k] \in Installed \X STRING
      /\ o[k] = << o[k][1], o[k][2] >> /\ o[k][2] \in STRING
  BY DEF OptionsSeq
<1>2. ClearedUpTo(lang, o, k) <=> ClearedUpTo(lang, o, k - 1) \/ o[k] = << lang, Cleared >>
  <2>1. 1 .. k = (1 .. k - 1) \cup {k}
    BY <1>1
  <2> QED
    BY <2>1 DEF ClearedUpTo
<1>3. ASSUME NEW i \in 1 .. k - 1
      PROVE  (\E j \in i .. k : o[j] = << lang, Cleared >>)
                <=> (\E j \in i .. k - 1 : o[j] = << lang, Cleared >>) \/ o[k] = << lang, Cleared >>
  <2>1. i .. k = (i .. k - 1) \cup {k}
    BY <1>1
  <2> QED
    BY <2>1
<1>4. P \in SUBSET Nat /\ IsFiniteSet(P) /\ (\A i \in P : i < k)
      /\ AddedAt(P, o) \in Seq(STRING) /\ x \in Seq(STRING)
  <2>1. P \in SUBSET Nat /\ IsFiniteSet(P) /\ \A i \in P : i <= k - 1
    BY <1>1, PlacesFinite
  <2>2. x \in Seq(STRING)
    BY PatternTableType DEF Patterns
  <2> QED
    BY <1>1, <2>1, <2>2
<1>5. CASE o[k] = << lang, Cleared >>
  <2>1. Q = {}
    BY <1>5 DEF PlacesUpTo
  <2>2. AddedAt(Q, o) = << >>
    BY <2>1, NothingAdded
  <2>3. ClearedUpTo(lang, o, k) /\ o[k][1] = lang /\ o[k][2] = Cleared
    BY <1>2, <1>5
  <2>4. PatternsUpTo(lang, o, k) = << >>
    BY <2>2, <2>3 DEF PatternsUpTo
  <2>5. << >> \in Seq(STRING)
    OBVIOUS
  <2> QED
    BY <2>2, <2>3, <2>4, <2>5
<1>6. CASE o[k] # << lang, Cleared >> /\ o[k][1] = lang
  <2>1. Q = P \cup {k}
    <3>1. 1 .. k = (1 .. k - 1) \cup {k} /\ k \notin 1 .. k - 1 /\ k .. k = {k}
      BY <1>1
    <3>2. ASSUME NEW i PROVE i \in Q <=> i \in P \cup {k}
      <4>1. CASE i \in 1 .. k - 1
        BY <1>3, <1>6, <3>1, <4>1 DEF PlacesUpTo
      <4>2. CASE i = k
        BY <1>6, <3>1, <4>2 DEF PlacesUpTo
      <4>3. CASE i \notin 1 .. k
        BY <3>1, <4>3 DEF PlacesUpTo
      <4> QED
        BY <3>1, <4>1, <4>2, <4>3
    <3> QED
      BY <3>2
  <2>2. o[k][2] # Cleared
    BY <1>1, <1>6
  <2> HIDE DEF P, Q, x
  <2>3. AddedAt(Q, o) = Append(AddedAt(P, o), o[k][2])
    BY <1>1, <1>4, <2>1, PlaceAdds
  <2>4. Append(AddedAt(P, o), o[k][2]) \in Seq(STRING)
    BY <1>1, <1>4, AppendProperties
  <2>5. x \o AddedAt(Q, o) = Append(x \o AddedAt(P, o), o[k][2])
    BY <1>1, <1>4, <2>3, AppendAfter
  <2>6. PatternsUpTo(lang, o, k) = Append(PatternsUpTo(lang, o, k - 1), o[k][2])
    BY <1>2, <1>6, <2>3, <2>5 DEF PatternsUpTo, P, Q, x
  <2> QED
    BY <1>6, <2>2, <2>3, <2>4, <2>6 DEF Q
<1>7. CASE o[k] # << lang, Cleared >> /\ o[k][1] # lang
  <2>1. Q = P
    <3>1. 1 .. k = (1 .. k - 1) \cup {k} /\ k \notin 1 .. k - 1
      BY <1>1
    <3>2. ASSUME NEW i PROVE i \in Q <=> i \in P
      <4>1. CASE i \in 1 .. k - 1
        BY <1>3, <1>7, <3>1, <4>1 DEF PlacesUpTo
      <4>2. CASE i = k
        BY <1>7, <3>1, <4>2 DEF PlacesUpTo
      <4>3. CASE i \notin 1 .. k
        BY <3>1, <4>3 DEF PlacesUpTo
      <4> QED
        BY <3>1, <4>1, <4>2, <4>3
    <3> QED
      BY <3>2
  <2> HIDE DEF P, Q
  <2>2. PatternsUpTo(lang, o, k) = PatternsUpTo(lang, o, k - 1)
    BY <1>2, <1>7, <2>1 DEF PatternsUpTo, P, Q
  <2> QED
    BY <1>4, <1>7, <2>1, <2>2 DEF Q
<1> QED
  BY <1>1, <1>5, <1>6, <1>7

LEMMA OptionSets ==
  ASSUME NEW s \in PatternSets, NEW lang \in Installed, NEW pattern \in STRING
  PROVE  /\ processLanguageRegex(s, lang, pattern) \in PatternSets
         /\ \A l \in Installed :
              matchRegex(processLanguageRegex(s, lang, pattern), l) =
                IF lang # l THEN matchRegex(s, l)
                ELSE IF pattern = Cleared THEN << >> ELSE Append(matchRegex(s, l), pattern)
<1>1. CASE pattern = Cleared
  BY <1>1, PatternsClear DEF processLanguageRegex
<1>2. CASE pattern # Cleared
  <2>1. processLanguageRegex(s, lang, pattern) = addCompiledTagPattern(s, lang, pattern)
    BY <1>2 DEF processLanguageRegex
  <2>2. /\ addCompiledTagPattern(s, lang, pattern) \in PatternSets
        /\ \A l \in Installed :
             matchRegex(addCompiledTagPattern(s, lang, pattern), l) =
               IF l = lang THEN Append(matchRegex(s, l), pattern) ELSE matchRegex(s, l)
    BY PatternAdds
  <2> QED
    BY <1>2, <2>1, <2>2
<1> QED
  BY <1>1, <1>2

\* After the options every language has the patterns they leave it.
LEMMA OptionsAdded ==
  ASSUME NEW s \in PatternSets, \A lang \in Installed : matchRegex(s, lang) = patternTables[lang],
         NEW o \in OptionsSeq
  PROVE  /\ WithOptions(s, o) \in PatternSets
         /\ \A lang \in Installed : matchRegex(WithOptions(s, o), lang) = PatternsOf(lang, o)
<1> DEFINE N == Len(o)
           Follows(after) == after = [k \in 0 .. N |-> IF k = 0 THEN s
                               ELSE processLanguageRegex(after[k - 1], o[k][1], o[k][2])]
           A == CHOOSE after : Follows(after)
<1>1. /\ N \in Nat /\ DOMAIN o = 1 .. N
      /\ \A k \in 1 .. N : o[k][1] \in Installed /\ o[k][2] \in STRING
  BY DEF OptionsSeq
<1>2. WithOptions(s, o) = A[N]
  BY DEF WithOptions
<1> HIDE DEF N
<1>3. Follows(A)
  <2> DEFINE step == [p \in PatternSets \X (1 .. N) |->
                        processLanguageRegex(p[1], o[p[2]][1], o[p[2]][2])]
  <2>1. step \in [PatternSets \X (1 .. N) -> PatternSets]
    <3>1. ASSUME NEW u \in PatternSets, NEW k \in 1 .. N
          PROVE  processLanguageRegex(u, o[k][1], o[k][2]) \in PatternSets
      BY <1>1, OptionSets
    <3> QED
      BY <3>1
  <2>2. PICK after : Loop(PatternSets, s, N, step, after)
    <3> HIDE DEF step
    <3> QED
      BY <1>1, <2>1, LoopRuns
  <2>3. ASSUME NEW k \in 0 .. N
        PROVE  after[k] = IF k = 0 THEN s
                          ELSE processLanguageRegex(after[k - 1], o[k][1], o[k][2])
    <3>1. CASE k # 0
      <4>1. k \in 1 .. N /\ k - 1 \in 0 .. N
        BY <1>1, <3>1
      <4>2. after[k - 1] \in PatternSets /\ after[k] = step[<< after[k - 1], k >>]
        BY <2>2, <4>1 DEF Loop
      <4> QED
        BY <3>1, <4>1, <4>2
    <3> QED
      BY <2>2, <3>1 DEF Loop
  <2>4. Follows(after)
    BY <2>2, <2>3 DEF Loop
  <2> HIDE DEF Follows
  <2> QED
    BY <2>4
<1>4. A[0] = s /\ \A k \in 1 .. N : A[k] = processLanguageRegex(A[k - 1], o[k][1], o[k][2])
  <2> HIDE DEF A
  <2>1. 0 \in 0 .. N /\ \A k \in 1 .. N : k \in 0 .. N /\ k # 0
    BY <1>1
  <2> QED
    BY <1>3, <2>1
<1> HIDE DEF A
<1> DEFINE Says(u, k) ==
             \A lang \in Installed :
                /\ AddedAt(PlacesUpTo(lang, o, k), o) \in Seq(STRING)
                /\ matchRegex(u, lang) = PatternsUpTo(lang, o, k)
           Good == {k \in 0 .. N : A[k] \in PatternSets /\ Says(A[k], k)}
<1>5. 0 \in Good
  <2>1. ASSUME NEW lang \in Installed
        PROVE  /\ AddedAt(PlacesUpTo(lang, o, 0), o) \in Seq(STRING)
               /\ matchRegex(s, lang) = PatternsUpTo(lang, o, 0)
    <3>1. PlacesUpTo(lang, o, 0) = {} /\ ~ ClearedUpTo(lang, o, 0)
      BY DEF PlacesUpTo, ClearedUpTo
    <3>2. AddedAt(PlacesUpTo(lang, o, 0), o) = << >>
      BY <3>1, NothingAdded
    <3>3. << >> \in Seq(STRING)
      OBVIOUS
    <3>4. patternTables[lang] \o << >> = patternTables[lang]
      <4>1. patternTables[lang] \in Seq(STRING)
        BY PatternTableType DEF Patterns
      <4> QED
        BY <4>1, ConcatEmptySeq
    <3> QED
      BY <3>1, <3>2, <3>3, <3>4 DEF PatternsUpTo
  <2> QED
    BY <1>1, <1>4, <2>1
<1>6. ASSUME NEW k \in 1 .. N, k - 1 \in Good PROVE k \in Good
  <2> DEFINE u == A[k - 1]
             l == o[k][1]
             p == o[k][2]
             v == processLanguageRegex(u, l, p)
  <2>1. u \in PatternSets /\ Says(u, k - 1) /\ l \in Installed /\ p \in STRING /\ k \in 0 .. N
        /\ A[k] = v
    BY <1>1, <1>4, <1>6
  <2> HIDE DEF u, l, p
  <2>2. /\ v \in PatternSets
        /\ \A lang \in Installed :
             matchRegex(v, lang) = IF l # lang THEN matchRegex(u, lang)
                                   ELSE IF p = Cleared THEN << >>
                                   ELSE Append(matchRegex(u, lang), p)
    BY <2>1, OptionSets
  <2> HIDE DEF v
  <2>3. ASSUME NEW lang \in Installed
        PROVE  /\ AddedAt(PlacesUpTo(lang, o, k), o) \in Seq(STRING)
               /\ matchRegex(v, lang) = PatternsUpTo(lang, o, k)
    <3>1. /\ AddedAt(PlacesUpTo(lang, o, k - 1), o) \in Seq(STRING)
          /\ matchRegex(u, lang) = PatternsUpTo(lang, o, k - 1)
      BY <2>1
    <3>2. /\ AddedAt(PlacesUpTo(lang, o, k), o) \in Seq(STRING)
          /\ PatternsUpTo(lang, o, k) =
                IF l # lang THEN PatternsUpTo(lang, o, k - 1)
                ELSE IF p = Cleared THEN << >>
                ELSE Append(PatternsUpTo(lang, o, k - 1), p)
      BY <3>1, OptionGrows DEF N, l, p
    <3> QED
      BY <2>2, <3>1, <3>2
  <2> QED
    BY <2>1, <2>2, <2>3
<1>7. N \in Good
  <2>1. 0 .. N \subseteq Good
    <3> HIDE DEF Good
    <3> QED
      BY <1>1, <1>5, <1>6, TurnInduction
  <2>2. N \in 0 .. N
    BY <1>1
  <2> QED
    BY <2>1, <2>2
<1>8. ASSUME NEW lang \in Installed PROVE PatternsUpTo(lang, o, N) = PatternsOf(lang, o)
  BY <1>1 DEF PatternsUpTo, PatternsOf, ClearedUpTo, PlacesUpTo, AddedAt, Place, N
<1> QED
  BY <1>2, <1>7, <1>8

-------------------------------------------------------------------------------
(* One import after another *)

Active == {"begun", "parsing", "dumped"}

NothingIn(t, sets) ==
  \A lang \in Installed :
    /\ \A word \in Words : Looked(t, word, lang) = << >>
    /\ matchRegex(sets, lang) = << >>

AllIn(t, sets, options) ==
  \A lang \in Installed :
    /\ \A word \in Words : Looked(t, word, lang) = ValueOf(word, lang)
    /\ matchRegex(sets, lang) = PatternsOf(lang, options)

\* The inductive invariant: an import finds what its run has put into the tables,
\* and nothing is to be found in them between two imports.
TablesInv ==
  /\ TableOK(HashTable)
  /\ Sets \in PatternSets
  /\ pc = "idle" => NothingIn(HashTable, Sets)
  /\ pc \in Active => AllIn(HashTable, Sets, asked)

LEMMA NotAllocated ==
  ASSUME NEW t, ~ t.hashTableIsAllocated
  PROVE  \A word \in Words, lang \in Installed : Looked(t, word, lang) = << >>
<1>1. getHashTable(t).chains = [w \in Words |-> << >>]
  BY DEF getHashTable, NoHashTable
<1> QED
  BY <1>1, EmptyChain DEF Looked

LEMMA NewTables ==
  /\ TableOK(NoHashTable) /\ ~ NoHashTable.hashTableIsAllocated
  /\ NoSets \in PatternSets /\ \A lang \in Installed : matchRegex(NoSets, lang) = << >>
<1>1. << >> \in Seq(Entries)
  OBVIOUS
<1>2. [w \in Words |-> << >>] \in [Words -> Seq(Entries)]
  BY <1>1
<1>3. TableOK(NoHashTable) /\ ~ NoHashTable.hashTableIsAllocated
  BY <1>2 DEF TableOK, KeywordTables, NoHashTable
<1>4. << >> \in Seq(Patterns) /\ Len(<< >>) = 0
  OBVIOUS
<1>5. NoSets \in PatternSets
  BY <1>4 DEF NoSets, PatternSets
<1>6. ASSUME NEW lang \in Installed PROVE matchRegex(NoSets, lang) = << >>
  BY InstalledType DEF matchRegex, NoSets
<1> QED
  BY <1>3, <1>5, <1>6

\* What freeing leaves, a table that had never been allocated included.
LEMMA FreedTable ==
  ASSUME NEW t, TableOK(t)
  PROVE  TableOK(freeKeywordTable(t)) /\ ~ freeKeywordTable(t).hashTableIsAllocated
<1>1. CASE t.pointer = "NULL"
  BY <1>1 DEF freeKeywordTable, TableOK
<1>2. CASE t.pointer # "NULL"
  BY <1>2 DEF freeKeywordTable, TableOK, KeywordTables
<1> QED
  BY <1>1, <1>2

LEMMA TablesKept ==
  ASSUME TablesInv, UNCHANGED tables,
         pc' \in {pc, "crashed"} \/ (pc \in Active /\ pc' \in Active)
  PROVE  TablesInv'
<1>1. HashTable' = HashTable /\ Sets' = Sets /\ asked' = asked
  BY DEF tables
<1>2. (TableOK(HashTable) /\ Sets \in PatternSets)'
  BY <1>1 DEF TablesInv
<1>3. (pc = "idle" => NothingIn(HashTable, Sets))'
  <2>1. pc' = "idle" => pc = "idle"
    BY DEF Active
  <2>2. NothingIn(HashTable, Sets)' <=> NothingIn(HashTable, Sets)
    BY <1>1 DEF NothingIn
  <2> QED
    BY <2>1, <2>2 DEF TablesInv
<1>4. (pc \in Active => AllIn(HashTable, Sets, asked))'
  <2>1. pc' \in Active => pc \in Active
    BY DEF Active
  <2>2. AllIn(HashTable, Sets, asked)' <=> AllIn(HashTable, Sets, asked)
    BY <1>1 DEF AllIn
  <2> QED
    BY <2>1, <2>2 DEF TablesInv
<1> QED
  BY <1>2, <1>3, <1>4 DEF TablesInv

LEMMA TablesInit == Init => TablesInv
<1> SUFFICES ASSUME Init PROVE TablesInv
  OBVIOUS
<1>1. HashTable = NoHashTable /\ Sets = NoSets /\ pc = "idle"
  BY DEF Init
<1>2. NothingIn(NoHashTable, NoSets)
  BY NewTables, NotAllocated DEF NothingIn
<1> QED
  BY <1>1, <1>2, NewTables DEF TablesInv, Active

LEMMA TablesStep == TablesInv /\ [Next]_vars => TablesInv'
<1> SUFFICES ASSUME TablesInv, [Next]_vars PROVE TablesInv'
  OBVIOUS
<1>1. ASSUME NEW u \in Utis, NEW b \in NameLanguages, NEW c \in ConfigLanguages,
             BeginImport(u, b, c)
      PROVE  TablesInv'
  <2>1. /\ pc = "idle" /\ pc' = "begun" /\ HashTable' = initializeKeywords(HashTable)
        /\ asked' \in OptionsSeq /\ Sets' = WithOptions(initializePatterns(Sets), asked')
    BY <1>1, TablesAssumption DEF BeginImport, OptionsSeq
  <2>2. TableOK(HashTable) /\ Sets \in PatternSets /\ NothingIn(HashTable, Sets)
    BY <2>1 DEF TablesInv
  <2>3. /\ TableOK(initializeKeywords(HashTable))
        /\ \A word \in Words, lang \in Installed :
             Looked(initializeKeywords(HashTable), word, lang) = ValueOf(word, lang)
    <3>1. \A word \in Words, lang \in Installed : Looked(HashTable, word, lang) = << >>
      BY <2>2 DEF NothingIn
    <3> QED
      BY <2>2, <3>1, KeywordsAdded
  <2>4. /\ initializePatterns(Sets) \in PatternSets
        /\ \A lang \in Installed : matchRegex(initializePatterns(Sets), lang) = patternTables[lang]
    <3>1. \A lang \in Installed : matchRegex(Sets, lang) = << >>
      BY <2>2 DEF NothingIn
    <3> QED
      BY <2>2, <3>1, PatternsAdded
  <2>5. /\ Sets' \in PatternSets
        /\ \A lang \in Installed : matchRegex(Sets', lang) = PatternsOf(lang, asked')
    <3> DEFINE s == initializePatterns(Sets)
               o == asked'
               v == WithOptions(s, o)
    <3>1. s \in PatternSets /\ o \in OptionsSeq
          /\ \A lang \in Installed : matchRegex(s, lang) = patternTables[lang]
      BY <2>1, <2>4
    <3> HIDE DEF s, o
    <3>2. v \in PatternSets /\ \A lang \in Installed : matchRegex(v, lang) = PatternsOf(lang, o)
      BY <3>1, OptionsAdded
    <3>3. Sets' = v
      BY <2>1 DEF s, o
    <3> HIDE DEF v
    <3> QED
      BY <3>2, <3>3 DEF o
  <2>6. AllIn(HashTable, Sets, asked)'
    BY <2>1, <2>3, <2>5 DEF AllIn
  <2> QED
    BY <2>1, <2>3, <2>5, <2>6 DEF TablesInv
<1>2. CASE PrepareContext
  BY <1>2, TablesKept DEF PrepareContext, Active
<1>3. CASE DumpContextInAttributes
  BY <1>3, TablesKept DEF DumpContextInAttributes, Active
<1>4. CASE CleanupContext
  <2>1. /\ pc' = "idle" /\ HashTable' = freeKeywordTable(HashTable)
        /\ Sets' = NoSets
    BY <1>4 DEF CleanupContext, FreeResources, freeRegexResources
  <2>2. TableOK(HashTable') /\ ~ HashTable'.hashTableIsAllocated
    BY <2>1, FreedTable DEF TablesInv
  <2>3. NothingIn(HashTable, Sets)'
    BY <2>1, <2>2, NotAllocated, NewTables DEF NothingIn
  <2> QED
    BY <2>1, <2>2, <2>3, NewTables DEF TablesInv, Active
<1>5. ASSUME NEW l \in Letters, NEW v \in BOOLEAN, NotifySystemTagEntry(l, v) PROVE TablesInv'
  BY <1>5, TablesKept DEF NotifySystemTagEntry, Active
<1>6. CASE ListFault
  BY <1>6, TablesKept DEF ListFault, Crash
<1>7. ASSUME NEW m \in ImportNos, HostRelease(m) PROVE TablesInv'
  BY <1>7, TablesKept DEF HostRelease, Crash
<1>8. CASE Relaunch
  <2>1. HashTable' = NoHashTable /\ Sets' = NoSets /\ pc' = "idle"
    BY <1>8 DEF Relaunch
  <2>2. NothingIn(NoHashTable, NoSets)
    BY NewTables, NotAllocated DEF NothingIn
  <2> QED
    BY <2>1, <2>2, NewTables DEF TablesInv, Active, NothingIn
<1>9. CASE UNCHANGED vars
  BY <1>9, TablesKept DEF vars, tables
<1> QED
  BY <1>1, <1>2, <1>3, <1>4, <1>5, <1>6, <1>7, <1>8, <1>9 DEF Next

LEMMA TablesHold == TablesInv => TablesOfThisRun
BY LookupIs DEF TablesInv, TablesOfThisRun, AllIn, Active

\* Every import works with the keywords and patterns of its own run: for all
\* languages, words, buckets, patterns and options, and all imports, crashes and
\* relaunches before it, lookupKeyword gives a word the value its own language gave
\* it first, and matchRegex tries the patterns of the language's parser and of the
\* options since the last that cleared them (keyword.c, lregex.c).
THEOREM TablesCorrect == Spec => []TablesOfThisRun
<1>1. Spec => []TablesInv
  BY TablesInit, TablesStep, PTL DEF Spec
<1> QED
  BY <1>1, TablesHold, PTL
===============================================================================
