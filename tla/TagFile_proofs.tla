---------------------------- MODULE TagFile_proofs ----------------------------
(***************************************************************************)
(* Proofs about the tag file of a run: the lines counted are the lines     *)
(* there are (LinesCounted), the file is a TagBook (TagBookKept), and its  *)
(* flag tells the order of its lines (FlagTells).                          *)
(*                                                                         *)
(* The argument: a text that lines were put together to is taken apart     *)
(* into these lines (Parses); qsort and the removal of doubles keep the    *)
(* set of lines and leave them in order (OrdersSort, DistinctKeeps); the   *)
(* file is at every moment the lines of the source files done, the tags of *)
(* the present pass and, after a pass that failed, what is left of it      *)
(* (Filed).                                                                *)
(***************************************************************************)
EXTENDS TagFile, Iteration, SequenceTheorems

Texts == Seq(Characters)

LEMMA WholeLine ==
  ASSUME NEW line \in WholeLines
  PROVE  /\ line \in Texts /\ Len(line) \in Nat \ {0} /\ line[Len(line)] = NL
         /\ \A i \in 1 .. Len(line) : line[i] = NL => i = Len(line)
<1>1. line \in Seq(Characters) /\ line # << >> /\ line[Len(line)] = NL
      /\ \A i \in 1 .. (Len(line) - 1) : line[i] # NL
  BY DEF WholeLines
<1>2. Len(line) \in Nat \ {0}
  BY <1>1, EmptySeq
<1> QED
  BY <1>1, <1>2 DEF Texts

-----------------------------------------------------------------------------
(* Lines put together.                                                     *)

Joined(lines, after) ==
  /\ after \in [0 .. Len(lines) -> Texts]
  /\ after[0] = << >>
  /\ \A k \in 1 .. Len(lines) : after[k] = after[k - 1] \o lines[k]

LEMMA BytesJoin ==
  ASSUME NEW lines \in Seq(WholeLines)
  PROVE  \E after : Joined(lines, after) /\ Bytes(lines) = after[Len(lines)]
<1> DEFINE n == Len(lines)
           Follows(f) == f = [i \in 0 .. n |-> IF i = 0 THEN << >> ELSE f[i - 1] \o lines[i]]
           A == CHOOSE f : Follows(f)
<1>1. n \in Nat /\ \A k \in 1 .. n : lines[k] \in Texts
  BY WholeLine
<1>2. Bytes(lines) = A[n]
  BY DEF Bytes
<1> HIDE DEF n
<1>3. Follows(A)
  <2> DEFINE step == [p \in Texts \X (1 .. n) |-> p[1] \o lines[p[2]]]
  <2>1. step \in [Texts \X (1 .. n) -> Texts]
    BY <1>1 DEF Texts
  <2>2. << >> \in Texts
    BY DEF Texts
  <2>3. PICK after : Loop(Texts, << >>, n, step, after)
    <3> HIDE DEF step
    <3> QED
      BY <1>1, <2>1, <2>2, LoopRuns
  <2>4. ASSUME NEW k \in 0 .. n
        PROVE  after[k] = IF k = 0 THEN << >> ELSE after[k - 1] \o lines[k]
    <3>1. CASE k # 0
      <4>1. k \in 1 .. n /\ k - 1 \in 0 .. n
        BY <1>1, <3>1
      <4>2. after[k - 1] \in Texts /\ after[k] = step[<< after[k - 1], k >>]
        BY <2>3, <4>1 DEF Loop
      <4> QED
        BY <3>1, <4>1, <4>2
    <3> QED
      BY <2>3, <3>1 DEF Loop
  <2>5. Follows(after)
    BY <2>3, <2>4 DEF Loop
  <2> HIDE DEF Follows
  <2> QED
    BY <2>5
<1>4. A[0] = << >> /\ \A k \in 1 .. n : A[k] = A[k - 1] \o lines[k]
  <2> HIDE DEF A
  <2>1. 0 \in 0 .. n /\ \A k \in 1 .. n : k \in 0 .. n /\ k # 0
    BY <1>1
  <2> QED
    BY <1>3, <2>1
<1>5. DOMAIN A = 0 .. n /\ A = [i \in DOMAIN A |-> A[i]]
  <2> HIDE DEF A
  <2> QED
    BY <1>3
<1> HIDE DEF A, Follows
<1>6. \A k \in 0 .. n : A[k] \in Texts
  <2> DEFINE Good == {k \in 0 .. n : A[k] \in Texts}
  <2>0. n \in Nat
    BY <1>1
  <2>1. 0 \in Good
    <3>1. A[0] \in Texts /\ 0 \in 0 .. n
      BY <2>0, <1>4 DEF Texts
    <3> QED
      BY <3>1
  <2>2. ASSUME NEW k \in 1 .. n, k - 1 \in Good PROVE k \in Good
    <3>1. A[k] = A[k - 1] \o lines[k]
      BY <1>4
    <3>2. A[k - 1] \in Texts
      BY <2>2
    <3>3. lines[k] \in Texts /\ k \in 0 .. n
      BY <1>1
    <3>4. A[k] \in Texts
      BY <3>1, <3>2, <3>3 DEF Texts
    <3> QED
      BY <3>3, <3>4
  <2>3. 0 .. n \subseteq Good
    <3> HIDE DEF Good
    <3> QED
      BY <2>0, <2>1, <2>2, TurnInduction
  <2> QED
    BY <2>3
<1>7. A \in [0 .. n -> Texts]
  BY <1>5, <1>6
<1> QED
  BY <1>2, <1>4, <1>7 DEF Joined, n

LEMMA BytesType ==
  ASSUME NEW lines \in Seq(WholeLines)
  PROVE  Bytes(lines) \in Texts
<1>1. PICK after : Joined(lines, after) /\ Bytes(lines) = after[Len(lines)]
  BY BytesJoin
<1>2. Len(lines) \in 0 .. Len(lines)
  OBVIOUS
<1> QED
  BY <1>1, <1>2 DEF Joined

LEMMA BytesNone == Bytes(<< >>) = << >>
<1>1. << >> \in Seq(WholeLines) /\ Len(<< >>) = 0
  OBVIOUS
<1>2. PICK after : Joined(<< >>, after) /\ Bytes(<< >>) = after[Len(<< >>)]
  BY <1>1, BytesJoin
<1> QED
  BY <1>1, <1>2 DEF Joined

\* One line more is put after the others.
LEMMA BytesAppend ==
  ASSUME NEW lines \in Seq(WholeLines), NEW line \in WholeLines
  PROVE  Bytes(Append(lines, line)) = Bytes(lines) \o line
<1> DEFINE n == Len(lines)
           more == Append(lines, line)
<1>1. n \in Nat /\ more \in Seq(WholeLines) /\ Len(more) = n + 1 /\ more[n + 1] = line
      /\ \A k \in 1 .. n : more[k] = lines[k]
  OBVIOUS
<1>2. PICK f : Joined(lines, f) /\ Bytes(lines) = f[n]
  BY BytesJoin
<1>3. PICK g : Joined(more, g) /\ Bytes(more) = g[Len(more)]
  BY <1>1, BytesJoin
<1> HIDE DEF n, more
<1>4. f[0] = << >> /\ \A k \in 1 .. n : f[k] = f[k - 1] \o lines[k]
  BY <1>2 DEF Joined, n
<1>5. g[0] = << >> /\ \A k \in 1 .. n + 1 : g[k] = g[k - 1] \o more[k]
  BY <1>1, <1>3 DEF Joined
<1> DEFINE Good == {k \in 0 .. n : f[k] = g[k]}
<1>6. 0 \in Good
  BY <1>1, <1>4, <1>5
<1>7. ASSUME NEW k \in 1 .. n, k - 1 \in Good PROVE k \in Good
  <2>1. k \in 0 .. n /\ k \in 1 .. n + 1 /\ f[k - 1] = g[k - 1]
    BY <1>1, <1>7
  <2>2. f[k] = f[k - 1] \o lines[k] /\ g[k] = g[k - 1] \o more[k] /\ more[k] = lines[k]
    BY <1>1, <1>4, <1>5, <2>1
  <2> QED
    BY <2>1, <2>2
<1>8. 0 .. n \subseteq Good
  <2> HIDE DEF Good
  <2> QED
    BY <1>1, <1>6, <1>7, TurnInduction
<1>9. n \in 0 .. n /\ n + 1 \in 1 .. n + 1 /\ (n + 1) - 1 = n
  BY <1>1
<1>10. g[n + 1] = g[n] \o line /\ f[n] = g[n]
  BY <1>1, <1>5, <1>8, <1>9
<1> QED
  BY <1>1, <1>2, <1>3, <1>10 DEF more

-----------------------------------------------------------------------------
(* A text taken apart: its ends of lines, one after the other.             *)

LEMMA EndsAppend ==
  ASSUME NEW x \in Texts, x # << >> => x[Len(x)] = NL, NEW line \in WholeLines
  PROVE  /\ Ends(x \o line) = Ends(x) \cup {Len(x) + Len(line)}
         /\ Ends(x) \in SUBSET (1 .. Len(x)) /\ IsFiniteSet(Ends(x))
<1> DEFINE y == x \o line
           m == Len(x)
           l == Len(line)
<1>1. /\ line \in Seq(Characters) /\ l \in Nat \ {0} /\ line[l] = NL
      /\ \A i \in 1 .. l : line[i] = NL => i = l
  BY WholeLine DEF Texts
<1>2. x \in Seq(Characters) /\ m \in Nat /\ DOMAIN x = 1 .. m /\ (m > 0 => x[m] = NL)
  BY DEF Texts
<1>3. Len(y) = m + l /\ DOMAIN y = 1 .. (m + l)
      /\ \A i \in 1 .. (m + l) : y[i] = IF i <= m THEN x[i] ELSE line[i - m]
  BY <1>1, <1>2
<1> HIDE DEF y, m, l
<1>4. ASSUME NEW i PROVE i \in Ends(y) <=> i \in Ends(x) \cup {m + l}
  <2>1. i \in Ends(y) <=> i \in 1 .. (m + l) /\ (y[i] = NL \/ i = m + l)
    BY <1>3 DEF Ends
  <2>2. i \in Ends(x) <=> i \in 1 .. m /\ x[i] = NL
    BY <1>2 DEF Ends, m
  <2>3. CASE i \in 1 .. m
    <3>1. y[i] = x[i] /\ i \in 1 .. (m + l) /\ i # m + l
      BY <1>1, <1>2, <1>3, <2>3
    <3> QED
      BY <2>1, <2>2, <2>3, <3>1
  <2>4. CASE i \in (m + 1) .. (m + l)
    <3>0. m \in Nat /\ l \in Nat
      BY <1>1, <1>2
    <3>1. i - m \in 1 .. l /\ i \notin 1 .. m /\ i \in 1 .. (m + l) /\ ~ i <= m /\ i \in Int
      BY <2>4, <3>0
    <3>2. y[i] = NL => i = m + l
      <4>1. y[i] = line[i - m]
        BY <1>3, <3>1
      <4>2. line[i - m] = NL => i - m = l
        BY <1>1, <3>1
      <4> QED
        BY <3>0, <3>1, <4>1, <4>2
    <3> QED
      BY <2>1, <2>2, <3>1, <3>2
  <2>5. CASE i \notin 1 .. (m + l)
    <3>1. i \notin 1 .. m /\ i # m + l
      BY <1>1, <1>2, <2>5
    <3> QED
      BY <2>1, <2>2, <2>5, <3>1
  <2> QED
    BY <1>1, <1>2, <2>3, <2>4, <2>5
<1>5. Ends(x) \in SUBSET (1 .. m)
  BY <1>2 DEF Ends
<1>6. IsFiniteSet(1 .. m)
  BY <1>2, FS_Interval
<1>7. IsFiniteSet(Ends(x))
  BY <1>5, <1>6, FS_Subset
<1>8. Ends(y) = Ends(x) \cup {m + l}
  BY <1>4
<1> QED
  BY <1>5, <1>7, <1>8 DEF y, m, l

\* Where the n-th line of a text begins and ends.
First(x, n) == IF n = 1 THEN 1 ELSE Nth(Ends(x), n - 1) + 1
Final(x, n) == Nth(Ends(x), n)

\* A text whose lines, all whole, are these.
Parsed(lines, x) ==
  /\ x \in Texts /\ (x # << >> => x[Len(x)] = NL)
  /\ Cardinality(Ends(x)) = Len(lines)
  /\ \A n \in 1 .. Len(lines) : Final(x, n) \in 1 .. Len(x)
  /\ \A n \in 1 .. Len(lines) : lines[n] = SubSeq(x, First(x, n), Final(x, n))
  /\ Len(x) = IF Len(lines) = 0 THEN 0 ELSE Final(x, Len(lines))

LEMMA ParsedAppend ==
  ASSUME NEW lines \in Seq(WholeLines), NEW x, Parsed(lines, x), NEW line \in WholeLines
  PROVE  Parsed(Append(lines, line), x \o line)
<1> DEFINE y == x \o line
           more == Append(lines, line)
           n == Len(lines)
           m == Len(x)
           l == Len(line)
           E == Ends(x)
           F == Ends(y)
<1>1. /\ x \in Texts /\ (x # << >> => x[Len(x)] = NL)
      /\ Cardinality(E) = n
      /\ \A k \in 1 .. n : Final(x, k) \in 1 .. m
      /\ \A k \in 1 .. n : lines[k] = SubSeq(x, First(x, k), Final(x, k))
      /\ m = IF n = 0 THEN 0 ELSE Final(x, n)
  BY DEF Parsed
<1>2. line \in Seq(Characters) /\ l \in Nat \ {0} /\ line[l] = NL /\ x \in Seq(Characters)
  BY <1>1, WholeLine DEF Texts
<1>3. m \in Nat /\ y \in Seq(Characters) /\ Len(y) = m + l /\ y[m + l] = NL
  BY <1>2
<1>4. n \in Nat /\ Len(more) = n + 1 /\ more[n + 1] = line /\ \A k \in 1 .. n : more[k] = lines[k]
  OBVIOUS
<1>5. \A i, j \in Int : 1 <= i /\ j <= m => SubSeq(y, i, j) = SubSeq(x, i, j)
  BY <1>2
<1>6. SubSeq(y, m + 1, m + l) = line
  BY <1>2
<1>7. F = E \cup {m + l} /\ E \in SUBSET (1 .. m) /\ IsFiniteSet(E)
  BY <1>1, EndsAppend
<1> HIDE DEF y, more, n, m, l, E, F
<1>8. /\ Cardinality(F) = n + 1
      /\ \A k \in 1 .. n : Nth(F, k) = Nth(E, k)
      /\ Nth(F, n + 1) = m + l
  <2>1. E \in SUBSET Nat /\ m + l \in Nat /\ \A i \in E : i < m + l
    BY <1>2, <1>3, <1>7
  <2>2. /\ Cardinality(E \cup {m + l}) = Cardinality(E) + 1
        /\ \A k \in 1 .. Cardinality(E) : Place(E \cup {m + l}, k) = Place(E, k)
        /\ Place(E \cup {m + l}, Cardinality(E) + 1) = m + l
    BY <1>7, <2>1, PlaceToTheRight
  <2>3. \A P, k : Nth(P, k) = Place(P, k)
    BY DEF Nth, Place
  <2>4. Cardinality(E) = n
    BY <1>1 DEF E, n
  <2> QED
    BY <1>7, <2>2, <2>3, <2>4
<1>9. ASSUME NEW k \in 1 .. n
      PROVE  Final(y, k) = Final(x, k) /\ First(y, k) = First(x, k) /\ First(x, k) \in Int
             /\ 1 <= First(x, k) /\ Final(x, k) \in 1 .. m
  <2>1. Final(y, k) = Final(x, k) /\ Final(x, k) \in 1 .. m
    BY <1>1, <1>8 DEF Final, E, F, n, m
  <2>2. CASE k = 1
    BY <2>1, <2>2 DEF First
  <2>3. CASE k # 1
    <3>1. k - 1 \in 1 .. n
      BY <1>4, <2>3
    <3>2. Nth(F, k - 1) = Nth(E, k - 1) /\ Nth(E, k - 1) \in 1 .. m
      BY <1>1, <1>8, <3>1 DEF Final, E, n, m
    <3>3. First(y, k) = Nth(F, k - 1) + 1 /\ First(x, k) = Nth(E, k - 1) + 1
      BY <2>3 DEF First, E, F
    <3> QED
      BY <1>3, <2>1, <3>2, <3>3
  <2> QED
    BY <2>2, <2>3
<1>10. Final(y, n + 1) = m + l
  BY <1>8 DEF Final, F
<1>11. First(y, n + 1) = m + 1
  <2>1. CASE n = 0
    BY <1>1, <2>1 DEF First, n, m
  <2>2. CASE n # 0
    <3>1. n \in 1 .. n /\ n + 1 # 1 /\ (n + 1) - 1 = n
      BY <1>4, <2>2
    <3>2. Nth(F, n) = m
      BY <1>1, <1>8, <2>2, <3>1 DEF Final, E, n, m
    <3> QED
      BY <3>1, <3>2 DEF First, F
  <2> QED
    BY <2>1, <2>2
<1>12. ASSUME NEW k \in 1 .. (n + 1)
       PROVE  Final(y, k) \in 1 .. (m + l) /\ more[k] = SubSeq(y, First(y, k), Final(y, k))
  <2>1. CASE k = n + 1
    BY <1>2, <1>3, <1>4, <1>6, <1>10, <1>11, <2>1
  <2>2. CASE k \in 1 .. n
    <3>1. more[k] = lines[k] /\ lines[k] = SubSeq(x, First(x, k), Final(x, k))
      BY <1>1, <1>4, <2>2 DEF n
    <3>2. Final(x, k) \in Int /\ Final(x, k) <= m /\ Final(x, k) \in 1 .. (m + l)
      BY <1>2, <1>3, <1>9, <2>2
    <3>3. SubSeq(y, First(x, k), Final(x, k)) = SubSeq(x, First(x, k), Final(x, k))
      BY <1>5, <1>9, <2>2, <3>2
    <3> QED
      BY <1>9, <2>2, <3>1, <3>2, <3>3
  <2>3. k = n + 1 \/ k \in 1 .. n
    BY <1>4
  <2> QED
    BY <2>1, <2>2, <2>3
<1>13. n + 1 # 0
  BY <1>4
<1>14. Parsed(more, y)
  BY <1>3, <1>4, <1>8, <1>10, <1>12, <1>13 DEF Parsed, Texts, F
<1> QED
  BY <1>14 DEF more, y

\* Whole lines put together are the lines of what they make.
LEMMA Parses ==
  ASSUME NEW lines \in Seq(WholeLines)
  PROVE  Parsed(lines, Bytes(lines))
<1> DEFINE T == {s \in Seq(WholeLines) : Parsed(s, Bytes(s))}
<1>1. << >> \in T
  <2>1. << >> \in Seq(WholeLines) /\ << >> \in Texts /\ Len(<< >>) = 0
    BY DEF Texts
  <2>2. Ends(<< >>) = {}
    BY DEF Ends
  <2>3. Cardinality({}) = 0
    BY FS_EmptySet
  <2>4. Parsed(<< >>, << >>)
    <3>1. ASSUME NEW e, e = << >>, e \in Texts, Len(e) = 0, Cardinality(Ends(e)) = 0 PROVE Parsed(e, e)
      <4>1. \A n \in Nat : n \notin 1 .. 0
        OBVIOUS
      <4> QED
        BY <3>1, <4>1 DEF Parsed
    <3> QED
      BY <2>1, <2>2, <2>3, <3>1
  <2> QED
    BY <2>1, <2>4, BytesNone
<1>2. ASSUME NEW s \in Seq(WholeLines), s \in T, NEW e \in WholeLines PROVE Append(s, e) \in T
  <2>1. Parsed(s, Bytes(s))
    BY <1>2
  <2>2. Parsed(Append(s, e), Bytes(s) \o e)
    BY <2>1, ParsedAppend
  <2>3. Append(s, e) \in Seq(WholeLines)
    OBVIOUS
  <2>4. Bytes(Append(s, e)) = Bytes(s) \o e
    BY BytesAppend
  <2> QED
    BY <2>2, <2>3, <2>4
<1>3. Seq(WholeLines) \subseteq T
  <2> HIDE DEF T
  <2> QED
    BY <1>1, <1>2, SeqInduction
<1> QED
  BY <1>3

LEMMA LinesOfBytes ==
  ASSUME NEW lines \in Seq(WholeLines)
  PROVE  LinesOf(Bytes(lines)) = lines
<1> DEFINE x == Bytes(lines)
<1>1. Parsed(lines, x)
  BY Parses
<1> HIDE DEF x
<1>2. Cardinality(Ends(x)) = Len(lines)
      /\ \A n \in 1 .. Len(lines) : lines[n] = SubSeq(x, First(x, n), Final(x, n))
  BY <1>1 DEF Parsed
<1>3. LinesOf(x) = [n \in 1 .. Cardinality(Ends(x)) |-> SubSeq(x, First(x, n), Final(x, n))]
  BY DEF LinesOf, First, Final
<1>4. lines = [n \in 1 .. Len(lines) |-> lines[n]]
  OBVIOUS
<1> QED
  BY <1>2, <1>3, <1>4 DEF x

-----------------------------------------------------------------------------
(* The first line, which may be the pseudo tag.                            *)

LEMMA BytesConcat ==
  ASSUME NEW lines \in Seq(WholeLines), NEW more \in Seq(WholeLines)
  PROVE  Bytes(lines \o more) = Bytes(lines) \o Bytes(more)
<1> DEFINE T == {s \in Seq(WholeLines) : Bytes(lines \o s) = Bytes(lines) \o Bytes(s)}
<1>1. Bytes(lines) \in Texts
  BY BytesType
<1>2. << >> \in T
  <2>1. << >> \in Seq(WholeLines) /\ lines \o << >> = lines
    BY ConcatEmptySeq
  <2>2. Bytes(lines) \o << >> = Bytes(lines)
    BY <1>1, ConcatEmptySeq DEF Texts
  <2> QED
    BY <2>1, <2>2, BytesNone
<1>3. ASSUME NEW s \in Seq(WholeLines), s \in T, NEW e \in WholeLines PROVE Append(s, e) \in T
  <2>1. lines \o s \in Seq(WholeLines) /\ Append(s, e) \in Seq(WholeLines)
        /\ lines \o Append(s, e) = Append(lines \o s, e)
    OBVIOUS
  <2>2. Bytes(s) \in Texts /\ e \in Texts
    BY BytesType, WholeLine
  <2>3. Bytes(Append(lines \o s, e)) = Bytes(lines \o s) \o e
    BY <2>1, BytesAppend
  <2>4. Bytes(lines \o s) = Bytes(lines) \o Bytes(s)
    BY <1>3
  <2>5. (Bytes(lines) \o Bytes(s)) \o e = Bytes(lines) \o (Bytes(s) \o e)
    BY <1>1, <2>2, ConcatAssociative, SMTT(30) DEF Texts
  <2>6. Bytes(Append(s, e)) = Bytes(s) \o e
    BY BytesAppend
  <2>7. Bytes(lines \o Append(s, e)) = Bytes(lines) \o Bytes(Append(s, e))
    BY <2>1, <2>3, <2>4, <2>5, <2>6
  <2> QED
    BY <2>1, <2>7
<1>4. Seq(WholeLines) \subseteq T
  <2> HIDE DEF T
  <2> QED
    BY <1>2, <1>3, SeqInduction
<1> QED
  BY <1>4

LEMMA BytesOne ==
  ASSUME NEW line \in WholeLines
  PROVE  << line >> \in Seq(WholeLines) /\ Bytes(<< line >>) = line
<1>1. << >> \in Seq(WholeLines) /\ << line >> = Append(<< >>, line) /\ << line >> \in Seq(WholeLines)
  OBVIOUS
<1>2. Bytes(Append(<< >>, line)) = Bytes(<< >>) \o line
  BY <1>1, BytesAppend
<1>3. << >> \o line = line
  BY WholeLine, ConcatEmptySeq DEF Texts
<1> QED
  BY <1>1, <1>2, <1>3, BytesNone

LEMMA BytesFirst ==
  ASSUME NEW lines \in Seq(WholeLines), lines # << >>
  PROVE  /\ lines[1] \in WholeLines /\ Tail(lines) \in Seq(WholeLines)
         /\ lines = << lines[1] >> \o Tail(lines)
         /\ Bytes(lines) = lines[1] \o Bytes(Tail(lines))
<1>1. /\ lines[1] \in WholeLines /\ Tail(lines) \in Seq(WholeLines)
      /\ lines = << lines[1] >> \o Tail(lines)
  OBVIOUS
<1>2. << lines[1] >> \in Seq(WholeLines) /\ Bytes(<< lines[1] >>) = lines[1]
  BY <1>1, BytesOne
<1>3. Bytes(<< lines[1] >> \o Tail(lines)) = Bytes(<< lines[1] >>) \o Bytes(Tail(lines))
  BY <1>1, <1>2, BytesConcat
<1> QED
  BY <1>1, <1>2, <1>3

\* The characters of PSEUDO_TAG_PREFIX.
Bang == "!"
Bar  == "_"

LEMMA PseudoIs ==
  ASSUME NEW s \in Texts
  PROVE  IsPseudo(s) <=> Len(s) >= 2 /\ s[1] = Bang /\ s[2] = Bar
<1>1. Len(PseudoTagPrefix) = 2 /\ DOMAIN PseudoTagPrefix = {1, 2}
      /\ PseudoTagPrefix[1] = Bang /\ PseudoTagPrefix[2] = Bar
  BY DEF PseudoTagPrefix, Bang, Bar
<1>2. Len(s) \in Nat
  BY DEF Texts
<1> QED
  BY <1>1, <1>2 DEF IsPseudo, Begins

LEMMA PseudoFirst ==
  ASSUME NEW lines \in Seq(WholeLines)
  PROVE  IsPseudo(Bytes(lines)) <=> lines # << >> /\ IsPseudo(lines[1])
<1>1. CASE lines = << >>
  <2>1. << >> \in Texts /\ ~ Len(<< >>) >= 2
    BY DEF Texts
  <2> QED
    BY <1>1, <2>1, BytesNone, PseudoIs
<1>2. CASE lines # << >>
  <2> DEFINE l == lines[1]
             y == Bytes(Tail(lines))
             x == Bytes(lines)
  <2>1. l \in WholeLines /\ Tail(lines) \in Seq(WholeLines) /\ x = l \o y
    BY <1>2, BytesFirst
  <2>2. y \in Texts /\ x \in Texts
    BY <2>1, BytesType
  <2>3. l \in Texts /\ Len(l) \in Nat \ {0} /\ l[Len(l)] = NL
    BY <2>1, WholeLine
  <2> HIDE DEF l, x, y
  <2>4. Len(x) = Len(l) + Len(y) /\ Len(y) \in Nat
        /\ \A i \in 1 .. Len(x) : x[i] = IF i <= Len(l) THEN l[i] ELSE y[i - Len(l)]
    BY <2>1, <2>2, <2>3 DEF Texts
  <2>5. IsPseudo(x) <=> IsPseudo(l)
    <3>1. CASE Len(l) >= 2
      <4>1. x[1] = l[1] /\ x[2] = l[2] /\ Len(x) >= 2
        BY <2>3, <2>4, <3>1
      <4> QED
        BY <2>2, <2>3, <3>1, <4>1, PseudoIs
    <3>2. CASE ~ Len(l) >= 2
      <4>1. Len(l) = 1 /\ NL # Bang
        BY <2>3, <3>2, SMTT(30) DEF NL, Bang
      <4>2. x[1] = NL
        BY <2>3, <2>4, <4>1
      <4> QED
        BY <2>2, <2>3, <4>1, <4>2, PseudoIs
    <3> QED
      BY <3>1, <3>2
  <2> QED
    BY <1>2, <2>5 DEF l, x
<1> QED
  BY <1>1, <1>2

LEMMA PairIsSeq ==
  ASSUME NEW S, NEW a \in S, NEW b \in S
  PROVE  << a, b >> \in Seq(S) /\ Len(<< a, b >>) = 2 /\ << a, b >>[1] = a /\ << a, b >>[2] = b
OBVIOUS

LEMMA TripleIsSeq ==
  ASSUME NEW S, NEW a \in S, NEW b \in S, NEW c \in S
  PROVE  << a, b, c >> \in Seq(S) /\ Len(<< a, b, c >>) = 3
         /\ << a, b, c >>[1] = a /\ << a, b, c >>[2] = b /\ << a, b, c >>[3] = c
OBVIOUS

LEMMA PseudoTagLine ==
  ASSUME NEW flag \in SortMethods
  PROVE  /\ PseudoTag(flag) \in WholeLines /\ IsPseudo(PseudoTag(flag))
         /\ Len(PseudoTag(flag)) = 5 /\ PseudoTag(flag)[FlagAt] = flag
         /\ \A other \in SortMethods, i \in 1 .. 5 :
              i # FlagAt => PseudoTag(flag)[i] = PseudoTag(other)[i]
<1>1. {Bang, Bar, TAB, NL, Unsorted, Sorted, FoldSorted} \subseteq Characters
  <2>1. /\ 1 \in DOMAIN Ascii /\ 2 \in DOMAIN Ascii /\ 3 \in DOMAIN Ascii /\ 5 \in DOMAIN Ascii
        /\ 6 \in DOMAIN Ascii /\ 7 \in DOMAIN Ascii /\ 10 \in DOMAIN Ascii
    BY DEF Ascii
  <2>2. Ascii[1] = TAB /\ Ascii[2] = NL /\ Ascii[3] = Bang
        /\ Ascii[5] = Unsorted /\ Ascii[6] = Sorted /\ Ascii[7] = FoldSorted /\ Ascii[10] = Bar
    BY DEF Ascii, Bang, Bar, Unsorted, Sorted, FoldSorted
  <2>3. \A i \in DOMAIN Ascii : Ascii[i] \in Characters
    BY DEF Characters, Range
  <2>4. /\ Ascii[1] \in Characters /\ Ascii[2] \in Characters /\ Ascii[3] \in Characters
        /\ Ascii[5] \in Characters /\ Ascii[6] \in Characters /\ Ascii[7] \in Characters
        /\ Ascii[10] \in Characters
    BY <2>1, <2>3
  <2> QED
    BY <2>2, <2>4
<1>2. \A f \in SortMethods : f \in Characters /\ f # NL
  BY <1>1 DEF SortMethods, Unsorted, Sorted, FoldSorted, NL
<1>3. Bang # NL /\ Bar # NL /\ TAB # NL
  BY DEF NL, TAB, Bang, Bar
<1> HIDE DEF Characters
<1>4. ASSUME NEW f \in SortMethods
      PROVE  /\ PseudoTag(f) \in Seq(Characters) /\ Len(PseudoTag(f)) = 5
             /\ PseudoTag(f)[1] = Bang /\ PseudoTag(f)[2] = Bar /\ PseudoTag(f)[3] = TAB
             /\ PseudoTag(f)[4] = f /\ PseudoTag(f)[5] = NL
  <2> DEFINE u == << Bang, Bar >>
             v == << TAB, f, NL >>
  <2>1. Bang \in Characters /\ Bar \in Characters /\ TAB \in Characters /\ f \in Characters
        /\ NL \in Characters
    BY <1>1, <1>2
  <2>2. u \in Seq(Characters) /\ Len(u) = 2 /\ u[1] = Bang /\ u[2] = Bar
    BY <2>1, PairIsSeq
  <2>3. v \in Seq(Characters) /\ Len(v) = 3 /\ v[1] = TAB /\ v[2] = f /\ v[3] = NL
    BY <2>1, TripleIsSeq
  <2>4. PseudoTag(f) = u \o v
    BY DEF PseudoTag, PseudoTagPrefix, Bang, Bar
  <2> HIDE DEF u, v
  <2>5. u \o v \in Seq(Characters) /\ Len(u \o v) = Len(u) + Len(v)
        /\ \A i \in 1 .. Len(u) + Len(v) : (u \o v)[i] = IF i <= Len(u) THEN u[i] ELSE v[i - Len(u)]
    BY <2>2, <2>3, ConcatProperties
  <2>6. /\ (u \o v)[1] = u[1] /\ (u \o v)[2] = u[2] /\ (u \o v)[3] = v[1]
        /\ (u \o v)[4] = v[2] /\ (u \o v)[5] = v[3]
    BY <2>2, <2>3, <2>5
  <2> QED
    BY <2>2, <2>3, <2>4, <2>5, <2>6
<1> DEFINE p == PseudoTag(flag)
<1>5. p \in Seq(Characters) /\ Len(p) = 5 /\ p[1] = Bang /\ p[2] = Bar /\ p[3] = TAB /\ p[4] = flag /\ p[5] = NL
  BY <1>4
<1>6. ASSUME NEW other \in SortMethods, NEW i \in 1 .. 5, i # FlagAt PROVE p[i] = PseudoTag(other)[i]
  BY <1>4, <1>6 DEF FlagAt
<1> HIDE DEF p
<1>7. \A i \in 1 .. (Len(p) - 1) : p[i] # NL
  <2> SUFFICES ASSUME NEW i \in 1 .. 4 PROVE p[i] # NL
    BY <1>5
  <2>1. i = 1 \/ i = 2 \/ i = 3 \/ i = 4
    OBVIOUS
  <2> QED
    BY <1>2, <1>3, <1>5, <2>1
<1>8. p # << >>
  <2>1. Len(p) # 0
    BY <1>5
  <2>2. Len(<< >>) = 0
    OBVIOUS
  <2> QED
    BY <2>1, <2>2
<1>9. p \in WholeLines
  BY <1>5, <1>7, <1>8 DEF WholeLines
<1>10. IsPseudo(p)
  BY <1>5, PseudoIs DEF Texts
<1>11. p[FlagAt] = flag
  BY <1>5 DEF FlagAt
<1> QED
  BY <1>5, <1>6, <1>9, <1>10, <1>11 DEF p

\* The flag of a file is that of the pseudo tag on its first line.
LEMMA FlagOfFirst ==
  ASSUME NEW lines \in Seq(WholeLines), lines # << >>,
         NEW flag \in SortMethods, lines[1] = PseudoTag(flag)
  PROVE  /\ IsPseudo(Bytes(lines)) /\ Bytes(lines)[FlagAt] = flag
         /\ \A other \in SortMethods :
              /\ << PseudoTag(other) >> \o Tail(lines) \in Seq(WholeLines)
              /\ [Bytes(lines) EXCEPT ![FlagAt] = other]
                   = Bytes(<< PseudoTag(other) >> \o Tail(lines))
<1> DEFINE y == Bytes(Tail(lines))
           x == Bytes(lines)
<1>1. Tail(lines) \in Seq(WholeLines) /\ x = PseudoTag(flag) \o y /\ y \in Texts
  BY BytesFirst, BytesType
<1>2. \A f \in SortMethods : PseudoTag(f) \in WholeLines /\ PseudoTag(f) \in Seq(Characters)
                             /\ Len(PseudoTag(f)) = 5 /\ PseudoTag(f)[FlagAt] = f
  BY PseudoTagLine, WholeLine DEF Texts
<1>3. IsPseudo(x)
  BY PseudoFirst, PseudoTagLine
<1> HIDE DEF x, y
<1>4. y \in Seq(Characters) /\ Len(y) \in Nat
  BY <1>1 DEF Texts
<1>5. ASSUME NEW f \in SortMethods
      PROVE  /\ PseudoTag(f) \o y \in Seq(Characters) /\ Len(PseudoTag(f) \o y) = 5 + Len(y)
             /\ \A i \in 1 .. 5 + Len(y) :
                  (PseudoTag(f) \o y)[i] = IF i <= 5 THEN PseudoTag(f)[i] ELSE y[i - 5]
  <2> DEFINE p == PseudoTag(f)
  <2>1. p \in Seq(Characters) /\ Len(p) = 5
    BY <1>2
  <2> HIDE DEF p
  <2>2. p \o y \in Seq(Characters) /\ Len(p \o y) = Len(p) + Len(y)
        /\ \A i \in 1 .. Len(p) + Len(y) : (p \o y)[i] = IF i <= Len(p) THEN p[i] ELSE y[i - Len(p)]
    BY <1>4, <2>1, ConcatProperties
  <2> QED
    BY <2>1, <2>2 DEF p
<1>6. FlagAt \in 1 .. 5 + Len(y) /\ FlagAt <= 5
  BY <1>4 DEF FlagAt
<1>7. x[FlagAt] = flag
  BY <1>1, <1>2, <1>5, <1>6
<1>8. ASSUME NEW other \in SortMethods
      PROVE  << PseudoTag(other) >> \o Tail(lines) \in Seq(WholeLines)
             /\ [x EXCEPT ![FlagAt] = other] = Bytes(<< PseudoTag(other) >> \o Tail(lines))
  <2>1. << PseudoTag(other) >> \in Seq(WholeLines) /\ Bytes(<< PseudoTag(other) >>) = PseudoTag(other)
    BY <1>2, BytesOne
  <2>2. Bytes(<< PseudoTag(other) >> \o Tail(lines)) = PseudoTag(other) \o y
    BY <1>1, <2>1, BytesConcat DEF y
  <2> DEFINE z == [x EXCEPT ![FlagAt] = other]
             w == PseudoTag(other) \o y
  <2>3. x \in Seq(Characters) /\ Len(x) = 5 + Len(y) /\ w \in Seq(Characters) /\ Len(w) = 5 + Len(y)
    BY <1>1, <1>5
  <2>4. DOMAIN z = 1 .. 5 + Len(y) /\ DOMAIN w = 1 .. 5 + Len(y)
    BY <2>3
  <2>5. ASSUME NEW i \in 1 .. 5 + Len(y) PROVE z[i] = w[i]
    <3>1. z[i] = IF i = FlagAt THEN other ELSE x[i]
      BY <2>3
    <3>2. CASE i = FlagAt
      <4>1. w[FlagAt] = other
        BY <1>2, <1>5, <1>6
      <4> HIDE DEF z, w
      <4> QED
        BY <3>1, <3>2, <4>1
    <3>3. CASE i # FlagAt /\ i <= 5
      <4>1. i \in 1 .. 5
        BY <3>3
      <4>2. PseudoTag(flag)[i] = PseudoTag(other)[i]
        BY <3>3, <4>1, PseudoTagLine
      <4>3. x[i] = PseudoTag(flag)[i] /\ w[i] = PseudoTag(other)[i]
        BY <1>1, <1>5, <3>3
      <4> HIDE DEF z, w
      <4> QED
        BY <3>1, <3>3, <4>2, <4>3
    <3>4. CASE ~ i <= 5
      <4>1. x[i] = y[i - 5] /\ w[i] = y[i - 5]
        BY <1>1, <1>5, <3>4
      <4>2. i # FlagAt
        BY <3>4 DEF FlagAt
      <4> HIDE DEF z, w
      <4> QED
        BY <3>1, <4>1, <4>2
    <3> QED
      BY <3>2, <3>3, <3>4
  <2>6. z = [i \in DOMAIN z |-> z[i]] /\ w = [i \in DOMAIN w |-> w[i]]
    <3>1. w = [i \in DOMAIN w |-> w[i]]
      <4> HIDE DEF w
      <4> QED
        BY <2>3
    <3> QED
      BY <3>1
  <2>7. z = w
    <3> HIDE DEF z, w
    <3> QED
      BY <2>4, <2>5, <2>6
  <2>8. << PseudoTag(other) >> \o Tail(lines) \in Seq(WholeLines)
    BY <1>1, <2>1
  <2> QED
    BY <2>2, <2>7, <2>8
<1> QED
  BY <1>3, <1>7, <1>8 DEF x

-----------------------------------------------------------------------------
(* Sets of lines.                                                          *)

TagsOf(lines) == {line \in Range(lines) : ~IsPseudo(line)}

LEMMA TagsInBytes ==
  ASSUME NEW lines \in Seq(WholeLines)
  PROVE  TagsIn(Bytes(lines)) = TagsOf(lines)
BY LinesOfBytes DEF TagsIn, TagsOf

LEMMA RangeConcat ==
  ASSUME NEW S, NEW s \in Seq(S), NEW t \in Seq(S)
  PROVE  Range(s \o t) = Range(s) \cup Range(t)
<1> DEFINE u == s \o t
<1>1. Len(s) \in Nat /\ Len(t) \in Nat /\ DOMAIN s = 1 .. Len(s) /\ DOMAIN t = 1 .. Len(t)
      /\ DOMAIN u = 1 .. Len(s) + Len(t)
      /\ \A i \in 1 .. Len(s) + Len(t) : u[i] = IF i <= Len(s) THEN s[i] ELSE t[i - Len(s)]
  OBVIOUS
<1> HIDE DEF u
<1>2. ASSUME NEW i \in DOMAIN u PROVE u[i] \in Range(s) \cup Range(t)
  <2>1. CASE i <= Len(s)
    <3>1. i \in DOMAIN s /\ u[i] = s[i]
      BY <1>1, <2>1
    <3> QED
      BY <3>1 DEF Range
  <2>2. CASE ~ i <= Len(s)
    <3>1. i - Len(s) \in DOMAIN t /\ u[i] = t[i - Len(s)]
      BY <1>1, <2>2
    <3> QED
      BY <3>1 DEF Range
  <2> QED
    BY <2>1, <2>2
<1>3. ASSUME NEW i \in DOMAIN s PROVE s[i] \in Range(u)
  <2>1. i \in DOMAIN u /\ u[i] = s[i]
    BY <1>1
  <2> QED
    BY <2>1 DEF Range
<1>4. ASSUME NEW i \in DOMAIN t PROVE t[i] \in Range(u)
  <2>1. i + Len(s) \in 1 .. Len(s) + Len(t) /\ ~ i + Len(s) <= Len(s) /\ (i + Len(s)) - Len(s) = i
    BY <1>1
  <2>2. i + Len(s) \in DOMAIN u /\ u[i + Len(s)] = t[i]
    BY <1>1, <2>1
  <2> QED
    BY <2>2 DEF Range
<1>5. Range(u) \subseteq Range(s) \cup Range(t)
  BY <1>2 DEF Range
<1>6. Range(s) \subseteq Range(u)
  BY <1>3 DEF Range
<1>7. Range(t) \subseteq Range(u)
  BY <1>4 DEF Range
<1> QED
  BY <1>5, <1>6, <1>7 DEF u

LEMMA RangeOne ==
  ASSUME NEW S, NEW e \in S
  PROVE  << e >> \in Seq(S) /\ Range(<< e >>) = {e}
<1>1. << e >> \in Seq(S) /\ DOMAIN << e >> = {1} /\ << e >>[1] = e
  OBVIOUS
<1> QED
  BY <1>1 DEF Range

LEMMA RangeAppend ==
  ASSUME NEW S, NEW s \in Seq(S), NEW e \in S
  PROVE  Range(Append(s, e)) = Range(s) \cup {e}
<1> DEFINE one == << e >>
<1>1. Append(s, e) = s \o one
  BY AppendIsConcat
<1>2. one \in Seq(S) /\ Range(one) = {e}
  BY RangeOne
<1> HIDE DEF one
<1>3. Range(s \o one) = Range(s) \cup Range(one)
  BY <1>2, RangeConcat
<1> QED
  BY <1>1, <1>2, <1>3

LEMMA TagsOfConcat ==
  ASSUME NEW lines \in Seq(WholeLines), NEW more \in Seq(WholeLines)
  PROVE  TagsOf(lines \o more) = TagsOf(lines) \cup TagsOf(more)
<1>1. Range(lines \o more) = Range(lines) \cup Range(more)
  BY RangeConcat
<1> QED
  BY <1>1 DEF TagsOf

-----------------------------------------------------------------------------
(* What qsort leaves.                                                      *)

Ascending(method, lines) ==
  \A i \in 1 .. (Len(lines) - 1) : ~Before(Key(method, lines[i + 1]), Key(method, lines[i]))

\* One line more is put after those that are sorted already.
Moved(lines, s, i) == [order |-> Append(s.order, lines[i]), left |-> s.left \ {i}]

Sorting(method, lines, s, k) ==
  /\ s \in [order : Seq(WholeLines), left : SUBSET DOMAIN lines]
  /\ Len(s.order) = k
  /\ IsFiniteSet(s.left) /\ Cardinality(s.left) = Len(lines) - k
  /\ Range(lines) = Range(s.order) \cup {lines[j] : j \in s.left}
  /\ Ascending(method, s.order)
  /\ k > 0 => \A j \in s.left : ~Before(Key(method, lines[j]), Key(method, s.order[k]))

LEMMA SortingBegins ==
  ASSUME NEW method, NEW lines \in Seq(WholeLines)
  PROVE  Sorting(method, lines, [order |-> << >>, left |-> DOMAIN lines], 0)
<1>1. << >> \in Seq(WholeLines) /\ Len(<< >>) = 0 /\ Range(<< >>) = {}
  BY DEF Range
<1>2. DOMAIN lines = 1 .. Len(lines) /\ Len(lines) \in Nat
  OBVIOUS
<1>3. IsFiniteSet(DOMAIN lines) /\ Cardinality(DOMAIN lines) = Len(lines) - 0
  BY <1>2, FS_Interval, SMTT(30)
<1>4. Range(lines) = {lines[j] : j \in DOMAIN lines}
  BY DEF Range
<1>5. Ascending(method, << >>)
  BY <1>1 DEF Ascending
<1> QED
  BY <1>1, <1>3, <1>4, <1>5 DEF Sorting

LEMMA SortingStep ==
  ASSUME NEW method, NEW lines \in Seq(WholeLines), NEW k \in Nat, NEW s,
         Sorting(method, lines, s, k), NEW i \in Least(method, lines, s.left)
  PROVE  Sorting(method, lines, Moved(lines, s, i), k + 1)
<1> DEFINE order == Append(s.order, lines[i])
           left == s.left \ {i}
<1>1. /\ s.order \in Seq(WholeLines) /\ s.left \in SUBSET DOMAIN lines
      /\ Len(s.order) = k
      /\ IsFiniteSet(s.left) /\ Cardinality(s.left) = Len(lines) - k
      /\ Range(lines) = Range(s.order) \cup {lines[j] : j \in s.left}
      /\ Ascending(method, s.order)
      /\ k > 0 => \A j \in s.left : ~Before(Key(method, lines[j]), Key(method, s.order[k]))
  BY DEF Sorting
<1>2. i \in s.left /\ \A j \in s.left : ~Before(Key(method, lines[j]), Key(method, lines[i]))
  BY DEF Least
<1>3. lines[i] \in WholeLines /\ Len(lines) \in Nat
  BY <1>1, <1>2
<1>4. order \in Seq(WholeLines) /\ Len(order) = k + 1 /\ order[k + 1] = lines[i]
      /\ \A n \in 1 .. k : order[n] = s.order[n]
  BY <1>1, <1>3
<1>5. Range(order) = Range(s.order) \cup {lines[i]}
  BY <1>1, <1>3, RangeAppend
<1>6. IsFiniteSet(left) /\ Cardinality(left) = Len(lines) - (k + 1) /\ left \in SUBSET DOMAIN lines
  <2>1. IsFiniteSet(left) /\ Cardinality(left) = Cardinality(s.left) - 1
    BY <1>1, <1>2, FS_RemoveElement
  <2> HIDE DEF left
  <2>2. Cardinality(left) = Len(lines) - (k + 1)
    BY <1>1, <1>3, <2>1
  <2>3. left \in SUBSET DOMAIN lines
    BY <1>1 DEF left
  <2> QED
    BY <2>1, <2>2, <2>3
<1>7. Range(lines) = Range(order) \cup {lines[j] : j \in left}
  <2>1. {lines[j] : j \in s.left} = {lines[i]} \cup {lines[j] : j \in left}
    BY <1>2
  <2> QED
    BY <1>1, <1>5, <2>1
<1> HIDE DEF order
<1>8. Ascending(method, order)
  <2> SUFFICES ASSUME NEW n \in 1 .. (Len(order) - 1)
               PROVE  ~Before(Key(method, order[n + 1]), Key(method, order[n]))
    BY DEF Ascending
  <2>1. CASE n = k
    <3>1. order[n] = s.order[k] /\ order[n + 1] = lines[i] /\ k > 0
      BY <1>4, <2>1
    <3> QED
      BY <1>1, <1>2, <3>1
  <2>2. CASE n # k
    <3>1. n \in 1 .. (Len(s.order) - 1) /\ n \in 1 .. k /\ n + 1 \in 1 .. k
      BY <1>1, <1>4, <2>2
    <3>2. order[n] = s.order[n] /\ order[n + 1] = s.order[n + 1]
      BY <1>4, <3>1
    <3> QED
      BY <1>1, <3>1, <3>2 DEF Ascending
  <2> QED
    BY <2>1, <2>2
<1>9. \A j \in left : ~Before(Key(method, lines[j]), Key(method, order[k + 1]))
  BY <1>2, <1>4
<1> DEFINE next == Moved(lines, s, i)
<1>10. next.order = order /\ next.left = left
       /\ next \in [order : Seq(WholeLines), left : SUBSET DOMAIN lines]
  BY <1>4, <1>6 DEF Moved, order
<1> HIDE DEF left, next
<1>11. Sorting(method, lines, next, k + 1)
  BY <1>4, <1>6, <1>7, <1>8, <1>9, <1>10 DEF Sorting
<1> QED
  BY <1>11 DEF next

LEMMA OrdersSort ==
  ASSUME NEW method, NEW lines \in Seq(WholeLines), NEW sortedLines \in Orders(method, lines)
  PROVE  /\ sortedLines \in Seq(WholeLines) /\ Range(sortedLines) = Range(lines)
         /\ Ascending(method, sortedLines)
<1> DEFINE n == Len(lines)
           x == {[order |-> << >>, left |-> DOMAIN lines]}
           Next1(states) == UNION {{[order |-> Append(s.order, lines[i]), left |-> s.left \ {i}]
                                      : i \in Least(method, lines, s.left)} : s \in states}
           Follows(f) == f = [k \in 0 .. n |-> IF k = 0 THEN x ELSE Next1(f[k - 1])]
           A == CHOOSE f : Follows(f)
           States == [order : Seq(WholeLines), left : SUBSET DOMAIN lines]
           S == SUBSET States
<1>1. n \in Nat
  OBVIOUS
<1>2. Orders(method, lines) = {s.order : s \in A[n]}
  BY DEF Orders
<1>3. x \in S
  BY DEF Sorting
<1>4. ASSUME NEW states \in S PROVE Next1(states) \in S
  <2> SUFFICES ASSUME NEW t \in Next1(states) PROVE t \in States
    <3> HIDE DEF Next1, States
    <3> QED
      OBVIOUS
  <2>1. PICK s \in states : t \in {[order |-> Append(s.order, lines[i]), left |-> s.left \ {i}]
                                     : i \in Least(method, lines, s.left)}
    OBVIOUS
  <2>2. PICK i \in Least(method, lines, s.left) :
               t = [order |-> Append(s.order, lines[i]), left |-> s.left \ {i}]
    BY <2>1
  <2>3. s.order \in Seq(WholeLines) /\ s.left \in SUBSET DOMAIN lines /\ i \in s.left
    BY DEF Least
  <2>4. lines[i] \in WholeLines
    BY <2>3
  <2> QED
    BY <2>2, <2>3, <2>4
<1> HIDE DEF n, x, Next1, S
<1>5. Follows(A)
  <2> DEFINE step == [p \in S \X (1 .. n) |-> Next1(p[1])]
  <2>1. step \in [S \X (1 .. n) -> S]
    BY <1>4
  <2>2. PICK after : Loop(S, x, n, step, after)
    <3> HIDE DEF step
    <3> QED
      BY <1>1, <1>3, <2>1, LoopRuns
  <2>3. ASSUME NEW k \in 0 .. n PROVE after[k] = IF k = 0 THEN x ELSE Next1(after[k - 1])
    <3>1. CASE k # 0
      <4>1. k \in 1 .. n /\ k - 1 \in 0 .. n
        BY <1>1, <3>1
      <4>2. after[k - 1] \in S /\ after[k] = step[<< after[k - 1], k >>]
        BY <2>2, <4>1 DEF Loop
      <4> QED
        BY <3>1, <4>1, <4>2
    <3> QED
      BY <2>2, <3>1 DEF Loop
  <2>4. Follows(after)
    BY <2>2, <2>3 DEF Loop
  <2> HIDE DEF Follows
  <2> QED
    BY <2>4
<1>6. A[0] = x /\ \A k \in 1 .. n : A[k] = Next1(A[k - 1])
  <2> HIDE DEF A
  <2>1. 0 \in 0 .. n /\ \A k \in 1 .. n : k \in 0 .. n /\ k # 0
    BY <1>1
  <2> QED
    BY <1>5, <2>1
<1> HIDE DEF A, Follows
<1> DEFINE Good == {k \in 0 .. n : \A s \in A[k] : Sorting(method, lines, s, k)}
<1>7. 0 \in Good
  <2>1. 0 \in 0 .. n
    BY <1>1
  <2>2. ASSUME NEW s \in A[0] PROVE Sorting(method, lines, s, 0)
    <3>1. s = [order |-> << >>, left |-> DOMAIN lines]
      BY <1>6 DEF x
    <3> QED
      BY <3>1, SortingBegins
  <2> QED
    BY <2>1, <2>2
<1>8. ASSUME NEW k \in 1 .. n, k - 1 \in Good PROVE k \in Good
  <2>1. k \in 0 .. n /\ k - 1 \in Nat /\ (k - 1) + 1 = k
    BY <1>1
  <2>2. ASSUME NEW t \in A[k] PROVE Sorting(method, lines, t, k)
    <3>1. A[k] = Next1(A[k - 1])
      BY <1>6
    <3>2. PICK s \in A[k - 1] : \E i \in Least(method, lines, s.left) :
                 t = [order |-> Append(s.order, lines[i]), left |-> s.left \ {i}]
      BY <3>1 DEF Next1
    <3>3. PICK i \in Least(method, lines, s.left) : t = Moved(lines, s, i)
      BY <3>2 DEF Moved
    <3>4. Sorting(method, lines, s, k - 1)
      BY <1>8
    <3>5. Sorting(method, lines, Moved(lines, s, i), (k - 1) + 1)
      BY <2>1, <3>4, SortingStep
    <3> QED
      BY <2>1, <3>3, <3>5
  <2> QED
    BY <2>1, <2>2
<1>9. 0 .. n \subseteq Good
  <2> HIDE DEF Good
  <2> QED
    BY <1>1, <1>7, <1>8, TurnInduction
<1>10. PICK s \in A[n] : sortedLines = s.order
  BY <1>2
<1>11. Sorting(method, lines, s, n)
  <2>1. n \in 0 .. n
    BY <1>1
  <2> QED
    BY <1>9, <2>1
<1>12. /\ s.order \in Seq(WholeLines) /\ IsFiniteSet(s.left) /\ Cardinality(s.left) = 0
       /\ Range(lines) = Range(s.order) \cup {lines[j] : j \in s.left}
       /\ Ascending(method, s.order)
  BY <1>1, <1>11 DEF Sorting, n
<1>13. s.left = {}
  BY <1>12, FS_EmptySet
<1> QED
  BY <1>10, <1>12, <1>13

-----------------------------------------------------------------------------
(* The removal of doubles.                                                 *)

\* Lines are the same only when they are equal.
Exact == ~externalSort \/ sorted # FoldSorted

LEMMA SameIs ==
  ASSUME NEW s, NEW t
  PROVE  /\ Same(s, t) => Key(sorted, s) = Key(sorted, t)
         /\ Exact => (Same(s, t) <=> s = t)
BY DEF Same, Exact, Key

\* The lines kept of the first k.
Keeping(lines, kept, k) ==
  /\ kept \in Seq(WholeLines)
  /\ Range(kept) \subseteq Range(lines)
  /\ k = 0 => kept = << >>
  /\ k > 0 => /\ kept # << >> /\ Key(sorted, kept[Len(kept)]) = Key(sorted, lines[k])
              /\ Exact => kept[Len(kept)] = lines[k]
  /\ Exact => \A i \in 1 .. k : lines[i] \in Range(kept)
  /\ Ascending(sorted, kept)

\* One turn of the loop of Distinct.
Kept(kept, line) ==
  IF kept # << >> /\ Same(kept[Len(kept)], line) THEN kept ELSE Append(kept, line)

LEMMA KeepingStep ==
  ASSUME NEW lines \in Seq(WholeLines), Ascending(sorted, lines), NEW k \in 1 .. Len(lines),
         NEW kept, Keeping(lines, kept, k - 1)
  PROVE  Keeping(lines, Kept(kept, lines[k]), k)
<1>1. Len(lines) \in Nat /\ k \in Nat \ {0} /\ k - 1 \in Nat /\ k \in DOMAIN lines
      /\ lines[k] \in WholeLines /\ lines[k] \in Range(lines)
  BY DEF Range
<1> DEFINE n == Len(kept)
           last == kept[n]
           line == lines[k]
<1>2. /\ kept \in Seq(WholeLines) /\ Range(kept) \subseteq Range(lines)
      /\ Exact => \A i \in 1 .. (k - 1) : lines[i] \in Range(kept)
      /\ Ascending(sorted, kept)
  BY DEF Keeping
<1>3. k - 1 = 0 => kept = << >>
  BY DEF Keeping
<1>4. k - 1 > 0 => kept # << >> /\ Key(sorted, last) = Key(sorted, lines[k - 1])
  BY DEF Keeping
<1>5. n \in Nat /\ (kept # << >> => n \in DOMAIN kept) /\ (n > 0 => kept # << >>)
  BY <1>2
<1> HIDE DEF n, line
<1>6. CASE kept # << >> /\ Same(last, line)
  <2>1. Kept(kept, lines[k]) = kept
    BY <1>6 DEF Kept, n, line
  <2>2. Key(sorted, last) = Key(sorted, line) /\ (Exact => last = line)
    BY <1>6, SameIs
  <2>3. last \in Range(kept)
    BY <1>5, <1>6 DEF Range
  <2>4. Exact => \A i \in 1 .. k : lines[i] \in Range(kept)
    <3> SUFFICES ASSUME Exact, NEW i \in 1 .. k PROVE lines[i] \in Range(kept)
      OBVIOUS
    <3>1. CASE i = k
      BY <2>2, <2>3, <3>1 DEF line
    <3>2. CASE i # k
      <4>1. i \in 1 .. (k - 1)
        BY <1>1, <3>2
      <4> QED
        BY <1>2, <4>1
    <3> QED
      BY <3>1, <3>2
  <2>5. k # 0
    BY <1>1
  <2> QED
    BY <1>2, <1>6, <2>1, <2>2, <2>4, <2>5 DEF Keeping, n, line
<1>7. CASE ~(kept # << >> /\ Same(last, line))
  <2> DEFINE more == Append(kept, line)
  <2>1. Kept(kept, lines[k]) = more
    BY <1>7 DEF Kept, n, line
  <2>2. more \in Seq(WholeLines) /\ Len(more) = n + 1 /\ more[n + 1] = line /\ more # << >>
        /\ \A i \in 1 .. n : more[i] = kept[i]
    BY <1>1, <1>2 DEF n, line
  <2>3. Range(more) = Range(kept) \cup {line}
    BY <1>1, <1>2, RangeAppend DEF line
  <2> HIDE DEF more
  <2>4. Range(more) \subseteq Range(lines)
    BY <1>1, <1>2, <2>3 DEF line
  <2>5. Exact => \A i \in 1 .. k : lines[i] \in Range(more)
    <3> SUFFICES ASSUME Exact, NEW i \in 1 .. k PROVE lines[i] \in Range(more)
      OBVIOUS
    <3>1. CASE i = k
      BY <2>3, <3>1 DEF line
    <3>2. CASE i # k
      <4>1. i \in 1 .. (k - 1)
        BY <1>1, <3>2
      <4> QED
        BY <1>2, <2>3, <4>1
    <3> QED
      BY <3>1, <3>2
  <2>6. Ascending(sorted, more)
    <3> SUFFICES ASSUME NEW i \in 1 .. (Len(more) - 1)
                 PROVE  ~Before(Key(sorted, more[i + 1]), Key(sorted, more[i]))
      BY DEF Ascending
    <3>1. CASE i = n
      <4>0. n > 0
        BY <1>5, <2>2, <3>1
      <4>1. kept # << >> /\ k - 1 > 0
        BY <1>1, <1>3, <1>5, <4>0
      <4>2. more[i + 1] = line /\ more[i] = last
        BY <2>2, <3>1
      <4>3. k - 1 \in 1 .. (Len(lines) - 1) /\ (k - 1) + 1 = k
        BY <1>1, <4>1
      <4>4. ~Before(Key(sorted, line), Key(sorted, lines[k - 1]))
        BY <4>3 DEF Ascending, line
      <4>5. Key(sorted, last) = Key(sorted, lines[k - 1])
        BY <1>4, <4>1
      <4> QED
        BY <4>2, <4>4, <4>5
    <3>2. CASE i # n
      <4>1. i \in 1 .. (n - 1) /\ i \in 1 .. n /\ i + 1 \in 1 .. n
        BY <1>5, <2>2, <3>2
      <4>2. more[i] = kept[i] /\ more[i + 1] = kept[i + 1]
        BY <2>2, <4>1
      <4>3. ~Before(Key(sorted, kept[i + 1]), Key(sorted, kept[i]))
        BY <1>2, <4>1 DEF Ascending, n
      <4> QED
        BY <4>2, <4>3
    <3> QED
      BY <3>1, <3>2
  <2>7. k # 0 /\ more[Len(more)] = line
    BY <1>1, <2>2
  <2> QED
    BY <2>1, <2>2, <2>4, <2>5, <2>6, <2>7 DEF Keeping, line
<1> QED
  BY <1>6, <1>7

LEMMA DistinctKeeps ==
  ASSUME NEW lines \in Seq(WholeLines), Ascending(sorted, lines)
  PROVE  /\ Distinct(lines) \in Seq(WholeLines) /\ Ascending(sorted, Distinct(lines))
         /\ Range(Distinct(lines)) \subseteq Range(lines)
         /\ Exact => Range(Distinct(lines)) = Range(lines)
<1> DEFINE n == Len(lines)
           Follows(f) == f = [i \in 0 .. n |->
                                IF i = 0 THEN << >>
                                ELSE LET last == f[i - 1]
                                     IN  IF last # << >> /\ Same(last[Len(last)], lines[i]) THEN last
                                         ELSE Append(last, lines[i])]
           A == CHOOSE f : Follows(f)
           S == Seq(WholeLines)
<1>1. n \in Nat /\ \A k \in 1 .. n : lines[k] \in WholeLines
  OBVIOUS
<1>2. Distinct(lines) = A[n]
  BY DEF Distinct
<1>3. << >> \in S
  OBVIOUS
<1>4. ASSUME NEW kept \in S, NEW k \in 1 .. n PROVE Kept(kept, lines[k]) \in S
  BY <1>1 DEF Kept
<1> HIDE DEF n, S
<1>5. Follows(A)
  <2> DEFINE step == [p \in S \X (1 .. n) |-> Kept(p[1], lines[p[2]])]
  <2>1. step \in [S \X (1 .. n) -> S]
    BY <1>4
  <2>2. PICK after : Loop(S, << >>, n, step, after)
    <3> HIDE DEF step
    <3> QED
      BY <1>1, <1>3, <2>1, LoopRuns
  <2>3. ASSUME NEW k \in 0 .. n
        PROVE  after[k] = IF k = 0 THEN << >> ELSE Kept(after[k - 1], lines[k])
    <3>1. CASE k # 0
      <4>1. k \in 1 .. n /\ k - 1 \in 0 .. n
        BY <1>1, <3>1
      <4>2. after[k - 1] \in S /\ after[k] = step[<< after[k - 1], k >>]
        BY <2>2, <4>1 DEF Loop
      <4> QED
        BY <3>1, <4>1, <4>2
    <3> QED
      BY <2>2, <3>1 DEF Loop
  <2>4. Follows(after)
    BY <2>2, <2>3 DEF Loop, Kept
  <2> HIDE DEF Follows
  <2> QED
    BY <2>4
<1>6. A[0] = << >> /\ \A k \in 1 .. n : A[k] = Kept(A[k - 1], lines[k])
  <2> HIDE DEF A
  <2>1. 0 \in 0 .. n /\ \A k \in 1 .. n : k \in 0 .. n /\ k # 0
    BY <1>1
  <2> QED
    BY <1>5, <2>1 DEF Kept
<1> HIDE DEF A, Follows
<1> DEFINE Good == {k \in 0 .. n : Keeping(lines, A[k], k)}
<1>7. 0 \in Good
  <2>1. 0 \in 0 .. n /\ << >> \in Seq(WholeLines) /\ Len(<< >>) = 0 /\ Range(<< >>) = {}
    BY <1>1 DEF Range
  <2>2. Ascending(sorted, << >>)
    BY <2>1 DEF Ascending
  <2>3. ASSUME NEW e, e = << >>, e \in Seq(WholeLines), Range(e) = {}, Ascending(sorted, e)
        PROVE  Keeping(lines, e, 0)
    <3>1. ~ 0 > 0 /\ 1 .. 0 = {}
      OBVIOUS
    <3> QED
      BY <2>3, <3>1 DEF Keeping
  <2>4. Keeping(lines, << >>, 0)
    BY <2>1, <2>2, <2>3
  <2> QED
    BY <1>6, <2>1, <2>4
<1>8. ASSUME NEW k \in 1 .. n, k - 1 \in Good PROVE k \in Good
  <2>1. k \in 0 .. n /\ k \in 1 .. Len(lines)
    BY <1>1 DEF n
  <2>2. Keeping(lines, A[k - 1], k - 1)
    BY <1>8
  <2>3. Keeping(lines, Kept(A[k - 1], lines[k]), k)
    BY <2>1, <2>2, KeepingStep
  <2>4. A[k] = Kept(A[k - 1], lines[k])
    BY <1>6
  <2> QED
    BY <2>1, <2>3, <2>4
<1>9. 0 .. n \subseteq Good
  <2> HIDE DEF Good
  <2> QED
    BY <1>1, <1>7, <1>8, TurnInduction
<1>10. Keeping(lines, A[n], n)
  <2>1. n \in 0 .. n
    BY <1>1
  <2> QED
    BY <1>9, <2>1
<1>11. /\ A[n] \in Seq(WholeLines) /\ Range(A[n]) \subseteq Range(lines)
       /\ Ascending(sorted, A[n])
       /\ Exact => \A i \in 1 .. n : lines[i] \in Range(A[n])
  BY <1>10 DEF Keeping
<1>12. Range(lines) = {lines[i] : i \in 1 .. n}
  BY DEF Range, n
<1> QED
  BY <1>2, <1>11, <1>12

-----------------------------------------------------------------------------
(* The invariant.                                                          *)

TypeInv ==
  /\ option \in [append : BOOLEAN, sort : Sorts]
  /\ before \in {NoFile} \cup {File(bytes) : bytes \in OldFiles}
  /\ numTags \in [added : Nat, prev : Nat] /\ added \in Nat
  /\ made \in Seq(TagLines) /\ accepted \in SUBSET TagLines
  /\ resize \in BOOLEAN /\ (Appends => ~resize)

\* The file appended to was not sorted regardless of case.
Flagged == Appends /\ before.bytes # << >> => before.bytes[FlagAt] # FoldSorted

\* The file holds these lines of the files done, the tags of the present pass,
\* and after a pass that failed the rest of that pass.
Filed(kept) ==
  /\ \E rest \in Texts :
       /\ disk.bytes = Bytes(kept \o made) \o rest
       /\ ~resize => rest = << >>
  /\ ~Appends /\ pc # "sortTagFile" => position = Len(Bytes(kept \o made))
  /\ ~Appends /\ pc = "createTagsForFile" => tagFilePosition = Len(Bytes(kept))
  /\ numTags.added + numTags.prev = Len(kept \o made)
  /\ pc = "createTagsForFile" => added + numTags.prev = Len(kept)
  /\ pc # "createTagsForFile" => made = << >>
  /\ accepted \subseteq TagsOf(kept)
  /\ Flagged => \A line \in Range(kept) : IsPseudo(line) => line = PseudoTag(sorted)

Filing == \E kept \in Seq(WholeLines) : Filed(kept)

FileInv ==
  /\ TypeInv
  /\ pc = "openTagFile" =>
       /\ disk = before /\ numTags = [added |-> 0, prev |-> 0]
       /\ made = << >> /\ accepted = {} /\ ~resize
  /\ pc \in {"nextFile", "createTagsForFile", "sortTagFile"} => Filing
  /\ pc = "sortTagFile" => ~resize
  /\ FlagTellsOrderOfNew

LEMMA MadeAreLines ==
  ASSUME NEW lines \in Seq(TagLines)
  PROVE  lines \in Seq(WholeLines) /\ TagsOf(lines) = Range(lines)
<1>1. TagLines \subseteq WholeLines /\ \A line \in TagLines : ~IsPseudo(line)
  BY TagFileAssumption
<1>2. lines \in Seq(WholeLines)
  BY <1>1, SeqMonotonic
<1>3. Range(lines) \subseteq TagLines
  BY DEF Range
<1> QED
  BY <1>1, <1>2, <1>3 DEF TagsOf

LEMMA Prefix ==
  ASSUME NEW text \in Texts, NEW rest \in Texts
  PROVE  /\ text \o rest \in Texts /\ Len(text) \in Nat /\ Len(text \o rest) = Len(text) + Len(rest)
         /\ SubSeq(text \o rest, 1, Len(text)) = text /\ text \o << >> = text
BY DEF Texts

\* Writing where the lines end leaves what was behind them, less what is written over.
LEMMA WrittenAt ==
  ASSUME NEW text \in Texts, NEW rest \in Texts, NEW line \in Texts
  PROVE  \E over \in Texts :
           /\ Written(text \o rest, Len(text), line) = (text \o line) \o over
           /\ rest = << >> => over = << >>
<1> DEFINE all == text \o rest
           m == Len(text) + Len(line) + 1
           over == SubSeq(all, m, Len(all))
<1>1. all \in Seq(Characters) /\ Len(text) \in Nat /\ Len(line) \in Nat /\ Len(all) = Len(text) + Len(rest)
      /\ Len(rest) \in Nat /\ SubSeq(all, 1, Len(text)) = text
  BY DEF Texts
<1>2. Written(all, Len(text), line) = (text \o line) \o over
  BY <1>1 DEF Written
<1> HIDE DEF all
<1>3. over \in Texts
  BY <1>1 DEF Texts
<1>4. rest = << >> => over = << >>
  <2> SUFFICES ASSUME rest = << >> PROVE over = << >>
    OBVIOUS
  <2>1. Len(all) < m /\ m \in Int /\ Len(all) \in Int
    <3>1. Len(rest) = 0
      OBVIOUS
    <3> QED
      BY <1>1, <3>1
  <2> HIDE DEF m
  <2> QED
    BY <2>1, SubSeqEmpty
<1> QED
  BY <1>2, <1>3, <1>4 DEF all

\* The tags of the file are those of the source files done.
BookAgrees ==
  TypeInv /\ pc \in {"nextFile", "createTagsForFile", "sortTagFile"} /\ (pc = "sortTagFile" => ~resize)
    => \A kept \in Seq(WholeLines) : Filed(kept) => BookTags = TagsOf(kept)

LEMMA BookIs == BookAgrees
<1> SUFFICES ASSUME TypeInv, pc \in {"nextFile", "createTagsForFile", "sortTagFile"},
                    pc = "sortTagFile" => ~resize,
                    NEW kept \in Seq(WholeLines), Filed(kept)
             PROVE  BookTags = TagsOf(kept)
  BY DEF BookAgrees
<1> DEFINE k == Bytes(kept)
           m == Bytes(made)
           d == disk.bytes
<1>1. PICK rest \in Texts : d = Bytes(kept \o made) \o rest /\ (~resize => rest = << >>)
  BY DEF Filed
<1>2. made \in Seq(WholeLines)
  BY MadeAreLines DEF TypeInv
<1>3. k \in Texts /\ m \in Texts /\ Bytes(kept \o made) = k \o m
  BY <1>2, BytesType, BytesConcat
<1>4. TagsIn(k) = TagsOf(kept)
  BY TagsInBytes
<1>5. kept \o << >> = kept
  OBVIOUS
<1> HIDE DEF k, m, d
<1>6. k \o m \in Texts /\ Len(k \o m) = Len(k) + Len(m) /\ Len(k) \in Nat /\ Len(m) \in Nat
  BY <1>3, Prefix DEF Texts
<1>7. d = (k \o m) \o rest
  BY <1>1, <1>3
<1>8. SubSeq(d, 1, Len(k)) = k
  <2>1. m \o rest \in Texts /\ d = k \o (m \o rest)
    BY <1>3, <1>7, ConcatAssociative, Prefix DEF Texts
  <2> QED
    BY <1>3, <2>1, Prefix
<1>9. CASE pc = "createTagsForFile" /\ ~Appends
  <2>1. tagFilePosition = Len(k)
    BY <1>9 DEF Filed, k
  <2> QED
    BY <1>4, <1>8, <1>9, <2>1 DEF BookTags, d
<1>10. CASE pc = "createTagsForFile" /\ Appends
  <2>1. rest = << >>
    BY <1>1, <1>10 DEF TypeInv
  <2>2. d = k \o m
    BY <1>6, <1>7, <2>1, Prefix
  <2>3. Len(d) - Len(m) = Len(k)
    BY <1>6, <2>2
  <2>4. BookTags = TagsIn(SubSeq(d, 1, Len(d) - Len(m)))
    BY <1>10 DEF BookTags, d, m
  <2> QED
    BY <1>4, <1>8, <2>3, <2>4
<1>11. CASE pc = "nextFile" /\ ~Appends
  <2>1. made = << >> /\ position = Len(Bytes(kept \o made))
    BY <1>11 DEF Filed
  <2>2. position = Len(k)
    BY <1>5, <2>1 DEF k
  <2> QED
    BY <1>4, <1>8, <1>11, <2>2 DEF BookTags, d
<1>12. CASE pc = "sortTagFile" \/ (pc = "nextFile" /\ Appends)
  <2>1. made = << >> /\ rest = << >>
    BY <1>1, <1>12 DEF Filed, TypeInv
  <2>2. d = k
    <3>1. m = << >>
      BY <2>1, BytesNone DEF m
    <3>2. k \o m = k
      BY <1>3, <3>1, Prefix
    <3> QED
      BY <1>3, <1>7, <2>1, <3>2, Prefix
  <2>3. BookTags = TagsIn(d)
    BY <1>12 DEF BookTags, d
  <2> QED
    BY <1>4, <2>2, <2>3
<1> QED
  BY <1>9, <1>10, <1>11, <1>12
-----------------------------------------------------------------------------
(* Opening.                                                                *)

LEMMA PseudoIsNoTag ==
  ASSUME NEW flag \in SortMethods
  PROVE  << PseudoTag(flag) >> \in Seq(WholeLines) /\ Range(<< PseudoTag(flag) >>) = {PseudoTag(flag)}
         /\ TagsOf(<< PseudoTag(flag) >>) = {}
<1> DEFINE line == PseudoTag(flag)
<1>1. line \in WholeLines /\ IsPseudo(line)
  BY PseudoTagLine
<1> HIDE DEF line
<1>2. << line >> \in Seq(WholeLines) /\ Range(<< line >>) = {line}
  BY <1>1, RangeOne
<1> QED
  BY <1>1, <1>2 DEF TagsOf, line

LEMMA FlagUpdated ==
  ASSUME sorted \in SortMethods, NEW bytes, CtagsFile(bytes)
  PROVE  \E kept \in Seq(WholeLines) :
           /\ updateSortedFlag(bytes) = Bytes(kept)
           /\ Len(kept) = Len(LinesOf(bytes)) /\ TagsOf(kept) = TagsIn(bytes)
           /\ (bytes # << >> => bytes[FlagAt] # FoldSorted)
                => \A line \in Range(kept) : IsPseudo(line) => line = PseudoTag(sorted)
<1> DEFINE lines == LinesOf(bytes)
<1>1. /\ lines \in Seq(WholeLines) /\ Bytes(lines) = bytes
      /\ \A i \in DOMAIN lines :
           IsPseudo(lines[i]) => i = 1 /\ \E flag \in SortMethods : lines[i] = PseudoTag(flag)
  BY DEF CtagsFile
<1>2. TagsOf(lines) = TagsIn(bytes)
  BY DEF TagsIn, TagsOf
<1> HIDE DEF lines
<1>3. IsPseudo(bytes) <=> lines # << >> /\ IsPseudo(lines[1])
  BY <1>1, PseudoFirst
<1>4. bytes \in Texts
  BY <1>1, BytesType
<1>5. CASE ~IsPseudo(bytes)
  <2>1. updateSortedFlag(bytes) = Bytes(lines)
    BY <1>1, <1>5 DEF updateSortedFlag
  <2>2. \A line \in Range(lines) : ~IsPseudo(line)
    <3> SUFFICES ASSUME NEW i \in DOMAIN lines, IsPseudo(lines[i]) PROVE FALSE
      BY DEF Range
    <3>1. i = 1 /\ lines # << >>
      BY <1>1
    <3> QED
      BY <1>3, <1>5, <3>1
  <2> QED
    BY <1>1, <1>2, <2>1, <2>2 DEF lines
<1>6. CASE IsPseudo(bytes)
  <2>1. lines # << >> /\ IsPseudo(lines[1]) /\ 1 \in DOMAIN lines
    BY <1>1, <1>3, <1>6
  <2>2. PICK flag \in SortMethods : lines[1] = PseudoTag(flag)
    BY <1>1, <2>1
  <2>3. bytes[FlagAt] = flag
        /\ \A other \in SortMethods :
              /\ << PseudoTag(other) >> \o Tail(lines) \in Seq(WholeLines)
              /\ [bytes EXCEPT ![FlagAt] = other] = Bytes(<< PseudoTag(other) >> \o Tail(lines))
    BY <1>1, <2>1, <2>2, FlagOfFirst
  <2>4. bytes # << >>
    <3>1. Len(bytes) >= 2
      BY <1>4, <1>6, PseudoIs
    <3>2. Len(<< >>) = 0
      OBVIOUS
    <3> QED
      BY <3>1, <3>2
  <2>5. CASE flag = FoldSorted
    <3>1. updateSortedFlag(bytes) = Bytes(lines)
      BY <1>1, <2>3, <2>5 DEF updateSortedFlag, FoldSorted, Unsorted, Sorted
    <3> QED
      BY <1>1, <1>2, <2>3, <2>4, <2>5, <3>1 DEF lines
  <2>6. CASE flag # FoldSorted
    <3> DEFINE tail == Tail(lines)
               one == << PseudoTag(sorted) >>
               kept == one \o tail
    <3>1. updateSortedFlag(bytes) = Bytes(kept) /\ kept \in Seq(WholeLines)
      <4>1. flag \in {Unsorted, Sorted}
        BY <2>6 DEF SortMethods
      <4> HIDE DEF tail, one, kept
      <4>2. updateSortedFlag(bytes) = [bytes EXCEPT ![FlagAt] = sorted]
        BY <1>6, <2>3, <4>1 DEF updateSortedFlag
      <4> QED
        BY <2>3, <4>2 DEF tail, one, kept
    <3>2. tail \in Seq(WholeLines) /\ Len(tail) = Len(lines) - 1 /\ lines = << PseudoTag(flag) >> \o tail
          /\ \A i \in DOMAIN tail : i + 1 \in DOMAIN lines /\ i + 1 # 1 /\ tail[i] = lines[i + 1]
      BY <1>1, <2>1, <2>2
    <3>3. \A line \in Range(tail) : ~IsPseudo(line)
      BY <1>1, <3>2 DEF Range
    <3>4. one \in Seq(WholeLines) /\ Range(one) = {PseudoTag(sorted)} /\ TagsOf(one) = {}
      BY PseudoIsNoTag
    <3>5. << PseudoTag(flag) >> \in Seq(WholeLines) /\ TagsOf(<< PseudoTag(flag) >>) = {}
      BY PseudoIsNoTag
    <3>6. Len(one) = 1
      OBVIOUS
    <3> HIDE DEF tail, one
    <3>7. Len(kept) = Len(lines)
      <4>1. Len(kept) = Len(one) + Len(tail) /\ Len(lines) \in Nat
        BY <1>1, <3>2, <3>4
      <4> HIDE DEF kept
      <4> QED
        BY <3>2, <3>6, <4>1
    <3>8. TagsOf(kept) = TagsOf(tail)
      <4>1. TagsOf(one \o tail) = TagsOf(one) \cup TagsOf(tail)
        BY <3>2, <3>4, TagsOfConcat
      <4> QED
        BY <3>4, <4>1
    <3>9. TagsOf(lines) = TagsOf(tail)
      <4> DEFINE old == << PseudoTag(flag) >>
      <4>1. lines = old \o tail /\ old \in Seq(WholeLines) /\ TagsOf(old) = {}
        BY <3>2, <3>5
      <4> HIDE DEF old
      <4>2. TagsOf(old \o tail) = TagsOf(old) \cup TagsOf(tail)
        BY <3>2, <4>1, TagsOfConcat
      <4> QED
        BY <4>1, <4>2
    <3>10. Range(kept) = {PseudoTag(sorted)} \cup Range(tail)
      BY <3>2, <3>4, RangeConcat
    <3> HIDE DEF kept
    <3> QED
      BY <1>2, <3>1, <3>3, <3>7, <3>8, <3>9, <3>10 DEF lines
  <2> QED
    BY <2>5, <2>6
<1> QED
  BY <1>5, <1>6

LEMMA SortedType == TypeInv => sorted \in SortMethods /\ externalSort \in BOOLEAN
                               /\ option.append \in BOOLEAN
<1> SUFFICES ASSUME TypeInv PROVE sorted \in SortMethods /\ externalSort \in BOOLEAN
                                  /\ option.append \in BOOLEAN
  OBVIOUS
<1>1. option.sort \in SortMethods \X BOOLEAN /\ option.append \in BOOLEAN
  BY TagFileAssumption DEF TypeInv
<1> QED
  BY <1>1 DEF sorted, externalSort

\* The tags before and after a step, where the file holds some lines.
LEMMA BookFrom ==
  ASSUME FileInv, NEW kept \in Seq(WholeLines), Filed(kept),
         pc \in {"nextFile", "createTagsForFile", "sortTagFile"}
  PROVE  BookTags = TagsOf(kept)
BY BookIs DEF BookAgrees, FileInv

LEMMA BookTo ==
  ASSUME FileInv', NEW kept \in Seq(WholeLines), Filed(kept)',
         pc' \in {"nextFile", "createTagsForFile", "sortTagFile"}
  PROVE  BookTags' = TagsOf(kept)
<1>1. BookAgrees'
  BY BookIs, PTL
<1> QED
  BY <1>1 DEF BookAgrees, FileInv

\* What a TagBook does when the tag file does this.
BookMoves == [Book!Next]_(Book!vars)

LEMMA RefuseStep == ASSUME FileInv, refuseTagFile PROVE FileInv' /\ BookMoves
<1>1. pc = "openTagFile" /\ pc' = "refused"
      /\ UNCHANGED << option, disk, position, numTags, tagFilePosition, added,
                      resize, files, pass, made, accepted, before >>
  BY DEF refuseTagFile
<1>2. TypeInv'
  BY <1>1 DEF FileInv, TypeInv, Appends
<1>3. FlagTellsOrderOfNew'
  BY <1>1 DEF FlagTellsOrderOfNew, Closed
<1>4. FileInv'
  BY <1>1, <1>2, <1>3 DEF FileInv
<1>5. BookTags' = BookTags
  BY <1>1 DEF BookTags
<1>6. Book!Refuse
  BY <1>1, <1>5 DEF Book!Refuse
<1> QED
  BY <1>4, <1>6 DEF BookMoves, Book!Next

LEMMA CreateStep == ASSUME FileInv, createTagFile PROVE FileInv' /\ BookMoves
<1>0. PICK flag \in SortMethods : flag = sorted
  BY SortedType DEF FileInv
<1> DEFINE line == PseudoTag(flag)
           kept == << line >>
<1>1. /\ pc = "openTagFile" /\ pc' = "nextFile"
      /\ disk.exists => ~option.append
      /\ disk' = File(line) /\ position' = Len(line)
      /\ numTags' = [numTags EXCEPT !.added = @ + 1]
      /\ UNCHANGED << option, tagFilePosition, added, resize, files, pass, made, accepted, before >>
  BY <1>0 DEF createTagFile
<1>2. /\ TypeInv /\ disk = before /\ numTags = [added |-> 0, prev |-> 0]
      /\ made = << >> /\ accepted = {} /\ ~resize
  BY <1>1 DEF FileInv
<1>3. sorted' = flag
  BY <1>0, <1>1 DEF sorted
<1>4. line \in WholeLines /\ line \in Texts /\ kept \in Seq(WholeLines)
      /\ Range(kept) = {line} /\ TagsOf(kept) = {}
  BY PseudoTagLine, PseudoIsNoTag, WholeLine
<1>5. Bytes(kept) = line /\ Len(kept) = 1 /\ kept \o << >> = kept
  BY <1>4, BytesOne
<1>6. ~Appends /\ ~Appends'
  BY <1>1, <1>2 DEF Appends
<1>7. numTags' = [added |-> 1, prev |-> 0]
  BY <1>1, <1>2
<1>8. TypeInv'
  BY <1>1, <1>2, <1>6, <1>7 DEF TypeInv
<1> HIDE DEF line, kept
<1>9. disk'.bytes = Bytes(kept \o made') \o << >> /\ << >> \in Texts
  BY <1>1, <1>2, <1>4, <1>5, Prefix DEF File, Texts
<1>10. Filed(kept)'
  <2>1. position' = Len(Bytes(kept \o made'))
    BY <1>1, <1>2, <1>5
  <2>2. numTags'.added + numTags'.prev = Len(kept \o made')
    BY <1>1, <1>2, <1>5, <1>7
  <2>3. made' = << >> /\ accepted' = {} /\ pc' # "createTagsForFile"
    BY <1>1, <1>2
  <2>4. \A l \in Range(kept) : IsPseudo(l) => l = PseudoTag(sorted')
    BY <1>3, <1>4 DEF line
  <2> QED
    BY <1>6, <1>9, <2>1, <2>2, <2>3, <2>4 DEF Filed
<1>11. FlagTellsOrderOfNew'
  BY <1>1 DEF FlagTellsOrderOfNew, Closed
<1>12. FileInv'
  BY <1>1, <1>4, <1>8, <1>10, <1>11 DEF FileInv, Filing
<1>13. BookTags' = {}
  BY <1>1, <1>4, <1>10, <1>12, BookTo
<1>14. Book!Open(FALSE)
  BY <1>1, <1>13 DEF Book!Open
<1> QED
  BY <1>12, <1>14 DEF BookMoves, Book!Next

LEMMA AppendStep ==
  ASSUME OldFilesAreTagFiles, FileInv, appendTagFile
  PROVE  FileInv' /\ BookMoves
<1>1. /\ pc = "openTagFile" /\ pc' = "nextFile"
      /\ disk.exists /\ isTagFile(disk.bytes) /\ option.append
      /\ disk' = File(updateSortedFlag(disk.bytes))
      /\ numTags' = [numTags EXCEPT !.prev = Len(LinesOf(disk.bytes))]
      /\ UNCHANGED << option, tagFilePosition, added, resize, files, pass, made, accepted, before >>
  BY DEF appendTagFile
<1>2. /\ TypeInv /\ disk = before /\ numTags = [added |-> 0, prev |-> 0]
      /\ made = << >> /\ accepted = {} /\ ~resize
  BY <1>1 DEF FileInv
<1>3. sorted \in SortMethods /\ sorted' = sorted
  BY <1>1, <1>2, SortedType DEF sorted
<1>4. CtagsFile(disk.bytes)
  <2>1. before \in {NoFile} \cup {File(bytes) : bytes \in OldFiles} /\ before.exists
    BY <1>1, <1>2 DEF TypeInv
  <2>2. PICK bytes \in OldFiles : before = File(bytes)
    BY <2>1 DEF NoFile
  <2>3. disk.bytes = bytes
    BY <1>2, <2>2 DEF File
  <2> QED
    BY <1>1, <2>3 DEF OldFilesAreTagFiles
<1>5. PICK kept \in Seq(WholeLines) :
        /\ updateSortedFlag(disk.bytes) = Bytes(kept)
        /\ Len(kept) = Len(LinesOf(disk.bytes)) /\ TagsOf(kept) = TagsIn(disk.bytes)
        /\ (disk.bytes # << >> => disk.bytes[FlagAt] # FoldSorted)
             => \A line \in Range(kept) : IsPseudo(line) => line = PseudoTag(sorted)
  BY <1>3, <1>4, FlagUpdated
<1>6. Appends /\ Appends'
  BY <1>1, <1>2 DEF Appends
<1>7. numTags' = [added |-> 0, prev |-> Len(kept)] /\ Len(kept) \in Nat
  BY <1>1, <1>2, <1>5
<1>8. TypeInv'
  BY <1>1, <1>2, <1>7 DEF TypeInv, Appends
<1>9. disk'.bytes = Bytes(kept \o made') \o << >> /\ << >> \in Texts /\ kept \o made' = kept
  <2>1. made' = << >> /\ kept \o << >> = kept
    BY <1>1, <1>2
  <2>2. Bytes(kept) \o << >> = Bytes(kept)
    BY BytesType, Prefix
  <2>3. disk'.bytes = Bytes(kept)
    BY <1>1, <1>5 DEF File
  <2> QED
    BY <2>1, <2>2, <2>3 DEF Texts
<1>10. Filed(kept)'
  <2>1. Flagged' => \A line \in Range(kept) : IsPseudo(line) => line = PseudoTag(sorted')
    BY <1>1, <1>2, <1>3, <1>5, <1>6 DEF Flagged
  <2>2. made' = << >> /\ accepted' = {} /\ pc' # "createTagsForFile"
    BY <1>1, <1>2
  <2>3. numTags'.added + numTags'.prev = Len(kept \o made')
    BY <1>7, <1>9
  <2> QED
    BY <1>6, <1>9, <2>1, <2>2, <2>3 DEF Filed
<1>11. FlagTellsOrderOfNew'
  BY <1>1 DEF FlagTellsOrderOfNew, Closed
<1>12. FileInv'
  BY <1>1, <1>8, <1>10, <1>11 DEF FileInv, Filing
<1>13. BookTags' = TagsIn(disk.bytes)
  BY <1>1, <1>5, <1>10, <1>12, BookTo
<1>14. BookTags = TagsIn(disk.bytes)
  BY <1>1 DEF BookTags
<1>15. Book!Open(TRUE)
  BY <1>1, <1>13, <1>14 DEF Book!Open
<1> QED
  BY <1>12, <1>15 DEF BookMoves, Book!Next
-----------------------------------------------------------------------------
(* Source files and passes.                                                *)

LEMMA BeginStep == ASSUME FileInv, createTagsWithFallback PROVE FileInv' /\ BookMoves
<1>1. /\ pc = "nextFile" /\ pc' = "createTagsForFile"
      /\ tagFilePosition' = position /\ added' = numTags.added /\ made' = << >>
      /\ UNCHANGED << option, disk, position, numTags, resize, files, accepted, before >>
  BY DEF createTagsWithFallback
<1>2. TypeInv
  BY DEF FileInv
<1>3. PICK kept \in Seq(WholeLines) : Filed(kept)
  BY <1>1 DEF FileInv, Filing
<1>4. made = << >> /\ made' = << >> /\ kept \o << >> = kept
  BY <1>1, <1>3 DEF Filed
<1>5. Appends' = Appends /\ Flagged' = Flagged /\ sorted' = sorted
  BY <1>1 DEF Appends, Flagged, sorted
<1>6. TypeInv'
  BY <1>1, <1>2, <1>4 DEF TypeInv, Appends
<1>7. Filed(kept)'
  <2>1. PICK rest \in Texts : disk.bytes = Bytes(kept \o made) \o rest /\ (~resize => rest = << >>)
    BY <1>3 DEF Filed
  <2>2. disk'.bytes = Bytes(kept \o made') \o rest /\ (~resize' => rest = << >>)
    BY <1>1, <1>4, <2>1
  <2>3. numTags.added + numTags.prev = Len(kept) /\ (~Appends => position = Len(Bytes(kept)))
    BY <1>1, <1>3, <1>4 DEF Filed
  <2>4. accepted \subseteq TagsOf(kept)
        /\ (Flagged => \A line \in Range(kept) : IsPseudo(line) => line = PseudoTag(sorted))
    BY <1>3 DEF Filed
  <2> QED
    BY <1>1, <1>4, <1>5, <2>2, <2>3, <2>4 DEF Filed
<1>8. FlagTellsOrderOfNew'
  BY <1>1 DEF FlagTellsOrderOfNew, Closed
<1>9. FileInv'
  BY <1>1, <1>6, <1>7, <1>8 DEF FileInv, Filing
<1>10. BookTags' = BookTags
  BY <1>1, <1>3, <1>7, <1>9, BookFrom, BookTo
<1>11. UNCHANGED Book!vars
  BY <1>1, <1>10 DEF Book!vars
<1> QED
  BY <1>9, <1>11 DEF BookMoves
LEMMA TagStep ==
  ASSUME FileInv, NEW line \in TagLines, makeTagEntry(line)
  PROVE  FileInv' /\ BookMoves
<1>1. /\ pc = "createTagsForFile" /\ pc' = pc
      /\ disk' = File(Written(disk.bytes, WriteOffset, line))
      /\ position' = WriteOffset + Len(line)
      /\ numTags' = [numTags EXCEPT !.added = @ + 1]
      /\ made' = Append(made, line)
      /\ UNCHANGED << option, tagFilePosition, added, resize, files, pass, accepted, before >>
  BY DEF makeTagEntry, write
<1>2. TypeInv
  BY DEF FileInv
<1>3. PICK kept \in Seq(WholeLines) : Filed(kept)
  BY <1>1 DEF FileInv, Filing
<1>4. made \in Seq(WholeLines) /\ line \in WholeLines /\ line \in Texts
  BY <1>2, MadeAreLines, TagFileAssumption, WholeLine DEF TypeInv
<1> DEFINE lines == kept \o made
           text == Bytes(lines)
<1>5. lines \in Seq(WholeLines) /\ kept \o made' = Append(lines, line)
  BY <1>1, <1>4
<1>6. text \in Texts /\ Bytes(kept \o made') = text \o line
  BY <1>4, <1>5, BytesType, BytesAppend
<1>7. Appends' = Appends /\ Flagged' = Flagged /\ sorted' = sorted
  BY <1>1 DEF Appends, Flagged, sorted
<1>8. TypeInv'
  <2>1. made' \in Seq(TagLines)
    BY <1>1, <1>2 DEF TypeInv
  <2>2. numTags' \in [added : Nat, prev : Nat]
    BY <1>1, <1>2, SMTT(30) DEF TypeInv
  <2> QED
    BY <1>1, <1>2, <2>1, <2>2 DEF TypeInv, Appends
<1>9. PICK rest \in Texts : disk.bytes = text \o rest /\ (~resize => rest = << >>)
  BY <1>3 DEF Filed
<1>10. WriteOffset = Len(text)
  <2>1. CASE Appends
    <3>1. rest = << >>
      BY <1>2, <1>9, <2>1 DEF TypeInv
    <3>2. disk.bytes = text
      BY <1>6, <1>9, <3>1, Prefix
    <3> HIDE DEF text
    <3> QED
      BY <2>1, <3>2 DEF WriteOffset, Appends
  <2>2. CASE ~Appends
    <3>1. position = Len(text)
      BY <1>1, <1>3, <2>2 DEF Filed
    <3> HIDE DEF text
    <3> QED
      BY <2>2, <3>1 DEF WriteOffset, Appends
  <2> QED
    BY <2>1, <2>2
<1> HIDE DEF text
<1>11. PICK over \in Texts : disk'.bytes = (text \o line) \o over /\ (rest = << >> => over = << >>)
  <2>1. \E over \in Texts :
           /\ Written(text \o rest, Len(text), line) = (text \o line) \o over
           /\ rest = << >> => over = << >>
    BY <1>4, <1>6, WrittenAt
  <2>2. disk'.bytes = Written(text \o rest, Len(text), line)
    BY <1>1, <1>9, <1>10 DEF File
  <2> QED
    BY <2>1, <2>2
<1>12. Filed(kept)'
  <2>1. disk'.bytes = Bytes(kept \o made') \o over /\ (~resize' => over = << >>)
    BY <1>1, <1>6, <1>9, <1>11
  <2>2. position' = Len(Bytes(kept \o made'))
    BY <1>1, <1>4, <1>6, <1>10 DEF Texts
  <2>3. numTags'.added + numTags'.prev = Len(kept \o made')
    <3>1. numTags.added + numTags.prev = Len(lines)
      BY <1>3 DEF Filed
    <3> HIDE DEF lines
    <3>2. Len(kept \o made') = Len(lines) + 1
      BY <1>4, <1>5
    <3>3. numTags'.added = numTags.added + 1 /\ numTags'.prev = numTags.prev
          /\ numTags.added \in Nat /\ numTags.prev \in Nat
      BY <1>1, <1>2 DEF TypeInv
    <3> QED
      BY <3>1, <3>2, <3>3
  <2>4. /\ ~Appends => tagFilePosition = Len(Bytes(kept))
        /\ added + numTags.prev = Len(kept)
        /\ accepted \subseteq TagsOf(kept)
        /\ Flagged => \A l \in Range(kept) : IsPseudo(l) => l = PseudoTag(sorted)
    BY <1>1, <1>3 DEF Filed
  <2>5. numTags'.prev = numTags.prev
    BY <1>1, <1>2 DEF TypeInv
  <2> HIDE DEF lines
  <2> QED
    BY <1>1, <1>7, <2>1, <2>2, <2>3, <2>4, <2>5 DEF Filed
<1>13. FlagTellsOrderOfNew'
  BY <1>1 DEF FlagTellsOrderOfNew, Closed
<1>14. FileInv'
  BY <1>1, <1>8, <1>12, <1>13 DEF FileInv, Filing
<1>15. BookTags' = BookTags
  BY <1>1, <1>3, <1>12, <1>14, BookFrom, BookTo
<1>16. UNCHANGED Book!vars
  BY <1>1, <1>15 DEF Book!vars
<1> QED
  BY <1>14, <1>16 DEF BookMoves

LEMMA RetryStep == ASSUME ~Retries, FileInv, retry PROVE FileInv' /\ BookMoves
<1>1. /\ pc = "createTagsForFile" /\ pc' = pc /\ ~Appends
      /\ position' = tagFilePosition
      /\ numTags' = [numTags EXCEPT !.added = added]
      /\ resize' = TRUE /\ made' = << >>
      /\ UNCHANGED << option, disk, tagFilePosition, added, files, accepted, before >>
  BY DEF retry, Appends
<1>2. TypeInv
  BY DEF FileInv
<1>3. PICK kept \in Seq(WholeLines) : Filed(kept)
  BY <1>1 DEF FileInv, Filing
<1>4. made \in Seq(WholeLines) /\ kept \o << >> = kept
  BY <1>2, MadeAreLines DEF TypeInv
<1>5. Appends' = Appends /\ Flagged' = Flagged /\ sorted' = sorted
  BY <1>1 DEF Appends, Flagged, sorted
<1>6. TypeInv'
  <2>1. numTags' \in [added : Nat, prev : Nat]
    BY <1>1, <1>2 DEF TypeInv
  <2> QED
    BY <1>1, <1>2, <1>5, <2>1 DEF TypeInv
<1>7. Filed(kept)'
  <2>1. PICK rest \in Texts : disk.bytes = Bytes(kept \o made) \o rest
    BY <1>3 DEF Filed
  <2>2. Bytes(kept) \in Texts /\ Bytes(made) \in Texts /\ Bytes(kept \o made) = Bytes(kept) \o Bytes(made)
    BY <1>4, BytesType, BytesConcat
  <2>3. disk.bytes = Bytes(kept) \o (Bytes(made) \o rest) /\ Bytes(made) \o rest \in Texts
    BY <2>1, <2>2, ConcatAssociative, Prefix, SMTT(30) DEF Texts
  <2>4. disk'.bytes = Bytes(kept \o made') \o (Bytes(made) \o rest)
    BY <1>1, <1>4, <2>3
  <2>5. /\ tagFilePosition = Len(Bytes(kept)) /\ added + numTags.prev = Len(kept)
        /\ accepted \subseteq TagsOf(kept)
        /\ Flagged => \A l \in Range(kept) : IsPseudo(l) => l = PseudoTag(sorted)
    BY <1>1, <1>3 DEF Filed
  <2>6. numTags'.added = added /\ numTags'.prev = numTags.prev
    BY <1>1, <1>2 DEF TypeInv
  <2>7. position' = Len(Bytes(kept \o made')) /\ numTags'.added + numTags'.prev = Len(kept \o made')
    BY <1>1, <1>4, <2>5, <2>6
  <2> QED
    BY <1>1, <1>5, <2>3, <2>4, <2>5, <2>6, <2>7 DEF Filed
<1>8. FlagTellsOrderOfNew'
  BY <1>1 DEF FlagTellsOrderOfNew, Closed
<1>9. FileInv'
  BY <1>1, <1>6, <1>7, <1>8 DEF FileInv, Filing
<1>10. BookTags' = BookTags
  BY <1>1, <1>3, <1>7, <1>9, BookFrom, BookTo
<1>11. UNCHANGED Book!vars
  BY <1>1, <1>10 DEF Book!vars
<1> QED
  BY <1>9, <1>11 DEF BookMoves
LEMMA EndStep == ASSUME FileInv, endFile PROVE FileInv' /\ BookMoves
<1>1. /\ pc = "createTagsForFile" /\ pc' = "nextFile"
      /\ accepted' = accepted \cup Range(made) /\ made' = << >>
      /\ added' = 0
      /\ UNCHANGED << option, disk, position, numTags, resize, before >>
  BY DEF endFile
<1>2. TypeInv
  BY DEF FileInv
<1>3. PICK kept \in Seq(WholeLines) : Filed(kept)
  BY <1>1 DEF FileInv, Filing
<1>4. made \in Seq(WholeLines) /\ TagsOf(made) = Range(made) /\ Range(made) \subseteq TagLines
  <2>1. made \in Seq(TagLines)
    BY <1>2 DEF TypeInv
  <2>2. Range(made) \subseteq TagLines
    BY <2>1 DEF Range
  <2> QED
    BY <2>1, <2>2, MadeAreLines
<1>5. PICK lines \in Seq(WholeLines) : lines = kept \o made
  <2>1. kept \o made \in Seq(WholeLines)
    BY <1>4
  <2> QED
    BY <2>1
<1>6. TagsOf(lines) = TagsOf(kept) \cup Range(made)
  BY <1>4, <1>5, TagsOfConcat
<1>7. Appends' = Appends /\ Flagged' = Flagged /\ sorted' = sorted
  BY <1>1 DEF Appends, Flagged, sorted
<1>8. TypeInv'
  BY <1>1, <1>2, <1>4, <1>7 DEF TypeInv
<1>9. lines \o made' = lines
  BY <1>1
<1>10. accepted \subseteq TagsOf(kept)
       /\ (Flagged => \A l \in Range(kept) : IsPseudo(l) => l = PseudoTag(sorted))
  BY <1>3 DEF Filed
<1>11. Filed(lines)'
  <2>1. PICK rest \in Texts : disk.bytes = Bytes(kept \o made) \o rest /\ (~resize => rest = << >>)
    BY <1>3 DEF Filed
  <2>2. disk'.bytes = Bytes(lines \o made') \o rest /\ (~resize' => rest = << >>)
    BY <1>1, <1>5, <1>9, <2>1
  <2>3. /\ ~Appends => position = Len(Bytes(lines))
        /\ numTags.added + numTags.prev = Len(lines)
    BY <1>1, <1>3, <1>5 DEF Filed
  <2>4. accepted' \subseteq TagsOf(lines)
    BY <1>1, <1>6, <1>10
  <2>5. Flagged => \A l \in Range(lines) : IsPseudo(l) => l = PseudoTag(sorted)
    <3>1. Range(lines) = Range(kept) \cup Range(made)
      BY <1>4, <1>5, RangeConcat
    <3>2. \A l \in Range(made) : ~IsPseudo(l)
      BY <1>4, TagFileAssumption
    <3> QED
      BY <1>10, <3>1, <3>2
  <2> QED
    BY <1>1, <1>7, <1>9, <2>2, <2>3, <2>4, <2>5 DEF Filed
<1>12. FlagTellsOrderOfNew'
  BY <1>1 DEF FlagTellsOrderOfNew, Closed
<1>13. FileInv'
  BY <1>1, <1>8, <1>11, <1>12 DEF FileInv, Filing
<1>14. BookTags = TagsOf(kept) /\ BookTags' = TagsOf(lines)
  BY <1>1, <1>3, <1>11, <1>13, BookFrom, BookTo
<1>15. Book!AddFile
  <2>1. accepted' \in SUBSET AllTags
    BY <1>1, <1>2, <1>4 DEF TypeInv, AllTags
  <2>2. accepted \subseteq accepted' /\ BookTags' = BookTags \cup accepted'
    BY <1>1, <1>6, <1>10, <1>14
  <2> QED
    BY <1>1, <2>1, <2>2 DEF Book!AddFile
<1> QED
  BY <1>13, <1>15 DEF BookMoves, Book!Next

-----------------------------------------------------------------------------
(* The end of the run.                                                     *)

LEMMA CloseStep == ASSUME FileInv, closeTagFile PROVE FileInv' /\ BookMoves
<1>1. /\ pc = "nextFile" /\ pc' = "sortTagFile"
      /\ disk' = IF resize /\ position < Len(disk.bytes)
                 THEN File(SubSeq(disk.bytes, 1, position)) ELSE disk
      /\ resize' = FALSE
      /\ UNCHANGED << option, numTags, tagFilePosition, added, pass, made, accepted, before >>
  BY DEF closeTagFile
<1>2. TypeInv
  BY DEF FileInv
<1>3. PICK kept \in Seq(WholeLines) : Filed(kept)
  BY <1>1 DEF FileInv, Filing
<1> DEFINE text == Bytes(kept)
<1>4. made = << >> /\ kept \o << >> = kept /\ text \in Texts
  BY <1>1, <1>3, BytesType DEF Filed
<1>5. Appends' = Appends /\ Flagged' = Flagged /\ sorted' = sorted
  BY <1>1 DEF Appends, Flagged, sorted
<1>6. TypeInv'
  BY <1>1, <1>2, <1>5 DEF TypeInv
<1>7. PICK rest \in Texts : disk.bytes = text \o rest /\ (~resize => rest = << >>)
  BY <1>3, <1>4 DEF Filed
<1>8. ~Appends => position = Len(text)
  BY <1>1, <1>3, <1>4 DEF Filed
<1> HIDE DEF text
<1>9. disk'.bytes = text
  <2>1. CASE resize /\ position < Len(disk.bytes)
    <3>1. position = Len(text)
      BY <1>2, <1>8, <2>1 DEF TypeInv
    <3>2. disk'.bytes = SubSeq(text \o rest, 1, Len(text))
      BY <1>1, <1>7, <2>1, <3>1 DEF File
    <3> QED
      BY <1>4, <3>2, Prefix
  <2>2. CASE ~(resize /\ position < Len(disk.bytes))
    <3>1. rest = << >>
      <4>1. CASE ~resize
        BY <1>7, <4>1
      <4>2. CASE resize
        <5>1. position = Len(text) /\ ~ position < Len(text \o rest)
          BY <1>2, <1>7, <1>8, <2>2, <4>2 DEF TypeInv
        <5>2. Len(text \o rest) = Len(text) + Len(rest) /\ Len(text) \in Nat /\ Len(rest) \in Nat
          BY <1>4, Prefix
        <5>3. Len(rest) = 0
          BY <5>1, <5>2
        <5> QED
          BY <5>3 DEF Texts
      <4> QED
        BY <4>1, <4>2
    <3>2. text \o rest = text
      BY <1>4, <3>1, Prefix
    <3> QED
      BY <1>1, <1>7, <2>2, <3>2
  <2> QED
    BY <2>1, <2>2
<1>10. Filed(kept)'
  <2>1. disk'.bytes = Bytes(kept \o made') \o << >> /\ << >> \in Texts /\ kept \o made' = kept
    <3>1. text \o << >> = text /\ << >> \in Texts
      BY <1>4, Prefix DEF Texts
    <3> QED
      BY <1>1, <1>4, <1>9, <3>1 DEF text
  <2>2. numTags.added + numTags.prev = Len(kept)
        /\ accepted \subseteq TagsOf(kept)
        /\ (Flagged => \A l \in Range(kept) : IsPseudo(l) => l = PseudoTag(sorted))
    BY <1>3, <1>4 DEF Filed
  <2> QED
    BY <1>1, <1>4, <1>5, <2>1, <2>2 DEF Filed
<1>11. FlagTellsOrderOfNew'
  BY <1>1 DEF FlagTellsOrderOfNew, Closed
<1>12. FileInv'
  BY <1>1, <1>6, <1>10, <1>11 DEF FileInv, Filing
<1>13. BookTags' = BookTags
  BY <1>1, <1>3, <1>10, <1>12, BookFrom, BookTo
<1>14. UNCHANGED Book!vars
  BY <1>1, <1>13 DEF Book!vars
<1> QED
  BY <1>12, <1>14 DEF BookMoves

\* The flag and the order of lines whose pseudo tags tell the sort method.
LEMMA FlagOfLines ==
  ASSUME NEW lines \in Seq(WholeLines), NEW method \in SortMethods,
         \A line \in Range(lines) : IsPseudo(line) => line = PseudoTag(method),
         method # Unsorted => Ascending(method, lines)
  PROVE  InOrder(SortMethod(Bytes(lines)), LinesOf(Bytes(lines)))
<1>1. LinesOf(Bytes(lines)) = lines
  BY LinesOfBytes
<1>2. CASE ~IsPseudo(Bytes(lines))
  BY <1>2 DEF SortMethod, InOrder
<1>3. CASE IsPseudo(Bytes(lines))
  <2>1. lines # << >> /\ IsPseudo(lines[1])
    BY <1>3, PseudoFirst
  <2>2. lines[1] \in Range(lines)
    <3>1. 1 \in DOMAIN lines
      BY <2>1
    <3> QED
      BY <3>1 DEF Range
  <2>3. lines[1] = PseudoTag(method)
    BY <2>1, <2>2
  <2>4. Bytes(lines)[FlagAt] = method
    BY <2>1, <2>3, FlagOfFirst
  <2>5. SortMethod(Bytes(lines)) = method
    BY <1>3, <2>4 DEF SortMethod
  <2> QED
    BY <1>1, <2>5 DEF InOrder, Ascending
<1> QED
  BY <1>2, <1>3

LEMMA SortStep ==
  ASSUME FileInv, sortTagFile
  PROVE  FileInv' /\ (Exact => BookMoves)
<1>1. /\ pc = "sortTagFile" /\ pc' = "closed"
      /\ \/ /\ numTags.added > 0 /\ sorted # Unsorted
            /\ \E lines \in Orders(sorted, LinesToSort) : disk' = File(Bytes(Distinct(lines)))
         \/ /\ numTags.added = 0 \/ sorted = Unsorted
            /\ UNCHANGED disk
      /\ UNCHANGED << option, position, numTags, tagFilePosition, added, resize, files,
                      pass, made, accepted, before >>
  BY DEF sortTagFile
<1>2. TypeInv /\ ~resize
  BY <1>1 DEF FileInv
<1>3. PICK kept \in Seq(WholeLines) : Filed(kept)
  BY <1>1 DEF FileInv, Filing
<1>4. disk.bytes = Bytes(kept) /\ numTags.added + numTags.prev = Len(kept)
      /\ (Flagged => \A l \in Range(kept) : IsPseudo(l) => l = PseudoTag(sorted))
  <2>1. made = << >> /\ kept \o << >> = kept
    BY <1>1, <1>3 DEF Filed
  <2>2. disk.bytes = Bytes(kept) \o << >>
    BY <1>2, <1>3, <2>1 DEF Filed
  <2>3. Bytes(kept) \o << >> = Bytes(kept)
    BY BytesType, Prefix
  <2>4. numTags.added + numTags.prev = Len(kept)
        /\ (Flagged => \A l \in Range(kept) : IsPseudo(l) => l = PseudoTag(sorted))
    BY <1>3, <2>1 DEF Filed
  <2> QED
    BY <2>2, <2>3, <2>4
<1>5. LinesToSort = kept
  <2>1. LinesOf(disk.bytes) = kept
    BY <1>4, LinesOfBytes
  <2>2. SubSeq(kept, 1, Len(kept)) = kept
    OBVIOUS
  <2> QED
    BY <1>4, <2>1, <2>2 DEF LinesToSort
<1>6. Appends' = Appends /\ Flagged' = Flagged /\ sorted' = sorted /\ sorted \in SortMethods
  BY <1>1, <1>2, SortedType DEF Appends, Flagged, sorted
<1>7. TypeInv'
  BY <1>1, <1>2, <1>6 DEF TypeInv
<1>8. PICK lines \in Seq(WholeLines) :
        /\ disk'.bytes = Bytes(lines) /\ Range(lines) \subseteq Range(kept)
        /\ Exact => Range(lines) = Range(kept)
        /\ numTags.added > 0 /\ sorted # Unsorted => Ascending(sorted, lines)
  <2>1. CASE numTags.added > 0 /\ sorted # Unsorted
    <3>1. PICK order \in Orders(sorted, kept) : disk' = File(Bytes(Distinct(order)))
      BY <1>1, <1>2, <1>5, <2>1 DEF TypeInv
    <3>2. order \in Seq(WholeLines) /\ Range(order) = Range(kept) /\ Ascending(sorted, order)
      BY OrdersSort
    <3>3. /\ Distinct(order) \in Seq(WholeLines) /\ Ascending(sorted, Distinct(order))
          /\ Range(Distinct(order)) \subseteq Range(order)
          /\ Exact => Range(Distinct(order)) = Range(order)
      BY <3>2, DistinctKeeps
    <3>4. disk'.bytes = Bytes(Distinct(order))
      BY <3>1 DEF File
    <3> QED
      BY <3>2, <3>3, <3>4
  <2>2. CASE ~(numTags.added > 0 /\ sorted # Unsorted)
    <3>1. disk' = disk
      BY <1>1, <2>2
    <3> QED
      BY <1>4, <2>2, <3>1
  <2> QED
    BY <2>1, <2>2
<1>9. FlagTellsOrderOfNew'
  <2> SUFFICES ASSUME numTags'.added > 0, Flagged'
               PROVE  InOrder(SortMethod(disk'.bytes), LinesOf(disk'.bytes))
    BY DEF FlagTellsOrderOfNew, Flagged
  <2>1. \A l \in Range(lines) : IsPseudo(l) => l = PseudoTag(sorted)
    BY <1>4, <1>6, <1>8
  <2>2. sorted # Unsorted => Ascending(sorted, lines)
    BY <1>1, <1>8
  <2> QED
    BY <1>6, <1>8, <2>1, <2>2, FlagOfLines
<1>10. FileInv'
  BY <1>1, <1>7, <1>9 DEF FileInv
<1>11. ASSUME Exact PROVE BookMoves
  <2>1. BookTags = TagsOf(kept)
    BY <1>1, <1>3, BookFrom
  <2>2. BookTags' = TagsIn(disk'.bytes)
    BY <1>1 DEF BookTags
  <2>3. TagsIn(disk'.bytes) = TagsOf(lines) /\ TagsOf(lines) = TagsOf(kept)
    BY <1>8, <1>11, TagsInBytes DEF TagsOf
  <2>4. Book!Close
    BY <1>1, <2>1, <2>2, <2>3 DEF Book!Close
  <2> QED
    BY <2>4 DEF BookMoves, Book!Next
<1> QED
  BY <1>10, <1>11

-----------------------------------------------------------------------------
LEMMA FileInit == Init => FileInv /\ Book!Init
<1> SUFFICES ASSUME Init PROVE FileInv /\ Book!Init
  OBVIOUS
<1>1. /\ option \in [append : BOOLEAN, sort : Sorts]
      /\ disk \in {NoFile} \cup {File(bytes) : bytes \in OldFiles} /\ before = disk
      /\ numTags = [added |-> 0, prev |-> 0] /\ added = 0
      /\ resize = FALSE /\ made = << >> /\ accepted = {} /\ pc = "openTagFile"
  BY DEF Init
<1>2. TypeInv
  <2>1. made \in Seq(TagLines)
    BY <1>1
  <2>2. before \in {NoFile} \cup {File(bytes) : bytes \in OldFiles}
    BY <1>1
  <2>3. numTags \in [added : Nat, prev : Nat] /\ added \in Nat
    BY <1>1
  <2>4. accepted \in SUBSET TagLines /\ resize \in BOOLEAN /\ ~resize
    BY <1>1
  <2>5. option \in [append : BOOLEAN, sort : Sorts]
    BY <1>1
  <2> QED
    BY <2>1, <2>2, <2>3, <2>4, <2>5 DEF TypeInv
<1>3. FlagTellsOrderOfNew
  BY <1>1 DEF FlagTellsOrderOfNew, Closed
<1>4. FileInv
  BY <1>1, <1>2, <1>3 DEF FileInv
<1>5. BookTags = TagsIn(disk.bytes)
  BY <1>1 DEF BookTags
<1>6. TagsIn(disk.bytes) \subseteq AllTags
  <2>1. CASE disk = NoFile
    <3>1. << >> \in Seq(WholeLines) /\ Range(<< >>) = {}
      BY DEF Range
    <3>2. TagsIn(Bytes(<< >>)) = TagsOf(<< >>)
      BY <3>1, TagsInBytes
    <3> QED
      BY <2>1, <3>1, <3>2, BytesNone DEF NoFile, TagsOf
  <2>2. CASE disk # NoFile
    <3>1. PICK bytes \in OldFiles : disk = File(bytes)
      BY <1>1, <2>2
    <3> QED
      BY <3>1 DEF File, AllTags
  <2> QED
    BY <2>1, <2>2
<1>7. Book!Init
  BY <1>1, <1>5, <1>6 DEF Book!Init
<1> QED
  BY <1>4, <1>7

LEMMA FileNext ==
  ASSUME OldFilesAreTagFiles, ~Retries, FileInv, [Next]_vars
  PROVE  FileInv' /\ (Exact => BookMoves)
<1>1. CASE Next
  <2>1. CASE refuseTagFile
    BY <2>1, RefuseStep
  <2>2. CASE appendTagFile
    BY <2>2, AppendStep
  <2>3. CASE createTagFile
    BY <2>3, CreateStep
  <2>4. CASE createTagsWithFallback
    BY <2>4, BeginStep
  <2>5. ASSUME NEW line \in TagLines, makeTagEntry(line) PROVE FileInv' /\ BookMoves
    BY <2>5, TagStep
  <2>6. CASE retry
    BY <2>6, RetryStep
  <2>7. CASE endFile
    BY <2>7, EndStep
  <2>8. CASE closeTagFile
    BY <2>8, CloseStep
  <2>9. CASE sortTagFile
    BY <2>9, SortStep
  <2> QED
    BY <1>1, <2>1, <2>2, <2>3, <2>4, <2>5, <2>6, <2>7, <2>8, <2>9 DEF Next
<1>2. CASE UNCHANGED vars
  <2>1. UNCHANGED << option, disk, position, numTags, tagFilePosition, added, resize,
                     files, pass, made, accepted, before, pc >>
    BY <1>2 DEF vars
  <2>2. Appends' = Appends /\ Flagged' = Flagged /\ sorted' = sorted /\ BookTags' = BookTags
    BY <2>1 DEF Appends, Flagged, sorted, BookTags
  <2>3. TypeInv'
    BY <2>1, <2>2 DEF FileInv, TypeInv
  <2>4. Filing => Filing'
    <3> SUFFICES ASSUME NEW kept \in Seq(WholeLines), Filed(kept) PROVE Filed(kept)'
      BY DEF Filing
    <3> QED
      BY <2>1, <2>2 DEF Filed
  <2>5. FlagTellsOrderOfNew'
    BY <2>1, <2>2 DEF FileInv, FlagTellsOrderOfNew, Closed
  <2>6. FileInv'
    BY <2>1, <2>3, <2>4, <2>5 DEF FileInv
  <2>7. UNCHANGED Book!vars
    BY <2>1, <2>2 DEF Book!vars
  <2> QED
    BY <2>6, <2>7 DEF BookMoves
<1> QED
  BY <1>1, <1>2

\* Given old files as ctags leaves them, and no pass repeated while a file is
\* appended to, the lines counted are those of the file (CountsLines): the count
\* survives passes that failed, and sorting reads every line (sort.c:174).
THEOREM LinesCounted ==
  OldFilesAreTagFiles /\ ~Retries => (Spec => []CountsLines)
<1> SUFFICES ASSUME OldFilesAreTagFiles, ~Retries PROVE Spec => []CountsLines
  OBVIOUS
<1>1. FileInv => CountsLines
  <2> SUFFICES ASSUME FileInv, pc \in {"nextFile", "sortTagFile"}
               PROVE  numTags.added + numTags.prev =
                        Len(LinesOf(IF pc = "nextFile" /\ ~Appends
                                    THEN SubSeq(disk.bytes, 1, position) ELSE disk.bytes))
    BY DEF CountsLines
  <2>1. PICK kept \in Seq(WholeLines) : Filed(kept)
    BY DEF FileInv, Filing
  <2>2. made = << >> /\ kept \o << >> = kept
    BY <2>1 DEF Filed
  <2>3. PICK rest \in Texts : disk.bytes = Bytes(kept) \o rest /\ (~resize => rest = << >>)
    BY <2>1, <2>2 DEF Filed
  <2>4. Bytes(kept) \in Texts /\ LinesOf(Bytes(kept)) = kept
    BY BytesType, LinesOfBytes
  <2>5. numTags.added + numTags.prev = Len(kept)
    BY <2>1, <2>2 DEF Filed
  <2>6. CASE pc = "nextFile" /\ ~Appends
    <3>1. position = Len(Bytes(kept))
      BY <2>1, <2>2, <2>6 DEF Filed
    <3>2. SubSeq(disk.bytes, 1, position) = Bytes(kept)
      BY <2>3, <2>4, <3>1, Prefix
    <3> QED
      BY <2>4, <2>5, <2>6, <3>2
  <2>7. CASE ~(pc = "nextFile" /\ ~Appends)
    <3>1. rest = << >>
      BY <2>3, <2>7 DEF FileInv, TypeInv
    <3>2. disk.bytes = Bytes(kept)
      BY <2>3, <2>4, <3>1, Prefix
    <3> QED
      BY <2>4, <2>5, <2>7, <3>2
  <2> QED
    BY <2>6, <2>7
<1>2. FileInv /\ [Next]_vars => FileInv'
  BY FileNext
<1> QED
  BY <1>1, <1>2, FileInit, PTL DEF Spec

\* Under the same hypotheses the flag of a file that tags were added to tells the
\* order of its lines (FlagTellsOrderOfNew), whichever way qsort orders lines that
\* compare equal, and also when sorting keeps one of the lines that differ in case.
THEOREM FlagTells ==
  OldFilesAreTagFiles /\ ~Retries => (Spec => []FlagTellsOrderOfNew)
<1> SUFFICES ASSUME OldFilesAreTagFiles, ~Retries PROVE Spec => []FlagTellsOrderOfNew
  OBVIOUS
<1>1. FileInv => FlagTellsOrderOfNew
  BY DEF FileInv
<1>2. FileInv /\ [Next]_vars => FileInv'
  BY FileNext
<1> QED
  BY <1>1, <1>2, FileInit, PTL DEF Spec

\* Where no build's sort drops lines that differ in case only, the file is also a
\* TagBook (KeepsTagBook): the tags of a pass that failed are never seen in it,
\* and cutting and sorting lose and invent none.
THEOREM TagBookKept ==
  OldFilesAreTagFiles /\ ~Retries /\ << FoldSorted, TRUE >> \notin Sorts
    => (Spec => KeepsTagBook)
<1> SUFFICES ASSUME OldFilesAreTagFiles, ~Retries, << FoldSorted, TRUE >> \notin Sorts
             PROVE  Spec => KeepsTagBook
  OBVIOUS
<1>1. FileInv => Exact
  <2> SUFFICES ASSUME FileInv, externalSort, sorted = FoldSorted PROVE FALSE
    BY DEF Exact
  <2>1. option.sort \in Sorts /\ option.sort \in SortMethods \X BOOLEAN
    BY TagFileAssumption DEF FileInv, TypeInv
  <2>2. option.sort = << FoldSorted, TRUE >>
    <3>1. option.sort[2] \in BOOLEAN /\ option.sort = << option.sort[1], option.sort[2] >>
      BY <2>1
    <3>2. option.sort[2] = TRUE
      BY <3>1 DEF externalSort
    <3>3. option.sort[1] = FoldSorted
      BY DEF sorted
    <3> QED
      BY <3>1, <3>2, <3>3
  <2> QED
    BY <2>1, <2>2
<1>2. FileInv /\ [Next]_vars => FileInv' /\ [Book!Next]_(Book!vars)
  BY <1>1, FileNext DEF BookMoves
<1>3. Init => FileInv /\ Book!Init
  BY FileInit
<1>4. Spec => Book!Spec
  BY <1>2, <1>3, PTL DEF Spec, Book!Spec
<1> QED
  BY <1>4 DEF KeepsTagBook
===============================================================================
