------------------------------- MODULE Iteration -------------------------------
(***************************************************************************)
(* Facts about recursive functions that the other proofs need: induction   *)
(* over the natural numbers, stated for sets, and the existence of the     *)
(* values that repeated application of a function runs through.  They rest *)
(* on the library's pigeon-hole principle alone.                           *)
(***************************************************************************)
EXTENDS Integers, Sequences, FiniteSetTheorems, TLAPS

\* A set that holds zero and the successor of each of its numbers holds them all.
LEMMA SetInduction ==
  ASSUME NEW S, 0 \in S, \A n \in Nat : n \in S => n + 1 \in S
  PROVE  Nat \subseteq S
<1>1. SUFFICES ASSUME NEW m \in Nat, m \notin S PROVE FALSE
  OBVIOUS
<1> DEFINE T == (0 .. m) \ S
<1>2. IsFiniteSet(0 .. m) /\ IsFiniteSet(T)
  <2>1. IsFiniteSet(0 .. m)
    BY FS_Interval
  <2>2. T \subseteq 0 .. m
    OBVIOUS
  <2> QED BY <2>1, <2>2, FS_Subset
<1> DEFINE U == T \ {m}
<1>3. m \in T
  BY <1>1
<1>4. IsFiniteSet(U) /\ Cardinality(U) = Cardinality(T) - 1 /\ Cardinality(T) \in Nat
  BY <1>2, <1>3, FS_RemoveElement, FS_CardinalityType
<1> DEFINE f == [x \in T |-> x - 1]
<1>5. \A x \in T : x - 1 \in U
  <2> TAKE x \in T
  <2>1. x \in Nat /\ x <= m /\ x \notin S
    BY <1>1
  <2>2. x # 0
    BY <2>1
  <2>3. x - 1 \in Nat /\ (x - 1) + 1 = x /\ x - 1 # m /\ x - 1 <= m
    BY <1>1, <2>1, <2>2
  <2>4. x - 1 \notin S
    BY <2>1, <2>3
  <2> QED BY <2>3, <2>4
<1>6. f \in [T -> U]
  BY <1>5
<1>7. \A x, y \in T : x # y => f[x] # f[y]
  BY <1>1
<1>8. \E x, y \in T : x # y /\ f[x] = f[y]
  <2> HIDE DEF T, U, f
  <2> QED BY <1>2, <1>4, <1>6, FS_PigeonHole, Z3
<1> QED BY <1>7, <1>8
\* The first n values from x on.
Run(S, x, next, n) ==
  {h \in [0 .. n -> S] : h[0] = x /\ \A i \in 1 .. n : h[i] = next[h[i - 1]]}

LEMMA RunExists ==
  ASSUME NEW S, NEW x \in S, NEW next \in [S -> S]
  PROVE  \A n \in Nat : Run(S, x, next, n) # {}
<1> DEFINE Ran == {n \in Nat : Run(S, x, next, n) # {}}
<1>1. 0 \in Ran
  <2>1. [i \in 0 .. 0 |-> x] \in Run(S, x, next, 0)
    BY DEF Run
  <2> QED
    BY <2>1
<1>2. ASSUME NEW n \in Nat, n \in Ran PROVE n + 1 \in Ran
  <2>1. PICK h \in [0 .. n -> S] : h[0] = x /\ \A i \in 1 .. n : h[i] = next[h[i - 1]]
    BY <1>2 DEF Run
  <2> DEFINE longer == [i \in 0 .. n + 1 |-> IF i = n + 1 THEN next[h[n]] ELSE h[i]]
  <2>2. h[n] \in S /\ next[h[n]] \in S
    OBVIOUS
  <2>3. longer \in [0 .. n + 1 -> S]
    BY <2>2
  <2>4. longer[0] = x
    BY <2>1
  <2>5. ASSUME NEW i \in 1 .. n + 1 PROVE longer[i] = next[longer[i - 1]]
    BY <2>1
  <2>6. longer \in Run(S, x, next, n + 1)
    BY <2>3, <2>4, <2>5 DEF Run
  <2> QED
    BY <2>6
<1>3. Nat \subseteq Ran
  BY <1>1, <1>2, SetInduction
<1> QED
  BY <1>3

LEMMA RunsAgree ==
  ASSUME NEW S, NEW x, NEW next, NEW n \in Nat, NEW m \in Nat,
         NEW g \in Run(S, x, next, n), NEW h \in Run(S, x, next, m)
  PROVE  \A i \in Nat : i <= n /\ i <= m => g[i] = h[i]
<1> DEFINE Same == {i \in Nat : i <= n /\ i <= m => g[i] = h[i]}
<1>1. 0 \in Same
  BY DEF Run
<1>2. ASSUME NEW i \in Nat, i \in Same PROVE i + 1 \in Same
  <2> SUFFICES ASSUME i + 1 <= n, i + 1 <= m PROVE g[i + 1] = h[i + 1]
    OBVIOUS
  <2>1. g[i] = h[i]
    BY <1>2
  <2>2. i + 1 \in 1 .. n /\ i + 1 \in 1 .. m /\ (i + 1) - 1 = i
    OBVIOUS
  <2> QED
    BY <2>1, <2>2 DEF Run
<1>3. Nat \subseteq Same
  BY <1>1, <1>2, SetInduction
<1> QED
  BY <1>3

\* All the values from x on.
Orbit(S, x, next, g) ==
  g \in [Nat -> S] /\ g[0] = x /\ \A n \in Nat : g[n + 1] = next[g[n]]

\* A function applied again and again runs through a sequence of values.
LEMMA Iterates ==
  ASSUME NEW S, NEW x \in S, NEW next \in [S -> S]
  PROVE  \E g : Orbit(S, x, next, g)
<1> DEFINE run(n) == CHOOSE h \in Run(S, x, next, n) : TRUE
           g == [n \in Nat |-> run(n)[n]]
<1>1. \A n \in Nat : run(n) \in Run(S, x, next, n)
  BY RunExists
<1>2. g \in [Nat -> S]
  <2>1. ASSUME NEW n \in Nat PROVE run(n)[n] \in S
    <3> HIDE DEF run
    <3>1. run(n) \in [0 .. n -> S] /\ n \in 0 .. n
      BY <1>1 DEF Run
    <3> QED
      BY <3>1
  <2> QED
    BY <2>1
<1>3. g[0] = x
  BY <1>1 DEF Run
<1>4. ASSUME NEW n \in Nat PROVE g[n + 1] = next[g[n]]
  <2>1. run(n) \in Run(S, x, next, n) /\ run(n + 1) \in Run(S, x, next, n + 1)
    BY <1>1
  <2> HIDE DEF run
  <2>2. run(n)[n] = run(n + 1)[n]
    BY <2>1, RunsAgree
  <2>3. run(n + 1)[n + 1] = next[run(n + 1)[n]]
    <3>1. n + 1 \in 1 .. n + 1 /\ (n + 1) - 1 = n
      OBVIOUS
    <3> QED
      BY <2>1, <3>1 DEF Run
  <2> QED
    BY <2>2, <2>3
<1> QED
  BY <1>2, <1>3, <1>4 DEF Orbit

\* A set of natural numbers that is not empty has a least one.
LEMMA LeastNumber ==
  ASSUME NEW S \in SUBSET Nat, S # {}
  PROVE  \E n \in S : \A m \in S : n <= m
<1> SUFFICES ASSUME \A n \in S : \E m \in S : m < n PROVE FALSE
  OBVIOUS
<1> DEFINE Below == {n \in Nat : \A m \in 0 .. n : m \notin S}
<1>1. 0 \in Below
  OBVIOUS
<1>2. ASSUME NEW n \in Nat, n \in Below PROVE n + 1 \in Below
  <2> SUFFICES ASSUME n + 1 \in S PROVE FALSE
    BY <1>2
  <2>1. PICK m \in S : m < n + 1
    OBVIOUS
  <2> QED
    BY <1>2, <2>1
<1>3. Nat \subseteq Below
  BY <1>1, <1>2, SetInduction
<1>4. PICK n \in S : TRUE
  OBVIOUS
<1>5. n \in Below /\ n \in 0 .. n
  BY <1>3
<1> QED
  BY <1>5

\* Induction over the turns of a loop.
LEMMA TurnInduction ==
  ASSUME NEW S, NEW n \in Nat, 0 \in S, \A k \in 1 .. n : k - 1 \in S => k \in S
  PROVE  0 .. n \subseteq S
<1> DEFINE Turns == {k \in Nat : k <= n => k \in S}
<1>1. 0 \in Turns
  OBVIOUS
<1>2. ASSUME NEW k \in Nat, k \in Turns PROVE k + 1 \in Turns
  <2> SUFFICES ASSUME k + 1 <= n PROVE k + 1 \in S
    OBVIOUS
  <2>1. k \in S /\ k + 1 \in 1 .. n /\ (k + 1) - 1 = k
    BY <1>2
  <2> QED
    BY <2>1
<1>3. Nat \subseteq Turns
  BY <1>1, <1>2, SetInduction
<1> QED
  BY <1>3

\* What a loop of n turns leaves after each: step takes the value before a turn,
\* and the number of the turn.
Loop(S, x, n, step, after) ==
  /\ after \in [0 .. n -> S] /\ after[0] = x
  /\ \A k \in 1 .. n : after[k] = step[<< after[k - 1], k >>]

LEMMA LoopRuns ==
  ASSUME NEW S, NEW x \in S, NEW n \in Nat, NEW step \in [S \X (1 .. n) -> S]
  PROVE  \E after : Loop(S, x, n, step, after)
<1> DEFINE States == Nat \X S
           next == [p \in States |->
                      << p[1] + 1, IF p[1] + 1 <= n THEN step[<< p[2], p[1] + 1 >>] ELSE p[2] >>]
<1>1. PICK run : Orbit(States, << 0, x >>, next, run)
  <2>1. next \in [States -> States]
    OBVIOUS
  <2>2. << 0, x >> \in States
    OBVIOUS
  <2> HIDE DEF next, States
  <2> QED
    BY <2>1, <2>2, Iterates
<1>2. run \in [Nat -> States] /\ run[0] = << 0, x >> /\ \A k \in Nat : run[k + 1] = next[run[k]]
  BY <1>1 DEF Orbit
<1> DEFINE Numbered == {k \in Nat : run[k][1] = k}
<1>3. Nat \subseteq Numbered
  <2>1. 0 \in Numbered
    BY <1>2
  <2>2. ASSUME NEW k \in Nat, k \in Numbered PROVE k + 1 \in Numbered
    <3>1. run[k] \in States /\ run[k][1] = k /\ run[k + 1] = next[run[k]]
      BY <1>2, <2>2
    <3>2. next[run[k]][1] = run[k][1] + 1
      BY <3>1
    <3> QED
      BY <3>1, <3>2
  <2> HIDE DEF Numbered
  <2> QED
    BY <2>1, <2>2, SetInduction
<1> DEFINE after == [k \in 0 .. n |-> run[k][2]]
<1>4. after \in [0 .. n -> S]
  BY <1>2
<1>5. after[0] = x
  BY <1>2
<1>6. ASSUME NEW k \in 1 .. n PROVE after[k] = step[<< after[k - 1], k >>]
  <2>1. k - 1 \in Nat /\ (k - 1) + 1 = k /\ k - 1 \in 0 .. n /\ k \in 0 .. n /\ k <= n
    OBVIOUS
  <2>2. run[k - 1] \in States /\ run[k - 1][1] = k - 1 /\ run[k] = next[run[k - 1]]
    BY <1>2, <1>3, <2>1
  <2>3. run[k][2] = step[<< run[k - 1][2], k >>]
    BY <2>1, <2>2
  <2> QED
    BY <2>1, <2>3
<1> HIDE DEF after
<1> QED
  BY <1>4, <1>5, <1>6 DEF Loop

\* Induction over sequences, from their first elements on.
LEMMA SeqInduction ==
  ASSUME NEW S, NEW T, << >> \in T,
         \A s \in Seq(S) : s \in T => \A e \in S : Append(s, e) \in T
  PROVE  Seq(S) \subseteq T
<1> SUFFICES ASSUME NEW s \in Seq(S) PROVE s \in T
  OBVIOUS
<1> DEFINE n == Len(s)
           begun(k) == SubSeq(s, 1, k)
           Good == {k \in 0 .. n : begun(k) \in T}
<1>1. n \in Nat /\ begun(0) = << >> /\ begun(n) = s
  OBVIOUS
<1>2. ASSUME NEW k \in 1 .. n
      PROVE  begun(k - 1) \in Seq(S) /\ s[k] \in S /\ begun(k) = Append(begun(k - 1), s[k])
  OBVIOUS
<1> HIDE DEF n, begun
<1>3. 0 \in Good
  BY <1>1
<1>4. ASSUME NEW k \in 1 .. n, k - 1 \in Good PROVE k \in Good
  <2>1. begun(k - 1) \in T
    BY <1>4
  <2>2. Append(begun(k - 1), s[k]) \in T
    BY <1>2, <2>1
  <2>3. begun(k) = Append(begun(k - 1), s[k])
    BY <1>2
  <2>4. k \in 0 .. n
    BY <1>1
  <2> QED
    BY <2>2, <2>3, <2>4
<1>5. 0 .. n \subseteq Good
  <2> HIDE DEF Good
  <2> QED
    BY <1>1, <1>3, <1>4, TurnInduction
<1> QED
  BY <1>1, <1>5

\* The n-th of some places, from the left.
Place(P, n) == CHOOSE i \in P : Cardinality({j \in P : j <= i}) = n

\* A place to the right of the others is the last and moves none of them.
LEMMA PlaceToTheRight ==
  ASSUME NEW P \in SUBSET Nat, IsFiniteSet(P), NEW k \in Nat, \A i \in P : i < k
  PROVE  /\ Cardinality(P) \in Nat /\ Cardinality(P \cup {k}) = Cardinality(P) + 1
         /\ \A m \in 1 .. Cardinality(P) : Place(P \cup {k}, m) = Place(P, m)
         /\ Place(P \cup {k}, Cardinality(P) + 1) = k
<1> DEFINE Q == P \cup {k}
           c == Cardinality(P)
<1>1. c \in Nat /\ Cardinality(Q) = c + 1 /\ IsFiniteSet(Q)
  <2>1. k \notin P
    OBVIOUS
  <2> QED
    BY <2>1, FS_AddElement, FS_CardinalityType
<1>2. ASSUME NEW i \in P PROVE {j \in Q : j <= i} = {j \in P : j <= i}
  OBVIOUS
<1>3. {j \in Q : j <= k} = Q
  <2>1. \A j \in Q : j <= k
    OBVIOUS
  <2> HIDE DEF Q
  <2> QED
    BY <2>1
<1>4. ASSUME NEW i \in P PROVE Cardinality({j \in P : j <= i}) <= c
  <2>1. {j \in P : j <= i} \subseteq P
    OBVIOUS
  <2> QED
    BY <2>1, FS_Subset
<1> HIDE DEF c
<1>5. ASSUME NEW m \in 1 .. c PROVE Place(Q, m) = Place(P, m)
  <2>1. ASSUME NEW i
        PROVE  (i \in Q /\ Cardinality({j \in Q : j <= i}) = m)
                 <=> (i \in P /\ Cardinality({j \in P : j <= i}) = m)
    <3>1. CASE i \in P
      BY <1>2, <3>1
    <3>2. CASE i = k
      <4>1. k \notin P /\ Cardinality({j \in Q : j <= k}) # m
        BY <1>1, <1>3
      <4> QED
        BY <3>2, <4>1
    <3>3. CASE i \notin Q
      BY <3>3
    <3> QED
      BY <3>1, <3>2, <3>3
  <2> QED
    BY <2>1 DEF Place
<1>6. Place(Q, c + 1) = k
  <2>1. ASSUME NEW i
        PROVE  (i \in Q /\ Cardinality({j \in Q : j <= i}) = c + 1) <=> i = k
    <3>1. CASE i \in P
      BY <1>1, <1>2, <1>4, <3>1
    <3>2. CASE i = k
      BY <1>1, <1>3, <3>2
    <3>3. CASE i \notin Q
      BY <3>3
    <3> QED
      BY <3>1, <3>2, <3>3
  <2> QED
    BY <2>1 DEF Place
<1> QED
  BY <1>1, <1>5, <1>6 DEF c
===============================================================================
