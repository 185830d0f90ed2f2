----------------------------- MODULE PlugIn_proofs -----------------------------
(***************************************************************************)
(* Proofs about the COM shell, for any number of instances and references: *)
(* an instance lives exactly as long as a reference to it is held, and the *)
(* factory counts the living instances.                                    *)
(***************************************************************************)
EXTENDS PlugIn, FiniteSetTheorems, TLAPS

-------------------------------------------------------------------------------
(* Counting references *)

\* A client that takes reference s for instance i adds one to the references
\* of i and leaves those of the others alone.
LEMMA TakeRef ==
  ASSUME TypeOK, NEW s \in References, NEW i \in Instances, Free(s),
         target' = [target EXCEPT ![s] = i], NEW j \in Instances
  PROVE  /\ j = i => /\ Cardinality(RefsTo(j)') = Cardinality(RefsTo(j)) + 1
                     /\ RefsTo(j)' # {}
         /\ j # i => RefsTo(j)' = RefsTo(j)
<1>1. i # None /\ target[s] = None /\ target \in [References -> Instances \cup {None}]
  BY PlugInAssumption DEF PlugInAssumption, TypeOK, Free
<1>2. IsFiniteSet(RefsTo(j))
  BY FS_Subset, PlugInAssumption DEF PlugInAssumption, RefsTo
<1>3. s \notin RefsTo(j)
  BY <1>1, PlugInAssumption DEF RefsTo, PlugInAssumption
<1>4. j = i => RefsTo(j)' = RefsTo(j) \cup {s}
  BY <1>1 DEF RefsTo
<1>5. j # i => RefsTo(j)' = RefsTo(j)
  BY <1>1, <1>3 DEF RefsTo
<1> QED
  BY <1>2, <1>3, <1>4, <1>5, FS_AddElement

\* A client that gives reference r back takes one from its instance.
LEMMA GiveRef ==
  ASSUME TypeOK, NEW r \in References, Held(r),
         target' = [target EXCEPT ![r] = None], NEW j \in Instances
  PROVE  /\ j = target[r] =>
              /\ Cardinality(RefsTo(j)') = Cardinality(RefsTo(j)) - 1
              /\ Cardinality(RefsTo(j)') \in Nat
              /\ RefsTo(j)' = {} <=> Cardinality(RefsTo(j)') = 0
         /\ j # target[r] => RefsTo(j)' = RefsTo(j)
<1>1. target \in [References -> Instances \cup {None}] /\ j # None
  BY PlugInAssumption DEF PlugInAssumption, TypeOK
<1>2. IsFiniteSet(RefsTo(j))
  BY FS_Subset, PlugInAssumption DEF PlugInAssumption, RefsTo
<1>3. j = target[r] => r \in RefsTo(j) /\ RefsTo(j)' = RefsTo(j) \ {r}
  BY <1>1 DEF RefsTo
<1>4. j # target[r] => RefsTo(j)' = RefsTo(j)
  BY <1>1 DEF RefsTo
<1>5. j = target[r] => IsFiniteSet(RefsTo(j)')
  BY <1>2, <1>3, FS_RemoveElement
<1> QED
  BY <1>2, <1>3, <1>4, <1>5, FS_RemoveElement, FS_CardinalityType, FS_EmptySet

-------------------------------------------------------------------------------
(* The invariant: the four properties together are inductive               *)

ShellInv == TypeOK /\ RefCountExact /\ FactoryExact /\ Callable

\* Only a live instance is referred to.
LEMMA TargetLive ==
  ASSUME ShellInv, NEW r \in References, Held(r)
  PROVE  /\ target[r] \in live /\ target[r] \in Instances
         /\ refCount[target[r]] \in Nat
         /\ refCount[target[r]] = Cardinality(RefsTo(target[r]))
<1>1. target[r] \in Instances /\ r \in RefsTo(target[r])
  BY DEF ShellInv, TypeOK, Held, RefsTo
<1> QED
  BY <1>1 DEF ShellInv, TypeOK, RefCountExact

LEMMA LiveFinite == TypeOK => IsFiniteSet(live)
BY FS_Subset, PlugInAssumption DEF PlugInAssumption, TypeOK

LEMMA InitShell == Init => ShellInv
<1> SUFFICES ASSUME Init PROVE ShellInv
  OBVIOUS
<1>1. \A i \in Instances : RefsTo(i) = {}
  BY PlugInAssumption DEF PlugInAssumption, Init, RefsTo
<1> QED
  BY <1>1, FS_EmptySet
     DEF Init, ShellInv, TypeOK, RefCountExact, FactoryExact, Callable, Held,
         Interfaces, Importers

LEMMA FactoryShell ==
  ASSUME ShellInv, NEW r \in References, NEW i \in Instances, Factory(r, i)
  PROVE  ShellInv'
<1>1. /\ Free(r) /\ i \notin live /\ live' = live \cup {i}
      /\ slot' = [slot EXCEPT ![i] = "NULL"]
      /\ refCount' = [refCount EXCEPT ![i] = 1]
      /\ factory' = factory + 1 /\ uuidCount' = uuidCount + 1
      /\ target' = [target EXCEPT ![r] = i]
      /\ iid' = [iid EXCEPT ![r] = "unknown"]
  BY DEF Factory, Alloc
<1>2. TypeOK
  BY DEF ShellInv
<1>3. TypeOK'
  BY <1>1, <1>2 DEF TypeOK, Interfaces, Importers
<1>4. RefCountExact'
  <2> SUFFICES ASSUME NEW j \in Instances
               PROVE  /\ refCount'[j] = Cardinality(RefsTo(j)')
                      /\ j \in live' <=> RefsTo(j)' # {}
    BY DEF RefCountExact
  <2>1. refCount[j] = Cardinality(RefsTo(j)) /\ (j \in live <=> RefsTo(j) # {})
    BY DEF ShellInv, RefCountExact
  <2>2. /\ j = i => /\ Cardinality(RefsTo(j)') = Cardinality(RefsTo(j)) + 1
                    /\ RefsTo(j)' # {}
        /\ j # i => RefsTo(j)' = RefsTo(j)
    BY <1>1, <1>2, TakeRef
  <2>3. refCount'[j] = IF j = i THEN 1 ELSE refCount[j]
    BY <1>1, <1>2 DEF TypeOK
  <2>4. j = i => Cardinality(RefsTo(j)) = 0
    BY <1>1, <2>1, FS_EmptySet
  <2> QED
    BY <1>1, <2>1, <2>2, <2>3, <2>4
<1>5. FactoryExact'
  BY <1>1, <1>2, LiveFinite, FS_AddElement DEF ShellInv, FactoryExact
<1>6. Callable'
  <2> SUFFICES ASSUME NEW s \in References, target'[s] # None, iid'[s] \in Importers
               PROVE  /\ slot'[target'[s]] # "NULL"
                      /\ Asked \cap Importers = {iid'[s]} =>
                           slot'[target'[s]] = iid'[s]
    BY DEF Callable, Held
  <2>1. s # r
    BY <1>1, <1>2 DEF TypeOK, Importers
  <2>2. target'[s] = target[s] /\ iid'[s] = iid[s] /\ Held(s)
    BY <1>1, <1>2, <2>1 DEF TypeOK, Held
  <2>3. target[s] # i /\ target[s] \in Instances
    BY <1>1, <2>2, TargetLive
  <2> QED
    BY <1>1, <1>2, <2>2, <2>3 DEF ShellInv, Callable, TypeOK
<1> QED
  BY <1>3, <1>4, <1>5, <1>6 DEF ShellInv

\* A step that takes one reference more for a live instance and writes its
\* count and possibly its table: QueryInterface and AddRef.
LEMMA TakeShell ==
  ASSUME ShellInv, NEW r \in References, NEW s \in References,
         NEW k \in Interfaces \ {"foreign"}, Held(r), Free(s),
         refCount' = [refCount EXCEPT ![target[r]] = @ + 1],
         target' = [target EXCEPT ![s] = target[r]],
         iid' = [iid EXCEPT ![s] = k],
         UNCHANGED << live, factory, uuidCount >>,
         slot' \in [Instances -> Importers \cup {"NULL"}], Callable'
  PROVE  ShellInv'
<1>1. target[r] \in live /\ target[r] \in Instances /\ refCount[target[r]] \in Nat
  BY TargetLive
<1>2. TypeOK
  BY DEF ShellInv
<1>3. TypeOK'
  BY <1>1, <1>2 DEF TypeOK
<1>4. RefCountExact'
  <2> SUFFICES ASSUME NEW j \in Instances
               PROVE  /\ refCount'[j] = Cardinality(RefsTo(j)')
                      /\ j \in live' <=> RefsTo(j)' # {}
    BY DEF RefCountExact
  <2>1. refCount[j] = Cardinality(RefsTo(j)) /\ (j \in live <=> RefsTo(j) # {})
    BY DEF ShellInv, RefCountExact
  <2>2. /\ j = target[r] => /\ Cardinality(RefsTo(j)') = Cardinality(RefsTo(j)) + 1
                            /\ RefsTo(j)' # {}
        /\ j # target[r] => RefsTo(j)' = RefsTo(j)
    BY <1>1, <1>2, TakeRef
  <2>3. refCount'[j] = IF j = target[r] THEN refCount[j] + 1 ELSE refCount[j]
    BY <1>2 DEF TypeOK
  <2> QED
    BY <1>1, <2>1, <2>2, <2>3
<1>5. FactoryExact'
  BY DEF ShellInv, FactoryExact
<1> QED
  BY <1>3, <1>4, <1>5 DEF ShellInv

LEMMA QueryShell ==
  ASSUME ShellInv, NEW r \in References, NEW s \in References,
         NEW k \in Interfaces, QueryInterface(r, s, k)
  PROVE  ShellInv'
<1>1. /\ Held(r) /\ Free(s) /\ k \in Asked \ {"foreign"}
      /\ slot' = IF k \in Importers THEN [slot EXCEPT ![target[r]] = k] ELSE slot
      /\ target' = [target EXCEPT ![s] = target[r]]
      /\ iid' = [iid EXCEPT ![s] = k]
  BY DEF QueryInterface
<1>2. TypeOK /\ target[r] \in Instances
  BY TargetLive, <1>1 DEF ShellInv
<1>3. slot' \in [Instances -> Importers \cup {"NULL"}]
  BY <1>1, <1>2 DEF TypeOK
<1>4. Callable'
  <2> SUFFICES ASSUME NEW q \in References, target'[q] # None, iid'[q] \in Importers
               PROVE  /\ slot'[target'[q]] # "NULL"
                      /\ Asked \cap Importers = {iid'[q]} =>
                           slot'[target'[q]] = iid'[q]
    BY DEF Callable, Held
  <2>1. target'[q] = IF q = s THEN target[r] ELSE target[q]
    BY <1>1, <1>2 DEF TypeOK
  <2>2. iid'[q] = IF q = s THEN k ELSE iid[q]
    BY <1>1, <1>2 DEF TypeOK
  <2>3. target'[q] \in Instances
    BY <1>2, <2>1 DEF TypeOK
  <2>4. CASE k \in Importers /\ target'[q] = target[r]
    <3>1. slot'[target'[q]] = k
      BY <1>1, <1>2, <2>4 DEF TypeOK
    <3> QED
      BY <3>1, <2>4, <1>1 DEF Importers
  <2>5. CASE ~(k \in Importers /\ target'[q] = target[r])
    <3>1. q # s
      BY <2>1, <2>2, <2>5
    <3>2. slot'[target'[q]] = slot[target[q]]
      BY <1>1, <1>2, <2>1, <2>3, <2>5, <3>1 DEF TypeOK
    <3> QED
      BY <2>1, <2>2, <3>1, <3>2 DEF ShellInv, Callable, Held
  <2> QED
    BY <2>4, <2>5
<1> QED
  BY <1>1, <1>3, <1>4, TakeShell DEF QueryInterface

LEMMA AddRefShell ==
  ASSUME ShellInv, NEW r \in References, NEW s \in References, AddRef(r, s)
  PROVE  ShellInv'
<1>1. /\ Held(r) /\ Free(s) /\ UNCHANGED slot
      /\ target' = [target EXCEPT ![s] = target[r]]
      /\ iid' = [iid EXCEPT ![s] = iid[r]]
  BY DEF AddRef
<1>2. TypeOK /\ iid[r] \in Interfaces \ {"foreign"}
  BY DEF ShellInv, TypeOK
<1>3. slot' \in [Instances -> Importers \cup {"NULL"}]
  BY <1>1, <1>2 DEF TypeOK
<1>4. Callable'
  <2> SUFFICES ASSUME NEW q \in References, target'[q] # None, iid'[q] \in Importers
               PROVE  /\ slot'[target'[q]] # "NULL"
                      /\ Asked \cap Importers = {iid'[q]} =>
                           slot'[target'[q]] = iid'[q]
    BY DEF Callable, Held
  <2>1. PICK p \in References : target'[q] = target[p] /\ iid'[q] = iid[p]
    <3>1. /\ target'[q] = IF q = s THEN target[r] ELSE target[q]
          /\ iid'[q] = IF q = s THEN iid[r] ELSE iid[q]
      BY <1>1, <1>2 DEF TypeOK
    <3> QED
      BY <3>1
  <2> QED
    BY <1>1, <2>1 DEF ShellInv, Callable, Held
<1> QED
  BY <1>1, <1>2, <1>3, <1>4, TakeShell DEF AddRef

LEMMA ReleaseShell ==
  ASSUME ShellInv, NEW r \in References, Release(r)
  PROVE  ShellInv'
<1>0. PICK i \in Instances : i = target[r]
  BY TargetLive DEF Release
<1>1. /\ Held(r) /\ UNCHANGED slot
      /\ refCount' = [refCount EXCEPT ![i] = @ - 1]
      /\ target' = [target EXCEPT ![r] = None]
      /\ iid' = [iid EXCEPT ![r] = "unknown"]
      /\ refCount'[i] = 0 => Dealloc(i)
      /\ refCount'[i] # 0 => UNCHANGED << live, factory, uuidCount >>
  BY <1>0 DEF Release
<1>2. TypeOK
  BY DEF ShellInv
<1>3. i \in live /\ i \in Instances /\ refCount[i] \in Nat
      /\ refCount[i] = Cardinality(RefsTo(i))
  BY <1>0, <1>1, TargetLive
<1>4. /\ refCount'[i] = refCount[i] - 1
      /\ refCount'[i] = Cardinality(RefsTo(i)')
      /\ refCount'[i] \in Nat
      /\ RefsTo(i)' = {} <=> refCount'[i] = 0
  <2>1. refCount'[i] = refCount[i] - 1
    BY <1>1, <1>2, <1>3 DEF TypeOK
  <2>2. /\ Cardinality(RefsTo(i)') = Cardinality(RefsTo(i)) - 1
        /\ Cardinality(RefsTo(i)') \in Nat
        /\ RefsTo(i)' = {} <=> Cardinality(RefsTo(i)') = 0
    BY <1>0, <1>1, <1>2, GiveRef
  <2> QED
    BY <1>3, <2>1, <2>2
<1>5. /\ live' = IF refCount'[i] = 0 THEN live \ {i} ELSE live
      /\ factory' = IF refCount'[i] = 0 THEN factory - 1 ELSE factory
      /\ uuidCount' = IF refCount'[i] = 0 THEN uuidCount - 1 ELSE uuidCount
  BY <1>1 DEF Dealloc
<1>6. FactoryExact' /\ factory' \in Nat
  <2>1. IsFiniteSet(live) /\ factory = Cardinality(live) /\ uuidCount = factory
    BY <1>2, LiveFinite DEF ShellInv, FactoryExact
  <2>2. IsFiniteSet(live \ {i}) /\ Cardinality(live \ {i}) = Cardinality(live) - 1
    BY <1>3, <2>1, FS_RemoveElement
  <2>3. Cardinality(live \ {i}) \in Nat
    BY <2>2, FS_CardinalityType
  <2> QED
    BY <1>2, <1>5, <2>1, <2>2, <2>3 DEF FactoryExact, TypeOK
<1>7. TypeOK'
  <2>1. refCount' \in [Instances -> Nat]
    BY <1>1, <1>2, <1>4 DEF TypeOK
  <2>2. target' \in [References -> Instances \cup {None}]
        /\ iid' \in [References -> Interfaces \ {"foreign"}]
    BY <1>1, <1>2 DEF TypeOK, Interfaces, Importers
  <2>3. live' \subseteq Instances /\ uuidCount' \in Nat
    BY <1>2, <1>5, <1>6 DEF TypeOK, FactoryExact
  <2> QED
    BY <1>1, <1>2, <1>6, <2>1, <2>2, <2>3 DEF TypeOK
<1>8. RefCountExact'
  <2> SUFFICES ASSUME NEW j \in Instances
               PROVE  /\ refCount'[j] = Cardinality(RefsTo(j)')
                      /\ j \in live' <=> RefsTo(j)' # {}
    BY DEF RefCountExact
  <2>1. CASE j = i
    BY <1>3, <1>4, <1>5, <2>1
  <2>2. CASE j # i
    <3>1. RefsTo(j)' = RefsTo(j)
      BY <1>0, <1>1, <1>2, <2>2, GiveRef
    <3>2. refCount'[j] = refCount[j] /\ (j \in live' <=> j \in live)
      BY <1>1, <1>2, <1>5, <2>2 DEF TypeOK
    <3> QED
      BY <3>1, <3>2 DEF ShellInv, RefCountExact
  <2> QED
    BY <2>1, <2>2
<1>9. Callable'
  <2> SUFFICES ASSUME NEW q \in References, target'[q] # None, iid'[q] \in Importers
               PROVE  /\ slot'[target'[q]] # "NULL"
                      /\ Asked \cap Importers = {iid'[q]} =>
                           slot'[target'[q]] = iid'[q]
    BY DEF Callable, Held
  <2>1. target'[q] = target[q] /\ iid'[q] = iid[q]
    BY <1>1, <1>2 DEF TypeOK
  <2> QED
    BY <1>1, <2>1 DEF ShellInv, Callable, Held
<1> QED
  BY <1>6, <1>7, <1>8, <1>9 DEF ShellInv

LEMMA ShellInvariant == Spec => []ShellInv
<1>1. ShellInv /\ [Next]_vars => ShellInv'
  <2> SUFFICES ASSUME ShellInv, [Next]_vars PROVE ShellInv'
    OBVIOUS
  <2>1. CASE \E r \in References, i \in Instances : Factory(r, i)
    BY <2>1, FactoryShell
  <2>2. CASE \E r, s \in References, k \in Interfaces : QueryInterface(r, s, k)
    BY <2>2, QueryShell
  <2>3. CASE \E r, s \in References : AddRef(r, s)
    BY <2>3, AddRefShell
  <2>4. CASE \E r \in References : Release(r)
    BY <2>4, ReleaseShell
  <2>5. CASE UNCHANGED vars
    <3>1. UNCHANGED << live, refCount, slot, target, iid, factory, uuidCount >>
      BY <2>5 DEF vars
    <3>2. TypeOK' /\ FactoryExact' /\ Callable'
      BY <3>1 DEF ShellInv, TypeOK, FactoryExact, Callable, Held
    <3>3. \A i \in Instances : RefsTo(i)' = RefsTo(i)
      BY <3>1 DEF RefsTo
    <3>4. RefCountExact'
      BY <3>1, <3>3 DEF ShellInv, RefCountExact
    <3> QED
      BY <3>2, <3>4 DEF ShellInv
  <2> QED
    BY <2>1, <2>2, <2>3, <2>4, <2>5 DEF Next
<1> QED
  BY InitShell, <1>1, PTL DEF Spec

\* The variables of the shell keep their types: in particular no count ever
\* goes below zero.
THEOREM ShellTypeCorrect == Spec => []TypeOK
<1>1. ShellInv => TypeOK
  BY DEF ShellInv
<1> QED
  BY <1>1, ShellInvariant, PTL

\* However many clients share however many instances, an instance is freed
\* with the last reference to it and not before.
THEOREM RefCountCorrect == Spec => []RefCountExact
<1>1. ShellInv => RefCountExact
  BY DEF ShellInv
<1> QED
  BY <1>1, ShellInvariant, PTL

\* CFPlugIn's count for the factory is the number of living instances.
THEOREM FactoryCorrect == Spec => []FactoryExact
<1>1. ShellInv => FactoryExact
  BY DEF ShellInv
<1> QED
  BY <1>1, ShellInvariant, PTL

\* A client with an importer interface finds its function, never NULL.
THEOREM CallableCorrect == Spec => []Callable
<1>1. ShellInv => Callable
  BY DEF ShellInv
<1> QED
  BY <1>1, ShellInvariant, PTL
===============================================================================
