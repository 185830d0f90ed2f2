-------------------------------- MODULE PlugIn --------------------------------
(***************************************************************************)
(* The COM shell of the importer (main.c): the factory makes instances,    *)
(* QueryInterface and AddRef hand out references, Release takes them back  *)
(* and frees the instance with the last one.  Clients use the host's one   *)
(* worker thread, so a call is atomic; calls of different clients and of   *)
(* different instances interleave in every order, and the address of a     *)
(* freed instance may be handed out again.                                 *)
(*                                                                         *)
(* A reference stands for one count a client owes a Release for.  A client *)
(* plays by the rules of COM: it uses a reference it holds and releases it *)
(* once.                                                                   *)
(***************************************************************************)
EXTENDS Integers, FiniteSets

CONSTANTS
  Instances,      \* addresses malloc may give an instance
  References,     \* references clients may hold at the same time
  Asked           \* the interfaces clients ask for

Importers  == {"path", "url"}      \* kMDImporterInterfaceID, ...URLInterfaceID
Interfaces == Importers \cup {"unknown", "foreign"}
None       == "none"

ASSUME PlugInAssumption ==
  /\ IsFiniteSet(Instances) /\ IsFiniteSet(References)
  /\ None \notin Instances
  /\ Asked \subseteq Interfaces

VARIABLES
  live,       \* instances allocated and not freed
  refCount,   \* MetadataImporterPluginType.refCount
  slot,       \* fifth entry of conduitInterface: the import function
  target,     \* the instance a reference points to, or None
  iid,        \* the interface a reference was handed out for
  factory,    \* instances CFPlugIn counts for the factory
  uuidCount   \* retains of the factory's UUID by instances

vars == << live, refCount, slot, target, iid, factory, uuidCount >>

Held(r)  == target[r] # None
Free(r)  == target[r] = None
RefsTo(i) == {r \in References : target[r] = i}

-------------------------------------------------------------------------------
Init ==
  /\ live = {}
  /\ refCount = [i \in Instances |-> 0]
  /\ slot = [i \in Instances |-> "NULL"]
  /\ target = [r \in References |-> None]
  /\ iid = [r \in References |-> "unknown"]
  /\ factory = 0
  /\ uuidCount = 0

\* AllocMetadataImporterPluginType: the table is a copy of testInterfaceFtbl,
\* whose import function is NULL, and the count starts at one.
Alloc(i) ==
  /\ i \notin live
  /\ live' = live \cup {i}
  /\ slot' = [slot EXCEPT ![i] = "NULL"]
  /\ refCount' = [refCount EXCEPT ![i] = 1]
  /\ factory' = factory + 1
  /\ uuidCount' = uuidCount + 1

\* MetadataImporterPluginFactory for kMDImporterTypeID; for any other type it
\* answers NULL and changes nothing.
Factory(r, i) ==
  /\ Free(r)
  /\ Alloc(i)
  /\ target' = [target EXCEPT ![r] = i]
  /\ iid' = [iid EXCEPT ![r] = "unknown"]

\* Mutant: a reference for the URL interface is not counted.
QueryInterfaceUncounted(r, s, interface) ==
  /\ Held(r) /\ Free(s)
  /\ interface \in Asked \ {"foreign"}
  /\ slot' = IF interface \in Importers
             THEN [slot EXCEPT ![target[r]] = interface] ELSE slot
  /\ refCount' = IF interface = "url" THEN refCount
                 ELSE [refCount EXCEPT ![target[r]] = @ + 1]
  /\ target' = [target EXCEPT ![s] = target[r]]
  /\ iid' = [iid EXCEPT ![s] = interface]
  /\ UNCHANGED << live, factory, uuidCount >>

\* MetadataImporterQueryInterface: an importer interface writes its import
\* function into the table every client of the instance shares.  A foreign
\* interface is refused and changes nothing.
QueryInterface(r, s, interface) ==
  /\ Held(r) /\ Free(s)
  /\ interface \in Asked \ {"foreign"}
  /\ slot' = IF interface \in Importers
             THEN [slot EXCEPT ![target[r]] = interface] ELSE slot
  /\ refCount' = [refCount EXCEPT ![target[r]] = @ + 1]
  /\ target' = [target EXCEPT ![s] = target[r]]
  /\ iid' = [iid EXCEPT ![s] = interface]
  /\ UNCHANGED << live, factory, uuidCount >>

\* MetadataImporterPluginAddRef: a second reference for the same interface.
AddRef(r, s) ==
  /\ Held(r) /\ Free(s)
  /\ refCount' = [refCount EXCEPT ![target[r]] = @ + 1]
  /\ target' = [target EXCEPT ![s] = target[r]]
  /\ iid' = [iid EXCEPT ![s] = iid[r]]
  /\ UNCHANGED << live, slot, factory, uuidCount >>

\* Mutant: the factory keeps counting a freed instance.
DeallocStillCounted(i) ==
  /\ live' = live \ {i}
  /\ uuidCount' = uuidCount - 1
  /\ UNCHANGED factory

\* DeallocMetadataImporterPluginType.
Dealloc(i) ==
  /\ live' = live \ {i}
  /\ factory' = factory - 1
  /\ uuidCount' = uuidCount - 1

\* Mutant: the instance goes while one reference is left.
ReleaseEarly(r) ==
  LET i == target[r] IN
  /\ Held(r)
  /\ refCount' = [refCount EXCEPT ![i] = @ - 1]
  /\ IF refCount'[i] <= 1 THEN Dealloc(i)
     ELSE UNCHANGED << live, factory, uuidCount >>
  /\ target' = [target EXCEPT ![r] = None]
  /\ iid' = [iid EXCEPT ![r] = "unknown"]
  /\ UNCHANGED slot

\* MetadataImporterPluginRelease.
Release(r) ==
  LET i == target[r] IN
  /\ Held(r)
  /\ refCount' = [refCount EXCEPT ![i] = @ - 1]
  /\ IF refCount'[i] = 0 THEN Dealloc(i)
     ELSE UNCHANGED << live, factory, uuidCount >>
  /\ target' = [target EXCEPT ![r] = None]
  /\ iid' = [iid EXCEPT ![r] = "unknown"]
  /\ UNCHANGED slot

Next ==
  \/ \E r \in References, i \in Instances : Factory(r, i)
  \/ \E r, s \in References, k \in Interfaces : QueryInterface(r, s, k)
  \/ \E r, s \in References : AddRef(r, s)
  \/ \E r \in References : Release(r)

Spec == Init /\ [][Next]_vars

-------------------------------------------------------------------------------
(* Properties *)

\* Types of the shell's variables.
TypeOK ==
  /\ live \subseteq Instances
  /\ refCount \in [Instances -> Nat]
  /\ slot \in [Instances -> Importers \cup {"NULL"}]
  /\ target \in [References -> Instances \cup {None}]
  /\ iid \in [References -> Interfaces \ {"foreign"}]
  /\ factory \in Nat
  /\ uuidCount \in Nat

\* The count of an instance is the number of references clients hold, and an
\* instance lives exactly while one is held: Release frees it neither early,
\* under a client, nor never, whoever releases last.
RefCountExact ==
  \A i \in Instances :
    /\ refCount[i] = Cardinality(RefsTo(i))
    /\ i \in live <=> RefsTo(i) # {}

\* CFPlugIn may unload the bundle when the factory has no instance: its count
\* and the retains of the UUID are the number of living instances.
FactoryExact == factory = Cardinality(live) /\ uuidCount = factory

\* Whoever holds an importer interface finds a function in the table, never
\* the NULL of testInterfaceFtbl, though the table is shared and clients come
\* and go; and if all clients ask for one importer interface, it is its own.
Callable ==
  \A r \in References :
    Held(r) /\ iid[r] \in Importers =>
      /\ slot[target[r]] # "NULL"
      /\ Asked \cap Importers = {iid[r]} => slot[target[r]] = iid[r]
===============================================================================
