--------------------------- MODULE CollectingProofs ---------------------------
(***************************************************************************)
(* Proofs about Collecting, for any set of modules.                        *)
(***************************************************************************)
EXTENDS Collecting, Integers, TLAPS

\* What the table holds was collected, also after something was reported.
TableFromCollected ==
    /\ symbols.modules \subseteq TableOf(Collected).modules
    /\ symbols.types \subseteq TableOf(Collected).types

\* The invariant that Collect preserves.
Inductive ==
    /\ TypeOK
    /\ AcceptedInAnyOrder
    /\ TableOfCollected
    /\ TableFromCollected
    /\ BlameIsDeserved

-----------------------------------------------------------------------------
(* What the checks of collect come to.                                     *)

\* The checks inside a module find what is not coherent.
LEMMA ChecksFindIncoherence ==
    ASSUME NEW m \in Candidates
    PROVE  Coherent(m) <=> ~UIDClash(m) /\ ~NameClash(m)
<1> USE DeclarationsAssumption DEF Repeats, NameOf, UidOf, InputUIDClash
<1>1. Distinct(m.types) <=> ~Repeats(m.types, UidOf) /\ ~Repeats(m.types, NameOf)
  BY DEF Distinct
<1>2. ASSUME NEW i \in DOMAIN m.types
      PROVE  Distinct(m.types[i].attributes) <=>
                /\ ~Repeats(m.types[i].attributes, UidOf)
                /\ ~Repeats(m.types[i].attributes, NameOf)
  BY DEF Distinct
<1>3. ASSUME NEW i \in DOMAIN m.types, NEW k \in DOMAIN m.types[i].attributes
      PROVE  /\ ~InputUIDClash(m.types[i].attributes[k])
             /\ (\A n, o \in DOMAIN m.types[i].attributes[k].inputs :
                    n # o => m.types[i].attributes[k].inputs[n].name
                               # m.types[i].attributes[k].inputs[o].name)
                <=> ~Repeats(m.types[i].attributes[k].inputs, NameOf)
  OBVIOUS
<1>4. QED BY ONLY <1>1, <1>2, <1>3 DEF Coherent, UIDClash, NameClash

\* The checks against the table find the modules that clash.
LEMMA ChecksFindClashes ==
    ASSUME NEW S \in SUBSET Candidates, NEW m \in Candidates, m \notin S
    PROVE  /\ ~AlreadyCollected(TableOf(S), m)
           /\ ModuleUIDTaken(TableOf(S), m) \/ PackageNameTaken(TableOf(S), m)
                <=> \E n \in S : Clash(m, n)
<1>1. ~AlreadyCollected(TableOf(S), m)
  BY CandidatesAssumption DEF AlreadyCollected, TableOf
<1>2. ModuleUIDTaken(TableOf(S), m) <=> \E n \in S : n.uid = m.uid
  <2>1. TableOf(S).modules = {[uri |-> n.uri, uid |-> n.uid, pkg |-> n.pkg] : n \in S}
    BY DEF TableOf
  <2>2. ASSUME NEW n \in S
        PROVE  [uri |-> n.uri, uid |-> n.uid, pkg |-> n.pkg].uid = n.uid
    OBVIOUS
  <2>3. QED BY <2>1, <2>2 DEF ModuleUIDTaken
<1>3. ASSUME PackageNameTaken(TableOf(S), m)
      PROVE  \E n \in S : Clash(m, n)
  <2>1. PICK i \in DOMAIN m.types, other \in TableOf(S).modules :
           /\ other.pkg = m.pkg
           /\ [uri |-> other.uri, name |-> m.types[i].name] \in TableOf(S).types
    BY <1>3 DEF PackageNameTaken
  <2>2. PICK n \in S : other = [uri |-> n.uri, uid |-> n.uid, pkg |-> n.pkg]
    BY DEF TableOf
  <2>3. PICK o \in S : [uri |-> n.uri, name |-> m.types[i].name] \in TypesOf(o)
    BY <2>1, <2>2 DEF TableOf
  <2>4. PICK j \in DOMAIN o.types :
           [uri |-> n.uri, name |-> m.types[i].name] = [uri |-> o.uri, name |-> o.types[j].name]
    BY <2>3 DEF TypesOf
  <2>5. o = n
    BY <2>4, CandidatesAssumption
  <2>6. QED BY <2>1, <2>2, <2>4, <2>5 DEF Clash
<1>4. ASSUME NEW n \in S, m.pkg = n.pkg, NEW i \in DOMAIN m.types,
             NEW j \in DOMAIN n.types, m.types[i].name = n.types[j].name
      PROVE  PackageNameTaken(TableOf(S), m)
  <2>1. [uri |-> n.uri, name |-> m.types[i].name] \in TableOf(S).types
    BY <1>4 DEF TableOf, TypesOf
  <2>2. [uri |-> n.uri, uid |-> n.uid, pkg |-> n.pkg] \in TableOf(S).modules
    BY DEF TableOf
  <2>3. QED BY <1>4, <2>1, <2>2 DEF PackageNameTaken
<1>5. ASSUME NEW n \in S, Clash(m, n)
      PROVE  ModuleUIDTaken(TableOf(S), m) \/ PackageNameTaken(TableOf(S), m)
  BY <1>2, <1>4, <1>5 DEF Clash
<1>6. ASSUME ModuleUIDTaken(TableOf(S), m)
      PROVE  \E n \in S : Clash(m, n)
  BY <1>2, <1>6 DEF Clash
<1>7. QED BY <1>1, <1>3, <1>5, <1>6

\* collect reports nothing for the next module exactly when it is harmless.
LEMMA ReportsNothing ==
    ASSUME NEW S \in SUBSET Candidates, NEW m \in Candidates, m \notin S, Harmless(S)
    PROVE  CollectReports(TableOf(S), m) = {} <=> Harmless(S \cup {m})
<1>1. CollectReports(TableOf(S), m) = {} <=> Coherent(m) /\ ~\E n \in S : Clash(m, n)
  BY ChecksFindIncoherence, ChecksFindClashes DEF CollectReports
<1>2. \A n \in S : Clash(m, n) <=> Clash(n, m)
  BY DEF Clash
<1>3. ~Clash(m, m)
  BY DEF Clash
<1>4. QED BY <1>1, <1>2, <1>3 DEF Harmless

\* The table of one module more.
LEMMA TableGrows ==
    ASSUME NEW S \in SUBSET Candidates, NEW m \in Candidates, m \notin S,
           CollectReports(TableOf(S), m) = {}
    PROVE  CollectTable(TableOf(S), m) = TableOf(S \cup {m})
<1>1. ~AlreadyCollected(TableOf(S), m) /\ ~ModuleUIDTaken(TableOf(S), m)
  BY DEF CollectReports
<1>2. QED BY <1>1 DEF CollectTable, TableOf

-----------------------------------------------------------------------------
(* The invariant.                                                          *)

\* The empty table holds what was collected: nothing.
LEMMA InitiallyInductive == Init => Inductive
BY DEF Init, Inductive, TypeOK, AcceptedInAnyOrder, TableOfCollected,
       TableFromCollected, BlameIsDeserved, Collected, Harmless, TableOf, EmptyTable

\* One more module is refused exactly when it is not harmless.
LEMMA CollectKeepsInductive ==
    ASSUME Inductive, NEW m \in Candidates, Collect(m)
    PROVE  Inductive'
<1> USE DEF Inductive
<1>1. /\ given' = given /\ m \in pending /\ m \notin Collected
      /\ Collected' = Collected \cup {m}
      /\ Collected \in SUBSET Candidates
  BY DEF Collect, Collected, TypeOK
<1>2. symbols.uris = {n.uri : n \in Collected} /\ ~AlreadyCollected(symbols, m)
  BY <1>1, CandidatesAssumption DEF TypeOK, AlreadyCollected
<1>3. TypeOK'
  <2>1. symbols'.uris = symbols.uris \cup {m.uri}
    BY <1>2 DEF Collect, CollectTable
  <2>2. QED BY <1>1, <1>2, <2>1 DEF TypeOK, Collect
<1>4. AcceptedInAnyOrder'
  <2>1. CASE reported = {}
    <3>1. symbols = TableOf(Collected) /\ Harmless(Collected)
      BY <2>1 DEF TableOfCollected, AcceptedInAnyOrder
    <3>2. reported' = CollectReports(TableOf(Collected), m)
      BY <2>1, <3>1 DEF Collect
    <3>3. QED BY <1>1, <3>1, <3>2, ReportsNothing DEF AcceptedInAnyOrder
  <2>2. CASE reported # {}
    <3>1. reported' # {}
      BY <2>2 DEF Collect
    <3>2. ~Harmless(Collected)
      BY <2>2 DEF AcceptedInAnyOrder
    <3>3. ~Harmless(Collected')
      BY <1>1, <3>2 DEF Harmless
    <3>4. QED BY <3>1, <3>3 DEF AcceptedInAnyOrder
  <2>3. QED BY <2>1, <2>2
<1>5. TableOfCollected'
  <2>1. SUFFICES ASSUME reported' = {}
                 PROVE  accepted' = Collected' /\ symbols' = TableOf(Collected')
    BY DEF TableOfCollected, Collected, TableOf
  <2>2. reported = {} /\ CollectReports(symbols, m) = {}
    BY <2>1 DEF Collect
  <2>3. symbols = TableOf(Collected) /\ accepted = Collected
    BY <2>2 DEF TableOfCollected
  <2>4. ~CollectFails(symbols, m, reported)
    BY <1>2, <2>2 DEF CollectFails, CollectReports
  <2>5. symbols' = TableOf(Collected')
    BY <1>1, <2>2, <2>3, TableGrows DEF Collect
  <2>6. accepted' = Collected'
    BY <1>1, <2>3, <2>4 DEF Collect
  <2>7. QED BY <2>5, <2>6
<1>6. TableFromCollected'
  <2>1. symbols'.modules \subseteq
           symbols.modules \cup {[uri |-> m.uri, uid |-> m.uid, pkg |-> m.pkg]}
    BY DEF Collect, CollectTable
  <2>2. symbols'.types \subseteq symbols.types \cup TypesOf(m)
    BY DEF Collect, CollectTable
  <2>3. symbols'.modules \subseteq TableOf(Collected').modules
    BY <1>1, <2>1 DEF TableFromCollected, TableOf
  <2>4. symbols'.types \subseteq TableOf(Collected').types
    BY <1>1, <2>2 DEF TableFromCollected, TableOf
  <2>5. QED BY <2>3, <2>4 DEF TableFromCollected, Collected, TableOf
<1>7. BlameIsDeserved'
  <2>1. ASSUME CollectReports(symbols, m) # {}
        PROVE  ~Coherent(m) \/ \E n \in Collected : Clash(m, n)
    <3>1. CASE ModuleUIDTaken(symbols, m)
      <4>1. ModuleUIDTaken(TableOf(Collected), m)
        BY <3>1 DEF ModuleUIDTaken, TableFromCollected
      <4>2. QED BY <1>1, <4>1, ChecksFindClashes
    <3>2. CASE PackageNameTaken(symbols, m)
      <4>1. PackageNameTaken(TableOf(Collected), m)
        BY <3>2 DEF PackageNameTaken, TableFromCollected
      <4>2. QED BY <1>1, <4>1, ChecksFindClashes
    <3>3. CASE UIDClash(m) \/ NameClash(m)
      BY <3>3, ChecksFindIncoherence
    <3>4. QED BY <1>2, <2>1, <3>1, <3>2, <3>3 DEF CollectReports
  <2>2. \A r \in CollectReports(symbols, m) : r.uri = m.uri
    BY DEF CollectReports, Report
  <2>3. \A r \in reported' : r \in reported \/ r \in CollectReports(symbols, m)
    BY DEF Collect
  <2>4. QED BY <1>1, <2>1, <2>2, <2>3 DEF BlameIsDeserved
<1>8. QED BY <1>3, <1>4, <1>5, <1>6, <1>7

\* Whatever the modules are and in whatever order they are collected.
THEOREM Invariance == Spec => []Inductive
<1>1. Inductive /\ [Next]_vars => Inductive'
  <2>1. Inductive /\ UNCHANGED vars => Inductive'
    BY DEF vars, Inductive, TypeOK, AcceptedInAnyOrder, TableOfCollected,
           TableFromCollected, BlameIsDeserved, Collected, Harmless, TableOf
  <2>2. QED BY <2>1, CollectKeepsInductive DEF Next
<1>2. QED BY <1>1, InitiallyInductive, PTL DEF Spec

\* Modules are refused exactly when two of them, or one alone, cannot be in one
\* image (globalSymbolTable.collect), whichever the table saw first.
THEOREM AcceptanceIgnoresOrder == Spec => []AcceptedInAnyOrder
BY Invariance, PTL DEF Inductive

\* The symbols links work with are those of the modules collected, in any order.
THEOREM ContentIgnoresOrder == Spec => []TableOfCollected
BY Invariance, PTL DEF Inductive

\* No module is blamed for a clash it has no part in.
THEOREM BlameIsFair == Spec => []BlameIsDeserved
BY Invariance, PTL DEF Inductive

-----------------------------------------------------------------------------
(* The search.                                                             *)

\* One package declares a name at most once.
LEMMA DeclaredOnce ==
    ASSUME NEW S \in SUBSET Candidates, Harmless(S), NEW pkg, NEW base,
           NEW d \in DeclaredIn(TableOf(S), pkg, base),
           NEW e \in DeclaredIn(TableOf(S), pkg, base)
    PROVE  d = e
<1>1. ASSUME NEW x \in DeclaredIn(TableOf(S), pkg, base)
      PROVE  \E n \in S : /\ n.pkg = pkg
                          /\ \E i \in DOMAIN n.types : n.types[i].name = base
                          /\ x = [uri |-> n.uri, name |-> base]
  <2>1. PICK n \in S : x \in TypesOf(n)
    BY DEF DeclaredIn, TableOf
  <2>2. PICK i \in DOMAIN n.types : x = [uri |-> n.uri, name |-> n.types[i].name]
    BY <2>1 DEF TypesOf
  <2>3. PICK o \in S : o.uri = x.uri /\ o.pkg = pkg
    BY DEF DeclaredIn, TableOf
  <2>4. o = n
    BY <2>2, <2>3, CandidatesAssumption
  <2>5. x.name = base
    BY DEF DeclaredIn
  <2>6. QED BY <2>2, <2>3, <2>4, <2>5
<1>2. PICK m \in S : /\ m.pkg = pkg
                     /\ \E i \in DOMAIN m.types : m.types[i].name = base
                     /\ d = [uri |-> m.uri, name |-> base]
  BY <1>1
<1>3. PICK n \in S : /\ n.pkg = pkg
                     /\ \E i \in DOMAIN n.types : n.types[i].name = base
                     /\ e = [uri |-> n.uri, name |-> base]
  BY <1>1
<1>4. ~Clash(m, n)
  BY DEF Harmless
<1>5. m = n
  BY <1>2, <1>3, <1>4 DEF Clash
<1>6. QED BY <1>2, <1>3, <1>5

\* A search of a table without reported exceptions has one answer at most
\* (globalSymbolTable.packageSearch), although it iterates over a Go map.
THEOREM SearchIgnoresMapOrder == Spec => []SearchIsDetermined
<1>1. Inductive => SearchIsDetermined
  <2>1. SUFFICES ASSUME Inductive, reported = {},
                        NEW pkg \in Packages, NEW name \in Names,
                        NEW d \in PackageSearch(symbols, pkg, name),
                        NEW e \in PackageSearch(symbols, pkg, name)
                 PROVE  d = e
    BY DEF SearchIsDetermined
  <2>2. symbols = TableOf(Collected) /\ Harmless(Collected) /\ Collected \in SUBSET Candidates
    BY <2>1 DEF Inductive, TableOfCollected, AcceptedInAnyOrder, TypeOK, Collected
  <2> DEFINE order == SearchOrder(pkg, name.absolute)
             At(i) == DeclaredIn(symbols, order[i] \o name.qualifier, name.base)
  <2>3. PICK i \in DOMAIN order : d \in At(i) /\ \A j \in 1..(i - 1) : At(j) = {}
    BY DEF PackageSearch
  <2>4. PICK k \in DOMAIN order : e \in At(k) /\ \A j \in 1..(k - 1) : At(j) = {}
    BY DEF PackageSearch
  <2>5. DOMAIN order = 1..(Len(pkg) + 1)
    BY DEF SearchOrder, Enclosing
  <2>6. i = k
    <3>1. i \in Int /\ k \in Int /\ i >= 1 /\ k >= 1
      BY <2>5
    <3>2. ~(i \in 1..(k - 1)) /\ ~(k \in 1..(i - 1))
      BY <2>3, <2>4
    <3>3. QED BY <3>1, <3>2
  <2>7. QED BY <2>2, <2>3, <2>4, <2>6, DeclaredOnce
<1>2. QED BY <1>1, Invariance, PTL
=============================================================================
