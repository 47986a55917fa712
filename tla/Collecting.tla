------------------------------ MODULE Collecting ------------------------------
(***************************************************************************)
(* The global symbol table while modules are collected into it, one call   *)
(* of globalSymbolTable.collect at a time and in whatever order the        *)
(* goroutines of Compile get its lock, and what packageSearch finds in it  *)
(* afterwards.  Compile takes the same calls among the other steps of the  *)
(* goroutines; here they are alone, with modules that clash in every way   *)
(* collect looks at.                                                       *)
(***************************************************************************)
EXTENDS SymbolTable

CONSTANTS
  Candidates,  \* the modules there may be, as SymbolTable describes them
  Packages,    \* the protobuf packages links search from
  Names        \* the names they search for

\* Files are compiled once each, so no two modules have the same URI.
ASSUME CandidatesAssumption ==
    \A m, n \in Candidates : m.uri = n.uri => m = n

\* The declarations of a module are sequences.  The UID of an input is always a
\* 64 bit hash (newUID), never the 29 bit UID of its method.
ASSUME DeclarationsAssumption ==
    \A m \in Candidates :
       /\ DOMAIN m.types \subseteq Nat
       /\ \A i \in DOMAIN m.types :
             /\ DOMAIN m.types[i].attributes \subseteq Nat
             /\ \A k \in DOMAIN m.types[i].attributes :
                   LET method == m.types[i].attributes[k]
                   IN  /\ DOMAIN method.inputs \subseteq Nat
                       /\ \A n \in DOMAIN method.inputs :
                             method.inputs[n].uid # method.uid

VARIABLES
  given,     \* the modules of this call of Compile; fixed
  pending,   \* those not collected yet
  symbols,   \* the table
  reported,  \* what the Reporter has accumulated
  accepted   \* the modules whose collect returned no error

vars == <<given, pending, symbols, reported, accepted>>

-----------------------------------------------------------------------------

Init ==
    /\ given \in SUBSET Candidates
    /\ pending = given
    /\ symbols = EmptyTable
    /\ reported = {}
    /\ accepted = {}

\* collect(m), under the lock of the table.
Collect(m) ==
    /\ m \in pending
    /\ pending' = pending \ {m}
    /\ symbols' = CollectTable(symbols, m)
    /\ reported' = reported \cup CollectReports(symbols, m)
    /\ accepted' = accepted \cup {n \in {m} : ~CollectFails(symbols, m, reported)}
    /\ UNCHANGED given

Next == \E m \in Candidates : Collect(m)

Spec == Init /\ [][Next]_vars

-----------------------------------------------------------------------------
(* What collect should make of a set of modules, whatever their order.     *)

\* Within a module names and UIDs are told apart: those of types in the module,
\* those of attributes in their type.  (Inputs have hashed UIDs, and only their
\* names can clash.)
Distinct(s) ==
    \A i, j \in DOMAIN s : i # j => s[i].name # s[j].name /\ s[i].uid # s[j].uid

Coherent(m) ==
    /\ Distinct(m.types)
    /\ \A i \in DOMAIN m.types :
          /\ Distinct(m.types[i].attributes)
          /\ \A k \in DOMAIN m.types[i].attributes :
                LET inputs == m.types[i].attributes[k].inputs
                IN  \A n, o \in DOMAIN inputs : n # o => inputs[n].name # inputs[o].name

\* Two modules that cannot be in one image.
Clash(m, n) ==
    /\ m # n
    /\ \/ m.uid = n.uid
       \/ /\ m.pkg = n.pkg
          /\ \E i \in DOMAIN m.types, j \in DOMAIN n.types :
                m.types[i].name = n.types[j].name

Harmless(S) ==
    /\ \A m \in S : Coherent(m)
    /\ \A m, n \in S : ~Clash(m, n)

TableOf(S) ==
    [uris       |-> {m.uri : m \in S},
     modules    |-> {[uri |-> m.uri, uid |-> m.uid, pkg |-> m.pkg] : m \in S},
     types      |-> UNION {TypesOf(m) : m \in S},
     attributes |-> UNION {AttributesOf(m) : m \in S},
     inputs     |-> UNION {InputsOf(m) : m \in S}]

Collected == given \ pending

-----------------------------------------------------------------------------
(* Properties.                                                             *)

\* The modules and the records of the table are as they should be.
TypeOK ==
    /\ given \subseteq Candidates
    /\ pending \subseteq given
    /\ accepted \subseteq Collected
    /\ symbols.uris = {m.uri : m \in Collected}

\* collect reports something exactly when the modules it has seen cannot be in
\* one image together, whichever of them it saw first.
AcceptedInAnyOrder == reported = {} <=> Harmless(Collected)

\* While nothing is wrong the table holds the symbols of all modules seen and
\* nothing else: its content does not depend on the order they came in.
TableOfCollected ==
    reported = {} => accepted = Collected /\ symbols = TableOf(Collected)

\* packageSearch iterates over a Go map and returns the first match it meets.
\* In a table without a reported exception there is only one to meet, so that
\* links of the same modules always resolve alike.
SearchIsDetermined ==
    reported = {} =>
       \A pkg \in Packages, name \in Names :
          \A d, e \in PackageSearch(symbols, pkg, name) : d = e

\* Every exception blames a module that does clash, with itself or with another
\* one that was collected.
BlameIsDeserved ==
    \A r \in reported : \E m \in Collected :
       /\ m.uri = r.uri
       /\ ~Coherent(m) \/ \E n \in Collected : Clash(m, n)
=============================================================================
