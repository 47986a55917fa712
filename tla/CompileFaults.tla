---------------------------- MODULE CompileFaults -----------------------------
(***************************************************************************)
(* Why Compile refuses a request and when it may accept one: the invariant *)
(* that traces every report, every failed result and every failed link to  *)
(* a fault of a reachable file, or to the race on loaded, and every fault  *)
(* to a report.  The proofs are in CompileProofs.                          *)
(***************************************************************************)
EXTENDS CompileInvariant

\* What the symbol table holds of one file.
Entry(f) == [uri |-> f, uid |-> ModuleOf(f).uid, pkg |-> ModuleOf(f).pkg]

\* Main goes on only if the targets exist, and cancels only if it may.
RequestIsFit ==
    /\ main \in {"receive", "failing", "link"} => TargetsExist(input)
    /\ cancelled => Cancellable

\* What is in the table is what reachable files declare, and what is in it
\* some goroutine had marked as loaded before.
TableOfReachable ==
    /\ symbols.uris \subseteq Reachable(input)
    /\ symbols.uris \subseteq loaded
    /\ \A e \in symbols.modules : e.uri \in symbols.uris /\ e = Entry(e.uri)
    /\ \A e \in symbols.types : e.uri \in symbols.uris /\ e \in TypesOf(ModuleOf(e.uri))
    /\ \A g \in Goroutines : pc[g] \in {"compile", "collect"} => g.file \in loaded

\* With one slot the Load and the Store of loaded are one step to all others:
\* nobody else can have collected the file.
AloneIfSingle ==
    MaxConcurrency = 1 =>
       \A g \in Goroutines :
          /\ pc[g] = "store" => g.file \notin loaded
          /\ pc[g] \in {"compile", "collect"} => g.file \notin symbols.uris

\* There is a fault of a reachable file, or there was a race and it was reported.
Excused == Faulty(input) \/ (MaxConcurrency > 1 /\ reported # {})

\* Nothing fails without an excuse.
FailuresAreExcused ==
    /\ reported # {} => Excused
    /\ \A g \in Goroutines : result[g] = "error" => Excused
    /\ linkFailed # {} => Excused
    /\ main = "failing" => Excused

\* A race that is reported also fails a goroutine, so that Main gets to know.
RaceFails ==
    reported # {} => Faulty(input) \/ \E g \in Goroutines : result[g] = "error"

\* Links are of reachable files, when all of those are in the table.
LinkingIsLate ==
    \A f \in Files : linkpc[f] # "none" =>
       f \in Reachable(input) /\ Reachable(input) \subseteq symbols.uris

\* Two modules that cannot be in one image.
Clash(m, n) ==
    \/ m.uid = n.uid
    \/ /\ m.pkg = n.pkg
       /\ \E i \in DOMAIN m.types, j \in DOMAIN n.types : m.types[i].name = n.types[j].name

\* A module that is delivered has no fault but those that linking looks for,
\* neither by itself nor with any other that is delivered.
DeliveredIsSound ==
    /\ \A g \in Goroutines :
          pc[g] = "collect" => /\ input.source[g.file].kind = "idl"
                               /\ input.source[g.file].parse = "ok" \/ reported # {}
    /\ \A g \in Goroutines :
          result[g] = "module" => /\ input.source[g.file].kind = "idl"
                                  /\ input.source[g.file].parse = "ok"
                                  /\ ~UIDClash(ModuleOf(g.file))
                                  /\ ~NameClash(ModuleOf(g.file))
                                  /\ TypesOf(ModuleOf(g.file)) \subseteq symbols.types
    /\ \A g, h \in Goroutines :
          result[g] = "module" /\ result[h] = "module" /\ g.file # h.file
             => ~Clash(ModuleOf(g.file), ModuleOf(h.file))

\* All imports of what was received could be opened.
ImportsExist ==
    Healthily => \A f \in modules : \A i \in DOMAIN Imports(input, f) :
                    Exists(input, Imports(input, f)[i])

\* What link() looks for is reported by the time it looks at the Reporter.
LinkReported ==
    \A f \in Files : linkpc[f] \in {"check", "send", "done"} => LinkReports(f) \subseteq reported

\* The invariant that joins Inductive for the proof that Compile implements
\* CompileSpec.
Causes ==
    /\ RequestIsFit
    /\ TableOfReachable
    /\ AloneIfSingle
    /\ FailuresAreExcused
    /\ RaceFails
    /\ LinkingIsLate
    /\ DeliveredIsSound
    /\ ImportsExist
    /\ LinkReported
=============================================================================
