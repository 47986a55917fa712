------------------------------- MODULE Plugins -------------------------------
(***************************************************************************)
(* The protoc plugins of a compilation (main.go): for each plugin the      *)
(* image is converted and sorted anew, the targets are divided into        *)
(* batches, one for each package in per-package mode and a single one      *)
(* otherwise, and the plugin's executable is run once for each batch.      *)
(*                                                                         *)
(* Files are their names, as the conversion writes them.  A target need    *)
(* not be a file of the image: it may be a directory, or a file that       *)
(* topoSort has dropped.                                                   *)
(***************************************************************************)
EXTENDS Integers, Sequences, FiniteSets, Functions

CONSTANTS
  Files,        \* the names of the files of the image
  Others,       \* names of targets that are not
  MaxPackage,   \* packages are numbers in the order of their names
  MaxTargets,   \* a bound on the targets of the request
  MaxPlugins    \* a bound on the --pbplugin flags

NoPackage == 0  \* a file without one: its Package is a nil pointer

ASSUME FilesAssumption == Files # {} /\ IsFiniteSet(Files) /\ Others \cap Files = {}
ASSUME BoundsAssumption == MaxPackage \in Nat /\ MaxTargets \in Nat /\ MaxPlugins \in Nat

VARIABLES
  package,         \* the package of each file; fixed
  order,           \* the files in the order of topoSort; fixed
  targets,         \* the targets of the request; fixed
  perPackageMode,  \* --per-package-mode; fixed
  plugins,         \* how many plugins there are; fixed
  plugin,          \* the plugin of the current iteration
  pc,              \* where main is
  fds,             \* fds.File
  i,               \* the files of fds the batches have been made from
  last,            \* the package of the current batch
  currentTargets,  \* the current batch
  packageTargets,  \* the batches
  calls            \* what plugins were called with

request == <<package, order, targets, perPackageMode, plugins>>
batching == <<i, last, currentTargets>>
vars == <<request, plugin, pc, fds, batching, packageTargets, calls>>

Orderings(S) == {s \in [1..Cardinality(S) -> S] : Range(s) = S}

-----------------------------------------------------------------------------

Init ==
    /\ package \in [Files -> NoPackage..MaxPackage]
    /\ order \in Orderings(Files)
    /\ targets \in UNION {[1..n -> Files \cup Others] : n \in 1..MaxTargets}
    /\ perPackageMode \in BOOLEAN
    /\ plugins \in 1..MaxPlugins
    /\ plugin = 1
    /\ pc = "convert"
    /\ fds = << >>
    /\ i = 0
    /\ last = NoPackage
    /\ currentTargets = << >>
    /\ packageTargets = << >>
    /\ calls = << >>

\* ToFileDescriptorSet; without per-package mode there is one batch.
Convert ==
    /\ pc = "convert"
    /\ plugin <= plugins
    /\ fds' = order
    /\ packageTargets' = IF perPackageMode THEN << >> ELSE <<targets>>
    /\ pc' = IF perPackageMode THEN "sort" ELSE "call"
    /\ UNCHANGED <<request, plugin, batching, calls>>

\* An error of the conversion: os.Exit(1), with the output of the plugins before.
ConvertFails ==
    /\ pc = "convert"
    /\ plugin <= plugins
    /\ pc' = "exit"
    /\ UNCHANGED <<request, plugin, fds, batching, packageTargets, calls>>

\* Mutant of SortByPackage: the files stay in the order of topoSort.
SortNothing ==
    /\ pc = "sort"
    /\ \A f \in Files : package[f] # NoPackage
    /\ last' = package[fds[1]]
    /\ currentTargets' = << >>
    /\ i' = 0
    /\ pc' = "batch"
    /\ UNCHANGED <<request, plugin, fds, packageTargets, calls>>

\* sort.Slice by package.  It is not stable: files of one package come in any
\* order, and a file may come before the files it imports.
SortByPackage ==
    /\ pc = "sort"
    /\ \A f \in Files : package[f] # NoPackage
    /\ \E s \in Orderings(Files) :
          /\ \A m, n \in DOMAIN s : m < n => package[s[m]] <= package[s[n]]
          /\ fds' = s
          /\ last' = package[s[1]]
    /\ currentTargets' = << >>
    /\ i' = 0
    /\ pc' = "batch"
    /\ UNCHANGED <<request, plugin, packageTargets, calls>>

\* The comparison, or the initial value of last, dereferences a nil Package.
SortPanic ==
    /\ pc = "sort"
    /\ \E f \in Files : package[f] = NoPackage
    /\ pc' = "panic"
    /\ UNCHANGED <<request, plugin, fds, batching, packageTargets, calls>>

Target(f) == f \in Range(targets)

\* A file that is no target.
Skip ==
    /\ pc = "batch" /\ i < Len(fds)
    /\ ~Target(fds[i + 1])
    /\ i' = i + 1
    /\ UNCHANGED <<request, plugin, pc, fds, last, currentTargets, packageTargets, calls>>

\* A target of the package of the batch.
Extend ==
    /\ pc = "batch" /\ i < Len(fds)
    /\ Target(fds[i + 1]) /\ package[fds[i + 1]] = last
    /\ currentTargets' = Append(currentTargets, fds[i + 1])
    /\ i' = i + 1
    /\ UNCHANGED <<request, plugin, pc, fds, last, packageTargets, calls>>

\* A target of the next package: the batch is done, also when it is empty.
Flush ==
    /\ pc = "batch" /\ i < Len(fds)
    /\ Target(fds[i + 1]) /\ package[fds[i + 1]] # last
    /\ last' = package[fds[i + 1]]
    /\ packageTargets' = Append(packageTargets, currentTargets)
    /\ currentTargets' = <<fds[i + 1]>>
    /\ i' = i + 1
    /\ UNCHANGED <<request, plugin, pc, fds, calls>>

\* Mutant of EndBatches: the last batch is forgotten.
EndBatchesForgetful ==
    /\ pc = "batch" /\ i = Len(fds)
    /\ pc' = "call"
    /\ UNCHANGED <<request, plugin, fds, batching, packageTargets, calls>>

\* All files are looked at; the last batch is kept unless it is empty.
EndBatches ==
    /\ pc = "batch" /\ i = Len(fds)
    /\ packageTargets' = IF currentTargets = << >> THEN packageTargets
                         ELSE Append(packageTargets, currentTargets)
    /\ pc' = "call"
    /\ UNCHANGED <<request, plugin, fds, batching, calls>>

\* The plugin runs for the next batch and its output is written.
Call ==
    /\ pc = "call"
    /\ packageTargets # << >>
    /\ calls' = Append(calls, [plugin |-> plugin, files |-> Head(packageTargets)])
    /\ packageTargets' = Tail(packageTargets)
    /\ UNCHANGED <<request, plugin, pc, fds, batching>>

\* Anything goes wrong with one call: os.Exit(1), the earlier output written.
CallFails ==
    /\ pc = "call"
    /\ packageTargets # << >>
    /\ pc' = "exit"
    /\ UNCHANGED <<request, plugin, fds, batching, packageTargets, calls>>

NextPlugin ==
    /\ pc = "call"
    /\ packageTargets = << >>
    /\ plugin' = plugin + 1
    /\ pc' = "convert"
    /\ UNCHANGED <<request, fds, batching, packageTargets, calls>>

Next ==
    \/ Convert \/ ConvertFails
    \/ SortByPackage \/ SortPanic
    \/ Skip \/ Extend \/ Flush \/ EndBatches
    \/ Call \/ CallFails
    \/ NextPlugin

Spec == Init /\ [][Next]_vars

-----------------------------------------------------------------------------
(* Properties.                                                             *)

\* The calls of plugin p, and how often they ask for file f.
CallsOf(p) == {n \in DOMAIN calls : calls[n].plugin = p}
Asked(p, f) == UNION {{n} \X {k \in DOMAIN calls[n].files : calls[n].files[k] = f} :
                         n \in CallsOf(p)}

\* In per-package mode every plugin generates every target of the image once:
\* no batch is lost between the loop and the code after it, and none is shared.
EachTargetOnce ==
    perPackageMode =>
       \A p \in 1..(plugin - 1), f \in Files :
          Cardinality(Asked(p, f)) = IF Target(f) THEN 1 ELSE 0

\* In per-package mode no call mixes packages, and no two calls of a plugin
\* share one.
OnePackagePerCall ==
    perPackageMode =>
       \A p \in 1..plugins : \A m, n \in CallsOf(p) :
          \A f \in Range(calls[m].files), g \in Range(calls[n].files) :
             package[f] = package[g] <=> m = n

=============================================================================
