------------------------------- MODULE Compile -------------------------------
(***************************************************************************)
(* One call of compiler.Compile (internal/compiler/compiler.go): the       *)
(* caller's goroutine, one goroutine per file to compile, which run        *)
(* compileFile under a semaphore and hand their result over an unbuffered  *)
(* channel, and then one goroutine per module that links it.               *)
(*                                                                         *)
(* The goroutines share loaded (a sync.Map), the global symbol table       *)
(* (behind its lock), the Reporter (behind its lock) and the semaphore.    *)
(* A step of this module is the code between two operations on those.      *)
(* Channels are unbuffered, so a send and its receive are one step of both *)
(* sides.  A goroutine whose result is never received stays blocked in its *)
(* send for good.  Nothing recovers from a panic: it ends the process, with *)
(* every goroutine in it.                                                  *)
(***************************************************************************)
EXTENDS Sources

CONSTANTS
  Inputs,          \* the inputs considered
  Cancellable,     \* the context of the call may be cancelled
  MaxConcurrency   \* the capacity of the semaphore

ASSUME InputsAssumption == \A in \in Inputs : IsInput(in)

ASSUME MainAssumption == "main" \notin Files

ASSUME MaxConcurrencyAssumption == MaxConcurrency \in Nat \ {0}

Main == "main"

\* A goroutine that compiles a file is named by what started it: the module
\* whose import (or Main, whose target) number at opened the file.
Goroutines == [by : Files \cup {Main}, at : 0..MaxTargets, file : Files]

BuiltinGoroutine == [by |-> Main, at |-> 0, file |-> Builtin]

VARIABLES
  input,            \* what the call is given; fixed
  answer,           \* what it has answered
  main,             \* where the caller's goroutine is
  pc,               \* where each goroutine that compiles a file is
  result,           \* the fileResult each of them will send
  semaphore,        \* the number of slots taken
  loaded,           \* the keys of the map of files some goroutine took on
  symbols,          \* the global symbol table
  reported,         \* what the Reporter has accumulated
  x,                \* the results received in the current loop
  expectedResults,  \* the results that loop waits for
  modules,          \* the URIs of the modules received
  linkpc,           \* where each goroutine that links a module is
  linkFailed,       \* the modules whose link() found an unknown import or name
  linked_modules,   \* the URIs of the linked modules received
  cancelled         \* the context is done

fileVars == <<pc, result, semaphore, loaded, symbols>>
loopVars == <<x, expectedResults>>
linkVars == <<linkpc, linkFailed, linked_modules>>

vars == <<input, answer, main, fileVars, reported, loopVars, modules,
             linkVars, cancelled>>

ModuleOf(f) == input.source[f].module

Init ==
    /\ input \in Inputs
    /\ answer = NoAnswer
    /\ main = "start"
    /\ pc = [g \in Goroutines |-> "none"]
    /\ result = [g \in Goroutines |-> "none"]
    /\ semaphore = 0
    /\ loaded = {}
    /\ symbols = EmptyTable
    /\ reported = {}
    /\ x = 0
    /\ expectedResults = 0
    /\ modules = {}
    /\ linkpc = [f \in Files |-> "none"]
    /\ linkFailed = {}
    /\ linked_modules = {}
    /\ cancelled = FALSE

-----------------------------------------------------------------------------
(* compileFile, in a goroutine of its own.                                 *)

\* Mutant of Lock: the channel is made without a capacity check.
LockUnbounded(g) ==
    /\ pc[g] = "lock"
    /\ semaphore' = semaphore + 1
    /\ pc' = [pc EXCEPT ![g] = "load"]
    /\ UNCHANGED <<result, loaded, symbols, reported>>

\* Semaphore.Lock: the send on the buffered channel blocks while it is full.
Lock(g) ==
    /\ pc[g] = "lock"
    /\ semaphore < MaxConcurrency
    /\ semaphore' = semaphore + 1
    /\ pc' = [pc EXCEPT ![g] = "load"]
    /\ UNCHANGED <<result, loaded, symbols, reported>>

\* loaded.Load finds the path: another goroutine has taken this file on.
LoadHit(g) ==
    /\ pc[g] = "load"
    /\ g.file \in loaded
    /\ result' = [result EXCEPT ![g] = "nil"]
    /\ pc' = [pc EXCEPT ![g] = "unlock"]
    /\ UNCHANGED <<semaphore, loaded, symbols, reported>>

\* Mutant of Store: the file is never marked.
StoreNothing(g) ==
    /\ pc[g] = "store"
    /\ pc' = [pc EXCEPT ![g] = "compile"]
    /\ UNCHANGED <<result, semaphore, loaded, symbols, reported>>

\* loaded.Load does not find it.  The Store is a separate operation on the map.
LoadMiss(g) ==
    /\ pc[g] = "load"
    /\ g.file \notin loaded
    /\ pc' = [pc EXCEPT ![g] = "store"]
    /\ UNCHANGED <<result, semaphore, loaded, symbols, reported>>

Store(g) ==
    /\ pc[g] = "store"
    /\ loaded' = loaded \cup {g.file}
    /\ pc' = [pc EXCEPT ![g] = "compile"]
    /\ UNCHANGED <<result, semaphore, symbols, reported>>

\* The sub-compiler of the file's kind turns its text into a module.
CompileFileOk(g) ==
    /\ pc[g] = "compile"
    /\ input.source[g.file].kind = "idl"
    /\ input.source[g.file].parse \in {"ok", "warns"}
    /\ reported' = reported \cup {r \in {Report("Warning", g.file)} :
                                     input.source[g.file].parse = "warns"}
    /\ pc' = [pc EXCEPT ![g] = "collect"]
    /\ UNCHANGED <<result, semaphore, loaded, symbols>>

\* Mutant of CompileFileError: an early return that forgets the semaphore.
CompileFileErrorKeepsSlot(g) ==
    /\ pc[g] = "compile"
    /\ input.source[g.file].parse = "reports"
    /\ reported' = reported \cup {Report("Parse", g.file)}
    /\ result' = [result EXCEPT ![g] = "error"]
    /\ pc' = [pc EXCEPT ![g] = "send"]
    /\ UNCHANGED <<semaphore, loaded, symbols>>

\* There is none, or it fails.
CompileFileError(g) ==
    /\ pc[g] = "compile"
    /\ \/ /\ input.source[g.file].kind = "unsupported"
          /\ reported' = reported \cup {Report("UnsupportedFileFormat", g.file)}
       \/ /\ input.source[g.file].kind = "idl"
          /\ input.source[g.file].parse = "reports"
          /\ reported' = reported \cup {Report("Parse", g.file)}
       \/ /\ input.source[g.file].kind = "idl"
          /\ input.source[g.file].parse = "fails"
          /\ UNCHANGED reported
    /\ result' = [result EXCEPT ![g] = "error"]
    /\ pc' = [pc EXCEPT ![g] = "unlock"]
    /\ UNCHANGED <<semaphore, loaded, symbols>>

\* It reports an error and never returns: the loop over the elements of a struct
\* asks for a field as long as there is none, without stepping over a token.
CompileFileLoops(g) ==
    /\ pc[g] = "compile"
    /\ input.source[g.file].kind = "idl"
    /\ input.source[g.file].parse = "loops"
    /\ reported' = reported \cup {Report("Parse", g.file)}
    /\ pc' = [pc EXCEPT ![g] = "loops"]
    /\ UNCHANGED <<result, semaphore, loaded, symbols>>

\* Mutant of Collect: the error of collect is not looked at.
CollectUnchecked(g) ==
    /\ pc[g] = "collect"
    /\ symbols' = CollectTable(symbols, ModuleOf(g.file))
    /\ reported' = reported \cup CollectReports(symbols, ModuleOf(g.file))
    /\ result' = [result EXCEPT ![g] = "module"]
    /\ pc' = [pc EXCEPT ![g] = "unlock"]
    /\ UNCHANGED <<semaphore, loaded>>

\* symbols.collect, under the lock of the table.
Collect(g) ==
    /\ pc[g] = "collect"
    /\ symbols' = CollectTable(symbols, ModuleOf(g.file))
    /\ reported' = reported \cup CollectReports(symbols, ModuleOf(g.file))
    /\ result' = [result EXCEPT ![g] =
                    IF CollectFails(symbols, ModuleOf(g.file), reported)
                    THEN "error" ELSE "module"]
    /\ pc' = [pc EXCEPT ![g] = "unlock"]
    /\ UNCHANGED <<semaphore, loaded>>

\* The deferred Semaphore.Unlock runs before the result is sent.
Unlock(g) ==
    /\ pc[g] = "unlock"
    /\ semaphore' = semaphore - 1
    /\ pc' = [pc EXCEPT ![g] = "send"]
    /\ UNCHANGED <<result, loaded, symbols, reported>>

CompileFile(g) ==
    /\ main # "crashed"
    /\ \/ Lock(g) \/ LoadHit(g) \/ LoadMiss(g) \/ Store(g)
       \/ CompileFileOk(g) \/ CompileFileError(g) \/ CompileFileLoops(g)
       \/ Collect(g) \/ Unlock(g)
    /\ UNCHANGED <<input, answer, main, loopVars, modules, linkVars, cancelled>>

\* The sub-compiler panics, before or after Compile has answered.
CompileFilePanic(g) ==
    /\ main # "crashed"
    /\ pc[g] = "compile"
    /\ input.source[g.file].kind = "idl"
    /\ input.source[g.file].parse = "panics"
    /\ answer' = IF answer = NoAnswer THEN Failed("panic") ELSE answer
    /\ main' = "crashed"
    /\ UNCHANGED <<input, fileVars, reported, loopVars, modules, linkVars,
                   cancelled>>

-----------------------------------------------------------------------------
(* The caller's goroutine: the loop that receives compiled files.          *)

\* Mutant of StartedBy: only the first target or import is followed.
StartedByFirst(by, ts) ==
    {g \in Goroutines : /\ g.by = by
                        /\ g.at \in DOMAIN ts \cap {1}
                        /\ Exists(input, ts[g.at])
                        /\ g.file \in Opened(input, ts[g.at])}

\* The goroutines that by starts for the targets ts, one per file opened.
StartedBy(by, ts) ==
    {g \in Goroutines : /\ g.by = by
                        /\ g.at \in DOMAIN ts
                        /\ Exists(input, ts[g.at])
                        /\ g.file \in Opened(input, ts[g.at])}

\* go func: the new ones begin at compileFile's Lock.
Go(new) == [g \in Goroutines |-> IF g \in new THEN "lock" ELSE pc[g]]

\* Mutant of Start: the goroutine of the builtin module is not counted.
StartUncounted ==
    /\ main = "start"
    /\ TargetsExist(input)
    /\ LET new == StartedBy(Main, input.targets)
       IN  /\ pc' = Go(new \cup {BuiltinGoroutine})
           /\ expectedResults' = Cardinality(new)
    /\ main' = "receive"
    /\ UNCHANGED <<input, answer, result, semaphore, loaded, symbols, reported,
                   x, modules, linkVars, cancelled>>

\* Mutant of Start: every target is counted twice.
StartOvercounted ==
    /\ main = "start"
    /\ TargetsExist(input)
    /\ LET new == StartedBy(Main, input.targets)
       IN  /\ pc' = Go(new \cup {BuiltinGoroutine})
           /\ expectedResults' = 2 * Cardinality(new) + 1
    /\ main' = "receive"
    /\ UNCHANGED <<input, answer, result, semaphore, loaded, symbols, reported,
                   x, modules, linkVars, cancelled>>

\* Every target opens: one goroutine per file and one for the builtin module.
Start ==
    /\ main = "start"
    /\ TargetsExist(input)
    /\ LET new == StartedBy(Main, input.targets)
       IN  /\ pc' = Go(new \cup {BuiltinGoroutine})
           /\ expectedResults' = Cardinality(new) + 1
    /\ main' = "receive"
    /\ UNCHANGED <<input, answer, result, semaphore, loaded, symbols, reported,
                   x, modules, linkVars, cancelled>>

\* A target cannot be opened: panic(err.Error()).
StartPanic ==
    /\ main = "start"
    /\ ~TargetsExist(input)
    /\ answer' = Failed("panic")
    /\ main' = "crashed"
    /\ UNCHANGED <<input, fileVars, reported, loopVars, modules, linkVars,
                   cancelled>>

Receiving(g) == main = "receive" /\ x < expectedResults /\ pc[g] = "send"

\* Mutant of ReceiveNil: a file already taken on counts for two results.
ReceiveNilTwice(g) ==
    /\ Receiving(g)
    /\ result[g] = "nil"
    /\ pc' = [pc EXCEPT ![g] = "done"]
    /\ x' = x + 2
    /\ UNCHANGED <<input, answer, main, result, semaphore, loaded, symbols,
                   reported, expectedResults, modules, linkVars, cancelled>>

\* nil, nil: the file is another goroutine's.
ReceiveNil(g) ==
    /\ Receiving(g)
    /\ result[g] = "nil"
    /\ pc' = [pc EXCEPT ![g] = "done"]
    /\ x' = x + 1
    /\ UNCHANGED <<input, answer, main, result, semaphore, loaded, symbols,
                   reported, expectedResults, modules, linkVars, cancelled>>

\* A module: every import is opened and one goroutine started per file.  An
\* import that cannot be opened ends the call, the earlier ones started.
ReceiveModule(g) ==
    LET ts      == Imports(input, g.file)
        Missing == {i \in DOMAIN ts : ~Exists(input, ts[i])}
        new     == {h \in StartedBy(g.file, ts) : \A i \in Missing : h.at < i}
    IN  /\ Receiving(g)
        /\ result[g] = "module"
        /\ modules' = modules \cup {g.file}
        /\ pc' = [Go(new) EXCEPT ![g] = "done"]
        /\ expectedResults' = expectedResults + Cardinality(new)
        /\ \/ /\ Missing = {}
              /\ x' = x + 1
              /\ UNCHANGED <<main, answer>>
           \/ /\ Missing # {}
              /\ answer' = Failed("result")
              /\ main' = "returned"
              /\ UNCHANGED x
        /\ UNCHANGED <<input, result, semaphore, loaded, symbols, reported,
                       linkVars, cancelled>>

\* An error: the call will return what the Reporter holds a moment later.
ReceiveError(g) ==
    /\ Receiving(g)
    /\ result[g] = "error"
    /\ pc' = [pc EXCEPT ![g] = "done"]
    /\ main' = "failing"
    /\ UNCHANGED <<input, answer, result, semaphore, loaded, symbols, reported,
                   loopVars, modules, linkVars, cancelled>>

ReturnError ==
    /\ main = "failing"
    /\ answer' = Failed(IF reported # {} THEN "reported" ELSE "result")
    /\ main' = "returned"
    /\ UNCHANGED <<input, fileVars, reported, loopVars, modules, linkVars,
                   cancelled>>

\* The select of either loop takes the ctx.Done case.
ReturnCancelled ==
    /\ main \in {"receive", "link"}
    /\ x < expectedResults
    /\ cancelled
    /\ answer' = Failed("context")
    /\ main' = "returned"
    /\ UNCHANGED <<input, fileVars, reported, loopVars, modules, linkVars,
                   cancelled>>

-----------------------------------------------------------------------------
(* Linking.                                                                *)

\* All results are in: one goroutine per module.
StartLink ==
    /\ main = "receive"
    /\ x = expectedResults
    /\ main' = "link"
    /\ linkpc' = [f \in Files |-> IF f \in modules THEN "resolve" ELSE "none"]
    /\ x' = 0
    /\ expectedResults' = Cardinality(modules)
    /\ UNCHANGED <<input, answer, fileVars, reported, modules, linkFailed,
                   linked_modules, cancelled>>

\* link(): the builtin module's and the module's own symbols, then those of
\* its imports, looked up under the URI as it is written; then its names.
\* newLocalSymbols returns nil when one of the first two is missing: an error
\* that is not reported.
Unlinkable(f) == ~({Builtin, f} \subseteq symbols.uris)

LinkReports(f) ==
    {r \in {Report("UnknownImport", f)} :
        \E i \in DOMAIN Imports(input, f) : Imports(input, f)[i] \notin symbols.uris}
    \cup
    {r \in {Report("UnknownType", f)} : input.source[f].unresolved}

Resolve(f) ==
    /\ linkpc[f] = "resolve"
    /\ \/ /\ Unlinkable(f)
          /\ linkFailed' = linkFailed \cup {f}
          /\ linkpc' = [linkpc EXCEPT ![f] = "send"]
          /\ UNCHANGED reported
       \/ /\ ~Unlinkable(f)
          /\ reported' = reported \cup LinkReports(f)
          /\ linkpc' = [linkpc EXCEPT ![f] = "check"]
          /\ UNCHANGED linkFailed
    /\ UNCHANGED linked_modules

\* link() fails when anything was reported, by whomever.
CheckReported(f) ==
    /\ linkpc[f] = "check"
    /\ linkFailed' = linkFailed \cup {m \in {f} : reported # {}}
    /\ linkpc' = [linkpc EXCEPT ![f] = "send"]
    /\ UNCHANGED <<reported, linked_modules>>

Link(f) ==
    /\ main # "crashed"
    /\ Resolve(f) \/ CheckReported(f)
    /\ UNCHANGED <<input, answer, main, fileVars, loopVars, modules, cancelled>>

ReceiveLinked(f) ==
    /\ main = "link"
    /\ x < expectedResults
    /\ linkpc[f] = "send"
    /\ linkpc' = [linkpc EXCEPT ![f] = "done"]
    /\ \/ /\ f \in linkFailed
          /\ main' = "failing"
          /\ UNCHANGED <<x, linked_modules>>
       \/ /\ f \notin linkFailed
          /\ linked_modules' = linked_modules \cup {f}
          /\ x' = x + 1
          /\ UNCHANGED main
    /\ UNCHANGED <<input, answer, fileVars, reported, expectedResults, modules,
                   linkFailed, cancelled>>

Unfoldable == \E f \in linked_modules : input.source[f].unfoldable

\* Mutant of Finish: the answer is decided before check() reports.
FinishUnchecked ==
    /\ main = "link"
    /\ x = expectedResults
    /\ ~Unfoldable
    /\ reported' = reported \cup {Report("Check", f) :
                      f \in {m \in linked_modules : input.source[m].invalid}}
    /\ answer' = IF reported # {} THEN Rejected(linked_modules)
                                  ELSE Image(linked_modules)
    /\ main' = "returned"
    /\ UNCHANGED <<input, fileVars, loopVars, modules, linkVars, cancelled>>

\* The image is assembled, optimised and checked.  optimize() changes values
\* inside the modules only.
Finish ==
    /\ main = "link"
    /\ x = expectedResults
    /\ ~Unfoldable
    /\ reported' = reported \cup {Report("Check", f) :
                      f \in {m \in linked_modules : input.source[m].invalid}}
    /\ answer' = IF reported' # {} THEN Rejected(linked_modules)
                                   ELSE Image(linked_modules)
    /\ main' = "returned"
    /\ UNCHANGED <<input, fileVars, loopVars, modules, linkVars, cancelled>>

\* optimize() does not come back.
FinishPanic ==
    /\ main = "link"
    /\ x = expectedResults
    /\ Unfoldable
    /\ answer' = Failed("panic")
    /\ main' = "crashed"
    /\ UNCHANGED <<input, fileVars, reported, loopVars, modules, linkVars,
                   cancelled>>

-----------------------------------------------------------------------------

\* The caller's context ends.
Cancel ==
    /\ Cancellable
    /\ ~cancelled
    /\ main \notin {"returned", "crashed"}
    /\ cancelled' = TRUE
    /\ UNCHANGED <<input, answer, main, fileVars, reported, loopVars, modules,
                   linkVars>>

MainStep ==
    \/ Start \/ StartPanic
    \/ \E g \in Goroutines : ReceiveNil(g) \/ ReceiveModule(g) \/ ReceiveError(g)
    \/ \E f \in Files : ReceiveLinked(f)
    \/ StartLink \/ Finish \/ FinishPanic \/ ReturnError \/ ReturnCancelled

Next ==
    \/ MainStep
    \/ \E g \in Goroutines : CompileFile(g) \/ CompileFilePanic(g)
    \/ \E f \in Files : Link(f)
    \/ Cancel

\* The Go scheduler runs every goroutine that can run; a goroutine that waits
\* for a semaphore slot gets one if slots keep coming back, because a slot is
\* asked for only once by each of finitely many goroutines.  Nothing is assumed
\* of a parser that loops: no step takes a goroutine out of "loops".
Fairness ==
    /\ WF_vars(MainStep)
    /\ \A g \in Goroutines : WF_vars(CompileFile(g) \/ CompileFilePanic(g))
    /\ \A f \in Files : WF_vars(Link(f))

Spec == Init /\ [][Next]_vars /\ Fairness

-----------------------------------------------------------------------------
(* Properties.                                                             *)

PCs == {"none", "lock", "load", "store", "compile", "loops", "collect", "unlock",
        "send", "done"}

\* The counters of the semaphore and the loops and the states of the goroutines
\* stay in their ranges.
TypeOK ==
    /\ input \in Inputs
    /\ answer.error \in {"pending", "panic", "context", "result", "reported", "none"}
    /\ answer.image \subseteq Files
    /\ main \in {"start", "receive", "failing", "link", "returned", "crashed"}
    /\ pc \in [Goroutines -> PCs]
    /\ result \in [Goroutines -> {"none", "nil", "module", "error"}]
    /\ semaphore \in 0..MaxConcurrency
    /\ loaded \subseteq Files
    /\ symbols.uris \subseteq Files
    /\ x \in Nat /\ expectedResults \in Nat
    /\ modules \subseteq Files
    /\ linkpc \in [Files -> {"none", "resolve", "check", "send", "done"}]
    /\ linkFailed \subseteq Files
    /\ linked_modules \subseteq modules
    /\ cancelled \in BOOLEAN

\* packageSearch, called from link(), reads the symbol table without its lock.
\* That is safe because the loop of Compile leaves no goroutine behind in
\* compileFile when every result it counted has arrived.
LinkAfterCollect ==
    main = "link" => \A g \in Goroutines : pc[g] \in {"none", "done"}

\* Each goroutine that links finds the symbols of its own module and of every
\* module it imports: all imports were collected, whatever order the results
\* came in, before the first link().
LinkSeesImports ==
    \A f \in Files :
       linkpc[f] # "none" =>
          \A m \in {f, Builtin} \cup OpenedBy(input, Imports(input, f)) :
             [uri |-> m, uid |-> ModuleOf(m).uid, pkg |-> ModuleOf(m).pkg]
                \in symbols.modules

\* However the goroutines that open one file race, at most one of them delivers
\* its module, so that a module enters the image once and its imports are
\* started once.
OneModulePerFile ==
    \A g, h \in Goroutines :
       g # h /\ g.file = h.file => ~(result[g] = "module" /\ result[h] = "module")

\* An image given without an error holds exactly the reachable modules.
ImageIsReachable ==
    answer.error = "none" => answer.image = Reachable(input)

\* A file is collected once: collect's "already been collected (????)" is never
\* reported.
CollectedOnce == \A r \in reported : r.code # "AlreadyCollected"

\* Nothing is reported once Compile has answered without an error: the answer
\* waited for every goroutine that could still report.
QuietAfterSuccess == [][answer.error = "none" => reported' = reported]_vars

\* The goroutines whose parser never returns.
Looping == {g \in Goroutines : pc[g] = "loops"}

\* Compile answers, whatever fails, unless a parser loops.  Even then it does if
\* its context is cancelled: the select of the receive loop has that way out.
Answered == <>[](answer # NoAnswer \/ (~cancelled /\ Looping # {}))

\* A call that returned early leaves goroutines blocked in their send for good;
\* none of them keeps a slot of the semaphore the compiler's next call needs.
\* Those whose parser loops keep theirs, and only those.
SlotsReturned == <>[](main = "crashed" \/ semaphore = Cardinality(Looping))

\* Compile implements CompileSpec.  With one slot compileFile runs alone and
\* every error has a cause in the input; with more, the Load and Store of
\* loaded race and a faultless input may be refused.
Abs == INSTANCE CompileSpec WITH SpuriousErrors <- MaxConcurrency > 1
Implements == Abs!Spec
=============================================================================
