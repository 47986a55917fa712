--------------------------- MODULE CompileInvariant ---------------------------
(***************************************************************************)
(* The inductive invariant behind the safety properties of Compile.  Each  *)
(* part says why one piece of Compile's bookkeeping may be relied on; the  *)
(* proofs are in CompileProofs.                                            *)
(***************************************************************************)
EXTENDS Compile

Spawned == {g \in Goroutines : pc[g] # "none"}
Done    == {g \in Goroutines : pc[g] = "done"}
Linked  == {f \in Files : linkpc[f] = "done"}

\* Nothing has gone wrong so far.
Healthily == main \in {"receive", "link"} \/ answer.error = "none"

\* Before its first step Compile has started nothing and collected nothing.
NothingBeforeStart ==
    main = "start" => /\ \A g \in Goroutines : pc[g] = "none"
                      /\ modules = {}
                      /\ x = 0

\* The receive loop counts what it started and what it received.
Counted ==
    main = "receive" => /\ x = Cardinality(Done)
                        /\ expectedResults = Cardinality(Spawned)

\* After the loop nothing is in flight.
NothingInFlight ==
    main = "link" \/ answer.error = "none"
       => \A g \in Goroutines : pc[g] \in {"none", "done"}

\* A goroutine has a result from the moment it leaves compileFile.
ResultWhenPast ==
    \A g \in Goroutines : result[g] # "none" <=> pc[g] \in {"unlock", "send", "done"}

\* A file marked as loaded is being compiled, or has a result worth the name:
\* whoever was told nil can rely on another goroutine's answer.
LoadedHasOwner ==
    \A f \in loaded : \E g \in Goroutines :
       /\ g.file = f
       /\ pc[g] \in {"compile", "loops", "collect"} \/ result[g] \in {"module", "error"}

NilWasLoaded == \A g \in Goroutines : result[g] = "nil" => g.file \in loaded

\* The slots of the semaphore that are taken are those of the goroutines
\* between Lock and Unlock.
Holders == {g \in Goroutines :
              pc[g] \in {"load", "store", "compile", "loops", "collect", "unlock"}}

SlotsHeld == semaphore = Cardinality(Holders)

\* A module to deliver was collected, and the one that made the entry.
ModuleIsCollected ==
    \A g \in Goroutines : result[g] = "module" =>
       /\ g.file \in symbols.uris
       /\ [uri |-> g.file, uid |-> ModuleOf(g.file).uid, pkg |-> ModuleOf(g.file).pkg]
             \in symbols.modules

ModulesWereDelivered ==
    \A f \in modules : \E g \in Goroutines :
       g.file = f /\ pc[g] = "done" /\ result[g] = "module"

DeliveredAreModules ==
    Healthily => \A g \in Goroutines :
       pc[g] = "done" => /\ result[g] # "error"
                         /\ result[g] = "module" => g.file \in modules

\* Where goroutines come from.
Origin ==
    \A g \in Goroutines : pc[g] # "none" =>
       \/ g = BuiltinGoroutine
       \/ g \in StartedBy(Main, input.targets)
       \/ g.by \in modules /\ g \in StartedBy(g.by, Imports(input, g.by))

\* Every target and every import of a received module has its goroutines.
AllStarted ==
    Healthily =>
       /\ pc[BuiltinGoroutine] # "none"
       /\ \A g \in StartedBy(Main, input.targets) : pc[g] # "none"
       /\ \A f \in modules : \A g \in StartedBy(f, Imports(input, f)) : pc[g] # "none"

OnlyReachable == \A g \in Goroutines : pc[g] # "none" => g.file \in Reachable(input)

\* The link loop counts the modules and what it received of them.
LinkCounted ==
    /\ main \in {"start", "receive"} =>
          linked_modules = {} /\ \A f \in Files : linkpc[f] = "none"
    /\ main = "link" =>
          /\ x = Cardinality(Linked)
          /\ expectedResults = Cardinality(modules)
          /\ linked_modules = Linked
          /\ \A f \in Files : linkpc[f] # "none" <=> f \in modules

\* After an answer without an error no goroutine that links is in flight.
LinksDone ==
    answer.error = "none" => /\ main = "returned"
                             /\ \A f \in Files : linkpc[f] \in {"none", "done"}

\* The answer is the last thing Compile does.
AnswerLast == main \notin {"returned", "crashed"} => answer = NoAnswer

\* The invariant that the steps of Compile preserve.
Inductive ==
    /\ TypeOK
    /\ NothingBeforeStart
    /\ Counted
    /\ NothingInFlight
    /\ ResultWhenPast
    /\ SlotsHeld
    /\ LoadedHasOwner
    /\ NilWasLoaded
    /\ ModuleIsCollected
    /\ OneModulePerFile
    /\ ModulesWereDelivered
    /\ DeliveredAreModules
    /\ Origin
    /\ AllStarted
    /\ OnlyReachable
    /\ LinkCounted
    /\ LinkSeesImports
    /\ LinksDone
    /\ AnswerLast
    /\ ImageIsReachable

-----------------------------------------------------------------------------
(* Why the call ends: the guards of its steps, and the way every actor has *)
(* to go.  The order of the stages is the order of the code in compileFile *)
(* and in the two loops.                                                   *)

\* Goroutine g has a step to take in compileFile: nothing but a full semaphore
\* can hold it up.
CanCompile(g) ==
    /\ main # "crashed"
    /\ \/ pc[g] = "lock" /\ semaphore < MaxConcurrency
       \/ pc[g] \in {"load", "store", "collect", "unlock"}
       \/ pc[g] = "compile" /\ input.source[g.file].kind \in {"idl", "unsupported"}

\* The goroutine that links f has a step to take in link().
CanLink(f) == main # "crashed" /\ linkpc[f] \in {"resolve", "check"}

\* The caller's goroutine can go on: it waits for no result, or for one that a
\* goroutine offers.
CanReceive ==
    \/ main \in {"start", "failing"}
    \/ main \in {"receive", "link"} /\ x = expectedResults
    \/ main = "receive" /\ x < expectedResults
          /\ \E g \in Goroutines : pc[g] = "send" /\ result[g] # "none"
    \/ main = "link" /\ x < expectedResults /\ \E f \in Files : linkpc[f] = "send"

\* Until Compile has answered somebody can move, unless a parser loops: the
\* loops of the caller, the semaphore and the unbuffered channels never hold up
\* everyone at once.
NeverStuck ==
    main \notin {"returned", "crashed"} =>
       CanReceive \/ (\E g \in Goroutines : CanCompile(g)) \/ (\E f \in Files : CanLink(f))
          \/ Looping # {}

\* When no goroutine in compileFile can go on, the slots that are taken are those
\* of the parsers that loop, and nobody waits for one unless they have them all,
\* whether or not anybody still receives.
SlotsComeBack ==
    main # "crashed" /\ (\A g \in Goroutines : ~CanCompile(g)) =>
       /\ semaphore = Cardinality(Looping)
       /\ \A g \in Goroutines :
             \/ pc[g] \in {"none", "loops", "send", "done"}
             \/ pc[g] = "lock" /\ Cardinality(Looping) = MaxConcurrency

\* The stages a compile goroutine, a link goroutine and the caller pass through.
FileStage(p) == CASE p = "none" -> 0 [] p = "lock" -> 1 [] p = "load" -> 2
                  [] p = "store" -> 3 [] p = "compile" -> 4 [] p = "loops" -> 5
                  [] p = "collect" -> 5 [] p = "unlock" -> 6 [] p = "send" -> 7 [] p = "done" -> 8

LinkStage(p) == CASE p = "none" -> 0 [] p = "resolve" -> 1 [] p = "check" -> 2
                  [] p = "send" -> 3 [] p = "done" -> 4

MainStage(p) == CASE p = "start" -> 0 [] p = "receive" -> 1 [] p = "link" -> 2
                  [] p = "failing" -> 3 [] p = "returned" -> 4 [] p = "crashed" -> 5

\* A step takes no actor back, and one of them further.
Onward ==
    /\ \A g \in Goroutines : FileStage(pc[g]) <= FileStage(pc'[g])
    /\ \A f \in Files : LinkStage(linkpc[f]) <= LinkStage(linkpc'[f])
    /\ MainStage(main) <= MainStage(main')
    /\ cancelled => cancelled'
    /\ \/ \E g \in Goroutines : FileStage(pc[g]) < FileStage(pc'[g])
       \/ \E f \in Files : LinkStage(linkpc[f]) < LinkStage(linkpc'[f])
       \/ MainStage(main) < MainStage(main')
       \/ ~cancelled /\ cancelled'

\* So the steps of a call are no more than the stages of its actors, of which
\* there are finitely many.
StepsAreFinite == [][Onward]_vars
=============================================================================
