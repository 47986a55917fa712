---------------------------- MODULE CompileProofs ----------------------------
(***************************************************************************)
(* The proofs that Inductive is an invariant of Compile, and of the safety *)
(* properties that follow from it, for every set of files, every input and *)
(* every capacity of the semaphore; and, in the second half, that Compile  *)
(* takes no step that CompileSpec does not allow: what it accepts is       *)
(* faultless, and what it refuses is faulty, cancelled, or, with more than *)
(* one slot, the victim of the race on loaded.                             *)
(***************************************************************************)
EXTENDS CompileFaults, TLAPS, FiniteSetTheorems

\* There are finitely many goroutines to start, because a request names finitely
\* many targets and a file finitely many imports.
LEMMA GoroutinesFinite == IsFiniteSet(Goroutines)
<1> DEFINE Triples == ((Files \cup {Main}) \X (0..MaxTargets)) \X Files
           f == [t \in Triples |-> [by |-> t[1][1], at |-> t[1][2], file |-> t[2]]]
<1>1. IsFiniteSet(Triples)
  <2>1. IsFiniteSet(Files \cup {Main})
    BY FilesAssumption, FS_AddElement
  <2>2. IsFiniteSet(0..MaxTargets)
    BY MaxTargetsAssumption, FS_Interval
  <2>3. IsFiniteSet((Files \cup {Main}) \X (0..MaxTargets))
    BY <2>1, <2>2, FS_Product
  <2> QED BY <2>3, FilesAssumption, FS_Product
<1>2. f \in Surjection(Triples, Goroutines)
  <2>1. f \in [Triples -> Goroutines]
    BY DEF Goroutines
  <2>2. ASSUME NEW g \in Goroutines PROVE \E t \in Triples : f[t] = g
    <3>1. <<<<g.by, g.at>>, g.file>> \in Triples
      BY DEF Goroutines
    <3>2. f[<<<<g.by, g.at>>, g.file>>] = g
      BY <3>1 DEF Goroutines
    <3> QED BY <3>1, <3>2
  <2> QED BY <2>1, <2>2, Zenon DEF Surjection
<1> QED BY <1>1, <1>2, FS_Surjection

\* Moving one element into a set of goroutines, or out of it.
LEMMA OneMore ==
  ASSUME NEW S \in SUBSET Goroutines, NEW g \in Goroutines, g \notin S
  PROVE  /\ IsFiniteSet(S) /\ Cardinality(S) \in Nat
         /\ Cardinality(S \cup {g}) = Cardinality(S) + 1
BY GoroutinesFinite, FS_Subset, FS_AddElement, FS_CardinalityType

\* Taking one element out of a set of goroutines.
LEMMA OneLess ==
  ASSUME NEW S \in SUBSET Goroutines, NEW g \in S
  PROVE  /\ IsFiniteSet(S) /\ Cardinality(S) \in Nat \ {0}
         /\ Cardinality(S \ {g}) = Cardinality(S) - 1
<1>1. IsFiniteSet(S) /\ Cardinality(S) \in Nat
  BY GoroutinesFinite, FS_Subset, FS_CardinalityType
<1>2. Cardinality(S) # 0
  BY <1>1, FS_EmptySet
<1> QED BY <1>1, <1>2, FS_RemoveElement

\* Two disjoint sets of goroutines.
LEMMA Disjoint ==
  ASSUME NEW S \in SUBSET Goroutines, NEW T \in SUBSET Goroutines, S \cap T = {}
  PROVE  /\ Cardinality(S) \in Nat /\ Cardinality(T) \in Nat
         /\ Cardinality(S \cup T) = Cardinality(S) + Cardinality(T)
<1>1. IsFiniteSet(S) /\ IsFiniteSet(T)
  BY GoroutinesFinite, FS_Subset
<1>2. Cardinality(S) \in Nat /\ Cardinality(T) \in Nat /\ Cardinality({}) = 0
  BY <1>1, FS_CardinalityType, FS_EmptySet
<1>3. Cardinality(S \cup T) = Cardinality(S) + Cardinality(T) - Cardinality(S \cap T)
  BY <1>1, FS_Union
<1>4. Cardinality(S \cap T) = 0
  <2>1. S \cap T = {}
    OBVIOUS
  <2> QED BY <1>2, <2>1, Zenon
<1> HIDE DEF Goroutines
<1> QED BY <1>2, <1>3, <1>4

-----------------------------------------------------------------------------
(* What the input and the goroutines a file starts look like.              *)

\* The request never changes, so it is one of those considered.
LEMMA InputIsInput == ASSUME TypeOK PROVE IsInput(input)
BY InputsAssumption DEF TypeOK

\* A sub-compiler names its module after the file's path.
LEMMA ModuleHasItsURI ==
  ASSUME TypeOK, NEW f \in Files
  PROVE  ModuleOf(f).uri = f
BY InputIsInput DEF IsInput, ModuleOf

\* Targets and imports are short sequences of strings to open.
LEMMA ImportsAreTargets ==
  ASSUME TypeOK
  PROVE  /\ input.targets \in Targets
         /\ \A f \in Files : Imports(input, f) \in Targets
BY InputIsInput DEF IsInput, Imports

\* What one file starts is made of goroutines.
LEMMA StartedAreGoroutines ==
  ASSUME NEW by, NEW ts
  PROVE  StartedBy(by, ts) \subseteq Goroutines
BY DEF StartedBy

\* Every file that targets or imports open has a goroutine to compile it.
LEMMA OpenedIsStarted ==
  ASSUME TypeOK, NEW by \in Files \cup {Main}, NEW ts \in Targets,
         NEW f \in OpenedBy(input, ts)
  PROVE  \E g \in StartedBy(by, ts) : g.file = f
<1>1. PICK i \in DOMAIN ts : Exists(input, ts[i]) /\ f \in Opened(input, ts[i])
  BY DEF OpenedBy
<1>2. i \in 0..MaxTargets /\ ts[i] \in URIs
  BY MaxTargetsAssumption DEF Targets
<1>3. f \in Files
  BY <1>1, <1>2, InputIsInput, URIsAssumption DEF Opened, Exists, IsInput
<1> DEFINE g == [by |-> by, at |-> i, file |-> f]
<1>4. g \in Goroutines
  BY <1>2, <1>3 DEF Goroutines
<1>5. g \in StartedBy(by, ts)
  BY <1>1, <1>4 DEF StartedBy
<1> QED BY <1>5

\* A goroutine was started by the file in its name, for a file that opened.
LEMMA StartedIsOpened ==
  ASSUME NEW by, NEW ts, NEW g \in StartedBy(by, ts)
  PROVE  g.by = by /\ g.file \in OpenedBy(input, ts)
BY DEF StartedBy, OpenedBy

\* The builtin module's goroutine is one of them.
LEMMA BuiltinGoroutineType == BuiltinGoroutine \in Goroutines
BY FilesAssumption, MaxTargetsAssumption DEF BuiltinGoroutine, Goroutines

\* The goroutines Main starts are none of those a file starts, and none of
\* either is the builtin module's.
LEMMA StartedApart ==
  ASSUME TypeOK
  PROVE  /\ BuiltinGoroutine \notin StartedBy(Main, input.targets)
         /\ \A f \in Files :
               /\ BuiltinGoroutine \notin StartedBy(f, Imports(input, f))
               /\ StartedBy(Main, input.targets)
                     \cap StartedBy(f, Imports(input, f)) = {}
<1>1. 0 \notin DOMAIN input.targets
  BY ImportsAreTargets, MaxTargetsAssumption DEF Targets
<1>2. Main \notin Files
  BY MainAssumption DEF Main
<1> QED BY <1>1, <1>2 DEF StartedBy, BuiltinGoroutine

-----------------------------------------------------------------------------
(* Type correctness.                                                       *)

USE DEF Main

\* The first state is well typed.
LEMMA TypeInit == Init => TypeOK
<1> SUFFICES ASSUME Init PROVE TypeOK
  OBVIOUS
<1> USE DEF Init
<1>1. answer.error = "pending" /\ answer.image = {}
  BY DEF NoAnswer
<1>2. symbols.uris = {}
  BY DEF EmptyTable
<1>3. pc \in [Goroutines -> PCs]
  BY DEF PCs
<1>4. semaphore \in 0..MaxConcurrency
  BY MaxConcurrencyAssumption
<1> QED BY <1>1, <1>2, <1>3, <1>4 DEF TypeOK

\* What a goroutine inside compileFile changes.
LEMMA CompileFileStep ==
  ASSUME TypeOK, SlotsHeld, NEW g \in Goroutines, CompileFile(g)
  PROVE  /\ pc[g] \in {"lock", "load", "store", "compile", "collect", "unlock"}
         /\ pc' = [pc EXCEPT ![g] = pc'[g]]
         /\ pc'[g] \in {"load", "store", "compile", "loops", "collect", "unlock", "send"}
         /\ result' \in [Goroutines -> {"none", "nil", "module", "error"}]
         /\ \A h \in Goroutines \ {g} : result'[h] = result[h]
         /\ semaphore' \in 0..MaxConcurrency
         /\ loaded' \subseteq Files
         /\ symbols'.uris \subseteq Files
         /\ UNCHANGED <<input, answer, main, loopVars, modules, linkVars, cancelled>>
<1>0. /\ UNCHANGED <<input, answer, main, loopVars, modules, linkVars, cancelled>>
      /\ g.file \in Files
  BY DEF CompileFile, Goroutines
<1> USE DEF TypeOK
<1>1. CASE Lock(g)
  BY <1>1, <1>0, MaxConcurrencyAssumption DEF Lock
<1>2. CASE LoadHit(g)
  BY <1>2, <1>0 DEF LoadHit
<1>3. CASE LoadMiss(g)
  BY <1>3, <1>0 DEF LoadMiss
<1>4. CASE Store(g)
  BY <1>4, <1>0 DEF Store
<1>5. CASE CompileFileOk(g)
  BY <1>5, <1>0 DEF CompileFileOk
<1>6. CASE CompileFileError(g) \/ CompileFileLoops(g)
  BY <1>6, <1>0 DEF CompileFileError, CompileFileLoops
<1>7. CASE Collect(g)
  <2>1. ModuleOf(g.file).uri = g.file
    BY <1>0, ModuleHasItsURI
  <2>2. CollectTable(symbols, ModuleOf(g.file)).uris \subseteq symbols.uris \cup {g.file}
    BY <2>1 DEF CollectTable
  <2>3. symbols'.uris \subseteq Files
    BY <1>7, <1>0, <2>2 DEF Collect
  <2> QED BY <1>7, <1>0, <2>3 DEF Collect
<1>8. CASE Unlock(g)
  <2>1. semaphore # 0
    <3>1. g \in Holders
      BY <1>8 DEF Unlock, Holders
    <3>2. Holders \in SUBSET Goroutines
      BY DEF Holders
    <3> QED BY <3>1, <3>2, OneLess DEF SlotsHeld
  <2>2. semaphore - 1 \in 0..MaxConcurrency
    BY <2>1, MaxConcurrencyAssumption
  <2> QED BY <1>8, <1>0, <2>2 DEF Unlock
<1> QED BY <1>1, <1>2, <1>3, <1>4, <1>5, <1>6, <1>7, <1>8 DEF CompileFile

\* What the caller's goroutine starts, and hands over, is well typed.
LEMMA GoType ==
  ASSUME TypeOK, NEW new
  PROVE  Go(new) \in [Goroutines -> PCs]
BY DEF TypeOK, Go, PCs

\* The number of goroutines one file starts is finite.
LEMMA StartedCount ==
  ASSUME NEW new \in SUBSET Goroutines
  PROVE  Cardinality(new) \in Nat
BY GoroutinesFinite, FS_Subset, FS_CardinalityType

\* The steps that end the process.
Panics == StartPanic \/ FinishPanic \/ \E g \in Goroutines : CompileFilePanic(g)

\* They change nothing but the answer, if there was none.
LEMMA PanicStep ==
  ASSUME Panics
  PROVE  /\ main # "crashed" /\ main' = "crashed"
         /\ \/ answer' = Failed("panic")
            \/ /\ answer # NoAnswer /\ answer' = answer
               /\ \E g \in Goroutines : pc[g] = "compile"
         /\ UNCHANGED <<input, pc, result, semaphore, loaded, symbols, reported, x,
                        expectedResults, modules, linkpc, linkFailed, linked_modules,
                        cancelled>>
<1>1. CASE StartPanic
  BY <1>1 DEF StartPanic, fileVars, loopVars, linkVars
<1>2. CASE FinishPanic
  BY <1>2 DEF FinishPanic, fileVars, loopVars, linkVars
<1>3. CASE \E g \in Goroutines : CompileFilePanic(g)
  BY <1>3 DEF CompileFilePanic, fileVars, loopVars, linkVars
<1> QED BY <1>1, <1>2, <1>3 DEF Panics

\* Types are kept; the range of the semaphore needs the count of its holders.
LEMMA TypeStep ==
  ASSUME TypeOK, SlotsHeld, LinkCounted, [Next]_vars
  PROVE  TypeOK'
<1>1. CASE UNCHANGED vars
  BY <1>1 DEF TypeOK, vars, fileVars, loopVars, linkVars
<1>2. CASE \E g \in Goroutines : CompileFile(g)
  <2> PICK g \in Goroutines : CompileFile(g)
    BY <1>2
  <2>1. pc' \in [Goroutines -> PCs]
    BY CompileFileStep DEF PCs, TypeOK
  <2> QED BY <2>1, CompileFileStep DEF TypeOK, loopVars, linkVars
<1>3. CASE \E f \in Files : Link(f)
  BY <1>3 DEF Link, Resolve, CheckReported, TypeOK, fileVars, loopVars
<1>4. CASE Cancel
  BY <1>4 DEF Cancel, TypeOK, fileVars, loopVars, linkVars
<1>5. CASE Start
  <2>1. Cardinality(StartedBy(Main, input.targets)) \in Nat
    BY StartedAreGoroutines, StartedCount
  <2>2. pc' \in [Goroutines -> PCs] /\ expectedResults' \in Nat
    BY <1>5, <2>1, GoType DEF Start
  <2> QED BY <1>5, <2>2 DEF Start, TypeOK, linkVars
<1>6. CASE Panics
  <2>1. answer' = answer \/ (answer'.error = "panic" /\ answer'.image = {})
    BY <1>6, PanicStep DEF Failed
  <2> QED BY <1>6, <2>1, PanicStep DEF TypeOK
<1>7. CASE \E g \in Goroutines : ReceiveNil(g)
  BY <1>7 DEF ReceiveNil, TypeOK, PCs, linkVars
<1>8. CASE \E g \in Goroutines : ReceiveModule(g)
  <2> PICK g \in Goroutines : ReceiveModule(g)
    BY <1>8
  <2> DEFINE new == {h \in StartedBy(g.file, Imports(input, g.file)) :
                       \A i \in {k \in DOMAIN Imports(input, g.file) :
                                   ~Exists(input, Imports(input, g.file)[k])} : h.at < i}
  <2>1. Cardinality(new) \in Nat
    BY StartedAreGoroutines, StartedCount
  <2>2. pc' \in [Goroutines -> PCs]
    <3>1. Go(new) \in [Goroutines -> PCs]
      BY GoType
    <3> QED BY <3>1 DEF ReceiveModule, PCs
  <2>3. expectedResults' \in Nat
    BY <2>1 DEF ReceiveModule, TypeOK
  <2>4. x' \in Nat
    BY DEF ReceiveModule, TypeOK
  <2>5. answer'.error \in {"pending", "panic", "context", "result", "reported", "none"}
        /\ answer'.image \subseteq Files
    BY DEF ReceiveModule, TypeOK, Failed
  <2>6. g.file \in Files
    BY DEF Goroutines
  <2> QED BY <2>2, <2>3, <2>4, <2>5, <2>6 DEF ReceiveModule, TypeOK, linkVars
<1>9. CASE \E g \in Goroutines : ReceiveError(g)
  BY <1>9 DEF ReceiveError, TypeOK, PCs, linkVars, loopVars
<1>10. CASE \E f \in Files : ReceiveLinked(f)
  <2> PICK f \in Files : ReceiveLinked(f)
    BY <1>10
  <2>1. main = "link" /\ linkpc[f] = "send" /\ x' \in Nat
    BY DEF ReceiveLinked, TypeOK
  <2>2. f \in modules
    BY <2>1 DEF LinkCounted
  <2> QED BY <2>1, <2>2 DEF ReceiveLinked, TypeOK, fileVars
<1>11. CASE StartLink
  <2>1. Cardinality(modules) \in Nat
    BY FilesAssumption, FS_Subset, FS_CardinalityType DEF TypeOK
  <2> QED BY <1>11, <2>1 DEF StartLink, TypeOK, fileVars
<1>12. CASE Finish
  <2>1. linked_modules \subseteq Files
    BY DEF TypeOK
  <2>2. answer'.error \in {"reported", "none"} /\ answer'.image = linked_modules
    BY <1>12 DEF Finish, Rejected, Image
  <2> QED BY <1>12, <2>1, <2>2 DEF Finish, TypeOK, fileVars, loopVars, linkVars
<1>13. CASE ReturnError
  <2>1. answer'.error \in {"reported", "result"} /\ answer'.image = {}
    BY <1>13 DEF ReturnError, Failed
  <2> QED BY <1>13, <2>1 DEF ReturnError, TypeOK, fileVars, loopVars, linkVars
<1>14. CASE ReturnCancelled
  <2>1. answer'.error = "context" /\ answer'.image = {}
    BY <1>14 DEF ReturnCancelled, Failed
  <2> QED BY <1>14, <2>1 DEF ReturnCancelled, TypeOK, fileVars, loopVars, linkVars
<1> QED BY <1>1, <1>2, <1>3, <1>4, <1>5, <1>6, <1>7, <1>8, <1>9, <1>10, <1>11,
           <1>12, <1>13, <1>14 DEF Next, MainStep, Panics

-----------------------------------------------------------------------------
(* Receiving a module.                                                     *)

\* The goroutines that the loop starts for the imports of the module g delivers.
Fresh(g) ==
    {h \in StartedBy(g.file, Imports(input, g.file)) :
        \A i \in {k \in DOMAIN Imports(input, g.file) :
                    ~Exists(input, Imports(input, g.file)[k])} : h.at < i}

\* None of them exists already: the imports of a module are started only when
\* it is delivered, and it is delivered once.
LEMMA FreshIsNew ==
  ASSUME Inductive, NEW g \in Goroutines, pc[g] = "send", result[g] = "module"
  PROVE  \A h \in StartedBy(g.file, Imports(input, g.file)) : pc[h] = "none"
<1> SUFFICES ASSUME NEW h \in StartedBy(g.file, Imports(input, g.file)), pc[h] # "none"
             PROVE  FALSE
  OBVIOUS
<1>1. h \in Goroutines /\ h.by = g.file /\ g.file \in Files
  BY StartedAreGoroutines, StartedIsOpened DEF Goroutines
<1>2. h # BuiltinGoroutine /\ h \notin StartedBy(Main, input.targets)
  BY <1>1, StartedApart DEF Inductive
<1>3. g.file \in modules
  BY <1>1, <1>2 DEF Inductive, Origin
<1>4. PICK k \in Goroutines : k.file = g.file /\ pc[k] = "done" /\ result[k] = "module"
  BY <1>3 DEF Inductive, ModulesWereDelivered
<1>5. k # g
  BY <1>4
<1> QED BY <1>4, <1>5 DEF Inductive, OneModulePerFile

\* What receiving a module changes.
LEMMA ReceiveModuleStep ==
  ASSUME Inductive, NEW g \in Goroutines, ReceiveModule(g)
  PROVE  /\ Fresh(g) \in SUBSET Goroutines /\ g \notin Fresh(g)
         /\ \A h \in Fresh(g) : pc[h] = "none" /\ pc'[h] = "lock"
         /\ pc[g] = "send" /\ pc'[g] = "done" /\ result[g] = "module"
         /\ \A h \in Goroutines : h # g /\ h \notin Fresh(g) => pc'[h] = pc[h]
         /\ expectedResults' = expectedResults + Cardinality(Fresh(g))
         /\ \/ x' = x + 1 /\ main' = main /\ answer' = answer
               /\ Fresh(g) = StartedBy(g.file, Imports(input, g.file))
            \/ main' = "returned" /\ answer' = Failed("result")
         /\ modules' = modules \cup {g.file}
         /\ main = "receive" /\ x < expectedResults
         /\ UNCHANGED <<input, result, semaphore, loaded, symbols, reported, linkVars>>
<1>1. pc[g] = "send" /\ result[g] = "module" /\ main = "receive" /\ x < expectedResults
  BY DEF ReceiveModule, Receiving
<1>2. Fresh(g) \in SUBSET Goroutines
  BY StartedAreGoroutines DEF Fresh
<1>3. \A h \in Fresh(g) : pc[h] = "none"
  BY <1>1, FreshIsNew DEF Fresh
<1>4. g \notin Fresh(g)
  BY <1>1, <1>3
<1>5. pc' = [Go(Fresh(g)) EXCEPT ![g] = "done"]
      /\ expectedResults' = expectedResults + Cardinality(Fresh(g))
  BY DEF ReceiveModule, Fresh
<1>6. /\ pc'[g] = "done"
      /\ \A h \in Fresh(g) : pc'[h] = "lock"
      /\ \A h \in Goroutines : h # g /\ h \notin Fresh(g) => pc'[h] = pc[h]
  BY <1>2, <1>4, <1>5 DEF Go
<1>7. \/ x' = x + 1 /\ main' = main /\ answer' = answer
         /\ Fresh(g) = StartedBy(g.file, Imports(input, g.file))
      \/ main' = "returned" /\ answer' = Failed("result")
  BY DEF ReceiveModule, Fresh
<1> QED BY <1>1, <1>2, <1>3, <1>4, <1>5, <1>6, <1>7 DEF ReceiveModule

\* What Start changes.
LEMMA StartStep ==
  ASSUME Inductive, Start
  PROVE  /\ \A g \in Goroutines : pc[g] = "none"
         /\ \A g \in Goroutines :
               pc'[g] = IF g \in StartedBy(Main, input.targets) \cup {BuiltinGoroutine}
                        THEN "lock" ELSE "none"
         /\ expectedResults' =
               Cardinality(StartedBy(Main, input.targets) \cup {BuiltinGoroutine})
         /\ x' = 0 /\ modules = {}
         /\ main = "start" /\ main' = "receive"
         /\ UNCHANGED <<input, answer, result, semaphore, loaded, symbols, reported,
                        modules, linkVars>>
<1>1. main = "start" /\ \A g \in Goroutines : pc[g] = "none"
  BY DEF Start, Inductive, NothingBeforeStart
<1>2. x = 0 /\ modules = {}
  BY <1>1 DEF Inductive, NothingBeforeStart
<1>3. Cardinality(StartedBy(Main, input.targets) \cup {BuiltinGoroutine})
        = Cardinality(StartedBy(Main, input.targets)) + 1
  BY StartedAreGoroutines, BuiltinGoroutineType, StartedApart, OneMore DEF Inductive
<1> QED BY <1>1, <1>2, <1>3 DEF Start, Go

\* The steps that leave the goroutines that compile files alone.
Elsewhere == UNCHANGED <<input, fileVars, modules>>

\* The steps that touch a compile goroutine, and all the others.
LEMMA StepKinds ==
  ASSUME [Next]_vars
  PROVE  \/ \E g \in Goroutines : CompileFile(g)
         \/ Start
         \/ \E g \in Goroutines : ReceiveNil(g)
         \/ \E g \in Goroutines : ReceiveModule(g)
         \/ \E g \in Goroutines : ReceiveError(g)
         \/ Elsewhere
<1> USE DEF Elsewhere
<1>1. CASE UNCHANGED vars
  BY <1>1 DEF vars
<1>2. CASE \E f \in Files : Link(f)
  BY <1>2 DEF Link
<1>3. CASE Cancel
  BY <1>3 DEF Cancel
<1>4. CASE StartLink \/ Finish \/ ReturnError \/ ReturnCancelled
  BY <1>4 DEF StartLink, Finish, ReturnError, ReturnCancelled
<1>6. CASE Panics
  BY <1>6, PanicStep DEF fileVars
<1>5. CASE \E f \in Files : ReceiveLinked(f)
  BY <1>5 DEF ReceiveLinked
<1> QED BY <1>1, <1>2, <1>3, <1>4, <1>5, <1>6 DEF Next, MainStep, Panics

\* How the steps that leave the compile goroutines alone move the call itself.
LEMMA ElsewhereKinds ==
  ASSUME Inductive, [Next]_vars, Elsewhere
  PROVE  \/ UNCHANGED <<main, answer, loopVars>>
         \/ main' \in {"failing", "returned", "crashed"} /\ answer'.error # "none"
         \/ main = "receive" /\ x = expectedResults /\ main' = "link"
            /\ answer' = answer
         \/ main = "link" /\ main' = "link" /\ answer' = answer
         \/ main = "link" /\ x = expectedResults /\ main' = "returned"
            /\ answer'.image = linked_modules
<1> USE DEF Elsewhere, fileVars, loopVars
<1>0. main \notin {"returned", "crashed"} => answer.error = "pending"
  BY DEF Inductive, AnswerLast, NoAnswer
<1>1. CASE UNCHANGED vars
  BY <1>1 DEF vars
<1>2. CASE \E f \in Files : Link(f)
  BY <1>2 DEF Link
<1>3. CASE Cancel
  BY <1>3 DEF Cancel
<1>4. CASE ReturnError \/ ReturnCancelled
  BY <1>4 DEF ReturnError, ReturnCancelled, Failed
<1>5. CASE StartLink
  BY <1>5 DEF StartLink
<1>6. CASE Finish
  BY <1>6 DEF Finish, Image, Rejected
<1>7. CASE \E f \in Files : ReceiveLinked(f)
  BY <1>0, <1>7 DEF ReceiveLinked
<1>8. CASE \E g \in Goroutines : CompileFile(g)
  BY <1>8 DEF CompileFile
<1>9. CASE Start
  <2>1. pc[BuiltinGoroutine] = "none" /\ pc'[BuiltinGoroutine] = "lock"
    BY <1>9, StartStep, BuiltinGoroutineType
  <2> QED BY <2>1
<1>10. ASSUME NEW g \in Goroutines,
              ReceiveNil(g) \/ ReceiveModule(g) \/ ReceiveError(g)
       PROVE  FALSE
  <2>1. pc[g] = "send"
    BY <1>10 DEF ReceiveNil, ReceiveModule, ReceiveError, Receiving
  <2>2. pc'[g] = "done"
    BY <1>10, ReceiveModuleStep DEF ReceiveNil, ReceiveError, Inductive, TypeOK
  <2> QED BY <2>1, <2>2
<1>11. CASE Panics
  <2>1. CASE answer' = Failed("panic")
    BY <1>11, <2>1, PanicStep DEF Failed
  <2>2. CASE \E g \in Goroutines : pc[g] = "compile"
    <3>1. answer.error # "none"
      BY <2>2 DEF Inductive, NothingInFlight
    <3> QED BY <1>11, <3>1, PanicStep DEF Failed
  <2> QED BY <1>11, <2>1, <2>2, PanicStep
<1> QED BY <1>1, <1>2, <1>3, <1>4, <1>5, <1>6, <1>7, <1>8, <1>9, <1>10, <1>11
        DEF Next, MainStep, Panics

-----------------------------------------------------------------------------
(* The semaphore.                                                          *)

\* The semaphore counts the goroutines between Lock and Unlock.
LEMMA SlotsStep ==
  ASSUME Inductive, [Next]_vars
  PROVE  SlotsHeld'
<1> USE DEF SlotsHeld, Holders
<1>0. TypeOK /\ SlotsHeld /\ Holders \in SUBSET Goroutines
  BY DEF Inductive
<1>1. CASE \E g \in Goroutines : CompileFile(g)
  <2> PICK g \in Goroutines : CompileFile(g)
    BY <1>1
  <2>1. CASE Lock(g)
    <3>1. g \notin Holders /\ Holders' = Holders \cup {g}
      BY <2>1, <1>0 DEF Lock, TypeOK
    <3>2. Cardinality(Holders') = Cardinality(Holders) + 1
      BY <3>1, <1>0, OneMore
    <3> QED BY <3>2, <2>1, <1>0 DEF Lock
  <2>2. CASE Unlock(g)
    <3>1. g \in Holders /\ Holders' = Holders \ {g}
      BY <2>2, <1>0 DEF Unlock, TypeOK
    <3>2. Cardinality(Holders') = Cardinality(Holders) - 1
      BY <3>1, <1>0, OneLess
    <3> QED BY <3>2, <2>2, <1>0 DEF Unlock
  <2>3. CASE LoadHit(g) \/ LoadMiss(g) \/ Store(g) \/ CompileFileOk(g)
             \/ CompileFileError(g) \/ CompileFileLoops(g) \/ Collect(g)
    <3>1. /\ semaphore' = semaphore
          /\ pc[g] \in {"load", "store", "compile", "collect"}
          /\ \E p \in {"store", "compile", "loops", "collect", "unlock"} :
                pc' = [pc EXCEPT ![g] = p]
      BY <2>3 DEF LoadHit, LoadMiss, Store, CompileFileOk, CompileFileError,
                  CompileFileLoops, Collect
    <3>2. Holders' = Holders
      BY <3>1, <1>0 DEF TypeOK
    <3> QED BY <3>1, <3>2, <1>0
  <2> QED BY <2>1, <2>2, <2>3 DEF CompileFile
<1>2. CASE Start
  <2>1. Holders' = Holders
    BY <1>2, StartStep
  <2> QED BY <1>0, <1>2, <2>1, StartStep
<1>3. CASE \E g \in Goroutines : ReceiveNil(g) \/ ReceiveError(g)
  <2>1. Holders' = Holders /\ semaphore' = semaphore
    BY <1>0, <1>3 DEF ReceiveNil, ReceiveError, Receiving, TypeOK
  <2> QED BY <1>0, <2>1
<1>4. CASE \E g \in Goroutines : ReceiveModule(g)
  <2> PICK g \in Goroutines : ReceiveModule(g)
    BY <1>4
  <2>1. Holders' = Holders
    BY ReceiveModuleStep
  <2> QED BY <1>0, <2>1, ReceiveModuleStep
<1>5. CASE Elsewhere
  BY <1>0, <1>5 DEF Elsewhere, fileVars
<1> QED BY <1>1, <1>2, <1>3, <1>4, <1>5, StepKinds

-----------------------------------------------------------------------------
(* The counts of the receive loop.                                         *)

\* The receive loop neither loses a goroutine nor counts one twice.
LEMMA CountedStep ==
  ASSUME Inductive, [Next]_vars
  PROVE  Counted' /\ NothingBeforeStart'
<1> USE DEF Counted, Spawned, Done, NothingBeforeStart
<1>0. /\ TypeOK /\ SlotsHeld /\ Counted /\ NothingBeforeStart
      /\ Spawned \in SUBSET Goroutines /\ Done \in SUBSET Goroutines
  BY DEF Inductive
<1>1. CASE \E g \in Goroutines : CompileFile(g)
  <2> PICK g \in Goroutines : CompileFile(g)
    BY <1>1
  <2>1. Spawned' = Spawned /\ Done' = Done /\ main' = main /\ main # "start"
    BY <1>0, CompileFileStep DEF TypeOK
  <2> QED BY <1>0, <2>1, CompileFileStep DEF loopVars
<1>2. CASE Start
  <2>1. Done' = {} /\ Spawned' = StartedBy(Main, input.targets) \cup {BuiltinGoroutine}
    BY <1>2, StartStep, StartedAreGoroutines, BuiltinGoroutineType
  <2>2. Cardinality(Done') = 0
    BY <2>1, FS_EmptySet
  <2> QED BY <1>2, <2>1, <2>2, StartStep
<1>3. CASE \E g \in Goroutines : ReceiveNil(g)
  <2> PICK g \in Goroutines : ReceiveNil(g)
    BY <1>3
  <2>1. g \notin Done /\ Done' = Done \cup {g} /\ Spawned' = Spawned
        /\ main = "receive" /\ main' = main
    BY <1>0 DEF ReceiveNil, Receiving, TypeOK
  <2>2. Cardinality(Done') = Cardinality(Done) + 1
    BY <1>0, <2>1, OneMore
  <2> QED BY <1>0, <2>1, <2>2 DEF ReceiveNil
<1>4. CASE \E g \in Goroutines : ReceiveModule(g)
  <2> PICK g \in Goroutines : ReceiveModule(g)
    BY <1>4
  <2>1. g \notin Done /\ Done' = Done \cup {g}
    BY ReceiveModuleStep
  <2>2. Cardinality(Done') = Cardinality(Done) + 1
    BY <1>0, <2>1, OneMore
  <2>3. Spawned \cap Fresh(g) = {} /\ Spawned' = Spawned \cup Fresh(g)
    BY ReceiveModuleStep
  <2>4. Cardinality(Spawned') = Cardinality(Spawned) + Cardinality(Fresh(g))
    BY <1>0, <2>3, ReceiveModuleStep, Disjoint
  <2> QED BY <1>0, <2>2, <2>4, ReceiveModuleStep
<1>5. CASE \E g \in Goroutines : ReceiveError(g)
  BY <1>5 DEF ReceiveError
<1>6. CASE Elsewhere
  <2>1. Spawned' = Spawned /\ Done' = Done /\ pc' = pc /\ modules' = modules
    BY <1>6 DEF Elsewhere, fileVars
  <2>2. main' \in {"start", "receive"} => main' = main /\ UNCHANGED loopVars
    BY <1>6, ElsewhereKinds
  <2> QED BY <1>0, <2>1, <2>2 DEF loopVars
<1> QED BY <1>1, <1>2, <1>3, <1>4, <1>5, <1>6, StepKinds

\* When the loop has received as many results as it started goroutines, none of
\* them is left.
LEMMA AllReceived ==
  ASSUME Inductive, main = "receive", x = expectedResults
  PROVE  \A g \in Goroutines : pc[g] \in {"none", "done"}
<1>1. Done \subseteq Spawned /\ Spawned \in SUBSET Goroutines
  BY DEF Done, Spawned
<1>2. IsFiniteSet(Spawned) /\ Cardinality(Done) = Cardinality(Spawned)
  BY <1>1, GoroutinesFinite, FS_Subset DEF Inductive, Counted
<1>3. Done = Spawned
  BY <1>1, <1>2, FS_Subset
<1> QED BY <1>3 DEF Done, Spawned

\* After the receive loop no compile goroutine is in flight.
LEMMA QuietStep ==
  ASSUME Inductive, [Next]_vars
  PROVE  NothingInFlight'
<1> USE DEF NothingInFlight
<1>0. NothingInFlight /\ TypeOK /\ SlotsHeld /\ AnswerLast
  BY DEF Inductive
<1>1. CASE \E g \in Goroutines : CompileFile(g)
  BY <1>0, <1>1, CompileFileStep
<1>2. CASE Start
  BY <1>0, <1>2, StartStep DEF AnswerLast, NoAnswer
<1>3. CASE \E g \in Goroutines : ReceiveNil(g) \/ ReceiveError(g)
  BY <1>0, <1>3 DEF ReceiveNil, ReceiveError, Receiving, AnswerLast, NoAnswer
<1>4. CASE \E g \in Goroutines : ReceiveModule(g)
  <2> PICK g \in Goroutines : ReceiveModule(g)
    BY <1>4
  <2>1. answer.error = "pending" /\ main = "receive"
    BY <1>0, ReceiveModuleStep DEF AnswerLast, NoAnswer
  <2> QED BY <2>1, ReceiveModuleStep DEF Failed
<1>5. CASE Elsewhere
  <2>1. pc' = pc
    BY <1>5 DEF Elsewhere, fileVars
  <2>2. CASE main' = "link" \/ answer'.error = "none"
    <3>1. \/ main = "link" \/ answer.error = "none"
          \/ main = "receive" /\ x = expectedResults
      BY <1>5, <2>2, ElsewhereKinds
    <3> QED BY <1>0, <2>1, <3>1, AllReceived
  <2> QED BY <2>2
<1> QED BY <1>1, <1>2, <1>3, <1>4, <1>5, StepKinds

-----------------------------------------------------------------------------
(* Results, and who may be relied on for a file.                           *)

\* A goroutine has its result when it leaves compileFile and not before.
LEMMA ResultStep ==
  ASSUME Inductive, [Next]_vars
  PROVE  ResultWhenPast'
<1> USE DEF ResultWhenPast
<1>0. ResultWhenPast /\ TypeOK
  BY DEF Inductive
<1>1. CASE \E g \in Goroutines : CompileFile(g)
  <2> PICK g \in Goroutines : CompileFile(g)
    BY <1>1
  <2>1. result[g] # "none" <=> pc[g] \in {"unlock", "send", "done"}
    BY <1>0
  <2>2. result'[g] # "none" <=> pc'[g] \in {"unlock", "send", "done"}
    BY <1>0, <2>1 DEF TypeOK, CompileFile, Lock, LoadHit, LoadMiss, Store,
       CompileFileOk, CompileFileError, CompileFileLoops, Collect, Unlock
  <2>3. \A h \in Goroutines \ {g} : pc'[h] = pc[h] /\ result'[h] = result[h]
    BY <1>0, CompileFileStep DEF TypeOK, Inductive
  <2> QED BY <1>0, <2>2, <2>3
<1>2. CASE Start
  BY <1>0, <1>2, StartStep
<1>3. CASE \E g \in Goroutines : ReceiveNil(g) \/ ReceiveError(g)
  BY <1>0, <1>3 DEF ReceiveNil, ReceiveError, Receiving, TypeOK
<1>4. CASE \E g \in Goroutines : ReceiveModule(g)
  BY <1>0, <1>4, ReceiveModuleStep
<1>5. CASE Elsewhere
  BY <1>0, <1>5 DEF Elsewhere, fileVars
<1> QED BY <1>1, <1>2, <1>3, <1>4, <1>5, StepKinds

\* Once there is a result it stays, and what a goroutine has passed in
\* compileFile it has passed for good.
LEMMA ResultsKept ==
  ASSUME Inductive, [Next]_vars, NEW h \in Goroutines
  PROVE  /\ result[h] # "none" => result'[h] = result[h]
         /\ pc[h] = "compile" =>
               pc'[h] \in {"compile", "loops", "collect"} \/ result'[h] = "error"
         /\ pc[h] = "loops" => pc'[h] = "loops"
         /\ pc[h] = "collect" => pc'[h] = "collect" \/ result'[h] \in {"module", "error"}
         /\ pc[h] = "done" => pc'[h] = "done"
<1>0. ResultWhenPast /\ TypeOK
  BY DEF Inductive
<1>1. CASE \E g \in Goroutines : CompileFile(g)
  <2> PICK g \in Goroutines : CompileFile(g)
    BY <1>1
  <2>1. CASE h = g
    BY <1>0, <2>1 DEF ResultWhenPast, TypeOK, CompileFile, Lock, LoadHit, LoadMiss,
       Store, CompileFileOk, CompileFileError, CompileFileLoops, Collect, Unlock
  <2>2. CASE h # g
    BY <1>0, <2>2, CompileFileStep DEF TypeOK, Inductive
  <2> QED BY <2>1, <2>2
<1>2. CASE Start
  BY <1>2, StartStep
<1>3. CASE \E g \in Goroutines : ReceiveNil(g) \/ ReceiveError(g)
  BY <1>0, <1>3 DEF ReceiveNil, ReceiveError, Receiving, TypeOK
<1>4. CASE \E g \in Goroutines : ReceiveModule(g)
  BY <1>4, ReceiveModuleStep
<1>5. CASE Elsewhere
  BY <1>5 DEF Elsewhere, fileVars
<1> QED BY <1>1, <1>2, <1>3, <1>4, <1>5, StepKinds

\* loaded only grows, and by the files of goroutines that will have a result.
LEMMA LoadedKept ==
  ASSUME Inductive, [Next]_vars
  PROVE  /\ loaded \subseteq loaded'
         /\ \A f \in loaded' \ loaded : \E g \in Goroutines :
               g.file = f /\ pc'[g] = "compile"
<1>0. TypeOK
  BY DEF Inductive
<1>1. CASE \E g \in Goroutines : CompileFile(g)
  BY <1>0, <1>1 DEF TypeOK, CompileFile, Lock, LoadHit, LoadMiss, Store,
     CompileFileOk, CompileFileError, CompileFileLoops, Collect, Unlock
<1>2. CASE Start
  BY <1>2, StartStep
<1>3. CASE \E g \in Goroutines : ReceiveNil(g) \/ ReceiveError(g)
  BY <1>3 DEF ReceiveNil, ReceiveError
<1>4. CASE \E g \in Goroutines : ReceiveModule(g)
  BY <1>4, ReceiveModuleStep
<1>5. CASE Elsewhere
  BY <1>5 DEF Elsewhere, fileVars
<1> QED BY <1>1, <1>2, <1>3, <1>4, <1>5, StepKinds

\* A file that is marked loaded stays somebody's.
LEMMA OwnerStep ==
  ASSUME Inductive, [Next]_vars
  PROVE  LoadedHasOwner'
<1> SUFFICES ASSUME NEW f \in loaded'
             PROVE  \E g \in Goroutines :
                      /\ g.file = f
                      /\ \/ pc'[g] \in {"compile", "loops", "collect"}
                         \/ result'[g] \in {"module", "error"}
  BY DEF LoadedHasOwner
<1>1. CASE f \in loaded
  <2> PICK g \in Goroutines :
        /\ g.file = f
        /\ pc[g] \in {"compile", "loops", "collect"} \/ result[g] \in {"module", "error"}
    BY <1>1 DEF Inductive, LoadedHasOwner
  <2> QED BY ResultsKept
<1>2. CASE f \notin loaded
  BY <1>2, LoadedKept
<1> QED BY <1>1, <1>2

\* Where a new result comes from: nil from a hit in loaded, a module from a
\* collect() that found no entry for the file.
LEMMA NewResult ==
  ASSUME Inductive, [Next]_vars, NEW g \in Goroutines, result'[g] # result[g]
  PROVE  /\ result'[g] = "nil" => g.file \in loaded
         /\ result'[g] = "module" =>
              /\ Collect(g)
              /\ ~CollectFails(symbols, ModuleOf(g.file), reported)
              /\ UNCHANGED input
<1>0. TypeOK
  BY DEF Inductive
<1>1. CASE \E k \in Goroutines : CompileFile(k)
  <2> PICK k \in Goroutines : CompileFile(k)
    BY <1>1
  <2>1. k = g
    BY <1>0, CompileFileStep DEF Inductive
  <2>2. CASE LoadHit(g)
    BY <1>0, <2>1, <2>2 DEF LoadHit, TypeOK
  <2>3. CASE CompileFileError(g)
    BY <1>0, <2>1, <2>3 DEF CompileFileError, CompileFileLoops, TypeOK
  <2>4. CASE Collect(g)
    BY <1>0, <2>1, <2>4 DEF Collect, TypeOK, CompileFile
  <2>5. CASE \/ Lock(g) \/ LoadMiss(g) \/ Store(g) \/ CompileFileOk(g)
             \/ CompileFileLoops(g) \/ Unlock(g)
    BY <2>5 DEF Lock, LoadMiss, Store, CompileFileOk, CompileFileLoops, Unlock
  <2> QED BY <2>1, <2>2, <2>3, <2>4, <2>5 DEF CompileFile
<1>2. CASE Start
  BY <1>2, StartStep
<1>3. CASE \E k \in Goroutines : ReceiveNil(k) \/ ReceiveError(k)
  BY <1>3 DEF ReceiveNil, ReceiveError
<1>4. CASE \E k \in Goroutines : ReceiveModule(k)
  BY <1>4, ReceiveModuleStep
<1>5. CASE Elsewhere
  BY <1>5 DEF Elsewhere, fileVars
<1> QED BY <1>1, <1>2, <1>3, <1>4, <1>5, StepKinds

\* Only the files of others are answered with nil.
LEMMA NilStep ==
  ASSUME Inductive, [Next]_vars
  PROVE  NilWasLoaded'
<1> SUFFICES ASSUME NEW g \in Goroutines, result'[g] = "nil"
             PROVE  g.file \in loaded'
  BY DEF NilWasLoaded
<1>1. g.file \in loaded
  BY NewResult DEF Inductive, NilWasLoaded
<1> QED BY <1>1, LoadedKept

\* collect() only adds to the table.
LEMMA CollectAdds ==
  ASSUME NEW t, NEW m
  PROVE  /\ t.uris \subseteq CollectTable(t, m).uris
         /\ t.modules \subseteq CollectTable(t, m).modules
BY DEF CollectTable

\* Neither the symbol table nor the request loses anything.
LEMMA SymbolsKept ==
  ASSUME Inductive, [Next]_vars
  PROVE  /\ symbols.uris \subseteq symbols'.uris
         /\ symbols.modules \subseteq symbols'.modules
         /\ input' = input
<1>0. TypeOK
  BY DEF Inductive
<1>1. CASE \E g \in Goroutines : CompileFile(g)
  <2> PICK g \in Goroutines : CompileFile(g)
    BY <1>1
  <2>1. symbols' = symbols \/ symbols' = CollectTable(symbols, ModuleOf(g.file))
    BY DEF CompileFile, Lock, LoadHit, LoadMiss, Store, CompileFileOk,
       CompileFileError, CompileFileLoops, Collect, Unlock
  <2>2. input' = input
    BY DEF CompileFile
  <2> QED BY <2>1, <2>2, CollectAdds
<1>2. CASE Start
  BY <1>2, StartStep
<1>3. CASE \E g \in Goroutines : ReceiveNil(g) \/ ReceiveError(g)
  BY <1>3 DEF ReceiveNil, ReceiveError
<1>4. CASE \E g \in Goroutines : ReceiveModule(g)
  BY <1>4, ReceiveModuleStep
<1>5. CASE Elsewhere
  BY <1>5 DEF Elsewhere, fileVars
<1> QED BY <1>1, <1>2, <1>3, <1>4, <1>5, StepKinds

\* A collect() that does not fail makes the entry of its module.
LEMMA CollectMakesEntry ==
  ASSUME NEW t, NEW m, NEW r, ~CollectFails(t, m, r)
  PROVE  /\ m.uri \notin t.uris
         /\ m.uri \in CollectTable(t, m).uris
         /\ [uri |-> m.uri, uid |-> m.uid, pkg |-> m.pkg] \in CollectTable(t, m).modules
BY DEF CollectFails, CollectTable, AlreadyCollected

\* A module to deliver is in the table, and the goroutine that put it there is
\* the only one with that module.
LEMMA CollectedStep ==
  ASSUME Inductive, [Next]_vars
  PROVE  ModuleIsCollected' /\ OneModulePerFile'
<1>0. ModuleIsCollected /\ OneModulePerFile /\ TypeOK
  BY DEF Inductive
<1>1. ASSUME NEW g \in Goroutines, result'[g] = "module", result[g] # "module"
      PROVE  /\ g.file \notin symbols.uris
             /\ g.file \in symbols'.uris
             /\ [uri |-> g.file, uid |-> ModuleOf(g.file)'.uid,
                 pkg |-> ModuleOf(g.file)'.pkg] \in symbols'.modules
             /\ \A h \in Goroutines \ {g} : result'[h] = result[h]
  <2>1. Collect(g) /\ ~CollectFails(symbols, ModuleOf(g.file), reported) /\ input' = input
    BY <1>1, NewResult
  <2>2. ModuleOf(g.file).uri = g.file
    BY <1>0, ModuleHasItsURI DEF Goroutines
  <2>3. ModuleOf(g.file)' = ModuleOf(g.file)
    BY <2>1 DEF ModuleOf
  <2>4. symbols' = CollectTable(symbols, ModuleOf(g.file))
    BY <2>1 DEF Collect
  <2>5. \A h \in Goroutines \ {g} : result'[h] = result[h]
    BY <1>0, <2>1 DEF Collect, TypeOK
  <2> QED BY <2>1, <2>2, <2>3, <2>4, <2>5, CollectMakesEntry
<1>2. ModuleIsCollected'
  <2> SUFFICES ASSUME NEW g \in Goroutines, result'[g] = "module"
               PROVE  /\ g.file \in symbols'.uris
                      /\ [uri |-> g.file, uid |-> ModuleOf(g.file)'.uid,
                          pkg |-> ModuleOf(g.file)'.pkg] \in symbols'.modules
    BY DEF ModuleIsCollected
  <2>1. CASE result[g] = "module"
    <3>1. ModuleOf(g.file)' = ModuleOf(g.file)
      BY SymbolsKept DEF ModuleOf
    <3> QED BY <1>0, <2>1, <3>1, SymbolsKept DEF ModuleIsCollected
  <2>2. CASE result[g] # "module"
    BY <1>1, <2>2
  <2> QED BY <2>1, <2>2
<1>3. OneModulePerFile'
  <2> SUFFICES ASSUME NEW g \in Goroutines, NEW h \in Goroutines,
                      g # h, g.file = h.file,
                      result'[g] = "module", result'[h] = "module"
               PROVE  FALSE
    BY DEF OneModulePerFile
  <2>1. CASE result[g] = "module" /\ result[h] = "module"
    BY <1>0, <2>1 DEF OneModulePerFile
  <2>2. CASE result[g] # "module"
    BY <1>0, <1>1, <2>2 DEF ModuleIsCollected
  <2>3. CASE result[h] # "module"
    BY <1>0, <1>1, <2>3 DEF ModuleIsCollected
  <2> QED BY <2>1, <2>2, <2>3
<1> QED BY <1>2, <1>3

-----------------------------------------------------------------------------
(* The modules received and the goroutines started.                        *)

\* The modules of the caller are those delivered to it.
LEMMA DeliveredStep ==
  ASSUME Inductive, [Next]_vars
  PROVE  ModulesWereDelivered' /\ DeliveredAreModules'
<1> USE DEF DeliveredAreModules, Healthily
<1>0. ModulesWereDelivered /\ DeliveredAreModules /\ TypeOK /\ AnswerLast
  BY DEF Inductive
<1>1. ModulesWereDelivered'
  <2> SUFFICES ASSUME NEW f \in modules'
               PROVE  \E g \in Goroutines :
                        g.file = f /\ pc'[g] = "done" /\ result'[g] = "module"
    BY DEF ModulesWereDelivered
  <2>1. CASE f \in modules
    BY <1>0, <2>1, ResultsKept DEF ModulesWereDelivered
  <2>2. CASE f \notin modules
    <3>1. \E g \in Goroutines : ReceiveModule(g)
      BY <2>2, StepKinds DEF CompileFile, Start, ReceiveNil, ReceiveError, Elsewhere
    <3> QED BY <2>2, <3>1, ReceiveModuleStep
  <2> QED BY <2>1, <2>2
<1>2. DeliveredAreModules'
  <2>1. CASE \E g \in Goroutines : CompileFile(g)
    <3> PICK g \in Goroutines : CompileFile(g)
      BY <2>1
    <3>1. \A h \in Goroutines : pc'[h] = "done" => pc[h] = "done" /\ result'[h] = result[h]
      BY <1>0, CompileFileStep, ResultsKept DEF TypeOK, Inductive
    <3> QED BY <1>0, <3>1 DEF CompileFile
  <2>2. CASE Start
    BY <2>2, StartStep
  <2>3. CASE \E g \in Goroutines : ReceiveNil(g)
    BY <1>0, <2>3 DEF ReceiveNil, Receiving, TypeOK
  <2>4. CASE \E g \in Goroutines : ReceiveModule(g)
    <3> PICK g \in Goroutines : ReceiveModule(g)
      BY <2>4
    <3>1. Healthily
      BY ReceiveModuleStep
    <3>2. \A h \in Goroutines : pc'[h] = "done" => h = g \/ pc[h] = "done"
      BY ReceiveModuleStep
    <3> QED BY <1>0, <3>1, <3>2, ReceiveModuleStep
  <2>5. CASE \E g \in Goroutines : ReceiveError(g)
    BY <1>0, <2>5 DEF ReceiveError, Receiving, AnswerLast, NoAnswer
  <2>6. CASE Elsewhere
    <3>1. Healthily' => Healthily
      BY <2>6, ElsewhereKinds
    <3>2. pc' = pc /\ result' = result /\ modules' = modules
      BY <2>6 DEF Elsewhere, fileVars
    <3> QED BY <1>0, <3>1, <3>2
  <2> QED BY <2>1, <2>2, <2>3, <2>4, <2>5, <2>6, StepKinds
<1> QED BY <1>1, <1>2

\* What a file starts depends on the request alone.
LEMMA StartedSame ==
  ASSUME input' = input, NEW by, NEW ts
  PROVE  StartedBy(by, ts)' = StartedBy(by, ts)
BY DEF StartedBy

\* Every goroutine stems from a target or from an import of a module received.
LEMMA OriginStep ==
  ASSUME Inductive, [Next]_vars
  PROVE  Origin'
<1> USE DEF Origin
<1>0. Origin /\ TypeOK /\ input' = input
  BY SymbolsKept DEF Inductive
<1>1. modules \subseteq modules'
  BY StepKinds, ReceiveModuleStep, StartStep
     DEF CompileFile, ReceiveNil, ReceiveError, Elsewhere
<1>2. ASSUME NEW g \in Goroutines, pc'[g] # "none", pc[g] = "none"
      PROVE  \/ g \in StartedBy(Main, input.targets) \cup {BuiltinGoroutine}
             \/ g.by \in modules' /\ g \in StartedBy(g.by, Imports(input, g.by))
  <2>1. CASE \E h \in Goroutines : CompileFile(h)
    BY <1>0, <1>2, <2>1, CompileFileStep DEF TypeOK, Inductive
  <2>2. CASE Start
    BY <1>2, <2>2, StartStep
  <2>3. CASE \E h \in Goroutines : ReceiveNil(h) \/ ReceiveError(h)
    BY <1>0, <1>2, <2>3 DEF ReceiveNil, ReceiveError, Receiving, TypeOK
  <2>4. CASE \E h \in Goroutines : ReceiveModule(h)
    <3> PICK h \in Goroutines : ReceiveModule(h)
      BY <2>4
    <3>1. g \in Fresh(h)
      BY <1>2, ReceiveModuleStep
    <3>2. g \in StartedBy(h.file, Imports(input, h.file)) /\ g.by = h.file
      BY <3>1, StartedIsOpened DEF Fresh
    <3> QED BY <3>2, ReceiveModuleStep
  <2>5. CASE Elsewhere
    BY <1>2, <2>5 DEF Elsewhere, fileVars
  <2> QED BY <2>1, <2>2, <2>3, <2>4, <2>5, StepKinds
<1>3. ASSUME NEW g \in Goroutines, pc'[g] # "none"
      PROVE  \/ g = BuiltinGoroutine
             \/ g \in StartedBy(Main, input.targets)
             \/ g.by \in modules' /\ g \in StartedBy(g.by, Imports(input, g.by))
  <2>1. CASE pc[g] = "none"
    BY <1>2, <1>3, <2>1
  <2>2. CASE pc[g] # "none"
    BY <1>0, <1>1, <2>2
  <2> QED BY <2>1, <2>2
<1>4. \A by, ts : StartedBy(by, ts)' = StartedBy(by, ts)
  BY <1>0, StartedSame
<1> QED BY <1>0, <1>3, <1>4 DEF StartedBy

\* A goroutine that was started stays started.
LEMMA SpawnedKept ==
  ASSUME Inductive, [Next]_vars, NEW h \in Goroutines, pc[h] # "none"
  PROVE  pc'[h] # "none"
<1>0. TypeOK
  BY DEF Inductive
<1>1. CASE \E g \in Goroutines : CompileFile(g)
  BY <1>0, <1>1, CompileFileStep DEF TypeOK, Inductive
<1>2. CASE Start
  BY <1>2, StartStep
<1>3. CASE \E g \in Goroutines : ReceiveNil(g) \/ ReceiveError(g)
  BY <1>0, <1>3 DEF ReceiveNil, ReceiveError, TypeOK
<1>4. CASE \E g \in Goroutines : ReceiveModule(g)
  BY <1>4, ReceiveModuleStep
<1>5. CASE Elsewhere
  BY <1>5 DEF Elsewhere, fileVars
<1> QED BY <1>1, <1>2, <1>3, <1>4, <1>5, StepKinds

\* Every target and every import of a module received has been started.
LEMMA AllStartedStep ==
  ASSUME Inductive, [Next]_vars
  PROVE  AllStarted'
<1> USE DEF AllStarted, Healthily
<1>0. AllStarted /\ TypeOK /\ AnswerLast /\ input' = input
  BY SymbolsKept DEF Inductive
<1>1. \A by, ts : StartedBy(by, ts)' = StartedBy(by, ts)
  BY <1>0, StartedSame
<1>2. \A by, ts : StartedBy(by, ts) \subseteq Goroutines
  BY StartedAreGoroutines
<1> SUFFICES ASSUME Healthily'
             PROVE  /\ pc'[BuiltinGoroutine] # "none"
                    /\ \A g \in StartedBy(Main, input.targets) : pc'[g] # "none"
                    /\ \A f \in modules' : \A g \in StartedBy(f, Imports(input, f)) :
                          pc'[g] # "none"
  BY <1>0, <1>1 DEF StartedBy
<1>3. CASE Start
  BY <1>2, <1>3, StartStep, BuiltinGoroutineType
<1>4. CASE \E g \in Goroutines : ReceiveModule(g)
  <2> PICK g \in Goroutines : ReceiveModule(g)
    BY <1>4
  <2>1. Healthily /\ modules' = modules \cup {g.file}
    BY ReceiveModuleStep
  <2>2. Fresh(g) = StartedBy(g.file, Imports(input, g.file))
    BY ReceiveModuleStep DEF Failed
  <2>3. \A h \in StartedBy(g.file, Imports(input, g.file)) : pc'[h] # "none"
    BY <2>2, ReceiveModuleStep
  <2>4. \A h \in Goroutines : pc[h] # "none" => pc'[h] # "none"
    BY SpawnedKept
  <2> QED BY <1>0, <1>2, <2>1, <2>3, <2>4, BuiltinGoroutineType
<1>5. CASE \/ Elsewhere
           \/ \E g \in Goroutines : CompileFile(g) \/ ReceiveNil(g) \/ ReceiveError(g)
  <2>1. Healthily /\ modules' = modules
    <3>1. CASE Elsewhere
      BY <3>1, ElsewhereKinds DEF Elsewhere
    <3>2. CASE \E g \in Goroutines : CompileFile(g)
      BY <3>2 DEF CompileFile
    <3>3. CASE \E g \in Goroutines : ReceiveNil(g) \/ ReceiveError(g)
      BY <3>3 DEF ReceiveNil, ReceiveError, Receiving
    <3> QED BY <1>5, <3>1, <3>2, <3>3
  <2>2. \A h \in Goroutines : pc[h] # "none" => pc'[h] # "none"
    BY SpawnedKept
  <2> QED BY <1>0, <1>2, <2>1, <2>2, BuiltinGoroutineType
<1> QED BY <1>3, <1>4, <1>5, StepKinds

\* Reachable(input) is closed: it contains what its members import.
LEMMA ReachableIsClosed ==
  ASSUME TypeOK
  PROVE  /\ Builtin \in Reachable(input)
         /\ OpenedBy(input, input.targets) \subseteq Reachable(input)
         /\ \A f \in Reachable(input) :
               OpenedBy(input, Imports(input, f)) \subseteq Reachable(input)
<1>1. \A ts \in Targets : OpenedBy(input, ts) \subseteq Files
  <2> SUFFICES ASSUME NEW ts \in Targets, NEW f \in OpenedBy(input, ts)
               PROVE  f \in Files
    OBVIOUS
  <2>1. \E g \in StartedBy(Main, ts) : g.file = f
    BY OpenedIsStarted
  <2> QED BY <2>1, StartedAreGoroutines DEF Goroutines
<1>2. Builtin \in Reachable(input)
  BY FilesAssumption DEF Reachable, IsClosed
<1>3. OpenedBy(input, input.targets) \subseteq Reachable(input)
  BY <1>1, ImportsAreTargets DEF Reachable, IsClosed
<1>4. ASSUME NEW f \in Reachable(input)
      PROVE  OpenedBy(input, Imports(input, f)) \subseteq Reachable(input)
  <2>1. f \in Files /\ \A S \in SUBSET Files : IsClosed(input, S) => f \in S
    BY DEF Reachable
  <2>2. OpenedBy(input, Imports(input, f)) \subseteq Files
    BY <1>1, <2>1, ImportsAreTargets
  <2> QED BY <2>1, <2>2 DEF Reachable, IsClosed
<1> QED BY <1>2, <1>3, <1>4

\* Only files that the request reaches are ever compiled.
LEMMA OnlyReachableStep ==
  ASSUME Inductive, [Next]_vars
  PROVE  OnlyReachable'
<1>0. /\ OnlyReachable /\ TypeOK /\ ModulesWereDelivered /\ input' = input
      /\ Origin' /\ ModulesWereDelivered'
  BY SymbolsKept, OriginStep, DeliveredStep DEF Inductive
<1>1. Reachable(input)' = Reachable(input)
  BY <1>0
<1>2. ASSUME NEW g \in Goroutines, pc'[g] # "none", pc[g] = "none"
      PROVE  g.file \in Reachable(input)
  <2>1. \/ g = BuiltinGoroutine
        \/ g \in StartedBy(Main, input.targets)
        \/ g.by \in modules' /\ g \in StartedBy(g.by, Imports(input, g.by))
    BY <1>0, <1>2 DEF Origin, StartedBy
  <2>2. CASE g = BuiltinGoroutine
    BY <2>2, ReachableIsClosed, <1>0 DEF BuiltinGoroutine
  <2>3. CASE g \in StartedBy(Main, input.targets)
    BY <2>3, ReachableIsClosed, StartedIsOpened, <1>0
  <2>4. CASE g.by \in modules' /\ g \in StartedBy(g.by, Imports(input, g.by))
    <3>1. PICK h \in Goroutines : h.file = g.by /\ pc'[h] = "done"
      BY <1>0, <2>4 DEF ModulesWereDelivered
    <3>2. pc[h] # "none"
      <4>1. ResultWhenPast' /\ ResultWhenPast
        BY ResultStep DEF Inductive
      <4>2. result'[h] # "none"
        BY <3>1, <4>1 DEF ResultWhenPast
      <4>3. CASE result'[h] = result[h]
        BY <4>1, <4>2, <4>3 DEF ResultWhenPast
      <4>4. CASE result'[h] # result[h]
        <5>1. \E k \in Goroutines : CompileFile(k)
          BY <4>4, StepKinds, ReceiveModuleStep, StartStep
             DEF ReceiveNil, ReceiveError, Elsewhere, fileVars
        <5> QED BY <3>1, <5>1, <1>0, CompileFileStep DEF TypeOK, Inductive
      <4> QED BY <4>3, <4>4
    <3>3. g.by \in Reachable(input)
      BY <1>0, <3>1, <3>2 DEF OnlyReachable
    <3> QED BY <1>0, <2>4, <3>3, ReachableIsClosed, StartedIsOpened
  <2> QED BY <2>1, <2>2, <2>3, <2>4
<1> QED BY <1>0, <1>1, <1>2 DEF OnlyReachable

-----------------------------------------------------------------------------
(* When the receive loop ends, the modules are the reachable files.        *)

\* When nothing is in flight and nothing failed, the file of every goroutine
\* is among the modules: a nil is the promise of another goroutine's module.
LEMMA SpawnedAreModules ==
  ASSUME Inductive, Healthily, \A g \in Goroutines : pc[g] \in {"none", "done"},
         NEW g \in Goroutines, pc[g] # "none"
  PROVE  g.file \in modules
<1>1. pc[g] = "done" /\ result[g] \in {"nil", "module", "error"}
  BY DEF Inductive, ResultWhenPast, TypeOK
<1>2. result[g] # "error"
  BY <1>1 DEF Inductive, DeliveredAreModules
<1>3. CASE result[g] = "module"
  BY <1>1, <1>3 DEF Inductive, DeliveredAreModules
<1>4. CASE result[g] = "nil"
  <2>1. g.file \in loaded
    BY <1>4 DEF Inductive, NilWasLoaded
  <2>2. PICK h \in Goroutines :
          /\ h.file = g.file
          /\ pc[h] \in {"compile", "loops", "collect"} \/ result[h] \in {"module", "error"}
    BY <2>1 DEF Inductive, LoadedHasOwner
  <2>3. pc[h] = "done" /\ result[h] \in {"module", "error"}
    BY <2>2 DEF Inductive, ResultWhenPast
  <2>4. result[h] = "module" /\ h.file \in modules
    BY <2>3 DEF Inductive, DeliveredAreModules
  <2> QED BY <2>2, <2>4
<1> QED BY <1>1, <1>2, <1>3, <1>4

\* So the modules are closed under imports and hold what the request reaches.
LEMMA ModulesAreReachable ==
  ASSUME Inductive, Healthily, \A g \in Goroutines : pc[g] \in {"none", "done"}
  PROVE  /\ modules = Reachable(input)
         /\ Builtin \in modules
         /\ \A f \in modules : OpenedBy(input, Imports(input, f)) \subseteq modules
<1>0. TypeOK /\ AllStarted /\ modules \subseteq Files
  BY DEF Inductive, TypeOK
<1>1. Builtin \in modules
  BY <1>0, BuiltinGoroutineType, SpawnedAreModules DEF AllStarted, BuiltinGoroutine
<1>2. OpenedBy(input, input.targets) \subseteq modules
  <2> SUFFICES ASSUME NEW f \in OpenedBy(input, input.targets)
               PROVE  f \in modules
    OBVIOUS
  <2>1. PICK g \in StartedBy(Main, input.targets) : g.file = f
    BY <1>0, OpenedIsStarted, ImportsAreTargets
  <2>2. g \in Goroutines /\ pc[g] # "none"
    BY <1>0, StartedAreGoroutines DEF AllStarted
  <2> QED BY <2>1, <2>2, SpawnedAreModules
<1>3. ASSUME NEW m \in modules
      PROVE  OpenedBy(input, Imports(input, m)) \subseteq modules
  <2> SUFFICES ASSUME NEW f \in OpenedBy(input, Imports(input, m))
               PROVE  f \in modules
    OBVIOUS
  <2>1. m \in Files /\ Imports(input, m) \in Targets
    BY <1>0, ImportsAreTargets
  <2>2. PICK g \in StartedBy(m, Imports(input, m)) : g.file = f
    BY <1>0, <2>1, OpenedIsStarted
  <2>3. g \in Goroutines /\ pc[g] # "none"
    BY <1>0, StartedAreGoroutines DEF AllStarted
  <2> QED BY <2>2, <2>3, SpawnedAreModules
<1>4. Reachable(input) \subseteq modules
  BY <1>0, <1>1, <1>2, <1>3 DEF Reachable, IsClosed
<1>5. modules \subseteq Reachable(input)
  BY DEF Inductive, ModulesWereDelivered, OnlyReachable
<1> QED BY <1>1, <1>3, <1>4, <1>5

\* The symbols of a module received are in the table.
LEMMA CollectedModules ==
  ASSUME Inductive, NEW f \in modules
  PROVE  [uri |-> f, uid |-> ModuleOf(f).uid, pkg |-> ModuleOf(f).pkg] \in symbols.modules
BY DEF Inductive, ModulesWereDelivered, ModuleIsCollected

-----------------------------------------------------------------------------
(* Linking.                                                                *)

\* Links start together, when the receive loop is over.
LEMMA LinkStarts ==
  ASSUME Inductive, [Next]_vars, NEW f \in Files, linkpc[f] = "none", linkpc'[f] # "none"
  PROVE  StartLink /\ f \in modules
<1>0. TypeOK
  BY DEF Inductive
<1>1. CASE \E g \in Goroutines : CompileFile(g) \/ ReceiveNil(g) \/ ReceiveModule(g)
                                   \/ ReceiveError(g)
  BY <1>1 DEF CompileFile, ReceiveNil, ReceiveModule, ReceiveError, linkVars
<1>2. CASE Start \/ Panics \/ Finish \/ ReturnError \/ ReturnCancelled \/ Cancel
             \/ UNCHANGED vars
  BY <1>2, PanicStep DEF Start, Finish, ReturnError, ReturnCancelled, Cancel, vars, linkVars
<1>3. CASE \E m \in Files : Link(m) \/ ReceiveLinked(m)
  BY <1>0, <1>3 DEF Link, Resolve, CheckReported, ReceiveLinked, TypeOK
<1>4. CASE StartLink
  BY <1>4 DEF StartLink
<1> QED BY <1>1, <1>2, <1>3, <1>4 DEF Next, MainStep, Panics

\* A link finds the symbols of its module and of all it imports.
LEMMA LinkSeesStep ==
  ASSUME Inductive, [Next]_vars
  PROVE  LinkSeesImports'
<1>0. LinkSeesImports /\ TypeOK
  BY DEF Inductive
<1>1. input' = input /\ symbols.modules \subseteq symbols'.modules
  BY SymbolsKept
<1> SUFFICES ASSUME NEW f \in Files, linkpc'[f] # "none",
                    NEW m \in {f, Builtin} \cup OpenedBy(input, Imports(input, f))
             PROVE  [uri |-> m, uid |-> ModuleOf(m).uid, pkg |-> ModuleOf(m).pkg]
                       \in symbols.modules
  BY <1>1 DEF LinkSeesImports, ModuleOf
<1>2. CASE linkpc[f] # "none"
  BY <1>0, <1>2 DEF LinkSeesImports
<1>3. CASE linkpc[f] = "none"
  <2>1. StartLink /\ f \in modules
    BY <1>3, LinkStarts
  <2>2. Healthily /\ \A g \in Goroutines : pc[g] \in {"none", "done"}
    BY <2>1, AllReceived DEF StartLink, Healthily
  <2>3. m \in modules
    BY <2>1, <2>2, ModulesAreReachable
  <2> QED BY <2>3, CollectedModules
<1> QED BY <1>2, <1>3

\* The link loop counts the modules it waits for and those it has.
LEMMA LinkCountedStep ==
  ASSUME Inductive, [Next]_vars
  PROVE  LinkCounted'
<1> USE DEF LinkCounted, Linked
<1>0. LinkCounted /\ TypeOK /\ AnswerLast
  BY DEF Inductive
<1>1. CASE \E g \in Goroutines : CompileFile(g) \/ ReceiveNil(g) \/ ReceiveModule(g)
                                   \/ ReceiveError(g)
  <2>1. UNCHANGED linkVars
    BY <1>1 DEF CompileFile, ReceiveNil, ReceiveModule, ReceiveError
  <2>2. \/ main' = main /\ main \in {"start", "receive"}
        \/ UNCHANGED <<main, x, expectedResults, modules>>
        \/ main' \in {"failing", "returned"}
    BY <1>1 DEF CompileFile, ReceiveNil, ReceiveModule, ReceiveError, Receiving, loopVars
  <2> QED BY <1>0, <2>1, <2>2 DEF linkVars
<1>2. CASE Start \/ Panics \/ Finish \/ ReturnError \/ ReturnCancelled \/ Cancel
             \/ UNCHANGED vars
  BY <1>0, <1>2, PanicStep DEF Start, Finish, ReturnError, ReturnCancelled, Cancel, vars,
              linkVars, loopVars
<1>3. CASE \E f \in Files : Link(f)
  <2> PICK f \in Files : Link(f)
    BY <1>3
  <2>1. UNCHANGED <<main, x, expectedResults, modules, linked_modules>>
    BY DEF Link, Resolve, CheckReported, loopVars
  <2>2. \E p \in {"check", "send"} :
           linkpc[f] \in {"resolve", "check"} /\ linkpc' = [linkpc EXCEPT ![f] = p]
    BY DEF Link, Resolve, CheckReported
  <2>3. Linked' = Linked /\ \A m \in Files : linkpc'[m] = "none" <=> linkpc[m] = "none"
    BY <1>0, <2>2 DEF TypeOK
  <2> QED BY <1>0, <2>1, <2>3
<1>4. CASE \E f \in Files : ReceiveLinked(f)
  <2> PICK f \in Files : ReceiveLinked(f)
    BY <1>4
  <2>1. f \notin Linked /\ Linked' = Linked \cup {f}
        /\ \A m \in Files : linkpc'[m] = "none" <=> linkpc[m] = "none"
    BY <1>0 DEF ReceiveLinked, TypeOK
  <2>2. IsFiniteSet(Linked)
    BY FilesAssumption, FS_Subset
  <2>3. Cardinality(Linked') = Cardinality(Linked) + 1
    BY <2>1, <2>2, FS_AddElement
  <2> QED BY <1>0, <2>1, <2>3 DEF ReceiveLinked
<1>5. CASE StartLink
  <2>1. Linked' = {}
    BY <1>5 DEF StartLink
  <2>2. Cardinality(Linked') = 0
    BY <2>1, FS_EmptySet
  <2> QED BY <1>0, <1>5, <2>1, <2>2 DEF StartLink
<1> QED BY <1>1, <1>2, <1>3, <1>4, <1>5 DEF Next, MainStep, Panics

-----------------------------------------------------------------------------
(* The answer.                                                             *)

\* When the link loop ends, every module is linked.
LEMMA AllLinked ==
  ASSUME Inductive, main = "link", x = expectedResults
  PROVE  linked_modules = modules
<1>1. /\ Linked \subseteq modules /\ modules \subseteq Files
      /\ linked_modules = Linked
      /\ Cardinality(Linked) = Cardinality(modules)
  BY DEF Inductive, LinkCounted, Linked, TypeOK
<1>2. IsFiniteSet(modules)
  BY <1>1, FilesAssumption, FS_Subset
<1> QED BY <1>1, <1>2, FS_Subset

\* An answer without an error holds the reachable files, and stays.
LEMMA AnswerStep ==
  ASSUME Inductive, [Next]_vars
  PROVE  AnswerLast' /\ ImageIsReachable'
<1> USE DEF AnswerLast
<1>0. AnswerLast /\ ImageIsReachable /\ TypeOK /\ input' = input
  BY SymbolsKept DEF Inductive
<1>1. AnswerLast'
  BY <1>0, PanicStep DEF Next, MainStep, Panics, vars, Start, ReceiveNil, ReceiveModule,
     ReceiveError, ReceiveLinked, StartLink, Finish, ReturnError, ReturnCancelled,
     CompileFile, Link, Cancel, Receiving
<1>2. CASE \E g \in Goroutines : CompileFile(g) \/ ReceiveNil(g) \/ ReceiveError(g)
  BY <1>0, <1>1, <1>2 DEF CompileFile, ReceiveNil, ReceiveError, ImageIsReachable
<1>3. CASE Start
  BY <1>0, <1>1, <1>3, StartStep DEF ImageIsReachable
<1>4. CASE \E g \in Goroutines : ReceiveModule(g)
  BY <1>0, <1>1, <1>4, ReceiveModuleStep DEF ImageIsReachable, Failed
<1>5. CASE Elsewhere
  <2>1. \/ answer' = answer
        \/ answer'.error # "none"
        \/ main = "link" /\ x = expectedResults /\ answer'.image = linked_modules
    BY <1>5, ElsewhereKinds
  <2>2. CASE main = "link" /\ x = expectedResults /\ answer'.image = linked_modules
    <3>1. linked_modules = modules
      BY <2>2, AllLinked
    <3>2. Healthily /\ \A g \in Goroutines : pc[g] \in {"none", "done"}
      BY <2>2 DEF Healthily, Inductive, NothingInFlight
    <3> QED BY <1>0, <1>1, <2>2, <3>1, <3>2, ModulesAreReachable DEF ImageIsReachable
  <2> QED BY <1>0, <1>1, <2>1, <2>2 DEF ImageIsReachable
<1> QED BY <1>1, <1>2, <1>3, <1>4, <1>5, StepKinds

\* After such an answer no link is in flight.
LEMMA LinksDoneStep ==
  ASSUME Inductive, [Next]_vars
  PROVE  LinksDone'
<1> SUFFICES ASSUME answer'.error = "none"
             PROVE  main' = "returned" /\ \A f \in Files : linkpc'[f] \in {"none", "done"}
  BY DEF LinksDone
<1>0. LinksDone /\ LinkCounted /\ AnswerLast /\ TypeOK
  BY DEF Inductive
<1>1. CASE Finish
  <2>1. linked_modules = modules
    BY <1>1, AllLinked DEF Finish
  <2> QED BY <1>0, <1>1, <2>1 DEF Finish, LinkCounted, Linked, linkVars
<1>2. CASE \E f \in Files : Link(f) \/ ReceiveLinked(f)
  BY <1>0, <1>2 DEF Link, Resolve, CheckReported, ReceiveLinked, LinksDone
<1>3. CASE \/ \E g \in Goroutines : CompileFile(g) \/ ReceiveNil(g) \/ ReceiveModule(g)
                                      \/ ReceiveError(g)
           \/ Start \/ StartLink \/ ReturnError \/ ReturnCancelled
           \/ Cancel \/ UNCHANGED vars
  <2>1. answer' = answer
    <3>1. ~(ReturnError \/ ReturnCancelled)
      BY DEF ReturnError, ReturnCancelled, Failed
    <3>2. \A g \in Goroutines : ReceiveModule(g) => answer' = answer
      BY DEF ReceiveModule, Failed
    <3> QED BY <1>3, <3>1, <3>2 DEF CompileFile, ReceiveNil, ReceiveError, Start,
            StartLink, Cancel, vars
  <2>2. main = "returned"
    BY <1>0, <2>1 DEF LinksDone
  <2> QED BY <1>0, <1>3, <2>1, <2>2 DEF CompileFile, ReceiveNil, ReceiveModule,
          ReceiveError, Receiving, Start, StartLink, ReturnError, ReturnCancelled, Cancel,
          vars, linkVars, LinksDone
<1>4. ~Panics
  <2>1. SUFFICES ASSUME Panics PROVE FALSE
    OBVIOUS
  <2>2. answer.error = "none" /\ \E g \in Goroutines : pc[g] = "compile"
    BY <2>1, PanicStep DEF Failed
  <2> QED BY <2>2 DEF Inductive, NothingInFlight
<1> QED BY <1>1, <1>2, <1>3, <1>4 DEF Next, MainStep, Panics

-----------------------------------------------------------------------------
(* Progress: what the call's liveness rests on, short of the scheduler.    *)

\* Only files with a sub-compiler, or of a format that lacks one, are compiled:
\* the others are dropped where they are opened.
LEMMA StartedHasKind ==
  ASSUME Inductive, NEW g \in Goroutines, pc[g] # "none"
  PROVE  input.source[g.file].kind \in {"idl", "unsupported"}
<1>0. TypeOK /\ IsInput(input) /\ g.file \in Files
  BY InputIsInput DEF Inductive, Goroutines
<1>1. CASE g = BuiltinGoroutine
  BY <1>0, <1>1 DEF IsInput, BuiltinGoroutine
<1>2. ASSUME NEW by, NEW ts, g \in StartedBy(by, ts)
      PROVE  input.source[g.file].kind # "none"
  BY <1>2 DEF StartedBy, Opened
<1>3. CASE g # BuiltinGoroutine
  <2>1. input.source[g.file].kind # "none"
    BY <1>2, <1>3 DEF Inductive, Origin
  <2> QED BY <1>0, <2>1 DEF IsInput
<1> QED BY <1>1, <1>3

\* Whoever holds a slot of the semaphore can go on, unless its parser loops.
LEMMA HolderCanCompile ==
  ASSUME Inductive, NEW g \in Holders, pc[g] # "loops", main # "crashed"
  PROVE  g \in Goroutines /\ CanCompile(g)
BY StartedHasKind DEF Holders, CanCompile

\* So when nobody in compileFile can go on no other slot is taken, and with a
\* slot to take nobody waits for one.
LEMMA SlotsFree ==
  ASSUME Inductive
  PROVE  SlotsComeBack
<1> SUFFICES ASSUME main # "crashed", \A g \in Goroutines : ~CanCompile(g)
             PROVE  /\ semaphore = Cardinality(Looping)
                    /\ \A g \in Goroutines :
                          \/ pc[g] \in {"none", "loops", "send", "done"}
                          \/ pc[g] = "lock" /\ Cardinality(Looping) = MaxConcurrency
  BY DEF SlotsComeBack
<1>1. Holders = Looping
  <2>1. Looping \subseteq Holders
    BY DEF Looping, Holders
  <2>2. ASSUME NEW g \in Holders PROVE g \in Looping
    BY HolderCanCompile DEF Looping, Holders
  <2> QED BY <2>1, <2>2
<1>2. semaphore = Cardinality(Looping) /\ semaphore \in 0..MaxConcurrency
  BY <1>1 DEF Inductive, SlotsHeld, TypeOK
<1>3. ASSUME NEW g \in Goroutines
      PROVE  \/ pc[g] \in {"none", "loops", "send", "done"}
             \/ pc[g] = "lock" /\ Cardinality(Looping) = MaxConcurrency
  <2>1. pc[g] \in PCs /\ (g \in Holders => pc[g] = "loops")
    BY <1>1 DEF Looping, Inductive, TypeOK
  <2>2. pc[g] = "lock" => semaphore = MaxConcurrency
    BY <1>2, MaxConcurrencyAssumption DEF CanCompile
  <2> QED BY <1>2, <2>1, <2>2 DEF PCs, Holders
<1> QED BY <1>2, <1>3

\* As long as the receive loop waits, a goroutine it counted can go on or has a
\* result to offer.
LEMMA SomeResultIsDue ==
  ASSUME Inductive, main = "receive", x # expectedResults
  PROVE  CanReceive \/ (\E g \in Goroutines : CanCompile(g)) \/ Looping # {}
<1> SUFFICES ASSUME \A g \in Goroutines : ~CanCompile(g), Looping = {}
             PROVE  CanReceive
  OBVIOUS
<1>1. Done \subseteq Spawned /\ IsFiniteSet(Spawned)
  BY GoroutinesFinite, FS_Subset DEF Done, Spawned
<1>2. x = Cardinality(Done) /\ expectedResults = Cardinality(Spawned)
  BY DEF Inductive, Counted
<1>3. x <= expectedResults /\ x \in Nat /\ expectedResults \in Nat
  BY <1>1, <1>2, FS_Subset, FS_CardinalityType
<1>4. Done # Spawned
  BY <1>2
<1>5. PICK g \in Goroutines : pc[g] # "none" /\ pc[g] # "done"
  BY <1>1, <1>4 DEF Done, Spawned
<1>6. pc[g] = "send"
  <2>1. Cardinality(Looping) # MaxConcurrency
    BY FS_EmptySet, MaxConcurrencyAssumption
  <2> QED BY <1>5, <2>1, SlotsFree DEF SlotsComeBack, Looping
<1>7. result[g] # "none"
  BY <1>6 DEF Inductive, ResultWhenPast
<1>8. x < expectedResults
  BY <1>3
<1> QED BY <1>6, <1>7, <1>8 DEF CanReceive

\* As long as the link loop waits, a module it counted is being linked or is
\* linked and on offer.
LEMMA SomeLinkIsDue ==
  ASSUME Inductive, main = "link", x # expectedResults
  PROVE  CanReceive \/ \E f \in Files : CanLink(f)
<1>1. /\ modules \subseteq Files /\ linkpc \in [Files -> {"none", "resolve", "check", "send", "done"}]
      /\ x = Cardinality(Linked) /\ expectedResults = Cardinality(modules)
      /\ \A f \in Files : linkpc[f] # "none" <=> f \in modules
  BY DEF Inductive, TypeOK, LinkCounted
<1>2. Linked \subseteq modules /\ IsFiniteSet(modules)
  BY <1>1, FilesAssumption, FS_Subset DEF Linked
<1>3. x <= expectedResults /\ x \in Nat /\ expectedResults \in Nat
  BY <1>1, <1>2, FS_Subset, FS_CardinalityType
<1>4. PICK f \in modules : f \notin Linked
  BY <1>1, <1>2
<1>5. f \in Files /\ linkpc[f] \in {"resolve", "check", "send"}
  BY <1>1, <1>4 DEF Linked
<1>6. x < expectedResults
  BY <1>3
<1> QED BY <1>5, <1>6 DEF CanReceive, CanLink

\* Somebody can move until there is an answer.
LEMMA SomebodyCanMove ==
  ASSUME Inductive
  PROVE  NeverStuck
<1> SUFFICES ASSUME main \notin {"returned", "crashed"}
             PROVE  \/ CanReceive
                    \/ \E g \in Goroutines : CanCompile(g)
                    \/ \E f \in Files : CanLink(f)
                    \/ Looping # {}
  BY DEF NeverStuck
<1>1. main \in {"start", "receive", "failing", "link"}
  BY DEF Inductive, TypeOK
<1>2. CASE main \in {"start", "failing"} \/ x = expectedResults
  BY <1>1, <1>2 DEF CanReceive
<1>3. CASE main \in {"receive", "link"} /\ x # expectedResults
  BY <1>3, SomeResultIsDue, SomeLinkIsDue
<1> QED BY <1>1, <1>2, <1>3

\* Every stage is before or after every other.
LEMMA StagesType ==
  ASSUME TypeOK
  PROVE  /\ \A g \in Goroutines : FileStage(pc[g]) \in 0..8
         /\ \A f \in Files : LinkStage(linkpc[f]) \in 0..4
         /\ MainStage(main) \in 0..5
BY DEF TypeOK, PCs, FileStage, LinkStage, MainStage

\* In compileFile a goroutine goes on.
LEMMA CompileFileGoesOn ==
  ASSUME TypeOK, NEW g \in Goroutines, CompileFile(g)
  PROVE  /\ FileStage(pc[g]) < FileStage(pc'[g])
         /\ \A h \in Goroutines \ {g} : pc'[h] = pc[h]
BY DEF TypeOK, FileStage, CompileFile, Lock, LoadHit, LoadMiss, Store, CompileFileOk,
       CompileFileError, CompileFileLoops, Collect, Unlock

\* No step takes anybody back, and each takes somebody further.
LEMMA EveryStepIsOnward ==
  ASSUME Inductive, Next
  PROVE  Onward
<1>0. TypeOK /\ [Next]_vars
  BY DEF Inductive
<1> USE <1>0, StagesType
<1>1. CASE \E g \in Goroutines : CompileFile(g)
  <2> PICK g \in Goroutines : CompileFile(g)
    BY <1>1
  <2>1. UNCHANGED <<main, linkpc, cancelled>>
    BY DEF CompileFile, linkVars
  <2>2. \A h \in Goroutines : FileStage(pc[h]) <= FileStage(pc'[h])
    <3> SUFFICES ASSUME NEW h \in Goroutines
                 PROVE  FileStage(pc[h]) <= FileStage(pc'[h])
      OBVIOUS
    <3>1. CASE h = g
      <4>1. pc'[g] \in PCs
        BY CompileFileStep DEF Inductive, PCs
      <4>2. FileStage(pc'[g]) \in 0..8
        BY <4>1 DEF PCs, FileStage
      <4> QED BY <3>1, <4>2, CompileFileGoesOn
    <3>2. CASE h # g
      BY <3>2, CompileFileGoesOn
    <3> QED BY <3>1, <3>2
  <2> QED BY <2>1, <2>2, CompileFileGoesOn DEF Onward
<1>2. CASE Start
  <2>1. main = "start" /\ main' = "receive" /\ UNCHANGED <<linkpc, cancelled>>
    BY <1>2 DEF Start, linkVars
  <2>2. \A g \in Goroutines : pc[g] = "none" /\ pc'[g] \in {"none", "lock"}
    BY <1>2, StartStep
  <2>3. \A g \in Goroutines : FileStage(pc[g]) <= FileStage(pc'[g])
    BY <2>2 DEF FileStage
  <2> QED BY <2>1, <2>3 DEF Onward, MainStage
<1>3. CASE \E g \in Goroutines : ReceiveNil(g) \/ ReceiveError(g)
  <2> PICK g \in Goroutines : ReceiveNil(g) \/ ReceiveError(g)
    BY <1>3
  <2>1. /\ UNCHANGED <<linkpc, cancelled>>
        /\ main = "receive" /\ main' \in {"receive", "failing"}
        /\ pc[g] = "send" /\ pc' = [pc EXCEPT ![g] = "done"]
    BY DEF ReceiveNil, ReceiveError, Receiving, linkVars
  <2>2. pc'[g] = "done" /\ \A h \in Goroutines \ {g} : pc'[h] = pc[h]
    BY <2>1 DEF TypeOK
  <2>3. MainStage(main) <= MainStage(main')
    BY <2>1 DEF MainStage
  <2>4. FileStage(pc[g]) = 7 /\ FileStage(pc'[g]) = 8
    BY <2>1, <2>2 DEF FileStage
  <2>5. \A h \in Goroutines : FileStage(pc[h]) <= FileStage(pc'[h])
    BY <2>2, <2>4
  <2> QED BY <2>1, <2>3, <2>4, <2>5 DEF Onward
<1>4. CASE \E g \in Goroutines : ReceiveModule(g)
  <2> PICK g \in Goroutines : ReceiveModule(g)
    BY <1>4
  <2>1. /\ UNCHANGED <<linkpc, cancelled>>
        /\ main = "receive" /\ main' \in {"receive", "returned"}
    BY ReceiveModuleStep DEF ReceiveModule, linkVars
  <2>2. /\ pc[g] = "send" /\ pc'[g] = "done"
        /\ \A h \in Goroutines \ {g} : \/ pc[h] = "none" /\ pc'[h] = "lock"
                                       \/ pc'[h] = pc[h]
    BY ReceiveModuleStep
  <2>3. MainStage(main) <= MainStage(main')
    BY <2>1 DEF MainStage
  <2>4. FileStage(pc[g]) = 7 /\ FileStage(pc'[g]) = 8
    BY <2>2 DEF FileStage
  <2>5. FileStage("none") = 0 /\ FileStage("lock") = 1
    BY DEF FileStage
  <2>6. \A h \in Goroutines : FileStage(pc[h]) <= FileStage(pc'[h])
    BY <2>2, <2>4, <2>5
  <2> QED BY <2>1, <2>3, <2>4, <2>6 DEF Onward
<1>5. CASE \E f \in Files : Link(f) \/ ReceiveLinked(f)
  <2> PICK f \in Files : Link(f) \/ ReceiveLinked(f)
    BY <1>5
  <2>0. /\ UNCHANGED <<pc, cancelled>>
        /\ main' = main \/ (main = "link" /\ main' = "failing")
    BY DEF Link, Resolve, CheckReported, ReceiveLinked, fileVars
  <2>1. \/ linkpc[f] = "resolve" /\ linkpc' = [linkpc EXCEPT ![f] = "send"]
        \/ linkpc[f] = "resolve" /\ linkpc' = [linkpc EXCEPT ![f] = "check"]
        \/ linkpc[f] = "check" /\ linkpc' = [linkpc EXCEPT ![f] = "send"]
        \/ linkpc[f] = "send" /\ linkpc' = [linkpc EXCEPT ![f] = "done"]
    BY DEF Link, Resolve, CheckReported, ReceiveLinked
  <2>2. LinkStage(linkpc[f]) < LinkStage(linkpc'[f])
        /\ \A m \in Files \ {f} : linkpc'[m] = linkpc[m]
    BY <2>1 DEF TypeOK, LinkStage
  <2>3. \A m \in Files : LinkStage(linkpc[m]) <= LinkStage(linkpc'[m])
    BY <2>1, <2>2 DEF TypeOK, LinkStage
  <2>4. MainStage(main) <= MainStage(main')
    BY <2>0 DEF TypeOK, MainStage
  <2> QED BY <2>0, <2>2, <2>3, <2>4 DEF Onward
<1>6. CASE StartLink
  <2>1. /\ UNCHANGED <<pc, cancelled>> /\ main = "receive" /\ main' = "link"
        /\ \A f \in Files : linkpc[f] = "none" /\ linkpc'[f] \in {"none", "resolve"}
    BY <1>6 DEF StartLink, fileVars, Inductive, LinkCounted
  <2>2. \A f \in Files : LinkStage(linkpc[f]) <= LinkStage(linkpc'[f])
    BY <2>1 DEF LinkStage
  <2> QED BY <2>1, <2>2 DEF Onward, MainStage
<1>7. CASE Finish \/ ReturnError \/ ReturnCancelled
  <2>1. /\ UNCHANGED <<pc, linkpc, cancelled>>
        /\ main \in {"start", "receive", "link", "failing"} /\ main' = "returned"
    BY <1>7 DEF Finish, ReturnError, ReturnCancelled, fileVars, linkVars
  <2> QED BY <2>1 DEF Onward, MainStage
<1>8. CASE Cancel
  <2>1. UNCHANGED <<pc, linkpc, main>> /\ ~cancelled /\ cancelled'
    BY <1>8 DEF Cancel, fileVars, linkVars
  <2> QED BY <2>1 DEF Onward
<1>9. CASE Panics
  <2>1. /\ UNCHANGED <<pc, linkpc, cancelled>>
        /\ main \in {"start", "receive", "link", "failing", "returned"}
        /\ main' = "crashed"
    BY <1>9, PanicStep DEF TypeOK
  <2> QED BY <2>1 DEF Onward, MainStage
<1> QED BY <1>1, <1>2, <1>3, <1>4, <1>5, <1>6, <1>7, <1>8, <1>9 DEF Next, MainStep, Panics

-----------------------------------------------------------------------------
(* The theorems.                                                           *)

\* The invariant holds before Compile's first step.
LEMMA InductiveInit == Init => Inductive
<1> SUFFICES ASSUME Init PROVE Inductive
  OBVIOUS
<1>1. /\ input \in Inputs /\ answer = NoAnswer /\ main = "start" /\ semaphore = 0
      /\ loaded = {} /\ modules = {} /\ x = 0 /\ linked_modules = {}
      /\ \A g \in Goroutines : pc[g] = "none" /\ result[g] = "none"
      /\ \A f \in Files : linkpc[f] = "none"
  BY DEF Init
<1>2. TypeOK
  BY TypeInit
<1>3. SlotsHeld
  <2>1. Holders = {}
    BY <1>1 DEF Holders
  <2> QED BY <1>1, <2>1, FS_EmptySet DEF SlotsHeld
<1>4. NothingBeforeStart /\ Counted /\ NothingInFlight
  BY <1>1 DEF NothingBeforeStart, Counted, NothingInFlight, NoAnswer
<1>5. ResultWhenPast /\ LoadedHasOwner /\ NilWasLoaded /\ ModuleIsCollected /\ OneModulePerFile
  BY <1>1 DEF ResultWhenPast, LoadedHasOwner, NilWasLoaded, ModuleIsCollected, OneModulePerFile
<1>6. ModulesWereDelivered /\ DeliveredAreModules /\ Origin /\ AllStarted /\ OnlyReachable
  BY <1>1 DEF ModulesWereDelivered, DeliveredAreModules, Origin, AllStarted, OnlyReachable,
              Healthily, NoAnswer
<1>7. LinkCounted /\ LinkSeesImports /\ LinksDone /\ AnswerLast /\ ImageIsReachable
  BY <1>1 DEF LinkCounted, LinksDone, LinkSeesImports, AnswerLast, ImageIsReachable, NoAnswer
<1> QED BY <1>2, <1>3, <1>4, <1>5, <1>6, <1>7 DEF Inductive

\* Every step keeps it.
LEMMA InductiveStep == Inductive /\ [Next]_vars => Inductive'
<1> SUFFICES ASSUME Inductive, [Next]_vars PROVE Inductive'
  OBVIOUS
<1>1. TypeOK'
  BY TypeStep DEF Inductive
<1> QED BY <1>1, SlotsStep, CountedStep, QuietStep, ResultStep, OwnerStep, NilStep,
           CollectedStep, DeliveredStep, OriginStep, AllStartedStep, OnlyReachableStep,
           LinkCountedStep, LinkSeesStep, LinksDoneStep, AnswerStep DEF Inductive

\* The invariant holds throughout every run of Compile.
THEOREM Invariance == Spec => []Inductive
BY InductiveInit, InductiveStep, PTL DEF Spec

\* Type correctness: in particular the semaphore is never over its capacity
\* and never returned by a goroutine that does not hold it.
THEOREM TypeCorrect == Spec => []TypeOK
<1>1. Inductive => TypeOK
  BY DEF Inductive
<1> QED BY <1>1, Invariance, PTL

\* Linking starts when no goroutine is left in compileFile, so the lock-free
\* reads of the symbol table in packageSearch race with nothing.
THEOREM NoCollectWhileLinking == Spec => []LinkAfterCollect
<1>1. Inductive => LinkAfterCollect
  BY DEF Inductive, NothingInFlight, LinkAfterCollect
<1> QED BY <1>1, Invariance, PTL

\* A module that is linked, the builtin module and all modules it imports are
\* in the symbol table by then.
THEOREM LinkingIsInformed == Spec => []LinkSeesImports
<1>1. Inductive => LinkSeesImports
  BY DEF Inductive
<1> QED BY <1>1, Invariance, PTL

\* The race on loaded never delivers a module twice.
THEOREM ModulesAreUnique == Spec => []OneModulePerFile
<1>1. Inductive => OneModulePerFile
  BY DEF Inductive
<1> QED BY <1>1, Invariance, PTL

\* An image without an error is the set of all reachable modules: the count of
\* expected results never ends the loop before the last import is in.
THEOREM ImageIsComplete == Spec => []ImageIsReachable
<1>1. Inductive => ImageIsReachable
  BY DEF Inductive
<1> QED BY <1>1, Invariance, PTL

\* After an answer without an error nobody is left who could report: the answer
\* spoke for every goroutine of the call.
THEOREM SuccessIsFinal == Spec => QuietAfterSuccess
<1>1. ASSUME Inductive, [Next]_vars, answer.error = "none"
      PROVE  reported' = reported
  <2>1. /\ \A g \in Goroutines : pc[g] \in {"none", "done"}
        /\ \A f \in Files : linkpc[f] \in {"none", "done"}
        /\ main = "returned"
    BY <1>1 DEF Inductive, NothingInFlight, LinksDone
  <2>2. CASE \E g \in Goroutines : CompileFile(g)
    BY <1>1, <2>1, <2>2, CompileFileStep DEF Inductive
  <2>3. CASE \E f \in Files : Link(f)
    BY <2>1, <2>3 DEF Link, Resolve, CheckReported
  <2> QED BY <1>1, <2>1, <2>2, <2>3, PanicStep DEF Next, MainStep, Panics, Start, ReceiveNil,
          ReceiveModule, ReceiveError, Receiving, ReceiveLinked, StartLink, Finish,
          ReturnError, ReturnCancelled, Cancel, vars
<1>2. Inductive /\ [Next]_vars => [answer.error = "none" => reported' = reported]_vars
  BY <1>1
<1> QED BY <1>2, Invariance, PTL DEF Spec, QuietAfterSuccess

\* Until Compile has answered, the caller's loop, a goroutine in compileFile or
\* one that links can move: no order of the goroutines at the semaphore and at
\* the unbuffered channels leaves the call waiting for a result nobody sends.
\* What can is a parser that loops.
THEOREM NobodyWaitsForever == Spec => []NeverStuck
<1>1. Inductive => NeverStuck
  BY SomebodyCanMove
<1> QED BY <1>1, Invariance, PTL

\* Whatever way the call ends, its goroutines give their slots back before they
\* are left in a send that nobody receives: when none of them can go on, the
\* slots that are taken are those of the parsers that loop.
THEOREM NoSlotIsLost == Spec => []SlotsComeBack
<1>1. Inductive => SlotsComeBack
  BY SlotsFree
<1> QED BY <1>1, Invariance, PTL

\* Every step of a call takes one of its finitely many actors to a later stage
\* and none back, so a call has no more steps than its actors have stages.
THEOREM CallsAreFinite == Spec => StepsAreFinite
<1>1. Inductive /\ [Next]_vars => [Onward]_vars
  BY EveryStepIsOnward
<1> QED BY <1>1, Invariance, PTL DEF Spec, StepsAreFinite

-----------------------------------------------------------------------------
(* Compile implements the safety part of CompileSpec.                      *)

\* The two invariants together.
Both == Inductive /\ Causes

-----------------------------------------------------------------------------
(* Faults.                                                                 *)

\* A file that cannot be compiled, collected, linked or checked.
LEMMA SourceIsFaulty ==
  ASSUME NEW f \in Reachable(input),
         \/ input.source[f].kind # "idl"
         \/ input.source[f].parse # "ok"
         \/ input.source[f].unresolved
         \/ input.source[f].unfoldable
         \/ input.source[f].invalid
         \/ UIDClash(ModuleOf(f))
         \/ NameClash(ModuleOf(f))
  PROVE  Faulty(input)
BY DEF Faulty, ModuleOf

\* An import that opens nothing, or that is not the path of a module.
LEMMA ImportIsFaulty ==
  ASSUME NEW f \in Reachable(input), NEW i \in DOMAIN Imports(input, f),
         \/ ~Exists(input, Imports(input, f)[i])
         \/ Imports(input, f)[i] \notin Reachable(input)
  PROVE  Faulty(input)
BY DEF Faulty

\* Two files with clashing modules.
LEMMA ClashIsFaulty ==
  ASSUME TypeOK, NEW f \in Reachable(input), NEW h \in Reachable(input), f # h,
         Clash(ModuleOf(f), ModuleOf(h))
  PROVE  Faulty(input)
<1>1. f \in Files /\ h \in Files
  BY DEF Reachable
<1>2. ModuleOf(f) # ModuleOf(h)
  BY <1>1, ModuleHasItsURI
<1> DEFINE M == {input.source[k].module : k \in Reachable(input)}
<1>3. ModuleOf(f) \in M /\ ModuleOf(h) \in M
  BY DEF ModuleOf
<1>4. \E m, n \in M :
         /\ m # n
         /\ \/ m.uid = n.uid
            \/ m.pkg = n.pkg
               /\ \E i \in DOMAIN m.types, j \in DOMAIN n.types :
                     m.types[i].name = n.types[j].name
  BY <1>2, <1>3 DEF Clash
<1> QED BY <1>4 DEF Faulty

\* Nothing wrong was overlooked: the converse of the three above.
LEMMA FaultyMeans ==
  ASSUME Faulty(input)
  PROVE  \/ \E f \in Reachable(input) :
               \/ input.source[f].kind # "idl"
               \/ input.source[f].parse # "ok"
               \/ input.source[f].unresolved
               \/ input.source[f].unfoldable
               \/ input.source[f].invalid
               \/ UIDClash(ModuleOf(f))
               \/ NameClash(ModuleOf(f))
         \/ \E f \in Reachable(input) : \E i \in DOMAIN Imports(input, f) :
               \/ ~Exists(input, Imports(input, f)[i])
               \/ Imports(input, f)[i] \notin Reachable(input)
         \/ \E f, h \in Reachable(input) : f # h /\ Clash(ModuleOf(f), ModuleOf(h))
<1>1. ASSUME NEW f \in Reachable(input), NEW h \in Reachable(input),
             ModuleOf(f) # ModuleOf(h)
      PROVE  f # h
  BY <1>1
<1>2. CASE \E m, n \in {input.source[f].module : f \in Reachable(input)} : m # n /\ Clash(m, n)
  BY <1>1, <1>2 DEF ModuleOf
<1>3. CASE \E f \in Reachable(input) :
             \/ input.source[f].kind # "idl"
             \/ input.source[f].parse # "ok"
             \/ input.source[f].unresolved
             \/ input.source[f].unfoldable
             \/ input.source[f].invalid
             \/ UIDClash(input.source[f].module)
             \/ NameClash(input.source[f].module)
             \/ \E i \in DOMAIN Imports(input, f) :
                   \/ ~Exists(input, Imports(input, f)[i])
                   \/ Imports(input, f)[i] \notin Reachable(input)
  BY <1>3 DEF ModuleOf
<1> QED BY <1>2, <1>3 DEF Faulty, Clash

-----------------------------------------------------------------------------
(* What no step takes back.                                                *)

\* The Reporter is never emptied.
LEMMA ReportedKept ==
  ASSUME [Next]_vars
  PROVE  reported \subseteq reported'
<1>1. CASE \E g \in Goroutines : CompileFile(g)
  BY <1>1 DEF CompileFile, Lock, LoadHit, LoadMiss, Store, CompileFileOk,
              CompileFileError, CompileFileLoops, Collect, Unlock
<1>2. CASE \E f \in Files : Link(f)
  BY <1>2 DEF Link, Resolve, CheckReported
<1>3. CASE Finish
  BY <1>3 DEF Finish
<1>4. CASE \/ Start \/ Panics \/ StartLink \/ ReturnError \/ ReturnCancelled \/ Cancel
           \/ UNCHANGED vars
  BY <1>4, PanicStep DEF Start, StartLink, ReturnError, ReturnCancelled, Cancel, vars
<1>5. CASE \/ \E g \in Goroutines : ReceiveNil(g) \/ ReceiveModule(g) \/ ReceiveError(g)
           \/ \E f \in Files : ReceiveLinked(f)
  BY <1>5 DEF ReceiveNil, ReceiveModule, ReceiveError, ReceiveLinked
<1> QED BY <1>1, <1>2, <1>3, <1>4, <1>5 DEF Next, MainStep, Panics

\* So an excuse stays one.
LEMMA ExcusedKept ==
  ASSUME Inductive, [Next]_vars, Excused
  PROVE  Excused'
BY ReportedKept, SymbolsKept DEF Excused

\* A goroutine that has started compiles a file the request reaches.
LEMMA StartedIsReachable ==
  ASSUME Inductive, NEW g \in Goroutines, pc[g] # "none"
  PROVE  g.file \in Reachable(input)
BY DEF Inductive, OnlyReachable

\* A goroutine in compileFile leaves the others alone.
LEMMA OthersAlone ==
  ASSUME Inductive, NEW g \in Goroutines, CompileFile(g), NEW k \in Goroutines, k # g
  PROVE  pc'[k] = pc[k] /\ result'[k] = result[k]
<1>1. /\ pc' = [pc EXCEPT ![g] = pc'[g]]
      /\ \A h \in Goroutines \ {g} : result'[h] = result[h]
  BY CompileFileStep DEF Inductive
<1>2. pc \in [Goroutines -> PCs]
  BY DEF Inductive, TypeOK
<1> QED BY <1>1, <1>2

\* Where the reports, results and failures of a step come from.
LEMMA OtherStepsReportNothing ==
  ASSUME [Next]_vars, reported' # reported
  PROVE  \/ \E g \in Goroutines : CompileFile(g)
         \/ \E f \in Files : Link(f)
         \/ Finish
<1>1. CASE \/ Start \/ Panics \/ StartLink \/ ReturnError \/ ReturnCancelled \/ Cancel
           \/ UNCHANGED vars
  BY <1>1, PanicStep DEF Start, StartLink, ReturnError, ReturnCancelled, Cancel, vars
<1>2. CASE \/ \E g \in Goroutines : ReceiveNil(g) \/ ReceiveModule(g) \/ ReceiveError(g)
           \/ \E f \in Files : ReceiveLinked(f)
  BY <1>2 DEF ReceiveNil, ReceiveModule, ReceiveError, ReceiveLinked
<1> QED BY <1>1, <1>2 DEF Next, MainStep, Panics

-----------------------------------------------------------------------------
(* The table.                                                              *)

\* What collect() leaves in the table is what was there and what the module has.
LEMMA CollectLeaves ==
  ASSUME NEW t, NEW m
  PROVE  /\ CollectTable(t, m).uris = t.uris \cup {m.uri}
         /\ CollectTable(t, m).modules \subseteq
               t.modules \cup {[uri |-> m.uri, uid |-> m.uid, pkg |-> m.pkg]}
         /\ t.types \subseteq CollectTable(t, m).types
         /\ CollectTable(t, m).types \subseteq t.types \cup TypesOf(m)
BY DEF CollectTable, AlreadyCollected

\* The table has entries of reachable files only, and of loaded ones.
LEMMA TableStep ==
  ASSUME Both, [Next]_vars
  PROVE  TableOfReachable'
<1>0. TableOfReachable /\ TypeOK /\ input' = input /\ loaded \subseteq loaded'
  BY SymbolsKept, LoadedKept DEF Both, Causes, Inductive
<1>1. Reachable(input)' = Reachable(input)
  BY <1>0
<1>2. CASE \E g \in Goroutines : CompileFile(g)
  <2> PICK g \in Goroutines : CompileFile(g)
    BY <1>2
  <2>1. \A k \in Goroutines \ {g} : pc'[k] = pc[k]
    BY OthersAlone DEF Both
  <2>2. pc'[g] \in {"compile", "collect"} => g.file \in loaded'
    BY <1>0 DEF CompileFile, Lock, LoadHit, LoadMiss, Store, CompileFileOk,
                CompileFileError, CompileFileLoops, Collect, Unlock, TableOfReachable, TypeOK
  <2>3. \A k \in Goroutines : pc'[k] \in {"compile", "collect"} => k.file \in loaded'
    BY <1>0, <2>1, <2>2 DEF TableOfReachable
  <2>4. CASE symbols' = symbols
    BY <1>0, <1>1, <2>3, <2>4 DEF TableOfReachable, Entry, ModuleOf
  <2>5. CASE Collect(g)
    <3> DEFINE m == ModuleOf(g.file)
    <3>1. g.file \in Files /\ m.uri = g.file /\ pc[g] = "collect"
      BY <1>0, <2>5, ModuleHasItsURI DEF Collect, Goroutines
    <3>2. g.file \in Reachable(input) /\ g.file \in loaded
      BY <1>0, <3>1, StartedIsReachable DEF Both, TableOfReachable
    <3>3. /\ symbols'.uris = symbols.uris \cup {g.file}
          /\ symbols'.modules \subseteq symbols.modules \cup {Entry(g.file)}
          /\ symbols'.types \subseteq symbols.types \cup TypesOf(m)
      BY <2>5, <3>1, CollectLeaves DEF Collect, Entry
    <3>4. /\ symbols'.uris \subseteq Reachable(input)
          /\ symbols'.uris \subseteq loaded'
      BY <1>0, <3>2, <3>3 DEF TableOfReachable
    <3>5. ASSUME NEW e \in symbols'.modules
          PROVE  e.uri \in symbols'.uris /\ e = Entry(e.uri)
      BY <1>0, <3>3 DEF TableOfReachable, Entry
    <3>6. \A e \in TypesOf(m) : e.uri = g.file
      BY <3>1 DEF TypesOf
    <3>7. ASSUME NEW e \in symbols'.types
          PROVE  e.uri \in symbols'.uris /\ e \in TypesOf(ModuleOf(e.uri))
      BY <1>0, <3>3, <3>6 DEF TableOfReachable
    <3>8. \A f : Entry(f)' = [uri |-> f, uid |-> ModuleOf(f).uid, pkg |-> ModuleOf(f).pkg]
                 /\ ModuleOf(f)' = ModuleOf(f)
      BY <1>0 DEF Entry, ModuleOf
    <3> QED BY <1>1, <2>3, <3>4, <3>5, <3>7, <3>8 DEF TableOfReachable, Entry, ModuleOf
  <2> QED BY <2>4, <2>5 DEF CompileFile, Lock, LoadHit, LoadMiss, Store, CompileFileOk,
                            CompileFileError, CompileFileLoops, Unlock
<1>3. CASE ~ \E g \in Goroutines : CompileFile(g)
  <2>1. symbols' = symbols
    BY <1>3, StepKinds, StartStep, ReceiveModuleStep
       DEF ReceiveNil, ReceiveError, Elsewhere, fileVars, Both
  <2>2. \A g \in Goroutines : pc'[g] \in {"compile", "collect"} => pc'[g] = pc[g]
    BY <1>0, <1>3, StepKinds, StartStep, ReceiveModuleStep
       DEF ReceiveNil, ReceiveError, Elsewhere, fileVars, Both, TypeOK
  <2> QED BY <1>0, <1>1, <2>1, <2>2 DEF TableOfReachable, Entry, ModuleOf
<1> QED BY <1>2, <1>3

\* With one slot no two goroutines are between Lock and Unlock.
LEMMA OneHolder ==
  ASSUME Inductive, MaxConcurrency = 1, NEW g \in Holders, NEW k \in Holders
  PROVE  g = k
<1>1. Cardinality(Holders) \in 0..1 /\ Holders \in SUBSET Goroutines
  BY DEF Inductive, SlotsHeld, TypeOK, Holders
<1>2. CASE g # k
  <2>1. Cardinality(Holders) \in Nat /\ Cardinality(Holders \ {g}) = Cardinality(Holders) - 1
    BY <1>1, OneLess
  <2>2. k \in Holders \ {g} /\ Holders \ {g} \in SUBSET Goroutines
    BY <1>1, <1>2
  <2>3. Cardinality(Holders \ {g}) \in Nat \ {0}
    BY <2>2, OneLess
  <2> QED BY <1>1, <2>1, <2>3
<1> QED BY <1>2

\* With one slot a goroutine that did not find its file marked is the first to collect it.
LEMMA AloneStep ==
  ASSUME Both, [Next]_vars
  PROVE  AloneIfSingle'
<1> SUFFICES ASSUME MaxConcurrency = 1, NEW k \in Goroutines
             PROVE  /\ pc'[k] = "store" => k.file \notin loaded'
                    /\ pc'[k] \in {"compile", "collect"} => k.file \notin symbols'.uris
  BY DEF AloneIfSingle
<1>0. AloneIfSingle /\ TableOfReachable /\ TypeOK
  BY DEF Both, Causes, Inductive
<1>1. CASE \E g \in Goroutines : CompileFile(g)
  <2> PICK g \in Goroutines : CompileFile(g)
    BY <1>1
  <2>1. CASE k # g
    <3>1. pc'[k] = pc[k]
      BY <2>1, OthersAlone DEF Both
    <3>2. CASE pc[k] \in {"store", "compile", "collect"}
      <4>1. g \notin Holders
        BY <2>1, <3>2, OneHolder DEF Holders, Both
      <4>2. loaded' = loaded /\ symbols' = symbols
        BY <4>1 DEF Holders, CompileFile, Lock, LoadHit, LoadMiss, Store, CompileFileOk,
                    CompileFileError, CompileFileLoops, Collect, Unlock
      <4> QED BY <1>0, <3>1, <4>2 DEF AloneIfSingle
    <3> QED BY <3>1, <3>2
  <2>2. CASE k = g
    BY <1>0, <2>2 DEF AloneIfSingle, TableOfReachable, TypeOK, CompileFile, Lock, LoadHit,
       LoadMiss, Store, CompileFileOk, CompileFileError, CompileFileLoops, Collect, Unlock
  <2> QED BY <2>1, <2>2
<1>2. CASE ~ \E g \in Goroutines : CompileFile(g)
  <2>1. loaded' = loaded /\ symbols' = symbols
    BY <1>2, StepKinds, StartStep, ReceiveModuleStep
       DEF ReceiveNil, ReceiveError, Elsewhere, fileVars, Both
  <2>2. pc'[k] \in {"store", "compile", "collect"} => pc'[k] = pc[k]
    BY <1>0, <1>2, StepKinds, StartStep, ReceiveModuleStep
       DEF ReceiveNil, ReceiveError, Elsewhere, fileVars, Both, TypeOK
  <2> QED BY <1>0, <2>1, <2>2 DEF AloneIfSingle
<1> QED BY <1>1, <1>2

-----------------------------------------------------------------------------
(* Excuses.                                                                *)

\* What collect() reports is a fault of its file or a clash with another one,
\* unless it has the file already: that takes a race.
LEMMA CollectIsExcused ==
  ASSUME Both, NEW g \in Goroutines, pc[g] = "collect",
         CollectReports(symbols, ModuleOf(g.file)) # {}
  PROVE  Faulty(input) \/ MaxConcurrency > 1
<1> DEFINE m == ModuleOf(g.file)
<1>0. TypeOK /\ TableOfReachable /\ g.file \in Files /\ m.uri = g.file
  BY ModuleHasItsURI DEF Both, Causes, Inductive, Goroutines
<1>1. g.file \in Reachable(input)
  BY StartedIsReachable DEF Both
<1>2. CASE g.file \in symbols.uris
  <2>1. MaxConcurrency # 1
    BY <1>2 DEF Both, Causes, AloneIfSingle
  <2> QED BY <2>1, MaxConcurrencyAssumption
<1>3. CASE g.file \notin symbols.uris
  <2>1. \/ \E other \in symbols.modules : other.uid = m.uid
        \/ UIDClash(m) \/ NameClash(m)
        \/ PackageNameTaken(symbols, m)
    BY <1>0, <1>3 DEF CollectReports, AlreadyCollected, ModuleUIDTaken
  <2>2. ASSUME NEW other \in symbols.modules
        PROVE  /\ other.uri \in Reachable(input) /\ other.uri # g.file
               /\ other.uid = ModuleOf(other.uri).uid /\ other.pkg = ModuleOf(other.uri).pkg
    BY <1>0, <1>3 DEF TableOfReachable, Entry
  <2>3. CASE \E other \in symbols.modules : other.uid = m.uid
    <3>1. PICK other \in symbols.modules : other.uid = m.uid
      BY <2>3
    <3>2. Clash(ModuleOf(other.uri), m)
      BY <2>2, <3>1 DEF Clash
    <3> QED BY <1>0, <1>1, <2>2, <3>2, ClashIsFaulty
  <2>4. CASE UIDClash(m) \/ NameClash(m)
    BY <1>1, <2>4, SourceIsFaulty
  <2>5. CASE PackageNameTaken(symbols, m)
    <3>1. PICK i \in DOMAIN m.types, other \in symbols.modules :
             /\ other.pkg = m.pkg
             /\ [uri |-> other.uri, name |-> m.types[i].name] \in symbols.types
      BY <2>5 DEF PackageNameTaken
    <3>2. [uri |-> other.uri, name |-> m.types[i].name] \in TypesOf(ModuleOf(other.uri))
      BY <1>0, <3>1 DEF TableOfReachable
    <3>3. \E j \in DOMAIN ModuleOf(other.uri).types :
             ModuleOf(other.uri).types[j].name = m.types[i].name
      BY <3>2 DEF TypesOf
    <3>4. Clash(ModuleOf(other.uri), m)
      BY <2>2, <3>1, <3>3 DEF Clash
    <3> QED BY <1>0, <1>1, <2>2, <3>4, ClashIsFaulty
  <2> QED BY <2>1, <2>3, <2>4, <2>5
<1> QED BY <1>2, <1>3

\* Links find the symbols of their own file.
LEMMA LinkableIfLinking ==
  ASSUME Both, NEW f \in Files, linkpc[f] # "none"
  PROVE  ~Unlinkable(f)
<1>1. Builtin \in Reachable(input) /\ f \in Reachable(input) /\ Reachable(input) \subseteq symbols.uris
  BY ReachableIsClosed DEF Both, Causes, LinkingIsLate, Inductive
<1> QED BY <1>1 DEF Unlinkable

\* What link() reports is a fault of its file.
LEMMA LinkIsExcused ==
  ASSUME Both, NEW f \in Files, linkpc[f] # "none", LinkReports(f) # {}
  PROVE  Faulty(input)
<1>1. f \in Reachable(input) /\ Reachable(input) \subseteq symbols.uris
  BY DEF Both, Causes, LinkingIsLate
<1>2. CASE input.source[f].unresolved
  BY <1>1, <1>2, SourceIsFaulty
<1>3. CASE \E i \in DOMAIN Imports(input, f) : Imports(input, f)[i] \notin symbols.uris
  BY <1>1, <1>3, ImportIsFaulty
<1> QED BY <1>2, <1>3 DEF LinkReports

\* A new report is of a fault, or fails a goroutine.
LEMMA NewReport ==
  ASSUME Both, [Next]_vars, reported' # reported
  PROVE  \/ Faulty(input)
         \/ MaxConcurrency > 1 /\ \E g \in Goroutines : result'[g] = "error"
<1>0. TypeOK
  BY DEF Both, Inductive
<1>1. CASE \E g \in Goroutines : CompileFile(g)
  <2> PICK g \in Goroutines : CompileFile(g)
    BY <1>1
  <2>1. pc[g] # "none" => g.file \in Reachable(input)
    BY StartedIsReachable DEF Both
  <2>2. CASE CompileFileOk(g)
    <3>1. input.source[g.file].parse # "ok" /\ pc[g] # "none"
      BY <2>2 DEF CompileFileOk
    <3> QED BY <2>1, <3>1, SourceIsFaulty
  <2>3. CASE CompileFileError(g) \/ CompileFileLoops(g)
    <3>1. (input.source[g.file].kind # "idl" \/ input.source[g.file].parse # "ok") /\ pc[g] # "none"
      BY <2>3 DEF CompileFileError, CompileFileLoops
    <3> QED BY <2>1, <3>1, SourceIsFaulty
  <2>4. CASE Collect(g)
    <3>1. /\ pc[g] = "collect" /\ reported' = reported \cup CollectReports(symbols, ModuleOf(g.file))
          /\ result' = [result EXCEPT ![g] =
                          IF CollectFails(symbols, ModuleOf(g.file), reported) THEN "error" ELSE "module"]
      BY <2>4 DEF Collect
    <3>2. CollectReports(symbols, ModuleOf(g.file)) # {}
      BY <3>1
    <3>3. CollectFails(symbols, ModuleOf(g.file), reported)
      BY <3>2 DEF CollectFails
    <3>4. result'[g] = "error"
      BY <1>0, <3>1, <3>3 DEF TypeOK
    <3> QED BY <3>1, <3>2, <3>4, CollectIsExcused
  <2> QED BY <2>2, <2>3, <2>4 DEF CompileFile, Lock, LoadHit, LoadMiss, Store, Unlock
<1>2. CASE \E f \in Files : Link(f)
  <2> PICK f \in Files : Link(f)
    BY <1>2
  <2>1. linkpc[f] # "none" /\ reported' \in {reported, reported \cup LinkReports(f)}
    BY DEF Link, Resolve, CheckReported
  <2> QED BY <2>1, LinkIsExcused
<1>3. CASE Finish
  <2>1. PICK f \in linked_modules : input.source[f].invalid
    BY <1>3 DEF Finish
  <2>2. f \in Reachable(input)
    BY <2>1 DEF Both, Inductive, TypeOK, ModulesWereDelivered, OnlyReachable
  <2> QED BY <2>1, <2>2, SourceIsFaulty
<1> QED BY <1>1, <1>2, <1>3, OtherStepsReportNothing

\* A goroutine fails for a fault, or after a report.
LEMMA NewError ==
  ASSUME Both, [Next]_vars, NEW g \in Goroutines, result'[g] = "error", result[g] # "error"
  PROVE  Faulty(input) \/ reported' # {}
<1>0. TypeOK
  BY DEF Both, Inductive
<1>1. PICK k \in Goroutines : CompileFile(k)
  BY StepKinds, StartStep, ReceiveModuleStep DEF ReceiveNil, ReceiveError, Elsewhere, fileVars, Both
<1>2. k = g
  BY <1>1, OthersAlone DEF Both
<1>3. CASE CompileFileError(g)
  <2>1. (input.source[g.file].kind # "idl" \/ input.source[g.file].parse # "ok") /\ pc[g] # "none"
    BY <1>3 DEF CompileFileError, CompileFileLoops
  <2> QED BY <2>1, StartedIsReachable, SourceIsFaulty DEF Both
<1>4. CASE Collect(g)
  <2>1. CollectFails(symbols, ModuleOf(g.file), reported)
    BY <1>0, <1>4 DEF Collect, TypeOK
  <2>2. reported \cup CollectReports(symbols, ModuleOf(g.file)) # {}
    BY <2>1 DEF CollectFails, CollectReports
  <2> QED BY <1>4, <2>2 DEF Collect
<1>5. CASE LoadHit(g)
  BY <1>0, <1>5 DEF LoadHit, TypeOK
<1> QED BY <1>0, <1>1, <1>2, <1>3, <1>4, <1>5 DEF CompileFile, Lock, LoadMiss, Store,
        CompileFileOk, CompileFileLoops, Unlock, TypeOK

\* Every failure keeps its excuse and every new one has one.
LEMMA ExcusesStep ==
  ASSUME Both, [Next]_vars
  PROVE  FailuresAreExcused' /\ RaceFails'
<1>0. FailuresAreExcused /\ RaceFails /\ TypeOK /\ input' = input
  BY SymbolsKept DEF Both, Causes, Inductive
<1>1. Faulty(input)' = Faulty(input) /\ (Excused => Excused')
  BY <1>0, ExcusedKept DEF Both
<1>2. reported' # {} => Excused'
  <2>1. CASE reported' = reported
    BY <1>0, <1>1, <2>1 DEF FailuresAreExcused
  <2>2. CASE reported' # reported
    BY <1>1, <2>2, NewReport, ReportedKept DEF Excused
  <2> QED BY <2>1, <2>2
<1>3. ASSUME NEW g \in Goroutines, result'[g] = "error"
      PROVE  Excused'
  <2>1. CASE result[g] = "error"
    BY <1>0, <1>1, <2>1 DEF FailuresAreExcused
  <2>2. CASE result[g] # "error"
    BY <1>1, <1>2, <1>3, <2>2, NewError DEF Excused
  <2> QED BY <2>1, <2>2
<1>4. linkFailed' # {} => Excused'
  <2>1. CASE linkFailed' = linkFailed
    BY <1>0, <1>1, <2>1 DEF FailuresAreExcused
  <2>2. CASE linkFailed' # linkFailed
    <3>1. PICK f \in Files : Link(f)
      BY <2>2, PanicStep DEF Next, MainStep, Panics, vars, linkVars, Start, ReceiveNil,
         ReceiveModule, ReceiveError, ReceiveLinked, StartLink, Finish, ReturnError,
         ReturnCancelled, CompileFile, Cancel
    <3>2. CASE Resolve(f)
      BY <2>2, <3>2, LinkableIfLinking DEF Resolve
    <3>3. CASE CheckReported(f)
      BY <1>0, <1>1, <2>2, <3>3 DEF CheckReported, FailuresAreExcused
    <3> QED BY <3>1, <3>2, <3>3 DEF Link
  <2> QED BY <2>1, <2>2
<1>5. main' = "failing" => Excused'
  <2>1. CASE main = "failing"
    BY <1>0, <1>1, <2>1 DEF FailuresAreExcused
  <2>2. CASE main # "failing" /\ main' = "failing"
    <3>1. \/ \E g \in Goroutines : ReceiveError(g)
          \/ \E f \in Files : ReceiveLinked(f) /\ f \in linkFailed
      BY <2>2, PanicStep DEF Next, MainStep, Panics, vars, Start, ReceiveNil, ReceiveModule,
         Receiving, ReceiveLinked, StartLink, Finish, ReturnError, ReturnCancelled,
         CompileFile, Cancel, Link
    <3> QED BY <1>0, <1>1, <3>1 DEF ReceiveError, FailuresAreExcused
  <2> QED BY <2>1, <2>2
<1>6. RaceFails'
  <2>1. CASE reported' = reported
    BY <1>0, <1>1, <2>1, ResultsKept DEF RaceFails, Both
  <2>2. CASE reported' # reported
    BY <1>1, <2>2, NewReport DEF RaceFails
  <2> QED BY <2>1, <2>2
<1> QED BY <1>2, <1>3, <1>4, <1>5, <1>6 DEF FailuresAreExcused

-----------------------------------------------------------------------------
(* What is delivered and linked.                                           *)

\* Main goes on with targets that exist.
LEMMA RequestStep ==
  ASSUME Both, [Next]_vars
  PROVE  RequestIsFit'
<1>0. RequestIsFit /\ input' = input
  BY SymbolsKept DEF Both, Causes
<1>1. TargetsExist(input)' = TargetsExist(input)
  BY <1>0
<1>2. main' \in {"receive", "failing", "link"} => main \in {"receive", "failing", "link"} \/ TargetsExist(input)
  BY PanicStep DEF Next, MainStep, Panics, vars, Start, ReceiveNil, ReceiveModule,
     ReceiveError, Receiving, ReceiveLinked, StartLink, Finish, ReturnError,
     ReturnCancelled, CompileFile, Cancel, Link
<1>3. cancelled' => cancelled \/ Cancellable
  BY PanicStep DEF Next, MainStep, Panics, vars, Start, ReceiveNil, ReceiveModule,
     ReceiveError, ReceiveLinked, StartLink, Finish, ReturnError, ReturnCancelled,
     CompileFile, Cancel, Link
<1> QED BY <1>0, <1>1, <1>2, <1>3 DEF RequestIsFit

\* When links start, all reachable files are in the table.
LEMMA LateStep ==
  ASSUME Both, [Next]_vars
  PROVE  LinkingIsLate'
<1>0. LinkingIsLate /\ input' = input /\ symbols.uris \subseteq symbols'.uris
  BY SymbolsKept DEF Both, Causes
<1>1. Reachable(input)' = Reachable(input)
  BY <1>0
<1> SUFFICES ASSUME NEW f \in Files, linkpc'[f] # "none"
             PROVE  f \in Reachable(input) /\ Reachable(input) \subseteq symbols'.uris
  BY <1>1 DEF LinkingIsLate
<1>2. CASE linkpc[f] # "none"
  BY <1>0, <1>2 DEF LinkingIsLate
<1>3. CASE linkpc[f] = "none"
  <2>1. StartLink /\ f \in modules
    BY <1>3, LinkStarts DEF Both
  <2>2. Healthily /\ \A g \in Goroutines : pc[g] \in {"none", "done"}
    BY <2>1, AllReceived DEF StartLink, Healthily, Both
  <2>3. modules = Reachable(input)
    BY <2>2, ModulesAreReachable DEF Both
  <2>4. modules \subseteq symbols.uris
    BY DEF Both, Inductive, ModulesWereDelivered, ModuleIsCollected
  <2> QED BY <1>0, <2>1, <2>3, <2>4
<1> QED BY <1>2, <1>3

\* A collect() that succeeds found nothing wrong, with the module or between it
\* and what is in the table.
LEMMA CollectedIsSound ==
  ASSUME NEW t, NEW m, NEW r, ~CollectFails(t, m, r)
  PROVE  /\ r = {}
         /\ ~UIDClash(m) /\ ~NameClash(m)
         /\ \A other \in t.modules : other.uid # m.uid
         /\ \A i \in DOMAIN m.types, other \in t.modules :
               other.pkg = m.pkg => [uri |-> other.uri, name |-> m.types[i].name] \notin t.types
         /\ TypesOf(m) \subseteq CollectTable(t, m).types
<1>1. ~AlreadyCollected(t, m) /\ ~ModuleUIDTaken(t, m) /\ r = {} /\ CollectReports(t, m) = {}
  BY DEF CollectFails
<1>2. ~UIDClash(m) /\ ~NameClash(m) /\ ~PackageNameTaken(t, m)
  BY <1>1 DEF CollectReports
<1>3. TypesOf(m) \subseteq CollectTable(t, m).types
  BY <1>1 DEF CollectTable
<1> QED BY <1>1, <1>2, <1>3 DEF ModuleUIDTaken, PackageNameTaken

\* What a goroutine takes to collect() is what a sub-compiler gave it.
LEMMA ToCollect ==
  ASSUME Both, [Next]_vars, NEW g \in Goroutines, pc'[g] = "collect"
  PROVE  /\ input.source[g.file].kind = "idl"
         /\ input.source[g.file].parse = "ok" \/ reported' # {}
<1>0. DeliveredIsSound /\ TypeOK
  BY DEF Both, Causes, Inductive
<1>1. CASE pc[g] = "collect"
  BY <1>0, <1>1, ReportedKept DEF DeliveredIsSound
<1>2. CASE pc[g] # "collect"
  <2>1. PICK k \in Goroutines : CompileFile(k)
    BY <1>0, <1>2, StepKinds, StartStep, ReceiveModuleStep
       DEF ReceiveNil, ReceiveError, Elsewhere, fileVars, Both, TypeOK
  <2>2. k = g
    BY <1>2, <2>1, OthersAlone DEF Both
  <2>3. CompileFileOk(g)
    BY <1>0, <1>2, <2>1, <2>2 DEF CompileFile, Lock, LoadHit, LoadMiss, Store,
       CompileFileError, CompileFileLoops, Collect, Unlock, TypeOK
  <2> QED BY <2>3 DEF CompileFileOk
<1> QED BY <1>1, <1>2

\* A module is delivered only without a fault of its own.
LEMMA NewModule ==
  ASSUME Both, [Next]_vars, NEW g \in Goroutines, result'[g] = "module", result[g] # "module"
  PROVE  /\ input.source[g.file].kind = "idl" /\ input.source[g.file].parse = "ok"
         /\ ~UIDClash(ModuleOf(g.file)) /\ ~NameClash(ModuleOf(g.file))
         /\ TypesOf(ModuleOf(g.file)) \subseteq symbols'.types
         /\ \A h \in Goroutines : result[h] = "module" /\ h.file # g.file =>
               ~Clash(ModuleOf(g.file), ModuleOf(h.file)) /\ ~Clash(ModuleOf(h.file), ModuleOf(g.file))
         /\ \A h \in Goroutines \ {g} : result'[h] = result[h]
<1> DEFINE m == ModuleOf(g.file)
<1>0. DeliveredIsSound /\ TypeOK /\ ModuleIsCollected
  BY DEF Both, Causes, Inductive
<1>1. Collect(g) /\ ~CollectFails(symbols, m, reported)
  BY NewResult DEF Both
<1>2. /\ reported = {} /\ ~UIDClash(m) /\ ~NameClash(m)
      /\ \A other \in symbols.modules : other.uid # m.uid
      /\ \A i \in DOMAIN m.types, other \in symbols.modules :
            other.pkg = m.pkg => [uri |-> other.uri, name |-> m.types[i].name] \notin symbols.types
      /\ TypesOf(m) \subseteq CollectTable(symbols, m).types
  BY <1>1, CollectedIsSound
<1>3. pc[g] = "collect" /\ symbols' = CollectTable(symbols, m)
      /\ \A h \in Goroutines \ {g} : result'[h] = result[h]
  BY <1>0, <1>1 DEF Collect, TypeOK
<1>4. input.source[g.file].kind = "idl" /\ input.source[g.file].parse = "ok"
  BY <1>0, <1>2, <1>3 DEF DeliveredIsSound
<1>5. ASSUME NEW h \in Goroutines, result[h] = "module", h.file # g.file
      PROVE  ~Clash(m, ModuleOf(h.file)) /\ ~Clash(ModuleOf(h.file), m)
  <2> DEFINE n == ModuleOf(h.file)
  <2>1. Entry(h.file) \in symbols.modules /\ TypesOf(n) \subseteq symbols.types
    BY <1>0, <1>5 DEF ModuleIsCollected, DeliveredIsSound, Entry
  <2>2. n.uid # m.uid
    BY <1>2, <2>1 DEF Entry
  <2>3. n.uri = h.file
    BY <1>0, ModuleHasItsURI DEF Goroutines
  <2>4. n.pkg = m.pkg => \A i \in DOMAIN m.types, j \in DOMAIN n.types : m.types[i].name # n.types[j].name
    <3> SUFFICES ASSUME n.pkg = m.pkg, NEW i \in DOMAIN m.types, NEW j \in DOMAIN n.types,
                        m.types[i].name = n.types[j].name
                 PROVE  FALSE
      OBVIOUS
    <3>1. [uri |-> h.file, name |-> n.types[j].name] \in symbols.types
      BY <2>1, <2>3 DEF TypesOf
    <3>2. Entry(h.file).pkg = m.pkg /\ Entry(h.file).uri = h.file
      BY DEF Entry
    <3> QED BY <1>2, <2>1, <3>1, <3>2
  <2> QED BY <2>2, <2>4 DEF Clash
<1> QED BY <1>2, <1>3, <1>4, <1>5

\* No declaration leaves the table.
LEMMA TypesKept ==
  ASSUME Both, [Next]_vars
  PROVE  symbols.types \subseteq symbols'.types
<1>1. CASE \E g \in Goroutines : CompileFile(g)
  <2> PICK g \in Goroutines : CompileFile(g)
    BY <1>1
  <2>1. symbols' = symbols \/ symbols' = CollectTable(symbols, ModuleOf(g.file))
    BY DEF CompileFile, Lock, LoadHit, LoadMiss, Store, CompileFileOk, CompileFileError,
       CompileFileLoops,
       Collect, Unlock
  <2> QED BY <2>1, CollectLeaves
<1>2. CASE ~ \E g \in Goroutines : CompileFile(g)
  BY <1>2, StepKinds, StartStep, ReceiveModuleStep
     DEF ReceiveNil, ReceiveError, Elsewhere, fileVars, Both
<1> QED BY <1>1, <1>2

\* Delivered modules stay without fault.
LEMMA SoundStep ==
  ASSUME Both, [Next]_vars
  PROVE  DeliveredIsSound'
<1>0. DeliveredIsSound /\ input' = input /\ symbols.types \subseteq symbols'.types
  BY SymbolsKept, TypesKept DEF Both, Causes
<1>1. \A f : ModuleOf(f)' = ModuleOf(f)
  BY <1>0 DEF ModuleOf
<1>2. \A g \in Goroutines :
         pc'[g] = "collect" => /\ input.source[g.file].kind = "idl"
                               /\ input.source[g.file].parse = "ok" \/ reported' # {}
  BY ToCollect
<1>3. ASSUME NEW g \in Goroutines, result'[g] = "module"
      PROVE  /\ input.source[g.file].kind = "idl" /\ input.source[g.file].parse = "ok"
             /\ ~UIDClash(ModuleOf(g.file)) /\ ~NameClash(ModuleOf(g.file))
             /\ TypesOf(ModuleOf(g.file)) \subseteq symbols'.types
  <2>1. CASE result[g] = "module"
    BY <1>0, <2>1 DEF DeliveredIsSound
  <2>2. CASE result[g] # "module"
    BY <1>3, <2>2, NewModule
  <2> QED BY <2>1, <2>2
<1>4. ASSUME NEW g \in Goroutines, NEW h \in Goroutines,
             result'[g] = "module", result'[h] = "module", g.file # h.file
      PROVE  ~Clash(ModuleOf(g.file), ModuleOf(h.file))
  <2>1. CASE result[g] = "module" /\ result[h] = "module"
    BY <1>0, <1>4, <2>1 DEF DeliveredIsSound
  <2>2. CASE result[g] # "module"
    <3>1. result[h] = "module"
      BY <1>4, <2>2, NewModule
    <3> QED BY <1>4, <2>2, <3>1, NewModule
  <2>3. CASE result[h] # "module"
    <3>1. result[g] = "module"
      BY <1>4, <2>3, NewModule
    <3> QED BY <1>4, <2>3, <3>1, NewModule
  <2> QED BY <2>1, <2>2, <2>3
<1>5. \A f : (ModuleOf(f))' = ModuleOf(f) /\ input'.source[f] = input.source[f]
  BY <1>0, <1>1
<1> QED BY <1>2, <1>3, <1>4, <1>5 DEF DeliveredIsSound

\* A module whose imports do not all open ends the call.
LEMMA ImportsStep ==
  ASSUME Both, [Next]_vars
  PROVE  ImportsExist'
<1>0. ImportsExist /\ input' = input
  BY SymbolsKept DEF Both, Causes
<1> SUFFICES ASSUME Healthily', NEW f \in modules', NEW i \in DOMAIN Imports(input, f)
             PROVE  Exists(input, Imports(input, f)[i])
  BY <1>0 DEF ImportsExist
<1>1. CASE Start
  BY <1>1, StartStep DEF Both
<1>2. CASE \E g \in Goroutines : ReceiveModule(g)
  <2> PICK g \in Goroutines : ReceiveModule(g)
    BY <1>2
  <2>1. Healthily /\ modules' = modules \cup {g.file}
    BY ReceiveModuleStep DEF Healthily, Both
  <2>2. {k \in DOMAIN Imports(input, g.file) : ~Exists(input, Imports(input, g.file)[k])} = {}
    BY DEF ReceiveModule, Failed, Healthily
  <2> QED BY <1>0, <2>1, <2>2 DEF ImportsExist
<1>3. CASE \/ Elsewhere
           \/ \E g \in Goroutines : CompileFile(g) \/ ReceiveNil(g) \/ ReceiveError(g)
  <2>1. Healthily /\ modules' = modules
    <3>1. CASE Elsewhere
      BY <3>1, ElsewhereKinds DEF Elsewhere, Healthily, Both
    <3>2. CASE \E g \in Goroutines : CompileFile(g)
      BY <3>2 DEF CompileFile, Healthily
    <3>3. CASE \E g \in Goroutines : ReceiveNil(g) \/ ReceiveError(g)
      BY <3>3 DEF ReceiveNil, ReceiveError, Receiving, Healthily
    <3> QED BY <1>3, <3>1, <3>2, <3>3
  <2> QED BY <1>0, <2>1 DEF ImportsExist
<1> QED BY <1>1, <1>2, <1>3, StepKinds

\* link() reports before it looks at the Reporter.
LEMMA LinkReportedStep ==
  ASSUME Both, [Next]_vars
  PROVE  LinkReported'
<1>0. /\ LinkReported /\ TypeOK /\ input' = input
      /\ reported \subseteq reported' /\ symbols.uris \subseteq symbols'.uris
  BY SymbolsKept, ReportedKept DEF Both, Causes, Inductive
<1>1. \A f \in Files : LinkReports(f)' \subseteq LinkReports(f)
  BY <1>0 DEF LinkReports
<1> SUFFICES ASSUME NEW f \in Files, linkpc'[f] \in {"check", "send", "done"}
             PROVE  LinkReports(f) \subseteq reported'
  BY <1>1 DEF LinkReported
<1>2. CASE linkpc[f] \in {"check", "send", "done"}
  BY <1>0, <1>2 DEF LinkReported
<1>3. CASE linkpc[f] \notin {"check", "send", "done"}
  <2>1. Resolve(f)
    <3>1. CASE \E h \in Files : Link(h) \/ ReceiveLinked(h)
      BY <1>0, <1>3, <3>1 DEF Link, Resolve, CheckReported, ReceiveLinked, TypeOK
    <3>2. CASE StartLink
      BY <1>3, <3>2 DEF StartLink
    <3>3. CASE ~StartLink /\ ~ \E h \in Files : Link(h) \/ ReceiveLinked(h)
      <4>1. linkpc' = linkpc
        BY <3>3, PanicStep DEF Next, MainStep, Panics, vars, linkVars, Start, ReceiveNil,
           ReceiveModule, ReceiveError, Finish, ReturnError, ReturnCancelled, CompileFile,
           Cancel
      <4> QED BY <1>3, <4>1
    <3> QED BY <3>1, <3>2, <3>3
  <2> QED BY <2>1, LinkableIfLinking DEF Resolve
<1> QED BY <1>2, <1>3

\* The causes of Compile's answers hold throughout.
LEMMA CausesInit == Init => Causes
<1> SUFFICES ASSUME Init PROVE Causes
  OBVIOUS
<1>1. /\ main = "start" /\ cancelled = FALSE /\ reported = {} /\ linkFailed = {} /\ modules = {}
      /\ symbols.uris = {} /\ symbols.modules = {} /\ symbols.types = {}
      /\ \A g \in Goroutines : pc[g] = "none" /\ result[g] = "none"
      /\ \A f \in Files : linkpc[f] = "none"
  BY DEF Init, EmptyTable
<1>2. RequestIsFit /\ TableOfReachable /\ AloneIfSingle /\ FailuresAreExcused /\ RaceFails
  BY <1>1 DEF RequestIsFit, TableOfReachable, AloneIfSingle, FailuresAreExcused, RaceFails
<1>3. LinkingIsLate /\ DeliveredIsSound /\ ImportsExist /\ LinkReported
  BY <1>1 DEF LinkingIsLate, DeliveredIsSound, ImportsExist, LinkReported
<1> QED BY <1>2, <1>3 DEF Causes

LEMMA BothStep == Both /\ [Next]_vars => Both'
<1> SUFFICES ASSUME Both, [Next]_vars PROVE Both'
  OBVIOUS
<1>1. Inductive'
  BY InductiveStep DEF Both
<1>2. Causes'
  BY RequestStep, TableStep, AloneStep, ExcusesStep, LateStep, SoundStep, ImportsStep,
     LinkReportedStep DEF Causes
<1> QED BY <1>1, <1>2 DEF Both

\* The causes of failures can be traced throughout every run of Compile.
THEOREM CausesAreKnown == Spec => []Both
<1>1. Init => Both
  BY InductiveInit, CausesInit DEF Both
<1> QED BY <1>1, BothStep, PTL DEF Spec

-----------------------------------------------------------------------------
(* The answers.                                                            *)

\* CompileSpec has the definitions of Sources to itself.
LEMMA SameAnswers ==
  /\ Abs!NoAnswer = NoAnswer
  /\ \A S : Abs!Image(S) = Image(S) /\ Abs!Rejected(S) = Rejected(S) /\ Abs!Failed(S) = Failed(S)
BY DEF Abs!NoAnswer, NoAnswer, Abs!Image, Image, Abs!Rejected, Rejected, Abs!Failed, Failed

LEMMA SameTargetsExist == ASSUME NEW in PROVE Abs!TargetsExist(in) <=> TargetsExist(in)
BY DEF Abs!TargetsExist, TargetsExist, Abs!Exists, Exists

LEMMA SameReachable == ASSUME NEW in PROVE Abs!Reachable(in) = Reachable(in)
BY DEF Abs!Reachable, Reachable, Abs!IsClosed, IsClosed, Abs!OpenedBy, OpenedBy,
       Abs!Opened, Opened, Abs!Exists, Exists, Abs!Imports, Imports

LEMMA SameFaults == ASSUME NEW in PROVE Abs!Faulty(in) <=> Faulty(in)
<1>1. ASSUME NEW m PROVE Abs!UIDClash(m) <=> UIDClash(m)
  BY DEF Abs!UIDClash, UIDClash, Abs!Repeats, Repeats, Abs!UidOf, UidOf,
         Abs!InputUIDClash, InputUIDClash
<1>2. ASSUME NEW m PROVE Abs!NameClash(m) <=> NameClash(m)
  BY DEF Abs!NameClash, NameClash, Abs!Repeats, Repeats, Abs!NameOf, NameOf
<1> QED BY <1>1, <1>2, SameReachable
        DEF Abs!Faulty, Faulty, Abs!Exists, Exists, Abs!Imports, Imports

LEMMA SamePanics == ASSUME NEW in PROVE Abs!MayPanic(in) <=> MayPanic(in)
BY SameReachable DEF Abs!MayPanic, MayPanic

\* Main links when it has received and linked every reachable file.
LEMMA AllAreLinked ==
  ASSUME Both, main = "link", x = expectedResults
  PROVE  /\ linked_modules = Reachable(input)
         /\ modules = Reachable(input)
         /\ \A f \in Reachable(input) : linkpc[f] = "done"
         /\ \A f \in Reachable(input) : \E g \in Goroutines : g.file = f /\ result[g] = "module"
         /\ \A g \in Goroutines : result[g] # "error"
<1>0. Inductive /\ Healthily /\ \A g \in Goroutines : pc[g] \in {"none", "done"}
  BY DEF Both, Healthily, Inductive, NothingInFlight
<1>1. linked_modules = modules /\ modules = Reachable(input)
  BY <1>0, AllLinked, ModulesAreReachable
<1>2. \A f \in Reachable(input) : linkpc[f] = "done"
  BY <1>0, <1>1 DEF Inductive, LinkCounted, Linked
<1>3. \A f \in Reachable(input) : \E g \in Goroutines : g.file = f /\ result[g] = "module"
  BY <1>0, <1>1 DEF Inductive, ModulesWereDelivered
<1>4. \A g \in Goroutines : result[g] # "error"
  BY <1>0 DEF Inductive, ResultWhenPast, DeliveredAreModules
<1> QED BY <1>1, <1>2, <1>3, <1>4

\* The image is refused exactly when something is wrong with the input.
LEMMA FinishIsFair ==
  ASSUME Both, Finish
  PROVE  reported' # {} <=> Faulty(input)
<1> DEFINE R == Reachable(input)
<1>0. /\ linked_modules = R /\ modules = R
      /\ reported' = reported \cup {Report("Check", f) :
                        f \in {m \in linked_modules : input.source[m].invalid}}
      /\ \A f \in R : linkpc[f] = "done" /\ f \in Files
      /\ \A f \in R : \E g \in Goroutines : g.file = f /\ result[g] = "module"
      /\ \A g \in Goroutines : result[g] # "error"
      /\ \A f \in R : ~input.source[f].unfoldable
  BY AllAreLinked DEF Finish, Unfoldable, Reachable
<1>1. DeliveredIsSound /\ ImportsExist /\ LinkReported /\ TableOfReachable /\ RaceFails
  BY DEF Both, Causes
<1>2. ASSUME reported' # {}
      PROVE  Faulty(input)
  <2>1. CASE reported # {}
    BY <1>0, <1>1, <2>1 DEF RaceFails
  <2>2. CASE reported = {}
    BY <1>0, <1>2, <2>2, SourceIsFaulty
  <2> QED BY <2>1, <2>2
<1>3. ASSUME reported' = {}, Faulty(input)
      PROVE  FALSE
  <2>1. reported = {} /\ \A f \in R : ~input.source[f].invalid
    BY <1>0, <1>3
  <2>2. \A f \in R : LinkReports(f) = {}
    BY <1>0, <1>1, <2>1 DEF LinkReported
  <2>3. ASSUME NEW f \in R
        PROVE  ~ \/ input.source[f].kind # "idl"
                 \/ input.source[f].parse # "ok"
                 \/ input.source[f].unresolved
                 \/ input.source[f].unfoldable
                 \/ input.source[f].invalid
                 \/ UIDClash(ModuleOf(f))
                 \/ NameClash(ModuleOf(f))
    <3>1. ~input.source[f].unresolved
      BY <2>2, <2>3 DEF LinkReports
    <3> QED BY <1>0, <1>1, <2>1, <3>1 DEF DeliveredIsSound
  <2>4. ASSUME NEW f \in R, NEW i \in DOMAIN Imports(input, f)
        PROVE  Exists(input, Imports(input, f)[i]) /\ Imports(input, f)[i] \in R
    <3>1. Exists(input, Imports(input, f)[i])
      BY <1>0, <1>1 DEF ImportsExist, Healthily, Finish
    <3>2. Imports(input, f)[i] \in symbols.uris
      BY <2>2 DEF LinkReports
    <3> QED BY <1>1, <3>1, <3>2 DEF TableOfReachable
  <2>5. \A f, h \in R : f # h => ~Clash(ModuleOf(f), ModuleOf(h))
    BY <1>0, <1>1 DEF DeliveredIsSound
  <2> QED BY <1>3, <2>3, <2>4, <2>5, FaultyMeans
<1> QED BY <1>2, <1>3

\* A step of Compile that answers gives an answer CompileSpec allows.
LEMMA AnswersAreAllowed ==
  ASSUME Both, [Next]_vars, answer' # answer
  PROVE  /\ answer = NoAnswer
         /\ \/ /\ ~TargetsExist(input) \/ MayPanic(input)
               /\ answer' = Failed("panic")
            \/ /\ TargetsExist(input)
               /\ \/ ~Faulty(input) /\ answer' = Image(Reachable(input))
                  \/ Faulty(input) /\ answer' \in {Failed("reported"), Failed("result"),
                                                   Rejected(Reachable(input))}
                  \/ MaxConcurrency > 1 /\ answer' = Failed("reported")
                  \/ Cancellable /\ answer' = Failed("context")
<1>0. /\ AnswerLast /\ TypeOK /\ RequestIsFit /\ FailuresAreExcused /\ ModulesWereDelivered
  BY DEF Both, Causes, Inductive
<1> USE DEF AnswerLast
<1>1. CASE Panics
  <2>1. answer = NoAnswer /\ answer' = Failed("panic")
    BY <1>0, <1>1, PanicStep
       DEF AnswerLast, Panics, StartPanic, FinishPanic, CompileFilePanic
  <2>2. ~TargetsExist(input) \/ MayPanic(input)
    <3>1. CASE StartPanic
      BY <3>1 DEF StartPanic
    <3>2. CASE FinishPanic
      BY <3>2, AllAreLinked DEF FinishPanic, Unfoldable, MayPanic
    <3>3. CASE \E g \in Goroutines : CompileFilePanic(g)
      BY <3>3, StartedIsReachable DEF CompileFilePanic, MayPanic, Both
    <3> QED BY <1>1, <3>1, <3>2, <3>3 DEF Panics
  <2> QED BY <2>1, <2>2
<1>2. ASSUME NEW g \in Goroutines, ReceiveModule(g)
      PROVE  /\ main = "receive" /\ Faulty(input) /\ answer' = Failed("result")
  <2>1. /\ main = "receive" /\ pc[g] = "send" /\ answer' = Failed("result")
        /\ \E i \in DOMAIN Imports(input, g.file) : ~Exists(input, Imports(input, g.file)[i])
    BY <1>2 DEF ReceiveModule, Receiving
  <2>2. g.file \in Reachable(input)
    BY <2>1, StartedIsReachable DEF Both
  <2> QED BY <2>1, <2>2, ImportIsFaulty
<1>3. CASE ReturnError
  <2>1. /\ main = "failing"
        /\ answer' = Failed(IF reported # {} THEN "reported" ELSE "result")
    BY <1>3 DEF ReturnError
  <2> QED BY <1>0, <2>1 DEF RequestIsFit, FailuresAreExcused, Excused
<1>4. CASE ReturnCancelled
  BY <1>0, <1>4 DEF ReturnCancelled, RequestIsFit
<1>5. CASE Finish
  <2>1. main = "link" /\ linked_modules = Reachable(input)
    BY <1>5, AllAreLinked DEF Finish
  <2>2. answer' = IF reported' # {} THEN Rejected(linked_modules) ELSE Image(linked_modules)
    BY <1>5 DEF Finish
  <2> QED BY <1>0, <1>5, <2>1, <2>2, FinishIsFair DEF RequestIsFit
<1>6. CASE \/ Start \/ StartLink \/ Cancel \/ UNCHANGED vars
           \/ \E g \in Goroutines : CompileFile(g) \/ ReceiveNil(g) \/ ReceiveError(g)
           \/ \E f \in Files : Link(f) \/ ReceiveLinked(f)
  BY <1>6 DEF Start, StartLink, Cancel, vars, CompileFile, ReceiveNil, ReceiveError, Link,
              ReceiveLinked
<1>7. CASE \E g \in Goroutines : ReceiveModule(g)
  BY <1>0, <1>2, <1>7 DEF RequestIsFit
<1> QED BY <1>1, <1>3, <1>4, <1>5, <1>6, <1>7 DEF Next, MainStep, Panics

\* So every step of Compile is one of CompileSpec, or changes nothing it shows.
LEMMA StepIsAllowed ==
  ASSUME Both, [Next]_vars
  PROVE  [Abs!Next]_(Abs!vars)
<1>0. input' = input
  BY SymbolsKept DEF Both
<1>1. CASE answer' = answer
  BY <1>0, <1>1 DEF Abs!vars
<1>2. CASE answer' # answer
  BY <1>0, <1>2, AnswersAreAllowed, SameAnswers, SameTargetsExist, SameReachable, SameFaults,
     SamePanics DEF Abs!Next, Abs!Panic, Abs!Succeed, Abs!Fail
<1> QED BY <1>1, <1>2

\* Compile is a safe implementation of CompileSpec, whatever files it is given
\* and however many slots the semaphore has: it answers once; an image without
\* an error holds the reachable modules, of which none has a fault; with one
\* slot an error is given only for a fault or a cancelled context.
THEOREM CompileIsSafe == Spec => Abs!Safety
<1>1. Init => Abs!Init
  BY SameAnswers DEF Init, Abs!Init
<1> QED BY <1>1, CausesAreKnown, StepIsAllowed, PTL DEF Spec, Abs!Safety

\* No file is collected twice.
UnlessRaced == MaxConcurrency = 1 => CollectedOnce

LEMMA UnlessRacedStep ==
  ASSUME Both, [Next]_vars, UnlessRaced
  PROVE  UnlessRaced'
<1> SUFFICES ASSUME MaxConcurrency = 1, NEW r \in reported', r.code = "AlreadyCollected"
             PROVE  FALSE
  BY DEF UnlessRaced, CollectedOnce
<1>0. r \notin reported
  BY DEF UnlessRaced, CollectedOnce
<1>1. CASE \E g \in Goroutines : CompileFile(g)
  <2>1. PICK g \in Goroutines : CompileFile(g)
    BY <1>1
  <2>2. Collect(g)
    BY <1>0, <2>1 DEF CompileFile, Lock, LoadHit, LoadMiss, Store, CompileFileOk,
       CompileFileError, CompileFileLoops, Unlock, Report
  <2>3. pc[g] = "collect" /\ r \in CollectReports(symbols, ModuleOf(g.file))
    BY <1>0, <2>2 DEF Collect
  <2>4. ~AlreadyCollected(symbols, ModuleOf(g.file))
    BY <2>3, ModuleHasItsURI DEF AlreadyCollected, Both, Causes, AloneIfSingle, Inductive, Goroutines
  <2> QED BY <2>3, <2>4 DEF CollectReports, Report
<1>2. CASE \E f \in Files : Link(f)
  BY <1>0, <1>2 DEF Link, Resolve, CheckReported, LinkReports, Report
<1>3. CASE Finish
  BY <1>0, <1>3 DEF Finish, Report
<1> QED BY <1>0, <1>1, <1>2, <1>3, OtherStepsReportNothing

\* With one slot "already been collected (????)" is never reported: the Load
\* and the Store of loaded have no other goroutine between them.
THEOREM FilesAreCollectedOnce == Spec => [](MaxConcurrency = 1 => CollectedOnce)
<1>1. Init => UnlessRaced
  BY DEF Init, UnlessRaced, CollectedOnce
<1>2. UnlessRaced <=> (MaxConcurrency = 1 => CollectedOnce)
  BY DEF UnlessRaced
<1> QED BY <1>1, <1>2, UnlessRacedStep, CausesAreKnown, PTL DEF Spec
=============================================================================
