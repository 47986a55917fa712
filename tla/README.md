# A formal model of mglotc

TLA+ specifications of the microglot IDL compiler, the TLC configurations that
check them on small instances, and theorems about them that TLAPS proves for all
instances. Paths are relative to the repository.

    tlc -workers 2 -config MCCompile_serial.cfg MCCompile    # check
    tlapm CompileProofs.tla                                  # prove

## The system

`mglotc` reads IDL files (protobuf or mglot syntax), makes a module of each,
links and checks the modules together, converts them to a `FileDescriptorSet` and
gives that to plugins.

| Component | State | Operations | What makes it correct |
|---|---|---|---|
| Compile orchestration `internal/compiler/compiler.go` | the receive loops' counters, the set `loaded`, the goroutines and their results | `Compile`, `compileFile` | one answer; an image of exactly the modules reached, only if nothing is wrong; nothing started before what it needs is there |
| Semaphore `semaphore.go` | slots taken | `Lock`, `Unlock` | never more holders than slots; every slot comes back, also when a call gives up |
| Exception accumulator `internal/exc` | the exceptions reported | `Report`, `Reported` | none is lost between the report and the answer |
| Global symbol table `symbol_table.go` | modules, types, attributes, inputs by URI and name | `collect`, `packageSearch` | refuses exactly what cannot be in one image, whatever order modules arrive in |
| Linker `linker_microglot.go`, `walk.go` | a local table per module; the walk's promoted names | `link` | every name resolves to what its scope says |
| Type checker `checker.go`, `idl/image.go` | a work list and what was seen | `check`, `Lookup` | ends; refuses what it says and nothing else |
| Constant folding `optimizer.go` | the values in the image, which share their `Kind` | `optimize` | the result does not depend on the order of modules; ends |
| UID completion `compiler.go` | - | `completeUIDs` | a UID for each declaration, stable |
| Sub-compiler dispatch `subcompiler*.go`, `lexer_idl.go` | - | `CompileFile` by extension, then by syntax statement | a module or a reported exception |
| Microglot lexer and parser `internal/compiler/microglot` | a token window; the syntax tree; `uid`s and unions being counted | some seventy `parse*`, `FromModule` | accepts the grammar that its comments state; ends; complains of what it refuses |
| Protobuf descriptors `internal/compiler/protobuf` | the current path; the promoted names so far | `FromFileDescriptorProto` | what goes in comes out of the image conversion |
| Image conversion `internal/idl/convert.go`, `path_state.go` | `topoSort`'s stack and what files wait for; the current path | `ToFileDescriptorSet` | dependencies first, nothing repeated, nothing lost |
| Driver `main.go` | batches of targets | plugin loop, per-package mode | every target once per plugin, never two packages in a call |
| File systems `internal/fs`, `internal/target` | roots | `Open`, `Write`, `Normalize` | the first root that has a file wins |
| Iterators `internal/iter` | a look-ahead window | `Next`, `Lookahead` | the window is a view of the sequence |
| Go generator `mglotc_gen_go` | - | writes Go text | - |

**Interaction.** `main` calls `Compile` once. `Compile` opens the targets and
starts a goroutine per file, and one for the builtin module `/protobuf.mglot`.
Each runs `compileFile` under the semaphore: it looks its path up in `loaded` (a
`sync.Map`), stores it, calls the sub-compiler, and calls `collect` on the shared
symbol table. It sends a module, nothing (another goroutine has the file) or an
error over an unbuffered channel. The caller starts goroutines for the imports of
every module it receives and waits for as many results as it started goroutines.
Then it starts one `link` per module, waits for all of these, folds constants,
checks, and answers. All of them report to one `Reporter`.

**What is hard.** The order in which results arrive; that a goroutine answers "nil"
for a file whose module is not collected yet; the Load and Store of `loaded`, which
are two operations; `packageSearch`, which takes no lock; decisions made from a
Reporter that others write to; early returns that leave goroutines behind; the
context that may end at any time; Go's map order. `PROJECT.json` lists each hazard at
its line with the properties that watch it, or the module of the plan that will.

## Modules

| Module | Contents |
|---|---|
| `SymbolTable` | `collect` and `packageSearch` as operators on the table |
| `Sources` | what a call of `Compile` is given, the files it reaches, when it is faulty |
| `CompileSpec` | the promise of `Compile` to its caller: the abstract specification |
| `Compile` | the detailed specification, one action per step between two operations on shared state |
| `CompileInvariant` | its inductive invariant, and the guards and stages that its progress is stated with |
| `CompileFaults` | the second invariant: which fault each report, failure and refusal comes from |
| `CompileProofs` | the proofs about `Compile`, and that it implements the safety part of `CompileSpec` |
| `Collecting` | any set of modules collected in any order |
| `CollectingProofs` | the proofs about `Collecting` |
| `TopoSort`, `TopoSortProofs` | `imageConverter.topoSort`, one step per turn of the loop, and its proofs |
| `CheckAPI`, `CheckAPIProofs` | the work list of `checkTypeSpecifierForAPI`, and its proofs |
| `Plugins`, `PluginsProofs` | the loop over protoc plugins and the batches of per-package mode, and its proofs |
| `Values` | one value: literals as they enter, the fold functions, what the checker admits |
| `Optimizer` | `optimize()` over the walk, values that share their `Kind`, and what can be said of it without recursion |
| `OptimizerMeaning` | what a constant means by definition, and the properties that compare folding with it |
| `OptimizerInvariant` | the inductive invariants of folding |
| `OptimizerProofs` | the proofs about `Values` and `Optimizer` |
| `ParserRules` | each parse function as a list of the tokens it expects and functions it calls |
| `Parser` | the machine that runs these lists over tokens, and what it owes its caller when it fails |
| `Descriptor` | `FromModule` of the microglot sub-compiler: from the tree to the module, whatever becomes of the types and values in it |
| `Expressions` | what becomes of these: `fromTypeSpecifier` and `fromValue` |
| `SubCompilerMicroglot` | `CompileFile`: the parser and the conversion in turn; what is expected of them |
| `ParserInvariant`, `ParserProofs` | the inductive invariant of parser and conversion, and the proofs about them |
| `Documented` | what the parser accepts, compared with `Grammar` |
| `Grammar` | the grammar of the comments of `parser_microglot.go`, and when tokens are derived from it; it models no code |
| `PathState` | `internal/idl/path_state.go` |
| `FromProto` | a .proto file's descriptor to a module, with the promotion of nested names |
| `Linker` | `completeUIDs`, what `collect` reads of a module, `link()` over the walk |
| `ToProto` | `imageConverter` without its sort |
| `Protoc` | what protoc makes of a .proto file, by its rules for names; it models no code |
| `Protobuf` | from .proto and microglot files to what each plugin gets: composes the five above with `SymbolTable` |
| `StackLemmas` | lemmas about sequences that the proofs share |
| `MC*` | the instances TLC checks |

`Compile` extends `Sources`, which extends `SymbolTable`: the symbol table the
goroutines share is the one `Collecting` examines by itself. `Protobuf` uses it a
third time, with the symbols of modules as they really are. What `Compile` has as a
flag, that a file's sub-compiler fails or that a name of it is unknown, is worked out
in `SubCompilerMicroglot` and in `Linker`.

Definitions whose comment begins with "Mutant of" are not part of a specification.
Each is one of its definitions with a plausible mistake, and there to show that
some property would notice: `PROJECT.json` pairs them with the properties.

### Compile

The variables are named after those of the code. `pc[g]` is where the goroutine
`g` is in `compileFile` (`lock`, `load`, `store`, `compile`, `collect`, `unlock`,
`send`), `main` where the caller is. A goroutine is named by the file whose import
(or `Main`, whose target) started it, by the number of that import, and by the file
it opened: several goroutines for one file are the rule.

| Action | Code |
|---|---|
| `Lock`, `Unlock` | `semaphore.go`; the deferred `Unlock` comes before the send |
| `LoadHit`, `LoadMiss`, `Store` | `compiler.go:230-233`, two operations on the `sync.Map` |
| `CompileFileOk`, `CompileFileError` | `compiler.go:234-243`, with the report that goes with it |
| `CompileFileLoops` | the parser never returns (`parser_microglot.go:218-229`); the goroutine stays in `loops` with its slot |
| `CompileFilePanic` | the sub-compiler panics (`descriptor_microglot.go:295`), which ends the process |
| `Collect` | `compiler.go:245-250`; under the table's lock, one step |
| `Start`, `StartPanic` | `compiler.go:96-130` |
| `ReceiveNil`, `ReceiveModule`, `ReceiveError` | one receive of the first loop, `compiler.go:135-170`; a send and its receive are one step, as the channel is unbuffered |
| `ReturnError`, `ReturnCancelled` | the early returns; the Reporter is read a step after the error is received |
| `StartLink`, `Resolve`, `CheckReported`, `ReceiveLinked` | `compiler.go:172-201` and `link()`; the Reporter is read in a step of its own (`linker_microglot.go:137`) |
| `Finish`, `FinishPanic` | `compiler.go:203-225`; the second if `optimize()` panics or overflows the stack |
| `Cancel` | the caller's context ends |

What a file holds is abstracted to what changes the control: how its sub-compiler
ends, what it imports, its symbols, whether a name in it is unknown to `link()` or an
expression unacceptable to `check()`, or one that `optimize()` does not survive. A
sub-compiler gives a module, fails, reports, warns, loops or panics: `Parser` and
`SubCompilerMicroglot` show when it does the last two. Nothing recovers from a panic: `main`
is `crashed` after `StartPanic` (`panic(err.Error())` of the code), `CompileFilePanic` and
`FinishPanic`, and nobody moves any more. The error `panic` stands for the answer that
never comes.

### The others

`Collecting` has one action, `collect` of one module; its state is the table and the
Reporter. `TopoSort` and `CheckAPI` have the loops of the code, over any graph.
`CheckAPI` is run on linked images, where every specifier is resolved and, by
`LinkSeesImports` and `ImageIsReachable`, refers to a type of the image. `Plugins`
keeps the indices of the loops of `main.go:134-232`; a file without a package is a
nil pointer, which `SortPanic` dereferences. An error of the conversion or of a plugin ends
the process (`ConvertFails`, `CallFails`).

**`Optimizer`.** A value is a node; `kind[n]` is its `Kind`. Propagation copies the
`Kind` of the constant (`Propagate`), which in the code is a pointer: from then on
two values have the same operands, and folding one is seen by the other. The
recursion of `walkValue` and `optimizeValue` is a stack of frames, one step a call or
return: `WalkValue`, `Descend`, `FoldOperation`, `Propagate`, `Retype`. `Overflow` is
Go's stack overflow. `order` is any order of constants and other values, as modules
come in the order in which their links end. Integers wrap and are retyped as in the
code, with widths that are parameters.

**Parser.** The parse functions are data: `ParserRules` has one list per function,
with instructions for "expect a token", "call", "loop until", "look ahead", and what
a failure returns (nothing, a partial node, or a nil that becomes an interface that is
not nil). `Parser` has one step per instruction. `calls` are the calls that have not
returned, as the stack of the code has them: what each has read so far, and what is left
of its list. A nil that goes up removes those it goes through (`Keeper`). The window of
tokens is a position: every caller starts with `Next` or looks at the first place before
each `Next`, so that `iter.Lookahead` is a view of the tokens there.
`SubCompilerMicroglot` adds the step that makes the descriptor, which may fail if the package
is derived from a URI that `url.Parse` refuses (`Outcomes`). Which fields and unions
it gets, and where the code would dereference a nil, does not depend on what becomes of
a type or a value: these two functions, which call themselves, are the constants
`TypeFrom` and `ValueFrom` of `Descriptor`, for which the run has those of
`Expressions`.

**`Protobuf`.** The steps are those of a compilation as seen from one file's module:
`CompileFile` (read, complete UIDs, collect), `Link`, then for each plugin
`StartConversion`, one `Convert` per module, `EndConversion`. The record `c` is the
`imageConverter`; the image is in it, because the conversion writes to the image
(`RenameEnum`). Go's order of a table of promoted names is a parameter that `Convert`
takes any value of. A comment is the path of the declaration it was written at, so that
a comment at another declaration shows. Packages are sequences of segments and a
promoted name is a string, since promotion concatenates and can collide.

## Runs

| Run | Shows | States | Bounds |
|---|---|---|---|
| `compile_serial` | `Compile` implements `CompileSpec`, and a file is never collected twice, with one slot | 18606 | one slot, all the interleavings it leaves; 3 files and the builtin module; a diamond, a cycle, a doubled target, and the diamond with each fault, panics and a parser that loops included |
| `compile_parallel` | the inductive invariant, types included, and the safety properties; that somebody can always move, that `Compile` answers and that all slots come back, but for a parser that loops | 23599 | two slots, cancellation at any time; the diamond, the cycle, an error, a missing import, a failed check, a parser that loops or panics |
| `compile_race` | violation: a faultless diamond is refused | | two slots; the diamond |
| `collecting` | acceptance, content, search and blame do not depend on the order | 228544 | every subset of ten modules that clash in every way, in every order |
| `topo_sort` | the order is topological, without repetition or loss, and found in finite time | 107977 | all graphs over four files, missing files and self-imports included |
| `plugins` | each plugin gets each target once, and never two packages | 717264 | three files, three targets, three choices of package, two plugins |
| `check_api` | the API check ends, is right when it rejects, and misses nothing while no type is included with two lists of parameters | 83328 | two structs, up to two fields each of seven specifiers |
| `check_api_missed` | violation: otherwise it does miss some | | |
| `optimizer` | folding keeps the meaning of values in any order of modules, folds everything if constants come before their uses, ends, overflows only for cycles, and panics only for a zero divisor, an infinity or a NaN of the source; what is accepted fits | 802349 | two constants and a third value, all orders; integers of 2, 3, 4 and 5 bits |
| `microglot` | what the parser accepts is in the grammar of its comments and the reverse, but for named exceptions; refusals are reported; structs are described with exactly their fields and unions; it ends or is in a loop it has reported | 337099 | sixteen modules that use every rule, and each of them with one token dropped, added or changed, or cut off, at every place |
| `protobuf` | plain files come out as protoc has them; comments stay; names resolve; plugins agree | 39800 | one or two messages with what may be inside, types named like built-in ones, default values; alone, beside a second and third file, or imported by a microglot file; two plugins |
| `protobuf_enums` | violation: the second plugin gets an error for an enum in a message | | the same |

Three files are enough for the races of `Compile`: two importers of one file, and a
chain or a cycle of two. Two slots are the least at which goroutines interleave in
`compileFile`. The bound on targets and imports (`MaxTargets`) is two: the shortest
list in which an import that fails follows one that was started. The faults are one
at a time, because every one ends the call. Four files are the least for a shared
dependency beside a cycle. Two plugins show that a second one starts from the image
and not from the batches of the first.

In `optimizer`, a chain of two constants and a use is the shortest in which a shared
operand is folded for one value before another looks at it. The widths keep the order of
the real ones; the numbers are at their boundaries (1 and 3 fit every unsigned type, 7
and 9 only some, products overflow the widest). `MaxStack` stands for a stack that no
finite recursion exhausts: the depth is at most one frame per value of the program and
two per node on the way (`Shallow`), here at most 3 + 2 * 8 = 19, and `StackAssumption`
says that `MaxStack` is more. The parts of a value are the nodes below its root; a value
has up to two operands, of which one may have operands of its own. In `microglot` one
mistake is what an error path is written for; most of the functions are entered only
once per module, so that longer modules would repeat rules and not combine them. In
`protobuf`, two levels of nesting are the least at which a promoted struct is the scope
of another, two messages the least at which the table of one can be used for the other,
three files the least at which a file that is not imported can change what a name means,
and two plugins the least at which the second sees what the first left.

All runs have `CHECK_DEADLOCK FALSE`: the call, the loop or the process ends.

**Fairness.** `Compile` assumes weak fairness of the caller's goroutine and of each
other one: Go runs every goroutine that can run, and one waiting for a slot gets it
as only finitely many ask, each once. Nothing is assumed of `Cancel`. Which ready
case a `select` takes is left open: weak fairness is of the caller, not of a case. That a
goroutine goes on is not that its parser returns: no step leads out of `loops`, so that
`Answered` excuses a call whose parser loops and whose context is not cancelled, and
`SlotsReturned` says that the slots of such parsers are all that is missing. `CompileSpec`
promises an answer for inputs without such a file (`MayLoop`).
The loops of `TopoSort`, `CheckAPI`, `Optimizer` and `SubCompilerMicroglot` are
sequential and go on: one goroutine runs them and waits for nobody. `Collecting`,
`Plugins` and `Protobuf` state no fairness; only safety is asked of them.

### What the violations mean

* `compile_race`: `loaded.Load` and `loaded.Store` are two calls. With more than one
  slot, the default wherever there is more than one processor, two importers of one
  file can both compile it. The second `collect` then reports "types for '...' have
  already been collected (????)". The request is refused; the image is never wrong
  (`OneModulePerFile`, `ImageIsReachable`). `LoadOrStore` would be one step.
* `check_api_missed`: the key of a type that was seen leaves its parameters out
  (`checker.go:97`). A struct with a list of text and a list of an API is accepted
  if the list of text is looked at first.
* `protobuf_enums`: the descriptor of an enum points to the name in the image, and
  `*maybeEnumType.Name = nestedName` (`convert.go:488`) changes both. Promotion has put
  the enum `E` of message `A` into the module as `A_E`; after the first conversion it is
  `E` there, while the table of `A` still says `A_E`. The second conversion then stops
  with "unexpectedly missing promoted type" (`convert.go:482`). Already in the first, `E`
  is no promoted type any more by the time the enums of the module are converted, and
  comes out a second time at the top level. `RenameStruct`, for structs, copies.

### Known exceptions

Properties that hold but for cases the code is known to treat otherwise name these
cases in a definition, which says what they are.

* `Lenient` (accepted, and not in the grammar of the comments): a variable without a
  type, an invocation of nothing, `-` as a binary operator, empty lists of types and
  scopes, comments at the end of a block of an implementation or of a switch.
* `Strict` (in that grammar, and refused): `var`, `set` and `else`, whose functions
  expect a token that their caller has stepped over, or look at the wrong one
  (`parser_microglot.go:849`, `:753`); more than one value in a `case`; a UID or literal
  without a value.
* `FailedIsReported`: a UID that means "to be completed" is refused without a report
  (`parser_microglot.go:1986`). A field or union that fails to parse is a nil inside a
  non-nil interface, and the loop of the block goes on: for ever, if no token was stepped
  over, but only after a report.
* `BrokenAfterReport`: or else until the end of the module, whose conversion panics, after a
  report as well. A union without a name panics without one
  (`descriptor_microglot.go:295`), although src/README.md:215 says that the name `Union`
  is assumed for it, and so does a field with that UID.
* `Answered`, `SlotsReturned`: a parser that loops has its slot for good, and Compile waits
  for its result unless its context ends.
* `Plain` (comes out as protoc has it) leaves out: what loses its wire format (`sint32`,
  `fixed64`), default values of fields (lost at `convert.go:555`), fields of built-in
  types where a type has that type's name (a message `Text` is taken for every `string`
  field in its package, `List` and `Presence` for the repeated and the optional ones of
  the files that import it: `protobuf/descriptor.go:375-411`, `linker_microglot.go:71`,
  `Shadowed`), enums in messages, messages in messages in messages, references to nested
  types from anywhere but their message, methods that name a type by a name which the last
  message of the file has inside it (`promotedSymbolTable` is not reset,
  `linker_microglot.go:43`), names that promotion takes, and names that a file which is
  not imported changes (`symbol_table.go:263`).
* `CommentsStay` leaves out modules with types in messages and with unions: their
  conversion counts them by the index of the messages around them.
* `Survives` (a reference that can be written down): not to a promoted type of another
  message. `NamesResolve` asks that a name that survives is that of some type in the file
  or one it imports; that it is the right one is asked by `PlainAsProtoc`, of plain files.
* `PluginsAgree` leaves out enums in messages (see `protobuf_enums`), and compares nested
  messages as sets and without locations: their order is that of a Go map and does differ.
* `AcceptedFits`: a literal gets the smallest type that holds it, and the checker takes
  it for the types that hold all of that one. What it takes fits; not all that fits is
  taken: `Int8 = 1` is refused, since `1` is a `UInt8` (`checker.go:170`). The number is that
  of the descriptor, after the cut to 32 bits (`descriptor_microglot.go:486`):
  `UInt8 = 4294967297` passes as 1, although src/README.md:162 gives the range as 0 to
  (2^8)-1.
* `Plugins`: `last` starts as the package of the first file and not of the first target
  (`main.go:156`), so that the first batch may be empty.

## Proofs

Every theorem is for all values of the constants, under the assumptions named in the
modules: finitely many files, lists of bounded length (any bound), at least one slot,
inputs that satisfy `IsInput`.

`CompileProofs` proves `Inductive` (in `CompileInvariant`) invariant and derives the
properties from it. The argument goes by these parts:

* `Counted`: in the first loop `x` is the number of goroutines that are done and
  `expectedResults` of those started. So when they are equal every goroutine started
  is done (`NothingInFlight`): no `collect` runs beside `packageSearch`
  (`LinkAfterCollect`). `FreshIsNew` is the fact that counting needs: a module is
  received once, so the goroutines for its imports are new.
* `LoadedHasOwner`, `NilWasLoaded`: a goroutine that answers nil relies on one that
  is compiling the file or has a result. When all are done and none failed, that
  result is the module. Hence the modules are closed under imports (`AllStarted`) and
  hold nothing that is not reached (`OnlyReachable`): they are the reachable files
  (`ImageIsReachable`), and their symbols are in the table before the first link
  (`LinkSeesImports`).
* `ModuleIsCollected`, `OneModulePerFile`: `collect` refuses a URI it has, so that of
  two racing goroutines one fails. The race of `compile_race` is harmless to the
  image for this reason only.
* `SlotsHeld`: the semaphore counts the goroutines between `Lock` and `Unlock`.
* `LinkCounted`, `LinksDone`, `AnswerLast`: the second loop, and that nothing is
  reported after an answer without an error (`QuietAfterSuccess`).

The same invariant gives what the liveness of `Compile` rests on, short of the scheduler.
`NeverStuck` (proved as `NobodyWaitsForever`): until there is an answer, the caller, a
goroutine in `compileFile` or one that links has a step to take, or a parser loops. As long as a loop waits,
by `Counted` or `LinkCounted` a goroutine it counted is not done; it can go on, or offers
its result, or wants a slot, and whoever has that slot can go on (`SlotsHeld`,
`StartedHasKind`). `SlotsComeBack` (`NoSlotIsLost`): when no goroutine in `compileFile` can
go on, the slots taken are those of parsers that loop, however the call ended. `StepsAreFinite` (`CallsAreFinite`):
every step takes one of finitely many actors to a later stage and none back. The guards are
written out in `CanCompile`, `CanLink` and `CanReceive`, as `ENABLED` is out of the prover's
reach. What is left to fairness is only that who can move does: `Answered` and
`SlotsReturned`, which need it, are model-checked.

None of the properties is inductive by itself: `ImageIsReachable`, for example,
follows only at the end of a chain that starts with the two counters.

The second half of `CompileProofs` proves `CompileIsSafe`: `Compile` implements `Safety` of
`CompileSpec`, the part without fairness. It needs a second invariant, `Causes` (in
`CompileFaults`), which is inductive only together with `Inductive` and goes both ways.
An error has an excuse: a report, a failed result or a failed link is due to a fault of
a reachable file, or to the race on `loaded`, which needs two slots
(`FailuresAreExcused`, `AloneIfSingle`, `LinkingIsLate`); and a race that was reported
fails a goroutine, so that it cannot turn up as a fault of the finished image
(`RaceFails`). An image without an error is deserved: what is delivered has no fault by
itself nor with another module, its imports exist, and what linking looks for has been
reported by the time the answer is given (`DeliveredIsSound`, `ImportsExist`,
`LinkReported`). `AloneIfSingle` also gives `FilesAreCollectedOnce`: with one slot
"already been collected (????)" is never reported, the counterpart of the run
`compile_race`.

`CollectingProofs` reduces the reports of `collect` to `Harmless`, a property of the
set of modules (`ReportsNothing`), by induction over the modules collected.
`TopoSortProofs` and `CheckAPIProofs` have the invariants of a work-list algorithm:
what is found is closed up to what is still on the list. `Orderable` and `Included`
are least sets, defined by quantification over closed sets rather than by recursion,
so that the provers can use them.

`PluginsProofs`: the calls made, the batches that wait and the current batch are one
list of batches, in the strict order of their packages (`CallsInOrder`, `QueueInOrder`,
`Batching`). Hence no file is in two of them. `NoneLost` follows a target from the files
looked at to a batch and from there to a call. The order of `fds` is a permutation of
the files, which is all that the proof takes from `topoSort`.

`OptimizerProofs`: every value of the program is a literal within the span of its type,
or an expression of the source (`KindsAreSound`); the folds on the stack are of
operations of the source (`Frames`). With that, what a fold gives lies in the span of
its type (`FoldedFits`), and what the checker admits for another type lies in that type's
span too, as spans grow with the width (`SpansGrow`, `AdmittedFits`): hence
`AcceptedFits`, for any widths that double at least (`HalfAssumption`).

`PanicHasCause` needs more (`Blamed`). An infinity is made by a division by zero or out of
another infinity; a panic is of a zero divisor, of infinities or of a NaN. So the cause is
found in the source if a divisor that was zero stays zero until the panic. A node
that holds a literal never becomes an operation, and the only node a fold writes is one
that has waited as that operation since it was reached (`Waiting`). That needs that no node
is folded twice at a time: what is above a fold is there for one of its operands
(`Chained`), and where constants are defined by themselves, a node that waits for itself
waits for ever (`Endless`): the recursion overflows and does not fold.

A second invariant, `Intended` (in `OptimizerInvariant`), says what folding is for. Its
premise is `Acyclic`: no constant is defined by itself. Then there
is exactly one function from nodes to meanings that agrees with the definition of each
(`Meant`). That is no induction over data for the prover: `Founded` says that every set of
nodes has one in terms of none of the set, and the proofs take the set of nodes for which a
claim fails and look at that one.

* `Meaningful`: what a node holds now, and an operation that waits to be folded into it,
  has the value that the node had in the source. Hence `MeaningKept`, whatever the order of
  the constants and however many values share a `Kind`.
* `Narrowed`: sharing makes no node depend on what it did not depend on: a set that holds
  what the node was in terms of, and what these are in terms of, holds what it is now.
* `Shallow`: below a frame are no more than the roots to come and two frames (`walkValue`
  and `optimizeValue`) for each node that is in terms of the frame's (`Above`); without a
  cycle these are fewer at each level, and the stack stays below `MaxStack`. Hence
  `OverflowIfCyclic`.
* `Folding`, if constants come before their uses: a node that is to be folded is what it was
  or a literal of the smallest type (`Final`), roots behind the walk and the operands of a
  pending fold are folded or still have a frame above (`Settled`), and so are the constants
  that a frame's node is in terms of. Hence `FoldedInOrder`.

`RootsAssumption` and `ProgramsAssumption` say that the values are finitely many and refer
to each other and not to anything else; `StackAssumption` that the stack is larger than any
recursion over a program without cycles.

`ParserProofs` proves what `SubCompilerMicroglot` owes for any tokens, of a module of any
length, through all of the parse functions and the conversion: `FailedIsReported`,
`BrokenAfterReport` and `FieldsInTheirUnions`. The invariant is `Inductive` of
`ParserInvariant`. None of the three could do without the others' parts: that a panic was
complained about needs that a nil in the tree was, and that needs to know which calls can fail.

* `Calls`, about control: what is left to do in a call are instructions that parse functions
  consist of (`Body`). This is where the functions are looked at, one lemma each
  (`FunctionsAreBodies`). Only the step of an implementation and the element of a struct
  have calls whose nil is kept, and these calls are next or not there yet (`Ready`). The
  functions for structs are `Callable` only if there is a token `struct`.
* `Started`: a function that begins with a token has stepped over it before it calls another,
  so that when it fails, the loop of its block comes to another token. The exception is one
  that was just called (`NotStarted`). A step of an implementation is chosen by the token
  that it expects first, and so is a union: it cannot fail there. A field is what is
  left if it is no union: it can, and then the parser loops. It has been told what was
  expected.
* `Begun`: before the first token nothing that fails looks back at one. So `parseUID` has a
  literal before it, and where nil goes up without a report, that is the number which means
  "to be completed".
* `Sound`, about the tree: a field begins with its name; a union has a name after its first
  token, or a brace, and among its parts no other name; an element of a struct is a field, a
  union, or a nil that was complained about. A union is built in more than one step, so that a
  call at work on it knows how much it has and what is left (`UnionAtWork`, `UnionLeft`);
  so does the call of an element.
* `Ordered`: the names inside a node come before the next node begins. A caller that waits
  knows this of where the call it waits for began (`Waiting`), the innermost one of
  where the parser is (`Working`).

In the conversion, the elements of a struct are taken one at a time (`AddElement`): the
unions so far, the fields so far, the fields of the last union. After any number of them
the names of the fields ascend, a field with a union lies between that union's name and the
next, the fields and unions are those of the elements taken, each with its union
(`MembersSound`), and all of these names come before the elements that are left
(`MembersBefore`). `OneMore` is the step: an element adds its own fields and keeps those
that are there with their unions (`AllKept`). `StructMembers` and `StructDescribed` are
what comes of it for the whole struct. What the
functions on sequences give (`KidsOf`, `FromStruct`) is worked out from their definitions by
looking at the least place where a claim fails (`LeastOf`, `KidsFound`, `MembersFound`).

`InputsAssumption` says that the inputs are made of the token types that the lexer gives.
Nothing is assumed of `TypeFrom` and `ValueFrom`.

`TypeOK` of `Collecting`, `TopoSort` and `CheckAPI` is a part of the invariants that
their proofs use, and proved with them.

Model-checked only:

* what is a liveness property (`Answered`, `SlotsReturned`, `Terminates`, `Ends`), which is
  out of the prover's reach, and with it the liveness part of `Implements`;
* `AcceptedIsDocumented` and `DocumentedIsAccepted`: when tokens are derived from the grammar
  is defined by recursion over it (`Grammar`), and what a recursive operator gives for every
  input is out of the prover's reach too;
* `Protobuf`, for the same reason: nested messages are trees, and promotion, linking, the
  conversion and protoc's rules for names are all recursive in them.

## What is not modelled

* Characters: the lexers, the scan for the syntax statement, the text of literals and
  comments. Tokens are the input of `Parser`, and an ill-formed literal is a token of its
  own (`Malformed`).
* The parser of .proto files, a library: descriptors as it would give them are the input
  of `FromProto`.
* JSON names, field and enum numbers in the conversions of descriptors: they are copied, and
  nothing decides by them. Options, extensions and reserved ranges: `convert.go` leaves them
  out, so that `Plain` and `Protoc` speak of files without them.
* In `addMapEntryQualification`, a package that is a prefix, as a string, of the name of
  a message: names are segments here.
* `Linker`: SDKs, annotations and default values, which the same functions walk.
* The checks of `check()` other than that of APIs and that of a constant's type.
* Hashes: UIDs are taken to be different if names are; what `collect` makes of equal
  ones is in `Collecting`.
* The values of floats: of a float `Values` keeps the sign and whether it is zero, infinite
  or not a number. An operation has all outcomes that numbers of these classes can have, one
  that fits no type included.
* `iter.Lookahead` by itself: see "Parser" above. The file systems, and the embedded Go
  generator, which writes text.
* A second `Compile` of the same compiler, which would start with the old reports. The
  command line makes one call per process.

## Plan

Done: `SymbolTable`, `Sources`, `CompileSpec`, `Compile`; `Collecting`; `TopoSort` and
`Plugins`; `CheckAPI`; the proofs of these; `Values` and `Optimizer`; the parser; the way
of .proto files through `FromProto`, `Linker` and `ToProto`; the safety part of the
refinement `Implements`; that the microglot sub-compiler complains of what it refuses or
panics of, and that it keeps fields in their unions. Left, in this order:

1. SDKs, annotations and default values in `Linker`; annotations that are values in
   `ToProto`.
2. `UIDs`: `completeUIDs` with a hash that may collide, and what `collect` makes of it.
3. `Lookahead`: the scan for the syntax statement of `SubCompilerIDL` over the window of
   characters, and the lexer's states.
4. `FileSystems`: roots in order, directories, normalisation, and the path a module
   gets; to be composed with `Sources` in place of `open`.
5. `Recompile`: a compiler kept for several calls, with its semaphore and Reporter.
