---------------------------- MODULE PluginsProofs -----------------------------
(***************************************************************************)
(* Proofs about Plugins: what the plugins are asked for in per-package     *)
(* mode, for any files, packages, targets and number of plugins, and any   *)
(* order that the unstable sort gives.                                     *)
(***************************************************************************)
EXTENDS Plugins, StackLemmas, FiniteSetTheorems

-----------------------------------------------------------------------------
(* The invariant.                                                          *)

\* A batch has targets of one package, none of them twice.
IsBatch(b) ==
    /\ b \in Seq(Files)
    /\ \A k \in DOMAIN b : Target(b[k])
    /\ \A k, l \in DOMAIN b : package[b[k]] = package[b[l]] /\ (b[k] = b[l] => k = l)

\* All of one batch is of earlier packages than all of another.
Before(b, d) == \A k \in DOMAIN b, l \in DOMAIN d : package[b[k]] < package[d[l]]

\* The file is in one of the batches that wait, or in a call of plugin p.
IsQueued(f) == \E j \in DOMAIN packageTargets : f \in Range(packageTargets[j])
IsServed(p, f) == \E n \in CallsOf(p) : f \in Range(calls[n].files)

Types ==
    /\ package \in [Files -> Int]
    /\ order \in Orderings(Files)
    /\ plugin \in Nat \ {0}
    /\ calls \in Seq([plugin : Nat, files : Seq(Files)])
    /\ packageTargets \in Seq(Seq(Files))

\* The calls of a plugin are batches, made in the order of their packages.
CallsInOrder ==
    /\ \A n \in DOMAIN calls : calls[n].plugin \in 1..plugin /\ IsBatch(calls[n].files)
    /\ \A m, n \in DOMAIN calls :
          m < n /\ calls[m].plugin = calls[n].plugin => Before(calls[m].files, calls[n].files)

\* So are the batches that wait, and they come after the calls.
QueueInOrder ==
    /\ \A j \in DOMAIN packageTargets : IsBatch(packageTargets[j])
    /\ \A j, k \in DOMAIN packageTargets : j < k => Before(packageTargets[j], packageTargets[k])
    /\ \A n \in CallsOf(plugin), j \in DOMAIN packageTargets :
          Before(calls[n].files, packageTargets[j])

\* A plugin is not called before its batches are made.
CallsAreLast ==
    /\ pc \in {"convert", "sort", "batch"} => CallsOf(plugin) = {}
    /\ pc \in {"convert", "sort"} => packageTargets = << >>

\* The files looked at are in the batches, if they are targets; the others are of
\* the package of the current batch or of later ones.
Batching ==
    pc = "batch" =>
       /\ fds \in Orderings(Files)
       /\ \A m, n \in DOMAIN fds : m < n => package[fds[m]] <= package[fds[n]]
       /\ i \in 0..Len(fds)
       /\ last \in Int
       /\ IsBatch(currentTargets)
       /\ \A k \in DOMAIN currentTargets : package[currentTargets[k]] = last
       /\ \A k \in DOMAIN currentTargets : \E m \in 1..i : currentTargets[k] = fds[m]
       /\ \A j \in DOMAIN packageTargets : \A k \in DOMAIN packageTargets[j] :
             package[packageTargets[j][k]] < last
       /\ \A m \in DOMAIN fds : m > i => last <= package[fds[m]]
       /\ \A m \in 1..i :
             Target(fds[m]) => fds[m] \in Range(currentTargets) \/ IsQueued(fds[m])

\* No target is lost between the batches and the calls, nor after them.
NoneLost ==
    /\ pc = "call" => \A f \in Files : Target(f) => IsQueued(f) \/ IsServed(plugin, f)
    /\ \A p \in 1..(plugin - 1), f \in Files : Target(f) => IsServed(p, f)

Inductive ==
    perPackageMode =>
       Types /\ CallsInOrder /\ QueueInOrder /\ CallsAreLast /\ Batching /\ NoneLost

-----------------------------------------------------------------------------
(* Orders and batches.                                                     *)

\* In an order of the files each comes once.
LEMMA OrderingsAreSequences ==
    ASSUME NEW s \in Orderings(Files)
    PROVE  /\ s \in Seq(Files)
           /\ Len(s) = Cardinality(Files) /\ Len(s) \in Nat \ {0}
           /\ \A f \in Files : \E m \in 1..Len(s) : f = s[m]
           /\ \A m, n \in DOMAIN s : s[m] = s[n] => m = n
<1> DEFINE c == Cardinality(Files)
<1>1. c \in Nat /\ c # 0
  BY FilesAssumption, FS_CardinalityType, FS_EmptySet
<1>2. s \in [1..c -> Files] /\ Range(s) = Files
  BY DEF Orderings
<1>3. s \in Seq(Files) /\ Len(s) = c
  BY <1>1, <1>2
<1>4. s \in Surjection(1..c, Files)
  BY <1>2 DEF Surjection, Range
<1>5. IsFiniteSet(1..c) /\ Cardinality(1..c) = c
  BY <1>1, FS_Interval
<1>6. s \in Injection(1..c, Files)
  BY <1>4, <1>5, FS_SurjSameCardinalityImpliesInj
<1>7. \A m, n \in 1..c : s[m] = s[n] => m = n
  BY <1>6 DEF Injection, IsInjective
<1>8. \A f \in Files : \E m \in 1..c : f = s[m]
  BY <1>2 DEF Range
<1> QED
  BY <1>1, <1>3, <1>7, <1>8

LEMMA EmptyIsBatch == IsBatch(<< >>)
BY DEF IsBatch

\* A batch takes another target of its package.
LEMMA ExtendBatch ==
    ASSUME NEW b, IsBatch(b), NEW f \in Files, Target(f), package \in [Files -> Int],
           \A k \in DOMAIN b : package[b[k]] = package[f] /\ b[k] # f
    PROVE  IsBatch(Append(b, f))
<1>1. /\ Append(b, f) \in Seq(Files)
      /\ DOMAIN Append(b, f) = DOMAIN b \cup {Len(b) + 1}
      /\ \A k \in DOMAIN b : Append(b, f)[k] = b[k]
      /\ Append(b, f)[Len(b) + 1] = f
  BY DEF IsBatch
<1> QED
  BY <1>1 DEF IsBatch

\* What steps leave alone that change neither calls nor batches.
LEMMA CallsStay ==
    ASSUME CallsInOrder, UNCHANGED <<request, plugin, calls>>
    PROVE  CallsInOrder'
BY DEF CallsInOrder, request, IsBatch, Before, Target

LEMMA QueueStays ==
    ASSUME QueueInOrder, UNCHANGED <<request, plugin, calls, packageTargets>>
    PROVE  QueueInOrder'
BY DEF QueueInOrder, request, IsBatch, Before, Target, CallsOf

LEMMA EmptyQueueIsInOrder ==
    ASSUME packageTargets = << >>
    PROVE  QueueInOrder
BY DEF QueueInOrder

\* The targets that earlier plugins were asked for.
LEMMA ServedStay ==
    ASSUME NoneLost, UNCHANGED <<request, plugin, calls>>
    PROVE  \A p \in 1..(plugin' - 1), f \in Files : Target(f)' => IsServed(p, f)'
BY DEF NoneLost, request, Target, IsServed, CallsOf

-----------------------------------------------------------------------------
(* The steps.                                                              *)

LEMMA InitIsInductive == Init => Inductive
<1> SUFFICES ASSUME Init PROVE Inductive
  OBVIOUS
<1>1. Types
  BY BoundsAssumption DEF Init, Types, NoPackage
<1>2. CallsOf(plugin) = {} /\ CallsInOrder
  BY DEF Init, CallsInOrder, CallsOf
<1>3. QueueInOrder /\ CallsAreLast /\ Batching /\ NoneLost
  BY <1>2, EmptyQueueIsInOrder DEF Init, CallsAreLast, Batching, NoneLost
<1> QED
  BY <1>1, <1>2, <1>3 DEF Inductive

LEMMA ConvertIsInductive ==
    ASSUME Inductive, perPackageMode, Convert
    PROVE  Inductive'
<1>1. UNCHANGED <<request, plugin, calls>> /\ packageTargets' = << >> /\ pc = "convert" /\ pc' = "sort"
  BY DEF Convert, batching
<1>2. Types'
  BY <1>1 DEF Inductive, Types, request, Orderings
<1>3. CallsInOrder' /\ QueueInOrder'
  BY <1>1, CallsStay, EmptyQueueIsInOrder DEF Inductive, QueueInOrder
<1>4. CallsAreLast' /\ Batching'
  BY <1>1 DEF Inductive, CallsAreLast, Batching, CallsOf
<1>5. NoneLost'
  BY <1>1, ServedStay DEF Inductive, NoneLost
<1> QED
  BY <1>2, <1>3, <1>4, <1>5 DEF Inductive

LEMMA SortIsInductive ==
    ASSUME Inductive, perPackageMode, SortByPackage
    PROVE  Inductive'
<1>1. /\ UNCHANGED <<request, plugin, packageTargets, calls>>
      /\ pc = "sort" /\ pc' = "batch" /\ i' = 0 /\ currentTargets' = << >>
  BY DEF SortByPackage
<1>2. Types' /\ CallsInOrder' /\ QueueInOrder'
  BY <1>1, CallsStay, QueueStays DEF Inductive, Types, request
<1>3. CallsAreLast' /\ packageTargets' = << >>
  BY <1>1 DEF Inductive, CallsAreLast, CallsOf
<1>4. Batching'
  <2>1. /\ fds' \in Orderings(Files)
        /\ \A m, n \in DOMAIN fds' : m < n => package[fds'[m]] <= package[fds'[n]]
        /\ last' = package[fds'[1]]
    BY DEF SortByPackage
  <2>2. fds' \in Seq(Files) /\ Len(fds') \in Nat \ {0}
    BY <2>1, OrderingsAreSequences
  <2>3. /\ \A m \in DOMAIN fds' : package[fds'[m]] \in Int
        /\ last' \in Int /\ 1 \in DOMAIN fds'
    BY <2>1, <2>2 DEF Inductive, Types
  <2>4. \A m \in DOMAIN fds' : last' <= package[fds'[m]]
    BY <2>1, <2>2, <2>3
  <2> QED
    BY <1>1, <1>3, <2>1, <2>2, <2>3, <2>4, EmptyIsBatch DEF Batching, request, IsBatch
<1>5. NoneLost'
  BY <1>1, ServedStay DEF Inductive, NoneLost
<1> QED
  BY <1>2, <1>3, <1>4, <1>5 DEF Inductive

\* What the loop is about to look at.
LEMMA NextFile ==
    ASSUME Inductive, perPackageMode, pc = "batch", i < Len(fds)
    PROVE  /\ i \in Nat /\ i + 1 \in DOMAIN fds /\ Len(fds) \in Nat
           /\ fds \in Seq(Files) /\ fds[i + 1] \in Files
           /\ package[fds[i + 1]] \in Int /\ last \in Int /\ last <= package[fds[i + 1]]
           /\ 1..(i + 1) = 1..i \cup {i + 1}
           /\ \A m \in 1..i : m \in DOMAIN fds /\ fds[m] # fds[i + 1]
<1>1. fds \in Orderings(Files) /\ i \in 0..Len(fds) /\ last \in Int
  BY DEF Inductive, Batching
<1>2. fds \in Seq(Files) /\ Len(fds) \in Nat /\ \A m, n \in DOMAIN fds : fds[m] = fds[n] => m = n
  BY <1>1, OrderingsAreSequences
<1>3. i \in Nat /\ i + 1 \in DOMAIN fds /\ 1..(i + 1) = 1..i \cup {i + 1}
  BY <1>1, <1>2
<1>4. \A m \in 1..i : m \in DOMAIN fds /\ fds[m] # fds[i + 1]
  BY <1>2, <1>3
<1>5. fds[i + 1] \in Files /\ package[fds[i + 1]] \in Int /\ last <= package[fds[i + 1]]
  BY <1>2, <1>3 DEF Inductive, Types, Batching
<1> QED
  BY <1>1, <1>2, <1>3, <1>4, <1>5

\* What a turn of the loop has to show.
LEMMA BatchingGoesOn ==
    ASSUME Inductive, perPackageMode, pc = "batch", UNCHANGED <<request, pc, fds>>,
           i' \in 0..Len(fds), last' \in Int, IsBatch(currentTargets'),
           \A k \in DOMAIN currentTargets' : package[currentTargets'[k]] = last',
           \A k \in DOMAIN currentTargets' : \E m \in 1..i' : currentTargets'[k] = fds[m],
           \A j \in DOMAIN packageTargets' : \A k \in DOMAIN packageTargets'[j] :
              package[packageTargets'[j][k]] < last',
           \A m \in DOMAIN fds : m > i' => last' <= package[fds[m]],
           \A m \in 1..i' :
              Target(fds[m]) => fds[m] \in Range(currentTargets') \/ IsQueued(fds[m])'
    PROVE  Batching'
<1>1. package' = package /\ targets' = targets /\ fds' = fds
  BY DEF request
<1>2. fds' \in Orderings(Files) /\ \A m, n \in DOMAIN fds' : m < n => package'[fds'[m]] <= package'[fds'[n]]
  BY <1>1 DEF Inductive, Batching
<1>3. IsBatch(currentTargets)'
  BY <1>1 DEF IsBatch, Target
<1>4. \A m \in 1..i' : Target(fds[m])' => fds[m] \in Range(currentTargets') \/ IsQueued(fds[m])'
  BY <1>1 DEF Target
<1> QED
  BY <1>1, <1>2, <1>3, <1>4 DEF Batching

LEMMA SkipIsInductive ==
    ASSUME Inductive, perPackageMode, Skip
    PROVE  Inductive'
<1>1. /\ UNCHANGED <<request, plugin, pc, fds, last, currentTargets, packageTargets, calls>>
      /\ pc = "batch" /\ i < Len(fds) /\ i' = i + 1 /\ ~Target(fds[i + 1])
  BY DEF Skip
<1>2. Types' /\ CallsInOrder' /\ QueueInOrder'
  BY <1>1, CallsStay, QueueStays DEF Inductive, Types, request
<1>3. CallsAreLast'
  BY <1>1 DEF Inductive, CallsAreLast, CallsOf
<1>4. Batching'
  <2>1. i' \in 0..Len(fds)
    BY <1>1, NextFile
  <2>2. \A k \in DOMAIN currentTargets : \E m \in 1..i' : currentTargets[k] = fds[m]
    BY <1>1, NextFile DEF Inductive, Batching
  <2>3. \A m \in DOMAIN fds : m > i' => last <= package[fds[m]]
    BY <1>1, NextFile DEF Inductive, Batching
  <2>4. \A m \in 1..i' : Target(fds[m]) => fds[m] \in Range(currentTargets) \/ IsQueued(fds[m])
    BY <1>1, NextFile DEF Inductive, Batching
  <2> QED
    BY <1>1, <2>1, <2>2, <2>3, <2>4, BatchingGoesOn DEF Inductive, Batching, IsQueued
<1>5. NoneLost'
  BY <1>1, ServedStay DEF Inductive, NoneLost
<1> QED
  BY <1>2, <1>3, <1>4, <1>5 DEF Inductive

LEMMA ExtendIsInductive ==
    ASSUME Inductive, perPackageMode, Extend
    PROVE  Inductive'
<1> DEFINE f == fds[i + 1]
<1>1. /\ UNCHANGED <<request, plugin, pc, fds, last, packageTargets, calls>>
      /\ pc = "batch" /\ i < Len(fds) /\ i' = i + 1
      /\ Target(f) /\ package[f] = last
      /\ currentTargets' = Append(currentTargets, f)
  BY DEF Extend
<1>2. Types' /\ CallsInOrder' /\ QueueInOrder'
  BY <1>1, CallsStay, QueueStays DEF Inductive, Types, request
<1>3. CallsAreLast'
  BY <1>1 DEF Inductive, CallsAreLast, CallsOf
<1>4. Batching'
  <2>1. i' \in 0..Len(fds)
    BY <1>1, NextFile
  <2>2. /\ IsBatch(currentTargets)
        /\ \A k \in DOMAIN currentTargets : package[currentTargets[k]] = last
        /\ \A k \in DOMAIN currentTargets : \E m \in 1..i : currentTargets[k] = fds[m]
    BY <1>1 DEF Inductive, Batching
  <2>3. currentTargets \in Seq(Files) /\ f \in Files
    BY <1>1, <2>2, NextFile DEF IsBatch
  <2>4. \A k \in DOMAIN currentTargets : package[currentTargets[k]] = package[f] /\ currentTargets[k] # f
    BY <1>1, <2>2, NextFile
  <2>5. IsBatch(currentTargets')
    BY <1>1, <2>2, <2>3, <2>4, ExtendBatch DEF Inductive, Types
  <2>6. /\ DOMAIN currentTargets' = DOMAIN currentTargets \cup {Len(currentTargets) + 1}
        /\ \A k \in DOMAIN currentTargets : currentTargets'[k] = currentTargets[k]
        /\ currentTargets'[Len(currentTargets) + 1] = f
    BY <1>1, <2>3
  <2>7. \A k \in DOMAIN currentTargets' : package[currentTargets'[k]] = last
    BY <1>1, <2>2, <2>6
  <2>8. \A k \in DOMAIN currentTargets' : \E m \in 1..i' : currentTargets'[k] = fds[m]
    <3>1. 1..i' = 1..i \cup {i + 1}
      BY <1>1, NextFile
    <3> QED
      BY <2>2, <2>6, <3>1
  <2>9. \A m \in DOMAIN fds : m > i' => last <= package[fds[m]]
    BY <1>1, NextFile DEF Inductive, Batching
  <2>10. \A m \in 1..i' : Target(fds[m]) => fds[m] \in Range(currentTargets') \/ IsQueued(fds[m])
    <3>1. Range(currentTargets') = Range(currentTargets) \cup {f}
      BY <1>1, <2>3, RangeOfAppend
    <3> QED
      BY <1>1, <3>1, NextFile DEF Inductive, Batching
  <2>11. last' \in Int /\ \A j \in DOMAIN packageTargets' : \A k \in DOMAIN packageTargets'[j] :
            package[packageTargets'[j][k]] < last'
    BY <1>1 DEF Inductive, Batching
  <2> QED
    BY <1>1, <2>1, <2>5, <2>7, <2>8, <2>9, <2>10, <2>11, BatchingGoesOn DEF IsQueued
<1>5. NoneLost'
  BY <1>1, ServedStay DEF Inductive, NoneLost
<1> QED
  BY <1>2, <1>3, <1>4, <1>5 DEF Inductive

\* The current batch goes to the end of those that wait.
LEMMA QueueCurrent ==
    ASSUME Inductive, perPackageMode, pc = "batch", UNCHANGED <<request, plugin, calls>>,
           packageTargets' = Append(packageTargets, currentTargets)
    PROVE  /\ Types' /\ QueueInOrder'
           /\ \A f \in Files : IsQueued(f)' <=> IsQueued(f) \/ f \in Range(currentTargets)
<1>1. /\ packageTargets \in Seq(Seq(Files))
      /\ IsBatch(currentTargets) /\ currentTargets \in Seq(Files)
      /\ \A k \in DOMAIN currentTargets : package[currentTargets[k]] = last
      /\ \A j \in DOMAIN packageTargets : \A k \in DOMAIN packageTargets[j] :
            package[packageTargets[j][k]] < last
  BY DEF Inductive, Types, Batching, IsBatch
<1>2. /\ packageTargets' \in Seq(Seq(Files))
      /\ DOMAIN packageTargets' = DOMAIN packageTargets \cup {Len(packageTargets) + 1}
      /\ \A j \in DOMAIN packageTargets : packageTargets'[j] = packageTargets[j]
      /\ packageTargets'[Len(packageTargets) + 1] = currentTargets
      /\ \A j \in DOMAIN packageTargets : j < Len(packageTargets) + 1
  BY <1>1
<1>3. Types'
  BY <1>2 DEF Inductive, Types, request
<1>4. \A j \in DOMAIN packageTargets : Before(packageTargets[j], currentTargets)
  BY <1>1 DEF Before
<1>5. CallsOf(plugin) = {}
  BY DEF Inductive, CallsAreLast
<1>6. QueueInOrder'
  <2>1. \A j \in DOMAIN packageTargets' : IsBatch(packageTargets'[j])
    BY <1>1, <1>2 DEF Inductive, QueueInOrder
  <2>2. \A j, k \in DOMAIN packageTargets' :
           j < k => Before(packageTargets'[j], packageTargets'[k])
    BY <1>1, <1>2, <1>4 DEF Inductive, QueueInOrder
  <2> QED
    BY <1>5, <2>1, <2>2 DEF QueueInOrder, request, IsBatch, Before, Target, CallsOf
<1>7. ASSUME NEW f \in Files
      PROVE  IsQueued(f)' <=> IsQueued(f) \/ f \in Range(currentTargets)
  BY <1>2 DEF IsQueued
<1> QED
  BY <1>3, <1>6, <1>7

LEMMA FlushIsInductive ==
    ASSUME Inductive, perPackageMode, Flush
    PROVE  Inductive'
<1> DEFINE f == fds[i + 1]
<1>1. /\ UNCHANGED <<request, plugin, pc, fds, calls>>
      /\ pc = "batch" /\ i < Len(fds) /\ i' = i + 1
      /\ Target(f) /\ package[f] # last /\ last' = package[f]
      /\ currentTargets' = <<f>>
      /\ packageTargets' = Append(packageTargets, currentTargets)
  BY DEF Flush
<1>2. Types' /\ CallsInOrder' /\ QueueInOrder'
  BY <1>1, CallsStay, QueueCurrent DEF Inductive
<1>3. CallsAreLast'
  BY <1>1 DEF Inductive, CallsAreLast, CallsOf
<1>4. Batching'
  <2>1. i' \in 0..Len(fds) /\ last' \in Int /\ last < last' /\ f \in Files
    BY <1>1, NextFile
  <2>2. IsBatch(currentTargets')
    BY <1>1, <2>1 DEF IsBatch
  <2>3. /\ \A k \in DOMAIN currentTargets' : package[currentTargets'[k]] = last'
        /\ \A k \in DOMAIN currentTargets' : \E m \in 1..i' : currentTargets'[k] = fds[m]
    BY <1>1, NextFile
  <2>4. \A j \in DOMAIN packageTargets' : \A k \in DOMAIN packageTargets'[j] :
           package[packageTargets'[j][k]] < last'
    <3>1. /\ packageTargets \in Seq(Seq(Files)) /\ currentTargets \in Seq(Files)
          /\ \A k \in DOMAIN currentTargets : package[currentTargets[k]] = last
          /\ \A j \in DOMAIN packageTargets : \A k \in DOMAIN packageTargets[j] :
                package[packageTargets[j][k]] < last
          /\ package \in [Files -> Int] /\ last \in Int
      BY <1>1 DEF Inductive, Types, Batching, IsBatch
    <3>2. /\ DOMAIN packageTargets' = DOMAIN packageTargets \cup {Len(packageTargets) + 1}
          /\ \A j \in DOMAIN packageTargets : packageTargets'[j] = packageTargets[j]
          /\ packageTargets'[Len(packageTargets) + 1] = currentTargets
      BY <1>1, <3>1
    <3>3. ASSUME NEW j \in DOMAIN packageTargets, NEW k \in DOMAIN packageTargets[j]
          PROVE  package[packageTargets[j][k]] < last'
      <4>1. packageTargets[j][k] \in Files
        BY <3>1
      <4> QED
        BY <2>1, <3>1, <4>1
    <3> QED
      BY <2>1, <3>1, <3>2, <3>3
  <2>5. \A m \in DOMAIN fds : m > i' => last' <= package[fds[m]]
    BY <1>1, NextFile DEF Inductive, Batching
  <2>6. \A m \in 1..i' : Target(fds[m]) => fds[m] \in Range(currentTargets') \/ IsQueued(fds[m])'
    <3>1. Range(currentTargets') = {f}
      BY <1>1 DEF Range
    <3>2. \A m \in 1..i : fds[m] \in Files
      BY <1>1, NextFile
    <3>3. \A m \in 1..i : Target(fds[m]) => IsQueued(fds[m])'
      BY <1>1, <3>2, QueueCurrent DEF Inductive, Batching
    <3> QED
      BY <1>1, <3>1, <3>3, NextFile
  <2> QED
    BY <1>1, <2>1, <2>2, <2>3, <2>4, <2>5, <2>6, BatchingGoesOn
<1>5. NoneLost'
  BY <1>1, ServedStay DEF Inductive, NoneLost
<1> QED
  BY <1>2, <1>3, <1>4, <1>5 DEF Inductive

LEMMA EndIsInductive ==
    ASSUME Inductive, perPackageMode, EndBatches
    PROVE  Inductive'
<1>1. /\ UNCHANGED <<request, plugin, fds, calls>>
      /\ pc = "batch" /\ pc' = "call" /\ i = Len(fds)
      /\ packageTargets' = IF currentTargets = << >> THEN packageTargets
                           ELSE Append(packageTargets, currentTargets)
  BY DEF EndBatches
<1>2. /\ Types' /\ QueueInOrder'
      /\ \A f \in Files : f \in Range(currentTargets) \/ IsQueued(f) => IsQueued(f)'
  <2>1. CASE currentTargets = << >>
    <3>1. UNCHANGED packageTargets /\ Range(currentTargets) = {}
      BY <1>1, <2>1 DEF Range
    <3> QED
      BY <1>1, <3>1, QueueStays DEF Inductive, Types, request, IsQueued
  <2>2. CASE currentTargets # << >>
    BY <1>1, <2>2, QueueCurrent
  <2> QED
    BY <2>1, <2>2
<1>3. CallsInOrder'
  BY <1>1, CallsStay DEF Inductive
<1>4. CallsAreLast' /\ Batching'
  BY <1>1 DEF CallsAreLast, Batching
<1>5. NoneLost'
  <2>1. ASSUME NEW f \in Files, Target(f)'
        PROVE  IsQueued(f)'
    <3>1. Target(f)
      BY <1>1, <2>1 DEF Target, request
    <3>2. fds \in Orderings(Files)
      BY <1>1 DEF Inductive, Batching
    <3>3. PICK m \in 1..i : f = fds[m]
      BY <1>1, <3>2, OrderingsAreSequences
    <3> QED
      BY <1>1, <1>2, <3>1, <3>3 DEF Inductive, Batching
  <2> QED
    BY <1>1, <2>1, ServedStay DEF Inductive, NoneLost
<1> QED
  BY <1>2, <1>3, <1>4, <1>5 DEF Inductive

LEMMA CallIsInductive ==
    ASSUME Inductive, perPackageMode, Call
    PROVE  Inductive'
<1> DEFINE call == [plugin |-> plugin, files |-> Head(packageTargets)]
<1>1. /\ UNCHANGED <<request, plugin, pc>> /\ pc = "call" /\ packageTargets # << >>
      /\ calls' = Append(calls, call)
      /\ packageTargets' = Tail(packageTargets)
  BY DEF Call
<1>2. /\ packageTargets \in Seq(Seq(Files)) /\ calls \in Seq([plugin : Nat, files : Seq(Files)])
      /\ plugin \in Nat \ {0}
  BY DEF Inductive, Types
<1>3. /\ 1 \in DOMAIN packageTargets /\ Head(packageTargets) = packageTargets[1]
      /\ packageTargets' \in Seq(Seq(Files))
      /\ \A j \in DOMAIN packageTargets' :
            j + 1 \in DOMAIN packageTargets /\ packageTargets'[j] = packageTargets[j + 1]
      /\ \A j \in DOMAIN packageTargets' : j \in Nat \ {0}
      /\ \A j \in DOMAIN packageTargets : j = 1 \/ j - 1 \in DOMAIN packageTargets'
  <2>1. /\ Len(packageTargets) \in Nat \ {0} /\ DOMAIN packageTargets = 1..Len(packageTargets)
        /\ packageTargets' \in Seq(Seq(Files))
        /\ Len(packageTargets') = Len(packageTargets) - 1
    BY <1>1, <1>2
  <2>2. DOMAIN packageTargets' = 1..(Len(packageTargets) - 1)
    BY <2>1
  <2>3. \A j \in 1..(Len(packageTargets) - 1) : packageTargets'[j] = packageTargets[j + 1]
    BY <1>1, <1>2
  <2> QED
    BY <1>1, <1>2, <2>1, <2>2, <2>3
<1>4. call \in [plugin : Nat, files : Seq(Files)]
  BY <1>2, <1>3
<1>5. /\ calls' \in Seq([plugin : Nat, files : Seq(Files)])
      /\ DOMAIN calls' = DOMAIN calls \cup {Len(calls) + 1}
      /\ \A n \in DOMAIN calls : calls'[n] = calls[n] /\ n < Len(calls) + 1
      /\ calls'[Len(calls) + 1] = call
  BY <1>1, <1>2, <1>4
<1>6. IsBatch(packageTargets[1])
  BY <1>3 DEF Inductive, QueueInOrder
<1>7. Types'
  BY <1>1, <1>3, <1>5 DEF Inductive, Types, request
<1>8. CallsInOrder'
  <2>1. \A n \in DOMAIN calls' : calls'[n].plugin \in 1..plugin /\ IsBatch(calls'[n].files)
    BY <1>2, <1>3, <1>5, <1>6 DEF Inductive, CallsInOrder
  <2>2. ASSUME NEW m \in DOMAIN calls', NEW n \in DOMAIN calls',
               m < n, calls'[m].plugin = calls'[n].plugin
        PROVE  Before(calls'[m].files, calls'[n].files)
    <3>1. CASE n \in DOMAIN calls
      <4>1. m \in DOMAIN calls
        BY <1>2, <1>5, <2>2, <3>1
      <4> QED
        BY <1>5, <2>2, <3>1, <4>1 DEF Inductive, CallsInOrder
    <3>2. CASE n = Len(calls) + 1
      <4>1. m \in DOMAIN calls
        BY <1>5, <2>2, <3>2
      <4>2. m \in CallsOf(plugin)
        BY <1>5, <2>2, <3>2, <4>1 DEF CallsOf
      <4> QED
        BY <1>3, <1>5, <3>2, <4>1, <4>2 DEF Inductive, QueueInOrder
    <3> QED
      BY <1>5, <3>1, <3>2
  <2>3. package' = package /\ targets' = targets /\ plugin' = plugin
    BY <1>1 DEF request
  <2>4. \A n \in DOMAIN calls' : (IsBatch(calls[n].files))'
    BY <2>1, <2>3 DEF IsBatch, Target
  <2>5. \A m, n \in DOMAIN calls' : m < n /\ calls'[m].plugin = calls'[n].plugin =>
           (Before(calls[m].files, calls[n].files))'
    BY <2>2, <2>3 DEF Before
  <2> QED
    BY <2>1, <2>3, <2>4, <2>5 DEF CallsInOrder
<1>9. QueueInOrder'
  <2>1. \A j \in DOMAIN packageTargets' : IsBatch(packageTargets'[j])
    BY <1>3 DEF Inductive, QueueInOrder
  <2>2. \A j, k \in DOMAIN packageTargets' :
           j < k => Before(packageTargets'[j], packageTargets'[k])
    BY <1>3 DEF Inductive, QueueInOrder
  <2>3. ASSUME NEW n \in DOMAIN calls', calls'[n].plugin = plugin, NEW j \in DOMAIN packageTargets'
        PROVE  Before(calls'[n].files, packageTargets'[j])
    <3>1. CASE n \in DOMAIN calls
      BY <1>3, <1>5, <2>3, <3>1 DEF Inductive, QueueInOrder, CallsOf
    <3>2. CASE n = Len(calls) + 1
      <4>1. Before(packageTargets[1], packageTargets[j + 1])
        BY <1>3 DEF Inductive, QueueInOrder
      <4> QED
        BY <1>3, <1>5, <3>2, <4>1
    <3> QED
      BY <1>5, <3>1, <3>2
  <2> QED
    BY <1>1, <2>1, <2>2, <2>3 DEF QueueInOrder, request, IsBatch, Before, Target, CallsOf
<1>10. CallsAreLast' /\ Batching'
  BY <1>1 DEF CallsAreLast, Batching
<1>11. NoneLost'
  <2>1. ASSUME NEW p, NEW f, IsServed(p, f)
        PROVE  IsServed(p, f)'
    BY <1>5, <2>1 DEF IsServed, CallsOf
  <2>2. ASSUME NEW f \in Files, IsQueued(f)
        PROVE  IsQueued(f)' \/ IsServed(plugin, f)'
    <3>1. PICK j \in DOMAIN packageTargets : f \in Range(packageTargets[j])
      BY <2>2 DEF IsQueued
    <3>2. CASE j = 1
      <4>1. Len(calls) + 1 \in CallsOf(plugin)' /\ f \in Range(calls'[Len(calls) + 1].files)
        BY <1>1, <1>3, <1>5, <3>1, <3>2 DEF CallsOf
      <4> QED
        BY <1>1, <4>1 DEF IsServed, CallsOf
    <3>3. CASE j - 1 \in DOMAIN packageTargets'
      <4>1. packageTargets'[j - 1] = packageTargets[j]
        BY <1>2, <1>3, <3>3
      <4> QED
        BY <3>1, <3>3, <4>1 DEF IsQueued
    <3> QED
      BY <1>3, <3>2, <3>3
  <2> QED
    BY <1>1, <2>1, <2>2 DEF Inductive, NoneLost, request, Target, IsServed, CallsOf
<1> QED
  BY <1>7, <1>8, <1>9, <1>10, <1>11 DEF Inductive

\* main ends: of a nil package, or of a conversion or a call that fails.
LEMMA EndingIsInductive ==
    ASSUME Inductive, perPackageMode, ConvertFails \/ SortPanic \/ CallFails
    PROVE  Inductive'
<1>1. UNCHANGED <<request, plugin, calls, packageTargets>> /\ pc' \in {"panic", "exit"}
  BY DEF ConvertFails, SortPanic, CallFails
<1>2. Types' /\ CallsInOrder' /\ QueueInOrder'
  BY <1>1, CallsStay, QueueStays DEF Inductive, Types, request
<1>3. CallsAreLast' /\ Batching'
  BY <1>1 DEF CallsAreLast, Batching
<1>4. NoneLost'
  BY <1>1, ServedStay DEF Inductive, NoneLost
<1> QED
  BY <1>2, <1>3, <1>4 DEF Inductive

LEMMA NextPluginIsInductive ==
    ASSUME Inductive, perPackageMode, NextPlugin
    PROVE  Inductive'
<1>1. /\ UNCHANGED <<request, calls, packageTargets>> /\ pc = "call" /\ pc' = "convert"
      /\ packageTargets = << >> /\ plugin' = plugin + 1
  BY DEF NextPlugin
<1>2. plugin \in Nat \ {0} /\ \A n \in DOMAIN calls : calls[n].plugin \in 1..plugin
  BY DEF Inductive, Types, CallsInOrder
<1>3. Types' /\ QueueInOrder'
  BY <1>1, <1>2, EmptyQueueIsInOrder DEF Inductive, Types, request, QueueInOrder
<1>4. CallsInOrder'
  <2>1. \A n \in DOMAIN calls : calls[n].plugin \in 1..plugin'
    BY <1>1, <1>2
  <2> QED
    BY <1>1, <2>1 DEF Inductive, CallsInOrder, request, IsBatch, Before, Target
<1>5. CallsAreLast' /\ Batching'
  BY <1>1, <1>2 DEF CallsAreLast, Batching, CallsOf
<1>6. NoneLost'
  <2>1. \A f \in Files : ~IsQueued(f)
    BY <1>1 DEF IsQueued
  <2>2. \A p \in 1..(plugin' - 1) : p = plugin \/ p \in 1..(plugin - 1)
    BY <1>1, <1>2
  <2>3. \A p \in 1..(plugin' - 1), f \in Files : Target(f) => IsServed(p, f)
    BY <1>1, <2>1, <2>2 DEF Inductive, NoneLost
  <2> QED
    BY <1>1, <2>3 DEF NoneLost, request, Target, IsServed, CallsOf
<1> QED
  BY <1>3, <1>4, <1>5, <1>6 DEF Inductive

LEMMA StutterIsInductive == Inductive /\ UNCHANGED vars => Inductive'
<1> SUFFICES ASSUME Inductive, UNCHANGED vars, perPackageMode PROVE Inductive'
  BY DEF Inductive, vars, request
<1>1. UNCHANGED <<request, plugin, pc, fds, i, last, currentTargets, calls, packageTargets>>
  BY DEF vars, batching
<1>2. Types' /\ CallsInOrder' /\ QueueInOrder'
  BY <1>1, CallsStay, QueueStays DEF Inductive, Types, request
<1>3. CallsAreLast'
  BY <1>1 DEF Inductive, CallsAreLast, CallsOf
<1>4. Batching'
  BY <1>1 DEF Inductive, Batching, IsBatch, IsQueued, Target, request
<1>5. NoneLost'
  BY <1>1 DEF Inductive, NoneLost, IsServed, IsQueued, CallsOf, Target, request
<1> QED
  BY <1>2, <1>3, <1>4, <1>5 DEF Inductive

LEMMA NextIsInductive == Inductive /\ [Next]_vars => Inductive'
<1> SUFFICES ASSUME Inductive, Next PROVE Inductive'
  BY StutterIsInductive
<1>1. perPackageMode' = perPackageMode
  BY DEF Next, Convert, ConvertFails, SortByPackage, SortPanic, Skip, Extend, Flush, EndBatches, Call,
         CallFails, NextPlugin, request
<1>2. CASE ~perPackageMode
  BY <1>1, <1>2 DEF Inductive
<1>3. CASE perPackageMode
  BY <1>3, ConvertIsInductive, SortIsInductive, EndingIsInductive, SkipIsInductive,
     ExtendIsInductive, FlushIsInductive, EndIsInductive, CallIsInductive, NextPluginIsInductive
  DEF Next
<1> QED
  BY <1>2, <1>3

-----------------------------------------------------------------------------
(* What follows from it.                                                   *)

LEMMA OrderSeparatesPackages == Inductive => OnePackagePerCall
<1> SUFFICES ASSUME Inductive, perPackageMode, NEW p \in 1..plugins,
                    NEW m \in CallsOf(p), NEW n \in CallsOf(p),
                    NEW f \in Range(calls[m].files), NEW g \in Range(calls[n].files)
             PROVE  package[f] = package[g] <=> m = n
  BY DEF OnePackagePerCall
<1>1. /\ m \in DOMAIN calls /\ n \in DOMAIN calls /\ m \in Nat /\ n \in Nat
      /\ calls[m].plugin = calls[n].plugin
      /\ IsBatch(calls[m].files) /\ IsBatch(calls[n].files)
  BY DEF Inductive, Types, CallsInOrder, CallsOf
<1>2. PICK k \in DOMAIN calls[m].files, l \in DOMAIN calls[n].files :
         f = calls[m].files[k] /\ g = calls[n].files[l]
  BY DEF Range
<1>3. package[f] \in Int /\ package[g] \in Int
  <2>1. f \in Files /\ g \in Files
    BY <1>1, <1>2 DEF IsBatch
  <2> QED
    BY <2>1 DEF Inductive, Types
<1>4. CASE m = n
  BY <1>1, <1>2, <1>4 DEF IsBatch
<1>5. CASE m < n
  <2>1. package[f] < package[g]
    BY <1>1, <1>2, <1>5 DEF Inductive, CallsInOrder, Before
  <2> QED
    BY <1>1, <1>3, <1>5, <2>1
<1>6. CASE n < m
  <2>1. package[g] < package[f]
    BY <1>1, <1>2, <1>6 DEF Inductive, CallsInOrder, Before
  <2> QED
    BY <1>1, <1>3, <1>6, <2>1
<1> QED
  BY <1>1, <1>4, <1>5, <1>6

LEMMA ServedMeansAskedOnce == Inductive => EachTargetOnce
<1> SUFFICES ASSUME Inductive, perPackageMode, NEW p \in 1..(plugin - 1), NEW f \in Files
             PROVE  Cardinality(Asked(p, f)) = IF Target(f) THEN 1 ELSE 0
  BY DEF EachTargetOnce
<1>1. \A n \in CallsOf(p) : n \in DOMAIN calls /\ n \in Nat /\ IsBatch(calls[n].files)
  BY DEF Inductive, Types, CallsInOrder, CallsOf
<1>2. CASE ~Target(f)
  <2>1. Asked(p, f) = {}
    BY <1>1, <1>2 DEF Asked, IsBatch
  <2> QED
    BY <1>2, <2>1, FS_EmptySet
<1>3. CASE Target(f)
  <2>1. PICK n \in CallsOf(p) : f \in Range(calls[n].files)
    BY <1>3 DEF Inductive, NoneLost, IsServed
  <2>2. PICK k \in DOMAIN calls[n].files : calls[n].files[k] = f
    BY <2>1 DEF Range
  <2>3. ASSUME NEW m \in CallsOf(p), NEW l \in DOMAIN calls[m].files, calls[m].files[l] = f
        PROVE  m = n /\ l = k
    <3>1. m = n
      <4>1. ASSUME NEW a \in CallsOf(p), NEW b \in CallsOf(p), a < b,
                   f \in Range(calls[a].files), f \in Range(calls[b].files)
            PROVE  FALSE
        <5>1. PICK c \in DOMAIN calls[a].files, d \in DOMAIN calls[b].files :
                 calls[a].files[c] = f /\ calls[b].files[d] = f
          BY <4>1 DEF Range
        <5>2. Before(calls[a].files, calls[b].files)
          BY <1>1, <4>1 DEF Inductive, CallsInOrder, CallsOf
        <5>3. package[f] < package[f] /\ package[f] \in Int
          BY <5>1, <5>2 DEF Before, Inductive, Types
        <5> QED
          BY <5>3
      <4>2. f \in Range(calls[m].files)
        BY <2>3 DEF Range
      <4>3. ~(m < n) /\ ~(n < m)
        BY <2>1, <4>1, <4>2
      <4> QED
        BY <1>1, <4>3
    <3>2. l = k
      BY <1>1, <2>2, <2>3, <3>1 DEF IsBatch
    <3> QED
      BY <3>1, <3>2
  <2>4. Asked(p, f) = {<<n, k>>}
    <3>1. <<n, k>> \in Asked(p, f)
      BY <2>1, <2>2 DEF Asked
    <3>2. ASSUME NEW x \in Asked(p, f) PROVE x = <<n, k>>
      <4>1. PICK m \in CallsOf(p) : x \in {m} \X {l \in DOMAIN calls[m].files : calls[m].files[l] = f}
        BY DEF Asked
      <4>2. PICK l \in DOMAIN calls[m].files : calls[m].files[l] = f /\ x = <<m, l>>
        BY <4>1
      <4> QED
        BY <2>3, <4>2
    <3> QED
      BY <3>1, <3>2
  <2> QED
    BY <1>3, <2>4, FS_Singleton
<1> QED
  BY <1>2, <1>3

LEMMA Invariance == Spec => []Inductive
<1> QED
  BY InitIsInductive, NextIsInductive, PTL DEF Spec

\* The loop of main.go over packages, and the code after it, lose no target and ask
\* for none twice, however many targets, packages and plugins there are.
THEOREM TargetsAreAskedOnce == Spec => []EachTargetOnce
<1> QED
  BY Invariance, ServedMeansAskedOnce, PTL

\* A call of a plugin in per-package mode has one package, which no other call of
\* it has: a sort by package alone, stable or not, is enough for the loop.
THEOREM CallsAreOfOnePackage == Spec => []OnePackagePerCall
<1> QED
  BY Invariance, OrderSeparatesPackages, PTL

=============================================================================
