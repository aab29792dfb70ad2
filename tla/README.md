# A verification of SpiderMonkey's collector, threads and jobs

The repository is SpiderMonkey, Mozilla's JavaScript engine, with the build
system around it. The modules in this directory model the parts of the engine
whose correctness rests on *when* things happen: the garbage collector that runs
in slices between pieces of program, the threads that work beside it, waiting
on shared memory, the jobs of promises, modules that require each other, and
tables that are changed while they are iterated. Paths
below are relative to `js/src/`.

## 1. The system

| Component | State it keeps | Operations | What is hard | What makes it correct |
|---|---|---|---|---|
| **Incremental collector** (`jsgc.cpp`, `gc/Marking.cpp`, `gc/RootMarking.cpp`, `gc/Heap.h`, `gc/Zone.h`, `gc/Barrier.h`) | mark bits (white, gray, black), `Zone::gcState_`, `needsIncrementalBarrier_`, `incrementalState`, mark stack, delayed-marking list, buffered gray roots, gray lists, zone groups | `incrementalCollectSlice` and everything under it, barriers, `resetIncrementalGC`, `abortGC` | the program rewrites the graph between slices; groups of zones are swept while others mark; resets in the middle | no reachable cell is freed; weak references are cleared in time; gray bits can be trusted by the cycle collector; garbage goes; a collection ends |
| **Collection driver** (`jsgc.cpp` `collect`, `gcCycle`, `budgetIncrementalGC`, triggers) | scheduled zones, `isFull`, budgets, request flags | `gc`, `startGC`, `gcSlice`, `finishGC`, `abortGC`, `requestMajorGC` | resets and do-overs, requests that arrive while a collection runs | a requested collection happens; a reset does not lose zones |
| **Zone groups** (`gc/FindSCCs.h`, `findZoneGroups`) | DFS index, low link, stacks | `addNode`, `addEdgeTo`, `getResultsList`, `mergeGroups` | stack overflow fallback | result is the strongly connected components, in order |
| **Nursery and store buffer** (`gc/Nursery.cpp`, `gc/StoreBuffer.h`, `gc/Marking.cpp` tenuring) | nursery chunk, store buffer entries, forwarding pointers | allocate, post-barrier, `collect` | an entry missed or stale after a minor collection | a nursery cell that a tenured cell reaches survives and every pointer to it is updated |
| **Weak maps** (`jsweakmap.h`, `gc/Marking.cpp` weak marking) | entries, `gcWeakKeys` | get, put, delete, mark, sweep | iterative or linear ephemeron marking, delegates in other compartments | an entry's value is marked exactly if map and key are |
| **Compaction** (`jsgc.cpp` relocate, `UpdatePointersTask`) | relocated arenas, forwarding | relocate, update on several threads | dividing arenas over tasks | every pointer is updated once |
| **Helper threads** (`vm/HelperThreads.cpp`) | worklists and finished lists for wasm, Ion, parse, compression, GC helper and GC parallel tasks; threads; three condition variables under one lock | start, cancel, finish, pause and unpause, run | lost wake-ups, priorities and pausing of Ion compilations, parsing that has to wait for the collector | started work finishes or is cancelled; joins return; limits are respected |
| **Background sweeping and allocation** (`jsgc.cpp` `GCHelperState`, `gc/Allocator.cpp` `BackgroundAllocTask`, `gc/Nursery.cpp` `FreeMallocedBuffersTask`) | IDLE or SWEEPING, queued zones, shrink flag, chunk pools | start, work, wait, queue | one thread hands work to another that may just be finishing | queued zones are swept, waits return |
| **Futexes** (`builtin/AtomicsObject.cpp`, `vm/Runtime.cpp`) | ring of waiters per buffer, futex state per runtime, interrupt flag | wait, wake, interrupt | timeouts, wakes and interrupts that meet | no wake is lost; who was woken returns; the ring is in order |
| **Promises** (`builtin/Promise.js`, `builtin/Promise.cpp`) | state, result and reactions of each promise, `alreadyResolved` of each pair of functions, the embedding's job queue | resolve, reject, `then`, `all`, `race`, reaction and thenable jobs | content is called back in the middle of almost every operation | a promise is settled once; each reaction is called once, in order |
| **Modules** (`builtin/Module.js`, `builtin/ModuleObject.cpp`) | environment, import bindings, namespace and evaluated flag of each module | instantiate, evaluate, resolve an export, make a namespace | cycles, star exports, exceptions, imports made by bodies | an import means the one export it can mean; bodies run once, in order |
| **Ordered hash tables** (`ds/OrderedHashTable.h`, `builtin/MapObject.cpp`, `builtin/Map.js`) | data vector with holes, chains, live ranges | put, remove, clear, rekey, rehash, iterate | mutation during iteration | an ordered set whose iterators yield every key that is there when its turn comes, once |
| **Wrappers and compartments** (`jscompartment.cpp`, `jswrapper.h`, `proxy/`) | wrapper maps | wrap, nuke, remap, recompute | remapping under barriers | one wrapper per referent |
| **Shapes and property trees** (`vm/Shape.cpp`, `jspropertytree.cpp`) | shape lineage, kids | add, change, remove | dictionary conversion, sweeping of kids | lookups agree with the insertion history |
| **Atoms** (`jsatom.cpp`) | atoms table under the exclusive lock | atomize, sweep | helper threads atomize beside the main thread | one atom per string |
| **Structured clone, SharedArrayBuffer** (`vm/StructuredClone.cpp`, `vm/SharedArrayObject.cpp`) | reference counts | write, read, transfer | counts across runtimes | no early free |
| **Parser, bytecode emitter, interpreter, JITs, RegExp, wasm/asm.js** (`frontend/`, `vm/Interpreter.cpp`, `jit/`, `irregexp/`, `asmjs/`) | ASTs, bytecode, machine code | compile, run | size | language semantics |
| **Debugger, profiler, tracing, statistics** (`vm/Debugger.cpp`, `vm/SPSProfiler.cpp`, `gc/Statistics.cpp`) | observers | hooks | re-entry | observation does not change the program |

How they interact. The program's threads call into the heap: allocation may
start a minor collection, a slice, or a background task; every write of a
pointer goes through the barriers. A slice runs with the program stopped and
hands arenas to `GCHelperState`, short tasks to `GCParallelTask`; both run on
the helper threads, which also compile and parse. The embedding holds cells
itself (gray roots) and asks, through the gray bits, which of them the
JavaScript heap does not need; it also runs the jobs of promises, resolves the
names of modules, and requests interrupts, which wake a thread out of
`Atomics.wait`. The collector moves the objects that are keys of ordered tables.

## 2. The plan

Order and status. A module is written so that it can be proved about as well as
run: no recursive operators, constants with named assumptions, invariants in
named parts.

1. `HeapGraph`, `AbstractHeap`, `IncrementalGC`, `GCPrecision`: the collector
   against the abstract heap. *Modelled, checked; all invariants and the
   refinement proved (section 3).*
2. `HelperThreads`: threads, condition variables, tasks, blocking calls.
   *Modelled, checked; all safety properties proved (section 4).*
3. `Futex`: waiting, waking, timeouts and interrupts of `AtomicsObject.cpp`.
   *Modelled, checked; all safety properties proved (section 5).*
4. `AbstractPromise`, `Promises`: resolving functions, reactions and jobs,
   refining what a promise is to those who wait for it. *Modelled, checked; all
   invariants and the refinement proved (section 6).*
5. `Modules`: resolution, instantiation and evaluation. *Modelled, checked; all
   safety properties proved (section 7).*
6. `AbstractTable`, `OrderedHashTable`: the table of Map and Set under mutation.
   *Modelled, checked; both invariants and the refinement proved (section 8).*
7. Left: `ZoneGroups` (the algorithm of `gc/FindSCCs.h`, its stack overflow
   included, against the definition `IncrementalGC` uses), `GCDriver` (`collect`
   and its do-overs), `Nursery` (minor collections refining `AbstractHeap`) and
   `WeakMaps`; section 10 says what each would add.

About the proofs. A component's theorems are in a module of their own that
extends the component (`IncrementalGCProofs`, which `LiveHeapProofs` extends,
`HelperThreadsProofs`, `FutexProofs`, `PromisesProofs`, `ModulesProofs`,
`OrderedHashTableProofs`); `InductionLemmas` has
what several of them use. Each has one inductive invariant, first checked by TLC
on the runs' instances, and one lemma for every conjunct of it and every group of
actions. The assumptions are only those that the modules declare for their
constants, and TLC evaluates them in the runs. Every safety property that a passing
run checks has a theorem, invariants, action properties and refinements alike.

*Liveness* is not proved: the properties under fairness (`CollectionEnds`,
`BlockingCallsReturn`, `WokenReturn` and the like) are beyond the prover's temporal
logic, which has no rule for fair actions. Nor is what the sections below list as
only model-checked.

*Induction* is made by hand. The library's induction theorems take a predicate as an
argument, which the backends cannot instantiate, so `InductionLemmas` starts from
the least element of a set (`LeastNumber`), and its lemmas are about sets and
functions instead of predicates. `UpTo` and `Iteration` are made that way, and with
`Iteration` `Filtered` says what `Without` leaves of a list of any length, and
`OneRemoved` and `AllRemoved` what `RemoveAll` does, which fills each gap with the last
element and must not skip it;
`SequencesBuilt` is the same for lists, and with it the `Sieve` lemmas say what is
left of a list of any length without the places that hold something.
`IterationNamed` gives the value of a loop written as a recursive function on
`0..n`. `RecursionHasMeaning` says that a function defined by recursion (`f = G(f)`
for a `G` given by its values) exists and satisfies its definition when every value
depends only on arguments of less weight; `StepsReachAll` and `GrowsToAll` say that a
set that grows by a step, as often as there are elements, is the least one that the
step does not leave.

## 3. The collector

`HeapGraph` gives cells, arenas, zones and reachability. `AbstractHeap` is what
the program and the embedding may rely on: only they change the graph; a cell
disappears only when nothing live leads to it, and no weak reference names it
then. `IncrementalGC` is the collector.

| Model | Code |
|---|---|
| `allocated`, `refs` | the cells that exist and their pointers; a wrapper is a cell with a referent in another zone |
| `roots`, `grayRoots`, `weak` | what the program holds, what the embedding's gray root tracer reports, the referents of weak references |
| `mark`, `stack`, `delayed`, `freeLists` | mark bits, `GCMarker::stack`, arenas with `allocatedDuringIncremental` on `unmarkedArenaStackTop`, arenas behind `ArenaLists::freeLists` |
| `gcState`, `barrier`, `incrementalState`, `inSlice`, `unlimited`, `worked` | `Zone::gcState_`, `needsIncrementalBarrier_`, `GCRuntime::incrementalState`, the trace session, `!isIncremental`, whether the slice's budget has been touched |
| `bufferedGray`, `incomingGray`, `zoneGroups`, `abortSweep` | `Zone::gcGrayRoots`, the per-compartment gray lists, the linked zone groups, `abortSweepAfterCurrentGroup` |
| `dying` | unmarked cells of arenas that were queued for foreground or background finalization |
| `foundBlackGray`, `grayBitsValid` | the flags of the same names |
| `Allocate`, `WriteRef`, `LoadRef`, `DropRoot`, `Expose`, `HoldOutside`, `ReleaseOutside` | the program and the embedding between slices, with the pre-barrier, the read barrier, the un-graying walk and the flagging of arenas |
| `BeginMarkPhase`, `StartSlice`, `Yield` | the first slice, a later one, and running out of budget |
| `MarkCell`, `MarkDelayedArena` | `drainMarkStack`, one item at a time |
| `BeginSweepPhase`, `NextZoneGroup` | `findZoneGroups`/`getNextZoneGroup`, then `endMarkingZoneGroup` and `beginSweepingZoneGroup` of the group, in one uninterrupted step as in the code |
| `FinalizeForeground`, `FinalizeInBackground` | `foregroundFinalize` under the budget, `sweepBackgroundThings` at any time |
| `EndSweepPhase`, `FinishCollection` | `endSweepPhase`, `finishCollection` |
| `ResetMarking`, `ResetSweeping` | the cases of `resetIncrementalGC`; a reset in FINALIZE is a slice without a budget |

What a slice does without interruption is one action. Marking of a whole zone
group is expressed by closures (`IncomingBlack`, `IncomingGray`), because it
starts from an empty stack and cannot be interrupted; gray cells of other zones that
it meets are noted as in any marking (`NoteGrayMetFrom`). `Free` covers the
finalizer and the arena's return to the free lists.

Left out of this module: the nursery (empty during slices: every slice begins by
evicting it), weak maps, compaction, the atoms zone, destruction of empty zones,
failure to buffer gray roots (then the slice is made unlimited), mark-stack
overflow, the wrapper rooters that are traced again in every slice, zeal modes.

Runs. An instance has four cells in two zones, and an arena of each kind: one
finalized when sweeping begins, one on the main thread under the budget, one in
the background. That is enough for a cell
that leads to another one of its zone, to a wrapper into the other zone, and back
(a cycle of zones), and for an arena that holds both a marked and a new cell.

| Run | What it asks | Bounds |
|---|---|---|
| `any_zones` | safety, weak references, barriers, gray lists and refinement of `AbstractHeap` when a collection takes any set of zones; and that garbage present at its beginning goes, a dead cycle through both zones included (`GCPrecision` adds a history variable for it) | `MaxOps` = 3 steps of the program or the embedding in a behaviour (two hide a cell from marking, one more looks at it again), `MaxRefs` = 2; collections, slices and resets are not bounded; 742,595 states |
| `gray_full` | `GrayIsOutOfHand`, and that a collection ends, when every collection takes all zones | `MaxOps` = 2; 32,892 states |
| `gray_partial` | `GrayIsOutOfHand` when a collection may take some of the zones: violated, see section 9 | as `any_zones` |

Fairness (`gray_full`). A slice that has begun goes on (`WF` of the slice's
steps: the code does not block in it), the background thread finalizes what is
queued for it (`WF`), and among the slices there is again and again one without
a budget (`SF`): the embedding ends a collection by `finishGC` or by a
non-incremental slice when `budgetIncrementalGC` says so. Without the last one a
program that starves every slice could delay the end for ever, and the code
allows it to.

### What is proved

For every heap, division of the cells into zones and arenas, and bounds:

| Theorem | What it says |
|---|---|
| `TypeCorrect` | `[]TypeOK`, where `TypeOK` also says that only cells that exist wait for a finalizer |
| `BarriersFollowMarkingAlways` | barriers are up exactly in the zones that mark, and nothing is left of a collection that ended or was reset |
| `LiveCellsAreAlwaysKept` | what can be reached is never freed nor queued for a finalizer |
| `WeakReferencesAreAlwaysClean` | no weak reference names what is freed or found dead |
| `GrayListsAreAlwaysCurrent` | a wrapper on a gray list still has its referent, whose zone still has to be marked in gray |
| `HeapIsRefined` | `IncrementalGC` implements `AbstractHeap` |
| `BlackAlwaysMeetsGrayOutside` | black marking meets a gray cell only in a zone that is not collected |
| `GrayIsAlwaysOutOfHand` | with valid gray bits and no collection in progress, nothing in the program's reach is gray, if every collection takes all zones |
| `GarbageIsAlwaysCollected` | garbage that is there when its zone's collection begins goes (for `PreciseSpec`, with the history variable) |

The assumptions are those of the modules: `HeapShape` (cells, arenas and zones
are what `HeapGraph` says), `HeapsAreValid` (the initial heaps are graphs over
cells) and the bounds being numbers.

The first two rest on `TypeOK /\ Phases` (`IncrementalGCProofs`).
`BarriersFollowMarking` alone is not inductive: a step could meet marking zones
in a phase in which nothing lowers their barriers, or groups that share a zone.
`Phases` says for each `incrementalState` which zone states, buffers, stack and
lists there may be, in the middle of a slice as well.

The others rest on `HeapInv` (`LiveHeapProofs`), with these parts:

- `HeapIsClosed`: what is neither freed nor found dead (`Kept`) leads only to
  such cells, and so do the roots, the gray roots and the weak references. Safety
  follows: what is reachable is kept.
- `SnapshotIsSafe` is why finding the dead keeps it that way. A cell of a zone that
  marks is *safe* if it is marked or in `Promised`, what marking will still
  reach from the mark stack, the flagged arenas, the buffered gray roots and
  the gray lists. In the zones that mark, the roots are safe, and so is what a
  marked cell, or one of another zone, points to. A write destroys an edge, but
  the barrier marks the old target; a new edge needs a target in hand, which is a
  root or was read through the barrier; a new cell in a marking zone lies in a
  flagged arena. When a group's marking is complete nothing is promised in it, so
  that safe means marked, and its unmarked cells are held by nobody.
- `GroupsAreSafe`, within it, is about the order of the groups: an edge from a
  later group to an earlier one must be safe on its own, since the gray marking
  of the earlier group will not see its source marked.
- `StackInv`, `GrayInv`, `FreeListInv`: what `Promised` starts from exists, is in
  the right zone, and covers the arenas that can still be allocated from.

After an interrupted sweep that is to be abandoned (`abortSweep`) the snapshot
need not be safe: nothing more is found dead by it.

The two theorems about gray cells rest on `ColourInv` as well, which tells black
from gray where `HeapInv` only tells marked from unmarked:

- `BlackSnapshot` is the snapshot again with black in the place of marked. A cell
  of a zone that marks is *firm* if it is black or in `BlackPromised`, what
  marking will still reach from the mark stack, the flagged arenas and the
  wrappers on a gray list that have turned black. What the program holds is firm,
  and so is what a cell points to that is black itself, that lives in a zone
  that does not mark and is not known to be gray there, or that belongs to a later
  group (`RootsAreFirm`, `EdgesAreFirm`, `GroupsAreFirm`).
  `GrayEdgesWait`: a gray cell whose group has been swept waits on a gray list
  for its referents in later groups, or they are firm already; without it the
  wrapper that the program exposes in between would leave its referent gray.
- `NoGrayYet`, `RootsNotGray`, `EdgesNotGray`: nothing is gray in a zone that
  marks, and in the zones whose bits can be relied on (`Exact`) neither what the
  program has is gray nor what a cell that is not gray points to. Which zones
  these are depends on the schedule. If collections are of all zones, the bits of
  a zone hold until it is marked anew; otherwise only until the collection in
  progress ends, for the next one may leave the zone out and change what leads
  there. `GrayIsAlwaysOutOfHand` therefore assumes `Schedules \subseteq {Zones}`,
  and `gray_partial` (section 9) shows that it does not hold without that.
- `ZoneInv` says which zones are being swept, and that a collection of all zones
  leaves none out.

`GarbageIsAlwaysCollected` rests on `CondemnedInv`: the condemned cells are cut
off, that is, neither the program nor the embedding nor a list of the collector
names one and only condemned cells lead to them; none is marked in a zone that
marks, and none is in a zone that is left out. The first part is what reviving
or allocating beside a cell would break, and what `Pardoned` excludes.

Only model-checked: `CollectionEnds`, a liveness property.

## 4. The helper threads

`HelperThreads` models the pool. Everything happens under one lock, so an action
is what a thread does from taking the lock (or waking up with it) to giving it up
again: a handler's end and the next turn of `threadLoop`, which share a critical
section, are one action (`FinishIon` and the like end in `ThreadLoop`, on the
state `s` of the threads that the handler leaves). Reading the pause flag, ending
`GCHelperState::work` and allocating happen without the lock and are actions of
their own.

| Model | Code |
|---|---|
| `work`, `done`, `parked`, `failed` | the work lists and finished lists, `parseWaitingOnGC_`, `numWasmFailedJobs` |
| `pc`, `task`, `pause`, `terminate` | the place of a `HelperThread` in `threadLoop` and its handlers, and its fields |
| `op`, `asleep`, `cancel` | the blocking call a client (main thread, or helper that runs a parse) is in, whether it waits on CONSUMER, what it cancels |
| `module` | `wasmCompilationInProgress` and `ModuleGenerator::outstanding_` |
| `compressing` | the clients with an active `SourceCompressionTask` |
| `gcTask`, `sweeping`, `heapBusy`, `atomsGC` | `GCParallelTask::state`, `GCHelperState::state`, `isHeapBusy`, `activeGCInAtomsZone` |
| `rank` | what `IonBuilderHasHigherPriority` compares; it changes without the lock (`WarmUp`) |
| `NotifyEach`, `Wake` | `notifyOne`: any one waiter; idle helpers and parses that wait for the heap share PRODUCER |
| `ThreadLoop`, `Pop` | `threadLoop` and the beginning of the handlers, in the order wasm, Ion, parse, compression, GC helper, GC parallel |
| `PopIon` | `handleIonWorkload`, up to the compilation. Priorities may race with it (`HelperThreads.cpp:1383`), so it takes any waiting compilation and pauses any unpaused one |
| `BeginCancel`, `AwaitCancelled`, `EndCancel` | `CancelOffThreadIonCompile` |
| `Remove`, `RemoveAll` | `HelperThreadState().remove` (`HelperThreads.h:144`), which moves the last task to the index and steps the index back, and the loop over the work list that calls it |
| `StartModule` ... `EndModule` | `ModuleGenerator` and its destructor |

Runs. Each gives the pool some of the kinds of tasks, those whose handlers share
something, so that the interleavings stay exhaustive.

| Run | What it asks | Bounds |
|---|---|---|
| `helpers_ion` | no compilation lost or run twice; pause flags; cancellation; blocking calls return | 2 helpers, 3 compilations in two compartments, cancelled one by one, by compartment or all together, priorities change once |
| `helpers_modules` | accounting of a module with failures; parses and the atoms zone; blocking calls return | 2 helpers, 2 wasm tasks, 2 parses, compression by the parses |
| `helpers_gc` | no task is left to sleeping helpers; joins return | 2 helpers, all the collector's tasks, 1 parse |

Two helpers are the fewest that `startFuncDefs` and `setSourceCopy` allow, and so
the case in which a helper that waits for another one is most dangerous. With
three compilations for them, one may be paused, another may run and a third be
pending, which is what the decisions to pause and unpause look at.
`OnlyCancelStrandsPaused` says of these decisions what the code achieves of its
comment (section 9): a paused compilation keeps a successor that will unpause it,
unless the main thread cancels that one. `CancelLeavesNothing` is also about the index
of the loop that cancels: a compilation that was moved to the place of a removed one
must not be skipped. The same loop over the finished list is not followed by index,
since finished lists are sets in the model: their order matters to nobody.

The decisions to take up, pause and unpause compare priorities (`SufficientPriority`,
`MayUnpause`) as they are at one instant of a critical section; which compilation is
then taken or paused, after priorities may have changed again, is left open.

`CHECK_DEADLOCK FALSE`: after shutdown the system stops, as it should. No symmetry
is used.

Fairness (`FairSpec`). Every helper that is not waiting goes on (`WF`): a task is
finite and the lock is fair enough that nobody is kept out for ever. Parses and
the generation of a module end (`SF`, since the thread does many other things
meanwhile), and so does a session of the collector (`SF` of `EndSession`, which
the other steps of a slice disable for a while). A blocking call that may look
again does (`WF`). Nothing is assumed of the main thread between operations.

Left out: several runtimes, the lazy link list, failing allocations, the DEBUG
limits of simulated OOM, tasks run on the main thread when the pool cannot take
them.

### What is proved

`HelperThreadsProofs` proves, for any number of helpers, compilations, wasm tasks
and parses, any cancellation targets and any bound on priorities:

| Theorem | What it says |
|---|---|
| `TypesAreKept` | `[]TypeOK` |
| `EachTaskIsAlwaysInOnePlace` | no task is lost twice, run twice or both queued and running |
| `OnlyIonIsEverPaused` | the pause flag belongs to helpers that compile with Ion |
| `ModuleIsAlwaysAccountedFor` | a module's functions are those waiting, compiled, finished or failed |
| `ParsesAlwaysAvoidAtomsGC` | no parse is active during a collection of the atoms zone |
| `CancelAlwaysLeavesNothing` | a cancellation that returns leaves nothing it matches |
| `WorkIsAlwaysNoticed` | the helpers do not all sleep while a task may start |
| `OnlyCancelEverStrandsPaused` | paused compilations keep a successor, unless one is cancelled |

Assumed are `PoolAssumption` (more than one helper, finitely many wasm tasks and
parses, ...) and `TasksAreApart`: a task is an object of one class, so no value
is two kinds of task at once.

The inductive invariant is `HInv`. Its main part, `Placed(T, W, D, P)`, is about
the tasks the helpers hold, the work lists, the finished lists and the parked
parses: each list holds tasks of its kind, once, and no task is in two of them.
It is stated of these four as arguments and not of the variables, because a
handler's end and the next turn of `threadLoop` are one action: the lemmas
follow `Placed` from the state before, over the state `Reset(h)` in between, to
the state after (`LetsGoKeeps`, `FinishKeeps`, `TakesKeeps`). The other parts are
what the actions need to stay in `Placed`: `Held` (where a helper is says what it
holds, and whether it may be paused), `Dispatched` (a parallel task that is queued
or running is marked so, and between a sweep's start and join only the main
thread can touch its tasks), `Compressed` (a source is compressed only for a client
that still waits for it), `ModuleInv` (one client at most is in a module, and owns
it), `CancelInv` (what a cancellation matches is not put back on the list while it
waits) and types.

`WorkIsNoticed` says only that not everybody sleeps, which a step does not
preserve by itself: one notification wakes one thread, and that thread may take
something else or be a parse that waits for the heap. `NoticeInv` says how much
is left over. `Able` are the helpers that will look at the lists again without
being woken, which is not so of a parse (it may wait for other helpers) nor, while
compilations are stranded, of a paused helper. `Served`: if a helper sleeps and
work may start, somebody is able; if a parse may start and other work too, two
are, since the first may take up the parse. It is suspended while a
parse waits for the heap (`HeapAwaited`), whose end notifies all. The rest says
why there are enough: only one parse runs at a time (`OneParse`), stranded
compilations leave two helpers that are not paused (`TwoAreLeft`), or else the
main thread's module is being compiled, whose task looks at the lists when it is
done (`MainCompiles`); and after shutdown nothing is waiting (`OverInv`). A step
other than a cancellation strands compilations only if the helper whose
compilation ends takes a wasm task in place of the pending compilation; the module
belongs to the main thread, or to a parse, which runs on a second helper.
`OnlyCancelEverStrandsPaused` splits on
the action: when a compilation ends or one is taken up, `ThreadLoop` itself
compares priorities (`HelpersStrand`), all other steps leave the compilations
alone (`OthersStrand`, `CancelStrands`).

Only model-checked: `BlockingCallsReturn`, a liveness property.

## 5. Futexes

`Futex` models `Atomics.wait` and `Atomics.wake` on one shared buffer, with the
interrupts that other threads request. All of it but the request's flag and the
handler runs under one lock, so a critical section is one action; a wait gives
the lock up while it sleeps on its condition variable and around the handler.

| Model | Code |
|---|---|
| `mem` | the cells of the buffer; scripts store (`Store`) and then wake, as they have to (`toWake` remembers that they still have to) |
| `fx`, `cond` | `FutexRuntime::state_` and where the thread is: running, asleep on `cond_`, notified and not yet running |
| `waiter`, `head`, `lowerPri`, `back` | the `FutexWaiter` on the thread's stack and the ring that `SharedArrayRawBuffer::waiters_` heads |
| `interrupt`, `requesting` | `interrupt_`, and the watchdog between setting it and taking the lock |
| `BeginWait`, `TimesOut`, `ReturnsOK`, `BeginHandler`, `EndHandler` | `atomics_wait` with `FutexRuntime::wait`, cut where it gives the lock up |
| `Wake`, `WakeOne` | `atomics_wake` with no count and with 1 |
| `Request`, `WakeForInterrupt`, `HandleInterrupt` | the two halves of `requestInterrupt`, and `handleInterrupt` |

`futex` checks it with three threads, two cells, and budgets of calls (two of
them: three waits, one store and one interrupt; two waits, one store, two
interrupts; 375,488 states): three threads make a ring in which each of first,
middle and last can leave first, two interrupts make a second one meet the
handler of the first. A spurious wakeup goes back to sleep in the same critical
section and is a stutter. `NoLostWake` is what the look at the cell under the
lock is for; `SleepersAreWaiting` is why `wake` may leave out a notification, and
`WokenReturn` that it loses nobody by it.

Fairness: a thread that has been notified or whose timeout has passed runs, a
handler ends, a script that has stored wakes, and a watchdog that has set the
flag takes the lock (`WF` of `Proceeds` and of `WakeForInterrupt`): these are
steps of code that does not block. Timeouts are counted as passed at any time.

The model lets a handler stop the script also when script has polled the flag in
the meantime, which `handleInterrupt` does not: more behaviours, not fewer.
Handlers do not wait themselves: `BeginWait` asks that the thread is in no wait, and
`wait` refuses only the state `WaitingInterrupted`. (In two other states in which a
handler may be running, after a wake or a second request, this test lets it through,
and the assertion at `AtomicsObject.cpp:970` would fail; the model does not enter this part.)

### What is proved

`FutexProofs` proves all four safety properties for any number of threads, cells
and calls: `SleepersAlwaysWait`, `NoWakeIsEverLost`, `RingIsAlwaysInOrder` and the
action property `WokenAlwaysInOrder`. The inductive invariant `FInv` has, besides
types and the two properties that are themselves inductive, that no thread is in
the ring twice (`OnceInRing`), and `WakeInv`: `NoLostWake` for *everybody who is
in a wait*, asleep or not. `NoLostWake` speaks of sleepers only, and a thread that
comes back from an interrupt's handler goes to sleep again without another look
at the cell: what makes this right is that nobody could change the cell
meanwhile without owing a wake. `arrived` is the order in which the waits began,
and the proofs about the ring (`LinkKeepsRing`, `UnlinkKeepsRing`) say how linking
and unlinking one thread, at the head, in the middle or alone, follow it.

Only model-checked: `WokenReturn`, a liveness property.

## 6. Promises

`Promises` follows `builtin/Promise.js` and the constructor and jobs of
`builtin/Promise.cpp`. Content's code is the environment: between any two steps
it may call what it holds (resolving functions it was given, element functions
that a `then` of its own received) and `new Promise`, `then`, `all` and `race`;
it is called back by executors, by getters named `then`, by thenables, by
handlers and by the iteration of `all` and `race`, each a frame of `stack`, and
each frame ends by returning or by throwing.

| Model | Code |
|---|---|
| `promise`, `unhandled` | the slots of a promise: state, result, the reaction lists (kept as one, they are filled and emptied together), is-handled; what the rejection tracker was told |
| `resolver` | a pair made by `CreateResolvingFunctions`: its promise and `alreadyResolved`; `held` says which of the two content can call |
| `queue`, `job` | the embedding's queue, and the reaction job that runs |
| `all` | what the closures of one `Promise.all` share |
| `Resolve`, `Reject`, `Settle`, `PerformThen`, `ResolveElement` | the functions of these names (`Settle` is `ResolvePromise` with the reactions it triggers) as functions of the state, composed by the actions |
| `New`, `CallResolve`, `CallReject`, `Then`, `All`, `Race`, `AllBlocksOn`, ... | what content calls |
| `TakeReactionJob`, `ApplyHandler`, `TakeThenableJob` | `PromiseReactionJob`, in two steps because content's handler runs in the middle, and `PromiseResolveThenableJob` |

`AbstractPromise` is what a promise is to those who wait for it: one outcome, for
good; each callback called once, after that, with that outcome, in the order of
registration, never from within another one. `KeepsContract` is the refinement:
the callbacks that wait for a promise are its reactions followed by its jobs in
the queue, so that settling, which moves the ones to the other, changes nothing.

`promises` bounds what content does: three promises, five calls, frames two deep,
one `Promise.all` (988,100 states). Three promises suffice for a chain that a
thenable job links, and for `all` or `race` of a promise and a thenable; handlers
come in pairs, both content's or neither. `OnePartyDecides` is why
the assertion of `ResolvePromise` holds and no promise is forgotten: counting
unused pairs of functions, jobs and getters under way, exactly one party can
settle a pending promise and none a settled one.

What content resolves with may be any object with a `then`, and so is the array that
`Promise.all` resolves with: content may have put a `then` on `Array.prototype`
(`Objects`). Reading it runs a getter, which may throw, and a `then` that is there
gets a job, a new pair of functions and the last word. So the promise of `Promise.all`
may be pending or rejected after all its elements were filled.
`AllWaitsForEach` says what holds whatever that `then` does: until the iteration is over
and each element is filled, nobody uses the pair except to reject, and from then on
it is used.

Fairness: content's frames end, and the embedding runs the jobs it was given
(`WF` of each). `CHECK_DEADLOCK FALSE`: with its calls spent and the queue empty,
content has nothing left to do.

Left out: subclasses (a capability whose functions are content's), wrappers of
other compartments, `GetWaitForAllPromise`, the debugger's dummy reactions.

### What is proved

`PromisesProofs` proves the four invariants, `TypeCorrect`,
`OnePartyAlwaysDecides`, `UnhandledIsAlwaysExact` and `AllAlwaysWaitsForEach`, for
any number of promises, calls, elements and nested frames. An action composes
several functions of the source, and none of them keeps the properties on its own
(between `alreadyResolved` and the settling of the promise, nobody could settle
it). So the invariant is a property of *states as records*: `Sound(s, X)` says
that `s` is a state in which all references lead somewhere, every pending promise
has its one party, except for those in `X`, which the code at hand is about to
settle or to hand on; each function of the source has a lemma that tells what it
makes of `Sound(s, X)`. `Gathered` says that a `Promise.all` with nothing remaining
has used its pair, and is broken for a moment in the same way. In all, `PInv ==
Sound(Now, {}) /\ Gathered(Now) /\ GoodRun /\ ...`, `GoodRun` being about the job and
the handlers under way. That a promise is never fulfilled with a promise (part of
`TypeOK`), and that the pair of `Promise.all` is in nobody else's hands, are needed
for it: content could otherwise settle the promise behind the closures' back.

`PromisesKeepTheirContract` is the refinement: `KeepsContract` holds for all values
of the constants. `OutcomeOf` and `WaitingIn` are the two parts of the mapping, and
`Fits` is why they work: a promise has reactions only while it is pending and jobs
only when it is settled, so one of the two lists that `WaitingIn` joins is empty.
The `View` lemmas say what each change of the lists does to what is seen (a settled
promise moves its reactions to the end of the queue, behind no other job of its
own: `ViewSettles`; the first job is the first callback of its promise:
`ViewDequeues`). Of each function of the source it is then shown that what is seen
stays (`Keeps`), or that one promise is decided (`MayDecide`), or that one callback
is registered (`Registers`); an action composes at most one function that is seen
with others that are not (`KeepsThen`). That nothing is decided twice comes from
`OneParty`: a pair that was not used belongs to a pending promise (`Owed`). The end
of a call may decide the promise that `then` returned, which is why `EndCall` of
`AbstractPromise` allows it.

Only model-checked: that every callback is called (liveness).

## 7. Modules

`Modules` follows `builtin/Module.js`: `ResolveExport` and `ExportedNames` are
its functions with the sets of visited modules they share, `Namespace` the
namespace they make, and the actions are the two walks of
`ModuleDeclarationInstantiation` and `ModuleEvaluation`, one step per module
entered, with the bodies that run at the end of the second. Bodies may return,
throw, import, and catch what their import throws. `env`, `bound`, `spaces`,
`declared` and `evaluated` are the slots of the module objects; `stack` holds
the calls under way; `ran`, `broken` and `failed` are histories.

The reference (`Meanings`) is independent of the visited sets: the local exports
that can be reached by following entries. `ImportsMeanOneThing` and
`NamespacesAreExact` compare the two; `InstantiationIsComplete` and
`OnlyUnclearGraphsFail` say when instantiation throws; `BodiesRunInOrder` is
about cycles, exceptions and imports by bodies.

`ResolveExport(g)` is a recursive function on queries: a module, a name and the two
visited sets, which an answer hands back. One operator stands for each step of the
source: `Locals` (step 4), `IndirectExport` (step 5), `StarExports` and `StarExport`
(step 10 and one turn of it), with `Ask` for the call of another module. A graph is
what the parser may produce (`GraphsAssumption`): lists of entries (`Parsed`) in which
no name is exported twice and every module that is named is requested (`Accepted`).

`modules` runs all 72 combinations of 4, 6 and 3 shapes of three modules that
cover cycles of each kind, self-imports, names passed on under another name,
star exports that meet, default exports and namespaces of modules that are being
instantiated; two in which a default export is passed on twice; and six *odd* ones,
in which the visited sets do harm. With three imports (71,637 states) there is
one of the host, one of a body while the first is under way, and one afterwards. The
shapes require a module before they pass on what is its own, since otherwise
`modules_cycle` applies (section 9).

`CHECK_DEADLOCK FALSE`: when the host has made its imports, all is done.

### Names for which the visited sets do harm

The visited sets are shared by all branches of a resolution, and that is not always
harmless. `PlainName` is the names for which it is: following the name,

* no module with star exports is met under two names: the set of modules whose star
  exports were followed does not record for which name (`AskedTwice`, where a name with
  one meaning is not found);
* no two different exports of one module are met: `ResolveExport` compares two
  resolutions by `exportName` (`builtin/Module.js:131`), which resolutions do not have,
  so that they do not count as ambiguous (`TakenForOne`);
* where an entry passes the name on in a module that also has star exports, or passes
  on `default`, it is `Straight`: it leads, over any number of such entries, to a local
  export, and nothing else leads into that chain. Otherwise the entry may find nothing
  because the pair was visited, and the source goes on with the star exports
  (`FallsBack`, where a name without meaning is bound), or throws for `default`.

Plain names may be passed on through cycles and any number of modules, and have no
meaning or several. The properties hold in *every* graph that the parser accepts;
what they claim of a name depends on it. A plain name is bound to its only meaning, and
is the reason of an error only if it has none or several. Any other name may be bound
(`MayMean`) only to a local export among all that a call may ask for (`Candidates`,
along the entries and the star exports it falls back on), and, if no module is asked for two
names (`AskedOnce`), only to one of the module that has its meaning. A
namespace leaves a name out only if the name has no meaning, or if two modules are
found to export it (`Disputed`) and the name is `Doubtful`. So where the source's answer is
wrong, the properties say in which way it may be.

Two assumptions that TLC evaluates in `modules` keep this honest: `PlainIsNeeded`
shows in the three odd graphs that `ResolveExport` differs there from the meaning, each
missing one of the conditions, and `ThreeModulesArePlain` that in the other 74
graphs all names are plain, so that no exception weakens what is checked of them.

### What is proved

`ModulesProofs` proves, for any number of modules, names and imports and lists of any
length:

| Theorem | |
|---|---|
| `BodiesAlwaysRunInOrder` | the action property `BodiesRunInOrder` |
| `ImportsAlwaysMeanOneThing` | `ImportsMeanOneThing` |
| `NamespacesAreAlwaysExact` | `NamespacesAreExact` |
| `InstantiationIsAlwaysComplete` | `InstantiationIsComplete` |
| `OnlyUnclearGraphsEverFail` | `OnlyUnclearGraphsFail` |

Assumed are `GraphsAssumption`, that the graphs are such as the parser accepts, and
`NamesAssumption`: there are finitely many modules and names, and the values that stand
for errors are not bindings or namespaces.

*Evaluation.* The invariant (`WalkInv`) is about the calls of evaluation on the stack:
the module of such a call has its flag and its body has not run; the modules its walk
has passed have their flags; no module has two such calls; and a module with its
flag has run, has failed, or has such a call. The property alone is not inductive:
that a body has not run before is known because the flag is set when the call is
made and never reset, so that no second call can be; and that a required module
with its flag, which the walk passes over, is really waiting for this one rests on
the calls of a failing walk being unwound one by one, each of them failing.

*Resolution.* `ResolveExportIs` and `ExportedNamesIs` show that the two recursive
functions satisfy their definitions: a call either returns at once or makes calls that
have visited more. `ResolutionIsMeaning` compares `Resolve` with `Meanings`, and
`ResolvesRight` with `Candidates`. Their core is `CallHolds`, which says of one call what holds of it if it holds of the calls
it makes (`Holds`), from two *views*: the strict one, for plain names, in which a call
goes where the meaning goes (`Targets`), and the loose one, for all others, in which it
may also fall back on star exports (`MayAsk`). In both, a call that returns nothing or
a binding has followed to its end whatever it was the first to visit: the pairs that
those lead to are visited too (loosely, if no module is asked for two names), each
local export among the first is of the module that the answer names, and the answer is
one of the ends of the view. An answer that is ambiguous has found exports of two
modules; one that throws has met, in the strict view, a `default` that nobody exports.
What was visited before a call is the caller's to follow, which is why
`Holds` speaks only of what is new; at the outermost call all is new, so that all that
can be reached was visited (`Reached` and `Visited` are the least sets that the steps do
not leave), and for a plain name `Null` means that there is no meaning. `StraightOn`
and `NoFallBack` are where the third condition is used: along a straight chain a
call finds its end and never falls back.
`NamesAre` does the same for names, and
`NamespaceIs` puts the two together: a namespace is exact, and where one cannot be
made, some entry passes on a name that has no meaning (`NamedButNothing`).

*Instantiation.* `ModInv` is the inductive invariant: what is bound is what is meant
(`BindingsFine`, which adds to the two properties that namespaces already made are
exact, because later imports take them as they are); a module with an environment that
is not being instantiated and has not thrown is complete; and failures have a reason
(`FailuresFine`). Two parts are there for failures only. `StackFine` says that a module
that is being instantiated waits for one that it requires, so that an exception
unwinds from a module to those that require it, and a bad name below is a bad name of
each of them (`DoomSpreads`). And an exception that is about to leave an instantiation
has a reason already, before its module counts as broken.

The `crashed` of `modules_cycle` is part of `InstantiationIsComplete` as it is
checked; nothing is claimed of what follows a binding to an environment that is not
there. Nothing of `Modules` is only model-checked.

## 8. Ordered hash tables

`OrderedHashTable` models the data vector with its holes, the chains (a chain is
the set of its positions: no code depends on its order), the count, and the
ranges that iterators keep. `Put`, `Remove`, `Clear` and `Rekey` include the
rehash they lead to and the notification of every range; a removal also happens
when there is no memory for the smaller table. `Open`, `Next` and `Finalize` are
the life of a Map or Set iterator.

`AbstractTable` is a sequence of keys, and for each open iterator the keys it has
yet to yield: what is done to the table is done to each of these. The refinement
maps them to the live entries, and to the live entries from the range's position.

`ordered_table` does not bound the calls: with three keys, two iterators and
tables that begin with one bucket (two in the code, which only scales the
capacities) it is finite, 71,030 states, and the table grows, is compacted in
place, shrinks, and fails to shrink, with iterators before, between and behind the holes.

### What is proved

`OrderedHashTableProofs` proves `CountsAreAlwaysExact`, `KeysAreAlwaysFound` and
`TableIsOrderedSet` (`TableSpec => ActsAsOrderedSet`: the table with its ranges
implements the ordered set with its iterators) for any keys, hashes, iterators
and first number of buckets. Assumed are a hash below `Hashes` for each key, and
that the marks for a blank and for a range that is not open are neither keys nor
ranges nor lists of keys.

The invariant (`TableInv`): no key is in the data twice; the live count is that
of the live entries; there is room for the data; in as many buckets as there are
chains, each live entry is on the chain its hash tells, and chains hold positions
only; each open range stands on an entry or just behind the last, and has counted
the live entries before it. Neither property is inductive without the
others: a removal lowers the count of a range by one for one place only
because keys are there once, a key is put only when `Lookup` does not find it
because the chains are complete, and shrinking has room because the count is exact.

A removal and a move are both the same change of every list (`Swap`), so
that one lemma (`SieveOfSwap`) tells what they leave of the entries, and of what
each range has yet to yield. `BlanksDoNotCount` lets `seek` pass over holes, and
`CompactIsFine` is why a range may be placed by its count alone. `Maps(f)` says of an
operation that it keeps the invariant and does `f` to the entries and to what each
open range has left; each operation of the ordered set has one such `f`. The
proofs also show where arithmetic matters: `BucketInRange` needs hashes below
`Hashes`, and growing and shrinking only need the fill factor to leave room for one
key more at one bucket or more, and for what is live in half the buckets.

Left out: values, destruction of the table under its ranges, and calls that run
out of memory and change nothing.

## 9. Where comments and code differ

Checked, each by a run that expects the violation:

- `gray_partial`: an object exposed while its zone is marking, in a collection of
  some zones, leaves gray what it leads to in other zones, although
  `Marking.cpp:2660` asks for everything reachable to stop being gray.
- `modules_cycle`: in a cycle, an import may resolve to a name passed on from a
  module that has no environment yet. The binding is made to a null
  environment (`ScopeObject.cpp:531`), which `putNew` uses and
  `ModuleObject.cpp:257` asserts not to be null. The shortest graph: main is
  `import "b"; export {x} from "c"`, b is `import {x} from "main"`.
- `futex_interrupts`: an interrupt requested between a script's last poll and its
  sleep in `Atomics.wait`, or while the handler of an earlier one runs, does not
  wake the thread (`Runtime.cpp:648`).

Met while modelling, and not the subject of a run:

- A paused compilation for which a pending one comes first stays paused if that
  one is cancelled and no other compilation follows; `HelperThreads.cpp:1430`
  says that all are unpaused eventually. With three helpers no cancellation is
  needed for a time: a helper whose compilation ends leaves the paused one to the
  pending one, and then takes a wasm task first.
- Background allocation can be started during a slice that has already waited for
  it (`jsgc.cpp:6152`): the lock under which the parse thread saw the heap idle is
  released before the task is started (`gc/Allocator.cpp:331`). The chunk pools
  are not modelled, so nothing is said of any harm.
- A module whose instantiation has thrown keeps its environment; the next import
  returns from instantiation at once and evaluates the module with imports
  unbound, where `jsapi.h:4267` asks that instantiation has completed.
- The shell's `DrainJobQueue`, called from within a job, starts again at the
  first entry of the queue (`shell/js.cpp:655`), which may be the job that calls
  it; the model's queue is drained only when no code runs.

## 10. Not modelled

- **Collection driver**: which zones a collection takes and when it is reset is
  free in `IncrementalGC`; the triggers, budgets and do-overs that choose among
  these behaviours are not modelled.
- **Zone groups**: `IncrementalGC` uses what `FindSCCs.h` computes, by definition.
- **Nursery, weak maps, compaction, mark-stack overflow**: each extends the
  collector; the nursery is empty in every slice, compaction runs in one piece,
  weak maps would need a further round of marking in each group.
- **`GCHelperState`'s queue of zones and shrink flag, chunk pools.**
- **Parser, compilers, interpreter, RegExp, wasm**: their correctness is the
  semantics of two languages. **Shapes, atoms' table, structured clone,
  debugger, statistics**: sequential or observers, see section 1.
- **The bulk of the JavaScript in the repository** is not the engine: the
  benchmarks under `octane/` (generated and vendored programs), the libraries
  and cases under `jit-test/` and `tests/`, and the tables of the
  internationalization library. They are inputs of the engine or data, and
  there is nothing in them for these modules to say. Of the engine's own
  self-hosted JavaScript, modules and promises are modelled and the iterators of
  Map and Set; what remains (`Array.js`, `String.js`, `RegExp.js`, `Intl.js`,
  `TypedArray.js`, `TypedObject.js`, ...) is sequential library code, mostly
  conversions of data, that follows the text of its standard step by step.
