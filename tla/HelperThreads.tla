---------------------------- MODULE HelperThreads ----------------------------
(***************************************************************************)
(* The helper thread pool (vm/HelperThreads.cpp): work lists and finished   *)
(* lists guarded by one lock, helper threads that take tasks from them, and *)
(* the clients (the main thread, and the helper that runs a parse) that     *)
(* hand out tasks and block until they are done.  An action is what happens *)
(* from the moment the lock is taken until it is given up.                  *)
(***************************************************************************)
EXTENDS Naturals, Sequences, FiniteSets

CONSTANTS Helpers,        \* the threads of the pool (threadCount of them)
          Main,           \* the main thread of the runtime
          Builders,       \* Ion compilations, waiting or not yet started
          CancelTargets,  \* the sets of compilations a cancellation matches
          Compressors,    \* the clients that may compress a source off thread
          WasmTasks,      \* ModuleGenerator::tasks_
          Parses,         \* off-thread parse tasks
          AtomsTask,      \* the parallel task that sweeps atoms, or None
          SweepTasks,     \* parallel tasks of one sweep, started together
          AllocTask,      \* the background chunk allocation, or None
          BufferTask,     \* the task that frees nursery buffers, or None
          GCHelper,       \* the runtime's GCHelperState, or None
          MaxRank,        \* bound on the priorities of compilations
          None

\* startFuncDefs asserts threadCount > 1; a sweep starts its other tasks together
ASSUME PoolAssumption ==
    /\ IsFiniteSet(Helpers) /\ Cardinality(Helpers) > 1
    /\ IsFiniteSet(SweepTasks) /\ Cardinality(SweepTasks) # 1
    /\ IsFiniteSet(WasmTasks) /\ IsFiniteSet(Parses)
    /\ CancelTargets \subseteq SUBSET Builders
    /\ MaxRank \in Nat
    /\ Main \notin Helpers
    /\ Compressors \subseteq Helpers \cup {Main}

VARIABLES pc,        \* where each helper is in threadLoop and its handlers
          task,      \* HelperThread::currentTask
          pause,     \* HelperThread::pause
          terminate, \* the helpers told to terminate
          work,      \* the work list of each kind
          done,      \* the finished lists
          parked,    \* parseWaitingOnGC
          failed,    \* numWasmFailedJobs
          module,    \* wasmCompilationInProgress and its ModuleGenerator
          gcTask,    \* GCParallelTask::state
          sweeping,  \* GCHelperState::state is SWEEPING
          heapBusy, atomsGC, \* isHeapBusy, activeGCInAtomsZone
          rank,      \* what IonBuilderHasHigherPriority compares
          op,        \* the blocking operation each client is in
          cancel,    \* what the main thread's cancellation matches
          compressing, \* the clients whose SourceCompressionTask is active
          asleep     \* the clients waiting on CONSUMER

lists == <<work, done, parked>>
gc == <<gcTask, sweeping, heapBusy, atomsGC>>
mainOnly == <<terminate, cancel, rank, compressing>>
vars == <<pc, task, pause, lists, failed, module, gc, mainOnly, op, asleep>>

Clients == Helpers \cup {Main}

\* a task is an object of one class: the same value is never two of them
ASSUME TasksAreApart ==
    LET apart == <<Builders, WasmTasks, Parses, Clients, SweepTasks, {AtomsTask} \ {None},
                   {AllocTask} \ {None}, {BufferTask} \ {None}, {GCHelper} \ {None}, {None}>>
    IN  \A i, j \in DOMAIN apart : i # j => apart[i] \cap apart[j] = {}

GCTasks == SweepTasks \cup ({AtomsTask, AllocTask, BufferTask} \ {None})
\* a client has at most one SourceCompressionTask, named after it
Tasks == Builders \cup WasmTasks \cup Parses \cup GCTasks \cup Clients \cup {GCHelper}

KindOf(t) == CASE t \in Builders -> "ion"
               [] t \in WasmTasks -> "wasm"
               [] t \in Parses -> "parse"
               [] t \in Clients -> "compress"
               [] t \in GCTasks -> "gcparallel"
               [] t = GCHelper -> "gchelper"

\* the order in which threadLoop looks at the work lists
Order == <<"wasm", "ion", "parse", "compress", "gchelper", "gcparallel">>
Kinds == {Order[i] : i \in DOMAIN Order}

Queued(k) == {work[k][i] : i \in DOMAIN work[k]}
InProgress(t) == \E h \in Helpers : task[h] = t

-----------------------------------------------------------------------------
(* Condition variables.  Idle helpers, and a parse that waits for the heap,  *)
(* wait on PRODUCER; clients on CONSUMER; paused compilations on PAUSE.      *)

ProducerWaiters == {h \in Helpers : pc[h] \in {"wait", "starved"}}
PauseWaiters == {h \in Helpers : pc[h] = "paused"}

Wake(W) == [h \in Helpers |->
    CASE h \in W /\ pc[h] = "wait" -> "loop"
      [] h \in W /\ pc[h] = "starved" -> "refill"
      [] h \in W /\ pc[h] = "paused" -> "resume"
      [] OTHER -> pc[h]]

NotifyOnce(n) == \* mutant: one notifyOne for all n tasks
    \/ ProducerWaiters = {} /\ pc' = pc
    \/ \E h \in ProducerWaiters : pc' = Wake({h})
\* n calls of notifyOne(PRODUCER) in one critical section wake n waiters
NotifyEach(n) ==
    \E W \in SUBSET ProducerWaiters :
        /\ \/ Cardinality(W) = n
           \/ Cardinality(W) < n /\ W = ProducerWaiters
        /\ pc' = Wake(W)
NotifyAllProducers == pc' = Wake(ProducerWaiters)
NotifyAllConsumers == asleep' = {}
NoPausedWoken == pc \* mutant: the flag is reset, but PAUSE is not notified
PausedWoken == Wake(PauseWaiters)

-----------------------------------------------------------------------------
(* What a helper sees in its critical section: the state s of the threads.  *)

Now == [pc |-> pc, task |-> task, pause |-> pause, failed |-> failed]

On(k, s) == {h \in Helpers : s.task[h] # None /\ KindOf(s.task[h]) = k}
Running(k) == On(k, Now)

-----------------------------------------------------------------------------
(* Priorities of Ion compilations.                                           *)

Higher(b, c) == rank[b] > rank[c]

\* highestPriorityPendingIonCompile: the first of the highest priority, if any
HighestPending ==
    LET q == work["ion"]
        Best(i) == /\ \A j \in DOMAIN q : ~Higher(q[j], q[i])
                   /\ \A j \in 1..(i - 1) : Higher(q[i], q[j])
    IN  {q[i] : i \in {i \in DOMAIN q : Best(i)}}

Unpaused(s) == {h \in On("ion", s) : ~s.pause[h]}
MaxUnpaused == 1

\* lowestPriorityUnpausedIonCompileAtThreshold: the candidates, none below it
LowestUnpaused(s) ==
    IF Cardinality(Unpaused(s)) < MaxUnpaused THEN {}
    ELSE {h \in Unpaused(s) : \A g \in Unpaused(s) : ~Higher(s.task[h], s.task[g])}

\* highestPriorityPausedIonCompile: the candidates (asserted to compile)
HighestPaused(s) ==
    LET P == {h \in On("ion", s) : s.pause[h]}
    IN  {h \in P : \A g \in P : ~Higher(s.task[g], s.task[h])}

-----------------------------------------------------------------------------
(* threadLoop: which task a helper may take, and taking it.                  *)

ManyParses(k) == Cardinality(Helpers) \* mutant: parses are not limited
MaxThreads(k) == CASE k = "wasm" -> Cardinality(WasmTasks)
                   [] k = "parse" -> 1
                   [] OTHER -> Cardinality(Helpers)

BelowLimit(k, s) == \/ MaxThreads(k) >= Cardinality(Helpers)
                    \/ Cardinality(On(k, s)) < MaxThreads(k)

SufficientPriority(s) ==
    LowestUnpaused(s) # {} =>
        \E h \in LowestUnpaused(s) : \A b \in HighestPending : Higher(b, s.task[h])

CanStart(k, s) ==
    /\ work[k] # <<>>
    /\ BelowLimit(k, s)
    /\ k = "wasm" => s.failed = 0
    /\ k = "ion" => SufficientPriority(s)

First(k, s) == CanStart(k, s) /\ \A i, j \in DOMAIN Order :
                   Order[j] = k /\ i < j => ~CanStart(Order[i], s)

AllOf(q, S) == q \* mutant: found, but not removed
\* erase, which keeps the order of the others
Without(q, S) ==
    LET kept[n \in 0..Len(q)] ==
            IF n = 0 THEN <<>>
            ELSE IF q[n] \in S THEN kept[n - 1] ELSE Append(kept[n - 1], q[n])
    IN  kept[Len(q)]

\* popCopy of the work list of kind k
Pop(h, k, s) ==
    /\ First(k, s)
    /\ task' = [s.task EXCEPT ![h] = work[k][Len(work[k])]]
    /\ work' = [work EXCEPT ![k] = SubSeq(@, 1, Len(@) - 1)]
    /\ pause' = s.pause
    /\ pc' = [s.pc EXCEPT ![h] = "work"]

\* handleIonWorkload, up to the compilation: pause another if there are too many.
\* Priorities "race (change on the fly)" since they were looked at, so that any
\* waiting compilation may be the highest by now, and any other one the lowest
PopIon(h, s) ==
    /\ First("ion", s)
    /\ \E b \in Queued("ion") :
        /\ work' = [work EXCEPT !["ion"] = Without(@, {b})]
        /\ task' = [s.task EXCEPT ![h] = b]
    /\ \/ Cardinality(Unpaused(s)) < MaxUnpaused /\ pause' = s.pause
       \/ /\ Cardinality(Unpaused(s)) >= MaxUnpaused
          /\ \E other \in Unpaused(s) : pause' = [s.pause EXCEPT ![other] = TRUE]
    /\ pc' = [s.pc EXCEPT ![h] = "work"]

\* nothing to do, or told to terminate
Stop(h, s) ==
    /\ pc' = [s.pc EXCEPT ![h] = IF h \in terminate THEN "gone" ELSE "wait"]
    /\ task' = s.task
    /\ pause' = s.pause
    /\ work' = work

ThreadLoop(h, s) ==
    IF h \in terminate \/ \A k \in Kinds : ~CanStart(k, s) THEN Stop(h, s)
    ELSE PopIon(h, s) \/ \E k \in Kinds \ {"ion"} : Pop(h, k, s)

-----------------------------------------------------------------------------
Init ==
    /\ pc = [h \in Helpers |-> "loop"]
    /\ task = [h \in Helpers |-> None]
    /\ pause = [h \in Helpers |-> FALSE]
    /\ terminate = {}
    /\ work = [k \in Kinds |-> <<>>]
    /\ done = [k \in {"ion", "wasm", "parse"} |-> {}]
    /\ parked = {}
    /\ failed = 0
    /\ module = [owner |-> None, outstanding |-> 0]
    /\ gcTask = [t \in GCTasks |-> "NotStarted"]
    /\ sweeping = FALSE
    /\ heapBusy = FALSE
    /\ atomsGC = FALSE
    /\ rank \in [Builders -> 0..MaxRank]
    /\ op = [c \in Clients |-> "none"]
    /\ cancel = {}
    /\ compressing = {}
    /\ asleep = {}

-----------------------------------------------------------------------------
(* The helper threads.                                                       *)

\* a helper starts or is woken up
Look(h) ==
    /\ pc[h] = "loop"
    /\ ThreadLoop(h, Now)
    /\ UNCHANGED <<done, parked, failed, module, gc, mainOnly, op, asleep>>

Works(h, k) == pc[h] = "work" /\ task[h] # None /\ KindOf(task[h]) = k

\* the compilation sees the flag and pauses itself (PauseCurrentHelperThread)
PauseCompile(h) ==
    /\ Works(h, "ion") /\ pause[h]
    /\ pc' = [pc EXCEPT ![h] = "paused"]
    /\ UNCHANGED <<task, pause, lists, failed, module, gc, mainOnly, op, asleep>>

\* it wakes up and looks at the flag again
Resume(h) ==
    /\ pc[h] = "resume"
    /\ pc' = [pc EXCEPT ![h] = IF pause[h] THEN "paused" ELSE "work"]
    /\ UNCHANGED <<task, pause, lists, failed, module, gc, mainOnly, op, asleep>>

ResetTask(h) == [Now EXCEPT !.task[h] = None] \* mutant: the flag stays
\* a handler is through with its task; only Ion's had a flag to reset
Reset(h) == [Now EXCEPT !.task[h] = None, !.pause[h] = FALSE]

UnlessNonePending(other) == \* mutant: an empty work list also forbids it
    HighestPending # {} /\ \A b \in HighestPending : Higher(task[other], b)
\* handleIonWorkload, after the compilation: unpause one other, unless a
\* compilation that is still waiting comes first
MayUnpause(other) == \A b \in HighestPending : Higher(task[other], b)

FinishIon(h) ==
    /\ Works(h, "ion")
    /\ done' = [done EXCEPT !["ion"] = @ \cup {task[h]}]
    /\ NotifyAllConsumers
    /\ LET s == Reset(h) IN
        \/ /\ \A other \in HighestPaused(s) : ~MayUnpause(other)
           /\ ThreadLoop(h, s)
        \/ \E other \in HighestPaused(s) :
            /\ MayUnpause(other)
            /\ ThreadLoop(h, [s EXCEPT !.pause[other] = FALSE, !.pc = PausedWoken])
    /\ UNCHANGED <<parked, failed, module, gc, mainOnly, op>>

FinishWasm(h) ==
    /\ Works(h, "wasm")
    /\ \/ done' = [done EXCEPT !["wasm"] = @ \cup {task[h]}] /\ failed' = failed
       \/ done' = done /\ failed' = failed + 1
    /\ NotifyAllConsumers
    /\ ThreadLoop(h, [Reset(h) EXCEPT !.failed = failed'])
    /\ UNCHANGED <<parked, module, gc, mainOnly, op>>

\* a parse ends once it waits for nothing and has completed its compression
FinishParse(h) ==
    /\ Works(h, "parse") /\ op[h] \in {"none", "compiled"} /\ h \notin compressing
    /\ done' = [done EXCEPT !["parse"] = @ \cup {task[h]}]
    /\ op' = [op EXCEPT ![h] = "none"]
    /\ NotifyAllConsumers
    /\ ThreadLoop(h, Reset(h))
    /\ UNCHANGED <<parked, failed, module, gc, mainOnly>>

FinishCompression(h) ==
    /\ Works(h, "compress")
    /\ NotifyAllConsumers
    /\ ThreadLoop(h, Reset(h))
    /\ UNCHANGED <<done, parked, failed, module, gc, mainOnly, op>>

FinishGCTask(h) ==
    /\ Works(h, "gcparallel")
    /\ gcTask' = [gcTask EXCEPT ![task[h]] = "Finished"]
    /\ NotifyAllConsumers
    /\ ThreadLoop(h, Reset(h))
    /\ UNCHANGED <<done, parked, failed, module, sweeping, heapBusy, atomsGC, mainOnly, op>>

\* GCHelperState::work becomes IDLE before its handler takes the lock again,
\* so the same state can be queued while a helper still holds it
EndSweeping(h) ==
    /\ Works(h, "gchelper")
    /\ pc' = [pc EXCEPT ![h] = "swept"]
    /\ sweeping' = FALSE
    /\ UNCHANGED <<task, pause, lists, failed, module, gcTask, heapBusy, atomsGC, mainOnly, op, asleep>>

FinishGCHelper(h) ==
    /\ pc[h] = "swept"
    /\ NotifyAllConsumers
    /\ ThreadLoop(h, Reset(h))
    /\ UNCHANGED <<done, parked, failed, module, gc, mainOnly, op>>

\* refillFreeListOffMainThread: a parse waits on PRODUCER while the heap is busy;
\* once it has its arena, and no lock, it may have to start the allocation task
RefillFreeList(h) ==
    /\ \/ Works(h, "parse") /\ op[h] = "none"
       \/ pc[h] = "refill"
    /\ \E next \in IF heapBusy THEN {"starved"}
                   ELSE {"work"} \cup (IF AllocTask = None THEN {} ELSE {"refilled"}) :
          pc' = [pc EXCEPT ![h] = next]
    /\ UNCHANGED <<task, pause, lists, failed, module, gc, mainOnly, op, asleep>>

-----------------------------------------------------------------------------
(* The clients.  A client is the main thread or a helper that runs a parse. *)
(* A blocking call is a loop: look, and wait(CONSUMER) if it is too early.  *)

Turn(c) == /\ c \notin asleep
           /\ \/ c = Main
              \/ c # Main /\ Works(c, "parse")
In(c, o) == Turn(c) /\ op[c] \in o

Sleep(c) == /\ asleep' = asleep \cup {c}
            /\ UNCHANGED <<pc, task, pause, lists, failed, gc, mainOnly, op>>

Goto(c, o) == op' = [op EXCEPT ![c] = o]

\* append one task of kind k to its list and notifyOne(PRODUCER)
Start(k, t) == work' = [work EXCEPT ![k] = Append(@, t)] /\ NotifyEach(1)

Unused(k, t) == /\ t \notin Queued(k) /\ ~InProgress(t)
                /\ k \in DOMAIN done => t \notin done[k]

\* a script gets warmer and its compilation more urgent
WarmUp(b) ==
    /\ In(Main, {"none"}) /\ rank[b] < MaxRank
    /\ rank' = [rank EXCEPT ![b] = @ + 1]
    /\ UNCHANGED <<pc, task, pause, lists, failed, module, gc, terminate, cancel, compressing, op, asleep>>

StartOffThreadIonCompile(b) ==
    /\ In(Main, {"none"}) /\ Unused("ion", b)
    /\ Start("ion", b)
    /\ UNCHANGED <<task, pause, done, parked, failed, module, gc, mainOnly, op, asleep>>

\* AttachFinishedCompilations takes a finished compilation off the list
AttachFinished(b) ==
    /\ In(Main, {"none"}) /\ b \in done["ion"]
    /\ done' = [done EXCEPT !["ion"] = @ \ {b}]
    /\ UNCHANGED <<pc, task, pause, work, parked, failed, module, gc, mainOnly, op, asleep>>

Pending(S) == S \cap Queued("ion")

Popped(v) == SubSeq([v.list EXCEPT ![v.at] = v.list[Len(v.list)]], 1, Len(v.list) - 1)
IndexStays(v) == [list |-> Popped(v), at |-> v.at] \* mutant: the index is not stepped back
\* HelperThreadState().remove: the last task takes the place of the one at the
\* index, and the index steps back
Remove(v) == [list |-> Popped(v), at |-> v.at - 1]

\* the loops `for (i = 0; i < list.length(); i++)' that remove the members of S
RemoveAll(q, S) ==
    LET Visit(v) == IF v.list[v.at] \in S THEN Remove(v) ELSE v
        Step(v) == IF v.at > Len(v.list) THEN v ELSE [Visit(v) EXCEPT !.at = @ + 1]
        loop[n \in 0..Len(q)] ==
            IF n = 0 THEN [list |-> q, at |-> 1] ELSE Step(loop[n - 1])
    IN  loop[Len(q)].list

\* CancelOffThreadIonCompile drops what has not started; it keeps the lock until
\* it waits, but what a helper may do in between it may also do before ...
BeginCancel(S, o) ==
    /\ In(Main, {"none"})
    /\ LET pending == Pending(S) IN
        /\ work' = [work EXCEPT !["ion"] = RemoveAll(@, pending)]
        /\ done' = [done EXCEPT !["ion"] = @ \cup pending]
    /\ cancel' = S
    /\ Goto(Main, o)
    /\ UNCHANGED <<pc, task, pause, parked, failed, module, gc, terminate, rank, compressing, asleep>>

Cancel(S) == BeginCancel(S, "cancel")
\* waitForAllThreads begins by cancelling every compilation
WaitForAllThreads == BeginCancel(Builders, "cancelAll")

\* ... waits for those in progress, which it unpauses ...
AwaitCancelled(h) ==
    /\ In(Main, {"cancel", "cancelAll"}) /\ task[h] \in cancel
    /\ \/ pause[h] /\ pause' = [pause EXCEPT ![h] = FALSE] /\ pc' = PausedWoken
       \/ ~pause[h] /\ UNCHANGED <<pause, pc>>
    /\ asleep' = asleep \cup {Main}
    /\ UNCHANGED <<task, lists, failed, module, gc, mainOnly, op>>

\* ... and takes the matching ones off the finished list
EndCancel ==
    /\ In(Main, {"cancel", "cancelAll"})
    /\ \A h \in Helpers : task[h] \notin cancel
    /\ done' = [done EXCEPT !["ion"] = @ \ cancel]
    /\ Goto(Main, IF op[Main] = "cancelAll" THEN "waitAll" ELSE "none")
    /\ cancel' = {}
    /\ UNCHANGED <<pc, task, pause, work, parked, failed, module, gc, terminate, rank, compressing, asleep>>

HasActiveThreads == \E h \in Helpers : task[h] # None

AwaitAllThreads ==
    /\ In(Main, {"waitAll"})
    /\ IF HasActiveThreads THEN Sleep(Main) /\ UNCHANGED module
       ELSE /\ Goto(Main, "none")
            /\ UNCHANGED <<pc, task, pause, lists, failed, module, gc, mainOnly, asleep>>

-----------------------------------------------------------------------------
(* Parse tasks and collections of the atoms zone.                            *)

\* a parse that was activated and not merged yet: an exclusive thread is present
ActiveParses == Queued("parse") \cup {task[h] : h \in Running("parse")} \cup done["parse"]

NeverWaits == FALSE \* mutant: the collection is not looked at
\* OffThreadParsingMustWaitForGC
MustWaitForGC == atomsGC

\* QueueOffThreadParseTask
StartParse(p) ==
    /\ In(Main, {"none"}) /\ Unused("parse", p) /\ p \notin parked
    /\ IF MustWaitForGC THEN parked' = parked \cup {p} /\ UNCHANGED <<pc, work>>
       ELSE Start("parse", p) /\ UNCHANGED parked
    /\ UNCHANGED <<task, pause, done, failed, module, gc, mainOnly, op, asleep>>

\* finishParseTask merges a finished parse
MergeParse(p) ==
    /\ In(Main, {"none"}) /\ p \in done["parse"]
    /\ done' = [done EXCEPT !["parse"] = @ \ {p}]
    /\ UNCHANGED <<pc, task, pause, work, parked, failed, module, gc, mainOnly, op, asleep>>

\* CancelOffThreadParses, when no collection is in progress
CancelParses ==
    /\ In(Main, {"none"}) /\ ~atomsGC
    /\ Goto(Main, "cancelParses")
    /\ UNCHANGED <<pc, task, pause, lists, failed, module, gc, mainOnly, asleep>>

AwaitParses ==
    /\ In(Main, {"cancelParses"})
    /\ IF Queued("parse") # {} \/ Running("parse") # {} THEN Sleep(Main) /\ UNCHANGED module
       ELSE /\ done' = [done EXCEPT !["parse"] = {}]
            /\ Goto(Main, "none")
            /\ UNCHANGED <<pc, task, pause, work, parked, failed, module, gc, mainOnly, asleep>>

\* a collection takes the atoms zone only while no parse is active (keepAtoms)
BeginAtomsGC ==
    /\ In(Main, {"none"}) /\ ~atomsGC /\ ActiveParses = {}
    /\ atomsGC' = TRUE
    /\ UNCHANGED <<pc, task, pause, lists, failed, module, gcTask, sweeping, heapBusy, mainOnly, op, asleep>>

\* EnqueuePendingParseTasksAfterGC
EndAtomsGC ==
    /\ In(Main, {"none"}) /\ atomsGC
    /\ atomsGC' = FALSE
    /\ parked' = {}
    /\ \E q \in [1..Cardinality(parked) -> parked] :
        /\ \A i, j \in DOMAIN q : q[i] = q[j] => i = j
        /\ work' = [work EXCEPT !["parse"] = @ \o q]
    /\ IF parked = {} THEN pc' = pc ELSE NotifyAllProducers
    /\ UNCHANGED <<task, pause, done, failed, module, gcTask, sweeping, heapBusy, mainOnly, op, asleep>>

-----------------------------------------------------------------------------
(* A client compiles a module: asmjs/WasmGenerator.cpp.                      *)

\* startFuncDefs: only one module at a time is compiled in parallel
StartModule(c) ==
    /\ In(c, {"none"}) /\ WasmTasks # {} /\ module.owner = None
    /\ module' = [owner |-> c, outstanding |-> 0]
    /\ Goto(c, "generate")
    /\ UNCHANGED <<pc, task, pause, lists, failed, gc, mainOnly, asleep>>

\* finishFuncDef hands out a task, unless another one failed
SubmitFunction(c) ==
    /\ In(c, {"generate"}) /\ module.outstanding < Cardinality(WasmTasks) /\ failed = 0
    /\ \E t \in WasmTasks : Unused("wasm", t) /\ Start("wasm", t)
    /\ module' = [module EXCEPT !.outstanding = @ + 1]
    /\ UNCHANGED <<task, pause, done, parked, failed, gc, mainOnly, op, asleep>>

\* no free task left; all functions handed out; or an error, noticed or its own
LeaveGenerate(c) ==
    /\ In(c, {"generate"})
    /\ \/ module.outstanding = Cardinality(WasmTasks) /\ Goto(c, "outstanding")
       \/ Goto(c, "ending")
       \/ Goto(c, "drain")
    /\ UNCHANGED <<pc, task, pause, lists, failed, module, gc, mainOnly, asleep>>

\* finishOutstandingTask: wait for any finished task, whose code may not fit
\* (finishTask), or for a failure
FinishOutstanding(c) ==
    /\ In(c, {"outstanding", "ending"}) /\ module.outstanding > 0
    /\ \/ /\ failed > 0
          /\ Goto(c, "drain")
          /\ UNCHANGED <<pc, task, pause, lists, failed, module, gc, mainOnly, asleep>>
       \/ /\ failed = 0 /\ done["wasm"] # {}
          /\ \E t \in done["wasm"] : done' = [done EXCEPT !["wasm"] = @ \ {t}]
          /\ module' = [module EXCEPT !.outstanding = @ - 1]
          /\ \E next \in {IF op[c] = "outstanding" THEN "generate" ELSE "ending", "drain"} :
                Goto(c, next)
          /\ UNCHANGED <<pc, task, pause, work, parked, failed, gc, mainOnly, asleep>>
       \/ failed = 0 /\ done["wasm"] = {} /\ Sleep(c) /\ UNCHANGED module

LeftOverButFailed == \* mutant: failures are not harvested
    module.outstanding - Len(work["wasm"]) - Cardinality(done["wasm"])
LeftOverFailedTwice == \* mutant: a failed task counts as finished, too
    LeftOverButFailed - 2 * failed
\* ~ModuleGenerator takes back what it can and waits for the rest
LeftOver == module.outstanding - Len(work["wasm"]) - Cardinality(done["wasm"]) - failed

DrainModule(c) ==
    /\ In(c, {"drain"}) /\ module.outstanding > 0
    /\ work' = [work EXCEPT !["wasm"] = <<>>]
    /\ done' = [done EXCEPT !["wasm"] = {}]
    /\ failed' = 0
    /\ module' = [module EXCEPT !.outstanding = LeftOver]
    /\ asleep' = IF LeftOver > 0 THEN asleep \cup {c} ELSE asleep
    /\ UNCHANGED <<pc, task, pause, parked, gc, mainOnly, op>>

EndModule(c) ==
    /\ In(c, {"ending", "drain"}) /\ module.outstanding = 0
    /\ module' = [module EXCEPT !.owner = None]
    /\ Goto(c, "none")
    /\ UNCHANGED <<pc, task, pause, lists, failed, gc, mainOnly, asleep>>

-----------------------------------------------------------------------------
(* A client compiles a script and has its source compressed meanwhile.      *)

StartOffThreadCompression(c) ==
    /\ In(c, {"none"}) /\ c \in Compressors \ compressing
    /\ Start("compress", c)
    /\ compressing' = compressing \cup {c}
    /\ UNCHANGED <<task, pause, done, parked, failed, module, gc, terminate, cancel, rank, op, asleep>>

\* SourceCompressionTask::complete is called ...
BeginComplete(c) ==
    /\ In(c, {"none"}) /\ c \in compressing
    /\ Goto(c, "complete")
    /\ UNCHANGED <<pc, task, pause, lists, failed, module, gc, mainOnly, asleep>>

CompressionInProgress(c) == c \in Queued("compress") \/ InProgress(c)

\* ... and returns once the task is neither queued nor running; it is the end
\* of a parse, which has one source
Complete(c) ==
    /\ In(c, {"complete"})
    /\ IF CompressionInProgress(c) THEN Sleep(c) /\ UNCHANGED module
       ELSE /\ compressing' = compressing \ {c}
            /\ Goto(c, IF c = Main THEN "none" ELSE "compiled")
            /\ UNCHANGED <<pc, task, pause, lists, failed, module, gc, terminate, cancel, rank, asleep>>

-----------------------------------------------------------------------------
(* The collector's tasks.  In a session the heap is busy.                    *)

Dispatch(T) == gcTask' = [t \in GCTasks |-> IF t \in T THEN "Dispatched" ELSE gcTask[t]]
Joined(T) == [t \in GCTasks |-> IF t \in T THEN "NotStarted" ELSE gcTask[t]]

\* startBackgroundAllocTaskIfIdle, by an allocating client without the lock
StartAlloc(c) ==
    /\ AllocTask # None
    /\ \/ c = Main /\ In(Main, {"none"})
       \/ c # Main /\ pc[c] = "refilled"
    /\ LET base == IF c = Main THEN pc ELSE [pc EXCEPT ![c] = "work"] IN
       IF gcTask[AllocTask] = "Dispatched"
       THEN pc' = base /\ UNCHANGED <<work, gcTask>>
       ELSE /\ work' = [work EXCEPT !["gcparallel"] = Append(@, AllocTask)]
            /\ Dispatch({AllocTask})
            /\ \E W \in SUBSET ProducerWaiters :
                /\ Cardinality(W) = (IF ProducerWaiters = {} THEN 0 ELSE 1)
                /\ pc' = IF c = Main THEN Wake(W) ELSE [Wake(W) EXCEPT ![c] = "work"]
    /\ UNCHANGED <<task, pause, done, parked, failed, module, sweeping, heapBusy, atomsGC, mainOnly, op, asleep>>

\* AutoTraceSession: a minor collection, or a slice of a major one
\* (an instance without any of these tasks has no sessions)
BeginSession ==
    /\ In(Main, {"none"}) /\ GCTasks \cup {GCHelper} # {None}
    /\ heapBusy' = TRUE
    /\ \/ BufferTask # None /\ Goto(Main, "buffers")
       \/ Goto(Main, "joinAlloc")
    /\ UNCHANGED <<pc, task, pause, lists, failed, module, gcTask, sweeping, atomsGC, mainOnly, asleep>>

\* Nursery::freeMallocedBuffers joins the previous task and starts the next
FreeMallocedBuffers ==
    /\ In(Main, {"buffers"})
    /\ IF gcTask[BufferTask] = "Dispatched" THEN Sleep(Main) /\ UNCHANGED module
       ELSE /\ Start("gcparallel", BufferTask) /\ Dispatch({BufferTask})
            /\ Goto(Main, "minor")
            /\ UNCHANGED <<task, pause, done, parked, failed, module, sweeping, heapBusy, atomsGC, mainOnly, asleep>>

\* joinWithLockHeld on the tasks T, then on to o
Join(T, o) ==
    IF \E t \in T : gcTask[t] = "Dispatched" THEN Sleep(Main) /\ UNCHANGED module
    ELSE /\ gcTask' = Joined(T)
         /\ Goto(Main, o)
         /\ UNCHANGED <<pc, task, pause, lists, failed, module, sweeping, heapBusy, atomsGC, mainOnly, asleep>>

\* collect waits for background allocation
JoinAlloc == In(Main, {"joinAlloc"}) /\ Join({AllocTask} \ {None}, "collect")

\* beginSweepingZoneGroup: the atoms, if the atoms zone is in the group ...
StartSweepAtoms ==
    /\ In(Main, {"collect"}) /\ AtomsTask # None /\ atomsGC
    /\ Start("gcparallel", AtomsTask) /\ Dispatch({AtomsTask})
    /\ Goto(Main, "sweepAtoms")
    /\ UNCHANGED <<task, pause, done, parked, failed, module, sweeping, heapBusy, atomsGC, mainOnly, asleep>>

\* ... starts all its other tasks in one critical section ...
StartSweepTasks ==
    /\ In(Main, {"collect", "sweepAtoms"}) /\ SweepTasks # {}
    /\ \E q \in [1..Cardinality(SweepTasks) -> SweepTasks] :
        /\ \A i, j \in DOMAIN q : q[i] = q[j] => i = j
        /\ work' = [work EXCEPT !["gcparallel"] = @ \o q]
    /\ Dispatch(SweepTasks)
    /\ NotifyEach(Cardinality(SweepTasks))
    /\ Goto(Main, "joinSweep")
    /\ UNCHANGED <<task, pause, done, parked, failed, module, sweeping, heapBusy, atomsGC, mainOnly, asleep>>

\* ... and joins them, the atoms task first, which nothing else depends on
JoinSweepTasks == In(Main, {"joinSweep"}) /\ Join(SweepTasks \cup ({AtomsTask} \ {None}), "collect")

\* GCHelperState::maybeStartBackgroundSweep, for the zones of a swept group
StartBackgroundSweep ==
    /\ In(Main, {"collect"}) /\ GCHelper # None /\ ~sweeping
    /\ sweeping' = TRUE
    /\ work' = [work EXCEPT !["gchelper"] = Append(@, GCHelper)]
    /\ NotifyAllProducers
    /\ UNCHANGED <<task, pause, done, parked, failed, module, gcTask, heapBusy, atomsGC, mainOnly, op, asleep>>

\* waitBackgroundSweepEnd, which waits on a condition variable of the collector
WaitBackgroundSweepEnd ==
    /\ \/ In(Main, {"none"}) /\ sweeping /\ Goto(Main, "sweepEnd")
       \/ In(Main, {"collect"}) /\ sweeping /\ Goto(Main, "sweepEndInGC")
       \/ In(Main, {"sweepEnd"}) /\ ~sweeping /\ Goto(Main, "none")
       \/ In(Main, {"sweepEndInGC"}) /\ ~sweeping /\ Goto(Main, "collect")
    /\ UNCHANGED <<pc, task, pause, lists, failed, module, gc, mainOnly, asleep>>

NobodyWoken == {} \* mutant: PRODUCER is not notified
\* ~AutoTraceSession wakes the parses that wait for the heap, if there are any
SessionEndWakes == IF ActiveParses # {} THEN ProducerWaiters ELSE {}

EndSession ==
    /\ In(Main, {"collect", "minor"})
    /\ heapBusy' = FALSE
    /\ pc' = Wake(SessionEndWakes)
    /\ Goto(Main, "none")
    /\ UNCHANGED <<task, pause, lists, failed, module, gcTask, sweeping, atomsGC, mainOnly, asleep>>

-----------------------------------------------------------------------------
(* Shutdown: finishThreads destroys the helpers one by one, when every       *)
(* runtime is gone and with it every task.                                   *)

Quiescent ==
    /\ \A k \in Kinds : work[k] = <<>>
    /\ \A k \in DOMAIN done : done[k] = {}
    /\ parked = {} /\ compressing = {} /\ ~atomsGC /\ ~HasActiveThreads
    /\ \A t \in GCTasks : gcTask[t] # "Dispatched"

Shutdown ==
    /\ In(Main, {"none"}) /\ Quiescent
    /\ Goto(Main, "shutdown")
    /\ UNCHANGED <<pc, task, pause, lists, failed, module, gc, mainOnly, asleep>>

Gone == {h \in Helpers : pc[h] = "gone"}

DestroyHelper(h) ==
    /\ In(Main, {"shutdown"}) /\ terminate = Gone /\ h \notin terminate
    /\ terminate' = terminate \cup {h}
    /\ NotifyAllProducers
    /\ UNCHANGED <<task, pause, lists, failed, module, gc, cancel, rank, compressing, op, asleep>>

EndShutdown ==
    /\ In(Main, {"shutdown"}) /\ Gone = Helpers
    /\ Goto(Main, "ended")
    /\ UNCHANGED <<pc, task, pause, lists, failed, module, gc, mainOnly, asleep>>

-----------------------------------------------------------------------------
HelperStep(h) ==
    \/ Look(h) \/ PauseCompile(h) \/ Resume(h) \/ FinishIon(h)
    \/ FinishWasm(h) \/ FinishParse(h) \/ FinishCompression(h)
    \/ FinishGCTask(h) \/ EndSweeping(h) \/ FinishGCHelper(h)
    \/ RefillFreeList(h)

IonStep ==
    \/ \E b \in Builders : WarmUp(b) \/ StartOffThreadIonCompile(b) \/ AttachFinished(b)
    \/ \E S \in CancelTargets : Cancel(S)
    \/ WaitForAllThreads
    \/ \E h \in Helpers : AwaitCancelled(h)
    \/ EndCancel \/ AwaitAllThreads

ParseStep ==
    \/ \E p \in Parses : StartParse(p) \/ MergeParse(p)
    \/ CancelParses \/ AwaitParses \/ BeginAtomsGC \/ EndAtomsGC

ClientStep(c) ==
    \/ StartModule(c) \/ SubmitFunction(c) \/ LeaveGenerate(c)
    \/ FinishOutstanding(c) \/ DrainModule(c) \/ EndModule(c)
    \/ StartOffThreadCompression(c) \/ BeginComplete(c) \/ Complete(c)
    \/ StartAlloc(c)

GCStep ==
    \/ BeginSession \/ FreeMallocedBuffers \/ JoinAlloc
    \/ StartSweepAtoms \/ StartSweepTasks \/ JoinSweepTasks
    \/ StartBackgroundSweep \/ WaitBackgroundSweepEnd \/ EndSession

ShutdownStep ==
    \/ Shutdown \/ EndShutdown \/ \E h \in Helpers : DestroyHelper(h)

Next ==
    \/ \E h \in Helpers : HelperStep(h)
    \/ \E c \in Clients : ClientStep(c)
    \/ IonStep \/ ParseStep \/ GCStep \/ ShutdownStep

Spec == Init /\ [][Next]_vars

-----------------------------------------------------------------------------
(* Fairness.  The operating system runs every thread that can run, helperLock *)
(* included, and every task is finite.  A parse has an end and a module finitely *)
(* many functions, but these ends are only enabled again and again: strong     *)
(* fairness.  Nothing is assumed of the main thread between two operations.    *)

Blocking == {"cancel", "cancelAll", "waitAll", "cancelParses", "outstanding", "ending", "drain",
             "complete", "buffers", "joinAlloc", "joinSweep", "sweepEnd", "sweepEndInGC", "shutdown"}

\* a helper goes on, with anything but the end of a parse
HelperGoesOn(h) ==
    \/ Look(h) \/ PauseCompile(h) \/ Resume(h) \/ FinishIon(h)
    \/ FinishWasm(h) \/ FinishCompression(h) \/ FinishGCTask(h)
    \/ EndSweeping(h) \/ FinishGCHelper(h)
    \/ pc[h] = "refill" /\ RefillFreeList(h)
    \/ pc[h] = "refilled" /\ StartAlloc(h)

\* a blocking call of a client looks again
ClientGoesOn(c) == FinishOutstanding(c) \/ DrainModule(c) \/ EndModule(c) \/ Complete(c)

MainGoesOn ==
    \/ EndCancel \/ \E h \in Helpers : AwaitCancelled(h) \/ DestroyHelper(h)
    \/ AwaitAllThreads \/ AwaitParses \/ FreeMallocedBuffers
    \/ op[Main] = "sweepAtoms" /\ StartSweepTasks
    \/ JoinAlloc \/ JoinSweepTasks \/ EndShutdown
    \/ op[Main] \in Blocking /\ WaitBackgroundSweepEnd

\* a module runs out of functions, a parse reaches the end of its script
ModuleEnds(c) == LeaveGenerate(c) /\ op'[c] = "ending"
ParseEnds(h) == BeginComplete(h) \/ FinishParse(h)

FairSpec ==
    /\ Spec
    /\ \A h \in Helpers : WF_vars(HelperGoesOn(h))
    /\ \A h \in Helpers : SF_vars(ParseEnds(h))
    /\ \A c \in Clients : WF_vars(ClientGoesOn(c)) /\ SF_vars(ModuleEnds(c))
    /\ WF_vars(MainGoesOn) /\ SF_vars(EndSession)

-----------------------------------------------------------------------------
PCs == {"loop", "wait", "work", "paused", "resume", "starved", "refill", "refilled", "swept", "gone"}
TypeOK ==
    /\ pc \in [Helpers -> PCs]
    /\ task \in [Helpers -> Tasks \cup {None}]
    /\ pause \in [Helpers -> BOOLEAN]
    /\ \A k \in Kinds : work[k] \in Seq(Tasks)
    /\ \A k \in DOMAIN done : done[k] \subseteq Tasks
    /\ terminate \subseteq Helpers /\ compressing \subseteq Clients /\ asleep \subseteq Clients
    /\ parked \subseteq Parses /\ cancel \subseteq Builders
    /\ failed \in 0..Cardinality(WasmTasks)
    /\ module.owner \in Clients \cup {None} /\ module.outstanding \in 0..Cardinality(WasmTasks)
    /\ gcTask \in [GCTasks -> {"NotStarted", "Dispatched", "Finished"}]
    /\ sweeping \in BOOLEAN /\ heapBusy \in BOOLEAN /\ atomsGC \in BOOLEAN
    /\ rank \in [Builders -> 0..MaxRank]
    /\ op \in [Clients -> Blocking \cup {"none", "generate", "compiled", "sweepAtoms", "collect", "minor", "ended"}]


\* A task is in one place only: waiting on one list, held by one helper or on
\* one finished list.  A GCHelperState is the exception: it may be queued again
\* before the helper that ran it has let go of it.
Places(t) ==
    Cardinality({h \in Helpers : task[h] = t})
    + Cardinality({at \in Kinds \X (1..Cardinality(Tasks)) :
                     at[2] \in DOMAIN work[at[1]] /\ work[at[1]][at[2]] = t})
    + Cardinality({k \in DOMAIN done : t \in done[k]})
EachTaskInOnePlace == \A t \in Tasks \ {GCHelper} : Places(t) <= 1

\* Between two critical sections, every function a module has handed out and
\* not got back is waiting, being compiled, finished or counted as failed; once
\* the module is gone nothing of it is left for the next one (the assertions of
\* ~ModuleGenerator and startFuncDefs).
ModuleIsAccountedFor ==
    /\ module.owner = None => module.outstanding = 0
    /\ module.outstanding = Len(work["wasm"]) + Cardinality(Running("wasm"))
                            + Cardinality(done["wasm"]) + failed

\* Only a thread that compiles with Ion is ever told to pause: another task
\* never looks at the flag (the assertion of highestPriorityPausedIonCompile).
OnlyIonIsPaused == \A h \in Helpers :
    /\ pause[h] => task[h] \in Builders
    /\ pc[h] = "paused" => pause[h]

\* When a cancellation returns, nothing it matches is waiting, running or
\* finished, so the scripts it was for may be changed or freed.
CancelLeavesNothing ==
    [][op[Main] \in {"cancel", "cancelAll"} /\ op[Main]' # op[Main] =>
        \A b \in cancel : Unused("ion", b)']_vars

\* No parse is active while the atoms zone is being collected.
ParsesAvoidAtomsGC == atomsGC => ActiveParses = {}

\* While the heap is free, a task that may start never waits for helpers that
\* all sleep: some helper is about to look at the lists.
WorkIsNoticed ==
    ~heapBusy /\ (\E k \in Kinds : CanStart(k, Now)) =>
        \E h \in Helpers \ terminate :
            \/ pc[h] \in {"loop", "resume", "refill", "refilled", "swept"}
            \/ pc[h] = "work" /\ h \notin asleep

\* Every call that blocks on helper threads returns: nobody waits for a task
\* that no helper will ever run, or for a wakeup that went to somebody else.
BlockingCallsReturn ==
    \A c \in Clients : op[c] \in Blocking ~> op[c] \notin Blocking

\* As long as a compilation is paused, another one runs or waits to be started;
\* the end of that one unpauses it.
PausedHasSuccessor ==
    (\E h \in Helpers : pause[h]) => Unpaused(Now) # {} \/ work["ion"] # <<>>

\* "This strategy will eventually unpause all paused threads"
\* (handleIonWorkload): only the main thread, which may drop the compilation
\* that a paused one was kept waiting for, can leave a paused one to itself.
OnlyCancelStrandsPaused ==
    [][PausedHasSuccessor => PausedHasSuccessor' \/ op[Main]' \in {"cancel", "cancelAll"}]_vars
=============================================================================
