---------------------------- MODULE IncrementalGC ----------------------------
(***************************************************************************)
(* The incremental mark-and-sweep collector of js/src/jsgc.cpp and          *)
(* js/src/gc/Marking.cpp: snapshot-at-the-beginning marking in slices, gray *)
(* marking and sweeping one zone group at a time, finalization on the main  *)
(* thread and on the background thread, and reset of a collection.          *)
(*                                                                          *)
(* The program runs between slices and is stopped during one.  What runs    *)
(* without interruption inside a slice is one action; marking and           *)
(* foreground finalization, which a budget can interrupt, take one action   *)
(* per step.  The helper thread finalizes at any time.                      *)
(*                                                                          *)
(* A cross-compartment wrapper is a cell whose referent lives in another    *)
(* zone.  Compaction, weak maps and the nursery are not part of this module.*)
(***************************************************************************)
EXTENDS HeapGraph, Naturals, Sequences, FiniteSets

CONSTANTS
  ImmediateArenas,   \* foreground objects: finalized when sweeping begins
  ForegroundArenas,  \* finalized on the main thread, incrementally
                     \* (all other arenas are finalized in the background)
  MaxOps,            \* bound: program steps in a behaviour
  MaxRefs,           \* bound: pointers per cell
  Schedules,         \* the sets of zones a collection can be scheduled for
  Heaps              \* the initial heaps: records with the fields of HeapInit

ASSUME Bounds ==
  /\ ImmediateArenas \in SUBSET Arenas
  /\ ForegroundArenas \in SUBSET (Arenas \ ImmediateArenas)
  /\ Schedules \subseteq (SUBSET Zones) \ {{}}
  /\ MaxOps \in Nat
  /\ MaxRefs \in Nat

\* The program and the embedding start out holding only cells that exist.
ASSUME HeapsAreValid ==
  \A h \in Heaps :
    /\ h.allocated \in SUBSET Cells
    /\ h.refs \in [Cells -> SUBSET h.allocated]
    /\ h.roots \in SUBSET h.allocated
    /\ h.grayRoots \in SUBSET h.allocated
    /\ h.weak \in SUBSET h.allocated

VARIABLES
  allocated, refs, roots, grayRoots, weak,   \* the heap (see AbstractHeap)
  mark,              \* mark bits: "white", "gray" or "black"
  gcState,           \* Zone::gcState_ of each zone
  barrier,           \* zones whose needsIncrementalBarrier_ is set
  incrementalState,  \* GCRuntime::incrementalState
  inSlice,           \* a slice is running: the program is stopped
  unlimited,         \* this slice has no budget (!isIncremental)
  worked,            \* this slice has used some of its budget
  stack,             \* GCMarker::stack: marked cells still to be traced
  delayed,           \* arenas flagged allocatedDuringIncremental, on the
                     \* marker's list of arenas to mark later
  freeLists,         \* arenas of marking zones that a free list points into
  bufferedGray,      \* the zones' gcGrayRoots
  incomingGray,      \* the gray lists: <<wrapper, referent>>
  zoneGroups,        \* the groups from currentZoneGroup on
  abortSweep,        \* abortSweepAfterCurrentGroup
  dying,             \* dead cells whose arenas wait to be finalized
  foundBlackGray,    \* foundBlackGrayEdges
  grayBitsValid,     \* grayBitsValid
  ops                \* program steps so far (bound)

heapVars == <<allocated, refs, roots, grayRoots, weak>>
markVars == <<mark, stack, delayed, freeLists, bufferedGray, incomingGray, foundBlackGray>>
zoneVars == <<gcState, barrier, zoneGroups, abortSweep, dying, grayBitsValid>>
sliceVars == <<incrementalState, inSlice, unlimited, worked>>
vars == <<heapVars, markVars, zoneVars, sliceVars, ops>>

States == {"NO_INCREMENTAL", "MARK", "SWEEP", "FINALIZE"}
ZoneStates == {"NoGC", "Mark", "Sweep", "Finished"}
Colors == {"white", "gray", "black"}

Marking == {z \in Zones : gcState[z] = "Mark"}
Collecting == {z \in Zones : gcState[z] # "NoGC"}

TypeOK ==
  /\ allocated \in SUBSET Cells
  /\ refs \in [Cells -> SUBSET Cells]
  /\ roots \in SUBSET Cells /\ grayRoots \in SUBSET Cells /\ weak \in SUBSET Cells
  /\ mark \in [Cells -> Colors]
  /\ gcState \in [Zones -> ZoneStates]
  /\ barrier \in SUBSET Zones
  /\ incrementalState \in States
  /\ inSlice \in BOOLEAN /\ unlimited \in BOOLEAN /\ worked \in BOOLEAN
  /\ stack \in SUBSET Cells
  /\ delayed \in SUBSET Arenas /\ freeLists \in SUBSET Arenas
  /\ bufferedGray \in SUBSET Cells
  /\ incomingGray \in SUBSET (Cells \X Cells)
  /\ zoneGroups \in Seq(SUBSET Zones)
  /\ abortSweep \in BOOLEAN
  /\ dying \in SUBSET allocated
  /\ foundBlackGray \in BOOLEAN /\ grayBitsValid \in BOOLEAN
  /\ ops \in 0 .. MaxOps

Init ==
  /\ \E h \in Heaps :
       /\ allocated = h.allocated
       /\ refs = h.refs
       /\ roots = h.roots
       /\ grayRoots = h.grayRoots
       /\ weak = h.weak
  /\ mark = [c \in Cells |-> "white"]
  /\ gcState = [z \in Zones |-> "NoGC"]
  /\ barrier = {}
  /\ incrementalState = "NO_INCREMENTAL"
  /\ inSlice = FALSE /\ unlimited = FALSE /\ worked = FALSE
  /\ stack = {} /\ delayed = {} /\ freeLists = {}
  /\ bufferedGray = {} /\ incomingGray = {}
  /\ zoneGroups = <<>> /\ abortSweep = FALSE
  /\ dying = {}
  /\ foundBlackGray = FALSE /\ grayBitsValid = FALSE
  /\ ops = 0

-----------------------------------------------------------------------------
(* Mark bits *)

White(c) == mark[c] = "white"

\* The mark bits after the cells of S have been marked black.
Blacken(S) == [c \in Cells |-> IF c \in S THEN "black" ELSE mark[c]]

\* What a black mark reaches in one step: DoMarking skips a cell that is
\* already marked or whose zone is not marking.
Markable(S) == {c \in S : White(c) /\ ZoneOf(c) \in Marking}

\* A barrier marks through the zone's barrier tracer while the zone's flag is up.
NoBarrierMarks(S) == {}   \* mutant
BarrierMarks(S) == {c \in S : White(c) /\ ZoneOf(c) \in barrier}

MarkAndPush(S) == mark' = Blacken(S) /\ stack' = stack \cup S

\* UnmarkGrayCellRecursively: the gray cells that gray cells lead to from S.
GrayOf(S) == {c \in S : mark[c] = "gray"}   \* mutant: not recursive
GrayFrom(S) ==
  LET gray(T) == {c \in T : mark[c] = "gray"}
  IN  Closure(gray(S), [c \in Cells |-> gray(refs[c])])

-----------------------------------------------------------------------------
(* The program and the embedding, between slices *)

Program == ~inSlice /\ ops < MaxOps /\ ops' = ops + 1

\* A free cell is taken from an arena that is not waiting to be finalized.  In
\* a zone that is marking, the arena is flagged for delayed marking when a free
\* list takes it, and not again for further cells from that free list.
Allocate(c) ==
  /\ Program
  /\ c \notin allocated
  /\ ArenaOf[c] \notin {ArenaOf[d] : d \in dying}
  /\ allocated' = allocated \cup {c}
  /\ refs' = [refs EXCEPT ![c] = {}]
  /\ roots' = roots \cup {c}
  /\ IF ZoneOf(c) \in barrier /\ ArenaOf[c] \notin freeLists
       THEN /\ delayed' = delayed \cup {ArenaOf[c]}
            /\ freeLists' = freeLists \cup {ArenaOf[c]}
       ELSE UNCHANGED <<delayed, freeLists>>
  /\ UNCHANGED <<grayRoots, weak, mark, stack, bufferedGray, incomingGray,
                 foundBlackGray, zoneVars, sliceVars>>

\* RemoveFromGrayList: wrapper c loses its referent (NukeRemovedCrossCompartmentWrapper).
StaysOnGrayList(c, old) == UNCHANGED incomingGray   \* mutant
OffGrayList(c, old) == incomingGray' = incomingGray \ ({c} \X old)

\* A slot of c that held the cells of "old" (one or none) now holds "new" (one
\* or none).  The pre-barrier marks the old value; when c is a wrapper on a gray
\* list, losing its referent takes it off the list.
WriteRef(c, old, new) ==
  /\ Program
  /\ c \in roots /\ old \subseteq refs[c] /\ new \subseteq roots
  /\ refs' = [refs EXCEPT ![c] = (@ \ old) \cup new]
  /\ Cardinality(refs'[c]) <= MaxRefs
  /\ MarkAndPush(BarrierMarks(old))
  /\ OffGrayList(c, old)
  /\ UNCHANGED <<allocated, roots, grayRoots, weak, delayed, freeLists, bufferedGray,
                 foundBlackGray, zoneVars, sliceVars>>

\* Reading a slot, or dropping a root, has no barrier.
LoadRef(c, d) ==
  /\ Program
  /\ c \in roots /\ d \in refs[c] \ roots
  /\ roots' = roots \cup {d}
  /\ UNCHANGED <<allocated, refs, grayRoots, weak, markVars, zoneVars, sliceVars>>

DropRoot(c) ==
  /\ Program
  /\ c \in roots
  /\ roots' = roots \ {c}
  /\ UNCHANGED <<allocated, refs, grayRoots, weak, markVars, zoneVars, sliceVars>>

\* The program takes a cell from a weak reference or from the embedding: the
\* read barrier marks it in a zone whose flag is up, otherwise a gray cell and
\* everything gray that it leads to lose the gray bit.
Expose(c) ==
  /\ Program
  /\ c \in (weak \cup grayRoots) \ roots
  /\ roots' = roots \cup {c}
  /\ IF ZoneOf(c) \in barrier
       THEN MarkAndPush(BarrierMarks({c}))
       ELSE mark' = Blacken(GrayFrom({c})) /\ UNCHANGED stack
  /\ UNCHANGED <<allocated, refs, grayRoots, weak, delayed, freeLists, bufferedGray,
                 incomingGray, foundBlackGray, zoneVars, sliceVars>>

\* The embedding starts or stops holding a cell, or a weak reference is made.
HoldOutside(c) ==
  /\ Program
  /\ c \in roots
  /\ \/ c \notin weak /\ weak' = weak \cup {c} /\ UNCHANGED grayRoots
     \/ c \notin grayRoots /\ grayRoots' = grayRoots \cup {c} /\ UNCHANGED weak
  /\ UNCHANGED <<allocated, refs, roots, markVars, zoneVars, sliceVars>>

ReleaseOutside(c) ==
  /\ Program
  /\ c \in grayRoots
  /\ grayRoots' = grayRoots \ {c}
  /\ UNCHANGED <<allocated, refs, roots, weak, markVars, zoneVars, sliceVars>>

Mutator ==
  \/ \E c \in Cells : Allocate(c) \/ DropRoot(c) \/ Expose(c)
                      \/ HoldOutside(c) \/ ReleaseOutside(c)
  \/ \E c, d \in Cells : LoadRef(c, d)
  \/ \E c \in Cells :
       \E old \in {{}} \cup {{d} : d \in Cells}, new \in {{}} \cup {{d} : d \in Cells} :
         WriteRef(c, old, new)

-----------------------------------------------------------------------------
(* Slices *)

\* AutoGCSlice: barriers come down while the collector runs, and go up again
\* for the zones that are still marking.
RaiseAllBarriers == barrier' = Collecting   \* mutant
RaiseBarriers == barrier' = Marking

BeginSlice == inSlice' = TRUE /\ worked' = FALSE /\ barrier' = {}
LeaveSlice == inSlice' = FALSE /\ worked' = FALSE /\ unlimited' = FALSE

\* What zones outside zs point to: traceIncomingCrossCompartmentEdgesForZoneGC.
IncomingFromAny(zs) == UNION {refs[c] : c \in allocated}   \* mutant
Incoming(zs) == UNION {refs[c] : c \in allocated \ CellsIn(zs)}

\* beginMarkPhase: the zones of zs start marking.  The roots are what the
\* program holds and what uncollected zones point to; gray roots are put aside.
BeginMarkPhase(zs) ==
  /\ ~inSlice /\ incrementalState = "NO_INCREMENTAL"
  /\ dying = {}
  /\ BeginSlice /\ unlimited' \in BOOLEAN
  /\ incrementalState' = "MARK"
  /\ gcState' = [z \in Zones |-> IF z \in zs THEN "Mark" ELSE "NoGC"]
  /\ LET rooted == (roots \cup Incoming(zs)) \cap CellsIn(zs)
     IN  /\ mark' = [c \in Cells |-> IF c \in rooted THEN "black"
                                     ELSE IF c \in CellsIn(zs) THEN "white" ELSE mark[c]]
         /\ stack' = rooted
  /\ bufferedGray' = grayRoots \cap CellsIn(zs)
  /\ freeLists' = {}
  /\ foundBlackGray' = FALSE
  /\ UNCHANGED <<heapVars, delayed, incomingGray, zoneGroups, abortSweep, dying,
                 grayBitsValid, ops>>

StartSlice ==
  /\ ~inSlice /\ incrementalState # "NO_INCREMENTAL"
  /\ BeginSlice /\ unlimited' \in BOOLEAN
  /\ UNCHANGED <<heapVars, markVars, gcState, zoneGroups, abortSweep, dying,
                 grayBitsValid, incrementalState, ops>>

\* The budget is used up: AutoGCSlice raises the barriers and flags again the
\* arenas that the free lists of marking zones point into.
Yield ==
  /\ inSlice /\ ~unlimited
  /\ \/ incrementalState \in {"MARK", "SWEEP"} /\ worked
     \/ incrementalState = "FINALIZE" /\ dying # {}
  /\ LeaveSlice
  /\ RaiseBarriers
  /\ delayed' = delayed \cup {a \in freeLists : /\ ZoneOfArena[a] \in Marking
                                               /\ \E c \in Cells \ allocated : ArenaOf[c] = a}
  /\ UNCHANGED <<heapVars, mark, stack, freeLists, bufferedGray, incomingGray, foundBlackGray,
                 gcState, zoneGroups, abortSweep, dying, grayBitsValid,
                 incrementalState, ops>>

-----------------------------------------------------------------------------
(* Marking: drainMarkStack, at the start of a MARK or a SWEEP slice *)

Draining == inSlice /\ incrementalState \in {"MARK", "SWEEP"}

Drained == stack = {} /\ delayed = {}

\* ShouldMarkCrossCompartment: meeting a gray cell of another zone is noted, since
\* a black cell pointing to it breaks the promise to the cycle collector.
NoteGrayMetFrom(S) ==
  foundBlackGray' = (foundBlackGray \/
    \E c \in S : \E d \in refs[c] : ZoneOf(d) # ZoneOf(c) /\ mark[d] = "gray")

\* Trace a cell of the stack.
MarkCell(c) ==
  /\ Draining /\ c \in stack
  /\ LET new == Markable(refs[c])
     IN  mark' = Blacken(new) /\ stack' = (stack \ {c}) \cup new
  /\ NoteGrayMetFrom({c})
  /\ worked' = TRUE
  /\ UNCHANGED <<heapVars, delayed, freeLists, bufferedGray, incomingGray, zoneVars,
                 incrementalState, inSlice, unlimited, ops>>

StillDelayed(a) == UNCHANGED delayed   \* mutant
Undelay(a) == delayed' = delayed \ {a}

\* markDelayedChildren: when the stack is empty, an arena the program allocated
\* from has all its cells marked.
MarkDelayedArena(a) ==
  /\ Draining /\ stack = {} /\ a \in delayed
  /\ MarkAndPush(Markable({c \in allocated : ArenaOf[c] = a}))
  /\ Undelay(a)
  /\ worked' = TRUE
  /\ UNCHANGED <<heapVars, freeLists, bufferedGray, incomingGray, foundBlackGray, zoneVars,
                 incrementalState, inSlice, unlimited, ops>>

-----------------------------------------------------------------------------
(* Zone groups *)

\* findOutgoingEdges: zone y is not to be swept after z when a cell of y points
\* to a cell of z that is not black.
NoZoneEdges == [y \in Zones |-> {}]   \* mutant
ZoneEdges ==
  [y \in Zones |-> {z \in Marking \ {y} :
     \E c \in allocated : ZoneOf(c) = y /\
       \E d \in refs[c] : ZoneOf(d) = z /\ mark[d] # "black"}]

ZonesFrom(z) ==
  {y \in Marking : \A S \in SUBSET Zones :
     ({z} \subseteq S /\ \A x \in S \cap Marking : ZoneEdges[x] \subseteq S) => y \in S}

\* findZoneGroups: the strongly connected components of the marking zones, each
\* before the ones its zones point into; one group when there is no budget.
IsZoneGrouping(gs) ==
  IF unlimited
    THEN gs = <<Marking>>
    ELSE LET components == {{y \in ZonesFrom(z) : z \in ZonesFrom(y)} : z \in Marking}
         IN  /\ {gs[i] : i \in 1 .. Len(gs)} = components
             /\ \A i, j \in 1 .. Len(gs) : i < j =>
                  \A y \in gs[j], z \in gs[i] : z \notin ZonesFrom(y)

ZoneGroupings ==
  {gs \in UNION {[1 .. n -> SUBSET Marking] : n \in 1 .. Cardinality(Marking)} :
     IsZoneGrouping(gs)}

-----------------------------------------------------------------------------
(* Ending the marking of a group and beginning to sweep it.  The stack is     *)
(* empty, so what these two calls mark follows from the gray lists and the    *)
(* buffered gray roots alone.                                                 *)

\* endMarkingZoneGroup, in black: referents of wrappers of already swept groups
\* that UnmarkGray turned black, and what they lead to in any marking zone.
NoIncomingBlack(g) == {}   \* mutant
IncomingBlack(g) ==
  Closure(Markable({d \in CellsIn(g) : \E s \in Cells :
                      <<s, d>> \in incomingGray /\ mark[s] = "black"}),
          [c \in Cells |-> Markable(refs[c])])

\* endMarkingZoneGroup, in gray: what remains white in the group and follows
\* from gray wrappers of swept groups and from the group's gray roots.
IncomingGray(g) ==
  LET grayable(S) == Markable(S \cap CellsIn(g)) \ IncomingBlack(g)
  IN  Closure(grayable(bufferedGray
                \cup {d \in Cells : \E s \in Cells :
                        <<s, d>> \in incomingGray /\ mark[s] = "gray"}),
              [c \in Cells |-> grayable(refs[c])])

\* The mark bits when the group's marking is complete.
GroupMarks(g) ==
  [c \in Cells |-> CASE c \in IncomingBlack(g) -> "black"
                     [] c \in IncomingGray(g)  -> "gray"
                     [] OTHER                  -> mark[c]]

\* DelayCrossCompartmentGrayMarking: gray wrappers of the group wait for the
\* group of their unmarked referent.
DelayedGray(g) ==
  {p \in IncomingGray(g) \X Cells :
     /\ p[2] \in Markable(refs[p[1]]) \ IncomingBlack(g)
     /\ ZoneOf(p[2]) \notin g}

UnmarkedOrFree(g) == {c \in CellsIn(g) : GroupMarks(g)[c] = "white"}   \* mutant
Unmarked(g) == {c \in allocated \cap CellsIn(g) : GroupMarks(g)[c] = "white"}

\* Freed cells cease to exist and point nowhere.
Free(S) ==
  /\ allocated' = allocated \ S
  /\ refs' = [c \in Cells |-> IF c \in S THEN {} ELSE refs[c]]

\* Weak references to unmarked cells of the group are cleared.
WeakSweptOnlyForImmediate(g) ==   \* mutant
  weak \ {c \in Unmarked(g) : ArenaOf[c] \in ImmediateArenas}
WeakSwept(g) == weak \ Unmarked(g)

\* endMarkingZoneGroup and beginSweepingZoneGroup, for the zones of g; "before"
\* is the state of the zones.  Unmarked foreground objects are finalized, other
\* unmarked cells are queued.
MarkAndSweepGroup(g, before) ==
  LET immediate == {c \in Unmarked(g) : ArenaOf[c] \in ImmediateArenas}
  IN  /\ mark' = GroupMarks(g)
      /\ NoteGrayMetFrom(IncomingBlack(g))
      /\ incomingGray' = {p \in incomingGray : ZoneOf(p[2]) \notin g} \cup DelayedGray(g)
      /\ gcState' = [z \in Zones |-> IF z \in g THEN "Sweep" ELSE before[z]]
      /\ weak' = WeakSwept(g)
      /\ dying' = dying \cup (Unmarked(g) \ immediate)
      /\ Free(immediate)

\* The marking phase is over: beginSweepPhase.
BeginSweepPhase ==
  /\ inSlice /\ incrementalState = "MARK" /\ Drained
  /\ incrementalState' = "SWEEP" /\ worked' = TRUE
  /\ \E gs \in ZoneGroupings :
       zoneGroups' = gs /\ MarkAndSweepGroup(gs[1], gcState)
  /\ UNCHANGED <<roots, grayRoots, stack, delayed, freeLists, bufferedGray,
                 barrier, abortSweep, grayBitsValid, inSlice, unlimited, ops>>

-----------------------------------------------------------------------------
(* Sweeping: sweepPhase and endSweepPhase *)

Sweeping == inSlice /\ incrementalState = "SWEEP" /\ Drained

OnMainThread(c) == ArenaOf[c] \in ForegroundArenas

\* The group's foreground arenas, one cell at a time (the budget may run out).
FinalizeForeground(c) ==
  /\ Sweeping
  /\ c \in dying /\ OnMainThread(c)
  /\ Free({c}) /\ dying' = dying \ {c}
  /\ worked' = TRUE
  /\ UNCHANGED <<roots, grayRoots, weak, markVars, gcState, barrier, zoneGroups,
                 abortSweep, grayBitsValid, incrementalState, inSlice, unlimited, ops>>

\* A helper thread finalizes the queued arenas of finished zones, at any time.
FinalizeInBackground(c) ==
  /\ c \in dying /\ ~OnMainThread(c) /\ gcState[ZoneOf(c)] # "Sweep"
  /\ Free({c}) /\ dying' = dying \ {c}
  /\ UNCHANGED <<roots, grayRoots, weak, markVars, gcState, barrier, zoneGroups,
                 abortSweep, grayBitsValid, sliceVars, ops>>

GroupSwept == Sweeping /\ \A c \in dying : ~OnMainThread(c)

\* endSweepingZoneGroup: the zones of the current group are finished.
FinishedGroup ==
  [z \in Zones |-> IF z \in Head(zoneGroups) THEN "Finished" ELSE gcState[z]]

\* getNextZoneGroup and what follows it: without a budget the remaining groups
\* are merged first.
NextZoneGroup ==
  /\ GroupSwept /\ ~abortSweep /\ Len(zoneGroups) > 1
  /\ zoneGroups' = IF unlimited THEN <<UNION {zoneGroups[i] : i \in 2 .. Len(zoneGroups)}>>
                                ELSE Tail(zoneGroups)
  /\ MarkAndSweepGroup(zoneGroups'[1], FinishedGroup)
  /\ worked' = TRUE
  /\ UNCHANGED <<roots, grayRoots, stack, delayed, freeLists, bufferedGray, barrier,
                 abortSweep, grayBitsValid, incrementalState, inSlice, unlimited, ops>>

\* The last group is swept, or the collection was reset: the zones that remain
\* are no longer collected and their gray lists and gray roots are dropped.
\* endSweepPhase: if a black-to-gray edge was found, the mark bits of every zone
\* that is not being collected are cleared; a full collection leaves the gray
\* bits valid.
EndSweepPhase ==
  /\ GroupSwept /\ (abortSweep \/ Len(zoneGroups) = 1)
  /\ incrementalState' = "FINALIZE" /\ worked' = TRUE
  /\ zoneGroups' = <<>> /\ abortSweep' = FALSE
  /\ LET kept == {z \in Zones : FinishedGroup[z] = "Finished"}
     IN  /\ gcState' = [z \in Zones |-> IF z \in kept THEN "Finished" ELSE "NoGC"]
         /\ incomingGray' = {p \in incomingGray : ZoneOf(p[2]) \in kept}
         /\ bufferedGray' = bufferedGray \cap CellsIn(kept)
         /\ mark' = IF foundBlackGray
                      THEN [c \in Cells |-> IF ZoneOf(c) \in kept THEN mark[c] ELSE "white"]
                      ELSE mark
         /\ grayBitsValid' = (grayBitsValid \/ kept = Zones)
  /\ UNCHANGED <<heapVars, stack, delayed, freeLists, foundBlackGray, barrier, dying,
                 inSlice, unlimited, ops>>

\* The background thread is done: finishCollection ends the collection.
FinishCollection ==
  /\ inSlice /\ incrementalState = "FINALIZE" /\ dying = {}
  /\ incrementalState' = "NO_INCREMENTAL"
  /\ LeaveSlice
  /\ gcState' = [z \in Zones |-> "NoGC"]
  /\ bufferedGray' = {}
  /\ UNCHANGED <<heapVars, mark, stack, delayed, freeLists, incomingGray, foundBlackGray, barrier,
                 zoneGroups, abortSweep, dying, grayBitsValid, ops>>

-----------------------------------------------------------------------------
(* resetIncrementalGC, called before a slice.  While marking, the collection is *)
(* dropped; while sweeping, the current group is finished in a slice without a  *)
(* budget and the other groups are abandoned.                                   *)

ResetMarking ==
  /\ ~inSlice /\ incrementalState = "MARK"
  /\ incrementalState' = "NO_INCREMENTAL"
  /\ stack' = {} /\ delayed' = {} /\ freeLists' = {} /\ bufferedGray' = {}
  /\ incomingGray' = {}
  /\ gcState' = [z \in Zones |-> "NoGC"] /\ barrier' = {}
  /\ UNCHANGED <<heapVars, mark, foundBlackGray, zoneGroups, abortSweep, dying,
                 grayBitsValid, inSlice, unlimited, worked, ops>>

ResetSweeping ==
  /\ ~inSlice /\ incrementalState = "SWEEP"
  /\ stack' = {} /\ delayed' = {} /\ freeLists' = {}
  /\ abortSweep' = TRUE
  /\ BeginSlice /\ unlimited' = TRUE
  /\ UNCHANGED <<heapVars, mark, bufferedGray, incomingGray, foundBlackGray, gcState,
                 zoneGroups, dying, grayBitsValid, incrementalState, ops>>

-----------------------------------------------------------------------------
Slice ==
  \/ \E c \in Cells : MarkCell(c) \/ FinalizeForeground(c)
  \/ \E a \in Arenas : MarkDelayedArena(a)
  \/ BeginSweepPhase \/ NextZoneGroup \/ EndSweepPhase \/ FinishCollection
  \/ StartSlice

Background == \E c \in Cells : FinalizeInBackground(c)

Next ==
  \/ Mutator
  \/ \E zs \in Schedules : BeginMarkPhase(zs)
  \/ Slice \/ Yield \/ Background
  \/ ResetMarking \/ ResetSweeping

Spec == Init /\ [][Next]_vars

\* The collector's own steps are not postponed for ever, nor is the helper
\* thread's work; and the embedding does not run only slices whose budget is too
\* small: some slice has none (FinishGC, or a zone over its trigger).
StartUnlimitedSlice == StartSlice /\ unlimited'

FairSpec ==
  /\ Spec
  /\ WF_vars(Slice) /\ WF_vars(Background)
  /\ SF_vars(StartUnlimitedSlice)

-----------------------------------------------------------------------------
(* Properties *)

Live == Closure(roots \cup grayRoots, refs)

\* No cell that the program or the embedding can reach has been freed or queued
\* to be freed, whatever the program did between the slices that decided it.
LiveCellsAreKept == Live \subseteq allocated \ dying

\* A weak reference never names a freed cell or one that waits for a finalizer,
\* so that reading it cannot bring a dead cell back.
WeakReferencesAreClean == weak \subseteq allocated \ dying

\* Barriers are up for exactly the zones that are still marking whenever the
\* program runs (the first zone to miss one loses its snapshot), and nothing of a
\* collection is left when none is in progress, a reset one included.
BarriersFollowMarking ==
  /\ ~inSlice => barrier = Marking
  /\ incrementalState = "NO_INCREMENTAL" =>
       /\ Collecting = {} /\ dying = {} /\ zoneGroups = <<>> /\ ~abortSweep
       /\ Drained /\ incomingGray = {} /\ bufferedGray = {}

\* The assertion of ShouldMarkCrossCompartment: black marking meets a gray cell
\* only in a zone that is not being collected (the order of the zone groups is
\* what makes this so).
BlackMeetsGrayOnlyOutside ==
  inSlice => \A c \in stack : \A d \in refs[c] :
    ZoneOf(d) # ZoneOf(c) /\ mark[d] = "gray" => gcState[ZoneOf(d)] = "NoGC"

\* A wrapper waits on a gray list only while its referent's zone still has to be
\* marked in gray, and it still points to that referent.
GrayListsAreCurrent ==
  \A p \in incomingGray : gcState[ZoneOf(p[2])] = "Mark" /\ p[2] \in refs[p[1]]

\* With no collection in progress and valid gray bits, what running code can
\* reach is not gray: the cycle collector may unlink whatever is.
GrayIsOutOfHand ==
  incrementalState = "NO_INCREMENTAL" /\ grayBitsValid =>
    \A c \in Closure(roots, refs) : mark[c] # "gray"

\* The heap as the program sees it behaves as the abstract heap.
AbstractHeap == INSTANCE AbstractHeap
RefinesHeap == AbstractHeap!HeapSpec

\* A collection in progress ends.
CollectionEnds == incrementalState # "NO_INCREMENTAL" ~> incrementalState = "NO_INCREMENTAL"
=============================================================================
