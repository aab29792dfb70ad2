------------------------- MODULE IncrementalGCProofs -------------------------
(***************************************************************************)
(* Theorems about IncrementalGC for every heap, every division of the cells *)
(* into arenas and zones, and every schedule of collections.                *)
(***************************************************************************)
EXTENDS IncrementalGC, SequenceTheorems, TLAPS

-----------------------------------------------------------------------------
(* The inductive invariant: which zones are in which state in each phase of a *)
(* collection, and what the cells that wait for a finalizer have in common.   *)

\* The zones of the groups that are still to be swept.
LaterGroups == UNION {zoneGroups[i] : i \in 2 .. Len(zoneGroups)}

\* A flag is up exactly for the zones that mark, and only between slices.
BarrierPhase == barrier = IF inSlice THEN {} ELSE Marking

IdlePhase ==
  incrementalState = "NO_INCREMENTAL" => ~inSlice /\ Collecting = {} /\ bufferedGray = {}

\* Nothing is left to mark when no zone is marking any more.
MarkedPhase ==
  incrementalState \in {"NO_INCREMENTAL", "FINALIZE"} => Marking = {} /\ Drained

\* No cell waits for a finalizer before the first group is swept.
UnsweptPhase == incrementalState \in {"NO_INCREMENTAL", "MARK"} => dying = {}

\* There are zone groups only while sweeping.
GroupPhase ==
  IF incrementalState = "SWEEP"
    THEN /\ zoneGroups # <<>>
         /\ \A i, j \in 1 .. Len(zoneGroups) : i < j => zoneGroups[i] \cap zoneGroups[j] = {}
         /\ Marking = LaterGroups
    ELSE zoneGroups = <<>> /\ ~abortSweep /\ incomingGray = {}

\* Cells that wait for a finalizer are in zones that no longer mark.
DyingInv == \A c \in dying : ZoneOf(c) \notin Marking

\* Wrappers wait on a gray list for zones that still mark.
GrayListInv == \A p \in incomingGray : ZoneOf(p[2]) \in Marking

Phases ==
  /\ BarrierPhase /\ IdlePhase /\ MarkedPhase /\ UnsweptPhase /\ GroupPhase
  /\ DyingInv /\ GrayListInv

IInv == TypeOK /\ Phases

-----------------------------------------------------------------------------
(* The operators the actions are built from *)

\* Closure gives the least closed set: any closed set contains it.
LEMMA ClosureIsLeast ==
  ASSUME NEW from, NEW next, NEW S \in SUBSET Cells,
         from \subseteq S, \A x \in S : next[x] \subseteq S
  PROVE  Closure(from, next) \subseteq S
  <1> SUFFICES ASSUME NEW c \in Closure(from, next), c \notin S
               PROVE  FALSE
    OBVIOUS
  <1>1. c \notin from
    OBVIOUS
  <1>2. S \in SUBSET (Cells \ {c})
    OBVIOUS
  <1> QED
    BY <1>1, <1>2 DEF Closure

\* Zones and cells of the shape of the heap.
LEMMA ZoneOfType == \A c \in Cells : ZoneOf(c) \in Zones
  BY HeapShape DEF ZoneOf

\* Blackening keeps mark bits mark bits.
LEMMA BlackenType ==
  ASSUME TypeOK, NEW S
  PROVE  Blacken(S) \in [Cells -> Colors]
  BY DEF Blacken, TypeOK, Colors

\* What a barrier marks and what marking reaches are cells.
LEMMA MarkableCells ==
  ASSUME NEW S \in SUBSET Cells
  PROVE  Markable(S) \in SUBSET Cells /\ BarrierMarks(S) \in SUBSET Cells
  BY DEF Markable, BarrierMarks

\* Zones stop marking only by having their group swept.
LEMMA IncomingBlackIsMarkable ==
  ASSUME TypeOK, NEW g \in SUBSET Zones
  PROVE  IncomingBlack(g) \subseteq Markable(Cells)
  <1>1. \A x \in Markable(Cells) : [c \in Cells |-> Markable(refs[c])][x] \subseteq Markable(Cells)
    BY DEF TypeOK, Markable
  <1>2. Markable({d \in CellsIn(g) : \E s \in Cells :
                      <<s, d>> \in incomingGray /\ mark[s] = "black"}) \subseteq Markable(Cells)
    BY DEF Markable, CellsIn
  <1>3. Markable(Cells) \in SUBSET Cells
    BY DEF Markable
  <1> QED
    BY <1>1, <1>2, <1>3, ClosureIsLeast DEF IncomingBlack

-----------------------------------------------------------------------------
(* The program's steps *)

LEMMA InitIInv == Init => IInv
  <1> SUFFICES ASSUME Init
               PROVE  IInv
    OBVIOUS
  <1>0. PICK h \in Heaps : /\ allocated = h.allocated
                           /\ refs = h.refs
                           /\ roots = h.roots
                           /\ grayRoots = h.grayRoots
                           /\ weak = h.weak
    BY DEF Init
  <1>1. TypeOK
    <2>1. /\ allocated \in SUBSET Cells /\ refs \in [Cells -> SUBSET Cells]
          /\ roots \in SUBSET Cells /\ grayRoots \in SUBSET Cells /\ weak \in SUBSET Cells
      BY <1>0, HeapsAreValid
    <2>2. mark \in [Cells -> Colors] /\ gcState \in [Zones -> ZoneStates]
      BY DEF Init, Colors, ZoneStates
    <2>3. incrementalState \in States /\ ops \in 0 .. MaxOps
      BY Bounds DEF Init, States
    <2>4. zoneGroups \in Seq(SUBSET Zones)
      BY DEF Init
    <2>5. /\ barrier \in SUBSET Zones /\ stack \in SUBSET Cells
          /\ delayed \in SUBSET Arenas /\ freeLists \in SUBSET Arenas
          /\ bufferedGray \in SUBSET Cells /\ incomingGray \in SUBSET (Cells \X Cells)
          /\ dying \in SUBSET allocated
      BY DEF Init
    <2>6. /\ inSlice \in BOOLEAN /\ unlimited \in BOOLEAN /\ worked \in BOOLEAN
          /\ abortSweep \in BOOLEAN /\ foundBlackGray \in BOOLEAN /\ grayBitsValid \in BOOLEAN
      BY DEF Init
    <2> QED
      BY <2>1, <2>2, <2>3, <2>4, <2>5, <2>6 DEF TypeOK
  <1>2. Marking = {} /\ Collecting = {}
    BY DEF Init, Marking, Collecting
  <1>3. Phases
    BY <1>2 DEF Init, Phases, BarrierPhase, IdlePhase, MarkedPhase, UnsweptPhase, GroupPhase,
                DyingInv, GrayListInv, Drained
  <1> QED
    BY <1>1, <1>3 DEF IInv

\* A program step leaves the zones and the collection alone, so of the phases
\* only what the barriers mark, the flagged arenas and the gray lists matter.
LEMMA MutatorIInv ==
  ASSUME IInv, Mutator
  PROVE  IInv'
  <1> USE DEF IInv, Mutator, Program
  <1>1. UNCHANGED <<gcState, barrier, zoneGroups, abortSweep, dying, grayBitsValid,
                    incrementalState, inSlice, unlimited, worked, bufferedGray>>
    BY DEF Allocate, WriteRef, LoadRef, DropRoot, Expose, HoldOutside, ReleaseOutside,
           zoneVars, sliceVars, markVars
  <1>2. incomingGray' \subseteq incomingGray /\ allocated \subseteq allocated'
    BY DEF Allocate, WriteRef, LoadRef, DropRoot, Expose, HoldOutside, ReleaseOutside,
           zoneVars, sliceVars, markVars, OffGrayList
  <1>3. barrier = {} => UNCHANGED <<stack, delayed>>
    BY DEF Allocate, WriteRef, LoadRef, DropRoot, Expose, HoldOutside, ReleaseOutside,
           zoneVars, sliceVars, markVars, MarkAndPush, BarrierMarks
  <1>4. TypeOK'
    <2>1. ops' \in 0 .. MaxOps
      <3>1. Program
        BY DEF Allocate, WriteRef, LoadRef, DropRoot, Expose, HoldOutside, ReleaseOutside
      <3> QED
        BY <3>1, Bounds DEF TypeOK
    <2>2. dying' \in SUBSET allocated' /\ incomingGray' \in SUBSET (Cells \X Cells)
      BY <1>1, <1>2 DEF TypeOK
    <2> DEFINE Rest ==
          /\ allocated' \in SUBSET Cells /\ refs' \in [Cells -> SUBSET Cells]
          /\ roots' \in SUBSET Cells /\ grayRoots' \in SUBSET Cells /\ weak' \in SUBSET Cells
          /\ mark' \in [Cells -> Colors] /\ stack' \in SUBSET Cells
          /\ delayed' \in SUBSET Arenas /\ freeLists' \in SUBSET Arenas
          /\ foundBlackGray' \in BOOLEAN
    <2>3. ASSUME NEW c \in Cells, Allocate(c) PROVE Rest
      <3>1. ArenaOf[c] \in Arenas
        BY HeapShape
      <3>2. delayed' \in SUBSET Arenas /\ freeLists' \in SUBSET Arenas
        BY <2>3, <3>1 DEF TypeOK, Allocate
      <3> QED
        BY <2>3, <3>2 DEF TypeOK, Allocate
    <2>4. ASSUME NEW c \in Cells, Expose(c) PROVE Rest
      BY <2>4, BlackenType, MarkableCells DEF TypeOK, Expose, MarkAndPush
    <2>5. ASSUME NEW c \in Cells, DropRoot(c) \/ HoldOutside(c) \/ ReleaseOutside(c) PROVE Rest
      BY <2>5 DEF TypeOK, DropRoot, HoldOutside, ReleaseOutside, markVars
    <2>6. ASSUME NEW c \in Cells, NEW d \in Cells, LoadRef(c, d) PROVE Rest
      BY <2>6 DEF TypeOK, LoadRef, markVars
    <2>7. ASSUME NEW c \in Cells, NEW old, NEW new, WriteRef(c, old, new) PROVE Rest
      <3>1. old \in SUBSET Cells /\ new \in SUBSET Cells
        BY <2>7 DEF TypeOK, WriteRef
      <3> QED
        BY <2>7, <3>1, BlackenType, MarkableCells DEF TypeOK, WriteRef, MarkAndPush
    <2>8. Rest
      BY <2>3, <2>4, <2>5, <2>6, <2>7
    <2> QED
      BY <1>1, <2>1, <2>2, <2>8 DEF TypeOK
  <1>5. Marking' = Marking /\ Collecting' = Collecting
    BY <1>1 DEF Marking, Collecting
  <1>6. Phases'
    <2>1. ~inSlice
      BY DEF Allocate, WriteRef, LoadRef, DropRoot, Expose, HoldOutside, ReleaseOutside
    <2>2. BarrierPhase' /\ IdlePhase' /\ UnsweptPhase'
      BY <1>1, <1>5 DEF Phases, BarrierPhase, IdlePhase, UnsweptPhase
    <2>3. MarkedPhase'
      BY <1>1, <1>3, <1>5, <2>1 DEF Phases, MarkedPhase, BarrierPhase, Drained
    <2>4. GroupPhase'
      BY <1>1, <1>2, <1>5 DEF Phases, GroupPhase, LaterGroups
    <2>5. DyingInv' /\ GrayListInv'
      BY <1>1, <1>2, <1>5 DEF Phases, DyingInv, GrayListInv, ZoneOf
    <2> QED
      BY <2>2, <2>3, <2>4, <2>5 DEF Phases
  <1> QED
    BY <1>4, <1>6

-----------------------------------------------------------------------------
(* Slices: their beginning and end, and marking *)

\* A collection begins with nothing left over from the one before.
LEMMA BeginMarkIInv ==
  ASSUME IInv, NEW zs \in Schedules, BeginMarkPhase(zs)
  PROVE  IInv'
  <1> USE DEF IInv
  <1> DEFINE rooted == (roots \cup Incoming(zs)) \cap CellsIn(zs)
  <1>1. zs \in SUBSET Zones
    BY Bounds
  <1>2. /\ incrementalState' = "MARK" /\ inSlice' = TRUE /\ barrier' = {}
        /\ incomingGray' = {} /\ dying' = {} /\ zoneGroups' = <<>> /\ abortSweep' = FALSE
        /\ dying' \subseteq allocated'
    BY DEF BeginMarkPhase, BeginSlice, Phases, GroupPhase, TypeOK
  <1>3. TypeOK'
    <2>1. rooted \in SUBSET Cells
      BY DEF CellsIn
    <2>2. stack' = rooted /\ mark' \in [Cells -> Colors]
      BY DEF BeginMarkPhase, TypeOK, Colors
    <2>3. gcState' \in [Zones -> ZoneStates]
      BY DEF BeginMarkPhase, ZoneStates
    <2>4. unlimited' \in BOOLEAN /\ worked' \in BOOLEAN /\ foundBlackGray' \in BOOLEAN
      BY DEF BeginMarkPhase, BeginSlice
    <2>5. bufferedGray' \in SUBSET Cells /\ freeLists' \in SUBSET Arenas
      BY DEF BeginMarkPhase, CellsIn
    <2>6. UNCHANGED <<heapVars, delayed, zoneGroups, grayBitsValid, ops>>
      BY DEF BeginMarkPhase
    <2> QED
      BY <1>2, <2>1, <2>2, <2>3, <2>4, <2>5, <2>6 DEF TypeOK, States, heapVars
  <1>4. Marking' = Collecting'
    BY DEF BeginMarkPhase, Marking, Collecting
  <1>5. Phases'
    BY <1>2, <1>4 DEF Phases, BarrierPhase, IdlePhase, MarkedPhase, UnsweptPhase, GroupPhase,
                      DyingInv, GrayListInv
  <1> QED
    BY <1>3, <1>5

\* Entering or leaving a slice moves no zone; the barriers follow.
LEMMA SliceBoundaryIInv ==
  ASSUME IInv, StartSlice \/ Yield
  PROVE  IInv'
  <1> USE DEF IInv
  <1>1. /\ UNCHANGED <<heapVars, mark, stack, freeLists, bufferedGray, incomingGray, foundBlackGray,
                       gcState, zoneGroups, abortSweep, dying, grayBitsValid, incrementalState, ops>>
        /\ unlimited' \in BOOLEAN /\ worked' \in BOOLEAN /\ inSlice' \in BOOLEAN
    BY DEF StartSlice, Yield, BeginSlice, LeaveSlice, markVars
  <1>2. Marking' = Marking /\ Collecting' = Collecting
    BY <1>1 DEF Marking, Collecting
  <1>3. barrier' = IF inSlice' THEN {} ELSE Marking
    BY DEF StartSlice, Yield, BeginSlice, LeaveSlice, RaiseBarriers
  <1>4. delayed' \in SUBSET Arenas /\ (Marking = {} => delayed' = delayed)
    BY DEF StartSlice, Yield, TypeOK, markVars
  <1>5. TypeOK'
    <2>1. barrier' \in SUBSET Zones
      BY <1>3 DEF Marking
    <2> QED
      BY <1>1, <1>4, <2>1 DEF TypeOK, heapVars
  <1>6. incrementalState # "NO_INCREMENTAL"
    BY DEF StartSlice, Yield, Phases, IdlePhase
  <1>7. Phases'
    <2>1. BarrierPhase' /\ IdlePhase' /\ UnsweptPhase'
      BY <1>1, <1>2, <1>3, <1>6 DEF Phases, BarrierPhase, IdlePhase, UnsweptPhase
    <2>2. MarkedPhase'
      BY <1>1, <1>2, <1>4 DEF Phases, MarkedPhase, Drained
    <2>3. GroupPhase'
      BY <1>1, <1>2 DEF Phases, GroupPhase, LaterGroups
    <2>4. DyingInv' /\ GrayListInv'
      BY <1>1, <1>2 DEF Phases, DyingInv, GrayListInv, ZoneOf
    <2> QED
      BY <2>1, <2>2, <2>3, <2>4 DEF Phases
  <1> QED
    BY <1>5, <1>7

\* What is noted of gray cells is noted as a flag.
LEMMA NotedIsBoolean ==
  ASSUME TypeOK, NEW S, NoteGrayMetFrom(S)
  PROVE  foundBlackGray' \in BOOLEAN
  <1>1. foundBlackGray \in BOOLEAN
    BY DEF TypeOK
  <1> QED
    BY <1>1 DEF NoteGrayMetFrom

\* Marking changes mark bits and what is left to mark, nothing else.
LEMMA MarkingIInv ==
  ASSUME IInv, \/ \E c \in Cells : MarkCell(c)
               \/ \E a \in Arenas : MarkDelayedArena(a)
  PROVE  IInv'
  <1> USE DEF IInv
  <1>1. /\ UNCHANGED <<heapVars, freeLists, bufferedGray, incomingGray, zoneVars,
                       incrementalState, inSlice, unlimited, ops>>
        /\ worked' = TRUE
        /\ inSlice /\ incrementalState \in {"MARK", "SWEEP"}
    BY DEF MarkCell, MarkDelayedArena, Draining
  <1>2. /\ mark' \in [Cells -> Colors] /\ stack' \in SUBSET Cells
        /\ delayed' \in SUBSET Arenas /\ foundBlackGray' \in BOOLEAN
    <2>1. ASSUME NEW c \in Cells, MarkCell(c)
          PROVE  /\ mark' \in [Cells -> Colors] /\ stack' \in SUBSET Cells
                 /\ delayed' \in SUBSET Arenas /\ foundBlackGray' \in BOOLEAN
      BY <2>1, NotedIsBoolean, BlackenType, MarkableCells DEF MarkCell, TypeOK
    <2>2. ASSUME NEW a \in Arenas, MarkDelayedArena(a)
          PROVE  /\ mark' \in [Cells -> Colors] /\ stack' \in SUBSET Cells
                 /\ delayed' \in SUBSET Arenas /\ foundBlackGray' \in BOOLEAN
      <3>1. {c \in allocated : ArenaOf[c] = a} \in SUBSET Cells
        BY DEF TypeOK
      <3> QED
        BY <2>2, <3>1, BlackenType, MarkableCells DEF MarkDelayedArena, MarkAndPush, Undelay, TypeOK
    <2> QED
      BY <2>1, <2>2
  <1>3. TypeOK'
    BY <1>1, <1>2 DEF TypeOK, heapVars, zoneVars
  <1>4. Marking' = Marking /\ Collecting' = Collecting
    BY <1>1 DEF Marking, Collecting, zoneVars
  <1>5. Phases'
    BY <1>1, <1>4 DEF Phases, BarrierPhase, IdlePhase, MarkedPhase, UnsweptPhase, GroupPhase,
                      LaterGroups, DyingInv, GrayListInv, ZoneOf, zoneVars, heapVars
  <1> QED
    BY <1>3, <1>5

-----------------------------------------------------------------------------
(* Zone groups *)

\* A zone belongs to its own strongly connected component.
LEMMA OwnComponent == \A z \in Marking : z \in ZonesFrom(z)
  BY DEF ZonesFrom

\* The groups are disjoint and hold every marking zone.
LEMMA GroupingPartitions ==
  ASSUME NEW gs \in ZoneGroupings
  PROVE  /\ gs \in Seq(SUBSET Marking) /\ gs # <<>>
         /\ UNION {gs[i] : i \in 1 .. Len(gs)} = Marking
         /\ \A i, j \in 1 .. Len(gs) : i < j => gs[i] \cap gs[j] = {}
  <1>1. PICK n \in 1 .. Cardinality(Marking) : gs \in [1 .. n -> SUBSET Marking]
    BY DEF ZoneGroupings
  <1>2. gs \in Seq(SUBSET Marking) /\ Len(gs) = n /\ gs # <<>>
    BY <1>1
  <1>3. IsZoneGrouping(gs)
    BY DEF ZoneGroupings
  <1>4. CASE unlimited
    <2>1. gs = <<Marking>>
      BY <1>3, <1>4 DEF IsZoneGrouping
    <2>2. Len(gs) = 1 /\ gs[1] = Marking
      BY <2>1
    <2> QED
      BY <1>2, <2>2
  <1>5. CASE ~unlimited
    <2> DEFINE components == {{y \in ZonesFrom(z) : z \in ZonesFrom(y)} : z \in Marking}
    <2>1. /\ {gs[i] : i \in 1 .. Len(gs)} = components
          /\ \A i, j \in 1 .. Len(gs) : i < j =>
               \A y \in gs[j], z \in gs[i] : z \notin ZonesFrom(y)
      BY <1>3, <1>5 DEF IsZoneGrouping
    <2>2. UNION components = Marking
      BY OwnComponent DEF ZonesFrom
    <2>3. ASSUME NEW i \in 1 .. Len(gs), NEW j \in 1 .. Len(gs), i < j,
                 NEW z, z \in gs[i] \cap gs[j]
          PROVE  FALSE
      <3>1. z \in Marking
        BY <1>2, <2>3
      <3> QED
        BY <2>1, <2>3, <3>1, OwnComponent
    <2> QED
      BY <1>2, <2>1, <2>2, <2>3
  <1> QED
    BY <1>4, <1>5

\* What ending the marking of a group and beginning to sweep it does to the
\* zones, to the cells that wait for a finalizer and to the gray lists.
LEMMA GroupSweepEffect ==
  ASSUME TypeOK, DyingInv, GrayListInv,
         NEW g \in SUBSET Marking, NEW before \in [Zones -> ZoneStates],
         {z \in Zones : before[z] = "Mark"} = Marking,
         MarkAndSweepGroup(g, before)
  PROVE  /\ allocated' \in SUBSET Cells /\ refs' \in [Cells -> SUBSET Cells]
         /\ weak' \in SUBSET Cells /\ mark' \in [Cells -> Colors]
         /\ gcState' \in [Zones -> ZoneStates] /\ foundBlackGray' \in BOOLEAN
         /\ incomingGray' \in SUBSET (Cells \X Cells)
         /\ dying' \in SUBSET allocated'
         /\ Marking' = Marking \ g
         /\ DyingInv' /\ GrayListInv'
  <1> DEFINE immediate == {c \in Unmarked(g) : ArenaOf[c] \in ImmediateArenas}
  <1>1. /\ mark' = GroupMarks(g)
        /\ incomingGray' = {p \in incomingGray : ZoneOf(p[2]) \notin g} \cup DelayedGray(g)
        /\ gcState' = [z \in Zones |-> IF z \in g THEN "Sweep" ELSE before[z]]
        /\ weak' = WeakSwept(g)
        /\ dying' = dying \cup (Unmarked(g) \ immediate)
        /\ allocated' = allocated \ immediate
        /\ refs' = [c \in Cells |-> IF c \in immediate THEN {} ELSE refs[c]]
    BY DEF MarkAndSweepGroup, Free
  <1>2. Unmarked(g) \subseteq allocated /\ \A c \in Unmarked(g) : ZoneOf(c) \in g
    BY DEF Unmarked, CellsIn
  <1>3. Marking' = Marking \ g
    BY <1>1 DEF Marking
  <1>4. /\ allocated' \in SUBSET Cells /\ refs' \in [Cells -> SUBSET Cells]
        /\ weak' \in SUBSET Cells
    BY <1>1 DEF TypeOK, WeakSwept
  <1>5. mark' \in [Cells -> Colors]
    BY <1>1 DEF GroupMarks, TypeOK, Colors
  <1>6. gcState' \in [Zones -> ZoneStates]
    BY <1>1 DEF ZoneStates
  <1>7. DelayedGray(g) \subseteq Cells \X Cells
        /\ \A p \in DelayedGray(g) : ZoneOf(p[2]) \in Marking \ g
    <2>1. ASSUME NEW p \in DelayedGray(g)
          PROVE  p \in Cells \X Cells /\ ZoneOf(p[2]) \in Marking \ g
      <3>1. /\ p \in IncomingGray(g) \X Cells
            /\ p[2] \in Markable(refs[p[1]])
            /\ ZoneOf(p[2]) \notin g
        BY DEF DelayedGray
      <3>2. IncomingGray(g) \subseteq Cells
        BY DEF IncomingGray, Closure, Markable, CellsIn
      <3> QED
        BY <3>1, <3>2 DEF Markable
    <2> QED
      BY <2>1
  <1>8. incomingGray' \in SUBSET (Cells \X Cells)
    BY <1>1, <1>7 DEF TypeOK
  <1>9. dying' \in SUBSET allocated'
    <2>1. dying \cap immediate = {}
      BY <1>2 DEF DyingInv
    <2> QED
      BY <1>1, <1>2, <2>1 DEF TypeOK
  <1>10. DyingInv'
    BY <1>1, <1>2, <1>3 DEF DyingInv, ZoneOf
  <1>11. GrayListInv'
    BY <1>1, <1>3, <1>7 DEF GrayListInv, ZoneOf
  <1>12. foundBlackGray' \in BOOLEAN
    BY NotedIsBoolean DEF MarkAndSweepGroup
  <1> QED
    BY <1>3, <1>4, <1>5, <1>6, <1>8, <1>9, <1>10, <1>11, <1>12

-----------------------------------------------------------------------------
(* Sweeping *)

\* The first group is the head of the partition, the later groups still mark.
LEMMA BeginSweepIInv ==
  ASSUME IInv, BeginSweepPhase
  PROVE  IInv'
  <1> USE DEF IInv
  <1>1. /\ inSlice /\ inSlice' = inSlice /\ incrementalState = "MARK"
        /\ incrementalState' = "SWEEP" /\ worked' = TRUE
        /\ UNCHANGED <<roots, grayRoots, stack, delayed, freeLists, bufferedGray,
                       barrier, abortSweep, grayBitsValid, unlimited, ops>>
    BY DEF BeginSweepPhase
  <1>2. PICK gs \in ZoneGroupings : zoneGroups' = gs /\ MarkAndSweepGroup(gs[1], gcState)
    BY DEF BeginSweepPhase
  <1>3. /\ gs \in Seq(SUBSET Marking) /\ gs # <<>>
        /\ UNION {gs[i] : i \in 1 .. Len(gs)} = Marking
        /\ \A i, j \in 1 .. Len(gs) : i < j => gs[i] \cap gs[j] = {}
    BY GroupingPartitions
  <1>4. gs[1] \in SUBSET Marking /\ 1 \in 1 .. Len(gs)
    BY <1>3
  <1>5. {z \in Zones : gcState[z] = "Mark"} = Marking /\ gcState \in [Zones -> ZoneStates]
    BY DEF Marking, TypeOK
  <1>6. /\ allocated' \in SUBSET Cells /\ refs' \in [Cells -> SUBSET Cells]
        /\ weak' \in SUBSET Cells /\ mark' \in [Cells -> Colors]
        /\ gcState' \in [Zones -> ZoneStates] /\ foundBlackGray' \in BOOLEAN
        /\ incomingGray' \in SUBSET (Cells \X Cells)
        /\ dying' \in SUBSET allocated'
        /\ Marking' = Marking \ gs[1]
        /\ DyingInv' /\ GrayListInv'
    BY <1>2, <1>4, <1>5, GroupSweepEffect DEF Phases
  <1>7. TypeOK'
    <2>1. zoneGroups' \in Seq(SUBSET Zones)
      BY <1>2, <1>3 DEF Marking
    <2> QED
      BY <1>1, <1>6, <2>1 DEF TypeOK, States
  <1>8. GroupPhase'
    <2>1. Marking \ gs[1] = UNION {gs[i] : i \in 2 .. Len(gs)}
      BY <1>3, <1>4
    <2> QED
      BY <1>1, <1>2, <1>3, <1>6, <2>1 DEF GroupPhase, LaterGroups
  <1>9. Phases'
    BY <1>1, <1>6, <1>8 DEF Phases, BarrierPhase, IdlePhase, MarkedPhase, UnsweptPhase
  <1> QED
    BY <1>7, <1>9

\* The zones of the group that was swept do not mark.
LEMMA HeadIsSwept ==
  ASSUME IInv, incrementalState = "SWEEP"
  PROVE  /\ 1 \in 1 .. Len(zoneGroups) /\ Head(zoneGroups) = zoneGroups[1]
         /\ Head(zoneGroups) \cap Marking = {}
         /\ FinishedGroup \in [Zones -> ZoneStates]
         /\ {z \in Zones : FinishedGroup[z] = "Mark"} = Marking
  <1>1. /\ zoneGroups # <<>> /\ zoneGroups \in Seq(SUBSET Zones)
        /\ \A i, j \in 1 .. Len(zoneGroups) : i < j => zoneGroups[i] \cap zoneGroups[j] = {}
        /\ Marking = LaterGroups
    BY DEF IInv, Phases, GroupPhase, TypeOK
  <1>2. 1 \in 1 .. Len(zoneGroups) /\ Head(zoneGroups) = zoneGroups[1]
    BY <1>1
  <1>3. Head(zoneGroups) \cap Marking = {}
    BY <1>1, <1>2 DEF LaterGroups
  <1>4. FinishedGroup \in [Zones -> ZoneStates]
    BY DEF FinishedGroup, IInv, TypeOK, ZoneStates
  <1>5. {z \in Zones : FinishedGroup[z] = "Mark"} = Marking
    BY <1>3 DEF FinishedGroup, Marking
  <1> QED
    BY <1>2, <1>3, <1>4, <1>5

\* The next group is taken from the front, or all that remain are merged.
LEMMA NextZoneGroupIInv ==
  ASSUME IInv, NextZoneGroup
  PROVE  IInv'
  <1> USE DEF IInv
  <1>1. /\ inSlice /\ inSlice' = inSlice /\ incrementalState = "SWEEP"
        /\ incrementalState' = incrementalState /\ worked' = TRUE
        /\ Len(zoneGroups) > 1
        /\ zoneGroups' = IF unlimited THEN <<LaterGroups>> ELSE Tail(zoneGroups)
        /\ MarkAndSweepGroup(zoneGroups'[1], FinishedGroup)
        /\ UNCHANGED <<roots, grayRoots, stack, delayed, freeLists, bufferedGray,
                       barrier, abortSweep, grayBitsValid, unlimited, ops>>
    BY DEF NextZoneGroup, GroupSwept, Sweeping, LaterGroups
  <1>2. /\ zoneGroups \in Seq(SUBSET Zones) /\ zoneGroups # <<>>
        /\ \A i, j \in 1 .. Len(zoneGroups) : i < j => zoneGroups[i] \cap zoneGroups[j] = {}
        /\ Marking = LaterGroups
    BY <1>1 DEF Phases, GroupPhase, TypeOK
  <1>3. /\ zoneGroups' \in Seq(SUBSET Zones) /\ zoneGroups' # <<>>
        /\ \A i, j \in 1 .. Len(zoneGroups') : i < j => zoneGroups'[i] \cap zoneGroups'[j] = {}
        /\ zoneGroups'[1] \in SUBSET Marking
        /\ Marking \ zoneGroups'[1] = LaterGroups'
    <2>1. CASE unlimited
      <3>1. zoneGroups' = <<Marking>>
        BY <1>1, <1>2, <2>1
      <3>2. Len(zoneGroups') = 1 /\ zoneGroups'[1] = Marking /\ zoneGroups' \in Seq(SUBSET Zones)
        BY <3>1 DEF Marking
      <3>3. LaterGroups' = {}
        BY <3>2 DEF LaterGroups
      <3> QED
        BY <3>1, <3>2, <3>3
    <2>2. CASE ~unlimited
      <3>1. zoneGroups' = Tail(zoneGroups)
        BY <1>1, <2>2
      <3>2. /\ zoneGroups' \in Seq(SUBSET Zones) /\ Len(zoneGroups') = Len(zoneGroups) - 1
            /\ \A i \in 1 .. Len(zoneGroups') : zoneGroups'[i] = zoneGroups[i + 1]
        <4>1. /\ Tail(zoneGroups) \in Seq(SUBSET Zones)
              /\ Len(Tail(zoneGroups)) = Len(zoneGroups) - 1
              /\ \A i \in 1 .. Len(Tail(zoneGroups)) : Tail(zoneGroups)[i] = zoneGroups[i + 1]
          BY <1>2, HeadTailProperties
        <4> QED
          BY <3>1, <4>1
      <3>3. zoneGroups' # <<>> /\ Len(zoneGroups') \in Nat
        BY <1>1, <1>2, <3>2
      <3>4. \A i, j \in 1 .. Len(zoneGroups') : i < j => zoneGroups'[i] \cap zoneGroups'[j] = {}
        <4>1. \A i \in 1 .. Len(zoneGroups') : i + 1 \in 1 .. Len(zoneGroups)
          BY <1>2, <3>2, <3>3
        <4>2. \A i, j \in 1 .. Len(zoneGroups') : i < j => i + 1 < j + 1
          BY <3>3
        <4> QED
          BY <1>2, <3>2, <4>1, <4>2
      <3>5. zoneGroups'[1] = zoneGroups[2] /\ zoneGroups[2] \subseteq Marking
        <4>1. 1 \in 1 .. Len(zoneGroups') /\ 2 \in 2 .. Len(zoneGroups)
          BY <1>1, <1>2, <3>2, <3>3
        <4>2. zoneGroups'[1] = zoneGroups[1 + 1]
          BY <3>2, <4>1
        <4> QED
          BY <1>2, <4>1, <4>2 DEF LaterGroups
      <3>6. LaterGroups' = UNION {zoneGroups[i] : i \in 3 .. Len(zoneGroups)}
        <4>1. \A i \in 2 .. Len(zoneGroups') : i + 1 \in 3 .. Len(zoneGroups)
                                              /\ zoneGroups'[i] = zoneGroups[i + 1]
          BY <1>2, <3>2, <3>3
        <4>2. \A i \in 3 .. Len(zoneGroups) : i - 1 \in 2 .. Len(zoneGroups')
                                             /\ zoneGroups'[i - 1] = zoneGroups[i]
          BY <1>2, <3>2, <3>3
        <4> QED
          BY <4>1, <4>2 DEF LaterGroups
      <3>7. Marking \ zoneGroups[2] = UNION {zoneGroups[i] : i \in 3 .. Len(zoneGroups)}
        <4>1. 2 \in 1 .. Len(zoneGroups) /\ Len(zoneGroups) \in Nat
          BY <1>1, <1>2
        <4>2. \A i \in 3 .. Len(zoneGroups) : zoneGroups[2] \cap zoneGroups[i] = {}
          BY <1>2, <4>1
        <4>3. Marking = zoneGroups[2] \cup UNION {zoneGroups[i] : i \in 3 .. Len(zoneGroups)}
          BY <1>2, <4>1 DEF LaterGroups
        <4> QED
          BY <4>2, <4>3
      <3> QED
        BY <3>2, <3>3, <3>4, <3>5, <3>6, <3>7
    <2> QED
      BY <2>1, <2>2 DEF TypeOK
  <1>4. /\ allocated' \in SUBSET Cells /\ refs' \in [Cells -> SUBSET Cells]
        /\ weak' \in SUBSET Cells /\ mark' \in [Cells -> Colors]
        /\ gcState' \in [Zones -> ZoneStates] /\ foundBlackGray' \in BOOLEAN
        /\ incomingGray' \in SUBSET (Cells \X Cells)
        /\ dying' \in SUBSET allocated'
        /\ Marking' = Marking \ zoneGroups'[1]
        /\ DyingInv' /\ GrayListInv'
    BY <1>1, <1>3, HeadIsSwept, GroupSweepEffect DEF Phases
  <1>5. TypeOK'
    BY <1>1, <1>3, <1>4 DEF TypeOK
  <1>6. GroupPhase'
    BY <1>1, <1>3, <1>4 DEF GroupPhase
  <1>7. Phases'
    BY <1>1, <1>4, <1>6 DEF Phases, BarrierPhase, IdlePhase, MarkedPhase, UnsweptPhase
  <1> QED
    BY <1>5, <1>7

\* Finalizing a cell takes it off the list and out of the heap.
LEMMA FinalizeIInv ==
  ASSUME IInv, NEW c \in Cells, FinalizeForeground(c) \/ FinalizeInBackground(c)
  PROVE  IInv'
  <1> USE DEF IInv
  <1>1. /\ c \in dying /\ dying' = dying \ {c}
        /\ allocated' = allocated \ {c}
        /\ refs' = [d \in Cells |-> IF d \in {c} THEN {} ELSE refs[d]]
        /\ UNCHANGED <<roots, grayRoots, weak, markVars, gcState, barrier, zoneGroups,
                       abortSweep, grayBitsValid, incrementalState, inSlice, unlimited, ops>>
        /\ worked' \in BOOLEAN
    BY DEF FinalizeForeground, FinalizeInBackground, Free, sliceVars, TypeOK
  <1>2. TypeOK'
    <2>1. refs' \in [Cells -> SUBSET Cells] /\ allocated' \in SUBSET Cells
          /\ dying' \in SUBSET allocated'
      BY <1>1 DEF TypeOK
    <2> QED
      BY <1>1, <2>1 DEF TypeOK, markVars
  <1>3. Marking' = Marking /\ Collecting' = Collecting
    BY <1>1 DEF Marking, Collecting
  <1>4. UNCHANGED <<stack, delayed, bufferedGray, incomingGray>>
    BY <1>1 DEF markVars
  <1>5. Phases'
    BY <1>1, <1>3, <1>4 DEF Phases, BarrierPhase, IdlePhase, MarkedPhase, UnsweptPhase,
                            GroupPhase, LaterGroups, DyingInv, GrayListInv, ZoneOf, Drained
  <1> QED
    BY <1>2, <1>5

\* When sweeping ends only finished zones are still collected, and no wrapper
\* waits on a gray list: the lists of finished zones were emptied with their
\* group, the others are dropped.
LEMMA EndSweepIInv ==
  ASSUME IInv, EndSweepPhase
  PROVE  IInv'
  <1> USE DEF IInv
  <1> DEFINE kept == {z \in Zones : FinishedGroup[z] = "Finished"}
  <1>1. /\ inSlice /\ incrementalState = "SWEEP" /\ Drained
        /\ incrementalState' = "FINALIZE" /\ worked' = TRUE
        /\ zoneGroups' = <<>> /\ abortSweep' = FALSE
        /\ gcState' = [z \in Zones |-> IF z \in kept THEN "Finished" ELSE "NoGC"]
        /\ incomingGray' = {p \in incomingGray : ZoneOf(p[2]) \in kept}
        /\ bufferedGray' = bufferedGray \cap CellsIn(kept)
        /\ mark' = IF foundBlackGray
                     THEN [c \in Cells |-> IF ZoneOf(c) \in kept THEN mark[c] ELSE "white"]
                     ELSE mark
        /\ grayBitsValid' \in BOOLEAN
        /\ UNCHANGED <<heapVars, stack, delayed, freeLists, foundBlackGray, barrier, dying,
                       inSlice, unlimited, ops>>
    BY DEF EndSweepPhase, GroupSwept, Sweeping, TypeOK
  <1>2. kept \cap Marking = {}
    <2>1. {z \in Zones : FinishedGroup[z] = "Mark"} = Marking
      BY <1>1, HeadIsSwept
    <2> QED
      BY <2>1
  <1>3. incomingGray' = {}
    BY <1>1, <1>2 DEF Phases, GrayListInv
  <1>4. Marking' = {}
    BY <1>1 DEF Marking
  <1>5. TypeOK'
    <2>1. gcState' \in [Zones -> ZoneStates]
      BY <1>1 DEF ZoneStates
    <2>2. mark' \in [Cells -> Colors]
      BY <1>1 DEF TypeOK, Colors
    <2>3. zoneGroups' \in Seq(SUBSET Zones)
      BY <1>1
    <2> QED
      BY <1>1, <1>3, <2>1, <2>2, <2>3 DEF TypeOK, States, heapVars
  <1>6. Phases'
    BY <1>1, <1>3, <1>4 DEF Phases, BarrierPhase, IdlePhase, MarkedPhase, UnsweptPhase,
                            GroupPhase, DyingInv, GrayListInv, Drained
  <1> QED
    BY <1>5, <1>6

\* Nothing is left of a collection that ends.
LEMMA FinishIInv ==
  ASSUME IInv, FinishCollection
  PROVE  IInv'
  <1> USE DEF IInv
  <1>1. /\ inSlice /\ incrementalState = "FINALIZE" /\ dying = {} /\ dying' = {}
        /\ incrementalState' = "NO_INCREMENTAL" /\ bufferedGray' = {}
        /\ inSlice' = FALSE /\ worked' = FALSE /\ unlimited' = FALSE
        /\ gcState' = [z \in Zones |-> "NoGC"]
        /\ UNCHANGED <<heapVars, mark, stack, delayed, freeLists, incomingGray, foundBlackGray,
                       barrier, zoneGroups, abortSweep, dying, grayBitsValid, ops>>
    BY DEF FinishCollection, LeaveSlice
  <1>2. Marking' = {} /\ Collecting' = {}
    BY <1>1 DEF Marking, Collecting
  <1>3. TypeOK'
    BY <1>1 DEF TypeOK, States, ZoneStates, heapVars
  <1>4. Phases'
    BY <1>1, <1>2 DEF Phases, BarrierPhase, IdlePhase, MarkedPhase, UnsweptPhase,
                      GroupPhase, DyingInv, GrayListInv, Drained
  <1> QED
    BY <1>3, <1>4

\* A reset while marking leaves nothing behind either; a reset while sweeping
\* starts a slice and keeps the groups.
LEMMA ResetIInv ==
  ASSUME IInv, ResetMarking \/ ResetSweeping
  PROVE  IInv'
  <1> USE DEF IInv
  <1>1. CASE ResetMarking
    <2>1. /\ ~inSlice /\ incrementalState = "MARK" /\ incrementalState' = "NO_INCREMENTAL"
          /\ stack' = {} /\ delayed' = {} /\ freeLists' = {} /\ bufferedGray' = {}
          /\ incomingGray' = {}
          /\ gcState' = [z \in Zones |-> "NoGC"] /\ barrier' = {}
          /\ UNCHANGED <<heapVars, mark, foundBlackGray, zoneGroups, abortSweep, dying,
                         grayBitsValid, inSlice, unlimited, worked, ops>>
      BY <1>1 DEF ResetMarking
    <2>2. Marking' = {} /\ Collecting' = {}
      BY <2>1 DEF Marking, Collecting
    <2>3. TypeOK'
      BY <2>1 DEF TypeOK, States, ZoneStates, heapVars
    <2>4. Phases'
      BY <2>1, <2>2 DEF Phases, BarrierPhase, IdlePhase, MarkedPhase, UnsweptPhase,
                        GroupPhase, DyingInv, GrayListInv, Drained
    <2> QED
      BY <2>3, <2>4
  <1>2. CASE ResetSweeping
    <2>1. /\ incrementalState = "SWEEP" /\ incrementalState' = incrementalState
          /\ stack' = {} /\ delayed' = {} /\ freeLists' = {}
          /\ abortSweep' = TRUE /\ inSlice' = TRUE /\ worked' = FALSE /\ barrier' = {}
          /\ unlimited' = TRUE
          /\ UNCHANGED <<heapVars, mark, bufferedGray, incomingGray, foundBlackGray, gcState,
                         zoneGroups, dying, grayBitsValid, ops>>
      BY <1>2 DEF ResetSweeping, BeginSlice
    <2>2. Marking' = Marking
      BY <2>1 DEF Marking
    <2>3. TypeOK'
      BY <2>1 DEF TypeOK, States, heapVars
    <2>4. Phases'
      BY <2>1, <2>2 DEF Phases, BarrierPhase, IdlePhase, MarkedPhase, UnsweptPhase,
                        GroupPhase, LaterGroups, DyingInv, GrayListInv, ZoneOf
    <2> QED
      BY <2>3, <2>4
  <1> QED
    BY <1>1, <1>2

-----------------------------------------------------------------------------
(* Theorems *)

\* Every step keeps the inductive invariant.
LEMMA StepIInv == IInv /\ [Next]_vars => IInv'
  <1> SUFFICES ASSUME IInv, [Next]_vars
               PROVE  IInv'
    OBVIOUS
  <1>1. CASE Mutator
    BY <1>1, MutatorIInv
  <1>2. CASE \E zs \in Schedules : BeginMarkPhase(zs)
    BY <1>2, BeginMarkIInv
  <1>3. CASE Slice
    BY <1>3, MarkingIInv, FinalizeIInv, BeginSweepIInv, NextZoneGroupIInv, EndSweepIInv,
       FinishIInv, SliceBoundaryIInv DEF Slice
  <1>4. CASE Yield
    BY <1>4, SliceBoundaryIInv
  <1>5. CASE Background
    BY <1>5, FinalizeIInv DEF Background
  <1>6. CASE ResetMarking \/ ResetSweeping
    BY <1>6, ResetIInv
  <1>7. CASE UNCHANGED vars
    BY <1>7 DEF IInv, TypeOK, Phases, BarrierPhase, IdlePhase, MarkedPhase, UnsweptPhase,
                GroupPhase, LaterGroups, DyingInv, GrayListInv, ZoneOf, Marking, Collecting,
                Drained, vars, heapVars, markVars, zoneVars, sliceVars
  <1> QED
    BY <1>1, <1>2, <1>3, <1>4, <1>5, <1>6, <1>7 DEF Next

\* The inductive invariant holds in every state of every behaviour.
LEMMA Inductive == Spec => []IInv
  BY InitIInv, StepIInv, PTL DEF Spec

\* Every variable has its type; the cells that wait for a finalizer exist.
THEOREM TypeCorrect == Spec => []TypeOK
  <1>1. IInv => TypeOK
    BY DEF IInv
  <1> QED
    BY <1>1, Inductive, PTL

\* The write barriers are up exactly in the zones that mark whenever the program
\* runs, and a collection that ends or is reset leaves nothing behind: no barrier,
\* no mark stack, no gray list, no buffered gray root, no cell waiting to die.
THEOREM BarriersFollowMarkingAlways == Spec => []BarriersFollowMarking
  <1>1. IInv => BarriersFollowMarking
    BY DEF IInv, Phases, BarrierPhase, IdlePhase, MarkedPhase, UnsweptPhase, GroupPhase,
           BarriersFollowMarking
  <1> QED
    BY <1>1, Inductive, PTL
=============================================================================
