---------------------------- MODULE LiveHeapProofs ----------------------------
(***************************************************************************)
(* What the incremental collector of IncrementalGC keeps and what it takes, *)
(* for every heap, every division of the cells into arenas and zones, and   *)
(* every schedule of collections: nothing in use is freed (marking from a   *)
(* snapshot of the heap), gray cells are out of the program's hand (the     *)
(* same argument about black marks), and garbage that is there when a       *)
(* collection begins is gone when it is over.                               *)
(***************************************************************************)
EXTENDS IncrementalGCProofs, GCPrecision

-----------------------------------------------------------------------------
(* The inductive invariant.                                                  *)

\* The cells that have not been freed nor found dead.
Kept == allocated \ dying

\* No cell that is kept leads out of the kept cells, nor does anything that the
\* program, the embedding or a weak reference names.
HeapIsClosed ==
  /\ roots \cup grayRoots \cup weak \subseteq Kept
  /\ \A c \in Kept : refs[c] \subseteq Kept

MarkingCells == CellsIn(Marking)

\* c is in a later zone group than d: gray marking does not go from c to d.
Against(c, d) ==
  \E i, j \in 2 .. Len(zoneGroups) :
    i < j /\ ZoneOf(c) \in zoneGroups[j] /\ ZoneOf(d) \in zoneGroups[i]

\* What is left to mark: it starts from the mark stack, the arenas flagged for
\* delayed marking, the gray roots put aside and the gray lists.
Flagged == {c \in allocated : ArenaOf[c] \in delayed}
Awaited == {p[2] : p \in incomingGray}
PutAside == Flagged \cup bufferedGray \cup Awaited
Onward(c) == {d \in Markable(refs[c]) : ~Against(c, d)}
Promised == Closure(stack \cup Markable(PutAside), [c \in Cells |-> Onward(c)])

\* A cell of a marking zone that is marked, or will be before its group is swept.
Safe(c) == mark[c] # "white" \/ c \in Promised

\* The snapshot: in the zones that mark, every cell held by the program or the
\* embedding is safe, and so is whatever a cell that has been marked, or that
\* lives elsewhere, points to.  Dead cells count there: nobody knows they are.
RootsAreSafe == \A c \in (roots \cup grayRoots) \cap MarkingCells : Safe(c)
EdgesAreSafe ==
  \A c \in Kept : (c \in MarkingCells => mark[c] # "white") =>
    \A d \in refs[c] \cap MarkingCells : Safe(d)

\* A cell of a later group points only to safe cells of an earlier one, marked
\* or not: that is what the order of the groups is for.
GroupsAreSafe == \A c \in Kept : \A d \in refs[c] : Against(c, d) => Safe(d)

SnapshotIsSafe == ~abortSweep => RootsAreSafe /\ EdgesAreSafe /\ GroupsAreSafe

\* The mark stack holds marked cells, what waits to be marked gray exists, and a
\* wrapper on a gray list was marked with its group and still has its referent.
StackInv == \A c \in stack : c \in allocated \cap MarkingCells /\ mark[c] # "white"
GrayInv ==
  /\ bufferedGray \cap MarkingCells \subseteq allocated
  /\ \A p \in incomingGray :
       p[1] \in Kept \ MarkingCells /\ mark[p[1]] # "white" /\ p[2] \in refs[p[1]]

\* An arena that a free list can still allocate from is flagged.
FreeListInv ==
  ~inSlice => \A c \in MarkingCells \ allocated :
                ArenaOf[c] \in freeLists => ArenaOf[c] \in delayed

HeapInv == HeapIsClosed /\ SnapshotIsSafe /\ StackInv /\ GrayInv /\ FreeListInv

-----------------------------------------------------------------------------
(* What is left to mark.                                                     *)

\* Closure gives a closed set.
LEMMA ClosureIsClosed ==
  ASSUME NEW from, NEW next, NEW x \in Closure(from, next), next[x] \subseteq Cells
  PROVE  next[x] \subseteq Closure(from, next)
  <1> SUFFICES ASSUME NEW d \in next[x], d \notin Closure(from, next)
               PROVE  FALSE
    OBVIOUS
  <1>1. PICK S \in SUBSET (Cells \ {d}) : from \subseteq S /\ \A y \in S : next[y] \subseteq S
    BY DEF Closure
  <1>2. x \in S
    BY <1>1 DEF Closure
  <1> QED
    BY <1>1, <1>2

\* Marking goes through cells that exist and have yet to be marked.
LEMMA PromisedIsClosed ==
  ASSUME TypeOK
  PROVE  /\ stack \cup Markable(PutAside) \subseteq Promised
         /\ \A c \in Promised \cap Cells : Onward(c) \subseteq Promised
  <1>1. stack \cup Markable(PutAside) \subseteq Promised
    BY DEF Promised, Closure
  <1>2. ASSUME NEW c \in Promised \cap Cells
        PROVE  Onward(c) \subseteq Promised
    <2>1. [d \in Cells |-> Onward(d)][c] = Onward(c)
      OBVIOUS
    <2>2. Onward(c) \subseteq Cells
      BY DEF Onward, Markable, TypeOK
    <2> QED
      BY <2>1, <2>2, ClosureIsClosed DEF Promised
  <1> QED
    BY <1>1, <1>2

LEMMA PromisedIsLeast ==
  ASSUME NEW S \in SUBSET Cells, stack \cup Markable(PutAside) \subseteq S,
         \A c \in S : Onward(c) \subseteq S
  PROVE  Promised \subseteq S
  <1>1. \A c \in S : [d \in Cells |-> Onward(d)][c] \subseteq S
    OBVIOUS
  <1> QED
    BY <1>1, ClosureIsLeast DEF Promised

\* The same of the state after a step.
LEMMA PromisedIsClosedNext ==
  ASSUME TypeOK'
  PROVE  /\ stack' \cup Markable(PutAside)' \subseteq Promised'
         /\ \A c \in Promised' \cap Cells : Onward(c)' \subseteq Promised'
  <1>1. stack' \cup Markable(PutAside)' \subseteq Promised'
    BY DEF Promised, Closure
  <1>2. ASSUME NEW c \in Promised' \cap Cells
        PROVE  Onward(c)' \subseteq Promised'
    <2>1. [d \in Cells |-> Onward(d)'][c] = Onward(c)'
      OBVIOUS
    <2>2. Onward(c)' \subseteq Cells
      BY DEF Onward, Markable, TypeOK
    <2> QED
      BY <2>1, <2>2, ClosureIsClosed DEF Promised
  <1> QED
    BY <1>1, <1>2

\* What is left to mark consists of kept cells of zones that mark.
LEMMA PromisedIsKept ==
  ASSUME IInv, HeapInv
  PROVE  Promised \subseteq Kept \cap MarkingCells
  <1> USE DEF IInv, HeapInv
  <1>1. Kept \cap MarkingCells \in SUBSET Cells
    BY DEF MarkingCells, CellsIn
  <1>2. \A c \in MarkingCells : c \in allocated => c \in Kept
    BY DEF Phases, DyingInv, Kept, MarkingCells, CellsIn
  <1>3. stack \subseteq Kept \cap MarkingCells
    BY <1>2 DEF StackInv
  <1>4. Markable(PutAside) \subseteq MarkingCells
    BY DEF Markable, PutAside, Flagged, Awaited, MarkingCells, CellsIn, TypeOK
  <1>5. Markable(PutAside) \subseteq Kept
    <2>1. ASSUME NEW c \in Markable(PutAside), c \in Flagged \cup bufferedGray
          PROVE  c \in Kept
      BY <1>2, <1>4, <2>1 DEF Flagged, GrayInv
    <2>2. ASSUME NEW p \in incomingGray
          PROVE  p[2] \in Kept
      BY <2>2 DEF GrayInv, HeapIsClosed
    <2> QED
      BY <2>1, <2>2 DEF Markable, PutAside, Awaited
  <1>6. ASSUME NEW c \in Kept \cap MarkingCells
        PROVE  Onward(c) \subseteq Kept \cap MarkingCells
    BY <1>6 DEF Onward, Markable, HeapIsClosed, MarkingCells, CellsIn, TypeOK
  <1> QED
    BY <1>1, <1>3, <1>4, <1>5, <1>6, PromisedIsLeast

\* A step keeps its promises when no mark is taken back, newly marked cells are
\* pushed, a cell is popped only when what it leads to has been marked, and an
\* edge or a reason to mark a cell goes away only when that cell has been marked.
KeepsPromises(popped) ==
  /\ UNCHANGED <<gcState, zoneGroups>>
  /\ \A x \in Cells : mark[x] # "white" => mark'[x] # "white"
  /\ \A x \in Cells : mark[x] = "white" /\ mark'[x] # "white" => x \in stack'
  /\ stack \subseteq stack' \cup popped
  /\ \A x \in popped : /\ mark'[x] # "white"
                       /\ \A d \in Markable(refs[x]) : mark'[d] # "white"
  /\ \A x \in Promised : \A d \in Markable(refs[x]) : d \in refs'[x] \/ mark'[d] # "white"
  /\ \A x \in Markable(PutAside) : x \in PutAside' \/ mark'[x] # "white"

LEMMA PromisesAreKept ==
  ASSUME IInv, HeapInv, TypeOK', NEW popped \in SUBSET Cells, KeepsPromises(popped)
  PROVE  \A c \in Cells : Safe(c) => Safe(c)'
  <1> USE DEF IInv, KeepsPromises
  <1> DEFINE S == (Promised \cap Promised') \cup (Promised \cap popped)
  <1>0. Marking' = Marking
    BY DEF Marking
  <1>1. S \in SUBSET Cells
    BY PromisedIsKept DEF Kept, TypeOK
  <1>2. stack' \cup Markable(PutAside)' \subseteq Promised'
        /\ \A c \in Promised' \cap Cells : Onward(c)' \subseteq Promised'
    BY PromisedIsClosedNext
  <1>3. stack \cup Markable(PutAside) \subseteq Promised
        /\ \A c \in Promised \cap Cells : Onward(c) \subseteq Promised
    BY PromisedIsClosed
  <1>4. \A x \in Cells : mark[x] = "white" /\ mark'[x] # "white" => x \in Promised'
    BY <1>2
  <1>5. stack \subseteq S
    BY <1>2, <1>3
  <1>6. Markable(PutAside) \subseteq S
    <2> SUFFICES ASSUME NEW x \in Markable(PutAside)
                 PROVE  x \in Promised'
      BY <1>3
    <2>1. x \in Cells /\ mark[x] = "white" /\ ZoneOf(x) \in Marking
      BY <1>1, <1>3, PromisedIsKept DEF Markable, White, Kept, TypeOK
    <2>2. CASE mark'[x] # "white"
      BY <1>4, <2>1, <2>2
    <2>3. CASE mark'[x] = "white"
      <3>1. x \in Markable(PutAside)'
        BY <1>0, <2>1, <2>3 DEF Markable, White, ZoneOf
      <3> QED
        BY <1>2, <3>1
    <2> QED
      BY <2>2, <2>3
  <1>7. ASSUME NEW x \in S
        PROVE  Onward(x) \subseteq S
    <2> SUFFICES ASSUME NEW d \in Onward(x)
                 PROVE  d \in Promised'
      BY <1>1, <1>3
    <2>1. /\ x \in Promised /\ x \in Cells /\ d \in Markable(refs[x]) /\ d \in Cells
          /\ mark[d] = "white" /\ ZoneOf(d) \in Marking /\ ~Against(x, d)
      BY <1>1 DEF Onward, Markable, White, TypeOK
    <2>2. CASE mark'[d] # "white"
      BY <1>4, <2>1, <2>2
    <2>3. CASE mark'[d] = "white"
      <3>1. d \in refs'[x] /\ x \in Promised'
        BY <2>1, <2>3
      <3>2. d \in Onward(x)'
        BY <1>0, <2>1, <2>3, <3>1 DEF Onward, Markable, White, ZoneOf, Against
      <3> QED
        BY <1>2, <2>1, <3>1, <3>2
    <2> QED
      BY <2>2, <2>3
  <1>8. Promised \subseteq S
    BY <1>1, <1>5, <1>6, <1>7, PromisedIsLeast
  <1> QED
    BY <1>8 DEF Safe

\* What a safe cell, or a cell that lives elsewhere, points to is safe.
LEMMA SafeEdges ==
  ASSUME IInv, HeapInv, ~abortSweep,
         NEW c \in Kept, c \in MarkingCells => Safe(c),
         NEW d \in refs[c] \cap MarkingCells
  PROVE  Safe(d)
  <1> USE DEF IInv, HeapInv
  <1>1. CASE c \in MarkingCells => mark[c] # "white"
    BY <1>1 DEF SnapshotIsSafe, EdgesAreSafe
  <1>2. CASE c \in Promised /\ mark[d] = "white" /\ ~Against(c, d)
    <2>1. d \in Onward(c)
      BY <1>2 DEF Onward, Markable, White, MarkingCells, CellsIn
    <2> QED
      BY <1>2, <2>1, PromisedIsClosed DEF Safe, Kept, TypeOK
  <1>3. CASE Against(c, d)
    BY <1>3 DEF SnapshotIsSafe, GroupsAreSafe
  <1> QED
    BY <1>1, <1>2, <1>3 DEF Safe

-----------------------------------------------------------------------------
(* The program's steps                                                       *)

\* Holding a cell or letting go of it: what is taken hold of was safe.
LEMMA HoldHeapInv ==
  ASSUME IInv, HeapInv,
         \/ \E c \in Cells : DropRoot(c) \/ HoldOutside(c) \/ ReleaseOutside(c)
         \/ \E c, d \in Cells : LoadRef(c, d)
  PROVE  HeapInv'
  <1> USE DEF IInv, HeapInv
  <1>1. UNCHANGED <<allocated, refs, markVars, zoneVars, sliceVars>>
    BY DEF DropRoot, HoldOutside, ReleaseOutside, LoadRef
  <1>2. /\ Marking' = Marking /\ MarkingCells' = MarkingCells /\ Kept' = Kept
        /\ Promised' = Promised
        /\ \A c \in Cells : Safe(c)' = Safe(c)
        /\ \A c, d \in Cells : Against(c, d)' = Against(c, d)
    BY <1>1 DEF markVars, zoneVars, sliceVars, Marking, MarkingCells, CellsIn, ZoneOf, Kept,
                Promised, PutAside, Flagged, Awaited, Markable, White, Onward, Against, Safe
  <1>3. roots' \cup grayRoots' \cup weak' \subseteq Kept
    BY DEF DropRoot, HoldOutside, ReleaseOutside, LoadRef, HeapIsClosed
  <1>4. ASSUME ~abortSweep, NEW d \in (roots' \cup grayRoots') \cap MarkingCells
        PROVE  Safe(d)
    <2>1. CASE d \in roots \cup grayRoots
      BY <1>4, <2>1 DEF SnapshotIsSafe, RootsAreSafe
    <2>2. CASE d \notin roots \cup grayRoots
      <3>1. PICK c \in roots : d \in refs[c]
        BY <1>4, <2>2 DEF DropRoot, HoldOutside, ReleaseOutside, LoadRef
      <3>2. c \in Kept /\ (c \in MarkingCells => Safe(c))
        BY <1>4 DEF HeapIsClosed, SnapshotIsSafe, RootsAreSafe
      <3> QED
        BY <1>4, <3>1, <3>2, SafeEdges
    <2> QED
      BY <2>1, <2>2
  <1>5. HeapIsClosed'
    BY <1>1, <1>2, <1>3 DEF HeapIsClosed
  <1>6. SnapshotIsSafe'
    BY <1>1, <1>2, <1>4 DEF SnapshotIsSafe, RootsAreSafe, EdgesAreSafe, GroupsAreSafe, zoneVars,
                            markVars, MarkingCells, CellsIn, Kept, TypeOK
  <1>7. StackInv' /\ GrayInv' /\ FreeListInv'
    BY <1>1, <1>2 DEF StackInv, GrayInv, FreeListInv, markVars, sliceVars
  <1> QED
    BY <1>5, <1>6, <1>7

\* A cell that is allocated in a zone that marks is in a flagged arena.
LEMMA AllocateHeapInv ==
  ASSUME IInv, HeapInv, TypeOK', NEW n \in Cells, Allocate(n)
  PROVE  HeapInv'
  <1> USE DEF IInv, HeapInv
  <1>1. /\ n \notin allocated /\ allocated' = allocated \cup {n}
        /\ refs' = [refs EXCEPT ![n] = {}]
        /\ roots' = roots \cup {n}
        /\ ArenaOf[n] \notin {ArenaOf[d] : d \in dying}
        /\ ~inSlice
        /\ UNCHANGED <<grayRoots, weak, mark, stack, bufferedGray, incomingGray,
                       foundBlackGray, zoneVars, sliceVars>>
    BY DEF Allocate, Program
  <1>2. /\ Marking' = Marking /\ MarkingCells' = MarkingCells
        /\ \A c, d \in Cells : Against(c, d)' = Against(c, d)
    BY <1>1 DEF zoneVars, Marking, MarkingCells, CellsIn, ZoneOf, Against
  <1>3. barrier = Marking
    BY <1>1 DEF Phases, BarrierPhase
  <1>4. /\ delayed \subseteq delayed' /\ freeLists \subseteq freeLists'
        /\ \A a \in freeLists' \ freeLists : a \in delayed'
        /\ n \in MarkingCells => ArenaOf[n] \in delayed'
    <2>1. n \in MarkingCells /\ ArenaOf[n] \in freeLists => ArenaOf[n] \in delayed
      BY <1>1 DEF FreeListInv
    <2> QED
      BY <1>3, <2>1 DEF Allocate, MarkingCells, CellsIn
  <1>5. Kept' = Kept \cup {n} /\ n \notin Kept
    BY <1>1 DEF Kept, zoneVars, TypeOK
  <1>6. \A c \in Kept : refs'[c] = refs[c]
    BY <1>1, <1>5 DEF TypeOK, Kept
  <1>7. refs'[n] = {}
    BY <1>1 DEF TypeOK
  <1>8. \A c \in Cells : Safe(c) => Safe(c)'
    <2>1. \A x \in Promised : \A d \in Markable(refs[x]) : d \in refs'[x]
      BY <1>6, PromisedIsKept DEF Markable
    <2>2. PutAside \subseteq PutAside'
      BY <1>1, <1>4 DEF PutAside, Flagged, Awaited
    <2>3. UNCHANGED <<gcState, zoneGroups, mark, stack>>
      BY <1>1 DEF zoneVars
    <2>4. KeepsPromises({})
      BY <2>1, <2>2, <2>3 DEF KeepsPromises, Markable
    <2> QED
      BY <2>4, PromisesAreKept
  <1>9. n \in MarkingCells => Safe(n)'
    <2>1. SUFFICES ASSUME n \in MarkingCells, mark'[n] = "white"
                   PROVE  n \in Promised'
      BY DEF Safe
    <2>2. n \in PutAside'
      BY <1>1, <1>4, <2>1 DEF PutAside, Flagged
    <2>3. n \in Markable(PutAside)'
      BY <1>2, <2>1, <2>2 DEF Markable, White, MarkingCells, CellsIn
    <2> QED
      BY <2>3, PromisedIsClosedNext
  <1>10. HeapIsClosed'
    BY <1>1, <1>5, <1>6, <1>7 DEF HeapIsClosed
  <1>11. SnapshotIsSafe'
    <2> SUFFICES ASSUME ~abortSweep
                 PROVE  RootsAreSafe' /\ EdgesAreSafe' /\ GroupsAreSafe'
      BY <1>1 DEF SnapshotIsSafe, zoneVars
    <2>1. RootsAreSafe'
      BY <1>1, <1>2, <1>8, <1>9 DEF SnapshotIsSafe, RootsAreSafe, MarkingCells, CellsIn
    <2>2. EdgesAreSafe'
      BY <1>1, <1>2, <1>5, <1>6, <1>7, <1>8 DEF SnapshotIsSafe, EdgesAreSafe, MarkingCells, CellsIn
    <2>3. GroupsAreSafe'
      BY <1>1, <1>2, <1>5, <1>6, <1>7, <1>8 DEF SnapshotIsSafe, GroupsAreSafe, Kept, TypeOK
    <2> QED
      BY <2>1, <2>2, <2>3
  <1>12. StackInv'
    BY <1>1, <1>2 DEF StackInv
  <1>13. GrayInv'
    BY <1>1, <1>2, <1>5, <1>6 DEF GrayInv
  <1>14. FreeListInv'
    BY <1>1, <1>2, <1>4 DEF FreeListInv, sliceVars
  <1> QED
    BY <1>10, <1>11, <1>12, <1>13, <1>14

\* Overwriting a slot: the barrier marks what the slot held, so that no promise
\* is broken, and what it holds from now on was safe already.
LEMMA WriteRefHeapInv ==
  ASSUME IInv, HeapInv, TypeOK', NEW w \in Cells, NEW old, NEW new, WriteRef(w, old, new)
  PROVE  HeapInv'
  <1> USE DEF IInv, HeapInv
  <1>1. /\ ~inSlice /\ w \in roots /\ old \subseteq refs[w] /\ new \subseteq roots
        /\ refs' = [refs EXCEPT ![w] = (refs[w] \ old) \cup new]
        /\ mark' = Blacken(BarrierMarks(old)) /\ stack' = stack \cup BarrierMarks(old)
        /\ incomingGray' = incomingGray \ ({w} \X old)
        /\ UNCHANGED <<allocated, roots, grayRoots, weak, delayed, freeLists, bufferedGray,
                       foundBlackGray, zoneVars, sliceVars>>
    BY DEF WriteRef, Program, MarkAndPush, OffGrayList
  <1>2. /\ Marking' = Marking /\ MarkingCells' = MarkingCells /\ Kept' = Kept
        /\ \A c, d \in Cells : Against(c, d)' = Against(c, d)
    BY <1>1 DEF zoneVars, Marking, MarkingCells, CellsIn, ZoneOf, Against, Kept
  <1>3. barrier = Marking
    BY <1>1 DEF Phases, BarrierPhase
  <1>4. /\ w \in Kept /\ old \subseteq Kept /\ new \subseteq Kept /\ Kept \subseteq Cells
    BY <1>1 DEF HeapIsClosed, Kept, TypeOK
  <1>5. BarrierMarks(old) = {d \in old : mark[d] = "white" /\ d \in MarkingCells}
    BY <1>3, <1>4 DEF BarrierMarks, White, MarkingCells, CellsIn
  <1>6. \A x \in Cells : mark'[x] = IF x \in BarrierMarks(old) THEN "black" ELSE mark[x]
    BY <1>1 DEF Blacken
  <1>7. refs'[w] = (refs[w] \ old) \cup new /\ \A c \in Cells \ {w} : refs'[c] = refs[c]
    BY <1>1 DEF TypeOK
  <1>8. \A d \in old : d \in MarkingCells => mark'[d] # "white"
    BY <1>4, <1>5, <1>6
  <1>9. \A c \in Cells : Safe(c) => Safe(c)'
    <2>1. \A x \in Promised : \A d \in Markable(refs[x]) : d \in refs'[x] \/ mark'[d] # "white"
      <3> SUFFICES ASSUME NEW x \in Promised, NEW d \in Markable(refs[x]), d \notin refs'[x]
                   PROVE  mark'[d] # "white"
        OBVIOUS
      <3>1. x \in Cells
        BY <1>4, PromisedIsKept
      <3>2. d \in old /\ d \in MarkingCells
        BY <1>4, <1>7, <3>1 DEF Markable, MarkingCells, CellsIn
      <3> QED
        BY <1>8, <3>2
    <2>2. \A x \in Markable(PutAside) : x \in PutAside' \/ mark'[x] # "white"
      <3> SUFFICES ASSUME NEW x \in Markable(PutAside), x \notin PutAside'
                   PROVE  mark'[x] # "white"
        OBVIOUS
      <3>1. PICK p \in incomingGray : x = p[2] /\ p \notin incomingGray'
        BY <1>1 DEF Markable, PutAside, Flagged, Awaited
      <3>2. x \in old /\ x \in MarkingCells
        BY <1>1, <1>4, <3>1 DEF Markable, MarkingCells, CellsIn
      <3> QED
        BY <1>8, <3>2
    <2>3. UNCHANGED <<gcState, zoneGroups>>
      BY <1>1 DEF zoneVars
    <2>4. \A x \in Cells : /\ mark[x] # "white" => mark'[x] # "white"
                           /\ mark[x] = "white" /\ mark'[x] # "white" => x \in stack'
      BY <1>1, <1>6
    <2>5. KeepsPromises({})
      BY <1>1, <2>1, <2>2, <2>3, <2>4 DEF KeepsPromises
    <2> QED
      BY <2>5, PromisesAreKept
  <1>10. \A c \in Kept : \A d \in refs'[c] : d \in refs[c] \/ d \in roots
    BY <1>1, <1>4, <1>7
  <1>11. HeapIsClosed'
    BY <1>1, <1>2, <1>4, <1>10 DEF HeapIsClosed
  <1>12. SnapshotIsSafe'
    <2> SUFFICES ASSUME ~abortSweep
                 PROVE  RootsAreSafe' /\ EdgesAreSafe' /\ GroupsAreSafe'
      BY <1>1 DEF SnapshotIsSafe, zoneVars
    <2>1. \A d \in (roots \cup grayRoots) \cap MarkingCells : Safe(d)'
      BY <1>9 DEF SnapshotIsSafe, RootsAreSafe, MarkingCells, CellsIn
    <2>2. RootsAreSafe'
      BY <1>1, <1>2, <2>1 DEF RootsAreSafe
    <2>3. EdgesAreSafe'
      <3> SUFFICES ASSUME NEW c \in Kept, c \in MarkingCells => mark'[c] # "white",
                          NEW d \in refs'[c] \cap MarkingCells
                   PROVE  Safe(d)'
        BY <1>2 DEF EdgesAreSafe
      <3>1. CASE d \in roots
        BY <2>1, <3>1
      <3>2. CASE d \in refs[c] /\ (c \in MarkingCells => Safe(c))
        BY <1>4, <1>9, <3>2, SafeEdges DEF MarkingCells, CellsIn
      <3>3. CASE c \in MarkingCells /\ ~Safe(c)
        <4>1. c \in BarrierMarks(old)
          BY <1>4, <1>6, <3>3 DEF Safe
        <4>2. c \in refs[w] /\ (w \in MarkingCells => Safe(w))
          BY <1>1, <1>5, <4>1 DEF SnapshotIsSafe, RootsAreSafe
        <4> QED
          BY <1>4, <3>3, <4>2, SafeEdges
      <3> QED
        BY <1>10, <3>1, <3>2, <3>3
    <2>4. GroupsAreSafe'
      <3> SUFFICES ASSUME NEW c \in Kept, NEW d \in refs'[c], Against(c, d)
                   PROVE  Safe(d)'
        BY <1>2, <1>4, <1>10 DEF GroupsAreSafe, HeapIsClosed
      <3>1. d \in Kept
        BY <1>10 DEF HeapIsClosed
      <3>2. d \in MarkingCells
        <4>1. incrementalState = "SWEEP"
          BY DEF Against, Phases, GroupPhase
        <4>2. ZoneOf(d) \in LaterGroups
          BY DEF Against, LaterGroups
        <4> QED
          BY <1>4, <3>1, <4>1, <4>2 DEF Phases, GroupPhase, MarkingCells, CellsIn
      <3> QED
        BY <1>4, <1>9, <1>10, <2>1, <3>1, <3>2 DEF SnapshotIsSafe, GroupsAreSafe
    <2> QED
      BY <2>2, <2>3, <2>4
  <1>13. StackInv'
    BY <1>1, <1>2, <1>4, <1>5, <1>6 DEF StackInv, Kept, MarkingCells, CellsIn
  <1>14. GrayInv'
    <2>1. ASSUME NEW p \in incomingGray'
          PROVE  p[2] \in refs'[p[1]] /\ mark'[p[1]] # "white"
      <3>1. /\ p \in incomingGray /\ p \in Cells \X Cells /\ p \notin {w} \X old
            /\ p[2] \in refs[p[1]] /\ mark[p[1]] # "white"
        BY <1>1, <2>1 DEF GrayInv, TypeOK
      <3> QED
        BY <1>6, <1>7, <3>1
    <2> QED
      BY <1>1, <1>2, <2>1 DEF GrayInv
  <1>15. FreeListInv'
    BY <1>1, <1>2 DEF FreeListInv, sliceVars
  <1> QED
    BY <1>11, <1>12, <1>13, <1>14, <1>15

\* Unmarking gray recursively changes no cell that is white, and no white cell.
LEMMA GrayFromIsGray ==
  ASSUME TypeOK, NEW c \in Cells
  PROVE  \A d \in GrayFrom({c}) : mark[d] = "gray"
  <1> DEFINE Grays == {d \in Cells : mark[d] = "gray"}
             next == [d \in Cells |-> {e \in refs[d] : mark[e] = "gray"}]
  <1>1. \A x \in Grays : next[x] \subseteq Grays
    BY DEF TypeOK
  <1>2. {d \in {c} : mark[d] = "gray"} \subseteq Grays /\ Grays \in SUBSET Cells
    OBVIOUS
  <1>3. Closure({d \in {c} : mark[d] = "gray"}, next) \subseteq Grays
    BY <1>1, <1>2, ClosureIsLeast
  <1> QED
    BY <1>3 DEF GrayFrom

\* Reading a weak reference revives a cell that was promised to nobody: it is
\* pushed, and what it leads to was kept all the same.
LEMMA ExposeHeapInv ==
  ASSUME IInv, HeapInv, TypeOK', NEW n \in Cells, Expose(n)
  PROVE  HeapInv'
  <1> USE DEF IInv, HeapInv
  <1>1. /\ ~inSlice /\ n \in weak \cup grayRoots /\ roots' = roots \cup {n}
        /\ UNCHANGED <<allocated, refs, grayRoots, weak, delayed, freeLists, bufferedGray,
                       incomingGray, foundBlackGray, zoneVars, sliceVars>>
    BY DEF Expose, Program
  <1>2. /\ Marking' = Marking /\ MarkingCells' = MarkingCells /\ Kept' = Kept
        /\ PutAside' = PutAside
        /\ \A c, d \in Cells : Against(c, d)' = Against(c, d)
    BY <1>1 DEF zoneVars, Marking, MarkingCells, CellsIn, ZoneOf, Against, Kept, PutAside,
                Flagged, Awaited
  <1>3. barrier = Marking
    BY <1>1 DEF Phases, BarrierPhase
  <1>4. n \in Kept /\ Kept \subseteq Cells
    BY <1>1 DEF HeapIsClosed, Kept, TypeOK
  <1>5. /\ stack \subseteq stack'
        /\ \A c \in stack' \ stack : c = n /\ n \in MarkingCells
        /\ \A c \in Cells : mark[c] # "white" => mark'[c] # "white"
        /\ \A c \in Cells : mark[c] = "white" /\ mark'[c] # "white" => c = n /\ n \in stack'
        /\ n \in MarkingCells => mark'[n] # "white"
    <2>1. CASE n \in MarkingCells
      <3>1. mark' = Blacken(BarrierMarks({n})) /\ stack' = stack \cup BarrierMarks({n})
        BY <1>3, <2>1 DEF Expose, MarkAndPush, MarkingCells, CellsIn
      <3>2. BarrierMarks({n}) = {c \in {n} : mark[c] = "white"}
        BY <1>3, <2>1 DEF BarrierMarks, White, MarkingCells, CellsIn
      <3> QED
        BY <2>1, <3>1, <3>2 DEF Blacken
    <2>2. CASE n \notin MarkingCells
      <3>1. mark' = Blacken(GrayFrom({n})) /\ stack' = stack
        BY <1>3, <2>2 DEF Expose, MarkingCells, CellsIn
      <3> QED
        BY <2>2, <3>1, GrayFromIsGray DEF Blacken
    <2> QED
      BY <2>1, <2>2
  <1>6. \A c \in Cells : Safe(c) => Safe(c)'
    <2>1. \A x \in Promised : \A d \in Markable(refs[x]) : d \in refs'[x]
      BY <1>1 DEF Markable
    <2>2. \A x \in Markable(PutAside) : x \in PutAside'
      BY <1>2 DEF Markable
    <2>3. UNCHANGED <<gcState, zoneGroups>>
      BY <1>1 DEF zoneVars
    <2>4. KeepsPromises({})
      BY <1>5, <2>1, <2>2, <2>3 DEF KeepsPromises
    <2> QED
      BY <2>4, PromisesAreKept
  <1>7. HeapIsClosed'
    BY <1>1, <1>2, <1>4 DEF HeapIsClosed
  <1>8. SnapshotIsSafe'
    <2> SUFFICES ASSUME ~abortSweep
                 PROVE  RootsAreSafe' /\ EdgesAreSafe' /\ GroupsAreSafe'
      BY <1>1 DEF SnapshotIsSafe, zoneVars
    <2>1. RootsAreSafe'
      <3>1. n \in MarkingCells => Safe(n)'
        BY <1>5 DEF Safe
      <3> QED
        BY <1>1, <1>2, <1>6, <3>1 DEF SnapshotIsSafe, RootsAreSafe, MarkingCells, CellsIn
    <2>2. GroupsAreSafe'
      BY <1>1, <1>2, <1>4, <1>6 DEF SnapshotIsSafe, GroupsAreSafe, TypeOK
    <2>3. EdgesAreSafe'
      <3> SUFFICES ASSUME NEW c \in Kept, c \in MarkingCells => mark'[c] # "white",
                          NEW d \in refs[c] \cap MarkingCells
                   PROVE  Safe(d)'
        BY <1>1, <1>2 DEF EdgesAreSafe
      <3>1. CASE c \in MarkingCells => mark[c] # "white"
        BY <1>4, <1>6, <3>1, SafeEdges DEF Safe, MarkingCells, CellsIn
      <3>2. CASE c = n /\ n \in stack' /\ mark'[d] = "white" /\ ~Against(c, d)
        <4>1. d \in Onward(n)'
          BY <1>1, <1>2, <3>2 DEF Onward, Markable, White, MarkingCells, CellsIn
        <4>2. d \in Promised'
          BY <3>2, <4>1, PromisedIsClosedNext
        <4> QED
          BY <4>2 DEF Safe
      <3>3. CASE Against(c, d)
        BY <1>6, <3>3 DEF SnapshotIsSafe, GroupsAreSafe, MarkingCells, CellsIn
      <3>4. CASE mark'[d] # "white"
        BY <3>4 DEF Safe
      <3> QED
        BY <1>4, <1>5, <3>1, <3>2, <3>3, <3>4
    <2> QED
      BY <2>1, <2>2, <2>3
  <1>9. StackInv'
    BY <1>1, <1>2, <1>4, <1>5 DEF StackInv, Kept, TypeOK
  <1>10. GrayInv'
    BY <1>1, <1>2, <1>4, <1>5 DEF GrayInv
  <1>11. FreeListInv'
    BY <1>1, <1>2 DEF FreeListInv, sliceVars
  <1> QED
    BY <1>7, <1>8, <1>9, <1>10, <1>11

LEMMA MutatorHeapInv ==
  ASSUME IInv, HeapInv, TypeOK', Mutator
  PROVE  HeapInv'
  BY HoldHeapInv, AllocateHeapInv, WriteRefHeapInv, ExposeHeapInv DEF Mutator

-----------------------------------------------------------------------------
(* Slices                                                                    *)

\* The snapshot begins: what the roots and the cells of other zones name is
\* pushed, and what the embedding holds is put aside.
LEMMA BeginMarkHeapInv ==
  ASSUME IInv, HeapInv, TypeOK', NEW zs \in Schedules, BeginMarkPhase(zs)
  PROVE  HeapInv'
  <1> USE DEF IInv, HeapInv
  <1> DEFINE rooted == (roots \cup Incoming(zs)) \cap CellsIn(zs)
  <1>1. /\ inSlice' = TRUE /\ stack' = rooted /\ dying = {} /\ incrementalState = "NO_INCREMENTAL"
        /\ gcState' = [z \in Zones |-> IF z \in zs THEN "Mark" ELSE "NoGC"]
        /\ mark' = [c \in Cells |-> IF c \in rooted THEN "black"
                                    ELSE IF c \in CellsIn(zs) THEN "white" ELSE mark[c]]
        /\ bufferedGray' = grayRoots \cap CellsIn(zs)
        /\ UNCHANGED <<heapVars, delayed, incomingGray, zoneGroups, abortSweep, dying>>
    BY DEF BeginMarkPhase, BeginSlice
  <1>2. zoneGroups = <<>> /\ incomingGray = {} /\ ~abortSweep
    BY <1>1 DEF Phases, GroupPhase
  <1>3. Marking' = zs /\ MarkingCells' = CellsIn(zs)
    BY <1>1, Bounds DEF Marking, MarkingCells, CellsIn, ZoneOf
  <1>4. Kept = allocated /\ Kept' = Kept /\ Kept \subseteq Cells
    BY <1>1 DEF Kept, heapVars, TypeOK
  <1>5. \A c \in Kept : refs[c] \subseteq Kept
    BY DEF HeapIsClosed
  <1>6. rooted \subseteq allocated
    BY <1>4, <1>5 DEF Incoming, HeapIsClosed
  <1>7. \A c \in CellsIn(zs) : mark'[c] # "white" <=> c \in rooted
    BY <1>1 DEF CellsIn
  <1>8. \A c, d : ~Against(c, d)'
    BY <1>1, <1>2 DEF Against
  <1>9. /\ stack' \cup Markable(PutAside)' \subseteq Promised'
        /\ \A c \in Promised' \cap Cells : Onward(c)' \subseteq Promised'
    BY PromisedIsClosedNext
  <1>10. HeapIsClosed'
    BY <1>1, <1>4 DEF HeapIsClosed, heapVars
  <1>11. RootsAreSafe'
    <2> SUFFICES ASSUME NEW c \in (roots \cup grayRoots) \cap CellsIn(zs), mark'[c] = "white"
                 PROVE  c \in Promised'
      BY <1>1, <1>3 DEF RootsAreSafe, Safe, heapVars
    <2>1. c \in grayRoots /\ c \in Cells
      BY <1>7 DEF CellsIn
    <2>2. c \in Markable(PutAside)'
      BY <1>1, <1>3, <2>1 DEF Markable, White, PutAside, CellsIn, ZoneOf
    <2> QED
      BY <1>9, <2>2
  <1>12. EdgesAreSafe'
    <2> SUFFICES ASSUME NEW c \in Kept, c \in CellsIn(zs) => c \in rooted,
                        NEW d \in refs[c] \cap CellsIn(zs), mark'[d] = "white"
                 PROVE  d \in Promised'
      BY <1>1, <1>3, <1>4, <1>7 DEF EdgesAreSafe, Safe, heapVars
    <2>1. c \in rooted
      BY <1>4, <1>7 DEF Incoming
    <2>2. d \in Onward(c)'
      BY <1>1, <1>3, <1>8 DEF Onward, Markable, White, CellsIn, ZoneOf, heapVars
    <2> QED
      BY <1>1, <1>4, <1>9, <2>1, <2>2
  <1>13. SnapshotIsSafe'
    BY <1>8, <1>11, <1>12 DEF SnapshotIsSafe, GroupsAreSafe
  <1>14. StackInv'
    BY <1>1, <1>3, <1>6, <1>7 DEF StackInv, heapVars
  <1>15. GrayInv'
    BY <1>1, <1>2, <1>4 DEF GrayInv, HeapIsClosed, heapVars
  <1>16. FreeListInv'
    BY <1>1 DEF FreeListInv
  <1> QED
    BY <1>10, <1>13, <1>14, <1>15, <1>16

\* A step of the marker: the heap stays, and only what was safe is marked.
LEMMA MarkerKeepsSnapshot ==
  ASSUME IInv, HeapInv, TypeOK', NEW popped \in SUBSET Cells, KeepsPromises(popped),
         UNCHANGED <<heapVars, dying, abortSweep, bufferedGray, incomingGray>>,
         ~abortSweep => \A c \in MarkingCells : mark'[c] # "white" => Safe(c)
  PROVE  HeapIsClosed' /\ SnapshotIsSafe' /\ GrayInv'
  <1> USE DEF IInv, HeapInv
  <1>1. UNCHANGED <<gcState, zoneGroups>> /\ \A x \in Cells : mark[x] # "white" => mark'[x] # "white"
    BY DEF KeepsPromises
  <1>2. /\ Marking' = Marking /\ MarkingCells' = MarkingCells /\ Kept' = Kept /\ Kept \subseteq Cells
        /\ \A c, d \in Cells : Against(c, d)' = Against(c, d)
    BY <1>1 DEF Marking, MarkingCells, CellsIn, ZoneOf, Against, Kept, heapVars, TypeOK
  <1>3. \A c \in Cells : Safe(c) => Safe(c)'
    BY PromisesAreKept
  <1>4. HeapIsClosed'
    BY <1>2 DEF HeapIsClosed, heapVars
  <1>5. SnapshotIsSafe'
    <2> SUFFICES ASSUME ~abortSweep
                 PROVE  RootsAreSafe' /\ EdgesAreSafe' /\ GroupsAreSafe'
      BY DEF SnapshotIsSafe
    <2>1. RootsAreSafe' /\ GroupsAreSafe'
      BY <1>2, <1>3 DEF SnapshotIsSafe, RootsAreSafe, GroupsAreSafe, heapVars, MarkingCells,
                        CellsIn, TypeOK
    <2>2. EdgesAreSafe'
      <3> SUFFICES ASSUME NEW c \in Kept, c \in MarkingCells => mark'[c] # "white",
                          NEW d \in refs[c] \cap MarkingCells
                   PROVE  Safe(d)'
        BY <1>2 DEF EdgesAreSafe, heapVars
      <3>1. Safe(d)
        BY SafeEdges
      <3> QED
        BY <1>3, <3>1 DEF MarkingCells, CellsIn
    <2> QED
      BY <2>1, <2>2
  <1>6. GrayInv'
    BY <1>1, <1>2 DEF GrayInv, heapVars, TypeOK, Kept
  <1> QED
    BY <1>4, <1>5, <1>6

\* Entering a slice, or leaving one: more arenas may be flagged.
LEMMA SliceBoundaryHeapInv ==
  ASSUME IInv, HeapInv, TypeOK', StartSlice \/ Yield
  PROVE  HeapInv'
  <1> USE DEF IInv, HeapInv
  <1>1. /\ UNCHANGED <<heapVars, mark, stack, freeLists, bufferedGray, incomingGray,
                       gcState, zoneGroups, abortSweep, dying>>
        /\ delayed \subseteq delayed'
    BY DEF StartSlice, Yield, markVars
  <1>2. KeepsPromises({})
    BY <1>1 DEF KeepsPromises, heapVars, PutAside, Flagged, Awaited, Markable
  <1>3. HeapIsClosed' /\ SnapshotIsSafe' /\ GrayInv'
    BY <1>1, <1>2, MarkerKeepsSnapshot DEF Safe
  <1>4. Marking' = Marking /\ MarkingCells' = MarkingCells
    BY <1>1 DEF Marking, MarkingCells, CellsIn, ZoneOf
  <1>5. StackInv'
    BY <1>1, <1>4 DEF StackInv, heapVars
  <1>6. FreeListInv'
    <2>1. CASE StartSlice
      BY <2>1 DEF StartSlice, BeginSlice, FreeListInv
    <2>2. CASE Yield
      BY <1>1, <1>4, <2>2 DEF Yield, FreeListInv, MarkingCells, CellsIn, ZoneOf, heapVars
    <2> QED
      BY <2>1, <2>2
  <1> QED
    BY <1>3, <1>5, <1>6

\* Tracing a cell of the stack.
LEMMA MarkCellHeapInv ==
  ASSUME IInv, HeapInv, TypeOK', NEW n \in Cells, MarkCell(n)
  PROVE  HeapInv'
  <1> USE DEF IInv, HeapInv
  <1> DEFINE new == Markable(refs[n])
  <1>1. /\ inSlice /\ inSlice' = inSlice /\ n \in stack
        /\ mark' = Blacken(new) /\ stack' = (stack \ {n}) \cup new
        /\ UNCHANGED <<heapVars, delayed, freeLists, bufferedGray, incomingGray, zoneVars>>
    BY DEF MarkCell, Draining
  <1>2. n \in Kept /\ n \in MarkingCells /\ mark[n] # "white"
    BY <1>1 DEF StackInv, Phases, DyingInv, Kept, MarkingCells, CellsIn
  <1>3. new \subseteq Cells \cap MarkingCells /\ new \subseteq allocated
    BY <1>2 DEF Markable, MarkingCells, CellsIn, TypeOK, HeapIsClosed, Kept
  <1>4. \A c \in Cells : mark'[c] = IF c \in new THEN "black" ELSE mark[c]
    BY <1>1 DEF Blacken
  <1>5. KeepsPromises({n})
    <2>1. \A x \in Markable(PutAside) : x \in PutAside'
      BY <1>1 DEF Markable, PutAside, Flagged, Awaited, heapVars
    <2>2. \A x \in Promised : \A d \in Markable(refs[x]) : d \in refs'[x]
      BY <1>1 DEF Markable, heapVars
    <2>3. \A x \in Cells : /\ mark[x] # "white" => mark'[x] # "white"
                           /\ mark[x] = "white" /\ mark'[x] # "white" => x \in stack'
      BY <1>1, <1>4
    <2>4. mark'[n] # "white" /\ \A d \in new : mark'[d] # "white"
      BY <1>2, <1>3, <1>4
    <2> QED
      BY <1>1, <2>1, <2>2, <2>3, <2>4 DEF KeepsPromises, zoneVars
  <1>6. ASSUME ~abortSweep, NEW c \in MarkingCells, mark'[c] # "white"
        PROVE  Safe(c)
    <2>1. CASE c \in new
      BY <1>2, <1>3, <1>6, <2>1, SafeEdges DEF Safe, Markable
    <2>2. CASE c \notin new
      BY <1>4, <1>6, <2>2 DEF Safe, MarkingCells, CellsIn
    <2> QED
      BY <2>1, <2>2
  <1>7. HeapIsClosed' /\ SnapshotIsSafe' /\ GrayInv'
    BY <1>1, <1>5, <1>6, MarkerKeepsSnapshot DEF zoneVars
  <1>8. MarkingCells' = MarkingCells
    BY <1>1 DEF Marking, MarkingCells, CellsIn, ZoneOf, zoneVars
  <1>9. StackInv'
    BY <1>1, <1>3, <1>4, <1>8 DEF StackInv, heapVars, TypeOK
  <1>10. FreeListInv'
    BY <1>1 DEF FreeListInv
  <1> QED
    BY <1>7, <1>9, <1>10

\* Marking the cells of a flagged arena.
LEMMA MarkArenaHeapInv ==
  ASSUME IInv, HeapInv, TypeOK', NEW a \in Arenas, MarkDelayedArena(a)
  PROVE  HeapInv'
  <1> USE DEF IInv, HeapInv
  <1> DEFINE new == Markable({c \in allocated : ArenaOf[c] = a})
  <1>1. /\ inSlice /\ inSlice' = inSlice /\ a \in delayed
        /\ mark' = Blacken(new) /\ stack' = stack \cup new
        /\ delayed' = delayed \ {a}
        /\ UNCHANGED <<heapVars, freeLists, bufferedGray, incomingGray, zoneVars>>
    BY DEF MarkDelayedArena, Draining, MarkAndPush, Undelay
  <1>2. new \subseteq allocated \cap MarkingCells /\ new \subseteq Cells
    BY DEF Markable, MarkingCells, CellsIn, TypeOK
  <1>3. new \subseteq Markable(PutAside)
    BY <1>1 DEF Markable, PutAside, Flagged
  <1>4. \A c \in Cells : mark'[c] = IF c \in new THEN "black" ELSE mark[c]
    BY <1>1 DEF Blacken
  <1>5. KeepsPromises({})
    <2>1. \A x \in Markable(PutAside) : x \in PutAside' \/ x \in new
      BY <1>1 DEF Markable, PutAside, Flagged, Awaited, heapVars
    <2>2. \A x \in Promised : \A d \in Markable(refs[x]) : d \in refs'[x]
      BY <1>1 DEF Markable, heapVars
    <2>3. \A x \in Cells : /\ mark[x] # "white" => mark'[x] # "white"
                           /\ mark[x] = "white" /\ mark'[x] # "white" => x \in stack'
      BY <1>1, <1>4
    <2> QED
      BY <1>1, <1>2, <1>4, <2>1, <2>2, <2>3 DEF KeepsPromises, zoneVars
  <1>6. ASSUME NEW c \in MarkingCells, mark'[c] # "white"
        PROVE  Safe(c)
    BY <1>3, <1>4, <1>6, PromisedIsClosed DEF Safe, MarkingCells, CellsIn
  <1>7. HeapIsClosed' /\ SnapshotIsSafe' /\ GrayInv'
    BY <1>1, <1>5, <1>6, MarkerKeepsSnapshot DEF zoneVars
  <1>8. MarkingCells' = MarkingCells
    BY <1>1 DEF Marking, MarkingCells, CellsIn, ZoneOf, zoneVars
  <1>9. StackInv'
    BY <1>1, <1>2, <1>4, <1>8 DEF StackInv, heapVars, TypeOK
  <1>10. FreeListInv'
    BY <1>1 DEF FreeListInv
  <1> QED
    BY <1>7, <1>9, <1>10

\* Finalizing a cell that was found dead changes nothing for the cells kept.
LEMMA FinalizeHeapInv ==
  ASSUME IInv, HeapInv, TypeOK',
         NEW n \in Cells, FinalizeForeground(n) \/ FinalizeInBackground(n)
  PROVE  HeapInv'
  <1> USE DEF IInv, HeapInv
  <1>1. /\ n \in dying /\ dying' = dying \ {n} /\ allocated' = allocated \ {n}
        /\ refs' = [d \in Cells |-> IF d \in {n} THEN {} ELSE refs[d]]
        /\ inSlice' = inSlice
        /\ UNCHANGED <<roots, grayRoots, weak, markVars, gcState, zoneGroups, abortSweep>>
    BY DEF FinalizeForeground, FinalizeInBackground, Free, sliceVars
  <1>2. Kept' = Kept /\ n \notin Kept /\ Kept \subseteq Cells /\ n \notin MarkingCells
    BY <1>1 DEF Kept, TypeOK, Phases, DyingInv, MarkingCells, CellsIn
  <1>3. \A c \in Kept : refs'[c] = refs[c]
    BY <1>1, <1>2
  <1>4. /\ MarkingCells' = MarkingCells
        /\ \A c, d \in Cells : Against(c, d)' = Against(c, d)
    BY <1>1 DEF Marking, MarkingCells, CellsIn, ZoneOf, Against
  <1>5. KeepsPromises({})
    <2>1. \A x \in Promised : refs'[x] = refs[x]
      BY <1>3, PromisedIsKept
    <2>2. \A x \in Markable(PutAside) : x \in PutAside'
      <3>1. n \notin Markable(PutAside)
        BY <1>2 DEF Markable, MarkingCells, CellsIn
      <3> QED
        BY <1>1, <3>1 DEF Markable, PutAside, Flagged, Awaited, markVars
    <2> QED
      BY <1>1, <2>1, <2>2 DEF KeepsPromises, markVars, Markable
  <1>6. \A c \in Cells : Safe(c) => Safe(c)'
    BY <1>5, PromisesAreKept
  <1>7. HeapIsClosed'
    BY <1>1, <1>2, <1>3 DEF HeapIsClosed
  <1>8. SnapshotIsSafe'
    <2> SUFFICES ASSUME ~abortSweep
                 PROVE  RootsAreSafe' /\ EdgesAreSafe' /\ GroupsAreSafe'
      BY <1>1 DEF SnapshotIsSafe
    <2>1. RootsAreSafe'
      BY <1>1, <1>4, <1>6 DEF SnapshotIsSafe, RootsAreSafe, MarkingCells, CellsIn
    <2>2. EdgesAreSafe'
      BY <1>1, <1>2, <1>3, <1>4, <1>6 DEF SnapshotIsSafe, EdgesAreSafe, MarkingCells, CellsIn, markVars
    <2>3. GroupsAreSafe'
      BY <1>1, <1>2, <1>3, <1>4, <1>6 DEF SnapshotIsSafe, GroupsAreSafe, TypeOK
    <2> QED
      BY <2>1, <2>2, <2>3
  <1>9. StackInv' /\ GrayInv' /\ FreeListInv'
    BY <1>1, <1>2, <1>3, <1>4 DEF StackInv, GrayInv, FreeListInv, markVars
  <1> QED
    BY <1>7, <1>8, <1>9

\* When no zone marks any more nothing is left to promise.
LEMMA NothingMarks ==
  ASSUME HeapInv, UNCHANGED <<heapVars, dying>>, Marking' = {}, zoneGroups' = <<>>,
         stack' = {}, incomingGray' = {}
  PROVE  HeapInv'
  <1> USE DEF HeapInv
  <1>1. MarkingCells' = {} /\ Kept' = Kept
    BY DEF MarkingCells, CellsIn, Kept, heapVars
  <1>2. HeapIsClosed'
    BY <1>1 DEF HeapIsClosed, heapVars
  <1>3. SnapshotIsSafe'
    BY <1>1 DEF SnapshotIsSafe, RootsAreSafe, EdgesAreSafe, GroupsAreSafe, Against
  <1>4. StackInv' /\ GrayInv' /\ FreeListInv'
    BY <1>1 DEF StackInv, GrayInv, FreeListInv
  <1> QED
    BY <1>2, <1>3, <1>4

\* The end of sweeping, the end of a collection, and a reset while marking.
LEMMA EndHeapInv ==
  ASSUME IInv, HeapInv, EndSweepPhase \/ FinishCollection \/ ResetMarking
  PROVE  HeapInv'
  <1> USE DEF IInv, HeapInv
  <1>1. CASE EndSweepPhase
    <2>1. IInv' /\ incrementalState' = "FINALIZE"
      BY <1>1, EndSweepIInv DEF EndSweepPhase
    <2>2. Marking' = {} /\ zoneGroups' = <<>> /\ incomingGray' = {} /\ stack' = {}
      BY <2>1 DEF Phases, MarkedPhase, GroupPhase, Drained
    <2> QED
      BY <1>1, <2>2, NothingMarks DEF EndSweepPhase
  <1>2. CASE FinishCollection
    <2>1. IInv' /\ incrementalState' = "NO_INCREMENTAL"
      BY <1>2, FinishIInv DEF FinishCollection
    <2>2. Marking' = {} /\ zoneGroups' = <<>> /\ incomingGray' = {} /\ stack' = {}
      BY <2>1 DEF Phases, MarkedPhase, GroupPhase, Drained
    <2> QED
      BY <1>2, <2>2, NothingMarks DEF FinishCollection
  <1>3. CASE ResetMarking
    <2>1. IInv' /\ incrementalState' = "NO_INCREMENTAL"
      BY <1>3, ResetIInv DEF ResetMarking
    <2>2. Marking' = {} /\ zoneGroups' = <<>> /\ incomingGray' = {} /\ stack' = {}
      BY <2>1 DEF Phases, MarkedPhase, GroupPhase, Drained
    <2> QED
      BY <1>3, <2>2, NothingMarks DEF ResetMarking
  <1> QED
    BY <1>1, <1>2, <1>3

\* A reset while sweeping gives up what is left to mark, and with it the sweeping
\* of the zones that still mark.
LEMMA ResetSweepingHeapInv ==
  ASSUME IInv, HeapInv, ResetSweeping
  PROVE  HeapInv'
  <1> USE DEF HeapInv
  <1>1. /\ stack' = {} /\ abortSweep' = TRUE /\ inSlice' = TRUE
        /\ UNCHANGED <<heapVars, mark, bufferedGray, incomingGray, gcState, dying>>
    BY DEF ResetSweeping, BeginSlice
  <1>2. MarkingCells' = MarkingCells /\ Kept' = Kept
    BY <1>1 DEF Marking, MarkingCells, CellsIn, ZoneOf, Kept, heapVars
  <1>3. HeapIsClosed'
    BY <1>1, <1>2 DEF HeapIsClosed, heapVars
  <1>4. SnapshotIsSafe' /\ StackInv' /\ GrayInv' /\ FreeListInv'
    BY <1>1, <1>2 DEF SnapshotIsSafe, StackInv, GrayInv, FreeListInv, heapVars
  <1> QED
    BY <1>3, <1>4

-----------------------------------------------------------------------------
(* Sweeping a zone group                                                     *)

\* Marking black from the gray lists ends where there is nothing left to mark.
LEMMA IncomingBlackIsClosed ==
  ASSUME TypeOK, NEW g \in SUBSET Zones
  PROVE  /\ \A d \in CellsIn(g), s \in Cells :
              <<s, d>> \in incomingGray /\ mark[s] = "black" /\ White(d) /\ ZoneOf(d) \in Marking
                => d \in IncomingBlack(g)
         /\ \A x \in IncomingBlack(g) : Markable(refs[x]) \subseteq IncomingBlack(g)
  <1>1. ASSUME NEW x \in IncomingBlack(g)
        PROVE  Markable(refs[x]) \subseteq IncomingBlack(g)
    <2>1. x \in Cells
      BY IncomingBlackIsMarkable DEF Markable
    <2>2. [c \in Cells |-> Markable(refs[c])][x] = Markable(refs[x])
      BY <2>1
    <2>3. Markable(refs[x]) \subseteq Cells
      BY <2>1 DEF Markable, TypeOK
    <2> QED
      BY <2>2, <2>3, ClosureIsClosed DEF IncomingBlack
  <1>2. \A d \in CellsIn(g), s \in Cells :
          <<s, d>> \in incomingGray /\ mark[s] = "black" /\ White(d) /\ ZoneOf(d) \in Marking
            => d \in IncomingBlack(g)
    BY DEF IncomingBlack, Closure, Markable
  <1> QED
    BY <1>1, <1>2

\* Marking gray stays in the group, and ends where nothing in it is left to mark.
LEMMA IncomingGrayIsClosed ==
  ASSUME IInv, HeapInv, NEW g \in SUBSET Zones
  PROVE  /\ IncomingGray(g) \subseteq (Kept \cap (Markable(Cells) \cap CellsIn(g))) \ IncomingBlack(g)
         /\ \A d \in CellsIn(g) :
              /\ d \in bufferedGray \/ \E s \in Cells : <<s, d>> \in incomingGray /\ mark[s] = "gray"
              /\ White(d) /\ ZoneOf(d) \in Marking
              => d \in IncomingBlack(g) \cup IncomingGray(g)
         /\ \A x \in IncomingGray(g) : \A d \in Markable(refs[x]) \cap CellsIn(g) :
              d \in IncomingBlack(g) \cup IncomingGray(g)
  <1> USE DEF IInv, HeapInv
  <1> DEFINE grayable(S) == Markable(S \cap CellsIn(g)) \ IncomingBlack(g)
             from == grayable(bufferedGray
                       \cup {d \in Cells : \E s \in Cells :
                               <<s, d>> \in incomingGray /\ mark[s] = "gray"})
             next == [c \in Cells |-> grayable(refs[c])]
             T == (Kept \cap (Markable(Cells) \cap CellsIn(g))) \ IncomingBlack(g)
  <1>1. IncomingGray(g) = Closure(from, next)
    BY DEF IncomingGray
  <1>2. T \in SUBSET Cells
    BY DEF CellsIn
  <1>3. from \subseteq T
    <2>1. \A c \in bufferedGray : c \in MarkingCells => c \in Kept
      BY DEF GrayInv, Phases, DyingInv, Kept, MarkingCells, CellsIn
    <2>2. \A p \in incomingGray : p[2] \in Kept
      BY DEF GrayInv, HeapIsClosed
    <2> QED
      BY <2>1, <2>2 DEF Markable, CellsIn, MarkingCells
  <1>4. \A x \in T : next[x] \subseteq T
    BY DEF HeapIsClosed, Markable, CellsIn
  <1>5. IncomingGray(g) \subseteq T
    <2> HIDE DEF from, next, T
    <2>1. Closure(from, next) \subseteq T
      BY <1>2, <1>3, <1>4, ClosureIsLeast
    <2> QED
      BY <1>1, <2>1
  <1>6. from \subseteq IncomingGray(g)
    BY <1>1 DEF Closure
  <1>7. ASSUME NEW x \in IncomingGray(g)
        PROVE  grayable(refs[x]) \subseteq IncomingGray(g)
    <2>1. x \in Cells
      BY <1>2, <1>5
    <2>2. next[x] = grayable(refs[x])
      BY <2>1
    <2>3. next[x] \subseteq Cells
      BY <2>2 DEF Markable, CellsIn
    <2> HIDE DEF from, next
    <2>4. next[x] \subseteq Closure(from, next)
      BY <1>1, <2>3, ClosureIsClosed
    <2> QED
      BY <1>1, <2>2, <2>4
  <1>8. \A d \in CellsIn(g) :
          /\ d \in bufferedGray \/ \E s \in Cells : <<s, d>> \in incomingGray /\ mark[s] = "gray"
          /\ White(d) /\ ZoneOf(d) \in Marking
          => d \in IncomingBlack(g) \cup IncomingGray(g)
    BY <1>6 DEF Markable, CellsIn
  <1>9. \A x \in IncomingGray(g) : \A d \in Markable(refs[x]) \cap CellsIn(g) :
          d \in IncomingBlack(g) \cup IncomingGray(g)
    BY <1>7 DEF Markable
  <1> QED
    BY <1>5, <1>8, <1>9

\* The order of the groups is respected: from a zone that goes on marking, no edge
\* to a cell of the group g is left to follow, and none against the new order.
OrderIsKept(g) ==
  /\ \A x \in Kept : \A d \in refs[x] :
       ZoneOf(x) \in Marking \ g /\ ZoneOf(d) \in g => Safe(d)
  /\ \A x \in Kept : \A d \in Onward(x) :
       ZoneOf(x) \in Marking \ g => ZoneOf(d) \notin g /\ ~Against(x, d)'
  /\ \A x \in Kept : \A d \in refs[x] : Against(x, d)' => Safe(d)

\* Every safe cell of a group is marked when the marking of the group ends.
LEMMA SafeCellsGetMarked ==
  ASSUME IInv, HeapInv, Drained, NEW g \in SUBSET Marking, OrderIsKept(g)
  PROVE  /\ \A x \in Promised : x \in IncomingBlack(g) \cup IncomingGray(g)
                                  \/ ZoneOf(x) \in Marking \ g
         /\ \A d \in CellsIn(g) : Safe(d) => GroupMarks(g)[d] # "white"
  <1> USE DEF IInv, HeapInv
  <1> DEFINE B == IncomingBlack(g)
             G == IncomingGray(g)
             S == {x \in Promised : x \in B \cup G \/ ZoneOf(x) \in Marking \ g}
  <1>0. g \in SUBSET Zones /\ stack = {} /\ delayed = {}
    BY DEF Marking, Drained
  <1>1. S \in SUBSET Cells /\ Promised \subseteq Kept \cap MarkingCells
    BY PromisedIsKept DEF Kept, TypeOK
  <1>2. Markable(PutAside) \subseteq S
    <2> SUFFICES ASSUME NEW x \in Markable(PutAside), ZoneOf(x) \in g
                 PROVE  x \in B \cup G
      BY PromisedIsClosed DEF Markable
    <2>1. x \in CellsIn(g) /\ White(x) /\ ZoneOf(x) \in Marking
      BY <1>1, PromisedIsClosed DEF Markable, CellsIn, MarkingCells
    <2>2. x \in bufferedGray \/ \E p \in incomingGray : x = p[2]
      BY <1>0 DEF Markable, PutAside, Flagged, Awaited
    <2>3. CASE x \in bufferedGray
      BY <1>0, <2>1, <2>3, IncomingGrayIsClosed
    <2>4. CASE \E p \in incomingGray : x = p[2]
      <3>1. PICK p \in incomingGray : x = p[2]
        BY <2>4
      <3>2. p = <<p[1], x>> /\ p[1] \in Cells /\ mark[p[1]] \in {"gray", "black"}
        BY <3>1 DEF GrayInv, TypeOK, Colors
      <3>3. <<p[1], x>> \in incomingGray
        BY <3>1, <3>2
      <3> QED
        BY <1>0, <2>1, <3>2, <3>3, IncomingGrayIsClosed, IncomingBlackIsClosed
    <2> QED
      BY <2>2, <2>3, <2>4
  <1>3. ASSUME NEW x \in S
        PROVE  Onward(x) \subseteq S
    <2> SUFFICES ASSUME NEW d \in Onward(x)
                 PROVE  d \in B \cup G \/ ZoneOf(d) \in Marking \ g
      BY <1>1, PromisedIsClosed
    <2>1. d \in Markable(refs[x]) /\ d \in Cells /\ ZoneOf(d) \in Marking /\ x \in Kept
      BY <1>1 DEF Onward, Markable, TypeOK
    <2>2. CASE x \in B
      BY <1>0, <2>1, <2>2, IncomingBlackIsClosed
    <2>3. CASE x \in G
      BY <1>0, <2>1, <2>3, IncomingGrayIsClosed DEF CellsIn
    <2>4. CASE ZoneOf(x) \in Marking \ g
      BY <2>1, <2>4 DEF OrderIsKept
    <2> QED
      BY <2>2, <2>3, <2>4
  <1>4. Promised \subseteq S
    BY <1>0, <1>1, <1>2, <1>3, PromisedIsLeast
  <1>5. \A d \in CellsIn(g) : Safe(d) => GroupMarks(g)[d] # "white"
    BY <1>4 DEF Safe, GroupMarks, CellsIn
  <1> QED
    BY <1>4, <1>5

\* A safe cell whose zone goes on marking stays safe: it is marked from the gray
\* lists, or its gray wrapper goes on a list.
LEMMA SafeCellsStaySafe ==
  ASSUME IInv, HeapInv, IInv', Drained, NEW g \in SUBSET Marking, OrderIsKept(g),
         NEW before \in [Zones -> ZoneStates],
         {z \in Zones : before[z] = "Mark"} = Marking,
         MarkAndSweepGroup(g, before), UNCHANGED <<stack, delayed, bufferedGray>>
  PROVE  /\ \A c \in CellsIn(Marking \ g) : Safe(c) => Safe(c)'
         /\ \A c \in IncomingGray(g) : \A d \in refs[c] \cap CellsIn(Marking \ g) : Safe(d)'
  <1> USE DEF IInv, HeapInv
  <1> DEFINE B == IncomingBlack(g)
             G == IncomingGray(g)
             T == {x \in Promised : x \in B \cup G \/ x \in Promised'}
  <1>0. g \in SUBSET Zones /\ stack = {} /\ delayed = {}
    BY DEF Marking, Drained
  <1>1. T \in SUBSET Cells /\ Promised \subseteq Kept \cap MarkingCells /\ Kept \subseteq Cells
    BY PromisedIsKept DEF Kept, TypeOK
  <1>2. Marking' = Marking \ g
    BY GroupSweepEffect DEF Phases
  <1>3. /\ mark' = GroupMarks(g)
        /\ incomingGray' = {p \in incomingGray : ZoneOf(p[2]) \notin g} \cup DelayedGray(g)
        /\ \A c \in Cells : ZoneOf(c) \notin g => refs'[c] = refs[c]
    BY DEF MarkAndSweepGroup, Free, Unmarked, CellsIn
  <1>4. \A c \in Cells : mark'[c] = IF c \in B THEN "black" ELSE IF c \in G THEN "gray" ELSE mark[c]
    <2>1. \A c \in G : c \notin B
      BY <1>0, IncomingGrayIsClosed
    <2> QED
      BY <1>3, <2>1 DEF GroupMarks
  <1>5. /\ stack' \cup Markable(PutAside)' \subseteq Promised'
        /\ \A c \in Promised' \cap Cells : Onward(c)' \subseteq Promised'
    BY PromisedIsClosedNext
  <1>6. \A x \in Promised : x \in B \cup G \/ ZoneOf(x) \in Marking \ g
    BY SafeCellsGetMarked
  <1>7. ASSUME NEW x \in PutAside', x \in Cells, White(x), ZoneOf(x) \in Marking \ g, x \notin B \cup G
        PROVE  x \in Promised'
    <2>1. x \in Markable(PutAside)'
      BY <1>2, <1>4, <1>7 DEF Markable, White, ZoneOf
    <2> QED
      BY <1>5, <2>1
  <1>8. Markable(PutAside) \subseteq T
    <2> SUFFICES ASSUME NEW x \in Markable(PutAside), x \notin B \cup G
                 PROVE  x \in Promised'
      BY PromisedIsClosed
    <2>1. x \in Promised /\ x \in Cells /\ White(x) /\ ZoneOf(x) \in Marking \ g
      BY <1>1, <1>6, PromisedIsClosed DEF Markable
    <2>2. x \in PutAside'
      BY <1>0, <1>3, <2>1 DEF Markable, PutAside, Flagged, Awaited
    <2> QED
      BY <1>7, <2>1, <2>2
  <1>9. ASSUME NEW c \in G, NEW d \in Markable(refs[c]), ZoneOf(d) \notin g, d \notin B
        PROVE  d \in PutAside' /\ d \in Cells /\ White(d) /\ ZoneOf(d) \in Marking \ g
    <2>1. c \in Cells
      BY <1>0, <1>1, IncomingGrayIsClosed
    <2>2. d \in Cells /\ White(d) /\ ZoneOf(d) \in Marking \ g
      BY <1>9, <2>1 DEF Markable, TypeOK
    <2>3. <<c, d>> \in DelayedGray(g)
      BY <1>9, <2>2 DEF DelayedGray
    <2> QED
      BY <1>3, <2>2, <2>3 DEF PutAside, Awaited
  <1>10. ASSUME NEW x \in T
         PROVE  Onward(x) \subseteq T
    <2> SUFFICES ASSUME NEW d \in Onward(x), d \notin B \cup G
                 PROVE  d \in Promised'
      BY <1>1, PromisedIsClosed
    <2>1. d \in Promised /\ d \in Markable(refs[x]) /\ d \in Cells /\ White(d) /\ x \in Kept /\ x \in Cells
      BY <1>1, PromisedIsClosed DEF Onward, Markable, TypeOK
    <2>2. ZoneOf(d) \in Marking \ g
      BY <1>6, <2>1
    <2>3. CASE x \in B
      BY <1>0, <2>1, <2>3, IncomingBlackIsClosed
    <2>4. CASE x \in G
      BY <1>7, <1>9, <2>1, <2>2, <2>4
    <2>5. CASE x \notin B \cup G
      <3>1. x \in Promised' /\ ZoneOf(x) \in Marking \ g
        BY <1>6, <2>5
      <3>2. d \in refs'[x] /\ ~Against(x, d)'
        BY <1>3, <2>1, <3>1 DEF OrderIsKept, Markable
      <3>3. d \in Onward(x)'
        BY <1>2, <1>4, <2>1, <2>2, <3>2 DEF Onward, Markable, White, ZoneOf
      <3> QED
        BY <1>5, <2>1, <3>1, <3>3
    <2> QED
      BY <2>3, <2>4, <2>5
  <1>11. Promised \subseteq T
    BY <1>0, <1>1, <1>8, <1>10, PromisedIsLeast
  <1>12. ASSUME NEW c \in CellsIn(Marking \ g), Safe(c)
         PROVE  Safe(c)'
    BY <1>4, <1>11, <1>12 DEF Safe, CellsIn
  <1>13. ASSUME NEW c \in G, NEW d \in refs[c] \cap CellsIn(Marking \ g)
         PROVE  Safe(d)'
    <2>1. CASE mark[d] # "white" \/ d \in B
      BY <1>4, <2>1 DEF Safe, CellsIn
    <2>2. CASE mark[d] = "white" /\ d \notin B
      <3>1. d \in Markable(refs[c]) /\ ZoneOf(d) \notin g /\ d \notin G
        BY <1>0, <2>2, IncomingGrayIsClosed DEF Markable, White, CellsIn
      <3> QED
        BY <1>7, <1>9, <2>2, <3>1 DEF Safe
    <2> QED
      BY <2>1, <2>2
  <1> QED
    BY <1>12, <1>13

\* Sweeping a group frees or condemns only cells that nothing kept leads to.
LEMMA SweepGroupHeapInv ==
  ASSUME IInv, HeapInv, IInv', Drained, ~abortSweep, inSlice',
         NEW g \in SUBSET Marking, OrderIsKept(g),
         NEW before \in [Zones -> ZoneStates],
         {z \in Zones : before[z] = "Mark"} = Marking,
         MarkAndSweepGroup(g, before),
         UNCHANGED <<roots, grayRoots, stack, delayed, bufferedGray>>,
         \A c, d \in Cells : Against(c, d)' => ZoneOf(d) \in Marking'
  PROVE  HeapInv'
  <1> USE DEF IInv, HeapInv
  <1> DEFINE B == IncomingBlack(g)
             G == IncomingGray(g)
             U == Unmarked(g)
  <1>0. g \in SUBSET Zones /\ stack = {} /\ stack' = {}
    BY DEF Marking, Drained
  <1>1. /\ mark' = GroupMarks(g) /\ weak' = weak \ U
        /\ incomingGray' = {p \in incomingGray : ZoneOf(p[2]) \notin g} \cup DelayedGray(g)
        /\ dying' = dying \cup (U \ {c \in U : ArenaOf[c] \in ImmediateArenas})
        /\ allocated' = allocated \ {c \in U : ArenaOf[c] \in ImmediateArenas}
        /\ refs' = [c \in Cells |-> IF c \in {d \in U : ArenaOf[d] \in ImmediateArenas}
                                    THEN {} ELSE refs[c]]
    BY DEF MarkAndSweepGroup, Free, WeakSwept
  <1>2. Marking' = Marking \ g /\ MarkingCells' = CellsIn(Marking \ g)
    BY GroupSweepEffect DEF Phases, MarkingCells, CellsIn, ZoneOf
  <1>3. U = {c \in allocated \cap CellsIn(g) : mark'[c] = "white"}
    BY <1>1 DEF Unmarked
  <1>4. Kept \subseteq Cells /\ Kept' = Kept \ U /\ \A c \in CellsIn(g) : c \in allocated => c \in Kept
    BY <1>1, <1>3 DEF Kept, TypeOK, Phases, DyingInv, CellsIn
  <1>5. \A c \in Cells \ U : refs'[c] = refs[c]
    BY <1>1
  <1>6. \A c \in Cells : mark'[c] = IF c \in B THEN "black" ELSE IF c \in G THEN "gray" ELSE mark[c]
    <2>1. \A c \in G : c \notin B
      BY <1>0, IncomingGrayIsClosed
    <2> QED
      BY <1>1, <2>1 DEF GroupMarks
  <1>7. \A d \in CellsIn(g) : Safe(d) => d \notin U
    BY <1>1, <1>3, SafeCellsGetMarked
  <1>8. \A c \in CellsIn(Marking \ g) : Safe(c) => Safe(c)'
    BY SafeCellsStaySafe
  <1>9. CellsIn(g) \subseteq MarkingCells /\ CellsIn(Marking \ g) \subseteq MarkingCells
    BY DEF CellsIn, MarkingCells
  \* a kept cell that is marked, or lives elsewhere, leads to safe or marked cells
  <1>10. ASSUME NEW c \in Kept, c \in MarkingCells => mark'[c] # "white",
                NEW d \in refs[c]
         PROVE  d \notin U /\ (d \in CellsIn(Marking \ g) => Safe(d)')
    <2>1. d \in Cells
      BY <1>4 DEF TypeOK
    <2>2. CASE c \in MarkingCells => mark[c] # "white"
      <3>1. d \in MarkingCells => Safe(d)
        BY <2>2 DEF SnapshotIsSafe, EdgesAreSafe
      <3>2. d \in U => d \in CellsIn(g)
        BY <1>3
      <3> QED
        BY <1>7, <1>8, <1>9, <3>1, <3>2
    <2>3. CASE c \in B
      <3>1. d \in MarkingCells => mark'[d] # "white"
        <4>1. CASE mark[d] = "white" /\ d \in MarkingCells
          <5>1. d \in Markable(refs[c])
            BY <4>1 DEF Markable, White, MarkingCells, CellsIn
          <5> QED
            BY <1>0, <1>6, <2>1, <2>3, <5>1, IncomingBlackIsClosed
        <4>2. CASE mark[d] # "white"
          BY <1>6, <2>1, <4>2
        <4> QED
          BY <4>1, <4>2
      <3> QED
        BY <1>3, <1>9, <3>1 DEF Safe
    <2>4. CASE c \in G
      <3>1. d \in CellsIn(g) => mark'[d] # "white"
        <4>1. CASE mark[d] = "white" /\ d \in CellsIn(g)
          <5>1. d \in Markable(refs[c]) \cap CellsIn(g)
            BY <1>9, <4>1 DEF Markable, White, MarkingCells, CellsIn
          <5> QED
            BY <1>0, <1>6, <2>1, <2>4, <5>1, IncomingGrayIsClosed
        <4>2. CASE mark[d] # "white"
          BY <1>6, <2>1, <4>2
        <4> QED
          BY <4>1, <4>2
      <3> QED
        BY <1>3, <2>4, <3>1, SafeCellsStaySafe
    <2> QED
      BY <1>4, <1>6, <1>10, <2>2, <2>3, <2>4
  <1>11. HeapIsClosed'
    <2>1. ASSUME NEW c \in roots \cup grayRoots
          PROVE  c \in Kept /\ c \notin U
      <3>1. c \in MarkingCells => Safe(c)
        BY DEF SnapshotIsSafe, RootsAreSafe
      <3> QED
        BY <1>3, <1>7, <1>9, <3>1 DEF HeapIsClosed
    <2>2. ASSUME NEW c \in Kept \ U
          PROVE  refs'[c] \subseteq Kept \ U
      <3>1. refs'[c] = refs[c] /\ refs[c] \subseteq Kept
        BY <1>4, <1>5 DEF HeapIsClosed
      <3>2. CASE c \in MarkingCells => mark'[c] # "white"
        BY <1>10, <3>1, <3>2
      <3>3. CASE c \in MarkingCells /\ mark'[c] = "white"
        <4>1. ZoneOf(c) \in Marking \ g
          BY <1>3, <3>3 DEF MarkingCells, CellsIn, Kept
        <4>2. ASSUME NEW d \in refs[c], d \in U
              PROVE  FALSE
          <5>1. d \in CellsIn(g)
            BY <1>3, <4>2
          <5> QED
            BY <1>7, <4>1, <4>2, <5>1 DEF OrderIsKept, CellsIn
        <4> QED
          BY <3>1, <4>2
      <3> QED
        BY <3>2, <3>3
    <2> QED
      BY <1>1, <1>4, <2>1, <2>2 DEF HeapIsClosed
  <1>12. SnapshotIsSafe'
    <2>1. RootsAreSafe'
      BY <1>2, <1>8, <1>9 DEF SnapshotIsSafe, RootsAreSafe
    <2>2. EdgesAreSafe'
      <3> SUFFICES ASSUME NEW c \in Kept \ U, c \in CellsIn(Marking \ g) => mark'[c] # "white",
                          NEW d \in refs[c] \cap CellsIn(Marking \ g)
                   PROVE  Safe(d)'
        BY <1>2, <1>4, <1>5 DEF EdgesAreSafe
      <3>1. c \in MarkingCells => mark'[c] # "white"
        BY <1>3 DEF MarkingCells, CellsIn, Kept
      <3> QED
        BY <1>10, <3>1
    <2>3. GroupsAreSafe'
      <3> SUFFICES ASSUME NEW c \in Kept \ U, NEW d \in refs[c], Against(c, d)'
                   PROVE  Safe(d)'
        BY <1>4, <1>5 DEF GroupsAreSafe
      <3>1. Safe(d) /\ c \in Cells /\ d \in Cells
        BY <1>4 DEF OrderIsKept, TypeOK
      <3>2. d \in CellsIn(Marking \ g)
        BY <1>2, <3>1 DEF CellsIn
      <3> QED
        BY <1>8, <3>1, <3>2
    <2> QED
      BY <2>1, <2>2, <2>3 DEF SnapshotIsSafe
  <1>13. StackInv'
    BY <1>0 DEF StackInv
  <1>14. GrayInv'
    <2>1. bufferedGray' \cap MarkingCells' \subseteq allocated'
      BY <1>1, <1>2, <1>3, <1>9 DEF GrayInv, CellsIn
    <2>2. ASSUME NEW p \in incomingGray
          PROVE  p[1] \in Kept' \ MarkingCells' /\ mark'[p[1]] # "white" /\ p[2] \in refs'[p[1]]
      <3>1. p[1] \in Kept \ MarkingCells /\ mark[p[1]] # "white" /\ p[2] \in refs[p[1]]
        BY DEF GrayInv
      <3>2. p[1] \notin U /\ p[1] \in Cells
        BY <1>3, <1>4, <1>9, <3>1
      <3> QED
        BY <1>2, <1>4, <1>5, <1>6, <1>9, <3>1, <3>2
    <2>3. ASSUME NEW p \in DelayedGray(g)
          PROVE  p[1] \in Kept' \ MarkingCells' /\ mark'[p[1]] # "white" /\ p[2] \in refs'[p[1]]
      <3>1. p[1] \in G /\ p[2] \in refs[p[1]]
        BY DEF DelayedGray, Markable
      <3>2. p[1] \in Kept /\ p[1] \in CellsIn(g) /\ p[1] \in Cells
        BY <1>0, <1>4, <3>1, IncomingGrayIsClosed
      <3>3. mark'[p[1]] # "white" /\ p[1] \notin U
        BY <1>3, <1>6, <3>1, <3>2
      <3> QED
        BY <1>2, <1>4, <1>5, <3>1, <3>2, <3>3 DEF CellsIn
    <2> QED
      BY <1>1, <2>1, <2>2, <2>3 DEF GrayInv
  <1>15. FreeListInv'
    BY DEF FreeListInv
  <1> QED
    BY <1>11, <1>12, <1>13, <1>14, <1>15

\* When the groups are formed, a cell of a later group points into an earlier one
\* only to cells that are black.
LEMMA GroupingOrder ==
  ASSUME IInv, NEW gs \in ZoneGroupings,
         NEW i \in 1 .. Len(gs), NEW j \in 1 .. Len(gs), i < j,
         NEW c \in allocated, ZoneOf(c) \in gs[j], NEW d \in refs[c], ZoneOf(d) \in gs[i]
  PROVE  mark[d] = "black"
  <1> SUFFICES ASSUME mark[d] # "black"
               PROVE  FALSE
    OBVIOUS
  <1>1. gs \in Seq(SUBSET Marking) /\ gs[i] \cap gs[j] = {}
    BY GroupingPartitions
  <1>2. ZoneOf(c) \in Marking /\ ZoneOf(d) \in Marking /\ ZoneOf(c) # ZoneOf(d)
    BY <1>1
  <1>3. IsZoneGrouping(gs)
    BY DEF ZoneGroupings
  <1>4. CASE unlimited
    <2>1. Len(gs) = 1
      BY <1>3, <1>4 DEF IsZoneGrouping
    <2> QED
      BY <2>1
  <1>5. CASE ~unlimited
    <2>1. ZoneOf(d) \notin ZonesFrom(ZoneOf(c))
      BY <1>3, <1>5 DEF IsZoneGrouping
    <2>2. ZoneOf(d) \in ZoneEdges[ZoneOf(c)]
      BY <1>2 DEF ZoneEdges, Marking
    <2> QED
      BY <1>2, <2>1, <2>2 DEF ZonesFrom
  <1> QED
    BY <1>4, <1>5

\* The group that sweeping turns to still marks.
LEMMA NextGroupMarks ==
  ASSUME IInv, BeginSweepPhase \/ NextZoneGroup
  PROVE  zoneGroups'[1] \in SUBSET Marking
  <1>1. CASE BeginSweepPhase
    <2>1. PICK gs \in ZoneGroupings : zoneGroups' = gs
      BY <1>1 DEF BeginSweepPhase
    <2>2. gs \in Seq(SUBSET Marking) /\ gs # <<>>
      BY GroupingPartitions DEF IInv
    <2> QED
      BY <2>1, <2>2
  <1>2. CASE NextZoneGroup
    <2>1. /\ Len(zoneGroups) > 1 /\ zoneGroups \in Seq(SUBSET Zones) /\ Marking = LaterGroups
          /\ zoneGroups' = IF unlimited THEN <<LaterGroups>> ELSE Tail(zoneGroups)
      BY <1>2 DEF NextZoneGroup, GroupSwept, Sweeping, LaterGroups, IInv, Phases, GroupPhase, TypeOK
    <2>2. CASE unlimited
      BY <2>1, <2>2
    <2>3. CASE ~unlimited
      <3>1. Tail(zoneGroups)[1] = zoneGroups[2] /\ 2 \in 2 .. Len(zoneGroups)
        BY <2>1
      <3> QED
        BY <2>1, <2>3, <3>1 DEF LaterGroups
    <2> QED
      BY <2>2, <2>3
  <1> QED
    BY <1>1, <1>2

\* The order of the groups: an edge to the group g from a zone that goes on
\* marking, or one against the order of the groups that remain, leads to a cell
\* that is black or was against the order before.
LEMMA GroupOrder ==
  ASSUME IInv, BeginSweepPhase \/ NextZoneGroup
  PROVE  \A x \in Kept : \A d \in refs[x] :
           \/ ZoneOf(x) \in Marking \ zoneGroups'[1] /\ ZoneOf(d) \in zoneGroups'[1]
           \/ Against(x, d)'
           => mark[d] = "black" \/ Against(x, d)
  <1> USE DEF IInv
  <1> DEFINE g == zoneGroups'[1]
  <1>1. CASE BeginSweepPhase
    <2>1. PICK gs \in ZoneGroupings : zoneGroups' = gs
      BY <1>1 DEF BeginSweepPhase
    <2>2. gs \in Seq(SUBSET Marking) /\ gs # <<>> /\ UNION {gs[i] : i \in 1 .. Len(gs)} = Marking
      BY GroupingPartitions
    <2>3. 1 \in 1 .. Len(gs)
      BY <2>2
    <2>4. ASSUME NEW x \in Kept, NEW d \in refs[x], ZoneOf(x) \in Marking \ gs[1], ZoneOf(d) \in gs[1]
          PROVE  mark[d] = "black"
      <3>1. PICK j \in 1 .. Len(gs) : ZoneOf(x) \in gs[j]
        BY <2>2, <2>4
      <3>2. 1 < j
        BY <2>4, <3>1
      <3> QED
        BY <2>3, <2>4, <3>1, <3>2, GroupingOrder DEF Kept
    <2>5. ASSUME NEW x \in Kept, NEW d \in refs[x], Against(x, d)'
          PROVE  mark[d] = "black"
      <3>1. PICK i, j \in 2 .. Len(gs) : i < j /\ ZoneOf(x) \in gs[j] /\ ZoneOf(d) \in gs[i]
        BY <2>1, <2>5 DEF Against, ZoneOf
      <3>2. i \in 1 .. Len(gs) /\ j \in 1 .. Len(gs)
        BY <2>2
      <3> QED
        BY <2>5, <3>1, <3>2, GroupingOrder DEF Kept
    <2> QED
      BY <2>1, <2>4, <2>5
  <1>2. CASE NextZoneGroup
    <2>1. /\ zoneGroups \in Seq(SUBSET Zones) /\ Marking = LaterGroups /\ Len(zoneGroups) > 1
          /\ zoneGroups' = IF unlimited THEN <<LaterGroups>> ELSE Tail(zoneGroups)
      BY <1>2 DEF NextZoneGroup, GroupSwept, Sweeping, LaterGroups, Phases, GroupPhase, TypeOK
    <2>2. CASE unlimited
      <3>1. g = Marking /\ Len(zoneGroups') = 1
        BY <2>1, <2>2
      <3> QED
        BY <3>1 DEF Against
    <2>3. CASE ~unlimited
      <3>1. /\ Len(zoneGroups) \in Nat /\ Len(zoneGroups') = Len(zoneGroups) - 1
            /\ \A i \in 1 .. Len(zoneGroups') : zoneGroups'[i] = zoneGroups[i + 1]
        BY <2>1, <2>3
      <3>2. g = zoneGroups[2] /\ 2 \in 2 .. Len(zoneGroups)
        <4>1. 1 \in 1 .. Len(zoneGroups')
          BY <2>1, <3>1
        <4>2. zoneGroups'[1] = zoneGroups[1 + 1]
          BY <3>1, <4>1
        <4> QED
          BY <2>1, <3>1, <4>2
      <3>3. ASSUME NEW x, NEW d, ZoneOf(x) \in Marking \ g, ZoneOf(d) \in g
            PROVE  Against(x, d)
        <4>1. PICK j \in 2 .. Len(zoneGroups) : ZoneOf(x) \in zoneGroups[j]
          BY <2>1, <3>3 DEF LaterGroups
        <4>2. 2 < j
          BY <3>1, <3>2, <3>3, <4>1
        <4> QED
          BY <3>2, <3>3, <4>1, <4>2 DEF Against
      <3>4. ASSUME NEW x, NEW d, Against(x, d)'
            PROVE  Against(x, d)
        <4>1. PICK i, j \in 2 .. Len(zoneGroups') :
                i < j /\ ZoneOf(x) \in zoneGroups'[j] /\ ZoneOf(d) \in zoneGroups'[i]
          BY <3>4 DEF Against, ZoneOf
        <4>2. /\ i + 1 \in 2 .. Len(zoneGroups) /\ j + 1 \in 2 .. Len(zoneGroups) /\ i + 1 < j + 1
              /\ i \in 1 .. Len(zoneGroups') /\ j \in 1 .. Len(zoneGroups')
          BY <3>1, <3>2, <4>1
        <4>3. ZoneOf(x) \in zoneGroups[j + 1] /\ ZoneOf(d) \in zoneGroups[i + 1]
          BY <3>1, <4>1, <4>2
        <4> QED
          BY <4>2, <4>3 DEF Against
      <3> QED
        BY <3>3, <3>4
    <2> QED
      BY <2>2, <2>3
  <1> QED
    BY <1>1, <1>2

LEMMA SweepHeapInv ==
  ASSUME IInv, HeapInv, IInv', BeginSweepPhase \/ NextZoneGroup
  PROVE  HeapInv'
  <1> USE DEF IInv, HeapInv
  <1> DEFINE g == zoneGroups'[1]
  <1>1. /\ Drained /\ ~abortSweep /\ inSlice' /\ incrementalState' = "SWEEP"
        /\ UNCHANGED <<roots, grayRoots, stack, delayed, bufferedGray>>
    BY DEF BeginSweepPhase, NextZoneGroup, GroupSwept, Sweeping, Phases, GroupPhase
  <1>2. PICK before \in [Zones -> ZoneStates] :
          {z \in Zones : before[z] = "Mark"} = Marking /\ MarkAndSweepGroup(g, before)
    <2>1. CASE BeginSweepPhase
      BY <2>1 DEF BeginSweepPhase, Marking, TypeOK
    <2>2. CASE NextZoneGroup
      BY <2>2, HeadIsSwept DEF NextZoneGroup, GroupSwept, Sweeping
    <2> QED
      BY <2>1, <2>2
  <1>3. g \in SUBSET Marking
    BY NextGroupMarks
  <1>4. \A c, d \in Cells : Against(c, d)' => ZoneOf(d) \in Marking'
    <2>1. Marking' = LaterGroups'
      BY <1>1 DEF Phases, GroupPhase
    <2> QED
      BY <2>1 DEF Against, LaterGroups, ZoneOf
  <1>5. OrderIsKept(g)
    <2>1. \A x \in Kept : \A d \in refs[x] :
            \/ ZoneOf(x) \in Marking \ g /\ ZoneOf(d) \in g
            \/ Against(x, d)'
            => mark[d] = "black" \/ Against(x, d)
      BY GroupOrder
    <2>2. \A x \in Kept : \A d \in refs[x] : Against(x, d) => Safe(d)
      BY <1>1 DEF SnapshotIsSafe, GroupsAreSafe
    <2>3. \A x : \A d \in Onward(x) : d \in refs[x] /\ mark[d] # "black" /\ ~Against(x, d)
      BY DEF Onward, Markable, White
    <2> QED
      BY <2>1, <2>2, <2>3 DEF OrderIsKept, Safe
  <1> QED
    BY <1>1, <1>2, <1>3, <1>4, <1>5, SweepGroupHeapInv

\* The program starts out with a closed heap and nothing to mark.
LEMMA InitHeapInv == Init => HeapInv
  <1> SUFFICES ASSUME Init
               PROVE  HeapInv
    OBVIOUS
  <1>1. PICK h \in Heaps : /\ allocated = h.allocated
                           /\ refs = h.refs
                           /\ roots = h.roots
                           /\ grayRoots = h.grayRoots
                           /\ weak = h.weak
    BY DEF Init
  <1>2. /\ dying = {} /\ stack = {} /\ incomingGray = {} /\ bufferedGray = {} /\ zoneGroups = <<>>
        /\ gcState = [z \in Zones |-> "NoGC"]
    BY DEF Init
  <1>3. Marking = {} /\ MarkingCells = {}
    BY <1>2 DEF Marking, MarkingCells, CellsIn
  <1>4. /\ allocated \subseteq Cells /\ refs \in [Cells -> SUBSET allocated]
        /\ roots \cup grayRoots \cup weak \subseteq allocated
    BY <1>1, HeapsAreValid
  <1>5. HeapIsClosed
    BY <1>2, <1>4 DEF HeapIsClosed, Kept
  <1>6. \A c, d : ~Against(c, d)
    BY <1>2 DEF Against
  <1> QED
    BY <1>2, <1>3, <1>5, <1>6 DEF HeapInv, SnapshotIsSafe, RootsAreSafe, EdgesAreSafe,
       GroupsAreSafe, StackInv, GrayInv, FreeListInv

\* A step that changes nothing keeps the invariant.
LEMMA StutterHeapInv == HeapInv /\ UNCHANGED vars => HeapInv'
  BY DEF HeapInv, HeapIsClosed, SnapshotIsSafe, RootsAreSafe, EdgesAreSafe, GroupsAreSafe,
         StackInv, GrayInv, FreeListInv, Kept, MarkingCells, CellsIn, ZoneOf, Marking, Against,
         Safe, Promised, PutAside, Flagged, Awaited, Onward, Markable, White,
         vars, heapVars, markVars, zoneVars, sliceVars

\* Every step keeps the invariant.
LEMMA StepHeapInv == IInv /\ IInv' /\ HeapInv /\ [Next]_vars => HeapInv'
  <1> SUFFICES ASSUME IInv, IInv', HeapInv, [Next]_vars
               PROVE  HeapInv'
    OBVIOUS
  <1>0. TypeOK'
    BY DEF IInv
  <1>1. CASE Mutator
    BY <1>0, <1>1, MutatorHeapInv
  <1>2. CASE \E zs \in Schedules : BeginMarkPhase(zs)
    BY <1>0, <1>2, BeginMarkHeapInv
  <1>3. CASE Slice
    <2>1. CASE \E c \in Cells : MarkCell(c) \/ FinalizeForeground(c)
      BY <1>0, <2>1, MarkCellHeapInv, FinalizeHeapInv
    <2>2. CASE \E a \in Arenas : MarkDelayedArena(a)
      BY <1>0, <2>2, MarkArenaHeapInv
    <2>3. CASE BeginSweepPhase \/ NextZoneGroup
      BY <2>3, SweepHeapInv
    <2>4. CASE EndSweepPhase \/ FinishCollection
      BY <2>4, EndHeapInv
    <2>5. CASE StartSlice
      BY <1>0, <2>5, SliceBoundaryHeapInv
    <2> QED
      BY <1>3, <2>1, <2>2, <2>3, <2>4, <2>5 DEF Slice
  <1>4. CASE Yield
    BY <1>0, <1>4, SliceBoundaryHeapInv
  <1>5. CASE Background
    BY <1>0, <1>5, FinalizeHeapInv DEF Background
  <1>6. CASE ResetMarking \/ ResetSweeping
    BY <1>6, EndHeapInv, ResetSweepingHeapInv
  <1>7. CASE UNCHANGED vars
    BY <1>7, StutterHeapInv
  <1> QED
    BY <1>1, <1>2, <1>3, <1>4, <1>5, <1>6, <1>7 DEF Next

\* The invariant holds in every state of every behaviour.
LEMMA HeapIsSafe == Spec => [](IInv /\ HeapInv)
  <1>1. Init => IInv /\ HeapInv
    BY InitIInv, InitHeapInv
  <1>2. IInv /\ HeapInv /\ [Next]_vars => (IInv /\ HeapInv)'
    BY StepIInv, StepHeapInv
  <1> QED
    BY <1>1, <1>2, PTL DEF Spec

-----------------------------------------------------------------------------
(* Theorems                                                                  *)

\* Whatever the program, the embedding and the background thread do between the
\* slices, no cell that can be reached is ever freed or queued to be freed.
THEOREM LiveCellsAreAlwaysKept == Spec => []LiveCellsAreKept
  <1>1. HeapInv /\ IInv => LiveCellsAreKept
    <2> SUFFICES ASSUME HeapInv, IInv
                 PROVE  Live \subseteq Kept
      BY DEF LiveCellsAreKept, Kept
    <2>1. Kept \in SUBSET Cells /\ roots \cup grayRoots \subseteq Kept
          /\ \A c \in Kept : refs[c] \subseteq Kept
      BY DEF HeapInv, HeapIsClosed, IInv, TypeOK, Kept
    <2> QED
      BY <2>1, ClosureIsLeast DEF Live
  <1> QED
    BY <1>1, HeapIsSafe, PTL

\* A weak reference never names a cell that is freed or found dead: reading one
\* brings no dead cell back.
THEOREM WeakReferencesAreAlwaysClean == Spec => []WeakReferencesAreClean
  <1>1. HeapInv => WeakReferencesAreClean
    BY DEF HeapInv, HeapIsClosed, WeakReferencesAreClean, Kept
  <1> QED
    BY <1>1, HeapIsSafe, PTL

\* A wrapper is on a gray list only as long as that makes sense: it still has
\* its referent, whose zone still has to be marked in gray.
THEOREM GrayListsAreAlwaysCurrent == Spec => []GrayListsAreCurrent
  <1>1. HeapInv /\ IInv => GrayListsAreCurrent
    BY DEF HeapInv, GrayInv, IInv, Phases, GrayListInv, GrayListsAreCurrent, Marking
  <1> QED
    BY <1>1, HeapIsSafe, PTL

-----------------------------------------------------------------------------
(* The collector implements the abstract heap                                *)

\* The program starts on an abstract heap.
LEMMA InitRefines == Init => AbstractHeap!HeapInit
  <1> SUFFICES ASSUME Init
               PROVE  AbstractHeap!HeapInit
    OBVIOUS
  <1>1. PICK h \in Heaps : /\ allocated = h.allocated
                           /\ refs = h.refs
                           /\ roots = h.roots
                           /\ grayRoots = h.grayRoots
                           /\ weak = h.weak
    BY DEF Init
  <1>2. /\ allocated \in SUBSET Cells /\ refs \in [Cells -> SUBSET allocated]
        /\ roots \in SUBSET allocated /\ grayRoots \in SUBSET allocated /\ weak \in SUBSET allocated
    BY <1>1, HeapsAreValid
  <1> QED
    BY <1>2 DEF AbstractHeap!HeapInit

\* A step of the program is a step of the program on the abstract heap.
LEMMA MutatorRefines ==
  ASSUME TypeOK, Mutator
  PROVE  AbstractHeap!HeapNext
  <1>1. ASSUME NEW c \in Cells, Allocate(c)
        PROVE  AbstractHeap!NewCell
    BY <1>1 DEF Allocate, AbstractHeap!NewCell
  <1>2. ASSUME NEW c \in Cells, NEW old, NEW new, WriteRef(c, old, new)
        PROVE  AbstractHeap!Store
    <2>1. /\ c \in roots /\ new \subseteq roots /\ refs' = [refs EXCEPT ![c] = (refs[c] \ old) \cup new]
          /\ UNCHANGED <<allocated, roots, grayRoots, weak>>
      BY <1>2 DEF WriteRef
    <2>2. (refs[c] \ old) \cup new \in SUBSET Cells
      BY <2>1 DEF TypeOK
    <2> QED
      BY <2>1, <2>2 DEF AbstractHeap!Store
  <1>3. ASSUME NEW c \in Cells, \/ DropRoot(c) \/ Expose(c)
                                \/ \E b \in Cells : LoadRef(b, c)
        PROVE  AbstractHeap!Hold
    <2>1. /\ UNCHANGED <<allocated, refs, grayRoots, weak>>
          /\ \/ roots' = roots \ {c}
             \/ roots' = roots \cup {c}
                /\ (c \in weak \cup grayRoots \/ \E b \in roots : c \in refs[b])
      BY <1>3 DEF DropRoot, Expose, LoadRef
    <2>2. roots' \subseteq roots \cup grayRoots \cup weak \cup UNION {refs[b] : b \in roots}
      BY <2>1
    <2> QED
      BY <2>1, <2>2 DEF AbstractHeap!Hold
  <1>4. ASSUME NEW c \in Cells, HoldOutside(c) \/ ReleaseOutside(c)
        PROVE  AbstractHeap!HoldOutside
    <2>1. /\ UNCHANGED <<allocated, refs, roots>>
          /\ grayRoots' \subseteq grayRoots \cup roots /\ weak' \subseteq weak \cup roots
      BY <1>4 DEF HoldOutside, ReleaseOutside
    <2> QED
      BY <2>1 DEF AbstractHeap!HoldOutside
  <1> QED
    BY <1>1, <1>2, <1>3, <1>4 DEF Mutator, AbstractHeap!HeapNext

\* Freeing cells and clearing weak references, of cells found dead only, reclaims.
LEMMA FreeingReclaims ==
  ASSUME IInv, HeapInv, HeapInv', Kept' \subseteq Kept, NEW S \in SUBSET allocated, Free(S),
         weak \cap Kept' \subseteq weak', weak' \subseteq weak,
         S \cap Kept' = {}, UNCHANGED <<roots, grayRoots>>
  PROVE  AbstractHeap!Reclaim
  <1>1. /\ allocated' = allocated \ S /\ allocated \ allocated' = S
        /\ refs' = [c \in Cells |-> IF c \in S THEN {} ELSE refs[c]]
    BY DEF Free
  <1>2. Kept' \in SUBSET Cells /\ \A c \in Kept' : refs[c] \subseteq Kept'
    BY <1>1 DEF HeapInv, HeapIsClosed, IInv, TypeOK, Kept
  <1>3. roots \cup grayRoots \subseteq Kept'
    BY DEF HeapInv, HeapIsClosed
  <1>4. AbstractHeap!Live \subseteq Kept'
    BY <1>2, <1>3, ClosureIsLeast DEF AbstractHeap!Live, AbstractHeap!Closure, Closure
  <1>5. weak' \subseteq allocated'
    BY DEF HeapInv, HeapIsClosed, Kept
  <1> QED
    BY <1>1, <1>4, <1>5 DEF AbstractHeap!Reclaim

\* Every step of the collector reclaims, or changes nothing of the heap.
LEMMA CollectorRefines ==
  ASSUME IInv, IInv', HeapInv, HeapInv',
         \/ \E zs \in Schedules : BeginMarkPhase(zs)
         \/ Slice \/ Yield \/ Background \/ ResetMarking \/ ResetSweeping
         \/ UNCHANGED vars
  PROVE  AbstractHeap!HeapNext \/ UNCHANGED AbstractHeap!heapVars
  <1> USE DEF IInv
  <1>1. CASE \/ \E zs \in Schedules : BeginMarkPhase(zs)
             \/ \E c \in Cells : MarkCell(c)
             \/ \E a \in Arenas : MarkDelayedArena(a)
             \/ EndSweepPhase \/ FinishCollection \/ StartSlice \/ Yield
             \/ ResetMarking \/ ResetSweeping \/ UNCHANGED vars
    <2>1. UNCHANGED heapVars
      BY <1>1 DEF BeginMarkPhase, MarkCell, MarkDelayedArena, EndSweepPhase, FinishCollection,
                  StartSlice, Yield, ResetMarking, ResetSweeping, vars
    <2> QED
      BY <2>1 DEF heapVars, AbstractHeap!heapVars
  <1>2. ASSUME NEW c \in Cells, FinalizeForeground(c) \/ FinalizeInBackground(c)
        PROVE  AbstractHeap!Reclaim
    <2>1. /\ c \in dying /\ Free({c}) /\ dying' = dying \ {c}
          /\ UNCHANGED <<roots, grayRoots, weak>>
      BY <1>2 DEF FinalizeForeground, FinalizeInBackground
    <2>2. c \in allocated /\ Kept' = Kept /\ c \notin Kept
      BY <2>1 DEF Kept, Free, TypeOK
    <2> QED
      BY <2>1, <2>2, FreeingReclaims
  <1>3. ASSUME NEW g \in SUBSET Zones, NEW before, MarkAndSweepGroup(g, before),
               UNCHANGED <<roots, grayRoots>>
        PROVE  AbstractHeap!Reclaim
    <2> DEFINE S == {c \in Unmarked(g) : ArenaOf[c] \in ImmediateArenas}
    <2>1. weak' = weak \ Unmarked(g) /\ dying' = dying \cup (Unmarked(g) \ S) /\ Free(S)
      BY <1>3 DEF MarkAndSweepGroup, WeakSwept
    <2>2. S \in SUBSET allocated /\ Unmarked(g) \subseteq allocated
      BY DEF Unmarked
    <2>3. allocated' = allocated \ S
      BY <2>1 DEF Free
    <2>4. Kept' = Kept \ Unmarked(g) /\ S \subseteq Unmarked(g)
      BY <2>1, <2>3 DEF Kept
    <2> QED
      BY <1>3, <2>1, <2>2, <2>4, FreeingReclaims
  <1>4. CASE BeginSweepPhase \/ NextZoneGroup
    <2>1. UNCHANGED <<roots, grayRoots>>
      BY <1>4 DEF BeginSweepPhase, NextZoneGroup
    <2>2. CASE BeginSweepPhase
      <3>1. PICK gs \in ZoneGroupings : MarkAndSweepGroup(gs[1], gcState)
        BY <2>2 DEF BeginSweepPhase
      <3>2. gs[1] \in SUBSET Zones
        <4>1. gs \in Seq(SUBSET Marking) /\ gs # <<>>
          BY GroupingPartitions
        <4>2. gs[1] \in SUBSET Marking
          BY <4>1
        <4> QED
          BY <4>2 DEF Marking
      <3> QED
        BY <1>3, <2>1, <3>1, <3>2 DEF AbstractHeap!HeapNext
    <2>3. CASE NextZoneGroup
      <3>1. MarkAndSweepGroup(zoneGroups'[1], FinishedGroup) /\ zoneGroups' # <<>>
        BY <2>3 DEF NextZoneGroup, GroupSwept, Sweeping, Phases, GroupPhase
      <3>2. zoneGroups'[1] \in SUBSET Zones
        BY <3>1 DEF TypeOK
      <3> QED
        BY <1>3, <2>1, <3>1, <3>2 DEF AbstractHeap!HeapNext
    <2> QED
      BY <1>4, <2>2, <2>3
  <1> QED
    BY <1>1, <1>2, <1>4 DEF Slice, Background, AbstractHeap!HeapNext

\* The program sees the abstract heap: a graph that only the program changes,
\* from which dead cells disappear, their weak references first.
THEOREM HeapIsRefined == Spec => RefinesHeap
  <1>1. IInv /\ HeapInv /\ (IInv /\ HeapInv)' /\ [Next]_vars
        => [AbstractHeap!HeapNext]_AbstractHeap!heapVars
    BY MutatorRefines, CollectorRefines DEF Next, IInv
  <1> QED
    BY <1>1, InitRefines, HeapIsSafe, PTL DEF Spec, RefinesHeap, AbstractHeap!HeapSpec
-----------------------------------------------------------------------------
(* The colours.  What the cycle collector may unlink is what is gray, so that *)
(* a cell must not be gray when something that is not gray leads to it.  The  *)
(* invariant is that of the snapshot again, with black in the place of marked.*)

\* The zones whose gray bits can be relied on.  When collections are of all zones
\* the bits of a zone hold until it is marked anew, otherwise only until the
\* collection in progress ends.
Exact ==
  IF Schedules \subseteq {Zones} THEN Zones \ Marking
                                 ELSE {z \in Zones : gcState[z] \in {"Sweep", "Finished"}}
ExactCells == CellsIn(Exact)

\* What is left to mark black: it starts from the mark stack, the flagged arenas
\* and the wrappers on a gray list that have turned black.
BlackAside ==
  Flagged \cup {d \in Cells : \E s \in Cells : <<s, d>> \in incomingGray /\ mark[s] = "black"}
BlackPromised == Closure(stack \cup Markable(BlackAside), [c \in Cells |-> Onward(c)])

\* A cell of a marking zone that is black, or will be before its group is swept.
Firm(c) == mark[c] = "black" \/ c \in BlackPromised

\* A cell that nothing forbids to lead to black cells only: it has been marked
\* black, or lives in a zone that has its gray bits and is not gray, or elsewhere.
Seen(c) ==
  /\ c \in MarkingCells => mark[c] = "black"
  /\ c \in ExactCells => mark[c] # "gray"

\* In the zones that mark, what the program holds will be black, and so will what
\* a cell that has been seen points to, or a cell of a later group; a gray cell
\* of a group that was swept waits on a gray list, or its referent will be black.
RootsAreFirm == \A c \in roots \cap MarkingCells : Firm(c)
EdgesAreFirm == \A c \in Kept : Seen(c) => \A d \in refs[c] \cap MarkingCells : Firm(d)
GroupsAreFirm == \A c \in Kept : \A d \in refs[c] : Against(c, d) => Firm(d)
GrayEdgesWait ==
  \A c \in Kept \cap ExactCells : mark[c] = "gray" =>
    \A d \in refs[c] \cap MarkingCells : <<c, d>> \in incomingGray \/ Firm(d)
BlackSnapshot == ~abortSweep => RootsAreFirm /\ EdgesAreFirm /\ GroupsAreFirm /\ GrayEdgesWait

\* In the zones whose gray bits hold, neither what the program has is gray nor
\* what a cell that is not gray points to.
NoGrayYet == \A c \in Cells : c \in MarkingCells \/ c \notin Kept => mark[c] # "gray"
RootsNotGray == \A c \in roots \cap ExactCells : mark[c] # "gray"
EdgesNotGray ==
  \A c \in Kept : c \in MarkingCells \/ Seen(c) => \A d \in refs[c] \cap ExactCells : mark[d] # "gray"

\* The zones that are being swept are those of the current group, and a
\* collection of all zones leaves none out.
SweptZones ==
  {z \in Zones : gcState[z] = "Sweep"} = IF incrementalState = "SWEEP" THEN zoneGroups[1] ELSE {}
AllCollected ==
  Schedules \subseteq {Zones} /\ incrementalState \in {"MARK", "SWEEP"} =>
    \A z \in Zones : gcState[z] # "NoGC"

Colours == BlackSnapshot /\ NoGrayYet /\ RootsNotGray /\ EdgesNotGray
ZoneInv == SweptZones /\ AllCollected
ColourInv == Colours /\ ZoneInv

LEMMA BlackPromisedIsClosed ==
  ASSUME TypeOK
  PROVE  /\ stack \cup Markable(BlackAside) \subseteq BlackPromised
         /\ \A c \in BlackPromised \cap Cells : Onward(c) \subseteq BlackPromised
  <1>1. stack \cup Markable(BlackAside) \subseteq BlackPromised
    BY DEF BlackPromised, Closure
  <1>2. ASSUME NEW c \in BlackPromised \cap Cells
        PROVE  Onward(c) \subseteq BlackPromised
    <2>1. [d \in Cells |-> Onward(d)][c] = Onward(c)
      OBVIOUS
    <2>2. Onward(c) \subseteq Cells
      BY DEF Onward, Markable, TypeOK
    <2> QED
      BY <2>1, <2>2, ClosureIsClosed DEF BlackPromised
  <1> QED
    BY <1>1, <1>2

LEMMA BlackPromisedIsLeast ==
  ASSUME NEW S \in SUBSET Cells, stack \cup Markable(BlackAside) \subseteq S,
         \A c \in S : Onward(c) \subseteq S
  PROVE  BlackPromised \subseteq S
  <1>1. \A c \in S : [d \in Cells |-> Onward(d)][c] \subseteq S
    OBVIOUS
  <1> QED
    BY <1>1, ClosureIsLeast DEF BlackPromised

\* The same of the state after a step.
LEMMA BlackPromisedIsClosedNext ==
  ASSUME TypeOK'
  PROVE  /\ stack' \cup Markable(BlackAside)' \subseteq BlackPromised'
         /\ \A c \in BlackPromised' \cap Cells : Onward(c)' \subseteq BlackPromised'
  <1>1. stack' \cup Markable(BlackAside)' \subseteq BlackPromised'
    BY DEF BlackPromised, Closure
  <1>2. ASSUME NEW c \in BlackPromised' \cap Cells
        PROVE  Onward(c)' \subseteq BlackPromised'
    <2>1. [d \in Cells |-> Onward(d)'][c] = Onward(c)'
      OBVIOUS
    <2>2. Onward(c)' \subseteq Cells
      BY DEF Onward, Markable, TypeOK
    <2> QED
      BY <2>1, <2>2, ClosureIsClosed DEF BlackPromised
  <1> QED
    BY <1>1, <1>2

\* What will be black is among what will be marked.
LEMMA BlackPromisedIsKept ==
  ASSUME IInv, HeapInv
  PROVE  BlackPromised \subseteq Kept \cap MarkingCells /\ BlackPromised \subseteq Cells
  <1> USE DEF IInv
  <1>1. Promised \subseteq Kept \cap MarkingCells /\ Promised \in SUBSET Cells
    BY PromisedIsKept DEF Kept, TypeOK
  <1>2. stack \cup Markable(BlackAside) \subseteq Promised
    <2>1. ASSUME NEW d \in Cells, NEW s \in Cells, <<s, d>> \in incomingGray
          PROVE  d \in Awaited
      <3>1. <<s, d>>[2] = d
        OBVIOUS
      <3> QED
        BY <2>1, <3>1 DEF Awaited
    <2>2. BlackAside \subseteq PutAside
      BY <2>1 DEF BlackAside, PutAside
    <2> QED
      BY <2>2, PromisedIsClosed DEF Markable
  <1>3. \A c \in Promised : Onward(c) \subseteq Promised
    BY <1>1, PromisedIsClosed
  <1> QED
    BY <1>1, <1>2, <1>3, BlackPromisedIsLeast

\* As KeepsPromises: newly marked cells are pushed, a cell is popped only when it
\* is black and what it leads to has been marked, and an edge or a reason to mark
\* a cell black goes away only when that cell has been marked.
KeepsBlackPromises(popped) ==
  /\ UNCHANGED <<gcState, zoneGroups>>
  /\ \A x \in Cells : mark[x] = "black" => mark'[x] = "black"
  /\ \A x \in Cells : mark[x] = "white" /\ mark'[x] # "white" => x \in stack'
  /\ stack \subseteq stack' \cup popped
  /\ \A x \in popped : /\ mark'[x] = "black"
                       /\ \A d \in Markable(refs[x]) : mark'[d] # "white"
  /\ \A x \in BlackPromised : \A d \in Markable(refs[x]) : d \in refs'[x] \/ mark'[d] # "white"
  /\ \A x \in Markable(BlackAside) : x \in BlackAside' \/ mark'[x] # "white"

LEMMA BlackPromisesAreKept ==
  ASSUME IInv, HeapInv, TypeOK', NEW popped \in SUBSET Cells, KeepsBlackPromises(popped)
  PROVE  \A c \in Cells : Firm(c) => Firm(c)'
  <1> USE DEF IInv, KeepsBlackPromises
  <1> DEFINE S == (BlackPromised \cap BlackPromised') \cup (BlackPromised \cap popped)
  <1>0. Marking' = Marking
    BY DEF Marking
  <1>1. S \in SUBSET Cells
    BY BlackPromisedIsKept
  <1>2. stack' \cup Markable(BlackAside)' \subseteq BlackPromised'
        /\ \A c \in BlackPromised' \cap Cells : Onward(c)' \subseteq BlackPromised'
    BY BlackPromisedIsClosedNext
  <1>3. stack \cup Markable(BlackAside) \subseteq BlackPromised
        /\ \A c \in BlackPromised \cap Cells : Onward(c) \subseteq BlackPromised
    BY BlackPromisedIsClosed
  <1>4. \A x \in Cells : mark[x] = "white" /\ mark'[x] # "white" => x \in BlackPromised'
    BY <1>2
  <1>5. stack \subseteq S
    BY <1>2, <1>3
  <1>6. Markable(BlackAside) \subseteq S
    <2> SUFFICES ASSUME NEW x \in Markable(BlackAside)
                 PROVE  x \in BlackPromised'
      BY <1>3
    <2>1. x \in Cells /\ mark[x] = "white" /\ ZoneOf(x) \in Marking
      BY <1>3, BlackPromisedIsKept DEF Markable, White
    <2>2. CASE mark'[x] # "white"
      BY <1>4, <2>1, <2>2
    <2>3. CASE mark'[x] = "white"
      <3>1. x \in Markable(BlackAside)'
        BY <1>0, <2>1, <2>3 DEF Markable, White, ZoneOf
      <3> QED
        BY <1>2, <3>1
    <2> QED
      BY <2>2, <2>3
  <1>7. ASSUME NEW x \in S
        PROVE  Onward(x) \subseteq S
    <2> SUFFICES ASSUME NEW d \in Onward(x)
                 PROVE  d \in BlackPromised'
      BY <1>1, <1>3
    <2>1. /\ x \in BlackPromised /\ x \in Cells /\ d \in Markable(refs[x]) /\ d \in Cells
          /\ mark[d] = "white" /\ ZoneOf(d) \in Marking /\ ~Against(x, d)
      BY <1>1 DEF Onward, Markable, White, TypeOK
    <2>2. CASE mark'[d] # "white"
      BY <1>4, <2>1, <2>2
    <2>3. CASE mark'[d] = "white"
      <3>1. d \in refs'[x] /\ x \in BlackPromised'
        BY <2>1, <2>3
      <3>2. d \in Onward(x)'
        BY <1>0, <2>1, <2>3, <3>1 DEF Onward, Markable, White, ZoneOf, Against
      <3> QED
        BY <1>2, <2>1, <3>1, <3>2
    <2> QED
      BY <2>2, <2>3
  <1>8. BlackPromised \subseteq S
    BY <1>1, <1>5, <1>6, <1>7, BlackPromisedIsLeast
  <1> QED
    BY <1>8 DEF Firm

\* A cell that running code may come to hold: it will be black if its zone marks,
\* and is not gray if that means something.
Trusted(c) ==
  /\ c \in MarkingCells => Firm(c)
  /\ c \in ExactCells => mark[c] # "gray"

\* The zones that mark are not among those that have their gray bits, and have no
\* gray cell.
LEMMA ColourBasics ==
  ASSUME IInv, ColourInv
  PROVE  /\ Exact \subseteq Zones /\ Exact \cap Marking = {}
         /\ ExactCells \cap MarkingCells = {} /\ ExactCells \subseteq Cells /\ MarkingCells \subseteq Cells
         /\ Kept \subseteq Cells
         /\ \A c \in Cells : refs[c] \subseteq Cells
         /\ \A c \in MarkingCells : mark[c] \in {"white", "black"}
         /\ \A c \in Cells : ~White(c) <=> mark[c] \in {"gray", "black"}
  <1>1. Exact \subseteq Zones /\ Exact \cap Marking = {}
    BY DEF Exact, Marking
  <1>2. \A c \in MarkingCells : mark[c] \in {"white", "black"}
    BY DEF IInv, TypeOK, Colors, MarkingCells, CellsIn, ColourInv, Colours, NoGrayYet
  <1> QED
    BY <1>1, <1>2 DEF IInv, TypeOK, Colors, MarkingCells, ExactCells, CellsIn, Kept, White

\* What a trusted cell points to is trusted.
LEMMA TrustedEdges ==
  ASSUME IInv, HeapInv, ColourInv, ~abortSweep, NEW c \in Kept, Trusted(c), NEW d \in refs[c]
  PROVE  Trusted(d)
  <1> USE DEF IInv, ColourInv, Colours
  <1>1. /\ c \in Cells /\ d \in Cells
        /\ d \in MarkingCells => mark[d] \in {"white", "black"}
    BY ColourBasics
  <1>2. ASSUME d \in MarkingCells
        PROVE  Firm(d)
    <2>1. CASE Seen(c)
      BY <1>2, <2>1 DEF BlackSnapshot, EdgesAreFirm
    <2>2. CASE c \in BlackPromised /\ mark[d] = "white" /\ ~Against(c, d)
      <3>1. d \in Onward(c)
        BY <1>2, <2>2 DEF Onward, Markable, White, MarkingCells, CellsIn
      <3> QED
        BY <1>1, <2>2, <3>1, BlackPromisedIsClosed DEF Firm
    <2>3. CASE Against(c, d)
      BY <2>3 DEF BlackSnapshot, GroupsAreFirm
    <2> QED
      BY <1>1, <1>2, <2>1, <2>2, <2>3 DEF Firm, Trusted, Seen
  <1>3. d \in ExactCells => mark[d] # "gray"
    BY DEF EdgesNotGray, Trusted, Seen
  <1> QED
    BY <1>2, <1>3 DEF Trusted

\* What the program holds is trusted.
LEMMA TrustedRoots ==
  ASSUME IInv, ColourInv, ~abortSweep
  PROVE  \A c \in roots : Trusted(c)
  BY DEF ColourInv, Colours, BlackSnapshot, RootsAreFirm, RootsNotGray, Trusted

-----------------------------------------------------------------------------
(* The zones                                                                 *)

LEMMA BeginZoneInv ==
  ASSUME IInv, NEW zs \in Schedules, BeginMarkPhase(zs)
  PROVE  ZoneInv' /\ (Schedules \subseteq {Zones} => zs = Zones)
  <1>1. /\ incrementalState' = "MARK"
        /\ gcState' = [z \in Zones |-> IF z \in zs THEN "Mark" ELSE "NoGC"]
    BY DEF BeginMarkPhase
  <1>2. {z \in Zones : gcState'[z] = "Sweep"} = {}
    BY <1>1
  <1> QED
    BY <1>1, <1>2 DEF ZoneInv, SweptZones, AllCollected

\* The group that sweeping turns to is the only one that is being swept.
LEMMA SweepZoneInv ==
  ASSUME IInv, ZoneInv, IInv', BeginSweepPhase \/ NextZoneGroup
  PROVE  /\ ZoneInv'
         /\ {z \in Zones : gcState'[z] \in {"Sweep", "Finished"}}
              = {z \in Zones : gcState[z] \in {"Sweep", "Finished"}} \cup zoneGroups'[1]
         /\ zoneGroups'[1] \subseteq Marking
         /\ Marking' = Marking \ zoneGroups'[1]
  <1> USE DEF IInv
  <1> DEFINE g == zoneGroups'[1]
  <1>1. CASE BeginSweepPhase
    <2>1. /\ incrementalState = "MARK" /\ incrementalState' = "SWEEP"
      BY <1>1 DEF BeginSweepPhase
    <2>2. PICK gs \in ZoneGroupings : zoneGroups' = gs /\ MarkAndSweepGroup(gs[1], gcState)
      BY <1>1 DEF BeginSweepPhase
    <2>3. g \in SUBSET Marking
      BY NextGroupMarks
    <2>4. gcState' = [z \in Zones |-> IF z \in g THEN "Sweep" ELSE gcState[z]]
      BY <2>2 DEF MarkAndSweepGroup
    <2>5. \A z \in Zones : gcState[z] # "Sweep"
      BY <2>1 DEF ZoneInv, SweptZones
    <2> QED
      BY <2>1, <2>3, <2>4, <2>5 DEF ZoneInv, SweptZones, AllCollected, Marking
  <1>2. CASE NextZoneGroup
    <2>1. /\ incrementalState = "SWEEP" /\ incrementalState' = "SWEEP"
          /\ MarkAndSweepGroup(g, FinishedGroup)
      BY <1>2 DEF NextZoneGroup, GroupSwept, Sweeping
    <2>2. g \in SUBSET Marking
      BY <1>2, NextGroupMarks
    <2>3. gcState' = [z \in Zones |-> IF z \in g THEN "Sweep" ELSE FinishedGroup[z]]
      BY <2>1 DEF MarkAndSweepGroup
    <2>4. /\ Head(zoneGroups) = zoneGroups[1] /\ zoneGroups[1] \cap Marking = {}
      BY <2>1, HeadIsSwept
    <2>5. \A z \in Zones : gcState[z] = "Sweep" <=> z \in zoneGroups[1]
      BY <2>1 DEF ZoneInv, SweptZones
    <2>6. \A z \in Zones : FinishedGroup[z] = IF z \in zoneGroups[1] THEN "Finished" ELSE gcState[z]
      BY <2>4 DEF FinishedGroup
    <2> QED
      BY <2>1, <2>2, <2>3, <2>4, <2>5, <2>6 DEF ZoneInv, SweptZones, AllCollected, Marking
  <1> QED
    BY <1>1, <1>2

\* When sweeping ends, and when the collection does.
LEMMA EndZoneInv ==
  ASSUME IInv, ZoneInv, EndSweepPhase \/ FinishCollection \/ ResetMarking
  PROVE  ZoneInv'
  <1> USE DEF IInv
  <1>1. incrementalState' \notin {"MARK", "SWEEP"}
    BY DEF EndSweepPhase, FinishCollection, ResetMarking
  <1>2. \A z \in Zones : gcState'[z] # "Sweep"
    BY DEF EndSweepPhase, FinishCollection, ResetMarking
  <1> QED
    BY <1>1, <1>2 DEF ZoneInv, SweptZones, AllCollected

LEMMA StepZoneInv == IInv /\ IInv' /\ ZoneInv /\ [Next]_vars => ZoneInv'
  <1> SUFFICES ASSUME IInv, IInv', ZoneInv, [Next]_vars
               PROVE  ZoneInv'
    OBVIOUS
  <1>1. CASE UNCHANGED <<gcState, incrementalState, zoneGroups>>
    BY <1>1 DEF ZoneInv, SweptZones, AllCollected
  <1>2. CASE Mutator
    BY <1>1, <1>2 DEF Mutator, Allocate, DropRoot, Expose, HoldOutside, ReleaseOutside, LoadRef,
                      WriteRef, zoneVars, sliceVars
  <1>3. CASE \E zs \in Schedules : BeginMarkPhase(zs)
    BY <1>3, BeginZoneInv
  <1>4. CASE Slice
    <2>1. CASE \E c \in Cells : MarkCell(c) \/ FinalizeForeground(c)
      BY <1>1, <2>1 DEF MarkCell, FinalizeForeground, zoneVars
    <2>2. CASE \E a \in Arenas : MarkDelayedArena(a)
      BY <1>1, <2>2 DEF MarkDelayedArena, zoneVars
    <2>3. CASE BeginSweepPhase \/ NextZoneGroup
      BY <2>3, SweepZoneInv
    <2>4. CASE EndSweepPhase \/ FinishCollection
      BY <2>4, EndZoneInv
    <2>5. CASE StartSlice
      BY <1>1, <2>5 DEF StartSlice
    <2> QED
      BY <1>4, <2>1, <2>2, <2>3, <2>4, <2>5 DEF Slice
  <1>5. CASE Yield
    BY <1>1, <1>5 DEF Yield
  <1>6. CASE Background
    BY <1>1, <1>6 DEF Background, FinalizeInBackground, sliceVars
  <1>7. CASE ResetMarking
    BY <1>7, EndZoneInv
  <1>8. CASE ResetSweeping
    BY <1>1, <1>8 DEF ResetSweeping
  <1>9. CASE UNCHANGED vars
    BY <1>1, <1>9 DEF vars, zoneVars, sliceVars
  <1> QED
    BY <1>2, <1>3, <1>4, <1>5, <1>6, <1>7, <1>8, <1>9 DEF Next

-----------------------------------------------------------------------------
(* The program's steps keep the colours                                      *)

\* Zones change only with their states.
LEMMA SameZones ==
  ASSUME UNCHANGED gcState
  PROVE  /\ Marking' = Marking /\ MarkingCells' = MarkingCells
         /\ Exact' = Exact /\ ExactCells' = ExactCells
  BY DEF Marking, MarkingCells, Exact, ExactCells, CellsIn, ZoneOf

LEMMA HoldColours ==
  ASSUME IInv, HeapInv, ColourInv,
         \/ \E c \in Cells : DropRoot(c) \/ HoldOutside(c) \/ ReleaseOutside(c)
         \/ \E c, d \in Cells : LoadRef(c, d)
  PROVE  Colours'
  <1> USE DEF IInv, ColourInv, Colours
  <1>1. UNCHANGED <<allocated, refs, mark, stack, delayed, incomingGray, gcState, zoneGroups,
                    abortSweep, dying>>
    BY DEF DropRoot, HoldOutside, ReleaseOutside, LoadRef, markVars, zoneVars
  <1>2. /\ MarkingCells' = MarkingCells /\ ExactCells' = ExactCells
    BY <1>1, SameZones
  <1>3. /\ Kept' = Kept
        /\ \A c, d \in Cells : Against(c, d)' = Against(c, d)
        /\ \A c \in Cells : Firm(c)' = Firm(c)
        /\ \A c \in Cells : Seen(c)' = Seen(c)
    BY <1>1, <1>2 DEF Marking, CellsIn, ZoneOf, Kept, BlackPromised, BlackAside, Flagged, Markable,
                White, Onward, Against, Firm, Seen
  <1>4. Kept \subseteq Cells /\ MarkingCells \subseteq Cells /\ \A c \in Cells : refs[c] \subseteq Cells
    BY ColourBasics
  <1>5. ASSUME NEW d \in roots'
        PROVE  ~abortSweep => Trusted(d)
    <2>1. CASE d \in roots
      BY <2>1, TrustedRoots
    <2>2. CASE d \notin roots
      <3>1. PICK c \in roots : d \in refs[c]
        BY <2>2 DEF DropRoot, HoldOutside, ReleaseOutside, LoadRef
      <3>2. c \in Kept
        BY DEF HeapInv, HeapIsClosed
      <3> QED
        BY <3>1, <3>2, TrustedRoots, TrustedEdges
    <2> QED
      BY <2>1, <2>2
  <1>6. ASSUME NEW d \in roots' \cap ExactCells
        PROVE  mark[d] # "gray"
    <2>1. CASE d \in roots
      BY <1>6, <2>1 DEF RootsNotGray
    <2>2. CASE d \notin roots
      <3>1. PICK c \in roots : d \in refs[c]
        BY <2>2 DEF DropRoot, HoldOutside, ReleaseOutside, LoadRef
      <3>2. c \in Kept /\ (c \in MarkingCells \/ Seen(c))
        BY DEF HeapInv, HeapIsClosed, RootsNotGray, Seen
      <3> QED
        BY <1>6, <3>1, <3>2 DEF EdgesNotGray
    <2> QED
      BY <2>1, <2>2
  <1>7. BlackSnapshot'
    <2> SUFFICES ASSUME ~abortSweep
                 PROVE  RootsAreFirm' /\ EdgesAreFirm' /\ GroupsAreFirm' /\ GrayEdgesWait'
      BY <1>1 DEF BlackSnapshot
    <2>1. RootsAreFirm'
      BY <1>2, <1>3, <1>4, <1>5 DEF RootsAreFirm, Trusted
    <2>2. EdgesAreFirm' /\ GroupsAreFirm' /\ GrayEdgesWait'
      BY <1>1, <1>2, <1>3, <1>4 DEF BlackSnapshot, EdgesAreFirm, GroupsAreFirm, GrayEdgesWait
    <2> QED
      BY <2>1, <2>2
  <1>8. NoGrayYet' /\ RootsNotGray' /\ EdgesNotGray'
    BY <1>1, <1>2, <1>3, <1>4, <1>6 DEF NoGrayYet, RootsNotGray, EdgesNotGray
  <1> QED
    BY <1>7, <1>8

\* A free cell is not gray, nor does anything lead to it.
LEMMA AllocateColours ==
  ASSUME IInv, HeapInv, ColourInv, TypeOK', NEW n \in Cells, Allocate(n)
  PROVE  Colours'
  <1> USE DEF IInv, ColourInv, Colours
  <1>1. /\ n \notin allocated /\ allocated' = allocated \cup {n}
        /\ refs' = [refs EXCEPT ![n] = {}]
        /\ roots' = roots \cup {n}
        /\ ~inSlice
        /\ UNCHANGED <<mark, stack, incomingGray, gcState, zoneGroups, abortSweep, dying>>
    BY DEF Allocate, Program, zoneVars
  <1>2. /\ Marking' = Marking /\ MarkingCells' = MarkingCells /\ ExactCells' = ExactCells
        /\ \A c, d \in Cells : Against(c, d)' = Against(c, d)
    BY <1>1, SameZones DEF ZoneOf, Against
  <1>3. barrier = Marking
    BY <1>1 DEF Phases, BarrierPhase
  <1>4. /\ delayed \subseteq delayed'
        /\ n \in MarkingCells => ArenaOf[n] \in delayed'
    <2>1. n \in MarkingCells /\ ArenaOf[n] \in freeLists => ArenaOf[n] \in delayed
      BY <1>1 DEF HeapInv, FreeListInv
    <2> QED
      BY <1>3, <2>1 DEF Allocate, MarkingCells, CellsIn
  <1>5. Kept' = Kept \cup {n} /\ n \notin Kept /\ Kept \subseteq Cells
    BY <1>1 DEF Kept, TypeOK
  <1>6. refs'[n] = {} /\ \A c \in Kept : refs'[c] = refs[c] /\ n \notin refs[c] /\ refs[c] \subseteq Cells
    BY <1>1, <1>5 DEF TypeOK, HeapInv, HeapIsClosed
  <1>7. \A c \in Cells : Firm(c) => Firm(c)'
    <2>1. \A x \in BlackPromised : \A d \in Markable(refs[x]) : d \in refs'[x]
      BY <1>6, BlackPromisedIsKept DEF Markable
    <2>2. BlackAside \subseteq BlackAside'
      BY <1>1, <1>4 DEF BlackAside, Flagged
    <2>3. KeepsBlackPromises({})
      BY <1>1, <2>1, <2>2 DEF KeepsBlackPromises, Markable
    <2> QED
      BY <2>3, BlackPromisesAreKept
  <1>8. n \in MarkingCells => Firm(n)'
    <2>1. SUFFICES ASSUME n \in MarkingCells, mark'[n] = "white"
                   PROVE  n \in BlackPromised'
      BY <1>1, ColourBasics DEF Firm
    <2>2. n \in BlackAside'
      BY <1>1, <1>4, <2>1 DEF BlackAside, Flagged
    <2>3. n \in Markable(BlackAside)'
      BY <1>2, <2>1, <2>2 DEF Markable, White, MarkingCells, CellsIn
    <2> QED
      BY <2>3, BlackPromisedIsClosedNext
  <1>9. \A c \in Cells : Seen(c)' = Seen(c)
    BY <1>1, <1>2 DEF Seen
  <1>10. MarkingCells \subseteq Cells
    BY ColourBasics
  <1>11. BlackSnapshot'
    <2> SUFFICES ASSUME ~abortSweep
                 PROVE  RootsAreFirm' /\ EdgesAreFirm' /\ GroupsAreFirm' /\ GrayEdgesWait'
      BY <1>1 DEF BlackSnapshot
    <2>1. RootsAreFirm'
      BY <1>1, <1>2, <1>7, <1>8, <1>10 DEF BlackSnapshot, RootsAreFirm
    <2>2. EdgesAreFirm'
      BY <1>2, <1>5, <1>6, <1>7, <1>9 DEF BlackSnapshot, EdgesAreFirm
    <2>3. GroupsAreFirm'
      BY <1>2, <1>5, <1>6, <1>7 DEF BlackSnapshot, GroupsAreFirm
    <2>4. GrayEdgesWait'
      BY <1>1, <1>2, <1>5, <1>6, <1>7 DEF BlackSnapshot, GrayEdgesWait
    <2> QED
      BY <2>1, <2>2, <2>3, <2>4
  <1>12. NoGrayYet'
    BY <1>1, <1>2, <1>5 DEF NoGrayYet
  <1>13. RootsNotGray'
    BY <1>1, <1>2, <1>5 DEF NoGrayYet, RootsNotGray
  <1>14. EdgesNotGray'
    BY <1>1, <1>2, <1>5, <1>6, <1>9 DEF EdgesNotGray
  <1> QED
    BY <1>11, <1>12, <1>13, <1>14

\* What a slot holds from now on is what the program has, and what it held is
\* marked black by the barrier.
LEMMA WriteRefColours ==
  ASSUME IInv, HeapInv, ColourInv, TypeOK', NEW w \in Cells, NEW old, NEW new, WriteRef(w, old, new)
  PROVE  Colours'
  <1> USE DEF IInv, ColourInv, Colours
  <1>1. /\ ~inSlice /\ w \in roots /\ old \subseteq refs[w] /\ new \subseteq roots
        /\ refs' = [refs EXCEPT ![w] = (refs[w] \ old) \cup new]
        /\ mark' = Blacken(BarrierMarks(old)) /\ stack' = stack \cup BarrierMarks(old)
        /\ incomingGray' = incomingGray \ ({w} \X old)
        /\ UNCHANGED <<allocated, roots, delayed, gcState, zoneGroups, abortSweep, dying>>
    BY DEF WriteRef, Program, MarkAndPush, OffGrayList, zoneVars
  <1>2. /\ Marking' = Marking /\ MarkingCells' = MarkingCells /\ ExactCells' = ExactCells
        /\ Kept' = Kept
        /\ \A c, d \in Cells : Against(c, d)' = Against(c, d)
    BY <1>1, SameZones DEF ZoneOf, Against, Kept
  <1>3. barrier = Marking
    BY <1>1 DEF Phases, BarrierPhase
  <1>4. /\ w \in Kept /\ old \subseteq Kept /\ new \subseteq Kept /\ Kept \subseteq Cells
        /\ \A c \in Kept : refs[c] \subseteq Kept
    BY <1>1 DEF HeapInv, HeapIsClosed, Kept, TypeOK
  <1>5. BarrierMarks(old) = {d \in old : mark[d] = "white" /\ d \in MarkingCells}
    BY <1>3, <1>4 DEF BarrierMarks, White, MarkingCells, CellsIn
  <1>6. \A x \in Cells : mark'[x] = IF x \in BarrierMarks(old) THEN "black" ELSE mark[x]
    BY <1>1 DEF Blacken
  <1>7. refs'[w] = (refs[w] \ old) \cup new /\ \A c \in Cells \ {w} : refs'[c] = refs[c]
    BY <1>1 DEF TypeOK
  <1>8. \A d \in old : d \in MarkingCells => mark'[d] # "white"
    BY <1>4, <1>5, <1>6
  <1>9. \A c \in Cells : Firm(c) => Firm(c)'
    <2>1. \A x \in BlackPromised : \A d \in Markable(refs[x]) : d \in refs'[x] \/ mark'[d] # "white"
      <3> SUFFICES ASSUME NEW x \in BlackPromised, NEW d \in Markable(refs[x]), d \notin refs'[x]
                   PROVE  mark'[d] # "white"
        OBVIOUS
      <3>1. x \in Cells
        BY BlackPromisedIsKept
      <3>2. d \in old /\ d \in MarkingCells
        BY <1>4, <1>7, <3>1 DEF Markable, MarkingCells, CellsIn
      <3> QED
        BY <1>8, <3>2
    <2>2. \A x \in Markable(BlackAside) : x \in BlackAside' \/ mark'[x] # "white"
      <3> SUFFICES ASSUME NEW x \in Markable(BlackAside), x \notin BlackAside'
                   PROVE  mark'[x] # "white"
        OBVIOUS
      <3>1. x \in Cells /\ x \notin Flagged
        BY <1>1 DEF Markable, BlackAside, Flagged, TypeOK
      <3>2. PICK s \in Cells : <<s, x>> \in incomingGray /\ mark[s] = "black"
        BY <3>1 DEF Markable, BlackAside
      <3>3. mark'[s] = "black"
        BY <1>6, <3>2
      <3>4. <<s, x>> \in {w} \X old
        BY <1>1, <3>1, <3>2, <3>3 DEF BlackAside
      <3>5. x \in old /\ x \in MarkingCells
        BY <1>4, <3>4 DEF Markable, MarkingCells, CellsIn
      <3> QED
        BY <1>8, <3>5
    <2>3. \A x \in Cells : /\ mark[x] = "black" => mark'[x] = "black"
                           /\ mark[x] = "white" /\ mark'[x] # "white" => x \in stack'
      BY <1>1, <1>6
    <2>4. KeepsBlackPromises({})
      BY <1>1, <2>1, <2>2, <2>3 DEF KeepsBlackPromises
    <2> QED
      BY <2>4, BlackPromisesAreKept
  <1>10. \A c \in Kept : \A d \in refs'[c] : d \in refs[c] \/ (d \in roots /\ c = w)
    BY <1>1, <1>4, <1>7
  <1>11. \A c \in Cells : mark'[c] = "gray" <=> mark[c] = "gray"
    BY <1>5, <1>6
  <1>12. MarkingCells \subseteq Cells /\ ExactCells \subseteq Cells /\ MarkingCells \cap ExactCells = {}
    BY ColourBasics
  <1>13. BlackSnapshot'
    <2> SUFFICES ASSUME ~abortSweep
                 PROVE  RootsAreFirm' /\ EdgesAreFirm' /\ GroupsAreFirm' /\ GrayEdgesWait'
      BY <1>1 DEF BlackSnapshot
    <2>1. RootsAreFirm'
      BY <1>1, <1>2, <1>9, <1>12 DEF BlackSnapshot, RootsAreFirm
    <2>2. ASSUME NEW c \in Kept, Trusted(c), NEW d \in refs'[c] \cap MarkingCells
          PROVE  Firm(d)'
      BY <1>1, <1>9, <1>10, <1>12, <2>2, TrustedEdges, TrustedRoots DEF Trusted
    <2>3. EdgesAreFirm'
      <3> SUFFICES ASSUME NEW c \in Kept, Seen(c)', NEW d \in refs'[c] \cap MarkingCells
                   PROVE  Firm(d)'
        BY <1>2 DEF EdgesAreFirm
      <3>1. CASE c \in BarrierMarks(old)
        <4>1. Trusted(c)
          BY <1>1, <1>4, <1>5, <3>1, TrustedRoots, TrustedEdges
        <4> QED
          BY <2>2, <4>1
      <3>2. CASE c \notin BarrierMarks(old)
        <4>1. Trusted(c)
          BY <1>2, <1>4, <1>6, <3>2 DEF Seen, Trusted, Firm
        <4> QED
          BY <2>2, <4>1
      <3> QED
        BY <3>1, <3>2
    <2>4. GroupsAreFirm'
      <3> SUFFICES ASSUME NEW c \in Kept, NEW d \in refs'[c], Against(c, d)
                   PROVE  Firm(d)'
        BY <1>2, <1>4, <1>10 DEF GroupsAreFirm, HeapInv, HeapIsClosed
      <3>1. d \in Kept
        BY <1>4, <1>10 DEF HeapInv, HeapIsClosed
      <3>2. d \in MarkingCells
        <4>1. incrementalState = "SWEEP"
          BY DEF Against, Phases, GroupPhase
        <4>2. ZoneOf(d) \in LaterGroups
          BY DEF Against, LaterGroups
        <4> QED
          BY <1>4, <3>1, <4>1, <4>2 DEF Phases, GroupPhase, MarkingCells, CellsIn
      <3> QED
        BY <1>9, <1>10, <1>12, <3>2 DEF BlackSnapshot, GroupsAreFirm, RootsAreFirm
    <2>5. GrayEdgesWait'
      <3> SUFFICES ASSUME NEW c \in Kept \cap ExactCells, mark[c] = "gray",
                          NEW d \in refs'[c] \cap MarkingCells
                   PROVE  <<c, d>> \in incomingGray' \/ Firm(d)'
        BY <1>2, <1>11, <1>12 DEF GrayEdgesWait
      <3>1. c # w
        BY <1>1 DEF RootsNotGray
      <3>2. d \in refs[c] /\ d \in Cells /\ w \in Cells
        BY <1>12, <1>10, <3>1
      <3>3. <<c, d>> \in incomingGray \/ Firm(d)
        BY <3>2 DEF BlackSnapshot, GrayEdgesWait
      <3> QED
        BY <1>1, <1>9, <3>1, <3>2, <3>3
    <2> QED
      BY <2>1, <2>3, <2>4, <2>5
  <1>14. NoGrayYet'
    BY <1>2, <1>11 DEF NoGrayYet
  <1>15. RootsNotGray'
    BY <1>1, <1>2, <1>11, <1>12 DEF RootsNotGray
  <1>16. EdgesNotGray'
    <2> SUFFICES ASSUME NEW c \in Kept, c \in MarkingCells \/ Seen(c)', NEW d \in refs'[c] \cap ExactCells
                 PROVE  mark[d] # "gray"
      BY <1>2, <1>11, <1>12 DEF EdgesNotGray
    <2>1. c \in MarkingCells \/ Seen(c)
      BY <1>2, <1>4, <1>11, <1>12 DEF Seen
    <2> QED
      BY <1>10, <2>1 DEF EdgesNotGray, RootsNotGray
  <1> QED
    BY <1>13, <1>14, <1>15, <1>16

\* Unmarking gray reaches everything gray that gray cells lead to.
LEMMA GrayFromIsClosed ==
  ASSUME TypeOK, NEW c \in Cells
  PROVE  /\ mark[c] = "gray" => c \in GrayFrom({c})
         /\ \A x \in GrayFrom({c}) : \A d \in refs[x] : mark[d] = "gray" => d \in GrayFrom({c})
         /\ GrayFrom({c}) \subseteq Cells
  <1> DEFINE from == {d \in {c} : mark[d] = "gray"}
             next == [d \in Cells |-> {e \in refs[d] : mark[e] = "gray"}]
  <1>1. GrayFrom({c}) = Closure(from, next)
    BY DEF GrayFrom
  <1>2. GrayFrom({c}) \subseteq Cells /\ from \subseteq GrayFrom({c})
    BY <1>1 DEF Closure
  <1>3. ASSUME NEW x \in GrayFrom({c})
        PROVE  next[x] \subseteq GrayFrom({c})
    <2>1. next[x] \subseteq Cells
      BY <1>2, <1>3 DEF TypeOK
    <2> HIDE DEF from, next
    <2> QED
      BY <1>1, <1>3, <2>1, ClosureIsClosed
  <1> QED
    BY <1>2, <1>3

\* Unmarking gray stays with the cells that are kept.
LEMMA GrayFromIsKept ==
  ASSUME IInv, HeapInv, NEW c \in Kept
  PROVE  GrayFrom({c}) \subseteq Kept
  <1> DEFINE from == {d \in {c} : mark[d] = "gray"}
             next == [d \in Cells |-> {e \in refs[d] : mark[e] = "gray"}]
  <1>1. GrayFrom({c}) = Closure(from, next)
    BY DEF GrayFrom
  <1>2. Kept \in SUBSET Cells /\ from \subseteq Kept /\ \A x \in Kept : next[x] \subseteq Kept
    BY DEF IInv, TypeOK, Kept, HeapInv, HeapIsClosed
  <1> HIDE DEF from, next
  <1> QED
    BY <1>1, <1>2, ClosureIsLeast

\* What is taken from a weak reference or from the embedding is marked black, or
\* loses the gray bit with everything gray that it leads to.
LEMMA ExposeColours ==
  ASSUME IInv, HeapInv, ColourInv, TypeOK', NEW n \in Cells, Expose(n)
  PROVE  Colours'
  <1> USE DEF IInv, ColourInv, Colours
  <1> DEFINE lost == GrayFrom({n})
  <1>1. /\ ~inSlice /\ n \in weak \cup grayRoots /\ roots' = roots \cup {n}
        /\ UNCHANGED <<allocated, refs, delayed, incomingGray, gcState, zoneGroups, abortSweep, dying>>
    BY DEF Expose, Program, zoneVars
  <1>2. /\ Marking' = Marking /\ MarkingCells' = MarkingCells /\ ExactCells' = ExactCells
        /\ Kept' = Kept
        /\ \A c, d \in Cells : Against(c, d)' = Against(c, d)
    BY <1>1, SameZones DEF ZoneOf, Against, Kept
  <1>3. barrier = Marking
    BY <1>1 DEF Phases, BarrierPhase
  <1>4. /\ n \in Kept /\ Kept \subseteq Cells /\ \A c \in Kept : refs[c] \subseteq Kept
    BY <1>1 DEF HeapInv, HeapIsClosed, Kept, TypeOK
  <1>5. /\ MarkingCells \subseteq Cells /\ ExactCells \subseteq Cells /\ MarkingCells \cap ExactCells = {}
        /\ \A c \in MarkingCells : mark[c] \in {"white", "black"}
    BY ColourBasics
  <1>6. /\ stack \subseteq stack'
        /\ n \in MarkingCells => mark'[n] = "black"
        /\ n \in MarkingCells => \A c \in Cells : mark'[c] = IF c = n THEN "black" ELSE mark[c]
        /\ n \in MarkingCells /\ mark[n] = "white" => n \in stack'
        /\ n \notin MarkingCells => \A c \in Cells : mark'[c] = IF c \in lost THEN "black" ELSE mark[c]
    <2>1. CASE n \in MarkingCells
      <3>1. mark' = Blacken(BarrierMarks({n})) /\ stack' = stack \cup BarrierMarks({n})
        BY <1>3, <2>1 DEF Expose, MarkAndPush, MarkingCells, CellsIn
      <3>2. BarrierMarks({n}) = {c \in {n} : mark[c] = "white"}
        BY <1>3, <2>1 DEF BarrierMarks, White, MarkingCells, CellsIn
      <3> QED
        BY <1>5, <2>1, <3>1, <3>2 DEF Blacken
    <2>2. CASE n \notin MarkingCells
      <3>1. mark' = Blacken(GrayFrom({n})) /\ stack' = stack
        BY <1>3, <2>2 DEF Expose, MarkingCells, CellsIn
      <3> QED
        BY <2>2, <3>1 DEF Blacken
    <2> QED
      BY <2>1, <2>2
  <1>7. /\ \A d \in lost : mark[d] = "gray" /\ d \in Kept
        /\ mark[n] = "gray" => n \in lost
        /\ \A x \in lost : \A d \in refs[x] : mark[d] = "gray" => d \in lost
    BY <1>4, GrayFromIsGray, GrayFromIsClosed, GrayFromIsKept
  <1> HIDE DEF lost
  <1>8. /\ \A c \in Cells : mark[c] = "black" => mark'[c] = "black"
        /\ \A c \in Cells : mark[c] # "white" => mark'[c] # "white"
        /\ \A c \in Cells : mark'[c] = "gray" => mark[c] = "gray"
        /\ \A c \in Cells : mark[c] = "white" /\ mark'[c] # "white" => c = n /\ n \in stack' /\ n \in MarkingCells
        /\ \A c \in Cells : mark[c] = "gray" /\ mark'[c] # "gray" => c \in lost /\ n \notin MarkingCells
    BY <1>5, <1>6, <1>7
  <1>9. \A c \in Cells : Firm(c) => Firm(c)'
    <2>1. \A x \in BlackPromised : \A d \in Markable(refs[x]) : d \in refs'[x]
      BY <1>1 DEF Markable
    <2>2. \A x \in Markable(BlackAside) : x \in BlackAside'
      BY <1>1, <1>8 DEF Markable, BlackAside, Flagged
    <2>3. KeepsBlackPromises({})
      BY <1>1, <1>6, <1>8, <2>1, <2>2 DEF KeepsBlackPromises
    <2> QED
      BY <2>3, BlackPromisesAreKept
  <1>10. NoGrayYet'
    BY <1>2, <1>5, <1>8 DEF NoGrayYet
  <1>11. RootsNotGray'
    <2>1. n \in ExactCells => mark'[n] # "gray"
      BY <1>5, <1>6, <1>7
    <2> QED
      BY <1>1, <1>2, <1>5, <1>8, <2>1 DEF RootsNotGray
  <1>12. EdgesNotGray'
    <2> SUFFICES ASSUME NEW c \in Kept, c \in MarkingCells \/ Seen(c)', NEW d \in refs[c] \cap ExactCells,
                        mark'[d] = "gray"
                 PROVE  FALSE
      BY <1>1, <1>2 DEF EdgesNotGray
    <2>1. mark[d] = "gray" /\ d \in Cells /\ c \in Cells
      BY <1>4, <1>5, <1>8
    <2>2. ~Seen(c) /\ c \notin MarkingCells
      BY <2>1 DEF EdgesNotGray
    <2>3. c \in ExactCells /\ mark[c] = "gray" /\ mark'[c] # "gray"
      BY <1>2, <2>2 DEF Seen
    <2>4. c \in lost /\ n \notin MarkingCells
      BY <1>8, <2>1, <2>3
    <2> QED
      BY <1>6, <1>7, <2>1, <2>4
  <1>13. BlackSnapshot'
    <2> SUFFICES ASSUME ~abortSweep
                 PROVE  RootsAreFirm' /\ EdgesAreFirm' /\ GroupsAreFirm' /\ GrayEdgesWait'
      BY <1>1 DEF BlackSnapshot
    <2>1. RootsAreFirm'
      <3>1. n \in MarkingCells => Firm(n)'
        BY <1>6 DEF Firm
      <3> QED
        BY <1>1, <1>2, <1>5, <1>9, <3>1 DEF BlackSnapshot, RootsAreFirm
    <2>2. GroupsAreFirm'
      BY <1>1, <1>2, <1>4, <1>9 DEF BlackSnapshot, GroupsAreFirm
    <2>3. EdgesAreFirm'
      <3> SUFFICES ASSUME NEW c \in Kept, Seen(c)', NEW d \in refs[c] \cap MarkingCells
                   PROVE  Firm(d)'
        BY <1>1, <1>2 DEF EdgesAreFirm
      <3>0. c \in Cells /\ d \in Cells
        BY <1>4, <1>5
      <3>1. CASE Seen(c)
        BY <1>9, <3>0, <3>1 DEF BlackSnapshot, EdgesAreFirm
      <3>2. CASE c = n /\ n \in stack' /\ mark'[d] = "white" /\ ~Against(c, d)
        <4>1. d \in Onward(n)'
          BY <1>1, <1>2, <3>0, <3>2 DEF Onward, Markable, White, MarkingCells, CellsIn
        <4>2. d \in BlackPromised'
          BY <3>2, <4>1, BlackPromisedIsClosedNext
        <4> QED
          BY <4>2 DEF Firm
      <3>3. CASE Against(c, d)
        BY <1>9, <3>0, <3>3 DEF BlackSnapshot, GroupsAreFirm
      <3>4. CASE mark'[d] # "white"
        <4>1. mark'[d] = "black"
          BY <1>2, <1>10, <3>0, <3>4 DEF NoGrayYet, TypeOK, Colors
        <4> QED
          BY <4>1 DEF Firm
      <3>5. CASE c \in lost /\ n \notin MarkingCells /\ c \in ExactCells /\ mark'[d] = "white"
        <4>1. <<c, d>> \in incomingGray \/ Firm(d)
          BY <1>7, <3>5 DEF BlackSnapshot, GrayEdgesWait
        <4>2. CASE <<c, d>> \in incomingGray
          <5>1. <<c, d>> \in incomingGray' /\ mark'[c] = "black"
            BY <1>1, <1>6, <3>0, <3>5, <4>2
          <5>2. d \in BlackAside'
            BY <3>0, <5>1 DEF BlackAside
          <5>3. d \in Markable(BlackAside)'
            BY <1>2, <3>5, <5>2 DEF Markable, White, MarkingCells, CellsIn, ZoneOf
          <5> QED
            BY <5>3, BlackPromisedIsClosedNext DEF Firm
        <4> QED
          BY <1>9, <3>0, <4>1, <4>2
      <3>6. CASE ~Seen(c)
        <4>1. CASE c \in MarkingCells /\ mark[c] # "black"
          <5>1. mark[c] = "white" /\ mark'[c] # "white"
            BY <1>2, <1>5, <4>1 DEF Seen
          <5> QED
            BY <1>8, <3>0, <3>2, <3>3, <3>4, <5>1
        <4>2. CASE c \in ExactCells /\ mark[c] = "gray"
          <5>1. mark'[c] # "gray"
            BY <1>2, <4>2 DEF Seen
          <5> QED
            BY <1>8, <3>0, <3>4, <3>5, <4>2, <5>1
        <4> QED
          BY <3>6, <4>1, <4>2 DEF Seen
      <3> QED
        BY <3>1, <3>6
    <2>4. GrayEdgesWait'
      <3> SUFFICES ASSUME NEW c \in Kept \cap ExactCells, mark'[c] = "gray",
                          NEW d \in refs[c] \cap MarkingCells
                   PROVE  <<c, d>> \in incomingGray' \/ Firm(d)'
        BY <1>1, <1>2 DEF GrayEdgesWait
      <3>1. mark[c] = "gray" /\ d \in Cells
        BY <1>4, <1>5, <1>8
      <3> QED
        BY <1>1, <1>9, <3>1 DEF BlackSnapshot, GrayEdgesWait
    <2> QED
      BY <2>1, <2>2, <2>3, <2>4
  <1> QED
    BY <1>10, <1>11, <1>12, <1>13

LEMMA MutatorColours ==
  ASSUME IInv, HeapInv, ColourInv, TypeOK', Mutator
  PROVE  Colours'
  BY HoldColours, AllocateColours, WriteRefColours, ExposeColours DEF Mutator

-----------------------------------------------------------------------------
(* Slices keep the colours                                                   *)

\* What the first roots lead to will be black: nothing in these zones is gray.
LEMMA BeginMarkColours ==
  ASSUME IInv, HeapInv, ColourInv, TypeOK', NEW zs \in Schedules, BeginMarkPhase(zs)
  PROVE  Colours'
  <1> USE DEF IInv, ColourInv, Colours
  <1> DEFINE rooted == (roots \cup Incoming(zs)) \cap CellsIn(zs)
  <1>1. /\ stack' = rooted /\ dying = {} /\ incrementalState = "NO_INCREMENTAL"
        /\ gcState' = [z \in Zones |-> IF z \in zs THEN "Mark" ELSE "NoGC"]
        /\ mark' = [c \in Cells |-> IF c \in rooted THEN "black"
                                    ELSE IF c \in CellsIn(zs) THEN "white" ELSE mark[c]]
        /\ UNCHANGED <<allocated, refs, roots, zoneGroups, dying>>
    BY DEF BeginMarkPhase, heapVars
  <1>2. zoneGroups = <<>>
    BY <1>1 DEF Phases, GroupPhase
  <1>3. Marking' = zs /\ MarkingCells' = CellsIn(zs)
    BY <1>1, Bounds DEF Marking, MarkingCells, CellsIn, ZoneOf
  <1>4. ExactCells' = {}
    <2>1. Schedules \subseteq {Zones} => zs = Zones
      OBVIOUS
    <2>2. Exact' = {}
      BY <1>1, <1>3, <2>1 DEF Exact
    <2> QED
      BY <2>2 DEF ExactCells, CellsIn
  <1>5. Kept = allocated /\ Kept' = Kept /\ Kept \subseteq Cells
    BY <1>1 DEF Kept, TypeOK
  <1>6. \A c \in CellsIn(zs) : c \in Cells /\ mark'[c] \in {"white", "black"}
                               /\ (mark'[c] = "black" <=> c \in rooted)
    BY <1>1 DEF CellsIn
  <1>7. \A c, d : ~Against(c, d)'
    BY <1>1, <1>2 DEF Against
  <1>8. /\ stack' \subseteq BlackPromised'
        /\ \A c \in BlackPromised' \cap Cells : Onward(c)' \subseteq BlackPromised'
    BY BlackPromisedIsClosedNext
  <1>9. RootsAreFirm'
    BY <1>1, <1>3, <1>6, <1>8 DEF RootsAreFirm, Firm
  <1>10. EdgesAreFirm'
    <2> SUFFICES ASSUME NEW c \in Kept, c \in CellsIn(zs) => c \in rooted,
                        NEW d \in refs[c] \cap CellsIn(zs), mark'[d] # "black"
                 PROVE  d \in BlackPromised'
      BY <1>1, <1>3, <1>5, <1>6 DEF EdgesAreFirm, Firm, Seen
    <2>1. c \in rooted
      BY <1>5, <1>6 DEF Incoming
    <2>2. d \in Onward(c)'
      BY <1>1, <1>3, <1>6, <1>7 DEF Onward, Markable, White, CellsIn, ZoneOf
    <2> QED
      BY <1>1, <1>5, <1>8, <2>1, <2>2
  <1>11. BlackSnapshot'
    BY <1>4, <1>7, <1>9, <1>10 DEF BlackSnapshot, GroupsAreFirm, GrayEdgesWait
  <1>12. NoGrayYet'
    <2> SUFFICES ASSUME NEW c \in Cells, c \in CellsIn(zs) \/ c \notin Kept
                 PROVE  mark'[c] # "gray"
      BY <1>3, <1>5 DEF NoGrayYet
    <2>1. CASE c \in CellsIn(zs)
      BY <1>6, <2>1
    <2>2. CASE c \notin CellsIn(zs) /\ c \notin Kept
      BY <1>1, <2>2 DEF NoGrayYet
    <2> QED
      BY <2>1, <2>2
  <1> QED
    BY <1>4, <1>11, <1>12 DEF RootsNotGray, EdgesNotGray

\* A step of the marker: the heap and what is gray stay, and only what was going
\* to be black is marked.
LEMMA MarkerKeepsColours ==
  ASSUME IInv, HeapInv, ColourInv, TypeOK', NEW popped \in SUBSET Cells, KeepsBlackPromises(popped),
         UNCHANGED <<allocated, refs, roots, dying, abortSweep, incomingGray>>,
         \A c \in Cells : mark'[c] = "gray" <=> mark[c] = "gray",
         ~abortSweep => \A c \in MarkingCells : mark'[c] = "black" => Firm(c)
  PROVE  Colours'
  <1> USE DEF IInv, ColourInv, Colours
  <1>1. UNCHANGED <<gcState, zoneGroups>>
    BY DEF KeepsBlackPromises
  <1>2. /\ MarkingCells' = MarkingCells /\ ExactCells' = ExactCells /\ Kept' = Kept
        /\ \A c, d \in Cells : Against(c, d)' = Against(c, d)
    BY <1>1, SameZones DEF ZoneOf, Against, Kept
  <1>3. \A c \in Cells : Firm(c) => Firm(c)'
    BY BlackPromisesAreKept
  <1>4. /\ MarkingCells \subseteq Cells /\ ExactCells \subseteq Cells /\ MarkingCells \cap ExactCells = {}
        /\ Kept \subseteq Cells /\ \A c \in Cells : refs[c] \subseteq Cells
    BY ColourBasics
  <1>5. BlackSnapshot'
    <2> SUFFICES ASSUME ~abortSweep
                 PROVE  RootsAreFirm' /\ EdgesAreFirm' /\ GroupsAreFirm' /\ GrayEdgesWait'
      BY DEF BlackSnapshot
    <2>1. RootsAreFirm' /\ GroupsAreFirm' /\ GrayEdgesWait'
      BY <1>2, <1>3, <1>4 DEF BlackSnapshot, RootsAreFirm, GroupsAreFirm, GrayEdgesWait
    <2>2. EdgesAreFirm'
      <3> SUFFICES ASSUME NEW c \in Kept, Seen(c)', NEW d \in refs[c] \cap MarkingCells
                   PROVE  Firm(d)'
        BY <1>2 DEF EdgesAreFirm
      <3>1. Trusted(c)
        BY <1>2, <1>4 DEF Trusted, Seen
      <3>2. Firm(d)
        BY <3>1, TrustedEdges DEF Trusted
      <3> QED
        BY <1>3, <1>4, <3>2
    <2> QED
      BY <2>1, <2>2
  <1>6. NoGrayYet' /\ RootsNotGray'
    BY <1>2, <1>4 DEF NoGrayYet, RootsNotGray
  <1>7. EdgesNotGray'
    BY <1>2, <1>4 DEF EdgesNotGray, Seen
  <1> QED
    BY <1>5, <1>6, <1>7

LEMMA SliceBoundaryColours ==
  ASSUME IInv, HeapInv, ColourInv, TypeOK', StartSlice \/ Yield
  PROVE  Colours'
  <1>1. /\ UNCHANGED <<allocated, refs, roots, mark, stack, incomingGray, gcState, zoneGroups,
                       abortSweep, dying>>
        /\ delayed \subseteq delayed'
    BY DEF StartSlice, Yield, markVars, heapVars
  <1>2. KeepsBlackPromises({})
    BY <1>1 DEF KeepsBlackPromises, BlackAside, Flagged, Markable
  <1> QED
    BY <1>1, <1>2, MarkerKeepsColours DEF Firm

LEMMA MarkCellColours ==
  ASSUME IInv, HeapInv, ColourInv, TypeOK', NEW n \in Cells, MarkCell(n)
  PROVE  Colours'
  <1> USE DEF IInv
  <1> DEFINE new == Markable(refs[n])
  <1>1. /\ n \in stack
        /\ mark' = Blacken(new) /\ stack' = (stack \ {n}) \cup new
        /\ UNCHANGED <<allocated, refs, roots, delayed, incomingGray, gcState, zoneGroups,
                       abortSweep, dying>>
    BY DEF MarkCell, heapVars, zoneVars
  <1>2. n \in Kept /\ n \in MarkingCells /\ mark[n] = "black"
    <2>1. n \in Kept /\ n \in MarkingCells /\ mark[n] # "white"
      BY <1>1 DEF HeapInv, StackInv, Phases, DyingInv, Kept, MarkingCells, CellsIn
    <2> QED
      BY <2>1, ColourBasics
  <1>3. new \subseteq Cells \cap MarkingCells /\ \A d \in new : mark[d] = "white" /\ d \in refs[n]
    BY DEF Markable, MarkingCells, CellsIn, TypeOK, White
  <1>4. \A c \in Cells : mark'[c] = IF c \in new THEN "black" ELSE mark[c]
    BY <1>1 DEF Blacken
  <1>5. KeepsBlackPromises({n})
    <2>1. \A x \in Markable(BlackAside) : x \in BlackAside' \/ mark'[x] # "white"
      BY <1>1, <1>4 DEF Markable, BlackAside, Flagged
    <2>2. \A x \in BlackPromised : \A d \in Markable(refs[x]) : d \in refs'[x]
      BY <1>1 DEF Markable
    <2>3. \A x \in Cells : /\ mark[x] = "black" => mark'[x] = "black"
                           /\ mark[x] = "white" /\ mark'[x] # "white" => x \in stack'
      BY <1>1, <1>4
    <2>4. mark'[n] = "black" /\ \A d \in new : mark'[d] # "white"
      BY <1>2, <1>3, <1>4
    <2> QED
      BY <1>1, <2>1, <2>2, <2>3, <2>4 DEF KeepsBlackPromises
  <1>6. ASSUME ~abortSweep, NEW c \in MarkingCells, mark'[c] = "black"
        PROVE  Firm(c)
    <2>1. CASE c \in new
      <3>1. Trusted(n)
        BY <1>2, ColourBasics DEF Trusted, Firm
      <3> QED
        BY <1>2, <1>3, <1>6, <2>1, <3>1, TrustedEdges DEF Trusted
    <2>2. CASE c \notin new
      BY <1>4, <1>6, <2>2 DEF Firm, MarkingCells, CellsIn
    <2> QED
      BY <2>1, <2>2
  <1>7. \A c \in Cells : mark'[c] = "gray" <=> mark[c] = "gray"
    BY <1>3, <1>4
  <1> QED
    BY <1>1, <1>5, <1>6, <1>7, MarkerKeepsColours

LEMMA MarkArenaColours ==
  ASSUME IInv, HeapInv, ColourInv, TypeOK', NEW a \in Arenas, MarkDelayedArena(a)
  PROVE  Colours'
  <1> USE DEF IInv
  <1> DEFINE new == Markable({c \in allocated : ArenaOf[c] = a})
  <1>1. /\ a \in delayed
        /\ mark' = Blacken(new) /\ stack' = stack \cup new
        /\ delayed' = delayed \ {a}
        /\ UNCHANGED <<allocated, refs, roots, incomingGray, gcState, zoneGroups, abortSweep, dying>>
    BY DEF MarkDelayedArena, MarkAndPush, Undelay, heapVars, zoneVars
  <1>2. new \subseteq Cells \cap MarkingCells /\ \A d \in new : mark[d] = "white"
    BY DEF Markable, MarkingCells, CellsIn, TypeOK, White
  <1>3. new \subseteq Markable(BlackAside)
    BY <1>1 DEF Markable, BlackAside, Flagged
  <1>4. \A c \in Cells : mark'[c] = IF c \in new THEN "black" ELSE mark[c]
    BY <1>1 DEF Blacken
  <1>5. KeepsBlackPromises({})
    <2>1. \A x \in Markable(BlackAside) : x \in BlackAside' \/ mark'[x] # "white"
      <3> SUFFICES ASSUME NEW x \in Markable(BlackAside), x \notin new
                   PROVE  x \in BlackAside'
        BY <1>2, <1>4
      <3>1. CASE x \in Flagged
        <4>1. ArenaOf[x] # a
          BY <3>1 DEF Flagged, Markable
        <4> QED
          BY <1>1, <3>1, <4>1 DEF BlackAside, Flagged
      <3>2. CASE x \notin Flagged
        BY <1>1, <1>4, <3>2 DEF BlackAside, Markable
      <3> QED
        BY <3>1, <3>2
    <2>2. \A x \in BlackPromised : \A d \in Markable(refs[x]) : d \in refs'[x]
      BY <1>1 DEF Markable
    <2>3. \A x \in Cells : /\ mark[x] = "black" => mark'[x] = "black"
                           /\ mark[x] = "white" /\ mark'[x] # "white" => x \in stack'
      BY <1>1, <1>4
    <2> QED
      BY <1>1, <2>1, <2>2, <2>3 DEF KeepsBlackPromises
  <1>6. ASSUME NEW c \in MarkingCells, mark'[c] = "black"
        PROVE  Firm(c)
    BY <1>3, <1>4, <1>6, BlackPromisedIsClosed DEF Firm, MarkingCells, CellsIn
  <1>7. \A c \in Cells : mark'[c] = "gray" <=> mark[c] = "gray"
    BY <1>2, <1>4
  <1> QED
    BY <1>1, <1>5, <1>6, <1>7, MarkerKeepsColours

\* Finalizing a dead cell: what is kept leads nowhere near it.
LEMMA FinalizeColours ==
  ASSUME IInv, HeapInv, ColourInv, TypeOK',
         NEW n \in Cells, FinalizeForeground(n) \/ FinalizeInBackground(n)
  PROVE  Colours'
  <1> USE DEF IInv, ColourInv, Colours
  <1>1. /\ n \in dying /\ dying' = dying \ {n} /\ allocated' = allocated \ {n}
        /\ refs' = [d \in Cells |-> IF d \in {n} THEN {} ELSE refs[d]]
        /\ UNCHANGED <<roots, mark, stack, delayed, incomingGray, gcState, zoneGroups, abortSweep>>
    BY DEF FinalizeForeground, FinalizeInBackground, Free, markVars
  <1>2. Kept' = Kept /\ n \notin Kept /\ Kept \subseteq Cells /\ n \notin MarkingCells
    BY <1>1 DEF Kept, TypeOK, Phases, DyingInv, MarkingCells, CellsIn
  <1>3. \A c \in Kept : refs'[c] = refs[c] /\ refs[c] \subseteq Cells
    BY <1>1, <1>2 DEF TypeOK
  <1>4. /\ MarkingCells' = MarkingCells /\ ExactCells' = ExactCells
        /\ \A c, d \in Cells : Against(c, d)' = Against(c, d)
        /\ \A c \in Cells : Seen(c)' = Seen(c)
    BY <1>1, SameZones DEF ZoneOf, Against, Seen
  <1>5. KeepsBlackPromises({})
    <2>1. \A x \in BlackPromised : refs'[x] = refs[x]
      BY <1>3, BlackPromisedIsKept
    <2>2. \A x \in Markable(BlackAside) : x \in BlackAside'
      <3>1. n \notin Markable(BlackAside)
        BY <1>2 DEF Markable, MarkingCells, CellsIn
      <3> QED
        BY <1>1, <3>1 DEF Markable, BlackAside, Flagged
    <2> QED
      BY <1>1, <2>1, <2>2 DEF KeepsBlackPromises, Markable
  <1>6. \A c \in Cells : Firm(c) => Firm(c)'
    BY <1>5, BlackPromisesAreKept
  <1>7. MarkingCells \subseteq Cells /\ ExactCells \subseteq Cells
    BY ColourBasics
  <1>8. BlackSnapshot'
    <2> SUFFICES ASSUME ~abortSweep
                 PROVE  RootsAreFirm' /\ EdgesAreFirm' /\ GroupsAreFirm' /\ GrayEdgesWait'
      BY <1>1 DEF BlackSnapshot
    <2>1. RootsAreFirm'
      BY <1>1, <1>4, <1>6, <1>7 DEF BlackSnapshot, RootsAreFirm
    <2>2. EdgesAreFirm' /\ GroupsAreFirm'
      BY <1>2, <1>3, <1>4, <1>6, <1>7 DEF BlackSnapshot, EdgesAreFirm, GroupsAreFirm
    <2>3. GrayEdgesWait'
      BY <1>1, <1>2, <1>3, <1>4, <1>6, <1>7 DEF BlackSnapshot, GrayEdgesWait
    <2> QED
      BY <2>1, <2>2, <2>3
  <1>9. NoGrayYet' /\ RootsNotGray' /\ EdgesNotGray'
    BY <1>1, <1>2, <1>3, <1>4 DEF NoGrayYet, RootsNotGray, EdgesNotGray
  <1> QED
    BY <1>8, <1>9

\* When no zone marks any more, a zone that marked has no gray cell, and the gray
\* bits of the zones that had them are as before or no longer count.
LEMMA NothingMarksColours ==
  ASSUME IInv, ColourInv, UNCHANGED <<allocated, refs, roots, dying>>,
         Marking' = {}, zoneGroups' = <<>>,
         Exact' \in {Exact, Exact \cup Marking, {}},
         \A c \in Cells : mark'[c] = "gray" => mark[c] = "gray",
         \A c \in Cells : mark[c] = "gray" /\ ZoneOf(c) \in Exact' => mark'[c] = "gray"
  PROVE  Colours'
  <1> USE DEF ColourInv, Colours
  <1>1. /\ MarkingCells' = {} /\ Kept' = Kept
        /\ ExactCells' \in {ExactCells, ExactCells \cup MarkingCells, {}}
        /\ ExactCells' = CellsIn(Exact')
    BY DEF MarkingCells, ExactCells, CellsIn, ZoneOf, Kept
  <1>2. BlackSnapshot'
    BY <1>1 DEF BlackSnapshot, RootsAreFirm, EdgesAreFirm, GroupsAreFirm, GrayEdgesWait, Against
  <1>3. MarkingCells \subseteq Cells /\ ExactCells \subseteq Cells /\ Kept \subseteq Cells
        /\ \A c \in Cells : refs[c] \subseteq Cells
    BY ColourBasics
  <1>4. NoGrayYet'
    BY <1>1 DEF NoGrayYet
  <1>5. RootsNotGray'
    BY <1>1, <1>3 DEF RootsNotGray, NoGrayYet
  <1>6. EdgesNotGray'
    <2> SUFFICES ASSUME NEW c \in Kept, Seen(c)', NEW d \in refs[c] \cap ExactCells'
                 PROVE  mark'[d] # "gray"
      BY <1>1 DEF EdgesNotGray
    <2>1. c \in MarkingCells \/ Seen(c)
      BY <1>1, <1>3 DEF Seen, CellsIn
    <2> QED
      BY <1>1, <1>3, <2>1 DEF EdgesNotGray, NoGrayYet
  <1> QED
    BY <1>2, <1>4, <1>5, <1>6

LEMMA EndColours ==
  ASSUME IInv, IInv', ColourInv, EndSweepPhase \/ FinishCollection \/ ResetMarking
  PROVE  Colours'
  <1> USE DEF IInv
  <1>1. CASE EndSweepPhase
    <2> DEFINE kept == {z \in Zones : FinishedGroup[z] = "Finished"}
    <2>1. /\ incrementalState = "SWEEP" /\ incrementalState' = "FINALIZE" /\ zoneGroups' = <<>>
          /\ gcState' = [z \in Zones |-> IF z \in kept THEN "Finished" ELSE "NoGC"]
          /\ mark' = IF foundBlackGray
                       THEN [c \in Cells |-> IF ZoneOf(c) \in kept THEN mark[c] ELSE "white"]
                       ELSE mark
          /\ UNCHANGED <<allocated, refs, roots, dying>>
      BY <1>1 DEF EndSweepPhase, GroupSwept, Sweeping, heapVars
    <2>2. Marking' = {}
      BY <2>1 DEF Phases, MarkedPhase
    <2>3. Head(zoneGroups) = zoneGroups[1] /\ zoneGroups[1] \cap Marking = {}
      BY <2>1, HeadIsSwept
    <2>4. \A z \in Zones : gcState[z] = "Sweep" <=> z \in zoneGroups[1]
      BY <2>1 DEF ColourInv, ZoneInv, SweptZones
    <2>5. kept = {z \in Zones : gcState[z] \in {"Sweep", "Finished"}}
      BY <2>3, <2>4 DEF FinishedGroup
    <2>6. Exact' \in {Exact, Exact \cup Marking}
      <3>1. {z \in Zones : gcState'[z] \in {"Sweep", "Finished"}} = kept
        BY <2>1
      <3> QED
        BY <2>2, <2>5, <3>1 DEF Exact, Marking
    <2>7. \A c \in Cells : mark'[c] = "gray" => mark[c] = "gray"
      BY <2>1
    <2>8. ASSUME NEW c \in Cells, mark[c] = "gray", ZoneOf(c) \in Exact'
          PROVE  ZoneOf(c) \in kept
      <3>1. CASE Schedules \subseteq {Zones}
        <4>1. ZoneOf(c) \notin Marking /\ ZoneOf(c) \in Zones
          BY <2>8, ZoneOfType, ColourBasics DEF MarkingCells, CellsIn
        <4>2. gcState[ZoneOf(c)] # "NoGC" /\ gcState[ZoneOf(c)] \in ZoneStates
          BY <2>1, <3>1, <4>1 DEF ColourInv, ZoneInv, AllCollected, TypeOK
        <4> QED
          BY <2>5, <4>1, <4>2 DEF Marking, ZoneStates
      <3>2. CASE ~(Schedules \subseteq {Zones})
        BY <2>1, <2>8, <3>2 DEF Exact
      <3> QED
        BY <3>1, <3>2
    <2>9. \A c \in Cells : mark[c] = "gray" /\ ZoneOf(c) \in Exact' => mark'[c] = "gray"
      BY <2>1, <2>8
    <2> QED
      BY <2>1, <2>2, <2>6, <2>7, <2>9, NothingMarksColours
  <1>2. CASE FinishCollection \/ ResetMarking
    <2>1. /\ incrementalState' = "NO_INCREMENTAL"
          /\ gcState' = [z \in Zones |-> "NoGC"]
          /\ UNCHANGED <<allocated, refs, roots, dying, mark>>
      BY <1>2 DEF FinishCollection, ResetMarking, heapVars
    <2>2. Marking' = {} /\ zoneGroups' = <<>>
      BY <2>1 DEF Phases, MarkedPhase, GroupPhase
    <2>3. Exact' \in {Exact \cup Marking, {}}
      BY <2>1, <2>2 DEF Exact, Marking
    <2> QED
      BY <2>1, <2>2, <2>3, NothingMarksColours
  <1> QED
    BY <1>1, <1>2

LEMMA ResetSweepingColours ==
  ASSUME IInv, ColourInv, ResetSweeping
  PROVE  Colours'
  <1> USE DEF ColourInv, Colours
  <1>1. /\ abortSweep' = TRUE
        /\ UNCHANGED <<allocated, refs, roots, mark, gcState, dying>>
    BY DEF ResetSweeping, heapVars
  <1>2. /\ MarkingCells' = MarkingCells /\ ExactCells' = ExactCells /\ Kept' = Kept
    BY <1>1, SameZones DEF Kept
  <1> QED
    BY <1>1, <1>2 DEF BlackSnapshot, NoGrayYet, RootsNotGray, EdgesNotGray, Seen

-----------------------------------------------------------------------------
(* Sweeping a zone group keeps the colours                                   *)

\* As OrderIsKept, for what will be black.
BlackOrderIsKept(g) ==
  /\ \A x \in Kept : \A d \in refs[x] :
       ZoneOf(x) \in Marking \ g /\ ZoneOf(d) \in g => Firm(d)
  /\ \A x \in Kept : \A d \in Onward(x) :
       ZoneOf(x) \in Marking \ g => ZoneOf(d) \notin g /\ ~Against(x, d)'
  /\ \A x \in Kept : \A d \in refs[x] : Against(x, d)' => Firm(d)

\* Every firm cell of a group is black when the marking of the group ends.
LEMMA FirmCellsGetBlack ==
  ASSUME IInv, HeapInv, ColourInv, Drained, NEW g \in SUBSET Marking, BlackOrderIsKept(g)
  PROVE  /\ \A x \in BlackPromised : x \in IncomingBlack(g) \/ ZoneOf(x) \in Marking \ g
         /\ \A d \in CellsIn(g) : Firm(d) => GroupMarks(g)[d] = "black"
  <1> USE DEF IInv
  <1> DEFINE B == IncomingBlack(g)
             S == {x \in BlackPromised : x \in B \/ ZoneOf(x) \in Marking \ g}
  <1>0. g \in SUBSET Zones /\ stack = {} /\ delayed = {}
    BY DEF Marking, Drained
  <1>1. BlackPromised \subseteq Kept \cap MarkingCells /\ BlackPromised \subseteq Cells
    BY BlackPromisedIsKept
  <1>2. Markable(BlackAside) \subseteq S
    <2> SUFFICES ASSUME NEW x \in Markable(BlackAside), ZoneOf(x) \in g
                 PROVE  x \in B
      BY BlackPromisedIsClosed DEF Markable
    <2>1. x \in CellsIn(g) /\ White(x) /\ ZoneOf(x) \in Marking
      BY <1>1, BlackPromisedIsClosed DEF Markable, CellsIn
    <2>2. \E s \in Cells : <<s, x>> \in incomingGray /\ mark[s] = "black"
      BY <1>0 DEF Markable, BlackAside, Flagged
    <2> QED
      BY <1>0, <2>1, <2>2, IncomingBlackIsClosed
  <1>3. ASSUME NEW x \in S
        PROVE  Onward(x) \subseteq S
    <2> SUFFICES ASSUME NEW d \in Onward(x)
                 PROVE  d \in B \/ ZoneOf(d) \in Marking \ g
      BY <1>1, BlackPromisedIsClosed
    <2>1. d \in Markable(refs[x]) /\ ZoneOf(d) \in Marking /\ x \in Kept
      BY <1>1 DEF Onward, Markable
    <2>2. CASE x \in B
      BY <1>0, <2>1, <2>2, IncomingBlackIsClosed
    <2>3. CASE ZoneOf(x) \in Marking \ g
      BY <2>1, <2>3 DEF BlackOrderIsKept
    <2> QED
      BY <2>2, <2>3
  <1>4. BlackPromised \subseteq S
    BY <1>0, <1>1, <1>2, <1>3, BlackPromisedIsLeast
  <1>5. ASSUME NEW d \in CellsIn(g), Firm(d)
        PROVE  GroupMarks(g)[d] = "black"
    <2>1. d \in B \/ mark[d] = "black"
      BY <1>4, <1>5 DEF Firm, CellsIn
    <2>2. d \in IncomingGray(g) => White(d) /\ d \notin B
      BY <1>0, IncomingGrayIsClosed DEF Markable
    <2> QED
      BY <2>1, <2>2 DEF GroupMarks, CellsIn, White
  <1> QED
    BY <1>4, <1>5

\* A firm cell whose zone goes on marking stays firm.
LEMMA FirmCellsStayFirm ==
  ASSUME IInv, HeapInv, ColourInv, IInv', Drained, NEW g \in SUBSET Marking, BlackOrderIsKept(g),
         NEW before \in [Zones -> ZoneStates],
         {z \in Zones : before[z] = "Mark"} = Marking,
         MarkAndSweepGroup(g, before), UNCHANGED <<stack, delayed>>
  PROVE  \A c \in CellsIn(Marking \ g) : Firm(c) => Firm(c)'
  <1> USE DEF IInv
  <1> DEFINE B == IncomingBlack(g)
             G == IncomingGray(g)
             T == {x \in BlackPromised : x \in B \/ x \in BlackPromised'}
  <1>0. g \in SUBSET Zones /\ stack = {} /\ delayed = {}
    BY DEF Marking, Drained
  <1>1. BlackPromised \subseteq Kept \cap MarkingCells /\ BlackPromised \subseteq Cells
    BY BlackPromisedIsKept
  <1>2. Marking' = Marking \ g
    BY GroupSweepEffect DEF Phases
  <1>3. /\ mark' = GroupMarks(g)
        /\ incomingGray' = {p \in incomingGray : ZoneOf(p[2]) \notin g} \cup DelayedGray(g)
        /\ \A c \in Cells : ZoneOf(c) \notin g => refs'[c] = refs[c]
    BY DEF MarkAndSweepGroup, Free, Unmarked, CellsIn
  <1>4. /\ \A c \in Cells : mark'[c] = IF c \in B THEN "black" ELSE IF c \in G THEN "gray" ELSE mark[c]
        /\ \A c \in G : c \notin B /\ ZoneOf(c) \in g /\ White(c)
    <2>1. \A c \in G : c \notin B /\ ZoneOf(c) \in g /\ White(c)
      BY <1>0, IncomingGrayIsClosed DEF CellsIn, Markable
    <2> QED
      BY <1>3, <2>1 DEF GroupMarks
  <1>5. /\ stack' \cup Markable(BlackAside)' \subseteq BlackPromised'
        /\ \A c \in BlackPromised' \cap Cells : Onward(c)' \subseteq BlackPromised'
    BY BlackPromisedIsClosedNext
  <1>6. \A x \in BlackPromised : x \in B \/ ZoneOf(x) \in Marking \ g
    BY FirmCellsGetBlack
  <1>7. Markable(BlackAside) \subseteq T
    <2> SUFFICES ASSUME NEW x \in Markable(BlackAside), x \notin B
                 PROVE  x \in BlackPromised'
      BY BlackPromisedIsClosed
    <2>1. x \in BlackPromised /\ x \in Cells /\ mark[x] = "white" /\ ZoneOf(x) \in Marking \ g
      BY <1>1, <1>6, BlackPromisedIsClosed DEF Markable, White
    <2>2. PICK s \in Cells : <<s, x>> \in incomingGray /\ mark[s] = "black"
      BY <1>0 DEF Markable, BlackAside, Flagged
    <2>3. <<s, x>> \in incomingGray' /\ mark'[s] = "black"
      BY <1>3, <1>4, <2>1, <2>2 DEF White
    <2>4. x \in BlackAside' /\ mark'[x] = "white"
      BY <1>4, <2>1, <2>3 DEF BlackAside
    <2>5. x \in Markable(BlackAside)'
      BY <1>2, <2>1, <2>4 DEF Markable, White, ZoneOf
    <2> QED
      BY <1>5, <2>5
  <1>8. ASSUME NEW x \in T
        PROVE  Onward(x) \subseteq T
    <2> SUFFICES ASSUME NEW d \in Onward(x), d \notin B
                 PROVE  d \in BlackPromised'
      BY <1>1, BlackPromisedIsClosed
    <2>1. /\ d \in BlackPromised /\ d \in Markable(refs[x]) /\ d \in Cells /\ mark[d] = "white"
          /\ x \in Kept /\ x \in Cells
      BY <1>1, BlackPromisedIsClosed DEF Onward, Markable, White
    <2>2. ZoneOf(d) \in Marking \ g /\ x \notin B
      BY <1>0, <1>6, <2>1, IncomingBlackIsClosed
    <2>3. x \in BlackPromised' /\ ZoneOf(x) \in Marking \ g
      BY <1>6, <2>2
    <2>4. d \in refs'[x] /\ ~Against(x, d)' /\ mark'[d] = "white"
      BY <1>3, <1>4, <2>1, <2>2, <2>3 DEF BlackOrderIsKept, Markable
    <2>5. d \in Onward(x)'
      BY <1>2, <2>2, <2>4 DEF Onward, Markable, White, ZoneOf
    <2> QED
      BY <1>5, <2>1, <2>3, <2>5
  <1>9. BlackPromised \subseteq T
    BY <1>0, <1>1, <1>7, <1>8, BlackPromisedIsLeast
  <1> QED
    BY <1>4, <1>9 DEF Firm, CellsIn, White

\* When a group is swept, its cells are black, gray or dead, each for a reason
\* that agrees with what points to it.
LEMMA SweepGroupColours ==
  ASSUME IInv, HeapInv, ColourInv, IInv', Drained, ~abortSweep,
         NEW g \in SUBSET Marking, BlackOrderIsKept(g),
         NEW before \in [Zones -> ZoneStates],
         {z \in Zones : before[z] = "Mark"} = Marking,
         MarkAndSweepGroup(g, before), UNCHANGED <<roots, stack, delayed>>,
         Exact' = Exact \cup g,
         \A c, d \in Cells : Against(c, d)' => ZoneOf(d) \in Marking'
  PROVE  Colours'
  <1> USE DEF IInv, ColourInv, Colours
  <1> DEFINE B == IncomingBlack(g)
             G == IncomingGray(g)
             U == Unmarked(g)
  <1>0. g \in SUBSET Zones
    BY DEF Marking
  <1>1. /\ mark' = GroupMarks(g)
        /\ incomingGray' = {p \in incomingGray : ZoneOf(p[2]) \notin g} \cup DelayedGray(g)
        /\ dying' = dying \cup (U \ {c \in U : ArenaOf[c] \in ImmediateArenas})
        /\ allocated' = allocated \ {c \in U : ArenaOf[c] \in ImmediateArenas}
        /\ refs' = [c \in Cells |-> IF c \in {d \in U : ArenaOf[d] \in ImmediateArenas}
                                    THEN {} ELSE refs[c]]
    BY DEF MarkAndSweepGroup, Free
  <1>2. /\ MarkingCells' = CellsIn(Marking \ g)
        /\ ExactCells' = ExactCells \cup CellsIn(g)
    <2>1. Marking' = Marking \ g
      BY GroupSweepEffect DEF Phases
    <2> QED
      BY <2>1 DEF MarkingCells, ExactCells, CellsIn, ZoneOf
  <1>3. U = {c \in allocated \cap CellsIn(g) : mark'[c] = "white"}
    BY <1>1 DEF Unmarked
  <1>4. /\ Kept \subseteq Cells /\ Kept' = Kept \ U
        /\ \A c \in Kept : refs'[c] = refs[c] \/ c \in U
    BY <1>1, <1>3 DEF Kept, TypeOK, Phases, DyingInv, CellsIn
  <1>5. /\ \A c \in Cells : mark'[c] = IF c \in B THEN "black" ELSE IF c \in G THEN "gray" ELSE mark[c]
        /\ \A c \in G : c \notin B /\ c \in CellsIn(g) /\ mark[c] = "white" /\ c \in Kept
        /\ \A c \in B : c \in MarkingCells /\ mark[c] = "white"
    <2>1. \A c \in G : c \notin B /\ c \in CellsIn(g) /\ mark[c] = "white" /\ c \in Kept
      BY <1>0, IncomingGrayIsClosed DEF Markable, White
    <2>2. \A c \in B : c \in MarkingCells /\ mark[c] = "white"
      BY <1>0, IncomingBlackIsMarkable DEF Markable, White, MarkingCells, CellsIn
    <2> QED
      BY <1>1, <2>1, <2>2 DEF GroupMarks
  <1>6. /\ CellsIn(g) \subseteq MarkingCells /\ CellsIn(Marking \ g) \subseteq MarkingCells
        /\ MarkingCells = CellsIn(g) \cup CellsIn(Marking \ g)
        /\ CellsIn(g) \cap CellsIn(Marking \ g) = {}
    BY DEF CellsIn, MarkingCells
  <1>7. /\ MarkingCells \subseteq Cells /\ ExactCells \subseteq Cells /\ MarkingCells \cap ExactCells = {}
        /\ \A c \in MarkingCells : mark[c] \in {"white", "black"}
        /\ \A c \in Cells : refs[c] \subseteq Cells
    BY ColourBasics
  <1>8. \A d \in CellsIn(g) : Firm(d) => mark'[d] = "black"
    BY <1>1, FirmCellsGetBlack
  <1>9. \A c \in CellsIn(Marking \ g) : Firm(c) => Firm(c)'
    BY FirmCellsStayFirm
  <1>10. \A x \in B : \A d \in refs[x] \cap MarkingCells : mark'[d] = "black"
    <2> SUFFICES ASSUME NEW x \in B, NEW d \in refs[x] \cap MarkingCells
                 PROVE  mark'[d] = "black"
      OBVIOUS
    <2>1. CASE mark[d] = "white"
      <3>1. d \in Markable(refs[x])
        BY <2>1 DEF Markable, White, MarkingCells, CellsIn
      <3> QED
        BY <1>0, <1>5, <1>7, <3>1, IncomingBlackIsClosed
    <2>2. CASE mark[d] = "black"
      BY <1>5, <1>7, <2>2
    <2> QED
      BY <1>7, <2>1, <2>2
  <1> HIDE DEF B, G, U
  \* a cell that is seen now was seen before or is now marked black
  <1>11. ASSUME NEW c \in Kept \ U, Seen(c)'
         PROVE  Seen(c) \/ c \in B
    <2>1. CASE c \in CellsIn(g)
      <3>1. mark'[c] # "white" /\ mark'[c] # "gray"
        BY <1>2, <1>3, <1>11, <2>1 DEF Seen, Kept
      <3> QED
        BY <1>4, <1>5, <1>6, <1>7, <2>1, <3>1 DEF Seen
    <2>2. CASE c \in CellsIn(Marking \ g)
      <3>1. mark'[c] = "black"
        BY <1>2, <1>11, <2>2 DEF Seen
      <3> QED
        BY <1>4, <1>5, <1>6, <1>7, <2>2, <3>1 DEF Seen
    <2>3. CASE c \notin MarkingCells
      BY <1>2, <1>4, <1>5, <1>6, <1>11, <2>3 DEF Seen
    <2> QED
      BY <1>6, <2>1, <2>2, <2>3
  \* what it points to is black, or firm if its zone goes on marking
  <1>12. ASSUME NEW c \in Kept \ U, Seen(c)', NEW d \in refs[c]
         PROVE  /\ d \in CellsIn(g) => mark'[d] = "black"
                /\ d \in CellsIn(Marking \ g) => Firm(d)'
    <2>1. CASE Seen(c)
      <3>1. d \in MarkingCells => Firm(d)
        BY <2>1 DEF BlackSnapshot, EdgesAreFirm
      <3> QED
        BY <1>6, <1>8, <1>9, <3>1
    <2>2. CASE c \in B
      BY <1>6, <1>10, <2>2 DEF Firm
    <2> QED
      BY <1>11, <1>12, <2>1, <2>2
  <1>13. BlackSnapshot'
    <2>1. RootsAreFirm'
      BY <1>2, <1>6, <1>9 DEF BlackSnapshot, RootsAreFirm
    <2>2. EdgesAreFirm'
      BY <1>2, <1>4, <1>12 DEF EdgesAreFirm
    <2>3. GroupsAreFirm'
      <3> SUFFICES ASSUME NEW c \in Kept \ U, NEW d \in refs[c], Against(c, d)'
                   PROVE  Firm(d)'
        BY <1>4 DEF GroupsAreFirm
      <3>1. Firm(d) /\ c \in Cells /\ d \in Cells
        BY <1>4, <1>7 DEF BlackOrderIsKept
      <3>2. d \in CellsIn(Marking \ g)
        BY <1>2, <3>1 DEF CellsIn, MarkingCells, ZoneOf
      <3> QED
        BY <1>9, <3>1, <3>2
    <2>4. GrayEdgesWait'
      <3> SUFFICES ASSUME NEW c \in Kept \ U, c \in ExactCells \cup CellsIn(g), mark'[c] = "gray",
                          NEW d \in refs[c] \cap CellsIn(Marking \ g)
                   PROVE  <<c, d>> \in incomingGray' \/ Firm(d)'
        BY <1>2, <1>4 DEF GrayEdgesWait
      <3>0. c \in Cells /\ d \in Cells /\ d \in MarkingCells /\ ZoneOf(d) \notin g
        BY <1>4, <1>6 DEF CellsIn
      <3>1. CASE c \in ExactCells
        <4>1. mark[c] = "gray"
          BY <1>5, <1>6, <1>7, <3>0, <3>1
        <4>2. <<c, d>> \in incomingGray \/ Firm(d)
          BY <3>0, <3>1, <4>1 DEF BlackSnapshot, GrayEdgesWait
        <4> QED
          BY <1>1, <1>9, <3>0, <4>2
      <3>2. CASE c \in CellsIn(g)
        <4>1. c \in G
          BY <1>5, <1>6, <1>7, <3>0, <3>2
        <4>2. CASE mark'[d] = "black"
          BY <4>2 DEF Firm
        <4>3. CASE mark'[d] # "black"
          <5>1. mark[d] = "white" /\ d \notin B
            BY <1>5, <1>6, <1>7, <3>0, <4>3
          <5>2. d \in Markable(refs[c]) \ IncomingBlack(g)
            BY <3>0, <5>1 DEF B, Markable, White, MarkingCells, CellsIn
          <5>3. <<c, d>> \in DelayedGray(g)
            BY <3>0, <4>1, <5>2 DEF G, DelayedGray
          <5> QED
            BY <1>1, <5>3
        <4> QED
          BY <4>2, <4>3
      <3> QED
        BY <3>1, <3>2
    <2> QED
      BY <2>1, <2>2, <2>3, <2>4 DEF BlackSnapshot
  <1>14. NoGrayYet'
    <2> SUFFICES ASSUME NEW c \in Cells, c \in CellsIn(Marking \ g) \/ c \notin Kept \/ c \in U,
                        mark'[c] = "gray"
                 PROVE  FALSE
      BY <1>2, <1>4 DEF NoGrayYet
    <2>1. CASE c \in U
      BY <1>3, <2>1
    <2>2. CASE c \in CellsIn(Marking \ g) \/ c \notin Kept
      BY <1>5, <1>6, <2>2 DEF NoGrayYet
    <2> QED
      BY <2>1, <2>2
  <1>15. RootsNotGray'
    <2> SUFFICES ASSUME NEW c \in roots, c \in ExactCells \cup CellsIn(g)
                 PROVE  mark'[c] # "gray"
      BY <1>2 DEF RootsNotGray
    <2>1. CASE c \in ExactCells
      BY <1>5, <1>6, <1>7, <2>1 DEF RootsNotGray
    <2>2. CASE c \in CellsIn(g)
      BY <1>6, <1>8, <2>2 DEF BlackSnapshot, RootsAreFirm
    <2> QED
      BY <2>1, <2>2
  <1>16. EdgesNotGray'
    <2> SUFFICES ASSUME NEW c \in Kept \ U, c \in CellsIn(Marking \ g) \/ Seen(c)', NEW d \in refs[c],
                        d \in ExactCells \cup CellsIn(g)
                 PROVE  mark'[d] # "gray"
      BY <1>2, <1>4 DEF EdgesNotGray
    <2>1. CASE d \in ExactCells
      <3>1. c \in MarkingCells \/ Seen(c)
        BY <1>5, <1>6, <1>11
      <3>2. mark[d] # "gray"
        BY <2>1, <3>1 DEF EdgesNotGray
      <3> QED
        BY <1>5, <1>6, <1>7, <2>1, <3>2
    <2>2. CASE d \in CellsIn(g) /\ c \in CellsIn(Marking \ g)
      <3>1. Firm(d)
        BY <2>2 DEF BlackOrderIsKept, CellsIn
      <3> QED
        BY <1>8, <2>2, <3>1
    <2>3. CASE d \in CellsIn(g) /\ Seen(c)'
      BY <1>12, <2>3
    <2> QED
      BY <2>1, <2>2, <2>3
  <1> QED
    BY <1>13, <1>14, <1>15, <1>16

LEMMA SweepColours ==
  ASSUME IInv, HeapInv, ColourInv, IInv', BeginSweepPhase \/ NextZoneGroup
  PROVE  Colours'
  <1> USE DEF IInv
  <1> DEFINE g == zoneGroups'[1]
  <1>1. /\ Drained /\ ~abortSweep /\ incrementalState' = "SWEEP"
        /\ UNCHANGED <<roots, stack, delayed>>
    BY DEF BeginSweepPhase, NextZoneGroup, GroupSwept, Sweeping, Phases, GroupPhase
  <1>2. PICK before \in [Zones -> ZoneStates] :
          {z \in Zones : before[z] = "Mark"} = Marking /\ MarkAndSweepGroup(g, before)
    <2>1. CASE BeginSweepPhase
      BY <2>1 DEF BeginSweepPhase, Marking, TypeOK
    <2>2. CASE NextZoneGroup
      BY <2>2, HeadIsSwept DEF NextZoneGroup, GroupSwept, Sweeping
    <2> QED
      BY <2>1, <2>2
  <1>3. /\ {z \in Zones : gcState'[z] \in {"Sweep", "Finished"}}
             = {z \in Zones : gcState[z] \in {"Sweep", "Finished"}} \cup g
        /\ g \in SUBSET Marking
        /\ Marking' = Marking \ g
    BY SweepZoneInv DEF ColourInv
  <1>4. Exact' = Exact \cup g
    BY <1>3 DEF Exact, Marking
  <1>5. \A c, d \in Cells : Against(c, d)' => ZoneOf(d) \in Marking'
    <2>1. Marking' = LaterGroups'
      BY <1>1 DEF Phases, GroupPhase
    <2> QED
      BY <2>1 DEF Against, LaterGroups, ZoneOf
  <1>6. BlackOrderIsKept(g)
    <2>1. \A x \in Kept : \A d \in refs[x] :
            \/ ZoneOf(x) \in Marking \ g /\ ZoneOf(d) \in g
            \/ Against(x, d)'
            => mark[d] = "black" \/ Against(x, d)
      BY GroupOrder
    <2>2. \A x \in Kept : \A d \in refs[x] : Against(x, d) => Firm(d)
      BY <1>1 DEF ColourInv, Colours, BlackSnapshot, GroupsAreFirm
    <2>3. \A x : \A d \in Onward(x) : d \in refs[x] /\ mark[d] # "black" /\ ~Against(x, d)
      BY DEF Onward, Markable, White
    <2> QED
      BY <2>1, <2>2, <2>3 DEF BlackOrderIsKept, Firm
  <1> QED
    BY <1>1, <1>2, <1>3, <1>4, <1>5, <1>6, SweepGroupColours

LEMMA InitColours == Init => ColourInv
  <1> SUFFICES ASSUME Init
               PROVE  ColourInv
    OBVIOUS
  <1>1. /\ zoneGroups = <<>> /\ incrementalState = "NO_INCREMENTAL"
        /\ mark = [c \in Cells |-> "white"] /\ gcState = [z \in Zones |-> "NoGC"]
        /\ allocated \subseteq Cells /\ roots \subseteq Cells
        /\ refs \in [Cells -> SUBSET Cells]
    BY HeapsAreValid DEF Init
  <1>2. MarkingCells = {}
    BY <1>1 DEF Marking, MarkingCells, CellsIn
  <1>3. BlackSnapshot
    BY <1>1, <1>2 DEF BlackSnapshot, RootsAreFirm, EdgesAreFirm, GroupsAreFirm, GrayEdgesWait, Against,
                      Kept
  <1>4. NoGrayYet /\ RootsNotGray /\ EdgesNotGray
    BY <1>1 DEF NoGrayYet, RootsNotGray, EdgesNotGray, Kept, ExactCells, CellsIn
  <1>5. ZoneInv
    BY <1>1 DEF ZoneInv, SweptZones, AllCollected
  <1> QED
    BY <1>3, <1>4, <1>5 DEF ColourInv, Colours

LEMMA StepColours == IInv /\ IInv' /\ HeapInv /\ ColourInv /\ [Next]_vars => ColourInv'
  <1> SUFFICES ASSUME IInv, IInv', HeapInv, ColourInv, [Next]_vars
               PROVE  Colours'
    BY StepZoneInv DEF ColourInv
  <1>0. TypeOK'
    BY DEF IInv
  <1>1. CASE Mutator
    BY <1>0, <1>1, MutatorColours
  <1>2. CASE \E zs \in Schedules : BeginMarkPhase(zs)
    BY <1>0, <1>2, BeginMarkColours
  <1>3. CASE Slice
    <2>1. CASE \E c \in Cells : MarkCell(c) \/ FinalizeForeground(c)
      BY <1>0, <2>1, MarkCellColours, FinalizeColours
    <2>2. CASE \E a \in Arenas : MarkDelayedArena(a)
      BY <1>0, <2>2, MarkArenaColours
    <2>3. CASE BeginSweepPhase \/ NextZoneGroup
      BY <2>3, SweepColours
    <2>4. CASE EndSweepPhase \/ FinishCollection
      BY <2>4, EndColours
    <2>5. CASE StartSlice
      BY <1>0, <2>5, SliceBoundaryColours
    <2> QED
      BY <1>3, <2>1, <2>2, <2>3, <2>4, <2>5 DEF Slice
  <1>4. CASE Yield
    BY <1>0, <1>4, SliceBoundaryColours
  <1>5. CASE Background
    BY <1>0, <1>5, FinalizeColours DEF Background
  <1>6. CASE ResetMarking \/ ResetSweeping
    BY <1>6, EndColours, ResetSweepingColours
  <1>7. CASE UNCHANGED vars
    <2>1. UNCHANGED <<allocated, refs, roots, mark, stack, delayed, incomingGray, gcState, zoneGroups,
                      abortSweep, dying>>
      BY <1>7 DEF vars, heapVars, markVars, zoneVars
    <2>2. KeepsBlackPromises({})
      BY <2>1 DEF KeepsBlackPromises, BlackAside, Flagged, Markable
    <2> QED
      BY <1>0, <2>1, <2>2, MarkerKeepsColours DEF Firm
  <1> QED
    BY <1>1, <1>2, <1>3, <1>4, <1>5, <1>6, <1>7 DEF Next

LEMMA ColoursAreRight == Spec => [](IInv /\ HeapInv /\ ColourInv)
  <1>1. Init => IInv /\ HeapInv /\ ColourInv
    BY InitIInv, InitHeapInv, InitColours
  <1>2. IInv /\ HeapInv /\ ColourInv /\ [Next]_vars => (IInv /\ HeapInv /\ ColourInv)'
    BY StepIInv, StepHeapInv, StepColours
  <1> QED
    BY <1>1, <1>2, PTL DEF Spec

\* The assertion of ShouldMarkCrossCompartment, for every heap and every order of
\* the groups: marking black meets a gray cell of another zone only in a zone that
\* is not being collected.
THEOREM BlackAlwaysMeetsGrayOutside == Spec => []BlackMeetsGrayOnlyOutside
  <1>1. IInv /\ HeapInv /\ ColourInv => BlackMeetsGrayOnlyOutside
    <2> SUFFICES ASSUME IInv, HeapInv, ColourInv, NEW c \in stack, NEW d \in refs[c],
                        mark[d] = "gray", gcState[ZoneOf(d)] # "NoGC"
                 PROVE  FALSE
      BY DEF BlackMeetsGrayOnlyOutside
    <2>1. c \in Kept /\ c \in MarkingCells
      BY DEF IInv, HeapInv, StackInv, Phases, DyingInv, Kept, MarkingCells, CellsIn
    <2>2. d \in Cells /\ ZoneOf(d) \in Zones
      BY <2>1, ColourBasics, ZoneOfType
    <2>3. d \in MarkingCells \/ d \in ExactCells
      BY <2>2 DEF IInv, TypeOK, ZoneStates, MarkingCells, ExactCells, CellsIn, Exact, Marking
    <2> QED
      BY <2>1, <2>2, <2>3 DEF ColourInv, Colours, NoGrayYet, EdgesNotGray
  <1> QED
    BY <1>1, ColoursAreRight, PTL

\* When every collection is of all zones, nothing that running code can reach is
\* gray while no collection is in progress: the cycle collector can unlink what is.
\* (When some collection leaves a zone out this is not so: see MCGrayPartial.)
THEOREM GrayIsAlwaysOutOfHand ==
  ASSUME Schedules \subseteq {Zones}
  PROVE  Spec => []GrayIsOutOfHand
  <1>1. IInv /\ HeapInv /\ ColourInv => GrayIsOutOfHand
    <2> SUFFICES ASSUME IInv, HeapInv, ColourInv, incrementalState = "NO_INCREMENTAL"
                 PROVE  \A c \in Closure(roots, refs) : mark[c] # "gray"
      BY DEF GrayIsOutOfHand
    <2> DEFINE S == {c \in Kept : mark[c] # "gray"}
    <2>1. MarkingCells = {}
      BY DEF IInv, Phases, MarkedPhase, MarkingCells, CellsIn
    <2>2. ExactCells = Cells
      BY <2>1, ZoneOfType DEF IInv, Phases, MarkedPhase, ExactCells, CellsIn, Exact
    <2>3. Kept \subseteq Cells /\ roots \subseteq Kept /\ \A c \in Kept : refs[c] \subseteq Kept
      BY ColourBasics DEF HeapInv, HeapIsClosed
    <2>4. roots \subseteq S
      BY <2>2, <2>3 DEF ColourInv, Colours, RootsNotGray
    <2>5. \A c \in S : refs[c] \subseteq S
      BY <2>1, <2>2, <2>3 DEF ColourInv, Colours, EdgesNotGray, Seen
    <2>6. Closure(roots, refs) \subseteq S
      BY <2>3, <2>4, <2>5, ClosureIsLeast
    <2> QED
      BY <2>6
  <1> QED
    BY <1>1, ColoursAreRight, PTL

-----------------------------------------------------------------------------
(* Garbage is collected.                                                     *)

\* The condemned cells are cut off: the program, the embedding and the collector's
\* lists name none of them, and only condemned cells lead to condemned cells.
NothingNamesCondemned ==
  \A c \in condemned : c \notin roots \cup grayRoots \cup bufferedGray /\ ArenaOf[c] \notin delayed
OnlyCondemnedLeadThere == \A x \in Kept : \A c \in refs[x] \cap condemned : x \in condemned

\* None of them is marked, and none is in a zone that is left out.
CondemnedAreWhite == \A c \in condemned \cap MarkingCells : mark[c] = "white"
CondemnedZones ==
  incrementalState \in {"MARK", "SWEEP"} => \A c \in condemned : gcState[ZoneOf(c)] # "NoGC"

CondemnedInv ==
  /\ condemned \subseteq Cells
  /\ NothingNamesCondemned /\ OnlyCondemnedLeadThere
  /\ CondemnedAreWhite /\ CondemnedZones
  /\ GarbageIsCollected

\* At the beginning of a collection what is condemned is cut off by definition.
LEMMA BeginCondemns ==
  ASSUME IInv, IInv', HeapInv, NEW zs \in Schedules, BeginMarkPhase(zs),
         condemned' = (allocated \cap CellsIn(zs)) \ Retained(zs)
  PROVE  CondemnedInv'
  <1> USE DEF IInv
  <1> DEFINE rooted == (roots \cup Incoming(zs)) \cap CellsIn(zs)
  <1>1. /\ delayed' = {} /\ dying = {} /\ incrementalState' = "MARK"
        /\ gcState' = [z \in Zones |-> IF z \in zs THEN "Mark" ELSE "NoGC"]
        /\ mark' = [c \in Cells |-> IF c \in rooted THEN "black"
                                    ELSE IF c \in CellsIn(zs) THEN "white" ELSE mark[c]]
        /\ bufferedGray' = grayRoots \cap CellsIn(zs)
        /\ UNCHANGED <<allocated, refs, roots, grayRoots, dying>>
    BY DEF BeginMarkPhase, heapVars, Phases, MarkedPhase, Drained
  <1>2. /\ roots \cup grayRoots \cup (allocated \ CellsIn(zs)) \subseteq Retained(zs)
        /\ \A x \in Retained(zs) \cap Cells : refs[x] \subseteq Retained(zs)
    <2>1. \A x \in Retained(zs) \cap Cells : refs[x] \subseteq Cells
      BY DEF TypeOK
    <2> QED
      BY <2>1, ClosureIsClosed DEF Retained, Closure
  <1>3. Kept = allocated /\ Kept' = Kept /\ allocated \subseteq Cells
    BY <1>1 DEF Kept, TypeOK
  <1>4. condemned' \subseteq Cells /\ \A c \in condemned' : c \in CellsIn(zs) /\ gcState'[ZoneOf(c)] = "Mark"
    BY <1>1, <1>3, Bounds DEF CellsIn
  <1>5. NothingNamesCondemned'
    BY <1>1, <1>2 DEF NothingNamesCondemned
  <1>6. OnlyCondemnedLeadThere'
    BY <1>1, <1>2, <1>3 DEF OnlyCondemnedLeadThere
  <1>7. CondemnedAreWhite'
    <2> SUFFICES ASSUME NEW c \in condemned'
                 PROVE  c \notin rooted
      BY <1>1, <1>4 DEF CondemnedAreWhite
    <2>1. c \notin Incoming(zs)
      BY <1>2, <1>3 DEF Incoming
    <2> QED
      BY <1>2, <2>1
  <1>8. CondemnedZones' /\ GarbageIsCollected'
    BY <1>4 DEF CondemnedZones, GarbageIsCollected, ZoneOf
  <1> QED
    BY <1>4, <1>5, <1>6, <1>7, <1>8 DEF CondemnedInv

\* What a later step takes off the list is closed under what it leads to.
LEMMA Pardons ==
  ASSUME TypeOK', condemned \subseteq Cells,
         condemned' = {c \in condemned : c \notin Closure(Pardoned, refs')}
  PROVE  /\ condemned' \subseteq condemned
         /\ \A c \in condemned' : c \notin roots' /\ ArenaOf[c] \notin delayed'
         /\ \A x \in condemned \ condemned' : \A d \in refs'[x] : d \notin condemned'
  <1>1. /\ roots' \subseteq Closure(Pardoned, refs')
        /\ \A c \in Cells : ArenaOf[c] \in delayed' => c \in Closure(Pardoned, refs')
    BY DEF Closure, Pardoned
  <1>2. \A x \in Cells \cap Closure(Pardoned, refs') : refs'[x] \subseteq Closure(Pardoned, refs')
    <2>1. \A x \in Cells : refs'[x] \subseteq Cells
      BY DEF TypeOK
    <2> QED
      BY <2>1, ClosureIsClosed
  <1> QED
    BY <1>1, <1>2

\* What every other step has to respect.
LEMMA CondemnedStayCutOff ==
  ASSUME CondemnedInv, TypeOK',
         condemned' = {c \in condemned : c \notin Closure(Pardoned, refs')},
         \A x \in Kept' : \A d \in refs'[x] : (x \in Kept /\ d \in refs[x]) \/ d \in roots',
         grayRoots' \subseteq grayRoots \cup roots', bufferedGray' \subseteq bufferedGray
  PROVE  condemned' \subseteq Cells /\ NothingNamesCondemned' /\ OnlyCondemnedLeadThere'
  <1>1. /\ condemned' \subseteq condemned /\ condemned \subseteq Cells
        /\ \A c \in condemned' : c \notin roots' /\ ArenaOf[c] \notin delayed'
        /\ \A x \in condemned \ condemned' : \A d \in refs'[x] : d \notin condemned'
    BY Pardons DEF CondemnedInv
  <1>2. NothingNamesCondemned'
    BY <1>1 DEF CondemnedInv, NothingNamesCondemned
  <1>3. OnlyCondemnedLeadThere'
    <2> SUFFICES ASSUME NEW x \in Kept', NEW c \in refs'[x], c \in condemned', x \notin condemned'
                 PROVE  FALSE
      BY DEF OnlyCondemnedLeadThere
    <2>1. x \in Kept /\ c \in refs[x]
      BY <1>1
    <2>2. x \in condemned
      BY <1>1, <2>1 DEF CondemnedInv, OnlyCondemnedLeadThere
    <2> QED
      BY <1>1, <2>2
  <1> QED
    BY <1>1, <1>2, <1>3

\* Steps that leave the zones as they are.
LEMMA CondemnedInSameZones ==
  ASSUME CondemnedInv, TypeOK',
         condemned' = {c \in condemned : c \notin Closure(Pardoned, refs')},
         \A x \in Kept' : \A d \in refs'[x] : (x \in Kept /\ d \in refs[x]) \/ d \in roots',
         grayRoots' \subseteq grayRoots \cup roots', bufferedGray' \subseteq bufferedGray,
         UNCHANGED <<gcState, incrementalState>>, Kept' \subseteq Kept \cup roots',
         \A c \in condemned \cap MarkingCells : c \in roots' \/ mark'[c] = "white"
  PROVE  CondemnedInv'
  <1>1. condemned' \subseteq Cells /\ NothingNamesCondemned' /\ OnlyCondemnedLeadThere'
    BY CondemnedStayCutOff
  <1>2. condemned' \subseteq condemned /\ \A c \in condemned' : c \notin roots'
    BY Pardons DEF CondemnedInv
  <1>3. CondemnedAreWhite'
    BY <1>2, SameZones DEF CondemnedInv, CondemnedAreWhite
  <1>4. CondemnedZones'
    BY <1>2 DEF CondemnedInv, CondemnedZones, ZoneOf
  <1>5. GarbageIsCollected'
    BY <1>2 DEF CondemnedInv, GarbageIsCollected, ZoneOf, Kept
  <1> QED
    BY <1>1, <1>3, <1>4, <1>5 DEF CondemnedInv

LEMMA MutatorCondemned ==
  ASSUME IInv, IInv', HeapInv, CondemnedInv, Mutator,
         condemned' = {c \in condemned : c \notin Closure(Pardoned, refs')}
  PROVE  CondemnedInv'
  <1> USE DEF IInv, HeapInv, CondemnedInv
  <1>1. CASE \/ \E c \in Cells : DropRoot(c) \/ HoldOutside(c) \/ ReleaseOutside(c)
             \/ \E c, d \in Cells : LoadRef(c, d)
    <2>1. /\ UNCHANGED <<allocated, refs, mark, bufferedGray, gcState, incrementalState, dying>>
          /\ grayRoots' \subseteq grayRoots \cup roots'
      BY <1>1 DEF DropRoot, HoldOutside, ReleaseOutside, LoadRef, markVars, zoneVars, sliceVars
    <2> QED
      BY <2>1, CondemnedInSameZones DEF Kept, CondemnedAreWhite
  <1>2. ASSUME NEW n \in Cells, Allocate(n)
        PROVE  CondemnedInv'
    <2>1. /\ allocated' = allocated \cup {n} /\ n \in roots'
          /\ refs' = [refs EXCEPT ![n] = {}]
          /\ UNCHANGED <<grayRoots, mark, bufferedGray, gcState, incrementalState, dying>>
      BY <1>2 DEF Allocate, zoneVars, sliceVars
    <2>2. Kept' \subseteq Kept \cup {n} /\ Kept' \subseteq Cells
      BY <2>1 DEF Kept, TypeOK
    <2>3. \A x \in Kept' : \A d \in refs'[x] : x \in Kept /\ d \in refs[x]
      BY <2>1, <2>2 DEF TypeOK
    <2> QED
      BY <2>1, <2>2, <2>3, CondemnedInSameZones DEF CondemnedAreWhite
  <1>3. ASSUME NEW w \in Cells, NEW old, NEW new, WriteRef(w, old, new)
        PROVE  CondemnedInv'
    <2>1. /\ w \in roots /\ old \subseteq refs[w] /\ new \subseteq roots
          /\ refs' = [refs EXCEPT ![w] = (refs[w] \ old) \cup new]
          /\ mark' = Blacken(BarrierMarks(old))
          /\ UNCHANGED <<allocated, roots, grayRoots, bufferedGray, gcState, incrementalState, dying>>
      BY <1>3 DEF WriteRef, MarkAndPush, zoneVars, sliceVars
    <2>2. Kept' = Kept /\ Kept \subseteq Cells
      BY <2>1 DEF Kept, TypeOK
    <2>3. \A x \in Kept' : \A d \in refs'[x] : d \in refs[x] \/ d \in roots'
      BY <2>1, <2>2 DEF TypeOK
    <2>4. \A c \in old : c \notin condemned
      BY <2>1 DEF OnlyCondemnedLeadThere, NothingNamesCondemned, HeapIsClosed
    <2>5. \A c \in condemned \cap MarkingCells : mark'[c] = "white"
      BY <2>1, <2>4 DEF CondemnedAreWhite, Blacken, BarrierMarks
    <2> QED
      BY <2>1, <2>2, <2>3, <2>5, CondemnedInSameZones
  <1>4. ASSUME NEW n \in Cells, Expose(n)
        PROVE  CondemnedInv'
    <2>1. /\ n \in roots'
          /\ UNCHANGED <<allocated, refs, grayRoots, bufferedGray, gcState, incrementalState, dying>>
      BY <1>4 DEF Expose, zoneVars, sliceVars
    <2>2. mark' = Blacken(BarrierMarks({n})) \/ mark' = Blacken(GrayFrom({n}))
      BY <1>4 DEF Expose, MarkAndPush
    <2>3. \A c \in condemned \cap MarkingCells : c \in roots' \/ mark'[c] = "white"
      BY <2>1, <2>2, GrayFromIsGray DEF CondemnedAreWhite, Blacken, BarrierMarks
    <2> QED
      BY <2>1, <2>3, CondemnedInSameZones DEF Kept
  <1> QED
    BY <1>1, <1>2, <1>3, <1>4 DEF Mutator

\* Marking goes from cells that are not condemned to cells that are not.
LEMMA MarkerCondemned ==
  ASSUME IInv, IInv', HeapInv, CondemnedInv,
         \/ StartSlice \/ Yield \/ ResetSweeping \/ UNCHANGED <<vars, condemned>>
         \/ \E n \in Cells : MarkCell(n) \/ FinalizeForeground(n) \/ FinalizeInBackground(n)
         \/ \E a \in Arenas : MarkDelayedArena(a),
         condemned' = {c \in condemned : c \notin Closure(Pardoned, refs')}
  PROVE  CondemnedInv'
  <1> USE DEF IInv, HeapInv, CondemnedInv
  <1>1. /\ UNCHANGED <<roots, grayRoots, bufferedGray, gcState, incrementalState>>
        /\ Kept' \subseteq Kept /\ \A x \in Kept' : refs'[x] \subseteq refs[x]
    <2>1. CASE \E n \in Cells : FinalizeForeground(n) \/ FinalizeInBackground(n)
      <3>1. PICK n \in Cells : FinalizeForeground(n) \/ FinalizeInBackground(n)
        BY <2>1
      <3>2. /\ n \in dying /\ dying' = dying \ {n} /\ allocated' = allocated \ {n}
            /\ refs' = [d \in Cells |-> IF d \in {n} THEN {} ELSE refs[d]]
            /\ UNCHANGED <<roots, grayRoots, bufferedGray, gcState, incrementalState>>
        BY <3>1 DEF FinalizeForeground, FinalizeInBackground, Free, markVars, sliceVars
      <3> QED
        BY <3>2 DEF Kept, TypeOK
    <2>2. CASE ~ \E n \in Cells : FinalizeForeground(n) \/ FinalizeInBackground(n)
      <3>1. UNCHANGED <<heapVars, dying, bufferedGray, gcState, incrementalState>>
        BY <2>2 DEF StartSlice, Yield, ResetSweeping, MarkCell, MarkDelayedArena, vars, markVars,
                    zoneVars, sliceVars
      <3> QED
        BY <3>1 DEF Kept, heapVars
    <2> QED
      BY <2>1, <2>2
  <1>2. \A c \in condemned \cap MarkingCells : mark'[c] = "white"
    <2>1. CASE mark' = mark
      BY <2>1 DEF CondemnedAreWhite
    <2>2. ASSUME NEW n \in Cells, MarkCell(n)
          PROVE  \A c \in condemned \cap MarkingCells : mark'[c] = "white"
      <3>1. n \in Kept /\ n \in MarkingCells /\ mark[n] # "white" /\ mark' = Blacken(Markable(refs[n]))
        BY <2>2 DEF MarkCell, StackInv, Phases, DyingInv, Kept, MarkingCells, CellsIn
      <3>2. \A d \in refs[n] : d \notin condemned
        BY <3>1 DEF OnlyCondemnedLeadThere, CondemnedAreWhite
      <3> QED
        BY <3>1, <3>2 DEF CondemnedAreWhite, Blacken, Markable
    <2>3. ASSUME NEW a \in Arenas, MarkDelayedArena(a)
          PROVE  \A c \in condemned \cap MarkingCells : mark'[c] = "white"
      <3>1. a \in delayed /\ mark' = Blacken(Markable({c \in allocated : ArenaOf[c] = a}))
        BY <2>3 DEF MarkDelayedArena, MarkAndPush
      <3> QED
        BY <3>1 DEF CondemnedAreWhite, NothingNamesCondemned, Blacken, Markable
    <2>4. CASE \/ StartSlice \/ Yield \/ ResetSweeping \/ UNCHANGED <<vars, condemned>>
               \/ \E n \in Cells : FinalizeForeground(n) \/ FinalizeInBackground(n)
      <3>1. mark' = mark
        BY <2>4 DEF StartSlice, Yield, ResetSweeping, FinalizeForeground, FinalizeInBackground, vars,
                    markVars
      <3> QED
        BY <2>1, <3>1
    <2> QED
      BY <2>2, <2>3, <2>4
  <1> QED
    BY <1>1, <1>2, CondemnedInSameZones

\* When sweeping ends, and when the collection does.
LEMMA EndCondemned ==
  ASSUME IInv, IInv', HeapInv, ZoneInv, CondemnedInv, EndSweepPhase \/ FinishCollection \/ ResetMarking,
         condemned' = {c \in condemned : c \notin Closure(Pardoned, refs')}
  PROVE  CondemnedInv'
  <1> USE DEF IInv, CondemnedInv
  <1>1. /\ UNCHANGED <<heapVars, dying>> /\ incrementalState' \in {"FINALIZE", "NO_INCREMENTAL"}
        /\ bufferedGray' \subseteq bufferedGray
    BY DEF EndSweepPhase, FinishCollection, ResetMarking
  <1>2. condemned' \subseteq Cells /\ NothingNamesCondemned' /\ OnlyCondemnedLeadThere'
    BY <1>1, CondemnedStayCutOff DEF Kept, heapVars
  <1>3. condemned' \subseteq condemned
    OBVIOUS
  <1>4. CondemnedAreWhite' /\ CondemnedZones'
    BY <1>1 DEF Phases, MarkedPhase, CondemnedAreWhite, CondemnedZones, MarkingCells, CellsIn
  <1>5. GarbageIsCollected'
    <2> SUFFICES ASSUME NEW c \in condemned', gcState'[ZoneOf(c)] \in {"Sweep", "Finished"}
                 PROVE  gcState[ZoneOf(c)] \in {"Sweep", "Finished"}
      BY <1>1, <1>3 DEF GarbageIsCollected, ZoneOf, heapVars
    <2>1. ZoneOf(c) \in Zones
      BY <1>3, ZoneOfType
    <2>2. EndSweepPhase
      BY <2>1 DEF FinishCollection, ResetMarking
    <2>3. FinishedGroup[ZoneOf(c)] = "Finished" /\ incrementalState = "SWEEP"
      BY <2>1, <2>2 DEF EndSweepPhase, GroupSwept, Sweeping
    <2>4. Head(zoneGroups) = zoneGroups[1]
      BY <2>3, HeadIsSwept
    <2>5. \A z \in Zones : gcState[z] = "Sweep" <=> z \in zoneGroups[1]
      BY <2>3 DEF ZoneInv, SweptZones
    <2> QED
      BY <2>1, <2>3, <2>4, <2>5 DEF FinishedGroup
  <1> QED
    BY <1>2, <1>4, <1>5 DEF CondemnedInv

\* Marking a group from the gray lists and the gray roots put aside reaches no
\* condemned cell: those of the group are dead.
LEMMA GroupMarksAreNotCondemned ==
  ASSUME IInv, HeapInv, CondemnedInv, NEW g \in SUBSET Marking, incrementalState \in {"MARK", "SWEEP"}
  PROVE  \A c \in condemned : c \notin IncomingBlack(g) \cup IncomingGray(g)
  <1> USE DEF IInv, HeapInv, CondemnedInv
  <1> DEFINE S == Kept \ condemned
  <1>1. Kept \subseteq Cells /\ S \in SUBSET Cells /\ \A x \in S : refs[x] \subseteq S
    BY DEF Kept, TypeOK, HeapIsClosed, OnlyCondemnedLeadThere
  <1>2. \A s, d \in Cells : <<s, d>> \in incomingGray => d \in S
    <2> SUFFICES ASSUME NEW s \in Cells, NEW d \in Cells, <<s, d>> \in incomingGray
                 PROVE  d \in S
      OBVIOUS
    <2>1. s \in Kept /\ s \notin MarkingCells /\ d \in refs[s]
      BY DEF GrayInv
    <2>2. s \notin condemned
      <3>1. ZoneOf(s) \in Zones /\ ZoneOf(s) \notin Marking
        BY <2>1, ZoneOfType DEF MarkingCells, CellsIn
      <3>2. s \in condemned => gcState[ZoneOf(s)] \in {"Sweep", "Finished"}
        BY <3>1 DEF CondemnedZones, Marking, TypeOK, ZoneStates
      <3> QED
        BY <2>1, <3>2 DEF GarbageIsCollected, Kept
    <2> QED
      BY <1>1, <2>1, <2>2
  <1>3. IncomingBlack(g) \subseteq S
    <2> DEFINE from == Markable({d \in CellsIn(g) : \E s \in Cells :
                                   <<s, d>> \in incomingGray /\ mark[s] = "black"})
               next == [c \in Cells |-> Markable(refs[c])]
    <2>1. from \subseteq S
      BY <1>2 DEF Markable, CellsIn
    <2>2. \A x \in S : next[x] \subseteq S
      BY <1>1 DEF Markable
    <2>3. IncomingBlack(g) = Closure(from, next)
      BY DEF IncomingBlack
    <2> HIDE DEF from, next, S
    <2> QED
      BY <1>1, <2>1, <2>2, <2>3, ClosureIsLeast
  <1>4. IncomingGray(g) \subseteq S
    <2> DEFINE grayable(T) == Markable(T \cap CellsIn(g)) \ IncomingBlack(g)
               from == grayable(bufferedGray
                         \cup {d \in Cells : \E s \in Cells :
                                 <<s, d>> \in incomingGray /\ mark[s] = "gray"})
               next == [c \in Cells |-> grayable(refs[c])]
    <2>1. from \subseteq S
      <3>1. \A c \in bufferedGray : c \in MarkingCells => c \in S
        BY DEF GrayInv, Phases, DyingInv, Kept, MarkingCells, CellsIn, NothingNamesCondemned
      <3> QED
        BY <1>2, <3>1 DEF Markable, CellsIn, MarkingCells
    <2>2. \A x \in S : next[x] \subseteq S
      BY <1>1 DEF Markable
    <2>3. IncomingGray(g) = Closure(from, next)
      BY DEF IncomingGray
    <2> HIDE DEF from, next, S
    <2> QED
      BY <1>1, <2>1, <2>2, <2>3, ClosureIsLeast
  <1> QED
    BY <1>3, <1>4

LEMMA SweepCondemned ==
  ASSUME IInv, IInv', HeapInv, ZoneInv, CondemnedInv, BeginSweepPhase \/ NextZoneGroup,
         condemned' = {c \in condemned : c \notin Closure(Pardoned, refs')}
  PROVE  CondemnedInv'
  <1> USE DEF IInv, HeapInv, CondemnedInv
  <1> DEFINE g == zoneGroups'[1]
             U == Unmarked(g)
  <1>1. /\ incrementalState \in {"MARK", "SWEEP"}
        /\ UNCHANGED <<roots, grayRoots, bufferedGray>>
        /\ \E before : MarkAndSweepGroup(g, before)
    BY DEF BeginSweepPhase, NextZoneGroup, GroupSwept, Sweeping
  <1>2. /\ {z \in Zones : gcState'[z] \in {"Sweep", "Finished"}}
             = {z \in Zones : gcState[z] \in {"Sweep", "Finished"}} \cup g
        /\ g \in SUBSET Marking
        /\ Marking' = Marking \ g
    BY SweepZoneInv
  <1>3. /\ mark' = GroupMarks(g)
        /\ dying' = dying \cup (U \ {c \in U : ArenaOf[c] \in ImmediateArenas})
        /\ allocated' = allocated \ {c \in U : ArenaOf[c] \in ImmediateArenas}
        /\ refs' = [c \in Cells |-> IF c \in {d \in U : ArenaOf[d] \in ImmediateArenas}
                                    THEN {} ELSE refs[c]]
    BY <1>1 DEF MarkAndSweepGroup, Free
  <1>4. U = {c \in allocated \cap CellsIn(g) : mark'[c] = "white"}
    BY <1>3 DEF Unmarked
  <1>5. Kept' \subseteq Kept \ U /\ Kept \subseteq Cells
    BY <1>3 DEF Kept, TypeOK
  <1>6. \A x \in Kept' : refs'[x] \subseteq refs[x]
    BY <1>3, <1>5
  <1>7. condemned' \subseteq Cells /\ NothingNamesCondemned' /\ OnlyCondemnedLeadThere'
    BY <1>1, <1>5, <1>6, CondemnedStayCutOff
  <1>8. condemned' \subseteq condemned /\ condemned \subseteq Cells
    OBVIOUS
  <1>9. \A c \in condemned \cap MarkingCells : mark'[c] = "white"
    BY <1>1, <1>2, <1>3, GroupMarksAreNotCondemned DEF GroupMarks, CondemnedAreWhite
  <1> HIDE DEF g, U
  <1>10. CondemnedAreWhite'
    BY <1>2, <1>8, <1>9 DEF CondemnedAreWhite, MarkingCells, CellsIn, ZoneOf
  <1>11. \A c \in condemned : ZoneOf(c) \in Zones
    BY <1>8, ZoneOfType
  <1>12. CondemnedZones'
    <2> SUFFICES ASSUME NEW c \in condemned
                 PROVE  gcState'[ZoneOf(c)] # "NoGC"
      BY <1>8 DEF CondemnedZones, ZoneOf
    <2>1. gcState[ZoneOf(c)] \in {"Mark", "Sweep", "Finished"}
      BY <1>1, <1>11 DEF CondemnedZones, TypeOK, ZoneStates
    <2>2. ZoneOf(c) \in Marking \/ gcState'[ZoneOf(c)] \in {"Sweep", "Finished"}
      BY <1>2, <1>11, <2>1 DEF Marking
    <2> QED
      BY <1>2, <1>11, <2>2 DEF Marking
  <1>13. GarbageIsCollected'
    <2> SUFFICES ASSUME NEW c \in condemned, gcState'[ZoneOf(c)] \in {"Sweep", "Finished"}, c \in Kept'
                 PROVE  FALSE
      BY <1>8 DEF GarbageIsCollected, ZoneOf, Kept
    <2>1. CASE gcState[ZoneOf(c)] \in {"Sweep", "Finished"}
      BY <1>5, <2>1 DEF GarbageIsCollected, Kept
    <2>2. CASE ZoneOf(c) \in g
      BY <1>2, <1>4, <1>5, <1>8, <1>9, <2>2 DEF Kept, MarkingCells, CellsIn
    <2> QED
      BY <1>2, <1>11, <2>1, <2>2
  <1> QED
    BY <1>7, <1>10, <1>12, <1>13

LEMMA StepCondemned ==
  ASSUME IInv, IInv', HeapInv, ZoneInv, CondemnedInv, [PreciseNext]_<<vars, condemned>>
  PROVE  CondemnedInv'
  <1>1. CASE \E zs \in Schedules :
               /\ BeginMarkPhase(zs)
               /\ condemned' = (allocated \cap CellsIn(zs)) \ Retained(zs)
    BY <1>1, BeginCondemns
  <1>2. CASE /\ Mutator \/ Slice \/ Yield \/ Background \/ ResetMarking \/ ResetSweeping
             /\ condemned' = {c \in condemned : c \notin Closure(Pardoned, refs')}
    BY <1>2, MutatorCondemned, MarkerCondemned, SweepCondemned, EndCondemned DEF Slice, Background
  <1>3. CASE UNCHANGED <<vars, condemned>>
    BY <1>3 DEF CondemnedInv, NothingNamesCondemned, OnlyCondemnedLeadThere, CondemnedAreWhite,
                CondemnedZones, GarbageIsCollected, MarkingCells, Marking, CellsIn, ZoneOf, Kept,
                vars, heapVars, markVars, zoneVars, sliceVars
  <1> QED
    BY <1>1, <1>2, <1>3 DEF PreciseNext

\* Whatever cells the roots did not lead to when a collection began are freed, or
\* wait for their finalizer, as soon as their zone has been marked, unless the
\* program gets hold of them again or allocates beside them.
THEOREM GarbageIsAlwaysCollected == PreciseSpec => []GarbageIsCollected
  <1> DEFINE All == IInv /\ HeapInv /\ ZoneInv /\ CondemnedInv
  <1>1. PreciseInit => All
    <2> SUFFICES ASSUME Init, condemned = {}
                 PROVE  CondemnedInv
      BY InitIInv, InitHeapInv, InitColours DEF PreciseInit, ColourInv
    <2> QED
      BY DEF CondemnedInv, NothingNamesCondemned, OnlyCondemnedLeadThere, CondemnedAreWhite,
             CondemnedZones, GarbageIsCollected
  <1>2. All /\ [PreciseNext]_<<vars, condemned>> => All'
    <2> SUFFICES ASSUME All, [PreciseNext]_<<vars, condemned>>
                 PROVE  All'
      OBVIOUS
    <2>1. [Next]_vars
      BY DEF PreciseNext, Next
    <2>2. IInv' /\ HeapInv' /\ ZoneInv'
      BY <2>1, StepIInv, StepHeapInv, StepZoneInv
    <2> QED
      BY <2>2, StepCondemned
  <1>3. All => GarbageIsCollected
    BY DEF CondemnedInv
  <1> QED
    BY <1>1, <1>2, <1>3, PTL DEF PreciseSpec

=============================================================================
