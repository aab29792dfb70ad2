----------------------------- MODULE GCPrecision -----------------------------
(***************************************************************************)
(* What a collection is for: garbage that was there when it began is gone   *)
(* when it ends.  The collector of IncrementalGC is run with a history      *)
(* variable that remembers that garbage.                                    *)
(***************************************************************************)
EXTENDS IncrementalGC

VARIABLE condemned   \* cells the collection in progress has to reclaim

\* What the roots of a collection of the zones zs lead to.  A cell of a zone
\* that is not collected counts as a root, dead or not.
Retained(zs) ==
  Closure(roots \cup grayRoots \cup (allocated \ CellsIn(zs)), refs)

\* Garbage is taken off the list again when the program revives it through a
\* weak reference, or when it shares an arena with a cell allocated during
\* marking: all cells of such an arena are marked.
Pardoned ==
  Closure(roots', refs') \cup {c \in Cells : ArenaOf[c] \in delayed'}

PreciseInit == Init /\ condemned = {}

PreciseNext ==
  \/ \E zs \in Schedules :
       /\ BeginMarkPhase(zs)
       /\ condemned' = (allocated \cap CellsIn(zs)) \ Retained(zs)
  \/ /\ Mutator \/ Slice \/ Yield \/ Background \/ ResetMarking \/ ResetSweeping
     /\ condemned' = {c \in condemned : c \notin Closure(Pardoned, refs')}

PreciseSpec == PreciseInit /\ [][PreciseNext]_<<vars, condemned>>

\* Once a zone's group has been marked to the end, the garbage that the zone held
\* when the collection began is freed or waits for its finalizer: neither the
\* barriers, nor stale mark bits, nor wrappers of dead cells keep it alive.
GarbageIsCollected ==
  \A c \in condemned :
    gcState[ZoneOf(c)] \in {"Sweep", "Finished"} => c \notin allocated \/ c \in dying
=============================================================================
