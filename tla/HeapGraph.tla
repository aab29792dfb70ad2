----------------------------- MODULE HeapGraph -----------------------------
(***************************************************************************)
(* What the collector's modules share about the object graph: cells, the    *)
(* arenas and zones they live in, and reachability.  Reachability is stated *)
(* as a least fixed point (the cells in every closed set), so that it can   *)
(* be evaluated and reasoned about without a recursive operator.            *)
(***************************************************************************)
CONSTANTS
  Cells,        \* the GC things (gc::TenuredCell)
  Arenas,       \* the arenas cells are allocated from (gc::Arena)
  Zones,        \* the units that are collected together (JS::Zone)
  ArenaOf,      \* Cell::arena()
  ZoneOfArena   \* Arena::zone

ASSUME HeapShape ==
  /\ ArenaOf \in [Cells -> Arenas]
  /\ ZoneOfArena \in [Arenas -> Zones]

ZoneOf(c) == ZoneOfArena[ArenaOf[c]]

CellsIn(zs) == {c \in Cells : ZoneOf(c) \in zs}

\* The least set of cells that contains "from" and is closed under "next": a cell
\* is in it when no closed set leaves the cell out.
Closure(from, next) ==
  from \cup {c \in Cells :
     \A S \in SUBSET (Cells \ {c}) : ~(from \subseteq S /\ \A x \in S : next[x] \subseteq S)}
=============================================================================
