--------------------------- MODULE MCIncrementalGC ---------------------------
(* Two zones of two cells; in the second zone the two cells share an arena.  *)
EXTENDS IncrementalGC

CONSTANTS a1, a2, b1, b2, arenaA, arenaI, arenaB, zoneA, zoneB

MCCells == {a1, a2, b1, b2}
MCArenas == {arenaA, arenaI, arenaB}
MCZones == {zoneA, zoneB}
MCArenaOf == [c \in MCCells |-> CASE c = a1 -> arenaA [] c = a2 -> arenaI [] OTHER -> arenaB]
MCZoneOfArena == [a \in MCArenas |-> IF a = arenaB THEN zoneB ELSE zoneA]

AnyZones == (SUBSET MCZones) \ {{}}
AllZones == {MCZones}

ArenaI == {arenaI}
ArenaA == {arenaA}

Heap(cells, edges, black, gray, weakly) ==
  [allocated |-> cells,
   refs |-> [c \in MCCells |-> {d \in MCCells : <<c, d>> \in edges}],
   roots |-> black, grayRoots |-> gray, weak |-> weakly]

\* A chain across the zones held by a root and named weakly at its end, and one
\* held by the embedding.
MCHeaps ==
  { Heap({a1, a2, b1}, {<<a1, a2>>, <<a2, b1>>}, {a1}, {}, {b1}),
    Heap({a1, b1, b2}, {<<a1, b1>>, <<b1, b2>>}, {}, {a1}, {b2}),
    Heap({a1, a2, b1, b2}, {<<a1, b1>>, <<b1, a2>>, <<a2, b1>>}, {b2}, {b1}, {a1}) }
=============================================================================
