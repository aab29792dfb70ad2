CONSTANTS
  a1 = a1  a2 = a2  b1 = b1  b2 = b2
  arenaA = arenaA  arenaI = arenaI  arenaB = arenaB  zoneA = zoneA  zoneB = zoneB
  Cells <- MCCells
  Arenas <- MCArenas
  Zones <- MCZones
  ArenaOf <- MCArenaOf
  ZoneOfArena <- MCZoneOfArena
  ImmediateArenas <- ArenaI
  ForegroundArenas <- ArenaA
  Schedules <- AnyZones
  Heaps <- MCHeaps
  MaxOps = 3
  MaxRefs = 2
SPECIFICATION Spec
INVARIANT GrayIsOutOfHand
