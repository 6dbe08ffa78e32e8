\* Two handlers, disks that are read whatever happens, a GPU command that may fail, or
\* hang until its request is given up, collections that may fail, clients that give
\* up; a TTL of one tick, one tick, and a wall clock that is set once, by as much,
\* back or forward.
SPECIFICATION ImpatientSpec
CONSTANTS
  Requests = {r1, r2}
  NoRequest = nobody
  Order <- DisksThenGpu
  ContextAware = {"gpu"}
  Fallible = {"gpu"}
  Blocking = {"gpu"}
  CollectErrs = TRUE
  TTL = 1
  MaxTime = 1
  MaxSet = 1
INVARIANTS TypeOK NeverBackwards
PROPERTIES StaleOnlyWhileDegraded RefreshesSpacedByTTL AtomicSpec EveryRequestAnswered
