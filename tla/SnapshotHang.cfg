\* The sections of collectLive on Linux, and clients that wait for a command that
\* hangs.
SPECIFICATION FairSpec
CONSTANTS
  Requests = {r1, r2}
  NoRequest = nobody
  Order <- LiveOrder
  ContextAware = {"cpu", "gpu"}
  Fallible = {}
  Blocking = {"gpu"}
  CollectErrs = FALSE
  TTL = 1
  MaxTime = 0
  MaxSet = 0
PROPERTIES CollectorTimesOut
