\* One collector, as under the mutex of the snapshot service: every detector,
\* requests that are cancelled, a disk that fills up.
SPECIFICATION FairSpec
CONSTANTS
  Collectors = {c1}
  Hosts <- Everything
  AvailableTTL = 2
  UnsupportedTTL = 1
  Threshold = 2
  MaxChanges = 2
  MaxBack = 0
  Faults = {"cancel", "write"}
PROPERTIES ConsecutiveFailuresRediscover EventuallyRight
