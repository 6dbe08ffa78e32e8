\* Two collectors on a machine whose driver fails; nothing else goes wrong.
SPECIFICATION Spec
CONSTANTS
  Collectors = {c1, c2}
  Hosts <- Nvidia
  AvailableTTL = 2
  UnsupportedTTL = 1
  Threshold = 2
  MaxChanges = 1
  MaxBack = 0
  Faults = {}
PROPERTIES ConsecutiveFailuresRediscover
