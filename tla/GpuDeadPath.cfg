\* One collector on a machine whose card is taken out.
SPECIFICATION Spec
CONSTANTS
  Collectors = {c1}
  Hosts <- Server
  AvailableTTL = 2
  UnsupportedTTL = 1
  Threshold = 2
  MaxChanges = 1
  MaxBack = 0
  Faults = {}
PROPERTIES CachedPathWorks
