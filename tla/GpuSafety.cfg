\* Two collectors on one file, a host that changes, a clock that is set, and every
\* other fault.
SPECIFICATION Spec
CONSTANTS
  Collectors = {c1, c2}
  Hosts <- Renamed
  AvailableTTL = 2
  UnsupportedTTL = 1
  Threshold = 2
  MaxChanges = 1
  MaxBack = 1
  Faults = {"crash", "cancel", "open", "write", "clock"}
SYMMETRY Interchangeable
INVARIANTS TypeOK RecordsTruthful
PROPERTIES AnswersRecent
