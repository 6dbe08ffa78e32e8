\* Every way the layers can set the address and the authentication.
SPECIFICATION Spec
CONSTANTS
  Files <- SomeFiles
  Environments <- SomeEnvironments
  FlagSets <- SomeFlags
INVARIANTS TypeOK ExposedOnlyWithToken HighestLayerDecides
