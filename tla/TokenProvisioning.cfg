\* Two installations, a rotation by the service user, and two events: a removal of
\* the file or the service, a loss of power, a kill. It stops once nothing else
\* begins.
SPECIFICATION FairSpec
CONSTANTS
  MaxTokens = 8
  Operator = "fleetpulse"
  MaxInstalls = 2
  MaxEvents = 2
  MaxRotations = 1
CHECK_DEADLOCK FALSE
INVARIANTS TypeOK InstalledTokenAccepted InstalledServiceStarts
PROPERTIES UpgradeKeepsToken InstalledServiceListens
