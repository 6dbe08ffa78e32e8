\* One installation, then one rotation by an administrator; nothing is killed.
SPECIFICATION FairSpec
CONSTANTS
  MaxTokens = 8
  Operator = "root"
  MaxInstalls = 1
  MaxEvents = 0
  MaxRotations = 1
CHECK_DEADLOCK FALSE
PROPERTIES RotatedTokenAccepted
