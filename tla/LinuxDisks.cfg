\* Up to four mounts on four mount points, which change four times.
SPECIFICATION Spec
CONSTANTS
  Root = "/"
  Points = {"/data", "/media", "/proc/sys"}
  Hidden = {"/proc/sys"}
  PseudoTypes <- Pseudo
  FileSystems <- Mixed
  RootFileSystems <- MixedRoots
  Word = 16
  MaxMounts = 4
  MaxChanges = 4
INVARIANTS TypeOK BytesAddUp OneVolumePerPoint UndisturbedComplete
