\* The launch daemon, which is root, on five machines; four volumes, two steps of
\* the host during a request; every command may fail, and every one may hang.
SPECIFICATION FairSpec
CONSTANTS
  Volumes = {"/", "/Volumes/share", "/Volumes/usb", "/dev"}
  KindOf <- KindOfEach
  Machines <- Macs
  PageCounts <- Few
  Physical = 5
  Word = 16
  Root = TRUE
  Fallible <- Every
  Blocking <- Every
  MaxSteps = 2
  MaxUptime = 1
INVARIANTS TypeOK UptimeProper MemoryAddsUp MountedVolumesReported AppleGpuNamed
PROPERTIES PowermetricsGivenUp
