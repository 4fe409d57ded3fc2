SPECIFICATION Spec
CONSTANTS
  MaxPid = 4
  MaxWindows = 3
  MaxSleep = 0
  MaxKeys = 0
  Launchers = {3}
  ShellTargets = {4}
  CloseTargets = {0, 2}
  MenuUsed = TRUE
INVARIANTS RingIntact CpuOnLinkedTask NoOrphanWindow
