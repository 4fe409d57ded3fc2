SPECIFICATION FairSpec
CONSTANTS
  MaxPid = 4
  MaxWindows = 3
  MaxSleep = 1
  MaxKeys = 1
  Launchers = {3}
  ShellTargets = {}
  CloseTargets = {2}
  MenuUsed = TRUE
PROPERTIES FaultReaped KernelScheduled KeyWakesReader SleepEnds
