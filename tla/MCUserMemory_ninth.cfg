SPECIFICATION Spec
CONSTANTS
  Plain = Plain
  Linked = Linked
  PageSize = 2
  RegionPages = 11
  HeaderWords = 1
  ImageSize = 4
  MaxDirs = 1
  Files <- MCFiles
  FileSize <- MCFileSize
  MemSize <- MCMemSize
  NeedsLibc <- MCNeedsLibc
  LibcSize = 3
  UserHeader = 1
  Requests <- MCRequests
  Breaks <- MCBreaks
  HeapSpots <- MCHeapSpots
  MaxTasks = 3
  MaxBlocks = 2
  MaxFrames = 5
CHECK_DEADLOCK FALSE
CONSTRAINT FewStrays
INVARIANTS EveryImageIntact
