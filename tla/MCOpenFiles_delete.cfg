SPECIFICATION OpenSpec
CONSTANTS
    A = A
    B = B
    old = old
    new = new
    NoFile = NoFile
    Names <- MCNames
    DirNames <- MCDirNames
    Texts <- MCTexts
    Written <- MCWritten
    Slots = 2
    SubSlots = 1
    LastCluster = 4
    DataSectors = 5
    EntriesPerSector = 4
    SectorsPerCluster = 2
    MaxSectors = 3
    FirstFat <- MCFat
    FirstDir <- MCDir
    FirstData <- MCData
    Fds = 0
    SectorSize = 2
    Counts = {3}
INVARIANTS DeletesBreakChain
