CONSTANTS
    Chars = {"a"}
    MaxLine = 2
    MAX_HISTORY = 2
    MaxEntered = 3
SPECIFICATION ConsoleSpec
INVARIANTS ConsoleTypeOK
PROPERTIES ArrowsRecall TakesWholeLine NewestLineRuns
