SPECIFICATION MCSpec
CONSTANTS
    BufferSize = 3
    Scancodes <- MCScancodes
    KbdUs <- MCKbdUs
    KbdUsShifted <- MCKbdUsShifted
    TERMINAL_MAX_LINES = 3
    PrintedLines = {a, b}
    MaxPrinted = 2
    Width = 4
    Height = 3
    CursorSize = 2
    WindowWidth = 3
    WindowHeight = 2
    TitleHeight = 1
    Border = 0
    TaskbarTop = 2
    Spots <- MCSpots
    FirstSpot <- MCFirstSpot
    FirstWindow <- MCFirstWindow
    Texts = {t}
    Closed = Closed
INVARIANTS FrameShowsScene ShowsLastLines LinesStayInside
PROPERTIES Settles ImplementsFifo
