CONSTANTS
    Programs = {p1, p2}
    MaxFd = 1
    MaxPipes = 2
    PipeSize = 2
    Bytes = {0, 1}
    Offers <- MCOffers
    Requests = {1, 3}
    Filenames <- MCFilenames
    Names <- MCNames
    FirstEight <- MCFirstEight
    NoName = "none"
    NoPipe = NoPipe
SPECIFICATION Spec
PROPERTIES ImplementsNamedPipes
