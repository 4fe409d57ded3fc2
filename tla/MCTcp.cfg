SPECIFICATION Spec
CONSTANTS
    istemci = istemci
    tarayici = tarayici
    NoSocket = NoSocket
    Apps <- MCApps
    MaxSockets = 2
    Connections = 3
    PortSpace = 2
    RxCap = 1
    StreamBound = 1
    WriteBound = 1
    LossBound = 2
    RingBound = 2
SYMMETRY AppSymmetry
CONSTRAINT PortsLast
INVARIANTS OwnBytesOnly EndsAgree AcksOnlySent SocketsNotShared
