CONSTANTS
    Clients = {c1, c2, c3}
    NoClient = noclient
SPECIFICATION SessionSpec
SYMMETRY ClientSymmetry
INVARIANTS
    SessionTypeOK
    RefsExact
    OneController
    NoReleaseInPacket
    AutosendLive
    AutosendRuns
CHECK_DEADLOCK FALSE
