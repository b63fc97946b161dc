CONSTANTS
    Clients = {c1, c2}
    NoClient = noclient
SPECIFICATION SessionSpec
INVARIANTS
    ReleasedHoldsNothing
CHECK_DEADLOCK FALSE
