CONSTANTS
    Clients = {c1, c2}
    NoClient = noclient
SPECIFICATION FairSessionSpec
PROPERTIES
    LoginAnswered
CHECK_DEADLOCK FALSE
