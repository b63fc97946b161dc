CONSTANTS
    Players = {ann, ben, cat}
    Premium = {ann}
    Privileged = {}
    Patient = {ben}
    MaxPlayers = 1
    TickSeconds = 10
    Bits = 3
SPECIFICATION FairSpec
PROPERTIES
    EmptyServerAdmits
