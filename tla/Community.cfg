CONSTANTS
    Players = {ann, ben, cat}
    Parties = {p1, p2}
    NoPlayer = noplayer
    NoParty = noparty
    PublicChannels = {help}
    PrivateIds = {100}
    MaxOpen = 3
SYMMETRY CommunitySymmetry
SPECIFICATION Spec
INVARIANTS
    CommunityTypeOK
    PartiesAgree
    ListenersBelong
PROPERTIES
    PartyOfThreeSurvives
