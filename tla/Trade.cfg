CONSTANTS
    Players = {alice, bob, carol}
    Items = {bag, box, coin, gold}
    Containers = {bag, box}
    Stackable = {coin, gold}
    Places = {here, there}
    NoPlayer = noplayer
    NoItem = noitem
    Gone = gone
    Slots = 1
    Capacity = 2
SYMMETRY Symmetry
SPECIFICATION Spec
INVARIANTS
    TradeTypeOK
    PartnersAgree
    RegistryExact
    OffersDisjoint
    OffersInReach
PROPERTIES
    OfferUnchanged
    OnlyStacksStayBehind
