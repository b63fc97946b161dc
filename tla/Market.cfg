CONSTANTS
    ann = ann
    ben = ben
    Players <- TwoPlayers
    OfferIds = {1, 2}
    Prices = {1}
    Amounts = {1, 2}
    FeeMin = 0
    FeeMax = 1
    FeeShare = 2
    MaxOffers = 2
    MaxLookups = 2
    Start <- RichAndStocked
SPECIFICATION Spec
INVARIANTS
    MarketTypeOK
    HistoryBalances
PROPERTIES
    OnlyStaleAnswersCreate
    ImplementsEscrow
CHECK_DEADLOCK FALSE
