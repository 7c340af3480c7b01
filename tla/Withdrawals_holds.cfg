SPECIFICATION FairSpec
CONSTANTS
    w1 = w1  c1 = c1  c2 = c2  f1 = f1  f2 = f2
    NoPayment = NoPayment
    Wallets = {w1}
    Requests = {r1}
    Forms = {f1, f2}
    Coins = {c1, c2}
    Owner <- OneOwner
    Selected <- NamesC1
    MinConf <- TwoConf
    Coinbase = {c2}
    EarlyMaturity = 1
    LaterMaturity = 2
    LaterFrom = 2
    Reviewed <- ReviewsC1
    Operations = {"pause", "import"}
    MaxBlocks = 2
    MaxQueue = 2
    Lockable = {c1}
    MaxReads = 0
    MaxRelays = 0
INVARIANTS HoldsRespected InputsWereEligible
PROPERTIES SavesWhatWasReviewed EveryCallGetsItsTurn
