SPECIFICATION Spec
CONSTANTS
    w1 = w1  c1 = c1  c2 = c2  f1 = f1  f2 = f2
    NoPayment = NoPayment
    Wallets = {w1}
    Requests = {r1, r2}
    Forms = {f1}
    Coins = {c1, c2}
    Owner <- OneOwner
    Selected <- NamesC1
    MinConf <- OneConf
    Coinbase = {}
    EarlyMaturity = 1
    LaterMaturity = 1
    LaterFrom = 1
    Reviewed <- UnreviewedOnly
    Operations = {"reopen", "rescan"}
    Lockable = {}
    MaxBlocks = 3
    MaxQueue = 2
    MaxReads = 1
    MaxRelays = 1
SYMMETRY Symmetric
INVARIANTS NoDoubleSpend ReservationsExact SavedPaymentsStayValid
PROPERTIES ImplementsLedger
