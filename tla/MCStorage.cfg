SPECIFICATION FairSpec
CONSTANTS
    e1 = e1
    e2 = e2
    Exchanges = {e1, e2}
    QueueCap = 1
    Retention = 1
    MaxClock = 2
    MaxCrashes = 1
    PartChoices <- MCPartChoices
    Row <- MCRow
    Windows = {1, 2}
INVARIANTS
    TypeOK
    WholeExchanges
    NoSilentLoss
    QuietWhenClosed
    StoreInv
    ReportsAgree
PROPERTIES
    CloseReturns
    AcceptedIsSettled
    ImplementsAuditLog
