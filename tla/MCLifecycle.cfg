SPECIFICATION FairLifeSpec
CONSTANTS
    e1 = e1
    e2 = e2
    Exchanges = {e1, e2}
    QueueCap = 1
    Retention = 0
    MaxClock = 1
    MaxCrashes = 1
    PartChoices <- MCPartChoices
INVARIANTS
    LifeTypeOK
    CleanStop
    StopInv
PROPERTIES
    TurnedAwayOnlyOnError
    SignalEndsProcess
    KeptForever
