SPECIFICATION Spec
CONSTANTS
    None = None
    Files <- MCFiles
    Requests <- MCRequests
    Names <- MCNames
    Unset = {"$UNSET"}
    MaxInt = 7
INVARIANTS
    TypeOK
    WeightsHold
    RoutedRight
    HeaviestFirst
    CredentialsFit
CHECK_DEADLOCK FALSE
