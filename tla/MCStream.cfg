SPECIFICATION Spec
CONSTANTS
    Bodies <- MCBodies
    Limits <- MCLimits
INVARIANTS
    TypeOK
    AuditIgnoresChunks
    OnlyWholeStreamsCached
    StoredAsSent
    StatusTellsOutcome
