SPECIFICATION Spec
CONSTANTS
    Requests <- MCRequests
    AnthropicPaths = {"/v1/messages"}
    KeyOrder <- MCKeyOrder
    Spellings = {"plain", "escaped", "exponent"}
    Precision = 3
    MaxNumber = 28
    MaxDepth = 3
    MaxAnalyzed = 2
INVARIANTS
    CollisionResistant
CHECK_DEADLOCK FALSE
