SPECIFICATION FairSpec
CONSTANTS
    p1 = p1
    p2 = p2
    p3 = p3
    Providers = {p1, p2, p3}
    Raw = Raw
INVARIANTS
    TypeOK
    BodiesReleased
    BestAnswer
    EachProviderOnce
    AttributedToAnswer
PROPERTIES
    RequestEnds
