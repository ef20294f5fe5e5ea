SPECIFICATION FairSpec
CONSTANTS
    Backends = {"p"}
    Models = {"m"}
    Conditions <- AllConditions
    Jobs <- TwoWays
    DropAfter = 2
INVARIANTS
    TypeOK
PROPERTIES
    ScansAreAtomic
    ListFollows
    PassesEnd
    CountersGo
