SPECIFICATION FairSpec
CONSTANTS
    a = a
    b = b
    c = c
    Hives = {a, b, c}
    Own = own
    Owners = {a, b}
    Links <- Ring
    DropAfter = 2
    MaxHops = 2
    MaxPaths = 1
    Called = {b, c}
    Frail = {b}
    Faults = 1
INVARIANTS
    RoutesLeadOn
PROPERTIES
    SentBackOnlyIfLost
    GhostsDie
    SettledServes
