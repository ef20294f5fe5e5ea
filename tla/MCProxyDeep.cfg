SPECIFICATION FairSpec
CONSTANTS
    Reqs = {r1}
    Backends = {1, 2, 3}
    Memberships <- AnyMembers
    LoadMaps <- FirstMayBeBusy
    ViaPaths <- ThroughAny
    TurnSpace = 4
INVARIANTS
    OnlyFailuresRetried
    GivesUpLast
PROPERTIES
    Answered
    StreamSettled
