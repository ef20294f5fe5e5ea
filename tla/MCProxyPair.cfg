SPECIFICATION Spec
CONSTANTS
    Reqs = {r1, r2}
    Backends = {1, 2}
    Memberships <- OneMayLeave
    LoadMaps <- AlwaysIdle
    ViaPaths <- ThroughFirst
    TurnSpace = 2
SYMMETRY Symmetry
INVARIANTS
    TypeOK
    InflightExact
    LogTellsTruth
    CoolingAskedLast
