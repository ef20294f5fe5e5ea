SPECIFICATION Spec
CONSTANTS
    Backends = {1, 2, 3}
    LoadReports <- MCReports
    MaxInflight = 1
    TurnSpace = 4
    History = 3
INVARIANTS
    EveryMemberOnce
    NeverBeforeBetter
    TiesTakeTurns
