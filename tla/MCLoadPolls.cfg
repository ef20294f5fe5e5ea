SPECIFICATION FairSpec
CONSTANTS
    a = a
    b = b
    s = s
    t = t
    Hives = {a, b}
    Servers = {s}
    Links <- Chain
    Steady = {}
    Kinds <- Zoo
    Numbers = {2, 3}
    MaxFlying = 1
    Losses = 1
INVARIANTS
    ExactIsFact
PROPERTIES
    StaleFactsDie
