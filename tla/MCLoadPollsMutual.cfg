SPECIFICATION FairSpec
CONSTANTS
    a = a
    b = b
    s = s
    t = t
    Hives = {a, b}
    Servers = {s, t}
    Links <- Mutual
    Steady <- AllButFirst
    Kinds <- Plain
    Numbers = {1, 2}
    MaxFlying = 0
    Losses = 0
PROPERTIES
    StaleFactsDie
