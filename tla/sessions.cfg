\* Two requests at once, two passwords, a change of the Argon2 parameters.
SPECIFICATION Spec
CONSTANTS
    h1 = h1
    h2 = h2
    w1 = w1
    w2 = w2
    Handlers = {h1, h2}
    Passwords = {w1, w2}
    Second = 2
    AccessLife = 4
    RefreshLife = 6
    Keyed = TRUE
    LastTick = 4
    MaxChanges = 2
    MaxCost = 1
SYMMETRY Symmetry
PROPERTIES SurvivorNeedsOverlap OldPasswordNeedsOverlap
CHECK_DEADLOCK FALSE
