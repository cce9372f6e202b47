\* Two requests at once: the founder, three who may join, a seat and a key to race for.
SPECIFICATION Spec
CONSTANTS
    Users = {u1, u2, u3, u4}
    Founder = u1
    Handlers = {h1, h2}
    MaxMembers = 2
    MaxApiKeys = 1
    Keys = {k1, k2, k3}
    Asks = {{"bill"}}
    Grants = {"owner", "admin", "viewer"}
    MaxJoins = 4
SYMMETRY Symmetry
INVARIANTS TypeOK SeatsOvershoot KeysOvershoot
PROPERTIES  OwnersMadeByOwners LastOwnerNeedsOverlap
CHECK_DEADLOCK FALSE
