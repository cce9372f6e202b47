\* One webhook at a time, an update delivered after the deletion.
SPECIFICATION Spec
CONSTANTS
    Subs = {s1}
    Plans = {"starter", "growth"}
    Webhooks = {w1}
    LastPeriod = 2
    MaxEvents = 3
    MaxFaults = 0
SYMMETRY Symmetry
INVARIANTS OrderTolerant
CHECK_DEADLOCK FALSE
