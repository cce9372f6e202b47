\* One subscription, two webhooks at once, three events; no symmetry, for the temporal property.
SPECIFICATION FairSpec
CONSTANTS
    Subs = {s1}
    Plans = {"growth"}
    Webhooks = {w1, w2}
    LastPeriod = 2
    MaxEvents = 3
    MaxFaults = 1
INVARIANTS RowOfLatestPeriod FollowsStripe
PROPERTIES HarmNeedsOverlap AllAcknowledged
CHECK_DEADLOCK FALSE
