\* Audits one after the other while the worker is interrupted and a store fails.
CONSTANTS
    Handlers = {h1}
    Urls = {u1}
    Wants = {3}
    NumAudits = 3
    LastMonth = 1
    MaxSites = 1
    MaxAuditsPerMonth = 9
    MaxConcurrentAudits = 1
    MaxPagesPerAudit = 2
    MaxPagesPerMonth = 2
    Slots = 1
    MaxTries = 2
    Faults = {"crash", "shutdown", "store"}
    MaxFaults = 1
SPECIFICATION FairSpec
INVARIANTS BilledWithinGrants CountedAreQueuedOrInFlight PagesOvershoot
PROPERTIES SettlesForGood
CHECK_DEADLOCK FALSE
