\* Two requests at a time against every limit, jobs that get lost, the month turning over.
CONSTANTS
    Handlers = {h1, h2}
    Urls = {u1, u2, u3}
    Wants = {2}
    NumAudits = 3
    LastMonth = 2
    MaxSites = 1
    MaxAuditsPerMonth = 1
    MaxConcurrentAudits = 1
    MaxPagesPerAudit = 1
    MaxPagesPerMonth = 2
    Slots = 1
    MaxTries = 1
    Faults = {"enqueue", "mark", "timeout", "crash"}
    MaxFaults = 1
SPECIFICATION Spec
SYMMETRY Symmetry
INVARIANTS AuditsOvershoot SitesOvershoot ConcurrencyOvershoot
CHECK_DEADLOCK FALSE
