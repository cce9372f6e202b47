\* Three workers: every way two first inserts and an update can race.
CONSTANTS
    Workers = {w1, w2, w3}
    Amounts = {0, 1, 2}
    MaxCalls = 4
    Nobody = nobody
SPECIFICATION UpsertFairSpec
INVARIANTS RebumpFindsRow
PROPERTIES NoLostIncrement CallReturns
CHECK_DEADLOCK FALSE
