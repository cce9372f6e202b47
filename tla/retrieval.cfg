SPECIFICATION Spec
CONSTANTS
    d1 = d1
    d2 = d2
    d3 = d3
    Chunks <- MCChunks
    TopK = 2
    RRFK = 60
    Discounts <- MCDiscounts
    Retrievers <- MCRetrievers
    Docs <- MCDocs
    DocOf <- MCDocOf
    Signals = {"citation_density", "freshness"}
    Grades = {0, 1, 2}
    Scores = {0, 1, 2}
    Coefficients = {0, 1}
    MaxQueries = 2
    MaxTokens = 3
    SentenceWeight <- MCSentenceWeight
    Whole = 27720
INVARIANTS FusionAgrees MetricsSound VisibilityEarned
CHECK_DEADLOCK FALSE
