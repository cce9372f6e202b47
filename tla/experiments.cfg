SPECIFICATION Spec
CONSTANTS
    PValue <- MCPValue
    Grid <- MCGrid
    Baselines <- MCBaselines
    Outcomes <- MCOutcomes
    Queries = {1, 2, 3}
    Names = {"first", "second"}
    Orgs = {"acme", "globex"}
    MaxRuns = 2
INVARIANTS FamilyWise ReadBack RerunsNeverOverstate
