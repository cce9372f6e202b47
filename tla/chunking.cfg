SPECIFICATION Spec
CONSTANTS
    u = u
    v = v
    stop = stop
    shut = shut
    abbr = abbr
    abbrs = abbrs
    vs = vs
    LongText = 6
    Words <- MCWords
    Stops <- MCStops
    Broken <- MCBroken
    Joined <- MCJoined
    Closed <- MCClosed
    Bare <- MCBare
    Pages <- MCPages
    Chunkers <- MCChunkers
    GenerationChunker <- MCGenerationChunker
    MinUnitTokens = 2
    MaxUnits = 2
    MinCoverage = 50
    Templates = {"what is", "how much"}
INVARIANTS WordsKept PathsAreAncestors GoldFound JudgedHoldsGold
CHECK_DEADLOCK FALSE
