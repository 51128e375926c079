CONSTANTS
    N = 2
    MAX_DEPS = 3
    MaxInst = 3
SPECIFICATION Spec
INVARIANTS DepsTypeOK Sorted NoDuplicates HeadIsNewest
PROPERTIES CommitKept OnlyOldestLost
