CONSTANTS
    N = 3
    MAX_DEPS = 3
    MaxInst = 1
    Attributes <- MCAttributes
    Learned <- MCLearned
    MaxHandOvers = 4
SPECIFICATION Spec
CHECK_DEADLOCK FALSE
INVARIANTS
    ExecutedAfterDeps
