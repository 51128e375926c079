CONSTANTS
    N = 3
    MAX_DEPS = 2
    MaxInst = 1
    w1 = w1
    w2 = w2
    rd = rd
    x = x
    y = y
    Command = {w1, w2}
    NoCommand = NoCommand
    Junk = Junk
    Key = {x, y}
    Spans <- MCSpans
    Writers = {w1, w2}
    Quorum <- ZeroQuorum
    Linked <- FullMesh
    MaxSeq = 3
    HeapReuse = {2}
    Leaders = {1, 2}
    Executors = {0}
    MaxTimeouts <- T111
SPECIFICATION RecoverySpec
CHECK_DEADLOCK FALSE
INVARIANTS
    CommandIntegrity
    CommittedDepsSound
    Supervised
    RepliesFindTracker
    PromisesOwned
    MajorityKnows
PROPERTIES
    PromiseKept
    ReopenedByOwnRecovery
