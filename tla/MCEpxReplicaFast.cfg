CONSTANTS
    N = 3
    MAX_DEPS = 2
    MaxInst = 1
    w1 = w1
    w2 = w2
    rd = rd
    x = x
    y = y
    Command = {w1, w2}
    NoCommand = NoCommand
    Junk = Junk
    Key = {x, y}
    Spans <- MCSpans
    Writers = {w1, w2}
    Quorum <- ZeroQuorum
    Linked <- FullMesh
    MaxSeq = 3
    HeapReuse = {0, 1, 2}
    Leaders = {1, 2}
    Executors = {1}
    MaxTimeouts <- NoTimeouts
SPECIFICATION FairSpec
CHECK_DEADLOCK FALSE
INVARIANTS
    TypeOK
    CommandIntegrity
    CommittedDepsSound
    Supervised
    RepliesFindTracker
    MajorityKnows
    Healthy
PROPERTIES
    CommitSticks
    EventuallyDecided
