CONSTANTS
    N = 3
    MAX_DEPS = 2
    MaxInst = 3
    w1 = w1
    w2 = w2
    rd = rd
    x = x
    y = y
    Command = {w1, w2, rd}
    NoCommand = NoCommand
    Junk = Junk
    Key = {x, y}
    Spans <- MCSpans
    Writers = {w1, w2}
    Quorum <- ZeroQuorum
    Linked <- FullMesh
    MaxSeq = 4
    HeapReuse = {}
    Leaders = {1}
    Executors = {0}
    MaxTimeouts <- T111
SPECIFICATION NumbersSpec
CHECK_DEADLOCK FALSE
INVARIANTS
    ClearingUnseen
    CommittedDepsSound
