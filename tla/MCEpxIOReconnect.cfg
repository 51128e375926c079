CONSTANTS
    N = 3
    MAX_DEPS = 1
    MaxInst = 1
    Me = 1
    Join = {2}
    Capacity = 4
    Cells = 2
    Threads = 4
    Requests = {"PREPARE"}
    Answers = {"COMMIT", "ACCEPT_REPLY"}
    MaxFaults = 1
    MaxAccepts = 1
    Quorum <- ZeroQuorum
SPECIFICATION FairSpec
PROPERTY ReconnectsTheDead
CHECK_DEADLOCK FALSE
