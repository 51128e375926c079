CONSTANTS
    N = 3
    MAX_DEPS = 1
    MaxInst = 1
    Me = 1
    Join = {}
    Capacity = 4
    Cells = 2
    Threads = 4
    Requests = {"PREPARE", "PRE_ACCEPT"}
    Answers = {"COMMIT", "ACCEPT_REPLY"}
    Clients = 1
    MaxFaults = 0
    MaxAccepts = 1
    Quorum <- ZeroQuorum
SPECIFICATION NotifySpec
INVARIANT ClientsReadCommits
CHECK_DEADLOCK FALSE
