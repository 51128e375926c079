CONSTANTS
    N = 2
    MAX_DEPS = 3
    MaxInst = 3
SPECIFICATION Spec
PROPERTIES FreeSlotKeepsAll
