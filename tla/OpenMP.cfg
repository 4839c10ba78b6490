SPECIFICATION Spec
CONSTANTS
    Threads = {1, 2, 3}
    Initial = {1, 2}
    MaxRegions = 2
    MaxConstructs = 2
INVARIANTS SectionsFollow LinksComplete StatesShown
CHECK_DEADLOCK FALSE
