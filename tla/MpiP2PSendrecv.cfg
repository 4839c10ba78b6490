\* The converter may wait forever: it is what the run shows.
SPECIFICATION FairSpec
CONSTANTS
    NbProcs = 3
    Tags = {1, 2}
    Ptrs = {1, 2}
    Programs <- Round
PROPERTIES EverythingHandled
CHECK_DEADLOCK FALSE
