SPECIFICATION FairSpec
CONSTANTS
    NbTraces = 3
    Keys = {"a", "b", "m", "c0", "c1", "c2"}
    Workloads <- AllTraces
INVARIANTS NothingLost AllConverted Causality TimesOrdered ReplayAtRequest
PROPERTIES MergeLiveSpec
