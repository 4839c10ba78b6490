SPECIFICATION FairSpec
CONSTANTS
    Threads = {1, 2, 3}
    NoThread = 0
    Capacity = 3
    MaxSize = 2
    Workloads <- Sizes
INVARIANTS SlotsDisjoint FlushCoversRound CompletedSaved RealTimeOrder
PROPERTY ProbesReturn
