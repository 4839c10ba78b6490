SPECIFICATION FairSpec
CONSTANTS
    NbProcs = 3
    Types = {"barrier", "bcast", "gather", "scatter", "allgather", "alltoall", "reduce", "allreduce", "reduce_scatter", "scan"}
    Lens = {0, 1, 2}
    Tids = {1, 2}
    Programs <- AllPrograms
    Orders <- AllOrders
INVARIANTS SameCollective LeftAfterAllEntered RoundsFollow
PROPERTIES EverythingHandled
