SPECIFICATION FairSpecR
CONSTANTS
    NbProcs = 3
    Tags = {1, 2}
    Ptrs = {1, 2, 3}
    Programs <- EveryProgram
INVARIANTS PairedInOrder TimesConsistent StatusMirrored OwnMessage ReplayAfterEnded OnlyLostPending
PROPERTIES AllWaitsHandled
