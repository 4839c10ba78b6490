SPECIFICATION FairSpec
CONSTANTS
    Threads = {1, 2}
    Main = 1
    MaxEvents = 1
    MaxStarts = 1
    Signals = {"SIGSEGV", "SIGTERM"}
INVARIANT FirstTraceSaved
PROPERTY SignalEnds
