SPECIFICATION Spec
CONSTANTS
    Threads = {1, 2}
    Main = 1
    Blocks = {b1, b2, b3}
    Counts = {1, 3}
    Elements = {1, 3}
    HeaderSize = 2
    MaxCalls = 4
    Wide = 64
    Narrow = 16
INVARIANTS UseFollows ContentsKept AllocatorKnows
