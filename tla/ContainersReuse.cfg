SPECIFICATION ContainersSpec
CONSTANTS
    Threads = {m, a, b}
    Main = m
    Ids = {1, 2}
    Width = 4
    MaxWork = 1
INVARIANTS NotUsedAnymore
