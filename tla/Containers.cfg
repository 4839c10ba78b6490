SPECIFICATION ContainersSpec
CONSTANTS
    Threads = {m, a, b, c}
    Main = m
    Ids = {1, 3, 5}
    Width = 4
    MaxWork = 2
INVARIANTS OneContainer StatesFollow DestroyedIsLast
