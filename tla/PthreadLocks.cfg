SPECIFICATION Spec
CONSTANTS
    A = A  B = B  C = C
    m1 = m1  m2 = m2  s = s  rw = rw  sem = sem  c = c  b = b
    NoThread = NoThread
    Threads = {A, B, C}
    Mutexes = {m1, m2}
    Spins = {s}
    RWLocks = {rw}
    Semaphores = {sem}
    Conditions = {c}
    Barriers = {b}
    Programs <- LegalPrograms
INVARIANTS SectionsDisjoint ExclusionUntilExit StatesShown WarningsBlurred
