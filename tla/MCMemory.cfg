CONSTANTS
    Threads = {t1, t2}
    NSIZES = 2
    PerPage <- TwoClasses
    NPAGEREFS = 2
    NPages = 3
    Procs = {p1, p2}
    First = p1
    Paths = {f1, f2}
    Handles = {0, 1, 2}
    Blocks = {1, 3}
    MaxOffset = 1
    MaxOpens = 2
    Odd = {"badfd"}
    None = None
    NUM_TLB = 2
    RAM = 8
    MaxNoMem = 1
SPECIFICATION MCSpec
INVARIANTS HeapSound   CopiesRight
CHECK_DEADLOCK FALSE
