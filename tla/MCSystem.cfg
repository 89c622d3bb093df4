CONSTANTS
    None = None
    Threads = {t1, t2}
SPECIFICATION MCSpec
INVARIANTS   EmuSound 
CHECK_DEADLOCK FALSE
SYMMETRY Symmetry
