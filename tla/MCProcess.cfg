CONSTANTS
    boot = boot
    p1 = p1
    p2 = p2
    p3 = p3
    p4 = p4
    p5 = p5
    Procs = {boot, p1, p2, p3}
    Threads = {boot, p1, p2, p3, p4, p5}
    MenuAlone = TRUE
    Codes = {0}
    PID_MIN = 2
    MAX_PID = 300
    EINVAL = 8
    None = None
SPECIFICATION MCSpec
INVARIANTS  PidTableSound  PsortRight LibrariesRight
CHECK_DEADLOCK FALSE
SYMMETRY Symmetry
