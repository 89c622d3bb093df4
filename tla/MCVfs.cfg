CONSTANTS
    Refs = {1, 2, 3, 4}
    Fs = "sfs"
    Undisturbed = TRUE
    None = None
    Threads = {t1, t2}
    Disks = {1}
SPECIFICATION MCSpec
INVARIANTS   MountedWhileUsed
PROPERTY ReclaimEnds
CHECK_DEADLOCK FALSE
