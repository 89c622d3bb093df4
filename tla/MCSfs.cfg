CONSTANTS
    SFS_NDIRECT = 1
    BLOCKSIZE = 2
    DirInodes = {1, 2, 3}
    Names = {"a", "b"}
    Procs = {p}
    MaxSlots = 4
    MaxRef = 3
SPECIFICATION MCSpec
INVARIANTS BlocksOwned   
CHECK_DEADLOCK FALSE
