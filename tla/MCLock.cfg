CONSTANTS
    Threads = {t1, t2, t3, t4}
    None = None
    Chans = {lk_wchan, sem_wchan}
    LkChan = lk_wchan
    SemChan = sem_wchan
    InitialCount = 1
    MaxCount = 3
    NTHREADS = 4
    NCVLOOPS = 2
    testlock = testlock
    testcv = testcv
    Readers = {r1, r2, r3}
    Writers = {w1, w2}
    rd = rd
    wr = wr
SPECIFICATION MCSpec
INVARIANTS MutualExclusion  TestsPass SemNoLostWakeup
PROPERTIES Atomic LockIsTaken SemAtomic CountIsTaken
CHECK_DEADLOCK FALSE
