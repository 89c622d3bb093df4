CONSTANTS
    NumCPUs = 2
    Threads = {t1, t2, t3}
    None = None
SPECIFICATION FairSpec
INVARIANTS  StackExclusive VictimsSuffice
PROPERTY IdleCpuUnidles
CHECK_DEADLOCK FALSE
