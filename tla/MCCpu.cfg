CONSTANTS
    CPUs = {c1, c2}
    Threads = {t1, t2, t3}
    Boot <- MCBoot
    Locks = {}
    StopCodes = {"OFFLINE", "PANIC"}
    MaxQueue = 1
    None = None
    c1 = c1
    c2 = c2
    t1 = t1
    t2 = t2
    t3 = t3
    t4 = t4
    MaxDepth = 4
    head = head
    tail = tail
    Null = Null
SPECIFICATION MCSpec
INVARIANTS InterruptsMatchLocks RunnableSeen ListIntact
CHECK_DEADLOCK FALSE
