CONSTANTS
    c1 = c1
    c2 = c2
    t1 = t1
    t2 = t2
    CPUs = {c1, c2}
    Threads = {t1, t2}
    OnList = {t1}
    WithSchedule = TRUE
    Owner = c1
    head = head
    tail = tail
    Null = Null
SPECIFICATION Spec
INVARIANT ListIntact
