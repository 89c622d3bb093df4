CONSTANTS
    Writers = {w1, w2}
    Pollers = {p1}
    Readers = {r1, r2}
    Locking = {r1, r2}
    Size = 2
    MaxTyped = 3
    MaxPolled = 1
    Threads = {t1, t2}
    Sectors = {s1, s2}
    Values = {v1, v2}
    MaxTries = 1
    Failing = {"read"}
    Slots = {0, 1}
    Cards = {"emu", "ltimer", "lser", "lhd", "lrandom", "ltrace", "foreign", "empty"}
    CPUS = {0, 1, 2, 3}
    MAXDUDS = 1
    MaxStray = 1
    MaxNoMem = 1
    SECS = 2
    SECOND = 6
    SMALL = 3
    DELAY = 2
SPECIFICATION MCSpec
INVARIANTS DiskSound ConsoleSound BusSound
PROPERTIES DevicesAnswer
