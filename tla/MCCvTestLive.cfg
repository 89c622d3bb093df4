CONSTANTS
    NTHREADS = 2
    NCVLOOPS = 2
    Threads = {0, 1}
    Locks = {testlock}
    Cvs = {testcv}
    testlock = testlock testcv = testcv None = None
SPECIFICATION CvTestFairSpec
PROPERTY EveryTurnIsTaken
CHECK_DEADLOCK FALSE
