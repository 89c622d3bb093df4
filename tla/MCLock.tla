---------------------------- MODULE MCLock ----------------------------
(***************************************************************************)
(* A lock, a semaphore, and the tests of the kernel's menu: cvtest on a    *)
(* condition variable, rwlocktest on a reader-writer lock, the tests and   *)
(* problems of SynchTests, and the file system tests of FsTest.  One of    *)
(* them is used at a time: client says which.                              *)
(***************************************************************************)
EXTENDS Lock, Semaphore

CONSTANTS NTHREADS, NCVLOOPS, testlock, testcv, Readers, Writers, rd, wr

VARIABLES
    client,
    cv_wchan, frame, testval1, loops, missed, cv_owner, cv_pc,
    count, passed, rw_wc_lock, rw_wc_threads, rw_owner, rw_pc,
    st_owner, st_wchan, st_frame, st_pc, menu, test, n, runs, sem, testval, left, wakerdone, done_seen,
    which, service_mode, waiting,
    fs_test, names, data, fs_pc, threadsem, errors, failed

Cv == INSTANCE CondVar WITH
    Threads <- 0..NTHREADS-1, Locks <- {testlock}, Cvs <- {testcv},
    lk_owner <- cv_owner, pc <- cv_pc

Rw == INSTANCE RwLock WITH
    Threads <- Readers \cup Writers, Chans <- {rd, wr},
    wc_lock <- rw_wc_lock, wc_threads <- rw_wc_threads, lk_owner <- rw_owner, pc <- rw_pc

\* Three threads a test, a whale of each kind, four people, two sleepers.
St == INSTANCE SynchTests WITH
    Threads <- 1..6, NTHREADS <- 3, NMATING <- 1, NPEOPLE <- 4, NSLEEPS <- 2, SLEEPALOT <- 2, RUNS <- 1,
    Locks <- {"male", "female", "match", "testlock", "mate_lock", "br_lock"},
    Cvs <- {"wc0", "wc1", "mate_cv", "boy_cv", "girl_cv"},
    lk_owner <- st_owner, cv_wchan <- st_wchan, frame <- st_frame, pc <- st_pc

Fs == INSTANCE FsTest WITH NCHUNKS <- 2, NTHREADS <- 3, NCREATES <- 2, MaxErrors <- 2, test <- fs_test, pc <- fs_pc

ASSUME Cv!CvTestAssumption /\ Rw!RwAssumption /\ St!SynchTestsAssumption /\ Fs!FsTestAssumption

cvvars == <<cv_wchan, frame, testval1, loops, missed, cv_owner, cv_pc>>
rwvars == <<count, passed, rw_wc_lock, rw_wc_threads, rw_owner, rw_pc>>
stvars == <<st_owner, st_wchan, st_frame, st_pc, menu, test, n, runs, sem, testval, left, wakerdone, done_seen,
            which, service_mode, waiting>>
fsvars == <<fs_test, names, data, fs_pc, threadsem, errors, failed>>
testvars == <<cvvars, rwvars, stvars, fsvars>>
lockvars == <<lk_lock, lk_owner, target, inside, pc>>
semavars == <<sem_lock, sem_count, sem_target, sem_pc>>
synchvars == <<wchanVars, lockvars, semavars>>
allvars == <<client, synchvars, testvars>>

LockStep(t) == client = "lock" /\ (lock_acquire(t) \/ lock_release(t)) /\ UNCHANGED <<client, semavars, testvars>>

SemStep(t) == client = "semaphore" /\ (PStep(t) \/ VStep(t)) /\ UNCHANGED <<client, lockvars, testvars>>

MCInit ==
    /\ client \in {"lock", "semaphore", "cvtest", "rwlocktest", "synchtests", "fstest"}
    /\ Init /\ SemInit /\ Cv!CvTestInit /\ Rw!Init /\ St!Init /\ Fs!Init
    /\ client # "fstest" => fs_test = "fs1"

MCNext ==
    \/ \E t \in Threads : LockStep(t) \/ SemStep(t)
    \/ client = "cvtest" /\ Cv!CvTestNext /\ UNCHANGED <<client, synchvars, rwvars, stvars, fsvars>>
    \/ client = "rwlocktest" /\ Rw!Next /\ UNCHANGED <<client, synchvars, cvvars, stvars, fsvars>>
    \/ client = "synchtests" /\ St!Next /\ UNCHANGED <<client, synchvars, cvvars, rwvars, fsvars>>
    \/ client = "fstest" /\ Fs!Next /\ UNCHANGED <<client, synchvars, cvvars, rwvars, stvars>>

\* The fairness of Lock's FairSpec and of Semaphore's SemFairSpec.
MCSpec ==
    /\ MCInit /\ [][MCNext]_allvars
    /\ \A t \in Threads :
         /\ WF_allvars(pc[t] # "idle" /\ LockStep(t))
         /\ WF_allvars(client = "lock" /\ R_enter(t) /\ UNCHANGED <<client, semavars, testvars>>)
         /\ WF_allvars(sem_pc[t] # "idle" /\ SemStep(t))

\* A thread sleeps in cvtest for ever only if a broadcast met it in the gap of
\* cv_wait between lock_release and wchan_lock; a reader sleeps with nobody left
\* to wake it only if a writer's rw_release passed it on its way to sleep; and a
\* writer asleep in rw_acquire has somebody left that will call rw_release.
StrandedOnlyIfMissed ==
    /\ Cv!CvTestTypeOK /\ Rw!TypeOK
    /\ Cv!SleepsOnlyIfMissed /\ Rw!ReaderStrandedOnlyIfPassed /\ Rw!SleepingWriterHasWaker

\* semtest, locktest, threadtest and tt3 find what they look for, and when a test
\* is over all its threads are through and its semaphores and locks are as before;
\* while a whale mates, a male, a female and a matchmaker have come in and none of
\* the three has left; and the file system tests report a failure only after a
\* request failed, fs4's thread waiting for exactly the helpers that will still V.
TestsPass == St!TestsPass /\ St!RunAgain /\ St!MatingIsOfThree /\ Fs!FsTestSound
=============================================================================
