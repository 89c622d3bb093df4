---------------------------- MODULE CondVar ----------------------------
(***************************************************************************)
(* Condition variables of kern/thread/synch.c, for the modules of the code *)
(* that uses them, and cvtest of kern/test/synchtest.c: NTHREADS threads   *)
(* take turns, in reverse order, through one condition variable, the only  *)
(* client in the kernel that waits in a loop, as is intended.  Locks are   *)
(* the atomic ones that Lock.tla is shown to implement.  Whoever looks at  *)
(* a channel's list holds the channel's lock, so wchan_lock followed by    *)
(* wchan_sleep is one step; so is a wakeup.                                *)
(*                                                                         *)
(* cv_wait is lock_release, then wchan_lock and wchan_sleep, then          *)
(* lock_acquire: between the first two the caller has neither lock.        *)
(***************************************************************************)
EXTENDS Naturals, Sequences, FiniteSets, Functions

CONSTANTS
    Threads, Locks, Cvs, None,
    NTHREADS,    \* threads of cvtest, and of the other tests
    NCVLOOPS, testlock, testcv

CvTestAssumption ==
    /\ NTHREADS \in Nat \ {0} /\ NCVLOOPS \in Nat
    /\ Threads = 0..NTHREADS-1
    /\ testlock \in Locks /\ testcv \in Cvs

VARIABLES
    lk_owner,    \* lk_owner[l]: the thread that has the lock
    cv_wchan,    \* cv_wchan[c]: the threads asleep on the CV, FIFO
    frame,       \* frame[t]: the arguments of t's cv_wait and where it returns to
    pc,
    testval1,
    loops,       \* loops[t]: turns of cvtest's for loop that thread t has left
    missed       \* history: the threads that a broadcast found in the gap of cv_wait

cvVars == <<lk_owner, cv_wchan, frame, pc>>

NoFrame == [cv |-> None, lock |-> None, ret |-> "none"]

CvTypeOK(Labels) ==
    /\ lk_owner \in [Locks -> Threads \cup {None}]
    /\ cv_wchan \in [Cvs -> Seq(Threads)]
    /\ frame \in [Threads -> [cv : Cvs \cup {None}, lock : Locks \cup {None}, ret : Labels \cup {"none"}]]
    /\ pc \in [Threads -> Labels \cup {"cv_gap", "cv_asleep", "cv_woken"}]

\* lock_create and cv_create; every thread starts at the given label.
CvInit(start) ==
    /\ lk_owner = [l \in Locks |-> None]
    /\ cv_wchan = [c \in Cvs |-> <<>>]
    /\ frame = [t \in Threads |-> NoFrame]
    /\ pc = [t \in Threads |-> start]

Goto(t, from, to) == pc[t] = from /\ pc' = [pc EXCEPT ![t] = to]

lock_acquire(t, l) ==
    /\ lk_owner[l] = None
    /\ lk_owner' = [lk_owner EXCEPT ![l] = t]
    /\ UNCHANGED <<cv_wchan, frame>>

lock_release(t, l) ==
    /\ lk_owner' = [lk_owner EXCEPT ![l] = None]
    /\ UNCHANGED <<cv_wchan, frame>>

lock_do_i_hold(t, l) == lk_owner[l] = t

\* cv_wait: the lock is released first ...
cv_wait(t, c, l, ret) ==
    /\ pc' = [pc EXCEPT ![t] = "cv_gap"]
    /\ lk_owner' = [lk_owner EXCEPT ![l] = None]
    /\ frame' = [frame EXCEPT ![t] = [cv |-> c, lock |-> l, ret |-> ret]]
    /\ UNCHANGED cv_wchan

\* ... then the channel is locked and the caller goes to sleep on it ...
cv_sleep(t) ==
    /\ Goto(t, "cv_gap", "cv_asleep")
    /\ cv_wchan' = [cv_wchan EXCEPT ![frame[t].cv] = Append(@, t)]
    /\ UNCHANGED <<lk_owner, frame>>

\* ... and after waking up takes the lock again.
cv_return(t) ==
    /\ Goto(t, "cv_woken", frame[t].ret)
    /\ lk_owner[frame[t].lock] = None
    /\ lk_owner' = [lk_owner EXCEPT ![frame[t].lock] = t]
    /\ frame' = [frame EXCEPT ![t] = NoFrame]
    /\ UNCHANGED cv_wchan

\* MUTANT: wchan_wakeall stops after the first thread.
cv_broadcast_one(t, c, l, to) ==
    /\ lock_do_i_hold(t, l)
    /\ pc' = [u \in Threads |-> IF u = t THEN to
                                ELSE IF cv_wchan[c] # <<>> /\ u = Head(cv_wchan[c]) THEN "cv_woken" ELSE pc[u]]
    /\ cv_wchan' = [cv_wchan EXCEPT ![c] = IF @ = <<>> THEN @ ELSE Tail(@)]
    /\ UNCHANGED <<lk_owner, frame>>

cv_broadcast(t, c, l, to) ==
    /\ lock_do_i_hold(t, l)
    /\ pc' = [u \in Threads |-> IF u = t THEN to
                                ELSE IF u \in Range(cv_wchan[c]) THEN "cv_woken" ELSE pc[u]]
    /\ cv_wchan' = [cv_wchan EXCEPT ![c] = <<>>]
    /\ UNCHANGED <<lk_owner, frame>>

-----------------------------------------------------------------------------
(* cvtest.                                                                 *)
cvTestVars == <<cvVars, testval1, loops, missed>>

CvTestLabels == {"loop", "test", "turn", "broadcast", "release"}

CvTestTypeOK ==
    /\ CvTypeOK(CvTestLabels)
    /\ testval1 \in Threads
    /\ loops \in [Threads -> 0..NCVLOOPS]
    /\ missed \in SUBSET Threads

CvTestInit ==
    /\ CvInit("loop")
    /\ testval1 = NTHREADS - 1
    /\ loops = [t \in Threads |-> NCVLOOPS]
    /\ missed = {}

Enter(t) ==
    /\ loops[t] > 0
    /\ Goto(t, "loop", "test")
    /\ lock_acquire(t, testlock)
    /\ UNCHANGED <<testval1, loops, missed>>

\* while (testval1 != num) cv_wait(testcv, testlock);
Test(t) ==
    /\ pc[t] = "test"
    /\ \/ testval1 # t /\ cv_wait(t, testcv, testlock, "test")
       \/ testval1 = t /\ Goto(t, "test", "turn") /\ UNCHANGED <<lk_owner, cv_wchan, frame>>
    /\ UNCHANGED <<testval1, loops, missed>>

Turn(t) ==
    /\ Goto(t, "turn", "broadcast")
    /\ testval1' = (testval1 + NTHREADS - 1) % NTHREADS
    /\ UNCHANGED <<lk_owner, cv_wchan, frame, loops, missed>>

Broadcast(t) ==
    /\ pc[t] = "broadcast"
    /\ cv_broadcast(t, testcv, testlock, "release")
    /\ missed' = (missed \ Range(cv_wchan[testcv])) \cup {u \in Threads : pc[u] = "cv_gap"}
    /\ UNCHANGED <<testval1, loops>>

Release(t) ==
    /\ Goto(t, "release", "loop")
    /\ lock_release(t, testlock)
    /\ loops' = [loops EXCEPT ![t] = @ - 1]
    /\ UNCHANGED <<testval1, missed>>

CvTestWait(t) == (cv_sleep(t) \/ cv_return(t)) /\ UNCHANGED <<testval1, loops, missed>>

CvTestStep(t) == Enter(t) \/ Test(t) \/ Turn(t) \/ Broadcast(t) \/ Release(t) \/ CvTestWait(t)

CvTestNext == \E t \in Threads : CvTestStep(t)

CvTestSpec == CvTestInit /\ [][CvTestNext]_cvTestVars

\* Every thread is scheduled, and gets the lock if it is free again and again.
CvTestFairSpec == CvTestSpec /\ \A t \in Threads : SF_cvTestVars(CvTestStep(t))

-----------------------------------------------------------------------------
\* A thread whose turn it is sleeps on only if a broadcast passed it by in the
\* gap of cv_wait between lock_release and wchan_lock, or if the broadcast
\* that tells it is about to be made.
SleepsOnlyIfMissed ==
    pc[testval1] = "cv_asleep" =>
        testval1 \in missed \/ \E u \in Threads : pc[u] = "broadcast"

\* synch.h, of cv_wait, cv_signal and cv_broadcast: "These operations must be
\* atomic."  With atomic ones the test ends: every thread has all its turns.
EveryTurnIsTaken == \A t \in Threads : <>(loops[t] = 0)
=============================================================================
