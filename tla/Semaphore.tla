-------------------------- MODULE Semaphore --------------------------
(***************************************************************************)
(* P and V of kern/thread/synch.c, one step per point at which another CPU *)
(* can observe the state.                                                  *)
(***************************************************************************)
EXTENDS Integers, Wchan

CONSTANTS
    SemChan,        \* sem_wchan
    InitialCount,   \* the count given to sem_create
    MaxCount        \* bound on sem_count, far below the wrap at 2^32

ASSUME SemAssumption ==
    /\ IsFiniteSet(Threads)
    /\ SemChan \in Chans
    /\ InitialCount \in Nat
    /\ MaxCount \in Nat

VARIABLES
    sem_lock,    \* the thread that holds the semaphore's spinlock
    sem_count,
    sem_target,      \* sem_target[t]: wchan_wakeone's local variable
    sem_pc

semVars == <<wc_lock, wc_threads, sem_lock, sem_count, sem_target, sem_pc>>

SemLabels == {"idle", "P_test", "P_wchan_lock", "P_bridge", "P_sleep", "asleep",
           "P_reacquire", "P_done", "V_incr", "V_remhead", "V_runnable", "V_done"}

SemTypeOK ==
    /\ WchanTypeOK
    /\ sem_lock \in Threads \cup {None}
    /\ sem_count \in Nat
    /\ sem_target \in [Threads -> Threads \cup {None}]
    /\ sem_pc \in [Threads -> SemLabels]

\* sem_create
SemInit ==
    /\ WchanInit
    /\ sem_lock = None
    /\ sem_count = InitialCount
    /\ sem_target = [t \in Threads |-> None]
    /\ sem_pc = [t \in Threads |-> "idle"]

SemGoto(t, from, to) == sem_pc[t] = from /\ sem_pc' = [sem_pc EXCEPT ![t] = to]

sem_spinlock_acquire(t) == sem_lock = None /\ sem_lock' = t

sem_spinlock_release == sem_lock' = None

\* P: take the spinlock on entry.
P_enter(t) ==
    /\ SemGoto(t, "idle", "P_test")
    /\ sem_spinlock_acquire(t)
    /\ UNCHANGED <<wchanVars, sem_count, sem_target>>

\* P: take the spinlock again after a sleep.
P_reacquire(t) ==
    /\ SemGoto(t, "P_reacquire", "P_test")
    /\ sem_spinlock_acquire(t)
    /\ UNCHANGED <<wchanVars, sem_count, sem_target>>

\* MUTANT: the count is taken without looking at it.
P_test_unchecked(t) ==
    /\ SemGoto(t, "P_test", "P_done")
    /\ sem_count' = sem_count - 1
    /\ UNCHANGED <<wchanVars, sem_lock, sem_target>>

\* MUTANT: the spinlock is dropped before the channel is locked.
P_test_early(t) ==
    /\ \/ /\ sem_count = 0
          /\ SemGoto(t, "P_test", "P_wchan_lock")
          /\ sem_spinlock_release
          /\ UNCHANGED sem_count
       \/ /\ sem_count > 0
          /\ SemGoto(t, "P_test", "P_done")
          /\ sem_count' = sem_count - 1
          /\ UNCHANGED sem_lock
    /\ UNCHANGED <<wchanVars, sem_target>>

\* P: the loop test; on success the count is taken.
P_test(t) ==
    /\ \/ /\ sem_count = 0
          /\ SemGoto(t, "P_test", "P_wchan_lock")
          /\ UNCHANGED sem_count
       \/ /\ sem_count > 0
          /\ SemGoto(t, "P_test", "P_done")
          /\ sem_count' = sem_count - 1
    /\ UNCHANGED <<wchanVars, sem_lock, sem_target>>

P_wchan_lock(t) ==
    /\ SemGoto(t, "P_wchan_lock", "P_bridge")
    /\ wchan_lock(SemChan, t)
    /\ UNCHANGED <<sem_lock, sem_count, sem_target>>

\* P: drop the spinlock with the channel still locked.
P_bridge(t) ==
    /\ SemGoto(t, "P_bridge", "P_sleep")
    /\ sem_spinlock_release
    /\ UNCHANGED <<wchanVars, sem_count, sem_target>>

P_sleep(t) ==
    /\ SemGoto(t, "P_sleep", "asleep")
    /\ wchan_sleep(SemChan, t)
    /\ UNCHANGED <<sem_lock, sem_count, sem_target>>

P_return(t) ==
    /\ SemGoto(t, "P_done", "idle")
    /\ sem_spinlock_release
    /\ UNCHANGED <<wchanVars, sem_count, sem_target>>

V_enter(t) ==
    /\ sem_count < MaxCount
    /\ SemGoto(t, "idle", "V_incr")
    /\ sem_spinlock_acquire(t)
    /\ UNCHANGED <<wchanVars, sem_count, sem_target>>

V_incr(t) ==
    /\ SemGoto(t, "V_incr", "V_remhead")
    /\ sem_count' = sem_count + 1
    /\ UNCHANGED <<wchanVars, sem_lock, sem_target>>

\* MUTANT: V wakes a sleeper only when it makes the count positive.
V_remhead_first(t) ==
    /\ SemGoto(t, "V_remhead", "V_runnable")
    /\ \/ /\ sem_count = 1
          /\ sem_target' = [sem_target EXCEPT ![t] = HeadOf(SemChan)]
          /\ wchan_remhead(SemChan)
       \/ /\ sem_count # 1
          /\ UNCHANGED <<wchanVars, sem_target>>
    /\ UNCHANGED <<sem_lock, sem_count>>

\* V: wchan_wakeone takes the first sleeper off the channel ...
V_remhead(t) ==
    /\ SemGoto(t, "V_remhead", "V_runnable")
    /\ sem_target' = [sem_target EXCEPT ![t] = HeadOf(SemChan)]
    /\ wchan_remhead(SemChan)
    /\ UNCHANGED <<sem_lock, sem_count>>

\* ... and makes it runnable; it goes on after its wchan_sleep.
V_runnable(t) ==
    /\ sem_pc[t] = "V_runnable"
    /\ sem_pc' = [u \in Threads |-> IF u = t THEN "V_done"
                                    ELSE IF u = sem_target[t] THEN "P_reacquire"
                                    ELSE sem_pc[u]]
    /\ sem_target' = [sem_target EXCEPT ![t] = None]
    /\ UNCHANGED <<wchanVars, sem_lock, sem_count>>

V_return(t) ==
    /\ SemGoto(t, "V_done", "idle")
    /\ sem_spinlock_release
    /\ UNCHANGED <<wchanVars, sem_count, sem_target>>

PStep(t) ==
    \/ P_enter(t) \/ P_reacquire(t) \/ P_test(t) \/ P_wchan_lock(t)
    \/ P_bridge(t) \/ P_sleep(t) \/ P_return(t)

VStep(t) == V_enter(t) \/ V_incr(t) \/ V_remhead(t) \/ V_runnable(t) \/ V_return(t)

SemNext == \E t \in Threads : PStep(t) \/ VStep(t)

SemSpec == SemInit /\ [][SemNext]_semVars

\* A CPU that is inside P or V keeps executing; nobody is obliged to call
\* them, and the spinlock is a test-and-set without any queue.
InCall(t) == sem_pc[t] # "idle" /\ (PStep(t) \/ VStep(t))

SemFairSpec == SemSpec /\ \A t \in Threads : WF_semVars(InCall(t))

-----------------------------------------------------------------------------
\* Who has the spinlock, and who the channel's.
HoldsSemLock(t) ==
    sem_pc[t] \in {"P_test", "P_wchan_lock", "P_bridge", "P_done",
               "V_incr", "V_remhead", "V_runnable", "V_done"}

SemHoldsWcLock(t) == sem_pc[t] \in {"P_bridge", "P_sleep"}

\* The spinlocks are held by exactly the thread whose place in the code says
\* so: P's bridge from one lock to the other never leaves a lock behind, and
\* no two CPUs are inside one of the two regions.
SemLocksMatch ==
    /\ \A t \in Threads : sem_lock = t <=> HoldsSemLock(t)
    /\ \A t \in Threads : wc_lock[SemChan] = t <=> SemHoldsWcLock(t)

\* A thread is off the CPU exactly when it is on the channel's list, once, or
\* when the V that took it off the list is about to make it runnable.
SemSleepersMatch ==
    /\ \A t \in Threads : sem_pc[t] = "asleep" <=>
          \/ t \in Asleep(SemChan)
          \/ \E u \in Threads : sem_target[u] = t
    /\ IsInjective(wc_threads[SemChan])
    /\ \A t, u \in Threads : sem_target[t] = u =>
          sem_pc[t] = "V_runnable" /\ u \notin Asleep(SemChan)

\* The threads that will look at the count again before anything can go wrong:
\* those running through P's test, and the Vs that have yet to wake someone.
SemIsLooking(t) == sem_pc[t] \in {"P_reacquire", "P_test", "V_remhead"} \/ sem_target[t] # None

SemLooking == {t \in Threads : SemIsLooking(t)}

SemGoingToSleep == \E t \in Threads : sem_pc[t] \in {"P_wchan_lock", "P_bridge", "P_sleep"}

\* No lost wakeup: while anyone sleeps, or has decided to, every unit of the
\* count is spoken for by a thread that is going to look at it.  This is what
\* the bridge from sem_lock to the channel's lock in P is for.
SemNoLostWakeup ==
    wc_threads[SemChan] # <<>> \/ SemGoingToSleep => sem_count <= Cardinality(SemLooking)

\* The inductive invariant behind the safety properties.
SemIInv == SemTypeOK /\ SemLocksMatch /\ SemSleepersMatch /\ SemNoLostWakeup

\* A positive count and a sleeper do not stay together for ever.
CountIsTaken ==
    sem_count > 0 /\ Asleep(SemChan) # {} ~> sem_count = 0 \/ Asleep(SemChan) = {}

-----------------------------------------------------------------------------
\* The abstract operation a thread is in: a P until it has taken from the
\* count, a V until it has added to it.
InP(t) == sem_pc[t] \in {"P_test", "P_wchan_lock", "P_bridge", "P_sleep", "asleep", "P_reacquire"}

opBar == [t \in Threads |-> IF InP(t) THEN "P" ELSE IF sem_pc[t] = "V_incr" THEN "V" ELSE "none"]

SemAbs == INSTANCE AbsSemaphore WITH count <- sem_count, op <- opBar

\* P and V, with all their sleeping and waking, are the atomic operations
\* that kern/include/synch.h announces.
SemAtomic == SemAbs!Spec
=============================================================================
