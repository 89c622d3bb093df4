----------------------------- MODULE Lock -----------------------------
(***************************************************************************)
(* lock_acquire and lock_release of kern/thread/synch.c, one step per      *)
(* point at which another CPU can observe the state.  lock_release does    *)
(* not look at the owner; the callers keep to "only the thread holding the *)
(* lock may do this" (kern/include/synch.h).                               *)
(***************************************************************************)
EXTENDS Integers, Wchan

CONSTANT LkChan   \* lk_wchan

ASSUME LockAssumption == LkChan \in Chans

VARIABLES
    lk_lock,     \* the thread that holds the lock's spinlock
    lk_owner,
    target,      \* target[t]: wchan_wakeone's local variable
    inside,      \* the threads whose lock_acquire has returned, not yet released
    pc

vars == <<wc_lock, wc_threads, lk_lock, lk_owner, target, inside, pc>>

Labels == {"idle", "A_test", "A_wchan_lock", "A_bridge", "A_sleep", "asleep",
           "A_reacquire", "A_done", "R_clear", "R_remhead", "R_runnable", "R_done"}

TypeOK ==
    /\ WchanTypeOK
    /\ lk_lock \in Threads \cup {None}
    /\ lk_owner \in Threads \cup {None}
    /\ target \in [Threads -> Threads \cup {None}]
    /\ inside \in SUBSET Threads
    /\ pc \in [Threads -> Labels]

\* lock_create
Init ==
    /\ WchanInit
    /\ lk_lock = None
    /\ lk_owner = None
    /\ target = [t \in Threads |-> None]
    /\ inside = {}
    /\ pc = [t \in Threads |-> "idle"]

Goto(t, from, to) == pc[t] = from /\ pc' = [pc EXCEPT ![t] = to]

spinlock_acquire(t) == lk_lock = None /\ lk_lock' = t

spinlock_release == lk_lock' = None

lock_do_i_hold(t) == lk_owner = t

\* lock_acquire: take the spinlock on entry.  The caller must not hold the
\* lock (a KASSERT under the spinlock).
A_enter(t) ==
    /\ Goto(t, "idle", "A_test")
    /\ spinlock_acquire(t)
    /\ ~lock_do_i_hold(t) /\ t \notin inside
    /\ UNCHANGED <<wchanVars, lk_owner, target, inside>>

\* MUTANT: a woken thread takes the lock without testing again (if, not while).
A_reacquire_if(t) ==
    /\ Goto(t, "A_reacquire", "A_done")
    /\ spinlock_acquire(t)
    /\ lk_owner' = t
    /\ UNCHANGED <<wchanVars, target, inside>>

\* lock_acquire: take the spinlock again after a sleep.
A_reacquire(t) ==
    /\ Goto(t, "A_reacquire", "A_test")
    /\ spinlock_acquire(t)
    /\ UNCHANGED <<wchanVars, lk_owner, target, inside>>

\* lock_acquire: the loop test; on success the caller becomes the owner.
A_test(t) ==
    /\ \/ /\ lk_owner # None
          /\ Goto(t, "A_test", "A_wchan_lock")
          /\ UNCHANGED lk_owner
       \/ /\ lk_owner = None
          /\ Goto(t, "A_test", "A_done")
          /\ lk_owner' = t
    /\ UNCHANGED <<wchanVars, lk_lock, target, inside>>

A_wchan_lock(t) ==
    /\ Goto(t, "A_wchan_lock", "A_bridge")
    /\ wchan_lock(LkChan, t)
    /\ UNCHANGED <<lk_lock, lk_owner, target, inside>>

A_bridge(t) ==
    /\ Goto(t, "A_bridge", "A_sleep")
    /\ spinlock_release
    /\ UNCHANGED <<wchanVars, lk_owner, target, inside>>

A_sleep(t) ==
    /\ Goto(t, "A_sleep", "asleep")
    /\ wchan_sleep(LkChan, t)
    /\ UNCHANGED <<lk_lock, lk_owner, target, inside>>

A_return(t) ==
    /\ Goto(t, "A_done", "idle")
    /\ spinlock_release
    /\ inside' = inside \cup {t}
    /\ UNCHANGED <<wchanVars, lk_owner, target>>

\* lock_release is called; the critical section is over.
R_enter(t) ==
    /\ t \in inside
    /\ Goto(t, "idle", "R_clear")
    /\ spinlock_acquire(t)
    /\ inside' = inside \ {t}
    /\ UNCHANGED <<wchanVars, lk_owner, target>>

R_clear(t) ==
    /\ Goto(t, "R_clear", "R_remhead")
    /\ lk_owner' = None
    /\ UNCHANGED <<wchanVars, lk_lock, target, inside>>

\* MUTANT: lock_release wakes nobody.
R_remhead_nobody(t) ==
    /\ Goto(t, "R_remhead", "R_runnable")
    /\ UNCHANGED <<wchanVars, lk_lock, lk_owner, target, inside>>

\* lock_release: wchan_wakeone takes the first sleeper off the channel ...
R_remhead(t) ==
    /\ Goto(t, "R_remhead", "R_runnable")
    /\ target' = [target EXCEPT ![t] = HeadOf(LkChan)]
    /\ wchan_remhead(LkChan)
    /\ UNCHANGED <<lk_lock, lk_owner, inside>>

\* ... and makes it runnable; it goes on after its wchan_sleep.
R_runnable(t) ==
    /\ pc[t] = "R_runnable"
    /\ pc' = [u \in Threads |-> IF u = t THEN "R_done"
                                ELSE IF u = target[t] THEN "A_reacquire"
                                ELSE pc[u]]
    /\ target' = [target EXCEPT ![t] = None]
    /\ UNCHANGED <<wchanVars, lk_lock, lk_owner, inside>>

R_return(t) ==
    /\ Goto(t, "R_done", "idle")
    /\ spinlock_release
    /\ UNCHANGED <<wchanVars, lk_owner, target, inside>>

lock_acquire(t) ==
    \/ A_enter(t) \/ A_reacquire(t) \/ A_test(t) \/ A_wchan_lock(t)
    \/ A_bridge(t) \/ A_sleep(t) \/ A_return(t)

lock_release(t) ==
    \/ R_enter(t) \/ R_clear(t) \/ R_remhead(t) \/ R_runnable(t) \/ R_return(t)

Next == \E t \in Threads : lock_acquire(t) \/ lock_release(t)

Spec == Init /\ [][Next]_vars

\* A CPU inside the lock code keeps executing, and a thread that has got the
\* lock comes to release it.  Nobody is obliged to ask for the lock.
FairSpec == Spec /\ \A t \in Threads :
    /\ WF_vars(pc[t] # "idle" /\ (lock_acquire(t) \/ lock_release(t)))
    /\ WF_vars(R_enter(t))

-----------------------------------------------------------------------------
HoldsLkLock(t) ==
    pc[t] \in {"A_test", "A_wchan_lock", "A_bridge", "A_done",
               "R_clear", "R_remhead", "R_runnable", "R_done"}

HoldsWcLock(t) == pc[t] \in {"A_bridge", "A_sleep"}

\* The spinlocks are held by exactly the thread whose place in the code says
\* so, through lock_acquire's bridge from one to the other.
LocksMatch ==
    /\ \A t \in Threads : lk_lock = t <=> HoldsLkLock(t)
    /\ \A t \in Threads : wc_lock[LkChan] = t <=> HoldsWcLock(t)

\* A thread is off the CPU exactly when it is on the channel's list, once, or
\* when the release that took it off the list is about to make it runnable.
SleepersMatch ==
    /\ \A t \in Threads : pc[t] = "asleep" <=>
          \/ t \in Asleep(LkChan)
          \/ \E u \in Threads : target[u] = t
    /\ IsInjective(wc_threads[LkChan])
    /\ \A t, u \in Threads : target[t] = u =>
          pc[t] = "R_runnable" /\ u \notin Asleep(LkChan)

\* synch.h: "Only one thread can hold the lock at the same time": no two
\* threads are between the return of lock_acquire and their lock_release.
MutualExclusion == \A t, u \in inside : t = u

\* The owner field is the thread that may be in the critical section: it is
\* not cleared, or given to another, behind that thread's back.
OwnerIsInside ==
    /\ \A t \in Threads : lk_owner = t <=> t \in inside \/ pc[t] \in {"A_done", "R_clear"}
    /\ \A t \in inside : pc[t] = "idle"

Looking == {t \in Threads : pc[t] \in {"A_reacquire", "A_test", "R_remhead"}
                            \/ target[t] # None}

GoingToSleep == \E t \in Threads : pc[t] \in {"A_wchan_lock", "A_bridge", "A_sleep"}

\* No lost wakeup: while anyone sleeps, or has decided to, the lock is owned or
\* somebody is going to look at the owner field.
NoLostWakeup ==
    wc_threads[LkChan] # <<>> \/ GoingToSleep => lk_owner # None \/ Looking # {}

\* The inductive invariant behind the safety properties.
IInv == TypeOK /\ LocksMatch /\ SleepersMatch /\ OwnerIsInside /\ NoLostWakeup

\* A free lock that is wanted is taken by someone.
LockIsTaken ==
    lk_owner = None /\ Asleep(LkChan) # {} ~> lk_owner # None

-----------------------------------------------------------------------------
Asking(t) == pc[t] \in {"A_test", "A_wchan_lock", "A_bridge", "A_sleep", "asleep", "A_reacquire"}

wantsBar == {t \in Threads : Asking(t)}

Abs == INSTANCE AbsLock WITH owner <- lk_owner, wants <- wantsBar

\* lock_acquire and lock_release, with all their sleeping and waking, are the
\* atomic operations that kern/include/synch.h announces.
Atomic == Abs!Spec
=============================================================================
