-------------------------- MODULE SynchProofs --------------------------
(***************************************************************************)
(* Locks and semaphores of kern/thread/synch.c are correct for any threads *)
(* (semaphores, which count wakeups, for any finite set of them): their    *)
(* safety invariants hold, and they implement AbsLock and AbsSemaphore.    *)
(***************************************************************************)
EXTENDS Lock, Semaphore, SeqLemmas, FiniteSetTheorems

USE NoneAssumption

-----------------------------------------------------------------------------
(* Locks.                                                                  *)
USE LockAssumption

\* A fresh lock satisfies the invariant.
LEMMA InitIInv == Init => IInv
BY DEF Init, IInv, TypeOK, WchanInit, WchanTypeOK, Labels, LocksMatch, HoldsLkLock,
       HoldsWcLock, SleepersMatch, Asleep, OwnerIsInside, NoLostWakeup, GoingToSleep,
       Range, IsInjective

\* Going to sleep: the thread is appended to a list it is not on.
LEMMA A_sleep_IInv == ASSUME NEW t \in Threads, IInv, A_sleep(t) PROVE IInv'
<1> USE DEF IInv, A_sleep, Goto, wchan_sleep
<1> DEFINE s == wc_threads[LkChan]
<1>1. s \in Seq(Threads) /\ t \notin Range(s) /\ IsInjective(s)
  BY Zenon DEF TypeOK, WchanTypeOK, SleepersMatch, Asleep
<1>2. wc_threads'[LkChan] = Append(s, t)
  BY Zenon DEF TypeOK, WchanTypeOK
<1>3. /\ Append(s, t) \in Seq(Threads) /\ Append(s, t) # <<>>
      /\ Range(Append(s, t)) = Range(s) \cup {t}
  BY <1>1, RangeAppend
<1>4. IsInjective(Append(s, t))
  BY <1>1, InjectiveAppend, Zenon
<1> HIDE DEF s
<1>5. TypeOK'
  BY <1>2, <1>3, Zenon DEF TypeOK, WchanTypeOK, Labels, s
<1>6. LocksMatch'
  BY ZenonT(60) DEF TypeOK, WchanTypeOK, Labels, LocksMatch, HoldsLkLock, HoldsWcLock
<1>7. SleepersMatch'
  <2>1. Asleep(LkChan)' = Asleep(LkChan) \cup {t}
    BY <1>2, <1>3, Zenon DEF Asleep, s
  <2>2. \A u \in Threads : target[u] # t
    BY Zenon DEF SleepersMatch, TypeOK
  <2>3. \A u \in Threads : pc'[u] = "asleep" <=>
           u \in Asleep(LkChan)' \/ \E v \in Threads : target'[v] = u
    BY <2>1, <2>2 DEF TypeOK, SleepersMatch
  <2>4. \A v, u \in Threads : target'[v] = u =>
           pc'[v] = "R_runnable" /\ u \notin Asleep(LkChan)'
    BY <2>1, <2>2, Zenon DEF TypeOK, SleepersMatch
  <2>5. QED
    BY <1>2, <1>4, <2>3, <2>4, Zenon DEF SleepersMatch
<1>8. OwnerIsInside'
  BY Zenon DEF TypeOK, OwnerIsInside
<1>9. NoLostWakeup'
  BY Zenon DEF TypeOK, NoLostWakeup, GoingToSleep, Looking
<1>10. QED
  BY <1>5, <1>6, <1>7, <1>8, <1>9, Zenon

\* Taking the head of the channel's list.  If the list is empty, nobody is on
\* the way to it either: they would hold one of the two spinlocks.
LEMMA R_remhead_IInv == ASSUME NEW t \in Threads, IInv, R_remhead(t) PROVE IInv'
<1> USE DEF IInv, R_remhead, Goto, wchan_remhead
<1> DEFINE s == wc_threads[LkChan]
<1>1. s \in Seq(Threads) /\ IsInjective(s) /\ Range(s) = Asleep(LkChan)
  BY Zenon DEF TypeOK, WchanTypeOK, SleepersMatch, Asleep
<1>2. wc_threads' = [wc_threads EXCEPT ![LkChan] = IF s = <<>> THEN s ELSE Tail(s)]
  OBVIOUS
<1>3. CASE s = <<>>
  <2>1. UNCHANGED <<wc_threads, target, Asleep(LkChan)>>
    BY <1>2, <1>3 DEF TypeOK, WchanTypeOK, HeadOf, SleepersMatch, Asleep
  <2>2. ~GoingToSleep'
    BY Zenon DEF GoingToSleep, TypeOK, LocksMatch, HoldsLkLock, HoldsWcLock
  <2>3. TypeOK' /\ LocksMatch' /\ OwnerIsInside'
    BY <2>1 DEF TypeOK, WchanTypeOK, Labels, LocksMatch, HoldsLkLock, HoldsWcLock, OwnerIsInside
  <2>4. SleepersMatch'
    BY <2>1 DEF TypeOK, SleepersMatch
  <2>5. QED
    BY <1>3, <2>1, <2>2, <2>3, <2>4, Zenon DEF NoLostWakeup
<1>4. CASE s # <<>>
  <2>1. /\ Head(s) \in Threads /\ Head(s) \in Range(s) /\ Tail(s) \in Seq(Threads)
        /\ IsInjective(Tail(s)) /\ Range(Tail(s)) = Range(s) \ {Head(s)}
    BY <1>1, <1>4, RangeTail, Zenon
  <2>2. /\ wc_threads'[LkChan] = Tail(s)
        /\ target' = [target EXCEPT ![t] = Head(s)]
        /\ wc_threads' \in [Chans -> Seq(Threads)]
    BY <1>2, <1>4, <2>1, ZenonT(60) DEF TypeOK, WchanTypeOK, HeadOf
  <2>3. Asleep(LkChan)' = Asleep(LkChan) \ {Head(s)}
    BY <1>1, <2>1, <2>2, Zenon DEF Asleep
  <2> HIDE DEF s
  <2>4. TypeOK' /\ LocksMatch' /\ OwnerIsInside'
    BY <2>1, <2>2 DEF TypeOK, WchanTypeOK, Labels, LocksMatch, HoldsLkLock, HoldsWcLock, OwnerIsInside
  <2>5. SleepersMatch'
    <3>1. \A u \in Threads : target[u] # Head(s) /\ target[t] = None
      BY <1>1, <2>1 DEF TypeOK, SleepersMatch
    <3>2. \A u \in Threads : pc'[u] = "asleep" <=>
             u \in Asleep(LkChan)' \/ \E v \in Threads : target'[v] = u
      BY <1>1, <2>1, <2>2, <2>3, <3>1 DEF TypeOK, SleepersMatch
    <3>3. \A v, u \in Threads : target'[v] = u =>
             pc'[v] = "R_runnable" /\ u \notin Asleep(LkChan)'
      BY <1>1, <2>1, <2>2, <2>3, <3>1 DEF TypeOK, SleepersMatch
    <3>4. QED
      BY <2>1, <2>2, <3>2, <3>3, Zenon DEF SleepersMatch
  <2>6. target'[t] # None
    BY <2>1, <2>2 DEF TypeOK
  <2>7. QED
    BY <2>4, <2>5, <2>6, Zenon DEF NoLostWakeup, Looking
<1>5. QED
  BY <1>3, <1>4, Zenon

\* Making the sleeper runnable: it was asleep and on no list.
LEMMA R_runnable_IInv == ASSUME NEW t \in Threads, IInv, R_runnable(t) PROVE IInv'
<1> USE DEF IInv, R_runnable, wchanVars
<1>1. \A u \in Threads : u = target[t] => pc[u] = "asleep" /\ u \notin Asleep(LkChan)
  BY Zenon DEF TypeOK, SleepersMatch
<1>2. \A u \in Threads : u # t /\ target[t] # None => target[u] # target[t]
  BY DEF TypeOK, SleepersMatch, LocksMatch, HoldsLkLock
<1>3. TypeOK'
  BY Zenon DEF TypeOK, WchanTypeOK, Labels
<1>4. LocksMatch'
  BY <1>1, Zenon DEF TypeOK, LocksMatch, HoldsLkLock, HoldsWcLock
<1>5. SleepersMatch'
  BY <1>1, <1>2 DEF TypeOK, SleepersMatch, Asleep
<1>6. OwnerIsInside'
  BY <1>1, Zenon DEF TypeOK, OwnerIsInside
<1>7. NoLostWakeup'
  <2>1. GoingToSleep' => GoingToSleep
    BY Zenon DEF TypeOK, GoingToSleep
  <2>2. Looking # {} => Looking' # {}
    BY <1>1 DEF TypeOK, Looking
  <2>3. QED
    BY <2>1, <2>2, Zenon DEF NoLostWakeup
<1>8. QED
  BY <1>3, <1>4, <1>5, <1>6, <1>7, Zenon

\* The remaining steps leave the channel's list alone.
LEMMA Quiet_IInv ==
    ASSUME NEW t \in Threads, IInv,
           \/ A_enter(t) \/ A_reacquire(t) \/ A_test(t) \/ A_wchan_lock(t) \/ A_bridge(t)
           \/ A_return(t) \/ R_enter(t) \/ R_clear(t) \/ R_return(t)
    PROVE  IInv'
<1> USE DEF IInv, TypeOK, WchanTypeOK, Labels, Goto, wchanVars, wchan_lock,
            spinlock_acquire, spinlock_release, LocksMatch, HoldsLkLock, HoldsWcLock
<1>1. CASE A_enter(t)
  <2>1. TypeOK' /\ LocksMatch'
    BY <1>1 DEF A_enter
  <2>2. SleepersMatch'
    BY <1>1 DEF A_enter, SleepersMatch, Asleep
  <2>3. OwnerIsInside'
    BY <1>1 DEF A_enter, OwnerIsInside, lock_do_i_hold
  <2>4. NoLostWakeup'
    BY <1>1 DEF A_enter, OwnerIsInside, NoLostWakeup, GoingToSleep, Looking
  <2>5. QED
    BY <2>1, <2>2, <2>3, <2>4, Zenon
<1>2. CASE A_reacquire(t)
  <2>1. TypeOK' /\ LocksMatch'
    BY <1>2, Zenon DEF A_reacquire
  <2>2. SleepersMatch'
    BY <1>2 DEF A_reacquire, SleepersMatch, Asleep
  <2>3. OwnerIsInside'
    BY <1>2 DEF A_reacquire, OwnerIsInside, lock_do_i_hold
  <2>4. NoLostWakeup'
    BY <1>2, Zenon DEF A_reacquire, OwnerIsInside, NoLostWakeup, GoingToSleep, Looking
  <2>5. QED
    BY <2>1, <2>2, <2>3, <2>4, Zenon
<1>3. CASE A_test(t)
  <2>1. TypeOK' /\ LocksMatch'
    <3>1. UNCHANGED <<wchanVars, lk_lock, target, inside>> /\ lk_owner' \in {lk_owner, t}
      BY <1>3, Zenon DEF A_test
    <3>2. pc' = [pc EXCEPT ![t] = "A_wchan_lock"] \/ pc' = [pc EXCEPT ![t] = "A_done"]
      BY <1>3, Zenon DEF A_test
    <3>3. pc[t] = "A_test"
      BY <1>3, Zenon DEF A_test
    <3>4. TypeOK'
      BY <3>1, <3>2, Zenon
    <3>5. QED
      BY <3>1, <3>2, <3>3, <3>4
  <2>2. SleepersMatch'
    BY <1>3 DEF A_test, SleepersMatch, Asleep
  <2>3. OwnerIsInside'
    BY <1>3 DEF A_test, OwnerIsInside, lock_do_i_hold
  <2>4. NoLostWakeup'
    BY <1>3 DEF A_test, OwnerIsInside, NoLostWakeup, GoingToSleep, Looking
  <2>5. QED
    BY <2>1, <2>2, <2>3, <2>4, Zenon
<1>4. CASE A_wchan_lock(t)
  <2>1. TypeOK' /\ LocksMatch'
    BY <1>4 DEF A_wchan_lock
  <2>2. SleepersMatch'
    BY <1>4 DEF A_wchan_lock, SleepersMatch, Asleep
  <2>3. OwnerIsInside'
    BY <1>4 DEF A_wchan_lock, OwnerIsInside, lock_do_i_hold
  <2>4. NoLostWakeup'
    BY <1>4, Zenon DEF A_wchan_lock, OwnerIsInside, NoLostWakeup, GoingToSleep, Looking
  <2>5. QED
    BY <2>1, <2>2, <2>3, <2>4, Zenon
<1>5. CASE A_bridge(t)
  <2>1. TypeOK' /\ LocksMatch'
    BY <1>5 DEF A_bridge
  <2>2. SleepersMatch'
    BY <1>5 DEF A_bridge, SleepersMatch, Asleep
  <2>3. OwnerIsInside'
    BY <1>5 DEF A_bridge, OwnerIsInside, lock_do_i_hold
  <2>4. NoLostWakeup'
    BY <1>5, ZenonT(60) DEF A_bridge, OwnerIsInside, NoLostWakeup, GoingToSleep, Looking
  <2>5. QED
    BY <2>1, <2>2, <2>3, <2>4, Zenon
<1>6. CASE A_return(t)
  <2>1. TypeOK' /\ LocksMatch'
    BY <1>6 DEF A_return
  <2>2. SleepersMatch'
    BY <1>6 DEF A_return, SleepersMatch, Asleep
  <2>3. OwnerIsInside'
    BY <1>6 DEF A_return, OwnerIsInside, lock_do_i_hold
  <2>4. NoLostWakeup'
    BY <1>6 DEF A_return, OwnerIsInside, NoLostWakeup, GoingToSleep, Looking
  <2>5. QED
    BY <2>1, <2>2, <2>3, <2>4, Zenon
<1>7. CASE R_enter(t)
  <2>1. TypeOK' /\ LocksMatch'
    BY <1>7, ZenonT(60) DEF R_enter
  <2>2. SleepersMatch'
    BY <1>7 DEF R_enter, SleepersMatch, Asleep
  <2>3. OwnerIsInside'
    BY <1>7, Zenon DEF R_enter, OwnerIsInside, lock_do_i_hold
  <2>4. NoLostWakeup'
    BY <1>7, Zenon DEF R_enter, OwnerIsInside, NoLostWakeup, GoingToSleep, Looking
  <2>5. QED
    BY <2>1, <2>2, <2>3, <2>4, Zenon
<1>8. CASE R_clear(t)
  <2>1. TypeOK' /\ LocksMatch'
    BY <1>8, ZenonT(60) DEF R_clear
  <2>2. SleepersMatch'
    BY <1>8 DEF R_clear, SleepersMatch, Asleep
  <2>3. OwnerIsInside'
    BY <1>8 DEF R_clear, OwnerIsInside, lock_do_i_hold
  <2>4. NoLostWakeup'
    BY <1>8 DEF R_clear, OwnerIsInside, NoLostWakeup, GoingToSleep, Looking
  <2>5. QED
    BY <2>1, <2>2, <2>3, <2>4, Zenon
<1>9. CASE R_return(t)
  <2>1. TypeOK' /\ LocksMatch'
    BY <1>9, ZenonT(60) DEF R_return
  <2>2. SleepersMatch'
    BY <1>9 DEF R_return, SleepersMatch, Asleep
  <2>3. OwnerIsInside'
    BY <1>9 DEF R_return, OwnerIsInside, lock_do_i_hold
  <2>4. NoLostWakeup'
    BY <1>9, Zenon DEF R_return, OwnerIsInside, NoLostWakeup, GoingToSleep, Looking
  <2>5. QED
    BY <2>1, <2>2, <2>3, <2>4, Zenon
<1>10. QED
  BY <1>1, <1>2, <1>3, <1>4, <1>5, <1>6, <1>7, <1>8, <1>9, Zenon

\* Every step of the lock code preserves the invariant.
LEMMA NextIInv == IInv /\ [Next]_vars => IInv'
<1>1. ASSUME NEW t \in Threads, IInv, lock_acquire(t) \/ lock_release(t) PROVE IInv'
  BY <1>1, A_sleep_IInv, R_remhead_IInv, R_runnable_IInv, Quiet_IInv, Zenon
     DEF lock_acquire, lock_release
<1>2. ASSUME IInv, UNCHANGED vars PROVE IInv'
  BY <1>2 DEF vars, IInv, TypeOK, WchanTypeOK, LocksMatch, HoldsLkLock, HoldsWcLock,
              SleepersMatch, Asleep, OwnerIsInside, NoLostWakeup, GoingToSleep, Looking
<1>3. QED
  BY <1>1, <1>2, Zenon DEF Next

\* The inductive invariant holds in every execution, for any set of threads.
THEOREM LockSafety == Spec => []IInv
BY InitIInv, NextIInv, PTL DEF Spec

\* synch.h: only one thread can hold the lock at the same time.
THEOREM LockMutualExclusion == Spec => []MutualExclusion
<1>1. IInv => MutualExclusion
  BY Zenon DEF IInv, OwnerIsInside, MutualExclusion, TypeOK
<1>2. QED
  BY <1>1, LockSafety, PTL

\* A sleeper is never forgotten: lock_release cannot slip into the gap between
\* lock_acquire's test and its wchan_sleep.
THEOREM LockNoLostWakeup == Spec => []NoLostWakeup
BY LockSafety, PTL DEF IInv

\* lock_acquire and lock_release implement the atomic lock of synch.h.
THEOREM LockAtomic == Spec => Atomic
<1>1. Init => Abs!Init
  BY Zenon DEF Init, Abs!Init, wantsBar, Asking
<1>2. ASSUME IInv, [Next]_vars PROVE [Abs!Next]_(Abs!vars)
  <2> USE DEF IInv, TypeOK, Labels, Goto
  <2>1. ASSUME NEW t \in Threads, A_enter(t) PROVE Abs!Ask(t)
    <3>1. t \notin wantsBar /\ lk_owner # t /\ UNCHANGED lk_owner
      BY <1>2, <2>1, Zenon DEF A_enter, wantsBar, Asking, lock_do_i_hold
    <3>2. \A u \in Threads : Asking(u)' <=> Asking(u) \/ u = t
      BY <1>2, <2>1, Zenon DEF A_enter, Asking
    <3> wantsBar' = wantsBar \cup {t}
      BY <3>2, Zenon DEF wantsBar
    <3>3. QED
      BY <3>1, <3>2, Zenon DEF Abs!Ask
  <2>2. ASSUME NEW t \in Threads, A_test(t), lk_owner = None PROVE Abs!Acquire(t)
    <3>1. \A u \in Threads : Asking(u)' <=> Asking(u) /\ u # t
      BY <1>2, <2>2, Zenon DEF A_test, Asking
    <3> wantsBar' = wantsBar \ {t}
      BY <3>1, Zenon DEF wantsBar
    <3>2. t \in wantsBar /\ lk_owner' = t
      BY <1>2, <2>2, Zenon DEF A_test, wantsBar, Asking
    <3>3. QED
      BY <2>2, <3>1, <3>2, Zenon DEF Abs!Acquire
  <2>3. ASSUME NEW t \in Threads, R_clear(t) PROVE Abs!Release(t)
    <3>1. \A u \in Threads : Asking(u)' <=> Asking(u)
      BY <1>2, <2>3, Zenon DEF R_clear, Asking
    <3> wantsBar' = wantsBar
      BY <3>1, Zenon DEF wantsBar
    <3>2. lk_owner = t /\ lk_owner' = None
      BY <1>2, <2>3, Zenon DEF R_clear, OwnerIsInside
    <3>3. QED
      BY <3>2, Zenon DEF Abs!Release
  <2>4. ASSUME NEW t \in Threads,
               \/ A_test(t) /\ lk_owner # None
               \/ A_reacquire(t) \/ A_wchan_lock(t) \/ A_bridge(t) \/ A_sleep(t) \/ A_return(t)
               \/ R_enter(t) \/ R_remhead(t) \/ R_runnable(t) \/ R_return(t)
        PROVE  UNCHANGED Abs!vars
    <3>1. lk_owner' = lk_owner
      BY <1>2, <2>4, Zenon DEF A_test, A_reacquire, A_wchan_lock, A_bridge, A_sleep, A_return,
                  R_enter, R_remhead, R_runnable, R_return
    <3>2. \A u \in Threads : Asking(u)' <=> Asking(u)
      <4>1. CASE R_runnable(t)
        BY <1>2, <4>1, Zenon DEF R_runnable, SleepersMatch, Asking
      <4>2. CASE ~R_runnable(t)
        BY <1>2, <2>4, <4>2 DEF A_test, A_reacquire, A_wchan_lock, A_bridge, A_sleep, A_return,
                          R_enter, R_remhead, R_return, Asking
      <4>3. QED
        BY <4>1, <4>2, Zenon
    <3>3. wantsBar' = wantsBar
      BY <3>2, Zenon DEF wantsBar
    <3>4. QED
      BY <3>1, <3>3, Zenon DEF Abs!vars
  <2>5. CASE UNCHANGED vars
    BY <2>5, Zenon DEF vars, Abs!vars, wantsBar, Asking
  <2>6. QED
    BY <1>2, <2>1, <2>2, <2>3, <2>4, <2>5, Zenon DEF Next, lock_acquire, lock_release, Abs!Next
<1>3. QED
  BY <1>1, <1>2, LockSafety, PTL DEF Spec, Atomic, Abs!Spec

HIDE LockAssumption

-----------------------------------------------------------------------------
(* Semaphores.                                                             *)
USE SemAssumption

\* The wakeups under way can be counted.
LEMMA SemLookingFinite == IsFiniteSet(SemLooking) /\ Cardinality(SemLooking) \in Nat
BY FS_Subset, FS_CardinalityType, Zenon DEF SemLooking

\* Losing one of them lowers the count of them by one at most.
LEMMA SemLookingLess ==
    ASSUME NEW t \in Threads, \A u \in Threads : SemIsLooking(u)' <=> SemIsLooking(u) /\ u # t
    PROVE  /\ Cardinality(SemLooking') \in Nat
           /\ Cardinality(SemLooking') >= Cardinality(SemLooking) - 1
<1>1. SemLooking' = SemLooking \ {t}
  BY Zenon DEF SemLooking
<1>2. /\ IsFiniteSet(SemLooking \ {t})
      /\ Cardinality(SemLooking \ {t}) = IF t \in SemLooking THEN Cardinality(SemLooking) - 1
                                       ELSE Cardinality(SemLooking)
  BY SemLookingFinite, FS_RemoveElement, Zenon
<1>3. Cardinality(SemLooking \ {t}) \in Nat
  BY <1>2, FS_CardinalityType, Zenon
<1>4. QED
  BY <1>1, <1>2, <1>3, SemLookingFinite

\* Gaining one that was not among them raises it by one.
LEMMA SemLookingMore ==
    ASSUME NEW t \in Threads, ~SemIsLooking(t),
           \A u \in Threads : SemIsLooking(u)' <=> SemIsLooking(u) \/ u = t
    PROVE  /\ Cardinality(SemLooking') \in Nat
           /\ Cardinality(SemLooking') = Cardinality(SemLooking) + 1
<1>1. SemLooking' = SemLooking \cup {t} /\ t \notin SemLooking
  BY Zenon DEF SemLooking
<1>2. QED
  BY <1>1, SemLookingFinite, FS_AddElement, FS_CardinalityType, Zenon

\* A fresh semaphore satisfies the invariant.
LEMMA SemInitIInv == SemInit => SemIInv
BY DEF SemInit, SemIInv, SemTypeOK, WchanInit, WchanTypeOK, SemLabels, SemLocksMatch, HoldsSemLock,
       SemHoldsWcLock, SemSleepersMatch, Asleep, SemNoLostWakeup, SemGoingToSleep,
       Range, IsInjective

\* Going to sleep: the thread is appended to a list it is not on.
LEMMA P_sleep_IInv == ASSUME NEW t \in Threads, SemIInv, P_sleep(t) PROVE SemIInv'
<1> USE DEF SemIInv, P_sleep, SemGoto, wchan_sleep
<1> DEFINE s == wc_threads[SemChan]
<1>1. s \in Seq(Threads) /\ t \notin Range(s) /\ IsInjective(s)
  BY Zenon DEF SemTypeOK, WchanTypeOK, SemSleepersMatch, Asleep
<1>2. wc_threads'[SemChan] = Append(s, t)
  BY Zenon DEF SemTypeOK, WchanTypeOK
<1>3. /\ Append(s, t) \in Seq(Threads) /\ Append(s, t) # <<>>
      /\ Range(Append(s, t)) = Range(s) \cup {t}
  BY <1>1, RangeAppend
<1>4. IsInjective(Append(s, t))
  BY <1>1, InjectiveAppend, Zenon
<1> HIDE DEF s
<1>5. SemTypeOK'
  BY <1>2, <1>3, Zenon DEF SemTypeOK, WchanTypeOK, SemLabels, s
<1>6. SemLocksMatch'
  BY ZenonT(60) DEF SemTypeOK, WchanTypeOK, SemLabels, SemLocksMatch, HoldsSemLock, SemHoldsWcLock
<1>7. SemSleepersMatch'
  <2>1. Asleep(SemChan)' = Asleep(SemChan) \cup {t}
    BY <1>2, <1>3, Zenon DEF Asleep, s
  <2>2. \A u \in Threads : sem_target[u] # t
    BY Zenon DEF SemSleepersMatch, SemTypeOK
  <2>3. \A u \in Threads : sem_pc'[u] = "asleep" <=>
           u \in Asleep(SemChan)' \/ \E v \in Threads : sem_target'[v] = u
    BY <2>1, <2>2 DEF SemTypeOK, SemSleepersMatch
  <2>4. \A v, u \in Threads : sem_target'[v] = u =>
           sem_pc'[v] = "V_runnable" /\ u \notin Asleep(SemChan)'
    BY <2>1, <2>2, ZenonT(60) DEF SemTypeOK, SemSleepersMatch
  <2>5. QED
    BY <1>2, <1>4, <2>3, <2>4, Zenon DEF SemSleepersMatch
<1>8. SemNoLostWakeup'
  <2>1. \A u \in Threads : SemIsLooking(u)' <=> SemIsLooking(u)
    BY Zenon DEF SemTypeOK, SemIsLooking
  <2>2. SemLooking' = SemLooking /\ SemGoingToSleep
    BY <2>1, Zenon DEF SemLooking, SemGoingToSleep
  <2>3. QED
    BY <2>2, Zenon DEF SemNoLostWakeup
<1>9. QED
  BY <1>5, <1>6, <1>7, <1>8, Zenon

\* Taking the head of the channel's list.  If the list is empty, nobody is on
\* the way to it either: they would hold one of the two spinlocks.
LEMMA V_remhead_IInv == ASSUME NEW t \in Threads, SemIInv, V_remhead(t) PROVE SemIInv'
<1> USE DEF SemIInv, V_remhead, SemGoto, wchan_remhead
<1> DEFINE s == wc_threads[SemChan]
<1>1. s \in Seq(Threads) /\ IsInjective(s) /\ Range(s) = Asleep(SemChan)
  BY Zenon DEF SemTypeOK, WchanTypeOK, SemSleepersMatch, Asleep
<1>2. wc_threads' = [wc_threads EXCEPT ![SemChan] = IF s = <<>> THEN s ELSE Tail(s)]
  OBVIOUS
<1>3. CASE s = <<>>
  <2>1. UNCHANGED <<wc_threads, sem_target, Asleep(SemChan)>>
    BY <1>2, <1>3 DEF SemTypeOK, WchanTypeOK, HeadOf, SemSleepersMatch, Asleep
  <2>2. ~SemGoingToSleep'
    BY Zenon DEF SemGoingToSleep, SemTypeOK, SemLocksMatch, HoldsSemLock, SemHoldsWcLock
  <2>3. SemTypeOK' /\ SemLocksMatch'
    BY <2>1 DEF SemTypeOK, WchanTypeOK, SemLabels, SemLocksMatch, HoldsSemLock, SemHoldsWcLock
  <2>4. SemSleepersMatch'
    BY <2>1 DEF SemTypeOK, SemSleepersMatch
  <2>5. QED
    BY <1>3, <2>1, <2>2, <2>3, <2>4, Zenon DEF SemNoLostWakeup
<1>4. CASE s # <<>>
  <2>1. /\ Head(s) \in Threads /\ Head(s) \in Range(s) /\ Tail(s) \in Seq(Threads)
        /\ IsInjective(Tail(s)) /\ Range(Tail(s)) = Range(s) \ {Head(s)}
    BY <1>1, <1>4, RangeTail, Zenon
  <2>2. /\ wc_threads'[SemChan] = Tail(s)
        /\ sem_target' = [sem_target EXCEPT ![t] = Head(s)]
        /\ wc_threads' \in [Chans -> Seq(Threads)]
    BY <1>2, <1>4, <2>1, Zenon DEF SemTypeOK, WchanTypeOK, HeadOf
  <2>3. Asleep(SemChan)' = Asleep(SemChan) \ {Head(s)}
    BY <1>1, <2>1, <2>2, Zenon DEF Asleep
  <2> HIDE DEF s
  <2>4. SemTypeOK' /\ SemLocksMatch'
    BY <2>1, <2>2 DEF SemTypeOK, WchanTypeOK, SemLabels, SemLocksMatch, HoldsSemLock, SemHoldsWcLock
  <2>5. SemSleepersMatch'
    <3>1. \A u \in Threads : sem_target[u] # Head(s) /\ sem_target[t] = None
      BY <1>1, <2>1 DEF SemTypeOK, SemSleepersMatch
    <3>2. \A u \in Threads : sem_pc'[u] = "asleep" <=>
             u \in Asleep(SemChan)' \/ \E v \in Threads : sem_target'[v] = u
      BY <1>1, <2>1, <2>2, <2>3, <3>1 DEF SemTypeOK, SemSleepersMatch
    <3>3. \A v, u \in Threads : sem_target'[v] = u =>
             sem_pc'[v] = "V_runnable" /\ u \notin Asleep(SemChan)'
      BY <1>1, <2>1, <2>2, <2>3, <3>1 DEF SemTypeOK, SemSleepersMatch
    <3>4. QED
      BY <2>1, <2>2, <3>2, <3>3, Zenon DEF SemSleepersMatch
  <2>6. SemNoLostWakeup'
    <3>1. \A u \in Threads : SemIsLooking(u)' <=> SemIsLooking(u)
      BY <2>1, <2>2, ZenonT(60) DEF SemTypeOK, SemIsLooking
    <3>2. SemLooking' = SemLooking
      BY <3>1, Zenon DEF SemLooking
    <3>3. QED
      BY <1>4, <3>2, Zenon DEF SemNoLostWakeup, s
  <2>7. QED
    BY <2>4, <2>5, <2>6, Zenon
<1>5. QED
  BY <1>3, <1>4, Zenon

\* Making the sleeper runnable: it was asleep and on no list.
LEMMA V_runnable_IInv == ASSUME NEW t \in Threads, SemIInv, V_runnable(t) PROVE SemIInv'
<1> USE DEF SemIInv, V_runnable, wchanVars
<1>1. \A u \in Threads : u = sem_target[t] => sem_pc[u] = "asleep" /\ u \notin Asleep(SemChan)
  BY Zenon DEF SemTypeOK, SemSleepersMatch
<1>2. \A u \in Threads : u # t /\ sem_target[t] # None => sem_target[u] # sem_target[t]
  BY DEF SemTypeOK, SemSleepersMatch, SemLocksMatch, HoldsSemLock
<1>3. SemTypeOK'
  BY Zenon DEF SemTypeOK, WchanTypeOK, SemLabels
<1>4. SemLocksMatch'
  BY <1>1, Zenon DEF SemTypeOK, SemLocksMatch, HoldsSemLock, SemHoldsWcLock
<1>5. SemSleepersMatch'
  BY <1>1, <1>2 DEF SemTypeOK, SemSleepersMatch, Asleep
<1>6. SemNoLostWakeup'
  <2>1. SemGoingToSleep' => SemGoingToSleep
    BY Zenon DEF SemTypeOK, SemGoingToSleep
  <2>2. CASE sem_target[t] = None
    <3>1. \A u \in Threads : SemIsLooking(u)' <=> SemIsLooking(u)
      BY <2>2, Zenon DEF SemTypeOK, SemIsLooking
    <3>2. SemLooking' = SemLooking
      BY <3>1, Zenon DEF SemLooking
    <3>3. QED
      BY <2>1, <3>2, Zenon DEF SemNoLostWakeup
  <2>3. CASE sem_target[t] # None
    <3> DEFINE u == sem_target[t]
    <3>1. u \in Threads /\ u # t /\ ~SemIsLooking(u) /\ SemIsLooking(t)
      BY <2>3, <1>1 DEF SemTypeOK, SemIsLooking, SemSleepersMatch
    <3>2. \A v \in Threads : SemIsLooking(v)' <=> (SemIsLooking(v) /\ v # t) \/ v = u
      BY <2>3, <3>1, Zenon DEF SemTypeOK, SemIsLooking
    <3>3. SemLooking' = (SemLooking \ {t}) \cup {u}
      BY <3>1, <3>2, Zenon DEF SemLooking
    <3>4. t \in SemLooking /\ u \notin SemLooking \ {t}
      BY <3>1, Zenon DEF SemLooking
    <3>5. Cardinality(SemLooking') = Cardinality(SemLooking)
      <4>1. /\ IsFiniteSet(SemLooking \ {t})
            /\ Cardinality(SemLooking \ {t}) = Cardinality(SemLooking) - 1
        BY <3>4, SemLookingFinite, FS_RemoveElement, Zenon
      <4>2. Cardinality((SemLooking \ {t}) \cup {u}) = Cardinality(SemLooking \ {t}) + 1
        BY <3>4, <4>1, FS_AddElement, Zenon
      <4>3. QED
        BY <3>3, <4>1, <4>2, SemLookingFinite
    <3>6. QED
      BY <2>1, <3>5, Zenon DEF SemNoLostWakeup
  <2>4. QED
    BY <2>2, <2>3, Zenon
<1>7. QED
  BY <1>3, <1>4, <1>5, <1>6, Zenon

\* The remaining steps leave the channel's list alone.
LEMMA SemQuiet_IInv ==
    ASSUME NEW t \in Threads, SemIInv,
           \/ P_enter(t) \/ P_reacquire(t) \/ P_test(t) \/ P_wchan_lock(t) \/ P_bridge(t)
           \/ P_return(t) \/ V_enter(t) \/ V_incr(t) \/ V_return(t)
    PROVE  SemIInv'
<1> USE DEF SemIInv, SemTypeOK, WchanTypeOK, SemLabels, SemGoto, wchanVars, wchan_lock,
            sem_spinlock_acquire, sem_spinlock_release, SemLocksMatch, HoldsSemLock, SemHoldsWcLock
<1>1. CASE P_enter(t)
  <2>1. SemTypeOK' /\ SemLocksMatch'
    BY <1>1, ZenonT(60) DEF P_enter
  <2>2. SemSleepersMatch'
    BY <1>1 DEF P_enter, SemSleepersMatch, Asleep
  <2>3. SemNoLostWakeup'
    <3>1. ~SemIsLooking(t) /\ \A u \in Threads : SemIsLooking(u)' <=> SemIsLooking(u) \/ u = t
      BY <1>1 DEF P_enter, SemIsLooking, SemSleepersMatch
    <3>2. Cardinality(SemLooking') = Cardinality(SemLooking) + 1 /\ Cardinality(SemLooking) \in Nat
      BY <3>1, SemLookingMore, SemLookingFinite, Zenon
    <3>3. SemGoingToSleep' => SemGoingToSleep
      BY <1>1, Zenon DEF P_enter, SemGoingToSleep
    <3>4. UNCHANGED wc_threads /\ sem_count' \in {sem_count, sem_count + 1}
      BY <1>1, Zenon DEF P_enter
    <3>5. QED
      BY <3>2, <3>3, <3>4 DEF SemNoLostWakeup
  <2>4. QED
    BY <2>1, <2>2, <2>3, Zenon
<1>2. CASE P_reacquire(t)
  <2>1. SemTypeOK' /\ SemLocksMatch'
    BY <1>2, ZenonT(60) DEF P_reacquire
  <2>2. SemSleepersMatch'
    BY <1>2 DEF P_reacquire, SemSleepersMatch, Asleep
  <2>3. SemNoLostWakeup'
    <3>1. \A u \in Threads : SemIsLooking(u)' <=> SemIsLooking(u)
      BY <1>2 DEF P_reacquire, SemIsLooking, SemSleepersMatch
    <3>2. SemLooking' = SemLooking /\ (SemGoingToSleep' => SemGoingToSleep)
      BY <1>2, <3>1, Zenon DEF P_reacquire, SemLooking, SemGoingToSleep
    <3>3. QED
      BY <1>2, <3>2, Zenon DEF P_reacquire, SemNoLostWakeup
  <2>4. QED
    BY <2>1, <2>2, <2>3, Zenon
<1>3. CASE P_test(t)
  <2>1. SemTypeOK' /\ SemLocksMatch'
    <3>1. UNCHANGED <<wchanVars, sem_lock, sem_target>> /\ sem_count' \in Nat
      BY <1>3 DEF P_test
    <3>2. sem_pc' = [sem_pc EXCEPT ![t] = "P_wchan_lock"] \/ sem_pc' = [sem_pc EXCEPT ![t] = "P_done"]
      BY <1>3, Zenon DEF P_test
    <3>3. sem_pc[t] = "P_test"
      BY <1>3, Zenon DEF P_test
    <3>4. SemTypeOK'
      BY <3>1, <3>2, Zenon
    <3>5. SemLocksMatch'
      BY <3>1, <3>2, <3>3, SMTT(30)
    <3>6. QED
      BY <3>4, <3>5, Zenon
  <2>2. SemSleepersMatch'
    BY <1>3 DEF P_test, SemSleepersMatch, Asleep
  <2>3. SemNoLostWakeup'
    <3>1. \A u \in Threads : SemIsLooking(u)' <=> SemIsLooking(u) /\ u # t
      BY <1>3 DEF P_test, SemIsLooking, SemSleepersMatch
    <3>2. /\ Cardinality(SemLooking') \in Nat /\ Cardinality(SemLooking) \in Nat
          /\ Cardinality(SemLooking') >= Cardinality(SemLooking) - 1
      BY <3>1, SemLookingLess, SemLookingFinite, Zenon
    <3>3. CASE sem_count = 0
      BY <1>3, <3>2, <3>3 DEF P_test, SemNoLostWakeup
    <3>4. CASE sem_count > 0
      <4>1. SemGoingToSleep' => SemGoingToSleep
        BY <1>3, <3>4 DEF P_test, SemGoingToSleep
      <4>2. sem_count' = sem_count - 1 /\ UNCHANGED wc_threads
        BY <1>3, <3>4 DEF P_test
      <4>3. QED
        BY <3>2, <4>1, <4>2 DEF SemNoLostWakeup
    <3>5. QED
      BY <3>3, <3>4
  <2>4. QED
    BY <2>1, <2>2, <2>3, Zenon
<1>4. CASE P_wchan_lock(t)
  <2>1. SemTypeOK' /\ SemLocksMatch'
    BY <1>4 DEF P_wchan_lock
  <2>2. SemSleepersMatch'
    BY <1>4 DEF P_wchan_lock, SemSleepersMatch, Asleep
  <2>3. SemNoLostWakeup'
    <3>1. \A u \in Threads : SemIsLooking(u)' <=> SemIsLooking(u)
      BY <1>4 DEF P_wchan_lock, SemIsLooking, SemSleepersMatch
    <3>2. SemLooking' = SemLooking /\ (SemGoingToSleep' => SemGoingToSleep)
      BY <1>4, <3>1, Zenon DEF P_wchan_lock, SemLooking, SemGoingToSleep
    <3>3. QED
      BY <1>4, <3>2, Zenon DEF P_wchan_lock, SemNoLostWakeup
  <2>4. QED
    BY <2>1, <2>2, <2>3, Zenon
<1>5. CASE P_bridge(t)
  <2>1. SemTypeOK' /\ SemLocksMatch'
    BY <1>5 DEF P_bridge
  <2>2. SemSleepersMatch'
    BY <1>5 DEF P_bridge, SemSleepersMatch, Asleep
  <2>3. SemNoLostWakeup'
    <3>1. \A u \in Threads : SemIsLooking(u)' <=> SemIsLooking(u)
      BY <1>5 DEF P_bridge, SemIsLooking, SemSleepersMatch
    <3>2. SemLooking' = SemLooking /\ (SemGoingToSleep' => SemGoingToSleep)
      BY <1>5, <3>1, Zenon DEF P_bridge, SemLooking, SemGoingToSleep
    <3>3. QED
      BY <1>5, <3>2, Zenon DEF P_bridge, SemNoLostWakeup
  <2>4. QED
    BY <2>1, <2>2, <2>3, Zenon
<1>6. CASE P_return(t)
  <2>1. SemTypeOK' /\ SemLocksMatch'
    BY <1>6, ZenonT(60) DEF P_return
  <2>2. SemSleepersMatch'
    BY <1>6 DEF P_return, SemSleepersMatch, Asleep
  <2>3. SemNoLostWakeup'
    <3>1. \A u \in Threads : SemIsLooking(u)' <=> SemIsLooking(u)
      BY <1>6 DEF P_return, SemIsLooking, SemSleepersMatch
    <3>2. SemLooking' = SemLooking /\ (SemGoingToSleep' => SemGoingToSleep)
      BY <1>6, <3>1, Zenon DEF P_return, SemLooking, SemGoingToSleep
    <3>3. QED
      BY <1>6, <3>2, Zenon DEF P_return, SemNoLostWakeup
  <2>4. QED
    BY <2>1, <2>2, <2>3, Zenon
<1>7. CASE V_enter(t)
  <2>1. SemTypeOK' /\ SemLocksMatch'
    BY <1>7, ZenonT(60) DEF V_enter
  <2>2. SemSleepersMatch'
    BY <1>7 DEF V_enter, SemSleepersMatch, Asleep
  <2>3. SemNoLostWakeup'
    <3>1. \A u \in Threads : SemIsLooking(u)' <=> SemIsLooking(u)
      BY <1>7 DEF V_enter, SemIsLooking, SemSleepersMatch
    <3>2. SemLooking' = SemLooking /\ (SemGoingToSleep' => SemGoingToSleep)
      BY <1>7, <3>1, Zenon DEF V_enter, SemLooking, SemGoingToSleep
    <3>3. QED
      BY <1>7, <3>2, Zenon DEF V_enter, SemNoLostWakeup
  <2>4. QED
    BY <2>1, <2>2, <2>3, Zenon
<1>8. CASE V_incr(t)
  <2>1. SemTypeOK' /\ SemLocksMatch'
    BY <1>8 DEF V_incr
  <2>2. SemSleepersMatch'
    BY <1>8 DEF V_incr, SemSleepersMatch, Asleep
  <2>3. SemNoLostWakeup'
    <3>1. ~SemIsLooking(t) /\ \A u \in Threads : SemIsLooking(u)' <=> SemIsLooking(u) \/ u = t
      BY <1>8 DEF V_incr, SemIsLooking, SemSleepersMatch
    <3>2. Cardinality(SemLooking') = Cardinality(SemLooking) + 1 /\ Cardinality(SemLooking) \in Nat
      BY <3>1, SemLookingMore, SemLookingFinite, Zenon
    <3>3. SemGoingToSleep' => SemGoingToSleep
      BY <1>8, Zenon DEF V_incr, SemGoingToSleep
    <3>4. UNCHANGED wc_threads /\ sem_count' \in {sem_count, sem_count + 1}
      BY <1>8, Zenon DEF V_incr
    <3>5. QED
      BY <3>2, <3>3, <3>4 DEF SemNoLostWakeup
  <2>4. QED
    BY <2>1, <2>2, <2>3, Zenon
<1>9. CASE V_return(t)
  <2>1. SemTypeOK' /\ SemLocksMatch'
    BY <1>9, Zenon DEF V_return
  <2>2. SemSleepersMatch'
    BY <1>9 DEF V_return, SemSleepersMatch, Asleep
  <2>3. SemNoLostWakeup'
    <3>1. \A u \in Threads : SemIsLooking(u)' <=> SemIsLooking(u)
      BY <1>9 DEF V_return, SemIsLooking, SemSleepersMatch
    <3>2. SemLooking' = SemLooking /\ (SemGoingToSleep' => SemGoingToSleep)
      BY <1>9, <3>1, Zenon DEF V_return, SemLooking, SemGoingToSleep
    <3>3. QED
      BY <1>9, <3>2, Zenon DEF V_return, SemNoLostWakeup
  <2>4. QED
    BY <2>1, <2>2, <2>3, Zenon
<1>10. QED
  BY <1>1, <1>2, <1>3, <1>4, <1>5, <1>6, <1>7, <1>8, <1>9, Zenon

\* Every step of P and V preserves the invariant.
LEMMA SemNextIInv == SemIInv /\ [SemNext]_semVars => SemIInv'
<1>1. ASSUME NEW t \in Threads, SemIInv, PStep(t) \/ VStep(t) PROVE SemIInv'
  BY <1>1, P_sleep_IInv, V_remhead_IInv, V_runnable_IInv, SemQuiet_IInv, Zenon DEF PStep, VStep
<1>2. ASSUME SemIInv, UNCHANGED semVars PROVE SemIInv'
  BY <1>2 DEF semVars, SemIInv, SemTypeOK, WchanTypeOK, SemLocksMatch, HoldsSemLock, SemHoldsWcLock,
              SemSleepersMatch, Asleep, SemNoLostWakeup, SemGoingToSleep, SemLooking, SemIsLooking
<1>3. QED
  BY <1>1, <1>2, Zenon DEF SemNext

\* The inductive invariant holds in every execution, for any finite set of threads.
THEOREM SemaphoreSafety == SemSpec => []SemIInv
BY SemInitIInv, SemNextIInv, PTL DEF SemSpec

\* No unit of the count is forgotten while somebody sleeps in P.
THEOREM SemaphoreNoLostWakeup == SemSpec => []SemNoLostWakeup
BY SemaphoreSafety, PTL DEF SemIInv

\* P and V implement the atomic operations of synch.h.
THEOREM SemaphoreAtomic == SemSpec => SemAtomic
<1>1. SemInit => SemAbs!Init
  BY Zenon DEF SemInit, SemAbs!Init, opBar, InP
<1>2. ASSUME SemIInv, [SemNext]_semVars PROVE [SemAbs!Next]_(SemAbs!vars)
  <2> USE DEF SemIInv, SemTypeOK, SemLabels, SemGoto
  <2>1. ASSUME NEW t \in Threads, P_enter(t) PROVE SemAbs!Call(t, "P")
    <3>1. opBar[t] = "none" /\ UNCHANGED sem_count
      BY <1>2, <2>1, Zenon DEF P_enter, opBar, InP
    <3>2. opBar' = [opBar EXCEPT ![t] = "P"]
      BY <1>2, <2>1, Zenon DEF P_enter, opBar, InP
    <3>3. QED
      BY <3>1, <3>2, Zenon DEF SemAbs!Call
  <2>2. ASSUME NEW t \in Threads, V_enter(t) PROVE SemAbs!Call(t, "V")
    <3>1. opBar[t] = "none" /\ UNCHANGED sem_count
      BY <1>2, <2>2, Zenon DEF V_enter, opBar, InP
    <3>2. opBar' = [opBar EXCEPT ![t] = "V"]
      BY <1>2, <2>2, Zenon DEF V_enter, opBar, InP
    <3>3. QED
      BY <3>1, <3>2, Zenon DEF SemAbs!Call
  <2>3. ASSUME NEW t \in Threads, P_test(t), sem_count > 0 PROVE SemAbs!P(t)
    <3>1. opBar[t] = "P" /\ sem_count' = sem_count - 1
      BY <1>2, <2>3 DEF P_test, opBar, InP
    <3>2. opBar' = [opBar EXCEPT ![t] = "none"]
      <4>1. sem_pc' = [sem_pc EXCEPT ![t] = "P_done"]
        BY <1>2, <2>3 DEF P_test
      <4>2. QED
        BY <1>2, <4>1, Zenon DEF opBar, InP
    <3>3. QED
      BY <2>3, <3>1, <3>2, Zenon DEF SemAbs!P
  <2>4. ASSUME NEW t \in Threads, V_incr(t) PROVE SemAbs!V(t)
    <3>1. opBar[t] = "V" /\ sem_count' = sem_count + 1
      BY <1>2, <2>4, Zenon DEF V_incr, opBar, InP
    <3>2. opBar' = [opBar EXCEPT ![t] = "none"]
      BY <1>2, <2>4, Zenon DEF V_incr, opBar, InP
    <3>3. QED
      BY <3>1, <3>2, Zenon DEF SemAbs!V
  <2>5. ASSUME NEW t \in Threads,
               \/ P_test(t) /\ sem_count = 0
               \/ P_reacquire(t) \/ P_wchan_lock(t) \/ P_bridge(t) \/ P_sleep(t) \/ P_return(t)
               \/ V_remhead(t) \/ V_runnable(t) \/ V_return(t)
        PROVE  UNCHANGED SemAbs!vars
    <3>1. sem_count' = sem_count
      BY <1>2, <2>5 DEF P_test, P_reacquire, P_wchan_lock, P_bridge, P_sleep, P_return,
                        V_remhead, V_runnable, V_return
    <3>2. \A u \in Threads : InP(u)' = InP(u) /\ (sem_pc'[u] = "V_incr" <=> sem_pc[u] = "V_incr")
      <4>1. CASE V_runnable(t)
        BY <1>2, <4>1 DEF V_runnable, SemSleepersMatch, InP
      <4>2. CASE ~V_runnable(t)
        BY <1>2, <2>5, <4>2 DEF P_test, P_reacquire, P_wchan_lock, P_bridge, P_sleep, P_return,
                                V_remhead, V_return, InP
      <4>3. QED
        BY <4>1, <4>2, Zenon
    <3>3. opBar' = opBar
      BY <3>2, Zenon DEF opBar
    <3>4. QED
      BY <3>1, <3>3, Zenon DEF SemAbs!vars
  <2>6. CASE UNCHANGED semVars
    BY <2>6, Zenon DEF semVars, SemAbs!vars, opBar, InP
  <2>7. QED
    BY <1>2, <2>1, <2>2, <2>3, <2>4, <2>5, <2>6 DEF SemNext, PStep, VStep, SemAbs!Next
<1>3. QED
  BY <1>1, <1>2, SemaphoreSafety, PTL DEF SemSpec, SemAtomic, SemAbs!Spec
=============================================================================
