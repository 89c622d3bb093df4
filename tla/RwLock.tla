----------------------------- MODULE RwLock -----------------------------
(***************************************************************************)
(* rw_acquire and rw_release of kern/thread/synch.c, driven by rwlocktest  *)
(* of kern/test/synchtest.c: every thread acquires once, in one mode, and  *)
(* releases.  rw_lock is the atomic lock that Lock.tla implements.  The    *)
(* lengths of the channels are read without the channels' locks, so a      *)
(* thread between its wchan_lock and its wchan_sleep is not counted.       *)
(***************************************************************************)
EXTENDS Integers, Wchan

CONSTANTS
    Readers, Writers,   \* the threads that call with READ, with WRITE
    rd, wr              \* rd_wchan, wr_wchan

RwAssumption ==
    /\ Threads = Readers \cup Writers /\ Readers \cap Writers = {}
    /\ IsFiniteSet(Threads)
    /\ Chans = {rd, wr} /\ rd # wr

VARIABLES
    count,       \* readers that hold the lock
    lk_owner,    \* the owner of the external rw_lock
    pc,
    passed       \* history: readers that a writer's release found on their way to sleep

vars == <<wchanVars, count, lk_owner, pc, passed>>

Labels == {"start", "r_test", "r_bridge", "r_sleep", "r_asleep", "r_woken", "r_count", "reading", "r_leave",
           "w_test", "w_bridge", "w_sleep", "w_asleep", "w_woken", "writing", "done"}

TypeOK ==
    /\ WchanTypeOK
    /\ count \in Nat
    /\ lk_owner \in Threads \cup {None}
    /\ pc \in [Threads -> Labels]
    /\ passed \in SUBSET Readers

\* rw_create
Init ==
    /\ WchanInit
    /\ count = 0
    /\ lk_owner = None
    /\ pc = [t \in Threads |-> "start"]
    /\ passed = {}

Goto(t, from, to) == pc[t] = from /\ pc' = [pc EXCEPT ![t] = to]

lock_acquire(t) == lk_owner = None /\ lk_owner' = t

lock_release == lk_owner' = None

tl_count(c) == Len(wc_threads[c])

\* wchan_wakeone and wchan_wakeall by thread t, which goes on at label to.
Wake(t, to, c, woken, label) ==
    /\ wc_lock[c] = None
    /\ pc' = [u \in Threads |-> IF u = t THEN to ELSE IF u \in woken THEN label ELSE pc[u]]
    /\ UNCHANGED wc_lock

WakeOne(t, to, c, label) ==
    /\ Wake(t, to, c, IF tl_count(c) = 0 THEN {} ELSE {Head(wc_threads[c])}, label)
    /\ wc_threads' = [wc_threads EXCEPT ![c] = IF @ = <<>> THEN @ ELSE Tail(@)]

WakeAll(t, to, c, label) ==
    /\ Wake(t, to, c, Asleep(c), label)
    /\ wc_threads' = [wc_threads EXCEPT ![c] = <<>>]

-----------------------------------------------------------------------------
\* rw_acquire(READ): wait once if more writers than readers are waiting.
ReadEnter(t) ==
    /\ Goto(t, "start", "r_test") /\ lock_acquire(t)
    /\ UNCHANGED <<wchanVars, count, passed>>

ReadTest(t) ==
    /\ \/ /\ tl_count(wr) > tl_count(rd)
          /\ Goto(t, "r_test", "r_bridge")
          /\ wchan_lock(rd, t)
       \/ /\ tl_count(wr) <= tl_count(rd)
          /\ Goto(t, "r_test", "r_count")
          /\ UNCHANGED wchanVars
    /\ UNCHANGED <<count, lk_owner, passed>>

ReadBridge(t) ==
    /\ Goto(t, "r_bridge", "r_sleep") /\ lock_release
    /\ UNCHANGED <<wchanVars, count, passed>>

ReadSleep(t) ==
    /\ Goto(t, "r_sleep", "r_asleep") /\ wchan_sleep(rd, t)
    /\ UNCHANGED <<count, lk_owner, passed>>

ReadWoken(t) ==
    /\ Goto(t, "r_woken", "r_count") /\ lock_acquire(t)
    /\ UNCHANGED <<wchanVars, count, passed>>

ReadCount(t) ==
    /\ Goto(t, "r_count", "reading") /\ lock_release
    /\ count' = count + 1
    /\ UNCHANGED <<wchanVars, passed>>

\* rw_release(READ): the last reader wakes a writer.
ReadLeave(t) ==
    /\ Goto(t, "reading", "r_leave") /\ lock_acquire(t)
    /\ count' = count - 1
    /\ UNCHANGED <<wchanVars, passed>>

\* MUTANT: the last reader wakes nobody.
ReadDone_silent(t) ==
    /\ Goto(t, "r_leave", "done") /\ lock_release
    /\ UNCHANGED <<wchanVars, count, passed>>

ReadDone(t) ==
    /\ pc[t] = "r_leave"
    /\ \/ count = 0 /\ WakeOne(t, "done", wr, "w_woken")
       \/ count # 0 /\ Goto(t, "r_leave", "done") /\ UNCHANGED wchanVars
    /\ lock_release
    /\ UNCHANGED <<count, passed>>

-----------------------------------------------------------------------------
\* rw_acquire(WRITE): wait once if there are readers; the lock stays held.
WriteEnter(t) ==
    /\ Goto(t, "start", "w_test") /\ lock_acquire(t)
    /\ UNCHANGED <<wchanVars, count, passed>>

WriteTest(t) ==
    /\ \/ /\ count # 0
          /\ Goto(t, "w_test", "w_bridge")
          /\ wchan_lock(wr, t)
       \/ /\ count = 0
          /\ Goto(t, "w_test", "writing")
          /\ UNCHANGED wchanVars
    /\ UNCHANGED <<count, lk_owner, passed>>

WriteBridge(t) ==
    /\ Goto(t, "w_bridge", "w_sleep") /\ lock_release
    /\ UNCHANGED <<wchanVars, count, passed>>

WriteSleep(t) ==
    /\ Goto(t, "w_sleep", "w_asleep") /\ wchan_sleep(wr, t)
    /\ UNCHANGED <<count, lk_owner, passed>>

WriteWoken(t) ==
    /\ Goto(t, "w_woken", "writing") /\ lock_acquire(t)
    /\ UNCHANGED <<wchanVars, count, passed>>

\* MUTANT: a writer that leaves wakes the next writer only.
WriteDone_writers(t) ==
    /\ pc[t] = "writing"
    /\ WakeOne(t, "done", wr, "w_woken")
    /\ passed' = passed \cup {u \in Readers : pc[u] = "r_sleep"}
    /\ lock_release
    /\ UNCHANGED count

\* rw_release(WRITE): wake all readers if they are more, else one writer.
WriteDone(t) ==
    /\ pc[t] = "writing"
    /\ \/ tl_count(wr) < tl_count(rd) /\ WakeAll(t, "done", rd, "r_woken")
       \/ tl_count(wr) >= tl_count(rd) /\ WakeOne(t, "done", wr, "w_woken")
    /\ passed' = passed \cup {u \in Readers : pc[u] = "r_sleep"}
    /\ lock_release
    /\ UNCHANGED count

ReadStep(t) ==
    \/ ReadEnter(t) \/ ReadTest(t) \/ ReadBridge(t) \/ ReadSleep(t)
    \/ ReadWoken(t) \/ ReadCount(t) \/ ReadLeave(t) \/ ReadDone(t)

WriteStep(t) ==
    \/ WriteEnter(t) \/ WriteTest(t) \/ WriteBridge(t) \/ WriteSleep(t)
    \/ WriteWoken(t) \/ WriteDone(t)

Next == (\E t \in Readers : ReadStep(t)) \/ (\E t \in Writers : WriteStep(t))

Spec == Init /\ [][Next]_vars

\* Every thread is scheduled, and gets a lock that is free again and again.
FairSpec ==
    /\ Spec
    /\ \A t \in Readers : SF_vars(ReadStep(t))
    /\ \A t \in Writers : SF_vars(WriteStep(t))

-----------------------------------------------------------------------------
Reading == {t \in Readers : pc[t] = "reading"}

\* A reader that sleeps has a writer that will look at the channels, unless a
\* writer's rw_release came between its wchan_lock and its wchan_sleep and did
\* not count it.
ReaderStrandedOnlyIfPassed ==
    \A t \in Readers : pc[t] = "r_asleep" =>
        t \in passed \/ \E u \in Writers : pc[u] \notin {"start", "done"}

\* A writer that sleeps has a reader inside, or woken, or leaving, or a writer
\* ahead of it, that is going to wake it: rw_release never forgets a writer.
SleepingWriterHasWaker ==
    \A t \in Writers : pc[t] = "w_asleep" =>
        \/ count > 0
        \/ \E u \in Readers : pc[u] \in {"r_woken", "r_count", "r_leave"}
        \/ \E u \in Writers : pc[u] \in {"w_woken", "writing"}

\* synch.c, at the writer's test of count: "if no readers are present".  A
\* writer that has the lock shares it with no reader.
WriterExcludesReaders == \A t \in Writers : pc[t] = "writing" => Reading = {}

\* rwlocktest waits for every thread it forks: each of them gets the lock and
\* finishes.
EveryoneFinishes == <>(\A t \in Threads : pc[t] = "done")
=============================================================================
