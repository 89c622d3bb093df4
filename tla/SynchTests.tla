----------------------------- MODULE SynchTests -----------------------------
(***************************************************************************)
(* The synchronization tests and problems of the kernel's menu: semtest and*)
(* locktest of kern/test/synchtest.c, threadtest of kern/test/threadtest.c,*)
(* threadtest3 of kern/test/tt3.c, whalemating and bathroom of             *)
(* kern/synchprobs.  The menu runs them one after the other; each forks    *)
(* its threads and waits for all of them on a semaphore.  Locks and        *)
(* semaphores are the atomic ones that Lock and Semaphore implement,       *)
(* condition variables those of CondVar.                                   *)
(***************************************************************************)
EXTENDS CondVar, TLC

CONSTANTS
    NMATING,       \* whales of each kind
    NPEOPLE,       \* people of bathroom, boys and girls in turn
    NSLEEPS,       \* sleepalot threads of tt3; there is one compute thread
    SLEEPALOT,     \* how often each of them sleeps
    RUNS           \* tests the menu runs

Tests == {"semtest", "locktest", "threadtest", "threadtest2", "threadtest3", "whalemating", "bathroom"}

Whales == {"male", "female", "match"}
Other(r) == IF r = "boy" THEN "girl" ELSE "boy"
Cv(r) == IF r = "boy" THEN "boy_cv" ELSE "girl_cv"

Copies(n, x) == [i \in 1..n |-> x]

\* The threads a test forks, in the order of its loops.
semtest == Copies(NTHREADS, "printer")
locktest == Copies(NTHREADS, "locker")
runthreads(body) == Copies(NTHREADS, body)
make_sleepalots == Append(Copies(NSLEEPS, "sleeper"), "waker")
make_computes == <<"compute">>
whalemating == Copies(NMATING, "male") \o Copies(NMATING, "female") \o Copies(NMATING, "match")
bathroom == [i \in 1..NPEOPLE |-> IF i % 2 = 1 THEN "boy" ELSE "girl"]

Crew(test) ==
    CASE test = "semtest"     -> semtest
      [] test = "locktest"    -> locktest
      [] test = "threadtest"  -> runthreads("loud")
      [] test = "threadtest2" -> runthreads("quiet")
      [] test = "threadtest3" -> make_sleepalots \o make_computes
      [] test = "whalemating" -> whalemating
      [] test = "bathroom"    -> bathroom

WaitChans == {"wc0", "wc1"}

SynchTestsAssumption ==
    /\ {NTHREADS, NMATING, NPEOPLE, NSLEEPS, SLEEPALOT, RUNS} \subseteq Nat
    /\ \A test \in Tests : DOMAIN Crew(test) \subseteq Threads
    /\ Locks = Whales \cup {"testlock", "mate_lock", "br_lock"}
    /\ Cvs = WaitChans \cup {"mate_cv", "boy_cv", "girl_cv"}

VARIABLES
    menu,          \* where the menu's thread is: idle, pre, fork, join, join2, stop, post
    test,          \* the test it runs or ran last
    n,             \* how many threads it has forked, then how many it has joined
    runs,
    sem,           \* the counts of the semaphores
    testval,       \* testval1 to testval3 of synchtest.c
    left,          \* left[t]: naps left to a sleepalot thread
    wakerdone, done_seen,
    which,         \* male_which, female_which and match_which
    service_mode,
    waiting        \* boy_waiting and girl_waiting

testVars == <<menu, test, n, runs>>
dataVars == <<testval, left, wakerdone, done_seen, which, service_mode, waiting>>
vars == <<cvVars, testVars, sem, dataVars>>

\* What inititems, init_sem and setup create they create once.  Every file has
\* a donesem of its own; all of them are 0 whenever the menu starts a test.
synchtest_inititems == [testsem |-> 2, donesem |-> 0]
tt3_setup == [wakersem |-> 1]
whalemating_inititems == [mate_sem |-> 3]
bathroom_inititems == [br_sem |-> 3]
SemInit == synchtest_inititems @@ tt3_setup @@ whalemating_inititems @@ bathroom_inititems

Init ==
    /\ CvInit("none")
    /\ menu = "idle" /\ test = "none" /\ n = 0 /\ runs = 0
    /\ sem = SemInit
    /\ testval = <<0, 0, 0>>
    /\ left = [t \in Threads |-> 0]
    /\ wakerdone = FALSE /\ done_seen = FALSE
    /\ which = [r \in Whales |-> 0]
    /\ service_mode = "rest"
    /\ waiting = [r \in {"boy", "girl"} |-> 0]

-----------------------------------------------------------------------------
(* The thread of the menu *)

role(t) == Crew(test)[t]
Sema_P(s) == sem[s] > 0 /\ sem' = [sem EXCEPT ![s] = @ - 1]
Sema_V(s) == sem' = [sem EXCEPT ![s] = @ + 1]

menu_start ==
    /\ menu = "idle" /\ runs < RUNS
    /\ test' \in Tests
    /\ menu' = IF test' = "semtest" THEN "pre" ELSE "fork"
    /\ runs' = runs + 1 /\ n' = 0
    /\ pc' = [t \in Threads |-> "none"]
    /\ wakerdone' = IF test' = "threadtest3" THEN FALSE ELSE wakerdone
    /\ UNCHANGED <<lk_owner, cv_wchan, frame, sem, testval, left, done_seen, which, service_mode, waiting>>

\* semtest takes both units of testsem before it forks.
semtest_pre ==
    /\ menu = "pre"
    /\ Sema_P("testsem")
    /\ n' = (n + 1) % 2
    /\ menu' = IF n = 1 THEN "fork" ELSE "pre"
    /\ UNCHANGED <<cvVars, test, runs, dataVars>>

fork_thread ==
    /\ menu = "fork"
    /\ n' = n + 1
    /\ pc' = [pc EXCEPT ![n + 1] = "start"]
    /\ left' = [left EXCEPT ![n + 1] = SLEEPALOT]
    /\ menu' = IF n + 1 = Len(Crew(test)) THEN "join" ELSE "fork"
    /\ UNCHANGED <<lk_owner, cv_wchan, frame, test, runs, sem, testval, wakerdone, done_seen, which, service_mode, waiting>>

\* semtest lets one thread after the other have testsem.
semtest_V ==
    /\ menu = "join" /\ test = "semtest"
    /\ Sema_V("testsem")
    /\ menu' = "join2"
    /\ UNCHANGED <<cvVars, test, n, runs, dataVars>>

joined ==
    CASE test = "threadtest3" /\ n = 2 -> "stop"
      [] n # 1 -> "join"
      [] OTHER -> IF test = "semtest" THEN "post" ELSE "idle"

\* P(donesem), once for every thread.
join ==
    /\ menu = IF test = "semtest" THEN "join2" ELSE "join"
    /\ Sema_P("donesem")
    /\ n' = n - 1 /\ menu' = joined
    /\ UNCHANGED <<cvVars, test, runs, dataVars>>

\* When only the waker of tt3 is left, finish tells it to stop.
finish ==
    /\ menu = "stop" /\ sem["wakersem"] > 0
    /\ wakerdone' = TRUE
    /\ menu' = "join"
    /\ UNCHANGED <<cvVars, test, n, runs, sem, testval, left, done_seen, which, service_mode, waiting>>

\* "so we can run it again"
semtest_post ==
    /\ menu = "post"
    /\ Sema_V("testsem")
    /\ n' = n + 1
    /\ menu' = IF n = 1 THEN "idle" ELSE "post"
    /\ UNCHANGED <<cvVars, test, runs, dataVars>>

Menu == menu_start \/ semtest_pre \/ fork_thread \/ semtest_V \/ join \/ finish \/ semtest_post

-----------------------------------------------------------------------------
(* semtest, locktest and threadtest *)

Is(t, r) == pc[t] # "none" /\ role(t) = r
cvRest == <<lk_owner, cv_wchan, frame>>

semtestthread(t) ==
    /\ Is(t, "printer")
    /\ \/ Goto(t, "start", "printing") /\ Sema_P("testsem")
       \/ Goto(t, "printing", "done") /\ Sema_V("donesem")
    /\ UNCHANGED <<cvRest, testVars, dataVars>>

Mismatch(num) ==
    \/ testval[2] # testval[1] * testval[1]
    \/ testval[2] % 3 # (testval[3] * testval[3]) % 3
    \/ testval[3] # testval[1] % 3
    \/ testval # <<num, num * num, num % 3>>

\* MUTANT: the three values are set before the lock is taken.
locktestthread_late(t) ==
    /\ Is(t, "locker")
    /\ \/ /\ Goto(t, "start", "set2") /\ testval' = [testval EXCEPT ![1] = t] /\ UNCHANGED <<cvRest, sem>>
       \/ /\ Goto(t, "set2", "set3") /\ testval' = [testval EXCEPT ![2] = t * t] /\ UNCHANGED <<cvRest, sem>>
       \/ /\ Goto(t, "set3", "lock") /\ testval' = [testval EXCEPT ![3] = t % 3] /\ UNCHANGED <<cvRest, sem>>
       \/ /\ Goto(t, "lock", "compare") /\ lock_acquire(t, "testlock") /\ UNCHANGED <<sem, testval>>
       \/ /\ Goto(t, "compare", IF Mismatch(t) THEN "failed" ELSE "finish")
          /\ lock_release(t, "testlock") /\ UNCHANGED <<sem, testval>>
       \/ /\ pc[t] \in {"failed", "finish"} /\ pc' = [pc EXCEPT ![t] = "done"]
          /\ Sema_V("donesem") /\ UNCHANGED <<cvRest, testval>>
    /\ UNCHANGED <<testVars, left, wakerdone, done_seen, which, service_mode, waiting>>

\* One turn of the loop of locktestthread; fail releases the lock, too.
locktestthread(t) ==
    /\ Is(t, "locker")
    /\ \/ /\ Goto(t, "start", "set1") /\ lock_acquire(t, "testlock") /\ UNCHANGED <<sem, testval>>
       \/ /\ Goto(t, "set1", "set2") /\ testval' = [testval EXCEPT ![1] = t] /\ UNCHANGED <<cvRest, sem>>
       \/ /\ Goto(t, "set2", "set3") /\ testval' = [testval EXCEPT ![2] = t * t] /\ UNCHANGED <<cvRest, sem>>
       \/ /\ Goto(t, "set3", "compare") /\ testval' = [testval EXCEPT ![3] = t % 3] /\ UNCHANGED <<cvRest, sem>>
       \/ /\ Goto(t, "compare", IF Mismatch(t) THEN "failed" ELSE "finish")
          /\ lock_release(t, "testlock") /\ UNCHANGED <<sem, testval>>
       \/ /\ pc[t] \in {"failed", "finish"} /\ pc' = [pc EXCEPT ![t] = "done"]
          /\ Sema_V("donesem") /\ UNCHANGED <<cvRest, testval>>
    /\ UNCHANGED <<testVars, left, wakerdone, done_seen, which, service_mode, waiting>>

WorkAlone(t, r) ==
    /\ Is(t, r)
    /\ Goto(t, "start", "done") /\ Sema_V("donesem")
    /\ UNCHANGED <<cvRest, testVars, dataVars>>

loudthread(t) == WorkAlone(t, "loud")
quietthread(t) == WorkAlone(t, "quiet")

\* Multiplies matrices of its own.
compute_thread(t) == WorkAlone(t, "compute")

-----------------------------------------------------------------------------
(* threadtest3 *)

sleepalot_thread(t) ==
    /\ Is(t, "sleeper") /\ pc[t] \in {"start", "cv_woken"}
    /\ \/ /\ left[t] > 0
          /\ \E w \in WaitChans : cv_wchan' = [cv_wchan EXCEPT ![w] = Append(@, t)]
          /\ pc' = [pc EXCEPT ![t] = "cv_asleep"]
          /\ left' = [left EXCEPT ![t] = @ - 1]
          /\ UNCHANGED sem
       \/ /\ left[t] = 0
          /\ pc' = [pc EXCEPT ![t] = "done"] /\ Sema_V("donesem")
          /\ UNCHANGED <<cv_wchan, left>>
    /\ UNCHANGED <<lk_owner, frame, testVars, testval, wakerdone, done_seen, which, service_mode, waiting>>

\* The flag is read under wakersem; then the waker wakes channels at random
\* for a while, or stops.
waker_thread(t) ==
    /\ Is(t, "waker")
    /\ \/ /\ Goto(t, "start", "reading") /\ Sema_P("wakersem")
          /\ done_seen' = wakerdone /\ UNCHANGED cv_wchan
       \/ /\ Goto(t, "reading", IF done_seen THEN "finish" ELSE "waking") /\ Sema_V("wakersem")
          /\ UNCHANGED <<cv_wchan, done_seen>>
       \/ /\ pc[t] = "waking"
          /\ \E w \in WaitChans, again \in {"waking", "start"} :
               /\ pc' = [u \in Threads |-> IF u = t THEN again
                                           ELSE IF u \in Range(cv_wchan[w]) THEN "cv_woken" ELSE pc[u]]
               /\ cv_wchan' = [cv_wchan EXCEPT ![w] = <<>>]
          /\ UNCHANGED <<sem, done_seen>>
       \/ /\ Goto(t, "finish", "done") /\ Sema_V("donesem") /\ UNCHANGED <<cv_wchan, done_seen>>
    /\ UNCHANGED <<lk_owner, frame, testVars, testval, left, wakerdone, which, service_mode, waiting>>

-----------------------------------------------------------------------------
(* whalemating: male, female and matchmaker are the same code, on a lock of *)
(* their own                                                               *)

\* At each meeting a whale waits, once, unless the count of mate_sem says that
\* the others are there (0) or through (3).
Meet(t, here, count, next) ==
    /\ pc[t] = here
    /\ \/ sem["mate_sem"] # count /\ cv_wait(t, "mate_cv", "mate_lock", next)
       \/ sem["mate_sem"] = count /\ cv_broadcast(t, "mate_cv", "mate_lock", next)

Lock(t, here, l, next) == Goto(t, here, next) /\ lock_acquire(t, l)
Unlock(t, here, l, next) == Goto(t, here, next) /\ lock_release(t, l)

whale_arrive(t) ==
    /\ \/ Lock(t, "start", role(t), "P") /\ UNCHANGED <<sem, which>>
       \/ Goto(t, "P", "which") /\ Sema_P("mate_sem") /\ UNCHANGED <<cvRest, which>>
       \/ /\ Goto(t, "which", "lock1") /\ which' = [which EXCEPT ![role(t)] = t]
          /\ UNCHANGED <<cvRest, sem>>

\* MUTANT: the second whale takes itself for the last.
whale_meet_two(t) ==
    /\ \/ Lock(t, "lock1", "mate_lock", "meet1")
       \/ Meet(t, "meet1", 1, "unlock1")
       \/ Unlock(t, "unlock1", "mate_lock", "mating")
    /\ UNCHANGED <<sem, which>>

whale_meet(t) ==
    /\ \/ Lock(t, "lock1", "mate_lock", "meet1")
       \/ Meet(t, "meet1", 0, "unlock1")
       \/ Unlock(t, "unlock1", "mate_lock", "mating")
    /\ UNCHANGED <<sem, which>>

whale_part(t) ==
    /\ \/ Goto(t, "mating", "lock2") /\ Sema_V("mate_sem") /\ UNCHANGED cvRest
       \/ Lock(t, "lock2", "mate_lock", "meet2") /\ UNCHANGED sem
       \/ Meet(t, "meet2", 3, "unlock2") /\ UNCHANGED sem
       \/ Unlock(t, "unlock2", "mate_lock", "leave") /\ UNCHANGED sem
       \/ Unlock(t, "leave", role(t), "finish") /\ UNCHANGED sem
       \/ Goto(t, "finish", "done") /\ Sema_V("donesem") /\ UNCHANGED cvRest
    /\ UNCHANGED which

whale(t, r) ==
    /\ Is(t, r)
    /\ whale_arrive(t) \/ whale_meet(t) \/ whale_part(t)
    /\ UNCHANGED <<testVars, testval, left, wakerdone, done_seen, service_mode, waiting>>

male(t) == whale(t, "male")
female(t) == whale(t, "female")
matchmaker(t) == whale(t, "match")

-----------------------------------------------------------------------------
(* bathroom: boy and girl are the same code but for where the last one     *)
(* leaving resets service_mode                                             *)

person_enter(t, r) ==
    \/ Lock(t, "start", "br_lock", "test") /\ UNCHANGED <<sem, waiting, service_mode>>
    \/ /\ pc[t] = "test"
       /\ IF sem["br_sem"] = 0 \/ service_mode = Other(r) \/ waiting[r] < waiting[Other(r)]
          THEN cv_wait(t, Cv(r), "br_lock", "back") /\ waiting' = [waiting EXCEPT ![r] = @ + 1]
          ELSE Unlock(t, "test", "br_lock", "P") /\ UNCHANGED waiting
       /\ UNCHANGED <<sem, service_mode>>
    \/ /\ Unlock(t, "back", "br_lock", "P") /\ waiting' = [waiting EXCEPT ![r] = @ - 1]
       /\ UNCHANGED <<sem, service_mode>>

person_shower(t, r) ==
    /\ \/ Goto(t, "P", "mode") /\ Sema_P("br_sem") /\ UNCHANGED service_mode
       \/ Goto(t, "mode", "shower") /\ service_mode' = r /\ UNCHANGED sem
       \/ /\ Goto(t, "shower", IF r = "boy" THEN "rest" ELSE "lock2")
          /\ Sema_V("br_sem") /\ UNCHANGED service_mode
    /\ UNCHANGED <<cvRest, waiting>>

Rested == IF sem["br_sem"] = 3 THEN "rest" ELSE service_mode

\* The last one out ends the turn of its kind; a boy does so before it takes
\* the lock, a girl under it.  Then those of the kind with more waiting are
\* told, or the other kind if the turn is over.
person_leave(t, r) ==
    \/ Goto(t, "rest", "lock2") /\ service_mode' = Rested /\ UNCHANGED <<cvRest, sem, waiting>>
    \/ Lock(t, "lock2", "br_lock", "tell") /\ UNCHANGED <<sem, waiting, service_mode>>
    \/ /\ pc[t] = "tell"
       /\ service_mode' = IF r = "boy" THEN service_mode ELSE Rested
       /\ IF waiting[r] > waiting[Other(r)] THEN cv_broadcast(t, Cv(r), "br_lock", "unlock")
          ELSE IF service_mode' # r THEN cv_broadcast(t, Cv(Other(r)), "br_lock", "unlock")
          ELSE Goto(t, "tell", "unlock") /\ UNCHANGED cvRest
       /\ UNCHANGED <<sem, waiting>>
    \/ Unlock(t, "unlock", "br_lock", "finish") /\ UNCHANGED <<sem, waiting, service_mode>>
    \/ Goto(t, "finish", "done") /\ Sema_V("donesem") /\ UNCHANGED <<cvRest, waiting, service_mode>>

person(t, r) ==
    /\ Is(t, r)
    /\ person_enter(t, r) \/ person_shower(t, r) \/ person_leave(t, r)
    /\ UNCHANGED <<testVars, testval, left, wakerdone, done_seen, which>>

boy(t) == person(t, "boy")
girl(t) == person(t, "girl")

CvWait(t) ==
    /\ test \in {"whalemating", "bathroom"}
    /\ cv_sleep(t) \/ cv_return(t)
    /\ UNCHANGED <<testVars, sem, dataVars>>

Next ==
    \/ Menu
    \/ \E t \in Threads :
         \/ semtestthread(t) \/ locktestthread(t) \/ loudthread(t) \/ quietthread(t)
         \/ sleepalot_thread(t) \/ waker_thread(t) \/ compute_thread(t)
         \/ male(t) \/ female(t) \/ matchmaker(t) \/ boy(t) \/ girl(t) \/ CvWait(t)

Spec == Init /\ [][Next]_vars

-----------------------------------------------------------------------------
Running == {t \in Threads : pc[t] \notin {"none", "done"}}

\* When a test is over all its threads are through, nobody sleeps on a channel
\* of it, and its semaphores and locks are as before, so that it can be run
\* again.
RunAgain ==
    menu = "idle" =>
        /\ Running = {}
        /\ \A c \in Cvs : cv_wchan[c] = <<>>
        /\ \A l \in Locks : lk_owner[l] = None
        /\ sem = SemInit /\ waiting = [r \in {"boy", "girl"} |-> 0]

\* semtest: "Only one of these should print at a time."  locktest: no thread
\* sees the values of another one.
TestsPass ==
    /\ \A t, u \in Threads : pc[t] = "printing" /\ pc[u] = "printing" => t = u
    /\ \A t \in Threads : pc[t] # "failed"

\* Whales mate by threes: while one of them mates a male, a female and a
\* matchmaker have come in, and none of the three has left.
MatingIsOfThree ==
    test = "whalemating" =>
        \A t \in Threads : pc[t] = "mating" =>
            \A r \in Whales : \E u \in Threads :
                lk_owner[r] = u /\ pc[u] \notin {"none", "P", "leave"}

\* (Not the case.)  A whale that is mating has the numbers of the two others.
WhichRight ==
    test = "whalemating" =>
        \A t \in Threads : pc[t] = "mating" => \A r \in Whales : which[r] = lk_owner[r]

\* (Not the case.)  A test is never stuck.
TestEnds == menu # "idle" => ENABLED Next

\* (Not the case.)  Boys and girls are not in the shower together.
NotMixed == \A t, u \in Threads : pc[t] = "shower" /\ pc[u] = "shower" => role(t) = role(u)
=============================================================================
