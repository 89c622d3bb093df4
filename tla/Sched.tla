----------------------------- MODULE Sched -----------------------------
(***************************************************************************)
(* The thread system of kern/thread/thread.c: run queues, thread_switch,   *)
(* the idle loop, wakeups and their interprocessor interrupts, exited      *)
(* threads, and the migration of threads between CPUs.                     *)
(*                                                                         *)
(* pc[c] is the place CPU c has reached.  A step is a stretch of code that *)
(* no other CPU can see the middle of, because it runs under the run queue *)
(* lock it touches; a lock that stays held between steps is a variable.    *)
(* Interrupts are taken in "run" and "idle" only: everywhere else they are *)
(* off.                                                                    *)
(***************************************************************************)
EXTENDS Integers, Sequences, Functions

CONSTANTS
    NumCPUs,
    Threads,    \* thread structures; those not forked yet are "unborn"
    None

CPUs == 1..NumCPUs

ASSUME SchedAssumption ==
    /\ NumCPUs \in Nat \ {0}
    /\ None \notin Threads
    /\ ExistsInjection(CPUs, Threads)

VARIABLES
    c_curthread, c_isidle, c_runqueue, c_zombies, c_ipi_pending,
    pc,           \* pc[c]: where CPU c is
    mig,          \* mig[c]: the locals of thread_consider_migration on CPU c
    t_state, t_cpu,
    live,         \* live[t]: t's registers are in a CPU, not in t_context
    waking,       \* waking[t]: wchan_wakeone's local variable in thread t
    iwaking,      \* iwaking[c]: the same, in an interrupt handler of CPU c
    wc_threads    \* the threads asleep on the wait channels (one list for all)

cpuVars == <<c_curthread, c_isidle, c_runqueue, c_zombies, c_ipi_pending, pc, mig>>
threadVars == <<t_state, t_cpu, live, waking, iwaking, wc_threads>>
vars == <<cpuVars, threadVars>>

States == {"unborn", "S_RUN", "S_READY", "S_SLEEP", "S_ZOMBIE", "destroyed"}

Labels == {"run", "pick", "idle", "relock", "switched", "iwake", "mig_count", "mig_victims",
           "mig_take", "mig_send", "mig_give", "mig_left", "yield"}

MigRec == [next : Nat, total : Nat, mine : Nat, share : Nat, to_send : Nat, victims : Seq(Threads)]

NoMig == [next |-> 0, total |-> 0, mine |-> 0, share |-> 0, to_send |-> 0, victims |-> <<>>]

TypeOK ==
    /\ c_curthread \in [CPUs -> Threads]
    /\ c_isidle \in [CPUs -> BOOLEAN]
    /\ c_runqueue \in [CPUs -> Seq(Threads)]
    /\ c_zombies \in [CPUs -> Seq(Threads)]
    /\ c_ipi_pending \in [CPUs -> SUBSET {"IPI_UNIDLE"}]
    /\ pc \in [CPUs -> Labels]
    /\ mig \in [CPUs -> MigRec]
    /\ t_state \in [Threads -> States]
    /\ t_cpu \in [Threads -> CPUs]
    /\ live \in [Threads -> BOOLEAN]
    /\ waking \in [Threads -> Threads \cup {None}]
    /\ iwaking \in [CPUs -> Threads \cup {None}]
    /\ wc_threads \in Seq(Threads)

\* BootThreads[c] is the thread that cpu_create makes for CPU c.
BootThreads == CHOOSE f \in Injection(CPUs, Threads) : TRUE

\* After thread_start_cpus: every CPU runs its first thread.
Init ==
    /\ c_curthread = BootThreads
    /\ c_isidle = [c \in CPUs |-> FALSE]
    /\ c_runqueue = [c \in CPUs |-> <<>>]
    /\ c_zombies = [c \in CPUs |-> <<>>]
    /\ c_ipi_pending = [c \in CPUs |-> {}]
    /\ pc = [c \in CPUs |-> "run"]
    /\ mig = [c \in CPUs |-> NoMig]
    /\ t_state = [t \in Threads |-> IF t \in Range(BootThreads) THEN "S_RUN" ELSE "unborn"]
    /\ t_cpu = [t \in Threads |-> IF t \in Range(BootThreads)
                                  THEN CHOOSE c \in CPUs : BootThreads[c] = t ELSE 1]
    /\ live = [t \in Threads |-> t \in Range(BootThreads)]
    /\ waking = [t \in Threads |-> None]
    /\ iwaking = [c \in CPUs |-> None]
    /\ wc_threads = <<>>

\* A CPU keeps its own run queue lock from thread_switch to the other side of
\* the context switch and while it picks the threads to send away, and the lock
\* of another CPU while it hands threads to that one; all other uses of a run
\* queue lock are within one step.
RqLocked(c) ==
    \/ pc[c] \in {"pick", "switched", "mig_take"}
    \/ \E d \in CPUs : pc[d] = "mig_give" /\ mig[d].next = c

Goto(c, from, to) == pc[c] = from /\ pc' = [pc EXCEPT ![c] = to]

\* MUTANT: nobody tells an idle CPU.
AddRunnable_silent(c, ts) ==
    /\ c_runqueue' = [c_runqueue EXCEPT ![c] = @ \o ts]
    /\ UNCHANGED c_ipi_pending

\* Threads ts go to the tail of c's run queue; an idle CPU gets an interrupt.
\* The caller has c's run queue lock, or takes it for the step.
AddRunnable(c, ts) ==
    /\ c_runqueue' = [c_runqueue EXCEPT ![c] = @ \o ts]
    /\ c_ipi_pending' = [c_ipi_pending EXCEPT
          ![c] = IF c_isidle[c] /\ ts # <<>> THEN @ \cup {"IPI_UNIDLE"} ELSE @]

\* thread_make_runnable(t, false)
thread_make_runnable(t) ==
    /\ ~RqLocked(t_cpu[t])
    /\ AddRunnable(t_cpu[t], <<t>>)

\* threadlist_remove: the queue q without its i-th thread.
threadlist_remove(q, i) == SubSeq(q, 1, i-1) \o SubSeq(q, i+1, Len(q))

-----------------------------------------------------------------------------
\* thread_switch, up to the search for the next thread: the current thread is
\* put where its new state says, and the CPU calls itself idle.
SwitchTo(c, newstate) ==
    LET cur == c_curthread[c] IN
    /\ ~RqLocked(c)
    /\ pc' = [pc EXCEPT ![c] = "pick"]
    /\ t_state' = [t_state EXCEPT ![cur] = newstate]
    /\ c_isidle' = [c_isidle EXCEPT ![c] = TRUE]
    /\ c_runqueue' = [c_runqueue EXCEPT ![c] = IF newstate = "S_READY" THEN Append(@, cur) ELSE @]
    /\ wc_threads' = IF newstate = "S_SLEEP" THEN Append(wc_threads, cur) ELSE wc_threads
    /\ c_zombies' = [c_zombies EXCEPT ![c] = IF newstate = "S_ZOMBIE" THEN Append(@, cur) ELSE @]
    /\ UNCHANGED <<c_curthread, c_ipi_pending, mig, t_cpu, live, waking, iwaking>>

\* thread_yield: nothing happens when the CPU is idle (the clock interrupted
\* the idle loop) or when nobody else is runnable.
thread_yield(c) ==
    \/ c_runqueue[c] # <<>> /\ ~c_isidle[c] /\ SwitchTo(c, "S_READY")
    \/ /\ c_isidle[c] \/ (c_runqueue[c] = <<>> /\ ~RqLocked(c))
       /\ pc' = [pc EXCEPT ![c] = IF c_isidle[c] THEN "relock" ELSE "run"]
       /\ UNCHANGED <<c_curthread, c_isidle, c_runqueue, c_zombies, c_ipi_pending, mig, threadVars>>

\* wchan_sleep: the caller holds the channel's lock and no wakeup is half done.
wchan_sleep(c) ==
    /\ pc[c] = "run" /\ waking[c_curthread[c]] = None
    /\ SwitchTo(c, "S_SLEEP")

thread_exit(c) ==
    /\ pc[c] = "run" /\ waking[c_curthread[c]] = None
    /\ SwitchTo(c, "S_ZOMBIE")

\* The loop that picks the next thread.  With an empty queue the lock is
\* dropped and the CPU waits in cpu_idle; otherwise switchframe_switch saves
\* the registers of the old thread and loads those of the new one.
Pick(c) ==
    /\ pc[c] = "pick"
    /\ \/ /\ c_runqueue[c] = <<>>
          /\ pc' = [pc EXCEPT ![c] = "idle"]
          /\ UNCHANGED <<c_curthread, c_isidle, c_runqueue, live>>
       \/ /\ c_runqueue[c] # <<>>
          /\ pc' = [pc EXCEPT ![c] = "switched"]
          /\ c_runqueue' = [c_runqueue EXCEPT ![c] = Tail(@)]
          /\ c_isidle' = [c_isidle EXCEPT ![c] = FALSE]
          /\ c_curthread' = [c_curthread EXCEPT ![c] = Head(c_runqueue[c])]
          /\ live' = [live EXCEPT ![c_curthread[c]] = FALSE, ![Head(c_runqueue[c])] = TRUE]
    /\ UNCHANGED <<c_zombies, c_ipi_pending, mig, t_state, t_cpu, waking, iwaking, wc_threads>>

\* The tail of thread_switch, or thread_startup: running, unlock, and exorcise.
FinishSwitch(c) ==
    /\ Goto(c, "switched", "run")
    /\ t_state' = [t \in Threads |-> IF t = c_curthread[c] THEN "S_RUN"
                                     ELSE IF t \in Range(c_zombies[c]) THEN "destroyed"
                                     ELSE t_state[t]]
    /\ c_zombies' = [c_zombies EXCEPT ![c] = <<>>]
    /\ UNCHANGED <<c_curthread, c_isidle, c_runqueue, c_ipi_pending, mig,
                   t_cpu, live, waking, iwaking, wc_threads>>

\* cpu_idle has returned.
Relock(c) ==
    /\ Goto(c, "relock", "pick")
    /\ ~RqLocked(c)
    /\ UNCHANGED <<c_curthread, c_isidle, c_runqueue, c_zombies, c_ipi_pending, mig, threadVars>>

-----------------------------------------------------------------------------
\* thread_fork: the new thread starts on its parent's CPU.
thread_fork(c, t) ==
    /\ pc[c] = "run" /\ waking[c_curthread[c]] = None
    /\ t_state[t] = "unborn"
    /\ ~RqLocked(c)
    /\ AddRunnable(c, <<t>>)
    /\ t_state' = [t_state EXCEPT ![t] = "S_READY"]
    /\ t_cpu' = [t_cpu EXCEPT ![t] = c]
    /\ UNCHANGED <<c_curthread, c_isidle, c_zombies, pc, mig,
                   live, waking, iwaking, wc_threads>>

\* wchan_wakeone in a thread: take a sleeper off its channel ...
wchan_wakeone(c) ==
    /\ pc[c] = "run" /\ waking[c_curthread[c]] = None
    /\ wc_threads # <<>>
    /\ waking' = [waking EXCEPT ![c_curthread[c]] = Head(wc_threads)]
    /\ wc_threads' = Tail(wc_threads)
    /\ UNCHANGED <<cpuVars, t_state, t_cpu, live, iwaking>>

\* ... and make it runnable.
WakeRunnable(c) ==
    LET cur == c_curthread[c] IN
    /\ pc[c] = "run" /\ waking[cur] # None
    /\ thread_make_runnable(waking[cur])
    /\ waking' = [waking EXCEPT ![cur] = None]
    /\ UNCHANGED <<c_curthread, c_isidle, c_zombies, pc, mig,
                   t_state, t_cpu, live, iwaking, wc_threads>>

-----------------------------------------------------------------------------
\* A device interrupt whose handler wakes a sleeper (a V), on a busy or an
\* idle CPU.
DeviceInterrupt(c) ==
    /\ pc[c] \in {"run", "idle"}
    /\ wc_threads # <<>>
    /\ pc' = [pc EXCEPT ![c] = "iwake"]
    /\ iwaking' = [iwaking EXCEPT ![c] = Head(wc_threads)]
    /\ wc_threads' = Tail(wc_threads)
    /\ UNCHANGED <<c_curthread, c_isidle, c_runqueue, c_zombies, c_ipi_pending, mig,
                   t_state, t_cpu, live, waking>>

InterruptWake(c) ==
    /\ Goto(c, "iwake", IF c_isidle[c] THEN "relock" ELSE "run")
    /\ thread_make_runnable(iwaking[c])
    /\ iwaking' = [iwaking EXCEPT ![c] = None]
    /\ UNCHANGED <<c_curthread, c_isidle, c_zombies, mig,
                   t_state, t_cpu, live, waking, wc_threads>>

\* An interprocessor interrupt: its pending bits are cleared.  An idle CPU
\* comes out of cpu_idle.
interprocessor_interrupt(c) ==
    /\ pc[c] \in {"run", "idle"}
    /\ c_ipi_pending[c] # {}
    /\ c_ipi_pending' = [c_ipi_pending EXCEPT ![c] = {}]
    /\ pc' = [pc EXCEPT ![c] = IF c_isidle[c] THEN "relock" ELSE "run"]
    /\ UNCHANGED <<c_curthread, c_isidle, c_runqueue, c_zombies, mig, threadVars>>

\* schedule: one thread of the queue is moved to its head (a random one, or
\* the one with the lowest priority number, by turns); an empty queue stays.
schedule(c) ==
    LET q == c_runqueue[c] IN
    \/ q = <<>> /\ UNCHANGED c_runqueue
    \/ \E i \in DOMAIN q : c_runqueue' = [c_runqueue EXCEPT ![c] = <<q[i]>> \o threadlist_remove(q, i)]

\* The clock interrupt.  Every 4th one reshuffles the queue, every 16th one
\* also considers migration, all end with a yield.
hardclock(c) ==
    /\ pc[c] \in {"run", "idle"}
    /\ \/ /\ pc' = [pc EXCEPT ![c] = "yield"]
          /\ UNCHANGED <<c_runqueue, mig>>
       \/ /\ schedule(c)
          /\ pc' = [pc EXCEPT ![c] = "yield"]
          /\ UNCHANGED mig
       \/ /\ schedule(c)
          /\ pc' = [pc EXCEPT ![c] = "mig_count"]
          /\ mig' = [mig EXCEPT ![c] = [NoMig EXCEPT !.next = 1]]
    /\ UNCHANGED <<c_curthread, c_isidle, c_zombies, c_ipi_pending, threadVars>>

Yield(c) == pc[c] = "yield" /\ thread_yield(c)

-----------------------------------------------------------------------------
\* MUTANT: the own count is that of whatever CPU was counted last.
MigCount_last(c) ==
    LET m == mig[c]
        d == m.next
        n == Len(c_runqueue[d])
        total == m.total + n
        share == (total + NumCPUs - 1) \div NumCPUs IN
    /\ pc[c] = "mig_count" /\ ~RqLocked(d)
    /\ \/ /\ d < NumCPUs
          /\ mig' = [mig EXCEPT ![c] = [m EXCEPT !.next = d + 1, !.total = total, !.mine = n]]
          /\ UNCHANGED pc
       \/ /\ d = NumCPUs /\ n < share
          /\ mig' = [mig EXCEPT ![c] = NoMig]
          /\ pc' = [pc EXCEPT ![c] = "yield"]
       \/ /\ d = NumCPUs /\ n >= share
          /\ mig' = [mig EXCEPT ![c] = [NoMig EXCEPT !.share = share, !.to_send = n - share]]
          /\ pc' = [pc EXCEPT ![c] = "mig_victims"]
    /\ UNCHANGED <<c_curthread, c_isidle, c_runqueue, c_zombies, c_ipi_pending, threadVars>>

\* thread_consider_migration.  Count the runnable threads, one CPU at a time.
MigCount(c) ==
    LET m == mig[c]
        d == m.next
        n == Len(c_runqueue[d])
        total == m.total + n
        mine == IF d = c THEN n ELSE m.mine
        share == (total + NumCPUs - 1) \div NumCPUs IN
    /\ pc[c] = "mig_count"
    /\ ~RqLocked(d)
    /\ \/ /\ d < NumCPUs
          /\ mig' = [mig EXCEPT ![c] = [m EXCEPT !.next = d + 1, !.total = total, !.mine = mine]]
          /\ UNCHANGED pc
       \/ /\ d = NumCPUs /\ mine < share
          /\ mig' = [mig EXCEPT ![c] = NoMig]
          /\ pc' = [pc EXCEPT ![c] = "yield"]
       \/ /\ d = NumCPUs /\ mine >= share
          /\ mig' = [mig EXCEPT ![c] = [NoMig EXCEPT !.share = share, !.to_send = mine - share]]
          /\ pc' = [pc EXCEPT ![c] = "mig_victims"]
    /\ UNCHANGED <<c_curthread, c_isidle, c_runqueue, c_zombies, c_ipi_pending, threadVars>>

\* The threads to send away are taken under the own run queue lock, ...
MigVictims(c) ==
    /\ Goto(c, "mig_victims", "mig_take")
    /\ ~RqLocked(c)
    /\ UNCHANGED <<c_curthread, c_isidle, c_runqueue, c_zombies, c_ipi_pending, mig, threadVars>>

\* ... one in each turn of the loop (which one is up to the priorities), and
\* each goes to the head of the victims.
MigTake(c) ==
    LET q == c_runqueue[c]
        v == mig[c].victims IN
    /\ pc[c] = "mig_take"
    /\ \/ /\ Len(v) < mig[c].to_send
          /\ \E i \in DOMAIN q :
                /\ c_runqueue' = [c_runqueue EXCEPT ![c] = threadlist_remove(q, i)]
                /\ mig' = [mig EXCEPT ![c].victims = <<q[i]>> \o v]
          /\ UNCHANGED pc
       \/ /\ Len(v) = mig[c].to_send
          /\ pc' = [pc EXCEPT ![c] = "mig_send"]
          /\ mig' = [mig EXCEPT ![c].next = 1]
          /\ UNCHANGED c_runqueue
    /\ UNCHANGED <<c_curthread, c_isidle, c_zombies, c_ipi_pending, threadVars>>

\* The next CPU to hand victims to: the own one is passed over, the run queue
\* lock of any other is taken.
MigSend(c) ==
    LET d == mig[c].next IN
    /\ pc[c] = "mig_send"
    /\ \/ /\ d > NumCPUs \/ mig[c].to_send = 0
          /\ pc' = [pc EXCEPT ![c] = "mig_left"]
          /\ UNCHANGED mig
       \/ /\ d = c /\ mig[c].to_send > 0
          /\ mig' = [mig EXCEPT ![c].next = d + 1]
          /\ UNCHANGED pc
       \/ /\ d <= NumCPUs /\ d # c /\ mig[c].to_send > 0
          /\ ~RqLocked(d)
          /\ pc' = [pc EXCEPT ![c] = "mig_give"]
          /\ UNCHANGED mig
    /\ UNCHANGED <<c_curthread, c_isidle, c_runqueue, c_zombies, c_ipi_pending, threadVars>>

\* MUTANT: curthread is given away like any other.
GiveOne_curthread(c, d) ==
    LET t == Head(mig[c].victims) IN
    /\ mig' = [mig EXCEPT ![c].victims = Tail(@), ![c].to_send = @ - 1]
    /\ t_cpu' = [t_cpu EXCEPT ![t] = d]
    /\ AddRunnable(d, <<t>>)

\* The body of the loop that hands victims to CPU d: curthread is skipped.
GiveOne(c, d) ==
    LET t == Head(mig[c].victims) IN
    \/ /\ t = c_curthread[c]
       /\ mig' = [mig EXCEPT ![c].victims = Append(Tail(@), t), ![c].to_send = @ - 1]
       /\ UNCHANGED <<t_cpu, c_runqueue, c_ipi_pending>>
    \/ /\ t # c_curthread[c]
       /\ mig' = [mig EXCEPT ![c].victims = Tail(@), ![c].to_send = @ - 1]
       /\ t_cpu' = [t_cpu EXCEPT ![t] = d]
       /\ AddRunnable(d, <<t>>)

\* The loop: victims go to d until d has its share or none is left to send.
MigGive(c) ==
    LET d == mig[c].next
        more == Len(c_runqueue[d]) < mig[c].share /\ mig[c].to_send > 0 IN
    /\ pc[c] = "mig_give"
    /\ \/ more /\ GiveOne(c, d) /\ UNCHANGED pc
       \/ /\ ~more
          /\ pc' = [pc EXCEPT ![c] = "mig_send"]
          /\ mig' = [mig EXCEPT ![c].next = d + 1]
          /\ UNCHANGED <<t_cpu, c_runqueue, c_ipi_pending>>
    /\ UNCHANGED <<c_curthread, c_isidle, c_zombies, t_state, live, waking, iwaking, wc_threads>>

\* MUTANT: the victims that found no CPU are dropped.
MigLeft_drop(c) ==
    /\ Goto(c, "mig_left", "yield")
    /\ mig' = [mig EXCEPT ![c] = NoMig]
    /\ UNCHANGED <<c_runqueue, c_curthread, c_isidle, c_zombies, c_ipi_pending, threadVars>>

\* Whatever is left goes back on the own queue.
MigLeft(c) ==
    /\ Goto(c, "mig_left", "yield")
    /\ mig[c].victims # <<>> => ~RqLocked(c)
    /\ c_runqueue' = [c_runqueue EXCEPT ![c] = @ \o mig[c].victims]
    /\ mig' = [mig EXCEPT ![c] = NoMig]
    /\ UNCHANGED <<c_curthread, c_isidle, c_zombies, c_ipi_pending, threadVars>>

-----------------------------------------------------------------------------
thread_switch(c) ==
    \/ wchan_sleep(c) \/ thread_exit(c) \/ Pick(c) \/ FinishSwitch(c) \/ Relock(c) \/ Yield(c)

thread_consider_migration(c) ==
    \/ MigCount(c) \/ MigVictims(c) \/ MigTake(c) \/ MigSend(c) \/ MigGive(c) \/ MigLeft(c)

Next == \E c \in CPUs :
    \/ thread_switch(c)
    \/ \E t \in Threads : thread_fork(c, t)
    \/ wchan_wakeone(c) \/ WakeRunnable(c)
    \/ DeviceInterrupt(c) \/ InterruptWake(c) \/ interprocessor_interrupt(c)
    \/ hardclock(c) \/ thread_consider_migration(c)

Spec == Init /\ [][Next]_vars

\* What a CPU does of itself: finish a switch, answer an interrupt, leave the
\* idle loop, finish a wakeup.  Sleeping, forking, waking and the clock are
\* left to chance.
Progress(c) ==
    \/ Pick(c) \/ FinishSwitch(c) \/ interprocessor_interrupt(c) \/ MigTake(c) \/ MigGive(c)

\* The steps that spin for a run queue lock another CPU may hold.  The lock is
\* held for a few instructions of one context switch or migration, and the
\* clock that makes a CPU take it again is slow, so that a spinning CPU gets
\* its turn.
SpinProgress(c) ==
    \/ WakeRunnable(c) \/ InterruptWake(c) \/ Relock(c) \/ Yield(c)
    \/ MigCount(c) \/ MigVictims(c) \/ MigSend(c) \/ MigLeft(c)

FairSpec == Spec /\ \A c \in CPUs : WF_vars(Progress(c)) /\ SF_vars(SpinProgress(c))

-----------------------------------------------------------------------------
\* The places a thread that does not run can be in, and the list of threads in
\* each.  A waker's local variable is a place for one thread.
Places ==
    {<<"runqueue", c>> : c \in CPUs} \cup {<<"victims", c>> : c \in CPUs}
    \cup {<<"zombies", c>> : c \in CPUs} \cup {<<"iwaking", c>> : c \in CPUs}
    \cup {<<"waking", u>> : u \in Threads} \cup {<<"wchan", None>>}

OnlyIf(t) == IF t = None THEN <<>> ELSE <<t>>

ListIn(p) ==
    CASE p[1] = "runqueue" -> c_runqueue[p[2]]
      [] p[1] = "victims"  -> mig[p[2]].victims
      [] p[1] = "zombies"  -> c_zombies[p[2]]
      [] p[1] = "iwaking"  -> OnlyIf(iwaking[p[2]])
      [] p[1] = "waking"   -> OnlyIf(waking[p[2]])
      [] p[1] = "wchan"    -> wc_threads

Running(t) == \E c \in CPUs : c_curthread[c] = t /\ ~c_isidle[c]

Nowhere(t) == t_state[t] \in {"unborn", "destroyed"} \/ Running(t)

\* A thread that exists and does not run is in exactly one place: a run queue,
\* a wait channel, the zombies, a migration in progress or the hands of a
\* waker.  Nothing is lost and nothing is queued twice (threadlist.c asserts
\* that a node is on one list at a time), and t_cpu names the CPU that has it.
OnePlace ==
    /\ TypeOK
    /\ \A p \in Places : IsInjective(ListIn(p))
    /\ \A t \in Threads : \A p \in Places : t \in Range(ListIn(p)) =>
            ~Nowhere(t) /\ \A q \in Places : t \in Range(ListIn(q)) => q = p
    /\ \A t \in Threads : ~Nowhere(t) => \E p \in Places : t \in Range(ListIn(p))
    /\ \A c \in CPUs : \A t \in {c_curthread[c]} \cup Range(c_runqueue[c]) : t_cpu[t] = c

\* No two CPUs are ever on the stack of one thread, and a thread whose
\* registers are still in a CPU can be resumed by that CPU only.  This is why
\* thread_consider_migration leaves curthread behind.  Nor does exorcise free
\* a stack in use: of the zombies only an idle CPU's last thread has one.
StackExclusive ==
    /\ IsInjective(c_curthread)
    /\ \A t \in Threads : live[t] <=> \E c \in CPUs : c_curthread[c] = t
    /\ \A c, d \in CPUs : c_curthread[c] \in Range(c_runqueue[d]) => c = d
    /\ \A c \in CPUs : \A t \in Range(c_zombies[c]) :
        t_state[t] = "S_ZOMBIE" /\ (live[t] => c_curthread[c] = t /\ c_isidle[c])

\* The counts taken before the migration still cover what it does: the queue
\* has as many threads as are to be sent, and victims do not run out.
VictimsSuffice ==
    \A c \in CPUs :
        /\ pc[c] = "mig_victims" => Len(c_runqueue[c]) >= mig[c].to_send
        /\ pc[c] = "mig_take" => Len(c_runqueue[c]) + Len(mig[c].victims) >= mig[c].to_send
        /\ pc[c] \in {"mig_send", "mig_give"} => Len(mig[c].victims) >= mig[c].to_send

\* An idle CPU does not sleep on a queue of runnable threads for ever.
IdleCpuUnidles ==
    \A c \in CPUs : pc[c] = "idle" /\ c_runqueue[c] # <<>> ~> pc[c] = "run" \/ c_runqueue[c] = <<>>
=============================================================================
