-------------------------------- MODULE Ipi --------------------------------
(***************************************************************************)
(* Interprocessor interrupts and idling (kern/thread/thread.c, cpu.h,      *)
(* arch/sys161/dev/lamebus_machdep.c).  A CPU that makes a thread runnable *)
(* on an idle CPU sends it IPI_UNIDLE while it holds that CPU's run queue  *)
(* lock; a CPU that is told to go offline takes its run queue lock while   *)
(* it holds its IPI lock, and halts holding the IPI lock.  A CPU that      *)
(* holds or waits for a spinlock takes no interrupt.  Run queues are       *)
(* counters here; Sched has their contents.                                *)
(***************************************************************************)
EXTENDS Integers, FiniteSets

CONSTANTS
    CPUs,           \* a set of numbers: ipi_broadcast goes by them
    StopCodes,      \* which of OFFLINE and PANIC may be broadcast
    MaxQueue,       \* bound: threads on a run queue
    None

IpiAssumption ==
    /\ CPUs \subseteq Nat /\ None \notin CPUs
    /\ StopCodes \subseteq {"OFFLINE", "PANIC"}
    /\ MaxQueue \in Nat

VARIABLES
    pc,
    back,           \* back[c]: where c goes on after its interrupt
    tgt,            \* tgt[c]: the CPU c makes a thread runnable on
    todo,           \* todo[c]: the CPUs c's broadcast has still to reach
    code,           \* what has been broadcast
    queue, c_isidle, c_ipi_pending,
    line,           \* line[c]: c's interrupt line is asserted
    runqueue_lock, ipi_lock     \* their holders

vars == <<pc, back, tgt, todo, code, queue, c_isidle, c_ipi_pending, line, runqueue_lock, ipi_lock>>
send == <<todo, code>>
mbox == <<c_ipi_pending, line, ipi_lock>>
runq == <<queue, c_isidle, runqueue_lock>>

Locations == {"run", "mr_ipi", "switch", "wait", "relock", "ipi", "offline", "clear",
              "broadcast", "stopped", "halted"}

\* The boot CPU runs; the others have hatched, exited their first thread and idle.
Init ==
    /\ pc = [c \in CPUs |-> IF c = 0 THEN "run" ELSE "wait"]
    /\ back = [c \in CPUs |-> "run"]
    /\ tgt = [c \in CPUs |-> c]
    /\ todo = [c \in CPUs |-> {}]
    /\ code = None
    /\ queue = [c \in CPUs |-> 0]
    /\ c_isidle = [c \in CPUs |-> c # 0]
    /\ c_ipi_pending = [c \in CPUs |-> {}]
    /\ line = [c \in CPUs |-> FALSE]
    /\ runqueue_lock = [c \in CPUs |-> None]
    /\ ipi_lock = [c \in CPUs |-> None]

TypeOK ==
    /\ pc \in [CPUs -> Locations]
    /\ back \in [CPUs -> {"run", "relock"}]
    /\ tgt \in [CPUs -> CPUs]
    /\ todo \in [CPUs -> SUBSET CPUs]
    /\ code \in StopCodes \cup {None}
    /\ queue \in [CPUs -> 0..MaxQueue]
    /\ c_isidle \in [CPUs -> BOOLEAN]
    /\ c_ipi_pending \in [CPUs -> SUBSET {"OFFLINE", "PANIC", "UNIDLE"}]
    /\ line \in [CPUs -> BOOLEAN]
    /\ runqueue_lock \in [CPUs -> CPUs \cup {None}]
    /\ ipi_lock \in [CPUs -> CPUs \cup {None}]

Go(c, l) == pc' = [pc EXCEPT ![c] = l]

\* Interrupts are on: in a thread, and in cpu_idle, which looks at the run
\* queue again afterwards.
Interruptible(c) == pc[c] \in {"run", "wait"}
After(c) == IF pc[c] = "wait" THEN "relock" ELSE "run"

-----------------------------------------------------------------------------
\* thread_make_runnable, from a thread or from a device interrupt.  The target
\* does not idle: one step.
make_runnable_busy(c, t) ==
    /\ Interruptible(c)
    /\ runqueue_lock[t] = None /\ queue[t] < MaxQueue /\ ~c_isidle[t]
    /\ queue' = [queue EXCEPT ![t] = @ + 1]
    /\ Go(c, After(c))
    /\ UNCHANGED <<back, tgt, send, mbox, c_isidle, runqueue_lock>>

\* The target idles: it must be sent an IPI, under its run queue lock.
make_runnable_idle(c, t) ==
    /\ Interruptible(c)
    /\ runqueue_lock[t] = None /\ queue[t] < MaxQueue /\ c_isidle[t]
    /\ runqueue_lock' = [runqueue_lock EXCEPT ![t] = c]
    /\ queue' = [queue EXCEPT ![t] = @ + 1]
    /\ tgt' = [tgt EXCEPT ![c] = t]
    /\ back' = [back EXCEPT ![c] = After(c)]
    /\ Go(c, "mr_ipi")
    /\ UNCHANGED <<send, mbox, c_isidle>>

ipi_send(t, k) ==
    /\ ipi_lock[t] = None
    /\ c_ipi_pending' = [c_ipi_pending EXCEPT ![t] = @ \cup {k}]
    /\ line' = [line EXCEPT ![t] = TRUE]
    /\ UNCHANGED ipi_lock

make_runnable_send(c) ==
    /\ pc[c] = "mr_ipi"
    /\ ipi_send(tgt[c], "UNIDLE")
    /\ runqueue_lock' = [runqueue_lock EXCEPT ![tgt[c]] = None]
    /\ Go(c, back[c])
    /\ back' = [back EXCEPT ![c] = "run"]
    /\ tgt' = [tgt EXCEPT ![c] = c]
    /\ UNCHANGED <<send, queue, c_isidle>>

\* thread_switch of a thread that sleeps: c_isidle is set under the lock.
switch(c) ==
    /\ pc[c] = "run" /\ runqueue_lock[c] = None
    /\ runqueue_lock' = [runqueue_lock EXCEPT ![c] = c]
    /\ c_isidle' = [c_isidle EXCEPT ![c] = TRUE]
    /\ Go(c, "switch")
    /\ UNCHANGED <<back, tgt, send, mbox, queue>>

\* A round of the idle loop: the next thread, or release and cpu_idle.
remhead(c) ==
    /\ pc[c] = "switch"
    /\ queue' = [queue EXCEPT ![c] = IF @ > 0 THEN @ - 1 ELSE @]
    /\ c_isidle' = [c_isidle EXCEPT ![c] = queue[c] = 0]
    /\ runqueue_lock' = [runqueue_lock EXCEPT ![c] = None]
    /\ Go(c, IF queue[c] > 0 THEN "run" ELSE "wait")
    /\ UNCHANGED <<back, tgt, send, mbox>>

\* cpu_idle has returned.
relock(c) ==
    /\ pc[c] = "relock" /\ runqueue_lock[c] = None
    /\ runqueue_lock' = [runqueue_lock EXCEPT ![c] = c]
    /\ Go(c, "switch")
    /\ UNCHANGED <<back, tgt, send, mbox, queue, c_isidle>>

\* Another interrupt ends cpu_idle; nothing depends on its coming.
wait_ends(c) ==
    /\ pc[c] = "wait" /\ Go(c, "relock")
    /\ UNCHANGED <<back, tgt, send, mbox, runq>>

-----------------------------------------------------------------------------
\* mainbus_interrupt with the IPI bit set.
mainbus_interrupt(c) ==
    /\ line[c] /\ Interruptible(c)
    /\ back' = [back EXCEPT ![c] = After(c)]
    /\ Go(c, "ipi")
    /\ UNCHANGED <<tgt, send, mbox, runq>>

\* interprocessor_interrupt: a panic halts the CPU with its IPI lock held ...
interprocessor_panic(c) ==
    /\ pc[c] = "ipi" /\ ipi_lock[c] = None /\ "PANIC" \in c_ipi_pending[c]
    /\ ipi_lock' = [ipi_lock EXCEPT ![c] = c]
    /\ Go(c, "halted")
    /\ UNCHANGED <<back, tgt, send, c_ipi_pending, line, runq>>

\* ... going offline needs the run queue lock as well ...
interprocessor_offline(c) ==
    /\ pc[c] = "ipi" /\ ipi_lock[c] = None
    /\ "PANIC" \notin c_ipi_pending[c] /\ "OFFLINE" \in c_ipi_pending[c]
    /\ ipi_lock' = [ipi_lock EXCEPT ![c] = c]
    /\ Go(c, "offline")
    /\ UNCHANGED <<back, tgt, send, c_ipi_pending, line, runq>>

go_offline(c) ==
    /\ pc[c] = "offline" /\ runqueue_lock[c] = None
    /\ Go(c, "halted")
    /\ UNCHANGED <<back, tgt, send, mbox, runq>>

\* ... and anything else has been done by taking the interrupt.
interprocessor_unidle(c) ==
    /\ pc[c] = "ipi" /\ ipi_lock[c] = None
    /\ c_ipi_pending[c] \cap {"PANIC", "OFFLINE"} = {}
    /\ c_ipi_pending' = [c_ipi_pending EXCEPT ![c] = {}]
    /\ Go(c, "clear")
    /\ UNCHANGED <<back, tgt, send, line, ipi_lock, runq>>

\* MUTANT: the idle loop goes back to wait without looking at the run queue.
lamebus_clear_ipi_wait(c) ==
    /\ pc[c] = "clear"
    /\ line' = [line EXCEPT ![c] = FALSE]
    /\ Go(c, IF back[c] = "relock" THEN "wait" ELSE "run")
    /\ UNCHANGED <<back, tgt, send, c_ipi_pending, ipi_lock, runq>>

\* The line is cleared with no lock held.
lamebus_clear_ipi(c) ==
    /\ pc[c] = "clear"
    /\ line' = [line EXCEPT ![c] = FALSE]
    /\ Go(c, back[c])
    /\ back' = [back EXCEPT ![c] = "run"]
    /\ UNCHANGED <<tgt, send, c_ipi_pending, ipi_lock, runq>>

\* thread_shutdown and thread_panic: ipi_broadcast.
broadcast_begin(c, k) ==
    /\ pc[c] = "run" /\ code = None
    /\ code' = k
    /\ todo' = [todo EXCEPT ![c] = CPUs \ {c}]
    /\ Go(c, "broadcast")
    /\ UNCHANGED <<back, tgt, mbox, runq>>

ipi_broadcast(c) ==
    /\ pc[c] = "broadcast"
    /\ \E t \in todo[c] :
         /\ \A u \in todo[c] : t <= u
         /\ ipi_send(t, code)
         /\ todo' = [todo EXCEPT ![c] = @ \ {t}]
    /\ Go(c, IF Cardinality(todo[c]) = 1 THEN "stopped" ELSE "broadcast")
    /\ UNCHANGED <<back, tgt, code, runq>>

Goes(c) ==
    \/ make_runnable_send(c) \/ remhead(c) \/ relock(c) \/ mainbus_interrupt(c)
    \/ interprocessor_panic(c) \/ interprocessor_offline(c) \/ go_offline(c)
    \/ interprocessor_unidle(c) \/ lamebus_clear_ipi(c) \/ ipi_broadcast(c)

Next ==
    \/ \E c, t \in CPUs : make_runnable_busy(c, t) \/ make_runnable_idle(c, t)
    \/ \E c \in CPUs : switch(c) \/ wait_ends(c) \/ Goes(c)
    \/ \E c \in CPUs, k \in StopCodes : broadcast_begin(c, k)

Spec == Init /\ [][Next]_vars

\* A CPU that can take its next step does.  An asserted line is taken sooner
\* or later by a CPU that has interrupts on again and again.
FairSpec == Spec /\ \A c \in CPUs : WF_vars(Goes(c)) /\ SF_vars(mainbus_interrupt(c))

-----------------------------------------------------------------------------
\* A CPU never waits with a thread on its run queue unless an IPI is on its
\* way: the sender holds the run queue lock, or the line is asserted.  This
\* is what c_isidle, set and read under the run queue lock, is for.
RunnableSeen ==
    \A c \in CPUs : (pc[c] = "wait" /\ queue[c] > 0) =>
        (line[c] \/ \E d \in CPUs : pc[d] = "mr_ipi" /\ tgt[d] = c)

\* cpu.h: interprocessor_interrupt is called on the target when an IPI is
\* received.  So a CPU that has been told to go offline does.
OfflineHandled == \A c \in CPUs : ("OFFLINE" \in c_ipi_pending[c]) ~> (pc[c] = "halted")
=============================================================================
