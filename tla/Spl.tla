------------------------------- MODULE Spl -------------------------------
(***************************************************************************)
(* Interrupt state (kern/thread/spl.c), spinlocks (kern/thread/spinlock.c) *)
(* and their way through interrupts (mips_trap) and context switches       *)
(* (thread_switch, thread_startup).                                        *)
(*                                                                         *)
(* Every thread has a stack of what it must still undo: a spinlock to      *)
(* release, an spl to restore, an interrupt to return from.  Spinlocks and *)
(* spl calls need not nest with each other, only with interrupts.  A       *)
(* thread that is switched out is in the middle of thread_switch and has   *)
(* the run queue lock, of whatever CPU it resumes on, on its stack.        *)
(***************************************************************************)
EXTENDS Integers, Sequences, FiniteSets, Functions

CONSTANTS
    CPUs, Threads, Boot,   \* Boot[c]: the first thread of CPU c
    Locks,                 \* the spinlocks other than the run queue locks
    None,
    MaxDepth               \* bound on the stacks

SplAssumption ==
    /\ Boot \in [CPUs -> Threads] /\ IsInjective(Boot)
    /\ Locks \cap CPUs = {} /\ None \notin CPUs /\ "runqueue" \notin Locks \cup CPUs
    /\ MaxDepth \in Nat

VARIABLES
    irq,               \* irq[c]: the processor takes interrupts (CST_IEc)
    c_curthread,
    c_isidle,          \* CPU c is in the idle loop of thread_switch
    t_curspl, t_iplhigh_count,
    stack,
    lk_holder          \* the run queue lock of CPU c is lk_holder[c]

vars == <<irq, c_curthread, c_isidle, t_curspl, t_iplhigh_count, stack, lk_holder>>

IPL_NONE == 0
IPL_HIGH == 1

LockFrame(l) == [k |-> "lock", l |-> l]
SplFrame(old) == [k |-> "spl", old |-> old]
IrqFrame(adj, was) == [k |-> "irq", doadjust |-> adj, was |-> was]

Frames ==
    {LockFrame(l) : l \in Locks \cup CPUs \cup {"runqueue"}}
    \cup {SplFrame(s) : s \in {IPL_NONE, IPL_HIGH}}
    \cup {IrqFrame(a, w) : a \in BOOLEAN, w \in BOOLEAN}

TypeOK ==
    /\ irq \in [CPUs -> BOOLEAN]
    /\ c_curthread \in [CPUs -> Threads]
    /\ c_isidle \in [CPUs -> BOOLEAN]
    /\ t_curspl \in [Threads -> {IPL_NONE, IPL_HIGH}]
    /\ t_iplhigh_count \in [Threads -> Nat]
    /\ stack \in [Threads -> Seq(Frames)]
    /\ lk_holder \in [Locks \cup CPUs -> CPUs \cup {None}]

\* A new thread: thread_create raises the spl, thread_fork accounts for the
\* run queue lock, and thread_startup undoes both, like a thread_switch.
NewStack == <<SplFrame(IPL_NONE), LockFrame("runqueue")>>

Init ==
    /\ irq = [c \in CPUs |-> TRUE]
    /\ c_curthread = Boot
    /\ c_isidle = [c \in CPUs |-> FALSE]
    /\ t_curspl = [t \in Threads |-> IF t \in Range(Boot) THEN IPL_NONE ELSE IPL_HIGH]
    /\ t_iplhigh_count = [t \in Threads |-> IF t \in Range(Boot) THEN 0 ELSE 2]
    /\ stack = [t \in Threads |-> IF t \in Range(Boot) THEN <<>> ELSE NewStack]
    /\ lk_holder = [l \in Locks \cup CPUs |-> None]

Top(t) == stack[t][Len(stack[t])]
Front(s) == SubSeq(s, 1, Len(s) - 1)
RemoveAt(s, i) == SubSeq(s, 1, i - 1) \o SubSeq(s, i + 1, Len(s))

\* The frames above the last interrupt, which are the ones to undo first.
Undoable(t) ==
    {i \in DOMAIN stack[t] : \A j \in i..Len(stack[t]) : stack[t][j].k # "irq"}

LockOf(c, l) == IF l = "runqueue" THEN c ELSE l

InInterrupt(t) == \E i \in DOMAIN stack[t] : stack[t][i].k = "irq"

\* CPU c runs ordinary code or an interrupt handler, not the idle loop itself.
Executing(c) == ~c_isidle[c] \/ InInterrupt(c_curthread[c])

HoldsALock(t) == \E i \in DOMAIN stack[t] : stack[t][i].k = "lock"

Push(t, f) ==
    /\ Len(stack[t]) < MaxDepth
    /\ stack' = [stack EXCEPT ![t] = Append(@, f)]

-----------------------------------------------------------------------------
splraise(c) ==
    LET t == c_curthread[c] IN
    /\ irq' = [irq EXCEPT ![c] = IF t_iplhigh_count[t] = 0 THEN FALSE ELSE @]
    /\ t_iplhigh_count' = [t_iplhigh_count EXCEPT ![t] = @ + 1]

spllower(c) ==
    LET t == c_curthread[c] IN
    /\ t_iplhigh_count' = [t_iplhigh_count EXCEPT ![t] = @ - 1]
    /\ irq' = [irq EXCEPT ![c] = IF t_iplhigh_count[t] = 1 THEN TRUE ELSE @]

\* splx: raise, lower or nothing.
SetSpl(c, spl) ==
    LET t == c_curthread[c] IN
    /\ t_curspl' = [t_curspl EXCEPT ![t] = spl]
    /\ \/ t_curspl[t] < spl /\ splraise(c)
       \/ t_curspl[t] > spl /\ spllower(c)
       \/ t_curspl[t] = spl /\ UNCHANGED <<irq, t_iplhigh_count>>

\* s = splhigh(), not in the idle loop.
splhigh(c) ==
    LET t == c_curthread[c] IN
    /\ Executing(c)
    /\ Push(t, SplFrame(t_curspl[t]))
    /\ SetSpl(c, IPL_HIGH)
    /\ UNCHANGED <<c_curthread, c_isidle, lk_holder>>

\* splx(s), with the value of the last splhigh.
splx(c) ==
    LET t == c_curthread[c]
        I == {i \in Undoable(t) : stack[t][i].k = "spl"}
        i == CHOOSE x \in I : \A y \in I : y <= x IN
    /\ I # {}
    /\ Executing(c)
    /\ stack' = [stack EXCEPT ![t] = RemoveAt(@, i)]
    /\ SetSpl(c, stack[t][i].old)
    /\ UNCHANGED <<c_curthread, c_isidle, lk_holder>>

\* The test-and-set succeeds; a CPU that spins has done its splraise.
spinlock_acquire(c, l) ==
    /\ Executing(c)
    /\ lk_holder[LockOf(c, l)] = None
    /\ Push(c_curthread[c], LockFrame(l))
    /\ splraise(c)
    /\ lk_holder' = [lk_holder EXCEPT ![LockOf(c, l)] = c]
    /\ UNCHANGED <<c_curthread, c_isidle, t_curspl>>

spinlock_release(c, l) ==
    LET t == c_curthread[c] IN
    /\ Executing(c)
    /\ \E i \in Undoable(t) :
          /\ stack[t][i] = LockFrame(l)
          /\ stack' = [stack EXCEPT ![t] = RemoveAt(@, i)]
    /\ lk_holder' = [lk_holder EXCEPT ![LockOf(c, l)] = None]
    /\ spllower(c)
    /\ UNCHANGED <<c_curthread, c_isidle, t_curspl>>

-----------------------------------------------------------------------------
\* MUTANT: the interrupt handler runs with the recorded state left as it was.
Interrupt_noadjust(c) ==
    LET t == c_curthread[c] IN
    /\ irq[c] \/ (c_isidle[c] /\ lk_holder[c] # c /\ ~InInterrupt(t))
    /\ Push(t, IrqFrame(FALSE, irq[c]))
    /\ irq' = [irq EXCEPT ![c] = FALSE]
    /\ UNCHANGED <<t_curspl, t_iplhigh_count, c_curthread, c_isidle, lk_holder>>

\* MUTANT: the recorded spl is raised without its count.
Interrupt_nocount(c) ==
    LET t == c_curthread[c]
        adj == t_curspl[t] = IPL_NONE IN
    /\ irq[c] \/ (c_isidle[c] /\ lk_holder[c] # c /\ ~InInterrupt(t))
    /\ Push(t, IrqFrame(adj, irq[c]))
    /\ irq' = [irq EXCEPT ![c] = FALSE]
    /\ t_curspl' = [t_curspl EXCEPT ![t] = IPL_HIGH]
    /\ UNCHANGED <<t_iplhigh_count, c_curthread, c_isidle, lk_holder>>

\* mips_trap, on entry: the processor has turned interrupts off.  In the idle
\* loop it is cpu_irqonoff that lets the interrupt in, with the spl high.
Interrupt(c) ==
    LET t == c_curthread[c]
        adj == t_curspl[t] = IPL_NONE IN
    /\ irq[c] \/ (c_isidle[c] /\ lk_holder[c] # c /\ ~InInterrupt(t))
    /\ Push(t, IrqFrame(adj, irq[c]))
    /\ irq' = [irq EXCEPT ![c] = FALSE]
    /\ t_curspl' = [t_curspl EXCEPT ![t] = IPL_HIGH]
    /\ t_iplhigh_count' = [t_iplhigh_count EXCEPT ![t] = IF adj THEN @ + 1 ELSE @]
    /\ UNCHANGED <<c_curthread, c_isidle, lk_holder>>

\* mips_trap, on exit: the recorded state goes back, and the return from the
\* exception restores the processor's.
InterruptReturn(c) ==
    LET t == c_curthread[c]
        f == Top(t) IN
    /\ stack[t] # <<>> /\ f.k = "irq"
    /\ stack' = [stack EXCEPT ![t] = Front(@)]
    /\ t_curspl' = [t_curspl EXCEPT ![t] = IF f.doadjust THEN IPL_NONE ELSE @]
    /\ t_iplhigh_count' = [t_iplhigh_count EXCEPT ![t] = IF f.doadjust THEN @ - 1 ELSE @]
    /\ irq' = [irq EXCEPT ![c] = f.was]
    /\ UNCHANGED <<c_curthread, c_isidle, lk_holder>>

-----------------------------------------------------------------------------
\* thread_switch: splhigh, then the run queue lock.  The caller holds no
\* spinlock, and an idle CPU does not switch.
SwitchEnter(c) ==
    LET t == c_curthread[c] IN
    /\ ~c_isidle[c] /\ ~HoldsALock(t)
    /\ lk_holder[c] = None
    /\ Len(stack[t]) + 2 <= MaxDepth
    /\ stack' = [stack EXCEPT ![t] = @ \o <<SplFrame(t_curspl[t]), LockFrame("runqueue")>>]
    /\ t_curspl' = [t_curspl EXCEPT ![t] = IPL_HIGH]
    /\ t_iplhigh_count' = [t_iplhigh_count EXCEPT
          ![t] = IF t_curspl[t] = IPL_NONE THEN @ + 2 ELSE @ + 1]
    /\ irq' = [irq EXCEPT ![c] = FALSE]
    /\ lk_holder' = [lk_holder EXCEPT ![c] = c]
    /\ UNCHANGED <<c_curthread, c_isidle>>

\* t is in the middle of thread_switch (or about to enter thread_startup).
InSwitch(t) ==
    /\ Len(stack[t]) >= 2
    /\ Top(t) = LockFrame("runqueue")
    /\ stack[t][Len(stack[t]) - 1].k = "spl"

\* A runnable thread is found and switched to: one that is itself in the
\* middle of thread_switch, last run here or elsewhere, or new.
SwitchTo(c, u) ==
    LET t == c_curthread[c] IN
    /\ InSwitch(t) /\ lk_holder[c] = c
    /\ InSwitch(u) /\ \A d \in CPUs : d # c => c_curthread[d] # u
    /\ c_curthread' = [c_curthread EXCEPT ![c] = u]
    /\ c_isidle' = [c_isidle EXCEPT ![c] = FALSE]
    /\ UNCHANGED <<irq, t_curspl, t_iplhigh_count, stack, lk_holder>>

\* Nothing is runnable: release the run queue lock and idle.  Only a thread
\* that sleeps or exits gets here, and that is not done in an interrupt.
SwitchIdle(c) ==
    LET t == c_curthread[c] IN
    /\ InSwitch(t) /\ lk_holder[c] = c /\ ~InInterrupt(t)
    /\ stack' = [stack EXCEPT ![t] = Front(@)]
    /\ lk_holder' = [lk_holder EXCEPT ![c] = None]
    /\ spllower(c)
    /\ c_isidle' = [c_isidle EXCEPT ![c] = TRUE]
    /\ UNCHANGED <<c_curthread, t_curspl>>

\* cpu_idle returns: take the run queue lock again.
SwitchUnidle(c) ==
    LET t == c_curthread[c] IN
    /\ c_isidle[c] /\ lk_holder[c] = None /\ ~InInterrupt(t)
    /\ Push(t, LockFrame("runqueue"))
    /\ splraise(c)
    /\ lk_holder' = [lk_holder EXCEPT ![c] = c]
    /\ UNCHANGED <<c_curthread, c_isidle, t_curspl>>

Next == \E c \in CPUs :
    \/ splhigh(c) \/ splx(c)
    \/ \E l \in Locks \cup CPUs : spinlock_acquire(c, l)
    \/ \E l \in Locks \cup CPUs \cup {"runqueue"} : spinlock_release(c, l)
    \/ Interrupt(c) \/ InterruptReturn(c)
    \/ SwitchEnter(c) \/ SwitchIdle(c) \/ SwitchUnidle(c)
    \/ \E u \in Threads : SwitchTo(c, u)

Spec == Init /\ [][Next]_vars

-----------------------------------------------------------------------------
LockFrames(t) == {i \in DOMAIN stack[t] : stack[t][i].k = "lock"}

\* The processor's interrupt flag always agrees with the count of the thread
\* it runs, through interrupts, switches and migrations: interrupts go off on
\* the first raise and on again only on the last lower.
IrqMatchesCount == \A c \in CPUs : irq[c] <=> t_iplhigh_count[c_curthread[c]] = 0

\* t_iplhigh_count counts the spinlocks of the thread and its high spl, each
\* once, in whatever order they come and go.
CountIsExact ==
    \A t \in Threads : t_iplhigh_count[t] = Cardinality(LockFrames(t)) + t_curspl[t]

\* A CPU that takes interrupts holds no spinlock, so that no handler ever
\* spins for a lock of the code it interrupted.
NoLockWithInterruptsOn ==
    \A c \in CPUs : irq[c] => \A l \in Locks \cup CPUs : lk_holder[l] # c

\* A spinlock is held by the CPU whose current thread has it to release,
\* although it may be another thread that acquired it: the run queue lock is
\* handed over in thread_switch.
HolderHasFrame ==
    \A c \in CPUs : \A l \in Locks \cup CPUs :
        lk_holder[l] = c <=>
            \E i \in DOMAIN stack[c_curthread[c]] :
                LET f == stack[c_curthread[c]][i] IN f.k = "lock" /\ LockOf(c, f.l) = l

\* The assertions at the end of mips_trap's interrupt branch: the handler has
\* leaked neither a spinlock nor an splhigh.
InterruptReturnsClean ==
    \A c \in CPUs :
        LET t == c_curthread[c] IN
        stack[t] # <<>> /\ Top(t).k = "irq" /\ Top(t).doadjust =>
            t_curspl[t] = IPL_HIGH /\ t_iplhigh_count[t] = 1

\* splraise, spllower and the spinlocks keep interrupts off exactly while the
\* current thread is at splhigh or has a spinlock to release, through
\* interrupts, switches and migrations, and an interrupt handler about to return
\* to mips_trap has leaked neither a spinlock nor an splhigh.
InterruptsMatchLocks ==
    /\ TypeOK /\ IrqMatchesCount /\ CountIsExact /\ NoLockWithInterruptsOn
    /\ HolderHasFrame /\ InterruptReturnsClean
=============================================================================
