---------------------------- MODULE Wchan ----------------------------
(***************************************************************************)
(* Wait channels (kern/thread/thread.c): the sleep queue below every       *)
(* blocking primitive of the kernel.  A channel is a spinlock and a FIFO   *)
(* list of sleeping threads.                                               *)
(*                                                                         *)
(* A thread is described by the place it has reached in the code that uses *)
(* the channel, pc[t].  A thread that holds a spinlock runs with           *)
(* interrupts off, so "holding the lock" and "being the CPU that holds it" *)
(* are the same thing here, and the holder of a spinlock is a thread.      *)
(***************************************************************************)
EXTENDS Sequences, FiniteSets, Functions

CONSTANTS
    Threads,   \* the kernel threads that use the primitive
    Chans,     \* the wait channels of the primitive
    None       \* NULL: no holder, no thread

ASSUME NoneAssumption == None \notin Threads

VARIABLES
    wc_lock,     \* wc_lock[c]: the thread that holds the channel's spinlock
    wc_threads   \* wc_threads[c]: the threads asleep on the channel, FIFO

wchanVars == <<wc_lock, wc_threads>>

WchanTypeOK ==
    /\ wc_lock \in [Chans -> Threads \cup {None}]
    /\ wc_threads \in [Chans -> Seq(Threads)]

\* wchan_create: unlocked and empty.
WchanInit ==
    /\ wc_lock = [c \in Chans |-> None]
    /\ wc_threads = [c \in Chans |-> <<>>]

wchan_lock(c, t) ==
    /\ wc_lock[c] = None
    /\ wc_lock' = [wc_lock EXCEPT ![c] = t]
    /\ UNCHANGED wc_threads

\* wchan_sleep, up to the point where another thread may see the effect:
\* thread_switch puts the caller on the list and only then unlocks the
\* channel.
wchan_sleep(c, t) ==
    /\ wc_lock[c] = t
    /\ wc_threads' = [wc_threads EXCEPT ![c] = Append(@, t)]
    /\ wc_lock' = [wc_lock EXCEPT ![c] = None]

\* The first half of wchan_wakeone: take the head off the list with the
\* channel locked, then unlock.
wchan_remhead(c) ==
    /\ wc_lock[c] = None
    /\ wc_threads' = [wc_threads EXCEPT ![c] = IF @ = <<>> THEN @ ELSE Tail(@)]
    /\ UNCHANGED wc_lock

\* The thread that wchan_remhead takes, NULL when nobody sleeps.
HeadOf(c) == IF wc_threads[c] = <<>> THEN None ELSE Head(wc_threads[c])

\* The threads asleep on a channel.
Asleep(c) == Range(wc_threads[c])

=============================================================================
