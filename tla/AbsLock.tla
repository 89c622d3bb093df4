---------------------------- MODULE AbsLock ----------------------------
(***************************************************************************)
(* What kern/include/synch.h promises of a lock: only one thread can hold  *)
(* it at a time, and acquire and release are atomic.  A thread asks for    *)
(* the lock, gets it once nobody has it, and gives it back.                *)
(***************************************************************************)
CONSTANTS Threads, None

VARIABLES owner, wants

vars == <<owner, wants>>

Init == owner = None /\ wants = {}

Ask(t) ==
    /\ t \notin wants /\ owner # t
    /\ wants' = wants \cup {t}
    /\ UNCHANGED owner

Acquire(t) ==
    /\ t \in wants /\ owner = None
    /\ owner' = t
    /\ wants' = wants \ {t}

Release(t) ==
    /\ owner = t
    /\ owner' = None
    /\ UNCHANGED wants

Next == \E t \in Threads : Ask(t) \/ Acquire(t) \/ Release(t)

Spec == Init /\ [][Next]_vars
=============================================================================
