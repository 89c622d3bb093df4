------------------------- MODULE AbsSemaphore -------------------------
(***************************************************************************)
(* What kern/include/synch.h promises of a semaphore: P and V are atomic.  *)
(* P takes one from a count that is not zero, V adds one.  An operation is *)
(* called, takes effect once, and is then over.                            *)
(***************************************************************************)
EXTENDS Naturals

CONSTANTS Threads, InitialCount

VARIABLES count, op

vars == <<count, op>>

Init ==
    /\ count = InitialCount
    /\ op = [t \in Threads |-> "none"]

Call(t, o) ==
    /\ op[t] = "none"
    /\ op' = [op EXCEPT ![t] = o]
    /\ UNCHANGED count

P(t) ==
    /\ op[t] = "P"
    /\ count > 0
    /\ count' = count - 1
    /\ op' = [op EXCEPT ![t] = "none"]

V(t) ==
    /\ op[t] = "V"
    /\ count' = count + 1
    /\ op' = [op EXCEPT ![t] = "none"]

Next == \E t \in Threads : Call(t, "P") \/ Call(t, "V") \/ P(t) \/ V(t)

Spec == Init /\ [][Next]_vars
=============================================================================
