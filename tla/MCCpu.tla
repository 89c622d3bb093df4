------------------------------ MODULE MCCpu ------------------------------
(***************************************************************************)
(* What a CPU does below the level of threads, in three models that meet   *)
(* in thread_switch: interrupt state and spinlocks (Spl), idling and       *)
(* interprocessor interrupts (Ipi), and the pointers of a run queue        *)
(* (ThreadList).  model says which one a behaviour is about.               *)
(***************************************************************************)
EXTENDS Spl, TLC

CONSTANTS c1, c2, t1, t2, t3, t4, StopCodes, MaxQueue, head, tail, Null

VARIABLES
    model,
    pc, back, tgt, todo, code, queue, ipi_isidle, c_ipi_pending, line, runqueue_lock, ipi_lock,
    tln_next, tln_prev, tl_count, lock, list_todo, node, hand

\* The first threads of the two CPUs.
MCBoot == (c1 :> t1) @@ (c2 :> t2)

I == INSTANCE Ipi WITH CPUs <- 0..2, c_isidle <- ipi_isidle

\* c1's run queue holds two threads, and two more are about to be added.
L == INSTANCE ThreadList WITH
    CPUs <- {c1, c2}, Threads <- {t1, t2, t3, t4}, OnList <- {t1, t2}, WithSchedule <- FALSE, Owner <- c1, todo <- list_todo

\* The only CPU, which also runs schedule.
U == INSTANCE ThreadList WITH
    CPUs <- {c1}, Threads <- {t1, t2, t3, t4}, OnList <- {t1, t2}, WithSchedule <- TRUE, Owner <- c1, todo <- list_todo

ASSUME SplAssumption /\ I!IpiAssumption /\ L!ListAssumption /\ U!ListAssumption

ipivars == <<pc, back, tgt, todo, code, queue, ipi_isidle, c_ipi_pending, line, runqueue_lock, ipi_lock>>
listvars == <<tln_next, tln_prev, tl_count, lock, list_todo, node, hand>>
allvars == <<model, vars, ipivars, listvars>>

MCInit ==
    /\ Init /\ I!Init
    /\ \/ model \in {"spl", "ipi", "uplist"} /\ U!Init
       \/ model = "list" /\ L!Init

MCNext ==
    \/ model = "spl" /\ Next /\ UNCHANGED <<model, ipivars, listvars>>
    \/ model = "ipi" /\ I!Next /\ UNCHANGED <<model, vars, listvars>>
    \/ model = "list" /\ L!Next /\ UNCHANGED <<model, vars, ipivars>>
    \/ model = "uplist" /\ U!Next /\ UNCHANGED <<model, vars, ipivars>>

MCSpec == MCInit /\ [][MCNext]_allvars

\* A CPU never waits with a thread on its run queue unless an IPI is on its
\* way: the sender holds the run queue lock, or the line is asserted.  This
\* is what c_isidle, set and read under the run queue lock, is for.
RunnableSeen == I!RunnableSeen

\* Whenever nobody is inside a list operation, the run queue reads the same
\* from both ends and its count is right, and inside none is a null link
\* followed: with several CPUs as long as all of them hold c_runqueue_lock, on
\* one CPU also with schedule, which does not.
ListIntact ==
    IF model = "list" THEN L!TypeOK /\ L!ListIntact /\ L!NoNullDereference
    ELSE U!TypeOK /\ U!ListIntact /\ U!NoNullDereference
=============================================================================
