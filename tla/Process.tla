------------------------------ MODULE Process ------------------------------
(***************************************************************************)
(* waitpid and _exit (kern/thread/thread.c).  wait_list is a list of nodes *)
(* (pid, status, wait channel), one per waiting process, protected by      *)
(* wait_lock.  The node of the first waitpid ever made becomes the head    *)
(* and is never taken off again; what that call hands to remove_wait_list  *)
(* is an uninitialised pointer.  The kernel menu starts programs with      *)
(* thread_fork; a program that cannot be run ends in thread_exit without   *)
(* sys__exit.  Pids are given out in one step here; the second part of the *)
(* module is about the list of pids alone, with add_pid_table's walk and   *)
(* its linking apart: sys_fork and sys__exit call in with wait_lock held,  *)
(* thread_fork without, and may be overtaken between the two.              *)
(***************************************************************************)
EXTENDS Integers, Sequences, FiniteSets, Functions

CONSTANTS
    Procs,          \* threads, each used once
    boot,           \* the kernel menu
    Codes,          \* exit codes, and contents of the caller's status word
    PID_MIN, MAX_PID, EINVAL,
    Threads,        \* of the second part: thread structures, each used once
    MenuAlone,      \* TRUE: thread_fork overlaps no other fork and no exit
    None

ASSUME ProcessAssumption ==
    /\ boot \in Procs \cap Threads /\ None \notin Procs \cup Threads
    /\ Codes \subseteq Nat /\ Codes # {}
    /\ PID_MIN \in Nat \ {0, 1} /\ MAX_PID \in Nat /\ EINVAL \in Nat /\ EINVAL > PID_MIN + 1
    /\ MenuAlone \in BOOLEAN

VARIABLES
    pid_list,
    wait_list,      \* of nodes; head: that of the first waitpid ever made
    pid, parent, alive,
    pc,             \* "user", "bridge", "asleep", "woken"
    arg,            \* arg[p]: the process p waits for
    stat,           \* stat[p]: sys_waitpid's copy of *status
    code,           \* exit codes
    panicked,       \* the wild pointer has been followed
    outcome,        \* outcome[c]: what c's parent was first told of c
    pt_list,        \* the list of pids of the second part
    wait_lock,      \* the process that holds the lock
    pt_pid,         \* pt_pid[p], 0 for a thread that does not exist
    pt_alive,
    pt_child,       \* pt_child[p]: the thread that p is creating
    prev            \* prev[p]: add_pid_table's local, a node of the list

vars == <<pid_list, wait_list, pid, parent, alive, pc, arg, stat, code, panicked, outcome>>
procs == <<pid_list, pid, parent, alive>>

Init ==
    /\ pid_list = <<PID_MIN, PID_MIN + 1>>
    /\ wait_list = <<>>
    /\ pid = [p \in Procs |-> IF p = boot THEN PID_MIN + 1 ELSE 0]
    /\ parent = [p \in Procs |-> None]
    /\ alive = {boot}
    /\ pc = [p \in Procs |-> "user"]
    /\ arg = [p \in Procs |-> None]
    /\ stat = [p \in Procs |-> 0]
    /\ code = [p \in Procs |-> None]
    /\ panicked = FALSE
    /\ outcome = [p \in Procs |-> "none"]

Node == [pid : Nat, status : Int, waiter : Procs, head : BOOLEAN]

TypeOK ==
    /\ pid_list \in Seq(Nat)
    /\ wait_list \in Seq(Node)
    /\ pid \in [Procs -> Nat]
    /\ parent \in [Procs -> Procs \cup {None}]
    /\ alive \in SUBSET Procs
    /\ pc \in [Procs -> {"user", "bridge", "asleep", "woken"}]
    /\ arg \in [Procs -> Procs \cup {None}]
    /\ stat \in [Procs -> Codes \cup {0}]
    /\ code \in [Procs -> Codes \cup {None}]
    /\ panicked \in BOOLEAN
    /\ outcome \in [Procs -> {"none", "denied", "right", "wrong"}]

-----------------------------------------------------------------------------
(* The list of pids: ascending, from the one that thread_create takes for  *)
(* the boot thread before thread_bootstrap asks once more.                 *)
\* The node at which the walk stops: the first that is followed by its equal,
\* or the tail.
WalkEnd(l) ==
    LET stops == {i \in DOMAIN l : i = Len(l) \/ l[i] = l[i+1]}
    IN  l[CHOOSE i \in stops : \A j \in stops : i <= j]

\* MUTANT: the new node is linked in front of the one found.
Linked_before(l, n) ==
    LET I == {i \in DOMAIN l : l[i] = n} IN
    IF I = {} THEN l
    ELSE LET i == CHOOSE i \in I : \A j \in I : i <= j IN SubSeq(l, 1, i-1) \o <<n + 1>> \o SubSeq(l, i, Len(l))

\* The list with a node of pid n+1 linked behind the node of pid n.  If that
\* node has been unlinked and freed, the new one is on no list.
Linked(l, n) ==
    LET I == {i \in DOMAIN l : l[i] = n} IN
    IF I = {} THEN l
    ELSE LET i == CHOOSE i \in I : \A j \in I : i <= j IN SubSeq(l, 1, i) \o <<n + 1>> \o SubSeq(l, i+1, Len(l))

\* The list without its i-th node.
Unlinked(l, i) == SubSeq(l, 1, i-1) \o SubSeq(l, i+1, Len(l))

\* The first node is found only when it is the only one, and then whatever its
\* pid.
remove_pid_table(l, n) ==
    LET I == {i \in 2..Len(l) : l[i] = n} IN
    IF n < 2 THEN l
    ELSE IF Len(l) = 1 THEN <<>>
    ELSE IF I = {} THEN l ELSE Unlinked(l, CHOOSE i \in I : \A j \in I : i <= j)

-----------------------------------------------------------------------------
(* waitpid and _exit.                                                      *)
Waiting == {p \in Procs : pc[p] # "user"}
Running(p) == ~panicked /\ p \in alive /\ pc[p] = "user"

\* What c's parent learns of c, the first time it asks.
Tell(p, c, what) ==
    outcome' = IF parent[c] = p /\ outcome[c] = "none"
               THEN [outcome EXCEPT ![c] = what] ELSE outcome

-----------------------------------------------------------------------------
\* thread_fork by the menu, sys_fork by a process: the pid after the last.  With
\* that one above MAX_PID the error code is returned, and taken for the pid.
fork(p, q) ==
    /\ Running(p) /\ pid[q] = 0
    /\ LET n == WalkEnd(pid_list) IN
         /\ pid_list' = IF n > MAX_PID THEN pid_list ELSE Linked(pid_list, n)
         /\ pid' = [pid EXCEPT ![q] = IF n > MAX_PID THEN EINVAL ELSE n + 1]
    /\ parent' = [parent EXCEPT ![q] = p]
    /\ alive' = alive \cup {q}
    /\ UNCHANGED <<wait_list, pc, arg, stat, code, panicked, outcome>>

\* MUTANT: a process may wait for one with a smaller pid.
Refused_order(p, c) == pid[c] \notin Range(pid_list) \/ pid[c] = pid[p]

\* The checks of sys_waitpid.
Refused(p, c) == pid[c] \notin Range(pid_list) \/ pid[c] <= pid[p]

waitpid_refused(p, c) ==
    /\ Running(p) /\ pid[c] # 0
    /\ Refused(p, c)
    /\ Tell(p, c, "denied")
    /\ UNCHANGED <<procs, wait_list, pc, arg, stat, code, panicked>>

\* sys_waitpid up to lock_release: the node is on the list and its channel,
\* on which nobody sleeps yet, is locked.
waitpid_enter(p, c, s) ==
    /\ Running(p) /\ pid[c] # 0
    /\ ~Refused(p, c)
    /\ wait_list' = Append(wait_list, [pid |-> pid[c], status |-> 0, waiter |-> p,
                                       head |-> wait_list = <<>>])
    /\ pc' = [pc EXCEPT ![p] = "bridge"]
    /\ arg' = [arg EXCEPT ![p] = c]
    /\ stat' = [stat EXCEPT ![p] = s]
    /\ UNCHANGED <<procs, code, panicked, outcome>>

\* wchan_sleep: on the channel, and the channel's lock is released.
waitpid_sleep(p) ==
    /\ ~panicked /\ pc[p] = "bridge"
    /\ pc' = [pc EXCEPT ![p] = "asleep"]
    /\ UNCHANGED <<procs, wait_list, arg, stat, code, panicked, outcome>>

\* The caller's node: the head if this was the first waitpid.
NodesOf(p) == {i \in DOMAIN wait_list : wait_list[i].waiter = p}
NodeOf(p) == CHOOSE i \in NodesOf(p) : \A j \in NodesOf(p) : j <= i

\* The status word on return.  The first waitpid stores nothing.
StatusWord(p) ==
    LET n == wait_list[NodeOf(p)] IN
    IF n.head THEN stat[p]
    ELSE IF n.status # stat[p] THEN -1 ELSE stat[p]

\* The end of sys_waitpid, wait_lock held.  remove_wait_list takes the node
\* off, except in the first waitpid: it then passes over the list without
\* finding anything, or follows the wild pointer.
waitpid_return(p) ==
    /\ ~panicked /\ pc[p] = "woken"
    /\ LET i == NodeOf(p) IN
         \/ /\ ~wait_list[i].head
            /\ wait_list' = Unlinked(wait_list, i)
            /\ UNCHANGED panicked
         \/ /\ wait_list[i].head
            /\ panicked' \in BOOLEAN
            /\ UNCHANGED wait_list
    /\ Tell(p, arg[p], IF StatusWord(p) = code[arg[p]] THEN "right" ELSE "wrong")
    /\ pc' = [pc EXCEPT ![p] = "user"]
    /\ arg' = [arg EXCEPT ![p] = None]
    /\ stat' = [stat EXCEPT ![p] = 0]
    /\ UNCHANGED <<procs, code>>

\* The nodes of those who wait for p.
Matching(p) == {i \in DOMAIN wait_list : wait_list[i].pid = pid[p]}

\* MUTANT: the channels' locks are not taken.
sys__exit_nolock(p, c) ==
    /\ Running(p) /\ p # boot
    /\ LET M == Matching(p)
           W == {wait_list[i].waiter : i \in M}
       IN  /\ wait_list' = [i \in DOMAIN wait_list |->
                              IF i \in M THEN [wait_list[i] EXCEPT !.status = c] ELSE wait_list[i]]
           /\ pc' = [q \in Procs |-> IF q \in W /\ pc[q] = "asleep" THEN "woken" ELSE pc[q]]
    /\ pid_list' = remove_pid_table(pid_list, pid[p])
    /\ alive' = alive \ {p}
    /\ code' = [code EXCEPT ![p] = c]
    /\ UNCHANGED <<pid, parent, arg, stat, panicked, outcome>>

\* sys__exit, under wait_lock throughout; wchan_wakeall needs the channel's
\* lock, which a waiter holds until it sleeps.  A head node wakes its waiter
\* only while that waiter sleeps on it.
sys__exit(p, c) ==
    /\ Running(p) /\ p # boot
    /\ LET M == Matching(p)
           W == {wait_list[i].waiter : i \in {j \in M : j = NodeOf(wait_list[j].waiter)}}
       IN  /\ \A q \in W : pc[q] # "bridge"
           /\ wait_list' = [i \in DOMAIN wait_list |->
                              IF i \in M THEN [wait_list[i] EXCEPT !.status = c] ELSE wait_list[i]]
           /\ pc' = [q \in Procs |-> IF q \in W /\ pc[q] = "asleep" THEN "woken" ELSE pc[q]]
    /\ pid_list' = remove_pid_table(pid_list, pid[p])
    /\ alive' = alive \ {p}
    /\ code' = [code EXCEPT ![p] = c]
    /\ UNCHANGED <<pid, parent, arg, stat, panicked, outcome>>

\* cmd_progthread returns because runprogram failed: thread_exit.
prog_fails(p) ==
    /\ Running(p) /\ parent[p] = boot
    /\ alive' = alive \ {p}
    /\ UNCHANGED <<pid_list, pid, parent, wait_list, pc, arg, stat, code, panicked, outcome>>

Next ==
    \/ \E p, q \in Procs : fork(p, q) \/ waitpid_refused(p, q)
    \/ \E p, q \in Procs, s \in Codes : waitpid_enter(p, q, s)
    \/ \E p \in Procs : waitpid_sleep(p) \/ waitpid_return(p) \/ prog_fails(p)
    \/ \E p \in Procs, c \in Codes : sys__exit(p, c)

\* A waiter that is on the CPU or on a run queue goes on.
Fairness == \A p \in Procs : WF_vars(waitpid_sleep(p)) /\ WF_vars(waitpid_return(p))

Spec == Init /\ [][Next]_vars
FairSpec == Spec /\ Fairness

-----------------------------------------------------------------------------
\* No wake-up is lost: the pid for which a process sleeps, or is about to,
\* belongs to one that is still to call sys__exit or has gone by thread_exit.
\* For that, sys__exit must find every matching node and must not overtake a
\* waiter between lock_release and wchan_sleep.
SleeperHasExiter ==
    \A p \in Procs : pc[p] \in {"bridge", "asleep"} =>
        \E q \in Procs : pid[q] = pid[arg[p]] /\ code[q] = None

\* Waiting cannot deadlock (man/syscall/waitpid.html, "protect itself from
\* these situations"): among any processes that sleep, one sleeps for a pid
\* that none of the others has.
NoWaitCycle ==
    \A S \in SUBSET {p \in Procs : pc[p] = "asleep"} :
        S # {} => \E p \in S : \A q \in S : pid[q] # pid[arg[p]]

\* The pid for which a process sleeps in sys_waitpid, or is about to, belongs to
\* one that has still to exit, and among any processes that sleep one sleeps for
\* a pid that none of the others has: no wakeup of sys__exit is lost, and nobody
\* waits in a circle.
WaitsEnd == TypeOK /\ SleeperHasExiter /\ NoWaitCycle

\* man/syscall/waitpid.html: a parent gets the exit status of its child ...
ExitStatusDelivered == \A c \in Procs : outcome[c] # "wrong"

\* ... and gets it even if the child has exited already.
ExitedChildWaitable == \A c \in Procs : outcome[c] # "denied"

\* man/syscall/_exit.html: a pid is not reused while the parent is in
\* sys_waitpid for the child that had it.
PidNotReused ==
    \A p \in Waiting : parent[arg[p]] = p =>
        \A q \in Procs \ {arg[p]} : pid[q] # pid[arg[p]]

\* Who waits for a process that is gone gets an answer.
WaitReturns ==
    \A p \in Procs : (pc[p] = "asleep" /\ arg[p] \notin alive) ~> (pc[p] = "user" \/ panicked)

-----------------------------------------------------------------------------
(* The list of pids alone.                                                 *)
tablevars == <<pt_list, wait_lock, pt_pid, pt_alive, pt_child, prev>>

Unborn == {p \in Threads : pt_pid[p] = 0 /\ \A q \in Threads : pt_child[q] # p}

\* thread_bootstrap.
TableInit ==
    /\ pt_list = <<PID_MIN, PID_MIN + 1>>
    /\ wait_lock = None
    /\ pt_pid = [p \in Threads |-> IF p = boot THEN PID_MIN + 1 ELSE 0]
    /\ pt_alive = {boot}
    /\ pt_child = [p \in Threads |-> None]
    /\ prev = [p \in Threads |-> 0]

TableTypeOK ==
    /\ pt_list \in Seq(Nat)
    /\ wait_lock \in Threads \cup {None}
    /\ pt_pid \in [Threads -> Nat]
    /\ pt_alive \in SUBSET Threads
    /\ pt_child \in [Threads -> Threads \cup {None}]
    /\ prev \in [Threads -> Nat]

\* The walk of add_pid_table, on behalf of a new thread q.
Walk(p, q) ==
    /\ p \in pt_alive /\ pt_child[p] = None /\ q \in Unborn
    /\ pt_child' = [pt_child EXCEPT ![p] = q]
    /\ prev' = [prev EXCEPT ![p] = WalkEnd(pt_list)]
    /\ UNCHANGED <<pt_list, pt_pid, pt_alive>>

\* The rest of add_pid_table: with the last pid above MAX_PID the error code
\* is returned, and thread_create takes it for the pid.
Link(p) ==
    LET full == prev[p] > MAX_PID IN
    /\ pt_child[p] # None
    /\ pt_list' = IF full THEN pt_list ELSE Linked(pt_list, prev[p])
    /\ pt_pid' = [pt_pid EXCEPT ![pt_child[p]] = IF full THEN EINVAL ELSE prev[p] + 1]
    /\ pt_alive' = pt_alive \cup {pt_child[p]}
    /\ pt_child' = [pt_child EXCEPT ![p] = None]
    /\ prev' = [prev EXCEPT ![p] = 0]
    /\ wait_lock' = IF wait_lock = p THEN None ELSE wait_lock

\* sys_fork.
table_fork(p, q) ==
    /\ p # boot
    /\ wait_lock = None /\ wait_lock' = p
    /\ MenuAlone => pt_child[boot] = None
    /\ Walk(p, q)

\* thread_fork, called by the menu: no lock.
thread_fork(q) ==
    /\ MenuAlone => \A p \in Threads : pt_child[p] = None
    /\ Walk(boot, q)
    /\ UNCHANGED wait_lock

\* sys__exit, as far as the pid goes.
table_exit(p) ==
    /\ p \in pt_alive /\ p # boot /\ pt_child[p] = None
    /\ MenuAlone => pt_child[boot] = None
    /\ wait_lock = None
    /\ pt_list' = remove_pid_table(pt_list, pt_pid[p])
    /\ pt_alive' = pt_alive \ {p}
    /\ UNCHANGED <<wait_lock, pt_pid, pt_child, prev>>

\* A kernel thread returns from its function: thread_exit, and the pid stays.
thread_exit(p) ==
    /\ p \in pt_alive /\ p # boot /\ pt_child[p] = None
    /\ pt_alive' = pt_alive \ {p}
    /\ UNCHANGED <<pt_list, wait_lock, pt_pid, pt_child, prev>>

TableNext ==
    \/ \E p, q \in Threads : table_fork(p, q)
    \/ \E q \in Threads : thread_fork(q)
    \/ \E p \in Threads : Link(p) \/ table_exit(p) \/ thread_exit(p)

TableSpec == TableInit /\ [][TableNext]_tablevars

-----------------------------------------------------------------------------
\* The list is strictly ascending, so that the tail has the largest pid and
\* tail + 1 is free, and every live thread's pid is on it.
ListSound ==
    /\ \A i \in 1..Len(pt_list)-1 : pt_list[i] < pt_list[i+1]
    /\ \A p \in pt_alive : pt_pid[p] \in Range(pt_list)

\* man/syscall/fork.html: the child "has a new, unique process id".
PidsUnique == \A p, q \in pt_alive : p # q => pt_pid[p] # pt_pid[q]

\* add_pid_table and remove_pid_table keep the list ascending, with the pids of
\* all live threads, which differ, as long as the menu forks while nobody else
\* forks or exits.
PidTableSound == TableTypeOK /\ ListSound /\ PidsUnique
=============================================================================
