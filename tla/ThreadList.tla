-------------------------- MODULE ThreadList --------------------------
(***************************************************************************)
(* kern/thread/threadlist.c at the level of its pointer writes: a doubly   *)
(* linked list with a bookend at each end, used as a run queue by several  *)
(* CPUs.  Each operation is the sequence of its writes, so that the writes *)
(* of two CPUs can interleave.  thread_switch, thread_make_runnable and    *)
(* thread_consider_migration hold the run queue lock; schedule does not.   *)
(***************************************************************************)
EXTENDS Integers, Sequences, FiniteSets, SequencesExt

CONSTANTS
    CPUs, Threads,
    OnList,          \* the threads on the list at the start
    WithSchedule,    \* TRUE: the owner of the list also runs schedule
    Owner,           \* the CPU whose run queue this is
    head, tail, Null

Nodes == Threads \cup {head, tail}

ListAssumption ==
    /\ head \notin Threads /\ tail \notin Threads /\ head # tail /\ Null \notin Nodes
    /\ OnList \subseteq Threads
    /\ WithSchedule \in BOOLEAN /\ Owner \in CPUs

VARIABLES
    tln_next, tln_prev, tl_count,
    lock,     \* the CPU that holds the run queue lock
    todo,     \* todo[c]: the writes CPU c still has to do
    node,     \* node[c]: the node they are about
    hand      \* hand[c]: the threads CPU c has in its hands, on no list

vars == <<tln_next, tln_prev, tl_count, lock, todo, node, hand>>

Writes == {"next_of_prev", "prev_of_next", "link_prev", "link_next", "clear", "point_at_head", "point_at_tail",
           "inc", "dec", "take", "unlock"}

TypeOK ==
    /\ tln_next \in [Nodes -> Nodes \cup {Null}]
    /\ tln_prev \in [Nodes -> Nodes \cup {Null}]
    /\ tl_count \in Nat
    /\ lock \in CPUs \cup {Null}
    /\ \A c \in CPUs : Range(todo[c]) \subseteq Writes
    /\ node \in [CPUs -> Nodes \cup {Null}]
    /\ hand \in [CPUs -> SUBSET Threads]

\* The list that a sequence of threads stands for.
Bookended(s) == <<head>> \o s \o <<tail>>

NextOf(full, n) == LET I == {i \in 1..Len(full)-1 : full[i] = n}
                   IN  IF I = {} THEN Null ELSE full[1 + CHOOSE i \in I : TRUE]

\* The threads of the list are alike; each of the others is in the hands of a
\* CPU, which is about to make it runnable.
StartList == Bookended(SetToSeq(OnList))

Init ==
    /\ tln_next = [n \in Nodes |-> NextOf(StartList, n)]
    /\ tln_prev = [n \in Nodes |-> NextOf(Reverse(StartList), n)]
    /\ tl_count = Cardinality(OnList)
    /\ lock = Null
    /\ todo = [c \in CPUs |-> <<>>]
    /\ node = [c \in CPUs |-> Null]
    /\ \E by \in [Threads \ OnList -> CPUs] : hand = [c \in CPUs |-> {t \in Threads \ OnList : by[t] = c}]

-----------------------------------------------------------------------------
\* MUTANT: the back link is forgotten.
insertbeforenode_nolink == <<"point_at_tail", "link_prev", "inc">>

\* The writes of the three internal functions, with the bookkeeping around them.
removenode == <<"next_of_prev", "prev_of_next", "clear", "dec">>
insertafternode == <<"point_at_head", "link_prev", "link_next", "inc">>
insertbeforenode == <<"point_at_tail", "link_prev", "link_next", "inc">>

Start(c, n, writes) ==
    /\ todo[c] = <<>>
    /\ todo' = [todo EXCEPT ![c] = writes]
    /\ node' = [node EXCEPT ![c] = n]

spinlock_acquire(c) == lock = Null /\ lock' = c

\* thread_make_runnable: addtail under the lock.
thread_make_runnable(c, t) ==
    /\ t \in hand[c]
    /\ Start(c, t, insertbeforenode \o <<"unlock">>)
    /\ spinlock_acquire(c)
    /\ hand' = [hand EXCEPT ![c] = @ \ {t}]
    /\ UNCHANGED <<tln_next, tln_prev, tl_count>>

\* threadlist_remhead under the lock, by the owner (thread_switch).
threadlist_remhead(c) ==
    LET n == tln_next[head] IN
    /\ c = Owner
    /\ tln_next[n] # Null
    /\ Start(c, n, removenode \o <<"take", "unlock">>)
    /\ spinlock_acquire(c)
    /\ UNCHANGED <<tln_next, tln_prev, tl_count, hand>>

\* threadlist_remove of any thread under the lock (thread_consider_migration
\* takes the one with the lowest priority number).
threadlist_remove(c, t) ==
    /\ c = Owner
    /\ tln_next[t] # Null
    /\ Start(c, t, removenode \o <<"take", "unlock">>)
    /\ spinlock_acquire(c)
    /\ UNCHANGED <<tln_next, tln_prev, tl_count, hand>>

\* schedule: remove a thread and add it at the head, without the lock.
schedule(c, t) ==
    /\ WithSchedule /\ c = Owner
    /\ tl_count # 0 /\ tln_next[t] # Null
    /\ Start(c, t, removenode \o insertafternode)
    /\ UNCHANGED <<tln_next, tln_prev, tl_count, lock, hand>>

\* One write of CPU c.
Write(c) ==
    LET n == node[c]
        w == Head(todo[c]) IN
    /\ todo[c] # <<>>
    /\ todo' = [todo EXCEPT ![c] = Tail(@)]
    /\ CASE w = "next_of_prev" -> tln_next' = [tln_next EXCEPT ![tln_prev[n]] = tln_next[n]]
         [] w = "link_prev" -> tln_next' = [tln_next EXCEPT ![tln_prev[n]] = n]
         [] w = "clear" -> tln_next' = [tln_next EXCEPT ![n] = Null]
         [] w = "point_at_head" -> tln_next' = [tln_next EXCEPT ![n] = tln_next[head]]
         [] w = "point_at_tail" -> tln_next' = [tln_next EXCEPT ![n] = tail]
         [] OTHER -> UNCHANGED tln_next
    /\ CASE w = "prev_of_next" -> tln_prev' = [tln_prev EXCEPT ![tln_next[n]] = tln_prev[n]]
         [] w = "link_next" -> tln_prev' = [tln_prev EXCEPT ![tln_next[n]] = n]
         [] w = "clear" -> tln_prev' = [tln_prev EXCEPT ![n] = Null]
         [] w = "point_at_head" -> tln_prev' = [tln_prev EXCEPT ![n] = head]
         [] w = "point_at_tail" -> tln_prev' = [tln_prev EXCEPT ![n] = tln_prev[tail]]
         [] OTHER -> UNCHANGED tln_prev
    /\ tl_count' = tl_count + (CASE w = "inc" -> 1 [] w = "dec" -> -1 [] OTHER -> 0)
    /\ lock' = IF w = "unlock" THEN Null ELSE lock
    /\ hand' = [hand EXCEPT ![c] = IF w = "take" THEN @ \cup {n} ELSE @]
    /\ UNCHANGED node

Next == \E c \in CPUs :
    \/ \E t \in Threads : thread_make_runnable(c, t) \/ threadlist_remove(c, t) \/ schedule(c, t)
    \/ threadlist_remhead(c)
    \/ Write(c)

Spec == Init /\ [][Next]_vars

-----------------------------------------------------------------------------
\* The nodes met from a bookend, following the links, up to a bound.
Walk(link, from) ==
    LET at[k \in 0..Cardinality(Threads) + 1] ==
            IF k = 0 THEN from
            ELSE IF at[k-1] = Null THEN Null ELSE link[at[k-1]]
    IN  at

Reached(link, from) == (Range(Walk(link, from)) \ {head, tail}) \ {Null}

Quiet == \A c \in CPUs : todo[c] = <<>>

\* cpu.h, of c_runqueue: "Protected by the runqueue lock."  Whenever no CPU is
\* in the middle of an operation, every thread that is in nobody's hands is on
\* the list, seen from both ends, and tl_count counts them.
ListIntact ==
    Quiet =>
        LET on == Threads \ UNION Range(hand) IN
        /\ Reached(tln_next, head) = on
        /\ Reached(tln_prev, tail) = on
        /\ tl_count = Cardinality(on)
        /\ \A t \in on : tln_prev[tln_next[t]] = t /\ tln_next[tln_prev[t]] = t

\* The pointers that an operation follows are not null when it follows them.
NoNullDereference ==
    \A c \in CPUs : todo[c] # <<>> =>
        /\ Head(todo[c]) \in {"next_of_prev", "link_prev"} => tln_prev[node[c]] # Null
        /\ Head(todo[c]) \in {"prev_of_next", "link_next"} => tln_next[node[c]] # Null
=============================================================================
