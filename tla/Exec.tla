-------------------------------- MODULE Exec --------------------------------
(***************************************************************************)
(* Programs in memory: address spaces and page faults                      *)
(* (kern/arch/mips/vm/dumbvm.c over kern/arch/mips/vm/ram.c), loading a    *)
(* program (kern/syscall/loadelf.c, runprogram.c, sys_execv), fork's copy, *)
(* the trap handler's way with faults, and the TLB of one CPU, which every *)
(* thread with an address space finds emptied when it is switched to.      *)
(* Memory is never given back (free_kpages and as_destroy free no page).   *)
(* Addresses are page numbers.  A program has two loadable segments, as    *)
(* the linker script lays them out: vm_fault asserts that there are two.   *)
(***************************************************************************)
EXTENDS Integers, Sequences, FiniteSets, FiniteSetsExt

CONSTANTS
    Procs,          \* threads that run programs; the first program runs in one
    Programs,       \* [name, text, data, file, short]: pages of the two segments,
                    \* pages of data in the file, whether the file is cut short
    NUM_TLB,
    Written,        \* bound: the pages programs write to
    RAM,            \* pages ram_stealmem has, from 1 on
    MaxNoMem,       \* bound: failures of kmalloc
    None

TextBase == 1
DataBase == 4
StackBase == 7
STACKPAGES == 1     \* DUMBVM_STACKPAGES is 12

ExecAssumption ==
    /\ NUM_TLB \in Nat \ {0} /\ RAM \in Nat /\ MaxNoMem \in Nat
    /\ \A g \in Programs : g.text \in 1..3 /\ g.data \in 1..3 /\ g.file <= g.data

VARIABLES
    cur,            \* the thread on the CPU
    tlb,            \* entry -> [v, f], or None when invalid
    firstpaddr,     \* first page ram_stealmem has not handed out
    mem,            \* physical page -> what it holds
    as,             \* t_addrspace: None, or the three regions
    pc,             \* where each thread is
    todo,           \* pages load_segment has still to read
    prog,           \* the program being loaded
    sees,           \* what each program has a right to find at each page
    failed,         \* threads whose execv failed after as_destroy, and their children
    nomem, panicked

vars == <<cur, tlb, firstpaddr, mem, as, pc, todo, prog, sees, failed, nomem, panicked>>

Empty == [n1 |-> 0, p1 |-> 0, n2 |-> 0, p2 |-> 0, sp |-> 0]
NoTlb == [i \in 1..NUM_TLB |-> None]
Zero == <<"zero">>
Args == <<"args">>

Init ==
    /\ cur = (CHOOSE p \in Procs : TRUE) /\ tlb = NoTlb /\ firstpaddr = 1 /\ mem = [f \in 1..RAM |-> <<"stale">>]
    /\ as = [p \in Procs |-> None]
    /\ pc = [p \in Procs |-> IF p = cur THEN "create" ELSE "unborn"]
    /\ todo = [p \in Procs |-> <<>>]
    /\ \E g \in Programs : prog = [p \in Procs |-> g]
    /\ sees = [p \in Procs |-> <<>>]
    /\ failed = {} /\ nomem = 0 /\ panicked = FALSE

Running(p) == cur = p /\ ~panicked
Go(p, at) == pc' = [pc EXCEPT ![p] = at]

-----------------------------------------------------------------------------
(* Address spaces.                                                         *)

\* getppages: npages from ram_stealmem, or 0.
getppages(first, n) == IF first + n > RAM + 1 THEN 0 ELSE first

\* The three allocations of as_prepare_load; the later are not tried after one fails.
Prepared(a, first) ==
    LET p1 == getppages(first, a.n1)
        p2 == IF p1 = 0 THEN 0 ELSE getppages(first + a.n1, a.n2)
        sp == IF p2 = 0 THEN 0 ELSE getppages(first + a.n1 + a.n2, STACKPAGES)
    IN [a EXCEPT !.p1 = p1, !.p2 = p2, !.sp = sp]

OutOfMemory_nostack(a) == a.p2 = 0

\* One of the three failed.
OutOfMemory(a) == a.sp = 0

Stolen(a) == (IF a.p1 # 0 THEN a.n1 ELSE 0) + (IF a.p2 # 0 THEN a.n2 ELSE 0) + (IF a.sp # 0 THEN STACKPAGES ELSE 0)

Pages(a) == (TextBase..TextBase + a.n1 - 1) \cup (DataBase..DataBase + a.n2 - 1)
            \cup (StackBase..StackBase + STACKPAGES - 1)

\* The physical page behind a page of a complete address space.
Translate(a, v) ==
    CASE v \in TextBase..TextBase + a.n1 - 1 -> v - TextBase + a.p1
      [] v \in DataBase..DataBase + a.n2 - 1 -> v - DataBase + a.p2
      [] OTHER -> v - StackBase + a.sp

Frames(a) == {Translate(a, v) : v \in Pages(a)}

as_zero_region_none(a, m) == m

\* All three regions are zeroed.
as_zero_region(a, m) == [f \in 1..RAM |-> IF f \in Frames(a) THEN Zero ELSE m[f]]

-----------------------------------------------------------------------------
(* Faults.                                                                 *)
Entry(v) == {i \in 1..NUM_TLB : tlb[i] # None /\ tlb[i].v = v}
Free == {i \in 1..NUM_TLB : tlb[i] = None}

\* vm_fault: what becomes of a miss on page v of thread p.
vm_fault(p, v) ==
    CASE as[p] = None -> "EFAULT"
      [] as[p] # None /\ 0 \in {as[p].n1, as[p].p1, as[p].n2, as[p].p2, as[p].sp} -> "assert"
      [] OTHER -> IF v \notin Pages(as[p]) \/ Free = {} THEN "EFAULT" ELSE "ok"

\* The TLB with the page in the first invalid entry.
tlb_write(p, v) == [tlb EXCEPT ![Min(Free)] = [v |-> v, f |-> Translate(as[p], v)]]

as_activate_keep(p) == tlb
as_activate(p) == IF as[p] # None THEN NoTlb ELSE tlb

\* thread_switch: the next thread activates its address space, if it has one.
thread_switch(p) ==
    /\ ~panicked /\ p # cur /\ pc[p] \notin {"unborn", "dead"}
    /\ cur' = p /\ tlb' = as_activate(p)
    /\ UNCHANGED <<firstpaddr, mem, as, pc, todo, prog, sees, failed, nomem, panicked>>

\* mips_trap: a miss is answered by a new entry; an answer of EFAULT kills a
\* program and makes the kernel's copy fail; an assertion stops the kernel.
miss(p, v, else) ==
    /\ Entry(v) = {}
    /\ \/ vm_fault(p, v) = "ok" /\ tlb' = tlb_write(p, v)
          /\ UNCHANGED <<cur, firstpaddr, mem, as, pc, todo, prog, sees, failed, nomem, panicked>>
       \/ vm_fault(p, v) = "assert" /\ panicked' = TRUE
          /\ UNCHANGED <<cur, tlb, firstpaddr, mem, as, pc, todo, prog, sees, failed, nomem>>
       \/ vm_fault(p, v) = "EFAULT" /\ else

\* sys__exit and thread_exit; the TLB is left as it is.
thread_exit(p) ==
    /\ as' = [as EXCEPT ![p] = None] /\ Go(p, "dead") /\ sees' = [sees EXCEPT ![p] = <<>>]
    /\ UNCHANGED <<cur, tlb, firstpaddr, mem, todo, prog, failed, nomem, panicked>>

kill_curthread(p) == thread_exit(p)

exit(p) == Running(p) /\ pc[p] = "user" /\ thread_exit(p)

\* A user instruction that writes (or reads: it finds mem) page v.
user_miss(p, v) == Running(p) /\ pc[p] = "user" /\ miss(p, v, kill_curthread(p))

user_write(p, v) ==
    /\ Running(p) /\ pc[p] = "user" /\ Entry(v) # {}
    /\ mem' = [mem EXCEPT ![tlb[Min(Entry(v))].f] = <<p>>]
    /\ sees' = [sees EXCEPT ![p] = [x \in DOMAIN @ |-> IF x = v THEN <<p>> ELSE @[x]]]
    /\ UNCHANGED <<cur, tlb, firstpaddr, as, pc, todo, prog, failed, nomem, panicked>>

-----------------------------------------------------------------------------
(* execv and runprogram.                                                   *)

\* sys_execv up to as_destroy, having opened the file.
sys_execv(p, g) ==
    /\ Running(p) /\ pc[p] = "user"
    /\ as' = [as EXCEPT ![p] = None] /\ prog' = [prog EXCEPT ![p] = g] /\ Go(p, "create")
    /\ UNCHANGED <<cur, tlb, firstpaddr, mem, todo, sees, failed, nomem, panicked>>

\* An error: the first program's thread ends; execv returns to the caller.
Fails(p) ==
    /\ Go(p, IF sees[p] = <<>> THEN "dead" ELSE "user")
    /\ failed' = failed \cup {p}
    /\ todo' = [todo EXCEPT ![p] = <<>>]

as_create(p) ==
    /\ Running(p) /\ pc[p] = "create"
    /\ \/ as' = [as EXCEPT ![p] = Empty] /\ Go(p, "activate") /\ UNCHANGED <<todo, failed, nomem>>
       \/ nomem < MaxNoMem /\ nomem' = nomem + 1 /\ Fails(p) /\ UNCHANGED as
    /\ UNCHANGED <<cur, tlb, firstpaddr, mem, prog, sees, panicked>>

activate(p) ==
    /\ Running(p) /\ pc[p] = "activate" /\ tlb' = as_activate(p) /\ Go(p, "define")
    /\ UNCHANGED <<cur, firstpaddr, mem, as, todo, prog, sees, failed, nomem, panicked>>

FilePages(g) == [i \in 1..g.text |-> TextBase + i - 1] \o [i \in 1..g.file |-> DataBase + i - 1]

\* load_elf: the regions are defined, allocated and zeroed.
load_elf(p) ==
    /\ Running(p) /\ pc[p] = "define"
    /\ LET a == Prepared([Empty EXCEPT !.n1 = prog[p].text, !.n2 = prog[p].data], firstpaddr)
       IN /\ as' = [as EXCEPT ![p] = a] /\ firstpaddr' = firstpaddr + Stolen(a)
          /\ \/ ~OutOfMemory(a) /\ mem' = as_zero_region(a, mem) /\ Go(p, "load")
                /\ todo' = [todo EXCEPT ![p] = FilePages(prog[p])] /\ UNCHANGED failed
             \/ OutOfMemory(a) /\ Fails(p) /\ UNCHANGED mem
    /\ UNCHANGED <<cur, tlb, prog, sees, nomem, panicked>>

\* copyout in uiomove: the fault is answered, or copyfail ends the load.
load_miss(p) ==
    /\ Running(p) /\ pc[p] = "load" /\ todo[p] # <<>>
    /\ miss(p, Head(todo[p]), Fails(p) /\ UNCHANGED <<cur, tlb, firstpaddr, mem, as, prog, sees, nomem, panicked>>)

\* load_segment reads a page; the last one of a file that is cut short is missing.
load_segment(p) ==
    /\ Running(p) /\ pc[p] = "load" /\ todo[p] # <<>> /\ Entry(Head(todo[p])) # {}
    /\ \/ /\ ~(prog[p].short /\ Len(todo[p]) = 1)
          /\ mem' = [mem EXCEPT ![tlb[Min(Entry(Head(todo[p])))].f] = <<prog[p].name, Head(todo[p])>>]
          /\ todo' = [todo EXCEPT ![p] = Tail(@)] /\ UNCHANGED <<pc, failed>>
       \/ prog[p].short /\ Len(todo[p]) = 1 /\ Fails(p) /\ UNCHANGED mem
    /\ UNCHANGED <<cur, tlb, firstpaddr, as, prog, sees, nomem, panicked>>

Image(g) == [v \in Pages([n1 |-> g.text, n2 |-> g.data]) |->
                IF v \in Range(FilePages(g)) THEN <<g.name, v>> ELSE IF v = StackBase THEN Args ELSE Zero]

\* The arguments go on the stack (whether or not the copy succeeds: its
\* result is not looked at) and the program starts.
enter_new_process(p) ==
    /\ Running(p) /\ pc[p] = "load" /\ todo[p] = <<>> /\ Entry(StackBase) # {}
    /\ mem' = [mem EXCEPT ![tlb[Min(Entry(StackBase))].f] = Args]
    /\ sees' = [sees EXCEPT ![p] = Image(prog[p])] /\ failed' = failed \ {p} /\ Go(p, "user")
    /\ UNCHANGED <<cur, tlb, firstpaddr, as, todo, prog, nomem, panicked>>

args_miss(p) ==
    /\ Running(p) /\ pc[p] = "load" /\ todo[p] = <<>>
    /\ miss(p, StackBase, /\ sees' = [sees EXCEPT ![p] = [Image(prog[p]) EXCEPT ![StackBase] = Zero]]
                          /\ failed' = failed \ {p} /\ Go(p, "user")
                          /\ UNCHANGED <<cur, tlb, firstpaddr, mem, as, todo, prog, nomem, panicked>>)

-----------------------------------------------------------------------------
Copied_nostack(old, new) ==
    [f \in 1..RAM |-> IF \E v \in Pages(new) \ {StackBase} : Translate(new, v) = f
                      THEN mem[Translate(old, CHOOSE v \in Pages(new) : Translate(new, v) = f)] ELSE mem[f]]

\* as_copy: all three regions, through the kernel's own mapping of memory.
Copied(old, new) ==
    [f \in 1..RAM |-> IF \E v \in Pages(new) : Translate(new, v) = f
                      THEN mem[Translate(old, CHOOSE v \in Pages(new) : Translate(new, v) = f)] ELSE mem[f]]

\* sys_fork as far as memory goes; without memory there is no child.
sys_fork(p, c) ==
    /\ Running(p) /\ pc[p] = "user" /\ pc[c] = "unborn"
    /\ \/ as[p] = None /\ panicked' = TRUE /\ UNCHANGED <<firstpaddr, mem, as, pc, sees, failed>>
       \/ /\ as[p] # None
          /\ LET a == Prepared([Empty EXCEPT !.n1 = as[p].n1, !.n2 = as[p].n2], firstpaddr)
             IN /\ firstpaddr' = firstpaddr + Stolen(a)
                /\ \/ ~OutOfMemory(a) /\ mem' = Copied(as[p], a) /\ as' = [as EXCEPT ![c] = a]
                      /\ Go(c, "user") /\ sees' = [sees EXCEPT ![c] = sees[p]]
                      /\ failed' = IF p \in failed THEN failed \cup {c} ELSE failed
                   \/ OutOfMemory(a) /\ UNCHANGED <<mem, as, pc, sees, failed>>
          /\ UNCHANGED panicked
    /\ UNCHANGED <<cur, tlb, todo, prog, nomem>>

-----------------------------------------------------------------------------
Next == \E p \in Procs :
    \/ thread_switch(p) \/ exit(p)
    \/ \E v \in TextBase..StackBase + STACKPAGES : user_miss(p, v)
    \/ \E v \in Written : user_write(p, v)
    \/ \E g \in Programs : sys_execv(p, g)
    \/ as_create(p) \/ activate(p) \/ load_elf(p) \/ load_miss(p) \/ load_segment(p)
    \/ args_miss(p) \/ enter_new_process(p)
    \/ \E c \in Procs : sys_fork(p, c)

Spec == Init /\ [][Next]_vars
-----------------------------------------------------------------------------
TypeOK ==
    /\ firstpaddr \in 1..RAM + 1 /\ nomem \in 0..MaxNoMem
    /\ \A p \in Procs : pc[p] \in {"unborn", "create", "activate", "define", "load", "user", "dead"}

\* What a running program reaches through the TLB is its own: its image as
\* loaded (with zeroes beyond the file), its arguments, what it wrote, and
\* what it had when it was forked, whatever other programs ran in between.
\* Not said of a program whose execv failed; and if that was for want of an
\* address space, the program, having none, keeps what others left in the TLB.
SeesItsOwn ==
    (pc[cur] = "user" /\ cur \notin failed /\ nomem = 0) =>
        /\ \A i \in 1..NUM_TLB : tlb[i] # None => tlb[i].v \in DOMAIN sees[cur] /\ mem[tlb[i].f] = sees[cur][tlb[i].v]
        /\ \A i, j \in 1..NUM_TLB : i # j /\ tlb[i] # None /\ tlb[j] # None => tlb[i].v # tlb[j].v
        /\ \A v \in DOMAIN sees[cur] : mem[Translate(as[cur], v)] = sees[cur][v]

\* An assertion of vm_fault, or fork without an address space, stops the
\* kernel only because of a program whose execv failed half way.
PanicOnlyAfterFailedExec == panicked => cur \in failed

\* (Not the case.)  The same without the last exception.
AlwaysSeesItsOwn ==
    (pc[cur] = "user" /\ cur \notin failed) => \A v \in DOMAIN sees[cur] : mem[Translate(as[cur], v)] = sees[cur][v]

\* (Not the case.)  When execv fails, the program that called it goes on.
FailedExecReturns == ~panicked
=============================================================================
