------------------------------ MODULE MCMemory ------------------------------
(***************************************************************************)
(* The file tables of processes, whose Files are blocks of the heap        *)
(* (FileTable), and, in behaviours of their own, the kernel's allocator    *)
(* (Kmalloc), the address spaces of programs with fork, execv and the TLB  *)
(* (Exec), and the copies between a program's memory and the kernel's      *)
(* (UserMem).                                                              *)
(***************************************************************************)
EXTENDS FileTable

CONSTANTS Threads, NSIZES, PerPage, NPAGEREFS, NPages, None, NUM_TLB, RAM, MaxNoMem

VARIABLES
    model,
    firstpaddr, inuse, pr, sizebases, allbase, nxt, live, pc,
    cur, tlb, freepaddr, mem, as, x_pc, todo, prog, sees, failed, nomem, x_panicked,
    u_call, u_res

K == INSTANCE Kmalloc

\* A program with a page of bss, and one whose file is cut short; both write to
\* the page after their text.
X == INSTANCE Exec WITH
    Programs <- {[name |-> "a", text |-> 1, data |-> 1, file |-> 0, short |-> FALSE],
                 [name |-> "b", text |-> 1, data |-> 1, file |-> 1, short |-> TRUE]},
    Written <- {4}, firstpaddr <- freepaddr, pc <- x_pc, panicked <- x_panicked

\* Addresses of three bits, half of them the user's, on pages of two bytes.
U == INSTANCE UserMem WITH
    W <- 3, USERSPACETOP <- 4, PAGE <- 2, MaxStr <- 4, MaxIov <- 3, MaxArgs <- 3, MaxArg <- 5,
    call <- u_call, res <- u_res

ASSUME FileTableAssumption /\ K!KmallocAssumption /\ X!ExecAssumption /\ U!UserMemAssumption

heapvars == <<firstpaddr, inuse, pr, sizebases, allbase, nxt, live, pc>>
execvars == <<cur, tlb, freepaddr, mem, as, x_pc, todo, prog, sees, failed, nomem, x_panicked>>
uservars == <<u_call, u_res>>
allvars == <<model, vars, heapvars, execvars, uservars>>

TwoClasses == <<3, 2>>
NoCall == [op |-> "none"]

\* What is not modelled in a behaviour starts in one state only.
MCInit ==
    /\ model \in {"kmalloc", "files", "exec", "usermem"}
    /\ Init /\ K!Init /\ X!Init
    /\ model # "exec" => prog[cur].name = "a"
    /\ IF model = "usermem" THEN U!Init ELSE u_call = NoCall /\ u_res = U!NoResult

MCNext ==
    \/ model = "files" /\ Next /\ UNCHANGED <<model, heapvars, execvars, uservars>>
    \/ model = "kmalloc" /\ K!Next /\ UNCHANGED <<model, vars, execvars, uservars>>
    \/ model = "exec" /\ X!Next /\ UNCHANGED <<model, vars, heapvars, uservars>>
    \/ model = "usermem" /\ U!Next /\ UNCHANGED <<model, vars, heapvars, execvars>>

MCSpec == MCInit /\ [][MCNext]_allvars

\* kmalloc hands out no block and no page twice, although it drops its lock to get
\* a page: every page has one owner and is divided into free blocks and blocks of
\* clients, the lists of pages agree, and kfree finds the page of every block.
HeapSound == K!TypeOK /\ K!PagesDivided /\ K!ListsAgree /\ K!KfreeFindsPage /\ K!PageOwned

\* What a program reaches through the TLB is its own, after fork, execv and
\* switches to others; and vm_fault's assertions and fork fail only because of a
\* program whose execv failed half way.
SeesItsOwn == X!TypeOK /\ X!SeesItsOwn /\ X!PanicOnlyAfterFailedExec

\* copyin, copyout and their string versions touch no address of the kernel and
\* fail exactly when they should, uiomove keeps buffers, resid and offset in step,
\* and the arguments that sys_execv puts on the new stack are found where argv
\* points.
CopiesRight == U!CopyIsConfined /\ U!UioInOrder /\ U!ArgsArrive
=============================================================================
