----------------------------- MODULE FileTable -----------------------------
(***************************************************************************)
(* The file table of a process and the system calls on it                  *)
(* (kern/syscall/file.c), with what fork and exit do to it                 *)
(* (kern/thread/thread.c).  Handle 0 stands for the three console handles, *)
(* the others for 3 and up.  struct File objects are blocks of the kernel  *)
(* heap: sys_open asks for the size of a pointer, so f_lock, the last      *)
(* field, lies in the next block.                                          *)
(***************************************************************************)
EXTENDS Integers, FiniteSets, FiniteSetsExt

CONSTANTS
    Procs, First,       \* processes; the one that runs first
    Paths,              \* files that exist
    Handles,            \* 0..MAX_FILE_FILETAB-1
    Blocks,             \* heap blocks 1..n for struct File
    MaxOffset,          \* bound on seek positions
    MaxOpens,           \* bound on the opens of one file
    Odd                 \* what callers do besides the plain uses, see below

\* "overlap"  a File whose neighbour in the heap is another File
\* "failed"   an open that fails
\* "espipe"   lseek on the console
\* "shared"   an exit with handles inherited by others, or from others
\* "last"     an exit with a file that was opened only once
\* "badfd"    read, write, close or dup2 of a handle that is not open
\* "write"    a write whose data were not all copied

NULL == -1
Con == 0                    \* the File of the console handles, well allocated
Nobody == "nobody"
Garbage == "garbage"
console == "con:"
Offsets == 0..MaxOffset

FileTableAssumption ==
    /\ First \in Procs /\ Nobody \notin Procs
    /\ 0 \in Handles /\ Handles \subseteq Nat /\ Blocks \subseteq Nat \ {0}
    /\ MaxOffset \in Nat /\ MaxOpens \in Nat
    /\ Odd \subseteq {"overlap", "failed", "espipe", "shared", "last", "badfd", "write"}

VARIABLES
    running,        \* processes that run
    fdesc,          \* fdesc[p][h]: a File, or NULL
    file,           \* file[b]: vnode, flags, offset
    f_lock,         \* f_lock[b]: the owner of the File's lock
    used,           \* blocks allocated as Files
    opencount,      \* vn_opencount of the vnode of each path
    vnfreed,        \* paths whose vnode was freed
    call,           \* call[p]: a call that holds f_lock, or Idle
    panicked        \* the call that made the kernel panic, or "no"

vars == <<running, fdesc, file, f_lock, used, opencount, vnfreed, call, panicked>>

Idle == [op |-> "idle", handle |-> 0, from |-> 0, want |-> 0, data |-> "user"]
NoFile == [vnode |-> Garbage, flags |-> "r", offset |-> 0]

Init ==
    /\ running = {First}
    /\ fdesc = [p \in Procs |-> [h \in Handles |-> IF p = First /\ h = 0 THEN Con ELSE NULL]]
    /\ file = [b \in Blocks \cup {Con} |-> [NoFile EXCEPT !.vnode = IF b = Con THEN console ELSE Garbage]]
    /\ f_lock = [b \in Blocks \cup {Con} |-> Nobody]
    /\ used = {Con}
    /\ opencount = [f \in Paths |-> 0]
    /\ vnfreed = {}
    /\ call = [p \in Procs |-> Idle]
    /\ panicked = "no"

TypeOK ==
    /\ running \subseteq Procs /\ used \subseteq Blocks \cup {Con} /\ vnfreed \subseteq Paths
    /\ fdesc \in [Procs -> [Handles -> Blocks \cup {Con, NULL}]]
    /\ file \in [Blocks \cup {Con} -> [vnode : Paths \cup {console, Garbage}, flags : {"r", "w"}, offset : Offsets]]
    /\ f_lock \in [Blocks \cup {Con} -> Procs \cup {Nobody}]
    /\ opencount \in [Paths -> 0..MaxOpens]
    /\ call \in [Procs -> [op : {"idle", "read", "write", "lseek"}, handle : Handles, from : Offsets,
                       want : Offsets, data : {"user", "stale"}]]
    /\ panicked \in {"no", "read", "relock", "close", "dup2"}

Ready(p) == p \in running /\ call[p] = Idle /\ panicked = "no"
Panic(why) == panicked' = why /\ UNCHANGED <<running, fdesc, file, f_lock, used, opencount, vnfreed, call>>

-----------------------------------------------------------------------------
Free(p) == {h \in Handles \ {0} : fdesc[p][h] = NULL}

\* MUTANT: the search always ends at the first handle.
FirstFree_taken(p) == Min(Handles \ {0})

FirstFree(p) == Min(Free(p))

\* The heap gives any free block.  lock_create's result is stored one block on.
Neighbours(b) == {b - 1, b + 1} \cap (used \ {Con})

\* sys_open: the first free handle from 3 up, a File, vfs_open, a lock.
sys_open(p, f, flags) ==
    /\ Ready(p) /\ Free(p) # {} /\ opencount[f] < MaxOpens
    /\ \E b \in Blocks \ used :
        /\ Neighbours(b) # {} => "overlap" \in Odd
        /\ fdesc' = [fdesc EXCEPT ![p][FirstFree(p)] = b]
        /\ used' = used \cup {b}
        /\ file' = [x \in DOMAIN file |->
                        IF x = b THEN [vnode |-> f, flags |-> flags, offset |-> 0]
                        ELSE IF x = b + 1 /\ x \in used THEN [file[x] EXCEPT !.vnode = Garbage]
                        ELSE file[x]]
        /\ f_lock' = [f_lock EXCEPT ![b] = Nobody]
    /\ opencount' = [opencount EXCEPT ![f] = @ + 1]
    /\ UNCHANGED <<running, vnfreed, call, panicked>>

\* sys_open when vfs_open fails: handle and File stay, vnode and lock are
\* whatever was there.
sys_open_failed(p) ==
    /\ Ready(p) /\ "failed" \in Odd /\ Free(p) # {}
    /\ \E b \in Blocks \ used :
        /\ Neighbours(b) = {}
        /\ fdesc' = [fdesc EXCEPT ![p][FirstFree(p)] = b]
        /\ used' = used \cup {b}
        /\ file' = [file EXCEPT ![b] = NoFile]
    /\ UNCHANGED <<running, f_lock, opencount, vnfreed, call, panicked>>

\* MUTANT: f_lock is not taken.
Enter_unlocked(p, h, c) ==
    /\ Ready(p) /\ fdesc[p][h] # NULL
    /\ f_lock' = [f_lock EXCEPT ![fdesc[p][h]] = p]
    /\ call' = [call EXCEPT ![p] = c]
    /\ UNCHANGED <<running, fdesc, file, used, opencount, vnfreed, panicked>>

\* lock_acquire(fdesc[h]->f_lock) at the start of a call; its assertion fails
\* when the caller holds the lock already.
Enter(p, h, c) ==
    LET b == fdesc[p][h] IN
    /\ Ready(p) /\ b # NULL
    /\ IF f_lock[b] = p THEN Panic("relock")
       ELSE /\ f_lock[b] = Nobody
            /\ f_lock' = [f_lock EXCEPT ![b] = p]
            /\ call' = [call EXCEPT ![p] = c]
            /\ UNCHANGED <<running, fdesc, file, used, opencount, vnfreed, panicked>>

\* The end of a call: the lock is released.
Leave(p) ==
    /\ f_lock' = [f_lock EXCEPT ![fdesc[p][call[p].handle]] = Nobody]
    /\ call' = [call EXCEPT ![p] = Idle]

\* sys_read and sys_write up to VOP_READ or VOP_WRITE.  The test of the flags
\* is never true.  sys_read takes the lock before it looks at the handle.  The
\* data to write are copied by copyinstr, for the length of what happens to be
\* in the new buffer.
sys_read(p, h) ==
    IF fdesc[p][h] = NULL THEN Ready(p) /\ "badfd" \in Odd /\ Panic("read")
    ELSE Enter(p, h, [Idle EXCEPT !.op = "read", !.handle = h, !.from = file[fdesc[p][h]].offset])

sys_write(p, h) ==
    /\ fdesc[p][h] # NULL
    /\ \E d \in {"user"} \cup IF "write" \in Odd THEN {"stale"} ELSE {} :
        Enter(p, h, [op |-> "write", handle |-> h, from |-> file[fdesc[p][h]].offset, want |-> 0, data |-> d])

\* After VOP_READ or VOP_WRITE: the position moves by what was transferred
\* (nothing on an error).
rw_done(p) ==
    LET b == fdesc[p][call[p].handle] IN
    /\ panicked = "no" /\ call[p].op \in {"read", "write"}
    /\ \E n \in {0, 1} :
        /\ call[p].from + n <= MaxOffset
        /\ file' = [file EXCEPT ![b].offset = call[p].from + n]
    /\ Leave(p)
    /\ UNCHANGED <<running, fdesc, used, opencount, vnfreed, panicked>>

\* lseek: a user asks for a position; the dispatcher passes a1, which is unused.
sys_lseek(p, h, want, a1) ==
    /\ h = 0 => "espipe" \in Odd
    /\ Enter(p, h, [Idle EXCEPT !.op = "lseek", !.handle = h, !.from = a1, !.want = want])

\* lseek, from VOP_TRYSEEK on: on the console it returns with the lock held.
lseek_done(p) ==
    LET b == fdesc[p][call[p].handle] IN
    /\ panicked = "no" /\ call[p].op = "lseek"
    /\ IF b = Con THEN call' = [call EXCEPT ![p] = Idle] /\ UNCHANGED <<file, f_lock>>
       ELSE Leave(p) /\ file' = [file EXCEPT ![b].offset = call[p].from]
    /\ UNCHANGED <<running, fdesc, used, opencount, vnfreed, panicked>>

-----------------------------------------------------------------------------
\* sys_close of an open handle: the slot is cleared, then read again to release
\* its lock; in kernel mode that fault is fatal.  (vn_refcount is never 0 here:
\* a vnode that was reclaimed holds the 0xdeadbeef of kfree.)
sys_close(p, h) ==
    /\ Ready(p) /\ fdesc[p][h] # NULL
    /\ IF f_lock[fdesc[p][h]] = p THEN Panic("relock")
       ELSE f_lock[fdesc[p][h]] = Nobody /\ Panic("close")

\* sys_dup2: an open new handle leads to sys_close of the old one; a closed
\* one is written through.  An old handle that is not open is read through.
sys_dup2(p, h, new) ==
    /\ Ready(p)
    /\ \/ fdesc[p][new] # NULL /\ sys_close(p, h)
       \/ fdesc[p][new] = NULL /\ (fdesc[p][h] = NULL => "badfd" \in Odd) /\ Panic("dup2")

\* sys_fork: the child's table holds the same pointers; nothing is counted.
sys_fork(p, q) ==
    /\ Ready(p) /\ q \notin running
    /\ running' = running \cup {q}
    /\ fdesc' = [fdesc EXCEPT ![q] = fdesc[p]]
    /\ UNCHANGED <<file, f_lock, used, opencount, vnfreed, call, panicked>>

Own(p) == {fdesc[p][h] : h \in Handles \ {0}} \ {NULL}
OthersUse(p) == UNION {Own(q) : q \in running \ {p}}

\* exit and thread_destroy: Files from handle 3 up are freed with their locks,
\* and the vnodes whose opencount is at most 1; nothing is closed.
thread_destroy(p) ==
    LET once == {file[b].vnode : b \in Own(p)} \cap {f \in Paths : opencount[f] <= 1} IN
    /\ Ready(p)
    /\ Own(p) \cap OthersUse(p) # {} => "shared" \in Odd
    /\ once # {} => "last" \in Odd
    /\ running' = running \ {p}
    /\ used' = used \ Own(p)
    /\ vnfreed' = vnfreed \cup once
    /\ fdesc' = [fdesc EXCEPT ![p] = [h \in Handles |-> NULL]]
    /\ UNCHANGED <<file, f_lock, opencount, call, panicked>>

Next ==
    \E p \in Procs :
        \/ \E f \in Paths, flags \in {"r", "w"} : sys_open(p, f, flags)
        \/ \E h \in Handles : sys_read(p, h)
        \/ \E h \in Handles : sys_write(p, h)
        \/ \E h \in Handles, want, a1 \in Offsets : sys_lseek(p, h, want, a1)
        \/ rw_done(p)
        \/ lseek_done(p)
        \/ \E h \in Handles : sys_close(p, h)
        \/ \E h, new \in Handles : sys_dup2(p, h, new)
        \/ \E q \in Procs : sys_fork(p, q)
        \/ thread_destroy(p)

Spec == Init /\ [][Next]_vars

\* With opens that fail as well.
FailSpec == Init /\ [][Next \/ \E p \in Procs : sys_open_failed(p)]_vars

-----------------------------------------------------------------------------
\* While a call is between its lock_acquire and its lock_release the position
\* of the File is the one the call started from, whatever the other processes
\* that inherited the File do: no transfer or seek is lost.
TransferExclusive ==
    \A p \in running : call[p].op \in {"read", "write"} =>
        LET b == fdesc[p][call[p].handle] IN f_lock[b] = p /\ file[b].offset = call[p].from

\* A handle of a running process refers to an allocated File.
HandleValid == \A p \in running : Own(p) \subseteq used

\* The allocated Files are those in the tables of the running processes, each
\* at most once in a table: opens, forks and exits leak no File.
FilesOwned ==
    /\ used \ {Con} = UNION {Own(p) : p \in running}
    /\ \A p \in running : \A h, i \in Handles : h # i /\ fdesc[p][h] = fdesc[p][i] => fdesc[p][h] = NULL

\* sys_read, sys_write and sys_lseek hold f_lock from the read of the position
\* to its update, so of processes that inherited a File from sys_fork none
\* loses another's transfer; and sys_open, sys_fork and thread_destroy leak no
\* File: the allocated ones are those in the tables of the running processes.
FilesShared == TypeOK /\ TransferExclusive /\ FilesOwned

\* The vnode of a path that the file system keeps in its table is not freed
\* memory: exit frees vnodes without telling the file system.
VnodeValid == vnfreed = {}

\* lock_acquire's KASSERT(!(lock_do_i_hold(lock))).
NoRelock == panicked # "relock"

\* sys_close of an open handle returns.
CloseReturns == panicked # "close"

\* sys_dup2 of an open handle onto another returns.
Dup2Returns == panicked # "dup2"

\* sys_read of a handle that is not open returns EBADF.
ReadChecksHandle == panicked # "read"

\* A handle that is open refers to a file that was opened.
HandleIsOpen == \A p \in running : \A b \in Own(p) : file[b].vnode # Garbage

\* Only a file that was opened for writing is written.
WriteNeedsWritable == \A p \in running : call[p].op = "write" /\ call[p].handle # 0 =>
    file[fdesc[p][call[p].handle]].flags = "w"

\* What is written is what the process gave.
WritesUsersData == \A p \in running : call[p].op = "write" => call[p].data = "user"

\* lseek goes to the position the process asks for.
SeekAsAsked == \A p \in running : call[p].op = "lseek" => call[p].from = call[p].want
=============================================================================
