-------------------------------- MODULE Menu --------------------------------
(***************************************************************************)
(* The system as its menu sees it.  First names and references: the device *)
(* table (kern/vfs/vfslist.c), pathname translation (vfslookup.c,          *)
(* vfscwd.c), the operations on paths (vfspath.c), device vnodes           *)
(* (device.c, devnull.c, generic/random.c, generic/console.c) and the      *)
(* calls on paths (syscall/fs.c).  An operation is a function of the       *)
(* counts it finds: it yields the set of its possible outcomes             *)
(* [err, vn, cnt].  The file systems are external: a name in a directory   *)
(* may or may not be there, and every request to one may fail.             *)
(*                                                                         *)
(* Then the actions: boot() of main.c, the menu of menu.c with the         *)
(* commands on the kernel's command line and at the prompt, one program    *)
(* that it runs and waits for, shutdown() and panic() (lib/kprintf.c).     *)
(* While a program runs, cwd is its current directory and parent the       *)
(* menu's.  A program closes its files before it exits (FileTable says     *)
(* what happens otherwise).                                                *)
(***************************************************************************)
EXTENDS Integers, Sequences, FiniteSets, FiniteSetsExt, SequencesExt

CONSTANTS
    None,
    Blocks,         \* d_blocks of lhd0
    BSIZE,          \* d_blocksize of lhd0
    MaxFiles,       \* bound: files a program has open
    MaxNoMem        \* bound: failed allocations at boot

MenuAssumption == Blocks \in Nat \ {0} /\ BSIZE \in Nat \ {0, 1} /\ MaxFiles \in Nat /\ MaxNoMem \in Nat

VARIABLES
    table,          \* knowndevs
    cnt,            \* vn_refcount (ref) and vn_opencount (opn) of every vnode
    cwd, bootfs,    \* t_cwd of the menu thread, and bootfs_vnode
    phase,          \* boot, args (the kernel's command line), prompt, program, panic, off
    booted,         \* devices added so far
    nomem,
    parent,         \* t_cwd of the menu while a program runs
    held,           \* how many times the program has a vnode open
    dirty,          \* sfs has something to write
    evil,           \* the variable of panic()
    ret             \* what the last call returned, until it is looked at

names == <<table, cnt, cwd, bootfs>>
vars == <<names, phase, booted, nomem, parent, held, dirty, evil, ret>>
rest == <<booted, nomem>>


Subs == {"", "f", "d"}                  \* the root, a file and a directory
Devices == {"null", "con", "random", "lhd0"}
Fss == {"emufs", "sfs"}
Vnodes == {<<"dev", d>> : d \in Devices} \cup (Fss \X Subs)

Volname(fs) == IF fs = "sfs" THEN "vol" ELSE None
IsDev(v) == v[1] = "dev"
d_blocks(v) == IF v[2] = "lhd0" THEN Blocks ELSE 0

\* VOP_INIT leaves a vnode with one reference: the table's, or the emufs's.
Permanent(v) == IF IsDev(v) \/ v = <<"emufs", "">> THEN 1 ELSE 0
Counts0 == [ref |-> [v \in Vnodes |-> Permanent(v)], opn |-> [v \in Vnodes |-> 0]]

Ok(v, c) == [err |-> "ok", vn |-> v, cnt |-> c]
Err(e, c) == [err |-> e, vn |-> None, cnt |-> c]
incref(c, v) == [c EXCEPT !.ref[v] = @ + 1]
decref(c, v) == [c EXCEPT !.ref[v] = @ - 1]
incopen(c, v) == [c EXCEPT !.opn[v] = @ + 1]
decopen(c, v) == [c EXCEPT !.opn[v] = @ - 1]

\* What follows if a lookup succeeded.
Then(outcomes, Next(_)) == UNION {IF o.err = "ok" THEN Next(o) ELSE {o} : o \in outcomes}
\* A reference that is dropped whatever the outcome.
Dropping(v, outcomes) == {[o EXCEPT !.cnt = decref(@, v)] : o \in outcomes}

-----------------------------------------------------------------------------
(* The table.                                                              *)
Entry(name, raw, dev, fs) == [name |-> name, raw |-> raw, dev |-> dev, fs |-> fs]

samestring(a, b) == a # None /\ b # None /\ a = b
samestring3(a, ns) == \E n \in ns : samestring(a, n)

badnames(ns) == \E i \in 1..Len(table) :
                    \/ table[i].fs # None /\ samestring3(Volname(table[i].fs), ns)
                    \/ samestring3(table[i].raw, ns)
                    \/ samestring3(table[i].name, ns)

mkrawname(name) == IF name = "lhd0" THEN "lhd0raw" ELSE None     \* the one mountable device here

\* vfs_doadd: the table with the new entry, or as it was without memory.  The
\* path for a name that is taken does not arise: autoconf numbers its units.
vfs_doadd(name, mountable, dev, fs, fails) ==
    LET raw == IF mountable THEN mkrawname(name) ELSE None
    IN IF fails \/ badnames({name, raw, IF fs = None THEN None ELSE Volname(fs)}) THEN table
       ELSE Append(table, Entry(name, raw, dev, fs))

vfs_adddev(name, mountable, fails) == vfs_doadd(name, mountable, name, None, fails)
vfs_addfs(name, fs, fails) == vfs_doadd(name, FALSE, None, fs, fails)

\* The entries a name stands for; the first one counts.
Named(n) == {i \in 1..Len(table) :
                \/ table[i].name = n \/ table[i].raw = n
                \/ table[i].fs # None /\ Volname(table[i].fs) = n}

vfs_getroot(c, n) ==
    IF Named(n) = {} THEN {Err("ENODEV", c)}
    ELSE LET kd == table[Min(Named(n))]
             root == <<kd.fs, "">>
         IN IF kd.fs # None /\ n # kd.raw THEN {Ok(root, incref(c, root))}
            ELSE IF kd.raw # None /\ kd.name = n THEN {Err("ENXIO", c)}
            ELSE {Ok(<<"dev", kd.dev>>, incref(c, <<"dev", kd.dev>>))}

vfs_getdevname(fs) == {table[i].name : i \in {j \in 1..Len(table) : table[j].fs = fs}}

findmount(n) == {i \in 1..Len(table) : table[i].raw # None /\ table[i].name = n}

\* sfs_unmount refuses while a vnode of the file system is loaded.
Busy(c, fs) == \E s \in Subs : c.ref[<<fs, s>>] > 0

-----------------------------------------------------------------------------
(* Device vnodes.                                                          *)
dev_open(v, f) == IF f.creat \/ f.trunc \/ f.excl \/ f.append THEN "EINVAL"
                  ELSE IF v[2] = "random" /\ f.acc # "r" THEN "EIO"      \* randopen
                  ELSE "ok"                                              \* nullopen, con_open, lhd_open

dev_gettype(v) == IF d_blocks(v) > 0 THEN "blk" ELSE "chr"

\* d_io: what a transfer of len bytes at pos does, and how much it leaves.
nullio(rw, len) == [err |-> "ok", resid |-> IF rw = "write" THEN 0 ELSE len]
randio(rw) == IF rw = "read" THEN [err |-> "ok", resid |-> 0] ELSE [err |-> "EIO", resid |-> None]
lhd_io(pos, len) == IF pos % BSIZE # 0 \/ len % BSIZE # 0 \/ pos \div BSIZE + len \div BSIZE > Blocks
                    THEN [err |-> "EINVAL", resid |-> len] ELSE [err |-> "ok", resid |-> 0]
d_io(v, rw, pos, len) == CASE v[2] = "null" -> nullio(rw, len)
                           [] v[2] = "random" -> randio(rw)
                           [] v[2] = "lhd0" -> lhd_io(pos, len)
                           [] OTHER -> [err |-> "ok", resid |-> 0]      \* con_io: module Console

dev_read(v, pos, len) == d_io(v, "read", pos, len)
dev_write(v, pos, len) == d_io(v, "write", pos, len)

dev_stat(v) == [type |-> dev_gettype(v), size |-> IF d_blocks(v) > 0 THEN Blocks * BSIZE ELSE 0, nlink |-> 1]

dev_tryseek_end(v, pos) ==
    CASE d_blocks(v) = 0 -> "ESPIPE"
      [] pos % BSIZE # 0 \/ pos < 0 \/ pos \div BSIZE > d_blocks(v) -> "EINVAL"
      [] OTHER -> "ok"

dev_tryseek(v, pos) ==
    CASE d_blocks(v) = 0 -> "ESPIPE"
      [] pos % BSIZE # 0 \/ pos < 0 \/ pos \div BSIZE >= d_blocks(v) -> "EINVAL"
      [] OTHER -> "ok"

dev_truncate(v, len) == IF d_blocks(v) > 0 /\ Blocks * BSIZE = len THEN "ok" ELSE "EINVAL"
null_io == "EINVAL"             \* readlink and getdirentry
null_nameop == "ENOTDIR"        \* creat, mkdir, symlink, link, remove, rmdir, rename
dev_lookup(v, sub, c) == IF sub # "" THEN {Err("ENOENT", c)} ELSE {Ok(v, incref(c, v))}
dev_lookparent(c) == {Err("ENOTDIR", c)}

-----------------------------------------------------------------------------
(* The requests to a vnode.  In a file system, what a name stands for is   *)
(* up to it.                                                               *)
VOP_LOOKUP(v, sub, c) == IF IsDev(v) THEN dev_lookup(v, sub, c)
                         ELSE {Err("ENOENT", c), Ok(<<v[1], sub>>, incref(c, <<v[1], sub>>))}
VOP_LOOKPARENT(v, c) == IF IsDev(v) THEN dev_lookparent(c) ELSE {Err("ENOENT", c), Ok(v, incref(c, v))}
VOP_CREAT(v, sub, c) == IF IsDev(v) THEN {Err(null_nameop, c)}
                        ELSE {Err("EEXIST", c), Ok(<<v[1], sub>>, incref(c, <<v[1], sub>>))}
VOP_OPEN(v, f) == IF IsDev(v) THEN dev_open(v, f)
                  ELSE IF v[2] # "f" /\ (f.acc # "r" \/ f.append) THEN "EISDIR" ELSE "ok"
VOP_TRUNCATE(v) == IF IsDev(v) THEN {dev_truncate(v, 0)} ELSE {"ok", "EIO"}
VOP_GETTYPE(v) == IF IsDev(v) THEN dev_gettype(v) ELSE IF v[2] = "f" THEN "reg" ELSE "dir"
VOP_NAMEOP(v, c) == IF IsDev(v) THEN {Err(null_nameop, c)} ELSE {Err("fserror", c), Ok(None, c)}

vfs_getcurdir(c) == IF cwd = None THEN {Err("ENOENT", c)} ELSE {Ok(cwd, incref(c, cwd))}

\* Where a path starts: at the current directory, the boot file system, the
\* root of the current file system (":"), or a device.
getdevice(p, c) ==
    CASE p.pre = "rel" -> vfs_getcurdir(c)
      [] p.pre = "/" -> IF bootfs = None THEN {Err("ENOENT", c)} ELSE {Ok(bootfs, incref(c, bootfs))}
      [] p.pre = ":" -> Then(vfs_getcurdir(c), LAMBDA o :
                            IF IsDev(o.vn) THEN {Err("assert", o.cnt)}
                            ELSE LET root == <<o.vn[1], "">>
                                 IN {Ok(root, decref(incref(o.cnt, root), o.vn))})
      [] OTHER -> vfs_getroot(c, p.pre)

vfs_lookparent(p, c) ==
    Then(getdevice(p, c), LAMBDA o :
        Dropping(o.vn, IF p.sub = "" THEN {Err("EINVAL", o.cnt)} ELSE VOP_LOOKPARENT(o.vn, o.cnt)))

vfs_lookup(p, c) ==
    Then(getdevice(p, c), LAMBDA o :
        IF p.sub = "" THEN {o} ELSE Dropping(o.vn, VOP_LOOKUP(o.vn, p.sub, o.cnt)))

-----------------------------------------------------------------------------
(* The operations on paths.                                                *)
\* VOP_OPEN and O_TRUNC of a vnode that was looked up or created.
open_vnode(f, o) ==
    IF VOP_OPEN(o.vn, f) # "ok" THEN {Err(VOP_OPEN(o.vn, f), decref(o.cnt, o.vn))}
    ELSE LET c == incopen(o.cnt, o.vn)
             res == IF ~f.trunc THEN {"ok"} ELSE IF f.acc = "r" THEN {"EINVAL"} ELSE VOP_TRUNCATE(o.vn)
         IN {IF e = "ok" THEN Ok(o.vn, c) ELSE Err(e, decref(decopen(c, o.vn), o.vn)) : e \in res}

vfs_open(p, f, c) ==
    IF f.acc = "bad" THEN {Err("EINVAL", c)}
    ELSE Then(IF f.creat
              THEN Then(vfs_lookparent(p, c), LAMBDA o : Dropping(o.vn, VOP_CREAT(o.vn, p.sub, o.cnt)))
              ELSE vfs_lookup(p, c),
              LAMBDA o : open_vnode(f, o))

vfs_close(v, c) == decref(decopen(c, v), v)

vfs_remove(p, c) == Then(vfs_lookparent(p, c), LAMBDA o : Dropping(o.vn, VOP_NAMEOP(o.vn, o.cnt)))
vfs_mkdir(p, c) == Then(vfs_lookparent(p, c), LAMBDA o : Dropping(o.vn, VOP_NAMEOP(o.vn, o.cnt)))
vfs_rmdir(p, c) == Then(vfs_lookparent(p, c), LAMBDA o : Dropping(o.vn, VOP_NAMEOP(o.vn, o.cnt)))
vfs_symlink(p, c) == Then(vfs_lookparent(p, c), LAMBDA o : Dropping(o.vn, VOP_NAMEOP(o.vn, o.cnt)))
vfs_readlink(p, c) == Then(vfs_lookup(p, c), LAMBDA o :
    Dropping(o.vn, IF IsDev(o.vn) THEN {Err(null_io, o.cnt)} ELSE VOP_NAMEOP(o.vn, o.cnt)))

SameFs(v, w) == ~IsDev(v) /\ ~IsDev(w) /\ v[1] = w[1]

\* vfs_rename: both parents; MUTANT: the old one is kept if the new one fails.
vfs_rename_leak(p, q, c) ==
    Then(vfs_lookparent(p, c), LAMBDA o :
        Then(vfs_lookparent(q, o.cnt), LAMBDA n :
            Dropping(o.vn, Dropping(n.vn, IF SameFs(o.vn, n.vn) THEN VOP_NAMEOP(o.vn, n.cnt) ELSE {Err("EXDEV", n.cnt)}))))

vfs_rename(p, q, c) ==
    Then(vfs_lookparent(p, c), LAMBDA o :
        Dropping(o.vn, Then(vfs_lookparent(q, o.cnt), LAMBDA n :
            Dropping(n.vn, IF SameFs(o.vn, n.vn) THEN VOP_NAMEOP(o.vn, n.cnt) ELSE {Err("EXDEV", n.cnt)}))))

vfs_link(p, q, c) ==
    Then(vfs_lookup(p, c), LAMBDA o :
        Dropping(o.vn, Then(vfs_lookparent(q, o.cnt), LAMBDA n :
            Dropping(n.vn, IF SameFs(o.vn, n.vn) THEN VOP_NAMEOP(n.vn, n.cnt) ELSE {Err("EXDEV", n.cnt)}))))

\* vfs_setcurdir; the outcome's vnode is the new current directory.
vfs_setcurdir_any(v, c) == {Ok(v, IF cwd = None THEN incref(c, v) ELSE decref(incref(c, v), cwd))}
vfs_setcurdir(v, c) ==
    IF VOP_GETTYPE(v) # "dir" THEN {Err("ENOTDIR", c)}
    ELSE {Ok(v, IF cwd = None THEN incref(c, v) ELSE decref(incref(c, v), cwd))}

vfs_chdir(p, c) == Then(vfs_lookup(p, c), LAMBDA o : Dropping(o.vn, vfs_setcurdir(o.vn, o.cnt)))

\* vfs_getcwd: the volume's or else the device's name, and VOP_NAMEFILE.
vfs_getcwd(c) == Then(vfs_getcurdir(c), LAMBDA o :
    Dropping(o.vn, IF IsDev(o.vn) \/ (Volname(o.vn[1]) = None /\ vfs_getdevname(o.vn[1]) = {})
                   THEN {Err("assert", o.cnt)} ELSE {Ok(None, o.cnt), Err("fserror", o.cnt)}))

\* sys_mkdir, sys_rmdir, sys_remove, sys_rename: every failure, also of
\* copyinstr, comes back as 1, which is ENOSYS.
errno(e) == IF e = "ok" THEN "ok" ELSE "ENOSYS"
sys_mkdir(p, c) == {Err("ENOSYS", c)} \cup {[o EXCEPT !.err = errno(@)] : o \in vfs_mkdir(p, c)}
sys_rmdir(p, c) == {Err("ENOSYS", c)} \cup {[o EXCEPT !.err = errno(@)] : o \in vfs_rmdir(p, c)}
sys_remove(p, c) == {Err("ENOSYS", c)} \cup {[o EXCEPT !.err = errno(@)] : o \in vfs_remove(p, c)}
sys_rename(p, q, c) == {Err("ENOSYS", c)} \cup {[o EXCEPT !.err = errno(@)] : o \in vfs_rename(p, q, c)}

-----------------------------------------------------------------------------
(* The life of the system.                                                 *)
Idle == [op |-> "none", err |-> "ok"]
BootOrder == <<"null", "emu0", "lhd0", "random", "con">>
Paths == [pre : {"rel", "/", ":", "emu0", "lhd0", "lhd0raw", "con", "vol", "nodev"}, sub : Subs]
NewPaths == [pre : {"rel", "lhd0", "con"}, sub : {"f"}]
Acc(a) == [acc |-> a, creat |-> FALSE, excl |-> FALSE, trunc |-> FALSE, append |-> FALSE]
Flags == {Acc("bad")} \cup {[Acc(a) EXCEPT ![f] = TRUE] : a \in {"r", "w"}, f \in {"creat", "trunc", "append"}} \cup {Acc("r"), Acc("w")}
DevNames == {"emu0", "lhd0", "con", "nodev"}

Init ==
    /\ table = <<>> /\ cnt = Counts0 /\ cwd = None /\ bootfs = None
    /\ phase = "boot" /\ booted = 0 /\ nomem = 0
    /\ parent = None /\ held = [v \in Vnodes |-> 0] /\ dirty = FALSE
    /\ evil = 0 /\ ret = Idle

-----------------------------------------------------------------------------
\* devnull_create, then whatever the probe finds; without null: the system
\* stops, without another device it goes on.
boot_device(fails) ==
    LET d == BootOrder[booted + 1]
    IN  /\ phase = "boot" /\ booted < Len(BootOrder)
        /\ fails => nomem < MaxNoMem
        /\ booted' = booted + 1 /\ nomem' = nomem + IF fails THEN 1 ELSE 0
        /\ table' = IF d = "emu0" THEN vfs_addfs(d, "emufs", fails) ELSE vfs_adddev(d, d = "lhd0", fails)
        /\ phase' = IF fails /\ d = "null" THEN "panic" ELSE "boot"
        /\ UNCHANGED <<cnt, cwd, bootfs, parent, held, dirty, evil, ret>>

\* change_bootfs and the current directory that vfs_setbootfs sets first.  A
\* name with a colon is refused.
vfs_setbootfs(n, colon) ==
    IF colon THEN {Err("EINVAL", cnt)}
    ELSE Then(vfs_chdir([pre |-> n, sub |-> ""], cnt), LAMBDA o :
             {Ok(o.vn, IF bootfs = None THEN incref(o.cnt, o.vn) ELSE decref(incref(o.cnt, o.vn), bootfs))})

\* The end of boot(); failure is ignored.
boot_end ==
    /\ phase = "boot" /\ booted = Len(BootOrder)
    /\ \E o \in vfs_setbootfs("emu0", FALSE) :
          /\ cnt' = o.cnt
          /\ IF o.err = "ok" THEN cwd' = o.vn /\ bootfs' = o.vn ELSE UNCHANGED <<cwd, bootfs>>
    /\ phase' = "args"
    /\ UNCHANGED <<table, rest, parent, held, dirty, evil, ret>>

-----------------------------------------------------------------------------
(* The menu.                                                               *)
AtMenu == phase \in {"args", "prompt"}

\* menu_execute: a command that fails on the command line is a panic.
menu_execute(op, err) ==
    /\ phase' = IF err = "assert" \/ (err # "ok" /\ phase = "args") THEN "panic" ELSE phase
    /\ ret' = [op |-> op, err |-> err]

\* cmd_dispatch finds too many words, no such command, or wrong arguments.
cmd_dispatch ==
    /\ AtMenu /\ ret = Idle
    /\ \E e \in {"E2BIG", "EINVAL"} : menu_execute("dispatch", e)
    /\ UNCHANGED <<names, rest, parent, held, dirty, evil>>

\* menu: the command line is done.
menu == /\ phase = "args" /\ ret = Idle /\ phase' = "prompt"
        /\ UNCHANGED <<names, rest, parent, held, dirty, evil, ret>>

cmd_chdir(p) ==
    /\ AtMenu /\ ret = Idle
    /\ \E o \in vfs_chdir(p, cnt) :
          cnt' = o.cnt /\ cwd' = (IF o.err = "ok" THEN o.vn ELSE cwd) /\ menu_execute("chdir", o.err)
    /\ UNCHANGED <<table, bootfs, rest, parent, held, dirty, evil>>

cmd_pwd ==
    /\ AtMenu /\ ret = Idle
    /\ \E o \in vfs_getcwd(cnt) : cnt' = o.cnt /\ menu_execute("pwd", o.err)
    /\ UNCHANGED <<table, cwd, bootfs, rest, parent, held, dirty, evil>>

cmd_sync ==
    /\ AtMenu /\ ret = Idle /\ dirty' = FALSE /\ menu_execute("sync", "ok")
    /\ UNCHANGED <<names, rest, parent, held, evil>>

cmd_panic ==
    /\ AtMenu /\ ret = Idle /\ phase' = "panic"
    /\ UNCHANGED <<names, rest, parent, held, dirty, evil, ret>>

\* A colon after the name is taken off first.
cmd_mount(n) ==
    LET at == findmount(n)
        err == CASE at = {} -> {"ENODEV"}
                 [] at # {} /\ table[Min(at)].fs # None -> {"EBUSY"}
                 [] OTHER -> {"ok", "fserror"}
    IN  /\ AtMenu /\ ret = Idle
        /\ \E e \in err : /\ menu_execute("mount", e)
                          /\ table' = IF e = "ok" THEN [table EXCEPT ![Min(at)].fs = "sfs"] ELSE table
        /\ UNCHANGED <<cnt, cwd, bootfs, rest, parent, held, dirty, evil>>

cmd_unmount(n) ==
    LET at == findmount(n)
        kd == table[Min(at)]
        err == CASE at = {} -> {"ENODEV"}
                 [] at # {} /\ kd.fs = None -> {"EINVAL"}
                 [] OTHER -> IF Busy(cnt, kd.fs) THEN {"EBUSY", "fserror"} ELSE {"ok", "fserror"}
    IN  /\ AtMenu /\ ret = Idle
        /\ \E e \in err : /\ menu_execute("unmount", e)
                          /\ table' = IF e = "ok" THEN [table EXCEPT ![Min(at)].fs = None] ELSE table
                          /\ dirty' = IF e \in {"ok", "EBUSY"} THEN FALSE ELSE dirty
        /\ UNCHANGED <<cnt, cwd, bootfs, rest, parent, held, evil>>

cmd_bootfs(n) ==
    /\ AtMenu /\ ret = Idle
    /\ \E o \in vfs_setbootfs(n, FALSE) :
          /\ cnt' = o.cnt /\ menu_execute("bootfs", o.err)
          /\ IF o.err = "ok" THEN cwd' = o.vn /\ bootfs' = o.vn ELSE UNCHANGED <<cwd, bootfs>>
    /\ UNCHANGED <<table, rest, parent, held, dirty, evil>>

\* pf: both files are open while it copies, and closed whatever happens.
Output == [pre |-> "con", sub |-> ""]
printfile(p) ==
    /\ AtMenu /\ ret = Idle
    /\ \E o \in Then(vfs_open(p, Acc("r"), cnt), LAMBDA r :
                    {IF w.err = "ok" THEN Ok(None, vfs_close(r.vn, vfs_close(w.vn, w.cnt)))
                     ELSE [w EXCEPT !.cnt = vfs_close(r.vn, @)] : w \in vfs_open(Output, Acc("w"), r.cnt)}) :
          cnt' = o.cnt /\ menu_execute("pf", o.err)
    /\ UNCHANGED <<table, cwd, bootfs, rest, parent, held, dirty, evil>>

-----------------------------------------------------------------------------
(* A program: common_prog forks a thread that inherits the current         *)
(* directory, and waits for it.                                            *)
cmd_prog ==
    /\ phase = "prompt" /\ ret = Idle
    /\ phase' = "program" /\ parent' = cwd
    /\ cnt' = IF cwd = None THEN cnt ELSE incref(cnt, cwd)
    /\ UNCHANGED <<table, cwd, bootfs, rest, held, dirty, evil, ret>>

Running == phase = "program" /\ ret = Idle

Returns(op, o) == cnt' = o.cnt /\ ret' = [op |-> op, err |-> o.err] /\ phase' = IF o.err = "assert" THEN "panic" ELSE phase

sys_open(p, f) ==
    /\ Running /\ MapThenSumSet(LAMBDA v : held[v], Vnodes) < MaxFiles
    /\ \E o \in vfs_open(p, f, cnt) :
          /\ Returns("open", o)
          /\ held' = IF o.err = "ok" THEN [held EXCEPT ![o.vn] = @ + 1] ELSE held
    /\ UNCHANGED <<table, cwd, bootfs, rest, parent, dirty, evil>>

sys_close(v) ==
    /\ Running /\ held[v] > 0
    /\ held' = [held EXCEPT ![v] = @ - 1] /\ cnt' = vfs_close(v, cnt)
    /\ UNCHANGED <<table, cwd, bootfs, rest, parent, dirty, evil, phase, ret>>

\* The calls on paths; link, symlink and readlink are the kernel's only.
sys_names ==
    /\ Running
    /\ \E p \in Paths :
          \/ \E o \in sys_mkdir(p, cnt) \cup sys_rmdir(p, cnt) \cup sys_remove(p, cnt) : Returns("names", o)
          \/ \E o \in vfs_symlink(p, cnt) \cup vfs_readlink(p, cnt) : Returns("links", o)
          \/ \E q \in NewPaths : \E o \in sys_rename(p, q, cnt) : Returns("names", o)
          \/ \E q \in NewPaths : \E o \in vfs_link(p, q, cnt) : Returns("links", o)
    /\ UNCHANGED <<table, cwd, bootfs, rest, parent, held, dirty, evil>>

sys_chdir(p) ==
    /\ Running
    /\ \E o \in vfs_chdir(p, cnt) : Returns("chdir", o) /\ cwd' = IF o.err = "ok" THEN o.vn ELSE cwd
    /\ UNCHANGED <<table, bootfs, rest, parent, held, dirty, evil>>

sys___getcwd ==
    /\ Running /\ \E o \in vfs_getcwd(cnt) : Returns("getcwd", o)
    /\ UNCHANGED <<table, cwd, bootfs, rest, parent, held, dirty, evil>>

\* A write to a file of the sfs.
sys_write == /\ Running /\ held[<<"sfs", "f">>] > 0 /\ dirty' = TRUE
             /\ UNCHANGED <<names, rest, parent, held, evil, phase, ret>>

\* A program moves about in an open device and transfers one block.
sys_lseek(v, pos) ==
    /\ Running /\ held[v] > 0 /\ IsDev(v)
    /\ ret' = [op |-> "seek", err |-> dev_tryseek(v, pos),
               read |-> dev_read(v, pos, BSIZE).err, next |-> dev_write(v, pos + BSIZE, BSIZE).err, last |-> pos + BSIZE = dev_stat(v).size]
    /\ UNCHANGED <<names, rest, parent, held, dirty, evil, phase>>

\* The program ends and the menu goes on.
sys__exit ==
    /\ Running /\ \A v \in Vnodes : held[v] = 0
    /\ cnt' = IF cwd = None THEN cnt ELSE decref(cnt, cwd)
    /\ cwd' = parent /\ parent' = None /\ phase' = "prompt"
    /\ UNCHANGED <<table, bootfs, rest, held, dirty, evil, ret>>

\* The caller looks at what a call returned.
look == /\ ret # Idle /\ phase # "off" /\ ret' = Idle
        /\ UNCHANGED <<names, rest, parent, held, dirty, evil, phase>>

-----------------------------------------------------------------------------
(* The end.                                                                *)
Sfs == {i \in 1..Len(table) : table[i].raw # None /\ table[i].fs # None}

clear(c, v) == IF v = None THEN c ELSE decref(c, v)

\* MUTANT: the file systems are unmounted while bootfs and cwd are in use.
Cleared_late == cnt
\* vfs_clearbootfs and vfs_clearcurdir come before vfs_unmountall.
Cleared == clear(clear(cnt, bootfs), cwd)

\* vfs_unmountall tries to sync twice, and then gives up; what is busy stays.
unmountall(t) == [i \in 1..Len(t) |-> IF i \in Sfs /\ ~Busy(Cleared, t[i].fs) THEN [t[i] EXCEPT !.fs = None] ELSE t[i]]

\* shutdown and sys_reboot, from the menu's q or by a program.
shutdown ==
    /\ (AtMenu \/ phase = "program") /\ ret = Idle
    /\ cnt' = clear(clear(cnt, bootfs), cwd) /\ bootfs' = None /\ cwd' = None
    /\ \/ table' = unmountall(table) /\ dirty' = FALSE /\ ret' = [op |-> "shutdown", err |-> "ok"]
       \/ UNCHANGED <<table, dirty>> /\ ret' = [op |-> "shutdown", err |-> "fserror"]
    /\ phase' = "off"
    /\ UNCHANGED <<rest, parent, held, evil>>

\* panic: every stage is entered once, also if it panics itself; the disks are
\* synced if that stage gets through.
panic ==
    /\ phase = "panic"
    /\ IF evil < 5 THEN evil' = evil + 1 /\ UNCHANGED phase ELSE phase' = "off" /\ UNCHANGED evil
    /\ dirty' \in {dirty} \cup (IF evil = 3 THEN {FALSE} ELSE {})
    /\ UNCHANGED <<names, rest, parent, held, ret>>

Next ==
    \/ \E b \in BOOLEAN : boot_device(b)
    \/ boot_end \/ cmd_dispatch \/ menu \/ cmd_pwd \/ cmd_sync \/ cmd_panic \/ cmd_prog
    \/ \E p \in Paths : cmd_chdir(p) \/ printfile(p) \/ sys_chdir(p)
    \/ \E n \in DevNames : cmd_mount(n) \/ cmd_unmount(n) \/ cmd_bootfs(n)
    \/ \E p \in Paths, f \in Flags : sys_open(p, f)
    \/ \E v \in Vnodes : sys_close(v)
    \/ \E v \in Vnodes, pos \in -BSIZE..(Blocks + 1) * BSIZE : sys_lseek(v, pos)
    \/ sys_names \/ sys___getcwd \/ sys_write \/ sys__exit \/ look \/ shutdown \/ panic

Spec == Init /\ [][Next]_vars
-----------------------------------------------------------------------------
Is(v, w) == IF v = w THEN 1 ELSE 0

\* Every error path of every operation on names gives back exactly the
\* references it took: a vnode's counts are those of the table, of the current
\* directories, of bootfs_vnode and of the open files.  And no current
\* directory is a device or lost its file system, so that the assertions of
\* getdevice and vfs_getcwd hold.
RefsBalanced ==
    /\ \A v \in Vnodes :
          /\ cnt.ref[v] = Permanent(v) + Is(v, cwd) + Is(v, bootfs) + Is(v, parent) + held[v]
          /\ cnt.opn[v] = held[v]
    /\ ret.err # "assert"

\* When the system is shut down and its disks work, all is written, and a file system stays
\* mounted only if a program has one of its files open or the menu is in it.
ShutdownUnmounts ==
    (ret.op = "shutdown" /\ ret.err = "ok") =>
        /\ ~dirty
        /\ \A i \in Sfs : \E s \in Subs : held[<<table[i].fs, s>>] > 0 \/ parent = <<table[i].fs, s>>

\* A position that lseek accepts on a device can be read, and the block after
\* it written unless it was the last.
SeekableIsReadable ==
    (ret.op = "seek" /\ ret.err = "ok") => ret.read = "ok" /\ (ret.next = "ok" <=> ~ret.last)

\* NOT TRUE: the man pages give each failure of mkdir, rmdir, remove and
\* rename its own error, never ENOSYS.
ErrnoTells == ret.op = "names" => ret.err # "ENOSYS"
=============================================================================
