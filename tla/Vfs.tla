-------------------------------- MODULE Vfs --------------------------------
(***************************************************************************)
(* The table of devices and mounted file systems (kern/vfs/vfslist.c),     *)
(* path translation from a device name, the current directory and the boot *)
(* file system (vfslookup.c, vfscwd.c), and how SFS mounts, syncs and      *)
(* unmounts (kern/fs/sfs/sfs_fs.c).  Two locks: knowndevs_lock, and the    *)
(* recursive vfs_biglock.                                                  *)
(***************************************************************************)
EXTENDS Integers, FiniteSets, FiniteSetsExt

CONSTANTS
    Threads,
    Disks,          \* mountable devices, numbers from 1
    Volname         \* Volname[d]: the volume name on disk d

Emu == 0            \* emu0: a file system that is always there
Nobody == "nobody"
Devs == Disks \cup {Emu}
NoFs == -1

VfsAssumption == Disks \subseteq Nat \ {0} /\ IsFiniteSet(Disks) /\ Nobody \notin Threads

VARIABLES
    mounted,        \* disks with kd_fs set
    klock,          \* owner of knowndevs_lock
    big, depth,     \* owner and depth of vfs_biglock
    cwd,            \* t_cwd: the file system whose root it is, or NoFs
    bootfs,         \* bootfs_vnode, likewise
    file,           \* a file or directory a thread has a reference to
    dirty,          \* disks whose free map has to be written
    call,           \* the call a thread is in
    panicked

vars == <<mounted, klock, big, depth, cwd, bootfs, file, dirty, call, panicked>>
locks == <<klock, big, depth>>
refs == <<cwd, bootfs, file>>

Idle == [op |-> "idle", at |-> "idle", dev |-> Emu, todo |-> {}]
Names == Devs \cup {Volname[d] : d \in Disks}

Init ==
    /\ mounted = {}
    /\ klock = Nobody /\ big = Nobody /\ depth = 0
    /\ cwd = [t \in Threads |-> Emu] /\ bootfs = Emu /\ file = [t \in Threads |-> NoFs]
    /\ dirty = {}
    /\ call = [t \in Threads |-> Idle]
    /\ panicked = FALSE

TypeOK ==
    /\ mounted \subseteq Disks /\ dirty \subseteq Disks
    /\ klock \in Threads \cup {Nobody} /\ big \in Threads \cup {Nobody} /\ depth \in 0..2
    /\ cwd \in [Threads -> Devs \cup {NoFs}] /\ bootfs \in Devs \cup {NoFs}
    /\ file \in [Threads -> Devs \cup {NoFs}]
    /\ \A t \in Threads : call[t].at \in {"idle", "getdevice", "changeboot", "reclaim", "mount", "sync", "unmount"}
    /\ panicked \in BOOLEAN

-----------------------------------------------------------------------------
\* vfs_biglock_acquire by t; a caller may hold it already.
BigFor(t) == big \in {Nobody, t}

\* Taking and giving back the big lock within one step.
BigPassed(t) == BigFor(t) /\ UNCHANGED <<big, depth>>

\* vfs_biglock_release: the lock is free once every acquire is undone.
BigReleased(t) ==
    /\ depth' = depth - 1
    /\ big' = IF depth = 1 THEN Nobody ELSE t

Begin(t, op, at, d, todo) ==
    /\ call[t] = Idle /\ ~panicked
    /\ call' = [call EXCEPT ![t] = [op |-> op, at |-> at, dev |-> d, todo |-> todo]]
Ends(t) == call' = [call EXCEPT ![t] = Idle]

\* vfs_lookup or vfs_lookparent of "device:path" for an open, a chdir or a
\* setbootfs (which takes the big lock around its chdir), and vfs_getcwd: up to
\* knowndevs_lock.
vfs_lookup(t, op, n) ==
    /\ Begin(t, op, "getdevice", n, {})
    /\ op = "open" => file[t] = NoFs
    /\ op = "getcwd" => n = Emu /\ cwd[t] = Emu      \* no volume name there
    /\ big = Nobody /\ big' = t
    /\ depth' = IF op = "bootfs" THEN 2 ELSE 1
    /\ UNCHANGED <<mounted, klock, refs, dirty, panicked>>

\* What vfs_getroot finds under a name: the first device with a file system
\* that has the name as its own or as its volume name.
Found(n) == {d \in mounted : d = n \/ Volname[d] = n} \cup ({Emu} \cap {n})

\* MUTANT: an unmounted device is found as well.
getroot_disk(n) == IF n \in Devs THEN n ELSE IF Found(n) = {} THEN NoFs ELSE Min(Found(n))

getroot(n) == IF Found(n) = {} THEN NoFs ELSE Min(Found(n))

\* vfs_getroot (vfs_getdevname) under knowndevs_lock, the rest of the lookup,
\* and the release of the big lock.  A new current directory drops the old one.
vfs_getroot(t) ==
    LET op == call[t].op
        d == getroot(call[t].dev)
        next == CASE op = "chdir" /\ d # NoFs -> [call[t] EXCEPT !.at = "reclaim", !.dev = cwd[t]]
                  [] op = "bootfs" -> [call[t] EXCEPT !.at = "changeboot", !.dev = IF d = NoFs THEN bootfs ELSE d]
                  [] OTHER -> Idle
    IN  /\ call[t].at = "getdevice" /\ klock = Nobody /\ ~panicked
        /\ call' = [call EXCEPT ![t] = next]
        /\ BigReleased(t)
        /\ file' = IF op = "open" THEN [file EXCEPT ![t] = d] ELSE file
        /\ cwd' = IF op \in {"chdir", "bootfs"} /\ d # NoFs THEN [cwd EXCEPT ![t] = d] ELSE cwd
        /\ UNCHANGED <<mounted, klock, bootfs, dirty, panicked>>

\* vfs_setbootfs after its chdir: the new current directory is the boot file
\* system (if there is one under that name), and the big lock is released.
change_bootfs(t) ==
    /\ call[t].at = "changeboot" /\ ~panicked
    /\ bootfs' = call[t].dev
    /\ BigReleased(t) /\ Ends(t)
    /\ UNCHANGED <<mounted, klock, cwd, file, dirty, panicked>>

\* Relative paths, "/path" and ":path": no device name, no knowndevs_lock.
vfs_lookup_relative(t) ==
    /\ call[t] = Idle /\ ~panicked /\ BigPassed(t) /\ file[t] = NoFs
    /\ \E d \in {cwd[t], bootfs} \ {NoFs} : file' = [file EXCEPT ![t] = d]
    /\ UNCHANGED <<mounted, klock, cwd, bootfs, dirty, call, panicked>>

\* VOP_DECREF of a file (vfs_close, or the end of vfs_remove and the like), of
\* the current directory, or of bootfs_vnode.
decref(t) ==
    /\ \/ Begin(t, "close", "reclaim", file[t], {}) /\ file[t] # NoFs
          /\ file' = [file EXCEPT ![t] = NoFs] /\ UNCHANGED <<cwd, bootfs>>
       \/ Begin(t, "clearcurdir", "reclaim", cwd[t], {}) /\ cwd[t] # NoFs
          /\ cwd' = [cwd EXCEPT ![t] = NoFs] /\ UNCHANGED <<file, bootfs>>
       \/ Begin(t, "clearbootfs", "reclaim", bootfs, {}) /\ bootfs # NoFs /\ BigFor(t)
          /\ bootfs' = NoFs /\ UNCHANGED <<file, cwd>>
    /\ UNCHANGED <<mounted, locks, dirty, panicked>>

\* The vnode leaves sfs_vnodes, under the big lock.
sfs_reclaim(t) ==
    /\ call[t].at = "reclaim" /\ BigPassed(t) /\ ~panicked
    /\ Ends(t)
    /\ UNCHANGED <<mounted, klock, refs, dirty, panicked>>

\* A write, mkdir, remove... through a reference: the free map changes, also
\* while an unmount is between its sync and its look at the vnodes.
modify(t) ==
    /\ call[t] = Idle /\ file[t] \in Disks /\ ~panicked
    /\ dirty' = dirty \cup {file[t]}
    /\ UNCHANGED <<mounted, locks, refs, call, panicked>>

-----------------------------------------------------------------------------
\* vfs_mount up to the call of sfs_domount; EBUSY if there is a file system.
vfs_mount(t, d) ==
    /\ Begin(t, "mount", "mount", d, {}) /\ d \notin mounted
    /\ klock = Nobody /\ klock' = t
    /\ UNCHANGED <<mounted, big, depth, refs, dirty, panicked>>

\* sfs_domount, which may fail, and the rest of vfs_mount.
sfs_domount(t) ==
    /\ call[t].at = "mount" /\ BigPassed(t) /\ ~panicked
    /\ mounted' \in {mounted, mounted \cup {call[t].dev}}
    /\ klock' = Nobody /\ Ends(t)
    /\ UNCHANGED <<refs, dirty, panicked>>

\* vfs_sync, vfs_unmount (one disk) and vfs_unmountall take knowndevs_lock for
\* all they do.
table_walk(t, op, ds) ==
    /\ Begin(t, op, "sync", Emu, ds)
    /\ klock = Nobody /\ klock' = t
    /\ UNCHANGED <<mounted, big, depth, refs, dirty, panicked>>

Skip(t, todo) ==
    IF todo = {} THEN Ends(t) /\ klock' = Nobody
    ELSE call' = [call EXCEPT ![t].at = "sync", ![t].todo = todo] /\ UNCHANGED klock

\* FSOP_SYNC of the next file system of the walk.
sfs_sync(t) ==
    LET d == Min(call[t].todo) IN
    /\ call[t].at = "sync" /\ BigPassed(t) /\ ~panicked
    /\ dirty' = dirty \ {d}
    /\ IF call[t].op = "sync" THEN Skip(t, call[t].todo \ {d})
       ELSE call' = [call EXCEPT ![t].at = "unmount"] /\ UNCHANGED klock
    /\ UNCHANGED <<mounted, refs, panicked>>

\* The vnodes of a disk in sfs_vnodes: references, and those being dropped.
Loaded(d) ==
    \/ \E t \in Threads : cwd[t] = d \/ file[t] = d \/ (call[t].at = "reclaim" /\ call[t].dev = d)
    \/ bootfs = d

\* MUTANT: open files are not looked for.
sfs_unmount_busy(t) ==
    LET d == Min(call[t].todo) IN
    /\ call[t].at = "unmount" /\ BigPassed(t) /\ ~panicked
    /\ Skip(t, call[t].todo \ {d})
    /\ mounted' = mounted \ {d}
    /\ UNCHANGED <<refs, dirty, panicked>>

\* FSOP_UNMOUNT: EBUSY while a vnode is loaded; then it asserts that sfs_sync
\* has left nothing to write, and the file system is dropped.
sfs_unmount(t) ==
    LET d == Min(call[t].todo) IN
    /\ call[t].at = "unmount" /\ BigPassed(t) /\ ~panicked
    /\ IF ~Loaded(d) /\ d \in dirty
       THEN panicked' = TRUE /\ UNCHANGED <<mounted, klock, call>>
       ELSE /\ Skip(t, call[t].todo \ {d})
            /\ mounted' = IF Loaded(d) THEN mounted ELSE mounted \ {d}
            /\ UNCHANGED panicked
    /\ UNCHANGED <<refs, dirty>>

Next ==
    \E t \in Threads :
        \/ \E op \in {"open", "chdir", "bootfs", "getcwd"}, n \in Names : vfs_lookup(t, op, n)
        \/ vfs_getroot(t)
        \/ change_bootfs(t)
        \/ vfs_lookup_relative(t)
        \/ decref(t)
        \/ sfs_reclaim(t)
        \/ modify(t)
        \/ \E d \in Disks : vfs_mount(t, d)
        \/ sfs_domount(t)
        \/ mounted # {} /\ table_walk(t, "sync", mounted)
        \/ \E d \in mounted : table_walk(t, "unmount", {d})
        \/ mounted # {} /\ table_walk(t, "unmountall", mounted)
        \/ sfs_sync(t)
        \/ sfs_unmount(t)

Spec == Init /\ [][Next]_vars

-----------------------------------------------------------------------------
\* A file system to which anyone has a reference stays mounted ("as long as the
\* guy calling us holds a reference to the fs, the fs cannot go away",
\* vfs_getdevname), whatever is unmounted meanwhile.
RefKeepsFs ==
    \A d \in Disks : Loaded(d) => d \in mounted

\* When a file system is gone its free map has been written: a change between
\* FSOP_SYNC and FSOP_UNMOUNT ends in sfs_unmount's assertion.
UnmountedClean == dirty \subseteq mounted

\* Nothing that is referred to is unmounted, and nothing unmounted is left to
\* write, whatever vfs_unmount and vfs_unmountall do meanwhile.
MountedWhileUsed == TypeOK /\ RefKeepsFs /\ UnmountedClean

\* sfs_unmount's assertions: nothing is dirty right after sfs_sync.
UnmountAssert == ~panicked

\* The two locks are never waited for in a circle: nobody waits for the big
\* lock with knowndevs_lock held while its owner waits for knowndevs_lock.
NoLockCycle ==
    \A t, u \in Threads : klock = t /\ big = u /\ call[t].at \in {"mount", "sync", "unmount"} =>
        call[u].at # "getdevice"

\* No two mounted file systems have the same name.
VolumesDiffer == \A d, e \in mounted : Volname[d] = Volname[e] => d = e
=============================================================================
