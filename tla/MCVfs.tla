------------------------------- MODULE MCVfs -------------------------------
(***************************************************************************)
(* The life of one vnode (Vnode) and, in behaviours of its own, mounting   *)
(* and unmounting below the references to vnodes (Vfs).                    *)
(***************************************************************************)
EXTENDS Vnode

CONSTANTS Threads, Disks

VARIABLES model, mounted, klock, big, depth, cwd, bootfs, file, dirty, call, panicked

V == INSTANCE Vfs WITH Volname <- [d \in Disks |-> 10 + d]

\* One thread that walks over two mounted disks.
V2 == INSTANCE Vfs WITH
    Threads <- {CHOOSE t \in Threads : TRUE}, Disks <- {1, 2}, Volname <- <<11, 12>>

ASSUME V!VfsAssumption /\ V2!VfsAssumption

vfsvars == <<mounted, klock, big, depth, cwd, bootfs, file, dirty, call, panicked>>
allvars == <<model, vars, vfsvars>>

MCInit ==
    /\ Init
    /\ \/ model \in {"vnode", "vfs"} /\ V!Init
       \/ model = "disks" /\ V2!Init

MCNext ==
    \/ model = "vnode" /\ Next /\ UNCHANGED <<model, vfsvars>>
    \/ model = "vfs" /\ V!Next /\ UNCHANGED <<model, vars>>
    \/ model = "disks" /\ V2!Next /\ UNCHANGED <<model, vars>>

InVnode(A) == model = "vnode" /\ A /\ UNCHANGED <<model, vfsvars>>

\* The fairness of Vnode's FairSpec.
MCSpec ==
    /\ MCInit /\ [][MCNext]_allvars
    /\ \A r \in Refs : /\ SF_allvars(InVnode(reclaim(r)))
                       /\ WF_allvars(InVnode(reclaim_busy(r) \/ reclaim_last(r)))

\* A file system to which anyone has a reference stays mounted, whatever
\* vfs_unmount and vfs_unmountall do meanwhile; and one that is unmounted has
\* nothing left to write: a change between FSOP_SYNC and FSOP_UNMOUNT ends in
\* sfs_unmount's assertion.
MountedWhileUsed == IF model = "disks" THEN V2!MountedWhileUsed ELSE V!MountedWhileUsed
=============================================================================
