------------------------------- MODULE Vnode -------------------------------
(***************************************************************************)
(* The in-memory life of a vnode (kern/vfs/vnode.c, sfs_loadvnode and      *)
(* sfs_reclaim of kern/fs/sfs, their counterparts of emufs).  The model    *)
(* follows the references to the vnode of one file, each as if in the hand *)
(* of a thread of its own.  vnode_incref and vnode_decref change the count *)
(* under vn_countlock; loadvnode and reclaim run under the VFS big lock.   *)
(* The last reference does not count itself down but goes to VOP_RECLAIM,  *)
(* which may find that loadvnode has handed the vnode out again.           *)
(***************************************************************************)
EXTENDS Integers, FiniteSets

CONSTANTS
    Refs,           \* references
    Fs,             \* "sfs" or "emufs"
    Undisturbed,    \* TRUE: nobody changes the count between reclaim's look
                    \* at it and its change, for which it holds no vn_countlock
    None

ASSUME VnodeAssumption ==
    /\ IsFiniteSet(Refs) /\ None \notin Refs
    /\ Fs \in {"sfs", "emufs"} /\ Undisturbed \in BOOLEAN

VARIABLES
    loaded,         \* the vnode is in the file system's table
    vn_refcount, vn_opencount,
    ref,            \* ref[r]: what has become of a reference
    biglock,        \* the reference in whose reclaim it is held
    count           \* the count as reclaim saw it

vars == <<loaded, vn_refcount, vn_opencount, ref, biglock, count>>

\* "held" by a client, "open" as well as held; "reclaim" on its way into
\* VOP_RECLAIM, "busy" and "last" in it.
States == {"none", "held", "open", "reclaim", "busy", "last"}

Init ==
    /\ loaded = FALSE
    /\ vn_refcount = 0 /\ vn_opencount = 0
    /\ ref = [r \in Refs |-> "none"]
    /\ biglock = None
    /\ count = 0

TypeOK ==
    /\ loaded \in BOOLEAN
    /\ vn_refcount \in Nat /\ vn_opencount \in Nat
    /\ ref \in [Refs -> States]
    /\ biglock \in Refs \cup {None}
    /\ count \in Nat

Held == {r \in Refs : ref[r] \in {"held", "open"}}
Live == {r \in Refs : ref[r] # "none"}
Open == {r \in Refs : ref[r] = "open"}
Quiet == Undisturbed => \A r \in Refs : ref[r] # "busy"
Becomes(r, s) == ref' = [ref EXCEPT ![r] = s]

-----------------------------------------------------------------------------
\* MUTANT: a vnode found in the table is handed out without vnode_incref.
loadvnode_noref(r) ==
    /\ biglock = None /\ ref[r] = "none"
    /\ loaded' = TRUE
    /\ vn_refcount' = IF loaded THEN vn_refcount ELSE 1
    /\ vn_opencount' = IF loaded THEN vn_opencount ELSE 0
    /\ Becomes(r, "held")
    /\ UNCHANGED <<biglock, count>>

\* loadvnode, under the big lock: the vnode in the table, or a new one.
loadvnode(r) ==
    /\ biglock = None /\ ref[r] = "none"
    /\ loaded' = TRUE
    /\ vn_refcount' = IF loaded THEN vn_refcount + 1 ELSE 1
    /\ vn_opencount' = IF loaded THEN vn_opencount ELSE 0
    /\ Becomes(r, "held")
    /\ UNCHANGED <<biglock, count>>

\* A holder makes another reference; no big lock.
vnode_incref(r) ==
    /\ Quiet /\ Held # {} /\ ref[r] = "none"
    /\ vn_refcount' = vn_refcount + 1
    /\ Becomes(r, "held")
    /\ UNCHANGED <<loaded, vn_opencount, biglock, count>>

vnode_incopen(r) ==
    /\ ref[r] = "held"
    /\ vn_opencount' = vn_opencount + 1
    /\ Becomes(r, "open")
    /\ UNCHANGED <<loaded, vn_refcount, biglock, count>>

vnode_decopen(r) ==
    /\ ref[r] = "open"
    /\ vn_opencount' = vn_opencount - 1
    /\ Becomes(r, "held")
    /\ UNCHANGED <<loaded, vn_refcount, biglock, count>>

\* vnode_decref up to the release of vn_countlock.
vnode_decref(r) ==
    /\ Quiet /\ ref[r] = "held"
    /\ vn_refcount' = IF vn_refcount > 1 THEN vn_refcount - 1 ELSE vn_refcount
    /\ Becomes(r, IF vn_refcount > 1 THEN "none" ELSE "reclaim")
    /\ UNCHANGED <<loaded, vn_opencount, biglock, count>>

\* MUTANT: reclaim does not look whether the vnode is in use again.
reclaim_nocheck(r) ==
    /\ ref[r] = "reclaim" /\ biglock = None
    /\ biglock' = r
    /\ count' = vn_refcount
    /\ Becomes(r, "last")
    /\ UNCHANGED <<loaded, vn_refcount, vn_opencount>>

\* VOP_RECLAIM: the big lock, and is it still the last?
reclaim(r) ==
    /\ ref[r] = "reclaim" /\ biglock = None
    /\ biglock' = r
    /\ count' = vn_refcount
    /\ Becomes(r, IF vn_refcount # 1 THEN "busy" ELSE "last")
    /\ UNCHANGED <<loaded, vn_refcount, vn_opencount>>

\* MUTANT: reclaim tries again until it succeeds.
reclaim_busy_retry(r) ==
    /\ ref[r] = "busy"
    /\ Becomes(r, "reclaim")
    /\ biglock' = None /\ count' = 0
    /\ UNCHANGED <<loaded, vn_opencount, vn_refcount>>

\* EBUSY.  sfs_reclaim counts its reference down, starting from the count as
\* it is or as it was; emufs_reclaim forgets its reference.
reclaim_busy(r) ==
    /\ ref[r] = "busy"
    /\ vn_refcount' \in IF Fs = "emufs" THEN {vn_refcount} ELSE {vn_refcount - 1, count - 1}
    /\ Becomes(r, "none")
    /\ biglock' = None /\ count' = 0
    /\ UNCHANGED <<loaded, vn_opencount>>

\* The vnode leaves the table; VOP_CLEANUP.
reclaim_last(r) ==
    /\ ref[r] = "last"
    /\ loaded' = FALSE
    /\ vn_refcount' = 0 /\ vn_opencount' = 0
    /\ Becomes(r, "none")
    /\ biglock' = None /\ count' = 0

Next ==
    \E r \in Refs :
        \/ loadvnode(r) \/ vnode_incref(r) \/ vnode_incopen(r) \/ vnode_decopen(r)
        \/ vnode_decref(r) \/ reclaim(r) \/ reclaim_busy(r) \/ reclaim_last(r)

Spec == Init /\ [][Next]_vars

\* A thread in vnode_decref finishes it, and gets the big lock in the end.
FairSpec ==
    Spec /\ \A r \in Refs : SF_vars(reclaim(r)) /\ WF_vars(reclaim_busy(r) \/ reclaim_last(r))

-----------------------------------------------------------------------------
\* The counts are exact while the vnode is in memory: every reference held by
\* a client or on its way through VOP_RECLAIM counts once, also the one that
\* loadvnode gives out between the decision to reclaim and the reclaim.
CountsExact ==
    /\ vn_refcount = Cardinality(Live)
    /\ vn_opencount = Cardinality(Open)

\* A vnode is not cleaned up under somebody who holds it: who holds a
\* reference has a loaded vnode.
NoDanglingReference == Held # {} => loaded

\* vnode_cleanup's assertions: refcount 1, opencount 0.
CleanupAsserts == \A r \in Refs : ref[r] = "last" => vn_refcount = 1 /\ vn_opencount = 0

\* sfs_reclaim's assertion: a vnode that is in use again has another reference.
BusyAssert == \A r \in Refs : ref[r] = "busy" => vn_refcount > 1

\* VOP_RECLAIM is "called when vnode is no longer in use" (vnode.h): a vnode
\* to which there is no reference is not in memory.
UnusedIsReclaimed == Live = {} => ~loaded

\* A reference that is given up is gone in the end.
ReclaimEnds == \A r \in Refs : ref[r] = "reclaim" ~> ref[r] = "none"
=============================================================================
