---------------------------- MODULE VnodeProofs ----------------------------
(***************************************************************************)
(* Proofs for Vnode, for any finite set of references: with sfs_reclaim    *)
(* undisturbed between its look at vn_refcount and its change, the counts  *)
(* are exact and no vnode is cleaned up under a holder.  And for Vfs, for  *)
(* any threads and disks: a file system that is referred to stays mounted. *)
(***************************************************************************)
EXTENDS Vnode, FiniteSetTheorems, WellFoundedInduction, TLAPS

CONSTANTS Threads, Disks, Volname
VARIABLES mounted, klock, big, depth, cwd, bootfs, file, dirty, call, panicked

V == INSTANCE Vfs

\* What holds of the references themselves: the big lock is held in reclaim
\* and nowhere else, what reclaim saw is still so, and the vnode is in memory
\* as long as anything refers to it.
RefsOK ==
    /\ \A r \in Refs : biglock = r <=> ref[r] \in {"busy", "last"}
    /\ \A r \in Refs : ref[r] = "busy" => count = vn_refcount /\ vn_refcount > 1
    /\ \A r \in Refs : ref[r] = "last" => Live = {r}
    /\ loaded <=> Live # {}

IInv == TypeOK /\ CountsExact /\ RefsOK

\* Live and Open are finite, so that their cardinalities are numbers.
LEMMA Finite ==
    /\ IsFiniteSet(Live) /\ Cardinality(Live) \in Nat
    /\ IsFiniteSet(Open) /\ Cardinality(Open) \in Nat
<1>1. Live \subseteq Refs /\ Open \subseteq Refs  BY DEF Live, Open
<1>2. IsFiniteSet(Live) /\ IsFiniteSet(Open)  BY <1>1, FS_Subset, VnodeAssumption
<1> QED  BY <1>2, FS_CardinalityType

\* A reference that comes into being counts once more.
LEMMA Grows ==
    ASSUME TypeOK, NEW r \in Refs, ref[r] = "none", ref' = [ref EXCEPT ![r] = "held"]
    PROVE  /\ Live' = Live \cup {r} /\ Open' = Open
           /\ Cardinality(Live') = Cardinality(Live) + 1
           /\ Cardinality(Open') = Cardinality(Open)
<1>1. \A x \in Refs : ref'[x] = IF x = r THEN "held" ELSE ref[x]  BY DEF TypeOK
<1>2. Live' = Live \cup {r} /\ r \notin Live  BY <1>1 DEF Live
<1>3. Open' = Open  BY <1>1 DEF Open
<1> QED  BY <1>2, <1>3, Finite, FS_AddElement, Zenon

\* One that ends, and was not open, counts no more.
LEMMA Shrinks ==
    ASSUME TypeOK, NEW r \in Refs, ref[r] \notin {"none", "open"}, ref' = [ref EXCEPT ![r] = "none"]
    PROVE  /\ Live' = Live \ {r} /\ r \in Live /\ Open' = Open
           /\ Cardinality(Live') = Cardinality(Live) - 1
           /\ Cardinality(Open') = Cardinality(Open)
<1>1. \A x \in Refs : ref'[x] = IF x = r THEN "none" ELSE ref[x]  BY DEF TypeOK
<1>2. Live' = Live \ {r} /\ r \in Live  BY <1>1 DEF Live
<1>3. Open' = Open  BY <1>1 DEF Open
<1>4. Cardinality(Live \ {r}) = Cardinality(Live) - 1  BY <1>2, Finite, FS_RemoveElement, Zenon
<1> QED  BY <1>2, <1>3, <1>4

\* One that goes from one state of being alive to another, neither of them
\* open, changes no count.
LEMMA Moves ==
    ASSUME TypeOK, NEW r \in Refs, NEW s \in {"reclaim", "busy", "last"},
           ref[r] \notin {"none", "open"}, ref' = [ref EXCEPT ![r] = s]
    PROVE  Live' = Live /\ Open' = Open
<1>1. \A x \in Refs : ref'[x] = IF x = r THEN s ELSE ref[x]  BY DEF TypeOK
<1>2. Live' = Live  BY <1>1 DEF Live
<1> QED  BY <1>1, <1>2 DEF Open

\* A count of one means a single reference.
LEMMA OnlyOne ==
    ASSUME IInv, vn_refcount = 1, NEW r \in Refs, r \in Live
    PROVE  Live = {r}
<1>1. PICK x : Live = {x}  BY Finite, FS_Singleton, Zenon DEF IInv, CountsExact
<1> QED  BY <1>1

\* No vnode is in memory at first.
LEMMA InitIInv == Init => IInv
<1> SUFFICES ASSUME Init PROVE IInv  OBVIOUS
<1>1. Live = {} /\ Open = {}  BY DEF Init, Live, Open
<1>2. TypeOK  BY Zenon DEF Init, TypeOK, States
<1>3. CountsExact  BY <1>1, FS_EmptySet DEF Init, CountsExact
<1>4. RefsOK  BY <1>1, VnodeAssumption DEF Init, RefsOK
<1> QED  BY <1>2, <1>3, <1>4 DEF IInv
\* Every step of sfs_loadvnode, vnode.c and sfs_reclaim preserves it.
LEMMA NextIInv ==
    ASSUME Fs = "sfs", Undisturbed, IInv, [Next]_vars
    PROVE  IInv'
<1> USE DEF IInv
<1>n. Cardinality(Live) \in Nat /\ Cardinality(Open) \in Nat  BY Finite
<1>l. \A x \in Refs : x \in Live <=> ref[x] # "none"  BY DEF Live
<1>o. Open \subseteq Live  BY DEF Open, Live
<1>1. ASSUME NEW r \in Refs, loadvnode(r)  PROVE IInv'
  <2>1. /\ Live' = Live \cup {r} /\ Open' = Open
        /\ Cardinality(Live') = Cardinality(Live) + 1
        /\ Cardinality(Open') = Cardinality(Open)
    BY <1>1, Grows, Zenon DEF loadvnode, Becomes
  <2>2. ~loaded => Cardinality(Live) = 0 /\ Cardinality(Open) = 0
    BY <1>o, FS_EmptySet DEF RefsOK
  <2>3. TypeOK'  BY <1>1 DEF loadvnode, Becomes, TypeOK, States
  <2>4. CountsExact'  BY <1>1, <1>n, <2>1, <2>2 DEF loadvnode, CountsExact
  <2>5. \A x \in Refs : ref'[x] = IF x = r THEN "held" ELSE ref[x]
    BY <1>1 DEF loadvnode, Becomes, TypeOK
  <2>6. \A x \in Refs : ref[x] \notin {"busy", "last"}
    BY <1>1, VnodeAssumption DEF loadvnode, RefsOK
  <2>7. RefsOK'  BY <1>1, <2>1, <2>5, <2>6, VnodeAssumption DEF loadvnode, RefsOK
  <2> QED  BY <2>3, <2>4, <2>7
<1>2. ASSUME NEW r \in Refs, vnode_incref(r)  PROVE IInv'
  <2>1. /\ Live' = Live \cup {r} /\ Open' = Open
        /\ Cardinality(Live') = Cardinality(Live) + 1
        /\ Cardinality(Open') = Cardinality(Open)
    BY <1>2, Grows, Zenon DEF vnode_incref, Becomes
  <2>2. PICK h \in Refs : ref[h] \in {"held", "open"}  BY <1>2 DEF vnode_incref, Held
  <2>3. TypeOK'  BY <1>2 DEF vnode_incref, Becomes, TypeOK, States
  <2>4. CountsExact'  BY <1>2, <1>n, <2>1 DEF vnode_incref, CountsExact
  <2>5. \A x \in Refs : ref'[x] = IF x = r THEN "held" ELSE ref[x]
    BY <1>2 DEF vnode_incref, Becomes, TypeOK
  <2>6. \A x \in Refs : ref[x] \notin {"busy", "last"}
    <3>1. \A x \in Refs : ref[x] # "busy"  BY <1>2 DEF vnode_incref, Quiet
    <3>2. \A x \in Refs : ref[x] # "last"  BY <1>l, <2>2 DEF RefsOK
    <3> QED  BY <3>1, <3>2
  <2>7. loaded  BY <1>l, <2>2 DEF RefsOK
  <2>8. RefsOK'  BY <1>2, <2>1, <2>5, <2>6, <2>7 DEF vnode_incref, RefsOK
  <2> QED  BY <2>3, <2>4, <2>8
<1>3. ASSUME NEW r \in Refs, vnode_incopen(r)  PROVE IInv'
  <2>1. \A x \in Refs : ref'[x] = IF x = r THEN "open" ELSE ref[x]
    BY <1>3 DEF vnode_incopen, Becomes, TypeOK
  <2>2. Live' = Live  BY <1>3, <2>1 DEF Live, vnode_incopen
  <2>3. Open' = Open \cup {r} /\ r \notin Open  BY <1>3, <2>1 DEF Open, vnode_incopen
  <2>4. Cardinality(Open') = Cardinality(Open) + 1  BY <2>3, Finite, FS_AddElement, Zenon
  <2>5. TypeOK'  BY <1>3 DEF vnode_incopen, Becomes, TypeOK, States
  <2>6. CountsExact'  BY <1>3, <1>n, <2>2, <2>4 DEF vnode_incopen, CountsExact
  <2>7. RefsOK'  BY <1>3, <2>1, <2>2 DEF vnode_incopen, RefsOK
  <2> QED  BY <2>5, <2>6, <2>7
<1>4. ASSUME NEW r \in Refs, vnode_decopen(r)  PROVE IInv'
  <2>1. \A x \in Refs : ref'[x] = IF x = r THEN "held" ELSE ref[x]
    BY <1>4 DEF vnode_decopen, Becomes, TypeOK
  <2>2. Live' = Live  BY <1>4, <2>1 DEF Live, vnode_decopen
  <2>3. Open' = Open \ {r} /\ r \in Open  BY <1>4, <2>1 DEF Open, vnode_decopen
  <2>4. Cardinality(Open') = Cardinality(Open) - 1  BY <2>3, Finite, FS_RemoveElement, Zenon
  <2>5. Cardinality(Open') \in Nat
    <3>1. IsFiniteSet(Open')  BY <2>3, Finite, FS_RemoveElement
    <3> QED  BY <3>1, FS_CardinalityType
  <2>6. CountsExact'  BY <1>4, <1>n, <2>2, <2>4 DEF vnode_decopen, CountsExact
  <2>7. TypeOK'  BY <1>4, <2>5, <2>6 DEF vnode_decopen, Becomes, TypeOK, States, CountsExact
  <2>8. RefsOK'  BY <1>4, <2>1, <2>2 DEF vnode_decopen, RefsOK
  <2> QED  BY <2>6, <2>7, <2>8
<1>5. ASSUME NEW r \in Refs, vnode_decref(r), vn_refcount > 1  PROVE IInv'
  <2>1. /\ Live' = Live \ {r} /\ r \in Live /\ Open' = Open
        /\ Cardinality(Live') = Cardinality(Live) - 1
        /\ Cardinality(Open') = Cardinality(Open)
    BY <1>5, Shrinks, Zenon DEF vnode_decref, Becomes
  <2>2. TypeOK'  BY <1>5 DEF vnode_decref, Becomes, TypeOK, States
  <2>3. CountsExact'  BY <1>5, <1>n, <2>1 DEF vnode_decref, CountsExact
  <2>4. \A x \in Refs : ref'[x] = IF x = r THEN "none" ELSE ref[x]
    BY <1>5 DEF vnode_decref, Becomes, TypeOK
  <2>5. \A x \in Refs : ref[x] # "busy"  BY <1>5 DEF vnode_decref, Quiet
  <2>6. \A x \in Refs : ref[x] # "last"  BY <1>5, <2>1 DEF vnode_decref, RefsOK
  <2>7. Live' # {}
    BY <1>5, <1>n, <2>1, FS_EmptySet DEF CountsExact
  <2>8. loaded' <=> Live' # {}  BY <1>5, <2>1, <2>7 DEF vnode_decref, RefsOK
  <2>9. RefsOK'  BY <1>5, <2>4, <2>5, <2>6, <2>8 DEF vnode_decref, RefsOK
  <2> QED  BY <2>2, <2>3, <2>9
<1>6. ASSUME NEW r \in Refs, vnode_decref(r), ~(vn_refcount > 1)  PROVE IInv'
  <2>1. ref' = [ref EXCEPT ![r] = "reclaim"] /\ UNCHANGED <<loaded, vn_refcount, vn_opencount, biglock, count>>
    BY <1>6 DEF vnode_decref, Becomes
  <2>2. Live' = Live /\ Open' = Open  BY <1>6, <2>1, Moves, Zenon DEF vnode_decref
  <2>3. \A x \in Refs : ref'[x] = IF x = r THEN "reclaim" ELSE ref[x]  BY <2>1 DEF TypeOK
  <2>4. TypeOK'  BY <2>1 DEF TypeOK, States
  <2>5. CountsExact'  BY <2>1, <2>2 DEF CountsExact
  <2>6. RefsOK'  BY <1>6, <2>1, <2>2, <2>3 DEF RefsOK, vnode_decref
  <2> QED  BY <2>4, <2>5, <2>6
<1>7. ASSUME NEW r \in Refs, reclaim(r)  PROVE IInv'
  <2> DEFINE s == IF vn_refcount # 1 THEN "busy" ELSE "last"
  <2>1. /\ ref' = [ref EXCEPT ![r] = s] /\ biglock' = r /\ count' = vn_refcount
        /\ UNCHANGED <<loaded, vn_refcount, vn_opencount>>
    BY <1>7 DEF reclaim, Becomes
  <2>2. Live' = Live /\ Open' = Open  BY <1>7, <2>1, Moves, Zenon DEF reclaim
  <2>3. \A x \in Refs : ref'[x] = IF x = r THEN s ELSE ref[x]  BY <2>1 DEF TypeOK
  <2>4. \A x \in Refs : ref[x] \notin {"busy", "last"}
    BY <1>7, VnodeAssumption DEF reclaim, RefsOK
  <2>5. r \in Live  BY <1>7, <1>l DEF reclaim
  <2>6. vn_refcount # 1 => vn_refcount > 1
    BY <1>n, <2>5, Finite, FS_EmptySet DEF CountsExact
  <2>7. vn_refcount = 1 => Live = {r}  BY <2>5, OnlyOne
  <2>8. TypeOK'  BY <2>1 DEF TypeOK, States
  <2>9. CountsExact'  BY <2>1, <2>2 DEF CountsExact
  <2>10. RefsOK'  BY <2>1, <2>2, <2>3, <2>4, <2>6, <2>7 DEF RefsOK
  <2> QED  BY <2>8, <2>9, <2>10
<1>8. ASSUME NEW r \in Refs, reclaim_busy(r)  PROVE IInv'
  <2>1. /\ Live' = Live \ {r} /\ r \in Live /\ Open' = Open
        /\ Cardinality(Live') = Cardinality(Live) - 1
        /\ Cardinality(Open') = Cardinality(Open)
    BY <1>8, Shrinks, Zenon DEF reclaim_busy, Becomes
  <2>2. vn_refcount' = vn_refcount - 1 /\ vn_refcount > 1  BY <1>8 DEF reclaim_busy, RefsOK
  <2>3. TypeOK'  BY <1>8, <2>2 DEF reclaim_busy, Becomes, TypeOK, States
  <2>4. CountsExact'  BY <1>8, <1>n, <2>1, <2>2 DEF reclaim_busy, CountsExact
  <2>5. \A x \in Refs : ref'[x] = IF x = r THEN "none" ELSE ref[x]
    BY <1>8 DEF reclaim_busy, Becomes, TypeOK
  <2>6. \A x \in Refs : x # r => ref[x] \notin {"busy", "last"}
    BY <1>8 DEF reclaim_busy, RefsOK
  <2>7. Live' # {}  BY <1>n, <2>1, <2>2, FS_EmptySet DEF CountsExact
  <2>8. loaded' <=> Live' # {}  BY <1>8, <2>1, <2>7 DEF reclaim_busy, RefsOK
  <2>9. RefsOK'  BY <1>8, <2>5, <2>6, <2>8, VnodeAssumption DEF reclaim_busy, RefsOK
  <2> QED  BY <2>3, <2>4, <2>9
<1>9. ASSUME NEW r \in Refs, reclaim_last(r)  PROVE IInv'
  <2>1. Live' = Live \ {r} /\ Open' = Open  BY <1>9, Shrinks, Zenon DEF reclaim_last, Becomes
  <2>2. Live = {r}  BY <1>9 DEF reclaim_last, RefsOK
  <2>3. Live' = {} /\ Open' = {}  BY <1>9, <1>o, <2>1, <2>2 DEF Open, reclaim_last
  <2>4. TypeOK'  BY <1>9, Zenon DEF reclaim_last, Becomes, TypeOK, States
  <2>5. CountsExact'  BY <1>9, <2>3, FS_EmptySet DEF reclaim_last, CountsExact
  <2>6. \A x \in Refs : ref'[x] = "none"
    BY <1>9, <1>l, <2>2 DEF reclaim_last, Becomes, TypeOK
  <2>7. RefsOK'  BY <1>9, <2>3, <2>6, VnodeAssumption DEF reclaim_last, RefsOK
  <2> QED  BY <2>4, <2>5, <2>7
<1>10. CASE UNCHANGED vars
  BY <1>10 DEF vars, TypeOK, CountsExact, RefsOK, Live, Open
<1> QED
  BY <1>1, <1>2, <1>3, <1>4, <1>5, <1>6, <1>7, <1>8, <1>9, <1>10 DEF Next

\* What clients and vnode_cleanup rely on follows from it.
LEMMA IInvImplies == IInv => CountsExact /\ NoDanglingReference /\ CleanupAsserts /\ BusyAssert /\ UnusedIsReclaimed
<1> SUFFICES ASSUME IInv PROVE CountsExact /\ NoDanglingReference /\ CleanupAsserts /\ BusyAssert /\ UnusedIsReclaimed
  OBVIOUS
<1>1. Held \subseteq Live /\ Open \subseteq Live  BY DEF Held, Live, Open
<1>2. NoDanglingReference  BY <1>1 DEF NoDanglingReference, IInv, RefsOK
<1>3. ASSUME NEW r \in Refs, ref[r] = "last"  PROVE vn_refcount = 1 /\ vn_opencount = 0
  <2>1. Live = {r}  BY <1>3 DEF IInv, RefsOK
  <2>2. Open = {}  BY <1>1, <1>3, <2>1 DEF Open
  <2> QED  BY <2>1, <2>2, FS_Singleton, FS_EmptySet, Zenon DEF IInv, CountsExact
<1>4. BusyAssert  BY DEF BusyAssert, IInv, RefsOK
<1>5. UnusedIsReclaimed  BY DEF UnusedIsReclaimed, IInv, RefsOK
<1> QED  BY <1>2, <1>3, <1>4, <1>5 DEF IInv, CleanupAsserts

\* An SFS vnode is counted exactly, and is in memory exactly while something
\* refers to it, whatever the number of references and the order in which
\* they are taken, duplicated, opened, closed and given up.
THEOREM VnodeCounts ==
    ASSUME Fs = "sfs", Undisturbed
    PROVE  Spec => [](CountsExact /\ UnusedIsReclaimed /\ BusyAssert)
<1>1. IInv /\ [Next]_vars => IInv'  BY NextIInv
<1> QED  BY <1>1, InitIInv, IInvImplies, PTL DEF Spec

\* No SFS vnode is cleaned up under a client that holds it, and vnode_cleanup
\* finds the counts it asserts.
THEOREM VnodeNotDangling ==
    ASSUME Fs = "sfs", Undisturbed
    PROVE  Spec => [](NoDanglingReference /\ CleanupAsserts)
<1>1. IInv /\ [Next]_vars => IInv'  BY NextIInv
<1> QED  BY <1>1, InitIInv, IInvImplies, PTL DEF Spec

-----------------------------------------------------------------------------
\* The calls of vfslist.c, vfslookup.c and vfscwd.c.
CallRec ==
    [op : {"idle", "open", "chdir", "bootfs", "getcwd", "close", "clearcurdir", "clearbootfs",
           "mount", "sync", "unmount", "unmountall"},
     at : {"idle", "getdevice", "changeboot", "reclaim", "mount", "sync", "unmount"},
     dev : V!Names \cup V!Devs \cup {V!NoFs}, todo : SUBSET Disks]

\* The big lock is held up to knowndevs_lock and, in vfs_setbootfs, until
\* bootfs_vnode is changed: what it becomes is still referred to.  Only disks
\* are mounted.
CallsOK ==
    \A t \in Threads :
        /\ call[t].at = "getdevice" =>
             big = t /\ depth = IF call[t].op = "bootfs" THEN 2 ELSE 1
        /\ call[t].at = "changeboot" =>
             big = t /\ depth = 1 /\ call[t].dev \in {cwd[t], bootfs}
        /\ call[t].at = "mount" => call[t].dev \in Disks

MountInv == V!MountedWhileUsed /\ call \in [Threads -> CallRec] /\ CallsOK

\* A nonempty set of numbers has a smallest, which is its Min.
LEMMA MinIs == ASSUME NEW S, S \subseteq Nat, S # {} PROVE V!Min(S) \in S
<1>1. PICK u \in S : \A v \in S : ~(<<v, u>> \in OpToRel(<, Nat))
  BY NatLessThanWellFounded, WFMin, Zenon
<1>2. \A v \in S : ~(v < u)  BY <1>1, Zenon DEF OpToRel
<1>3. \A v \in S : u <= v  BY <1>2
<1> QED  BY <1>3, Zenon DEF V!Min

\* What vfs_getroot finds is mounted, or the emulator's.
LEMMA GetrootIs ==
    ASSUME V!VfsAssumption, V!TypeOK, NEW n
    PROVE  V!getroot(n) \in mounted \cup {V!Emu, V!NoFs}
<1>1. V!Found(n) \subseteq mounted \cup {V!Emu}  BY Zenon DEF V!Found
<1>2. mounted \cup {V!Emu} \subseteq Nat  BY DEF V!VfsAssumption, V!TypeOK, V!Emu
<1>3. CASE V!Found(n) = {}  BY <1>3, Zenon DEF V!getroot
<1>4. CASE V!Found(n) # {}
  <2>1. V!Min(V!Found(n)) \in V!Found(n)  BY <1>1, <1>2, <1>4, MinIs, Zenon
  <2> QED  BY <1>1, <1>4, <2>1, Zenon DEF V!getroot
<1> QED  BY <1>3, <1>4, Zenon

\* A call goes on at another place, the others stay where they are.
LEMMA CallStep ==
    ASSUME MountInv, NEW t \in Threads, NEW r \in CallRec, call' = [call EXCEPT ![t] = r]
    PROVE  /\ call' \in [Threads -> CallRec] /\ call'[t] = r
           /\ \A u \in Threads : u # t => call'[u] = call[u]
           /\ \A u \in Threads : call'[u].at \in {"idle", "getdevice", "changeboot", "reclaim", "mount", "sync", "unmount"}
<1>1. call' \in [Threads -> CallRec]  BY Zenon DEF MountInv
<1>2. \A u \in Threads : call'[u] \in CallRec  BY <1>1, Zenon
<1>3. \A u \in Threads : call'[u].at \in {"idle", "getdevice", "changeboot", "reclaim", "mount", "sync", "unmount"}
  BY <1>2 DEF CallRec
<1> QED  BY <1>1, <1>3, Zenon DEF MountInv

\* Whoever has the big lock free or itself meets nobody who relies on it.
LEMMA BigAlone ==
    ASSUME V!VfsAssumption, MountInv, NEW t \in Threads, V!BigFor(t), NEW u \in Threads, u # t
    PROVE  call[u].at \notin {"getdevice", "changeboot"}
BY Zenon DEF MountInv, CallsOK, V!BigFor, V!VfsAssumption

\* The start of a lookup takes the big lock and looks at no device yet.
LEMMA LookupInv ==
    ASSUME V!VfsAssumption, MountInv, NEW t \in Threads,
           NEW op \in {"open", "chdir", "bootfs", "getcwd"}, NEW n \in V!Names, V!vfs_lookup(t, op, n)
    PROVE  MountInv'
<1> DEFINE r == [op |-> op, at |-> "getdevice", dev |-> n, todo |-> {}]
<1>1. r \in CallRec  BY DEF CallRec
<1>2. /\ call' = [call EXCEPT ![t] = r] /\ big = V!Nobody /\ big' = t
      /\ depth' = IF op = "bootfs" THEN 2 ELSE 1
      /\ UNCHANGED <<mounted, klock, cwd, bootfs, file, dirty, panicked>>
  BY Zenon DEF V!vfs_lookup, V!Begin, V!refs
<1> HIDE DEF r
<1>3. /\ call' \in [Threads -> CallRec] /\ call'[t] = r
      /\ \A u \in Threads : u # t => call'[u] = call[u]
      /\ \A u \in Threads : call'[u].at \in {"idle", "getdevice", "changeboot", "reclaim", "mount", "sync", "unmount"}
  BY <1>1, <1>2, CallStep, Zenon
<1>4. r.at = "getdevice" /\ r.op = op  BY DEF r
<1>5. depth' \in 0..2  BY <1>2
<1>6. V!TypeOK'  BY <1>2, <1>3, <1>5, Zenon DEF V!TypeOK, MountInv, V!MountedWhileUsed
<1>7. \A d \in Disks : V!Loaded(d)' => V!Loaded(d)  BY <1>2, <1>3, <1>4, Zenon DEF V!Loaded
<1>8. V!RefKeepsFs' /\ V!UnmountedClean'
  BY <1>2, <1>7, Zenon DEF V!RefKeepsFs, V!UnmountedClean, MountInv, V!MountedWhileUsed
<1>9. CallsOK'
  <2>1. \A u \in Threads : u # t => call[u].at \notin {"getdevice", "changeboot"}
    BY <1>2, BigAlone, Zenon DEF V!BigFor
  <2>2. call'[t].at \notin {"changeboot", "mount"}  BY <1>3, <1>4
  <2> QED  BY <1>2, <1>3, <1>4, <2>1, <2>2, Zenon DEF CallsOK, MountInv
<1> QED  BY <1>3, <1>6, <1>8, <1>9, Zenon DEF MountInv, V!MountedWhileUsed

\* What vfs_getroot finds is mounted; a directory that chdir leaves was referred
\* to until now, and is being dropped from here on.
LEMMA VfsGetrootInv ==
    ASSUME V!VfsAssumption, MountInv, NEW t \in Threads, V!vfs_getroot(t)
    PROVE  MountInv'
<1> DEFINE op == call[t].op
           d == V!getroot(call[t].dev)
           boot == IF d = V!NoFs THEN bootfs ELSE d
           r == CASE op = "chdir" /\ d # V!NoFs -> [call[t] EXCEPT !.at = "reclaim", !.dev = cwd[t]]
                  [] op = "bootfs" -> [call[t] EXCEPT !.at = "changeboot", !.dev = boot]
                  [] OTHER -> V!Idle
<1>1. /\ call[t].at = "getdevice" /\ call' = [call EXCEPT ![t] = r] /\ V!BigReleased(t)
      /\ file' = IF op = "open" THEN [file EXCEPT ![t] = d] ELSE file
      /\ cwd' = IF op \in {"chdir", "bootfs"} /\ d # V!NoFs THEN [cwd EXCEPT ![t] = d] ELSE cwd
      /\ UNCHANGED <<mounted, klock, bootfs, dirty, panicked>>
  BY Zenon DEF V!vfs_getroot
<1>2. V!TypeOK /\ V!RefKeepsFs /\ V!UnmountedClean /\ call \in [Threads -> CallRec] /\ CallsOK
  BY Zenon DEF MountInv, V!MountedWhileUsed
<1>3. call[t] \in CallRec /\ cwd[t] \in V!Devs \cup {V!NoFs} /\ bootfs \in V!Devs \cup {V!NoFs}
  BY <1>2, Zenon DEF V!TypeOK
<1>4. d \in mounted \cup {V!Emu, V!NoFs}  BY <1>2, GetrootIs, Zenon
<1>5. d \in V!Devs \cup {V!NoFs}  BY <1>2, <1>4, Zenon DEF V!TypeOK, V!Devs
<1>6. boot \in V!Devs \cup {V!NoFs}  BY <1>3, <1>5, Zenon
<1> HIDE DEF d, boot
<1>7. /\ r \in CallRec
      /\ r.at \in {"idle", "reclaim", "changeboot"}
      /\ r.at = "reclaim" => r.dev = cwd[t]
      /\ r.at = "changeboot" <=> op = "bootfs"
      /\ r.at = "changeboot" => r.dev = boot
  <2>1. CASE op = "chdir" /\ d # V!NoFs
    <3>1. r = [call[t] EXCEPT !.at = "reclaim", !.dev = cwd[t]]  BY <2>1, Zenon
    <3>2. op # "bootfs"  BY <2>1
    <3> HIDE DEF r
    <3> QED  BY <1>3, <3>1, <3>2, Zenon DEF CallRec
  <2>2. CASE op = "bootfs"
    <3>1. r = [call[t] EXCEPT !.at = "changeboot", !.dev = boot]  BY <2>2
    <3> HIDE DEF r
    <3> QED  BY <1>3, <1>6, <2>2, <3>1, Zenon DEF CallRec
  <2>3. CASE ~(op = "chdir" /\ d # V!NoFs) /\ op # "bootfs"
    <3>1. r = V!Idle  BY <2>3, Zenon
    <3> HIDE DEF r
    <3> QED  BY <2>3, <3>1 DEF CallRec, V!Idle, V!Devs
  <2> QED  BY <2>1, <2>2, <2>3, Zenon
<1> HIDE DEF r
<1>8. /\ call' \in [Threads -> CallRec] /\ call'[t] = r
      /\ \A u \in Threads : u # t => call'[u] = call[u]
      /\ \A u \in Threads : call'[u].at \in {"idle", "getdevice", "changeboot", "reclaim", "mount", "sync", "unmount"}
  BY <1>1, <1>7, CallStep, Zenon
<1>9. big = t /\ depth = IF op = "bootfs" THEN 2 ELSE 1  BY <1>1, <1>2, Zenon DEF CallsOK
<1>10. /\ depth' \in 0..2 /\ big' \in Threads \cup {V!Nobody}
       /\ op = "bootfs" => big' = t /\ depth' = 1
  BY <1>1, <1>9 DEF V!BigReleased
<1>11. /\ file' \in [Threads -> V!Devs \cup {V!NoFs}] /\ cwd' \in [Threads -> V!Devs \cup {V!NoFs}]
       /\ \A u \in Threads : file'[u] \in {file[u], d} /\ cwd'[u] \in {cwd[u], d}
       /\ \A u \in Threads : u # t => cwd'[u] = cwd[u]
  BY <1>1, <1>2, <1>5, Zenon DEF V!TypeOK
<1>12. V!TypeOK'  BY <1>1, <1>2, <1>8, <1>10, <1>11, Zenon DEF V!TypeOK
<1>13. V!RefKeepsFs'
  <2> SUFFICES ASSUME NEW e \in Disks, V!Loaded(e)' PROVE e \in mounted
    BY <1>1, Zenon DEF V!RefKeepsFs
  <2>0. V!Loaded(e)'  OBVIOUS
  <2>1. e # V!NoFs /\ e # V!Emu  BY DEF V!VfsAssumption, V!NoFs, V!Emu
  <2>2. CASE e = d  BY <1>4, <2>1, <2>2, Zenon
  <2>3. CASE e # d
    <3>1. bootfs' = e => V!Loaded(e)  BY <1>1, Zenon DEF V!Loaded
    <3>2. ASSUME NEW u \in Threads,
                 cwd'[u] = e \/ file'[u] = e \/ (call'[u].at = "reclaim" /\ call'[u].dev = e)
          PROVE  V!Loaded(e)
      <4>0. file'[u] \in {file[u], d} /\ cwd'[u] \in {cwd[u], d}  BY <1>11, Zenon
      <4>1. CASE cwd'[u] = e \/ file'[u] = e
        <5>1. cwd[u] = e \/ file[u] = e  BY <2>3, <4>0, <4>1
        <5> QED  BY <5>1, Zenon DEF V!Loaded
      <4>2. CASE call'[u].at = "reclaim" /\ call'[u].dev = e /\ u = t  BY <1>7, <1>8, <4>2, Zenon DEF V!Loaded
      <4>3. CASE call'[u].at = "reclaim" /\ call'[u].dev = e /\ u # t  BY <1>8, <4>3, Zenon DEF V!Loaded
      <4> QED  BY <3>2, <4>1, <4>2, <4>3, Zenon
    <3>3. V!Loaded(e)  BY <2>0, <3>1, <3>2, Zenon DEF V!Loaded
    <3> QED  BY <1>2, <3>3, Zenon DEF V!RefKeepsFs
  <2> QED  BY <2>2, <2>3, Zenon
<1>14. CallsOK'
  <2>1. \A u \in Threads : u # t => call[u].at \notin {"getdevice", "changeboot"}
    BY <1>9, BigAlone, Zenon DEF V!BigFor
  <2>2. ASSUME op = "bootfs" PROVE boot \in {cwd'[t], bootfs'}
    <3>1. CASE d = V!NoFs  BY <1>1, <3>1, Zenon DEF boot
    <3>2. CASE d # V!NoFs
      <4>1. cwd' = [cwd EXCEPT ![t] = d]  BY <1>1, <2>2, <3>2
      <4>2. cwd'[t] = d  BY <1>2, <4>1, Zenon DEF V!TypeOK
      <4> QED  BY <3>2, <4>2, Zenon DEF boot
    <3> QED  BY <3>1, <3>2, Zenon
  <2>3. call'[t].at = "changeboot" => big' = t /\ depth' = 1 /\ call'[t].dev \in {cwd'[t], bootfs'}
    BY <1>7, <1>8, <1>10, <2>2, Zenon
  <2>4. call'[t].at \notin {"getdevice", "mount"}  BY <1>7, <1>8
  <2> QED  BY <1>2, <1>8, <2>1, <2>3, <2>4, Zenon DEF CallsOK
<1>15. V!UnmountedClean'  BY <1>1, <1>2, Zenon DEF V!UnmountedClean
<1> QED  BY <1>8, <1>12, <1>13, <1>14, <1>15, Zenon DEF MountInv, V!MountedWhileUsed

\* change_bootfs takes over a reference that is still held.
LEMMA ChangeBootfsInv ==
    ASSUME V!VfsAssumption, MountInv, NEW t \in Threads, V!change_bootfs(t)
    PROVE  MountInv'
<1>1. /\ call[t].at = "changeboot" /\ call' = [call EXCEPT ![t] = V!Idle] /\ bootfs' = call[t].dev
      /\ V!BigReleased(t) /\ UNCHANGED <<mounted, klock, cwd, file, dirty, panicked>>
  BY Zenon DEF V!change_bootfs, V!Ends
<1>2. V!TypeOK /\ V!RefKeepsFs /\ V!UnmountedClean /\ CallsOK
  BY Zenon DEF MountInv, V!MountedWhileUsed
<1>3. V!Idle \in CallRec /\ V!Idle.at = "idle"  BY DEF CallRec, V!Idle, V!Devs
<1>4. /\ call' \in [Threads -> CallRec] /\ call'[t] = V!Idle
      /\ \A u \in Threads : u # t => call'[u] = call[u]
      /\ \A u \in Threads : call'[u].at \in {"idle", "getdevice", "changeboot", "reclaim", "mount", "sync", "unmount"}
  BY <1>1, <1>3, CallStep, Zenon
<1>5. big = t /\ depth = 1 /\ bootfs' \in {cwd[t], bootfs}  BY <1>1, <1>2, Zenon DEF CallsOK
<1>6. depth' = 0 /\ big' = V!Nobody  BY <1>1, <1>5 DEF V!BigReleased
<1>7. bootfs' \in V!Devs \cup {V!NoFs}  BY <1>2, <1>5, Zenon DEF V!TypeOK
<1>a. depth' \in 0..2  BY <1>6
<1>8. V!TypeOK'  BY <1>1, <1>2, <1>4, <1>6, <1>7, <1>a, Zenon DEF V!TypeOK
<1>9. \A d \in Disks : V!Loaded(d)' => V!Loaded(d)
  <2>1. call'[t].at # "reclaim"  BY <1>3, <1>4
  <2> QED  BY <1>1, <1>4, <1>5, <2>1, Zenon DEF V!Loaded
<1>10. V!RefKeepsFs' /\ V!UnmountedClean'  BY <1>1, <1>2, <1>9, Zenon DEF V!RefKeepsFs, V!UnmountedClean
<1>11. CallsOK'
  <2>1. \A u \in Threads : u # t => call[u].at \notin {"getdevice", "changeboot"}
    BY <1>5, BigAlone, Zenon DEF V!BigFor
  <2>2. call'[t].at \notin {"getdevice", "changeboot", "mount"}  BY <1>3, <1>4
  <2> QED  BY <1>2, <1>4, <2>1, <2>2, Zenon DEF CallsOK
<1> QED  BY <1>4, <1>8, <1>10, <1>11, Zenon DEF MountInv, V!MountedWhileUsed

\* Calls without a reference or a lock of their own: nothing becomes loaded.
LEMMA QuietMountInv ==
    ASSUME V!VfsAssumption, MountInv, NEW t \in Threads, NEW r \in CallRec,
           call' = [call EXCEPT ![t] = r], r.at \notin {"getdevice", "changeboot", "reclaim"},
           r.at = "mount" => r.dev \in Disks, mounted' \in SUBSET Disks, klock' \in Threads \cup {V!Nobody}, panicked' \in BOOLEAN,
           UNCHANGED <<big, depth, cwd, bootfs, file>>,
           dirty' \subseteq dirty \cap mounted', \A d \in Disks : V!Loaded(d) => d \in mounted'
    PROVE  MountInv'
<1>1. V!TypeOK /\ CallsOK  BY Zenon DEF MountInv, V!MountedWhileUsed
<1>2. /\ call' \in [Threads -> CallRec] /\ call'[t] = r
      /\ \A u \in Threads : u # t => call'[u] = call[u]
      /\ \A u \in Threads : call'[u].at \in {"idle", "getdevice", "changeboot", "reclaim", "mount", "sync", "unmount"}
  BY CallStep, Zenon
<1>3. V!TypeOK'  BY <1>1, <1>2, Zenon DEF V!TypeOK
<1>4. \A d \in Disks : V!Loaded(d)' => V!Loaded(d)  BY <1>2, Zenon DEF V!Loaded
<1>5. V!RefKeepsFs' /\ V!UnmountedClean'  BY <1>4, Zenon DEF V!RefKeepsFs, V!UnmountedClean
<1>6. CallsOK'  BY <1>1, <1>2, Zenon DEF CallsOK
<1> QED  BY <1>2, <1>3, <1>5, <1>6, Zenon DEF MountInv, V!MountedWhileUsed

\* A walk over the table goes on, with the next file system or not.
LEMMA SkipIs ==
    ASSUME MountInv, NEW t \in Threads, NEW todo \in SUBSET Disks, V!Skip(t, todo)
    PROVE  /\ klock' \in {V!Nobody, klock}
           /\ \E r \in CallRec : r.at \in {"idle", "sync"} /\ call' = [call EXCEPT ![t] = r]
<1>1. V!Idle \in CallRec /\ V!Idle.at = "idle"  BY DEF CallRec, V!Idle, V!Devs
<1>2. CASE todo = {}  BY <1>1, <1>2, Zenon DEF V!Skip, V!Ends
<1>3. CASE todo # {}
  <2>1. call' = [call EXCEPT ![t].at = "sync", ![t].todo = todo] /\ UNCHANGED klock  BY <1>3, Zenon DEF V!Skip
  <2>2. call \in [Threads -> CallRec] /\ call[t] \in CallRec  BY Zenon DEF MountInv
  <2> DEFINE r == [op |-> call[t].op, at |-> "sync", dev |-> call[t].dev, todo |-> todo]
  <2>3. r \in CallRec /\ r.at = "sync"  BY <2>2 DEF CallRec
  <2>4. call' = [call EXCEPT ![t] = r]
    <3> DEFINE c == [call EXCEPT ![t].at = "sync"]
    <3>1. call' = [c EXCEPT ![t].todo = todo]  BY <2>1, Zenon
    <3>2. c = [u \in Threads |-> IF u = t THEN [call[t] EXCEPT !.at = "sync"] ELSE call[u]]  BY <2>2, Zenon
    <3> HIDE DEF c
    <3>3. call' = [u \in Threads |-> IF u = t THEN [c[t] EXCEPT !.todo = todo] ELSE c[u]]  BY <3>1, <3>2, Zenon
    <3>4. c[t] = [op |-> call[t].op, at |-> "sync", dev |-> call[t].dev, todo |-> call[t].todo]
      BY <2>2, <3>2 DEF CallRec
    <3>5. [c[t] EXCEPT !.todo = todo] = r  BY <3>4
    <3> HIDE DEF r
    <3>6. call' = [u \in Threads |-> IF u = t THEN r ELSE call[u]]  BY <3>2, <3>3, <3>5, Zenon
    <3> QED  BY <2>2, <3>6, Zenon
  <2> QED  BY <2>1, <2>3, <2>4, Zenon
<1> QED  BY <1>2, <1>3, Zenon

\* References come from references, and those that are dropped are loaded until
\* sfs_reclaim is through.
LEMMA ReferenceInv ==
    ASSUME V!VfsAssumption, MountInv, NEW t \in Threads, V!vfs_lookup_relative(t) \/ V!decref(t)
    PROVE  MountInv'
<1>1. V!TypeOK /\ V!RefKeepsFs /\ V!UnmountedClean /\ CallsOK /\ call \in [Threads -> CallRec]
  BY Zenon DEF MountInv, V!MountedWhileUsed
<1>2. CASE V!vfs_lookup_relative(t)
  <2>1. /\ UNCHANGED <<mounted, klock, big, depth, cwd, bootfs, dirty, call, panicked>>
        /\ \E d \in {cwd[t], bootfs} \ {V!NoFs} : file' = [file EXCEPT ![t] = d]
    BY <1>2, Zenon DEF V!vfs_lookup_relative, V!BigPassed
  <2>2. PICK d \in {cwd[t], bootfs} : file' = [file EXCEPT ![t] = d]  BY <2>1, Zenon
  <2>3. file' \in [Threads -> V!Devs \cup {V!NoFs}] /\ \A u \in Threads : file'[u] = file[u] \/ file'[u] \in {cwd[t], bootfs}
    BY <1>1, <2>2, Zenon DEF V!TypeOK
  <2>4. V!TypeOK'  BY <1>1, <2>1, <2>3, Zenon DEF V!TypeOK
  <2>5. \A e \in Disks : V!Loaded(e)' => V!Loaded(e)  BY <2>1, <2>3, Zenon DEF V!Loaded
  <2>6. V!RefKeepsFs' /\ V!UnmountedClean'  BY <1>1, <2>1, <2>5, Zenon DEF V!RefKeepsFs, V!UnmountedClean
  <2>7. CallsOK'  BY <1>1, <2>1, Zenon DEF CallsOK
  <2> QED  BY <1>1, <2>1, <2>4, <2>6, <2>7, Zenon DEF MountInv, V!MountedWhileUsed
<1>3. CASE V!decref(t)
  <2>1. PICK op \in {"close", "clearcurdir", "clearbootfs"}, x \in V!Devs \cup {V!NoFs} :
          /\ call[t] = V!Idle
          /\ call' = [call EXCEPT ![t] = [op |-> op, at |-> "reclaim", dev |-> x, todo |-> {}]]
          /\ x \in {file[t], cwd[t], bootfs}
          /\ file' \in {file, [file EXCEPT ![t] = V!NoFs]}
          /\ cwd' \in {cwd, [cwd EXCEPT ![t] = V!NoFs]}
          /\ bootfs' = bootfs \/ (bootfs' = V!NoFs /\ V!BigFor(t))
          /\ UNCHANGED <<mounted, klock, big, depth, dirty, panicked>>
    <3>0. UNCHANGED <<mounted, klock, big, depth, dirty, panicked>>  BY <1>3, Zenon DEF V!decref, V!locks
    <3>1. file[t] \in V!Devs \cup {V!NoFs} /\ cwd[t] \in V!Devs \cup {V!NoFs} /\ bootfs \in V!Devs \cup {V!NoFs}
      BY <1>1, Zenon DEF V!TypeOK
    <3> QED  BY <1>3, <3>0, <3>1, Zenon DEF V!decref, V!Begin
  <2> DEFINE r == [op |-> op, at |-> "reclaim", dev |-> x, todo |-> {}]
  <2>2. r \in CallRec /\ r.at = "reclaim" /\ r.dev = x  BY DEF CallRec
  <2>3. call' = [call EXCEPT ![t] = r]  BY <2>1, Zenon
  <2> HIDE DEF r
  <2>4. /\ call' \in [Threads -> CallRec] /\ call'[t] = r
        /\ \A u \in Threads : u # t => call'[u] = call[u]
        /\ \A u \in Threads : call'[u].at \in {"idle", "getdevice", "changeboot", "reclaim", "mount", "sync", "unmount"}
    BY <2>2, <2>3, CallStep, Zenon
  <2>5. /\ file' \in [Threads -> V!Devs \cup {V!NoFs}] /\ cwd' \in [Threads -> V!Devs \cup {V!NoFs}]
        /\ \A u \in Threads : file'[u] \in {file[u], V!NoFs} /\ cwd'[u] \in {cwd[u], V!NoFs}
        /\ \A u \in Threads : u # t => cwd'[u] = cwd[u]
    BY <1>1, <2>1, Zenon DEF V!TypeOK
  <2>6. V!TypeOK'  BY <1>1, <2>1, <2>4, <2>5, Zenon DEF V!TypeOK
  <2>7. ASSUME NEW e \in Disks, V!Loaded(e)' PROVE V!Loaded(e)
    <3>0. V!NoFs # e  BY DEF V!VfsAssumption, V!NoFs
    <3>1. bootfs' = e => V!Loaded(e)  BY <2>1, <3>0, Zenon DEF V!Loaded
    <3>2. ASSUME NEW u \in Threads,
                 cwd'[u] = e \/ file'[u] = e \/ (call'[u].at = "reclaim" /\ call'[u].dev = e)
          PROVE  V!Loaded(e)
      <4>0. file'[u] \in {file[u], V!NoFs} /\ cwd'[u] \in {cwd[u], V!NoFs}  BY <2>5, Zenon
      <4>1. CASE cwd'[u] = e \/ file'[u] = e
        <5>1. cwd[u] = e \/ file[u] = e  BY <3>0, <4>0, <4>1
        <5> QED  BY <5>1, Zenon DEF V!Loaded
      <4>2. CASE call'[u].at = "reclaim" /\ call'[u].dev = e /\ u = t  BY <2>1, <2>2, <2>4, <4>2, Zenon DEF V!Loaded
      <4>3. CASE call'[u].at = "reclaim" /\ call'[u].dev = e /\ u # t  BY <2>4, <4>3, Zenon DEF V!Loaded
      <4> QED  BY <3>2, <4>1, <4>2, <4>3, Zenon
    <3> QED  BY <2>7, <3>1, <3>2, Zenon DEF V!Loaded
  <2>8. V!RefKeepsFs' /\ V!UnmountedClean'  BY <1>1, <2>1, <2>7, Zenon DEF V!RefKeepsFs, V!UnmountedClean
  <2>9. CallsOK'
    <3>1. call'[t].at \notin {"getdevice", "changeboot", "mount"}  BY <2>2, <2>4
    <3>2. \A u \in Threads : u # t /\ call[u].at = "changeboot" => bootfs' = bootfs
      BY <2>1, BigAlone, Zenon
    <3> QED  BY <1>1, <2>1, <2>4, <2>5, <3>1, <3>2, ZenonT(60) DEF CallsOK
  <2> QED  BY <2>4, <2>6, <2>8, <2>9, Zenon DEF MountInv, V!MountedWhileUsed
<1> QED  BY <1>2, <1>3, Zenon

\* A file is changed through a reference, so on a mounted file system.
LEMMA ModifyInv ==
    ASSUME V!VfsAssumption, MountInv, NEW t \in Threads, V!modify(t)
    PROVE  MountInv'
<1>1. V!TypeOK /\ V!RefKeepsFs /\ V!UnmountedClean /\ CallsOK  BY Zenon DEF MountInv, V!MountedWhileUsed
<1>2. /\ file[t] \in Disks /\ dirty' = dirty \cup {file[t]}
      /\ UNCHANGED <<mounted, klock, big, depth, cwd, bootfs, file, call, panicked>>
  BY Zenon DEF V!modify, V!locks, V!refs
<1>3. file[t] \in mounted  BY <1>1, <1>2, Zenon DEF V!RefKeepsFs, V!Loaded
<1>4. V!TypeOK' /\ V!RefKeepsFs' /\ V!UnmountedClean' /\ CallsOK'
  BY <1>1, <1>2, <1>3, Zenon DEF V!TypeOK, V!RefKeepsFs, V!Loaded, V!UnmountedClean, CallsOK
<1> QED  BY <1>2, <1>4, Zenon DEF MountInv, V!MountedWhileUsed

\* The calls that hold knowndevs_lock, and sfs_reclaim.
LEMMA TableInv ==
    ASSUME V!VfsAssumption, MountInv, NEW t \in Threads,
           \/ V!sfs_reclaim(t) \/ V!sfs_domount(t) \/ V!sfs_sync(t) \/ V!sfs_unmount(t)
           \/ \E d \in Disks : V!vfs_mount(t, d)
           \/ \E op \in {"sync", "unmount", "unmountall"}, ds \in SUBSET Disks : V!table_walk(t, op, ds)
    PROVE  MountInv'
<1>1. /\ V!TypeOK /\ V!RefKeepsFs /\ V!UnmountedClean
      /\ call \in [Threads -> CallRec] /\ call[t] \in CallRec
  BY Zenon DEF MountInv, V!MountedWhileUsed
<1>2. V!Idle \in CallRec /\ V!Idle.at = "idle"  BY DEF CallRec, V!Idle, V!Devs
<1>3. mounted \in SUBSET Disks /\ klock \in Threads \cup {V!Nobody} /\ panicked \in BOOLEAN
  BY <1>1, Zenon DEF V!TypeOK
<1>4. dirty \subseteq mounted /\ \A d \in Disks : V!Loaded(d) => d \in mounted
  BY <1>1, Zenon DEF V!UnmountedClean, V!RefKeepsFs
<1>5. call[t].todo \in SUBSET Disks  BY <1>1 DEF CallRec
<1>6. CASE V!sfs_reclaim(t)
  <2>1. /\ call' = [call EXCEPT ![t] = V!Idle]
        /\ UNCHANGED <<mounted, klock, big, depth, cwd, bootfs, file, dirty, panicked>>
    BY <1>6, Zenon DEF V!sfs_reclaim, V!BigPassed, V!Ends, V!refs
  <2> QED  BY <1>2, <1>3, <1>4, <2>1, QuietMountInv, Zenon
<1>7. CASE V!sfs_domount(t)
  <2>1. /\ call' = [call EXCEPT ![t] = V!Idle] /\ mounted' \in {mounted, mounted \cup {call[t].dev}}
        /\ klock' = V!Nobody /\ call[t].at = "mount"
        /\ UNCHANGED <<big, depth, cwd, bootfs, file, dirty, panicked>>
    BY <1>7, Zenon DEF V!sfs_domount, V!BigPassed, V!Ends, V!refs
  <2>2. mounted' \in SUBSET Disks  BY <1>3, <2>1, Zenon DEF MountInv, CallsOK
  <2> QED  BY <1>2, <1>3, <1>4, <2>1, <2>2, QuietMountInv, Zenon
<1>8. CASE V!sfs_sync(t)
  <2> DEFINE d == V!Min(call[t].todo)
  <2>1. /\ dirty' = dirty \ {d} /\ UNCHANGED <<mounted, big, depth, cwd, bootfs, file, panicked>>
        /\ \/ V!Skip(t, call[t].todo \ {d})
           \/ call' = [call EXCEPT ![t].at = "unmount"] /\ UNCHANGED klock
    BY <1>8, Zenon DEF V!sfs_sync, V!BigPassed, V!refs
  <2>2. PICK r \in CallRec : /\ r.at \notin {"getdevice", "changeboot", "reclaim", "mount"}
                             /\ call' = [call EXCEPT ![t] = r] /\ klock' \in {V!Nobody, klock}
    <3>1. CASE V!Skip(t, call[t].todo \ {d})
      <4>1. call[t].todo \ {d} \in SUBSET Disks  BY <1>5, Zenon
      <4>2. PICK r \in CallRec : r.at \in {"idle", "sync"} /\ call' = [call EXCEPT ![t] = r]
        BY <3>1, <4>1, SkipIs, Zenon
      <4>3. klock' \in {V!Nobody, klock}  BY <3>1, <4>1, SkipIs, Zenon
      <4>4. r.at \notin {"getdevice", "changeboot", "reclaim", "mount"}  BY <4>2
      <4> QED  BY <4>2, <4>3, <4>4, Zenon
    <3>2. CASE call' = [call EXCEPT ![t].at = "unmount"] /\ UNCHANGED klock
      <4> DEFINE r == [call[t] EXCEPT !.at = "unmount"]
      <4>1. r \in CallRec /\ r.at = "unmount"  BY <1>1 DEF CallRec
      <4>2. call' = [call EXCEPT ![t] = r]  BY <3>2, Zenon
      <4> QED  BY <3>2, <4>1, <4>2, Zenon
    <3> QED  BY <2>1, <3>1, <3>2, Zenon
  <2>3. klock' \in Threads \cup {V!Nobody} /\ dirty' \subseteq dirty \cap mounted'
    BY <1>3, <1>4, <2>1, <2>2, Zenon
  <2> QED  BY <1>3, <1>4, <2>1, <2>2, <2>3, QuietMountInv, Zenon
<1>9. CASE V!sfs_unmount(t)
  <2> DEFINE d == V!Min(call[t].todo)
  <2>1. UNCHANGED <<big, depth, cwd, bootfs, file, dirty>>
    BY <1>9, Zenon DEF V!sfs_unmount, V!BigPassed, V!refs
  <2>2. CASE ~V!Loaded(d) /\ d \in dirty
    <3>1. panicked' = TRUE /\ UNCHANGED <<mounted, klock, call>>  BY <1>9, <2>2, Zenon DEF V!sfs_unmount
    <3>2. V!TypeOK' /\ V!RefKeepsFs' /\ V!UnmountedClean' /\ CallsOK'
      BY <1>1, <2>1, <3>1, Zenon DEF V!TypeOK, V!RefKeepsFs, V!Loaded, V!UnmountedClean, CallsOK, MountInv
    <3> QED  BY <1>1, <3>1, <3>2, Zenon DEF MountInv, V!MountedWhileUsed
  <2>3. CASE ~(~V!Loaded(d) /\ d \in dirty)
    <3>1. /\ V!Skip(t, call[t].todo \ {d}) /\ UNCHANGED panicked
          /\ mounted' = IF V!Loaded(d) THEN mounted ELSE mounted \ {d}
      BY <1>9, <2>3, Zenon DEF V!sfs_unmount
    <3>2. call[t].todo \ {d} \in SUBSET Disks  BY <1>5, Zenon
    <3>3. PICK r \in CallRec : r.at \in {"idle", "sync"} /\ call' = [call EXCEPT ![t] = r]
      BY <3>1, <3>2, SkipIs, Zenon
    <3>4. klock' \in Threads \cup {V!Nobody}  BY <1>3, <3>1, <3>2, SkipIs, Zenon
    <3>5. r.at \notin {"getdevice", "changeboot", "reclaim", "mount"}  BY <3>3
    <3>6. /\ mounted' \in SUBSET Disks /\ dirty' \subseteq dirty \cap mounted'
          /\ \A e \in Disks : V!Loaded(e) => e \in mounted'
      <4> HIDE DEF d
      <4>1. CASE V!Loaded(d)  BY <1>3, <1>4, <2>1, <3>1, <4>1, Zenon
      <4>2. CASE ~V!Loaded(d)
        <5>1. mounted' = mounted \ {d} /\ d \notin dirty  BY <2>3, <3>1, <4>2, Zenon
        <5>2. \A e \in Disks : V!Loaded(e) => e # d  BY <4>2, Zenon
        <5> QED  BY <1>3, <1>4, <2>1, <5>1, <5>2, Zenon
      <4> QED  BY <4>1, <4>2, Zenon
    <3>7. panicked' \in BOOLEAN  BY <1>3, <3>1, Zenon
    <3> QED  BY <2>1, <3>3, <3>4, <3>5, <3>6, <3>7, QuietMountInv, Zenon
  <2> QED  BY <2>2, <2>3, Zenon
<1>10. ASSUME NEW d \in Disks, V!vfs_mount(t, d) PROVE MountInv'
  <2> DEFINE r == [op |-> "mount", at |-> "mount", dev |-> d, todo |-> {}]
  <2>1. r \in CallRec /\ r.at = "mount" /\ r.dev = d  BY SMTT(30) DEF CallRec, V!Devs
  <2>2. /\ call' = [call EXCEPT ![t] = r] /\ klock' = t
        /\ UNCHANGED <<mounted, big, depth, cwd, bootfs, file, dirty, panicked>>
    BY <1>10, Zenon DEF V!vfs_mount, V!Begin, V!refs
  <2> HIDE DEF r
  <2>3. r.at \notin {"getdevice", "changeboot", "reclaim"}  BY <2>1
  <2> QED  BY <1>3, <1>4, <2>1, <2>2, <2>3, QuietMountInv, Zenon
<1>11. ASSUME NEW op \in {"sync", "unmount", "unmountall"}, NEW ds \in SUBSET Disks, V!table_walk(t, op, ds)
       PROVE  MountInv'
  <2> DEFINE r == [op |-> op, at |-> "sync", dev |-> V!Emu, todo |-> ds]
  <2>1. r \in CallRec /\ r.at = "sync"  BY DEF CallRec, V!Devs
  <2>2. /\ call' = [call EXCEPT ![t] = r] /\ klock' = t
        /\ UNCHANGED <<mounted, big, depth, cwd, bootfs, file, dirty, panicked>>
    BY <1>11, Zenon DEF V!table_walk, V!Begin, V!refs
  <2> HIDE DEF r
  <2>3. r.at \notin {"getdevice", "changeboot", "reclaim", "mount"}  BY <2>1
  <2> QED  BY <1>3, <1>4, <2>1, <2>2, <2>3, QuietMountInv, Zenon
<1> QED  BY <1>6, <1>7, <1>8, <1>9, <1>10, <1>11, Zenon

\* At first nothing is mounted and nobody calls.
LEMMA InitMountInv == V!VfsAssumption /\ V!Init => MountInv
<1> SUFFICES ASSUME V!VfsAssumption, V!Init PROVE MountInv  OBVIOUS
<1>1. V!Idle \in CallRec /\ V!Idle.at = "idle"  BY DEF CallRec, V!Idle, V!Devs
<1>2. call \in [Threads -> CallRec] /\ \A t \in Threads : call[t] = V!Idle  BY <1>1, Zenon DEF V!Init
<1>3. CallsOK  BY <1>1, <1>2 DEF CallsOK
<1>4. V!TypeOK
  <2>1. \A t \in Threads : call[t].at \in {"idle", "getdevice", "changeboot", "reclaim", "mount", "sync", "unmount"}
    BY <1>1, <1>2
  <2>2. V!Emu \in V!Devs /\ 0 \in 0..2  BY DEF V!Devs
  <2>3. mounted = {} /\ dirty = {} /\ klock = V!Nobody /\ big = V!Nobody /\ depth \in 0..2 /\ panicked = FALSE
    BY <2>2, Zenon DEF V!Init
  <2>4. /\ cwd \in [Threads -> V!Devs \cup {V!NoFs}] /\ bootfs \in V!Devs \cup {V!NoFs}
        /\ file \in [Threads -> V!Devs \cup {V!NoFs}]
    BY <2>2, Zenon DEF V!Init
  <2> QED  BY <2>1, <2>3, <2>4, Zenon DEF V!TypeOK
<1>5. V!RefKeepsFs
  <2>1. \A d \in Disks : d # V!Emu /\ d # V!NoFs  BY DEF V!VfsAssumption, V!Emu, V!NoFs
  <2>2. \A t \in Threads : call[t].at # "reclaim"  BY <1>1, <1>2
  <2>3. \A t \in Threads : cwd[t] = V!Emu /\ file[t] = V!NoFs /\ bootfs = V!Emu  BY Zenon DEF V!Init
  <2>4. bootfs = V!Emu  BY Zenon DEF V!Init
  <2> QED  BY <2>1, <2>2, <2>3, <2>4, Zenon DEF V!RefKeepsFs, V!Loaded
<1>6. V!UnmountedClean  BY Zenon DEF V!UnmountedClean, V!Init
<1> QED  BY <1>2, <1>3, <1>4, <1>5, <1>6, Zenon DEF MountInv, V!MountedWhileUsed

\* Every step of vfslist.c, vfslookup.c and vfscwd.c preserves it.
LEMMA NextMountInv == V!VfsAssumption /\ MountInv /\ [V!Next]_V!vars => MountInv'
<1> SUFFICES ASSUME V!VfsAssumption, MountInv, [V!Next]_V!vars PROVE MountInv'  OBVIOUS
<1>1. CASE UNCHANGED V!vars
  <2>1. UNCHANGED <<mounted, klock, big, depth, cwd, bootfs, file, dirty, call, panicked>>  BY <1>1, Zenon DEF V!vars
  <2>2. V!TypeOK' /\ V!RefKeepsFs' /\ V!UnmountedClean' /\ CallsOK'
    BY <2>1, Zenon DEF V!TypeOK, V!RefKeepsFs, V!Loaded, V!UnmountedClean, CallsOK, MountInv, V!MountedWhileUsed
  <2> QED  BY <2>1, <2>2, Zenon DEF MountInv, V!MountedWhileUsed
<1>2. CASE V!Next
  <2>1. mounted \in SUBSET Disks  BY Zenon DEF MountInv, V!MountedWhileUsed, V!TypeOK
  <2>2. PICK t \in Threads :
          \/ \E op \in {"open", "chdir", "bootfs", "getcwd"}, n \in V!Names : V!vfs_lookup(t, op, n)
          \/ V!vfs_getroot(t) \/ V!change_bootfs(t) \/ V!modify(t)
          \/ V!vfs_lookup_relative(t) \/ V!decref(t)
          \/ V!sfs_reclaim(t) \/ V!sfs_domount(t) \/ V!sfs_sync(t) \/ V!sfs_unmount(t)
          \/ \E d \in Disks : V!vfs_mount(t, d)
          \/ V!table_walk(t, "sync", mounted) \/ V!table_walk(t, "unmountall", mounted)
          \/ \E d \in mounted : V!table_walk(t, "unmount", {d})
    BY <1>2, Zenon DEF V!Next
  <2>3. \A d \in mounted : {d} \in SUBSET Disks  BY <2>1, Zenon
  <2>4. CASE \E op \in {"open", "chdir", "bootfs", "getcwd"}, n \in V!Names : V!vfs_lookup(t, op, n)
    BY <2>4, LookupInv, Zenon
  <2>5. CASE V!vfs_getroot(t) \/ V!change_bootfs(t) \/ V!modify(t)
    BY <2>5, VfsGetrootInv, ChangeBootfsInv, ModifyInv, Zenon
  <2>6. CASE V!vfs_lookup_relative(t) \/ V!decref(t)  BY <2>6, ReferenceInv, Zenon
  <2>7. CASE V!sfs_reclaim(t) \/ V!sfs_domount(t) \/ V!sfs_sync(t) \/ V!sfs_unmount(t)
    BY <2>7, TableInv, Zenon
  <2>8. CASE \E d \in Disks : V!vfs_mount(t, d)  BY <2>8, TableInv, Zenon
  <2>9. CASE V!table_walk(t, "sync", mounted) \/ V!table_walk(t, "unmountall", mounted)
    BY <2>1, <2>9, TableInv, Zenon
  <2>10. CASE \E d \in mounted : V!table_walk(t, "unmount", {d})  BY <2>3, <2>10, TableInv, Zenon
  <2> QED  BY <2>2, <2>4, <2>5, <2>6, <2>7, <2>8, <2>9, <2>10, Zenon
<1> QED  BY <1>1, <1>2, Zenon

\* However vfs_mount, vfs_unmount, vfs_unmountall, lookups, chdir and closes of
\* any number of threads interleave, on any disks: a file system to which anyone
\* has a reference stays mounted, and one that is unmounted has nothing left to
\* write.
THEOREM VfsMountedWhileUsed == ASSUME V!VfsAssumption PROVE V!Spec => []V!MountedWhileUsed
<1>1. V!Init => MountInv  BY InitMountInv, Zenon
<1>2. MountInv /\ [V!Next]_V!vars => MountInv'  BY NextMountInv, Zenon
<1>3. MountInv => V!MountedWhileUsed  BY Zenon DEF MountInv
<1> QED  BY <1>1, <1>2, <1>3, PTL DEF V!Spec
=============================================================================
