------------------------------- MODULE SfsDir -------------------------------
(***************************************************************************)
(* Directories in SFS (kern/fs/sfs/sfs_vnode.c) under the VFS calls that   *)
(* use them: entries in slots, link counts, vnode reference counts, the    *)
(* reclaiming of removed files.  The operations hold the VFS big lock and  *)
(* are single steps, except sfs_rename, which does not take it and can be  *)
(* split here.  A name is looked up in the current directory of a process  *)
(* or in the root ("lhd0:name").  No system call reaches sfs_link.         *)
(***************************************************************************)
EXTENDS Integers, Sequences, FiniteSets, SequencesExt

CONSTANTS
    Inodes,         \* inode numbers; 1 is the root
    Names,          \* ordinary file names
    Procs,
    MaxSlots,       \* slots of a directory; one more fails with ENOSPC
    MaxRef,         \* bound on vn_refcount
    Odd             \* unusual calls that are made, of those below

OddCalls ==
    {"dots",        \* remove, rmdir or rename of "." and ".."
     "removedir",   \* remove of a directory
     "notdir",      \* rmdir of a file
     "exists",      \* mkdir of a name in use
     "cycle",       \* rename of a directory into itself or below
     "nospace"}     \* mkdir finds no block for the new directory

SfsDirAssumption ==
    /\ 1 \in Inodes /\ Inodes \subseteq Nat /\ Odd \subseteq OddCalls
    /\ MaxSlots \in Nat /\ MaxRef \in Nat \ {0}

Root == 1
NOINO == 0
Empty == [name |-> "", ino |-> NOINO]
DotNames == {".", ".."}

VARIABLES
    fs,         \* type, nlink, ent (slots), refs (vn_refcount) of each inode
    cwd, opens, \* t_cwd of the processes; the vnodes that are open
    rename      \* a sfs_rename under way, or <<>>

vars == <<fs, cwd, opens, rename>>

\* mksfs makes a root directory without entries.
Init ==
    /\ fs = [type |-> [i \in Inodes |-> IF i = Root THEN "dir" ELSE "free"],
             nlink |-> [i \in Inodes |-> IF i = Root THEN 1 ELSE 0],
             ent |-> [i \in Inodes |-> <<>>],
             refs |-> [i \in Inodes |-> IF i = Root THEN Cardinality(Procs) ELSE 0]]
    /\ cwd = [p \in Procs |-> Root]
    /\ opens = {}
    /\ rename = <<>>

-----------------------------------------------------------------------------
\* sfs_dir_findname: the slot of the name, and the last empty slot; 0 is none.
SlotsOf(s, P(_)) == {k \in DOMAIN s : P(s[k])}
Slot(d, dir, name) ==
    LET f == SlotsOf(d.ent[dir], LAMBDA e : e.ino # NOINO /\ e.name = name)
    IN  IF f = {} THEN 0 ELSE CHOOSE k \in f : TRUE
EmptySlot(d, dir) ==
    LET f == SlotsOf(d.ent[dir], LAMBDA e : e.ino = NOINO)
    IN  IF f = {} THEN 0 ELSE CHOOSE k \in f : \A m \in f : m <= k
InoOf(d, dir, name) == d.ent[dir][Slot(d, dir, name)].ino
Exists(d, dir, name) == d.type[dir] = "dir" /\ Slot(d, dir, name) # 0

\* sfs_dir_link: [fs, ok]; not ok is EEXIST or ENOSPC.
sfs_dir_link(d, dir, name, ino) ==
    LET e == [name |-> name, ino |-> ino]
        k == EmptySlot(d, dir)
    IN  IF Slot(d, dir, name) # 0 THEN [fs |-> d, ok |-> FALSE]
        ELSE IF k # 0 THEN [fs |-> [d EXCEPT !.ent[dir][k] = e], ok |-> TRUE]
        ELSE IF Len(d.ent[dir]) = MaxSlots THEN [fs |-> d, ok |-> FALSE]
        ELSE [fs |-> [d EXCEPT !.ent[dir] = Append(@, e)], ok |-> TRUE]

sfs_dir_unlink(d, dir, slot) == [d EXCEPT !.ent[dir][slot] = Empty]

\* sfs_loadvnode of an inode in use.
sfs_loadvnode(d, i) == [d EXCEPT !.refs[i] = @ + 1]

\* VOP_DECREF.  sfs_reclaim frees an inode without links, but VOP_TRUNCATE
\* fails on a directory and leaves its vnode with one reference.
decref(d, i) ==
    IF d.refs[i] > 1 \/ d.nlink[i] > 0 THEN [d EXCEPT !.refs[i] = @ - 1]
    ELSE IF d.type[i] = "dir" THEN d
    ELSE [d EXCEPT !.refs[i] = 0, !.type[i] = "free"]

\* sfs_makeobj: the first free inode, 0 if there is none.
FreeInode(d) ==
    LET f == {i \in Inodes : d.type[i] = "free"}
    IN  IF f = {} THEN 0 ELSE CHOOSE i \in f : \A j \in f : i <= j
sfs_makeobj(d, i, type) ==
    [d EXCEPT !.type[i] = type, !.nlink[i] = 0, !.ent[i] = <<>>, !.refs[i] = 1]

\* A step of the model: the new fs, within the bound on references.
Becomes(d) == fs' = d /\ \A i \in Inodes : d.refs[i] <= MaxRef
\* A process in the middle of a rename does nothing else.
Quiet(p) == IF rename = <<>> THEN TRUE ELSE rename[4] # p

\* Where a process looks a name up.
Starts(p) == {cwd[p], Root}
Usable(name) == name \in Names \/ "dots" \in Odd
AllNames == Names \cup DotNames

-----------------------------------------------------------------------------
\* sfs_creat by vfs_open with O_CREAT: an existing object is opened, a new file
\* is linked or given up again.
creat(p, dir, name) ==
    LET i == FreeInode(fs)
        made == sfs_makeobj(fs, i, "file")
        l == sfs_dir_link(made, dir, name, i)
    IN  /\ Quiet(p) /\ dir \in Starts(p)
        /\ \/ /\ Exists(fs, dir, name)
              /\ LET j == InoOf(fs, dir, name)
                 IN  /\ j \notin opens /\ opens' = opens \cup {j}
                     /\ Becomes(sfs_loadvnode(fs, j))
           \/ /\ ~Exists(fs, dir, name) /\ i # 0
              /\ IF l.ok THEN Becomes([l.fs EXCEPT !.nlink[i] = 1]) /\ opens' = opens \cup {i}
                 ELSE Becomes(decref(made, i)) /\ UNCHANGED opens
        /\ UNCHANGED <<cwd, rename>>

\* vfs_open of an existing file.  sfs_lookup adds a reference to the directory.
open(p, dir, name) ==
    /\ Quiet(p) /\ dir \in Starts(p) /\ Exists(fs, dir, name)
    /\ LET j == InoOf(fs, dir, name)
       IN  /\ j \notin opens /\ opens' = opens \cup {j}
           /\ Becomes(sfs_loadvnode(sfs_loadvnode(fs, j), dir))
    /\ UNCHANGED <<cwd, rename>>

close(p, i) ==
    /\ Quiet(p) /\ i \in opens /\ opens' = opens \ {i}
    /\ Becomes(decref(fs, i))
    /\ UNCHANGED <<cwd, rename>>

\* MUTANT: the new current directory is not counted.
chdir_noref(p, dir, name) ==
    /\ Quiet(p) /\ dir \in Starts(p) /\ Exists(fs, dir, name)
    /\ LET j == InoOf(fs, dir, name)
       IN  /\ fs.type[j] = "dir"
           /\ Becomes(decref(sfs_loadvnode(fs, dir), cwd[p]))
           /\ cwd' = [cwd EXCEPT ![p] = j]
    /\ UNCHANGED <<opens, rename>>

\* vfs_chdir: sfs_lookup as above, then vfs_setcurdir; ENOTDIR on a file.
chdir(p, dir, name) ==
    /\ Quiet(p) /\ dir \in Starts(p) /\ Exists(fs, dir, name)
    /\ LET j == InoOf(fs, dir, name)
           found == sfs_loadvnode(fs, dir)
       IN  IF fs.type[j] # "dir" THEN Becomes(found) /\ UNCHANGED cwd
           ELSE /\ Becomes(decref(sfs_loadvnode(found, j), cwd[p]))
                /\ cwd' = [cwd EXCEPT ![p] = j]
    /\ UNCHANGED <<opens, rename>>

\* sfs_lookup of a path with two components.  sfs_parsepath leaves the first
\* character of each component uninitialized, so that any name may be looked
\* up; the loop releases the directory that vfs_lookup releases again.
lookup_path(p, dir, n1, n2) ==
    /\ Quiet(p) /\ dir \in Starts(p) /\ Exists(fs, dir, n1)
    /\ LET j == InoOf(fs, dir, n1)
           first == decref(sfs_loadvnode(fs, j), dir)
           k == InoOf(first, j, n2)
       IN  /\ fs.type[j] = "dir"
           /\ IF ~Exists(first, j, n2) THEN Becomes(first) /\ UNCHANGED opens
              ELSE k \notin opens /\ opens' = opens \cup {k} /\ Becomes(decref(sfs_loadvnode(first, k), j))
    /\ UNCHANGED <<cwd, rename>>

\* sfs_mkdir.  The new vnode is never released; a name in use is found only
\* after the inode is made, and the inode stays.
mkdir(p, dir, name, full) ==
    LET i == FreeInode(fs)
        made == sfs_makeobj(fs, i, "dir")
        l == sfs_dir_link(made, dir, name, i)
        linked == [l.fs EXCEPT !.nlink[i] = 1]
        dots == <<[name |-> "..", ino |-> dir], [name |-> ".", ino |-> i]>>
    IN  /\ Quiet(p) /\ dir \in Starts(p) /\ i # 0
        /\ full => "nospace" \in Odd
        /\ Exists(fs, dir, name) => "exists" \in Odd
        /\ IF ~l.ok THEN Becomes(made)
           ELSE IF full THEN Becomes(linked)
           ELSE Becomes([linked EXCEPT !.ent[i] = dots])
        /\ UNCHANGED <<cwd, opens, rename>>

\* sfs_rmdir.  The error returns keep the reference to the victim.
rmdir(p, dir, name) ==
    /\ Quiet(p) /\ dir \in Starts(p) /\ Usable(name) /\ Exists(fs, dir, name)
    /\ LET v == InoOf(fs, dir, name)
           found == sfs_loadvnode(fs, v)
           entries == SlotsOf(fs.ent[v], LAMBDA e : e.ino # NOINO)
           gone == [sfs_dir_unlink(found, dir, Slot(fs, dir, name)) EXCEPT !.nlink[v] = @ - 1]
       IN  /\ fs.type[v] = "file" => "notdir" \in Odd
           /\ IF fs.type[v] = "file" \/ Cardinality(entries) > 2 THEN Becomes(found)
              ELSE Becomes(decref(gone, v))
    /\ UNCHANGED <<cwd, opens, rename>>

\* MUTANT: the link count is left alone.
remove_keep(p, dir, name) ==
    /\ Quiet(p) /\ dir \in Starts(p) /\ Usable(name) /\ Exists(fs, dir, name)
    /\ fs.type[InoOf(fs, dir, name)] = "file"
    /\ Becomes(sfs_dir_unlink(fs, dir, Slot(fs, dir, name)))
    /\ UNCHANGED <<cwd, opens, rename>>

\* sfs_remove does not ask what kind of object the name refers to.
remove(p, dir, name) ==
    /\ Quiet(p) /\ dir \in Starts(p) /\ Usable(name) /\ Exists(fs, dir, name)
    /\ LET v == InoOf(fs, dir, name)
           found == sfs_loadvnode(fs, v)
           gone == [sfs_dir_unlink(found, dir, Slot(fs, dir, name)) EXCEPT !.nlink[v] = @ - 1]
       IN  /\ fs.type[v] = "dir" => Odd \cap {"removedir", "dots"} # {}
           /\ Becomes(decref(gone, v))
    /\ UNCHANGED <<cwd, opens, rename>>

-----------------------------------------------------------------------------
\* The directories above a directory, along "..".
Parent(d, i) == IF Exists(d, i, "..") THEN InoOf(d, i, "..") ELSE Root
Above(d, i) ==
    LET up[n \in 0..Cardinality(Inodes)] == IF n = 0 THEN {i} ELSE {Parent(d, j) : j \in up[n-1]}
    IN  UNION {up[n] : n \in 0..Cardinality(Inodes)}

\* sfs_rename up to the second name: sfs_lookonce and sfs_dir_link.  For a
\* directory that changes its parent ".." is replaced, and the old parent's
\* vnode is never released.
RenameLinked(d, d1, n1, d2, n2) ==
    LET g == InoOf(d, d1, n1)
        l == sfs_dir_link(sfs_loadvnode(d, g), d2, n2, g)
        a == [l.fs EXCEPT !.nlink[g] = @ + 1]
        old == Parent(a, g)
        b == sfs_loadvnode(sfs_dir_unlink(a, g, Slot(a, g, "..")), old)
    IN  [ok |-> l.ok,
         fs |-> IF ~l.ok THEN decref(l.fs, g)
                ELSE IF d.type[g] = "dir" /\ d1 # d2 /\ Exists(a, g, "..")
                     THEN sfs_dir_link(b, g, "..", d2).fs
                     ELSE a]

\* The rest of sfs_rename: the entry in the slot seen before is cleared.
RenameUnlinked(d, d1, slot, g) ==
    decref([sfs_dir_unlink(d, d1, slot) EXCEPT !.nlink[g] = @ - 1], g)

Renames(p, d1, n1, d2, n2) ==
    /\ rename = <<>> /\ {d1, d2} \subseteq Starts(p)
    /\ Usable(n1) /\ n2 \in Names /\ Exists(fs, d1, n1)
    /\ LET g == InoOf(fs, d1, n1)
       IN  fs.type[g] = "dir" /\ g \in Above(fs, d2) => "cycle" \in Odd

sfs_rename(p, d1, n1, d2, n2) ==
    LET l == RenameLinked(fs, d1, n1, d2, n2)
    IN  /\ Renames(p, d1, n1, d2, n2)
        /\ Becomes(IF l.ok THEN RenameUnlinked(l.fs, d1, Slot(fs, d1, n1), InoOf(fs, d1, n1)) ELSE l.fs)
        /\ UNCHANGED <<cwd, opens, rename>>

rename_start(p, d1, n1, d2, n2) ==
    LET l == RenameLinked(fs, d1, n1, d2, n2)
    IN  /\ Renames(p, d1, n1, d2, n2) /\ l.ok
        /\ Becomes(l.fs)
        /\ rename' = <<d1, Slot(fs, d1, n1), InoOf(fs, d1, n1), p>>
        /\ UNCHANGED <<cwd, opens>>

rename_end ==
    /\ rename # <<>> /\ rename' = <<>>
    /\ Becomes(RenameUnlinked(fs, rename[1], rename[2], rename[3]))
    /\ UNCHANGED <<cwd, opens>>

\* sfs_namefile for getcwd: the vnodes of the root and of the directories above
\* are loaded and not released.  (A cycle would make it loop.)
getcwd(p) ==
    /\ Quiet(p) /\ Root \in Above(fs, cwd[p])
    /\ Becomes([fs EXCEPT !.refs = [i \in Inodes |->
           @[i] + (IF i \in Above(fs, cwd[p]) \ {cwd[p]} THEN 1 ELSE 0) + (IF i = Root THEN 1 ELSE 0)]])
    /\ UNCHANGED <<cwd, opens, rename>>

Next ==
    \/ \E p \in Procs, dir \in Inodes, name \in Names :
        \/ creat(p, dir, name)
        \/ open(p, dir, name)
        \/ \E full \in BOOLEAN : mkdir(p, dir, name, full)
    \/ \E p \in Procs, dir \in Inodes, name \in AllNames :
        \/ chdir(p, dir, name)
        \/ rmdir(p, dir, name)
        \/ remove(p, dir, name)
        \/ \E d2 \in Inodes, n2 \in Names : sfs_rename(p, dir, name, d2, n2)
    \/ \E p \in Procs : getcwd(p) \/ \E i \in Inodes : close(p, i)

Spec == Init /\ [][Next]_vars

\* With the steps of a rename apart, and other calls while it waits for the disk.
RaceNext ==
    \/ Next
    \/ \E p \in Procs, d1, d2 \in Inodes, n1, n2 \in Names : rename_start(p, d1, n1, d2, n2)
    \/ rename_end
RaceSpec == Init /\ [][RaceNext]_vars

\* With lookups of paths.
PathNext == Next \/ \E p \in Procs, dir \in Inodes, n1, n2 \in Names : lookup_path(p, dir, n1, n2)
PathSpec == Init /\ [][PathNext]_vars

-----------------------------------------------------------------------------
TypeOK ==
    /\ fs.type \in [Inodes -> {"free", "file", "dir"}]
    /\ fs.nlink \in [Inodes -> 0..2] /\ fs.refs \in [Inodes -> 0..MaxRef]
    /\ \A i \in Inodes : /\ Len(fs.ent[i]) <= MaxSlots
                         /\ \A k \in DOMAIN fs.ent[i] : fs.ent[i][k].ino \in Inodes \cup {NOINO}
    /\ cwd \in [Procs -> Inodes] /\ opens \subseteq Inodes

\* The entries that name i, not counting "." and "..".
NamesOf(i) ==
    {e \in Inodes \X (1..MaxSlots) :
        /\ fs.type[e[1]] = "dir" /\ e[2] \in DOMAIN fs.ent[e[1]]
        /\ fs.ent[e[1]][e[2]].ino = i /\ fs.ent[e[1]][e[2]].name \in Names}

\* sfi_linkcount is the number of names of a file or directory (the root has
\* one more), through creat, mkdir, remove, rmdir and rename and their errors.
LinkCountExact ==
    rename = <<>> => \A i \in Inodes : fs.type[i] # "free" =>
        fs.nlink[i] = Cardinality(NamesOf(i)) + (IF i = Root THEN 1 ELSE 0)

\* Each name appears only once in a directory, as sfs_dir_findname asserts.
NamesUnique ==
    \A d \in Inodes : fs.type[d] = "dir" =>
        \A k, m \in DOMAIN fs.ent[d] :
            fs.ent[d][k].ino # NOINO /\ fs.ent[d][k] # Empty /\ fs.ent[d][k].name = fs.ent[d][m].name => k = m

\* Every name leads to an inode in use with a link count: sfs_loadvnode and
\* sfs_lookonce panic on others.
NamesResolve ==
    \A d \in Inodes : fs.type[d] = "dir" =>
        \A k \in DOMAIN fs.ent[d] : LET e == fs.ent[d][k] IN
            e.name \in Names => fs.type[e.ino] # "free" /\ fs.nlink[e.ino] > 0

\* A directory with a name has "." and "..", and ".." leads to the directory
\* that names it.
DotsRight ==
    rename = <<>> => \A i \in Inodes \ {Root} : fs.type[i] = "dir" /\ fs.nlink[i] > 0 =>
        /\ Exists(fs, i, ".") /\ InoOf(fs, i, ".") = i
        /\ Exists(fs, i, "..") /\ \A e \in NamesOf(i) : e[1] = InoOf(fs, i, "..")

\* The directories with a name form no cycle.
NoCycle ==
    \A i \in Inodes : fs.type[i] = "dir" /\ fs.nlink[i] > 0 =>
        Root \in Above(fs, i) \/ \E j \in Above(fs, i) : fs.nlink[j] = 0

Users(i) == Cardinality({p \in Procs : cwd[p] = i}) + (IF i \in opens THEN 1 ELSE 0)
                + (IF rename # <<>> /\ rename[3] = i THEN 1 ELSE 0)

\* A vnode has at least the references of the processes that use it, and its
\* inode is not free: a removed file that is open, or a removed directory that
\* is current, stays.
UsedStays == \A i \in Inodes : Users(i) > 0 => fs.refs[i] >= Users(i) /\ fs.type[i] # "free"

\* A file without names that nobody uses has been freed by sfs_reclaim, and so
\* has one that sfs_creat could not link.
RemovedFileFreed ==
    \A i \in Inodes : fs.type[i] = "file" => fs.nlink[i] > 0 \/ Users(i) > 0

\* The same for directories.
RemovedDirFreed ==
    \A i \in Inodes : fs.type[i] = "dir" => fs.nlink[i] > 0 \/ Users(i) > 0

\* vop_lookup takes a reference to the vnode handed back and to no other.
LookupCounts ==
    [][\A p \in Procs, dir \in Inodes, name \in Names :
          open(p, dir, name) /\ InoOf(fs, dir, name) # dir => fs'.refs[dir] = fs.refs[dir]]_vars

\* A directory that loses its last name is empty, as vop_remove and rmdir(2)
\* say: sfs_rmdir counts the entries.
RemovedDirEmpty ==
    [][\A i \in Inodes : fs.type[i] = "dir" /\ fs.nlink[i] > 0 /\ fs'.nlink[i] = 0 =>
          \A k \in DOMAIN fs.ent[i] : fs.ent[i][k].name \notin Names]_vars

\* A file or directory with a link count has a name: a rename under way never
\* leaves it without one.
LinkedIsNamed ==
    \A i \in Inodes \ {Root} : fs.type[i] # "free" /\ fs.nlink[i] > 0 => NamesOf(i) # {}
=============================================================================
