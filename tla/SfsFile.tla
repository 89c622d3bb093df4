------------------------------ MODULE SfsFile ------------------------------
(***************************************************************************)
(* File contents in SFS (kern/fs/sfs/sfs_vnode.c): the map from the blocks *)
(* of a file to disk blocks, with direct blocks and one indirect block;    *)
(* transfers by pieces, whole blocks directly and partial ones through a   *)
(* small cache; truncation; sync.  Every operation runs under the VFS big  *)
(* lock and is one step here.  A block is BLOCKSIZE words, a word being    *)
(* what an indirect block holds a pointer in (SFS_DBPERIDB of them).       *)
(* Disk errors are left out.  contents[f] is what file f should hold.      *)
(***************************************************************************)
EXTENDS Integers, Sequences, FiniteSets, SequencesExt

CONSTANTS
    Files,          \* inode numbers
    Blocks,         \* the disk blocks for data and indirect blocks
    SFS_NDIRECT, BLOCKSIZE,
    Slots,          \* the cache slots, 0..BUFFER_SIZE-1
    Values,         \* the nonzero words that are written
    TruncateTo,     \* the lengths given to VOP_TRUNCATE
    Transfers,      \* which ones are tried: "whole" blocks, "partial" ones, "any"
    Syncs           \* TRUE: sync and fsync are called

SfsFileAssumption ==
    /\ Blocks \subseteq Nat \ {0} /\ Slots \subseteq Nat /\ Slots # {}
    /\ SFS_NDIRECT \in Nat /\ BLOCKSIZE \in Nat \ {0}
    /\ Transfers \in {"whole", "partial", "any"} /\ Syncs \in BOOLEAN /\ Values \cap Blocks = {}

NBlocks == SFS_NDIRECT + BLOCKSIZE
MaxLen == NBlocks * BLOCKSIZE
\* Transfers are tried up to one block past the largest file.
LastTried == MaxLen + BLOCKSIZE

Words == 0..BLOCKSIZE-1
ZeroBlock == [w \in Words |-> 0]
NoIno == -1

VARIABLES
    inode,      \* the inodes in memory (sv_i): direct, indirect, size
    dirty,      \* the files with sv_dirty
    freemap,    \* the used blocks of the free map in memory
    mapdirty,   \* sfs_freemapdirty
    dinode, dmap, disk,     \* on the disk: inodes, free map, blocks
    cache,      \* sfs_rcache
    contents, readOK, synced    \* history

image == <<inode, dirty, freemap, mapdirty, disk, cache>>
vars == <<image, dinode, dmap, contents, readOK, synced>>

EmptyInode == [direct |-> [i \in 0..SFS_NDIRECT-1 |-> 0], indirect |-> 0, size |-> 0]

Init ==
    /\ inode = [f \in Files |-> EmptyInode] /\ dinode = inode
    /\ dirty = {} /\ freemap = {} /\ dmap = {} /\ mapdirty = FALSE
    /\ disk = [b \in Blocks |-> ZeroBlock]
    /\ cache = [s \in Slots |-> [ino |-> NoIno, block |-> 0, data |-> ZeroBlock]]
    /\ contents = [f \in Files |-> [o \in 0..MaxLen-1 |-> 0]]
    /\ readOK = TRUE /\ synced = TRUE

Inodes == [direct : [0..SFS_NDIRECT-1 -> Blocks \cup {0}], indirect : Blocks \cup {0}, size : 0..LastTried]

TypeOK ==
    /\ inode \in [Files -> Inodes] /\ dinode \in [Files -> Inodes]
    /\ dirty \subseteq Files /\ freemap \subseteq Blocks /\ dmap \subseteq Blocks
    /\ disk \in [Blocks -> [Words -> Values \cup Blocks \cup {0}]]
    /\ \A s \in Slots : /\ cache[s].ino \in Files \cup {NoIno}
                        /\ cache[s].block \in Blocks \cup {0}
                        /\ cache[s].data \in [Words -> Values \cup {0}]
    /\ {mapdirty, readOK, synced} \subseteq BOOLEAN

-----------------------------------------------------------------------------
\* The operations work on the current image, a record, by pieces.
Now == [inode |-> inode, dirty |-> dirty, freemap |-> freemap, mapdirty |-> mapdirty,
        disk |-> disk, cache |-> cache]

Becomes(d) ==
    /\ inode' = d.inode /\ dirty' = d.dirty /\ freemap' = d.freemap
    /\ mapdirty' = d.mapdirty /\ disk' = d.disk /\ cache' = d.cache

Least(S) == CHOOSE x \in S : \A y \in S : x <= y

\* bitmap_alloc takes the first free block; 0 stands for ENOSPC.
bitmap_alloc(d) == LET free == Blocks \ d.freemap IN IF free = {} THEN 0 ELSE Least(free)

\* MUTANT: the block is not marked.
sfs_balloc_nomark(d, b) == [d EXCEPT !.mapdirty = TRUE, !.disk[b] = ZeroBlock]

\* sfs_balloc of block b: marked and cleared.
sfs_balloc(d, b) ==
    [d EXCEPT !.freemap = @ \cup {b}, !.mapdirty = TRUE, !.disk[b] = ZeroBlock]

\* sfs_bmap without doalloc, also the on-disk meaning of an inode; 0 is a hole.
BlockOf(ino, dsk, n) ==
    IF n < SFS_NDIRECT THEN ino.direct[n]
    ELSE IF ino.indirect = 0 THEN 0
    ELSE dsk[ino.indirect][n - SFS_NDIRECT]

Lookup(d, f, n) == BlockOf(d.inode[f], d.disk, n)

\* sfs_bmap with doalloc.  A new indirect block stays with the file even when
\* no block is left for the data.
sfs_bmap(d, f, n) ==
    LET fail(e) == [d |-> e, ok |-> FALSE]
        done(e) == [d |-> [e EXCEPT !.dirty = IF e.inode = d.inode THEN @ ELSE @ \cup {f}], ok |-> TRUE]
        b == bitmap_alloc(d)
        e == IF d.inode[f].indirect # 0 \/ b = 0 THEN d
             ELSE [sfs_balloc(d, b) EXCEPT !.inode[f].indirect = b, !.dirty = @ \cup {f}]
        id == e.inode[f].indirect
        c == bitmap_alloc(e)
    IN  IF n >= NBlocks THEN fail(d)                      \* EFBIG
        ELSE IF Lookup(d, f, n) # 0 THEN done(d)
        ELSE IF n < SFS_NDIRECT THEN
            IF b = 0 THEN fail(d)                         \* ENOSPC
            ELSE done([sfs_balloc(d, b) EXCEPT !.inode[f].direct[n] = b])
        ELSE IF id = 0 \/ c = 0 THEN fail(e)
        ELSE done([sfs_balloc(e, c) EXCEPT !.disk[id][n - SFS_NDIRECT] = c])

-----------------------------------------------------------------------------
\* sfs_io: a partial block in front, whole blocks, a partial block at the end.
Pieces(off, len) ==
    LET first == off \div BLOCKSIZE
        last == (off + len - 1) \div BLOCKSIZE
        piece(n) == [n |-> n,
                     lo |-> IF n = first THEN off % BLOCKSIZE ELSE 0,
                     hi |-> IF n = last THEN (off + len - 1) % BLOCKSIZE ELSE BLOCKSIZE - 1]
    IN  [i \in 1..(last - first + 1) |-> piece(first + i - 1)]

Whole(p) == p.lo = 0 /\ p.hi = BLOCKSIZE - 1

\* uiomove into a block; the value 0 stands for a transfer that reads.
uiomove(blk, p, v) == [w \in Words |-> IF v # 0 /\ w \in p.lo..p.hi THEN v ELSE blk[w]]

\* sfs_blockio: whole blocks go to the disk and leave the cache alone.
sfs_blockio(d, f, p, v) ==
    LET b == Lookup(d, f, p.n)
    IN  [d |-> [d EXCEPT !.disk[b] = uiomove(@, p, v)], got |-> d.disk[b]]

\* sfs_partialio: a block in the cache is used there; else it is loaded into
\* the first free slot and used there; else slot s is written back and loaded
\* over, keeping its old tags, and the block is used on the disk.
sfs_partialio(d, f, p, v, s) ==
    LET b == Lookup(d, f, p.n)
        hits == {t \in Slots : d.cache[t].ino = f /\ d.cache[t].block = b}
        free == {t \in Slots : d.cache[t].ino = NoIno}
        flushed == [d EXCEPT !.disk[d.cache[s].block] = d.cache[s].data]
        loaded == [flushed EXCEPT !.cache[s].data = flushed.disk[b]]
    IN  IF hits # {} THEN
            [d |-> [d EXCEPT !.cache[Least(hits)].data = uiomove(@, p, v)],
             got |-> d.cache[Least(hits)].data]
        ELSE IF free # {} THEN
            [d |-> [d EXCEPT !.cache[Least(free)] =
                        [ino |-> f, block |-> b, data |-> uiomove(d.disk[b], p, v)]],
             got |-> d.disk[b]]
        ELSE [d |-> [loaded EXCEPT !.disk[b] = uiomove(@, p, v)], got |-> loaded.disk[b]]

Transfer(d, f, p, v, s) ==
    IF Lookup(d, f, p.n) = 0 THEN [d |-> d, got |-> ZeroBlock]
    ELSE IF Whole(p) THEN sfs_blockio(d, f, p, v)
    ELSE sfs_partialio(d, f, p, v, s)

WritePiece(f, v, s, acc, p) ==
    LET m == sfs_bmap(acc.d, f, p.n)
    IN  IF ~acc.ok THEN acc
        ELSE IF ~m.ok THEN [acc EXCEPT !.d = m.d, !.ok = FALSE]
        ELSE [d |-> Transfer(m.d, f, p, v, s).d, ok |-> TRUE, end |-> p.n * BLOCKSIZE + p.hi + 1]

\* Reading past the largest file fails with EFBIG.
ReadPiece(f, s, acc, p) ==
    LET t == Transfer(acc.d, f, p, 0, s)
    IN  IF p.n >= NBlocks THEN acc
        ELSE [d |-> t.d, got |-> acc.got \o [i \in 1..(p.hi - p.lo + 1) |-> t.got[p.lo + i - 1]]]

Tried(off, len) ==
    /\ off + len <= LastTried
    /\ CASE Transfers = "whole" -> off % BLOCKSIZE = 0 /\ len % BLOCKSIZE = 0
         [] Transfers = "partial" -> len < BLOCKSIZE /\ (off % BLOCKSIZE) + len <= BLOCKSIZE
         [] OTHER -> TRUE

\* A write that fails half way keeps what it has done.  The size grows to the
\* offset reached, which is the starting offset if nothing could be written.
sfs_write(f, off, len, v, s) ==
    LET w == FoldLeft(LAMBDA acc, p : WritePiece(f, v, s, acc, p),
                      [d |-> Now, ok |-> TRUE, end |-> off], Pieces(off, len))
        grows == w.end > inode[f].size
    IN  /\ Tried(off, len)
        /\ Becomes(IF grows THEN [w.d EXCEPT !.inode[f].size = w.end, !.dirty = @ \cup {f}] ELSE w.d)
        /\ contents' = [contents EXCEPT ![f] = [o \in 0..MaxLen-1 |-> IF o \in off..w.end-1 THEN v ELSE @[o]]]
        /\ synced' = FALSE
        /\ UNCHANGED <<dinode, dmap, readOK>>

\* A read is cut off at the end of the file.
sfs_read(f, off, len, s) ==
    LET n == IF off + len > inode[f].size THEN inode[f].size - off ELSE len
        r == FoldLeft(LAMBDA acc, p : ReadPiece(f, s, acc, p), [d |-> Now, got |-> <<>>], Pieces(off, n))
    IN  /\ Tried(off, len) /\ off < inode[f].size
        /\ Becomes(r.d)
        /\ readOK' = (readOK /\ \A i \in DOMAIN r.got : r.got[i] = contents[f][off + i - 1])
        /\ UNCHANGED <<dinode, dmap, contents, synced>>

-----------------------------------------------------------------------------
\* MUTANT: the indirect block is left alone.
Truncated_direct(d, f, blocklen) ==
    LET past == {i \in 0..SFS_NDIRECT-1 : i >= blocklen}
    IN  [d EXCEPT !.freemap = @ \ {d.inode[f].direct[i] : i \in past},
                  !.inode[f].direct = [i \in 0..SFS_NDIRECT-1 |-> IF i \in past THEN 0 ELSE @[i]]]

\* The blocks that sfs_truncate frees, with the comparisons of the code; the
\* indirect block goes when it is left empty.
Truncated(d, f, blocklen) ==
    LET ino == d.inode[f]
        id == ino.indirect
        past == {i \in 0..SFS_NDIRECT-1 : i >= blocklen}
        pastid == {j \in Words : blocklen < SFS_NDIRECT + j}
        d1 == [d EXCEPT !.freemap = @ \ {ino.direct[i] : i \in past},
                        !.inode[f].direct = [i \in 0..SFS_NDIRECT-1 |-> IF i \in past THEN 0 ELSE @[i]]]
        d2 == [d1 EXCEPT !.freemap = @ \ {d.disk[id][j] : j \in pastid}]
        kept == [j \in Words |-> IF j \in pastid THEN 0 ELSE d.disk[id][j]]
    IN  IF id = 0 \/ blocklen >= NBlocks - 1 THEN d1
        ELSE IF kept = ZeroBlock THEN [d2 EXCEPT !.freemap = @ \ {id}, !.inode[f].indirect = 0]
        ELSE [d2 EXCEPT !.disk[id] = kept]

sfs_truncate(f, len) ==
    LET t == Truncated(Now, f, (len + BLOCKSIZE - 1) \div BLOCKSIZE)
    IN  /\ Becomes([t EXCEPT !.inode[f].size = len, !.dirty = @ \cup {f},
                             !.mapdirty = @ \/ t.freemap # freemap])
        /\ contents' = [contents EXCEPT ![f] = [o \in 0..MaxLen-1 |-> IF o < len THEN @[o] ELSE 0]]
        /\ synced' = FALSE
        /\ UNCHANGED <<dinode, dmap, readOK>>

\* MUTANT: the dirty mark is cleared before it is looked at.
sfs_sync_inode_clean(S) ==
    /\ dinode' = dinode
    /\ dirty' = dirty \ S

\* sfs_sync_inode, for the files in S.
sfs_sync_inode(S) ==
    /\ dinode' = [f \in Files |-> IF f \in S \cap dirty THEN inode[f] ELSE dinode[f]]
    /\ dirty' = dirty \ S

sfs_fsync(f) ==
    /\ Syncs
    /\ sfs_sync_inode({f})
    /\ UNCHANGED <<inode, freemap, mapdirty, disk, cache, dmap, contents, readOK, synced>>

\* sfs_sync: every loaded inode and the free map; not the cache.
sfs_sync ==
    /\ Syncs
    /\ sfs_sync_inode(Files)
    /\ dmap' = IF mapdirty THEN freemap ELSE dmap
    /\ mapdirty' = FALSE
    /\ synced' = TRUE
    /\ UNCHANGED <<inode, freemap, disk, cache, contents, readOK>>

Next ==
    \/ \E f \in Files, off \in 0..LastTried-1, len \in 1..LastTried, s \in Slots :
         \/ sfs_read(f, off, len, s)
         \/ \E v \in Values : sfs_write(f, off, len, v, s)
    \/ \E f \in Files, len \in TruncateTo : sfs_truncate(f, len)
    \/ \E f \in Files : sfs_fsync(f)
    \/ sfs_sync

Spec == Init /\ [][Next]_vars

-----------------------------------------------------------------------------
\* The block pointers of the files, each with its place.
Pointers == {pt \in Files \X (0..NBlocks-1) : Lookup(Now, pt[1], pt[2]) # 0}
BlockAt(pt) == Lookup(Now, pt[1], pt[2])
IndirectBlocks == {inode[f].indirect : f \in Files} \ {0}

\* sfs_balloc, sfs_bmap and sfs_truncate keep the free map exact: the used
\* blocks are the data and indirect blocks of the files and no block has two
\* uses, also after a write that ran out of space between the indirect block
\* and the data block.  (sfs_bmap panics on a mapped block that is marked free.)
BlocksOwned ==
    /\ freemap = {BlockAt(pt) : pt \in Pointers} \cup IndirectBlocks
    /\ \A x, y \in Pointers : x # y => BlockAt(x) # BlockAt(y)
    /\ \A f, g \in Files : f # g /\ inode[f].indirect # 0 => inode[f].indirect # inode[g].indirect
    /\ \A pt \in Pointers : BlockAt(pt) \notin IndirectBlocks

\* sfs_read returns the words last written by sfs_write, and zeros for holes,
\* for words past a truncation and for words of blocks that another file had.
ReadsRight == readOK

\* After sfs_sync the inodes, the free map and the blocks on the disk are those
\* of the files (man/syscall/sync.html), so that a remount finds the contents.
SyncedIsOnDisk ==
    synced =>
        /\ dmap = freemap
        /\ \A f \in Files :
            /\ dinode[f].size = inode[f].size
            /\ \A o \in 0..MaxLen-1 : o < inode[f].size =>
                 LET b == BlockOf(dinode[f], disk, o \div BLOCKSIZE)
                 IN  contents[f][o] = IF b = 0 THEN 0 ELSE disk[b][o % BLOCKSIZE]

\* An inode or a free map that differs from the one on the disk is marked dirty,
\* so that the next sync or reclaim writes it.
DirtyIsMarked ==
    /\ \A f \in Files : inode[f] # dinode[f] => f \in dirty
    /\ freemap # dmap => mapdirty

\* The blocks that sfs_bmap returns are blocks of the disk marked used: it
\* panics with "Data block %u (block %u of file %u) marked free" otherwise.
MappedBlockUsed == \A pt \in Pointers : BlockAt(pt) \in freemap

=============================================================================
