------------------------------- MODULE MCSfs -------------------------------
(***************************************************************************)
(* SFS: the contents of files (SfsFile), in three settings, and, in        *)
(* behaviours of their own, its directories (SfsDir).                      *)
(***************************************************************************)
EXTENDS Integers, Sequences, FiniteSets

CONSTANTS SFS_NDIRECT, BLOCKSIZE, DirInodes, Names, Procs, MaxSlots, MaxRef

VARIABLES
    model,
    inode, dirty, freemap, mapdirty, dinode, dmap, disk, cache, contents, readOK, synced,
    fs, cwd, opens, rename

\* Two files compete for three blocks, by transfers of whole blocks.
W == INSTANCE SfsFile WITH
    Files <- {1, 2}, Blocks <- 3..5, Slots <- {0}, Values <- {101},
    TruncateTo <- {0}, Transfers <- "whole", Syncs <- FALSE

\* One file, with fsync and sync.
S == INSTANCE SfsFile WITH
    Files <- {1}, Blocks <- 3..4, Slots <- {0}, Values <- {101, 102},
    TruncateTo <- {0}, Transfers <- "whole", Syncs <- TRUE

\* Two files, by partial transfers, with a slot of the cache for every data block.
P == INSTANCE SfsFile WITH
    Files <- {1, 2}, Blocks <- 3..5, Slots <- 0..1, Values <- {101},
    TruncateTo <- {}, Transfers <- "partial", Syncs <- FALSE

D == INSTANCE SfsDir WITH Inodes <- DirInodes, Odd <- {"exists"}

ASSUME W!SfsFileAssumption /\ S!SfsFileAssumption /\ P!SfsFileAssumption /\ D!SfsDirAssumption

filevars == <<inode, dirty, freemap, mapdirty, dinode, dmap, disk, cache, contents, readOK, synced>>
dirvars == <<fs, cwd, opens, rename>>
allvars == <<model, filevars, dirvars>>

MCInit ==
    /\ D!Init
    /\ \/ model = "whole" /\ W!Init
       \/ model = "sync" /\ S!Init
       \/ model = "partial" /\ P!Init
       \/ model = "dir" /\ S!Init

MCNext ==
    \/ model = "whole" /\ W!Next /\ UNCHANGED <<model, dirvars>>
    \/ model = "sync" /\ S!Next /\ UNCHANGED <<model, dirvars>>
    \/ model = "partial" /\ P!Next /\ UNCHANGED <<model, dirvars>>
    \/ model = "dir" /\ D!Next /\ UNCHANGED <<model, filevars>>

MCSpec == MCInit /\ [][MCNext]_allvars

TypeOK ==
    /\ D!TypeOK
    /\ CASE model = "whole" -> W!TypeOK
         [] model = "partial" -> P!TypeOK
         [] OTHER -> S!TypeOK

\* sfs_balloc, sfs_bmap and sfs_truncate keep the free map exact: the used
\* blocks are those that files point to, and none has two owners, also when
\* the disk fills up in the middle of a write.
BlocksOwned ==
    /\ TypeOK
    /\ CASE model = "whole" -> W!BlocksOwned
         [] model = "partial" -> P!BlocksOwned
         [] OTHER -> S!BlocksOwned

\* sfs_read returns the words last written with sfs_write, and zero for holes
\* and for what was truncated, as long as transfers of whole blocks and
\* partial ones are not mixed.
ReadsRight == readOK

\* After sfs_sync the inodes, the free map and the blocks on the disk are those
\* in memory, and until then what differs is marked dirty.
SyncedIsOnDisk == model = "sync" => S!SyncedIsOnDisk /\ S!DirtyIsMarked

\* creat, mkdir, remove, rmdir and rename, and their errors, keep the directories
\* a tree: sfi_linkcount counts the names of a file, no name is twice in a
\* directory or leads to a free inode, and "." and ".." lead where they should.
\* sfs_reclaim frees an inode when its last name and its last user are gone,
\* and not before: a removed file that is open, and a removed directory that is
\* the current one of a process, keep theirs.
TreeSound ==
    /\ D!LinkCountExact /\ D!NamesUnique /\ D!NamesResolve /\ D!DotsRight /\ D!NoCycle
    /\ D!UsedStays /\ D!RemovedFileFreed
=============================================================================
