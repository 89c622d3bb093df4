------------------------------ MODULE MCSystem ------------------------------
(***************************************************************************)
(* From boot to shutdown, and the disks before and after: names, menu and  *)
(* programs (Menu), the file system of the emulator (Emu), and sfsck       *)
(* (Sfsck).  No behaviour runs two of them, so they share the variables v1 *)
(* to v12: each INSTANCE says what they are called in its module.          *)
(***************************************************************************)
EXTENDS Integers, Sequences, TLC

CONSTANTS None, Threads

VARIABLES model, v1, v2, v3, v4, v5, v6, v7, v8, v9, v10, v11, v12

M == INSTANCE Menu WITH
    Blocks <- 3, BSIZE <- 2, MaxFiles <- 1, MaxNoMem <- 1,
    table <- v1, cnt <- v2, cwd <- v3, bootfs <- v4, phase <- v5, booted <- v6,
    nomem <- v7, parent <- v8, held <- v9, dirty <- v10, evil <- v11, ret <- v12

E == INSTANCE Emu WITH
    Names <- {"f"}, EMU_MAXIO <- 1, NHANDLES <- 2, MaxLen <- 2, MaxErrors <- 1, Retries <- 1,
    Shared <- FALSE, Odd <- {},
    reg <- v1, irq <- v2, hnd <- v3, files <- v4, errors <- v5, e_lock <- v6,
    e_sem <- v7, e_result <- v8, biglock <- v9, ef_vnodes <- v10, hold <- v11, th <- v12

C == INSTANCE Sfsck WITH
    NDIRECT <- 1, DBPERIDB <- 2, ATONCE <- 5, NBLOCKS <- 12, MaxDepth <- 4, Damage <- 1, MaxCrash <- 1, Runs <- 3,
    disk <- v1, first <- v2, st <- v3, pass <- v4, run <- v5, crashes <- v6, exits <- v7

ASSUME M!MenuAssumption /\ E!EmuAssumption /\ C!SfsckAssumption

\* The threads in the emulator are interchangeable.
Symmetry == Permutations(Threads)

allvars == <<model, v1, v2, v3, v4, v5, v6, v7, v8, v9, v10, v11, v12>>

MCInit ==
    \/ model = "menu" /\ M!Init
    \/ model = "emu" /\ E!Init
    \/ model = "sfsck" /\ C!Init /\ v8 = 0 /\ v9 = 0 /\ v10 = 0 /\ v11 = 0 /\ v12 = 0

MCNext ==
    \/ model = "menu" /\ M!Next /\ UNCHANGED model
    \/ model = "emu" /\ E!Next /\ UNCHANGED model
    \/ model = "sfsck" /\ C!Next /\ UNCHANGED <<model, v8, v9, v10, v11, v12>>

MCSpec == MCInit /\ [][MCNext]_allvars

\* Every error path of every operation on names (vfs_lookup to vfs_rename,
\* vfs_open, vfs_chdir, the menu's commands) gives back exactly the references
\* it took, and no current directory is a device; and a position that sys_lseek
\* accepts on a device (dev_tryseek) is one that lhd_io transfers a block at.
NamesSound == model = "menu" => M!RefsBalanced /\ M!SeekableIsReadable

\* shutdown() with disks that work writes all and unmounts every file system
\* of which no program has a file open and where the menu is not: bootfs and
\* the current directory are given up first.
ShutdownUnmounts == model = "menu" => M!ShutdownUnmounts

\* The answer that a thread in emu_waitdone finds is to its own request, the
\* card never answers with an error that makes translate_err panic, every open
\* handle of the card has one owner, and whoever leaves emufs leaves its locks.
EmuSound == model = "emu" => E!EmuAnswersOne /\ E!NoFatalResult /\ E!HandlesOwned /\ E!LocksReturned

\* sfsck says that a volume is clean exactly when it is sound; and a volume it
\* repaired, also if it was interrupted before, is clean by the third run.
SfsckSound == model = "sfsck" => C!CleanIsSound /\ C!RepairSettles
=============================================================================
