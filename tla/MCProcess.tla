--------------------------- MODULE MCProcess ---------------------------
(***************************************************************************)
(* waitpid and _exit (Process) and, in behaviours of their own, the list   *)
(* of pids below them with the steps of its walks apart, two programs,     *)
(* psort with its children (Psort) and malloctest with malloc (Malloc),    *)
(* and what programs and kernel are linked with (Lib).  The last three     *)
(* share the variables v1 to v10: each INSTANCE says what they are called  *)
(* in its module.                                                          *)
(***************************************************************************)
EXTENDS Process, TLC

CONSTANTS p1, p2, p3, p4, p5

VARIABLES model, v1, v2, v3, v4, v5, v6, v7, v8, v9, v10

S == INSTANCE Psort WITH
    numprocs <- 2, numkeys <- 4, RANDOM_MAX <- 7, WORKNUM <- 2, Values <- {1, 3, 5, 6}, MaxErrors <- 1,
    files <- v1, phase <- v2, child <- v3, pos <- v4, bad <- v5, errors <- v6, checksum <- v7, code <- v8

H == INSTANCE Malloc WITH
    MBLOCKSIZE <- 2, W <- 6, LIMIT <- 13, SMALLSIZE <- 3, MEDIUMSIZE <- 7, BIGSIZE <- 9, HUGESIZE <- 28,
    OVERHEAD <- 8, ABSURD_OVERHEAD <- 12, sizes <- {1, 4, 7}, NPTRS <- 3, MaxIter <- 6, MaxTests <- 2,
    mem <- v1, heaptop <- v2, held <- v3, leaked <- v4, test <- v5, pc <- v6, size <- v7, lx <- v8,
    verdict <- v9, done <- v10

L == INSTANCE Lib WITH
    INT_BITS <- 4, Args <- {0, 1, 7, 8, 15, 127, 128, 255}, MaxMods <- 3, LONG <- 2, MEM <- 6, MaxStr <- 5,
    Seconds <- {0, 1, 2, 3, 4, 5, 6, 7, 8, 11, 12, 15, 16, 17, 31, 32, 47, 63, 64, 65, 85, 127, 128, 129,
                170, 191, 192, 240, 254, 255},
    BYTE <- 1, MaxNum <- 5, BITS_PER_WORD <- 3, MaxBits <- 7, maxlen <- 4, MaxKeys <- 6,
    part <- v1, call <- v2, res <- v3, arr <- v4, want <- v5, bm <- v6, used <- v7, kg <- v8

ASSUME S!PsortAssumption /\ H!MallocAssumption /\ L!LibAssumption

\* The programs are interchangeable; the menu is not.
Symmetry == Permutations({p1, p2, p3})

kernelvars == <<vars, tablevars>>
progvars == <<v1, v2, v3, v4, v5, v6, v7, v8, v9, v10>>
allvars == <<model, kernelvars, progvars>>

MCInit ==
    /\ Init /\ TableInit
    /\ \/ /\ model \in {"process", "table"}
          /\ v1 = 0 /\ v2 = 0 /\ v3 = 0 /\ v4 = 0 /\ v5 = 0 /\ v6 = 0 /\ v7 = 0 /\ v8 = 0 /\ v9 = 0 /\ v10 = 0
       \/ model = "psort" /\ S!Init /\ v9 = 0 /\ v10 = 0
       \/ model = "malloc" /\ H!Init
       \/ model = "lib" /\ L!Init /\ v9 = 0 /\ v10 = 0

MCNext ==
    \/ model = "process" /\ Next /\ UNCHANGED <<model, tablevars, progvars>>
    \/ model = "table" /\ TableNext /\ UNCHANGED <<model, vars, progvars>>
    \/ model = "psort" /\ S!Next /\ UNCHANGED <<model, kernelvars, v9, v10>>
    \/ model = "malloc" /\ H!Next /\ UNCHANGED <<model, kernelvars>>
    \/ model = "lib" /\ L!Next /\ UNCHANGED <<model, kernelvars, v9, v10>>

MCSpec == MCInit /\ [][MCNext]_allvars

\* Whatever malloctest asks of malloc and free, the headers of the heap lead from
\* its bottom to its top and back, a block holds what was asked for and keeps
\* what was written to it, and the tests pass.
MallocSound == model = "malloc" => H!MallocSound /\ H!MallocTestsPass

\* psort reports success exactly when no child failed and no key lies past the
\* last bin, and then it leaves the keys that it made, sorted.
PsortRight == model = "psort" => S!PsortRight

\* The operations on long longs put together from ints are those of the integers
\* modulo the width; printf, strtok_r, memmove, arrays, bitmaps and kgets do
\* what their callers rely on.
LibrariesRight == model = "lib" => L!LibRight
=============================================================================
