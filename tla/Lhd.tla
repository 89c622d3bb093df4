-------------------------------- MODULE Lhd --------------------------------
(***************************************************************************)
(* The disk driver (kern/dev/lamebus/lhd.c) under the block I/O of SFS     *)
(* (sfs_rwblock, kern/fs/sfs/sfs_io.c).  One sector at a time goes through *)
(* the card: lh_clear admits a thread, the interrupt handler posts         *)
(* lh_done.  An I/O error is retried with the same uio.                    *)
(***************************************************************************)
EXTENDS Integers, FiniteSets

CONSTANTS
    Threads, Sectors, Values,
    MaxTries,           \* 10 in the code
    Failing             \* operations on which the medium may fail

ASSUME LhdAssumption == MaxTries \in Nat /\ Failing \subseteq {"read", "write"}

Ops == {"read", "write"}
None == "none"

VARIABLES
    lh_clear, lh_done,  \* the semaphores
    lh_result,
    stat, sect, iswrite,    \* registers of the card
    buf,                \* its buffer
    disk,
    io                  \* io[t]: the block I/O of a thread

diskvars == <<lh_clear, lh_done, lh_result, stat, sect, iswrite, buf, disk, io>>
registers == <<stat, sect, iswrite, buf, disk>>

\* resid: sectors of the uio not yet moved; moved: the card has done it
NoIo == [at |-> "idle", op |-> "read", sector |-> None, data |-> None, resid |-> 0,
         tries |-> 0, result |-> "ok", moved |-> FALSE, seen |-> None]

DiskInit ==
    /\ lh_clear = 1 /\ lh_done = 0 /\ lh_result = "ok"
    /\ stat = "idle" /\ iswrite = FALSE
    /\ sect \in Sectors /\ buf \in Values /\ disk \in [Sectors -> Values]
    /\ io = [t \in Threads |-> NoIo]

DiskTypeOK ==
    /\ lh_clear \in {0, 1} /\ lh_done \in {0, 1}
    /\ lh_result \in {"ok", "EIO"} /\ stat \in {"idle", "working", "ok", "media"}
    /\ sect \in Sectors /\ iswrite \in BOOLEAN /\ buf \in Values /\ disk \in [Sectors -> Values]
    /\ \A t \in Threads : io[t].at \in {"idle", "try", "wait", "return"} /\ io[t].tries \in 0..MaxTries

-----------------------------------------------------------------------------
\* sfs_rblock or sfs_wblock: a uio of one block.
sfs_rwblock(t, op, s, v) ==
    /\ io[t] = NoIo
    /\ io' = [io EXCEPT ![t] = [NoIo EXCEPT !.at = "try", !.op = op, !.sector = s, !.resid = 1,
                                            !.data = IF op = "write" THEN v ELSE None]]
    /\ UNCHANGED <<lh_clear, lh_done, lh_result, registers>>

\* MUTANT: the card is used without waiting for lh_clear.
lhd_io_noclear(t) ==
    /\ io[t].at = "try" /\ io[t].resid > 0
    /\ sect' = io[t].sector /\ iswrite' = (io[t].op = "write") /\ stat' = "working"
    /\ buf' = IF io[t].op = "write" THEN io[t].data ELSE buf
    /\ io' = [io EXCEPT ![t].at = "wait", ![t].resid = IF io[t].op = "write" THEN 0 ELSE @]
    /\ UNCHANGED <<lh_clear, lh_done, lh_result, disk>>

\* lhd_io up to P(lh_done): with nothing left in the uio there is nothing to
\* do; a write moves its data out of the uio first.
lhd_io(t) ==
    /\ io[t].at = "try"
    /\ IF io[t].resid = 0
       THEN /\ io' = [io EXCEPT ![t].at = "return", ![t].result = "ok"]
            /\ UNCHANGED <<lh_clear, registers>>
       ELSE /\ lh_clear > 0 /\ lh_clear' = lh_clear - 1
            /\ sect' = io[t].sector /\ iswrite' = (io[t].op = "write") /\ stat' = "working"
            /\ buf' = IF io[t].op = "write" THEN io[t].data ELSE buf
            /\ io' = [io EXCEPT ![t].at = "wait", ![t].resid = IF io[t].op = "write" THEN 0 ELSE @]
            /\ UNCHANGED disk
    /\ UNCHANGED <<lh_done, lh_result>>

\* The card finishes what it was told to do, or fails.
Card ==
    /\ stat = "working"
    /\ \/ /\ stat' = "ok"
          /\ disk' = IF iswrite THEN [disk EXCEPT ![sect] = buf] ELSE disk
          /\ buf' = IF iswrite THEN buf ELSE disk[sect]
          /\ io' = [t \in Threads |-> IF io[t].at = "wait"
                        THEN [io[t] EXCEPT !.moved = TRUE, !.seen = disk[sect]] ELSE io[t]]
       \/ /\ (IF iswrite THEN "write" ELSE "read") \in Failing
          /\ stat' = "media" /\ UNCHANGED <<disk, buf, io>>
    /\ UNCHANGED <<lh_clear, lh_done, lh_result, sect, iswrite>>

\* MUTANT: the handler starts a failed operation again, for ever.
lhd_irq_restart ==
    /\ stat \in {"ok", "media"} /\ lh_result' = "ok"
    /\ IF stat = "ok" THEN stat' = "idle" /\ lh_done' = lh_done + 1
       ELSE stat' = "working" /\ UNCHANGED lh_done
    /\ UNCHANGED <<lh_clear, sect, iswrite, buf, disk, io>>

\* MUTANT: every operation is reported as done.
lhd_irq_blind ==
    /\ stat \in {"ok", "media"}
    /\ lh_result' = "ok" /\ stat' = "idle"
    /\ lh_done' = lh_done + 1
    /\ UNCHANGED <<lh_clear, sect, iswrite, buf, disk, io>>

\* lhd_irq and lhd_iodone.
lhd_irq ==
    /\ stat \in {"ok", "media"}
    /\ lh_result' = (IF stat = "ok" THEN "ok" ELSE "EIO") /\ stat' = "idle"
    /\ lh_done' = lh_done + 1
    /\ UNCHANGED <<lh_clear, sect, iswrite, buf, disk, io>>

\* lhd_io after P(lh_done), and what sfs_rwblock does with the result: an I/O
\* error is tried again with the uio as it is.
lhd_io_done(t) ==
    LET again == lh_result = "EIO" /\ io[t].tries < MaxTries
        read == lh_result = "ok" /\ io[t].op = "read"
    IN  /\ io[t].at = "wait" /\ lh_done > 0 /\ lh_done' = lh_done - 1
        /\ lh_clear' = lh_clear + 1
        /\ io' = [io EXCEPT ![t].at = IF again THEN "try" ELSE "return",
                            ![t].tries = IF again THEN @ + 1 ELSE @,
                            ![t].result = lh_result,
                            ![t].data = IF read THEN buf ELSE @,
                            ![t].resid = IF read THEN 0 ELSE @]
        /\ UNCHANGED <<lh_result, registers>>

Return(t) ==
    /\ io[t].at = "return"
    /\ io' = [io EXCEPT ![t] = NoIo]
    /\ UNCHANGED <<lh_clear, lh_done, lh_result, registers>>

DiskNext ==
    \/ \E t \in Threads :
        \/ \E op \in Ops, s \in Sectors, v \in Values : sfs_rwblock(t, op, s, v)
        \/ lhd_io(t)
        \/ lhd_io_done(t)
        \/ Return(t)
    \/ Card
    \/ lhd_irq

DiskSpec == DiskInit /\ [][DiskNext]_diskvars

\* The card finishes, its interrupt is taken, and a thread that can run runs.
DiskFairSpec ==
    /\ DiskSpec /\ WF_diskvars(Card) /\ WF_diskvars(lhd_irq)
    /\ \A t \in Threads : WF_diskvars(lhd_io(t)) /\ WF_diskvars(lhd_io_done(t)) /\ WF_diskvars(Return(t))

-----------------------------------------------------------------------------
\* One thread at a time is between P(lh_clear) and V(lh_clear), and lh_done,
\* the interrupt and the running card together are worth one completion for
\* it: nobody wakes up on the completion of another's I/O.
OneCompletion ==
    LET waiting == {t \in Threads : io[t].at = "wait"} IN
    /\ lh_clear + Cardinality(waiting) = 1
    /\ lh_done + (IF stat = "idle" THEN 0 ELSE 1) = Cardinality(waiting)

\* A read that succeeds returns what was in the sector, although the buffer and
\* lh_result are shared by all threads.
ReadIsSectors ==
    \A t \in Threads : io[t].at = "return" /\ io[t].op = "read" /\ io[t].result = "ok" =>
        io[t].moved /\ io[t].data = io[t].seen

\* lh_clear admits one thread to the card, and lh_done, the interrupt and the
\* running card are together worth one completion for it: nobody returns from
\* lhd_io on the completion of another's I/O.  So a block read returns what was
\* in the sector, although the card's buffer and lh_result are shared by all
\* threads and reads fail and are retried.
DiskSound == OneCompletion /\ ReadIsSectors

\* A write that succeeds has reached the disk, retries included.
WriteIsWritten ==
    \A t \in Threads : io[t].at = "return" /\ io[t].op = "write" /\ io[t].result = "ok" => io[t].moved

\* An operation that was started ends: no completion is lost.
IoEnds(t) == io[t].at = "wait" ~> io[t].at # "wait"
=============================================================================
