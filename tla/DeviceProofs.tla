---------------------------- MODULE DeviceProofs ----------------------------
(***************************************************************************)
(* Proofs about the drivers that are woken by interrupts: the disk (Lhd)   *)
(* and the console (Console).                                              *)
(***************************************************************************)
EXTENDS Console, Lhd, FiniteSetTheorems, TLAPS

-----------------------------------------------------------------------------
\* Proof of DiskSound for any threads, sectors and number of tries.
Records ==
    [at : {"idle", "try", "wait", "return"}, op : Ops, sector : Sectors \cup {None},
     data : Values \cup {None}, resid : {0, 1}, tries : 0..MaxTries, result : {"ok", "EIO"},
     moved : BOOLEAN, seen : Values \cup {None}]

Waiting == {t \in Threads : io[t].at = "wait"}

\* The card belongs to nobody, or to one thread, for whom it works or for whom
\* the completion is in lh_done.
OneUser ==
    \/ lh_clear = 1 /\ lh_done = 0 /\ stat = "idle" /\ Waiting = {}
    \/ /\ lh_clear = 0 /\ \E t \in Threads : Waiting = {t}
       /\ (lh_done = 0 /\ stat # "idle") \/ (lh_done = 1 /\ stat = "idle")

\* What a thread asked for is still in its record: the sector, the data of a
\* write, and, of a read, the room in the uio, which only the read uses up.
Asked ==
    \A t \in Threads : io[t].at \in {"try", "wait"} =>
        /\ io[t].sector \in Sectors
        /\ io[t].op = "write" => io[t].data \in Values
        /\ io[t].op = "read" => io[t].resid = 1

\* The registers are those of the waiting thread, and when its read is done the
\* buffer has what was in the sector.
Fresh ==
    \A t \in Waiting :
        /\ iswrite = (io[t].op = "write")
        /\ io[t].op = "read" /\ (stat = "ok" \/ (stat = "idle" /\ lh_result = "ok")) =>
             io[t].moved /\ buf = io[t].seen

DiskInv == DiskTypeOK /\ io \in [Threads -> Records] /\ OneUser /\ Asked /\ Fresh /\ ReadIsSectors

\* It holds when the disk has been attached.
LEMMA InitDiskInv == DiskInit => DiskInv
<1> SUFFICES ASSUME DiskInit PROVE DiskInv  OBVIOUS
<1>1. io \in [Threads -> Records] /\ \A t \in Threads : io[t] = NoIo
      BY LhdAssumption DEF DiskInit, NoIo, Records, Ops
<1>2. NoIo.at = "idle" /\ NoIo.tries \in 0..MaxTries  BY LhdAssumption DEF NoIo
<1>5. DiskTypeOK  BY <1>1, <1>2, Zenon DEF DiskInit, DiskTypeOK
<1>3. Waiting = {} /\ OneUser  BY <1>1, Zenon DEF DiskInit, OneUser, Waiting, NoIo
<1>4. Asked /\ Fresh /\ ReadIsSectors  BY <1>1, <1>3 DEF Asked, Fresh, ReadIsSectors, NoIo
<1> QED  BY <1>1, <1>3, <1>4, <1>5, Zenon DEF DiskInv

\* Steps that leave semaphores and card alone, and nobody in or out of "wait".
LEMMA QuietDiskInv ==
    ASSUME DiskInv, NEW t \in Threads, NEW r \in Records,
           io[t].at # "wait", r.at # "wait", io' = [io EXCEPT ![t] = r],
           r.at \in {"try", "wait"} => /\ r.sector \in Sectors
                                       /\ r.op = "write" => r.data \in Values
                                       /\ r.op = "read" => r.resid = 1,
           r.at = "return" => r.op = "write",
           UNCHANGED <<lh_clear, lh_done, lh_result, registers>>
    PROVE  DiskInv'
<1> USE DEF DiskInv, registers
<1>1. io' \in [Threads -> Records] /\ \A u \in Threads : io'[u] = IF u = t THEN r ELSE io[u]  OBVIOUS
<1>2. DiskTypeOK'  BY <1>1, Zenon DEF DiskTypeOK, Records
<1>3. Waiting' = Waiting  BY <1>1, Zenon DEF Waiting
<1>4. OneUser'  BY <1>3, Zenon DEF OneUser
<1>5. Asked'  BY <1>1, Zenon DEF Asked
<1>6. Fresh'  BY <1>1, <1>3, Zenon DEF Fresh, Waiting
<1>7. ReadIsSectors'  BY <1>1, Zenon DEF ReadIsSectors
<1> QED  BY <1>1, <1>2, <1>4, <1>5, <1>6, <1>7, Zenon

\* sfs_rwblock and the return to its caller.
LEMMA CallDiskInv ==
    ASSUME DiskInv, NEW t \in Threads,
           \/ \E op \in Ops, s \in Sectors, v \in Values : sfs_rwblock(t, op, s, v)
           \/ Return(t)
    PROVE  DiskInv'
<1>0. NoIo \in Records  BY LhdAssumption DEF NoIo, Records, Ops
<1>1. CASE Return(t)
  <2>1. io[t].at = "return" /\ NoIo.at = "idle"  BY <1>1, Zenon DEF Return, NoIo
  <2> QED  BY <1>0, <1>1, <2>1, QuietDiskInv, Zenon DEF Return
<1>2. ASSUME NEW op \in Ops, NEW s \in Sectors, NEW v \in Values, sfs_rwblock(t, op, s, v) PROVE DiskInv'
  <2> DEFINE r == [NoIo EXCEPT !.at = "try", !.op = op, !.sector = s, !.resid = 1,
                               !.data = IF op = "write" THEN v ELSE None]
  <2>1. r \in Records  BY <1>0, Zenon DEF NoIo, Records
  <2>2. r.at = "try" /\ r.sector = s /\ r.op = op /\ r.resid = 1 /\ (op = "write" => r.data = v)
        BY Zenon DEF NoIo
  <2>0. NoIo.at = "idle" /\ io[t] = NoIo  BY <1>2, Zenon DEF sfs_rwblock, NoIo
  <2>3. io[t].at = "idle"  BY <2>0, Zenon
  <2>4. io' = [io EXCEPT ![t] = r] /\ UNCHANGED <<lh_clear, lh_done, lh_result, registers>>
        BY <1>2, Zenon DEF sfs_rwblock
  <2> HIDE DEF r
  <2> QED  BY <2>1, <2>2, <2>3, <2>4, QuietDiskInv, Zenon
<1> QED  BY <1>1, <1>2, Zenon

\* lhd_io: P(lh_clear) admits one thread, whose request goes to the registers;
\* a uio with nothing left in it is a write's.
LEMMA StartDiskInv ==
    ASSUME DiskInv, NEW t \in Threads, lhd_io(t)
    PROVE  DiskInv'
<1> USE DEF DiskInv
<1>0. io[t].at = "try" /\ io[t] \in Records /\ io[t].sector \in Sectors
      BY Zenon DEF lhd_io, Asked
<1>1. CASE io[t].resid = 0
  <2> DEFINE r == [io[t] EXCEPT !.at = "return", !.result = "ok"]
  <2>1. r \in Records /\ r.at = "return" /\ r.op = io[t].op  BY <1>0, Zenon DEF Records
  <2>2. io[t].op = "write"  BY <1>0, <1>1 DEF Asked, Records, Ops
  <2>3. io' = [io EXCEPT ![t] = r] /\ UNCHANGED <<lh_clear, lh_done, lh_result, registers>>
        BY <1>1, Zenon DEF lhd_io
  <2> HIDE DEF r
  <2> QED  BY <1>0, <2>1, <2>2, <2>3, QuietDiskInv, Zenon
<1>2. CASE io[t].resid # 0
  <2> DEFINE r == [io[t] EXCEPT !.at = "wait", !.resid = IF io[t].op = "write" THEN 0 ELSE @]
  <2>1. r \in Records /\ r.at = "wait" /\ r.op = io[t].op /\ r.sector = io[t].sector
        /\ r.data = io[t].data /\ (r.op = "read" => r.resid = io[t].resid)
        BY <1>0, Zenon DEF Records, Ops
  <2>2. /\ lh_clear > 0 /\ lh_clear' = lh_clear - 1
        /\ sect' = io[t].sector /\ iswrite' = (io[t].op = "write") /\ stat' = "working"
        /\ buf' = IF io[t].op = "write" THEN io[t].data ELSE buf
        /\ io' = [io EXCEPT ![t] = r] /\ UNCHANGED <<lh_done, lh_result, disk>>
        BY <1>2, Zenon DEF lhd_io
  <2> HIDE DEF r
  <2>3. io' \in [Threads -> Records] /\ \A u \in Threads : io'[u] = IF u = t THEN r ELSE io[u]
        BY <2>1, <2>2, Zenon
  <2>4. lh_clear = 1 /\ lh_done = 0 /\ Waiting = {}  BY <2>2 DEF OneUser
  <2>5. Waiting' = {t}  BY <2>1, <2>3, <2>4, Zenon DEF Waiting
  <2>6. OneUser'  BY <2>2, <2>4, <2>5 DEF OneUser
  <2>7. Asked'  BY <1>0, <2>1, <2>3, Zenon DEF Asked
  <2>8. buf' \in Values  BY <1>0, <2>2, Zenon DEF DiskTypeOK, Asked
  <2>9. DiskTypeOK'  BY <1>0, <2>2, <2>3, <2>4, <2>8 DEF DiskTypeOK, Records
  <2>10. Fresh'  BY <2>1, <2>2, <2>3, <2>5, Zenon DEF Fresh
  <2>11. ReadIsSectors'  BY <2>1, <2>3, Zenon DEF ReadIsSectors
  <2> QED  BY <2>3, <2>6, <2>7, <2>9, <2>10, <2>11, Zenon
<1> QED  BY <1>1, <1>2, Zenon
\* The card, and its interrupt: the one waiting thread is marked, the buffer has
\* the sector, and the completion goes from the status register to lh_done.
LEMMA CardDiskInv ==
    ASSUME DiskInv, Card \/ lhd_irq
    PROVE  DiskInv'
<1> USE DEF DiskInv
<1>1. CASE lhd_irq
  <2> USE <1>1 DEF lhd_irq
  <2>1. Waiting' = Waiting /\ lh_done = 0 /\ stat # "idle"  BY Zenon DEF Waiting, OneUser
  <2>2. OneUser'  BY <2>1 DEF OneUser
  <2>3. DiskTypeOK'  BY <2>1 DEF DiskTypeOK
  <2>4. Fresh'  BY <2>1, Zenon DEF Fresh
  <2> QED  BY <2>2, <2>3, <2>4, Zenon DEF Asked, ReadIsSectors
<1>2. CASE Card /\ stat' = "media"
  <2>1. UNCHANGED <<lh_clear, lh_done, lh_result, sect, iswrite, disk, buf, io>> /\ stat = "working"
        BY <1>2, Zenon DEF Card
  <2>2. Waiting' = Waiting  BY <2>1, Zenon DEF Waiting
  <2>3. OneUser'  BY <1>2, <2>1, <2>2, Zenon DEF OneUser
  <2>4. DiskTypeOK'  BY <1>2, <2>1, Zenon DEF DiskTypeOK
  <2>5. Fresh'  BY <1>2, <2>1, <2>2, Zenon DEF Fresh
  <2> QED  BY <2>1, <2>3, <2>4, <2>5, Zenon DEF Asked, ReadIsSectors
<1>3. CASE Card /\ stat' = "ok"
  <2> DEFINE mark(t) == [io[t] EXCEPT !.moved = TRUE, !.seen = disk[sect]]
  <2>1. /\ stat = "working" /\ UNCHANGED <<lh_clear, lh_done, lh_result, sect, iswrite>>
        /\ disk' = IF iswrite THEN [disk EXCEPT ![sect] = buf] ELSE disk
        /\ buf' = IF iswrite THEN buf ELSE disk[sect]
        /\ io' = [t \in Threads |-> IF io[t].at = "wait" THEN mark(t) ELSE io[t]]
        BY <1>3, Zenon DEF Card
  <2>2. disk[sect] \in Values  BY Zenon DEF DiskTypeOK
  <2>3. \A t \in Threads : /\ mark(t) \in Records /\ mark(t).moved /\ mark(t).seen = disk[sect]
                           /\ mark(t).at = io[t].at /\ mark(t).op = io[t].op
                           /\ mark(t).sector = io[t].sector /\ mark(t).data = io[t].data
                           /\ mark(t).resid = io[t].resid /\ mark(t).tries = io[t].tries
                           /\ mark(t).result = io[t].result
    <3> TAKE t \in Threads
    <3>1. io[t] \in Records  BY Zenon
    <3> QED  BY <2>2, <3>1, Zenon DEF Records
  <2> HIDE DEF mark
  <2>4. io' \in [Threads -> Records]  BY <2>1, <2>3, Zenon
  <2>5. \A t \in Threads : io'[t] = IF io[t].at = "wait" THEN mark(t) ELSE io[t]  BY <2>1, Zenon
  <2>6. Waiting' = Waiting  BY <2>3, <2>5 DEF Waiting
  <2>7. OneUser'  BY <1>3, <2>1, <2>6, Zenon DEF OneUser
  <2>8. DiskTypeOK'  BY <1>3, <2>1, <2>2, <2>4, Zenon DEF DiskTypeOK, Records
  <2>9. Asked'  BY <2>3, <2>5 DEF Asked
  <2>10. Fresh'
    <3> SUFFICES ASSUME NEW t \in Waiting
                 PROVE  /\ iswrite' = (io'[t].op = "write")
                        /\ io'[t].op = "read" => io'[t].moved /\ buf' = io'[t].seen
        BY <2>6, Zenon DEF Fresh
    <3>1. t \in Threads /\ io'[t] = mark(t) /\ iswrite = (io[t].op = "write")
          BY <2>5, Zenon DEF Waiting, Fresh
    <3>2. iswrite' = (io'[t].op = "write")  BY <2>1, <2>3, <3>1, Zenon
    <3>3. io'[t].op = "read" => ~iswrite  BY <2>3, <3>1, Zenon
    <3> QED  BY <2>1, <2>3, <3>1, <3>2, <3>3, Zenon
  <2>11. ReadIsSectors'  BY <2>3, <2>5 DEF ReadIsSectors
  <2> QED  BY <2>4, <2>7, <2>8, <2>9, <2>10, <2>11, Zenon
<1> QED  BY <1>1, <1>2, <1>3, Zenon DEF Card

\* The end of lhd_io: the completion was this thread's, so buffer and lh_result
\* are its own.
LEMMA DoneDiskInv ==
    ASSUME DiskInv, NEW t \in Threads, lhd_io_done(t)
    PROVE  DiskInv'
<1> USE DEF DiskInv
<1> DEFINE again == lh_result = "EIO" /\ io[t].tries < MaxTries
           read == lh_result = "ok" /\ io[t].op = "read"
           r == [io[t] EXCEPT !.at = IF again THEN "try" ELSE "return",
                              !.tries = IF again THEN @ + 1 ELSE @,
                              !.result = lh_result,
                              !.data = IF read THEN buf ELSE @,
                              !.resid = IF read THEN 0 ELSE @]
<1>1. /\ io[t].at = "wait" /\ lh_done > 0 /\ lh_done' = lh_done - 1 /\ lh_clear' = lh_clear + 1
      /\ io' = [io EXCEPT ![t] = r]
      /\ UNCHANGED <<lh_result, stat, sect, iswrite, buf, disk>>
      BY ZenonT(30) DEF lhd_io_done, registers
<1>2. lh_done = 1 /\ lh_clear = 0 /\ stat = "idle" /\ Waiting = {t}  BY <1>1 DEF OneUser, Waiting
<1>3. io[t] \in Records /\ buf \in Values /\ lh_result \in {"ok", "EIO"}  BY Zenon DEF DiskTypeOK
<1>4. (IF again THEN io[t].tries + 1 ELSE io[t].tries) \in 0..MaxTries  BY <1>3, LhdAssumption DEF Records
<1>5. r \in Records  BY <1>3, <1>4, ZenonT(30) DEF Records
<1>6. /\ r.at = (IF again THEN "try" ELSE "return") /\ r.result = lh_result /\ r.op = io[t].op
      /\ r.sector = io[t].sector /\ r.moved = io[t].moved /\ r.seen = io[t].seen
      /\ r.data = (IF read THEN buf ELSE io[t].data) /\ r.resid = (IF read THEN 0 ELSE io[t].resid)
      BY <1>3, Zenon DEF Records
<1> HIDE DEF r
<1>7. io' \in [Threads -> Records] /\ \A u \in Threads : io'[u] = IF u = t THEN r ELSE io[u]
      BY <1>1, <1>5, Zenon
<1>8. Waiting' = {}  BY <1>2, <1>6, <1>7, ZenonT(60) DEF Waiting
<1>9. OneUser'  BY <1>1, <1>2, <1>8 DEF OneUser
<1>10. DiskTypeOK'  BY <1>1, <1>2, <1>7 DEF DiskTypeOK, Records
<1>11. Asked'  BY <1>1, <1>6, <1>7, ZenonT(60) DEF Asked
<1>12. Fresh'  BY <1>8, Zenon DEF Fresh
<1>13. ReadIsSectors'
  <2>1. t \in Waiting  BY <1>2, Zenon
  <2>2. r.at = "return" /\ r.op = "read" /\ r.result = "ok" => r.moved /\ r.data = r.seen
        BY <1>2, <1>6, <2>1, Zenon DEF Fresh
  <2> QED  BY <1>7, <2>2, ZenonT(60) DEF ReadIsSectors
<1> QED  BY <1>7, <1>9, <1>10, <1>11, <1>12, <1>13, Zenon

\* Every step of threads, card and handler keeps it.
LEMMA NextDiskInv == ASSUME DiskInv, [DiskNext]_diskvars PROVE DiskInv'
<1>1. CASE UNCHANGED diskvars
  BY <1>1, Zenon DEF diskvars, DiskInv, DiskTypeOK, OneUser, Asked, Fresh, ReadIsSectors, Waiting
<1>2. CASE DiskNext
  BY <1>2, CallDiskInv, StartDiskInv, CardDiskInv, DoneDiskInv, Zenon DEF DiskNext
<1> QED  BY <1>1, <1>2, Zenon

\* In terms of OneUser the semaphores count as OneCompletion says.
LEMMA Counted == ASSUME DiskInv PROVE OneCompletion
<1>1. CASE Waiting = {}
  <2>1. Cardinality(Waiting) = 0  BY <1>1, FS_EmptySet, Zenon
  <2> QED  BY <1>1, <2>1 DEF DiskInv, OneUser, OneCompletion, Waiting
<1>2. CASE \E t \in Threads : Waiting = {t}
  <2>1. Cardinality(Waiting) = 1  BY <1>2, FS_Singleton, Zenon
  <2> QED  BY <1>2, <2>1 DEF DiskInv, OneUser, OneCompletion, Waiting
<1> QED  BY <1>1, <1>2, Zenon DEF DiskInv, OneUser

\* For any number of threads and tries: lhd_io returns on its own completion
\* only, and a read that succeeds, after failures or at once, returns the sector.
THEOREM LhdDiskSound == DiskSpec => []DiskSound
<1>1. DiskInit => DiskInv  BY InitDiskInv, Zenon
<1>2. DiskInv /\ [DiskNext]_diskvars => DiskInv'  BY NextDiskInv, Zenon
<1>3. DiskInv => DiskSound  BY Counted, Zenon DEF DiskInv, DiskSound
<1> QED  BY <1>1, <1>2, <1>3, PTL DEF DiskSpec

-----------------------------------------------------------------------------
\* Proof of OneWrite for any threads.  Senders have been through P(cs_wsem);
\* Posting is the handler between lser_irq and V(cs_wsem).
Senders == {t \in Writers : out[t] = "send"}
Posting == irq.at = "start" /\ irq.write

OutOK ==
    /\ sending \in BOOLEAN /\ wactive \in BOOLEAN /\ ls_wbusy \in BOOLEAN
    /\ irq \in [at : {"idle", "start", "input"}, write : BOOLEAN, char : Nat] /\ typed \in Nat
    /\ ls_lock \in Pollers \cup {Nobody}
    /\ out \in [Writers \cup Pollers -> {"idle", "P", "send", "pollready", "polldone", "pollsecond"}]
    /\ \A t \in Writers : out[t] \in {"idle", "P", "send"}
    /\ \A t \in Pollers : out[t] \in {"idle", "pollready", "polldone", "pollsecond"}

\* The permission is in one place.
OneToken ==
    \/ cs_wsem = 1 /\ Senders = {} /\ ~ls_wbusy /\ ~Posting
    \/ cs_wsem = 0 /\ (\E t \in Writers : Senders = {t}) /\ ~ls_wbusy /\ ~Posting
    \/ cs_wsem = 0 /\ Senders = {} /\ ls_wbusy /\ ~Posting
    \/ cs_wsem = 0 /\ Senders = {} /\ ~ls_wbusy /\ Posting

\* What the port does it does for the write under way or for a poller, which
\* holds ls_lock; a poller that came during a write finds it still under way.
PortOK ==
    /\ ~(sending /\ wactive)
    /\ sending \/ wactive => ls_wbusy \/ \E t \in Pollers : out[t] = "polldone"
    /\ \A t \in Pollers : out[t] # "idle" => ls_lock = t
    /\ \A t \in Pollers : out[t] = "polldone" => ~ls_wbusy
    /\ \A t \in Pollers : out[t] \in {"pollready", "pollsecond"} => ls_wbusy

OutInv == OutOK /\ OneToken /\ PortOK /\ ~panicked /\ ~lost

\* It holds before anything is printed.
LEMMA InitOutInv == Init => OutInv
<1> SUFFICES ASSUME Init PROVE OutInv  OBVIOUS
<1>1. \A t \in Writers \cup Pollers : out[t] = "idle"  BY Zenon DEF Init
<1>2. OutOK  BY <1>1, Zenon DEF Init, OutOK, NoIrq
<1>3. OneToken  BY <1>1, Zenon DEF Init, OneToken, Senders, Posting, NoIrq
<1>4. PortOK  BY <1>1, Zenon DEF Init, PortOK
<1> QED  BY <1>2, <1>3, <1>4, Zenon DEF Init, OutInv

\* The port and the input side.
LEMMA PortOutInv ==
    ASSUME OutInv, PortDone \/ Type \/ con_input \/ \E r \in Readers :
               con_io(r) \/ P_rsem(r) \/ getch_take(r) \/ getch_advance(r)
    PROVE  OutInv'
<1> USE DEF OutInv
<1>1. CASE PortDone
  <2> USE <1>1 DEF PortDone, input
  <2>1. OutOK'  BY Zenon DEF OutOK
  <2>2. OneToken'  BY Zenon DEF OneToken, Senders, Posting
  <2>3. PortOK'  BY Zenon DEF PortOK
  <2> QED  BY <2>1, <2>2, <2>3, Zenon
<1>2. CASE Type
  <2> USE <1>2 DEF Type, port
  <2> QED  BY DEF OutOK, OneToken, Senders, Posting, PortOK
<1>3. CASE con_input
  <2> USE <1>3 DEF con_input, port
  <2>1. irq' = NoIrq /\ ~Posting /\ ~Posting'  BY Zenon DEF Posting, NoIrq
  <2>2. OutOK'  BY <2>1 DEF OutOK, NoIrq
  <2>3. OneToken'  BY <2>1, Zenon DEF OneToken, Senders
  <2> QED  BY <2>2, <2>3, Zenon DEF PortOK
<1>4. CASE \E r \in Readers : con_io(r) \/ P_rsem(r) \/ getch_take(r) \/ getch_advance(r)
  <2>1. UNCHANGED <<port, typed, ls_lock, ls_wbusy, irq, cs_wsem, out, panicked>>
        BY <1>4, Zenon DEF con_io, P_rsem, getch_take, getch_advance
  <2> QED  BY <2>1, ZenonT(60) DEF port, OutOK, OneToken, Senders, Posting, PortOK
<1> QED  BY <1>1, <1>2, <1>3, <1>4, Zenon

\* The handler takes the permission from the write under way and posts it.
LEMMA HandlerOutInv ==
    ASSUME OutInv, lser_irq \/ con_start
    PROVE  OutInv'
<1> USE DEF OutInv
<1>1. CASE lser_irq
  <2> USE <1>1 DEF lser_irq
  <2>1. ~Posting  BY Zenon DEF Posting, NoIrq
  <2>2. \A t \in Pollers : out[t] = "idle"  BY ConsoleAssumption, Zenon DEF PortOK
  <2>3. wactive => ls_wbusy  BY <2>2, Zenon DEF PortOK
  <2>4. irq'.at = "start" /\ irq'.write = wactive /\ Senders' = Senders  BY Zenon DEF Senders
  <2>5. OutOK'  BY Zenon DEF OutOK
  <2>6. CASE wactive
    <3>1. ls_wbusy /\ ~ls_wbusy' /\ Posting'  BY <2>3, <2>4, <2>6, Zenon DEF Posting
    <3>2. OneToken'  BY <2>4, <3>1, Zenon DEF OneToken
    <3>3. PortOK'  BY <2>2, <2>6, Zenon DEF PortOK
    <3> QED  BY <2>5, <3>2, <3>3, Zenon
  <2>7. CASE ~wactive
    <3>1. ls_wbusy' = ls_wbusy /\ ~Posting' /\ wactive' = wactive  BY <2>4, <2>7, Zenon DEF Posting, OutOK
    <3>2. OneToken'  BY <2>1, <2>4, <3>1 DEF OneToken
    <3>3. PortOK'  BY <3>1 DEF PortOK
    <3> QED  BY <2>5, <3>2, <3>3, Zenon
  <2> QED  BY <2>6, <2>7, Zenon
<1>2. CASE con_start
  <2> USE <1>2 DEF con_start, port, input
  <2>1. irq'.at = "input" /\ ~Posting' /\ Senders' = Senders  BY Zenon DEF OutOK, Posting, Senders
  <2>2. OutOK'  BY Zenon DEF OutOK
  <2>3. OneToken'  BY <2>1 DEF OneToken, Posting
  <2>4. PortOK'  BY Zenon DEF PortOK
  <2> QED  BY <2>2, <2>3, <2>4, Zenon
<1> QED  BY <1>1, <1>2, Zenon

\* Threads that print by interrupts pass the permission from cs_wsem to the port.
LEMMA WriterOutInv ==
    ASSUME OutInv, NEW t \in Writers, putch_intr(t) \/ P_wsem(t) \/ lser_write(t)
    PROVE  OutInv'
<1> USE DEF OutInv
<1>1. t \notin Pollers  BY ConsoleAssumption, Zenon
<1>2. CASE putch_intr(t)
  <2> USE <1>2 DEF putch_intr, port, input
  <2>1. OutOK'  BY <1>1, Zenon DEF OutOK
  <2>2. Senders' = Senders /\ Posting' = Posting  BY Zenon DEF OutOK, Senders, Posting
  <2>3. OneToken'  BY <2>2, Zenon DEF OneToken
  <2>4. \A p \in Pollers : out'[p] = out[p]  BY <1>1, Zenon DEF OutOK
  <2>5. PortOK'  BY <2>4, Zenon DEF PortOK
  <2> QED  BY <2>1, <2>3, <2>5, Zenon
<1>3. CASE P_wsem(t)
  <2> USE <1>3 DEF P_wsem, port, input
  <2>1. OutOK'  BY <1>1, Zenon DEF OutOK
  <2>2. Senders' = Senders \cup {t} /\ Posting' = Posting  BY Zenon DEF OutOK, Senders, Posting
  <2>3. cs_wsem = 1 /\ Senders = {} /\ ~ls_wbusy /\ ~Posting  BY DEF OneToken
  <2>4. cs_wsem' = 0 /\ Senders' = {t}  BY <2>2, <2>3
  <2>5. OneToken'  BY <2>2, <2>3, <2>4, Zenon DEF OneToken
  <2>6. \A p \in Pollers : out'[p] = out[p]  BY <1>1, Zenon DEF OutOK
  <2>7. PortOK'  BY <2>6, Zenon DEF PortOK
  <2> QED  BY <2>1, <2>5, <2>7, Zenon
<1>4. CASE lser_write(t)
  <2> USE <1>4 DEF lser_write, input
  <2>1. t \in Senders  BY Zenon DEF Senders
  <2>2. cs_wsem = 0 /\ Senders = {t} /\ ~ls_wbusy /\ ~Posting  BY <2>1, Zenon DEF OneToken
  <2>3. \A p \in Pollers : out[p] = "idle"  BY ConsoleAssumption, Zenon DEF PortOK
  <2>4. ~sending /\ ~wactive  BY <2>2, <2>3, Zenon DEF PortOK
  <2>5. ls_wbusy' /\ sending' = TRUE /\ ~lost' /\ ~wactive' /\ ~panicked' /\ out' = [out EXCEPT ![t] = "idle"]
        BY <2>2, <2>4, Zenon DEF Send
  <2>6. OutOK'  BY <1>1, <2>2, <2>5, Zenon DEF OutOK
  <2>7. Senders' = {} /\ Posting' = Posting
        BY <2>2, <2>5, Zenon DEF OutOK, Senders, Posting
  <2>8. OneToken'  BY <2>2, <2>5, <2>7, Zenon DEF OneToken
  <2>9. \A p \in Pollers : out'[p] = "idle"  BY <1>1, <2>3, <2>5, Zenon DEF OutOK
  <2>10. PortOK'  BY <2>5, <2>9, Zenon DEF PortOK
  <2> QED  BY <2>5, <2>6, <2>8, <2>10, Zenon
<1> QED  BY <1>2, <1>3, <1>4, Zenon

\* A thread that prints by polling leaves the permission where it is.
LEMMA PollerOutInv ==
    ASSUME OutInv, NEW t \in Pollers, lser_writepolled(t) \/ poll_ready(t) \/ poll_done(t)
    PROVE  OutInv'
<1> USE DEF OutInv
<1>1. t \notin Writers /\ t # Nobody  BY ConsoleAssumption, Zenon
<1>2. UNCHANGED <<ls_wbusy, irq, cs_wsem, panicked, typed>> /\ out' = [out EXCEPT ![t] = out'[t]]
      BY Zenon DEF OutOK, lser_writepolled, poll_ready, poll_done, input
<1>3. out'[t] \in {"idle", "pollready", "polldone", "pollsecond"}
      BY Zenon DEF OutOK, lser_writepolled, poll_ready, poll_done
<1>4. /\ Senders' = Senders /\ Posting' = Posting
      /\ \A p \in Pollers \ {t} : out'[p] = out[p]
      BY <1>1, <1>2 DEF OutOK, Senders, Posting
<1>5. OneToken'  BY <1>2, <1>4, Zenon DEF OneToken
<1>6. CASE lser_writepolled(t)
  <2> USE <1>6 DEF lser_writepolled
  <2>1. \A p \in Pollers : out[p] = "idle"  BY ConsoleAssumption, Zenon DEF PortOK
  <2>2. \A p \in Pollers \ {t} : out'[p] = "idle"  BY <1>4, <2>1, Zenon
  <2>3. CASE ls_wbusy
    <3>1. out'[t] = "pollready" /\ UNCHANGED port  BY <2>3, Zenon DEF OutOK
    <3>2. OutOK'  BY <1>1, <1>2, <1>3, <3>1, Zenon DEF OutOK, port
    <3>3. PortOK'  BY <1>2, <2>2, <2>3, <3>1, Zenon DEF PortOK, port
    <3> QED  BY <1>2, <1>5, <3>1, <3>2, <3>3 DEF port
  <2>4. CASE ~ls_wbusy
    <3>1. ~sending /\ ~wactive  BY <2>1, <2>4, Zenon DEF PortOK
    <3>2. out'[t] = "polldone" /\ sending' = TRUE /\ wactive' = wactive /\ ~lost'  BY <2>4, <3>1, Zenon DEF OutOK, Send
    <3>3. OutOK'  BY <1>1, <1>2, <1>3, <3>2, Zenon DEF OutOK
    <3>4. PortOK'  BY <1>2, <2>2, <2>4, <3>1, <3>2 DEF PortOK
    <3> QED  BY <1>2, <1>5, <3>2, <3>3, <3>4
  <2> QED  BY <2>3, <2>4, Zenon
<1>7. CASE poll_ready(t)
  <2> USE <1>7 DEF poll_ready
  <2>1. ls_wbusy /\ ~sending /\ ls_lock = t  BY Zenon DEF PortOK
  <2>2. out'[t] = "pollsecond" /\ sending' = TRUE /\ ~wactive' /\ wactive' \in BOOLEAN /\ ~lost'
        BY <2>1, Zenon DEF OutOK, Send
  <2>3. OutOK'  BY <1>1, <1>2, <1>3, <2>2, Zenon DEF OutOK
  <2>4. PortOK'  BY <1>2, <1>4, <2>1, <2>2 DEF PortOK
  <2> QED  BY <1>2, <1>5, <2>2, <2>3, <2>4
<1>8. CASE poll_done(t)
  <2> USE <1>8 DEF poll_done
  <2>1. ls_lock = t /\ ~sending /\ out'[t] = "idle"  BY Zenon DEF PortOK, OutOK
  <2>2. \A p \in Pollers : out'[p] = "idle"  BY <1>4, <2>1, Zenon DEF PortOK
  <2>3. wactive' => ls_wbusy  BY Zenon DEF PortOK
  <2>4. OutOK'  BY <1>1, <1>2, <1>3, <2>1, Zenon DEF OutOK
  <2>5. PortOK'  BY <1>2, <2>1, <2>2, <2>3 DEF PortOK
  <2> QED  BY <1>2, <1>5, <2>4, <2>5
<1> QED  BY <1>6, <1>7, <1>8, Zenon

\* Every step keeps it.
LEMMA NextOutInv == OutInv /\ [Next]_vars => OutInv'
<1> SUFFICES ASSUME OutInv, [Next]_vars PROVE OutInv'  OBVIOUS
<1>1. CASE UNCHANGED vars
  <2>1. UNCHANGED <<sending, wactive, lost, typed, ls_lock, ls_wbusy, irq, cs_wsem, out, panicked>>
        BY <1>1, Zenon DEF vars, port
  <2>2. OutOK'  BY <2>1, Zenon DEF OutInv, OutOK
  <2>3. UNCHANGED <<Senders, Posting>>  BY <2>1, Zenon DEF Senders, Posting
  <2>4. OneToken'  BY <2>1, <2>3, Zenon DEF OutInv, OneToken
  <2>5. PortOK'  BY <2>1, Zenon DEF OutInv, PortOK
  <2> QED  BY <2>1, <2>2, <2>4, <2>5, Zenon DEF OutInv
<1>2. CASE Next
  BY <1>2, PortOutInv, HandlerOutInv, WriterOutInv, PollerOutInv, Zenon DEF Next
<1> QED  BY <1>1, <1>2, Zenon

\* It gives the property.
LEMMA OutInvOneWrite == OutInv => OneWrite
<1> SUFFICES ASSUME OutInv PROVE OneWrite  OBVIOUS
<1>1. Cardinality({}) = 0 /\ \A t \in Writers : Cardinality({t}) = 1  BY FS_EmptySet, FS_Singleton, Zenon
<1>2. cs_wsem + Cardinality(Senders) + (IF ls_wbusy THEN 1 ELSE 0) + (IF Posting THEN 1 ELSE 0) = 1
      BY <1>1 DEF OutInv, OneToken
<1> QED  BY <1>2, Zenon DEF OutInv, OneWrite, Senders, Posting

\* Whatever threads print, by interrupts or by polling, on whatever CPUs: there
\* is one permission to write, lser_write does not panic and no character is
\* lost in the port (console.c putch_intr and con_start, lser.c).
THEOREM ConsoleOneWrite == Spec => []OneWrite
<1>1. Init => OutInv  BY InitOutInv, Zenon
<1>2. OutInv /\ [Next]_vars => OutInv'  BY NextOutInv, Zenon
<1>3. OutInv => OneWrite  BY OutInvOneWrite, Zenon
<1> QED  BY <1>1, <1>2, <1>3, PTL DEF Spec

-----------------------------------------------------------------------------
\* Proof of ConsoleSound when every reader goes through con_io.  Held: a reader
\* has been through P(cs_rsem) and has not moved the tail yet.  Count: the
\* characters in the ring, of which Slot(0) is the oldest.
Held == IF \E r \in Readers : in[r].at \in {"take", "advance"} THEN 1 ELSE 0
Count == cs_rsem + Held
Slot(i) == IF tail + i < Size THEN tail + i ELSE tail + i - Size

InOK ==
    /\ cs_rsem \in Nat /\ head \in 0..Size-1 /\ tail \in 0..Size-1
    /\ typed \in 0..MaxTyped /\ ractive \in BOOLEAN /\ irq.char \in 0..MaxTyped
    /\ ring \in [0..Size-1 -> 0..MaxTyped]
    /\ userlock \in Readers \cup {Nobody}
    /\ in \in [Readers -> [at : {"idle", "P", "take", "advance"}, char : 0..MaxTyped, next : 0..Size-1]]
    /\ got \in Seq(0..MaxTyped)

\* The reader past con_io holds the lock; what it has taken is still the oldest.
OneReader ==
    \A r \in Readers : /\ in[r].at # "idle" => userlock = r
                       /\ in[r].at = "advance" => in[r].char = ring[tail] /\ in[r].next = Slot(1)

RingOK == Count <= Size - 1 /\ (tail + Count = head \/ tail + Count = head + Size)

\* What was typed before m has left the port.
Below(m) == (\A i \in 0..Count-1 : ring[Slot(i)] < m) /\ (\A k \in 1..Len(got) : got[k] < m)

\* Everywhere, older characters are ahead: returned, in the ring, with the
\* handler, in the port.
Ordered ==
    /\ InOrder
    /\ \A i, j \in 0..Count-1 : i < j => ring[Slot(i)] < ring[Slot(j)]
    /\ \A k \in 1..Len(got), i \in 0..Count-1 : got[k] < ring[Slot(i)]
    /\ Below(typed + 1) /\ irq.char <= typed
    /\ irq.char # 0 => Below(irq.char)
    /\ ractive => Below(typed) /\ irq.char < typed

InInv == InOK /\ OneReader /\ RingOK /\ Ordered

\* It holds before anything is typed.
LEMMA InitInInv == Init => InInv
<1> SUFFICES ASSUME Init PROVE InInv  OBVIOUS
<1> USE ConsoleAssumption DEF Init
<1>1. InOK
  <2>1. 0 \in 0..Size-1 /\ 0 \in 0..MaxTyped /\ 0 \in Nat  OBVIOUS
  <2>2. in \in [Readers -> [at : {"idle", "P", "take", "advance"}, char : 0..MaxTyped, next : 0..Size-1]]
    BY <2>1
  <2>3. ring \in [0..Size-1 -> 0..MaxTyped] /\ irq.char = 0 /\ got \in Seq(0..MaxTyped)
    BY <2>1 DEF NoIrq
  <2> QED  BY <2>1, <2>2, <2>3, Zenon DEF InOK
<1>2. Held = 0 /\ Count = 0 /\ \A r \in Readers : in[r].at = "idle"  BY DEF Held, Count
<1>3. OneReader  BY <1>2, Zenon DEF OneReader
<1>4. RingOK  BY <1>2 DEF RingOK
<1>5. irq.char = 0 /\ Len(got) = 0  BY Zenon DEF NoIrq
<1>6. Ordered  BY <1>2, <1>5 DEF Ordered, InOrder, Below
<1> QED  BY <1>1, <1>3, <1>4, <1>6, Zenon DEF InInv

\* Steps of the output side.
LEMMA OutputInInv ==
    ASSUME InInv, UNCHANGED <<typed, ractive, cs_rsem, head, tail, ring, userlock, in, got>>, irq'.char = irq.char
    PROVE  InInv'
<1> USE DEF InInv
<1>1. Held' = Held  BY Zenon DEF Held
<1>2. Count' = Count /\ \A i \in Nat : Slot(i)' = Slot(i)  BY <1>1, Zenon DEF Count, Slot
<1>3. InOK'  BY Zenon DEF InOK
<1>4. OneReader' /\ RingOK'  BY <1>2, Zenon DEF OneReader, RingOK, Slot
<1>5. Ordered'  BY <1>2, ZenonT(60) DEF Ordered, InOrder, Below, Slot
<1> QED  BY <1>3, <1>4, <1>5, Zenon

\* A key is pressed; lser_irq fetches the character: it is the newest.
LEMMA FetchInInv ==
    ASSUME InInv, Type \/ lser_irq
    PROVE  InInv'
<1> USE DEF InInv
<1>0. UNCHANGED <<cs_rsem, head, tail, ring, userlock, in, got>>  BY Zenon DEF Type, lser_irq
<1>1. Held' = Held  BY <1>0, Zenon DEF Held
<1>2. Count' = Count /\ \A i \in Nat : Slot(i)' = Slot(i)  BY <1>0, <1>1, Zenon DEF Count, Slot
<1>3. OneReader' /\ RingOK'  BY <1>0, <1>2, Zenon DEF OneReader, RingOK, Slot
<1>4. Count \in Nat /\ \A i \in 0..Count-1 : Slot(i) \in 0..Size-1 /\ ring[Slot(i)] \in Nat
      BY ConsoleAssumption, SMTT(30) DEF InOK, RingOK, Slot, Count, Held
<1>5. \A k \in 1..Len(got) : got[k] \in Nat  BY ConsoleAssumption, SMTT(30) DEF InOK
<1>6. \A m \in Nat : Below(m)' <=> Below(m)  BY <1>0, <1>2, Zenon DEF Below, Slot
<1>7. \A m, n \in Nat : Below(m) /\ m <= n => Below(n)  BY <1>4, <1>5, SMTT(30) DEF Below
<1>8. PICK n \in Nat : n = typed  BY DEF InOK
<1>9. PICK c \in Nat : c = irq.char  BY DEF InOK
<1>10. Below(n + 1)' /\ (c # 0 => Below(c)') /\ (ractive => Below(n)')  BY <1>6, <1>8, <1>9, SMTT(30) DEF Ordered
<1>11. /\ InOrder'
       /\ (\A i, j \in 0..Count-1 : i < j => ring[Slot(i)] < ring[Slot(j)])'
       /\ (\A k \in 1..Len(got), i \in 0..Count-1 : got[k] < ring[Slot(i)])'
       BY <1>0, <1>2, ZenonT(60) DEF Ordered, InOrder, Slot
<1>12. CASE Type
  <2>1. typed' = n + 1 /\ ractive' = TRUE /\ irq'.char = c /\ typed < MaxTyped  BY <1>8, <1>9, <1>12, Zenon DEF Type
  <2>0. typed' \in 0..MaxTyped /\ ractive' \in BOOLEAN /\ irq'.char \in 0..MaxTyped
        BY <1>8, <1>9, <2>1, ConsoleAssumption DEF InOK
  <2>2. InOK'  BY <1>0, <2>0, Zenon DEF InOK
  <2>3. Below(n + 2)'  BY <1>6, <1>7, <1>10
  <2>4. Below(typed + 1)' /\ Below(typed)' /\ (irq.char # 0 => Below(irq.char))'
        BY <1>10, <2>1, <2>3 DEF Below
  <2>5. (irq.char <= typed)' /\ (irq.char < typed)'  BY <1>8, <1>9, <2>1 DEF Ordered
  <2>6. Ordered'  BY <1>11, <2>4, <2>5, Zenon DEF Ordered
  <2> QED  BY <1>3, <2>2, <2>6, Zenon
<1>13. CASE lser_irq
  <2>1. typed' = n /\ ractive' = FALSE /\ irq'.char = IF ractive THEN n ELSE 0  BY <1>8, <1>13, Zenon DEF lser_irq
  <2>7. typed \in 0..MaxTyped  BY Zenon DEF InOK
  <2>0. typed' \in 0..MaxTyped /\ ractive' \in BOOLEAN /\ irq'.char \in 0..MaxTyped
    <3>1. 0 \in 0..MaxTyped  BY ConsoleAssumption
    <3>2. CASE ractive  BY <1>8, <2>1, <2>7, <3>2, Zenon
    <3>3. CASE ~ractive  BY <1>8, <2>1, <2>7, <3>1, <3>3, Zenon
    <3> QED  BY <3>2, <3>3, Zenon
  <2>2. InOK'  BY <1>0, <2>0, Zenon DEF InOK
  <2>3. Below(typed + 1)' /\ (irq.char # 0 => Below(irq.char))'  BY <1>10, <2>1, Zenon DEF Below
  <2>4. (irq.char <= typed)'  BY <2>1
  <2>5. Ordered'  BY <1>11, <2>1, <2>3, <2>4, Zenon DEF Ordered
  <2> QED  BY <1>3, <2>2, <2>5, Zenon
<1> QED  BY <1>12, <1>13, Zenon

\* The next place of the ring, without division.
LEMMA NextSlot == ASSUME NEW x \in 0..Size-1 PROVE (x + 1) % Size = IF x + 1 < Size THEN x + 1 ELSE 0
BY ConsoleAssumption

\* The slots of the ring in use are different ones.
LEMMA RingSlots ==
    ASSUME InInv
    PROVE  /\ Count \in Nat /\ Held \in {0, 1}
           /\ \A i \in 0..Size-1 : Slot(i) \in 0..Size-1
           /\ \A i, j \in 0..Size-1 : Slot(i) = Slot(j) => i = j
           /\ Slot(0) = tail /\ Slot(Count) = head
<1> USE ConsoleAssumption DEF InInv
<1>1. Held \in {0, 1} /\ Count \in Nat  BY DEF Held, Count, InOK
<1> QED  BY <1>1 DEF InOK, RingOK, Slot

\* con_input: the character goes behind the others, unless the ring is full.
LEMMA InputInInv ==
    ASSUME InInv, OutInv, con_input
    PROVE  InInv'
<1> USE DEF InInv
<1>0. /\ UNCHANGED <<typed, ractive, tail, userlock, in, got>> /\ irq'.char = 0 /\ irq.at = "input"
      BY Zenon DEF con_input, NoIrq
<1>1. CASE UNCHANGED <<head, ring, cs_rsem>>
  <2>1. Held' = Held  BY <1>0, Zenon DEF Held
  <2>2. Count' = Count /\ \A i \in Nat : Slot(i)' = Slot(i)  BY <1>0, <1>1, <2>1, Zenon DEF Count, Slot
  <2>3. InOK'  BY <1>0, <1>1, ConsoleAssumption, SMTT(30) DEF InOK
  <2>4. OneReader' /\ RingOK'  BY <1>0, <1>1, <2>2, Zenon DEF OneReader, RingOK, Slot
  <2>5. Ordered'  BY <1>0, <1>1, <2>2, <2>3, SMTT(30) DEF Ordered, InOrder, Below, Slot, InOK
  <2> QED  BY <2>3, <2>4, <2>5, Zenon
<1>2. CASE ~UNCHANGED <<head, ring, cs_rsem>>
  <2>1. /\ head' = (head + 1) % Size /\ head' # tail /\ irq.char # 0
        /\ ring' = [ring EXCEPT ![head] = irq.char] /\ cs_rsem' = cs_rsem + 1
        BY <1>2, Zenon DEF con_input
  <2>2. PICK c \in 0..MaxTyped : c = irq.char  BY Zenon DEF InOK
  <2>3. head \in 0..Size-1 /\ tail \in 0..Size-1 /\ cs_rsem \in Nat /\ Size \in Nat \ {0, 1}
        BY ConsoleAssumption, Zenon DEF InOK
  <2>4. head' = IF head + 1 < Size THEN head + 1 ELSE 0  BY <2>1, <2>3, NextSlot, Zenon
  <2>5. Held' = Held  BY <1>0, Zenon DEF Held
  <2>6. Count' = Count + 1 /\ Count \in Nat  BY <2>1, <2>3, <2>5, RingSlots DEF Count
  <2>7. \A i \in Nat : Slot(i)' = Slot(i)  BY <1>0, Zenon DEF Slot
  <2>8. RingOK' /\ Count < Size - 1  BY <1>0, <2>1, <2>3, <2>4, <2>6 DEF RingOK
  <2>9. ring' \in [0..Size-1 -> 0..MaxTyped] /\ ring'[head] = c /\ \A x \in (0..Size-1) \ {head} : ring'[x] = ring[x]
        BY <2>1, <2>2, <2>3, Zenon DEF InOK
  <2>10. head' \in 0..Size-1 /\ cs_rsem' \in Nat /\ irq'.char \in 0..MaxTyped
         BY <1>0, <2>1, <2>3, <2>4, ConsoleAssumption
  <2>11. InOK'  BY <1>0, <2>9, <2>10, Zenon DEF InOK
  <2>12. ring'[Slot(Count)] = c /\ \A i \in 0..Count-1 : Slot(i) \in 0..Size-1 /\ ring'[Slot(i)] = ring[Slot(i)]
    <3>1. Count \in 0..Size-1 /\ \A i \in 0..Count-1 : i \in 0..Size-1 /\ i # Count  BY <2>3, <2>6, <2>8
    <3>2. Slot(Count) = head /\ \A i \in 0..Count-1 : Slot(i) \in 0..Size-1 /\ Slot(i) # Slot(Count)
          BY <3>1, RingSlots, Zenon
    <3> QED  BY <2>9, <3>2, Zenon
  <2>13. OneReader'
    <3> SUFFICES ASSUME NEW r \in Readers, in[r].at = "advance" PROVE ring'[tail] = ring[tail]
        BY <1>0, <2>7, Zenon DEF OneReader, Slot
    <3>1. Count > 0  BY RingSlots, <2>3, SMTT(30) DEF Held, Count
    <3> QED  BY <2>6, <2>12, <3>1, RingSlots
  <2>14. \A i \in 0..Count-1 : ring[Slot(i)] < c  BY <2>1, <2>2, Zenon DEF Ordered, Below
  <2>15. \A i \in 0..Count : ring'[Slot(i)] = IF i = Count THEN c ELSE ring[Slot(i)]  BY <2>6, <2>12
  <2>16. Ordered'
    <3>1. (\A i, j \in 0..Count-1 : i < j => ring[Slot(i)] < ring[Slot(j)])'
          BY <2>6, <2>7, <2>14, <2>15 DEF Ordered, Slot
    <3>2. (\A k \in 1..Len(got), i \in 0..Count-1 : got[k] < ring[Slot(i)])'
          BY <1>0, <2>1, <2>2, <2>6, <2>7, <2>15, SMTT(30) DEF Ordered, Below, Slot
    <3>3. \A m : Below(m) /\ c < m => Below(m)'
          BY <1>0, <2>6, <2>7, <2>15 DEF Below, Slot
    <3>4. c <= typed /\ (ractive => c < typed)  BY <2>2, Zenon DEF Ordered
    <3>6. PICK n \in Nat : n = typed  BY DEF InOK
    <3>7. Below(n + 1)' /\ (ractive => Below(n)')  BY <2>2, <3>3, <3>4, <3>6 DEF Ordered
    <3>5. Below(typed + 1)' /\ (ractive => Below(typed))'  BY <1>0, <3>6, <3>7, Zenon DEF Below
    <3> QED  BY <1>0, <3>1, <3>2, <3>4, <3>5 DEF Ordered, InOrder, InOK
  <2> QED  BY <2>8, <2>11, <2>13, <2>16, Zenon
<1> QED  BY <1>1, <1>2, Zenon

\* con_io, P(cs_rsem) and the first half of getch_intr: the ring stays as it is.
LEMMA ReadInInv ==
    ASSUME InInv, Locking = Readers, NEW r \in Readers, con_io(r) \/ P_rsem(r) \/ getch_take(r)
    PROVE  InInv'
<1> USE DEF InInv
<1> DEFINE Recs == [at : {"idle", "P", "take", "advance"}, char : 0..MaxTyped, next : 0..Size-1]
<1>0. UNCHANGED <<typed, ractive, irq, head, tail, ring, got>>  BY Zenon DEF con_io, P_rsem, getch_take
<1>1. in \in [Readers -> Recs] /\ in[r] \in Recs /\ tail \in 0..Size-1 /\ ring[tail] \in 0..MaxTyped  BY Zenon DEF InOK
<1>2. in' \in [Readers -> Recs] /\ \A q \in Readers \ {r} : in'[q] = in[q]
  <2>1. (tail + 1) % Size \in 0..Size-1  BY <1>1, NextSlot, ConsoleAssumption
  <2>2. CASE con_io(r) \/ P_rsem(r)
    <3>1. PICK a \in {"P", "take"} : in' = [in EXCEPT ![r] = [in[r] EXCEPT !.at = a]]  BY <2>2, Zenon DEF con_io, P_rsem
    <3>2. [in[r] EXCEPT !.at = a] \in Recs  BY <1>1, Zenon
    <3> QED  BY <1>1, <3>1, <3>2, Zenon
  <2>3. CASE getch_take(r)  BY <1>1, <2>1, <2>3, Zenon DEF getch_take
  <2> QED  BY <2>2, <2>3, Zenon
<1> HIDE DEF Recs
<1>3. /\ userlock' = r /\ cs_rsem' \in Nat /\ in'[r].at # "idle"
      /\ \A q \in Readers \ {r} : in[q].at = "idle"
  <2>1. CASE con_io(r)
    <3>1. userlock = Nobody /\ userlock' = r /\ cs_rsem' = cs_rsem /\ in' = [in EXCEPT ![r].at = "P"]  BY <2>1, Zenon DEF con_io
    <3>2. in'[r].at = "P"  BY <1>1, <3>1, Zenon DEF Recs
    <3> QED  BY <3>1, <3>2, ConsoleAssumption, Zenon DEF OneReader, InOK
  <2>2. CASE P_rsem(r)
    <3>1. userlock' = userlock /\ cs_rsem > 0 /\ cs_rsem' = cs_rsem - 1 /\ in[r].at = "P" /\ in' = [in EXCEPT ![r].at = "take"]
          BY <2>2, Zenon DEF P_rsem
    <3>2. in'[r].at = "take"  BY <1>1, <3>1, Zenon DEF Recs
    <3> QED  BY <3>1, <3>2, SMTT(30) DEF OneReader, InOK
  <2>3. CASE getch_take(r)
    <3>1. userlock' = userlock /\ cs_rsem' = cs_rsem /\ in[r].at = "take" /\ in'[r].at = "advance"
          BY <1>1, <2>3, Zenon DEF getch_take
    <3> QED  BY <3>1, Zenon DEF OneReader, InOK
  <2> QED  BY <2>1, <2>2, <2>3, Zenon
<1>4. Count' = Count
  <2>1. Held = (IF in[r].at \in {"take", "advance"} THEN 1 ELSE 0)  BY <1>3, Zenon DEF Held
  <2>2. Held' = (IF in'[r].at \in {"take", "advance"} THEN 1 ELSE 0)  BY <1>2, <1>3, Zenon DEF Held
  <2>3. CASE con_io(r)
    <3>1. in[r].at = "idle" /\ cs_rsem' = cs_rsem /\ in' = [in EXCEPT ![r].at = "P"]  BY <2>3, Zenon DEF con_io
    <3>2. in'[r].at = "P"  BY <1>1, <3>1, Zenon DEF Recs
    <3> QED  BY <2>1, <2>2, <3>1, <3>2, Zenon DEF Count
  <2>4. CASE P_rsem(r)
    <3>1. cs_rsem' = cs_rsem - 1 /\ in[r].at = "P" /\ in' = [in EXCEPT ![r].at = "take"] /\ cs_rsem \in Nat
          BY <2>4, Zenon DEF P_rsem, InOK
    <3>2. in'[r].at = "take"  BY <1>1, <3>1, Zenon DEF Recs
    <3> QED  BY <2>1, <2>2, <3>1, <3>2 DEF Count
  <2>5. CASE getch_take(r)
    <3>1. cs_rsem' = cs_rsem /\ in[r].at = "take" /\ in'[r].at = "advance"  BY <1>1, <2>5, Zenon DEF getch_take
    <3> QED  BY <2>1, <2>2, <3>1, Zenon DEF Count
  <2> QED  BY <2>3, <2>4, <2>5, Zenon
<1>5. \A i \in Nat : Slot(i)' = Slot(i)  BY <1>0, Zenon DEF Slot
<1>6. InOK'  BY <1>0, <1>2, <1>3, Zenon DEF InOK, Recs
<1>7. OneReader'
  <2>1. \A q \in Readers \ {r} : in'[q].at = "idle"  BY <1>2, <1>3, Zenon
  <2>2. in'[r].at = "advance" => in'[r].char = ring[tail] /\ in'[r].next = Slot(1)
    <3>1. CASE con_io(r) \/ P_rsem(r)
      <4>1. PICK a \in {"P", "take"} : in' = [in EXCEPT ![r].at = a]  BY <3>1, Zenon DEF con_io, P_rsem
      <4> QED  BY <1>1, <4>1, Zenon DEF Recs
    <3>2. CASE getch_take(r)
      <4>1. in'[r].char = ring[tail] /\ in'[r].next = (tail + 1) % Size  BY <1>1, <3>2, Zenon DEF getch_take
      <4>2. Slot(1) = (tail + 1) % Size  BY <1>1, NextSlot, ConsoleAssumption DEF Slot
      <4> QED  BY <4>1, <4>2, Zenon
    <3> QED  BY <3>1, <3>2, Zenon
  <2> QED  BY <1>0, <1>3, <1>5, <2>1, <2>2, Zenon DEF OneReader, Slot
<1>8. RingOK'  BY <1>0, <1>4, Zenon DEF RingOK
<1>9. Ordered'  BY <1>0, <1>4, <1>5, SMTT(30) DEF Ordered, InOrder, Below, Slot
<1> QED  BY <1>6, <1>7, <1>8, <1>9, Zenon

\* The second half of getch_intr: the oldest character leaves the ring.
LEMMA AdvanceInInv ==
    ASSUME InInv, NEW r \in Readers, getch_advance(r)
    PROVE  InInv'
<1> USE DEF InInv
<1> DEFINE Recs == [at : {"idle", "P", "take", "advance"}, char : 0..MaxTyped, next : 0..Size-1]
           g == [at |-> "idle", char |-> 0, next |-> 0]
<1>0. /\ UNCHANGED <<typed, ractive, irq, head, ring, cs_rsem>> /\ in[r].at = "advance"
      /\ tail' = in[r].next /\ got' = Append(got, in[r].char) /\ in' = [in EXCEPT ![r] = g]
      /\ userlock' = IF userlock = r THEN Nobody ELSE userlock
      BY Zenon DEF getch_advance
<1>1. userlock = r /\ in[r].char = ring[tail] /\ in[r].next = Slot(1)  BY <1>0, Zenon DEF OneReader
<1>2. in \in [Readers -> Recs] /\ tail \in 0..Size-1 /\ ring[tail] \in 0..MaxTyped /\ cs_rsem \in Nat
      /\ got \in Seq(0..MaxTyped) /\ Size \in Nat \ {0, 1} /\ g \in Recs
      BY ConsoleAssumption, SMTT(30) DEF InOK
<1>3. in' \in [Readers -> Recs] /\ in'[r].at = "idle" /\ \A q \in Readers \ {r} : in'[q] = in[q]  BY <1>0, <1>2, Zenon
<1> HIDE DEF Recs, g
<1>4. \A q \in Readers : in'[q].at = "idle"  BY <1>1, <1>3, Zenon DEF OneReader
<1>5. Held = 1 /\ Held' = 0  BY <1>0, <1>4, Zenon DEF Held
<1>6. Count \in Nat /\ Count >= 1 /\ Count' = Count - 1  BY <1>0, <1>2, <1>5 DEF Count
<1>7. PICK n \in Nat : Count = n + 1 /\ Count' = n  BY <1>6
<1>8. tail' = (IF tail + 1 < Size THEN tail + 1 ELSE 0) /\ tail' \in 0..Size-1  BY <1>0, <1>1, <1>2 DEF Slot
<1>9. RingOK' /\ n < Size - 1  BY <1>0, <1>2, <1>7, <1>8, SMTT(30) DEF RingOK, InOK
<1>10. \A i \in 0..n-1 : Slot(i)' = Slot(i + 1)  BY <1>2, <1>8, <1>9 DEF Slot
<1>11. InOK'
  <2>1. userlock' \in Readers \cup {Nobody} /\ got' \in Seq(0..MaxTyped)  BY <1>0, <1>1, <1>2
  <2> QED  BY <1>0, <1>3, <1>8, <2>1, Zenon DEF InOK, Recs
<1>12. OneReader'  BY <1>4, Zenon DEF OneReader
<1>13. Ordered'
  <2> DEFINE old == ring[tail]
  <2>1. /\ Len(got') = Len(got) + 1 /\ got'[Len(got) + 1] = old /\ Len(got) \in Nat
        /\ \A k \in 1..Len(got) : got'[k] = got[k]
        BY <1>0, <1>1, <1>2
  <2>2. old = ring[Slot(0)] /\ 0 \in 0..Count-1  BY <1>7, RingSlots
  <2> HIDE DEF old
  <2>3. \A k \in 1..Len(got) : got[k] < old  BY <2>2, Zenon DEF Ordered
  <2>4. \A i \in 0..n-1 : old < ring[Slot(i + 1)]  BY <1>7, <2>2 DEF Ordered
  <2>5. InOrder'  BY <2>1, <2>3, SMTT(30) DEF Ordered, InOrder
  <2>6. (\A i, j \in 0..Count-1 : i < j => ring[Slot(i)] < ring[Slot(j)])'
        BY <1>0, <1>7, <1>10 DEF Ordered
  <2>7. (\A k \in 1..Len(got), i \in 0..Count-1 : got[k] < ring[Slot(i)])'
        BY <1>0, <1>7, <1>10, <2>1, <2>4 DEF Ordered
  <2>8. \A m : Below(m) => Below(m)'
    <3> SUFFICES ASSUME NEW m, Below(m) PROVE Below(m)'  OBVIOUS
    <3>1. old < m  BY <2>2, Zenon DEF Below
    <3>2. (\A i \in 0..Count-1 : ring[Slot(i)] < m)'  BY <1>0, <1>7, <1>10 DEF Below
    <3>3. (\A k \in 1..Len(got) : got[k] < m)'  BY <2>1, <3>1 DEF Below
    <3> QED  BY <3>2, <3>3, Zenon DEF Below
  <2>9. Below(typed + 1)' /\ (irq.char # 0 => Below(irq.char))' /\ (ractive => Below(typed))'
    <3>1. PICK a, b, c : a = typed + 1 /\ b = irq.char /\ c = typed  OBVIOUS
    <3>2. Below(a)' /\ (b # 0 => Below(b)') /\ (ractive => Below(c)')  BY <2>8, <3>1, Zenon DEF Ordered
    <3> QED  BY <1>0, <3>1, <3>2, Zenon DEF Below
  <2> QED  BY <1>0, <2>5, <2>6, <2>7, <2>9, Zenon DEF Ordered
<1> QED  BY <1>9, <1>11, <1>12, <1>13, Zenon

\* Every step keeps it.
LEMMA NextInInv == ASSUME OutInv, InInv, Locking = Readers, [Next]_vars PROVE InInv'
<1>1. CASE UNCHANGED vars
  <2>1. UNCHANGED <<typed, ractive, cs_rsem, head, tail, ring, userlock, in, got, irq>>  BY <1>1, Zenon DEF vars
  <2> QED  BY <2>1, OutputInInv, Zenon
<1>2. CASE PortDone \/ con_start \/ (\E t \in Writers : putch_intr(t) \/ P_wsem(t) \/ lser_write(t))
           \/ \E t \in Pollers : lser_writepolled(t) \/ poll_ready(t) \/ poll_done(t)
  <2>1. UNCHANGED input
        BY <1>2, Zenon DEF PortDone, con_start, putch_intr, P_wsem, lser_write, lser_writepolled, poll_ready, poll_done
  <2>2. irq' = irq \/ irq' = [irq EXCEPT !.at = "input"]
        BY <1>2, Zenon DEF PortDone, con_start, putch_intr, P_wsem, lser_write, lser_writepolled, poll_ready, poll_done
  <2>3. irq'.char = irq.char  BY <2>2, Zenon DEF OutInv, OutOK
  <2> QED  BY <2>1, <2>3, OutputInInv, Zenon DEF input
<1>3. CASE Type \/ lser_irq  BY <1>3, FetchInInv, Zenon
<1>4. CASE con_input  BY <1>4, InputInInv, Zenon
<1>5. CASE \E r \in Readers : con_io(r) \/ P_rsem(r) \/ getch_take(r) \/ getch_advance(r)
  BY <1>5, ReadInInv, AdvanceInInv, Zenon
<1> QED  BY <1>1, <1>2, <1>3, <1>4, <1>5, Zenon DEF Next

\* Places of the ring are their own remainders.
LEMMA Wraps == ASSUME NEW n \in 0..Size-1 PROVE n % Size = n /\ (n + Size) % Size = n
BY ConsoleAssumption

\* In terms of Count the ring holds what RingCounts says.
LEMMA InInvCounts == ASSUME InInv PROVE RingCounts
<1> DEFINE past == {r \in Readers : in[r].at \in {"take", "advance"}}
<1>1. past = {} \/ \E r \in Readers : past = {r}  BY DEF InInv, OneReader
<1>2. Cardinality(past) = Held  BY <1>1, FS_EmptySet, FS_Singleton, Zenon DEF Held
<1>3. (head - tail + Size) % Size = Count
  <2>0. PICK n \in Nat : n = Count  BY RingSlots
  <2>2. head \in 0..Size-1 /\ tail \in 0..Size-1 /\ n <= Size - 1 /\ (tail + n = head \/ tail + n = head + Size)
        BY <2>0, Zenon DEF InInv, RingOK, InOK
  <2>3. Size \in Nat \ {0}  BY ConsoleAssumption
  <2>4. n \in 0..Size-1 /\ (head - tail + Size = n \/ head - tail + Size = n + Size)  BY <2>2, <2>3
  <2>1. Count \in 0..Size-1 /\ (head - tail + Size = Count \/ head - tail + Size = Count + Size)
        BY <2>0, <2>4, Zenon
  <2> QED  BY <2>1, Wraps, Zenon
<1> QED  BY <1>2, <1>3, Zenon DEF RingCounts, Count

\* The two invariants give the types.
LEMMA InvTypeOK == ASSUME OutInv, InInv PROVE TypeOK
<1>1. cs_wsem \in {0, 1}  BY Zenon DEF OutInv, OneToken
<1>2. cs_rsem \in 0..Size-1
  <2>1. Size \in Nat \ {0}  BY ConsoleAssumption
  <2>2. Held \in {0, 1} /\ cs_rsem \in Nat /\ cs_rsem + Held <= Size - 1  BY RingSlots, Zenon DEF InInv, InOK, RingOK, Count
  <2> QED  BY <2>1, <2>2
<1>3. \A t \in DOMAIN out : out[t] \in {"idle", "P", "send", "pollready", "polldone", "pollsecond"}
      BY Zenon DEF OutInv, OutOK
<1>4. \A r \in Readers : in[r].at \in {"idle", "P", "take", "advance"}  BY Zenon DEF InInv, InOK
<1> QED  BY <1>1, <1>2, <1>3, <1>4, Zenon DEF OutInv, OutOK, InInv, InOK, TypeOK

\* Whatever is printed and typed: if every reader takes con_userlock_read in
\* con_io, the semaphores count what is in the ring and the permission to write,
\* and getch_intr returns the characters in the order they were typed, though
\* neither it nor con_input takes a lock (console.c con_input and getch_intr).
THEOREM ConsoleIsSound == ASSUME Locking = Readers PROVE Spec => []ConsoleSound
<1>1. Init => OutInv /\ InInv  BY InitOutInv, InitInInv, Zenon
<1>2. OutInv /\ InInv /\ [Next]_vars => (OutInv /\ InInv)'  BY NextOutInv, NextInInv, Zenon
<1>3. OutInv /\ InInv => ConsoleSound
      BY OutInvOneWrite, InInvCounts, InvTypeOK, Zenon DEF ConsoleSound, InInv, Ordered
<1> QED  BY <1>1, <1>2, <1>3, PTL DEF Spec
=============================================================================
