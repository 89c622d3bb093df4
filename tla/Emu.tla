-------------------------------- MODULE Emu --------------------------------
(***************************************************************************)
(* The emulator's file system (kern/dev/lamebus/emu.c): one card with one  *)
(* set of registers, one buffer and one interrupt, and the file system     *)
(* emufs on top of it, whose vnodes stand for handles of the card.  A      *)
(* thread has the card for itself under e_lock; it starts an operation by  *)
(* writing REG_OPER, and emu_irq hands it the result through e_sem.        *)
(*                                                                         *)
(* The card is not part of the kernel: it is modelled from the results the *)
(* driver provides for.  Bytes are cells, EMU_MAXIO of which go into the   *)
(* buffer.  The only directory is the root.                                *)
(***************************************************************************)
EXTENDS Naturals, Sequences, FiniteSets, SequencesExt

CONSTANTS
    Threads, Names, None,
    EMU_MAXIO,     \* cells of the buffer
    NHANDLES,      \* handles of the card besides that of the root
    MaxLen,        \* bound: length of a file
    MaxErrors,     \* bound: how often the medium fails
    Retries,       \* 10 in emu_close
    Shared,        \* TRUE: an open file that is opened again keeps its handle
    Odd            \* "nomem": kmalloc fails in emufs_loadvnode

EMU_ROOTHANDLE == 0
Handles == 0..NHANDLES

EmuAssumption ==
    /\ EMU_MAXIO \in Nat \ {0} /\ {NHANDLES, MaxLen, MaxErrors, Retries} \subseteq Nat
    /\ Shared \in BOOLEAN /\ Odd \subseteq {"nomem"} /\ "root" \notin Names

VARIABLES
    reg,           \* the registers and the buffer of the card
    irq,           \* it interrupts
    hnd,           \* hnd[h]: the file a handle is open on
    files,         \* the files of the host: sequences of cells
    errors,
    e_lock, e_sem, e_result,
    biglock,       \* the holder of vfs_biglock, which is recursive
    ef_vnodes,     \* ef_vnodes[h]: vn_refcount of the vnode with that handle, 0: none
    hold,          \* hold[t]: the handle of the vnode that t has a reference to
    th             \* th[t]: what t is doing

vars == <<reg, irq, hnd, files, errors, e_lock, e_sem, e_result, biglock, ef_vnodes, hold, th>>
cardVars == <<irq, hnd, files, errors, e_result>>

Absent == None
Idle == [pc |-> "idle", op |-> "none", h |-> None, name |-> None, off |-> 0, resid |-> 0, tries |-> 0]

NoRequest == [oper |-> "none", handle |-> 0, offset |-> 0, iolen |-> 0, result |-> "none", buf |-> <<>>]

\* config_emu and emufs_addtovfs: the vnode of the root is loaded and stays.
Init ==
    /\ reg = NoRequest
    /\ irq = FALSE
    /\ hnd = [h \in Handles |-> IF h = EMU_ROOTHANDLE THEN "root" ELSE None]
    /\ files \in [Names -> {Absent, <<0>>}]
    /\ errors = 0
    /\ e_lock = None /\ e_sem = 0 /\ e_result = "none"
    /\ biglock = None
    /\ ef_vnodes = [h \in Handles |-> IF h = EMU_ROOTHANDLE THEN 1 ELSE 0]
    /\ hold = [t \in Threads |-> None]
    /\ th = [t \in Threads |-> Idle]

-----------------------------------------------------------------------------
(* The card *)

Chunk(f, off, len) == SubSeq(f, off + 1, IF off + len < Len(f) THEN off + len ELSE Len(f))
Zeros(k) == [i \in 1..k |-> 0]
Overlay(f, off, cells) ==
    [i \in 1..(IF off + Len(cells) > Len(f) THEN off + Len(cells) ELSE Len(f)) |->
        IF i \in off+1..off+Len(cells) THEN cells[i - off] ELSE IF i <= Len(f) THEN f[i] ELSE 0]
Resized(f, len) == IF len <= Len(f) THEN SubSeq(f, 1, len) ELSE f \o Zeros(len - Len(f))
NameList == SetToSeq({f \in Names : files[f] # Absent})

\* The end of an operation: a result, the interrupt, and what the card changed.
Answer(result, r) ==
    /\ reg' = [r EXCEPT !.oper = "none", !.result = result]
    /\ irq' = TRUE
Fail(result) == Answer(result, reg) /\ UNCHANGED <<hnd, files>>

CardOpen(name, create, excl) ==
    LET free == {h \in Handles : hnd[h] = None}
        same == {h \in Handles : hnd[h] = name}
        h == IF Shared /\ same # {} THEN CHOOSE x \in same : TRUE ELSE CHOOSE x \in free : TRUE
    IN  IF files[name] = Absent /\ ~create THEN Fail("BADPATH")
        ELSE IF files[name] # Absent /\ excl THEN Fail("EXISTS")
        ELSE IF free = {} /\ ~(Shared /\ same # {}) THEN Fail("NOHANDLES")
        ELSE /\ Answer("SUCCESS", [reg EXCEPT !.handle = h, !.iolen = 0])
             /\ hnd' = [hnd EXCEPT ![h] = name]
             /\ files' = IF files[name] = Absent THEN [files EXCEPT ![name] = <<>>] ELSE files

CardTransfer(op, f) ==
    CASE op = "READ" ->
           LET got == Chunk(files[f], reg.offset, reg.iolen)
           IN  /\ Answer("SUCCESS", [reg EXCEPT !.buf = got, !.iolen = Len(got), !.offset = @ + Len(got)])
               /\ UNCHANGED <<hnd, files>>
      [] op = "WRITE" ->
           IF reg.offset + Len(reg.buf) > MaxLen THEN Fail("NOSPACE")
           ELSE /\ Answer("SUCCESS", reg)
                /\ files' = [files EXCEPT ![f] = Overlay(@, reg.offset, reg.buf)] /\ UNCHANGED hnd
      [] op = "GETSIZE" -> Answer("SUCCESS", [reg EXCEPT !.iolen = Len(files[f])]) /\ UNCHANGED <<hnd, files>>
      [] op = "TRUNC" ->
           Answer("SUCCESS", reg) /\ files' = [files EXCEPT ![f] = Resized(@, reg.iolen)] /\ UNCHANGED hnd

CardReaddir ==
    LET got == Chunk(NameList, reg.offset, 1)
    IN  /\ Answer("SUCCESS", [reg EXCEPT !.buf = got, !.iolen = Len(got), !.offset = @ + Len(got)])
        /\ UNCHANGED <<hnd, files>>

Card ==
    /\ reg.oper # "none" /\ ~irq
    /\ LET f == hnd[reg.handle]
       IN  IF f = None THEN Fail("BADHANDLE")
           ELSE IF reg.oper \in {"READ", "WRITE", "READDIR"} /\ reg.iolen > EMU_MAXIO THEN Fail("BADSIZE")
           ELSE IF reg.oper = "CLOSE" THEN
                Answer("SUCCESS", reg) /\ hnd' = [hnd EXCEPT ![reg.handle] = None] /\ UNCHANGED files
           ELSE IF reg.oper \in {"OPEN", "CREATE", "EXCLCREATE"} THEN
                IF f # "root" THEN Fail("NOTDIR")
                ELSE CardOpen(reg.buf[1], reg.oper # "OPEN", reg.oper = "EXCLCREATE")
           ELSE IF reg.oper = "READDIR" THEN IF f = "root" THEN CardReaddir ELSE Fail("NOTDIR")
           ELSE IF f = "root" /\ reg.oper # "GETSIZE" THEN Fail("ISDIR")
           ELSE IF f = "root" THEN Answer("SUCCESS", [reg EXCEPT !.iolen = 0]) /\ UNCHANGED <<hnd, files>>
           ELSE CardTransfer(reg.oper, f)
    /\ UNCHANGED <<errors, e_lock, e_sem, e_result, biglock, ef_vnodes, hold, th>>

\* The medium fails; nothing is changed.
CardMedia ==
    /\ reg.oper # "none" /\ ~irq /\ errors < MaxErrors
    /\ errors' = errors + 1
    /\ Fail("MEDIA")
    /\ UNCHANGED <<e_lock, e_sem, e_result, biglock, ef_vnodes, hold, th>>

emu_irq ==
    /\ irq /\ irq' = FALSE
    /\ e_result' = reg.result
    /\ reg' = [reg EXCEPT !.result = "none"]
    /\ e_sem' = e_sem + 1
    /\ UNCHANGED <<hnd, files, errors, e_lock, biglock, ef_vnodes, hold, th>>

\* translate_err: an errno, 0, or a panic.
translate_err(code) ==
    CASE code = "SUCCESS" -> "0"
      [] code \in {"BADHANDLE", "BADOP", "BADSIZE"} -> "panic"
      [] code = "BADPATH" -> "ENOENT"
      [] code = "EXISTS" -> "EEXIST"
      [] code = "ISDIR" -> "EISDIR"
      [] code \in {"MEDIA", "UNKNOWN"} -> "EIO"
      [] code = "NOHANDLES" -> "ENFILE"
      [] code = "NOSPACE" -> "ENOSPC"
      [] code = "NOTDIR" -> "ENOTDIR"
      [] code = "UNSUPP" -> "EUNIMP"
      [] OTHER -> "EAGAIN"

-----------------------------------------------------------------------------
(* The driver *)

Min2(a, b) == IF a < b THEN a ELSE b

\* MUTANT: a transfer is not cut to the size of the buffer.
Amt_whole(t) == th[t].resid

Amt(t) == Min2(th[t].resid, EMU_MAXIO)
Do(t, r) == th' = [th EXCEPT ![t] = r]
Request(op, h) == [Idle EXCEPT !.pc = "want", !.op = op, !.h = h]

\* MUTANT: the lock is not waited for.
emu_start_unlocked(t) ==
    /\ th[t].pc \in {"want", "again"}
    /\ e_lock' = t
    /\ reg' = [reg EXCEPT !.handle = th[t].h, !.oper = th[t].op, !.offset = th[t].off,
                          !.iolen = IF th[t].op = "TRUNC" THEN th[t].resid ELSE Amt(t),
                          !.buf = CASE th[t].op = "WRITE" -> [i \in 1..Amt(t) |-> t]
                                    [] th[t].op \in {"OPEN", "CREATE", "EXCLCREATE"} -> <<th[t].name>>
                                    [] OTHER -> @]
    /\ Do(t, [th[t] EXCEPT !.pc = "wait"])
    /\ UNCHANGED <<cardVars, e_sem, biglock, ef_vnodes, hold>>

\* emu_open, emu_close, emu_doread, emu_write, emu_getsize and emu_trunc up to
\* emu_waitdone: e_lock (which emufs_reclaim has already), the name or the data
\* into the buffer, the registers, REG_OPER.
emu_start(t) ==
    /\ \/ th[t].pc = "want" /\ (e_lock = None \/ (th[t].op = "CLOSE" /\ e_lock = t))
       \/ th[t].pc = "again"
    /\ e_lock' = t
    /\ reg' = [reg EXCEPT !.handle = th[t].h, !.oper = th[t].op, !.offset = th[t].off,
                          !.iolen = IF th[t].op = "TRUNC" THEN th[t].resid ELSE Amt(t),
                          !.buf = CASE th[t].op = "WRITE" -> [i \in 1..Amt(t) |-> t]
                                    [] th[t].op \in {"OPEN", "CREATE", "EXCLCREATE"} -> <<th[t].name>>
                                    [] OTHER -> @]
    /\ Do(t, [th[t] EXCEPT !.pc = "wait"])
    /\ UNCHANGED <<cardVars, e_sem, biglock, ef_vnodes, hold>>

\* P(e_sem) and translate_err; then each operation goes on by itself.  What is
\* left in the registers is overwritten before it is read again, and is cleared
\* here.
emu_waitdone(t, ops, result) ==
    /\ th[t].pc = "wait" /\ th[t].op \in ops
    /\ e_sem > 0 /\ e_sem' = e_sem - 1
    /\ result = translate_err(e_result)
    /\ reg' = NoRequest /\ e_result' = "none"
    /\ UNCHANGED <<irq, hnd, files, errors>>

Errnos == {"0", "ENOENT", "EEXIST", "EISDIR", "EIO", "ENFILE", "ENOSPC", "ENOTDIR", "EUNIMP", "EAGAIN"}
Unbig(t) == biglock' = IF biglock = t THEN None ELSE biglock

\* The new handle is read under the lock; the vnode is loaded after it is
\* released.  A lookup that fails leaves vfs_lookup and its big lock.
emu_open(t) ==
    \E e \in Errnos :
        /\ emu_waitdone(t, {"OPEN", "CREATE", "EXCLCREATE"}, e)
        /\ e_lock' = None
        /\ IF e = "0" THEN Do(t, [th[t] EXCEPT !.pc = "load", !.h = reg.handle]) /\ UNCHANGED biglock
           ELSE Do(t, Idle) /\ Unbig(t)
        /\ UNCHANGED <<ef_vnodes, hold>>

\* emu_close tries again after an I/O error.  Then emufs_reclaim takes the vnode
\* out of the table, unless the file could not be closed; or emufs_creat or
\* emufs_lookup returns the error it has from emufs_loadvnode.
emu_close(t) ==
    \E e \in Errnos :
        /\ emu_waitdone(t, {"CLOSE"}, e)
        /\ IF e = "EIO" /\ th[t].tries < Retries
           THEN /\ Do(t, [th[t] EXCEPT !.pc = "again", !.tries = @ + 1])
                /\ UNCHANGED <<e_lock, biglock, ef_vnodes>>
           ELSE /\ Do(t, Idle)
                /\ e_lock' = None
                /\ IF th[t].name = "leak" THEN UNCHANGED biglock ELSE Unbig(t)
                /\ ef_vnodes' = IF th[t].name = "reclaim" /\ e = "0" THEN [ef_vnodes EXCEPT ![th[t].h] = 0]
                                ELSE ef_vnodes
        /\ UNCHANGED hold

\* emufs_read and emufs_write go on with the next part, until nothing is left or
\* nothing was moved.
Continue(t, n, off) ==
    LET left == th[t].resid - n
    IN  Do(t, IF n = 0 \/ left = 0 THEN Idle
              ELSE [th[t] EXCEPT !.pc = "want", !.off = off, !.resid = left])

emu_doread(t) ==
    \E e \in Errnos :
        /\ emu_waitdone(t, {"READ", "READDIR"}, e)
        /\ e_lock' = None
        /\ IF e = "0" /\ th[t].op = "READ" THEN Continue(t, reg.iolen, reg.offset) ELSE Do(t, Idle)
        /\ UNCHANGED <<biglock, ef_vnodes, hold>>

emu_write(t) ==
    \E e \in Errnos :
        /\ emu_waitdone(t, {"WRITE"}, e)
        /\ e_lock' = None
        /\ IF e = "0" THEN Continue(t, Amt(t), th[t].off + Amt(t)) ELSE Do(t, Idle)
        /\ UNCHANGED <<biglock, ef_vnodes, hold>>

emu_getsize_trunc(t) ==
    \E e \in Errnos :
        /\ emu_waitdone(t, {"GETSIZE", "TRUNC"}, e)
        /\ e_lock' = None
        /\ Do(t, Idle)
        /\ UNCHANGED <<biglock, ef_vnodes, hold>>

-----------------------------------------------------------------------------
(* emufs: what the two tables of operations answer.  A name that begins     *)
(* with emufs_ is a function of this section, anything else a result.       *)

emufs_unimplemented == [op \in {"tryseek", "symlink", "mkdir", "link", "remove", "rmdir", "rename"} |-> "EUNIMP"]
emufs_isdir == [op \in {"read", "readlink", "write", "fsync", "mmap"} |-> "EISDIR"]
emufs_notdir ==
    [op \in {"getdirentry", "namefile", "creat", "symlink", "mkdir", "link", "remove", "rmdir",
             "rename", "lookup", "lookparent"} |-> "ENOTDIR"]
emufs_truncate_isdir == [op \in {"truncate"} |-> "ENOTDIR"]

Table(own, answers, op) == IF op \in DOMAIN own THEN own[op] ELSE answers[op]

emufs_fileops(op) ==
    Table([open |-> "emufs_open", close |-> "0", reclaim |-> "emufs_reclaim", read |-> "emufs_read",
           readlink |-> "EINVAL", write |-> "emufs_write", ioctl |-> "EINVAL", stat |-> "emufs_stat",
           gettype |-> "S_IFREG", tryseek |-> "emufs_tryseek", fsync |-> "0", mmap |-> "EUNIMP",
           truncate |-> "emufs_truncate"], emufs_notdir, op)

emufs_dirops(op) ==
    IF op \in DOMAIN emufs_isdir THEN emufs_isdir[op]
    ELSE IF op \in DOMAIN emufs_truncate_isdir THEN emufs_truncate_isdir[op]
    ELSE Table([open |-> "emufs_opendir", close |-> "0", reclaim |-> "emufs_reclaim",
                getdirentry |-> "emufs_getdirentry", ioctl |-> "EINVAL", stat |-> "emufs_stat",
                gettype |-> "S_IFDIR", namefile |-> "emufs_namefile", creat |-> "emufs_creat",
                lookup |-> "emufs_lookup", lookparent |-> "emufs_lookparent"], emufs_unimplemented, op)

VOP(h, op) == IF h = EMU_ROOTHANDLE THEN emufs_dirops(op) ELSE emufs_fileops(op)

\* A thread with a reference to a vnode makes a request.
Call(t, op, handler, r) ==
    /\ th[t].pc = "idle" /\ hold[t] # None
    /\ VOP(hold[t], op) = handler
    /\ Do(t, r)
    /\ UNCHANGED <<reg, cardVars, e_lock, e_sem, biglock, ef_vnodes, hold>>

emufs_read(t) ==
    \E off \in 0..1, len \in 1..MaxLen :
        Call(t, "read", "emufs_read", [Request("READ", hold[t]) EXCEPT !.off = off, !.resid = len])

emufs_write(t) ==
    \E off \in 0..1, len \in 1..MaxLen :
        Call(t, "write", "emufs_write", [Request("WRITE", hold[t]) EXCEPT !.off = off, !.resid = len])

emufs_stat(t) == Call(t, "stat", "emufs_stat", Request("GETSIZE", hold[t]))

emufs_truncate(t) ==
    \E len \in 0..1 : Call(t, "truncate", "emufs_truncate", [Request("TRUNC", hold[t]) EXCEPT !.resid = len])

emufs_getdirentry(t) ==
    Call(t, "getdirentry", "emufs_getdirentry", [Request("READDIR", hold[t]) EXCEPT !.resid = 1])

\* A lookup comes from vfs_lookup, under the big lock; a create does not.
emufs_lookup(t) ==
    /\ th[t].pc = "idle" /\ hold[t] = None /\ biglock = None
    /\ VOP(EMU_ROOTHANDLE, "lookup") = "emufs_lookup"
    /\ biglock' = t
    /\ \E name \in Names : Do(t, [Request("OPEN", EMU_ROOTHANDLE) EXCEPT !.name = name])
    /\ UNCHANGED <<reg, cardVars, e_lock, e_sem, ef_vnodes, hold>>

emufs_creat(t) ==
    /\ th[t].pc = "idle" /\ hold[t] = None
    /\ VOP(EMU_ROOTHANDLE, "creat") = "emufs_creat"
    /\ \E name \in Names, op \in {"CREATE", "EXCLCREATE"} :
         Do(t, [Request(op, EMU_ROOTHANDLE) EXCEPT !.name = name])
    /\ UNCHANGED <<reg, cardVars, e_lock, e_sem, biglock, ef_vnodes, hold>>

\* emufs_loadvnode and emufs_reclaim first take the big lock, which a lookup has.
biglock_acquire(t) ==
    /\ th[t].pc \in {"load", "reclaim"}
    /\ biglock \in {None, t}
    /\ biglock' = t
    /\ Do(t, [th[t] EXCEPT !.pc = IF @ = "load" THEN "load2" ELSE "reclaim2"])
    /\ UNCHANGED <<reg, cardVars, e_lock, e_sem, ef_vnodes, hold>>

\* The vnode with that handle, or a new one.
emufs_loadvnode(t) ==
    /\ th[t].pc = "load2" /\ e_lock = None
    /\ ef_vnodes' = [ef_vnodes EXCEPT ![th[t].h] = @ + 1]
    /\ hold' = [hold EXCEPT ![t] = th[t].h]
    /\ Do(t, Idle)
    /\ biglock' = None
    /\ UNCHANGED <<reg, cardVars, e_lock, e_sem>>

\* MUTANT: the handle stays open.
emufs_loadvnode_fails_open(t) ==
    /\ th[t].pc = "load2" /\ e_lock = None /\ ef_vnodes[th[t].h] = 0
    /\ Do(t, Idle)
    /\ biglock' = None
    /\ UNCHANGED <<reg, cardVars, e_lock, e_sem, ef_vnodes, hold>>

\* No new vnode can be made: the handle is closed again.  If it is kmalloc that
\* fails, the big lock is not given back.
emufs_loadvnode_fails(t) ==
    /\ th[t].pc = "load2" /\ e_lock = None /\ ef_vnodes[th[t].h] = 0
    /\ \E why \in {"undo"} \cup (IF "nomem" \in Odd THEN {"leak"} ELSE {}) :
         /\ Do(t, [Request("CLOSE", th[t].h) EXCEPT !.name = why])
         /\ biglock' = IF why = "undo" /\ th[t].op # "OPEN" THEN None ELSE biglock
    /\ UNCHANGED <<reg, cardVars, e_lock, e_sem, ef_vnodes, hold>>

emufs_getroot(t) ==
    /\ th[t].pc = "idle" /\ hold[t] = None
    /\ ef_vnodes' = [ef_vnodes EXCEPT ![EMU_ROOTHANDLE] = @ + 1]
    /\ hold' = [hold EXCEPT ![t] = EMU_ROOTHANDLE]
    /\ UNCHANGED <<reg, cardVars, e_lock, e_sem, biglock, th>>

\* vnode_incref for another process, as fork does.
share(t, u) ==
    /\ t # u /\ hold[t] # None /\ hold[u] = None /\ th[u].pc = "idle" /\ th[t].pc = "idle"
    /\ ef_vnodes' = [ef_vnodes EXCEPT ![hold[t]] = @ + 1]
    /\ hold' = [hold EXCEPT ![u] = hold[t]]
    /\ UNCHANGED <<reg, cardVars, e_lock, e_sem, biglock, th>>

\* vnode_decref: the last reference goes to emufs_reclaim.
vnode_decref(t) ==
    /\ th[t].pc = "idle" /\ hold[t] # None
    /\ hold' = [hold EXCEPT ![t] = None]
    /\ IF ef_vnodes[hold[t]] > 1
       THEN ef_vnodes' = [ef_vnodes EXCEPT ![hold[t]] = @ - 1] /\ UNCHANGED th
       ELSE Do(t, [Idle EXCEPT !.pc = "reclaim", !.h = hold[t]]) /\ UNCHANGED ef_vnodes
    /\ UNCHANGED <<reg, cardVars, e_lock, e_sem, biglock>>

\* With both locks: EBUSY if the vnode is in use again, else its file is closed.
emufs_reclaim(t) ==
    /\ th[t].pc = "reclaim2" /\ e_lock = None
    /\ IF ef_vnodes[th[t].h] # 1
       THEN Do(t, Idle) /\ biglock' = None /\ UNCHANGED e_lock
       ELSE /\ e_lock' = t
            /\ Do(t, [Request("CLOSE", th[t].h) EXCEPT !.name = "reclaim"])
            /\ UNCHANGED biglock
    /\ UNCHANGED <<reg, cardVars, e_sem, ef_vnodes, hold>>

Driver(t) ==
    \/ emu_start(t) \/ emu_open(t) \/ emu_close(t) \/ emu_doread(t) \/ emu_write(t)
    \/ emu_getsize_trunc(t)
    \/ biglock_acquire(t) \/ emufs_loadvnode(t) \/ emufs_loadvnode_fails(t) \/ emufs_reclaim(t)

Client(t) ==
    \/ emufs_read(t) \/ emufs_write(t) \/ emufs_stat(t) \/ emufs_truncate(t) \/ emufs_getdirentry(t)
    \/ emufs_lookup(t) \/ emufs_creat(t) \/ emufs_getroot(t) \/ vnode_decref(t)
    \/ \E u \in Threads : share(t, u)

Next == Card \/ CardMedia \/ emu_irq \/ \E t \in Threads : Driver(t) \/ Client(t)

Spec == Init /\ [][Next]_vars

-----------------------------------------------------------------------------
Waiting == {t \in Threads : th[t].pc = "wait"}
B(b) == IF b THEN 1 ELSE 0

\* The card works for one thread at a time: the one that waits for it has e_lock,
\* what the card, the interrupt and e_sem hold is one answer for it, and when it
\* has arrived the buffer, or the file, is as its request demands.
EmuAnswersOne ==
    /\ Cardinality(Waiting) = B(reg.oper # "none") + B(irq) + e_sem
    /\ \A t \in Waiting :
        LET r == th[t]
            good == e_sem > 0 /\ e_result = "SUCCESS" /\ r.h # EMU_ROOTHANDLE
        IN  /\ e_lock = t
            /\ reg.oper # "none" => reg.oper = r.op /\ reg.handle = r.h
            /\ good /\ r.op = "READ" => reg.buf = Chunk(files[hnd[r.h]], r.off, Amt(t))
            /\ good /\ r.op = "WRITE" => Chunk(files[hnd[r.h]], r.off, Amt(t)) = [i \in 1..Amt(t) |-> t]

\* The driver never sees a result that makes translate_err panic: every handle
\* it uses is open, and no transfer is larger than the buffer.
NoFatalResult == e_sem > 0 => translate_err(e_result) # "panic"

\* Whose a handle is: the table's, or a thread's that has just opened it or is
\* about to close it.
Fresh(h) == {t \in Threads : /\ th[t].h = h
                             /\ \/ th[t].pc \in {"load", "load2"}
                                \/ th[t].op = "CLOSE" /\ th[t].name # "reclaim"}
Referring(h) == {t \in Threads : hold[t] = h \/ (th[t].h = h /\ (th[t].pc \in {"reclaim", "reclaim2"} \/ th[t].name = "reclaim"))}

\* Every open handle has one owner, and a vnode in the table has an open handle
\* and as many references as its count says, unless its file could not be closed.
HandlesOwned ==
    \A h \in Handles \ {EMU_ROOTHANDLE} :
        /\ ef_vnodes[h] > 0 => hnd[h] # None \/ \E t \in Threads : th[t].h = h /\ th[t].name = "reclaim"
        /\ errors = 0 => /\ ef_vnodes[h] = Cardinality(Referring(h))
                         /\ (hnd[h] # None /\ ef_vnodes[h] = 0 => \/ Cardinality(Fresh(h)) = 1
                                                                  \/ reg.handle = h /\ (irq \/ e_sem > 0))

\* A thread that has left emufs has left its locks behind.
LocksReturned == \A t \in Threads : th[t].pc = "idle" => e_lock # t /\ biglock # t
=============================================================================
