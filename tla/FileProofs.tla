---------------------------- MODULE FileProofs ----------------------------
(***************************************************************************)
(* Proofs for FileTable, for any processes, handles and Files: a File has  *)
(* one call at a time, and none leaks.                                     *)
(***************************************************************************)
EXTENDS FileTable, FiniteSetTheorems, WellFoundedInduction, TLAPS

\* Handle 0 is the console's, the others have blocks of the heap.
HandlesOK ==
    \A p \in Procs : \A h \in Handles :
        IF h = 0 THEN fdesc[p][h] \in {Con, NULL} ELSE fdesc[p][h] \in Blocks \cup {NULL}

\* A call is made by a running process, on an open handle, and has the lock of
\* its File.
CallsHold ==
    \A p \in Procs : call[p].op # "idle" =>
        /\ p \in running /\ fdesc[p][call[p].handle] # NULL
        /\ f_lock[fdesc[p][call[p].handle]] = p

FilesInv == FilesShared /\ HandlesOK /\ CallsHold /\ Con \in used

\* A nonempty set of numbers has a smallest, which is its Min.
LEMMA MinIs == ASSUME NEW S, S \subseteq Nat, S # {} PROVE Min(S) \in S
<1>1. PICK u \in S : \A v \in S : ~(<<v, u>> \in OpToRel(<, Nat))
  BY NatLessThanWellFounded, WFMin, Zenon
<1>2. \A v \in S : ~(v < u)  BY <1>1, Zenon DEF OpToRel
<1>3. \A v \in S : u <= v  BY <1>2
<1> QED  BY <1>3, Zenon DEF Min

\* The calls of file.c.
CallRec == [op : {"idle", "read", "write", "lseek"}, handle : Handles, from : Offsets,
            want : Offsets, data : {"user", "stale"}]

\* The Files of a process, one by one.
LEMMA OwnIs == ASSUME NEW p, NEW b PROVE b \in Own(p) <=> b # NULL /\ \E h \in Handles \ {0} : fdesc[p][h] = b
BY Zenon DEF Own

\* The same of the next state.
LEMMA OwnIsNext ==
    ASSUME NEW p, NEW b PROVE b \in Own(p)' <=> b # NULL /\ \E h \in Handles \ {0} : fdesc'[p][h] = b
BY Zenon DEF Own

\* The allocated Files, one by one.
LEMMA UsedIs == (used \ {Con} = UNION {Own(p) : p \in running}) <=>
                    \A b : b \in used \ {Con} <=> \E p \in running : b \in Own(p)
<1>1. \A b : b \in UNION {Own(p) : p \in running} <=> \E p \in running : b \in Own(p)  BY Zenon
<1> DEFINE U == UNION {Own(p) : p \in running}
<1> HIDE DEF U
<1>2. (used \ {Con} = U) <=> \A b : b \in used \ {Con} <=> b \in U  BY Zenon
<1> QED  BY <1>1, <1>2, Zenon DEF U

\* The same of the next state.
LEMMA UsedIsNext == (used \ {Con} = UNION {Own(p) : p \in running})' <=>
                    \A b : b \in used' \ {Con} <=> \E p \in running' : b \in Own(p)'
<1>1. \A b : b \in (UNION {Own(p) : p \in running})' <=> \E p \in running' : b \in Own(p)'  BY Zenon
<1> DEFINE U == UNION {Own(p) : p \in running}
<1> HIDE DEF U
<1>2. (used \ {Con} = U)' <=> \A b : b \in used' \ {Con} <=> b \in U'  BY Zenon
<1> QED  BY <1>1, <1>2, Zenon DEF U

\* What a slot of a table holds.
LEMMA SlotIs ==
    ASSUME TypeOK, NEW p \in Procs, NEW h \in Handles PROVE fdesc[p][h] \in Blocks \cup {Con, NULL}
<1>1. fdesc \in [Procs -> [Handles -> Blocks \cup {Con, NULL}]]  BY Zenon DEF TypeOK
<1> QED  BY <1>1

\* The File of a call is allocated.
LEMMA CallsFile ==
    ASSUME FileTableAssumption, FilesInv, NEW p \in Procs, call[p].op # "idle"
    PROVE  /\ call[p].handle \in Handles /\ fdesc[p][call[p].handle] \in used
           /\ fdesc[p][call[p].handle] \in Blocks \cup {Con}
           /\ call[p].handle # 0 => fdesc[p][call[p].handle] \in Own(p)
<1> DEFINE h == call[p].handle
<1>1. TypeOK /\ FilesOwned /\ HandlesOK /\ CallsHold /\ Con \in used
  BY Zenon DEF FilesInv, FilesShared
<1>2. h \in Handles  BY <1>1 DEF TypeOK
<1>3. p \in running /\ fdesc[p][h] # NULL  BY <1>1, Zenon DEF CallsHold
<1> HIDE DEF h
<1>4. fdesc[p][h] \in Blocks \cup {Con}  BY <1>1, <1>2, <1>3, SlotIs
<1>5. h # 0 => fdesc[p][h] \in Own(p)  BY <1>2, <1>3, Zenon DEF Own
<1>6. h # 0 => fdesc[p][h] \in used  BY <1>1, <1>3, <1>5, UsedIs, Zenon DEF FilesOwned
<1>7. h = 0 => fdesc[p][h] \in used  BY <1>1, <1>2, <1>3, Zenon DEF HandlesOK
<1> QED  BY <1>2, <1>4, <1>5, <1>6, <1>7, Zenon DEF h

\* Only the lock of a call's File, its position and the call itself change.
LEMMA SameFiles ==
    ASSUME FilesInv, UNCHANGED <<running, fdesc, used>> PROVE FilesOwned' /\ HandlesOK' /\ Con \in used'
<1>0. running' = running /\ fdesc' = fdesc /\ used' = used  OBVIOUS
<1>1. ASSUME NEW p PROVE Own(p)' = Own(p)  BY <1>0, Zenon DEF Own
<1>2. (used \ {Con} = UNION {Own(p) : p \in running})'
  BY <1>0, <1>1, UsedIs, UsedIsNext, Zenon DEF FilesInv, FilesShared, FilesOwned
<1>3. \A p \in running' : \A h, i \in Handles : h # i /\ fdesc'[p][h] = fdesc'[p][i] => fdesc'[p][h] = NULL
  BY <1>0, Zenon DEF FilesInv, FilesShared, FilesOwned
<1>4. HandlesOK'  BY <1>0, Zenon DEF FilesInv, HandlesOK
<1> QED  BY <1>0, <1>2, <1>3, <1>4, Zenon DEF FilesInv, FilesOwned

\* A panic leaves everything as it is.
LEMMA PanicInv ==
    ASSUME FilesInv, NEW why \in {"read", "relock", "close", "dup2"}, Panic(why) PROVE FilesInv'
<1>1. panicked' = why /\ UNCHANGED <<running, fdesc, file, f_lock, used, opencount, vnfreed, call>>
  BY Zenon DEF Panic
<1>2. FilesOwned' /\ HandlesOK' /\ Con \in used'  BY <1>1, SameFiles, Zenon
<1>3. panicked' \in {"no", "read", "relock", "close", "dup2"}  BY <1>1
<1>4. TypeOK'  BY <1>1, <1>3, Zenon DEF FilesInv, FilesShared, TypeOK
<1>5. TransferExclusive' /\ CallsHold'
  BY <1>1, Zenon DEF FilesInv, FilesShared, TransferExclusive, CallsHold
<1> QED  BY <1>2, <1>4, <1>5, Zenon DEF FilesInv, FilesShared

\* A call that begins takes the lock of a File nobody has, and what it knows of
\* the position is what is there.
LEMMA EnterInv ==
    ASSUME FileTableAssumption, FilesInv, NEW p \in Procs, NEW h \in Handles, Ready(p),
           NEW c \in [op : {"read", "write", "lseek"}, handle : Handles, from : Offsets,
                      want : Offsets, data : {"user", "stale"}],
           c.handle = h, c.op # "lseek" => c.from = file[fdesc[p][h]].offset, Enter(p, h, c)
    PROVE  FilesInv'
<1> DEFINE b == fdesc[p][h]
<1>1. TypeOK /\ TransferExclusive /\ CallsHold /\ HandlesOK
  BY Zenon DEF FilesInv, FilesShared
<1>2. CASE f_lock[b] = p
  <2>1. Panic("relock")  BY <1>2, Zenon DEF Enter
  <2> QED  BY <2>1, PanicInv, Zenon
<1>3. CASE f_lock[b] # p
  <2>1. /\ b # NULL /\ f_lock[b] = Nobody
        /\ f_lock' = [f_lock EXCEPT ![b] = p] /\ call' = [call EXCEPT ![p] = c]
        /\ UNCHANGED <<running, fdesc, file, used, opencount, vnfreed, panicked>>
    BY <1>3, Zenon DEF Enter
  <2>2. p \in running  BY Zenon DEF Ready
  <2>3. b \in Blocks \cup {Con}  BY <1>1, <2>1, SlotIs
  <2> HIDE DEF b
  <2>4. f_lock' \in [Blocks \cup {Con} -> Procs \cup {Nobody}] /\ f_lock'[b] = p /\ \A x : x # b => f_lock'[x] = f_lock[x]
    <3>1. f_lock \in [Blocks \cup {Con} -> Procs \cup {Nobody}]  BY <1>1, Zenon DEF TypeOK
    <3> QED  BY <2>1, <2>3, <3>1
  <2>5. /\ call' \in [Procs -> [op : {"idle", "read", "write", "lseek"}, handle : Handles, from : Offsets,
                       want : Offsets, data : {"user", "stale"}]]
        /\ call'[p] = c /\ \A q \in Procs : q # p => call'[q] = call[q]
    <3>1. c \in [op : {"idle", "read", "write", "lseek"}, handle : Handles, from : Offsets,
                       want : Offsets, data : {"user", "stale"}]  OBVIOUS
    <3>2. call \in [Procs -> [op : {"idle", "read", "write", "lseek"}, handle : Handles, from : Offsets,
                       want : Offsets, data : {"user", "stale"}]]  BY <1>1, Zenon DEF TypeOK
    <3> QED  BY <2>1, <3>1, <3>2, Zenon
  <2>6. TypeOK'  BY <1>1, <2>1, <2>4, <2>5, Zenon DEF TypeOK
  <2>7. \A q \in Procs : q # p /\ call[q].op # "idle" => fdesc[q][call[q].handle] # b
    <3>1. \A q \in Procs : Nobody # q  BY Zenon DEF FileTableAssumption
    <3>2. \A q \in Procs : call[q].op # "idle" => f_lock[fdesc[q][call[q].handle]] = q  BY <1>1, Zenon DEF CallsHold
    <3> QED  BY <2>1, <3>1, <3>2
  <2>8. c.op \in {"read", "write", "lseek"}  OBVIOUS
  <2>9. CallsHold'
    <3> SUFFICES ASSUME NEW q \in Procs, call'[q].op # "idle"
                 PROVE  /\ q \in running /\ fdesc[q][call'[q].handle] # NULL
                        /\ f_lock'[fdesc[q][call'[q].handle]] = q
      BY <2>1, Zenon DEF CallsHold
    <3>1. CASE q = p  BY <2>1, <2>2, <2>4, <2>5, <3>1, Zenon DEF b
    <3>2. CASE q # p
      <4>1. call'[q] = call[q]  BY <2>5, <3>2, Zenon
      <4>2. fdesc[q][call[q].handle] # b  BY <2>7, <3>2, <4>1, Zenon
      <4>3. /\ q \in running /\ fdesc[q][call[q].handle] # NULL
            /\ f_lock[fdesc[q][call[q].handle]] = q
        BY <1>1, <4>1, Zenon DEF CallsHold
      <4> QED  BY <2>4, <4>1, <4>2, <4>3
    <3> QED  BY <3>1, <3>2, Zenon
  <2>10. TransferExclusive'
    <3> SUFFICES ASSUME NEW q \in running', call'[q].op \in {"read", "write"}
                 PROVE  /\ f_lock'[fdesc'[q][call'[q].handle]] = q
                        /\ file'[fdesc'[q][call'[q].handle]].offset = call'[q].from
      BY Zenon DEF TransferExclusive
    <3>1. q \in Procs  BY <2>6, Zenon DEF TypeOK
    <3>0. call'[q].op # "idle"  OBVIOUS
    <3>2. f_lock'[fdesc'[q][call'[q].handle]] = q  BY <2>9, <3>0, <3>1, Zenon DEF CallsHold
    <3>3. CASE q = p
      <4>1. call'[q] = c /\ c.op # "lseek"  BY <2>5, <3>3
      <4> QED  BY <2>1, <3>2, <3>3, <4>1, Zenon
    <3>4. CASE q # p  BY <1>1, <2>1, <2>5, <3>1, <3>2, <3>4, Zenon DEF TransferExclusive
    <3> QED  BY <3>3, <3>4, Zenon
  <2> QED  BY <2>1, <2>6, <2>9, <2>10, SameFiles, Zenon DEF FilesInv, FilesShared
<1> QED  BY <1>2, <1>3, Zenon

\* A process that is in no call.
LEMMA IdleIs == ASSUME FileTableAssumption PROVE Idle \in CallRec /\ Idle.op = "idle"
BY DEF CallRec, FileTableAssumption, Idle, Offsets

\* A call that ends moves the position of the File it has locked, and no other
\* call is on that File.
LEMMA DoneInv ==
    ASSUME FileTableAssumption, FilesInv, NEW p \in Procs, rw_done(p) \/ lseek_done(p)
    PROVE  FilesInv'
<1> DEFINE b == fdesc[p][call[p].handle]
<1>1. TypeOK /\ TransferExclusive /\ CallsHold  BY Zenon DEF FilesInv, FilesShared
<1>2. call[p].op # "idle"  BY Zenon DEF rw_done, lseek_done
<1>3. b \in Blocks \cup {Con} /\ f_lock[b] = p  BY <1>1, <1>2, CallsFile, Zenon DEF CallsHold
<1>4. /\ call' = [call EXCEPT ![p] = Idle] /\ UNCHANGED <<running, fdesc, used, opencount, vnfreed, panicked>>
      /\ f_lock' \in {f_lock, [f_lock EXCEPT ![b] = Nobody]}
      /\ file' = file \/ \E n \in Offsets : file' = [file EXCEPT ![b].offset = n]
  <2>0. /\ call \in [Procs -> CallRec] /\ call[p].from \in Offsets
    <3>1. call \in [Procs -> CallRec]  BY <1>1, Zenon DEF TypeOK, CallRec
    <3> QED  BY <3>1 DEF CallRec
  <2>1. CASE rw_done(p)
    <3>1. PICK n \in {0, 1} : call[p].from + n <= MaxOffset /\ file' = [file EXCEPT ![b].offset = call[p].from + n]
      BY <2>1, Zenon DEF rw_done
    <3>2. call[p].from + n \in Offsets  BY <2>0, <3>1 DEF FileTableAssumption, Offsets
    <3> QED  BY <2>1, <3>1, <3>2, Zenon DEF rw_done, Leave
  <2>2. CASE lseek_done(p)  BY <2>0, <2>2, Zenon DEF lseek_done, Leave
  <2> QED  BY <2>1, <2>2, Zenon
<1> HIDE DEF b
<1>5. call' \in [Procs -> CallRec] /\ call'[p].op = "idle" /\ \A q \in Procs : q # p => call'[q] = call[q]
  <2>1. call \in [Procs -> CallRec]  BY <1>1, Zenon DEF TypeOK, CallRec
  <2> QED  BY <1>4, <2>1, IdleIs, Zenon
<1>6. f_lock' \in [Blocks \cup {Con} -> Procs \cup {Nobody}] /\ \A x \in Blocks \cup {Con} : x # b => f_lock'[x] = f_lock[x]
  <2>1. f_lock \in [Blocks \cup {Con} -> Procs \cup {Nobody}]  BY <1>1, Zenon DEF TypeOK
  <2> QED  BY <1>3, <1>4, <2>1, Zenon
<1>7. /\ file' \in [Blocks \cup {Con} -> [vnode : Paths \cup {console, Garbage}, flags : {"r", "w"}, offset : Offsets]]
      /\ \A x \in Blocks \cup {Con} : x # b => file'[x] = file[x]
  <2>1. file \in [Blocks \cup {Con} -> [vnode : Paths \cup {console, Garbage}, flags : {"r", "w"}, offset : Offsets]]
    BY <1>1, Zenon DEF TypeOK
  <2>2. CASE file' = file  BY <2>1, <2>2, Zenon
  <2>3. ASSUME NEW n \in Offsets, file' = [file EXCEPT ![b].offset = n]
        PROVE  /\ file' \in [Blocks \cup {Con} -> [vnode : Paths \cup {console, Garbage}, flags : {"r", "w"}, offset : Offsets]]
               /\ \A x \in Blocks \cup {Con} : x # b => file'[x] = file[x]
    <3>1. [file[b] EXCEPT !.offset = n] \in [vnode : Paths \cup {console, Garbage}, flags : {"r", "w"}, offset : Offsets]
      BY <1>3, <2>1
    <3> QED  BY <2>1, <2>3, <3>1, Zenon
  <2> QED  BY <1>4, <2>2, <2>3, Zenon
<1>8. TypeOK'  BY <1>1, <1>4, <1>5, <1>6, <1>7, Zenon DEF TypeOK, CallRec
<1>9. ASSUME NEW q \in Procs, call'[q].op # "idle"
      PROVE  /\ q # p /\ call'[q] = call[q]
             /\ fdesc[q][call[q].handle] \in Blocks \cup {Con}
             /\ fdesc[q][call[q].handle] # b /\ fdesc[q][call[q].handle] # NULL
             /\ q \in running /\ f_lock[fdesc[q][call[q].handle]] = q
  <2>1. q # p /\ call'[q] = call[q]  BY <1>5, <1>9
  <2>2. /\ fdesc[q][call[q].handle] \in Blocks \cup {Con} /\ fdesc[q][call[q].handle] # NULL
        /\ q \in running /\ f_lock[fdesc[q][call[q].handle]] = q
    BY <1>1, <1>9, <2>1, CallsFile, Zenon DEF CallsHold
  <2>3. fdesc[q][call[q].handle] # b  BY <1>3, <2>1, <2>2
  <2> QED  BY <2>1, <2>2, <2>3, Zenon
<1>10. CallsHold'
  <2> SUFFICES ASSUME NEW q \in Procs, call'[q].op # "idle"
               PROVE  /\ q \in running /\ fdesc[q][call'[q].handle] # NULL
                      /\ f_lock'[fdesc[q][call'[q].handle]] = q
    BY <1>4, Zenon DEF CallsHold
  <2> QED  BY <1>6, <1>9
<1>11. TransferExclusive'
  <2> SUFFICES ASSUME NEW q \in running, call'[q].op \in {"read", "write"}
               PROVE  /\ f_lock'[fdesc[q][call'[q].handle]] = q
                      /\ file'[fdesc[q][call'[q].handle]].offset = call'[q].from
    BY <1>4, Zenon DEF TransferExclusive
  <2>1. q \in Procs /\ call'[q].op # "idle"  BY <1>1 DEF TypeOK
  <2>2. file[fdesc[q][call[q].handle]].offset = call[q].from  BY <1>1, <1>9, <2>1, Zenon DEF TransferExclusive
  <2> QED  BY <1>6, <1>7, <1>9, <2>1, <2>2, SMTT(30)
<1> QED  BY <1>4, <1>8, <1>10, <1>11, SameFiles, Zenon DEF FilesInv, FilesShared

\* A slot of a running process that is not empty refers to an allocated File.
LEMMA SlotUsed ==
    ASSUME FilesInv, NEW p \in Procs, p \in running, NEW h \in Handles, fdesc[p][h] # NULL
    PROVE  fdesc[p][h] \in used
<1>1. h # 0 => fdesc[p][h] \in Own(p)  BY OwnIs, Zenon
<1>2. h # 0 => fdesc[p][h] \in used
  BY <1>1, UsedIs, Zenon DEF FilesInv, FilesShared, FilesOwned
<1>3. h = 0 => fdesc[p][h] \in used  BY Zenon DEF FilesInv, HandlesOK
<1> QED  BY <1>2, <1>3, Zenon

\* What the start of a call knows of its process.
LEMMA IdleStays ==
    ASSUME NEW p, Ready(p) PROVE p \in running /\ call[p].op = "idle" /\ panicked = "no"
BY DEF Ready, Idle

\* sys_open puts a File that nobody has into an empty slot.
LEMMA OpenInv ==
    ASSUME FileTableAssumption, FilesInv, NEW p \in Procs, NEW f \in Paths, NEW flags \in {"r", "w"},
           sys_open(p, f, flags)
    PROVE  FilesInv'
<1>1. TypeOK /\ TransferExclusive /\ FilesOwned /\ HandlesOK /\ CallsHold /\ Con \in used
  BY Zenon DEF FilesInv, FilesShared
<1>2. p \in running /\ call[p].op = "idle"  BY IdleStays, Zenon DEF sys_open
<1> DEFINE k == FirstFree(p)
<1>3. k \in Handles /\ k # 0 /\ fdesc[p][k] = NULL
  <2>1. Free(p) # {} /\ Free(p) \subseteq Nat  BY Zenon DEF sys_open, Free, FileTableAssumption
  <2>2. k \in Free(p)  BY <2>1, MinIs, Zenon DEF FirstFree
  <2> QED  BY <2>2, Zenon DEF Free
<1>4. PICK b \in Blocks \ used :
        /\ fdesc' = [fdesc EXCEPT ![p][k] = b]
        /\ used' = used \cup {b}
        /\ file' = [x \in DOMAIN file |->
                        IF x = b THEN [vnode |-> f, flags |-> flags, offset |-> 0]
                        ELSE IF x = b + 1 /\ x \in used THEN [file[x] EXCEPT !.vnode = Garbage]
                        ELSE file[x]]
        /\ f_lock' = [f_lock EXCEPT ![b] = Nobody]
  BY Zenon DEF sys_open
<1> HIDE DEF k
<1>5. opencount[f] < MaxOpens /\ opencount' = [opencount EXCEPT ![f] = @ + 1]
      /\ running' = running /\ vnfreed' = vnfreed /\ call' = call /\ panicked' = panicked
  BY DEF sys_open
<1>6. b \in Blocks /\ b \notin used /\ b # NULL /\ b # Con
  BY DEF FileTableAssumption, NULL, Con
<1>7. /\ fdesc' \in [Procs -> [Handles -> Blocks \cup {Con, NULL}]]
      /\ \A q \in Procs : q # p => fdesc'[q] = fdesc[q]
      /\ fdesc'[p][k] = b /\ \A h \in Handles : h # k => fdesc'[p][h] = fdesc[p][h]
  <2>1. fdesc \in [Procs -> [Handles -> Blocks \cup {Con, NULL}]]  BY <1>1, Zenon DEF TypeOK
  <2>2. b \in Blocks \cup {Con, NULL}  BY <1>6
  <2>3. fdesc' = [fdesc EXCEPT ![p] = [fdesc[p] EXCEPT ![k] = b]]  BY <1>4, Zenon
  <2>4. /\ [fdesc[p] EXCEPT ![k] = b] \in [Handles -> Blocks \cup {Con, NULL}]
        /\ [fdesc[p] EXCEPT ![k] = b][k] = b
        /\ \A h \in Handles : h # k => [fdesc[p] EXCEPT ![k] = b][h] = fdesc[p][h]
    BY <1>3, <2>1, <2>2, Zenon
  <2> DEFINE t == [fdesc[p] EXCEPT ![k] = b]
  <2> HIDE DEF t
  <2>5. fdesc' = [fdesc EXCEPT ![p] = t] /\ t \in [Handles -> Blocks \cup {Con, NULL}]  BY <2>3, <2>4, Zenon DEF t
  <2>6. fdesc'[p] = t  BY <2>1, <2>5, Zenon
  <2> QED  BY <2>1, <2>4, <2>5, <2>6, Zenon DEF t
<1>8. file \in [Blocks \cup {Con} -> [vnode : Paths \cup {console, Garbage}, flags : {"r", "w"}, offset : Offsets]]
  BY <1>1, Zenon DEF TypeOK
<1>9. ASSUME NEW x \in Blocks \cup {Con}
      PROVE  /\ file'[x] \in [vnode : Paths \cup {console, Garbage}, flags : {"r", "w"}, offset : Offsets]
             /\ x # b => file'[x].offset = file[x].offset
  <2>1. file[x] \in [vnode : Paths \cup {console, Garbage}, flags : {"r", "w"}, offset : Offsets]
    BY <1>8, Zenon
  <2>2. /\ [file[x] EXCEPT !.vnode = Garbage]
              \in [vnode : Paths \cup {console, Garbage}, flags : {"r", "w"}, offset : Offsets]
        /\ [file[x] EXCEPT !.vnode = Garbage].offset = file[x].offset
    BY <2>1
  <2>3. 0 \in Offsets  BY DEF FileTableAssumption, Offsets
  <2>4. [vnode |-> f, flags |-> flags, offset |-> 0]
              \in [vnode : Paths \cup {console, Garbage}, flags : {"r", "w"}, offset : Offsets]
    BY <2>3
  <2>5. file'[x] = IF x = b THEN [vnode |-> f, flags |-> flags, offset |-> 0]
                   ELSE IF x = b + 1 /\ x \in used THEN [file[x] EXCEPT !.vnode = Garbage]
                   ELSE file[x]
    BY <1>4, <1>8, Zenon
  <2> QED  BY <2>1, <2>2, <2>4, <2>5, Zenon
<1>10. file' \in [Blocks \cup {Con} -> [vnode : Paths \cup {console, Garbage}, flags : {"r", "w"}, offset : Offsets]]
  <2>1. \E g : file' = [x \in Blocks \cup {Con} |-> g[x]]
    <3>1. file' = [x \in Blocks \cup {Con} |-> file'[x]]  BY <1>4, <1>8, Zenon
    <3> QED  BY <3>1, Zenon
  <2> QED  BY <1>9, <2>1, Zenon
<1>11. f_lock' \in [Blocks \cup {Con} -> Procs \cup {Nobody}] /\ \A x \in Blocks \cup {Con} : x # b => f_lock'[x] = f_lock[x]
  <2>1. f_lock \in [Blocks \cup {Con} -> Procs \cup {Nobody}]  BY <1>1, Zenon DEF TypeOK
  <2> QED  BY <1>4, <2>1, Zenon
<1>12. opencount' \in [Paths -> 0..MaxOpens]
  BY <1>1, <1>5 DEF TypeOK, FileTableAssumption
<1>13. used' \subseteq Blocks \cup {Con} /\ Con \in used'  BY <1>1, <1>4 DEF TypeOK
<1>14. TypeOK'
  BY <1>1, <1>5, <1>7, <1>10, <1>11, <1>12, <1>13, Zenon DEF TypeOK
<1>15. HandlesOK'
  <2> SUFFICES ASSUME NEW q \in Procs, NEW h \in Handles
               PROVE  IF h = 0 THEN fdesc'[q][h] \in {Con, NULL} ELSE fdesc'[q][h] \in Blocks \cup {NULL}
    BY Zenon DEF HandlesOK
  <2>1. q = p /\ h = k => fdesc'[q][h] = b  BY <1>7, Zenon
  <2>2. ~(q = p /\ h = k) => fdesc'[q][h] = fdesc[q][h]  BY <1>7, Zenon
  <2>3. IF h = 0 THEN fdesc[q][h] \in {Con, NULL} ELSE fdesc[q][h] \in Blocks \cup {NULL}
    BY <1>1, Zenon DEF HandlesOK
  <2> QED  BY <1>3, <1>6, <2>1, <2>2, <2>3
<1>16. ASSUME NEW q \in Procs, call[q].op # "idle"
       PROVE  /\ q # p /\ fdesc'[q] = fdesc[q] /\ fdesc[q][call[q].handle] # b
              /\ fdesc[q][call[q].handle] \in Blocks \cup {Con}
  <2>1. q # p  BY <1>2, <1>16
  <2>2. fdesc[q][call[q].handle] \in used /\ fdesc[q][call[q].handle] \in Blocks \cup {Con}
    BY <1>16, CallsFile, Zenon
  <2> QED  BY <1>6, <1>7, <2>1, <2>2, Zenon
<1>17. CallsHold'
  <2> SUFFICES ASSUME NEW q \in Procs, call[q].op # "idle"
               PROVE  /\ q \in running /\ fdesc'[q][call[q].handle] # NULL
                      /\ f_lock'[fdesc'[q][call[q].handle]] = q
    BY <1>5, Zenon DEF CallsHold
  <2>1. /\ q \in running /\ fdesc[q][call[q].handle] # NULL /\ f_lock[fdesc[q][call[q].handle]] = q
    BY <1>1, Zenon DEF CallsHold
  <2> QED  BY <1>11, <1>16, <2>1
<1>18. TransferExclusive'
  <2> SUFFICES ASSUME NEW q \in running, call[q].op \in {"read", "write"}
               PROVE  /\ f_lock'[fdesc'[q][call[q].handle]] = q
                      /\ file'[fdesc'[q][call[q].handle]].offset = call[q].from
    BY <1>5, Zenon DEF TransferExclusive
  <2>1. q \in Procs /\ call[q].op # "idle"  BY <1>1 DEF TypeOK
  <2>2. f_lock[fdesc[q][call[q].handle]] = q /\ file[fdesc[q][call[q].handle]].offset = call[q].from
    BY <1>1, Zenon DEF TransferExclusive
  <2> QED  BY <1>9, <1>11, <1>16, <2>1, <2>2, SMTT(30)
<1>19. \A c : c \in Own(p)' <=> c \in Own(p) \/ c = b
  <2> SUFFICES ASSUME NEW c PROVE c \in Own(p)' <=> c \in Own(p) \/ c = b  OBVIOUS
  <2>1. c \in Own(p) <=> c # NULL /\ \E h \in Handles \ {0} : fdesc[p][h] = c  BY OwnIs
  <2>2. c \in Own(p)' <=> c # NULL /\ \E h \in Handles \ {0} : fdesc'[p][h] = c  BY OwnIsNext
  <2> QED  BY <1>3, <1>6, <1>7, <2>1, <2>2
<1>20. \A q \in running : q # p => Own(q)' = Own(q)
  <2>1. running \subseteq Procs  BY <1>1 DEF TypeOK
  <2> QED  BY <1>7, <2>1, ZenonT(60) DEF Own
<1>21. (used \ {Con} = UNION {Own(q) : q \in running})'
  <2>1. \A c : c \in used \ {Con} <=> \E q \in running : c \in Own(q)  BY <1>1, UsedIs, Zenon DEF FilesOwned
  <2>2. \A c : c \in used' \ {Con} <=> c \in used \ {Con} \/ c = b  BY <1>4, <1>6
  <2>3. \A c : c \in used' \ {Con} <=> \E q \in running' : c \in Own(q)'
    <3> SUFFICES ASSUME NEW c PROVE c \in used' \ {Con} <=> \E q \in running : c \in Own(q)'
      BY <1>5, Zenon
    <3>1. \A q \in running : c \in Own(q)' <=> c \in Own(q) \/ (q = p /\ c = b)  BY <1>19, <1>20, Zenon
    <3>2. (\E q \in running : c \in Own(q)') <=> (\E q \in running : c \in Own(q)) \/ c = b
      BY <1>2, <3>1, Zenon
    <3> QED  BY <2>1, <2>2, <3>2, Zenon
  <2> QED  BY <2>3, UsedIsNext, Zenon
<1>22. \A q \in running' : \A h, i \in Handles : h # i /\ fdesc'[q][h] = fdesc'[q][i] => fdesc'[q][h] = NULL
  <2> SUFFICES ASSUME NEW q \in running, NEW h \in Handles, NEW i \in Handles, h # i, fdesc'[q][h] = fdesc'[q][i]
               PROVE  fdesc'[q][h] = NULL
    BY <1>5, Zenon
  <2>1. q \in Procs  BY <1>1 DEF TypeOK
  <2>2. \A j \in Handles : fdesc[q][j] # b
    BY <1>6, <2>1, SlotUsed, Zenon
  <2>3. fdesc[q][h] = fdesc[q][i] => fdesc[q][h] = NULL  BY <1>1, Zenon DEF FilesOwned
  <2> QED  BY <1>7, <2>1, <2>2, <2>3, Zenon
<1> QED
  BY <1>13, <1>14, <1>15, <1>17, <1>18, <1>21, <1>22, Zenon DEF FilesInv, FilesShared, FilesOwned

\* sys_fork gives the child, which makes no call yet, the Files of its parent.
LEMMA ForkInv ==
    ASSUME FileTableAssumption, FilesInv, NEW p \in Procs, NEW q \in Procs, sys_fork(p, q)
    PROVE  FilesInv'
<1>1. TypeOK /\ TransferExclusive /\ FilesOwned /\ HandlesOK /\ CallsHold /\ Con \in used
  BY Zenon DEF FilesInv, FilesShared
<1>2. p \in running  BY IdleStays, Zenon DEF sys_fork
<1>3. /\ q \notin running /\ running' = running \cup {q} /\ fdesc' = [fdesc EXCEPT ![q] = fdesc[p]]
      /\ file' = file /\ f_lock' = f_lock /\ used' = used /\ opencount' = opencount
      /\ vnfreed' = vnfreed /\ call' = call /\ panicked' = panicked
  BY DEF sys_fork
<1>4. fdesc \in [Procs -> [Handles -> Blocks \cup {Con, NULL}]] /\ running \subseteq Procs  BY <1>1, Zenon DEF TypeOK
<1>5. /\ fdesc' \in [Procs -> [Handles -> Blocks \cup {Con, NULL}]]
      /\ fdesc'[q] = fdesc[p] /\ \A x \in Procs : x # q => fdesc'[x] = fdesc[x]
  BY <1>3, <1>4, Zenon
<1>6. TypeOK'
  <2>1. running' \subseteq Procs  BY <1>3, <1>4
  <2> QED  BY <1>1, <1>3, <1>5, <2>1, Zenon DEF TypeOK
<1>7. call[q].op = "idle"  BY <1>1, <1>3, Zenon DEF CallsHold
<1>8. HandlesOK'  BY <1>1, <1>5, Zenon DEF HandlesOK
<1>9. CallsHold'
  <2> SUFFICES ASSUME NEW x \in Procs, call[x].op # "idle"
               PROVE  /\ x \in running' /\ fdesc'[x][call[x].handle] # NULL
                      /\ f_lock[fdesc'[x][call[x].handle]] = x
    BY <1>3, Zenon DEF CallsHold
  <2>1. x # q /\ fdesc'[x] = fdesc[x]  BY <1>5, <1>7, Zenon
  <2> QED  BY <1>1, <1>3, <2>1, Zenon DEF CallsHold
<1>10. TransferExclusive'
  <2> SUFFICES ASSUME NEW x \in running', call[x].op \in {"read", "write"}
               PROVE  /\ f_lock[fdesc'[x][call[x].handle]] = x
                      /\ file[fdesc'[x][call[x].handle]].offset = call[x].from
    BY <1>3, Zenon DEF TransferExclusive
  <2>1. call[x].op # "idle"  OBVIOUS
  <2>2. x \in running /\ x \in Procs /\ x # q  BY <1>3, <1>4, <1>7, <2>1
  <2> QED  BY <1>1, <1>5, <2>2, Zenon DEF TransferExclusive
<1>11. Own(q)' = Own(p) /\ \A x \in running : Own(x)' = Own(x)
  <2>1. \A x \in running : fdesc'[x] = fdesc[x]  BY <1>3, <1>4, <1>5, Zenon
  <2> QED  BY <1>5, <2>1, Zenon DEF Own
<1>12. (used \ {Con} = UNION {Own(x) : x \in running})'
  <2>1. \A c : c \in used \ {Con} <=> \E x \in running : c \in Own(x)  BY <1>1, UsedIs, Zenon DEF FilesOwned
  <2>2. ASSUME NEW c PROVE (\E x \in running' : c \in Own(x)') <=> \E x \in running : c \in Own(x)
    <3>1. (\E x \in running' : c \in Own(x)') <=> c \in Own(q)' \/ \E x \in running : c \in Own(x)'
      BY <1>3, Zenon
    <3> QED  BY <1>2, <1>11, <3>1, Zenon
  <2>3. \A c : c \in used' \ {Con} <=> \E x \in running' : c \in Own(x)'  BY <1>3, <2>1, <2>2, Zenon
  <2> QED  BY <2>3, UsedIsNext, Zenon
<1>13. \A x \in running' : \A h, i \in Handles : h # i /\ fdesc'[x][h] = fdesc'[x][i] => fdesc'[x][h] = NULL
  <2>1. \A x \in running' : \E y \in running : fdesc'[x] = fdesc[y]
    <3> SUFFICES ASSUME NEW x \in running' PROVE \E y \in running : fdesc'[x] = fdesc[y]  OBVIOUS
    <3>1. CASE x = q  BY <1>2, <1>5, <3>1, Zenon
    <3>2. CASE x # q
      <4>1. x \in running  BY <1>3, <3>2
      <4> QED  BY <1>4, <1>5, <3>2, <4>1, Zenon
    <3> QED  BY <3>1, <3>2, Zenon
  <2>2. \A y \in running : \A h, i \in Handles : h # i /\ fdesc[y][h] = fdesc[y][i] => fdesc[y][h] = NULL
    BY <1>1, Zenon DEF FilesOwned
  <2> QED  BY <2>1, <2>2
<1> QED
  BY <1>1, <1>3, <1>6, <1>8, <1>9, <1>10, <1>12, <1>13, Zenon DEF FilesInv, FilesShared, FilesOwned

\* thread_destroy frees the Files of a process that shares none.
LEMMA DestroyInv ==
    ASSUME FileTableAssumption, "shared" \notin Odd, FilesInv, NEW p \in Procs, thread_destroy(p)
    PROVE  FilesInv'
<1>1. TypeOK /\ TransferExclusive /\ FilesOwned /\ HandlesOK /\ CallsHold /\ Con \in used
  BY Zenon DEF FilesInv, FilesShared
<1>2. p \in running /\ call[p].op = "idle"  BY IdleStays, Zenon DEF thread_destroy
<1> DEFINE once == {file[b].vnode : b \in Own(p)} \cap {f \in Paths : opencount[f] <= 1}
<1>3. /\ Own(p) \cap OthersUse(p) = {}
      /\ running' = running \ {p} /\ used' = used \ Own(p) /\ vnfreed' = vnfreed \cup once
      /\ fdesc' = [fdesc EXCEPT ![p] = [h \in Handles |-> NULL]]
      /\ file' = file /\ f_lock' = f_lock /\ opencount' = opencount /\ call' = call /\ panicked' = panicked
  BY Zenon DEF thread_destroy
<1>4. fdesc \in [Procs -> [Handles -> Blocks \cup {Con, NULL}]] /\ running \subseteq Procs  BY <1>1, Zenon DEF TypeOK
<1>5. once \subseteq Paths  OBVIOUS
<1> HIDE DEF once
<1>6. /\ fdesc' \in [Procs -> [Handles -> Blocks \cup {Con, NULL}]]
      /\ fdesc'[p] = [h \in Handles |-> NULL] /\ \A x \in Procs : x # p => fdesc'[x] = fdesc[x]
  <2>1. [h \in Handles |-> NULL] \in [Handles -> Blocks \cup {Con, NULL}]  OBVIOUS
  <2> QED  BY <1>3, <1>4, <2>1, Zenon
<1>7. TypeOK'
  <2>1. running' \subseteq Procs /\ used' \subseteq Blocks \cup {Con} /\ vnfreed' \subseteq Paths
    BY <1>1, <1>3, <1>5 DEF TypeOK
  <2> QED  BY <1>1, <1>3, <1>6, <2>1, Zenon DEF TypeOK
<1>8. HandlesOK'
  <2> SUFFICES ASSUME NEW x \in Procs, NEW h \in Handles
               PROVE  IF h = 0 THEN fdesc'[x][h] \in {Con, NULL} ELSE fdesc'[x][h] \in Blocks \cup {NULL}
    BY Zenon DEF HandlesOK
  <2>1. x = p => fdesc'[x][h] = NULL  BY <1>6, Zenon
  <2>2. x # p => fdesc'[x][h] = fdesc[x][h]  BY <1>6, Zenon
  <2> QED  BY <1>1, <2>1, <2>2, Zenon DEF HandlesOK
<1>9. CallsHold'
  <2> SUFFICES ASSUME NEW x \in Procs, call[x].op # "idle"
               PROVE  /\ x \in running' /\ fdesc'[x][call[x].handle] # NULL
                      /\ f_lock[fdesc'[x][call[x].handle]] = x
    BY <1>3, Zenon DEF CallsHold
  <2>1. x # p /\ fdesc'[x] = fdesc[x]  BY <1>2, <1>6, Zenon
  <2> QED  BY <1>1, <1>3, <2>1, Zenon DEF CallsHold
<1>10. TransferExclusive'
  <2> SUFFICES ASSUME NEW x \in running', call[x].op \in {"read", "write"}
               PROVE  /\ f_lock[fdesc'[x][call[x].handle]] = x
                      /\ file[fdesc'[x][call[x].handle]].offset = call[x].from
    BY <1>3, ZenonT(60) DEF TransferExclusive
  <2>1. x \in running /\ x \in Procs /\ x # p  BY <1>3, <1>4
  <2> QED  BY <1>1, <1>6, <2>1, Zenon DEF TransferExclusive
<1>11. \A x \in running : x # p => Own(x)' = Own(x) /\ Own(x) \cap Own(p) = {}
  <2> SUFFICES ASSUME NEW x \in running, x # p PROVE Own(x)' = Own(x) /\ Own(x) \cap Own(p) = {}  OBVIOUS
  <2>1. fdesc'[x] = fdesc[x]  BY <1>4, <1>6, Zenon
  <2>2. Own(x)' = Own(x)  BY <2>1, Zenon DEF Own
  <2>3. Own(x) \subseteq OthersUse(p)  BY Zenon DEF OthersUse
  <2> QED  BY <1>3, <2>2, <2>3, Zenon
<1>12. (used \ {Con} = UNION {Own(x) : x \in running})'
  <2>1. \A c : c \in used \ {Con} <=> \E x \in running : c \in Own(x)  BY <1>1, UsedIs, Zenon DEF FilesOwned
  <2>2. ASSUME NEW c PROVE (\E x \in running' : c \in Own(x)') <=> (\E x \in running : c \in Own(x)) /\ c \notin Own(p)
    <3>1. \A x : x \in running' <=> x \in running /\ x # p  BY <1>3
    <3>2. \A x \in running' : c \in Own(x)' <=> c \in Own(x) /\ c \notin Own(p)  BY <1>11, <3>1, Zenon
    <3> QED  BY <3>1, <3>2, Zenon
  <2>3. \A c : c \in used' \ {Con} <=> c \in used \ {Con} /\ c \notin Own(p)  BY <1>3
  <2>4. \A c : c \in used' \ {Con} <=> \E x \in running' : c \in Own(x)'  BY <2>1, <2>2, <2>3, Zenon
  <2> QED  BY <2>4, UsedIsNext, Zenon
<1>13. \A x \in running' : \A h, i \in Handles : h # i /\ fdesc'[x][h] = fdesc'[x][i] => fdesc'[x][h] = NULL
  <2>1. \A x \in running' : x \in running /\ fdesc'[x] = fdesc[x]  BY <1>3, <1>4, <1>6
  <2>2. \A y \in running : \A h, i \in Handles : h # i /\ fdesc[y][h] = fdesc[y][i] => fdesc[y][h] = NULL
    BY <1>1, Zenon DEF FilesOwned
  <2> QED  BY <2>1, <2>2
<1>14. Con \in used'
  <2>1. \A h \in Handles \ {0} : fdesc[p][h] # Con
    BY <1>1 DEF HandlesOK, FileTableAssumption, Con, NULL
  <2> QED  BY <1>1, <1>3, <2>1, OwnIs, Zenon
<1> QED
  BY <1>7, <1>8, <1>9, <1>10, <1>12, <1>13, <1>14, Zenon DEF FilesInv, FilesShared, FilesOwned

\* At first one process has the console open.
LEMMA InitFilesInv == ASSUME FileTableAssumption, Init PROVE FilesInv
<1> DEFINE Rec == [vnode : Paths \cup {console, Garbage}, flags : {"r", "w"}, offset : Offsets]
<1>0. /\ running = {First} /\ used = {Con} /\ vnfreed = {} /\ panicked = "no"
      /\ fdesc = [p \in Procs |-> [h \in Handles |-> IF p = First /\ h = 0 THEN Con ELSE NULL]]
      /\ f_lock = [b \in Blocks \cup {Con} |-> Nobody]
      /\ opencount = [f \in Paths |-> 0] /\ call = [p \in Procs |-> Idle]
      /\ file = [b \in Blocks \cup {Con} |-> [NoFile EXCEPT !.vnode = IF b = Con THEN console ELSE Garbage]]
  BY DEF Init
<1>1. First \in Procs /\ 0 \in Offsets /\ 0 \in Handles /\ 0 \in 0..MaxOpens
  BY DEF FileTableAssumption, Offsets
<1>2. fdesc \in [Procs -> [Handles -> Blocks \cup {Con, NULL}]]  BY <1>0
<1>3. call \in [Procs -> CallRec] /\ \A p \in Procs : call[p].op = "idle"  BY <1>0, IdleIs, Zenon
<1>4. \A b \in Blocks \cup {Con} :
        [NoFile EXCEPT !.vnode = IF b = Con THEN console ELSE Garbage] \in Rec
  BY <1>1 DEF NoFile
<1>5. file \in [Blocks \cup {Con} -> Rec]  BY <1>0, <1>4, Zenon
<1>6. f_lock \in [Blocks \cup {Con} -> Procs \cup {Nobody}] /\ opencount \in [Paths -> 0..MaxOpens]
  BY <1>0, <1>1
<1>7. running \subseteq Procs /\ used \subseteq Blocks \cup {Con} /\ vnfreed \subseteq Paths  BY <1>0, <1>1
<1>8. TypeOK  BY <1>0, <1>2, <1>3, <1>5, <1>6, <1>7, Zenon DEF TypeOK, CallRec
<1>9. \A p \in Procs : \A h \in Handles : fdesc[p][h] = IF p = First /\ h = 0 THEN Con ELSE NULL  BY <1>0, Zenon
<1>10. HandlesOK  BY <1>9, Zenon DEF HandlesOK
<1>11. CallsHold  BY <1>3, Zenon DEF CallsHold
<1>12. TransferExclusive
  <2> SUFFICES ASSUME NEW p \in running, call[p].op \in {"read", "write"} PROVE FALSE  BY Zenon DEF TransferExclusive
  <2>1. call[p].op = "idle"  BY <1>3, <1>7
  <2> QED  BY <2>1
<1>13. used \ {Con} = UNION {Own(p) : p \in running}
  <2>1. \A c : c \notin used \ {Con}  BY <1>0
  <2>2. ASSUME NEW p \in running, NEW c PROVE c \notin Own(p)
    <3>1. \A h \in Handles \ {0} : fdesc[p][h] = NULL  BY <1>7, <1>9, Zenon
    <3> QED  BY <3>1, OwnIs, Zenon
  <2> QED  BY <2>1, <2>2, UsedIs, Zenon
<1>14. \A p \in running : \A h, i \in Handles : h # i /\ fdesc[p][h] = fdesc[p][i] => fdesc[p][h] = NULL
  <2> SUFFICES ASSUME NEW p \in running, NEW h \in Handles, NEW i \in Handles, h # i, fdesc[p][h] = fdesc[p][i]
               PROVE  fdesc[p][h] = NULL
    OBVIOUS
  <2>1. p \in Procs  BY <1>7
  <2>2. h # 0 \/ i # 0  OBVIOUS
  <2> QED  BY <1>9, <2>1, <2>2, Zenon
<1> QED  BY <1>0, <1>8, <1>10, <1>11, <1>12, <1>13, <1>14, Zenon DEF FilesInv, FilesShared, FilesOwned

\* Every step of file.c, and of fork and exit in thread.c, preserves it.
LEMMA NextFilesInv ==
    ASSUME FileTableAssumption, "shared" \notin Odd, FilesInv, [Next]_vars PROVE FilesInv'
<1>1. CASE UNCHANGED vars
  <2>1. /\ running' = running /\ fdesc' = fdesc /\ file' = file /\ f_lock' = f_lock /\ used' = used
        /\ opencount' = opencount /\ vnfreed' = vnfreed /\ call' = call /\ panicked' = panicked
    BY <1>1 DEF vars
  <2>2. FilesOwned' /\ HandlesOK' /\ Con \in used'  BY <2>1, SameFiles, Zenon
  <2>3. TypeOK' /\ TransferExclusive' /\ CallsHold'
    BY <2>1, Zenon DEF FilesInv, FilesShared, TypeOK, TransferExclusive, CallsHold
  <2> QED  BY <2>2, <2>3, Zenon DEF FilesInv, FilesShared
<1>2. CASE Next
  <2>0. PICK p \in Procs :
          \/ \E f \in Paths, flags \in {"r", "w"} : sys_open(p, f, flags)
          \/ \E h \in Handles : sys_read(p, h)
          \/ \E h \in Handles : sys_write(p, h)
          \/ \E h \in Handles, want, a1 \in Offsets : sys_lseek(p, h, want, a1)
          \/ rw_done(p) \/ lseek_done(p)
          \/ \E h \in Handles : sys_close(p, h)
          \/ \E h, new \in Handles : sys_dup2(p, h, new)
          \/ \E q \in Procs : sys_fork(p, q)
          \/ thread_destroy(p)
    BY <1>2, Zenon DEF Next
  <2>1. 0 \in Offsets /\ 0 \in Handles  BY DEF FileTableAssumption, Offsets
  <2>2. ASSUME NEW h \in Handles, fdesc[p][h] # NULL PROVE file[fdesc[p][h]].offset \in Offsets
    <3>1. TypeOK  BY Zenon DEF FilesInv, FilesShared
    <3>2. fdesc[p][h] \in Blocks \cup {Con}  BY <2>2, <3>1, SlotIs
    <3>3. file \in [Blocks \cup {Con} -> [vnode : Paths \cup {console, Garbage}, flags : {"r", "w"}, offset : Offsets]]
      BY <3>1, Zenon DEF TypeOK
    <3> QED  BY <3>2, <3>3
  <2>3. ASSUME NEW f \in Paths, NEW flags \in {"r", "w"}, sys_open(p, f, flags) PROVE FilesInv'
    BY <2>3, OpenInv, Zenon
  <2>4. ASSUME NEW h \in Handles, sys_read(p, h) PROVE FilesInv'
    <3>1. CASE fdesc[p][h] = NULL  BY <2>4, <3>1, PanicInv, Zenon DEF sys_read
    <3>2. CASE fdesc[p][h] # NULL
      <4> DEFINE c == [Idle EXCEPT !.op = "read", !.handle = h, !.from = file[fdesc[p][h]].offset]
      <4>1. c \in [op : {"read", "write", "lseek"}, handle : Handles, from : Offsets,
                   want : Offsets, data : {"user", "stale"}]
            /\ c.handle = h /\ c.from = file[fdesc[p][h]].offset
        BY <2>1, <2>2, <3>2, Zenon DEF Idle
      <4>2. Enter(p, h, c) /\ Ready(p)  BY <2>4, <3>2, Zenon DEF sys_read, Enter
      <4> HIDE DEF c
      <4> QED  BY <4>1, <4>2, EnterInv, Zenon
    <3> QED  BY <3>1, <3>2, Zenon
  <2>5. ASSUME NEW h \in Handles, sys_write(p, h) PROVE FilesInv'
    <3>1. PICK d \in {"user", "stale"} :
            Enter(p, h, [op |-> "write", handle |-> h, from |-> file[fdesc[p][h]].offset, want |-> 0, data |-> d])
      BY <2>5, Zenon DEF sys_write
    <3> DEFINE c == [op |-> "write", handle |-> h, from |-> file[fdesc[p][h]].offset, want |-> 0, data |-> d]
    <3>2. c \in [op : {"read", "write", "lseek"}, handle : Handles, from : Offsets,
                 want : Offsets, data : {"user", "stale"}]
          /\ c.handle = h /\ c.from = file[fdesc[p][h]].offset
      <4>1. fdesc[p][h] # NULL  BY <2>5, Zenon DEF sys_write
      <4> QED  BY <2>1, <2>2, <4>1
    <3>3. Enter(p, h, c) /\ Ready(p)  BY <3>1, Zenon DEF Enter
    <3> HIDE DEF c
    <3> QED  BY <3>2, <3>3, EnterInv, Zenon
  <2>6. ASSUME NEW h \in Handles, NEW want \in Offsets, NEW a1 \in Offsets, sys_lseek(p, h, want, a1) PROVE FilesInv'
    <3> DEFINE c == [Idle EXCEPT !.op = "lseek", !.handle = h, !.from = a1, !.want = want]
    <3>1. c \in [op : {"read", "write", "lseek"}, handle : Handles, from : Offsets,
                 want : Offsets, data : {"user", "stale"}]
          /\ c.handle = h /\ c.op = "lseek"
      BY <2>1, Zenon DEF Idle
    <3>2. Enter(p, h, c) /\ Ready(p)  BY <2>6, Zenon DEF sys_lseek, Enter
    <3> HIDE DEF c
    <3> QED  BY <3>1, <3>2, EnterInv, Zenon
  <2>7. ASSUME rw_done(p) \/ lseek_done(p) PROVE FilesInv'  BY <2>7, DoneInv, Zenon
  <2>8. ASSUME NEW h \in Handles, sys_close(p, h) PROVE FilesInv'
    <3>1. Panic("relock") \/ Panic("close")  BY <2>8, Zenon DEF sys_close
    <3> QED  BY <3>1, PanicInv, Zenon
  <2>9. ASSUME NEW h \in Handles, NEW new \in Handles, sys_dup2(p, h, new) PROVE FilesInv'
    <3>1. sys_close(p, h) \/ Panic("dup2")  BY <2>9, Zenon DEF sys_dup2
    <3> QED  BY <2>8, <3>1, PanicInv, Zenon
  <2>10. ASSUME NEW q \in Procs, sys_fork(p, q) PROVE FilesInv'  BY <2>10, ForkInv, Zenon
  <2>11. ASSUME thread_destroy(p) PROVE FilesInv'  BY <2>11, DestroyInv, Zenon
  <2> QED  BY <2>0, <2>3, <2>4, <2>5, <2>6, <2>7, <2>8, <2>9, <2>10, <2>11, Zenon
<1> QED  BY <1>1, <1>2, Zenon

\* With any processes, handles and Files: while a process is between lock_acquire
\* and lock_release of sys_read, sys_write or sys_lseek it alone moves the
\* position of the File, though others inherited the File from sys_fork; and the
\* Files that are allocated are those in the tables of the processes that run.
\* It is assumed that no process exits whose Files others use too, which
\* thread_destroy frees under them.
THEOREM FilesAreShared ==
    ASSUME FileTableAssumption, "shared" \notin Odd PROVE Spec => []FilesShared
<1>1. Init => FilesInv  BY InitFilesInv
<1>2. FilesInv /\ [Next]_vars => FilesInv'  BY NextFilesInv
<1>3. FilesInv => FilesShared  BY DEF FilesInv
<1> QED  BY <1>1, <1>2, <1>3, PTL DEF Spec
=============================================================================
