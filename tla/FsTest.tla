------------------------------- MODULE FsTest -------------------------------
(***************************************************************************)
(* The kernel's file system tests (kern/test/fstest.c): fs1 to fs5.  The   *)
(* test's thread and its helpers write, read back and remove files, chunk  *)
(* by chunk, and meet at the semaphore threadsem.                          *)
(*                                                                         *)
(* The file system is external: requests are atomic, any of them may fail  *)
(* (at most MaxErrors do), a removed file lives until it is closed.        *)
(***************************************************************************)
EXTENDS Integers, Sequences, FiniteSets, FiniteSetsExt

CONSTANTS NCHUNKS, NTHREADS, NCREATES, MaxErrors

FsTestAssumption == NCHUNKS \in Nat \ {0} /\ NTHREADS \in Nat \ {0} /\ NCREATES \in Nat \ {0} /\ MaxErrors \in Nat

VARIABLES
    test,           \* fs1 ... fs5
    names,          \* names[n]: the inode a name stands for, or NoFile
    data,           \* data[f]: chunk i of inode f, or Hole
    pc,             \* what every thread is doing
    threadsem,
    errors,         \* requests that failed
    failed          \* a thread reported a failure

vars == <<test, names, data, pc, threadsem, errors, failed>>

Main == 0
Helpers == 1..NTHREADS
Tids == Helpers \cup {Main}
Shared == <<0, 0>>                                  \* the suffix ""
Names == {Shared} \cup (Helpers \X (0..NCREATES - 1))
NoFile == 0
Hole == -1                                          \* zeroes
Beyond == -2                                        \* past the end of the file
Chunks == 0..NCHUNKS - 1
Inodes == 1..Cardinality(Names) + NTHREADS + 1

\* rotate, as far as its first letter: the slogan is chunk 0's.
rotate(ch, amt) == (ch + ((amt + 2600) % 26)) % 26
SLOGAN == 0

-----------------------------------------------------------------------------
(* What a thread does, as a list of calls.                                 *)
Write(n, size, pos) == [op |-> "write", name |-> n, size |-> size, pos |-> pos]
Read(n) == [op |-> "read", name |-> n, size |-> 1, pos |-> 0]
Remove(n) == [op |-> "remove", name |-> n, size |-> 1, pos |-> 0]
Create == [op |-> "create", name |-> Shared, size |-> 1, pos |-> 0]
Fork == [op |-> "fork", name |-> Shared, size |-> 1, pos |-> 0]
Wait == [op |-> "wait", name |-> Shared, size |-> NTHREADS, pos |-> 0]

dofstest == <<Write(Shared, 1, 0), Read(Shared), Remove(Shared)>>
doreadstress == <<Write(Shared, 1, 0), Fork, Wait, Remove(Shared)>>
dowritestress == <<Fork, Wait>>
dowritestress2 == <<Create, Fork, Wait, Read(Shared), Remove(Shared)>>
docreatestress == <<Fork, Wait>>

readstress_thread(t) == <<Read(Shared)>>
writestress_thread(t) == <<Write(<<t, 0>>, 1, 0), Read(<<t, 0>>), Remove(<<t, 0>>)>>
writestress2_thread(t) == <<Write(Shared, NTHREADS, t - 1)>>
createstress_thread(t) == [k \in 1..3 * NCREATES |->
                              LET n == <<t, (k - 1) \div 3>>
                              IN <<Write(n, 1, 0), Read(n), Remove(n)>>[((k - 1) % 3) + 1]]

Script(t) ==
    IF t = Main THEN CASE test = "fs1" -> dofstest [] test = "fs2" -> doreadstress [] test = "fs3" -> dowritestress
                       [] test = "fs4" -> dowritestress2 [] OTHER -> docreatestress
    ELSE CASE test = "fs2" -> readstress_thread(t) [] test = "fs3" -> writestress_thread(t)
           [] test = "fs4" -> writestress2_thread(t) [] OTHER -> createstress_thread(t)

Start(t) == [todo |-> Script(t), at |-> "call", i |-> 0, vn |-> NoFile]
Ended == [todo |-> <<>>, at |-> "ended", i |-> 0, vn |-> NoFile]

Init ==
    /\ test \in {"fs1", "fs2", "fs3", "fs4", "fs5"}
    /\ names = [n \in Names |-> NoFile] /\ data = [f \in Inodes |-> [i \in Chunks |-> Beyond]]
    /\ pc = [t \in Tids |-> IF t = Main THEN Start(Main) ELSE Ended]
    /\ threadsem = 0 /\ errors = 0 /\ failed = FALSE

Call(t) == Head(pc[t].todo)
In(t, op, at) == pc[t].todo # <<>> /\ Call(t).op = op /\ pc[t].at = at
Used == {names[n] : n \in Names} \cup {pc[t].vn : t \in Tids}

\* A thread has done a call; a helper that is through its list V's threadsem.
Done(t) ==
    LET rest == Tail(pc[t].todo)
    IN /\ pc' = [pc EXCEPT ![t] = IF rest = <<>> THEN Ended ELSE [todo |-> rest, at |-> "call", i |-> 0, vn |-> NoFile]]
       /\ threadsem' = threadsem + IF rest = <<>> /\ t # Main THEN 1 ELSE 0

\* MUTANT: a helper that fails ends without V.
Fails_silent(t) == failed' = TRUE /\ pc' = [pc EXCEPT ![t] = Ended] /\ UNCHANGED threadsem

\* It reports a failure and ends; a helper still V's.
Fails(t) ==
    /\ failed' = TRUE /\ pc' = [pc EXCEPT ![t] = Ended]
    /\ threadsem' = threadsem + IF t # Main THEN 1 ELSE 0

Error == errors < MaxErrors /\ errors' = errors + 1

-----------------------------------------------------------------------------
\* MUTANT: always O_TRUNC.
Truncates_always(c) == TRUE
Truncates(c) == c.size = 1

\* vfs_open with O_CREAT, and O_TRUNC if one thread writes the whole file.
fstest_write_open(t) ==
    /\ In(t, "write", "call")
    /\ \/ /\ \E f \in IF names[Call(t).name] # NoFile THEN {names[Call(t).name]} ELSE {Min(Inodes \ Used)} :
                /\ names' = [names EXCEPT ![Call(t).name] = f]
                /\ data' = IF Truncates(Call(t)) \/ names[Call(t).name] = NoFile
                           THEN [data EXCEPT ![f] = [i \in Chunks |-> Beyond]] ELSE data
                /\ pc' = [pc EXCEPT ![t].at = "chunk", ![t].vn = f]
          /\ UNCHANGED <<threadsem, errors, failed>>
       \/ Error /\ Fails(t) /\ UNCHANGED <<names, data>>
    /\ UNCHANGED test

\* One turn of the loop: chunks of other strides are passed over.  A failure
\* closes and removes the file.
fstest_write(t) ==
    LET i == pc[t].i
        c == Call(t)
    IN  /\ In(t, "write", "chunk") /\ i < NCHUNKS
        /\ \/ /\ data' = IF i % c.size # c.pos THEN data
                         ELSE [data EXCEPT ![pc[t].vn] = [k \in Chunks |->
                                  IF k = i THEN rotate(SLOGAN, i) ELSE IF k < i /\ @[k] = Beyond THEN Hole ELSE @[k]]]
              /\ pc' = [pc EXCEPT ![t].i = @ + 1]
              /\ UNCHANGED <<names, threadsem, errors, failed>>
           \/ /\ i % c.size = c.pos /\ Error /\ Fails(t)
              /\ names' = [names EXCEPT ![c.name] = NoFile] /\ UNCHANGED data
        /\ UNCHANGED test

fstest_write_close(t) ==
    /\ In(t, "write", "chunk") /\ pc[t].i = NCHUNKS /\ Done(t)
    /\ UNCHANGED <<test, names, data, errors, failed>>

fstest_read_open(t) ==
    /\ In(t, "read", "call")
    /\ \/ /\ names[Call(t).name] # NoFile
          /\ pc' = [pc EXCEPT ![t].at = "chunk", ![t].vn = names[Call(t).name]]
          /\ UNCHANGED <<threadsem, errors, failed>>
       \/ names[Call(t).name] = NoFile /\ Fails(t) /\ UNCHANGED errors
       \/ Error /\ Fails(t)
    /\ UNCHANGED <<test, names, data>>

\* A read that is short or not what was written fails the test.
fstest_read(t) ==
    LET i == pc[t].i
        got == data[pc[t].vn][i]
    IN  /\ In(t, "read", "chunk") /\ i < NCHUNKS
        /\ \/ /\ got \notin {Beyond, Hole} /\ rotate(got, -i) = SLOGAN
              /\ pc' = [pc EXCEPT ![t].i = @ + 1] /\ UNCHANGED <<threadsem, errors, failed>>
           \/ (got \in {Beyond, Hole} \/ rotate(got, -i) # SLOGAN) /\ Fails(t) /\ UNCHANGED errors
           \/ Error /\ Fails(t)
        /\ UNCHANGED <<test, names, data>>

fstest_read_close(t) ==
    /\ In(t, "read", "chunk") /\ pc[t].i = NCHUNKS /\ Done(t)
    /\ UNCHANGED <<test, names, data, errors, failed>>

\* fstest_remove.  If createstress or writestress cannot remove, the thread
\* ends there; writestress2 says so and is done all the same.
fstest_remove(t) ==
    /\ In(t, "remove", "call")
    /\ \/ names[Call(t).name] # NoFile /\ names' = [names EXCEPT ![Call(t).name] = NoFile] /\ Done(t) /\ UNCHANGED <<errors, failed>>
       \/ names[Call(t).name] = NoFile /\ Fails(t) /\ UNCHANGED <<names, errors>>
       \/ Error /\ Fails(t) /\ UNCHANGED names
    /\ UNCHANGED <<test, data>>

\* dowritestress2 creates and truncates the file before it forks.
writestress2_create(t) ==
    /\ In(t, "create", "call")
    /\ \/ \E f \in {Min(Inodes \ Used)} :
             /\ names' = [names EXCEPT ![Shared] = f]
             /\ data' = [data EXCEPT ![f] = [i \in Chunks |-> Beyond]]
             /\ Done(t) /\ UNCHANGED <<errors, failed>>
       \/ Error /\ Fails(t) /\ UNCHANGED <<names, data>>
    /\ UNCHANGED test

\* thread_fork of all helpers (if one cannot be forked, the kernel panics).
fork(t) ==
    /\ In(t, "fork", "call")
    /\ pc' = [u \in Tids |-> IF u = Main THEN [pc[u] EXCEPT !.todo = Tail(@)] ELSE Start(u)]
    /\ UNCHANGED <<test, names, data, threadsem, errors, failed>>

\* P(threadsem), NTHREADS times.
wait(t) ==
    /\ In(t, "wait", "call") /\ threadsem > 0
    /\ IF pc[t].i + 1 < NTHREADS THEN threadsem' = threadsem - 1 /\ pc' = [pc EXCEPT ![t].i = @ + 1]
       ELSE LET rest == Tail(pc[t].todo)
            IN threadsem' = threadsem - 1 /\ pc' = [pc EXCEPT ![t] = IF rest = <<>> THEN Ended ELSE [@ EXCEPT !.todo = rest, !.i = 0]]
    /\ UNCHANGED <<test, names, data, errors, failed>>

Step(t) ==
    \/ fstest_write_open(t) \/ fstest_write(t) \/ fstest_write_close(t)
    \/ fstest_read_open(t) \/ fstest_read(t) \/ fstest_read_close(t)
    \/ fstest_remove(t) \/ writestress2_create(t) \/ fork(t) \/ wait(t)

Next == \E t \in Tids : Step(t)

Spec == Init /\ [][Next]_vars
-----------------------------------------------------------------------------
\* The tests can be believed: none of them reports a failure unless a request
\* failed, although the helpers of fs4 write one file at the same time and in
\* any order.  The test's thread waits for exactly the helpers that will still
\* V, also when some of them fail.  When a test is over no helper is still at work
\* and threadsem is back at 0, also after failures (the next test uses it again); if nothing
\* failed, its files are gone.
FsTestSound ==
    /\ failed => errors > 0
    /\ In(Main, "wait", "call") =>
          threadsem + Cardinality({t \in Helpers : pc[t] # Ended}) = NTHREADS - pc[Main].i
    /\ pc[Main] = Ended => /\ threadsem = 0 /\ \A t \in Helpers : pc[t] = Ended
                           /\ errors = 0 => \A n \in Names : names[n] = NoFile
=============================================================================
