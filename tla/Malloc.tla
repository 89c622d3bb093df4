------------------------------- MODULE Malloc -------------------------------
(***************************************************************************)
(* The user-level allocator (user/lib/libc/stdlib/malloc.c) under the      *)
(* program that tests it (user/testbin/malloctest/malloctest.c).  The heap *)
(* is an array of cells of MBLOCKSIZE bytes; a cell holds a header, a      *)
(* caller's data, or 0xdeadbeef.  sbrk is the system call as malloc.c uses *)
(* it (this kernel does not have it yet).                                  *)
(***************************************************************************)
EXTENDS Integers, Sequences, FiniteSets, FiniteSetsExt

CONSTANTS
    MBLOCKSIZE,
    W,                          \* bits of a size_t
    LIMIT,                      \* cells that sbrk has to give
    SMALLSIZE, MEDIUMSIZE, BIGSIZE, HUGESIZE,
    OVERHEAD, ABSURD_OVERHEAD,
    sizes,                      \* what tests 5, 6 and 7 ask for
    NPTRS,                      \* the array of those tests
    MaxIter,                    \* bound: rounds of those tests
    MaxTests                    \* bound: tests in one run of the program

MallocAssumption ==
    /\ MBLOCKSIZE > 1 /\ LIMIT * MBLOCKSIZE < 2 ^ (W - 1)
    /\ SMALLSIZE < MEDIUMSIZE /\ MEDIUMSIZE < BIGSIZE /\ BIGSIZE < HUGESIZE

VARIABLES
    mem,            \* the cells
    heaptop,        \* __heaptop, with __heapbase = 0
    held,           \* the blocks the running test holds: [ptr, size, bias]
    leaked,         \* those that earlier tests did not free
    test, pc,       \* the test that runs, and where it is
    size, lx,       \* its size or its count of rounds; where x was
    verdict,        \* of the last test
    done            \* the tests run so far

vars == <<mem, heaptop, held, leaked, test, pc, size, lx, verdict, done>>

NULL == -1
Hdr(p, n, u) == <<"hdr", p, n, u>>
Data(bias) == <<"data", bias, 0, FALSE>>
Beef == <<"beef", 0, 0, FALSE>>
M_OK(m, i) == m[i][1] = "hdr"
M_PREV(m, i) == m[i][2]
M_NEXT(m, i) == m[i][3]
M_INUSE(m, i) == m[i][4]
M_SIZE(m, i) == M_NEXT(m, i) - 1

\* MUTANT: a size that is not a multiple is rounded down.
Round_down(sz) == sz \div MBLOCKSIZE
Round(sz) == ((sz + MBLOCKSIZE - 1) % 2 ^ W) \div MBLOCKSIZE

-----------------------------------------------------------------------------
(* malloc: [m, top, ptr].                                                  *)
\* The walk over the heap: the first free block that is large enough, or the
\* size of the last block.
RECURSIVE Walk(_, _, _, _)
Walk(m, i, rightprevblock, sz) ==
    IF i >= heaptop THEN [at |-> NULL, prev |-> rightprevblock, corrupt |-> i # heaptop]
    ELSE IF ~M_OK(m, i) \/ M_PREV(m, i) # rightprevblock THEN [at |-> i, prev |-> 0, corrupt |-> TRUE]
    ELSE IF ~M_INUSE(m, i) /\ M_SIZE(m, i) >= sz THEN [at |-> i, prev |-> 0, corrupt |-> FALSE]
    ELSE Walk(m, i + M_NEXT(m, i), M_NEXT(m, i), sz)

\* MUTANT: the block above is not told of its new neighbour.
malloc_split_untold(m, i, sz) ==
    IF M_SIZE(m, i) - sz < 2 THEN m
    ELSE [m EXCEPT ![i] = Hdr(M_PREV(m, i), sz + 1, FALSE), ![i + sz + 1] = Hdr(sz + 1, M_SIZE(m, i) - sz, FALSE)]
malloc_split(m, i, sz) ==
    LET new == i + sz + 1
        next == i + M_NEXT(m, i)
    IN IF M_SIZE(m, i) - sz < 2 THEN m
       ELSE [k \in DOMAIN m |->
                CASE k = i -> Hdr(M_PREV(m, i), sz + 1, FALSE)
                  [] k = new -> Hdr(sz + 1, M_SIZE(m, i) - sz, FALSE)
                  [] k = next /\ next # heaptop -> Hdr(M_SIZE(m, i) - sz, M_NEXT(m, k), M_INUSE(m, k))
                  [] OTHER -> m[k]]

\* sbrk takes a signed number of bytes; NULL if the heap cannot have that size.
Signed(cells) == LET n == (cells * MBLOCKSIZE) % 2 ^ W
                 IN (IF n >= 2 ^ (W - 1) THEN n - 2 ^ W ELSE n) \div MBLOCKSIZE
sbrk(cells) == LET t == heaptop + Signed(cells) IN IF t \in 0..LIMIT THEN t ELSE NULL

malloc(sz0) ==
    LET sz == Round(sz0)
        w == Walk(mem, 0, 0, sz)
        t == sbrk(sz + 1)
    IN IF w.corrupt THEN [m |-> mem, top |-> heaptop, ptr |-> NULL, fatal |-> TRUE]
       ELSE IF w.at # NULL
       THEN LET m == malloc_split(mem, w.at, sz)
            IN [m |-> [m EXCEPT ![w.at] = Hdr(M_PREV(m, w.at), M_NEXT(m, w.at), TRUE)], top |-> heaptop, ptr |-> w.at + 1, fatal |-> FALSE]
       ELSE IF t = NULL THEN [m |-> mem, top |-> heaptop, ptr |-> NULL, fatal |-> FALSE]
       ELSE [m |-> [mem EXCEPT ![heaptop] = Hdr(w.prev, sz + 1, TRUE)], top |-> t, ptr |-> heaptop + 1, fatal |-> FALSE]

-----------------------------------------------------------------------------
(* free.                                                                   *)
malloc_deadbeef(m, i, n) == [k \in DOMAIN m |-> IF k \in i..i + n - 1 THEN Beef ELSE m[k]]

malloc_trymerge(m, i, next) ==
    IF M_INUSE(m, i) \/ M_INUSE(m, next) THEN m
    ELSE LET n == M_NEXT(m, i) + M_NEXT(m, next)
             nn == next + M_NEXT(m, next)
             m1 == [m EXCEPT ![i] = Hdr(M_PREV(m, i), n, FALSE)]
             m2 == IF nn = heaptop THEN m1 ELSE [m1 EXCEPT ![nn] = Hdr(n, M_NEXT(m, nn), M_INUSE(m, nn))]
         IN malloc_deadbeef(m2, next, 1)

\* [m, fatal]: freeing what is not a block in use ends the program.
free(m, x) ==
    LET i == x - 1
        next == i + M_NEXT(m, i)
        prev == i - M_PREV(m, i)
        m1 == malloc_deadbeef([m EXCEPT ![i] = Hdr(M_PREV(m, i), M_NEXT(m, i), FALSE)], x, M_SIZE(m, i))
        m2 == IF next = heaptop THEN m1 ELSE malloc_trymerge(m1, i, next)
    IN IF x >= heaptop \/ x < 0 \/ ~M_OK(m, i) \/ ~M_INUSE(m, i) THEN [m |-> m, fatal |-> TRUE]
       ELSE [m |-> IF i = 0 THEN m2 ELSE malloc_trymerge(m2, prev, i), fatal |-> FALSE]

-----------------------------------------------------------------------------
(* What the tests do with a block.                                         *)
Cells(b) == b.ptr..b.ptr + (b.size + MBLOCKSIZE - 1) \div MBLOCKSIZE - 1
markblock(m, b) == [k \in DOMAIN m |-> IF k \in Cells(b) THEN Data(b.bias) ELSE m[k]]
checkblock(b) == \A k \in Cells(b) : mem[k] = Data(b.bias)
Biases == {b.bias : b \in held}
NewBias == Min(1..Cardinality(held) + 1 \ Biases)

Goto(p) == pc' = p
Ends(v) == pc' = "idle" /\ verdict' = v /\ done' = Append(done, test)

\* A call of malloc: the block, if there is one, is marked and kept.  Nothing
\* follows errx.
Mallocs(sz, bias) ==
    LET r == malloc(sz)
        b == [ptr |-> r.ptr, size |-> sz, bias |-> bias]
    IN /\ ~r.fatal
       /\ heaptop' = r.top
       /\ mem' = IF r.ptr = NULL THEN r.m ELSE markblock(r.m, b)
       /\ held' = IF r.ptr = NULL THEN held ELSE held \cup {b}
Got == held' # held
Frees(b) ==
    LET r == free(mem, b.ptr)
    IN ~r.fatal /\ mem' = r.m /\ held' = held \ {b} /\ heaptop' = heaptop
Keep == UNCHANGED <<verdict, done, test>>
Outcome(p, else) == IF Got THEN Goto(p) /\ Keep ELSE Ends(else) /\ test' = test

Init ==
    /\ mem = [k \in 0..LIMIT |-> Beef]
    /\ heaptop = 0 /\ held = {} /\ test = 0 /\ pc = "idle" /\ size = 0 /\ lx = 0 /\ leaked = {} /\ verdict = "none" /\ done = <<>>

\* dotest
Start ==
    /\ pc = "idle" /\ Len(done) < MaxTests
    /\ test' \in 1..5
    /\ size' = (IF test' = 2 THEN HUGESIZE ELSE 0)
    /\ Goto("go")
    /\ leaked' = leaked \cup held /\ held' = {}
    /\ UNCHANGED <<mem, heaptop, lx, verdict, done>>

test1 ==
    /\ test = 1 /\ UNCHANGED <<size, lx, leaked>>
    /\ \/ pc = "go" /\ Mallocs(BIGSIZE, NewBias) /\ Outcome("check", "FAILED")
       \/ /\ pc = "check"
          /\ \E b \in held : /\ b.size = BIGSIZE /\ Frees(b)
                             /\ Ends(IF checkblock(b) THEN "passed" ELSE "FAILED") /\ test' = test

test2 ==
    /\ test = 2 /\ UNCHANGED <<lx, leaked>>
    /\ \/ /\ pc = "go" /\ Mallocs(size, NewBias)
          /\ IF Got THEN Goto("check") /\ size' = size ELSE Goto("go") /\ size' = size \div 2
          /\ Keep
       \/ /\ pc = "check" /\ size' = size
          /\ \E b \in held : /\ b.size = size
                             /\ IF checkblock(b) THEN Frees(b) /\ Goto("again") /\ Keep
                                ELSE Ends("FAILED") /\ UNCHANGED <<mem, heaptop, held, test>>
       \/ pc = "again" /\ size' = size /\ Mallocs(size, NewBias) /\ Outcome("free", "FAILED")
       \/ pc = "free" /\ size' = size /\ \E b \in held : b.size = size /\ Frees(b) /\ Ends("passed") /\ test' = test

\* size tells that data was found corrupt.
test3 ==
    /\ test = 3 /\ UNCHANGED <<lx, leaked>>
    /\ \/ /\ pc = "go" /\ size' = size /\ Mallocs(SMALLSIZE, NewBias)
          /\ Goto(IF Got THEN "go" ELSE "small") /\ Keep
       \/ /\ pc \in {"small", "medium", "big"} /\ size' = size
          /\ Mallocs(CASE pc = "small" -> SMALLSIZE [] pc = "medium" -> MEDIUMSIZE [] OTHER -> BIGSIZE, NewBias)
          /\ IF Got THEN Ends("FAILED") /\ test' = test
             ELSE Goto(CASE pc = "small" -> "medium" [] pc = "medium" -> "big" [] OTHER -> "free") /\ Keep
       \/ /\ pc = "free" /\ held # {}
          /\ LET b == CHOOSE c \in held : \A d \in held : c.bias >= d.bias
             IN Frees(b) /\ size' = (IF checkblock(b) THEN size ELSE 1)
          /\ Goto("free") /\ Keep
       \/ /\ pc = "free" /\ held = {} /\ size' = size
          /\ IF size = 1 THEN Ends("FAILED") /\ UNCHANGED <<mem, heaptop, held, test>>
             ELSE Mallocs(MEDIUMSIZE, NewBias) /\ Outcome("last", "FAILED")
       \/ pc = "last" /\ size' = size /\ \E b \in held : Frees(b) /\ Ends("passed") /\ test' = test

\* x has bias 1 and y has bias 2; size holds the overhead.
Of(bias) == CHOOSE b \in held : b.bias = bias
test4 ==
    /\ test = 4 /\ leaked' = leaked
    /\ \/ pc = "go" /\ UNCHANGED <<size, lx>> /\ Mallocs(SMALLSIZE, 1) /\ Outcome("y", "FAILED")
       \/ pc = "y" /\ UNCHANGED <<size, lx>> /\ Mallocs(MEDIUMSIZE, 2) /\ Outcome("look", "FAILED")
       \/ /\ pc = "look"
          /\ LET overhead == Of(2).ptr * MBLOCKSIZE - (Of(1).ptr * MBLOCKSIZE + SMALLSIZE)
             IN /\ size' = SMALLSIZE + MEDIUMSIZE + overhead
                /\ lx' = Of(1).ptr
                /\ IF Of(2).ptr < Of(1).ptr \/ overhead > OVERHEAD
                   THEN /\ Ends(IF overhead \in OVERHEAD + 1..ABSURD_OVERHEAD THEN "FAILED" ELSE "unsuitable")
                        /\ UNCHANGED <<mem, heaptop, held, test>>
                   ELSE Goto("freey") /\ Frees(Of(1)) /\ Keep
       \/ pc = "freey" /\ UNCHANGED <<size, lx>> /\ Frees(Of(2)) /\ Goto("z") /\ Keep
       \/ pc = "z" /\ UNCHANGED <<size, lx>> /\ Mallocs(size, 3) /\ Outcome("freez", "FAILED")
       \/ /\ pc = "freez" /\ UNCHANGED <<size, lx>> /\ Frees(Of(3))
          /\ Ends(IF Of(3).ptr = lx THEN "passed" ELSE "FAILED") /\ test' = test

\* Tests 5, 6 and 7: size counts the rounds.
test567 ==
    /\ test = 5 /\ UNCHANGED <<lx, leaked>>
    /\ \/ /\ pc = "go" /\ size < MaxIter /\ size' = size + 1
          /\ \E n \in 1..NPTRS :
                \/ n \notin Biases /\ (\E sz \in sizes : Mallocs(sz, n)) /\ Goto(IF Got THEN "go" ELSE "nomem") /\ Keep
                \/ /\ n \in Biases
                   /\ IF checkblock(Of(n)) THEN Frees(Of(n)) /\ Goto("go") ELSE Goto("bad") /\ UNCHANGED <<mem, heaptop, held>>
                   /\ Keep
       \/ /\ pc \in {"nomem", "bad"} \/ (pc = "go" /\ size = MaxIter)
          /\ size' = size
          /\ IF held # {} THEN (\E b \in held : Frees(b)) /\ Goto(pc) /\ Keep
             ELSE /\ Ends(IF pc = "go" THEN "passed" ELSE IF pc = "bad" THEN "FAILED" ELSE "nomem")
                  /\ UNCHANGED <<mem, heaptop, held, test>>

Next == Start \/ test1 \/ test2 \/ test3 \/ test4 \/ test567
Spec == Init /\ [][Next]_vars

-----------------------------------------------------------------------------
\* The blocks of the heap, in order.
RECURSIVE Chain(_)
Chain(i) == IF i >= heaptop \/ ~M_OK(mem, i) THEN <<i>> ELSE <<i>> \o Chain(i + M_NEXT(mem, i))

\* After any sequence of calls of malloc and free the headers lead from the
\* bottom of the heap to its top and back, the blocks in use are those the
\* program holds, each has room for what was asked for and still has the
\* caller's data in it, and no two free blocks are adjacent.
MallocSound ==
    LET c == Chain(0)
        blocks == {c[k] : k \in 1..Len(c) - 1}
    IN /\ c[Len(c)] = heaptop
       /\ \A k \in 1..Len(c) - 1 : M_PREV(mem, c[k]) = IF k = 1 THEN 0 ELSE c[k] - c[k - 1]
       /\ {i + 1 : i \in {j \in blocks : M_INUSE(mem, j)}} = {b.ptr : b \in held \cup leaked}
       /\ \A b \in held \cup leaked : M_SIZE(mem, b.ptr - 1) * MBLOCKSIZE >= b.size /\ checkblock(b)
       /\ \A k \in 1..Len(c) - 2 : M_INUSE(mem, c[k]) \/ M_INUSE(mem, c[k + 1])

\* Tests 1, 2, 3 and 5 never fail, whatever ran before them, and test 4 does
\* not fail when it is the first to run ("This test may not work correctly if
\* run after other tests"); no test leaves a block behind, unless test 4
\* stopped half way.
MallocTestsPass ==
    /\ (verdict = "FAILED" /\ pc = "idle") => done[Len(done)] = 4 /\ Len(done) > 1
    /\ leaked # {} => \E i \in 2..Len(done) : done[i] = 4
=============================================================================
