------------------------------ MODULE Kmalloc ------------------------------
(***************************************************************************)
(* The kernel's allocator (kern/vm/kmalloc.c) over the page allocator of   *)
(* dumbvm (kern/arch/mips/vm/dumbvm.c, ram.c).  Blocks of a size class     *)
(* share pages; the free blocks of a page are linked through their first   *)
(* words, and the pages of a class and all pages are linked through        *)
(* pagerefs.  kmalloc_spinlock is not held while pages are allocated.      *)
(***************************************************************************)
EXTENDS Integers, Sequences, FiniteSets, SequencesExt

CONSTANTS
    Threads,
    NSIZES,         \* size classes are 1..NSIZES
    PerPage,        \* PAGE_SIZE / sizes[c]: blocks on a page of class c
    NPAGEREFS,
    NPages          \* pages of memory

Classes == 1..NSIZES
KmallocAssumption ==
    /\ NSIZES \in Nat /\ NPAGEREFS \in Nat /\ NPages \in Nat
    /\ PerPage \in [Classes -> Nat \ {0}]

Large == 0      \* a kmalloc of at least LARGEST_SUBPAGE_SIZE: whole pages
NIL == -1       \* a null pointer, and INVALID_OFFSET
NoPage == 0
Refs == 1..NPAGEREFS
Pages == 1..NPages

VARIABLES
    firstpaddr,     \* the next page ram_stealmem hands out
    inuse,          \* pagerefs_inuse
    pr,             \* the pagerefs: page, class, freelist_offset, nfree
    sizebases, allbase,
    nxt,            \* nxt[p][b]: first word of block b of page p
    live,           \* what clients hold: <<page, class, block>>
    pc              \* pc[t]: "idle", or the class a page is being got for

vars == <<firstpaddr, inuse, pr, sizebases, allbase, nxt, live, pc>>

MaxPer == CHOOSE n \in Range(PerPage) : \A m \in Range(PerPage) : m <= n
BlockNos == 0..MaxPer-1
NoRef == [page |-> NoPage, class |-> Large, freelist |-> NIL, nfree |-> 0]

Idle == [at |-> "idle", class |-> Large, page |-> NoPage]

Init ==
    /\ firstpaddr = 1
    /\ inuse = {}
    /\ pr = [r \in Refs |-> NoRef]
    /\ sizebases = [c \in Classes |-> <<>>]
    /\ allbase = <<>>
    /\ nxt = [p \in Pages |-> [b \in BlockNos |-> NIL]]
    /\ live = {}
    /\ pc = [t \in Threads |-> Idle]

TypeOK ==
    /\ firstpaddr \in 1..NPages+1
    /\ inuse \subseteq Refs
    /\ pr \in [Refs -> [page : Pages \cup {NoPage}, class : Classes \cup {Large},
                        freelist : BlockNos \cup {NIL}, nfree : 0..MaxPer]]
    /\ \A c \in Classes : Range(sizebases[c]) \subseteq Refs
    /\ Range(allbase) \subseteq Refs
    /\ nxt \in [Pages -> [BlockNos -> BlockNos \cup {NIL}]]
    /\ live \subseteq Pages \X (Classes \cup {Large}) \X BlockNos
    /\ \A t \in Threads : pc[t].at \in {"idle", "getpage", "newpage"}

-----------------------------------------------------------------------------
\* doalloc: the first free block of the page of pageref r.  Its first word is
\* the client's from here on.
Taken(r, p, links) ==
    LET b == p[r].freelist
    IN  /\ pr' = [p EXCEPT ![r].freelist = links[p[r].page][b], ![r].nfree = @ - 1]
        /\ nxt' = [links EXCEPT ![p[r].page][b] = NIL]
        /\ live' = live \cup {<<p[r].page, p[r].class, b>>}

\* subpage_kmalloc, first part: the first page of the class with a free block,
\* or the lock is released to get a page.
subpage_kmalloc(t, c) ==
    LET have == {k \in DOMAIN sizebases[c] : pr[sizebases[c][k]].nfree > 0}
        k == CHOOSE k \in have : \A m \in have : k <= m
    IN  /\ pc[t] = Idle
        /\ IF have # {} THEN Taken(sizebases[c][k], pr, nxt) /\ UNCHANGED pc
           ELSE pc' = [pc EXCEPT ![t] = [at |-> "getpage", class |-> c, page |-> NoPage]]
                /\ UNCHANGED <<pr, live, nxt>>
        /\ UNCHANGED <<firstpaddr, inuse, sizebases, allbase>>

\* MUTANT: the step of ram_stealmem is lost to another thread (no lock).
alloc_kpages_unlocked(t) ==
    /\ pc[t].at = "getpage" /\ firstpaddr <= NPages
    /\ pc' = [pc EXCEPT ![t].at = "newpage", ![t].page = firstpaddr]
    /\ UNCHANGED <<firstpaddr, inuse, pr, sizebases, allbase, nxt, live>>

\* alloc_kpages(1): ram_stealmem under stealmem_lock.  Without memory kmalloc
\* returns NULL.
alloc_kpages(t) ==
    /\ pc[t].at = "getpage"
    /\ IF firstpaddr > NPages THEN pc' = [pc EXCEPT ![t] = Idle] /\ UNCHANGED firstpaddr
       ELSE /\ pc' = [pc EXCEPT ![t].at = "newpage", ![t].page = firstpaddr]
            /\ firstpaddr' = firstpaddr + 1
    /\ UNCHANGED <<inuse, pr, sizebases, allbase, nxt, live>>

\* MUTANT: the chain ends one block early.
Chain_short(c) == [b \in BlockNos |-> IF b \in 2..PerPage[c]-1 THEN b - 1 ELSE NIL]

\* The free list of a new page: from the last block down to the first.
Chain(c) == [b \in BlockNos |-> IF b \in 1..PerPage[c]-1 THEN b - 1 ELSE NIL]

\* subpage_kmalloc, second part: a pageref for the page (the page is leaked by
\* free_kpages if there is none), its free list, both page lists, a block.
newpage(t) ==
    LET free == Refs \ inuse
        r == CHOOSE r \in free : \A q \in free : r <= q
        c == pc[t].class
        fresh == [page |-> pc[t].page, class |-> c, freelist |-> PerPage[c] - 1, nfree |-> PerPage[c]]
    IN  /\ pc[t].at = "newpage" /\ pc' = [pc EXCEPT ![t] = Idle]
        /\ IF free = {} THEN UNCHANGED <<inuse, pr, sizebases, allbase, nxt, live>>
           ELSE /\ inuse' = inuse \cup {r}
                /\ sizebases' = [sizebases EXCEPT ![c] = <<r>> \o @]
                /\ allbase' = <<r>> \o allbase
                /\ Taken(r, [pr EXCEPT ![r] = fresh], [nxt EXCEPT ![pc[t].page] = Chain(c)])
        /\ UNCHANGED firstpaddr

\* kmalloc of whole pages.
kmalloc_large(t) ==
    /\ pc[t] = Idle /\ firstpaddr <= NPages
    /\ firstpaddr' = firstpaddr + 1
    /\ live' = live \cup {<<firstpaddr, Large, 0>>}
    /\ UNCHANGED <<inuse, pr, sizebases, allbase, nxt, pc>>

\* The pageref of a page, in the order of allbase; kfree of anything else is
\* taken for a large block.
RefOf(p) ==
    LET found == {k \in DOMAIN allbase : pr[allbase[k]].page = p}
    IN  IF found = {} THEN 0 ELSE allbase[CHOOSE k \in found : \A m \in found : k <= m]

remove_lists(r, c) ==
    /\ sizebases' = [sizebases EXCEPT ![c] = Remove(@, r)]
    /\ allbase' = Remove(allbase, r)

\* kfree: the block goes to the front of the free list of its page; a page that
\* is all free goes back to free_kpages, which leaks it.
kfree(t, x) ==
    LET r == RefOf(x[1])
        n == pr[r].nfree + 1
    IN  /\ pc[t] = Idle /\ x \in live /\ live' = live \ {x}
        /\ \/ /\ r = 0 /\ UNCHANGED <<inuse, pr, sizebases, allbase, nxt>>
           \/ /\ r # 0 /\ n < PerPage[pr[r].class]
              /\ nxt' = [nxt EXCEPT ![x[1]][x[3]] = pr[r].freelist]
              /\ pr' = [pr EXCEPT ![r].freelist = x[3], ![r].nfree = n]
              /\ UNCHANGED <<inuse, sizebases, allbase>>
           \/ /\ r # 0 /\ n = PerPage[pr[r].class]
              /\ remove_lists(r, pr[r].class)
              /\ inuse' = inuse \ {r}
              /\ pr' = [pr EXCEPT ![r] = NoRef]
              /\ nxt' = [nxt EXCEPT ![x[1]] = [b \in BlockNos |-> NIL]]
        /\ UNCHANGED <<firstpaddr, pc>>

Next ==
    \E t \in Threads :
        \/ \E c \in Classes : subpage_kmalloc(t, c)
        \/ alloc_kpages(t)
        \/ newpage(t)
        \/ kmalloc_large(t)
        \/ \E x \in live : kfree(t, x)

Spec == Init /\ [][Next]_vars

-----------------------------------------------------------------------------
\* The blocks on the free list of pageref r, following the links.
FreeBlocks(r) ==
    LET at[n \in 0..MaxPer] == IF n = 0 THEN pr[r].freelist
                               ELSE IF at[n-1] = NIL THEN NIL ELSE nxt[pr[r].page][at[n-1]]
    IN  {at[n] : n \in 0..MaxPer} \ {NIL}

LiveOn(p) == {x \in live : x[1] = p}

\* Every page in the allocator is divided exactly into the blocks that clients
\* hold and those on its free list, nfree in number (checksubpage), through
\* two threads making pages of one class at a time.
PagesDivided ==
    \A r \in inuse :
        LET c == pr[r].class IN
        /\ Cardinality(FreeBlocks(r)) = pr[r].nfree
        /\ FreeBlocks(r) \cup {x[3] : x \in LiveOn(pr[r].page)} = 0..PerPage[c]-1
        /\ \A x \in LiveOn(pr[r].page) : x[2] = c /\ x[3] \notin FreeBlocks(r)

\* The pagerefs in use are those on the lists, each on allbase and on the list
\* of its class, once, with a page of its own (checksubpages).
ListsAgree ==
    /\ Range(allbase) = inuse /\ Len(allbase) = Cardinality(inuse)
    /\ \A c \in Classes :
        /\ Range(sizebases[c]) = {r \in inuse : pr[r].class = c}
        /\ Len(sizebases[c]) = Cardinality(Range(sizebases[c]))
    /\ \A r, q \in inuse : pr[r].page = pr[q].page => r = q

\* kfree finds the page of every block a client holds, and no page for a large
\* block: subpage_kfree tells the two apart by the address alone.
KfreeFindsPage == \A x \in live : (RefOf(x[1]) = 0) <=> (x[2] = Large)

\* No page has two owners: a large block, a page on the lists, or a page
\* that a thread has just got and not yet put on the lists.
PageOwned ==
    LET getting == {t \in Threads : pc[t].at = "newpage"} IN
    /\ \A t, u \in getting : pc[t].page = pc[u].page => t = u
    /\ \A t \in getting : LiveOn(pc[t].page) = {} /\ RefOf(pc[t].page) = 0
=============================================================================
