------------------------------- MODULE Sfsck -------------------------------
(***************************************************************************)
(* The SFS tools: sfsck (user/sbin/sfsck/sfsck.c), which checks a volume   *)
(* and repairs it, and mksfs, which makes an empty one.  sfsck runs its    *)
(* four passes over the image of a damaged disk, may be interrupted        *)
(* between them (what it wrote stays), and is run again.                   *)
(*                                                                         *)
(* Sizes count in units of half a directory entry; a block holds ATONCE    *)
(* entries.  A name is a sequence: <<>> is the empty one, <<"a">> a plain  *)
(* one, <<"FSCK", ino, n>> one that sfsck makes up.                        *)
(***************************************************************************)
EXTENDS Integers, Sequences, FiniteSets, TLC, SequencesExt, FiniteSetsExt

CONSTANTS
    NDIRECT, DBPERIDB, ATONCE,  \* the geometry of kern/sfs.h
    NBLOCKS,                    \* sp_nblocks
    MaxDepth,                   \* bound: directories deep before sfsck runs out of stack
    Damage,                     \* how many fields of the image are wrong
    MaxCrash,                   \* bound: interruptions of sfsck
    Runs                        \* how often sfsck is run

SfsckAssumption == NDIRECT = 1 /\ DBPERIDB = 2 /\ ATONCE = 5 /\ NBLOCKS >= 12 /\ MaxDepth > 2

VARIABLES
    disk,           \* the image
    first,          \* the image as it was
    st,             \* the state of the running sfsck
    pass,           \* the next pass: sb, root, walk, bitmap, links, done
    run, crashes,
    exits           \* exits[i]: what run i returned

vars == <<disk, first, st, pass, run, crashes, exits>>

Blks == 0..NBLOCKS - 1
SB == 0
ROOT == 1
MAP == 2
NOINO == 0
DIRSIZE == 2
BLOCK == ATONCE * DIRSIZE
ROUNDUP(a, b) == ((a + b - 1) \div b) * b

\* A LET whose value is computed once.
Bind(v, Body(_)) == CHOOSE r \in {Body(x) : x \in {v}} : TRUE

EXIT_CLEAN == 0
EXIT_RECOV == 1
EXIT_UNRECOV == 2
EXIT_FATAL == 3

NoName == <<>>
Dot == <<".">>
DotDot == <<"..">>
Entry(n, i) == [name |-> n, ino |-> i]
FreeEntry == Entry(NoName, NOINO)
Inode(type, size, link, d, i) == [type |-> type, size |-> size, link |-> link, direct |-> d, indirect |-> i]
NoInode == Inode("inval", 0, 0, <<0>>, 0)
Padded(es) == [k \in 1..ATONCE |-> IF k <= Len(es) THEN es[k] ELSE FreeEntry]

-----------------------------------------------------------------------------
(* mksfs.                                                                  *)
writesuper(d) == [d EXCEPT !.vol = "ok"]
writerootdir(d) == [d EXCEPT !.ino[ROOT] = Inode("dir", 0, 1, <<0>>, 0)]
writebitmap(d) == [d EXCEPT !.map = {SB, ROOT, MAP}]
Blank == [vol |-> "nomagic", map |-> {}, ino |-> [b \in Blks |-> NoInode],
          dat |-> [b \in Blks |-> Padded(<<>>)], ind |-> [b \in Blks |-> <<0, 0>>]]
mksfs == writebitmap(writerootdir(writesuper(Blank)))

\* A volume with a file "a" of two blocks (4; 5, and 9 through 8) and a
\* directory "s" (6; 7), with everything as sfsck wants it.
Good == [Blank EXCEPT
    !.vol = "ok", !.map = 0..9,
    !.ino = [@ EXCEPT ![ROOT] = Inode("dir", 4 * DIRSIZE, 3, <<3>>, 0), ![4] = Inode("file", 2 * BLOCK, 1, <<5>>, 8),
                      ![6] = Inode("dir", 2 * DIRSIZE, 2, <<7>>, 0)],
    !.dat = [@ EXCEPT ![3] = Padded(<<Entry(Dot, ROOT), Entry(DotDot, ROOT), Entry(<<"a">>, 4), Entry(<<"s">>, 6)>>),
                      ![7] = Padded(<<Entry(Dot, 6), Entry(DotDot, ROOT)>>)],
    !.ind = [@ EXCEPT ![8] = <<9, 0>>]]

\* The fields that may be wrong, and what is in them then.
Damages ==
    [field : {"vol"}, at : {SB}, to : {"nomagic", "illegal", "unterminated"}]
    \cup [field : {"map"}, at : 3..NBLOCKS - 1, to : {0}]
    \cup [field : {"type"}, at : {ROOT, 4, 6}, to : {"file", "dir", "inval"}]
    \cup [field : {"link"}, at : {ROOT, 4, 6}, to : {1, 4}]
    \cup [field : {"size"}, at : {ROOT, 4, 6}, to : {0, DIRSIZE, 2 * DIRSIZE + 1, BLOCK}]
    \cup [field : {"direct"}, at : {ROOT, 4, 6}, to : {0, 5, 10}]
    \cup [field : {"indirect"}, at : {4}, to : {0, 11}]
    \cup [field : {"name"}, at : {<<3, 2>>, <<3, 3>>, <<3, 4>>, <<7, 2>>}, to : {NoName, Dot, <<"a">>, <<"x/">>, <<"xxx">>}]
    \cup [field : {"entry"}, at : {<<3, 1>>, <<3, 3>>, <<3, 4>>, <<7, 2>>, <<3, 5>>}, to : {NOINO, 4, 6, 10}]

Damaged(d, x) ==
    CASE x.field = "vol" -> [d EXCEPT !.vol = x.to]
      [] x.field = "map" -> [d EXCEPT !.map = IF x.at \in @ THEN @ \ {x.at} ELSE @ \cup {x.at}]
      [] x.field = "type" -> [d EXCEPT !.ino[x.at].type = x.to]
      [] x.field = "link" -> [d EXCEPT !.ino[x.at].link = x.to]
      [] x.field = "size" -> [d EXCEPT !.ino[x.at].size = x.to]
      [] x.field = "direct" -> [d EXCEPT !.ino[x.at].direct = <<x.to>>]
      [] x.field = "indirect" -> [d EXCEPT !.ino[x.at].indirect = x.to]
      [] x.field = "name" -> [d EXCEPT !.dat[x.at[1]][x.at[2]].name = x.to]
      [] OTHER -> [d EXCEPT !.dat[x.at[1]][x.at[2]].ino = x.to]

Fresh == [used |-> {}, tofree |-> {}, bad |-> EXIT_CLEAN, unique |-> 1, ninodes |-> 0, inodes |-> <<>>, stack |-> <<>>]

-----------------------------------------------------------------------------
(* What every pass uses; s carries the state of the program, the disk, and *)
(* the images the disk went through since the step began.                  *)
diskwrite(s, d) == [s EXCEPT !.disk = d, !.log = Append(@, d)]
setbadness(s, code) == [s EXCEPT !.bad = Max({@, code})]

bitmap_mark(s, b, how) ==
    IF how = "TOFREE" THEN [s EXCEPT !.tofree = IF b \in s.used THEN @ ELSE @ \cup {b}]
    ELSE [(IF b \in s.used THEN setbadness(s, EXIT_UNRECOV) ELSE s)
             EXCEPT !.tofree = @ \ {b}, !.used = @ \cup {b}]

\* The entry after the last is written, and the number of entries is not
\* increased.
addmemory(s, ino, linkcount) == [s EXCEPT !.inodes = <<[ino |-> ino, link |-> linkcount]>>]
Remembered(s, ino) == \E i \in 1..s.ninodes : s.inodes[i].ino = ino

observe_filelink(s, ino) ==
    IF Remembered(s, ino)
    THEN [s EXCEPT !.inodes = [i \in DOMAIN @ |-> IF @[i].ino = ino THEN [@[i] EXCEPT !.link = @ + 1] ELSE @[i]]]
    ELSE addmemory(bitmap_mark(s, ino, "INODE"), ino, 1)

MarkAll(s, bs, how) == FoldLeft(LAMBDA t, b : IF b = 0 THEN t ELSE bitmap_mark(t, b, how), s, bs)

\* A block past the end of the file is marked as in use, and dropped from the
\* indirect block; an indirect block left empty is given back, but it is
\* marked as in use already.
check_indirect_block(s, ientry, n, bad) ==
    LET entries == IF ientry # 0 THEN s.disk.ind[ientry] ELSE [i \in 1..DBPERIDB |-> 0]
        s1 == IF ientry # 0 THEN bitmap_mark(s, ientry, "IBLOCK") ELSE s
        s2 == MarkAll(s1, entries, "DATA")
        kept == [i \in 1..DBPERIDB |-> IF NDIRECT + i - 1 < n THEN entries[i] ELSE 0]
        bad2 == bad + Cardinality({i \in 1..DBPERIDB : entries[i] # kept[i]})
    IN IF \A i \in 1..DBPERIDB : kept[i] = 0
       THEN IF ientry = 0 THEN [s |-> s2, ientry |-> 0, bad |-> bad2]
            ELSE [s |-> bitmap_mark(s2, ientry, "TOFREE"), ientry |-> 0, bad |-> bad2 + 1]
       ELSE [s |-> IF bad2 > 0 THEN diskwrite(s2, [s2.disk EXCEPT !.ind[ientry] = kept]) ELSE s2, ientry |-> ientry, bad |-> bad2]

\* A direct block past the end of the file is to be freed, and stays in the
\* inode.
check_inode_blocks(s, sfi) ==
    LET n == ROUNDUP(sfi.size, BLOCK) \div BLOCK
        inside == [i \in 1..NDIRECT |-> IF i - 1 < n THEN sfi.direct[i] ELSE 0]
        after == [i \in 1..NDIRECT |-> IF i - 1 < n THEN 0 ELSE sfi.direct[i]]
        s1 == MarkAll(MarkAll(s, inside, "DATA"), after, "TOFREE")
    IN Bind(check_indirect_block(s1, sfi.indirect, n, Cardinality({i \in 1..NDIRECT : after[i] # 0})), LAMBDA r :
           IF r.bad = 0 THEN [s |-> r.s, sfi |-> sfi, changed |-> FALSE]
           ELSE [s |-> setbadness(r.s, EXIT_RECOV), sfi |-> [sfi EXCEPT !.indirect = r.ientry], changed |-> TRUE])

-----------------------------------------------------------------------------
(* Directories.                                                            *)
dobmap(s, sfi, fileblock) ==
    IF fileblock < NDIRECT THEN sfi.direct[fileblock + 1]
    ELSE IF fileblock < NDIRECT + DBPERIDB /\ sfi.indirect # 0 THEN s.disk.ind[sfi.indirect][fileblock - NDIRECT + 1]
    ELSE 0

NumBlocks(nd) == ROUNDUP(nd, ATONCE) \div ATONCE

\* The entries of a directory, with free ones up to the end of its last block.
dirread(s, sfi, nd) ==
    LET there == [k \in 1..nd |-> LET b == dobmap(s, sfi, (k - 1) \div ATONCE)
                                  IN IF b = 0 THEN FreeEntry ELSE s.disk.dat[b][((k - 1) % ATONCE) + 1]]
    IN there \o [k \in 1..NumBlocks(nd) * ATONCE - nd |-> FreeEntry]

dirwrite(s, sfi, d, nd) ==
    FoldLeft(LAMBDA t, i :
        LET b == dobmap(t, sfi, i - 1)
            es == SubSeq(d, (i - 1) * ATONCE + 1, i * ATONCE)
        IN IF b # 0 THEN diskwrite(t, [t.disk EXCEPT !.dat[b] = es])
           ELSE IF \E k \in 1..ATONCE : es[k] # FreeEntry THEN setbadness(t, EXIT_UNRECOV) ELSE t,
        s, [i \in 1..NumBlocks(nd) |-> i])

\* strcmp, as far as the order matters: the names of the model.
Rank(n) == IF n = NoName THEN <<0, 0, 0>> ELSE IF Len(n) = 3 THEN <<2, n[2], n[3]>>
           ELSE <<CHOOSE k \in {1, 3, 4, 5, 6, 7, 8, 9, 10} :
                    n[1] = <<".", "", "..", "a", "s", "x/", "x_", "xxx", "xx", "">>[k], 0, 0>>
Before(m, n) == LET a == Rank(m) b == Rank(n)
                IN a[1] < b[1] \/ (a[1] = b[1] /\ (a[2] < b[2] \/ (a[2] = b[2] /\ a[3] < b[3])))

\* qsort: the greatest name first.  What it does with equal names depends on
\* the library; here they keep the order of the directory.
sortdir(d, nd) == SortSeq([k \in 1..nd |-> k], LAMBDA i, j : Before(d[j].name, d[i].name) \/ (d[i].name = d[j].name /\ i < j))

FsckName(s, ino) == <<"FSCK", ino, s.unique>>
checknullstring(n) == IF n = <<"xxx">> THEN <<"xx">> ELSE n
checkbadstring(n) == IF n = <<"x/">> THEN <<"x_">> ELSE n

\* One entry by itself: [s, e].
check_dir_entry(s, e) ==
    IF e.ino = NOINO THEN IF e.name = NoName THEN [s |-> s, e |-> e] ELSE [s |-> setbadness(s, EXIT_RECOV), e |-> FreeEntry]
    ELSE LET n == IF e.name = NoName THEN FsckName(s, e.ino) ELSE checkbadstring(checknullstring(e.name))
             s1 == IF e.name = NoName THEN [s EXCEPT !.unique = @ + 1] ELSE s
         IN [s |-> IF n = e.name THEN s1 ELSE setbadness(s1, EXIT_RECOV), e |-> [e EXCEPT !.name = n]]

check_entries(s, d, nd) ==
    FoldLeft(LAMBDA a, k : LET r == check_dir_entry(a.s, a.d[k]) IN [s |-> r.s, d |-> [a.d EXCEPT ![k] = r.e]],
             [s |-> s, d |-> d], [k \in 1..nd |-> k])

\* Of entries with the same name, all but the last are merged or renamed.
check_names(s, d, nd) ==
    LET v == sortdir(d, nd)
    IN FoldLeft(LAMBDA a, i :
            LET x == a.d[v[i]]
                y == a.d[v[i + 1]]
            IN IF x.ino = NOINO \/ x.name # y.name THEN a
               ELSE IF x.ino = y.ino THEN [s |-> setbadness(a.s, EXIT_RECOV), d |-> [a.d EXCEPT ![v[i]] = FreeEntry]]
               ELSE [s |-> setbadness([a.s EXCEPT !.unique = @ + 1], EXIT_RECOV),
                     d |-> [a.d EXCEPT ![v[i]].name = FsckName(a.s, x.ino)]],
            [s |-> s, d |-> d], [i \in 1..Max({nd - 1, 0}) |-> i])

\* "." and "..": corrected, or put into the first free entry, which may be one
\* past the end.  Nothing is free past the end of the last block.
\* MUTANT: the directory does not grow.
dir_tryadd_inside(a, name, ino) ==
    LET free == {k \in 1..Min({a.nd + 1, Len(a.d)}) : a.d[k].ino = NOINO}
    IN IF free = {} THEN [a EXCEPT !.s = setbadness(@, EXIT_UNRECOV)]
       ELSE [a EXCEPT !.d[Min(free)] = Entry(name, ino), !.s = setbadness(@, EXIT_RECOV)]
dir_tryadd(a, name, ino) ==
    LET free == {k \in 1..Min({a.nd + 1, Len(a.d)}) : a.d[k].ino = NOINO}
        k == Min(free)
    IN IF free = {} THEN [a EXCEPT !.s = setbadness(@, EXIT_UNRECOV)]
       ELSE [a EXCEPT !.d[k] = Entry(name, ino), !.nd = Max({@, k}), !.s = setbadness(@, EXIT_RECOV)]
fix_dot(a, name, ino) ==
    LET at == {k \in 1..a.nd : a.d[k].name = name /\ a.d[k].ino # ino}
    IN IF at = {} THEN a ELSE [a EXCEPT !.d[Min(at)].ino = ino, !.s = setbadness(@, EXIT_RECOV)]
check_dots(a, ino, parentino) ==
    LET seen(name) == \E k \in 1..a.nd : a.d[k].name = name
        fixed == fix_dot(fix_dot(a, Dot, ino), DotDot, parentino)
        dot == IF seen(Dot) THEN fixed ELSE dir_tryadd(fixed, Dot, ino)
    IN IF seen(DotDot) THEN dot ELSE dir_tryadd(dot, DotDot, parentino)

\* MUTANT: the subdirectories are not counted.
Links_two(subdircount) == 2
Links(subdircount) == subdircount + 2

\* check_dir, up to the walk over its entries: the frame that is pushed holds
\* the inode and the entries as they were and as they are to be.
check_dir(s, ino, parentino) ==
    LET sfi0 == s.disk.ino[ino]
        marked == bitmap_mark(addmemory(s, ino, 0), ino, "INODE")
        sized == IF sfi0.size % DIRSIZE # 0 THEN setbadness(marked, EXIT_RECOV) ELSE marked
        nd == ROUNDUP(sfi0.size, DIRSIZE) \div DIRSIZE
    IN Bind(check_inode_blocks(sized, [sfi0 EXCEPT !.size = nd * DIRSIZE]), LAMBDA b :
       Bind(dirread(b.s, b.sfi, nd), LAMBDA d0 :
       Bind(check_entries(b.s, d0, nd), LAMBDA e :
       Bind(check_names(e.s, e.d, nd), LAMBDA n :
       Bind(check_dots([s |-> n.s, d |-> n.d, nd |-> nd], ino, parentino), LAMBDA dots :
           [dots.s EXCEPT !.stack = Append(@, [ino |-> ino, sfi0 |-> sfi0, sfi |-> [b.sfi EXCEPT !.size = dots.nd * DIRSIZE],
                                               d0 |-> d0, d |-> dots.d, k |-> 1, subdirs |-> 0])])))))

Top(s) == s.stack[Len(s.stack)]
Removed(s) == LET f == Top(s)
              IN [setbadness(s, EXIT_RECOV) EXCEPT !.stack[Len(s.stack)].d[f.k] = FreeEntry, !.stack[Len(s.stack)].k = @ + 1]
Passed(s) == [s EXCEPT !.stack[Len(s.stack)].k = @ + 1]

\* One entry of the directory on top.  The walk of a directory that is its
\* own descendant does not end before the stack does.
check_entry(s) ==
    LET x == Top(s).d[Top(s).k]
        sub == s.disk.ino[x.ino]
    IN IF x.ino = NOINO \/ x.name \in {Dot, DotDot} THEN Passed(s)
       ELSE IF sub.type = "file"
       THEN LET f == check_inode_blocks(s, sub)
                written == IF f.changed THEN diskwrite(f.s, [f.s.disk EXCEPT !.ino[x.ino] = f.sfi]) ELSE f.s
            IN Passed(observe_filelink(written, x.ino))
       ELSE IF sub.type = "inval" \/ Remembered(s, x.ino) THEN Removed(s)
       ELSE IF Len(s.stack) = MaxDepth THEN setbadness(s, EXIT_FATAL)
       ELSE check_dir([Passed(s) EXCEPT !.stack[Len(s.stack)].subdirs = @ + 1], x.ino, Top(s).ino)

\* The end of check_dir: the link count, and what changed is written.
check_dir_end(s) ==
    LET f == Top(s)
        sfi == [f.sfi EXCEPT !.link = Links(f.subdirs)]
        s2 == IF sfi.link # f.sfi.link THEN setbadness(s, EXIT_RECOV) ELSE s
    IN Bind(IF f.d # f.d0 THEN dirwrite(s2, sfi, f.d, sfi.size \div DIRSIZE) ELSE s2, LAMBDA s3 :
       [(IF sfi # f.sfi0 THEN diskwrite(s3, [s3.disk EXCEPT !.ino[f.ino] = sfi]) ELSE s3) EXCEPT !.stack = Front(@)])

-----------------------------------------------------------------------------
(* The passes.                                                             *)
With(s) == [used |-> s.used, tofree |-> s.tofree, bad |-> s.bad, unique |-> s.unique, ninodes |-> s.ninodes,
            inodes |-> s.inodes, stack |-> s.stack, disk |-> disk, log |-> <<disk>>]

\* A volume without the magic number ends sfsck.
check_sb(s) ==
    IF s.disk.vol = "nomagic" THEN setbadness(s, EXIT_FATAL)
    ELSE LET s1 == IF s.disk.vol = "ok" THEN s ELSE diskwrite(setbadness(s, EXIT_RECOV), [s.disk EXCEPT !.vol = "ok"])
         IN bitmap_mark(bitmap_mark(s1, SB, "SUPERBLOCK"), MAP, "BITBLOCK")

check_root_dir(s) ==
    LET s1 == IF s.disk.ino[ROOT].type = "dir" THEN s
              ELSE diskwrite(setbadness(s, EXIT_RECOV), [s.disk EXCEPT !.ino[ROOT].type = "dir"])
    IN check_dir(s1, ROOT, ROOT)

check_bitmap(s) ==
    LET s1 == IF s.disk.map = s.used THEN s ELSE diskwrite(s, [s.disk EXCEPT !.map = s.used])
    IN IF s.disk.map \ s.tofree = s.used THEN s1 ELSE setbadness(s1, EXIT_RECOV)

adjust_filelinks(s) ==
    FoldLeft(LAMBDA t, i :
        LET m == t.inodes[i]
        IN IF m.link = 0 \/ t.disk.ino[m.ino].link = m.link THEN t
           ELSE diskwrite(setbadness(t, EXIT_RECOV), [t.disk EXCEPT !.ino[m.ino].link = m.link]),
        s, [i \in 1..s.ninodes |-> i])

Ran(s) ==
    CASE pass = "sb" -> check_sb(s)
      [] pass = "root" -> check_root_dir(s)
      [] pass = "walk" -> IF Top(s).k > Top(s).sfi.size \div DIRSIZE THEN check_dir_end(s) ELSE check_entry(s)
      [] pass = "bitmap" -> check_bitmap(s)
      [] pass = "links" -> adjust_filelinks(s)
After(s) == IF s.stack # <<>> THEN "walk"
            ELSE [sb |-> "root", walk |-> "bitmap", bitmap |-> "links"][pass]

Init ==
    /\ disk \in {mksfs, Good} \cup {Damaged(Good, x) : x \in Damages}
                \cup (IF Damage = 2 THEN {Damaged(Damaged(Good, x), y) : x, y \in Damages} ELSE {})
    /\ first = disk /\ st = Fresh /\ pass = "sb" /\ run = 1 /\ crashes = 0 /\ exits = <<>>

\* One pass, or one step of the walk; errx, or the end of the stack, ends the program.
Pass ==
    /\ pass # "done"
    /\ \E s \in {Ran(With(st))} :
       LET ends == s.bad = EXIT_FATAL \/ pass = "links"
       IN /\ disk' = s.disk
          /\ st' = IF ends THEN Fresh ELSE [f \in DOMAIN Fresh |-> s[f]]
          /\ pass' = IF ends THEN "done" ELSE After(s)
          /\ exits' = IF ends THEN Append(exits, IF pass = "sb" THEN EXIT_UNRECOV ELSE s.bad) ELSE exits
    /\ UNCHANGED <<first, run, crashes>>

\* sfsck is interrupted after some of the writes of a pass, and started anew.
Crash ==
    /\ pass # "done" /\ crashes < MaxCrash /\ exits = <<>>
    /\ \E d \in Range(Ran(With(st)).log) : disk' = d /\ first' = d
    /\ st' = Fresh /\ pass' = "sb" /\ crashes' = crashes + 1
    /\ UNCHANGED <<run, exits>>

Again ==
    /\ pass = "done" /\ run < Runs
    /\ run' = run + 1 /\ pass' = "sb"
    /\ UNCHANGED <<disk, first, st, crashes, exits>>

Next == Pass \/ Crash \/ Again
Spec == Init /\ [][Next]_vars

-----------------------------------------------------------------------------
(* What a sound volume is.                                                 *)
Entries(d, i) ==
    {e \in Range(dirread([disk |-> d], d.ino[i], d.ino[i].size \div DIRSIZE)) : e.name \notin {Dot, DotDot} /\ e.ino # NOINO}
Kids(d, is) == is \cup {e.ino : e \in UNION {Entries(d, i) : i \in is}}
Dirs(d, is) == {i \in is : d.ino[i].type = "dir"}
RECURSIVE Reach(_, _, _)
Reach(d, is, n) == IF n = 0 THEN is ELSE Reach(d, Kids(d, Dirs(d, is)) \cup is, n - 1)
Tree(d) == Reach(d, {ROOT}, NBLOCKS)

Pointers(d, i) ==
    {<<"d", k, d.ino[i].direct[k]>> : k \in 1..NDIRECT} \cup {<<"i", 0, d.ino[i].indirect>>}
    \cup (IF d.ino[i].indirect = 0 THEN {} ELSE {<<"b", k, d.ind[d.ino[i].indirect][k]>> : k \in 1..DBPERIDB})
Uses(d) ==
    {<<SB>>, <<MAP>>, <<ROOT>>} \cup UNION {{<<p[3], i, p>> : p \in {q \in Pointers(d, i) : q[3] # 0}} : i \in Tree(d)}
    \cup UNION {{<<e.ino, i, e>> : e \in Entries(d, i)} : i \in Dirs(d, Tree(d))}

PastEnd(d, i) ==
    LET n == ROUNDUP(d.ino[i].size, BLOCK) \div BLOCK
    IN {p \in Pointers(d, i) : p[3] # 0 /\ ((p[1] = "d" /\ p[2] > n) \/ (p[1] = "b" /\ NDIRECT + p[2] > n))}
EmptyIndirect(d, i) == d.ino[i].indirect # 0 /\ \A k \in 1..DBPERIDB : d.ind[d.ino[i].indirect][k] = 0

SoundDir(d, i, parent) ==
    LET es == dirread([disk |-> d], d.ino[i], d.ino[i].size \div DIRSIZE)
        at(n) == {k \in DOMAIN es : es[k].name = n}
    IN /\ d.ino[i].size % DIRSIZE = 0
       /\ \A k \in DOMAIN es : (es[k].ino = NOINO) = (es[k].name = NoName) /\ es[k].name \notin {<<"x/">>, <<"xxx">>}
       /\ \A k \in DOMAIN es : es[k].ino = NOINO \/ at(es[k].name) = {k}
       /\ \E k \in at(Dot) : es[k].ino = i
       /\ \E k \in at(DotDot) : es[k].ino = parent
       /\ d.ino[i].link = 2 + Cardinality({e \in Entries(d, i) : d.ino[e.ino].type = "dir"})

Sound(d) ==
    /\ d.vol = "ok" /\ d.ino[ROOT].type = "dir" /\ SoundDir(d, ROOT, ROOT)
    /\ \A i \in Tree(d) : d.ino[i].type # "inval" /\ PastEnd(d, i) = {} /\ ~EmptyIndirect(d, i)
    /\ \A i \in Dirs(d, Tree(d)) : \A e \in Entries(d, i) : d.ino[e.ino].type = "dir" => SoundDir(d, e.ino, i)
    /\ \A u, v \in Uses(d) : u[1] = v[1] => u = v
    /\ d.map = {u[1] : u \in Uses(d)}

\* sfsck finds nothing to complain of exactly when the volume is sound, and
\* then it has changed nothing.
CleanIsSound ==
    (pass = "done" /\ run = 1) => /\ (exits[1] = EXIT_CLEAN) = Sound(first)
                                  /\ exits[1] = EXIT_CLEAN => disk = first

\* A volume that a run of sfsck repaired, by itself or after runs that were
\* interrupted anywhere, is found clean by the third run at the latest, unless
\* a direct block past the end of a file is left.
RepairSettles ==
    (pass = "done" /\ run >= 3 /\ exits[run - 2] <= EXIT_RECOV /\ \A i \in Tree(disk) : \A p \in PastEnd(disk, i) : p[1] # "d")
    => exits[run] = EXIT_CLEAN /\ Sound(disk)

\* Violated: a clean volume has the right link count in every file, as
\* adjust_filelinks is there to ensure (addmemory does not count what it
\* remembers, so it finds no file).
FileLinksRight ==
    (pass = "done" /\ exits[run] = EXIT_CLEAN) => \A i \in Tree(disk) : disk.ino[i].type = "file" => disk.ino[i].link = 1

\* Violated: sfsck returns, also when a directory is linked into itself ("Crosslink
\* to other directory (removed)").
SfsckEnds == pass = "done" => exits[run] # EXIT_FATAL

\* Violated: a volume as mksfs makes it is clean.
FreshIsClean == (pass = "done" /\ first = mksfs) => exits[1] = EXIT_CLEAN

\* Violated: "blocks after EOF (freed)" are not in use by an inode.
FreedIsUnused == (pass = "done" /\ exits[run] <= EXIT_RECOV) => \A i \in Tree(disk) : PastEnd(disk, i) = {}
=============================================================================
