------------------------------- MODULE Psort -------------------------------
(***************************************************************************)
(* The parallel sort (user/testbin/psort/psort.c): the parent forks        *)
(* numprocs children for each phase and waits for them; the children share *)
(* files.  A file is a sequence of keys, 0 where nothing was written.      *)
(***************************************************************************)
EXTENDS Integers, Sequences, FiniteSets, SequencesExt, FiniteSetsExt

CONSTANTS
    numprocs, numkeys,
    RANDOM_MAX,
    WORKNUM,            \* keys in the workspace
    Values,             \* what random returns, but 0 and RANDOM_MAX, which are drawn again
    MaxErrors           \* bound: failing forks and children

PsortAssumption == numprocs > 0 /\ WORKNUM > 0 /\ Values \subseteq 1..RANDOM_MAX - 1

VARIABLES
    files,              \* the files that exist, by name
    phase,              \* the phase of the parent
    child, pos,         \* what child i is doing, and how far it is
    bad,                \* doforkall: something failed
    errors,
    checksum,
    code                \* what the parent returned

vars == <<files, phase, child, pos, bad, errors, checksum, code>>

Children == 0..numprocs - 1
KEYS == <<"sortkeys">>
SORTED == <<"output">>
binname(a, b) == <<"bin", a, b>>
mergedname(a) == <<"merged", a>>
validname(a) == <<"valid", a>>

Bins == {binname(a, b) : a, b \in Children}
Mergeds == {mergedname(a) : a \in Children}
Put(fs, name, data) == [n \in DOMAIN fs \cup {name} |-> IF n = name THEN data ELSE fs[n]]
doremove(fs, ns) == [n \in DOMAIN fs \ ns |-> fs[n]]
getsize(ns) == MapThenSumSet(LAMBDA n : Len(files[n]), ns)
dowrite(data, at, new) ==
    [k \in 1..Max({Len(data), at + Len(new)}) |->
        IF k \in at + 1..at + Len(new) THEN new[k - at] ELSE IF k <= Len(data) THEN data[k] ELSE 0] \o <<>>

getmykeys(i) == LET keys_per == numkeys \div numprocs
                IN IF i < numprocs - 1 THEN keys_per ELSE numkeys - i * keys_per
seekmyplace(i) == i * (numkeys \div numprocs)
keys_to_do(i) == Min({getmykeys(i) - pos[i], WORKNUM})
doexactread(name, at, n) == SubSeq(files[name], at + 1, at + n)
checksum_file(name) == FoldLeft(LAMBDA x, y : x + y, 0, files[name])

-----------------------------------------------------------------------------
(* Algorithms.                                                             *)
\* The partition of sortints: f, r and e are frontpos, readpos and endpos.
RECURSIVE Partition(_, _, _, _, _)
Partition(v, p, f, r, e) ==
    IF r >= e THEN [v |-> [k \in DOMAIN v |-> IF k \in f + 1..e THEN p ELSE v[k]] \o <<>>, f |-> f, e |-> e]
    ELSE IF v[r + 1] < p THEN Partition([v EXCEPT ![f + 1] = v[r + 1]], p, f + 1, r + 1, e)
    ELSE IF v[r + 1] = p THEN Partition(v, p, f, r + 1, e)
    ELSE Partition([v EXCEPT ![e] = v[r + 1], ![r + 1] = v[e]], p, f, r, e - 1)

RECURSIVE sortints(_)
sortints(v) ==
    IF Len(v) < 2 THEN v
    ELSE LET r == Partition(v, v[Len(v) \div 2 + 1], 0, 0, Len(v))
         IN sortints(SubSeq(r.v, 1, r.f)) \o SubSeq(r.v, r.f + 1, r.e) \o sortints(Reverse(SubSeq(r.v, r.e + 1, Len(v))))

\* The bin of the smallest value that is ready; the first of them, of equals.
\* MUTANT: the first bin that has a value.
Place_first(bins) == Min({i \in Children : bins[i] # <<>>})
Place(bins) ==
    LET ready == {i \in Children : bins[i] # <<>>}
        least == Min({bins[i][1] : i \in ready})
    IN Min({i \in ready : bins[i][1] = least})

RECURSIVE Merge(_)
Merge(bins) ==
    IF \A i \in Children : bins[i] = <<>> THEN <<>>
    ELSE LET p == Place(bins) IN <<bins[p][1]>> \o Merge([bins EXCEPT ![p] = Tail(@)])

pivot == RANDOM_MAX \div numprocs
binnum(key) == key \div pivot

-----------------------------------------------------------------------------
(* The children.                                                           *)
Exits(i, how) == child' = [child EXCEPT ![i] = how]
Advances(i, n) == pos' = [pos EXCEPT ![i] = @ + n]
Same == UNCHANGED <<phase, bad, errors, checksum, code>>
Running(i, ph) == child[i] = "run" /\ phase = ph
Ends(i) == Exits(i, "ok") /\ UNCHANGED <<files, pos>>

genkeys_sub(i) ==
    /\ Running(i, "genkeys") /\ Same
    /\ \/ /\ pos[i] < getmykeys(i)
          /\ \E vs \in [1..keys_to_do(i) -> Values] :
                files' = [files EXCEPT ![KEYS] = dowrite(@, seekmyplace(i) + pos[i], vs)]
          /\ Advances(i, keys_to_do(i)) /\ UNCHANGED child
       \/ pos[i] = getmykeys(i) /\ Ends(i)

\* The assertion on binnum ends the child.
bin(i) ==
    /\ Running(i, "bin") /\ Same
    /\ \/ pos[i] < getmykeys(i) /\ Advances(i, keys_to_do(i))
          /\ LET ks == doexactread(KEYS, seekmyplace(i) + pos[i], keys_to_do(i))
                 of(j) == SelectSeq(ks, LAMBDA k : binnum(k) = j)
             IN IF \E k \in DOMAIN ks : binnum(ks[k]) >= numprocs THEN Exits(i, "failed") /\ UNCHANGED files
                ELSE /\ files' = [n \in DOMAIN files |-> IF n \in {binname(i, j) : j \in Children} THEN files[n] \o of(n[3]) ELSE files[n]]
                     /\ UNCHANGED child
       \/ pos[i] = getmykeys(i) /\ Ends(i)

sortbins(i) ==
    /\ Running(i, "sortbins") /\ Same
    /\ \/ /\ pos[i] < numprocs /\ Advances(i, 1)
          /\ files' = [files EXCEPT ![binname(i, pos[i])] = sortints(@)]
          /\ UNCHANGED child
       \/ pos[i] = numprocs /\ Ends(i)

mergebins(i) ==
    /\ Running(i, "mergebins") /\ Same
    /\ files' = Put(files, mergedname(i), Merge([j \in Children |-> files[binname(j, i)]]))
    /\ Exits(i, "ok") /\ UNCHANGED pos

\* cat writes to the place of the child in the output.
assemble(i) ==
    /\ Running(i, "assemble") /\ Same
    /\ LET data == files[mergedname(i)]
           mypos == getsize({mergedname(j) : j \in 0..i - 1})
       IN \/ /\ pos[i] < Len(data) /\ Advances(i, 1)
             /\ files' = [files EXCEPT ![SORTED] = dowrite(@, mypos + pos[i], <<data[pos[i] + 1]>>)]
             /\ UNCHANGED child
          \/ pos[i] = Len(data) /\ Ends(i)

dovalidate(i) ==
    /\ Running(i, "dovalidate") /\ Same /\ UNCHANGED pos
    /\ LET ks == Range(doexactread(SORTED, seekmyplace(i), getmykeys(i)))
       IN IF \E k \in ks : k <= 0 \/ k >= RANDOM_MAX THEN Exits(i, "failed") /\ UNCHANGED files
          ELSE /\ files' = Put(files, validname(i), <<Min(ks \cup {RANDOM_MAX}), Max(ks \cup {0})>>)
               /\ Exits(i, "ok")

\* A system call fails: the child complains, and exits.
Fails(i) ==
    /\ child[i] = "run" /\ errors < MaxErrors
    /\ errors' = errors + 1 /\ Exits(i, "failed")
    /\ UNCHANGED <<files, phase, pos, bad, checksum, code>>

-----------------------------------------------------------------------------
(* The parent.                                                             *)
Init ==
    /\ files = [n \in {KEYS} |-> <<>>] /\ phase = "genkeys" /\ child = [i \in Children |-> "new"] /\ pos = [i \in Children |-> 0]
    /\ bad = FALSE /\ errors = 0 /\ checksum = 0 /\ code = -1

Exit(c) == phase' = "exit" /\ code' = c

\* doforkall: the children are forked in turn; one that cannot be is missed.
\* bin begins by creating its files.
Opens(i) == IF phase = "bin" THEN [n \in DOMAIN files \cup {binname(i, j) : j \in Children} |->
                                    IF n \in {binname(i, j) : j \in Children} THEN <<>> ELSE files[n]] ELSE files
dofork(i) ==
    /\ phase # "exit" /\ child[i] = "new" /\ \A j \in 0..i - 1 : child[j] # "new"
    /\ \/ Exits(i, "run") /\ files' = Opens(i) /\ UNCHANGED <<bad, errors>>
       \/ errors < MaxErrors /\ errors' = errors + 1 /\ bad' = TRUE /\ Exits(i, "none") /\ UNCHANGED files
    /\ UNCHANGED <<phase, pos, checksum, code>>

\* The parent has waited for every child.
\* MUTANT: it only waits for the last one.
Waited_last == child[numprocs - 1] \notin {"new", "run"}
Waited == \A i \in Children : child[i] \notin {"new", "run"}
Failed == bad \/ \E i \in Children : child[i] = "failed"
Starts(ph) == phase' = ph /\ child' = [i \in Children |-> "new"] /\ pos' = [i \in Children |-> 0]
Complains == Exit(1) /\ UNCHANGED <<files, child, pos, checksum>>

genkeys ==
    IF Len(files[KEYS]) # numkeys THEN Complains
    ELSE checksum' = checksum_file(KEYS) /\ Starts("bin") /\ UNCHANGED <<files, code>>
checksize_bins(next) ==
    IF getsize(Bins) # numkeys THEN Complains ELSE Starts(next) /\ UNCHANGED <<files, checksum, code>>
checksize_merge ==
    IF getsize(Mergeds) # numkeys THEN Complains
    ELSE files' = Put(doremove(files, Bins), SORTED, <<>>) /\ Starts("assemble") /\ UNCHANGED <<checksum, code>>
sort ==
    IF Len(files[SORTED]) # numkeys THEN Complains
    ELSE /\ files' = doremove(files, Mergeds)
         /\ IF checksum_file(SORTED) # checksum THEN Exit(1) /\ UNCHANGED <<child, pos, checksum>>
            ELSE Starts("dovalidate") /\ UNCHANGED <<checksum, code>>
\* prev_largest stays 1.
validate ==
    IF \E i \in Children : LET v == files[validname(i)] IN v[1] < 1 \/ v[2] >= RANDOM_MAX \/ v[1] > v[2] THEN Complains
    ELSE /\ files' = doremove(files, {validname(i) : i \in Children})
         /\ phase' = "unsetdir" /\ code' = 0 /\ UNCHANGED <<child, pos, checksum>>

doforkall ==
    /\ phase \notin {"unsetdir", "exit"} /\ Waited
    /\ UNCHANGED <<bad, errors>>
    /\ IF Failed THEN Complains
       ELSE CASE phase = "genkeys" -> genkeys
              [] phase = "bin" -> checksize_bins("sortbins")
              [] phase = "sortbins" -> checksize_bins("mergebins")
              [] phase = "mergebins" -> checksize_merge
              [] phase = "assemble" -> sort
              [] phase = "dovalidate" -> validate

unsetdir ==
    /\ phase = "unsetdir" /\ phase' = "exit"
    /\ files' = doremove(files, {KEYS, SORTED})
    /\ UNCHANGED <<child, pos, bad, errors, checksum, code>>

Next ==
    \/ \E i \in Children : genkeys_sub(i) \/ bin(i) \/ sortbins(i) \/ mergebins(i) \/ assemble(i) \/ dovalidate(i) \/ Fails(i) \/ dofork(i)
    \/ doforkall \/ unsetdir
Spec == Init /\ [][Next]_vars

-----------------------------------------------------------------------------
Count(s, x) == Cardinality({k \in DOMAIN s : s[k] = x})
IsSortOf(s, t) ==
    /\ \A k \in 1..Len(s) - 1 : s[k] <= s[k + 1]
    /\ \A x \in Range(s) \cup Range(t) : Count(s, x) = Count(t, x)

\* psort says that it succeeded exactly when no fork and no child failed, every
\* child has keys to validate, and no key lies past the last bin; and then
\* the output is the keys, in order, however the children took turns.
PsortRight ==
    (phase = "unsetdir" \/ (phase = "exit" /\ code = 1)) =>
        /\ (code = 0) = (errors = 0 /\ numkeys >= numprocs /\ \A k \in Range(files[KEYS]) : binnum(k) < numprocs)
        /\ code = 0 => IsSortOf(files[SORTED], files[KEYS])

\* Violated: psort does not fail by itself ("assert(binnum < numprocs)").
PsortSucceeds == (phase = "exit" /\ errors = 0) => code = 0
=============================================================================
