------------------------------ MODULE UserMem ------------------------------
(***************************************************************************)
(* Moving data between the kernel and a program: kern/vm/copyinout.c, the  *)
(* loop of uiomove (kern/lib/uio.c), and the arguments sys_execv lays out  *)
(* on the new stack (kern/thread/thread.c).  An initial state is a call;   *)
(* the one step makes it.  Addresses are W bits wide and wrap around.      *)
(***************************************************************************)
EXTENDS Integers, Sequences, SequencesExt, FiniteSets

CONSTANTS
    W,                  \* bits of an address
    USERSPACETOP,       \* user addresses are those below it
    PAGE,               \* bytes in a page
    MaxStr,             \* the longest buffer for a string: PATH_MAX
    MaxIov,             \* bound: iovecs of a uio, and length of each
    MaxArgs, MaxArg     \* bounds: arguments of execv, and length of each

UserMemAssumption ==
    /\ USERSPACETOP < 2 ^ W /\ USERSPACETOP % PAGE = 0 /\ MaxStr <= 2 ^ W - USERSPACETOP
    /\ MaxIov \in Nat /\ MaxArgs \in Nat /\ MaxArg \in Nat

VARIABLES call, res

vars == <<call, res>>

Addresses == 0..USERSPACETOP - 1
PageOf(a) == a \div PAGE
NUL == 0

\* A call, with the pages that vm_fault can provide and what the memory the
\* string is in holds (user memory, or for copyoutstr the kernel's buffer).
CopyCalls ==
    LET calls(op, lens) == [op : {op}, ptr : 0..2 ^ W - 1, len : lens,
                            mapped : SUBSET {PageOf(a) : a \in Addresses}, mem : [Addresses -> {NUL, 1}]]
    IN calls("copyin", 0..2 ^ W - 1) \cup calls("copyout", 0..2 ^ W - 1)
       \cup calls("copyinstr", 0..MaxStr) \cup calls("copyoutstr", 0..MaxStr)

Uios == [op : {"uiomove", "uiomovezeros"}, iov : SeqOf(0..MaxIov, MaxIov), resid : 0..MaxIov * MaxIov, n : 0..MaxIov * MaxIov]

ArgCalls == [op : {"execv"}, args : SeqOf(1..MaxArg, MaxArgs)]

NoResult == [err |-> "none"]

Init ==
    /\ \/ call \in CopyCalls
       \/ call \in {u \in Uios : u.iov # <<>>}
       \/ call \in ArgCalls
    /\ res = NoResult

-----------------------------------------------------------------------------
\* The last address, in the width of vaddr_t.
top(ptr, len) == (ptr + len - 1) % 2 ^ W

copycheck_nowrap(ptr, len) ==
    IF ptr >= USERSPACETOP THEN [err |-> "EFAULT", stop |-> len]
    ELSE [err |-> "ok", stop |-> IF top(ptr, len) >= USERSPACETOP THEN USERSPACETOP - ptr ELSE len]

\* copycheck: refused, or how much may be copied.
copycheck(ptr, len) ==
    IF top(ptr, len) < ptr \/ ptr >= USERSPACETOP THEN [err |-> "EFAULT", stop |-> len]
    ELSE [err |-> "ok", stop |-> IF top(ptr, len) >= USERSPACETOP THEN USERSPACETOP - ptr ELSE len]

\* Touching a byte faults, and copyfail takes over.
Faults(a) == a \notin Addresses \/ PageOf(a) \notin call.mapped

\* The bytes memcpy touches: up to and including the first that faults.
Touched(ptr, n) == {ptr + i : i \in {k \in 0..n - 1 : \A j \in 0..k - 1 : ~Faults(ptr + j)}}

copyin(ptr, len) ==
    LET check == copycheck(ptr, len)
    IN IF check.err = "EFAULT" \/ check.stop # len THEN [err |-> "EFAULT", touched |-> {}]
       ELSE LET t == Touched(ptr, len)
            IN [err |-> IF \E a \in t : Faults(a) THEN "EFAULT" ELSE "ok", touched |-> t]

copyout(ptr, len) == copyin(ptr, len)

\* Byte i of the string, which comes from ptr or goes there.
Byte(ptr, i) == IF call.op = "copyinstr" THEN call.mem[ptr + i] ELSE call.mem[i]

Limit(maxlen, stoplen) == Min({maxlen, stoplen})

\* copystr: how far it gets, and why it stops.
copystr(ptr, maxlen, stoplen) ==
    LET lim == Limit(maxlen, stoplen)
        n == Min({lim} \cup {i \in 0..lim - 1 : Faults(ptr + i) \/ Byte(ptr, i) = NUL})
        t == {ptr + i : i \in 0..Min({n, lim - 1})}
    IN CASE n = lim -> [err |-> IF stoplen < maxlen THEN "EFAULT" ELSE "ENAMETOOLONG", touched |-> t]
         [] n < lim /\ Faults(ptr + n) -> [err |-> "EFAULT", touched |-> t]
         [] OTHER -> [err |-> "ok", got |-> n + 1, touched |-> t]

copyinstr(ptr, len) ==
    LET check == copycheck(ptr, len)
    IN IF check.err = "EFAULT" THEN [err |-> "EFAULT", touched |-> {}] ELSE copystr(ptr, len, check.stop)

copyoutstr(ptr, len) ==
    LET check == copycheck(ptr, len)
    IN IF check.err = "EFAULT" THEN [err |-> "EFAULT", touched |-> {}] ELSE copystr(ptr, len, check.stop)

-----------------------------------------------------------------------------
(* uiomove: the iovecs are used up from the front; `moved' says how much    *)
(* went to which of them.                                                   *)
Amount_n(u) == u.n

Amount(u) == Min({Head(u.iov), u.n})

RECURSIVE uiomove(_)
uiomove(u) ==
    IF u.n = 0 \/ u.resid = 0 THEN u
    ELSE LET size == Amount(u)
         IN IF size = 0
            THEN IF Len(u.iov) = 1 THEN [u EXCEPT !.err = "panic"]
                 ELSE uiomove([u EXCEPT !.iov = Tail(@), !.moved = Append(@, 0)])
            ELSE uiomove([u EXCEPT !.iov[1] = @ - size, !.resid = @ - size, !.offset = @ + size, !.n = @ - size,
                                   !.moved = [@ EXCEPT ![Len(@)] = @ + size]])

\* uiomovezeros: sixteen bytes of zeroes at a time (here ZEROS).
ZEROS == 2
RECURSIVE uiomovezeros(_, _)
uiomovezeros(u, n) ==
    IF n = 0 \/ u.err = "panic" THEN u
    ELSE LET amt == Min({ZEROS, n}) IN uiomovezeros(uiomove([u EXCEPT !.n = amt]), n - amt)

Uio == [err |-> "ok", iov |-> call.iov, resid |-> call.resid, offset |-> 0, n |-> call.n, moved |-> <<0>>]

-----------------------------------------------------------------------------
(* The arguments on the stack of a new program: strings from the top down,  *)
(* then the pointers to them.  Addresses count down from 0.                 *)
shift_none(len) == 0
shift(len) == IF len % 4 = 0 THEN 4 ELSE len % 4

RECURSIVE pstack(_, _)
pstack(args, i) == (IF i = Len(args) THEN 0 ELSE pstack(args, i + 1)) - (args[i] + shift(args[i]))

\* copyoutstr copies len bytes and no terminator; the stack was zeroed.
Stack(args) == [a \in -(MaxArgs * (MaxArg + 8))..0 |->
                    IF \E i \in 1..Len(args) : a \in pstack(args, i)..pstack(args, i) + args[i] - 1
                    THEN CHOOSE i \in 1..Len(args) : a \in pstack(args, i)..pstack(args, i) + args[i] - 1
                    ELSE NUL]

stackptr(args) == (IF args = <<>> THEN 0 ELSE pstack(args, 1)) - 4 * Len(args)

execv_args == [err |-> "ok", sp |-> stackptr(call.args), at |-> [i \in 1..Len(call.args) |-> pstack(call.args, i)], stack |-> Stack(call.args)]

-----------------------------------------------------------------------------
do_copyin == call.op = "copyin" /\ res = NoResult /\ res' = copyin(call.ptr, call.len) /\ UNCHANGED call
do_copyout == call.op = "copyout" /\ res = NoResult /\ res' = copyout(call.ptr, call.len) /\ UNCHANGED call
do_copyoutstr == call.op = "copyoutstr" /\ res = NoResult /\ res' = copyoutstr(call.ptr, call.len) /\ UNCHANGED call
do_copyinstr == call.op = "copyinstr" /\ res = NoResult /\ res' = copyinstr(call.ptr, call.len) /\ UNCHANGED call
do_uiomove == call.op = "uiomove" /\ res = NoResult /\ res' = uiomove(Uio) /\ UNCHANGED call
do_uiomovezeros == call.op = "uiomovezeros" /\ res = NoResult /\ res' = uiomovezeros(Uio, call.n) /\ UNCHANGED call
do_execv == call.op = "execv" /\ res = NoResult /\ res' = execv_args /\ UNCHANGED call

Next == do_copyin \/ do_copyout \/ do_copyoutstr \/ do_copyinstr \/ do_uiomove \/ do_uiomovezeros \/ do_execv

Spec == Init /\ [][Next]_vars

Done(ops) == res # NoResult /\ call.op \in ops
-----------------------------------------------------------------------------
\* No copy touches an address of the kernel, also when pointer plus length
\* wraps around.  A copy succeeds exactly if it has bytes to copy and all of
\* them can be read (a copy of no bytes is refused); a string copy succeeds
\* exactly if a terminator is among the first len bytes and all before it can
\* be read, and it is too long only if the whole buffer could be filled.
CopyIsConfined ==
    Done({"copyin", "copyout", "copyinstr", "copyoutstr"}) =>
        LET all(n) == call.ptr + n <= 2 ^ W /\ \A i \in 0..n - 1 : ~Faults(call.ptr + i)
            ends == {n \in 1..call.len : all(n) /\ Byte(call.ptr, n - 1) = NUL}
        IN /\ res.touched \subseteq Addresses
           /\ call.op \in {"copyin", "copyout"} => (res.err = "ok" <=> call.len > 0 /\ all(call.len))
           /\ call.op \in {"copyinstr", "copyoutstr"} => (res.err = "ok" <=> ends # {})
           /\ (call.op \in {"copyinstr", "copyoutstr"} /\ res.err = "ok") => res.got = Min(ends)
           /\ res.err = "ENAMETOOLONG" => all(call.len)

\* uiomove moves as much as is asked for and left, fills the buffers in order
\* and no further than their length, and keeps resid and offset in step;
\* it runs out of buffers only if resid was more than they hold.  This takes
\* a caller that asks for no more than resid, or buffers no longer than resid.
UioInOrder ==
    Done({"uiomove", "uiomovezeros"}) =>
        LET total == FoldSeq(+, 0, call.iov)
            want == Min({call.n, call.resid})
            got == FoldSeq(+, 0, res.moved)
        IN (call.n <= call.resid \/ total <= call.resid) =>
           /\ res.err = "panic" <=> want > total
           /\ res.err = "ok" => got = want
           /\ res.resid = call.resid - got /\ res.offset = got
           /\ \A k \in 1..Len(res.moved) : res.moved[k] <= call.iov[k]
           /\ \A k \in 1..Len(res.moved) - 1 : res.moved[k] = call.iov[k]

\* The new program finds each argument at its pointer, ended by a zero byte
\* (which only the zeroed stack provides), and no two of them overlap.
ArgsArrive ==
    Done({"execv"}) =>
        \A i \in 1..Len(call.args) :
            /\ \A k \in 0..call.args[i] - 1 : res.stack[res.at[i] + k] = i
            /\ res.stack[res.at[i] + call.args[i]] = NUL
            /\ res.sp + 4 * Len(call.args) <= res.at[i]

\* (Not the case.)  resid never goes below zero, whatever the caller asks for.
ResidSuffices == Done({"uiomove", "uiomovezeros"}) => res.resid >= 0

\* (Not the case.)  The stack pointer and the argv array are aligned.
StackAligned == Done({"execv"}) => res.sp % 4 = 0

\* (Not the case.)  "In the new process, argv[argc] must be NULL":
\* man/syscall/execv.html.
ArgvEndsInNull ==
    Done({"execv"}) => \A k \in 0..3 : res.stack[res.sp + 4 * Len(call.args) + k] = NUL
=============================================================================
