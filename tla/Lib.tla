-------------------------------- MODULE Lib --------------------------------
(***************************************************************************)
(* The library of the kernel, most of it shared with libc: printf into a   *)
(* buffer and atoi, memmove, strtok_r, byte order, long long arithmetic,   *)
(* arrays, bitmaps, and the line editing of kgets.  part says which one a  *)
(* behaviour is about.  The functions are computed in one step (res) and   *)
(* compared with what they should return; arrays, bitmaps and lines go     *)
(* through sequences of calls beside a history of what they should hold.   *)
(* A string is a sequence of characters.                                   *)
(***************************************************************************)
EXTENDS Integers, Sequences, SequencesExt, Bitwise

CONSTANTS
    INT_BITS,       \* of an int and a long; a long long has twice as many
    Args,           \* the bits of the numbers printed
    Seconds,        \* bound: the second operands of long long arithmetic
    MaxMods,        \* modifiers of a format
    LONG, MEM,      \* bytes of a long and of the memory of memmove
    MaxStr,         \* characters of a string for strtok_r
    BYTE,           \* bits of a byte in bswap
    MaxNum,         \* elements of an array
    BITS_PER_WORD, MaxBits,
    maxlen, MaxKeys \* of kgets: its buffer, and the keys pressed

LibAssumption ==
    /\ {INT_BITS, LONG, MEM, BYTE, MaxNum, BITS_PER_WORD, maxlen, MaxKeys} \subseteq Nat \ {0}
    /\ {MaxMods, MaxStr, MaxBits} \subseteq Nat /\ Args \subseteq Nat
    /\ INT_BITS \in {2, 4, 6, 8} /\ Seconds \subseteq 0..2 ^ (2 * INT_BITS) - 1

VARIABLES part, call, res, arr, want, bm, used, kg

vars == <<part, call, res, arr, want, bm, used, kg>>

-----------------------------------------------------------------------------
(* printf.                                                                 *)
digits == <<"0", "1", "2", "3", "4", "5", "6", "7", "8", "9", "a", "b", "c", "d", "e", "f">>
DigitOf(ch) == CHOOSE k \in 0..9 : digits[k + 1] = ch
IsDigit(ch) == \E k \in 1..10 : digits[k] = ch
LL_BITS == 2 * INT_BITS
\* MUTANT: no room for the terminator.
NUMBER_BUF_SIZE_short == LL_BITS \div 3 + 1
NUMBER_BUF_SIZE == LL_BITS \div 3 + 2

Field == [in_pct |-> FALSE, size |-> "INTSZ", num |-> 0, sign |-> FALSE, spacing |-> 0, rightspc |-> FALSE,
          fillchar |-> " ", base |-> 0, baseprefix |-> FALSE, altformat |-> FALSE]

\* pf = [f: the field, out: what was sent, arg: the bits of the argument].
pf_print(pf, txt) == [pf EXCEPT !.out = @ \o txt]
\* MUTANT: the width of a field is used for the next one too.
pf_endfield_width(pf) == [pf EXCEPT !.f = [Field EXCEPT !.spacing = pf.f.spacing]]
pf_endfield(pf) == [pf EXCEPT !.f = Field]

pf_modifier(pf, ch) ==
    CASE ch = "#" -> [pf EXCEPT !.f.altformat = TRUE]
      [] ch = "-" -> [pf EXCEPT !.f.rightspc = TRUE]
      [] ch = "l" -> [pf EXCEPT !.f.size = IF @ = "LONGSZ" THEN "LLONGSZ" ELSE "LONGSZ"]
      [] ch = "0" -> IF pf.f.spacing > 0 THEN [pf EXCEPT !.f.spacing = @ * 10] ELSE [pf EXCEPT !.f.fillchar = "0"]
      [] OTHER -> [pf EXCEPT !.f.spacing = @ * 10 + DigitOf(ch)]

\* The argument has the bits of its type.
Width(size) == IF size = "LLONGSZ" THEN LL_BITS ELSE INT_BITS
ToSigned(x, w) == IF x % 2 ^ w >= 2 ^ (w - 1) THEN (x % 2 ^ w) - 2 ^ w ELSE x % 2 ^ w
pf_getnum(pf, ch) ==
    LET n == ToSigned(pf.arg, Width(pf.f.size))
    IN CASE ch = "p" -> [pf EXCEPT !.f.num = pf.arg % 2 ^ INT_BITS]
         [] ch = "d" -> [pf EXCEPT !.f.sign = n < 0, !.f.num = (IF n < 0 THEN -n ELSE n) % 2 ^ LL_BITS]
         [] OTHER -> [pf EXCEPT !.f.num = pf.arg % 2 ^ Width(pf.f.size)]

pf_setbase(pf, ch) ==
    [pf EXCEPT !.f.base = IF ch \in {"d", "u"} THEN 10 ELSE IF ch = "o" THEN 8 ELSE 16,
               !.f.baseprefix = pf.f.altformat \/ ch = "p"]

Fill(pf, spc) == [i \in 1..spc |-> pf.f.fillchar]

pf_printstuff(pf, prefix, stuff) ==
    LET len == Len(prefix) + Len(stuff)
        spc == IF pf.f.spacing > len THEN pf.f.spacing - len ELSE 0
        pad == Fill(pf, spc)
        left == ~pf.f.rightspc
        zero == pf.f.fillchar = "0"
    IN pf_print(pf, (IF left /\ ~zero THEN pad ELSE <<>>) \o prefix \o (IF left /\ zero THEN pad ELSE <<>>)
                    \o stuff \o (IF left THEN <<>> ELSE pad))

RECURSIVE Converted(_, _)
Converted(xnum, base) ==
    LET d == <<digits[(xnum % base) + 1]>> IN IF xnum \div base = 0 THEN d ELSE Converted(xnum \div base, base) \o d

pf_printnum(pf) ==
    LET bprefix == IF ~pf.f.baseprefix THEN <<>> ELSE IF pf.f.base = 16 THEN <<"0", "x">> ELSE IF pf.f.base = 8 THEN <<"0">> ELSE <<>>
        sprefix == IF pf.f.sign THEN <<"-">> ELSE <<>>
    IN pf_printstuff(pf, sprefix \o bprefix, Converted(pf.f.num, pf.f.base))

\* An argument for %s is a null pointer or a string; one for %c is a character.
StrArg(pf) == IF pf.arg = 0 THEN <<"(", "n", "u", "l", "l", ")">> ELSE <<"y", "z">>

pf_send(pf, ch) ==
    IF ~pf.f.in_pct THEN (IF ch # "%" THEN pf_print(pf, <<ch>>) ELSE [pf EXCEPT !.f.in_pct = TRUE])
    ELSE IF ch \in {"#", "-", "l"} \/ IsDigit(ch) THEN pf_modifier(pf, ch)
    ELSE IF ch \in {"d", "o", "u", "p", "x"} THEN pf_endfield(pf_printnum(pf_setbase(pf_getnum(pf, ch), ch)))
    ELSE IF ch = "s" THEN pf_endfield(pf_printstuff(pf, <<>>, StrArg(pf)))
    ELSE pf_endfield(pf_printstuff(pf, <<>>, <<IF ch = "c" THEN "w" ELSE ch>>))

vprintf(format, arg) == FoldLeft(pf_send, [f |-> Field, out |-> <<>>, arg |-> arg], format).out

\* [buf: what is stored, with its terminator; chars: what is returned].
snprintf(len, format, arg) ==
    LET out == vprintf(format, arg)
        buflen == IF len = 0 THEN 0 ELSE len - 1
    IN [buf |-> SubSeq(out, 1, IF Len(out) < buflen THEN Len(out) ELSE buflen) \o (IF len > 0 THEN <<"NUL">> ELSE <<>>),
        chars |-> Len(out)]

atoi(s) ==
    LET first == CHOOSE i \in 1..Len(s) + 1 : (i > Len(s) \/ s[i] # " ") /\ \A j \in 1..i - 1 : s[j] = " "
        neg == first <= Len(s) /\ s[first] = "-"
        start == IF first <= Len(s) /\ s[first] \in {"-", "+"} THEN first + 1 ELSE first
        stop == CHOOSE i \in start..Len(s) + 1 : (i > Len(s) \/ ~IsDigit(s[i])) /\ \A j \in start..i - 1 : IsDigit(s[j])
        Shift(val, ch) == (val * 10 + DigitOf(ch)) % 2 ^ INT_BITS
        val == FoldLeft(Shift, 0, SubSeq(s, start, stop - 1))
    IN ToSigned(IF neg THEN -val ELSE val, INT_BITS)

-----------------------------------------------------------------------------
(* Memory and strings.  m is a function on 0..MEM-1.                       *)
Aligned(dst, src, len, long) == dst % long = 0 /\ src % long = 0 /\ len % long = 0

\* Unit i of u bytes is copied; the units are taken in the order given.
CopyUnit(m, dst, src, u, i) ==
    [a \in DOMAIN m |-> IF a \in dst + u * i..dst + u * i + u - 1 THEN m[src + (a - dst)] ELSE m[a]]
Units(len, u) == [i \in 1..len \div u |-> i - 1]
Copied(m, dst, src, u, units) == LET C(x, i) == CopyUnit(x, dst, src, u, i) IN FoldLeft(C, m, units)
Unit(dst, src, len, long) == IF Aligned(dst, src, len, long) THEN long ELSE 1

memcpy(m, dst, src, len, long) == LET u == Unit(dst, src, len, long) IN Copied(m, dst, src, u, Units(len, u))
\* MUTANT: front to back, wherever the destination is.
memmove_forward(m, dst, src, len, long) == memcpy(m, dst, src, len, long)
memmove(m, dst, src, len, long) ==
    IF dst < src THEN memcpy(m, dst, src, len, long)
    ELSE LET u == Unit(dst, src, len, long) IN Copied(m, dst, src, u, Reverse(Units(len, u)))

\* One call of strtok_r, from context (a position, 0 for null): [word, context].
\* The separator is the space; the NUL it writes is after the word.
strtok_r(s, context) ==
    LET head == CHOOSE i \in context..Len(s) + 1 : (i > Len(s) \/ s[i] # " ") /\ \A j \in context..i - 1 : s[j] = " "
        tail == CHOOSE i \in head..Len(s) + 1 : (i > Len(s) \/ s[i] = " ") /\ \A j \in head..i - 1 : s[j] # " "
    IN IF context = 0 \/ head > Len(s) THEN [word |-> <<>>, context |-> 0]
       ELSE [word |-> <<head, tail - 1>>, context |-> IF tail > Len(s) THEN 0 ELSE tail + 1]
RECURSIVE Tokens(_, _)
Tokens(s, context) == LET r == strtok_r(s, context) IN IF r.word = <<>> THEN <<>> ELSE <<r.word>> \o Tokens(s, r.context)

-----------------------------------------------------------------------------
(* Byte order.  n bytes of BYTE bits; byte 0 is the lowest.                *)
ByteAt(x, i) == (x \div 2 ^ (BYTE * i)) % 2 ^ BYTE
\* Byte i, shifted by k bytes to the left in n bytes (to the right if k < 0).
Moved(x, i, k, n) == IF i + k < n THEN ByteAt(x, i) * 2 ^ (BYTE * (i + k)) ELSE 0
bswap16(x) == Moved(x, 0, 1, 2) | Moved(x, 1, -1, 2)
bswap32(x) == Moved(x, 0, 3, 4) | Moved(x, 1, 1, 4) | Moved(x, 2, -1, 4) | Moved(x, 3, -3, 4)
bswap64(x) ==
    Moved(x, 0, 7, 8) | Moved(x, 1, 5, 8) | Moved(x, 2, 3, 8) | Moved(x, 3, 1, 8)
    | Moved(x, 4, 1, 8) | Moved(x, 5, 3, 8) | Moved(x, 6, -5, 8) | Moved(x, 7, -7, 8)
\* The machine is big-endian.
join32to64(x1, x2) == x1 * 2 ^ (4 * BYTE) + x2
split64to32(x) == <<x \div 2 ^ (4 * BYTE), x % 2 ^ (4 * BYTE)>>

-----------------------------------------------------------------------------
(* The long long arithmetic that the compiler calls on the 32-bit MIPS     *)
(* (common/gcc-millicode): an int has two digits of HALF_BITS bits and a   *)
(* long long four.  A long long is kept as its bits, an unsigned number.   *)
HALF_BITS == INT_BITS \div 2
B == 2 ^ HALF_BITS
INT == B * B
LL == INT * INT

HHALF(x) == x \div B
LHALF(x) == x % B
LHUP(x) == (x * B) % INT
COMBINE(x, y) == ((x * B) % INT) + y
H(x) == x \div INT
L(x) == x % INT
Bool(x) == IF x THEN 1 ELSE 0
Join(h, l) == ((h % INT) * INT) + (l % INT)
Negative(x) == x >= LL \div 2

-----------------------------------------------------------------------------
(* Sums, comparisons, shifts.                                              *)
adddi3(x, y) == LET l == (L(x) + L(y)) % INT IN Join(H(x) + H(y) + Bool(l < L(y)), l)
\* MUTANT: the borrow compares with the wrong operand.
subdi3_other(x, y) == LET l == (L(x) - L(y)) % INT IN Join(H(x) - H(y) - Bool(l > L(y)), l)
subdi3(x, y) == LET l == (L(x) - L(y)) % INT IN Join(H(x) - H(y) - Bool(l > L(x)), l)
negdi2(x) == LET l == (-L(x)) % INT IN Join(-H(x) - Bool(l > 0), l)

SignedInt(x) == IF x >= INT \div 2 THEN x - INT ELSE x
Cmp(x, y) == IF x < y THEN 0 ELSE IF x > y THEN 2 ELSE 1
cmpdi2(x, y) == LET c == Cmp(SignedInt(H(x)), SignedInt(H(y))) IN IF c # 1 THEN c ELSE Cmp(L(x), L(y))
ucmpdi2(x, y) == LET c == Cmp(H(x), H(y)) IN IF c # 1 THEN c ELSE Cmp(L(x), L(y))

\* The shift of an int to the left keeps the low bits; to the right, the sign
\* comes in when the int is signed.
Shl(x, n) == (x * 2 ^ n) % INT
Shr(x, n) == x \div 2 ^ n
ashldi3(x, n) ==
    IF n = 0 THEN x
    ELSE IF n >= INT_BITS THEN Join(Shl(L(x), n - INT_BITS), 0)
    ELSE Join(Shl(H(x), n) + Shr(L(x), INT_BITS - n), Shl(L(x), n))
lshldi3(x, n) == ashldi3(x, n)
lshrdi3(x, n) ==
    IF n = 0 THEN x
    ELSE IF n >= INT_BITS THEN Join(0, Shr(H(x), n - INT_BITS))
    ELSE Join(Shr(H(x), n), Shr(L(x), n) + Shl(H(x), INT_BITS - n))
ashrdi3(x, n) ==
    LET s == SignedInt(H(x))
    IN IF n = 0 THEN x
       ELSE IF n >= INT_BITS THEN Join(Shr(Shr(s, INT_BITS - 1), 1), Shr(s, n - INT_BITS))
       ELSE Join(Shr(s, n), Shr(L(x), n) + Shl(H(x), INT_BITS - n))

anddi3(x, y) == Join(H(x) & H(y), L(x) & L(y))
iordi3(x, y) == Join(H(x) | H(y), L(x) | L(y))
xordi3(x, y) == Join(H(x) ^^ H(y), L(x) ^^ L(y))
one_cmpldi2(x) == Join(INT - 1 - H(x), INT - 1 - L(x))

-----------------------------------------------------------------------------
(* Products.                                                               *)
\* The differences of the halves, and whether their product is negative.
Diffs(u1, u0, v1, v0) ==
    [mid |-> ((IF u1 >= u0 THEN u1 - u0 ELSE u0 - u1) * (IF v0 >= v1 THEN v0 - v1 ELSE v1 - v0)) % INT,
     neg |-> (u1 >= u0) # (v0 >= v1)]

lmulq(u, v) ==
    LET u1 == HHALF(u)
        u0 == LHALF(u)
        v1 == HHALF(v)
        v0 == LHALF(v)
        low == u0 * v0
        high == u1 * v1
        d == Diffs(u1, u0, v1, v0)
        l0 == LHUP(high)
        l1 == (IF d.neg THEN l0 - LHUP(d.mid) ELSE l0 + LHUP(d.mid)) % INT
        h1 == high + HHALF(high) + (IF d.neg THEN -(HHALF(d.mid) + Bool(l1 > l0)) ELSE HHALF(d.mid) + Bool(l1 < l0))
        l2 == (l1 + LHUP(low)) % INT
        l3 == (l2 + low) % INT
    IN IF u1 = 0 /\ v1 = 0 THEN low
       ELSE Join(h1 + HHALF(low) + Bool(l2 < l1) + Bool(l3 < low), l3)

muldi3(x, y) ==
    LET u == IF Negative(x) THEN negdi2(x) ELSE x
        v == IF Negative(y) THEN negdi2(y) ELSE y
        low == lmulq(L(u), L(v))
        d == Diffs(H(u), L(u), H(v), L(v))
        prod == IF H(u) = 0 /\ H(v) = 0 THEN low
                ELSE Join(H(u) * H(v) + (IF d.neg THEN -d.mid ELSE d.mid) + L(low) + H(low), L(low))
    IN IF Negative(x) # Negative(y) THEN negdi2(prod) ELSE prod

-----------------------------------------------------------------------------
(* Quotients: Knuth's algorithm D.  Digits are numbered from 0, as in C.   *)
Digits(x) == [i \in 0..4 |-> IF i = 0 THEN 0 ELSE (x \div B ^ (4 - i)) % B]
Value(d) == Join(COMBINE(d[1], d[2]), COMBINE(d[3], d[4]))

\* p[from..from+len] is shifted to the left.
shl(p, from, len, sh) ==
    [i \in DOMAIN p |-> IF i \in from..from + len
                        THEN LHALF(p[i] * 2 ^ sh) + (IF i < from + len THEN p[i + 1] \div 2 ^ (HALF_BITS - sh) ELSE 0)
                        ELSE p[i]]

\* One digit of divisor: [q, r].
Short(u, t) ==
    LET r1 == COMBINE(u[1] % t, u[2])
        r2 == COMBINE(r1 % t, u[3])
        r3 == COMBINE(r2 % t, u[4])
    IN [q |-> Join(COMBINE(u[1] \div t, LHALF(r1 \div t)), COMBINE(LHALF(r2 \div t), LHALF(r3 \div t))), r |-> r3 % t]

\* D3, from the label qhat_too_big, and from the test of the loop.
RECURSIVE TooBig(_, _, _, _, _), Guess(_, _, _, _, _)
TooBig(qhat, rhat, v1, v2, uj2) == IF rhat + v1 >= B THEN qhat - 1 ELSE Guess(qhat - 1, rhat + v1, v1, v2, uj2)
Guess(qhat, rhat, v1, v2, uj2) ==
    IF (v2 * qhat) % INT > COMBINE(rhat, uj2) THEN TooBig(qhat, rhat, v1, v2, uj2) ELSE qhat
D3(uj0, uj1, uj2, v1, v2) ==
    IF uj0 = v1 THEN TooBig(B, uj1, v1, v2, uj2)
    ELSE LET nn == COMBINE(uj0, uj1) IN Guess(nn \div v1, nn % v1, v1, v2, uj2)

\* D4: u[j+i..] minus v[i..] times qhat, with the borrow t; ov is where v begins.
RECURSIVE D4(_, _, _, _, _, _, _)
D4(u, j, v, ov, i, qhat, t) ==
    IF i = 0 THEN LET s == (u[j] - t) % INT IN [u |-> [u EXCEPT ![j] = LHALF(s)], borrow |-> HHALF(s) # 0]
    ELSE LET s == (u[i + j] - v[ov + i] * qhat - t) % INT
         IN D4([u EXCEPT ![i + j] = LHALF(s)], j, v, ov, i - 1, qhat, (B - HHALF(s)) % B)

\* D6: v is added back.
\* MUTANT: the carry out of the lowest digit is lost.
RECURSIVE D6_carry(_, _, _, _, _, _)
D6_carry(u, j, v, ov, i, t) ==
    IF i = 0 THEN [u EXCEPT ![j] = LHALF(@ + t)]
    ELSE LET s == u[i + j] + v[ov + i] IN D6_carry([u EXCEPT ![i + j] = LHALF(s)], j, v, ov, i - 1, HHALF(s))
RECURSIVE D6(_, _, _, _, _, _)
D6(u, j, v, ov, i, t) ==
    IF i = 0 THEN [u EXCEPT ![j] = LHALF(@ + t)]
    ELSE LET s == t + u[i + j] + v[ov + i] IN D6([u EXCEPT ![i + j] = LHALF(s)], j, v, ov, i - 1, HHALF(s))

\* The loop on j; ou and ov are where u and v begin, oq where q does.
RECURSIVE Loop(_, _, _, _, _, _, _, _)
Loop(u, ou, v, ov, q, m, n, j) ==
    IF j > m THEN [u |-> u, q |-> q]
    ELSE LET k == ou + j
             qhat == D3(u[k], u[k + 1], u[k + 2], v[ov + 1], v[ov + 2])
             r == D4(u, k, v, ov, n, qhat, 0)
         IN Loop(IF r.borrow THEN D6(r.u, k, v, ov, n, 0) ELSE r.u, ou, v, ov,
                 [q EXCEPT ![4 - m + j] = LHALF(IF r.borrow THEN qhat - 1 ELSE qhat)], m, n, j + 1)

Leading(d) == CHOOSE k \in 0..3 : d[k + 1] # 0 /\ \A i \in 1..k : d[i] = 0
Shifts(t) == CHOOSE d \in 0..HALF_BITS : t * 2 ^ d >= B \div 2 /\ \A e \in 0..d - 1 : t * 2 ^ e < B \div 2

qdivrem(ull, vll) ==
    IF ull < vll THEN [q |-> 0, r |-> ull]
    ELSE LET u == Digits(ull)
             v == Digits(vll)
             ov == Leading(v)
             n == 4 - ov
             ou == Leading(u)
             m == 4 - n - ou
             d == Shifts(v[ov + 1])
             x == Loop(shl(u, ou, m + n, d), ou, shl(v, ov + 1, n - 1, d), ov, [i \in 0..4 |-> 0], m, n, 0)
             rem == [i \in 0..4 |->
                        IF i \in ou + m + 1..ou + m + n THEN x.u[i] \div 2 ^ d + LHALF(x.u[i - 1] * 2 ^ (HALF_BITS - d))
                        ELSE IF i = ou + m THEN 0 ELSE x.u[i]]
         IN IF n = 1 THEN Short(u, v[4])
            ELSE [q |-> Value(x.q), r |-> Value(IF d = 0 THEN x.u ELSE rem)]

Abs(x) == IF Negative(x) THEN negdi2(x) ELSE x
divdi3(x, y) == LET q == qdivrem(Abs(x), Abs(y)).q IN IF Negative(x) # Negative(y) THEN negdi2(q) ELSE q
moddi3(x, y) == LET r == qdivrem(Abs(x), Abs(y)).r IN IF Negative(x) THEN negdi2(r) ELSE r
udivdi3(x, y) == qdivrem(x, y).q
umoddi3(x, y) == qdivrem(x, y).r

\* The operations on x and y; division by zero traps.
Arithmetic(x, y) ==
    [add |-> adddi3(x, y), sub |-> subdi3(x, y), neg |-> negdi2(x), cmp |-> cmpdi2(x, y), ucmp |-> ucmpdi2(x, y),
     shl |-> ashldi3(x, y % LL_BITS), lshl |-> lshldi3(x, y % LL_BITS), shr |-> lshrdi3(x, y % LL_BITS), sar |-> ashrdi3(x, y % LL_BITS),
     and |-> anddi3(x, y), ior |-> iordi3(x, y), xor |-> xordi3(x, y), not |-> one_cmpldi2(x), mul |-> muldi3(x, y),
     quot |-> IF y = 0 THEN 0 ELSE divdi3(x, y), rem |-> IF y = 0 THEN 0 ELSE moddi3(x, y),
     uquot |-> IF y = 0 THEN 0 ELSE udivdi3(x, y), urem |-> IF y = 0 THEN 0 ELSE umoddi3(x, y)]

-----------------------------------------------------------------------------
(* Functions: the inputs and the calls.                                    *)
Types == {"d", "o", "u", "x", "p", "s", "c", "k"}
Mods == UNION {[1..n -> {"-", "0", "2", "#", "l"}] : n \in 0..MaxMods}
NoCall == [f |-> "none"]

Calls ==
    [f : {"printf"}, mods : Mods, type : Types, arg : Args, len : {0, 1, 3, 12}]
    \cup {c \in [f : {"memmove"}, dst : 0..MEM, src : 0..MEM, len : 0..MEM] : c.dst + c.len <= MEM /\ c.src + c.len <= MEM}
    \cup [f : {"strtok"}, s : UNION {[1..n -> {"a", " "}] : n \in 0..MaxStr}]
    \cup [f : {"bswap"}, x : 0..2 ^ (8 * BYTE) - 1]
    \cup [f : {"longlong"}, x : 0..LL - 1, y : Seconds]

\* A character, the field, and a number that shows what is left of the field.
Format(c) == <<"a", "%">> \o c.mods \o <<c.type, "%", "d">>
Memory == [a \in 0..MEM - 1 |-> a]

Call ==
    /\ part = "call" /\ res = <<>> /\ UNCHANGED <<part, call, arr, want, bm, used, kg>>
    /\ res' = CASE call.f = "printf" -> <<snprintf(call.len, Format(call), call.arg), vprintf(Format(call), call.arg)>>
                [] call.f = "memmove" -> <<memmove(Memory, call.dst, call.src, call.len, LONG)>>
                [] call.f = "strtok" -> <<Tokens(call.s, 1)>>
                [] call.f = "longlong" -> <<Arithmetic(call.x, call.y)>>
                [] OTHER -> <<bswap16(call.x), bswap32(call.x), bswap64(call.x), split64to32(call.x),
                              join32to64(split64to32(call.x)[1], split64to32(call.x)[2])>>

-----------------------------------------------------------------------------
(* Arrays: v is a function on 0..max-1; 0 is what was never set.           *)
array_init == [v |-> <<>>, num |-> 0, max |-> 0]
Unset == 0

RECURSIVE NewMax(_, _)
NewMax(max, num) == IF num > max THEN NewMax(IF max > 0 THEN max * 2 ELSE 4, num) ELSE max

\* The array that array_setsize leaves, and the one it leaves without memory.
array_setsize(a, num) ==
    IF num <= a.max THEN [a EXCEPT !.num = num]
    ELSE LET newmax == NewMax(a.max, num)
         IN [v |-> [i \in 0..newmax - 1 |-> IF i < a.num THEN a.v[i] ELSE Unset], num |-> num, max |-> newmax]

\* The new elements are not initialized.
Resized(s, num) == [i \in 1..num |-> IF i <= Len(s) THEN s[i] ELSE Unset]

array_set(i, x) == arr' = [arr EXCEPT !.v[i] = x] /\ want' = [want EXCEPT ![i + 1] = x]
array_add(x) ==
    /\ arr.num < MaxNum
    /\ \/ /\ arr' = [array_setsize(arr, arr.num + 1) EXCEPT !.v[arr.num] = x]
          /\ want' = Append(want, x)
       \/ arr.num = arr.max /\ UNCHANGED <<arr, want>>
setsize(n) ==
    \/ arr' = array_setsize(arr, n) /\ want' = Resized(want, n)
    \/ n > arr.max /\ UNCHANGED <<arr, want>>
\* v[i+1..] is moved down, by words.
array_remove(i) ==
    /\ arr' = [arr EXCEPT !.v = memmove(@, i, i + 1, arr.num - (i + 1), 1), !.num = @ - 1]
    /\ want' = RemoveAt(want, i + 1)
array_destroy == arr.num = 0 /\ arr' = array_init /\ UNCHANGED want

ArrayStep ==
    /\ part = "array" /\ UNCHANGED <<part, call, res, bm, used, kg>>
    /\ \/ \E x \in {1, 2} : array_add(x) \/ \E i \in 0..arr.num - 1 : array_set(i, x)
       \/ \E n \in 0..MaxNum : setsize(n)
       \/ \E i \in 0..arr.num - 1 : array_remove(i)
       \/ array_destroy

-----------------------------------------------------------------------------
(* Bitmaps: a word is the set of its bits.                                 *)
Words(nbits) == (nbits + BITS_PER_WORD - 1) \div BITS_PER_WORD
\* MUTANT: the bits after the last are left clear.
bitmap_create_clear(nbits) == [nbits |-> nbits, v |-> [ix \in 0..Words(nbits) - 1 |-> {}]]
bitmap_create(nbits) ==
    [nbits |-> nbits,
     v |-> [ix \in 0..Words(nbits) - 1 |->
              IF Words(nbits) > nbits \div BITS_PER_WORD /\ ix = Words(nbits) - 1
              THEN nbits - ix * BITS_PER_WORD..BITS_PER_WORD - 1 ELSE {}]]

bitmap_isset(b, index) == (index % BITS_PER_WORD) \in b.v[index \div BITS_PER_WORD]
Marked(b, index) == [b EXCEPT !.v[index \div BITS_PER_WORD] = @ \cup {index % BITS_PER_WORD}]

\* The lowest clear bit; -1 stands for ENOSPC.
bitmap_alloc ==
    LET free == {ix \in DOMAIN bm.v : bm.v[ix] # 0..BITS_PER_WORD - 1}
        ix == CHOOSE i \in free : \A j \in free : i <= j
        offset == CHOOSE o \in (0..BITS_PER_WORD - 1) \ bm.v[ix] : \A p \in 0..o - 1 : p \in bm.v[ix]
        index == ix * BITS_PER_WORD + offset
    IN IF free = {} THEN res' = <<-1, used>> /\ UNCHANGED <<bm, used>>
       ELSE res' = <<index, used>> /\ bm' = Marked(bm, index) /\ used' = used \cup {index}
bitmap_mark(i) == ~bitmap_isset(bm, i) /\ bm' = Marked(bm, i) /\ used' = used \cup {i} /\ res' = <<>>
bitmap_unmark(i) ==
    /\ bitmap_isset(bm, i) /\ res' = <<>> /\ used' = used \ {i}
    /\ bm' = [bm EXCEPT !.v[i \div BITS_PER_WORD] = @ \ {i % BITS_PER_WORD}]

BitmapStep ==
    /\ part = "bitmap" /\ UNCHANGED <<part, call, arr, want, kg>>
    /\ bitmap_alloc \/ \E i \in 0..bm.nbits - 1 : bitmap_mark(i) \/ bitmap_unmark(i)

-----------------------------------------------------------------------------
(* kgets: the buffer, and the line of the screen that putch writes.        *)
Blank == [i \in 1..maxlen + 1 |-> " "]
Line == [buf |-> [i \in 0..maxlen - 1 |-> "junk"], pos |-> 0, screen |-> Blank, cursor |-> 0, keys |-> 0, done |-> FALSE]

putch(k, ch) ==
    CASE ch = "BS" -> [k EXCEPT !.cursor = @ - 1]
      [] ch = "NL" -> [k EXCEPT !.screen = Blank, !.cursor = 0]
      [] OTHER -> [k EXCEPT !.screen[k.cursor + 1] = ch, !.cursor = @ + 1]
Putchs(k, s) == FoldLeft(putch, k, s)
\* MUTANT: the character is not wiped out on the screen.
backsp_bare(k) == [Putchs(k, <<"BS">>) EXCEPT !.pos = @ - 1]
backsp(k) == [Putchs(k, <<"BS", " ", "BS">>) EXCEPT !.pos = @ - 1]
RECURSIVE EraseWhile(_, _)
EraseWhile(k, chars) == IF k.pos > 0 /\ k.buf[k.pos - 1] \in chars THEN EraseWhile(backsp(k), chars) ELSE k
Printable == {"a", "b", " "}
Keys == Printable \cup {"return", "backspace", "^C", "^R", "^U", "^W", "^X"}
Finished(k, pos) == [k EXCEPT !.buf[pos] = "NUL", !.pos = pos, !.done = TRUE]

Pressed(k, ch) ==
    CASE ch = "return" -> Finished(k, k.pos)
      [] ch \in Printable /\ k.pos < maxlen - 1 -> [putch(k, ch) EXCEPT !.buf[k.pos] = ch, !.pos = @ + 1]
      [] ch = "backspace" /\ k.pos > 0 -> backsp(k)
      [] ch = "^C" -> Finished(k, 0)
      [] ch = "^R" -> LET z == [k EXCEPT !.buf[k.pos] = "NUL"]
                      IN Putchs(putch(z, "NL"), [i \in 1..k.pos |-> k.buf[i - 1]])
      [] ch = "^U" -> EraseWhile(k, Printable)
      [] ch = "^W" -> EraseWhile(EraseWhile(k, {" "}), Printable \ {" "})
      [] OTHER -> k

kgets(ch) == ~kg.done /\ kg.keys < MaxKeys /\ kg' = [Pressed(kg, ch) EXCEPT !.keys = @ + 1]
KgetsStep == part = "kgets" /\ (\E ch \in Keys : kgets(ch)) /\ UNCHANGED <<part, call, res, arr, want, bm, used>>

-----------------------------------------------------------------------------
Init ==
    /\ res = <<>> /\ arr = array_init /\ want = <<>> /\ used = {} /\ kg = Line
    /\ \/ part = "call" /\ call \in Calls /\ bm = bitmap_create(0)
       \/ part \in {"array", "kgets"} /\ call = NoCall /\ bm = bitmap_create(0)
       \/ part = "bitmap" /\ call = NoCall /\ \E n \in 0..MaxBits : bm = bitmap_create(n)

Next == Call \/ ArrayStep \/ BitmapStep \/ KgetsStep
Spec == Init /\ [][Next]_vars

-----------------------------------------------------------------------------
Printed == call.f = "printf" /\ res # <<>>
NumberOf(c, w) == IF c.type = "d" THEN ToSigned(c.arg, w) ELSE c.arg % 2 ^ w
LongLong(c) == Len(SelectSeq(c.mods, LAMBDA m : m = "l")) > 1
TheWidth(c) == IF c.type # "p" /\ LongLong(c) THEN LL_BITS ELSE INT_BITS
WholeField(c) == LET out == vprintf(<<"%">> \o c.mods \o <<c.type>>, c.arg) IN out
Plain(c) == ~Contains(c.mods, "#") /\ (Contains(c.mods, "-") => ~Contains(c.mods, "0"))

\* snprintf stores what fits of the text and a terminator, within the buffer,
\* and returns the length of the whole text, for every length of the buffer; no
\* number overflows the digits' buffer of __pf_printnum; a decimal int printed in
\* any field, the most negative one included, is read back by atoi; and no option
\* of a field is left for the next one.
PrintfRight ==
    Printed =>
        LET r == res[1]
            text == res[2]
            tail == Converted(LET n == ToSigned(call.arg, INT_BITS) IN IF n < 0 THEN -n ELSE n, 10)
        IN /\ Len(r.buf) <= call.len /\ r.chars = Len(text)
           /\ call.len > 0 => /\ Last(r.buf) = "NUL"
                              /\ IsPrefix(Front(r.buf), text)
                              /\ r.chars < call.len => Front(r.buf) = text
           /\ call.type \in {"d", "o", "u", "x", "p"}
                 => \A b \in {8, 10, 16} :
                       Len(Converted(LET n == NumberOf(call, TheWidth(call)) IN IF n < 0 THEN -n ELSE n, b)) < NUMBER_BUF_SIZE
           /\ call.type = "d" /\ TheWidth(call) = INT_BITS /\ Plain(call)
                 => atoi(WholeField(call)) = ToSigned(call.arg, INT_BITS)
           /\ text = <<"a">> \o WholeField(call) \o (IF ToSigned(call.arg, INT_BITS) < 0 THEN <<"-">> ELSE <<>>) \o tail

Signed(x) == IF Negative(x) THEN x - LL ELSE x
Magnitude(x) == IF x < 0 THEN -x ELSE x
Truncated(x, y) == LET q == Magnitude(x) \div Magnitude(y) IN IF (x < 0) # (y < 0) THEN -q ELSE q

\* Put together from ints and half ints, the sums, products, quotients,
\* remainders, shifts and comparisons of two long longs are those of the
\* integers, modulo the width; the signed quotient rounds towards zero.
MillicodeRight ==
    call.f = "longlong" /\ res # <<>> =>
        LET a == call.x
            b == call.y
            r == res[1]
            x == Signed(a)
            y == Signed(b)
        IN /\ r.add = (a + b) % LL /\ r.sub = (a - b) % LL /\ r.neg = (-a) % LL /\ r.mul = (a * b) % LL
           /\ r.cmp = Cmp(x, y) /\ r.ucmp = Cmp(a, b)
           /\ LET n == b % LL_BITS
              IN r.shl = (a * 2 ^ n) % LL /\ r.lshl = r.shl /\ r.shr = a \div 2 ^ n /\ r.sar = (x \div 2 ^ n) % LL
           /\ r.and = a & b /\ r.ior = a | b /\ r.xor = a ^^ b /\ r.not = LL - 1 - a
           /\ b # 0 => /\ r.uquot = a \div b /\ r.urem = a % b
                       /\ r.quot = Truncated(x, y) % LL /\ r.rem = (x - y * Truncated(x, y)) % LL

\* memmove copies overlapping regions as if through a buffer, in either direction
\* and by words or bytes; strtok_r returns the words of a string, each once and
\* in order; bswap16 and bswap32 reverse the bytes, and split64to32 undoes
\* join32to64.
StringsRight ==
    res # <<>> =>
        /\ call.f = "memmove" => \A a \in 0..MEM - 1 :
              res[1][a] = IF a \in call.dst..call.dst + call.len - 1 THEN call.src + (a - call.dst) ELSE a
        /\ call.f = "strtok" =>
              LET s == call.s
                  Word(w) == /\ \A i \in w[1]..w[2] : s[i] # " "
                             /\ (w[1] = 1 \/ s[w[1] - 1] = " ") /\ (w[2] = Len(s) \/ s[w[2] + 1] = " ")
              IN /\ ToSet(res[1]) = {w \in (1..Len(s)) \X (1..Len(s)) : w[1] <= w[2] /\ Word(w)}
                 /\ \A i \in 1..Len(res[1]) - 1 : res[1][i][2] < res[1][i + 1][1]
        /\ call.f = "bswap" =>
              /\ \A i \in 0..1 : ByteAt(res[1], i) = ByteAt(call.x, 1 - i)
              /\ \A i \in 0..3 : ByteAt(res[2], i) = ByteAt(call.x, 3 - i)
              /\ res[5] = call.x

\* Through additions, removals, changes of the size and failures to get memory, an
\* array holds what was stored, in order; nothing is lost when it grows.
ArrayHolds ==
    /\ arr.num = Len(want) /\ arr.num <= arr.max
    /\ \A i \in 1..arr.num : want[i] # Unset => arr.v[i - 1] = want[i]

\* A bitmap's bits are those that were marked and not unmarked; bitmap_alloc
\* returns one that was not in use, below nbits, and fails only if none is left.
BitmapExact ==
    part = "bitmap" =>
        /\ used = {i \in 0..bm.nbits - 1 : bitmap_isset(bm, i)}
        /\ res # <<>> => IF res[1] = -1 THEN used = 0..bm.nbits - 1
                         ELSE res[1] \notin res[2] /\ res[1] < bm.nbits

\* While kgets reads a line, the screen shows the characters of the buffer and
\* nothing after them, whatever was erased or reprinted; and what it returns ends
\* inside the buffer.
EchoIsLine ==
    /\ kg.pos <= maxlen - 1
    /\ IF kg.done THEN kg.buf[kg.pos] = "NUL"
       ELSE /\ kg.cursor = kg.pos
            /\ \A i \in 1..maxlen + 1 : kg.screen[i] = IF i <= kg.pos THEN kg.buf[i - 1] ELSE " "

LibRight == PrintfRight /\ MillicodeRight /\ StringsRight /\ ArrayHolds /\ BitmapExact /\ EchoIsLine

\* Not so: bswap64 moves the fifth and sixth byte to the left (bswap.c:69), where
\* the comment says that bswap16, 32 and 64 swap the byte order.
Swaps64 == call.f = "bswap" /\ res # <<>> => \A i \in 0..7 : ByteAt(res[3], i) = ByteAt(call.x, 7 - i)
=============================================================================
