---------------------------- MODULE CpuProofs ----------------------------
(***************************************************************************)
(* What a CPU does below the level of threads, for any number of CPUs,     *)
(* threads and spinlocks: interrupts are off exactly while the current     *)
(* thread has a reason for it (Spl), and a CPU that idles with a runnable  *)
(* thread is about to be woken (Ipi).                                      *)
(***************************************************************************)
EXTENDS Spl, SeqLemmas, FiniteSetTheorems, WellFoundedInduction

-----------------------------------------------------------------------------
(* Interrupt state and spinlocks.                                          *)

\* The locks among the frames of a stack.
Lk(s) == {i \in 1..Len(s) : s[i].k = "lock"}

\* The frame whose undoing takes a thread back to IPL_NONE.
ToNone(f) == f = SplFrame(IPL_NONE) \/ (f.k = "irq" /\ f.doadjust)

\* How frames may lie on each other: nothing is locked below an interrupt or
\* below the run queue lock of thread_switch, and only the lowest frame that is
\* not a lock goes back to IPL_NONE.
Ordered(s) ==
    /\ \A i, j \in 1..Len(s) : i < j /\ (s[j].k = "irq" \/ s[j] = LockFrame("runqueue")) => s[i].k # "lock"
    /\ \A i, j \in 1..Len(s) : i < j /\ s[i].k # "lock" => ~ToNone(s[j])
    /\ \A i \in 1..Len(s) : s[i].k = "irq" => (s[i].was <=> s[i].doadjust)

\* A thread's stack against its spl and its count.
ThreadOK(s, spl, n) ==
    /\ s \in Seq(Frames)
    /\ spl \in {IPL_NONE, IPL_HIGH}
    /\ n = Cardinality(Lk(s)) + spl
    /\ Ordered(s)
    /\ (\E i \in 1..Len(s) : s[i].k # "lock") => spl = IPL_HIGH

\* r is s without its element at i.
Up(i, j) == IF j < i THEN j ELSE j + 1
Without(r, s, i) ==
    /\ r \in Seq(Frames)
    /\ Len(r) = Len(s) - 1
    /\ \A j \in 1..Len(s)-1 : r[j] = s[Up(i, j)]

\* The three kinds of frame.
LEMMA FrameKinds ==
    ASSUME NEW f \in Frames
    PROVE  \/ f.k = "lock" /\ f.l \in Locks \cup CPUs \cup {"runqueue"} /\ f = LockFrame(f.l) /\ ~ToNone(f)
           \/ f.k = "spl" /\ f.old \in {IPL_NONE, IPL_HIGH} /\ f = SplFrame(f.old) /\ (ToNone(f) <=> f.old = IPL_NONE)
           \/ f.k = "irq" /\ f.doadjust \in BOOLEAN /\ f.was \in BOOLEAN /\ (ToNone(f) <=> f.doadjust)
<1>1. CASE \E l \in Locks \cup CPUs \cup {"runqueue"} : f = LockFrame(l)
  BY <1>1 DEF LockFrame, SplFrame, ToNone
<1>2. CASE \E x \in {IPL_NONE, IPL_HIGH} : f = SplFrame(x)
  BY <1>2 DEF LockFrame, SplFrame, ToNone, IPL_NONE, IPL_HIGH
<1>3. CASE \E a, w \in BOOLEAN : f = IrqFrame(a, w)
  BY <1>3 DEF IrqFrame, SplFrame, ToNone
<1>4. QED
  BY <1>1, <1>2, <1>3 DEF Frames

\* The frames themselves.
LEMMA FrameFields ==
    /\ \A l \in Locks \cup CPUs \cup {"runqueue"} :
          LockFrame(l) \in Frames /\ LockFrame(l).k = "lock" /\ LockFrame(l).l = l
    /\ \A x \in {IPL_NONE, IPL_HIGH} :
          SplFrame(x) \in Frames /\ SplFrame(x).k = "spl" /\ SplFrame(x).old = x
    /\ \A a, w \in BOOLEAN :
          /\ IrqFrame(a, w) \in Frames /\ IrqFrame(a, w).k = "irq"
          /\ IrqFrame(a, w).doadjust = a /\ IrqFrame(a, w).was = w
<1>1. ASSUME NEW l \in Locks \cup CPUs \cup {"runqueue"}
      PROVE  LockFrame(l) \in Frames /\ LockFrame(l).k = "lock" /\ LockFrame(l).l = l
  <2>1. LockFrame(l) \in Frames  BY DEF Frames
  <2>2. QED  BY <2>1 DEF LockFrame
<1>2. ASSUME NEW x \in {IPL_NONE, IPL_HIGH}
      PROVE  SplFrame(x) \in Frames /\ SplFrame(x).k = "spl" /\ SplFrame(x).old = x
  <2>1. SplFrame(x) \in Frames  BY DEF Frames
  <2>2. QED  BY <2>1 DEF SplFrame
<1>3. ASSUME NEW a \in BOOLEAN, NEW w \in BOOLEAN
      PROVE  /\ IrqFrame(a, w) \in Frames /\ IrqFrame(a, w).k = "irq"
             /\ IrqFrame(a, w).doadjust = a /\ IrqFrame(a, w).was = w
  <2>1. IrqFrame(a, w) \in Frames  BY DEF Frames
  <2>2. QED  BY <2>1 DEF IrqFrame
<1>4. QED  BY <1>1, <1>2, <1>3, Zenon

\* A stack has finitely many locks.
LEMMA LkFinite ==
    ASSUME NEW s \in Seq(Frames)
    PROVE  /\ IsFiniteSet(Lk(s)) /\ Cardinality(Lk(s)) \in Nat
           /\ Cardinality(Lk(s)) = 0 <=> \A i \in 1..Len(s) : s[i].k # "lock"
<1>1. IsFiniteSet(1..Len(s))  BY FS_Interval
<1>2. Lk(s) \in SUBSET (1..Len(s))  BY DEF Lk
<1>3. IsFiniteSet(Lk(s))  BY <1>1, <1>2, FS_Subset, Zenon
<1>4. Cardinality(Lk(s)) \in Nat  BY <1>3, FS_CardinalityType, Zenon
<1>5. Cardinality(Lk(s)) = 0 <=> Lk(s) = {}  BY <1>3, FS_EmptySet, Zenon
<1>6. QED  BY <1>3, <1>4, <1>5, Zenon DEF Lk

\* One more frame on a stack.
LEMMA Pushed ==
    ASSUME NEW s \in Seq(Frames), NEW f \in Frames, Ordered(s),
           f.k = "irq" => (f.was <=> f.doadjust),
           f.k = "irq" \/ f = LockFrame("runqueue") => \A i \in 1..Len(s) : s[i].k # "lock",
           ToNone(f) => \A i \in 1..Len(s) : s[i].k = "lock"
    PROVE  LET r == Append(s, f) IN
           /\ r \in Seq(Frames) /\ Len(r) = Len(s) + 1 /\ r[Len(s) + 1] = f
           /\ \A i \in 1..Len(s) : r[i] = s[i]
           /\ Ordered(r)
           /\ Cardinality(Lk(r)) = Cardinality(Lk(s)) + (IF f.k = "lock" THEN 1 ELSE 0)
<1> DEFINE r == Append(s, f)
<1>1. /\ r \in Seq(Frames) /\ Len(r) = Len(s) + 1 /\ r[Len(s) + 1] = f /\ Len(s) \in Nat
      /\ \A i \in 1..Len(s) : r[i] = s[i]
  OBVIOUS
<1> HIDE DEF r
<1>2. Ordered(r)
  <2>1. ASSUME NEW i \in 1..Len(r), NEW j \in 1..Len(r), i < j
        PROVE  /\ r[j].k = "irq" \/ r[j] = LockFrame("runqueue") => r[i].k # "lock"
               /\ r[i].k # "lock" => ~ToNone(r[j])
    <3>1. i \in 1..Len(s) /\ r[i] = s[i]  BY <2>1, <1>1
    <3>2. CASE j \in 1..Len(s)
      <4>1. r[j] = s[j]  BY <3>2, <1>1
      <4>2. QED  BY <4>1, <3>1, <3>2, <2>1, Zenon DEF Ordered
    <3>3. CASE j = Len(s) + 1
      <4>1. r[j] = f  BY <3>3, <1>1
      <4>2. QED  BY <4>1, <3>1, Zenon
    <3>4. QED  BY <3>2, <3>3, <1>1
  <2>2. ASSUME NEW i \in 1..Len(r), r[i].k = "irq" PROVE r[i].was <=> r[i].doadjust
    <3>1. CASE i \in 1..Len(s)
      <4>1. r[i] = s[i]  BY <3>1, <1>1
      <4>2. QED  BY <4>1, <3>1, <2>2, Zenon DEF Ordered
    <3>2. CASE i = Len(s) + 1
      <4>1. r[i] = f  BY <3>2, <1>1
      <4>2. QED  BY <4>1, <2>2, Zenon
    <3>3. QED  BY <3>1, <3>2, <1>1
  <2>3. QED  BY <2>1, <2>2, Zenon DEF Ordered
<1>3. Cardinality(Lk(r)) = Cardinality(Lk(s)) + (IF f.k = "lock" THEN 1 ELSE 0)
  <2>1. IsFiniteSet(Lk(s)) /\ Cardinality(Lk(s)) \in Nat  BY LkFinite, Zenon
  <2>2. Len(s) + 1 \notin Lk(s)  BY <1>1 DEF Lk
  <2>3. CASE f.k = "lock"
    <3>1. Lk(r) = Lk(s) \cup {Len(s) + 1}  BY <2>3, <1>1 DEF Lk
    <3>2. Cardinality(Lk(r)) = Cardinality(Lk(s)) + 1  BY <3>1, <2>1, <2>2, FS_AddElement, Zenon
    <3>3. QED  BY <3>2, <2>3
  <2>4. CASE f.k # "lock"
    <3>1. Lk(r) = Lk(s)  BY <2>4, <1>1 DEF Lk
    <3>2. QED  BY <3>1, <2>4, <2>1
  <2>5. QED  BY <2>3, <2>4
<1>4. QED  BY <1>1, <1>2, <1>3 DEF r

\* What becomes of the frames when one goes.
OneLess(r, s, i) ==
    /\ r \in Seq(Frames) /\ Len(r) = Len(s) - 1
    /\ Ordered(r)
    /\ \A j \in 1..Len(r) : Up(i, j) \in 1..Len(s) /\ Up(i, j) # i /\ r[j] = s[Up(i, j)]
    /\ \A k \in 1..Len(s) : k # i => \E j \in 1..Len(r) : Up(i, j) = k
    /\ Cardinality(Lk(r)) = Cardinality(Lk(s)) - (IF s[i].k = "lock" THEN 1 ELSE 0)

\* One frame less, taken from anywhere.
LEMMA Popped ==
    ASSUME NEW s \in Seq(Frames), NEW i \in 1..Len(s), NEW r, Without(r, s, i), Ordered(s)
    PROVE  OneLess(r, s, i)
<1>1. r \in Seq(Frames) /\ Len(s) \in Nat /\ Len(r) = Len(s) - 1  BY DEF Without
<1>2. \A j \in 1..Len(r) : Up(i, j) \in 1..Len(s) /\ Up(i, j) # i /\ r[j] = s[Up(i, j)]
  BY <1>1 DEF Without, Up
<1>3. \A j, k \in 1..Len(r) : j < k <=> Up(i, j) < Up(i, k)
  BY <1>1 DEF Up
<1>4. ASSUME NEW k \in 1..Len(s), k # i PROVE \E j \in 1..Len(r) : Up(i, j) = k
  <2>1. CASE k < i
    <3>1. k \in 1..Len(r) /\ Up(i, k) = k  BY <2>1, <1>1 DEF Up
    <3>2. QED  BY <3>1
  <2>2. CASE k > i
    <3>1. k - 1 \in 1..Len(r) /\ Up(i, k - 1) = k  BY <2>2, <1>1 DEF Up
    <3>2. QED  BY <3>1
  <2>3. QED  BY <2>1, <2>2, <1>4
<1>5. Ordered(r)
  <2>1. ASSUME NEW a \in 1..Len(r), NEW b \in 1..Len(r), a < b
        PROVE  /\ r[b].k = "irq" \/ r[b] = LockFrame("runqueue") => r[a].k # "lock"
               /\ r[a].k # "lock" => ~ToNone(r[b])
    BY <2>1, <1>2, <1>3, Zenon DEF Ordered
  <2>2. ASSUME NEW a \in 1..Len(r), r[a].k = "irq" PROVE r[a].was <=> r[a].doadjust
    BY <2>2, <1>2, Zenon DEF Ordered
  <2>3. QED  BY <2>1, <2>2, Zenon DEF Ordered
<1>6. Cardinality(Lk(r)) = Cardinality(Lk(s) \ {i}) /\ IsFiniteSet(Lk(s))
  <2> DEFINE g == [j \in Lk(r) |-> Up(i, j)]
             T == Lk(s) \ {i}
  <2>1. ASSUME NEW j \in Lk(r) PROVE Up(i, j) \in T
    BY <1>2, Zenon DEF Lk
  <2>2. ASSUME NEW j \in Lk(r), NEW k \in Lk(r), Up(i, j) = Up(i, k) PROVE j = k
    BY <2>2, <1>1 DEF Lk, Up
  <2>3. ASSUME NEW k \in T PROVE \E j \in Lk(r) : Up(i, j) = k
    <3>1. k \in 1..Len(s) /\ k # i /\ s[k].k = "lock"  BY DEF Lk
    <3>2. PICK j \in 1..Len(r) : Up(i, j) = k  BY <3>1, <1>4, Zenon
    <3>3. j \in Lk(r)  BY <3>1, <3>2, <1>2, Zenon DEF Lk
    <3>4. QED  BY <3>2, <3>3
  <2> HIDE DEF T
  <2>4. g \in [Lk(r) -> T] /\ DOMAIN g = Lk(r) /\ \A j \in Lk(r) : g[j] = Up(i, j)
    BY <2>1, Zenon
  <2> HIDE DEF g
  <2>5. IsInjective(g)  BY <2>2, <2>4, Zenon DEF IsInjective
  <2>6. \A k \in T : \E j \in Lk(r) : g[j] = k  BY <2>3, <2>4, Zenon
  <2>7. ExistsBijection(Lk(r), T)
    BY <2>4, <2>5, <2>6, Zenon DEF ExistsBijection, Bijection, Injection, Surjection
  <2>8. IsFiniteSet(Lk(r)) /\ IsFiniteSet(Lk(s))  BY <1>1, LkFinite, Zenon
  <2>9. Cardinality(T) = Cardinality(Lk(r))  BY <2>7, <2>8, FS_Bijection, Zenon
  <2>10. QED  BY <2>8, <2>9, Zenon DEF T
<1>7. Cardinality(Lk(s) \ {i}) = IF i \in Lk(s) THEN Cardinality(Lk(s)) - 1 ELSE Cardinality(Lk(s))
  BY <1>6, FS_RemoveElement, Zenon
<1>8. i \in Lk(s) <=> s[i].k = "lock"  BY DEF Lk
<1>9. Cardinality(Lk(s)) \in Nat  BY LkFinite, Zenon
<1>10. Cardinality(Lk(r)) = Cardinality(Lk(s)) - (IF s[i].k = "lock" THEN 1 ELSE 0)
  BY <1>6, <1>7, <1>8, <1>9
<1>11. QED  BY <1>1, <1>2, <1>4, <1>5, <1>10, Zenon DEF OneLess

\* RemoveAt and Front take one frame away.
LEMMA RemoveAtIs ==
    ASSUME NEW s \in Seq(Frames), NEW i \in 1..Len(s)
    PROVE  Without(RemoveAt(s, i), s, i)
<1> DEFINE r == RemoveAt(s, i)
<1>1. r = Cut(s, i)  BY DEF RemoveAt, Cut
<1>2. /\ r \in Seq(Frames) /\ Len(r) = Len(s) - 1
      /\ \A j \in 1..i-1 : r[j] = s[j]
      /\ \A j \in 1..Len(s)-i : r[i-1+j] = s[i+j]
  BY <1>1, CutIs, Zenon
<1> HIDE DEF r
<1>3. ASSUME NEW j \in 1..Len(s)-1 PROVE r[j] = s[Up(i, j)]
  <2>1. CASE j < i
    BY <2>1, <1>2 DEF Up
  <2>2. CASE j >= i
    <3>1. j - i + 1 \in 1..Len(s)-i /\ i - 1 + (j - i + 1) = j /\ i + (j - i + 1) = j + 1  BY <2>2
    <3>2. r[j] = s[j + 1]  BY <3>1, <1>2, Zenon
    <3>3. QED  BY <3>2, <2>2 DEF Up
  <2>3. QED  BY <2>1, <2>2
<1>4. QED  BY <1>2, <1>3 DEF Without, r

\* The same for the top frame, which is what returning takes off.
LEMMA FrontIs ==
    ASSUME NEW s \in Seq(Frames), s # <<>>
    PROVE  Len(s) \in 1..Len(s) /\ Without(Front(s), s, Len(s))
<1>1. Len(s) \in Nat /\ Len(s) > 0  OBVIOUS
<1>2. /\ Front(s) \in Seq(Frames) /\ Len(Front(s)) = Len(s) - 1
      /\ \A j \in 1..Len(s)-1 : Front(s)[j] = s[j]
  <2> DEFINE n == Len(s) - 1
  <2>1. 1 \in Nat \ {0} /\ n \in Nat /\ 1 <= n + 1 /\ n <= Len(s) /\ n - 1 + 1 = n  BY <1>1
  <2>2. Front(s) = SubSeq(s, 1, n)  BY DEF Front
  <2> HIDE DEF n
  <2>3. /\ Front(s) \in Seq(Frames) /\ Len(Front(s)) = n - 1 + 1
        /\ \A j \in 1..n-1+1 : Front(s)[j] = s[1-1+j]
    BY <2>1, <2>2, SubSeqIs
  <2>4. QED  BY <2>1, <2>3 DEF n
<1>3. QED  BY <1>1, <1>2 DEF Without, Up

-----------------------------------------------------------------------------
\* The six things that happen to a thread's stack, with its spl and its count.

\* A spinlock more: splraise.
LEMMA ThreadLocks ==
    ASSUME NEW s, NEW spl, NEW n, ThreadOK(s, spl, n),
           NEW l \in Locks \cup CPUs \cup {"runqueue"},
           l = "runqueue" => \A i \in 1..Len(s) : s[i].k # "lock"
    PROVE  ThreadOK(Append(s, LockFrame(l)), spl, n + 1)
<1> DEFINE f == LockFrame(l)
           r == Append(s, f)
<1>1. s \in Seq(Frames) /\ Ordered(s) /\ spl \in {IPL_NONE, IPL_HIGH} /\ n = Cardinality(Lk(s)) + spl
      /\ ((\E i \in 1..Len(s) : s[i].k # "lock") => spl = IPL_HIGH)
  BY DEF ThreadOK
<1>2. f \in Frames /\ f.k = "lock" /\ f.l = l /\ f.k # "irq"  BY FrameFields
<1>3. ~ToNone(f) /\ (f = LockFrame("runqueue") => l = "runqueue")  BY <1>2, FrameKinds, FrameFields
<1> HIDE DEF f
<1>4. /\ r \in Seq(Frames) /\ Len(r) = Len(s) + 1 /\ r[Len(s) + 1] = f
      /\ \A i \in 1..Len(s) : r[i] = s[i]
      /\ Ordered(r)
      /\ Cardinality(Lk(r)) = Cardinality(Lk(s)) + (IF f.k = "lock" THEN 1 ELSE 0)
  BY <1>1, <1>2, <1>3, Pushed
<1> HIDE DEF r
<1>5. (\E i \in 1..Len(r) : r[i].k # "lock") => spl = IPL_HIGH
  BY <1>1, <1>2, <1>4
<1>6. Cardinality(Lk(s)) \in Nat  BY <1>1, LkFinite
<1>7. n + 1 = Cardinality(Lk(r)) + spl  BY <1>1, <1>2, <1>4, <1>6 DEF IPL_NONE, IPL_HIGH
<1>8. ThreadOK(r, spl, n + 1)  BY <1>1, <1>4, <1>5, <1>7, Zenon DEF ThreadOK
<1>9. QED  BY <1>8 DEF r, f

\* splhigh.
LEMMA ThreadRaises ==
    ASSUME NEW s, NEW spl, NEW n, ThreadOK(s, spl, n)
    PROVE  ThreadOK(Append(s, SplFrame(spl)), IPL_HIGH, IF spl = IPL_NONE THEN n + 1 ELSE n)
<1> DEFINE f == SplFrame(spl)
           r == Append(s, f)
<1>1. s \in Seq(Frames) /\ Ordered(s) /\ spl \in {IPL_NONE, IPL_HIGH} /\ n = Cardinality(Lk(s)) + spl
      /\ ((\E i \in 1..Len(s) : s[i].k # "lock") => spl = IPL_HIGH)
  BY DEF ThreadOK
<1>2. f \in Frames /\ f.k = "spl" /\ f.old = spl /\ f.k # "irq" /\ f.k # "lock"  BY <1>1, FrameFields
<1>3. (ToNone(f) => spl = IPL_NONE) /\ f # LockFrame("runqueue")
  BY <1>2, FrameKinds, FrameFields
<1> HIDE DEF f
<1>4. ToNone(f) => \A i \in 1..Len(s) : s[i].k = "lock"
  BY <1>1, <1>3 DEF IPL_NONE, IPL_HIGH
<1>5. /\ r \in Seq(Frames)
      /\ Ordered(r)
      /\ Cardinality(Lk(r)) = Cardinality(Lk(s)) + (IF f.k = "lock" THEN 1 ELSE 0)
  BY <1>1, <1>2, <1>3, <1>4, Pushed
<1> HIDE DEF r
<1>6. Cardinality(Lk(s)) \in Nat  BY <1>1, LkFinite
<1>7. (IF spl = IPL_NONE THEN n + 1 ELSE n) = Cardinality(Lk(r)) + IPL_HIGH
  BY <1>1, <1>2, <1>5, <1>6 DEF IPL_NONE, IPL_HIGH
<1>8. ThreadOK(r, IPL_HIGH, IF spl = IPL_NONE THEN n + 1 ELSE n)
  BY <1>5, <1>7 DEF ThreadOK
<1>9. QED  BY <1>8 DEF r, f

\* An interrupt, which finds no spinlock held.
LEMMA ThreadInterrupted ==
    ASSUME NEW s, NEW spl, NEW n, ThreadOK(s, spl, n), \A i \in 1..Len(s) : s[i].k # "lock",
           NEW adj \in BOOLEAN, adj <=> spl = IPL_NONE
    PROVE  ThreadOK(Append(s, IrqFrame(adj, adj)), IPL_HIGH, IF adj THEN n + 1 ELSE n)
<1> DEFINE f == IrqFrame(adj, adj)
           r == Append(s, f)
<1>1. s \in Seq(Frames) /\ Ordered(s) /\ spl \in {IPL_NONE, IPL_HIGH} /\ n = Cardinality(Lk(s)) + spl
      /\ ((\E i \in 1..Len(s) : s[i].k # "lock") => spl = IPL_HIGH)
  BY DEF ThreadOK
<1>2. f \in Frames /\ f.k = "irq" /\ f.doadjust = adj /\ f.was = adj /\ f.k # "lock"  BY FrameFields
<1>3. (ToNone(f) <=> adj)
  BY <1>2, FrameKinds
<1> HIDE DEF f
<1>4. ToNone(f) => \A i \in 1..Len(s) : s[i].k = "lock"
  BY <1>1, <1>3 DEF IPL_NONE, IPL_HIGH
<1>5. /\ r \in Seq(Frames)
      /\ Ordered(r)
      /\ Cardinality(Lk(r)) = Cardinality(Lk(s)) + (IF f.k = "lock" THEN 1 ELSE 0)
  BY <1>1, <1>2, <1>4, Pushed
<1> HIDE DEF r
<1>6. Cardinality(Lk(s)) \in Nat  BY <1>1, LkFinite
<1>7. (IF adj THEN n + 1 ELSE n) = Cardinality(Lk(r)) + IPL_HIGH
  BY <1>1, <1>2, <1>5, <1>6 DEF IPL_NONE, IPL_HIGH
<1>8. ThreadOK(r, IPL_HIGH, IF adj THEN n + 1 ELSE n)
  BY <1>5, <1>7 DEF ThreadOK
<1>9. QED  BY <1>8 DEF r, f

\* A spinlock less: spllower.
LEMMA ThreadUnlocks ==
    ASSUME NEW s, NEW spl, NEW n, ThreadOK(s, spl, n),
           NEW i \in 1..Len(s), s[i].k = "lock", NEW r, Without(r, s, i)
    PROVE  ThreadOK(r, spl, n - 1) /\ n \in Nat \ {0}
<1>1. s \in Seq(Frames) /\ Ordered(s) /\ spl \in {IPL_NONE, IPL_HIGH} /\ n = Cardinality(Lk(s)) + spl
      /\ ((\E j \in 1..Len(s) : s[j].k # "lock") => spl = IPL_HIGH)
  BY DEF ThreadOK
<1>2. /\ r \in Seq(Frames) /\ Len(r) = Len(s) - 1
      /\ Ordered(r)
      /\ \A j \in 1..Len(r) : Up(i, j) \in 1..Len(s) /\ Up(i, j) # i /\ r[j] = s[Up(i, j)]
      /\ Cardinality(Lk(r)) = Cardinality(Lk(s)) - (IF s[i].k = "lock" THEN 1 ELSE 0)
  <2>1. OneLess(r, s, i)  BY <1>1, Popped, Zenon
  <2>2. QED  BY <2>1, Zenon DEF OneLess
<1>3. (\E j \in 1..Len(r) : r[j].k # "lock") => spl = IPL_HIGH
  BY <1>1, <1>2, Zenon
<1>4. Cardinality(Lk(s)) \in Nat /\ Cardinality(Lk(s)) # 0  BY <1>1, LkFinite
<1>5. n - 1 = Cardinality(Lk(r)) + spl /\ n \in Nat \ {0}  BY <1>1, <1>2, <1>4 DEF IPL_NONE, IPL_HIGH
<1>6. QED  BY <1>1, <1>2, <1>3, <1>5, Zenon DEF ThreadOK

\* splx: the last spl frame goes, and with IPL_NONE it was the only frame but
\* for locks.
LEMMA ThreadRestores ==
    ASSUME NEW s, NEW spl, NEW n, ThreadOK(s, spl, n),
           NEW i \in 1..Len(s), s[i].k = "spl", NEW r, Without(r, s, i),
           \A j \in 1..Len(s) : j > i => s[j].k = "lock"
    PROVE  /\ spl = IPL_HIGH /\ s[i].old \in {IPL_NONE, IPL_HIGH}
           /\ n \in Nat \ {0}
           /\ ThreadOK(r, s[i].old, IF s[i].old = IPL_NONE THEN n - 1 ELSE n)
<1>1. s \in Seq(Frames) /\ Ordered(s) /\ spl \in {IPL_NONE, IPL_HIGH} /\ n = Cardinality(Lk(s)) + spl
      /\ ((\E j \in 1..Len(s) : s[j].k # "lock") => spl = IPL_HIGH)
  BY DEF ThreadOK
<1>2. /\ r \in Seq(Frames) /\ Len(r) = Len(s) - 1
      /\ Ordered(r)
      /\ \A j \in 1..Len(r) : Up(i, j) \in 1..Len(s) /\ Up(i, j) # i /\ r[j] = s[Up(i, j)]
      /\ Cardinality(Lk(r)) = Cardinality(Lk(s)) - (IF s[i].k = "lock" THEN 1 ELSE 0)
  <2>1. OneLess(r, s, i)  BY <1>1, Popped, Zenon
  <2>2. QED  BY <2>1, Zenon DEF OneLess
<1>3. spl = IPL_HIGH  BY <1>1
<1>4. s[i] \in Frames /\ s[i].k # "lock" /\ s[i].k # "irq"  BY <1>1
<1>5. s[i].old \in {IPL_NONE, IPL_HIGH} /\ (ToNone(s[i]) <=> s[i].old = IPL_NONE)  BY <1>4, FrameKinds
<1>6. Cardinality(Lk(s)) \in Nat  BY <1>1, LkFinite
<1>7. ASSUME s[i].old = IPL_NONE, NEW j \in 1..Len(r) PROVE r[j].k = "lock"
  <2> DEFINE k == Up(i, j)
  <2>1. k \in 1..Len(s) /\ k # i /\ r[j] = s[k]  BY <1>2
  <2> HIDE DEF k
  <2>2. CASE k > i  BY <2>1, <2>2
  <2>3. CASE k < i
    <3>1. s[k].k = "lock" \/ ~ToNone(s[i])  BY <1>1, <2>1, <2>3 DEF Ordered
    <3>2. QED  BY <3>1, <2>1, <1>5, <1>7
  <2>4. QED  BY <2>1, <2>2, <2>3
<1>8. (IF s[i].old = IPL_NONE THEN n - 1 ELSE n) = Cardinality(Lk(r)) + s[i].old /\ n \in Nat \ {0}
  <2>1. Cardinality(Lk(r)) = Cardinality(Lk(s))  BY <1>2, <1>4, <1>6
  <2>2. n = Cardinality(Lk(s)) + 1  BY <1>1, <1>3 DEF IPL_HIGH
  <2>3. CASE s[i].old = IPL_NONE  BY <2>1, <2>2, <2>3, <1>6 DEF IPL_NONE
  <2>4. CASE s[i].old = IPL_HIGH  BY <2>1, <2>2, <2>4, <1>6 DEF IPL_NONE, IPL_HIGH
  <2>5. QED  BY <2>3, <2>4, <1>5
<1>9. (\E j \in 1..Len(r) : r[j].k # "lock") => s[i].old = IPL_HIGH
  BY <1>5, <1>7
<1>10. ThreadOK(r, s[i].old, IF s[i].old = IPL_NONE THEN n - 1 ELSE n)
  BY <1>2, <1>5, <1>8, <1>9 DEF ThreadOK
<1>11. QED  BY <1>3, <1>5, <1>8, <1>10

\* The return from an interrupt: the handler has left the spl high and its own
\* count, if any, alone.
LEMMA ThreadReturns ==
    ASSUME NEW s, NEW spl, NEW n, ThreadOK(s, spl, n),
           s # <<>>, s[Len(s)].k = "irq", NEW r, Without(r, s, Len(s))
    PROVE  /\ spl = IPL_HIGH /\ n = 1
           /\ s[Len(s)].doadjust \in BOOLEAN /\ s[Len(s)].was \in BOOLEAN
           /\ s[Len(s)].was <=> s[Len(s)].doadjust
           /\ \A j \in 1..Len(s) : s[j].k # "lock"
           /\ \A j \in 1..Len(r) : r[j].k # "lock"
           /\ ThreadOK(r, IF s[Len(s)].doadjust THEN IPL_NONE ELSE IPL_HIGH,
                          IF s[Len(s)].doadjust THEN 0 ELSE 1)
<1> DEFINE i == Len(s)
<1>1. s \in Seq(Frames) /\ Ordered(s) /\ spl \in {IPL_NONE, IPL_HIGH} /\ n = Cardinality(Lk(s)) + spl
      /\ ((\E j \in 1..Len(s) : s[j].k # "lock") => spl = IPL_HIGH)
  BY DEF ThreadOK
<1>2. i \in 1..Len(s) /\ s[i].k = "irq" /\ s[i].k # "lock" /\ s[i] \in Frames /\ Without(r, s, i)  BY <1>1
<1>3. \A j \in 1..Len(s) : j # i => j < i  BY <1>1
<1> HIDE DEF i
<1>4. /\ r \in Seq(Frames) /\ Len(r) = Len(s) - 1
      /\ Ordered(r)
      /\ \A j \in 1..Len(r) : Up(i, j) \in 1..Len(s) /\ Up(i, j) # i /\ r[j] = s[Up(i, j)]
      /\ Cardinality(Lk(r)) = Cardinality(Lk(s)) - (IF s[i].k = "lock" THEN 1 ELSE 0)
  <2>1. OneLess(r, s, i)  BY <1>1, <1>2, Popped, Zenon
  <2>2. QED  BY <2>1, Zenon DEF OneLess
<1>5. spl = IPL_HIGH  BY <1>1, <1>2
<1>6. /\ s[i].doadjust \in BOOLEAN /\ s[i].was \in BOOLEAN /\ (ToNone(s[i]) <=> s[i].doadjust)
      /\ s[i].was <=> s[i].doadjust
  BY <1>1, <1>2, FrameKinds DEF Ordered
<1>7. \A j \in 1..Len(s) : s[j].k # "lock"  BY <1>1, <1>2, <1>3 DEF Ordered
<1>8. Cardinality(Lk(s)) = 0 /\ n = 1  BY <1>1, <1>5, <1>7, LkFinite DEF IPL_HIGH
<1>9. \A j \in 1..Len(r) : r[j].k # "lock"  BY <1>4, <1>7, Zenon
<1>10. ASSUME s[i].doadjust, NEW j \in 1..Len(r) PROVE r[j].k = "lock"
  <2>1. Up(i, j) \in 1..Len(s) /\ Up(i, j) < i /\ r[j] = s[Up(i, j)]  BY <1>3, <1>4, Zenon
  <2>2. QED  BY <2>1, <1>1, <1>2, <1>6, <1>10, Zenon DEF Ordered
<1>11. Cardinality(Lk(r)) = 0  BY <1>2, <1>4, <1>8
<1>12. ThreadOK(r, IF s[i].doadjust THEN IPL_NONE ELSE IPL_HIGH, IF s[i].doadjust THEN 0 ELSE 1)
  <2>1. CASE s[i].doadjust
    <3>1. ~ \E j \in 1..Len(r) : r[j].k # "lock"  BY <2>1, <1>10, Zenon
    <3>2. ThreadOK(r, IPL_NONE, 0)  BY <3>1, <1>4, <1>11 DEF ThreadOK, IPL_NONE
    <3>3. QED  BY <2>1, <3>2
  <2>2. CASE ~s[i].doadjust
    <3>1. ThreadOK(r, IPL_HIGH, 1)  BY <1>4, <1>11 DEF ThreadOK, IPL_HIGH
    <3>2. QED  BY <2>2, <3>1
  <2>3. QED  BY <2>1, <2>2
<1>13. QED  BY <1>5, <1>6, <1>7, <1>8, <1>9, <1>12 DEF i

-----------------------------------------------------------------------------
\* What a CPU holds is what its thread has to release, each lock once.
HoldOK(c, s, h) ==
    /\ \A l \in Locks \cup CPUs :
          h[l] = c <=> \E i \in 1..Len(s) : s[i].k = "lock" /\ LockOf(c, s[i].l) = l
    /\ \A i, j \in 1..Len(s) :
          s[i].k = "lock" /\ s[j].k = "lock" /\ LockOf(c, s[i].l) = LockOf(c, s[j].l) => i = j

\* The idle loop itself takes no lock but the run queue's.
IdleOK(s, idle) ==
    idle /\ (\A i \in 1..Len(s) : s[i].k # "irq") =>
        \A i \in 1..Len(s) : s[i].k = "lock" => s[i].l = "runqueue"

\* The inductive invariant.
SplInv ==
    /\ TypeOK
    /\ IsInjective(c_curthread)
    /\ \A t \in Threads : ThreadOK(stack[t], t_curspl[t], t_iplhigh_count[t])
    /\ \A c \in CPUs :
          LET t == c_curthread[c] IN
          /\ irq[c] <=> t_iplhigh_count[t] = 0
          /\ HoldOK(c, stack[t], lk_holder)
          /\ IdleOK(stack[t], c_isidle[c])

\* LockOf names a lock.
LEMMA LockOfIs ==
    ASSUME SplAssumption, NEW c \in CPUs, NEW f \in Frames, f.k = "lock"
    PROVE  f.l \in Locks \cup CPUs \cup {"runqueue"} /\ LockOf(c, f.l) \in Locks \cup CPUs
<1>1. f.l \in Locks \cup CPUs \cup {"runqueue"}  BY FrameKinds
<1>2. QED  BY <1>1, Zenon DEF LockOf

\* What is held after a frame that is no lock comes on top, a lock comes on top,
\* and after one or the other is taken away.
LEMMA HoldPush ==
    ASSUME NEW c, NEW h, NEW s \in Seq(Frames), HoldOK(c, s, h), NEW f \in Frames, f.k # "lock"
    PROVE  HoldOK(c, Append(s, f), h)
<1> DEFINE r == Append(s, f)
<1>1. /\ Len(r) = Len(s) + 1 /\ r[Len(s) + 1] = f /\ Len(s) \in Nat
      /\ \A i \in 1..Len(s) : r[i] = s[i]
  OBVIOUS
<1> HIDE DEF r
<1>2. \A i \in 1..Len(r) : r[i].k = "lock" => i \in 1..Len(s) /\ r[i] = s[i]
  BY <1>1
<1>3. \A i \in 1..Len(s) : i \in 1..Len(r) /\ r[i] = s[i]  BY <1>1
<1>4. ASSUME NEW l \in Locks \cup CPUs
      PROVE  h[l] = c <=> \E i \in 1..Len(r) : r[i].k = "lock" /\ LockOf(c, r[i].l) = l
  <2>1. h[l] = c <=> \E i \in 1..Len(s) : s[i].k = "lock" /\ LockOf(c, s[i].l) = l
    BY Zenon DEF HoldOK
  <2>2. ASSUME NEW i \in 1..Len(s), s[i].k = "lock", LockOf(c, s[i].l) = l
        PROVE  \E j \in 1..Len(r) : r[j].k = "lock" /\ LockOf(c, r[j].l) = l
    <3>1. i \in 1..Len(r) /\ r[i] = s[i]  BY <1>3
    <3>2. QED  BY <2>2, <3>1
  <2>3. ASSUME NEW i \in 1..Len(r), r[i].k = "lock", LockOf(c, r[i].l) = l
        PROVE  \E j \in 1..Len(s) : s[j].k = "lock" /\ LockOf(c, s[j].l) = l
    <3>1. i \in 1..Len(s) /\ r[i] = s[i]  BY <2>3, <1>2
    <3>2. QED  BY <2>3, <3>1
  <2>4. QED  BY <2>1, <2>2, <2>3, Zenon
<1>5. ASSUME NEW i \in 1..Len(r), NEW j \in 1..Len(r), r[i].k = "lock", r[j].k = "lock",
             LockOf(c, r[i].l) = LockOf(c, r[j].l)
      PROVE  i = j
  <2>1. i \in 1..Len(s) /\ r[i] = s[i] /\ j \in 1..Len(s) /\ r[j] = s[j]  BY <1>5, <1>2
  <2>2. QED  BY <2>1, <1>5, Zenon DEF HoldOK
<1>6. HoldOK(c, r, h)  BY <1>4, <1>5, Zenon DEF HoldOK
<1>7. QED  BY <1>6 DEF r

\* A lock that nobody held comes on top: the CPU holds one more.
LEMMA HoldPushLock ==
    ASSUME SplAssumption, NEW c \in CPUs, NEW h \in [Locks \cup CPUs -> CPUs \cup {None}],
           NEW s \in Seq(Frames), HoldOK(c, s, h),
           NEW l \in Locks \cup CPUs \cup {"runqueue"}, h[LockOf(c, l)] = None
    PROVE  HoldOK(c, Append(s, LockFrame(l)), [h EXCEPT ![LockOf(c, l)] = c])
<1> DEFINE f == LockFrame(l)
           r == Append(s, f)
           x == LockOf(c, l)
           g == [h EXCEPT ![x] = c]
<1>1. f \in Frames /\ f.k = "lock" /\ f.l = l  BY FrameFields
<1>2. x \in Locks \cup CPUs  BY <1>1, LockOfIs, Zenon
<1> HIDE DEF f
<1>3. /\ Len(r) = Len(s) + 1 /\ r[Len(s) + 1] = f /\ Len(s) \in Nat
      /\ \A i \in 1..Len(s) : r[i] = s[i]
  BY <1>1
<1>4. g[x] = c /\ \A m \in Locks \cup CPUs : m # x => g[m] = h[m]  BY <1>2
<1>5. h[x] # c  BY DEF SplAssumption
<1> HIDE DEF r, x, g
<1>6. \A i \in 1..Len(r) : (i \in 1..Len(s) /\ r[i] = s[i]) \/ (i = Len(s) + 1 /\ r[i] = f)
  BY <1>3
<1>7. \A i \in 1..Len(s) : i \in 1..Len(r) /\ r[i] = s[i]  BY <1>3
<1>8. Len(s) + 1 \in 1..Len(r) /\ r[Len(s) + 1] = f  BY <1>3
<1>9. LockOf(c, f.l) = x  BY <1>1 DEF x
<1>10. \A i \in 1..Len(s) : s[i].k = "lock" => LockOf(c, s[i].l) # x
  BY <1>2, <1>5, Zenon DEF HoldOK
<1>11. ASSUME NEW m \in Locks \cup CPUs
       PROVE  g[m] = c <=> \E i \in 1..Len(r) : r[i].k = "lock" /\ LockOf(c, r[i].l) = m
  <2>1. CASE m = x  BY <2>1, <1>1, <1>4, <1>8, <1>9, Zenon
  <2>2. CASE m # x
    <3>1. g[m] = c <=> \E i \in 1..Len(s) : s[i].k = "lock" /\ LockOf(c, s[i].l) = m
      BY <2>2, <1>4, Zenon DEF HoldOK
    <3>2. QED  BY <3>1, <2>2, <1>6, <1>7, <1>9, Zenon
  <2>3. QED  BY <2>1, <2>2
<1>12. ASSUME NEW i \in 1..Len(r), NEW j \in 1..Len(r), r[i].k = "lock", r[j].k = "lock",
              LockOf(c, r[i].l) = LockOf(c, r[j].l)
       PROVE  i = j
  BY <1>12, <1>6, <1>9, <1>10, Zenon DEF HoldOK
<1>13. HoldOK(c, r, g)  BY <1>11, <1>12, Zenon DEF HoldOK
<1>14. QED  BY <1>13 DEF r, f, g, x

\* A frame that is not a lock goes: what the CPU holds stays.
LEMMA HoldPop ==
    ASSUME NEW c, NEW h, NEW s \in Seq(Frames), Ordered(s), HoldOK(c, s, h),
           NEW i \in 1..Len(s), s[i].k # "lock", NEW r, Without(r, s, i)
    PROVE  HoldOK(c, r, h)
<1>1. /\ Len(r) = Len(s) - 1
      /\ \A j \in 1..Len(r) : Up(i, j) \in 1..Len(s) /\ Up(i, j) # i /\ r[j] = s[Up(i, j)]
      /\ \A k \in 1..Len(s) : k # i => \E j \in 1..Len(r) : Up(i, j) = k
  <2>1. OneLess(r, s, i)  BY Popped, Zenon
  <2>2. QED  BY <2>1, Zenon DEF OneLess
<1>2. \A j, k \in 1..Len(r) : Up(i, j) = Up(i, k) => j = k
  <2>1. Len(s) \in Nat  OBVIOUS
  <2>2. QED  BY <2>1, <1>1 DEF Up
<1>3. ASSUME NEW l \in Locks \cup CPUs
      PROVE  h[l] = c <=> \E j \in 1..Len(r) : r[j].k = "lock" /\ LockOf(c, r[j].l) = l
  <2>1. h[l] = c <=> \E k \in 1..Len(s) : s[k].k = "lock" /\ LockOf(c, s[k].l) = l
    BY Zenon DEF HoldOK
  <2>2. ASSUME NEW k \in 1..Len(s), s[k].k = "lock", LockOf(c, s[k].l) = l
        PROVE  \E j \in 1..Len(r) : r[j].k = "lock" /\ LockOf(c, r[j].l) = l
    <3>1. PICK j \in 1..Len(r) : Up(i, j) = k  BY <2>2, <1>1, Zenon
    <3>2. r[j] = s[k]  BY <3>1, <1>1, Zenon
    <3>3. QED  BY <2>2, <3>2
  <2>3. ASSUME NEW j \in 1..Len(r), r[j].k = "lock", LockOf(c, r[j].l) = l
        PROVE  \E k \in 1..Len(s) : s[k].k = "lock" /\ LockOf(c, s[k].l) = l
    <3>1. Up(i, j) \in 1..Len(s) /\ r[j] = s[Up(i, j)]  BY <1>1, Zenon
    <3>2. QED  BY <2>3, <3>1, Zenon
  <2>4. QED  BY <2>1, <2>2, <2>3, Zenon
<1>4. ASSUME NEW j \in 1..Len(r), NEW k \in 1..Len(r), r[j].k = "lock", r[k].k = "lock",
             LockOf(c, r[j].l) = LockOf(c, r[k].l)
      PROVE  j = k
  <2>1. /\ Up(i, j) \in 1..Len(s) /\ r[j] = s[Up(i, j)]
        /\ Up(i, k) \in 1..Len(s) /\ r[k] = s[Up(i, k)]
    BY <1>1, Zenon
  <2>2. Up(i, j) = Up(i, k)  BY <2>1, <1>4, Zenon DEF HoldOK
  <2>3. QED  BY <2>2, <1>2, Zenon
<1>5. QED  BY <1>3, <1>4, Zenon DEF HoldOK

Released(c, s, i, h) == [h EXCEPT ![LockOf(c, s[i].l)] = None]

\* spinlock_release: the lock of the frame that goes is free, the others are held.
LEMMA HoldPopLock ==
    ASSUME SplAssumption, NEW c \in CPUs, NEW h \in [Locks \cup CPUs -> CPUs \cup {None}],
           NEW s \in Seq(Frames), Ordered(s), HoldOK(c, s, h),
           NEW i \in 1..Len(s), s[i].k = "lock", NEW r, Without(r, s, i)
    PROVE  /\ LockOf(c, s[i].l) \in Locks \cup CPUs /\ h[LockOf(c, s[i].l)] = c
           /\ HoldOK(c, r, Released(c, s, i, h))
<1> DEFINE x == LockOf(c, s[i].l)
           g == [h EXCEPT ![x] = None]
<1>1. /\ Len(r) = Len(s) - 1
      /\ \A j \in 1..Len(r) : Up(i, j) \in 1..Len(s) /\ Up(i, j) # i /\ r[j] = s[Up(i, j)]
      /\ \A k \in 1..Len(s) : k # i => \E j \in 1..Len(r) : Up(i, j) = k
  <2>1. OneLess(r, s, i)  BY Popped, Zenon
  <2>2. QED  BY <2>1, Zenon DEF OneLess
<1>2. \A j, k \in 1..Len(r) : Up(i, j) = Up(i, k) => j = k
  <2>1. Len(s) \in Nat  OBVIOUS
  <2>2. QED  BY <2>1, <1>1 DEF Up
<1>3. x \in Locks \cup CPUs
  <2>1. s[i] \in Frames  OBVIOUS
  <2>2. QED  BY <2>1, LockOfIs, Zenon
<1>4. h[x] = c  BY <1>3, Zenon DEF HoldOK
<1>5. g[x] # c /\ \A m \in Locks \cup CPUs : m # x => g[m] = h[m]  BY <1>3 DEF SplAssumption
<1> HIDE DEF g
<1>6. \A k \in 1..Len(s) : s[k].k = "lock" /\ LockOf(c, s[k].l) = x => k = i
  BY Zenon DEF HoldOK
<1>7. ASSUME NEW l \in Locks \cup CPUs
      PROVE  g[l] = c <=> \E j \in 1..Len(r) : r[j].k = "lock" /\ LockOf(c, r[j].l) = l
  <2>1. CASE l = x  BY <2>1, <1>1, <1>5, <1>6, Zenon
  <2>2. CASE l # x
    <3>1. g[l] = c <=> \E k \in 1..Len(s) : s[k].k = "lock" /\ LockOf(c, s[k].l) = l
      BY <2>2, <1>5, Zenon DEF HoldOK
    <3>2. ASSUME NEW k \in 1..Len(s), s[k].k = "lock", LockOf(c, s[k].l) = l
          PROVE  \E j \in 1..Len(r) : r[j].k = "lock" /\ LockOf(c, r[j].l) = l
      <4>1. k # i  BY <2>2, <3>2, Zenon
      <4>2. PICK j \in 1..Len(r) : Up(i, j) = k  BY <4>1, <1>1, Zenon
      <4>3. r[j] = s[k]  BY <4>2, <1>1, Zenon
      <4>4. QED  BY <3>2, <4>3
    <3>3. ASSUME NEW j \in 1..Len(r), r[j].k = "lock", LockOf(c, r[j].l) = l
          PROVE  \E k \in 1..Len(s) : s[k].k = "lock" /\ LockOf(c, s[k].l) = l
      <4>1. Up(i, j) \in 1..Len(s) /\ r[j] = s[Up(i, j)]  BY <1>1, Zenon
      <4>2. QED  BY <3>3, <4>1, Zenon
    <3>4. QED  BY <3>1, <3>2, <3>3, Zenon
  <2>3. QED  BY <2>1, <2>2
<1>8. ASSUME NEW j \in 1..Len(r), NEW k \in 1..Len(r), r[j].k = "lock", r[k].k = "lock",
             LockOf(c, r[j].l) = LockOf(c, r[k].l)
      PROVE  j = k
  <2>1. /\ Up(i, j) \in 1..Len(s) /\ r[j] = s[Up(i, j)]
        /\ Up(i, k) \in 1..Len(s) /\ r[k] = s[Up(i, k)]
    BY <1>1, Zenon
  <2>2. Up(i, j) = Up(i, k)  BY <2>1, <1>8, Zenon DEF HoldOK
  <2>3. QED  BY <2>2, <1>2, Zenon
<1>9. HoldOK(c, r, g)  BY <1>7, <1>8, Zenon DEF HoldOK
<1>10. QED  BY <1>3, <1>4, <1>9, Zenon DEF g, Released

\* A stack in thread_switch: the run queue lock is its only one.
LEMMA SwitchStack ==
    ASSUME NEW s, NEW spl, NEW n, ThreadOK(s, spl, n),
           Len(s) >= 2, s[Len(s)] = LockFrame("runqueue")
    PROVE  /\ s \in Seq(Frames) /\ s # <<>> /\ Len(s) \in 1..Len(s)
           /\ s[Len(s)].k = "lock" /\ s[Len(s)].l = "runqueue"
           /\ \A i \in 1..Len(s) : s[i].k = "lock" => i = Len(s)
           /\ n # 0
<1>1. s \in Seq(Frames) /\ Ordered(s) /\ spl \in {IPL_NONE, IPL_HIGH} /\ n = Cardinality(Lk(s)) + spl
  BY DEF ThreadOK
<1>2. s # <<>> /\ Len(s) \in 1..Len(s) /\ \A i \in 1..Len(s) : i = Len(s) \/ i < Len(s)  BY <1>1
<1>3. s[Len(s)].k = "lock" /\ s[Len(s)].l = "runqueue"  BY FrameFields
<1>4. \A i \in 1..Len(s) : s[i].k = "lock" => i = Len(s)  BY <1>1, <1>2, Zenon DEF Ordered
<1>5. Cardinality(Lk(s)) \in Nat /\ Cardinality(Lk(s)) # 0  BY <1>1, <1>2, <1>3, LkFinite, Zenon
<1>6. n # 0  BY <1>1, <1>5 DEF IPL_NONE, IPL_HIGH
<1>7. QED  BY <1>1, <1>2, <1>3, <1>4, <1>6

\* A step of CPU c gives its thread the stack s, the spl and the count n, and
\* changes nothing of what the other CPUs hold.
Acts(c, s, spl, n, idle, h) ==
    /\ ThreadOK(s, spl, n) /\ HoldOK(c, s, h) /\ IdleOK(s, idle) /\ idle \in BOOLEAN
    /\ h \in [Locks \cup CPUs -> CPUs \cup {None}]
    /\ \A d \in CPUs : d # c => \A l \in Locks \cup CPUs : h[l] = d <=> lk_holder[l] = d
    /\ c_curthread' = c_curthread
    /\ stack' = [stack EXCEPT ![c_curthread[c]] = s]
    /\ t_curspl' = [t_curspl EXCEPT ![c_curthread[c]] = spl]
    /\ t_iplhigh_count' = [t_iplhigh_count EXCEPT ![c_curthread[c]] = n]
    /\ irq' = [irq EXCEPT ![c] = (n = 0)]
    /\ c_isidle' = [c_isidle EXCEPT ![c] = idle]
    /\ lk_holder' = h

\* Such a step keeps the invariant.
LEMMA OwnStep ==
    ASSUME SplInv, NEW c \in CPUs, NEW s, NEW spl, NEW n, NEW idle, NEW h, Acts(c, s, spl, n, idle, h)
    PROVE  SplInv'
<1> USE DEF Acts
<1> DEFINE t == c_curthread[c]
<1>1. TypeOK /\ IsInjective(c_curthread)  BY DEF SplInv
<1>2. t \in Threads /\ DOMAIN c_curthread = CPUs  BY <1>1 DEF TypeOK
<1>3. \A d \in CPUs : d # c => c_curthread[d] \in Threads /\ c_curthread[d] # t
  BY <1>1, <1>2 DEF IsInjective, TypeOK
<1> HIDE DEF t
<1>4. s \in Seq(Frames) /\ spl \in {IPL_NONE, IPL_HIGH} /\ n = Cardinality(Lk(s)) + spl  BY DEF ThreadOK
<1>5. n \in Nat
  <2>1. Cardinality(Lk(s)) \in Nat  BY <1>4, LkFinite
  <2>2. QED  BY <2>1, <1>4 DEF IPL_NONE, IPL_HIGH
<1>6. TypeOK'
  <2>1. irq' \in [CPUs -> BOOLEAN] /\ c_isidle' \in [CPUs -> BOOLEAN]  BY <1>1 DEF TypeOK
  <2>2. t_curspl' \in [Threads -> {IPL_NONE, IPL_HIGH}]  BY <1>1, <1>2, <1>4 DEF TypeOK, t
  <2>3. t_iplhigh_count' \in [Threads -> Nat]  BY <1>1, <1>2, <1>5 DEF TypeOK, t
  <2>4. stack' \in [Threads -> Seq(Frames)]  BY <1>1, <1>2, <1>4 DEF TypeOK, t
  <2>5. QED  BY <2>1, <2>2, <2>3, <2>4, <1>1 DEF TypeOK
<1>7. stack'[t] = s /\ t_curspl'[t] = spl /\ t_iplhigh_count'[t] = n  BY <1>1, <1>2 DEF TypeOK, t
<1>8. \A u \in Threads : u # t => /\ stack'[u] = stack[u] /\ t_curspl'[u] = t_curspl[u]
                                  /\ t_iplhigh_count'[u] = t_iplhigh_count[u]
  BY <1>1, <1>2 DEF TypeOK, t
<1>9. irq'[c] = (n = 0) /\ c_isidle'[c] = idle
      /\ \A d \in CPUs : d # c => irq'[d] = irq[d] /\ c_isidle'[d] = c_isidle[d]
  BY <1>1 DEF TypeOK
<1>10. ASSUME NEW u \in Threads PROVE ThreadOK(stack'[u], t_curspl'[u], t_iplhigh_count'[u])
  <2>1. CASE u = t  BY <2>1, <1>7
  <2>2. CASE u # t
    <3>1. ThreadOK(stack[u], t_curspl[u], t_iplhigh_count[u])  BY DEF SplInv
    <3>2. QED  BY <2>2, <3>1, <1>8
  <2>3. QED  BY <2>1, <2>2
<1>11. ASSUME NEW d \in CPUs
       PROVE  LET u == c_curthread'[d] IN
              /\ irq'[d] <=> t_iplhigh_count'[u] = 0
              /\ HoldOK(d, stack'[u], lk_holder')
              /\ IdleOK(stack'[u], c_isidle'[d])
  <2>1. CASE d = c
    <3>1. c_curthread'[d] = t  BY <2>1 DEF t
    <3>2. QED  BY <2>1, <3>1, <1>7, <1>9, Zenon
  <2>2. CASE d # c
    <3> DEFINE u == c_curthread[d]
    <3>1. u \in Threads /\ u # t /\ c_curthread'[d] = u  BY <2>2, <1>3
    <3>2. /\ irq[d] <=> t_iplhigh_count[u] = 0
          /\ HoldOK(d, stack[u], lk_holder)
          /\ IdleOK(stack[u], c_isidle[d])
      BY DEF SplInv
    <3> HIDE DEF u
    <3>3. HoldOK(d, stack[u], h)  BY <2>2, <3>2, Zenon DEF HoldOK
    <3>4. stack'[u] = stack[u] /\ t_iplhigh_count'[u] = t_iplhigh_count[u]  BY <3>1, <1>8
    <3>5. irq'[d] = irq[d] /\ c_isidle'[d] = c_isidle[d]  BY <2>2, <1>9
    <3>6. QED  BY <3>1, <3>2, <3>3, <3>4, <3>5
  <2>3. QED  BY <2>1, <2>2
<1>12. IsInjective(c_curthread)'  BY <1>1
<1>13. QED  BY <1>6, <1>10, <1>11, <1>12, Zenon DEF SplInv

\* What the invariant says of the thread that a CPU runs.
LEMMA Running ==
    ASSUME SplInv, NEW c \in CPUs, NEW t, t = c_curthread[c]
    PROVE  /\ t \in Threads /\ ThreadOK(stack[t], t_curspl[t], t_iplhigh_count[t])
           /\ stack[t] \in Seq(Frames) /\ Ordered(stack[t]) /\ Len(stack[t]) \in Nat
           /\ DOMAIN stack[t] = 1..Len(stack[t])
           /\ t_curspl[t] \in {IPL_NONE, IPL_HIGH} /\ t_iplhigh_count[t] \in Nat
           /\ irq[c] \in BOOLEAN /\ c_isidle[c] \in BOOLEAN
           /\ lk_holder \in [Locks \cup CPUs -> CPUs \cup {None}]
           /\ irq[c] <=> t_iplhigh_count[t] = 0
           /\ HoldOK(c, stack[t], lk_holder)
           /\ IdleOK(stack[t], c_isidle[c])
           /\ irq = [irq EXCEPT ![c] = (t_iplhigh_count[t] = 0)]
           /\ c_isidle = [c_isidle EXCEPT ![c] = c_isidle[c]]
           /\ t_curspl = [t_curspl EXCEPT ![t] = t_curspl[t]]
           /\ t_iplhigh_count = [t_iplhigh_count EXCEPT ![t] = t_iplhigh_count[t]]
<1>1. TypeOK /\ c_curthread[c] \in Threads  BY DEF SplInv, TypeOK
<1>2. t \in Threads  BY <1>1
<1>3. ThreadOK(stack[t], t_curspl[t], t_iplhigh_count[t])  BY <1>2 DEF SplInv
<1>4. stack[t] \in Seq(Frames) /\ Ordered(stack[t])  BY <1>3 DEF ThreadOK
<1>5. Len(stack[t]) \in Nat /\ DOMAIN stack[t] = 1..Len(stack[t])  BY <1>4
<1>6. /\ irq[c] <=> t_iplhigh_count[t] = 0
      /\ HoldOK(c, stack[t], lk_holder)
      /\ IdleOK(stack[t], c_isidle[c])
  BY DEF SplInv
<1>7. /\ t_curspl[t] \in {IPL_NONE, IPL_HIGH} /\ t_iplhigh_count[t] \in Nat
      /\ irq[c] \in BOOLEAN /\ c_isidle[c] \in BOOLEAN
      /\ lk_holder \in [Locks \cup CPUs -> CPUs \cup {None}]
  BY <1>1, <1>2 DEF TypeOK
<1>8. /\ irq = [irq EXCEPT ![c] = (t_iplhigh_count[t] = 0)]
      /\ c_isidle = [c_isidle EXCEPT ![c] = c_isidle[c]]
  BY <1>1, <1>6, <1>7 DEF TypeOK
<1>9. /\ t_curspl = [t_curspl EXCEPT ![t] = t_curspl[t]]
      /\ t_iplhigh_count = [t_iplhigh_count EXCEPT ![t] = t_iplhigh_count[t]]
  BY <1>1, <1>2 DEF TypeOK
<1>10. QED  BY <1>2, <1>3, <1>4, <1>5, <1>6, <1>7, <1>8, <1>9

-----------------------------------------------------------------------------
\* A nonempty set of numbers up to n has a largest.
LEMMA LargestOf ==
    ASSUME NEW n \in Nat, NEW I, I \subseteq 1..n, I # {}
    PROVE  \E x \in I : \A y \in I : y <= x
<1> DEFINE S == {n - k : k \in I}
<1>1. S \subseteq Nat /\ S # {}
  <2>1. \A k \in I : n - k \in Nat  OBVIOUS
  <2>2. S \subseteq Nat  BY <2>1, Zenon
  <2>3. PICK k \in I : TRUE  BY Zenon
  <2>4. n - k \in S  BY <2>3, Zenon
  <2>5. QED  BY <2>2, <2>4, Zenon
<1>2. \A k \in I : n - k \in S  OBVIOUS
<1>3. \A u \in S : \E k \in I : u = n - k  OBVIOUS
<1> HIDE DEF S
<1>4. PICK u \in S : \A v \in S : ~(<<v, u>> \in OpToRel(<, Nat))
  BY <1>1, NatLessThanWellFounded, WFMin, Zenon
<1>5. \A v \in S : ~(v < u)  BY <1>1, <1>4, Zenon DEF OpToRel
<1>6. PICK x \in I : u = n - x  BY <1>3, Zenon
<1>7. ASSUME NEW y \in I PROVE y <= x
  <2>1. ~(n - y < n - x)
    <3>1. n - y \in S  BY <1>2
    <3>2. ~(n - y < u)  BY <3>1, <1>5
    <3>3. QED  BY <3>2, <1>6
  <2>2. x \in Int /\ y \in Int  OBVIOUS
  <2>3. QED  BY <2>1, <2>2
<1>8. QED  BY <1>7

\* The idle loop after a frame that is no lock comes on top, and after one
\* above an interrupt goes.
LEMMA IdlePush ==
    ASSUME NEW s \in Seq(Frames), NEW idle, IdleOK(s, idle), NEW f \in Frames, f.k # "lock"
    PROVE  IdleOK(Append(s, f), idle)
<1> DEFINE r == Append(s, f)
<1>1. /\ Len(r) = Len(s) + 1 /\ r[Len(s) + 1] = f /\ Len(s) \in Nat
      /\ \A i \in 1..Len(s) : r[i] = s[i]
  OBVIOUS
<1> HIDE DEF r
<1>2. \A i \in 1..Len(r) : r[i].k = "lock" => i \in 1..Len(s) /\ r[i] = s[i]  BY <1>1
<1>3. \A i \in 1..Len(s) : i \in 1..Len(r) /\ r[i] = s[i]  BY <1>1
<1>4. IdleOK(r, idle)
  <2>1. SUFFICES ASSUME idle, \A i \in 1..Len(r) : r[i].k # "irq", NEW i \in 1..Len(r), r[i].k = "lock"
                 PROVE  r[i].l = "runqueue"
    BY Zenon DEF IdleOK
  <2>2. \A j \in 1..Len(s) : s[j].k # "irq"  BY <2>1, <1>3, Zenon
  <2>3. QED  BY <2>1, <2>2, <1>2, Zenon DEF IdleOK
<1>5. QED  BY <1>4 DEF r

\* ... and when one goes.
LEMMA IdlePop ==
    ASSUME NEW s \in Seq(Frames), NEW i \in 1..Len(s), NEW r, Without(r, s, i), NEW idle,
           idle => \E p \in 1..Len(s) : p < i /\ s[p].k = "irq"
    PROVE  IdleOK(r, idle)
<1>1. ASSUME NEW p \in 1..Len(s), p < i, s[p].k = "irq" PROVE p \in 1..Len(r) /\ r[p].k = "irq"
  <2>1. p \in 1..Len(s)-1 /\ Len(r) = Len(s) - 1 /\ Up(i, p) = p  BY <1>1 DEF Up, Without
  <2>2. QED  BY <2>1, <1>1 DEF Without
<1>2. QED  BY <1>1, Zenon DEF IdleOK

\* The frames that may go first lie above the interrupts.
LEMMA UndoableIs ==
    ASSUME NEW t, NEW i \in Undoable(t), DOMAIN stack[t] = 1..Len(stack[t]), Len(stack[t]) \in Nat
    PROVE  /\ i \in 1..Len(stack[t])
           /\ \A j \in 1..Len(stack[t]) : j >= i => stack[t][j].k # "irq"
           /\ InInterrupt(t) => \E p \in 1..Len(stack[t]) : p < i /\ stack[t][p].k = "irq"
<1>1. i \in 1..Len(stack[t]) /\ \A j \in i..Len(stack[t]) : stack[t][j].k # "irq"  BY Zenon DEF Undoable
<1>2. \A j \in 1..Len(stack[t]) : j >= i => stack[t][j].k # "irq"
  <2>1. SUFFICES ASSUME NEW j \in 1..Len(stack[t]), j >= i PROVE stack[t][j].k # "irq"
    OBVIOUS
  <2>2. j \in i..Len(stack[t])  BY <1>1, <2>1
  <2>3. QED  BY <1>1, <2>2
<1>3. ASSUME InInterrupt(t) PROVE \E p \in 1..Len(stack[t]) : p < i /\ stack[t][p].k = "irq"
  <2>1. PICK p \in 1..Len(stack[t]) : stack[t][p].k = "irq"  BY <1>3, Zenon DEF InInterrupt
  <2>2. p < i  BY <1>1, <1>2, <2>1
  <2>3. QED  BY <2>1, <2>2
<1>4. QED  BY <1>1, <1>2, <1>3

-----------------------------------------------------------------------------
\* One lemma for each operation.
LEMMA SplhighKeeps ==
    ASSUME SplAssumption, SplInv, NEW c \in CPUs, splhigh(c) PROVE SplInv'
<1> DEFINE t == c_curthread[c]
           s == stack[t]
           spl == t_curspl[t]
           n == t_iplhigh_count[t]
           m == IF spl = IPL_NONE THEN n + 1 ELSE n
           f == SplFrame(spl)
<1>1. /\ t \in Threads /\ ThreadOK(s, spl, n) /\ s \in Seq(Frames)
      /\ spl \in {IPL_NONE, IPL_HIGH} /\ n \in Nat /\ c_isidle[c] \in BOOLEAN
      /\ lk_holder \in [Locks \cup CPUs -> CPUs \cup {None}]
      /\ HoldOK(c, s, lk_holder) /\ IdleOK(s, c_isidle[c])
      /\ irq[c] \in BOOLEAN /\ (irq[c] <=> n = 0)
      /\ irq = [irq EXCEPT ![c] = (n = 0)]
      /\ c_isidle = [c_isidle EXCEPT ![c] = c_isidle[c]]
      /\ t_curspl = [t_curspl EXCEPT ![t] = spl]
      /\ t_iplhigh_count = [t_iplhigh_count EXCEPT ![t] = n]
  BY Running, Zenon
<1>2. f \in Frames /\ f.k # "lock"  BY <1>1, FrameFields
<1>3. ThreadOK(Append(s, f), IPL_HIGH, m)  BY <1>1, ThreadRaises, Zenon
<1>4. HoldOK(c, Append(s, f), lk_holder) /\ IdleOK(Append(s, f), c_isidle[c])
  BY <1>1, <1>2, HoldPush, IdlePush, Zenon
<1>5. /\ stack' = [stack EXCEPT ![t] = Append(s, f)]
      /\ t_curspl' = [t_curspl EXCEPT ![t] = IPL_HIGH]
      /\ c_curthread' = c_curthread /\ c_isidle' = c_isidle /\ lk_holder' = lk_holder
  BY Zenon DEF splhigh, Push, SetSpl
<1>6. t_iplhigh_count' = [t_iplhigh_count EXCEPT ![t] = m] /\ irq' = [irq EXCEPT ![c] = (m = 0)]
  <2>1. CASE spl = IPL_NONE
    <3>1. splraise(c)  BY <2>1 DEF splhigh, SetSpl, IPL_NONE, IPL_HIGH
    <3>2. irq' = [irq EXCEPT ![c] = IF n = 0 THEN FALSE ELSE irq[c]]
          /\ t_iplhigh_count' = [t_iplhigh_count EXCEPT ![t] = n + 1]
      BY <3>1, <1>1 DEF splraise
    <3>3. m = n + 1 /\ m # 0  BY <2>1, <1>1
    <3>4. (IF n = 0 THEN FALSE ELSE irq[c]) = FALSE  BY <1>1
    <3> HIDE DEF m
    <3>5. (m = 0) = FALSE  BY <3>3
    <3>6. QED  BY <3>2, <3>3, <3>4, <3>5, Zenon
  <2>2. CASE spl = IPL_HIGH
    <3>1. UNCHANGED <<irq, t_iplhigh_count>> /\ m = n  BY <2>2 DEF splhigh, SetSpl, IPL_NONE, IPL_HIGH
    <3> HIDE DEF m
    <3>2. QED  BY <3>1, <1>1
  <2>3. QED  BY <2>1, <2>2, <1>1
<1>7. c_isidle' = [c_isidle EXCEPT ![c] = c_isidle[c]]  BY <1>1, <1>5, Zenon
<1> HIDE DEF m, f
<1>8. Acts(c, Append(s, f), IPL_HIGH, m, c_isidle[c], lk_holder)
  BY <1>1, <1>3, <1>4, <1>5, <1>6, <1>7, Zenon DEF Acts
<1>9. QED  BY <1>8, OwnStep, Zenon

\* splx undoes the last splhigh, which need not be the top frame.
LEMMA SplxKeeps ==
    ASSUME SplAssumption, SplInv, NEW c \in CPUs, splx(c) PROVE SplInv'
<1> DEFINE t == c_curthread[c]
           s == stack[t]
           spl == t_curspl[t]
           n == t_iplhigh_count[t]
           I == {i \in Undoable(t) : s[i].k = "spl"}
           i == CHOOSE x \in I : \A y \in I : y <= x
           r == RemoveAt(s, i)
           old == s[i].old
           m == IF old = IPL_NONE THEN n - 1 ELSE n
<1>1. /\ t \in Threads /\ ThreadOK(s, spl, n) /\ s \in Seq(Frames) /\ Ordered(s)
      /\ Len(s) \in Nat /\ DOMAIN s = 1..Len(s)
      /\ spl \in {IPL_NONE, IPL_HIGH} /\ n \in Nat /\ c_isidle[c] \in BOOLEAN
      /\ lk_holder \in [Locks \cup CPUs -> CPUs \cup {None}]
      /\ HoldOK(c, s, lk_holder) /\ IdleOK(s, c_isidle[c])
      /\ irq[c] \in BOOLEAN /\ (irq[c] <=> n = 0)
      /\ irq = [irq EXCEPT ![c] = (n = 0)]
      /\ c_isidle = [c_isidle EXCEPT ![c] = c_isidle[c]]
      /\ t_curspl = [t_curspl EXCEPT ![t] = spl]
      /\ t_iplhigh_count = [t_iplhigh_count EXCEPT ![t] = n]
  BY Running, Zenon
<1>2. /\ I # {} /\ Executing(c)
      /\ stack' = [stack EXCEPT ![t] = r]
      /\ SetSpl(c, old)
      /\ c_curthread' = c_curthread /\ c_isidle' = c_isidle /\ lk_holder' = lk_holder
  BY Zenon DEF splx
<1>3. I \subseteq 1..Len(s)  BY <1>1, UndoableIs, Zenon
<1> HIDE DEF I
<1>4. \E x \in I : \A y \in I : y <= x  BY <1>1, <1>2, <1>3, LargestOf, Zenon
<1>5. i \in I /\ \A y \in I : y <= i  BY <1>4, Zenon
<1> HIDE DEF i
<1>6. i \in Undoable(t) /\ i \in 1..Len(s) /\ s[i].k = "spl"  BY <1>3, <1>5, Zenon DEF I
<1>7. /\ \A j \in 1..Len(s) : j >= i => s[j].k # "irq"
      /\ InInterrupt(t) => \E p \in 1..Len(s) : p < i /\ s[p].k = "irq"
  BY <1>1, <1>6, UndoableIs, ZenonT(60)
<1>8. ASSUME NEW j \in 1..Len(s), j > i PROVE s[j].k = "lock"
  <2>1. s[j].k # "irq" /\ \A k \in j..Len(s) : k \in 1..Len(s) /\ k >= i  BY <1>6, <1>7, <1>8
  <2>2. j \in Undoable(t)  BY <1>1, <1>7, <2>1, Zenon DEF Undoable
  <2>3. s[j].k # "spl"
    <3>1. ~(j <= i)  BY <1>6, <1>8
    <3>2. QED  BY <3>1, <1>5, <2>2, Zenon DEF I
  <2>4. s[j] \in Frames  BY <1>1
  <2>5. QED  BY <2>1, <2>3, <2>4, FrameKinds
<1>9. Without(r, s, i)  BY <1>1, <1>6, RemoveAtIs, Zenon
<1> HIDE DEF r
<1>10. spl = IPL_HIGH /\ old \in {IPL_NONE, IPL_HIGH} /\ n \in Nat \ {0} /\ ThreadOK(r, old, m)
  BY <1>1, <1>6, <1>8, <1>9, ThreadRestores, Zenon
<1>11. HoldOK(c, r, lk_holder)
  <2>1. s[i].k # "lock"  BY <1>6
  <2>2. QED  BY <2>1, <1>1, <1>6, <1>9, HoldPop, Zenon
<1>12. IdleOK(r, c_isidle[c])
  <2>1. c_isidle[c] => InInterrupt(t)  BY <1>2 DEF Executing
  <2>2. QED  BY <2>1, <1>1, <1>6, <1>7, <1>9, IdlePop, Zenon
<1>13. t_curspl' = [t_curspl EXCEPT ![t] = old]  BY <1>2, Zenon DEF SetSpl
<1>14. t_iplhigh_count' = [t_iplhigh_count EXCEPT ![t] = m] /\ irq' = [irq EXCEPT ![c] = (m = 0)]
  <2>1. CASE old = IPL_NONE
    <3>1. spllower(c)
      <4>1. ~(spl < old) /\ ~(spl = old)  BY <2>1, <1>10 DEF IPL_NONE, IPL_HIGH
      <4>2. QED  BY <4>1, <1>2, Zenon DEF SetSpl
    <3>2. /\ t_iplhigh_count' = [t_iplhigh_count EXCEPT ![t] = n - 1]
          /\ irq' = [irq EXCEPT ![c] = IF n = 1 THEN TRUE ELSE irq[c]]
      BY <3>1, <1>1 DEF spllower
    <3>3. m = n - 1 /\ (n = 1 <=> m = 0)  BY <2>1, <1>10
    <3>4. (IF n = 1 THEN TRUE ELSE irq[c]) = (n = 1)  BY <1>1, <1>10, Zenon
    <3> HIDE DEF m
    <3>5. (n = 1) = (m = 0)  BY <3>3
    <3>6. QED  BY <3>2, <3>3, <3>4, <3>5, Zenon
  <2>2. CASE old = IPL_HIGH
    <3>1. UNCHANGED <<irq, t_iplhigh_count>>
      <4>1. ~(spl < old) /\ ~(spl > old)  BY <2>2, <1>10, SMTT(30) DEF IPL_NONE, IPL_HIGH
      <4>2. QED  BY <4>1, <1>2, Zenon DEF SetSpl
    <3>2. m = n  BY <2>2, SMTT(30) DEF IPL_NONE, IPL_HIGH
    <3> HIDE DEF m
    <3>3. QED  BY <3>1, <3>2, <1>1
  <2>3. QED  BY <2>1, <2>2, <1>10, SMTT(30)
<1>15. c_isidle' = [c_isidle EXCEPT ![c] = c_isidle[c]]  BY <1>1, <1>2, Zenon
<1> HIDE DEF m, old
<1>16. Acts(c, r, old, m, c_isidle[c], lk_holder)
  BY <1>1, <1>2, <1>10, <1>11, <1>12, <1>13, <1>14, <1>15, Zenon DEF Acts
<1>17. QED  BY <1>16, OwnStep, Zenon

\* spinlock_acquire raises first, and then finds the lock free.
LEMMA AcquireKeeps ==
    ASSUME SplAssumption, SplInv, NEW c \in CPUs, NEW l \in Locks \cup CPUs, spinlock_acquire(c, l)
    PROVE  SplInv'
<1> DEFINE t == c_curthread[c]
           s == stack[t]
           spl == t_curspl[t]
           n == t_iplhigh_count[t]
           r == Append(s, LockFrame(l))
           h == [lk_holder EXCEPT ![LockOf(c, l)] = c]
<1>1. /\ t \in Threads /\ ThreadOK(s, spl, n) /\ s \in Seq(Frames) /\ Ordered(s)
      /\ Len(s) \in Nat /\ DOMAIN s = 1..Len(s)
      /\ spl \in {IPL_NONE, IPL_HIGH} /\ n \in Nat /\ c_isidle[c] \in BOOLEAN
      /\ lk_holder \in [Locks \cup CPUs -> CPUs \cup {None}]
      /\ HoldOK(c, s, lk_holder) /\ IdleOK(s, c_isidle[c])
      /\ irq[c] \in BOOLEAN /\ (irq[c] <=> n = 0)
      /\ irq = [irq EXCEPT ![c] = (n = 0)]
      /\ c_isidle = [c_isidle EXCEPT ![c] = c_isidle[c]]
      /\ t_curspl = [t_curspl EXCEPT ![t] = spl]
      /\ t_iplhigh_count = [t_iplhigh_count EXCEPT ![t] = n]
  BY Running, Zenon
<1>2. l \in Locks \cup CPUs \cup {"runqueue"} /\ l # "runqueue" /\ LockOf(c, l) = l
  BY Zenon DEF SplAssumption, LockOf
<1>3. /\ Executing(c) /\ lk_holder[LockOf(c, l)] = None
      /\ stack' = [stack EXCEPT ![t] = r]
      /\ splraise(c) /\ lk_holder' = h
      /\ c_curthread' = c_curthread /\ c_isidle' = c_isidle /\ t_curspl' = t_curspl
  BY Zenon DEF spinlock_acquire, Push
<1>4. ThreadOK(r, spl, n + 1)  BY <1>1, <1>2, ThreadLocks, Zenon
<1>5. HoldOK(c, r, h)  BY <1>1, <1>2, <1>3, HoldPushLock, Zenon
<1>6. IdleOK(r, c_isidle[c])
  <2>1. ASSUME c_isidle[c] PROVE \E p \in 1..Len(r) : r[p].k = "irq"
    <3>1. InInterrupt(t)  BY <2>1, <1>3 DEF Executing
    <3>2. PICK p \in 1..Len(s) : s[p].k = "irq"  BY <3>1, <1>1, Zenon DEF InInterrupt
    <3>3. p \in 1..Len(r) /\ r[p] = s[p]
      <4>1. LockFrame(l) \in Frames  BY <1>2, FrameFields, Zenon
      <4>2. QED  BY <4>1, <1>1
    <3>4. QED  BY <3>2, <3>3
  <2>2. QED  BY <2>1, Zenon DEF IdleOK
<1>7. /\ h \in [Locks \cup CPUs -> CPUs \cup {None}]
      /\ \A d \in CPUs : d # c => \A k \in Locks \cup CPUs : h[k] = d <=> lk_holder[k] = d
  BY <1>1, <1>2, <1>3 DEF SplAssumption
<1>8. t_iplhigh_count' = [t_iplhigh_count EXCEPT ![t] = n + 1] /\ irq' = [irq EXCEPT ![c] = (n + 1 = 0)]
  <2>1. irq' = [irq EXCEPT ![c] = IF n = 0 THEN FALSE ELSE irq[c]]
        /\ t_iplhigh_count' = [t_iplhigh_count EXCEPT ![t] = n + 1]
    BY <1>1, <1>3 DEF splraise
  <2>2. (IF n = 0 THEN FALSE ELSE irq[c]) = FALSE  BY <1>1
  <2>3. (n + 1 = 0) = FALSE  BY <1>1
  <2>4. QED  BY <2>1, <2>2, <2>3, Zenon
<1>9. c_isidle' = [c_isidle EXCEPT ![c] = c_isidle[c]] /\ t_curspl' = [t_curspl EXCEPT ![t] = spl]
  BY <1>1, <1>3, Zenon
<1> HIDE DEF r, h
<1>10. Acts(c, r, spl, n + 1, c_isidle[c], h)
  BY <1>1, <1>3, <1>4, <1>5, <1>6, <1>7, <1>8, <1>9, Zenon DEF Acts
<1>11. QED  BY <1>10, OwnStep, Zenon

\* spinlock_release lets go of the lock before it lowers.
LEMMA ReleaseKeeps ==
    ASSUME SplAssumption, SplInv, NEW c \in CPUs, NEW l \in Locks \cup CPUs \cup {"runqueue"},
           spinlock_release(c, l)
    PROVE  SplInv'
<1> DEFINE t == c_curthread[c]
           s == stack[t]
           spl == t_curspl[t]
           n == t_iplhigh_count[t]
           x == LockOf(c, l)
           h == [lk_holder EXCEPT ![x] = None]
<1>1. /\ t \in Threads /\ ThreadOK(s, spl, n) /\ s \in Seq(Frames) /\ Ordered(s)
      /\ Len(s) \in Nat /\ DOMAIN s = 1..Len(s)
      /\ spl \in {IPL_NONE, IPL_HIGH} /\ n \in Nat /\ c_isidle[c] \in BOOLEAN
      /\ lk_holder \in [Locks \cup CPUs -> CPUs \cup {None}]
      /\ HoldOK(c, s, lk_holder) /\ IdleOK(s, c_isidle[c])
      /\ irq[c] \in BOOLEAN /\ (irq[c] <=> n = 0)
      /\ irq = [irq EXCEPT ![c] = (n = 0)]
      /\ c_isidle = [c_isidle EXCEPT ![c] = c_isidle[c]]
      /\ t_curspl = [t_curspl EXCEPT ![t] = spl]
      /\ t_iplhigh_count = [t_iplhigh_count EXCEPT ![t] = n]
  BY Running, Zenon
<1>2. PICK i \in Undoable(t) : s[i] = LockFrame(l) /\ stack' = [stack EXCEPT ![t] = RemoveAt(s, i)]
  BY Zenon DEF spinlock_release
<1>3. /\ Executing(c) /\ spllower(c) /\ lk_holder' = h
      /\ c_curthread' = c_curthread /\ c_isidle' = c_isidle /\ t_curspl' = t_curspl
  BY Zenon DEF spinlock_release
<1> DEFINE r == RemoveAt(s, i)
<1>4. i \in 1..Len(s) /\ (InInterrupt(t) => \E p \in 1..Len(s) : p < i /\ s[p].k = "irq")
  BY <1>1, UndoableIs, Zenon
<1>5. s[i].k = "lock" /\ s[i].l = l  BY <1>2, FrameFields
<1>6. Without(r, s, i)  BY <1>1, <1>4, RemoveAtIs, Zenon
<1> HIDE DEF r
<1>7. ThreadOK(r, spl, n - 1) /\ n \in Nat \ {0}  BY <1>1, <1>4, <1>5, <1>6, ThreadUnlocks, Zenon
<1>8. x \in Locks \cup CPUs /\ lk_holder[x] = c /\ HoldOK(c, r, h)
  <2>1. x = LockOf(c, s[i].l)  BY <1>5, Zenon
  <2>2. /\ s \in Seq(Frames) /\ Ordered(s) /\ HoldOK(c, s, lk_holder)
        /\ lk_holder \in [Locks \cup CPUs -> CPUs \cup {None}]
    BY <1>1, Zenon
  <2>3. /\ LockOf(c, s[i].l) \in Locks \cup CPUs /\ lk_holder[LockOf(c, s[i].l)] = c
        /\ HoldOK(c, r, Released(c, s, i, lk_holder))
    BY <2>2, <1>4, <1>5, <1>6, HoldPopLock, Zenon
  <2>4. QED  BY <2>1, <2>3, Zenon DEF Released
<1>9. IdleOK(r, c_isidle[c])
  <2>1. c_isidle[c] => InInterrupt(t)  BY <1>3 DEF Executing
  <2>2. QED  BY <2>1, <1>1, <1>4, <1>6, IdlePop, Zenon
<1>10. /\ h \in [Locks \cup CPUs -> CPUs \cup {None}]
       /\ \A d \in CPUs : d # c => \A k \in Locks \cup CPUs : h[k] = d <=> lk_holder[k] = d
  BY <1>1, <1>8 DEF SplAssumption
<1>11. t_iplhigh_count' = [t_iplhigh_count EXCEPT ![t] = n - 1] /\ irq' = [irq EXCEPT ![c] = (n - 1 = 0)]
  <2>1. /\ t_iplhigh_count' = [t_iplhigh_count EXCEPT ![t] = n - 1]
        /\ irq' = [irq EXCEPT ![c] = IF n = 1 THEN TRUE ELSE irq[c]]
    BY <1>1, <1>3 DEF spllower
  <2>2. (IF n = 1 THEN TRUE ELSE irq[c]) = (n = 1)
    <3>1. n # 1 => irq[c] = FALSE  BY <1>1, <1>7
    <3>2. QED  BY <3>1, Zenon
  <2>3. (n = 1) = (n - 1 = 0)  BY <1>1
  <2>4. QED  BY <2>1, <2>2, <2>3, Zenon
<1>12. /\ c_isidle' = [c_isidle EXCEPT ![c] = c_isidle[c]] /\ t_curspl' = [t_curspl EXCEPT ![t] = spl]
       /\ stack' = [stack EXCEPT ![t] = r]
  BY <1>1, <1>2, <1>3, Zenon DEF r
<1> HIDE DEF h
<1>13. Acts(c, r, spl, n - 1, c_isidle[c], h)
  BY <1>1, <1>3, <1>7, <1>8, <1>9, <1>10, <1>11, <1>12, Zenon DEF Acts
<1>14. QED  BY <1>13, OwnStep, Zenon

\* mips_trap is entered with interrupts off, and brings spl and count in line.
LEMMA InterruptKeeps ==
    ASSUME SplAssumption, SplInv, NEW c \in CPUs, Interrupt(c) PROVE SplInv'
<1> DEFINE t == c_curthread[c]
           s == stack[t]
           spl == t_curspl[t]
           n == t_iplhigh_count[t]
           adj == spl = IPL_NONE
           f == IrqFrame(adj, adj)
           r == Append(s, f)
           m == IF adj THEN n + 1 ELSE n
<1>1. /\ t \in Threads /\ ThreadOK(s, spl, n) /\ s \in Seq(Frames) /\ Ordered(s)
      /\ Len(s) \in Nat /\ DOMAIN s = 1..Len(s)
      /\ spl \in {IPL_NONE, IPL_HIGH} /\ n \in Nat /\ c_isidle[c] \in BOOLEAN
      /\ lk_holder \in [Locks \cup CPUs -> CPUs \cup {None}]
      /\ HoldOK(c, s, lk_holder) /\ IdleOK(s, c_isidle[c])
      /\ irq[c] \in BOOLEAN /\ (irq[c] <=> n = 0)
      /\ irq = [irq EXCEPT ![c] = (n = 0)]
      /\ c_isidle = [c_isidle EXCEPT ![c] = c_isidle[c]]
      /\ t_curspl = [t_curspl EXCEPT ![t] = spl]
      /\ t_iplhigh_count = [t_iplhigh_count EXCEPT ![t] = n]
  BY Running, Zenon
<1>2. n = Cardinality(Lk(s)) + spl /\ Cardinality(Lk(s)) \in Nat
      /\ (Cardinality(Lk(s)) = 0 <=> \A i \in 1..Len(s) : s[i].k # "lock")
  BY <1>1, LkFinite, Zenon DEF ThreadOK
<1>3. /\ irq[c] \/ (c_isidle[c] /\ lk_holder[c] # c /\ ~InInterrupt(t))
      /\ stack' = [stack EXCEPT ![t] = Append(s, IrqFrame(adj, irq[c]))]
      /\ irq' = [irq EXCEPT ![c] = FALSE]
      /\ t_curspl' = [t_curspl EXCEPT ![t] = IPL_HIGH]
      /\ t_iplhigh_count' = [t_iplhigh_count EXCEPT ![t] = IF adj THEN @ + 1 ELSE @]
      /\ c_curthread' = c_curthread /\ c_isidle' = c_isidle /\ lk_holder' = lk_holder
  BY Zenon DEF Interrupt, Push
<1>4. \A i \in 1..Len(s) : s[i].k # "lock"
  <2>1. CASE irq[c]
    BY <2>1, <1>1, <1>2 DEF IPL_NONE, IPL_HIGH
  <2>2. CASE c_isidle[c] /\ lk_holder[c] # c /\ ~InInterrupt(t)
    <3>1. SUFFICES ASSUME NEW i \in 1..Len(s), s[i].k = "lock" PROVE FALSE
      OBVIOUS
    <3>2. \A j \in 1..Len(s) : s[j].k # "irq"  BY <2>2, <1>1, Zenon DEF InInterrupt
    <3>3. s[i].l = "runqueue"  BY <2>2, <3>1, <3>2, <1>1, Zenon DEF IdleOK
    <3>4. LockOf(c, s[i].l) = c  BY <3>3, Zenon DEF LockOf
    <3>5. lk_holder[c] = c  BY <3>1, <3>4, <1>1, Zenon DEF HoldOK
    <3>6. QED  BY <3>5, <2>2
  <2>3. QED  BY <2>1, <2>2, <1>3
<1>5. n = spl /\ (irq[c] <=> adj)  BY <1>1, <1>2, <1>4 DEF IPL_NONE, IPL_HIGH
<1>6. irq[c] = adj /\ adj \in BOOLEAN  BY <1>1, <1>5
<1>7. ThreadOK(r, IPL_HIGH, m)  BY <1>1, <1>4, <1>6, ThreadInterrupted, Zenon
<1>8. f \in Frames /\ f.k # "lock"  BY <1>6, FrameFields, Zenon
<1>9. HoldOK(c, r, lk_holder) /\ IdleOK(r, c_isidle[c])  BY <1>1, <1>8, HoldPush, IdlePush, Zenon
<1>10. stack' = [stack EXCEPT ![t] = r]  BY <1>3, <1>6, Zenon
<1>11. t_iplhigh_count' = [t_iplhigh_count EXCEPT ![t] = m]  BY <1>1, <1>3
<1>12. irq' = [irq EXCEPT ![c] = (m = 0)]
  <2>1. m # 0  BY <1>1, <1>5 DEF IPL_NONE, IPL_HIGH
  <2> HIDE DEF m
  <2>2. (m = 0) = FALSE  BY <2>1
  <2>3. QED  BY <2>2, <1>3, Zenon
<1>13. c_isidle' = [c_isidle EXCEPT ![c] = c_isidle[c]]  BY <1>1, <1>3, Zenon
<1> HIDE DEF r, m
<1>14. Acts(c, r, IPL_HIGH, m, c_isidle[c], lk_holder)
  BY <1>1, <1>3, <1>7, <1>9, <1>10, <1>11, <1>12, <1>13, Zenon DEF Acts
<1>15. QED  BY <1>14, OwnStep, Zenon

\* mips_trap puts spl, count and interrupts back as they were.
LEMMA ReturnKeeps ==
    ASSUME SplAssumption, SplInv, NEW c \in CPUs, InterruptReturn(c) PROVE SplInv'
<1> DEFINE t == c_curthread[c]
           s == stack[t]
           spl == t_curspl[t]
           n == t_iplhigh_count[t]
           f == s[Len(s)]
           r == Front(s)
           high == IF f.doadjust THEN IPL_NONE ELSE IPL_HIGH
           m == IF f.doadjust THEN 0 ELSE 1
<1>1. /\ t \in Threads /\ ThreadOK(s, spl, n) /\ s \in Seq(Frames) /\ Ordered(s)
      /\ Len(s) \in Nat /\ DOMAIN s = 1..Len(s)
      /\ spl \in {IPL_NONE, IPL_HIGH} /\ n \in Nat /\ c_isidle[c] \in BOOLEAN
      /\ lk_holder \in [Locks \cup CPUs -> CPUs \cup {None}]
      /\ HoldOK(c, s, lk_holder) /\ IdleOK(s, c_isidle[c])
      /\ irq[c] \in BOOLEAN /\ (irq[c] <=> n = 0)
      /\ irq = [irq EXCEPT ![c] = (n = 0)]
      /\ c_isidle = [c_isidle EXCEPT ![c] = c_isidle[c]]
      /\ t_curspl = [t_curspl EXCEPT ![t] = spl]
      /\ t_iplhigh_count = [t_iplhigh_count EXCEPT ![t] = n]
  BY Running, Zenon
<1>2. /\ s # <<>> /\ f.k = "irq"
      /\ stack' = [stack EXCEPT ![t] = r]
      /\ t_curspl' = [t_curspl EXCEPT ![t] = IF f.doadjust THEN IPL_NONE ELSE @]
      /\ t_iplhigh_count' = [t_iplhigh_count EXCEPT ![t] = IF f.doadjust THEN @ - 1 ELSE @]
      /\ irq' = [irq EXCEPT ![c] = f.was]
      /\ c_curthread' = c_curthread /\ c_isidle' = c_isidle /\ lk_holder' = lk_holder
  BY Zenon DEF InterruptReturn, Top
<1>3. Len(s) \in 1..Len(s) /\ Without(r, s, Len(s))  BY <1>1, <1>2, FrontIs, Zenon
<1> HIDE DEF r
<1>4. /\ spl = IPL_HIGH /\ n = 1 /\ f.doadjust \in BOOLEAN /\ f.was \in BOOLEAN
      /\ f.was <=> f.doadjust
      /\ \A j \in 1..Len(r) : r[j].k # "lock"
      /\ ThreadOK(r, high, m)
  <2>1. ThreadOK(s, spl, n)  BY <1>1, Zenon
  <2>2. s # <<>> /\ s[Len(s)].k = "irq"  BY <1>2, Zenon
  <2> HIDE DEF s, spl, n
  <2>3. /\ spl = IPL_HIGH /\ n = 1
        /\ s[Len(s)].doadjust \in BOOLEAN /\ s[Len(s)].was \in BOOLEAN
        /\ s[Len(s)].was <=> s[Len(s)].doadjust
        /\ \A j \in 1..Len(s) : s[j].k # "lock"
        /\ \A j \in 1..Len(r) : r[j].k # "lock"
        /\ ThreadOK(r, IF s[Len(s)].doadjust THEN IPL_NONE ELSE IPL_HIGH,
                       IF s[Len(s)].doadjust THEN 0 ELSE 1)
    BY <2>1, <2>2, <1>3, ThreadReturns, ZenonT(60)
  <2>4. QED  BY <2>3, Zenon
<1>5. HoldOK(c, r, lk_holder)
  <2>1. s[Len(s)].k # "lock"  BY <1>2
  <2>2. QED  BY <2>1, <1>1, <1>3, HoldPop, Zenon
<1>6. IdleOK(r, c_isidle[c])  BY <1>4, Zenon DEF IdleOK
<1> HIDE DEF f
<1>7. t_curspl' = [t_curspl EXCEPT ![t] = high]  BY <1>1, <1>2, <1>4
<1>8. t_iplhigh_count' = [t_iplhigh_count EXCEPT ![t] = m]  BY <1>1, <1>2, <1>4
<1>9. irq' = [irq EXCEPT ![c] = (m = 0)]
  <2>1. f.was = (m = 0)  BY <1>4
  <2> HIDE DEF m
  <2>2. QED  BY <2>1, <1>2
<1>10. c_isidle' = [c_isidle EXCEPT ![c] = c_isidle[c]]  BY <1>1, <1>2, Zenon
<1> HIDE DEF m, high
<1>11. Acts(c, r, high, m, c_isidle[c], lk_holder)
  BY <1>1, <1>2, <1>4, <1>5, <1>6, <1>7, <1>8, <1>9, <1>10, Zenon DEF Acts
<1>12. QED  BY <1>11, OwnStep, Zenon

\* Two frames at once.
LEMMA TwoMore ==
    ASSUME NEW s \in Seq(Frames), NEW a \in Frames, NEW b \in Frames
    PROVE  s \o <<a, b>> = Append(Append(s, a), b)
OBVIOUS

\* thread_switch raises the spl and takes the run queue lock.
LEMMA EnterKeeps ==
    ASSUME SplAssumption, SplInv, NEW c \in CPUs, SwitchEnter(c) PROVE SplInv'
<1> DEFINE t == c_curthread[c]
           s == stack[t]
           spl == t_curspl[t]
           n == t_iplhigh_count[t]
           a == SplFrame(spl)
           b == LockFrame("runqueue")
           q == Append(s, a)
           r == Append(q, b)
           k == IF spl = IPL_NONE THEN n + 1 ELSE n
           h == [lk_holder EXCEPT ![c] = c]
<1>1. /\ t \in Threads /\ ThreadOK(s, spl, n) /\ s \in Seq(Frames) /\ Ordered(s)
      /\ Len(s) \in Nat /\ DOMAIN s = 1..Len(s)
      /\ spl \in {IPL_NONE, IPL_HIGH} /\ n \in Nat /\ c_isidle[c] \in BOOLEAN
      /\ lk_holder \in [Locks \cup CPUs -> CPUs \cup {None}]
      /\ HoldOK(c, s, lk_holder) /\ IdleOK(s, c_isidle[c])
      /\ irq[c] \in BOOLEAN /\ (irq[c] <=> n = 0)
      /\ irq = [irq EXCEPT ![c] = (n = 0)]
      /\ c_isidle = [c_isidle EXCEPT ![c] = c_isidle[c]]
      /\ t_curspl = [t_curspl EXCEPT ![t] = spl]
      /\ t_iplhigh_count = [t_iplhigh_count EXCEPT ![t] = n]
  BY Running, Zenon
<1>2. /\ ~c_isidle[c] /\ ~HoldsALock(t) /\ lk_holder[c] = None
      /\ stack' = [stack EXCEPT ![t] = s \o <<a, b>>]
      /\ t_curspl' = [t_curspl EXCEPT ![t] = IPL_HIGH]
      /\ t_iplhigh_count' = [t_iplhigh_count EXCEPT ![t] = IF spl = IPL_NONE THEN @ + 2 ELSE @ + 1]
      /\ irq' = [irq EXCEPT ![c] = FALSE]
      /\ lk_holder' = h
      /\ c_curthread' = c_curthread /\ c_isidle' = c_isidle
  BY DEF SwitchEnter
<1>3. a \in Frames /\ a.k # "lock" /\ b \in Frames  BY <1>1, FrameFields
<1>4. s \o <<a, b>> = r
  <2> HIDE DEF a, b
  <2>1. QED  BY <1>1, <1>3, TwoMore, SMTT(30)
<1>5. ThreadOK(q, IPL_HIGH, k)  BY <1>1, ThreadRaises, Zenon
<1>6. HoldOK(c, q, lk_holder)  BY <1>1, <1>3, HoldPush, Zenon
<1>7. q \in Seq(Frames) /\ \A i \in 1..Len(q) : q[i].k # "lock"
  <2>1. \A i \in 1..Len(s) : s[i].k # "lock"  BY <1>1, <1>2, Zenon DEF HoldsALock
  <2> HIDE DEF a
  <2>2. q \in Seq(Frames) /\ Len(q) = Len(s) + 1 /\ q[Len(s) + 1] = a /\ \A i \in 1..Len(s) : q[i] = s[i]
    BY <1>1, <1>3
  <2>3. QED  BY <2>1, <2>2, <1>1, <1>3
<1>8. LockOf(c, "runqueue") = c  BY DEF LockOf
<1> HIDE DEF q
<1>9. ThreadOK(r, IPL_HIGH, k + 1)  BY <1>5, <1>7, ThreadLocks, Zenon
<1>10. HoldOK(c, r, h)
  <2>1. "runqueue" \in Locks \cup CPUs \cup {"runqueue"}  OBVIOUS
  <2>2. HoldOK(c, r, [lk_holder EXCEPT ![LockOf(c, "runqueue")] = c])
    BY <2>1, <1>1, <1>2, <1>6, <1>7, <1>8, HoldPushLock, Zenon
  <2>3. QED  BY <2>2, <1>8, Zenon
<1>11. IdleOK(r, c_isidle[c])  BY <1>2, Zenon DEF IdleOK
<1>12. /\ h \in [Locks \cup CPUs -> CPUs \cup {None}]
       /\ \A d \in CPUs : d # c => \A l \in Locks \cup CPUs : h[l] = d <=> lk_holder[l] = d
  BY <1>1, <1>2, SMTT(30) DEF SplAssumption
<1>13. t_iplhigh_count' = [t_iplhigh_count EXCEPT ![t] = k + 1]
  <2>1. (IF spl = IPL_NONE THEN n + 2 ELSE n + 1) = k + 1  BY <1>1
  <2>2. t_iplhigh_count' = [t_iplhigh_count EXCEPT ![t] = IF spl = IPL_NONE THEN n + 2 ELSE n + 1]
    BY <1>1, <1>2
  <2>3. QED  BY <2>1, <2>2, Zenon
<1>14. irq' = [irq EXCEPT ![c] = (k + 1 = 0)]
  <2>1. k \in Nat  BY <1>1
  <2> HIDE DEF k
  <2>2. (k + 1 = 0) = FALSE  BY <2>1
  <2>3. QED  BY <2>2, <1>2, Zenon
<1>15. c_isidle' = [c_isidle EXCEPT ![c] = c_isidle[c]] /\ stack' = [stack EXCEPT ![t] = r]
  BY <1>1, <1>2, <1>4, Zenon
<1> HIDE DEF r, k, h
<1>16. Acts(c, r, IPL_HIGH, k + 1, c_isidle[c], h)
  BY <1>1, <1>2, <1>9, <1>10, <1>11, <1>12, <1>13, <1>14, <1>15, Zenon DEF Acts
<1>17. QED  BY <1>16, OwnStep, Zenon

\* The idle loop lets go of the run queue lock and stays at splhigh.
LEMMA IdleKeeps ==
    ASSUME SplAssumption, SplInv, NEW c \in CPUs, SwitchIdle(c) PROVE SplInv'
<1> DEFINE t == c_curthread[c]
           s == stack[t]
           spl == t_curspl[t]
           n == t_iplhigh_count[t]
           i == Len(s)
           r == Front(s)
           h == [lk_holder EXCEPT ![c] = None]
<1>1. /\ t \in Threads /\ ThreadOK(s, spl, n) /\ s \in Seq(Frames) /\ Ordered(s)
      /\ Len(s) \in Nat /\ DOMAIN s = 1..Len(s)
      /\ spl \in {IPL_NONE, IPL_HIGH} /\ n \in Nat /\ c_isidle[c] \in BOOLEAN
      /\ lk_holder \in [Locks \cup CPUs -> CPUs \cup {None}]
      /\ HoldOK(c, s, lk_holder) /\ IdleOK(s, c_isidle[c])
      /\ irq[c] \in BOOLEAN /\ (irq[c] <=> n = 0)
      /\ irq = [irq EXCEPT ![c] = (n = 0)]
      /\ c_isidle = [c_isidle EXCEPT ![c] = c_isidle[c]]
      /\ t_curspl = [t_curspl EXCEPT ![t] = spl]
      /\ t_iplhigh_count = [t_iplhigh_count EXCEPT ![t] = n]
  BY Running, Zenon
<1>2. /\ Len(s) >= 2 /\ s[Len(s)] = LockFrame("runqueue") /\ ~InInterrupt(t)
      /\ stack' = [stack EXCEPT ![t] = r]
      /\ lk_holder' = h /\ spllower(c)
      /\ c_isidle' = [c_isidle EXCEPT ![c] = TRUE]
      /\ c_curthread' = c_curthread /\ t_curspl' = t_curspl
  BY DEF SwitchIdle, InSwitch, Top
<1>3. /\ s # <<>> /\ s[i].k = "lock" /\ s[i].l = "runqueue"
      /\ \A j \in 1..Len(s) : s[j].k = "lock" => j = i
  BY <1>1, <1>2, SwitchStack, Zenon
<1>4. i \in 1..Len(s) /\ Without(r, s, i)  BY <1>1, <1>3, FrontIs, Zenon
<1> HIDE DEF r, i
<1>5. ThreadOK(r, spl, n - 1) /\ n \in Nat \ {0}  BY <1>1, <1>3, <1>4, ThreadUnlocks, Zenon
<1>6. LockOf(c, s[i].l) = c  BY <1>3, Zenon DEF LockOf
<1>7. lk_holder[c] = c /\ HoldOK(c, r, h)
  <2>1. /\ s \in Seq(Frames) /\ Ordered(s) /\ HoldOK(c, s, lk_holder)
        /\ lk_holder \in [Locks \cup CPUs -> CPUs \cup {None}] /\ s[i].k = "lock"
    BY <1>1, <1>3, Zenon
  <2>2. /\ LockOf(c, s[i].l) \in Locks \cup CPUs /\ lk_holder[LockOf(c, s[i].l)] = c
        /\ HoldOK(c, r, Released(c, s, i, lk_holder))
    BY <2>1, <1>4, HoldPopLock, ZenonT(30)
  <2>3. QED  BY <2>2, <1>6, Zenon DEF Released
<1>8. IdleOK(r, TRUE)
  <2>1. OneLess(r, s, i)  BY <1>1, <1>4, Popped, Zenon
  <2>2. \A j \in 1..Len(r) : r[j].k # "lock"  BY <2>1, <1>3, Zenon DEF OneLess
  <2>3. QED  BY <2>2, Zenon DEF IdleOK
<1>9. /\ h \in [Locks \cup CPUs -> CPUs \cup {None}]
      /\ \A d \in CPUs : d # c => \A l \in Locks \cup CPUs : h[l] = d <=> lk_holder[l] = d
  BY <1>1, <1>7 DEF SplAssumption
<1>10. t_iplhigh_count' = [t_iplhigh_count EXCEPT ![t] = n - 1] /\ irq' = [irq EXCEPT ![c] = (n - 1 = 0)]
  <2>1. /\ t_iplhigh_count' = [t_iplhigh_count EXCEPT ![t] = n - 1]
        /\ irq' = [irq EXCEPT ![c] = IF n = 1 THEN TRUE ELSE irq[c]]
    BY <1>1, <1>2 DEF spllower
  <2>2. (IF n = 1 THEN TRUE ELSE irq[c]) = (n = 1)
    <3>1. n # 1 => irq[c] = FALSE  BY <1>1, <1>5
    <3>2. QED  BY <3>1, Zenon
  <2>3. (n = 1) = (n - 1 = 0)  BY <1>1
  <2>4. QED  BY <2>1, <2>2, <2>3, Zenon
<1>11. t_curspl' = [t_curspl EXCEPT ![t] = spl] /\ TRUE \in BOOLEAN  BY <1>1, <1>2, Zenon
<1> HIDE DEF h
<1>12. Acts(c, r, spl, n - 1, TRUE, h)
  BY <1>1, <1>2, <1>5, <1>7, <1>8, <1>9, <1>10, <1>11, Zenon DEF Acts
<1>13. QED  BY <1>12, OwnStep, Zenon

\* The idle loop takes the run queue lock again.
LEMMA UnidleKeeps ==
    ASSUME SplAssumption, SplInv, NEW c \in CPUs, SwitchUnidle(c) PROVE SplInv'
<1> DEFINE t == c_curthread[c]
           s == stack[t]
           spl == t_curspl[t]
           n == t_iplhigh_count[t]
           b == LockFrame("runqueue")
           r == Append(s, b)
           h == [lk_holder EXCEPT ![c] = c]
<1>1. /\ t \in Threads /\ ThreadOK(s, spl, n) /\ s \in Seq(Frames) /\ Ordered(s)
      /\ Len(s) \in Nat /\ DOMAIN s = 1..Len(s)
      /\ spl \in {IPL_NONE, IPL_HIGH} /\ n \in Nat /\ c_isidle[c] \in BOOLEAN
      /\ lk_holder \in [Locks \cup CPUs -> CPUs \cup {None}]
      /\ HoldOK(c, s, lk_holder) /\ IdleOK(s, c_isidle[c])
      /\ irq[c] \in BOOLEAN /\ (irq[c] <=> n = 0)
      /\ irq = [irq EXCEPT ![c] = (n = 0)]
      /\ c_isidle = [c_isidle EXCEPT ![c] = c_isidle[c]]
      /\ t_curspl = [t_curspl EXCEPT ![t] = spl]
      /\ t_iplhigh_count = [t_iplhigh_count EXCEPT ![t] = n]
  BY Running, Zenon
<1>2. /\ c_isidle[c] /\ lk_holder[c] = None /\ ~InInterrupt(t)
      /\ stack' = [stack EXCEPT ![t] = r]
      /\ splraise(c) /\ lk_holder' = h
      /\ c_curthread' = c_curthread /\ c_isidle' = c_isidle /\ t_curspl' = t_curspl
  BY Zenon DEF SwitchUnidle, Push
<1>3. \A i \in 1..Len(s) : s[i].k # "lock"
  <2>1. SUFFICES ASSUME NEW i \in 1..Len(s), s[i].k = "lock" PROVE FALSE
    OBVIOUS
  <2>2. \A j \in 1..Len(s) : s[j].k # "irq"  BY <1>1, <1>2, Zenon DEF InInterrupt
  <2>3. s[i].l = "runqueue"  BY <2>1, <2>2, <1>1, <1>2, Zenon DEF IdleOK
  <2>4. LockOf(c, s[i].l) = c  BY <2>3, Zenon DEF LockOf
  <2>5. lk_holder[c] = c  BY <2>1, <2>4, <1>1, Zenon DEF HoldOK
  <2>6. QED  BY <2>5, <1>2 DEF SplAssumption
<1>4. "runqueue" \in Locks \cup CPUs \cup {"runqueue"} /\ LockOf(c, "runqueue") = c  BY DEF LockOf
<1>5. ThreadOK(r, spl, n + 1)  BY <1>1, <1>3, <1>4, ThreadLocks, Zenon
<1>6. HoldOK(c, r, h)
  <2>1. HoldOK(c, r, [lk_holder EXCEPT ![LockOf(c, "runqueue")] = c])
    BY <1>1, <1>2, <1>4, HoldPushLock, Zenon
  <2>2. QED  BY <2>1, <1>4, Zenon
<1>7. IdleOK(r, c_isidle[c])
  <2>1. b \in Frames /\ b.l = "runqueue"  BY <1>4, FrameFields, Zenon
  <2> HIDE DEF b
  <2>2. \A i \in 1..Len(r) : (i \in 1..Len(s) /\ r[i] = s[i]) \/ r[i] = b  BY <2>1, <1>1, SMTT(30)
  <2>3. QED  BY <2>1, <2>2, <1>3, Zenon DEF IdleOK
<1>8. /\ h \in [Locks \cup CPUs -> CPUs \cup {None}]
      /\ \A d \in CPUs : d # c => \A l \in Locks \cup CPUs : h[l] = d <=> lk_holder[l] = d
  BY <1>1, <1>2 DEF SplAssumption
<1>9. t_iplhigh_count' = [t_iplhigh_count EXCEPT ![t] = n + 1] /\ irq' = [irq EXCEPT ![c] = (n + 1 = 0)]
  <2>1. irq' = [irq EXCEPT ![c] = IF n = 0 THEN FALSE ELSE irq[c]]
        /\ t_iplhigh_count' = [t_iplhigh_count EXCEPT ![t] = n + 1]
    BY <1>1, <1>2 DEF splraise
  <2>2. (IF n = 0 THEN FALSE ELSE irq[c]) = FALSE  BY <1>1
  <2>3. (n + 1 = 0) = FALSE  BY <1>1
  <2>4. QED  BY <2>1, <2>2, <2>3, Zenon
<1>10. c_isidle' = [c_isidle EXCEPT ![c] = c_isidle[c]] /\ t_curspl' = [t_curspl EXCEPT ![t] = spl]
  BY <1>1, <1>2, Zenon
<1> HIDE DEF r, h
<1>11. Acts(c, r, spl, n + 1, c_isidle[c], h)
  BY <1>1, <1>2, <1>5, <1>6, <1>7, <1>8, <1>9, <1>10, Zenon DEF Acts
<1>12. QED  BY <1>11, OwnStep, Zenon

\* The run queue lock goes from the thread that leaves the CPU to the one that
\* enters it; each has no other.
LEMMA SwitchKeeps ==
    ASSUME SplAssumption, SplInv, NEW c \in CPUs, NEW u \in Threads, SwitchTo(c, u) PROVE SplInv'
<1> DEFINE t == c_curthread[c]
           s == stack[t]
           spl == t_curspl[t]
           n == t_iplhigh_count[t]
           v == stack[u]
<1>1. /\ t \in Threads /\ ThreadOK(s, spl, n) /\ s \in Seq(Frames) /\ Ordered(s)
      /\ Len(s) \in Nat /\ DOMAIN s = 1..Len(s)
      /\ spl \in {IPL_NONE, IPL_HIGH} /\ n \in Nat /\ c_isidle[c] \in BOOLEAN
      /\ lk_holder \in [Locks \cup CPUs -> CPUs \cup {None}]
      /\ HoldOK(c, s, lk_holder) /\ IdleOK(s, c_isidle[c])
      /\ irq[c] \in BOOLEAN /\ (irq[c] <=> n = 0)
      /\ irq = [irq EXCEPT ![c] = (n = 0)]
      /\ c_isidle = [c_isidle EXCEPT ![c] = c_isidle[c]]
      /\ t_curspl = [t_curspl EXCEPT ![t] = spl]
      /\ t_iplhigh_count = [t_iplhigh_count EXCEPT ![t] = n]
  BY Running, Zenon
<1>2. /\ InSwitch(t) /\ InSwitch(u) /\ lk_holder[c] = c /\ \A d \in CPUs : d # c => c_curthread[d] # u
      /\ c_curthread' = [c_curthread EXCEPT ![c] = u]
      /\ c_isidle' = [c_isidle EXCEPT ![c] = FALSE]
      /\ irq' = irq /\ t_curspl' = t_curspl /\ t_iplhigh_count' = t_iplhigh_count /\ stack' = stack
      /\ lk_holder' = lk_holder
  BY Zenon DEF SwitchTo
<1>3. ThreadOK(v, t_curspl[u], t_iplhigh_count[u]) /\ TypeOK /\ IsInjective(c_curthread)  BY DEF SplInv
<1>4. /\ Len(s) >= 2 /\ s[Len(s)] = LockFrame("runqueue")
      /\ Len(v) >= 2 /\ v[Len(v)] = LockFrame("runqueue")
  BY <1>2 DEF InSwitch, Top
<1>5. /\ Len(s) \in 1..Len(s) /\ s[Len(s)].k = "lock" /\ s[Len(s)].l = "runqueue"
      /\ \A i \in 1..Len(s) : s[i].k = "lock" => i = Len(s)
      /\ n # 0
  <2>1. ThreadOK(s, spl, n)  BY <1>1, Zenon
  <2> HIDE DEF s, spl, n
  <2>2. QED  BY <2>1, <1>4, SwitchStack, ZenonT(30)
<1>6. /\ Len(v) \in 1..Len(v) /\ v[Len(v)].k = "lock" /\ v[Len(v)].l = "runqueue"
      /\ \A i \in 1..Len(v) : v[i].k = "lock" => i = Len(v)
      /\ t_iplhigh_count[u] # 0
  BY <1>3, <1>4, SwitchStack, Zenon
<1>7. LockOf(c, "runqueue") = c  BY DEF LockOf
<1>8. HoldOK(c, v, lk_holder)
  <2>1. ASSUME NEW l \in Locks \cup CPUs
        PROVE  lk_holder[l] = c <=> \E i \in 1..Len(v) : v[i].k = "lock" /\ LockOf(c, v[i].l) = l
    <3>1. lk_holder[l] = c <=> \E i \in 1..Len(s) : s[i].k = "lock" /\ LockOf(c, s[i].l) = l
      BY <1>1, Zenon DEF HoldOK
    <3>2. (\E i \in 1..Len(s) : s[i].k = "lock" /\ LockOf(c, s[i].l) = l) <=> l = c  BY <1>5, <1>7, Zenon
    <3>3. (\E i \in 1..Len(v) : v[i].k = "lock" /\ LockOf(c, v[i].l) = l) <=> l = c  BY <1>6, <1>7, Zenon
    <3>4. QED  BY <3>1, <3>2, <3>3, Zenon
  <2>2. QED  BY <2>1, <1>6, Zenon DEF HoldOK
<1>9. c_curthread'[c] = u /\ c_isidle'[c] = FALSE
      /\ \A d \in CPUs : d # c => c_curthread'[d] = c_curthread[d] /\ c_isidle'[d] = c_isidle[d]
  BY <1>2, <1>3 DEF TypeOK
<1>10. TypeOK'  BY <1>2, <1>3 DEF TypeOK
<1>11. IsInjective(c_curthread)'
  <2>1. DOMAIN c_curthread' = CPUs /\ DOMAIN c_curthread = CPUs  BY <1>2, <1>3 DEF TypeOK
  <2>2. \A d, e \in CPUs : c_curthread'[d] = c_curthread'[e] => d = e
    BY <1>2, <1>3, <1>9, <2>1, Zenon DEF IsInjective
  <2>3. QED  BY <2>1, <2>2, Zenon DEF IsInjective
<1>12. ASSUME NEW w \in Threads PROVE ThreadOK(stack'[w], t_curspl'[w], t_iplhigh_count'[w])
  <2>1. ThreadOK(stack[w], t_curspl[w], t_iplhigh_count[w])  BY DEF SplInv
  <2>2. QED  BY <2>1, <1>2
<1>13. ASSUME NEW d \in CPUs
       PROVE  LET w == c_curthread'[d] IN
              /\ irq'[d] <=> t_iplhigh_count'[w] = 0
              /\ HoldOK(d, stack'[w], lk_holder')
              /\ IdleOK(stack'[w], c_isidle'[d])
  <2>1. CASE d = c
    <3>1. irq[c] = FALSE  BY <1>1, <1>5
    <3>2. IdleOK(v, FALSE)  BY Zenon DEF IdleOK
    <3>3. QED  BY <2>1, <3>1, <3>2, <1>2, <1>6, <1>8, <1>9, Zenon
  <2>2. CASE d # c
    <3> DEFINE w == c_curthread[d]
    <3>1. /\ irq[d] <=> t_iplhigh_count[w] = 0
          /\ HoldOK(d, stack[w], lk_holder)
          /\ IdleOK(stack[w], c_isidle[d])
      BY DEF SplInv
    <3>2. c_curthread'[d] = w /\ c_isidle'[d] = c_isidle[d]  BY <2>2, <1>9
    <3> HIDE DEF w
    <3>3. QED  BY <3>1, <3>2, <1>2, SMTT(30)
  <2>3. QED  BY <2>1, <2>2
<1>14. QED  BY <1>10, <1>11, <1>12, <1>13, Zenon DEF SplInv

-----------------------------------------------------------------------------
\* The state in which the threads of the CPUs start, and the others wait to be
\* switched to for the first time.
LEMMA SplStarts == SplAssumption /\ Init => SplInv
<1> SUFFICES ASSUME SplAssumption, Init PROVE SplInv
  OBVIOUS
<1> DEFINE a == SplFrame(IPL_NONE)
           b == LockFrame("runqueue")
           e == <<>>
<1>1. Boot \in [CPUs -> Threads] /\ c_curthread = Boot  BY DEF SplAssumption, Init
<1>2. a \in Frames /\ b \in Frames  BY FrameFields
<1>3. e \in Seq(Frames) /\ Len(e) = 0  OBVIOUS
<1>4. TypeOK
  <2>1. e \in Seq(Frames) /\ NewStack \in Seq(Frames)
    <3>1. <<a, b>> \in Seq(Frames)
      <4> HIDE DEF a, b
      <4>1. QED  BY <1>2
    <3>2. QED  BY <3>1, <1>3 DEF NewStack
  <2> HIDE DEF e
  <2>2. stack \in [Threads -> Seq(Frames)]  BY <2>1 DEF Init, e
  <2>3. /\ irq \in [CPUs -> BOOLEAN] /\ c_isidle \in [CPUs -> BOOLEAN]
        /\ t_curspl \in [Threads -> {IPL_NONE, IPL_HIGH}] /\ t_iplhigh_count \in [Threads -> Nat]
        /\ lk_holder \in [Locks \cup CPUs -> CPUs \cup {None}]
    BY DEF Init
  <2>4. QED  BY <2>2, <2>3, <1>1 DEF TypeOK
<1>5. IsInjective(c_curthread)  BY <1>1 DEF SplAssumption
<1>6. ThreadOK(e, IPL_NONE, 0)
  <2>1. Ordered(e) /\ \A i \in 1..Len(e) : e[i].k # "lock"  BY <1>3 DEF Ordered
  <2>2. ~ \E i \in 1..Len(e) : e[i].k # "lock"  BY <1>3
  <2> HIDE DEF e
  <2>3. Cardinality(Lk(e)) = 0  BY <1>3, <2>1, LkFinite, Zenon
  <2>4. QED  BY <2>1, <2>2, <2>3, <1>3 DEF ThreadOK, IPL_NONE
<1>7. ThreadOK(NewStack, IPL_HIGH, 2)
  <2> DEFINE q == Append(e, a)
  <2>1. ThreadOK(q, IPL_HIGH, 1)
    <3>1. ThreadOK(Append(e, SplFrame(IPL_NONE)), IPL_HIGH, IF IPL_NONE = IPL_NONE THEN 0 + 1 ELSE 0)
      BY <1>6, ThreadRaises, Zenon
    <3>2. QED  BY <3>1
  <2>2. \A i \in 1..Len(q) : q[i].k # "lock"
    <3>1. a.k # "lock"  BY FrameFields
    <3> HIDE DEF a
    <3>2. Len(q) = 1 /\ q[1] = a  BY <1>2, <1>3
    <3>3. QED  BY <3>1, <3>2
  <2>3. e \o <<a, b>> = Append(q, b)
    <3> HIDE DEF a, b
    <3>1. QED  BY <1>2, <1>3, TwoMore
  <2>4. NewStack = Append(q, b)
    <3>1. NewStack = <<a, b>>  BY DEF NewStack
    <3> HIDE DEF a, b
    <3>2. e \o <<a, b>> = <<a, b>>  BY <1>2
    <3>3. QED  BY <3>1, <3>2, <2>3
  <2> HIDE DEF q
  <2>5. "runqueue" \in Locks \cup CPUs \cup {"runqueue"}  OBVIOUS
  <2>6. ThreadOK(Append(q, b), IPL_HIGH, 1 + 1)  BY <2>1, <2>2, <2>5, ThreadLocks, Zenon
  <2>7. QED  BY <2>4, <2>6
<1>8. ASSUME NEW t \in Threads PROVE ThreadOK(stack[t], t_curspl[t], t_iplhigh_count[t])
  <2> HIDE DEF e
  <2>1. CASE t \in Range(Boot)
    <3>1. stack[t] = e /\ t_curspl[t] = IPL_NONE /\ t_iplhigh_count[t] = 0  BY <2>1 DEF Init, e
    <3>2. QED  BY <3>1, <1>6
  <2>2. CASE t \notin Range(Boot)
    <3>1. stack[t] = NewStack /\ t_curspl[t] = IPL_HIGH /\ t_iplhigh_count[t] = 2  BY <2>2 DEF Init
    <3>2. QED  BY <3>1, <1>7
  <2>3. QED  BY <2>1, <2>2
<1>9. ASSUME NEW c \in CPUs
      PROVE  LET t == c_curthread[c] IN
             /\ irq[c] <=> t_iplhigh_count[t] = 0
             /\ HoldOK(c, stack[t], lk_holder)
             /\ IdleOK(stack[t], c_isidle[c])
  <2> DEFINE t == Boot[c]
  <2>1. t \in Range(Boot) /\ t \in Threads /\ c_curthread[c] = t  BY <1>1 DEF Range
  <2> HIDE DEF t
  <2>2. stack[t] = e /\ t_iplhigh_count[t] = 0 /\ irq[c] = TRUE /\ c_isidle[c] = FALSE  BY <2>1 DEF Init
  <2>3. \A l \in Locks \cup CPUs : lk_holder[l] # c  BY DEF Init, SplAssumption
  <2>4. 1..Len(e) = {}  BY <1>3
  <2> HIDE DEF e
  <2>5. HoldOK(c, e, lk_holder)  BY <2>3, <2>4, Zenon DEF HoldOK
  <2>6. IdleOK(e, FALSE)  BY Zenon DEF IdleOK
  <2>7. QED  BY <2>1, <2>2, <2>5, <2>6, Zenon
<1>10. QED  BY <1>4, <1>5, <1>8, <1>9, Zenon DEF SplInv

\* Every step keeps the invariant.
LEMMA SplSteps == ASSUME SplAssumption, SplInv, [Next]_vars PROVE SplInv'
<1>1. CASE UNCHANGED vars
  BY <1>1 DEF vars, SplInv, TypeOK
<1>2. CASE Next
  <2>1. PICK c \in CPUs :
            \/ splhigh(c) \/ splx(c)
            \/ \E l \in Locks \cup CPUs : spinlock_acquire(c, l)
            \/ \E l \in Locks \cup CPUs \cup {"runqueue"} : spinlock_release(c, l)
            \/ Interrupt(c) \/ InterruptReturn(c)
            \/ SwitchEnter(c) \/ SwitchIdle(c) \/ SwitchUnidle(c)
            \/ \E u \in Threads : SwitchTo(c, u)
    BY <1>2, Zenon DEF Next
  <2>2. QED
    BY <2>1, SplhighKeeps, SplxKeeps, AcquireKeeps, ReleaseKeeps, InterruptKeeps, ReturnKeeps,
       EnterKeeps, IdleKeeps, UnidleKeeps, SwitchKeeps, Zenon
<1>3. QED  BY <1>1, <1>2

\* The invariant says what was promised.
LEMMA SplImplies == ASSUME SplAssumption, SplInv PROVE InterruptsMatchLocks
<1>1. TypeOK  BY SMTT(30) DEF SplInv
<1>2. ASSUME NEW t \in Threads
      PROVE  /\ stack[t] \in Seq(Frames) /\ DOMAIN stack[t] = 1..Len(stack[t]) /\ LockFrames(t) = Lk(stack[t])
             /\ ThreadOK(stack[t], t_curspl[t], t_iplhigh_count[t])
  <2>1. ThreadOK(stack[t], t_curspl[t], t_iplhigh_count[t])  BY DEF SplInv
  <2>2. stack[t] \in Seq(Frames)  BY <2>1 DEF ThreadOK
  <2>3. DOMAIN stack[t] = 1..Len(stack[t])  BY <2>2
  <2>4. QED  BY <2>1, <2>2, <2>3, Zenon DEF LockFrames, Lk
<1>3. CountIsExact  BY <1>2, Zenon DEF CountIsExact, ThreadOK
<1>4. IrqMatchesCount  BY DEF IrqMatchesCount, SplInv
<1>5. HolderHasFrame
  <2>1. SUFFICES ASSUME NEW c \in CPUs, NEW l \in Locks \cup CPUs
                 PROVE  lk_holder[l] = c <=>
                            \E i \in DOMAIN stack[c_curthread[c]] :
                                LET f == stack[c_curthread[c]][i] IN f.k = "lock" /\ LockOf(c, f.l) = l
    BY Zenon DEF HolderHasFrame
  <2> DEFINE s == stack[c_curthread[c]]
  <2>2. c_curthread[c] \in Threads /\ HoldOK(c, s, lk_holder)  BY Running, Zenon
  <2>3. DOMAIN s = 1..Len(s)  BY <2>2, <1>2, Zenon
  <2> HIDE DEF s
  <2>4. lk_holder[l] = c <=> \E i \in DOMAIN s : s[i].k = "lock" /\ LockOf(c, s[i].l) = l
    BY <2>2, <2>3, Zenon DEF HoldOK
  <2>5. QED  BY <2>4, Zenon DEF s
<1>6. NoLockWithInterruptsOn
  <2>1. SUFFICES ASSUME NEW c \in CPUs, irq[c], NEW l \in Locks \cup CPUs, lk_holder[l] = c PROVE FALSE
    BY Zenon DEF NoLockWithInterruptsOn
  <2> DEFINE t == c_curthread[c]
             s == stack[t]
  <2>2. t \in Threads /\ s \in Seq(Frames) /\ HoldOK(c, s, lk_holder) /\ t_iplhigh_count[t] = 0
    BY <2>1, Running, Zenon
  <2>3. PICK i \in 1..Len(s) : s[i].k = "lock"  BY <2>1, <2>2, Zenon DEF HoldOK
  <2>4. Cardinality(Lk(s)) \in Nat \ {0}  BY <2>2, <2>3, LkFinite
  <2>5. t_iplhigh_count[t] = Cardinality(Lk(s)) + t_curspl[t] /\ t_curspl[t] \in {IPL_NONE, IPL_HIGH}
    BY <2>2, <1>2, Zenon DEF ThreadOK
  <2>6. QED  BY <2>2, <2>4, <2>5 DEF IPL_NONE, IPL_HIGH
<1>7. InterruptReturnsClean
  <2>1. SUFFICES ASSUME NEW c \in CPUs, stack[c_curthread[c]] # <<>>, Top(c_curthread[c]).k = "irq"
                 PROVE  t_curspl[c_curthread[c]] = IPL_HIGH /\ t_iplhigh_count[c_curthread[c]] = 1
    BY Zenon DEF InterruptReturnsClean
  <2> DEFINE t == c_curthread[c]
             s == stack[t]
  <2>2. t \in Threads /\ s \in Seq(Frames) /\ ThreadOK(s, t_curspl[t], t_iplhigh_count[t])
    BY Running, Zenon
  <2>3. s[Len(s)].k = "irq"  BY <2>1 DEF Top
  <2>4. Without(Front(s), s, Len(s))  BY <2>1, <2>2, FrontIs, Zenon
  <2>5. QED  BY <2>1, <2>2, <2>3, <2>4, ThreadReturns
<1>8. QED  BY <1>1, <1>3, <1>4, <1>5, <1>6, <1>7 DEF InterruptsMatchLocks

\* splraise, spllower and the spinlocks, for any CPUs, threads and locks: a
\* processor takes interrupts exactly while the count of its thread is zero, the
\* count is exact, no CPU that takes interrupts holds a spinlock, every spinlock
\* held is one that the current thread has to release, and mips_trap's
\* assertions at the end of an interrupt hold.
THEOREM SpinlocksMaskInterrupts == ASSUME SplAssumption PROVE Spec => []InterruptsMatchLocks
<1>1. Init => SplInv  BY SplStarts
<1>2. SplInv /\ [Next]_vars => SplInv'  BY SplSteps
<1>3. SplInv => InterruptsMatchLocks  BY SplImplies
<1>4. QED  BY <1>1, <1>2, <1>3, PTL DEF Spec

-----------------------------------------------------------------------------
(* Idling and interprocessor interrupts.                                   *)
CONSTANTS StopCodes, MaxQueue

VARIABLES pc, back, tgt, todo, code, queue, ipi_isidle, c_ipi_pending, line, runqueue_lock, ipi_lock

I == INSTANCE Ipi WITH c_isidle <- ipi_isidle

\* Proof of RunnableSeen for any set of CPUs.  It is inductive together with
\* two facts: who waits has c_isidle set, so that no thread is put on its
\* queue without an IPI, and a broadcast under way has its code.
WaitIsIdle == \A c \in CPUs : pc[c] = "wait" => ipi_isidle[c]
CodeIsSet == \A c \in CPUs : pc[c] = "broadcast" => code \in StopCodes

IInv == I!TypeOK /\ WaitIsIdle /\ CodeIsSet /\ I!RunnableSeen

\* It holds when the CPUs have started.
LEMMA InitIInv == ASSUME I!IpiAssumption PROVE I!Init => IInv
<1> SUFFICES ASSUME I!Init PROVE IInv  OBVIOUS
<1>1. I!TypeOK  BY I!IpiAssumption DEF I!IpiAssumption, I!Init, I!TypeOK, I!Locations
<1>2. \A c \in CPUs : pc[c] = (IF c = 0 THEN "run" ELSE "wait") /\ ipi_isidle[c] = (c # 0) /\ queue[c] = 0
      BY DEF I!Init
<1>3. WaitIsIdle  BY <1>2, Zenon DEF WaitIsIdle
<1>4. CodeIsSet /\ I!RunnableSeen  BY <1>2 DEF CodeIsSet, I!RunnableSeen
<1> QED  BY <1>1, <1>3, <1>4 DEF IInv

\* thread_make_runnable keeps it: a waiting target is idle, and then its caller
\* is about to send the IPI.
LEMMA RunnableIInv ==
    ASSUME I!IpiAssumption, IInv, NEW c \in CPUs, NEW t \in CPUs,
           I!make_runnable_busy(c, t) \/ I!make_runnable_idle(c, t)
    PROVE  IInv'
<1> USE DEF IInv, I!TypeOK, I!Locations, I!Interruptible, I!After, I!Go, I!send, I!mbox
<1>1. CASE I!make_runnable_busy(c, t)
  <2> USE <1>1 DEF I!make_runnable_busy
  <2>1. I!TypeOK'  BY SMTT(30) DEF I!IpiAssumption
  <2>2. WaitIsIdle' /\ CodeIsSet'  BY DEF WaitIsIdle, CodeIsSet
  <2>3. I!RunnableSeen'  BY DEF I!RunnableSeen, WaitIsIdle
  <2> QED  BY <2>1, <2>2, <2>3
<1>2. CASE I!make_runnable_idle(c, t)
  <2> USE <1>2 DEF I!make_runnable_idle
  <2>1. I!TypeOK'  BY SMTT(30) DEF I!IpiAssumption
  <2>2. WaitIsIdle' /\ CodeIsSet'  BY DEF WaitIsIdle, CodeIsSet
  <2>3. I!RunnableSeen'  BY DEF I!RunnableSeen
  <2> QED  BY <2>1, <2>2, <2>3
<1> QED  BY <1>1, <1>2

\* An IPI sent is a line asserted, and the sender is done with its target.
LEMMA SendIInv ==
    ASSUME I!IpiAssumption, IInv, NEW c \in CPUs, I!make_runnable_send(c) \/ I!ipi_broadcast(c)
    PROVE  IInv'
<1> USE DEF IInv, I!TypeOK, I!Locations, I!Go, I!send, I!runq, I!ipi_send
<1>1. CASE I!make_runnable_send(c)
  <2> USE <1>1 DEF I!make_runnable_send
  <2>1. I!TypeOK'  OBVIOUS
  <2>2. WaitIsIdle' /\ CodeIsSet'  BY DEF WaitIsIdle, CodeIsSet
  <2>3. I!RunnableSeen'  BY DEF I!RunnableSeen
  <2> QED  BY <2>1, <2>2, <2>3
<1>2. CASE I!ipi_broadcast(c)
  <2>1. PICK t \in todo[c] : I!ipi_send(t, code) /\ todo' = [todo EXCEPT ![c] = @ \ {t}]
        BY <1>2, Zenon DEF I!ipi_broadcast
  <2>2. t \in CPUs /\ code \in {"OFFLINE", "PANIC"}
        BY <1>2 DEF I!ipi_broadcast, CodeIsSet, I!IpiAssumption
  <2>3. pc' \in [CPUs -> I!Locations] /\ (\A d \in CPUs : d # c => pc'[d] = pc[d])
        /\ pc[c] = "broadcast" /\ pc'[c] \in {"stopped", "broadcast"}
        BY <1>2 DEF I!ipi_broadcast
  <2>4. UNCHANGED <<back, tgt, code, queue, ipi_isidle, runqueue_lock, ipi_lock>>
        BY <1>2, <2>1 DEF I!ipi_broadcast
  <2>5. c_ipi_pending' \in [CPUs -> SUBSET {"OFFLINE", "PANIC", "UNIDLE"}]
        BY <2>1, <2>2
  <2>6. I!TypeOK'  BY <2>1, <2>2, <2>3, <2>4, <2>5
  <2>7. WaitIsIdle' /\ CodeIsSet'  BY <2>3, <2>4 DEF WaitIsIdle, CodeIsSet
  <2>8. \A d \in CPUs : line[d] => line'[d]  BY <2>1, <2>2
  <2>9. I!RunnableSeen'
    <3> SUFFICES ASSUME NEW d \in CPUs, pc'[d] = "wait", queue'[d] > 0
                 PROVE  line'[d] \/ \E e \in CPUs : pc'[e] = "mr_ipi" /\ tgt'[e] = d
        BY SMTT(30) DEF I!RunnableSeen
    <3>1. pc[d] = "wait" /\ queue[d] > 0  BY <2>3, <2>4
    <3>2. CASE line[d]  BY <2>8, <3>2, SMTT(30)
    <3>3. CASE \E e \in CPUs : pc[e] = "mr_ipi" /\ tgt[e] = d
      <4>1. PICK e \in CPUs : pc[e] = "mr_ipi" /\ tgt[e] = d  BY <3>3, SMTT(30)
      <4>2. pc'[e] = "mr_ipi" /\ tgt'[e] = d  BY <4>1, <2>3, <2>4
      <4> QED  BY <4>2
    <3> QED  BY <3>1, <3>2, <3>3 DEF I!RunnableSeen
  <2> QED  BY <2>6, <2>7, <2>9
<1> QED  BY <1>1, <1>2

\* Every other step of a CPU: the idle loop waits only with an empty queue, and
\* who has taken the IPI looks at the queue before it waits again.
LEMMA StepIInv ==
    ASSUME I!IpiAssumption, IInv, NEW c \in CPUs,
           \/ I!switch(c) \/ I!remhead(c) \/ I!relock(c) \/ I!wait_ends(c) \/ I!mainbus_interrupt(c)
           \/ I!interprocessor_panic(c) \/ I!interprocessor_offline(c) \/ I!go_offline(c)
           \/ I!interprocessor_unidle(c) \/ I!lamebus_clear_ipi(c)
           \/ \E k \in StopCodes : I!broadcast_begin(c, k)
    PROVE  IInv'
<1> USE DEF IInv, I!TypeOK, I!Locations, I!Interruptible, I!After, I!Go, I!send, I!mbox, I!runq
<1>1. CASE I!switch(c)
  BY <1>1, SMTT(30) DEF I!switch, WaitIsIdle, CodeIsSet, I!RunnableSeen
<1>2. CASE I!remhead(c)
  <2> USE <1>2 DEF I!remhead
  <2>1. I!TypeOK'
    <3>1. ipi_isidle' \in [CPUs -> BOOLEAN]  BY ZenonT(30)
    <3>2. queue' \in [CPUs -> 0..MaxQueue]
      <4>1. queue \in [CPUs -> 0..MaxQueue] /\ queue' = [queue EXCEPT ![c] = IF @ > 0 THEN @ - 1 ELSE @]
        BY Zenon
      <4>2. MaxQueue \in Nat /\ queue[c] \in 0..MaxQueue  BY <4>1, Zenon DEF I!IpiAssumption
      <4>3. (IF queue[c] > 0 THEN queue[c] - 1 ELSE queue[c]) \in 0..MaxQueue
        <5> HIDE <1>2 DEF IInv, I!remhead, I!TypeOK
        <5>1. QED  BY <4>2, SMTT(30)
      <4>4. QED  BY <4>1, <4>3, Zenon
    <3>3. pc' \in [CPUs -> I!Locations] /\ runqueue_lock' \in [CPUs -> CPUs \cup {None}]  OBVIOUS
    <3> QED  BY <3>1, <3>2, <3>3, Zenon
  <2>2. ipi_isidle'[c] = (queue[c] = 0) /\ (pc'[c] = "wait" => ~(queue[c] > 0))  BY SMTT(30)
  <2>3. \A d \in CPUs : d # c => pc'[d] = pc[d] /\ ipi_isidle'[d] = ipi_isidle[d]  OBVIOUS
  <2>4. queue[c] \in Nat  OBVIOUS
  <2>5. pc'[c] = "wait" => ipi_isidle'[c]
    <3> SUFFICES ASSUME pc'[c] = "wait" PROVE ipi_isidle'[c]  OBVIOUS
    <3>1. queue[c] = 0  BY <2>2, <2>4
    <3> QED  BY <2>2, <3>1, Zenon
  <2>6. WaitIsIdle'  BY <2>3, <2>5, Zenon DEF WaitIsIdle
  <2>7. CodeIsSet'  BY DEF CodeIsSet
  <2>8. I!RunnableSeen'  BY SMTT(30) DEF I!RunnableSeen
  <2> QED  BY <2>1, <2>6, <2>7, <2>8, SMTT(30)
<1>3. CASE I!relock(c) \/ I!wait_ends(c) \/ I!mainbus_interrupt(c)
  <2> USE <1>3 DEF I!relock, I!wait_ends, I!mainbus_interrupt
  <2>1. I!TypeOK'  BY SMTT(30)
  <2>2. WaitIsIdle' /\ CodeIsSet'  BY SMTT(30) DEF WaitIsIdle, CodeIsSet
  <2>3. I!RunnableSeen'  BY SMTT(30) DEF I!RunnableSeen
  <2> QED  BY <2>1, <2>2, <2>3, SMTT(30)
<1>4. CASE I!interprocessor_panic(c) \/ I!interprocessor_offline(c) \/ I!go_offline(c)
  <2> USE <1>4 DEF I!interprocessor_panic, I!interprocessor_offline, I!go_offline
  <2>1. I!TypeOK'  BY SMTT(30)
  <2>2. WaitIsIdle' /\ CodeIsSet'  BY SMTT(30) DEF WaitIsIdle, CodeIsSet
  <2>3. I!RunnableSeen'  BY SMTT(30) DEF I!RunnableSeen
  <2> QED  BY <2>1, <2>2, <2>3, SMTT(30)
<1>5. CASE I!interprocessor_unidle(c) \/ I!lamebus_clear_ipi(c)
  <2> USE <1>5 DEF I!interprocessor_unidle, I!lamebus_clear_ipi
  <2>0. \A d \in CPUs : {} \in SUBSET {"OFFLINE", "PANIC", "UNIDLE"} /\ line'[d] \in BOOLEAN
        BY ZenonT(30)
  <2>1. I!TypeOK'  BY <2>0, SMTT(30)
  <2>2. WaitIsIdle' /\ CodeIsSet'  BY SMTT(30) DEF WaitIsIdle, CodeIsSet
  <2>3. I!RunnableSeen'  BY SMTT(30) DEF I!RunnableSeen
  <2> QED  BY <2>1, <2>2, <2>3, SMTT(30)
<1>6. CASE \E k \in StopCodes : I!broadcast_begin(c, k)
  <2> USE <1>6 DEF I!broadcast_begin
  <2>1. I!TypeOK'  BY SMTT(30)
  <2>2. WaitIsIdle' /\ CodeIsSet'  BY SMTT(30) DEF WaitIsIdle, CodeIsSet
  <2>3. I!RunnableSeen'  BY SMTT(30) DEF I!RunnableSeen
  <2> QED  BY <2>1, <2>2, <2>3, SMTT(30)
<1> QED  BY <1>1, <1>2, <1>3, <1>4, <1>5, <1>6, Zenon

\* Every step keeps it.
LEMMA NextIInv == ASSUME I!IpiAssumption, IInv, [I!Next]_(I!vars) PROVE IInv'
<1>1. CASE UNCHANGED I!vars
  BY <1>1 DEF I!vars, IInv, I!TypeOK, WaitIsIdle, CodeIsSet, I!RunnableSeen
<1>2. CASE I!Next
  BY <1>2, RunnableIInv, SendIInv, StepIInv DEF I!Next, I!Goes
<1> QED  BY <1>1, <1>2

\* With any number of CPUs, none waits in cpu_idle with a thread on its run queue
\* unless the IPI of thread_make_runnable is pending or about to be sent.
THEOREM IpiRunnableSeen == ASSUME I!IpiAssumption PROVE I!Spec => []I!RunnableSeen
<1>1. I!Init => IInv  BY InitIInv
<1>2. IInv /\ [I!Next]_(I!vars) => IInv'  BY NextIInv
<1>3. IInv => I!RunnableSeen  BY DEF IInv
<1> QED  BY <1>1, <1>2, <1>3, PTL DEF I!Spec
=============================================================================
