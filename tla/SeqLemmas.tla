--------------------------- MODULE SeqLemmas ---------------------------
(***************************************************************************)
(* Facts about the lists that the kernel keeps threads on: what appending  *)
(* at the tail and taking the head do to the set of members and to "nobody *)
(* is on the list twice".                                                  *)
(***************************************************************************)
EXTENDS Sequences, Integers, Functions, TLAPS

\* The members of a list are elements of its set.
LEMMA RangeWithin ==
    ASSUME NEW S, NEW s \in Seq(S)
    PROVE  Range(s) \subseteq S
BY DEF Range

\* Appending adds one member.
LEMMA RangeAppend ==
    ASSUME NEW S, NEW s \in Seq(S), NEW x \in S
    PROVE  /\ Append(s, x) \in Seq(S)
           /\ Append(s, x) # <<>>
           /\ Range(Append(s, x)) = Range(s) \cup {x}
<1>1. Append(s, x) \in Seq(S) /\ Append(s, x) # <<>>
  <2>1. Append(s, x) \in Seq(S)
    OBVIOUS
  <2>2. Len(Append(s, x)) = Len(s) + 1 /\ Len(s) \in Nat
    OBVIOUS
  <2>3. QED
    BY <2>1, <2>2
<1>2. ASSUME NEW y \in Range(Append(s, x)) PROVE y \in Range(s) \cup {x}
  <2>1. PICK i \in 1..Len(s)+1 : y = Append(s, x)[i]
    BY <1>2 DEF Range
  <2>2. CASE i = Len(s)+1
    BY <2>1, <2>2
  <2>3. CASE i \in 1..Len(s)
    BY <2>1, <2>3 DEF Range
  <2>4. QED
    BY <2>1, <2>2, <2>3
<1>3. ASSUME NEW y \in Range(s) PROVE y \in Range(Append(s, x))
  <2>1. PICK i \in 1..Len(s) : y = s[i]
    BY <1>3 DEF Range
  <2>2. i \in DOMAIN Append(s, x) /\ Append(s, x)[i] = y
    BY <2>1
  <2>3. QED
    BY <2>2 DEF Range
<1>4. x \in Range(Append(s, x))
  <2>1. Len(s)+1 \in DOMAIN Append(s, x) /\ Append(s, x)[Len(s)+1] = x
    OBVIOUS
  <2>2. QED
    BY <2>1 DEF Range
<1>5. QED
  BY <1>1, <1>2, <1>3, <1>4

\* Appending somebody who is not there leaves nobody there twice.
LEMMA InjectiveAppend ==
    ASSUME NEW S, NEW s \in Seq(S), NEW x \in S, IsInjective(s), x \notin Range(s)
    PROVE  IsInjective(Append(s, x))
<1>1. \A i \in 1..Len(s) : s[i] # x
  BY DEF Range
<1>2. \A i, j \in 1..Len(s) : s[i] = s[j] => i = j
  BY DEF IsInjective
<1>3. ASSUME NEW i \in 1..Len(s)+1, NEW j \in 1..Len(s)+1,
             Append(s, x)[i] = Append(s, x)[j]
      PROVE  i = j
  BY <1>1, <1>2, <1>3
<1>4. QED
  BY <1>3 DEF IsInjective

\* Taking the head of a list without repetitions removes exactly that member.
LEMMA RangeTail ==
    ASSUME NEW S, NEW s \in Seq(S), s # <<>>, IsInjective(s)
    PROVE  /\ Head(s) \in S /\ Head(s) \in Range(s)
           /\ Tail(s) \in Seq(S)
           /\ IsInjective(Tail(s))
           /\ Range(Tail(s)) = Range(s) \ {Head(s)}
<1>1. Len(s) > 0 /\ Head(s) = s[1] /\ Tail(s) \in Seq(S) /\ Len(Tail(s)) = Len(s) - 1
  OBVIOUS
<1>2. \A i \in 1..Len(s)-1 : Tail(s)[i] = s[i+1]
  OBVIOUS
<1>3. \A i, j \in 1..Len(s) : s[i] = s[j] => i = j
  BY DEF IsInjective
<1>4. Head(s) \in S /\ Head(s) \in Range(s)
  BY <1>1 DEF Range
<1>5. IsInjective(Tail(s))
  BY <1>1, <1>2, <1>3 DEF IsInjective
<1>6. ASSUME NEW y \in Range(Tail(s)) PROVE y \in Range(s) \ {Head(s)}
  <2>1. PICK i \in 1..Len(s)-1 : y = Tail(s)[i]
    BY <1>1, <1>6 DEF Range
  <2>2. y = s[i+1] /\ i+1 \in 1..Len(s) /\ i+1 # 1
    BY <2>1, <1>2, <1>1
  <2>3. QED
    BY <2>2, <1>1, <1>3 DEF Range
<1>7. ASSUME NEW y \in Range(s) \ {Head(s)} PROVE y \in Range(Tail(s))
  <2>1. PICK i \in 1..Len(s) : y = s[i]
    BY <1>7 DEF Range
  <2>2. i - 1 \in 1..Len(s)-1 /\ y = Tail(s)[i-1]
    BY <2>1, <1>1, <1>2, <1>7
  <2>3. DOMAIN Tail(s) = 1..Len(s)-1
    BY <1>1
  <2>4. QED
    BY <2>2, <2>3, Zenon DEF Range
<1>8. QED
  BY <1>1, <1>4, <1>5, <1>6, <1>7

\* A list is empty exactly when it has no members.
LEMMA RangeEmpty ==
    ASSUME NEW S, NEW s \in Seq(S)
    PROVE  s = <<>> <=> Range(s) = {}
BY DEF Range

\* Joining two lists joins their members; lists that share nobody and have
\* nobody twice give a list with nobody twice.
LEMMA RangeConcat ==
    ASSUME NEW S, NEW s \in Seq(S), NEW t \in Seq(S)
    PROVE  /\ s \o t \in Seq(S)
           /\ Len(s \o t) = Len(s) + Len(t)
           /\ Range(s \o t) = Range(s) \cup Range(t)
           /\ IsInjective(s) /\ IsInjective(t) /\ Range(s) \cap Range(t) = {}
                => IsInjective(s \o t)
<1> DEFINE u == s \o t
<1>1. /\ u \in Seq(S) /\ Len(u) = Len(s) + Len(t)
      /\ Len(s) \in Nat /\ Len(t) \in Nat
      /\ DOMAIN s = 1..Len(s) /\ DOMAIN t = 1..Len(t) /\ DOMAIN u = 1..Len(u)
  OBVIOUS
<1>2. \A i \in 1..Len(s) : u[i] = s[i]
  OBVIOUS
<1>3. \A i \in 1..Len(t) : u[Len(s) + i] = t[i]
  OBVIOUS
<1>4. \A i \in 1..Len(u) : i \in 1..Len(s) \/ (i - Len(s) \in 1..Len(t) /\ u[i] = t[i - Len(s)])
  BY <1>1, <1>3
<1> HIDE DEF u
<1>5. ASSUME NEW y \in Range(u) PROVE y \in Range(s) \cup Range(t)
  <2>1. PICK i \in 1..Len(u) : y = u[i]
    BY <1>1, <1>5 DEF Range
  <2>2. QED
    BY <2>1, <1>1, <1>2, <1>4, Zenon DEF Range
<1>6. ASSUME NEW y \in Range(s) PROVE y \in Range(u)
  <2>1. PICK i \in 1..Len(s) : y = s[i]
    BY <1>1, <1>6 DEF Range
  <2>2. i \in 1..Len(u) /\ u[i] = y
    BY <2>1, <1>1, <1>2
  <2>3. QED
    BY <2>2, <1>1 DEF Range
<1>7. ASSUME NEW y \in Range(t) PROVE y \in Range(u)
  <2>1. PICK i \in 1..Len(t) : y = t[i]
    BY <1>1, <1>7 DEF Range
  <2>2. Len(s) + i \in 1..Len(u) /\ u[Len(s) + i] = y
    BY <2>1, <1>1, <1>3
  <2>3. QED
    BY <2>2, <1>1, Zenon DEF Range
<1>8. ASSUME IsInjective(s), IsInjective(t), Range(s) \cap Range(t) = {}
      PROVE  IsInjective(u)
  <2>1. \A i, j \in 1..Len(s) : s[i] = s[j] => i = j
    BY <1>1, <1>8, SMTT(30) DEF IsInjective
  <2>2. \A i, j \in 1..Len(t) : t[i] = t[j] => i = j
    BY <1>1, <1>8 DEF IsInjective
  <2>3. \A i \in 1..Len(s), j \in 1..Len(t) : s[i] # t[j]
    BY <1>1, <1>8, Zenon DEF Range
  <2>4. ASSUME NEW i \in 1..Len(u), NEW j \in 1..Len(u), u[i] = u[j]
        PROVE  i = j
    <3>1. CASE i \in 1..Len(s) /\ j \in 1..Len(s)
      BY <3>1, <2>1, <2>4, <1>2
    <3>2. CASE i \in 1..Len(s) /\ j \notin 1..Len(s)
      BY <3>2, <2>3, <2>4, <1>2, <1>4
    <3>3. CASE i \notin 1..Len(s) /\ j \in 1..Len(s)
      BY <3>3, <2>3, <2>4, <1>2, <1>4
    <3>4. CASE i \notin 1..Len(s) /\ j \notin 1..Len(s)
      <4>1. i - Len(s) \in 1..Len(t) /\ j - Len(s) \in 1..Len(t)
        BY <3>4, <1>4
      <4>2. t[i - Len(s)] = t[j - Len(s)]
        BY <3>4, <2>4, <1>4
      <4>3. i - Len(s) = j - Len(s)
        BY <4>1, <4>2, <2>2, SMTT(30)
      <4>4. QED
        BY <4>3, <1>1
    <3>5. QED
      BY <3>1, <3>2, <3>3, <3>4
  <2>5. QED
    BY <2>4, <1>1 DEF IsInjective
<1>9. QED
  BY <1>1, <1>5, <1>6, <1>7, <1>8 DEF u

\* A list of one.
LEMMA RangeSingle ==
    ASSUME NEW S, NEW x \in S
    PROVE  /\ <<x>> \in Seq(S) /\ Len(<<x>>) = 1
           /\ Range(<<x>>) = {x} /\ IsInjective(<<x>>)
BY DEF Range, IsInjective

\* A part of a list, element by element.
LEMMA SubSeqIs ==
    ASSUME NEW S, NEW s \in Seq(S), NEW m \in Nat \ {0}, NEW n \in Nat, m <= n+1, n <= Len(s)
    PROVE  /\ SubSeq(s, m, n) \in Seq(S)
           /\ Len(SubSeq(s, m, n)) = n - m + 1
           /\ \A j \in 1..n-m+1 : SubSeq(s, m, n)[j] = s[m-1+j]
<1>1. \A j \in m..n : s[j] \in S
  OBVIOUS
<1>2. SubSeq(s, m, n) \in Seq(S)
  BY <1>1
<1>3. Len(SubSeq(s, m, n)) = n - m + 1
  <2>1. CASE m <= n
    BY <2>1, <1>1
  <2>2. CASE m = n+1
    BY <2>2, <1>1
  <2>3. QED
    BY <2>1, <2>2
<1>4. ASSUME NEW j \in 1..n-m+1 PROVE SubSeq(s, m, n)[j] = s[m-1+j]
  <2>1. SubSeq(s, m, n)[j] = s[m+j-1]
    BY <1>1
  <2>2. m+j-1 = m-1+j
    OBVIOUS
  <2>3. QED
    BY <2>1, <2>2
<1>5. QED
  BY <1>2, <1>3, <1>4

\* The list without the element at position i.
Cut(s, i) == SubSeq(s, 1, i-1) \o SubSeq(s, i+1, Len(s))

\* The same, element by element.
LEMMA CutIs ==
    ASSUME NEW S, NEW s \in Seq(S), NEW i \in 1..Len(s)
    PROVE  /\ Cut(s, i) \in Seq(S)
           /\ Len(Cut(s, i)) = Len(s) - 1
           /\ \A j \in 1..i-1 : Cut(s, i)[j] = s[j]
           /\ \A j \in 1..Len(s)-i : Cut(s, i)[i-1+j] = s[i+j]
<1> DEFINE a == SubSeq(s, 1, i-1)
           b == SubSeq(s, i+1, Len(s))
<1>1. /\ a \in Seq(S) /\ Len(a) = i-1
      /\ \A j \in 1..i-1 : a[j] = s[j]
  <2>1. 1 \in Nat \ {0} /\ i-1 \in Nat /\ 1 <= (i-1)+1 /\ i-1 <= Len(s) /\ (i-1)-1+1 = i-1
    OBVIOUS
  <2>2. /\ a \in Seq(S) /\ Len(a) = (i-1)-1+1 /\ \A j \in 1..(i-1)-1+1 : a[j] = s[1-1+j]
    BY <2>1, SubSeqIs
  <2> HIDE DEF a
  <2>3. QED
    BY <2>1, <2>2
<1>2. /\ b \in Seq(S) /\ Len(b) = Len(s)-i
      /\ \A j \in 1..Len(s)-i : b[j] = s[i+j]
  <2>1. i+1 \in Nat \ {0} /\ Len(s) \in Nat /\ i+1 <= Len(s)+1 /\ Len(s)-(i+1)+1 = Len(s)-i
    OBVIOUS
  <2>2. ASSUME NEW m \in Nat \ {0}, NEW n \in Nat, m = i+1, n = Len(s)
        PROVE  /\ b \in Seq(S) /\ Len(b) = n - m + 1
               /\ \A j \in 1..n-m+1 : b[j] = s[m-1+j]
    <3>1. m <= n+1 /\ n <= Len(s) /\ b = SubSeq(s, m, n)
      BY <2>1, <2>2
    <3> HIDE DEF b
    <3>2. QED
      BY <3>1, SubSeqIs
  <2> HIDE DEF b
  <2>3. PICK m \in Nat \ {0}, n \in Nat : m = i+1 /\ n = Len(s)
    BY <2>1, Zenon
  <2>4. /\ b \in Seq(S) /\ Len(b) = n - m + 1
        /\ \A j \in 1..n-m+1 : b[j] = s[m-1+j]
    BY <2>2, <2>3, Zenon
  <2>5. n - m + 1 = Len(s) - i /\ m - 1 = i
    BY <2>3
  <2>6. QED
    BY <2>4, <2>5
<1>3. Cut(s, i) = a \o b
  BY DEF Cut
<1> HIDE DEF a, b
<1>4. /\ a \o b \in Seq(S) /\ Len(a \o b) = Len(a) + Len(b)
      /\ \A j \in 1..Len(a) : (a \o b)[j] = a[j]
      /\ \A j \in 1..Len(b) : (a \o b)[Len(a)+j] = b[j]
  <2>1. a \in Seq(S) /\ b \in Seq(S)
    BY <1>1, <1>2
  <2>2. QED
    BY <2>1
<1>5. QED
  BY <1>1, <1>2, <1>3, <1>4, SMTT(30)

\* Taking the thread at one position out of a list without repetitions takes
\* out exactly that thread.
LEMMA RangeCut ==
    ASSUME NEW S, NEW s \in Seq(S), NEW i \in 1..Len(s), IsInjective(s)
    PROVE  /\ Cut(s, i) \in Seq(S)
           /\ Len(Cut(s, i)) = Len(s) - 1
           /\ IsInjective(Cut(s, i))
           /\ Range(Cut(s, i)) = Range(s) \ {s[i]}
<1> DEFINE u == Cut(s, i)
<1>1. Len(s) \in Nat /\ DOMAIN s = 1..Len(s)
  OBVIOUS
<1>2. /\ u \in Seq(S) /\ Len(u) = Len(s) - 1
      /\ \A j \in 1..i-1 : u[j] = s[j]
      /\ \A j \in 1..Len(s)-i : u[i-1+j] = s[i+j]
  BY CutIs, Zenon
<1> HIDE DEF u
<1>5. /\ u \in Seq(S) /\ Len(u) = Len(s) - 1 /\ DOMAIN u = 1..Len(s)-1
  BY <1>1, <1>2
<1>6. \A j \in 1..i-1 : u[j] = s[j]
  BY <1>2
<1>7. \A j \in 1..Len(s)-i : u[i-1+j] = s[i+j]
  BY <1>2, Zenon
<1>8. \A j \in 1..Len(s)-1 : j >= i => u[j] = s[j+1]
  <2>1. SUFFICES ASSUME NEW j \in 1..Len(s)-1, j >= i PROVE u[j] = s[j+1]
    OBVIOUS
  <2>2. j - i + 1 \in 1..Len(s)-i
    BY <2>1, <1>1
  <2>3. i - 1 + (j - i + 1) = j /\ i + (j - i + 1) = j + 1
    BY <2>1, <1>1
  <2>4. QED
    BY <2>2, <2>3, <1>7, Zenon
<1>9. \A j, k \in 1..Len(s) : s[j] = s[k] => j = k
  BY <1>1 DEF IsInjective
<1>10. IsInjective(u)
  <2>1. ASSUME NEW j \in 1..Len(s)-1, NEW k \in 1..Len(s)-1, u[j] = u[k] PROVE j = k
    <3> DEFINE J == IF j < i THEN j ELSE j+1
               K == IF k < i THEN k ELSE k+1
    <3>1. u[j] = s[J] /\ u[k] = s[K] /\ J \in 1..Len(s) /\ K \in 1..Len(s)
      BY <1>1, <1>6, <1>8
    <3>2. J = K
      BY <3>1, <2>1, <1>9, Zenon
    <3>3. QED
      BY <3>2, <1>1
  <2>2. QED
    BY <2>1, <1>5, SMTT(30) DEF IsInjective
<1>11. ASSUME NEW y \in Range(u) PROVE y \in Range(s) \ {s[i]}
  <2>1. PICK j \in 1..Len(s)-1 : y = u[j]
    BY <1>5, <1>11 DEF Range
  <2>2. \E k \in 1..Len(s) : k # i /\ y = s[k]
    <3>1. CASE j < i
      BY <3>1, <2>1, <1>1, <1>6
    <3>2. CASE j >= i
      BY <3>2, <2>1, <1>1, <1>8
    <3>3. QED
      BY <3>1, <3>2
  <2>3. QED
    BY <2>2, <1>1, <1>9 DEF Range
<1>12. ASSUME NEW y \in Range(s) \ {s[i]} PROVE y \in Range(u)
  <2>1. PICK k \in 1..Len(s) : y = s[k] /\ k # i
    BY <1>1, <1>12 DEF Range
  <2>2. \E j \in 1..Len(s)-1 : u[j] = y
    <3>1. CASE k < i
      <4>1. k \in 1..Len(s)-1 /\ k \in 1..i-1
        BY <3>1, <1>1
      <4>2. QED
        BY <4>1, <2>1, <1>6
    <3>2. CASE k > i
      <4>1. k - 1 \in 1..Len(s)-1 /\ k - 1 >= i /\ (k - 1) + 1 = k
        BY <3>2, <1>1
      <4>2. QED
        BY <4>1, <2>1, <1>8, Zenon
    <3>3. QED
      BY <3>1, <3>2, <2>1, <1>1
  <2>3. QED
    BY <2>2, <1>5, SMTT(30) DEF Range
<1>13. QED
  BY <1>5, <1>10, <1>11, <1>12 DEF u

\* One more element, at the tail or at the head.
LEMMA AddOne ==
    ASSUME NEW S, NEW s \in Seq(S), NEW x \in S
    PROVE  /\ s \o <<x>> \in Seq(S) /\ Len(s \o <<x>>) = Len(s) + 1
           /\ Range(s \o <<x>>) = Range(s) \cup {x}
           /\ IsInjective(s) /\ x \notin Range(s) => IsInjective(s \o <<x>>)
           /\ <<x>> \o s \in Seq(S) /\ Len(<<x>> \o s) = Len(s) + 1
           /\ Range(<<x>> \o s) = Range(s) \cup {x}
           /\ IsInjective(s) /\ x \notin Range(s) => IsInjective(<<x>> \o s)
<1> DEFINE t == <<x>>
<1>1. t \in Seq(S) /\ Len(t) = 1 /\ Range(t) = {x} /\ IsInjective(t)
  BY RangeSingle
<1> HIDE DEF t
<1> DEFINE Joined(a, b) ==
              /\ a \o b \in Seq(S) /\ Len(a \o b) = Len(a) + Len(b)
              /\ Range(a \o b) = Range(a) \cup Range(b)
              /\ IsInjective(a) /\ IsInjective(b) /\ Range(a) \cap Range(b) = {}
                   => IsInjective(a \o b)
<1>2. \A a, b \in Seq(S) : Joined(a, b)
  BY RangeConcat
<1>3. Joined(s, t) /\ Joined(t, s)
  <2> HIDE DEF Joined
  <2>1. QED
    BY <1>1, <1>2
<1>4. Len(s) \in Nat
  OBVIOUS
<1>5. /\ s \o t \in Seq(S) /\ Len(s \o t) = Len(s) + 1 /\ Range(s \o t) = Range(s) \cup {x}
      /\ IsInjective(s) /\ x \notin Range(s) => IsInjective(s \o t)
  BY <1>1, <1>3
<1>6. /\ t \o s \in Seq(S) /\ Len(t \o s) = Len(s) + 1 /\ Range(t \o s) = Range(s) \cup {x}
      /\ IsInjective(s) /\ x \notin Range(s) => IsInjective(t \o s)
  BY <1>1, <1>3, <1>4
<1>7. QED
  BY <1>5, <1>6 DEF t
=============================================================================
