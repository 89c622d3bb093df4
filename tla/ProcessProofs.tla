--------------------------- MODULE ProcessProofs ---------------------------
(***************************************************************************)
(* waitpid, _exit and the list of pids, for any processes: nobody sleeps   *)
(* in sys_waitpid for a process that has exited, nobody waits in a circle, *)
(* and live threads have different pids as long as the menu forks alone.   *)
(***************************************************************************)
EXTENDS Process, SeqLemmas, FiniteSetTheorems, WellFoundedInduction

\* A bounded set of numbers has a largest.
LEMMA Largest ==
    ASSUME NEW T, T \subseteq Nat, T # {}, NEW b \in Nat, \A x \in T : x <= b
    PROVE  \E x \in T : \A y \in T : y <= x
<1> DEFINE U == {b - x : x \in T}
<1>1. U \subseteq Nat /\ U # {}
  <2>1. \A x \in T : b - x \in Nat  OBVIOUS
  <2> QED  BY <2>1, Zenon
<1>2. PICK u \in U : \A v \in U : ~(<<v, u>> \in OpToRel(<, Nat))
  BY <1>1, NatLessThanWellFounded, WFMin, Zenon
<1>3. \A v \in U : ~(v < u)  BY <1>1, <1>2, Zenon DEF OpToRel
<1>4. PICK x \in T : u = b - x  OBVIOUS
<1>5. \A y \in T : ~(b - y < b - x)  BY <1>3, <1>4, Zenon
<1> QED  BY <1>5

-----------------------------------------------------------------------------
(* The list of pids.                                                       *)
\* It begins with the pids that thread_bootstrap takes, and ascends.
Ascending(l) ==
    /\ l \in Seq(Nat) /\ Len(l) >= 2 /\ l[1] = PID_MIN /\ l[2] = PID_MIN + 1
    /\ \A i, j \in 1..Len(l) : i < j => l[i] < l[j]

End(l) == l[Len(l)]

\* An ascending list has no pid twice, and its last is the largest.
LEMMA AscendingIs ==
    ASSUME NEW l, Ascending(l)
    PROVE  /\ Len(l) \in Nat /\ End(l) \in Nat /\ IsInjective(l)
           /\ PID_MIN \in Range(l) /\ PID_MIN + 1 \in Range(l)
           /\ \A n \in Range(l) : n \in Nat /\ n <= End(l)
<1> USE DEF Ascending
<1>0. DOMAIN l = 1..Len(l)  OBVIOUS
<1>1. Len(l) \in Nat /\ \A i \in 1..Len(l) : l[i] \in Nat  OBVIOUS
<1>2. End(l) \in Nat  BY <1>1 DEF End
<1>3. \A i, j \in 1..Len(l) : l[i] = l[j] => i = j  BY <1>1, SMTT(30)
<1>4. IsInjective(l)  BY <1>0, <1>3, Zenon DEF IsInjective
<1>5. 1 \in 1..Len(l) /\ 2 \in 1..Len(l) /\ Len(l) \in 1..Len(l)  BY <1>1
<1>6. PID_MIN \in Range(l) /\ PID_MIN + 1 \in Range(l)  BY <1>0, <1>5, Zenon DEF Range
<1>7. \A i \in 1..Len(l) : l[i] <= l[Len(l)]
  <2> TAKE i \in 1..Len(l)
  <2>1. i = Len(l) \/ i < Len(l)  BY <1>1
  <2> QED  BY <1>1, <1>5, <2>1
<1>8. \A n \in Range(l) : n \in Nat /\ n <= End(l)  BY <1>0, <1>1, <1>7, Zenon DEF Range, End
<1> QED  BY <1>1, <1>2, <1>4, <1>6, <1>8, Zenon

\* The walk ends at the tail.
LEMMA WalkEndIs == ASSUME NEW l, Ascending(l) PROVE WalkEnd(l) = End(l)
<1> DEFINE stops == {i \in DOMAIN l : i = Len(l) \/ l[i] = l[i+1]}
<1>0. DOMAIN l = 1..Len(l)  BY DEF Ascending
<1>1. Len(l) \in Nat /\ Len(l) >= 2  BY DEF Ascending
<1>2. \A i \in 1..Len(l) : i # Len(l) => l[i] # l[i+1]
  <2> SUFFICES ASSUME NEW i \in 1..Len(l), i # Len(l) PROVE l[i] < l[i+1]
    <3>1. \A j \in 1..Len(l) : l[j] \in Nat  BY DEF Ascending
    <3> QED  BY <1>1, <3>1
  <2>1. i+1 \in 1..Len(l) /\ i < i+1  BY <1>1
  <2> QED  BY <2>1, Zenon DEF Ascending
<1>3. stops = {Len(l)}
  <2>1. Len(l) \in 1..Len(l)  BY <1>1
  <2> QED  BY <1>0, <1>2, <2>1, Zenon
<1> HIDE DEF stops
<1>4. (CHOOSE i \in stops : \A j \in stops : i <= j) = Len(l)  BY <1>1, <1>3
<1> QED  BY <1>4, Zenon DEF WalkEnd, End, stops

\* The new node becomes the tail.
LEMMA LinkedIs ==
    ASSUME NEW l, Ascending(l)
    PROVE  /\ Ascending(Linked(l, End(l)))
           /\ Range(Linked(l, End(l))) = Range(l) \cup {End(l) + 1}
           /\ End(Linked(l, End(l))) = End(l) + 1
<1> DEFINE n == End(l)
           I == {i \in DOMAIN l : l[i] = n}
           s == SubSeq(l, 1, Len(l)) \o <<n + 1>> \o SubSeq(l, Len(l)+1, Len(l))
<1>0. l \in Seq(Nat) /\ Len(l) >= 2  BY Zenon DEF Ascending
<1>a. DOMAIN l = 1..Len(l)  BY <1>0
<1>1. Len(l) \in Nat /\ n \in Nat  BY <1>0, AscendingIs, Zenon
<1>2. I = {Len(l)}
  <2>1. \A i \in 1..Len(l) : l[i] = l[Len(l)] => i = Len(l)
    <3>1. Len(l) \in 1..Len(l)  BY <1>0
    <3> QED  BY <1>a, <3>1, AscendingIs, Zenon DEF IsInjective
  <2>2. Len(l) \in 1..Len(l)  BY <1>0
  <2> QED  BY <1>a, <2>1, <2>2, Zenon DEF End
<1>3. (CHOOSE i \in I : \A j \in I : i <= j) = Len(l)
  <2> HIDE DEF I
  <2> QED  BY <1>1, <1>2
<1>4. Linked(l, n) = s
  <2>1. I # {}  BY <1>2, Zenon
  <2> HIDE DEF n
  <2> QED  BY <2>1, <1>3, Zenon DEF Linked
<1>5. s = Append(l, n + 1)
  <2>1. SubSeq(l, 1, Len(l)) = l  BY <1>0
  <2>2. SubSeq(l, Len(l)+1, Len(l)) = <<>>  BY <1>0
  <2>3. l \o <<n + 1>> = Append(l, n + 1) /\ Append(l, n + 1) \in Seq(Nat)  BY <1>0, <1>1
  <2>4. \A a \in Seq(Nat) : a \o <<>> = a  OBVIOUS
  <2> HIDE DEF n
  <2> QED  BY <2>1, <2>2, <2>3, <2>4, Zenon
<1> HIDE DEF s
<1>6. /\ Append(l, n + 1) \in Seq(Nat) /\ Len(Append(l, n + 1)) = Len(l) + 1
      /\ \A i \in 1..Len(l) : Append(l, n + 1)[i] = l[i]
      /\ Append(l, n + 1)[Len(l) + 1] = n + 1
  <2> HIDE DEF n
  <2> QED  BY <1>0, <1>1
<1>7. Range(Append(l, n + 1)) = Range(l) \cup {n + 1}  BY <1>0, <1>1, RangeAppend
<1>8. \A i \in 1..Len(l) : l[i] \in Nat /\ l[i] <= n
  BY <1>a, AscendingIs, Zenon DEF Range
<1> DEFINE t == Append(l, n + 1)
<1> HIDE DEF n, t
<1>9. \A i, j \in 1..Len(l)+1 : i < j => t[i] < t[j]
  <2> SUFFICES ASSUME NEW i \in 1..Len(l)+1, NEW j \in 1..Len(l)+1, i < j PROVE t[i] < t[j]  OBVIOUS
  <2>1. i \in 1..Len(l)  BY <1>1
  <2>2. t[i] = l[i]  BY <1>6, <2>1, Zenon DEF t
  <2>3. CASE j = Len(l)+1  BY <1>1, <1>6, <1>8, <2>1, <2>2, <2>3 DEF t
  <2>4. CASE j \in 1..Len(l)
    <3>1. t[j] = l[j]  BY <1>6, <2>4, Zenon DEF t
    <3> QED  BY <2>1, <2>2, <2>4, <3>1, Zenon DEF Ascending
  <2> QED  BY <1>1, <2>3, <2>4
<1>10. t[1] = l[1] /\ t[2] = l[2]  BY <1>0, <1>6 DEF t
<1>11. Ascending(t)
  <2>1. t \in Seq(Nat) /\ Len(t) = Len(l) + 1  BY <1>6, Zenon DEF t
  <2>2. Len(t) >= 2  BY <1>0, <2>1
  <2>3. l[1] = PID_MIN /\ l[2] = PID_MIN + 1  BY Zenon DEF Ascending
  <2> QED  BY <1>9, <1>10, <2>1, <2>2, <2>3, Zenon DEF Ascending
<1> QED  BY <1>4, <1>5, <1>6, <1>7, <1>11, Zenon DEF t, End, n

\* A pid above those of thread_bootstrap is taken off.
LEMMA RemoveIs ==
    ASSUME NEW l, Ascending(l), NEW n \in Nat, n > PID_MIN + 1
    PROVE  /\ Ascending(remove_pid_table(l, n))
           /\ Range(remove_pid_table(l, n)) = Range(l) \ {n}
           /\ End(remove_pid_table(l, n)) <= End(l)
<1> USE ProcessAssumption
<1> DEFINE I == {i \in 2..Len(l) : l[i] = n}
<1>a. DOMAIN l = 1..Len(l)  BY DEF Ascending
<1>0. /\ l \in Seq(Nat) /\ Len(l) \in Nat /\ Len(l) >= 2
      /\ l[1] = PID_MIN /\ l[2] = PID_MIN + 1
  BY DEF Ascending
<1>1. ~(n < 2) /\ Len(l) # 1  BY <1>0
<1>2. CASE I = {}
  <2>1. remove_pid_table(l, n) = l  BY <1>1, <1>2, Zenon DEF remove_pid_table
  <2>2. \A i \in 1..Len(l) : l[i] # n
    <3> TAKE i \in 1..Len(l)
    <3>1. i = 1 \/ i \in 2..Len(l)  BY <1>0
    <3> QED  BY <1>0, <1>2, <3>1, SMTT(30)
  <2>3. n \notin Range(l)  BY <1>a, <2>2, Zenon DEF Range
  <2> QED  BY <2>1, <2>3, AscendingIs
<1>3. CASE I # {}
  <2>1. PICK k \in 2..Len(l) : l[k] = n  BY <1>3, Zenon
  <2>2. k \in 1..Len(l) /\ k # 2 /\ k >= 3  BY <1>0, <2>1, SMTT(30)
  <2>3. I = {k}
    <3>1. \A i \in 1..Len(l) : l[i] = n => i = k
      BY <1>a, <2>1, <2>2, AscendingIs, Zenon DEF IsInjective
    <3>2. 2..Len(l) \subseteq 1..Len(l)  BY <1>0
    <3> QED  BY <2>1, <3>1, <3>2, Zenon
  <2>4. (CHOOSE i \in I : \A j \in I : i <= j) = k
    <3> HIDE DEF I
    <3> QED  BY <2>2, <2>3
  <2>5. remove_pid_table(l, n) = Cut(l, k)
    <3>1. remove_pid_table(l, n) = Unlinked(l, k)
      <4> HIDE <2>1
      <4> QED  BY <1>1, <1>3, <2>4, Zenon DEF remove_pid_table
    <3> QED  BY <3>1, Zenon DEF Unlinked, Cut
  <2> DEFINE t == Cut(l, k)
  <2>6. /\ t \in Seq(Nat) /\ Len(t) = Len(l) - 1
        /\ \A j \in 1..k-1 : t[j] = l[j]
        /\ \A j \in 1..Len(l)-k : t[k-1+j] = l[k+j]
    <3>1. l \in Seq(Nat)  BY <1>0, Zenon
    <3> QED  BY <2>2, <3>1, CutIs, ZenonT(60)
  <2>b. Len(t) = Len(l) - 1  BY <2>6, Zenon
  <2>7. Range(t) = Range(l) \ {n}  BY <1>0, <2>1, <2>2, RangeCut, AscendingIs, Zenon
  <2> HIDE DEF t
  <2>8. \A j \in 1..Len(t) : /\ j < k => t[j] = l[j]
                             /\ j >= k => t[j] = l[j+1] /\ j+1 \in 1..Len(l)
    <3> TAKE j \in 1..Len(t)
    <3>1. CASE j < k  BY <1>0, <2>6, <3>1
    <3>2. CASE j >= k
      <4>1. j - k + 1 \in 1..Len(l)-k  BY <1>0, <2>2, <2>6, <3>2
      <4>2. t[k-1+(j-k+1)] = l[k+(j-k+1)]  BY <2>6, <4>1, Zenon
      <4>3. k-1+(j-k+1) = j /\ k+(j-k+1) = j+1 /\ j+1 \in 1..Len(l)  BY <1>0, <2>2, <2>6, <3>2
      <4> QED  BY <3>2, <4>2, <4>3
    <3> QED  BY <1>0, <2>2, <3>1, <3>2, Zenon
  <2>9. \A i, j \in 1..Len(t) : i < j => t[i] < t[j]
    <3> SUFFICES ASSUME NEW i \in 1..Len(t), NEW j \in 1..Len(t), i < j PROVE t[i] < t[j]  OBVIOUS
    <3>1. i \in 1..Len(l) /\ j \in 1..Len(l) /\ Len(l) \in Nat  BY <1>0, <2>b, SMTT(30)
    <3>2. /\ i < k => t[i] = l[i]
          /\ i >= k => t[i] = l[i+1] /\ i+1 \in 1..Len(l)
          /\ j < k => t[j] = l[j]
          /\ j >= k => t[j] = l[j+1] /\ j+1 \in 1..Len(l)
      BY <2>8, Zenon
    <3>3. \A a, b \in 1..Len(l) : a < b => l[a] < l[b]  BY Zenon DEF Ascending
    <3>4. CASE j < k
      <4>1. i < k  BY <2>2, <3>4
      <4> QED  BY <3>1, <3>2, <3>3, <3>4, <4>1, Zenon
    <3>5. CASE i >= k
      <4>1. j >= k /\ i+1 < j+1  BY <2>2, <3>5
      <4> QED  BY <3>2, <3>3, <3>5, <4>1, Zenon
    <3>6. CASE i < k /\ j >= k
      <4>1. i < j+1  OBVIOUS
      <4> QED  BY <3>1, <3>2, <3>3, <3>6, <4>1, Zenon
    <3> QED  BY <2>2, <3>4, <3>5, <3>6
  <2>10. 1 \in 1..Len(t) /\ 2 \in 1..Len(t) /\ Len(t) \in Nat /\ Len(t) >= 2  BY <1>0, <2>2, <2>b
  <2>11. t[1] = PID_MIN /\ t[2] = PID_MIN + 1  BY <1>0, <2>2, <2>8, <2>10, SMTT(30)
  <2>12. Ascending(t)  BY <2>6, <2>9, <2>10, <2>11, Zenon DEF Ascending
  <2>13. End(t) \in Range(l)
    <3>1. End(t) \in Range(t)
      <4>1. DOMAIN t = 1..Len(t)  BY <2>6
      <4>2. Len(t) \in 1..Len(t)  BY <2>10
      <4> QED  BY <4>1, <4>2, Zenon DEF End, Range
    <3> QED  BY <2>7, <3>1, Zenon
  <2> QED  BY <2>5, <2>7, <2>12, <2>13, AscendingIs, Zenon DEF t
<1> QED  BY <1>2, <1>3, Zenon

-----------------------------------------------------------------------------
(* waitpid and _exit.                                                      *)
\* Pids: of what is on the list somebody is still to exit, the menu never does.
PidsOK ==
    /\ Ascending(pid_list)
    /\ pid[boot] = PID_MIN + 1 /\ code[boot] = None
    /\ \A p \in Procs \ {boot} : pid[p] = 0 \/ pid[p] > PID_MIN + 1
    /\ \A n \in Range(pid_list) : n = PID_MIN \/ \E q \in Procs : pid[q] = n /\ code[q] = None
    /\ \A p \in alive : pid[p] # 0
    /\ \A p \in Procs : pid[p] = 0 => code[p] = None

\* There is a largest pid.
PidsBounded == \E b \in Nat : \A p \in Procs : pid[p] <= b

\* Only the head outlives its waitpid, and a waiter has one node beside it.
NodesOK ==
    /\ \A i \in DOMAIN wait_list : wait_list[i].head <=> i = 1
    /\ \A i, j \in DOMAIN wait_list \ {1} : wait_list[i].waiter = wait_list[j].waiter => i = j
    /\ \A i \in DOMAIN wait_list \ {1} : pc[wait_list[i].waiter] # "user"

Newest(p, i) == i \in NodesOf(p) /\ \A j \in NodesOf(p) : j <= i

\* A waiter waits for a larger pid, and says so in its newest node.
WaitsOK ==
    \A p \in Procs : pc[p] # "user" =>
        /\ p \in alive /\ arg[p] \in Procs /\ pid[arg[p]] > pid[p]
        /\ \E i \in DOMAIN wait_list :
              Newest(p, i) /\ (pc[p] \in {"bridge", "asleep"} => wait_list[i].pid = pid[arg[p]])

WInv == TypeOK /\ PidsOK /\ PidsBounded /\ NodesOK /\ WaitsOK /\ SleeperHasExiter


\* The newest node of a process is the one NodeOf finds.
LEMMA NewestIs == ASSUME TypeOK, NEW p, NEW i, Newest(p, i) PROVE NodeOf(p) = i
<1>1. \A k \in NodesOf(p) : k \in Nat  BY DEF TypeOK, NodesOf
<1>2. \A k \in NodesOf(p) : (\A j \in NodesOf(p) : j <= k) => k = i  BY <1>1 DEF Newest
<1> QED  BY <1>2, Zenon DEF NodeOf, Newest

\* It holds at boot.
LEMMA InitWInv == Init => WInv
<1> SUFFICES ASSUME Init PROVE WInv  OBVIOUS
<1> USE ProcessAssumption DEF Init
<1>1. TypeOK
  <2>1. pid_list \in Seq(Nat) /\ wait_list \in Seq(Node)  OBVIOUS
  <2>2. pid \in [Procs -> Nat] /\ stat \in [Procs -> Codes \cup {0}]  OBVIOUS
  <2> QED  BY <2>1, <2>2, Zenon DEF TypeOK
<1>2. DOMAIN wait_list = {} /\ \A p \in Procs : pc[p] = "user"  OBVIOUS
<1>3. Ascending(pid_list)  BY DEF Ascending
<1>4. Range(pid_list) = {PID_MIN, PID_MIN + 1}
  <2>1. DOMAIN pid_list = {1, 2}  OBVIOUS
  <2>2. pid_list[1] = PID_MIN /\ pid_list[2] = PID_MIN + 1  OBVIOUS
  <2> QED  BY <2>1, <2>2, Zenon DEF Range
<1>5. boot \in Procs /\ pid[boot] = PID_MIN + 1 /\ \A p \in Procs \ {boot} : pid[p] = 0  OBVIOUS
<1>6. PID_MIN + 1 # 0 /\ alive = {boot} /\ \A p \in Procs : code[p] = None  OBVIOUS
<1>7. PidsOK  BY <1>3, <1>4, <1>5, <1>6, Zenon DEF PidsOK
<1>8. PidsBounded
  <2>1. \A p \in Procs : pid[p] <= PID_MIN + 1  OBVIOUS
  <2> QED  BY <2>1, PID_MIN + 1 \in Nat, Zenon DEF PidsBounded
<1>9. NodesOK /\ WaitsOK /\ SleeperHasExiter
  BY <1>2, Zenon DEF NodesOK, WaitsOK, SleeperHasExiter
<1> QED  BY <1>1, <1>7, <1>8, <1>9, Zenon DEF WInv

\* A new process gets a pid above all those of thread_bootstrap, its own or the
\* error code; nobody waits for a process that did not exist.
LEMMA ForkWInv == ASSUME WInv, NEW p \in Procs, NEW q \in Procs, fork(p, q) PROVE WInv'
<1> USE ProcessAssumption
<1> DEFINE n == End(pid_list)
           m == IF n > MAX_PID THEN EINVAL ELSE n + 1
<1>1. TypeOK /\ PidsOK /\ PidsBounded /\ NodesOK /\ WaitsOK /\ SleeperHasExiter  BY Zenon DEF WInv
<1>2. Ascending(pid_list) /\ WalkEnd(pid_list) = n  BY <1>1, WalkEndIs, Zenon DEF PidsOK
<1>3. n \in Nat /\ PID_MIN + 1 <= n  BY <1>2, AscendingIs, Zenon
<1>4. m \in Nat /\ m > PID_MIN + 1  BY <1>3
<1>5. /\ pid[q] = 0 /\ pid' = [pid EXCEPT ![q] = m] /\ alive' = alive \cup {q}
      /\ parent' = [parent EXCEPT ![q] = p]
      /\ pid_list' = IF n > MAX_PID THEN pid_list ELSE Linked(pid_list, n)
      /\ UNCHANGED <<wait_list, pc, arg, stat, code, panicked, outcome>>
  BY <1>2, Zenon DEF fork
<1>6. /\ Ascending(pid_list')
      /\ \A k \in Range(pid_list') : k \in Range(pid_list) \/ k = m
  <2>1. CASE n > MAX_PID  BY <1>2, <1>5, <2>1, Zenon
  <2>2. CASE ~(n > MAX_PID)
    <3>1. pid_list' = Linked(pid_list, n) /\ m = n + 1  BY <1>5, <2>2, Zenon
    <3> QED  BY <1>2, <3>1, LinkedIs, Zenon
  <2> QED  BY <2>1, <2>2, Zenon
<1> HIDE DEF n, m
<1>7. pid \in [Procs -> Nat]  BY <1>1, Zenon DEF TypeOK
<1>8. pid'[q] = m /\ \A x \in Procs : pid[x] # 0 => x # q /\ pid'[x] = pid[x]  BY <1>5, <1>7, Zenon
<1>9. \A x \in Procs : x # q => pid'[x] = pid[x]  BY <1>5, <1>7, Zenon
<1>10. TypeOK'
  <2>1. pid_list' \in Seq(Nat)  BY <1>6, Zenon DEF Ascending
  <2>2. pid' \in [Procs -> Nat]  BY <1>4, <1>5, <1>7, Zenon
  <2>3. parent' \in [Procs -> Procs \cup {None}] /\ alive' \in SUBSET Procs  BY <1>1, <1>5, Zenon DEF TypeOK
  <2> QED  BY <1>1, <1>5, <2>1, <2>2, <2>3, Zenon DEF TypeOK
<1>11. PidsOK'
  <2>1. pid[boot] # 0 /\ pid'[boot] = PID_MIN + 1 /\ code[boot] = None /\ q # boot
    <3>1. pid[boot] = PID_MIN + 1 /\ code[boot] = None  BY <1>1, Zenon DEF PidsOK
    <3>2. PID_MIN + 1 # 0  OBVIOUS
    <3> QED  BY <1>8, <3>1, <3>2, Zenon
  <2>2. \A x \in Procs \ {boot} : pid'[x] = 0 \/ pid'[x] > PID_MIN + 1
    BY <1>1, <1>4, <1>8, <1>9, Zenon DEF PidsOK
  <2>3. code[q] = None  BY <1>1, <1>5, Zenon DEF PidsOK
  <2>4. ASSUME NEW k \in Range(pid_list') PROVE k = PID_MIN \/ \E x \in Procs : pid'[x] = k /\ code[x] = None
    <3>1. CASE k = m  BY <1>8, <2>3, <3>1, Zenon
    <3>2. CASE k \in Range(pid_list) /\ k # PID_MIN
      <4>1. PICK x \in Procs : pid[x] = k /\ code[x] = None  BY <1>1, <3>2, Zenon DEF PidsOK
      <4>2. k # 0
        <5>1. \A i \in 1..Len(pid_list) : pid_list[i] # 0
          <6> TAKE i \in 1..Len(pid_list)
          <6>1. i = 1 \/ pid_list[1] < pid_list[i]  BY <1>2, SMTT(30) DEF Ascending
          <6>2. pid_list[i] \in Nat /\ pid_list[1] = PID_MIN  BY <1>2, SMTT(30) DEF Ascending
          <6> QED  BY <6>1, <6>2
        <5>2. DOMAIN pid_list = 1..Len(pid_list)  BY <1>2 DEF Ascending
        <5> QED  BY <3>2, <5>1, <5>2, Zenon DEF Range
      <4> QED  BY <1>8, <4>1, <4>2, Zenon
    <3> QED  BY <1>6, <3>1, <3>2, Zenon
  <2>5. \A x \in alive' : pid'[x] # 0
    <3>1. alive \subseteq Procs /\ m # 0  BY <1>1, <1>4 DEF TypeOK
    <3>2. \A x \in alive : pid[x] # 0  BY <1>1, Zenon DEF PidsOK
    <3> QED  BY <1>5, <1>8, <3>1, <3>2, Zenon
  <2>6. \A x \in Procs : pid'[x] = 0 => code[x] = None
    BY <1>1, <1>9, <2>3, Zenon DEF PidsOK
  <2>7. code' = code  BY <1>5, Zenon
  <2> QED  BY <1>6, <2>1, <2>2, <2>4, <2>5, <2>6, <2>7, Zenon DEF PidsOK
<1>12. PidsBounded'
  <2>1. PICK b \in Nat : \A x \in Procs : pid[x] <= b  BY <1>1, Zenon DEF PidsBounded
  <2>2. b + m \in Nat /\ \A x \in Procs : pid'[x] <= b + m
    <3>1. \A x \in Procs : pid'[x] = m \/ pid'[x] = pid[x]  BY <1>8, <1>9, Zenon
    <3> QED  BY <1>4, <1>7, <2>1, <3>1
  <2> QED  BY <2>2, Zenon DEF PidsBounded
<1>13. NodesOK'  BY <1>1, <1>5, Zenon DEF NodesOK
<1>14. ASSUME NEW w \in Procs, pc[w] # "user"
       PROVE  /\ w \in alive /\ arg[w] \in Procs /\ pid[w] # 0 /\ pid[arg[w]] # 0 /\ pid[arg[w]] > pid[w]
              /\ pid'[w] = pid[w] /\ pid'[arg[w]] = pid[arg[w]]
  <2>1. w \in alive /\ arg[w] \in Procs /\ pid[arg[w]] > pid[w]  BY <1>1, <1>14, Zenon DEF WaitsOK
  <2>2. pid[w] # 0  BY <1>1, <2>1, Zenon DEF PidsOK
  <2>3. pid[arg[w]] # 0  BY <1>7, <2>1, <2>2
  <2> QED  BY <1>8, <2>1, <2>2, <2>3, Zenon
<1>15. WaitsOK'
  <2>1. UNCHANGED <<wait_list, pc, arg>>  BY <1>5, Zenon
  <2>2. \A w, i : Newest(w, i)' <=> Newest(w, i)  BY <2>1, Zenon DEF Newest, NodesOf
  <2> SUFFICES ASSUME NEW w \in Procs, pc[w] # "user"
               PROVE  /\ w \in alive' /\ arg[w] \in Procs /\ pid'[arg[w]] > pid'[w]
                      /\ \E i \in DOMAIN wait_list :
                           Newest(w, i) /\ (pc[w] \in {"bridge", "asleep"} => wait_list[i].pid = pid'[arg[w]])
    BY <2>1, <2>2, Zenon DEF WaitsOK
  <2>3. w \in alive'  BY <1>5, <1>14, Zenon
  <2>4. \E i \in DOMAIN wait_list :
           Newest(w, i) /\ (pc[w] \in {"bridge", "asleep"} => wait_list[i].pid = pid[arg[w]])
    BY <1>1, Zenon DEF WaitsOK
  <2> QED  BY <1>14, <2>3, <2>4, Zenon
<1>16. SleeperHasExiter'
  <2> SUFFICES ASSUME NEW w \in Procs, pc[w] \in {"bridge", "asleep"}
               PROVE  \E x \in Procs : pid'[x] = pid'[arg[w]] /\ code[x] = None
    <3>1. UNCHANGED <<pc, arg, code>>  BY <1>5, Zenon
    <3> QED  BY <3>1, Zenon DEF SleeperHasExiter
  <2>1. pc[w] # "user"  OBVIOUS
  <2>2. PICK x \in Procs : pid[x] = pid[arg[w]] /\ code[x] = None  BY <1>1, Zenon DEF SleeperHasExiter
  <2> QED  BY <1>8, <1>14, <2>1, <2>2, Zenon
<1> QED  BY <1>10, <1>11, <1>12, <1>13, <1>15, <1>16, Zenon DEF WInv

\* What Tell leaves is an outcome.
LEMMA TellIs ==
    ASSUME TypeOK, NEW p, NEW c, NEW what \in {"denied", "right", "wrong"}, Tell(p, c, what)
    PROVE  outcome' \in [Procs -> {"none", "denied", "right", "wrong"}]
BY Zenon DEF Tell, TypeOK

\* A waitpid that is refused changes nothing of it.
LEMMA RefusedWInv == ASSUME WInv, NEW p \in Procs, NEW q \in Procs, waitpid_refused(p, q) PROVE WInv'
<1>1. UNCHANGED <<pid_list, pid, parent, alive, wait_list, pc, arg, stat, code, panicked>>
  BY Zenon DEF waitpid_refused, procs
<1>2. outcome' \in [Procs -> {"none", "denied", "right", "wrong"}]
  BY TellIs, Zenon DEF WInv, waitpid_refused
<1>3. TypeOK'  BY <1>1, <1>2, Zenon DEF WInv, TypeOK
<1>4. PidsOK' /\ PidsBounded'  BY <1>1, Zenon DEF WInv, PidsOK, PidsBounded
<1>5. NodesOK' /\ SleeperHasExiter'  BY <1>1, ZenonT(60) DEF WInv, NodesOK, SleeperHasExiter
<1>6. WaitsOK'  BY <1>1, Zenon DEF WInv, WaitsOK, Newest, NodesOf
<1> QED  BY <1>3, <1>4, <1>5, <1>6, Zenon DEF WInv

\* The pid that a process may wait for is on the list, so its owner has still to
\* exit; the new node is the newest, and the only one beside the head.
LEMMA EnterWInv ==
    ASSUME WInv, NEW p \in Procs, NEW c \in Procs, NEW s \in Codes, waitpid_enter(p, c, s)
    PROVE  WInv'
<1> USE ProcessAssumption
<1> DEFINE node == [pid |-> pid[c], status |-> 0, waiter |-> p, head |-> wait_list = <<>>]
<1>1. TypeOK /\ PidsOK /\ PidsBounded /\ NodesOK /\ WaitsOK /\ SleeperHasExiter  BY Zenon DEF WInv
<1>2. /\ p \in alive /\ pc[p] = "user" /\ pid[c] \in Range(pid_list) /\ ~(pid[c] <= pid[p])
      /\ wait_list' = Append(wait_list, node)
      /\ pc' = [pc EXCEPT ![p] = "bridge"] /\ arg' = [arg EXCEPT ![p] = c]
      /\ stat' = [stat EXCEPT ![p] = s]
      /\ UNCHANGED <<pid_list, pid, parent, alive, code, panicked, outcome>>
  BY Zenon DEF waitpid_enter, Refused, Running, procs
<1>3. wait_list \in Seq(Node) /\ pid \in [Procs -> Nat]  BY <1>1, Zenon DEF TypeOK
<1> PICK n \in Nat : n = Len(wait_list)  BY <1>3
<1>4. node \in Node  BY <1>3 DEF Node
<1>5. node.pid = pid[c] /\ node.waiter = p /\ (node.head <=> n = 0)
  <2>1. wait_list = <<>> <=> n = 0  BY <1>3
  <2>2. node.pid = pid[c] /\ node.waiter = p /\ node.head = (wait_list = <<>>)  OBVIOUS
  <2> QED  BY <2>1, <2>2, Zenon
<1> HIDE DEF node
<1>6. wait_list' \in Seq(Node) /\ Len(wait_list') = n + 1  BY <1>2, <1>3, <1>4, SMTT(30)
<1>7. wait_list'[n+1] = node /\ \A j \in 1..n : wait_list'[j] = wait_list[j]  BY <1>2, <1>3, <1>4
<1>8. DOMAIN wait_list = 1..n  BY <1>3
<1>9. DOMAIN wait_list' = 1..n+1  BY <1>6
<1>10. pc'[p] = "bridge" /\ \A w \in Procs : w # p => pc'[w] = pc[w]  BY <1>1, <1>2, Zenon DEF TypeOK
<1>11. arg'[p] = c /\ \A w \in Procs : w # p => arg'[w] = arg[w]  BY <1>1, <1>2, Zenon DEF TypeOK
<1>12. TypeOK'
  <2>1. pc' \in [Procs -> {"user", "bridge", "asleep", "woken"}]  BY <1>1, <1>2, Zenon DEF TypeOK
  <2>2. arg' \in [Procs -> Procs \cup {None}]  BY <1>1, <1>2, Zenon DEF TypeOK
  <2>3. stat' \in [Procs -> Codes \cup {0}]  BY <1>1, <1>2, Zenon DEF TypeOK
  <2> QED  BY <1>1, <1>2, <1>6, <2>1, <2>2, <2>3, Zenon DEF TypeOK
<1>13. PidsOK' /\ PidsBounded'
  <2>1. UNCHANGED <<pid_list, pid, alive, code>>  BY <1>2, Zenon
  <2> QED  BY <1>1, <2>1, Zenon DEF PidsOK, PidsBounded
<1>14. \A j \in 1..n+1 : j = n+1 \/ j \in 1..n  BY <1>3
<1>15. n+1 \notin 1..n /\ n+1 \in 1..n+1 /\ \A j \in 1..n : j \in 1..n+1 /\ j <= n+1  BY <1>3
<1>16. \A j \in 1..n : wait_list[j].waiter \in Procs
  <2>1. \A j \in 1..n : wait_list[j] \in Node  BY <1>3
  <2> QED  BY <2>1, Zenon DEF Node
<1>17. \A j \in 1..n : j # 1 => wait_list[j].waiter # p
  BY <1>1, <1>2, <1>8, Zenon DEF NodesOK
<1>18. NodesOK'
  <2>1. \A j \in 1..n+1 : wait_list'[j].head <=> j = 1
    <3>1. node.head <=> n+1 = 1  BY <1>3, <1>5
    <3> QED  BY <1>1, <1>7, <1>8, <1>14, <3>1, ZenonT(60) DEF NodesOK
  <2>2. \A j, k \in 1..n : j # 1 /\ k # 1 /\ wait_list[j].waiter = wait_list[k].waiter => j = k
    BY <1>1, <1>8, Zenon DEF NodesOK
  <2>3. \A j, k \in 1..n+1 : j # 1 /\ k # 1 /\ wait_list'[j].waiter = wait_list'[k].waiter => j = k
    <3> TAKE j, k \in 1..n+1
    <3> HAVE j # 1 /\ k # 1 /\ wait_list'[j].waiter = wait_list'[k].waiter
    <3>1. \A i \in 1..n : i # 1 => wait_list'[i].waiter # wait_list'[n+1].waiter  BY <1>5, <1>7, <1>17, Zenon
    <3>2. CASE j \in 1..n /\ k \in 1..n
      <4>1. wait_list[j].waiter = wait_list[k].waiter  BY <1>7, <3>2, Zenon
      <4> QED  BY <2>2, <3>2, <4>1, Zenon
    <3>3. CASE j = n+1 \/ k = n+1
      <4>1. j \in 1..n => wait_list'[j].waiter # wait_list'[n+1].waiter  BY <3>1, Zenon
      <4>2. k \in 1..n => wait_list'[k].waiter # wait_list'[n+1].waiter  BY <3>1, Zenon
      <4>3. j \notin 1..n /\ k \notin 1..n  BY <3>3, <4>1, <4>2, <1>15, Zenon
      <4> QED  BY <1>14, <4>3, Zenon
    <3> QED  BY <1>14, <3>2, <3>3, Zenon
  <2>4. \A j \in 1..n : j # 1 => pc[wait_list[j].waiter] # "user"  BY <1>1, <1>8, Zenon DEF NodesOK
  <2>5. \A j \in 1..n+1 : j # 1 => pc'[wait_list'[j].waiter] # "user"
    <3> TAKE j \in 1..n+1
    <3>1. CASE j = n+1  BY <1>5, <1>7, <1>10, <3>1, Zenon
    <3>2. CASE j \in 1..n /\ j # 1
      <4>1. pc'[wait_list[j].waiter] = pc[wait_list[j].waiter]  BY <1>10, <1>16, <1>17, <3>2, Zenon
      <4> QED  BY <1>7, <2>4, <3>2, <4>1, Zenon
    <3> QED  BY <1>14, <3>1, <3>2, Zenon
  <2> QED  BY <1>9, <2>1, <2>3, <2>5, Zenon DEF NodesOK
<1>19. WaitsOK'
  <2>1. alive' = alive /\ pid' = pid  BY <1>2, Zenon
  <2> SUFFICES ASSUME NEW w \in Procs, pc'[w] # "user"
               PROVE  /\ w \in alive /\ arg'[w] \in Procs /\ pid[arg'[w]] > pid[w]
                      /\ \E i \in DOMAIN wait_list' :
                            /\ Newest(w, i)'
                            /\ pc'[w] \in {"bridge", "asleep"} => wait_list'[i].pid = pid[arg'[w]]
    BY <2>1, Zenon DEF WaitsOK
  <2>2. CASE w = p
    <3>1. Newest(p, n+1)'
      <4>1. \A j \in 1..n+1 : j <= n+1  BY <1>3
      <4>2. wait_list'[n+1].waiter = p  BY <1>5, <1>7, Zenon
      <4> QED  BY <1>9, <1>15, <4>1, <4>2, Zenon DEF Newest, NodesOf
    <3>2. pid[c] > pid[p]  BY <1>2, <1>3
    <3>3. wait_list'[n+1].pid = pid[arg'[p]] /\ arg'[p] = c  BY <1>5, <1>7, <1>11, Zenon
    <3>4. n+1 \in DOMAIN wait_list'  BY <1>9, <1>15, Zenon
    <3>5. p \in alive /\ arg'[p] \in Procs /\ pid[arg'[p]] > pid[p]  BY <1>2, <3>2, <3>3, Zenon
    <3> QED  BY <2>2, <3>1, <3>3, <3>4, <3>5, Zenon
  <2>3. CASE w # p
    <3>1. pc'[w] = pc[w] /\ arg'[w] = arg[w]  BY <1>10, <1>11, <2>3, Zenon
    <3>2. w \in alive /\ arg[w] \in Procs /\ pid[arg[w]] > pid[w]  BY <1>1, <3>1, Zenon DEF WaitsOK
    <3>3. PICK i \in DOMAIN wait_list :
             Newest(w, i) /\ (pc[w] \in {"bridge", "asleep"} => wait_list[i].pid = pid[arg[w]])
      BY <1>1, <3>1, Zenon DEF WaitsOK
    <3>4. wait_list'[i] = wait_list[i] /\ i \in DOMAIN wait_list'  BY <1>7, <1>8, <1>9, <1>15, Zenon
    <3>5. Newest(w, i)'
      BY <1>5, <1>7, <1>8, <1>9, <1>14, <2>3, <3>3, <3>4, Zenon DEF Newest, NodesOf
    <3> QED  BY <3>1, <3>2, <3>3, <3>4, <3>5, Zenon
  <2> QED  BY <2>2, <2>3, Zenon
<1>20. SleeperHasExiter'
  <2>1. pid' = pid /\ code' = code  BY <1>2, Zenon
  <2> SUFFICES ASSUME NEW w \in Procs, pc'[w] \in {"bridge", "asleep"}
               PROVE  \E x \in Procs : pid[x] = pid[arg'[w]] /\ code[x] = None
    BY <2>1, Zenon DEF SleeperHasExiter
  <2>2. CASE w # p
    <3>1. pc'[w] = pc[w] /\ arg'[w] = arg[w]  BY <1>10, <1>11, <2>2, Zenon
    <3> QED  BY <1>1, <3>1, ZenonT(60) DEF SleeperHasExiter
  <2>3. CASE w = p
    <3>1. pid[p] # 0  BY <1>1, <1>2, Zenon DEF PidsOK
    <3>2. pid[p] >= PID_MIN + 1
      <4>1. p = boot \/ pid[p] > PID_MIN + 1  BY <1>1, <3>1, Zenon DEF PidsOK
      <4>2. pid[boot] = PID_MIN + 1  BY <1>1, Zenon DEF PidsOK
      <4> QED  BY <1>3, <4>1, <4>2
    <3>3. pid[c] # PID_MIN  BY <1>2, <1>3, <3>2
    <3>4. \E x \in Procs : pid[x] = pid[c] /\ code[x] = None  BY <1>1, <1>2, <3>3, Zenon DEF PidsOK
    <3> QED  BY <1>11, <2>3, <3>4, Zenon
  <2> QED  BY <2>2, <2>3, Zenon
<1> QED  BY <1>12, <1>13, <1>18, <1>19, <1>20, Zenon DEF WInv

\* A waiter goes to sleep.
LEMMA SleepWInv == ASSUME WInv, NEW p \in Procs, waitpid_sleep(p) PROVE WInv'
<1>1. TypeOK /\ PidsOK /\ PidsBounded /\ NodesOK /\ WaitsOK /\ SleeperHasExiter  BY Zenon DEF WInv
<1>2. /\ pc[p] = "bridge" /\ pc' = [pc EXCEPT ![p] = "asleep"]
      /\ UNCHANGED <<pid_list, pid, parent, alive, wait_list, arg, stat, code, panicked, outcome>>
  BY Zenon DEF waitpid_sleep, procs
<1>3. pc'[p] = "asleep" /\ \A w \in Procs : w # p => pc'[w] = pc[w]  BY <1>1, <1>2, Zenon DEF TypeOK
<1>4. pc' \in [Procs -> {"user", "bridge", "asleep", "woken"}]  BY <1>1, <1>2, Zenon DEF TypeOK
<1>5. TypeOK'  BY <1>1, <1>2, <1>4, Zenon DEF TypeOK
<1>6. PidsOK' /\ PidsBounded'  BY <1>1, <1>2, Zenon DEF PidsOK, PidsBounded
<1>7. \A w \in Procs : /\ pc'[w] # "user" <=> pc[w] # "user"
                       /\ pc'[w] \in {"bridge", "asleep"} <=> pc[w] \in {"bridge", "asleep"}
  BY <1>2, <1>3, Zenon
<1>8. \A i \in DOMAIN wait_list : wait_list[i].waiter \in Procs
  <2>1. \A i \in DOMAIN wait_list : wait_list[i] \in Node  BY <1>1 DEF TypeOK
  <2> QED  BY <2>1, Zenon DEF Node
<1>9. NodesOK'  BY <1>1, <1>2, <1>7, <1>8, Zenon DEF NodesOK
<1>10. WaitsOK'
  <2>1. \A w, i : Newest(w, i)' <=> Newest(w, i)  BY <1>2, Zenon DEF Newest, NodesOf
  <2>2. UNCHANGED <<pid, alive, arg, wait_list>>  BY <1>2, Zenon
  <2> QED  BY <1>1, <1>7, <2>1, <2>2, Zenon DEF WaitsOK
<1>11. SleeperHasExiter'
  <2>1. UNCHANGED <<pid, arg, code>>  BY <1>2, Zenon
  <2> QED  BY <1>1, <1>7, <2>1, Zenon DEF SleeperHasExiter
<1> QED  BY <1>5, <1>6, <1>9, <1>10, <1>11, Zenon DEF WInv

\* A node taken off the list: the others move up, in order.
LEMMA ReturnWInv == ASSUME WInv, NEW p \in Procs, waitpid_return(p) PROVE WInv'
<1> USE ProcessAssumption
<1> DEFINE n == Len(wait_list)
<1>1. TypeOK /\ PidsOK /\ PidsBounded /\ NodesOK /\ WaitsOK /\ SleeperHasExiter  BY Zenon DEF WInv
<1>2. /\ pc[p] = "woken" /\ pc' = [pc EXCEPT ![p] = "user"]
      /\ arg' = [arg EXCEPT ![p] = None] /\ stat' = [stat EXCEPT ![p] = 0]
      /\ UNCHANGED <<pid_list, pid, parent, alive, code>>
  BY Zenon DEF waitpid_return, procs
<1>3. wait_list \in Seq(Node) /\ n \in Nat  BY <1>1 DEF TypeOK
<1>4. DOMAIN wait_list = 1..n  BY <1>3
<1>5. PICK i \in 1..n : Newest(p, i)
  <2>1. pc[p] # "user"  BY <1>2, Zenon
  <2> QED  BY <1>1, <1>4, <2>1, Zenon DEF WaitsOK
<1>6. NodeOf(p) = i /\ wait_list[i].waiter = p /\ (wait_list[i].head <=> i = 1)
  <2>1. wait_list[i].waiter = p  BY <1>5, Zenon DEF Newest, NodesOf
  <2> QED  BY <1>1, <1>4, <1>5, <2>1, NewestIs, Zenon DEF NodesOK
<1>7. \/ i # 1 /\ wait_list' = Cut(wait_list, i) /\ panicked' = panicked
      \/ i = 1 /\ wait_list' = wait_list /\ panicked' \in BOOLEAN
  BY <1>6, Zenon DEF waitpid_return, Unlinked, Cut
<1>8. pc'[p] = "user" /\ \A w \in Procs : w # p => pc'[w] = pc[w]  BY <1>1, <1>2, Zenon DEF TypeOK
<1>9. \A w \in Procs : w # p => arg'[w] = arg[w]  BY <1>1, <1>2, Zenon DEF TypeOK
<1>10. outcome' \in [Procs -> {"none", "denied", "right", "wrong"}]
  <2>1. \/ Tell(p, arg[p], "right") \/ Tell(p, arg[p], "wrong")  BY Zenon DEF waitpid_return
  <2> QED  BY <1>1, <2>1, TellIs, Zenon
\* Where the node at j goes, and where the one at k comes from.
<1> DEFINE to(j) == IF i # 1 /\ j > i THEN j - 1 ELSE j
           m == IF i # 1 THEN n - 1 ELSE n
<1>11. m \in Nat /\ wait_list' \in Seq(Node) /\ Len(wait_list') = m
  <2>1. CASE i # 1
    <3>1. Cut(wait_list, i) \in Seq(Node) /\ Len(Cut(wait_list, i)) = n - 1  BY <1>3, CutIs, Zenon
    <3> QED  BY <1>3, <1>7, <2>1, <3>1
  <2>2. CASE i = 1  BY <1>3, <1>7, <2>2, Zenon
  <2> QED  BY <2>1, <2>2, Zenon
<1>12. ASSUME NEW j \in 1..n, i # 1 => j # i PROVE to(j) \in 1..m /\ wait_list'[to(j)] = wait_list[j]
  <2>1. CASE i = 1  BY <1>3, <1>7, <2>1, Zenon
  <2>2. CASE i # 1
    <3> DEFINE t == Cut(wait_list, i)
    <3>1. /\ \A k \in 1..i-1 : t[k] = wait_list[k]
          /\ \A k \in 1..n-i : t[i-1+k] = wait_list[i+k]
      BY <1>3, CutIs, Zenon
    <3>2. wait_list' = t  BY <1>7, <2>2, Zenon
    <3> HIDE DEF t
    <3>3. CASE j < i
      <4>1. j \in 1..i-1 /\ to(j) = j /\ j \in 1..m  BY <1>3, <2>2, <3>3
      <4> QED  BY <3>1, <3>2, <4>1, Zenon
    <3>4. CASE j > i
      <4>1. j - i \in 1..n-i /\ i - 1 + (j - i) = j - 1 /\ i + (j - i) = j  BY <1>3, <3>4
      <4>2. to(j) = j - 1 /\ j - 1 \in 1..m  BY <1>3, <2>2, <3>4
      <4>3. t[i - 1 + (j - i)] = wait_list[i + (j - i)]  BY <3>1, <4>1, Zenon
      <4> QED  BY <3>2, <4>1, <4>2, <4>3, Zenon
    <3> QED  BY <1>12, <2>2, <3>3, <3>4
  <2> QED  BY <2>1, <2>2, Zenon
<1>13. ASSUME NEW k \in 1..m PROVE \E j \in 1..n : (i # 1 => j # i) /\ k = to(j)
  <2>1. CASE i # 1 /\ k >= i
    <3>1. k + 1 \in 1..n /\ k + 1 # i /\ k = to(k + 1)  BY <1>3, <2>1
    <3> QED  BY <3>1, Zenon
  <2>2. CASE ~(i # 1 /\ k >= i)
    <3>1. k \in 1..n /\ (i # 1 => k # i) /\ k = to(k)  BY <1>3, <2>2
    <3> QED  BY <3>1, Zenon
  <2> QED  BY <2>1, <2>2, Zenon
<1>14. \A j, k \in 1..n : (i # 1 => j # i /\ k # i) /\ j <= k => to(j) <= to(k)  BY <1>3
<1>15. \A j \in 1..n : (i # 1 => j # i) => (to(j) = 1 <=> j = 1)  BY <1>3
<1>16. DOMAIN wait_list' = 1..m  BY <1>11
<1> HIDE DEF to, m, n
<1>17. \A j \in 1..n : j # 1 /\ (i # 1 => j # i) => wait_list[j].waiter # p
  <2> TAKE j \in 1..n
  <2> HAVE j # 1 /\ (i # 1 => j # i)
  <2>1. CASE i # 1
    BY <1>1, <1>4, <1>6, <2>1, Zenon DEF NodesOK
  <2>2. CASE i = 1
    <3>1. ~(j <= i)  BY <2>2, <1>3
    <3> QED  BY <1>4, <1>5, <3>1, Zenon DEF Newest, NodesOf
  <2> QED  BY <2>1, <2>2, Zenon
<1>18. \A j \in 1..n : wait_list[j].waiter \in Procs
  <2>1. \A j \in 1..n : wait_list[j] \in Node  BY <1>3 DEF n
  <2> QED  BY <2>1, Zenon DEF Node
<1>19. TypeOK'
  <2>1. pc' \in [Procs -> {"user", "bridge", "asleep", "woken"}]  BY <1>1, <1>2, Zenon DEF TypeOK
  <2>2. arg' \in [Procs -> Procs \cup {None}]  BY <1>1, <1>2, Zenon DEF TypeOK
  <2>3. stat' \in [Procs -> Codes \cup {0}]  BY <1>1, <1>2, Zenon DEF TypeOK
  <2>4. panicked' \in BOOLEAN  BY <1>1, <1>7, Zenon DEF TypeOK
  <2> QED  BY <1>1, <1>2, <1>10, <1>11, <2>1, <2>2, <2>3, <2>4, Zenon DEF TypeOK
<1>20. PidsOK' /\ PidsBounded'
  <2>1. UNCHANGED <<pid_list, pid, alive, code>>  BY <1>2, Zenon
  <2> QED  BY <1>1, <2>1, Zenon DEF PidsOK, PidsBounded
<1>21. NodesOK'
  <2>1. \A k \in 1..m : wait_list'[k].head <=> k = 1
    <3> TAKE k \in 1..m
    <3>1. PICK j \in 1..n : (i # 1 => j # i) /\ k = to(j)  BY <1>13, Zenon
    <3>2. wait_list[j].head <=> j = 1  BY <1>1, <1>4, Zenon DEF NodesOK
    <3>3. wait_list'[k] = wait_list[j]  BY <1>12, <3>1, Zenon
    <3>4. k = 1 <=> j = 1  BY <1>15, <3>1, Zenon
    <3> QED  BY <3>2, <3>3, <3>4, Zenon
  <2>2. \A k, l \in 1..m : k # 1 /\ l # 1 /\ wait_list'[k].waiter = wait_list'[l].waiter => k = l
    <3> TAKE k, l \in 1..m
    <3> HAVE k # 1 /\ l # 1 /\ wait_list'[k].waiter = wait_list'[l].waiter
    <3>1. PICK j \in 1..n : (i # 1 => j # i) /\ k = to(j)  BY <1>13, Zenon
    <3>2. PICK h \in 1..n : (i # 1 => h # i) /\ l = to(h)  BY <1>13, Zenon
    <3>3. wait_list'[k] = wait_list[j] /\ wait_list'[l] = wait_list[h]  BY <1>12, <3>1, <3>2, Zenon
    <3>4. j # 1 /\ h # 1  BY <1>15, <3>1, <3>2, Zenon
    <3>5. wait_list[j].waiter = wait_list[h].waiter  BY <3>3, Zenon
    <3>6. j = h  BY <1>1, <1>4, <3>4, <3>5, Zenon DEF NodesOK
    <3> QED  BY <3>1, <3>2, <3>6, Zenon
  <2>3. \A k \in 1..m : k # 1 => pc'[wait_list'[k].waiter] # "user"
    <3> TAKE k \in 1..m
    <3> HAVE k # 1
    <3>1. PICK j \in 1..n : (i # 1 => j # i) /\ k = to(j)  BY <1>13, Zenon
    <3>2. wait_list'[k] = wait_list[j]  BY <1>12, <3>1, Zenon
    <3>3. j # 1  BY <1>15, <3>1, Zenon
    <3>4. wait_list[j].waiter # p /\ wait_list[j].waiter \in Procs  BY <1>17, <1>18, <3>1, <3>3, Zenon
    <3>5. pc[wait_list[j].waiter] # "user"  BY <1>1, <1>4, <3>3, Zenon DEF NodesOK
    <3> QED  BY <1>8, <3>2, <3>4, <3>5, Zenon
  <2> QED  BY <1>16, <2>1, <2>2, <2>3, Zenon DEF NodesOK
<1>22. WaitsOK'
  <2>1. alive' = alive /\ pid' = pid  BY <1>2, Zenon
  <2> SUFFICES ASSUME NEW w \in Procs, pc'[w] # "user"
               PROVE  /\ w \in alive /\ arg'[w] \in Procs /\ pid[arg'[w]] > pid[w]
                      /\ \E k \in DOMAIN wait_list' :
                            /\ Newest(w, k)'
                            /\ pc'[w] \in {"bridge", "asleep"} => wait_list'[k].pid = pid[arg'[w]]
    BY <2>1, Zenon DEF WaitsOK
  <2>2. w # p /\ pc'[w] = pc[w] /\ arg'[w] = arg[w]  BY <1>8, <1>9, Zenon
  <2>3. w \in alive /\ arg[w] \in Procs /\ pid[arg[w]] > pid[w]  BY <1>1, <2>2, Zenon DEF WaitsOK
  <2>4. PICK j \in 1..n :
           Newest(w, j) /\ (pc[w] \in {"bridge", "asleep"} => wait_list[j].pid = pid[arg[w]])
    BY <1>1, <1>4, <2>2, Zenon DEF WaitsOK
  <2>5. wait_list[j].waiter = w /\ \A h \in 1..n : wait_list[h].waiter = w => h <= j
    BY <1>4, <2>4, Zenon DEF Newest, NodesOf
  <2>6. j # i  BY <1>6, <2>2, <2>5, Zenon
  <2>7. to(j) \in 1..m /\ wait_list'[to(j)] = wait_list[j]  BY <1>12, <2>6, Zenon
  <2>8. ASSUME NEW k \in 1..m, wait_list'[k].waiter = w PROVE k <= to(j)
    <3>1. PICK h \in 1..n : (i # 1 => h # i) /\ k = to(h)  BY <1>13, Zenon
    <3>2. wait_list'[k] = wait_list[h]  BY <1>12, <3>1, Zenon
    <3>3. h <= j  BY <2>5, <2>8, <3>2, Zenon
    <3> QED  BY <1>14, <2>6, <3>1, <3>3, Zenon
  <2>9. Newest(w, to(j))'
    <3>1. wait_list'[to(j)].waiter = w  BY <2>5, <2>7, Zenon
    <3> QED  BY <1>16, <2>7, <2>8, <3>1, Zenon DEF Newest, NodesOf
  <2>10. to(j) \in DOMAIN wait_list'  BY <1>16, <2>7, Zenon
  <2>11. pc'[w] \in {"bridge", "asleep"} => wait_list'[to(j)].pid = pid[arg'[w]]  BY <2>2, <2>4, <2>7, Zenon
  <2>12. w \in alive /\ arg'[w] \in Procs /\ pid[arg'[w]] > pid[w]  BY <2>2, <2>3, Zenon
  <2> QED  BY <2>9, <2>10, <2>11, <2>12, Zenon
<1>23. SleeperHasExiter'
  <2>1. UNCHANGED <<pid, code>>  BY <1>2, Zenon
  <2>2. \A w \in Procs : pc'[w] \in {"bridge", "asleep"} =>
            pc[w] \in {"bridge", "asleep"} /\ arg'[w] = arg[w]
    BY <1>8, <1>9, Zenon
  <2> SUFFICES ASSUME NEW w \in Procs, pc'[w] \in {"bridge", "asleep"}
               PROVE  \E x \in Procs : pid[x] = pid[arg'[w]] /\ code[x] = None
    BY <2>1, Zenon DEF SleeperHasExiter
  <2>3. \E x \in Procs : pid[x] = pid[arg[w]] /\ code[x] = None  BY <1>1, <2>2, Zenon DEF SleeperHasExiter
  <2> QED  BY <2>2, <2>3, Zenon
<1> QED  BY <1>19, <1>20, <1>21, <1>22, <1>23, Zenon DEF WInv

\* Whoever sleeps for the exiting process's pid is found and woken, and is not
\* met between lock_release and wchan_sleep; the others keep their exiter.
LEMMA ExitWInv == ASSUME WInv, NEW p \in Procs, NEW c \in Codes, sys__exit(p, c) PROVE WInv'
<1> USE ProcessAssumption
<1> DEFINE M == Matching(p)
           W == {wait_list[i].waiter : i \in {j \in M : j = NodeOf(wait_list[j].waiter)}}
<1>1. TypeOK /\ PidsOK /\ PidsBounded /\ NodesOK /\ WaitsOK /\ SleeperHasExiter  BY Zenon DEF WInv
<1>2. /\ p \in alive /\ pc[p] = "user" /\ p # boot
      /\ \A q \in W : pc[q] # "bridge"
      /\ wait_list' = [i \in DOMAIN wait_list |->
                         IF i \in M THEN [wait_list[i] EXCEPT !.status = c] ELSE wait_list[i]]
      /\ pc' = [q \in Procs |-> IF q \in W /\ pc[q] = "asleep" THEN "woken" ELSE pc[q]]
      /\ pid_list' = remove_pid_table(pid_list, pid[p])
      /\ alive' = alive \ {p} /\ code' = [code EXCEPT ![p] = c]
      /\ UNCHANGED <<pid, parent, arg, stat, panicked, outcome>>
  BY Zenon DEF sys__exit, Running
<1>3. \A w \in Procs, i \in DOMAIN wait_list :
         Newest(w, i) /\ wait_list[i].pid = pid[p] => w \in W
  <2> TAKE w \in Procs, i \in DOMAIN wait_list
  <2> HAVE Newest(w, i) /\ wait_list[i].pid = pid[p]
  <2>1. NodeOf(w) = i  BY <1>1, NewestIs, Zenon
  <2>2. wait_list[i].waiter = w  BY Zenon DEF Newest, NodesOf
  <2>3. i \in M  BY Zenon DEF Matching
  <2> QED  BY <2>1, <2>2, <2>3, Zenon
<1> HIDE DEF M, W
<1>4. \A q \in Procs : pc'[q] = IF q \in W /\ pc[q] = "asleep" THEN "woken" ELSE pc[q]  BY <1>2, Zenon
<1>5. \A q \in Procs : /\ pc'[q] # "user" <=> pc[q] # "user"
                       /\ pc'[q] \in {"bridge", "asleep"} => pc'[q] = pc[q] /\ q \notin W
  BY <1>2, <1>4, Zenon
<1>6. code'[p] = c /\ \A q \in Procs : q # p => code'[q] = code[q]  BY <1>1, <1>2, Zenon DEF TypeOK
<1>7. wait_list \in Seq(Node) /\ Len(wait_list) \in Nat  BY <1>1 DEF TypeOK
<1>8. DOMAIN wait_list' = DOMAIN wait_list  BY <1>2, Zenon
<1>9. \A i \in DOMAIN wait_list :
         /\ wait_list[i] \in Node /\ wait_list'[i] \in Node
         /\ wait_list'[i].pid = wait_list[i].pid
         /\ wait_list'[i].waiter = wait_list[i].waiter /\ wait_list'[i].waiter \in Procs
         /\ wait_list'[i].head = wait_list[i].head
  <2> TAKE i \in DOMAIN wait_list
  <2>1. wait_list[i] \in Node /\ c \in Int  BY <1>7
  <2>2. wait_list'[i] = [wait_list[i] EXCEPT !.status = c] \/ wait_list'[i] = wait_list[i]  BY <1>2, Zenon
  <2> QED  BY <2>1, <2>2, Zenon DEF Node
<1>10. wait_list' \in Seq(Node)
  <2>1. DOMAIN wait_list' = 1..Len(wait_list)  BY <1>7, <1>8
  <2>2. wait_list' = [i \in 1..Len(wait_list) |-> wait_list'[i]]  BY <1>2, <2>1, Zenon
  <2>3. \A i \in 1..Len(wait_list) : wait_list'[i] \in Node  BY <1>8, <1>9, <2>1, Zenon
  <2> QED  BY <1>7, <2>2, <2>3, SMTT(30)
<1>11. pid \in [Procs -> Nat] /\ pid[p] > PID_MIN + 1
  BY <1>1, <1>2, Zenon DEF TypeOK, PidsOK
<1>12. Ascending(pid_list') /\ Range(pid_list') = Range(pid_list) \ {pid[p]}
  BY <1>1, <1>2, <1>11, RemoveIs, Zenon DEF PidsOK
<1>13. TypeOK'
  <2>1. pid_list' \in Seq(Nat)  BY <1>12, Zenon DEF Ascending
  <2>2. pc' \in [Procs -> {"user", "bridge", "asleep", "woken"}]
    <3>1. \A q \in Procs : pc'[q] \in {"user", "bridge", "asleep", "woken"}  BY <1>1, <1>4, Zenon DEF TypeOK
    <3> QED  BY <1>2, <3>1, Zenon
  <2>3. code' \in [Procs -> Codes \cup {None}] /\ alive' \in SUBSET Procs  BY <1>1, <1>2, Zenon DEF TypeOK
  <2> QED  BY <1>1, <1>2, <1>10, <2>1, <2>2, <2>3, Zenon DEF TypeOK
<1>14. PidsOK'
  <2>1. pid' = pid /\ boot \in Procs /\ code'[boot] = None /\ pid[boot] = PID_MIN + 1
    BY <1>1, <1>2, <1>6, Zenon DEF PidsOK
  <2>2. ASSUME NEW n \in Range(pid_list') PROVE n = PID_MIN \/ \E q \in Procs : pid[q] = n /\ code'[q] = None
    <3>1. n \in Range(pid_list) /\ n # pid[p]  BY <1>12, Zenon
    <3>2. CASE n # PID_MIN
      <4>1. PICK q \in Procs : pid[q] = n /\ code[q] = None  BY <1>1, <3>1, <3>2, Zenon DEF PidsOK
      <4>2. q # p  BY <3>1, <4>1, Zenon
      <4> QED  BY <1>6, <4>1, <4>2, Zenon
    <3> QED  BY <3>2, Zenon
  <2>3. \A q \in Procs : pid[q] = 0 => code'[q] = None
    <3>1. pid[p] # 0  BY <1>11
    <3> QED  BY <1>1, <1>6, <3>1, Zenon DEF PidsOK
  <2>4. /\ \A q \in Procs \ {boot} : pid[q] = 0 \/ pid[q] > PID_MIN + 1
        /\ \A q \in alive' : pid[q] # 0
    BY <1>1, <1>2, Zenon DEF PidsOK
  <2> QED  BY <1>12, <2>1, <2>2, <2>3, <2>4, Zenon DEF PidsOK
<1>15. PidsBounded'
  <2>1. pid' = pid  BY <1>2, Zenon
  <2> QED  BY <1>1, <2>1, Zenon DEF PidsBounded
<1>16. NodesOK'
  <2>1. \A i \in DOMAIN wait_list : wait_list'[i].head <=> i = 1  BY <1>1, <1>9, Zenon DEF NodesOK
  <2>2. \A i, j \in DOMAIN wait_list \ {1} : wait_list'[i].waiter = wait_list'[j].waiter => i = j
    <3> TAKE i, j \in DOMAIN wait_list \ {1}
    <3>1. wait_list'[i].waiter = wait_list[i].waiter /\ wait_list'[j].waiter = wait_list[j].waiter  BY <1>9, Zenon
    <3> QED  BY <1>1, <3>1, Zenon DEF NodesOK
  <2>3. \A i \in DOMAIN wait_list \ {1} : pc'[wait_list'[i].waiter] # "user"
    <3> TAKE i \in DOMAIN wait_list \ {1}
    <3>1. wait_list'[i].waiter = wait_list[i].waiter /\ wait_list[i].waiter \in Procs  BY <1>9, Zenon
    <3>2. pc[wait_list[i].waiter] # "user"  BY <1>1, Zenon DEF NodesOK
    <3> QED  BY <1>5, <3>1, <3>2, Zenon
  <2> QED  BY <1>8, <2>1, <2>2, <2>3, Zenon DEF NodesOK
<1>17. \A w, i : Newest(w, i)' <=> Newest(w, i)
  <2>1. \A w : NodesOf(w)' = NodesOf(w)  BY <1>8, <1>9, Zenon DEF NodesOf
  <2> QED  BY <2>1, Zenon DEF Newest
<1>18. \A w \in Procs : pc[w] # "user" =>
          /\ w \in alive /\ arg[w] \in Procs /\ pid[arg[w]] > pid[w]
          /\ \E i \in DOMAIN wait_list :
                Newest(w, i) /\ (pc[w] \in {"bridge", "asleep"} => wait_list[i].pid = pid[arg[w]])
  BY <1>1, Zenon DEF WaitsOK
<1>19. WaitsOK'
  <2>1. pid' = pid /\ arg' = arg  BY <1>2, Zenon
  <2> SUFFICES ASSUME NEW w \in Procs, pc'[w] # "user"
               PROVE  /\ w \in alive' /\ arg[w] \in Procs /\ pid[arg[w]] > pid[w]
                      /\ \E i \in DOMAIN wait_list' :
                            /\ Newest(w, i)'
                            /\ pc'[w] \in {"bridge", "asleep"} => wait_list'[i].pid = pid[arg[w]]
    BY <2>1, Zenon DEF WaitsOK
  <2>2. pc[w] # "user" /\ (pc'[w] \in {"bridge", "asleep"} => pc[w] \in {"bridge", "asleep"})  BY <1>5, Zenon
  <2>3. w \in alive'  BY <1>2, <1>18, <2>2, Zenon
  <2>4. PICK i \in DOMAIN wait_list :
           Newest(w, i) /\ (pc[w] \in {"bridge", "asleep"} => wait_list[i].pid = pid[arg[w]])
    BY <1>18, <2>2, Zenon
  <2>5. Newest(w, i)' /\ i \in DOMAIN wait_list' /\ wait_list'[i].pid = wait_list[i].pid
    BY <1>8, <1>9, <1>17, <2>4, Zenon
  <2>6. pc'[w] \in {"bridge", "asleep"} => wait_list'[i].pid = pid[arg[w]]  BY <2>2, <2>4, <2>5, Zenon
  <2> QED  BY <1>18, <2>2, <2>3, <2>5, <2>6, Zenon
<1>20. SleeperHasExiter'
  <2>1. pid' = pid /\ arg' = arg  BY <1>2, Zenon
  <2> SUFFICES ASSUME NEW w \in Procs, pc'[w] \in {"bridge", "asleep"}
               PROVE  \E x \in Procs : pid[x] = pid[arg[w]] /\ code'[x] = None
    BY <2>1, Zenon DEF SleeperHasExiter
  <2>2. pc[w] \in {"bridge", "asleep"} /\ pc[w] # "user" /\ w \notin W  BY <1>5, Zenon
  <2>3. PICK x \in Procs : pid[x] = pid[arg[w]] /\ code[x] = None  BY <1>1, <2>2, Zenon DEF SleeperHasExiter
  <2>4. PICK i \in DOMAIN wait_list : Newest(w, i) /\ wait_list[i].pid = pid[arg[w]]
    BY <1>18, <2>2, Zenon
  <2>5. wait_list[i].pid # pid[p]  BY <1>3, <2>2, <2>4, Zenon
  <2>6. x # p  BY <2>3, <2>4, <2>5, Zenon
  <2> QED  BY <1>6, <2>3, <2>6, Zenon
<1> QED  BY <1>13, <1>14, <1>15, <1>16, <1>19, <1>20, Zenon DEF WInv

\* A program that cannot be run ends without sys__exit.
LEMMA FailsWInv == ASSUME WInv, NEW p \in Procs, prog_fails(p) PROVE WInv'
<1>1. TypeOK /\ PidsOK /\ PidsBounded /\ NodesOK /\ WaitsOK /\ SleeperHasExiter  BY Zenon DEF WInv
<1>2. /\ pc[p] = "user" /\ alive' = alive \ {p}
      /\ UNCHANGED <<pid_list, pid, parent, wait_list, pc, arg, stat, code, panicked, outcome>>
  BY Zenon DEF prog_fails, Running
<1>3. alive' \in SUBSET Procs /\ alive' \subseteq alive  BY <1>1, <1>2, Zenon DEF TypeOK
<1>4. TypeOK'  BY <1>1, <1>2, <1>3, Zenon DEF TypeOK
<1>5. PidsOK' /\ PidsBounded'
  <2>1. UNCHANGED <<pid_list, pid, code>>  BY <1>2, Zenon
  <2> QED  BY <1>1, <1>3, <2>1, Zenon DEF PidsOK, PidsBounded
<1>6. NodesOK' /\ SleeperHasExiter'
  <2>1. UNCHANGED <<pid, wait_list, pc, arg, code>>  BY <1>2, Zenon
  <2> QED  BY <1>1, <2>1, Zenon DEF NodesOK, SleeperHasExiter
<1>7. WaitsOK'
  <2>1. UNCHANGED <<pid, wait_list, pc, arg>>  BY <1>2, Zenon
  <2>2. \A w, i : Newest(w, i)' <=> Newest(w, i)  BY <2>1, Zenon DEF Newest, NodesOf
  <2>3. \A w \in Procs : w \in alive /\ pc[w] # "user" => w \in alive'  BY <1>2, Zenon
  <2> QED  BY <1>1, <2>1, <2>2, <2>3, Zenon DEF WaitsOK
<1> QED  BY <1>4, <1>5, <1>6, <1>7, Zenon DEF WInv

\* Every step keeps it.
LEMMA NextWInv == WInv /\ [Next]_vars => WInv'
<1> SUFFICES ASSUME WInv, [Next]_vars PROVE WInv'  OBVIOUS
<1>1. CASE UNCHANGED vars
  <2>1. UNCHANGED <<pid_list, pid, parent, alive, wait_list, pc, arg, stat, code, panicked, outcome>>
    BY <1>1, Zenon DEF vars
  <2>2. TypeOK' /\ PidsOK' /\ PidsBounded'  BY <2>1, ZenonT(60) DEF WInv, TypeOK, PidsOK, PidsBounded
  <2>3. NodesOK' /\ SleeperHasExiter'  BY <2>1, Zenon DEF WInv, NodesOK, SleeperHasExiter
  <2>4. WaitsOK'  BY <2>1, Zenon DEF WInv, WaitsOK, Newest, NodesOf
  <2> QED  BY <2>2, <2>3, <2>4, Zenon DEF WInv
<1>2. ASSUME NEW p \in Procs, NEW q \in Procs, fork(p, q) \/ waitpid_refused(p, q) PROVE WInv'
  BY <1>2, ForkWInv, RefusedWInv, Zenon
<1>3. ASSUME NEW p \in Procs, NEW q \in Procs, NEW s \in Codes, waitpid_enter(p, q, s) PROVE WInv'
  BY <1>3, EnterWInv, Zenon
<1>4. ASSUME NEW p \in Procs, waitpid_sleep(p) \/ waitpid_return(p) \/ prog_fails(p) PROVE WInv'
  BY <1>4, SleepWInv, ReturnWInv, FailsWInv, Zenon
<1>5. ASSUME NEW p \in Procs, NEW c \in Codes, sys__exit(p, c) PROVE WInv'
  BY <1>5, ExitWInv, Zenon
<1> QED  BY <1>1, <1>2, <1>3, <1>4, <1>5, Zenon DEF Next

\* A waiter has a smaller pid than the one it waits for, so the sleeper with the
\* largest pid waits for none of the others.
LEMMA NoCycle == WInv => NoWaitCycle
<1> SUFFICES ASSUME WInv, NEW S \in SUBSET {p \in Procs : pc[p] = "asleep"}, S # {}
             PROVE  \E p \in S : \A q \in S : pid[q] # pid[arg[p]]
  BY Zenon DEF NoWaitCycle
<1>1. pid \in [Procs -> Nat] /\ \A p \in S : p \in Procs /\ pc[p] # "user"  BY Zenon DEF WInv, TypeOK
<1>2. PICK b \in Nat : \A p \in Procs : pid[p] <= b  BY Zenon DEF WInv, PidsBounded
<1> DEFINE T == {pid[p] : p \in S}
<1>3. T \subseteq Nat /\ T # {} /\ \A x \in T : x <= b  BY <1>1, <1>2, Zenon
<1>4. PICK x \in T : \A y \in T : y <= x  BY <1>3, Largest, Zenon
<1>5. PICK p \in S : pid[p] = x  OBVIOUS
<1>6. pid[arg[p]] > pid[p] /\ arg[p] \in Procs  BY <1>1, Zenon DEF WInv, WaitsOK
<1>7. \A q \in S : pid[q] <= pid[p]  BY <1>4, <1>5, Zenon
<1>8. \A q \in S : pid[q] # pid[arg[p]]  BY <1>1, <1>6, <1>7
<1> QED  BY <1>8, Zenon

\* No wakeup of sys__exit is lost and nobody waits in a circle, whatever the
\* processes, pids and exit codes, and also with the table of pids full.
THEOREM ProcessWaitsEnd == Spec => []WaitsEnd
<1>1. WInv => WaitsEnd  BY NoCycle, Zenon DEF WInv, WaitsEnd
<1> QED  BY <1>1, InitWInv, NextWInv, PTL DEF Spec

-----------------------------------------------------------------------------
(* The list of pids alone.                                                 *)
\* The menu forks while nobody else forks or exits, and the table never fills.
Alone ==
    /\ MenuAlone
    /\ IsFiniteSet(Threads) /\ MAX_PID >= PID_MIN + Cardinality(Threads) - 1

Born == {p \in Threads : pt_pid[p] # 0}

PidsListed ==
    /\ boot \in pt_alive /\ pt_pid[boot] = PID_MIN + 1
    /\ \A p \in Threads \ {boot} : pt_pid[p] = 0 \/ pt_pid[p] > PID_MIN + 1
    /\ \A p \in pt_alive : pt_pid[p] # 0 /\ pt_pid[p] \in Range(pt_list)

\* At most one thread is between the walk and the linking, and its walk ended at
\* what is still the tail.
OneLinks ==
    \A p \in Threads : pt_child[p] # None =>
        /\ p \in pt_alive /\ pt_pid[pt_child[p]] = 0 /\ prev[p] = End(pt_list)
        /\ \A q \in Threads : pt_child[q] # None => q = p
        /\ p # boot => wait_lock = p

\* Pids do not outnumber the threads there have been.
TInv ==
    /\ TableTypeOK /\ Ascending(pt_list) /\ PidsUnique /\ PidsListed /\ OneLinks
    /\ End(pt_list) <= PID_MIN + Cardinality(Born)

\* It holds at boot.
LEMMA InitTInv == TableInit => TInv
<1> SUFFICES ASSUME TableInit PROVE TInv  OBVIOUS
<1> USE ProcessAssumption DEF TableInit
<1>1. TableTypeOK
  <2>1. pt_list \in Seq(Nat) /\ pt_pid \in [Threads -> Nat]  OBVIOUS
  <2> QED  BY <2>1, Zenon DEF TableTypeOK
<1>2. Ascending(pt_list)  BY DEF Ascending
<1>3. pt_pid[boot] = PID_MIN + 1 /\ pt_alive = {boot} /\ \A p \in Threads \ {boot} : pt_pid[p] = 0  OBVIOUS
<1>4. PID_MIN + 1 \in Range(pt_list) /\ PID_MIN + 1 # 0  BY <1>2, AscendingIs
<1>5. PidsUnique /\ PidsListed  BY <1>3, <1>4, Zenon DEF PidsUnique, PidsListed
<1>6. OneLinks  BY Zenon DEF OneLinks
<1>7. Born = {boot}  BY <1>3, <1>4, Zenon DEF Born
<1>8. Cardinality(Born) = 1  BY <1>7, FS_Singleton, Zenon
<1>9. End(pt_list) = PID_MIN + 1  BY Zenon DEF End
<1> QED  BY <1>1, <1>2, <1>5, <1>6, <1>8, <1>9 DEF TInv

\* Nobody holds wait_lock and the menu does not fork: no walk is under way.
LEMMA Quiet ==
    ASSUME TInv, wait_lock = None, pt_child[boot] = None
    PROVE  \A p \in Threads : pt_child[p] = None
BY ProcessAssumption, Zenon DEF TInv, OneLinks

\* add_pid_table walks to the tail of the list.
LEMMA WalkTInv ==
    ASSUME TInv, NEW p \in Threads, NEW q \in Threads, \A x \in Threads : pt_child[x] = None,
           Walk(p, q), wait_lock' \in Threads \cup {None}, p # boot => wait_lock' = p
    PROVE  TInv'
<1>1. TableTypeOK /\ Ascending(pt_list) /\ PidsUnique /\ PidsListed  BY Zenon DEF TInv
<1>2. /\ p \in pt_alive /\ pt_pid[q] = 0 /\ pt_child' = [pt_child EXCEPT ![p] = q]
      /\ prev' = [prev EXCEPT ![p] = End(pt_list)]
      /\ pt_list' = pt_list /\ pt_pid' = pt_pid /\ pt_alive' = pt_alive
  BY <1>1, WalkEndIs, Zenon DEF Walk, Unborn
<1>3. End(pt_list) \in Nat  BY <1>1, AscendingIs, Zenon
<1>4. TableTypeOK'
  <2>1. pt_child' \in [Threads -> Threads \cup {None}]  BY <1>1, <1>2, Zenon DEF TableTypeOK
  <2>2. prev' \in [Threads -> Nat]  BY <1>1, <1>2, <1>3, Zenon DEF TableTypeOK
  <2> QED  BY <1>1, <1>2, <2>1, <2>2, Zenon DEF TableTypeOK
<1>5. Ascending(pt_list') /\ PidsUnique' /\ PidsListed'
  BY <1>1, <1>2, Zenon DEF PidsUnique, PidsListed
<1>6. OneLinks'
  <2>1. pt_child'[p] = q /\ prev'[p] = End(pt_list) /\ \A x \in Threads : x # p => pt_child'[x] = None
    BY <1>1, <1>2, Zenon DEF TableTypeOK
  <2>2. End(pt_list)' = End(pt_list)  BY <1>2, Zenon DEF End
  <2> SUFFICES ASSUME NEW x \in Threads, pt_child'[x] # None
               PROVE  /\ x \in pt_alive' /\ pt_pid'[pt_child'[x]] = 0 /\ prev'[x] = End(pt_list)'
                      /\ \A y \in Threads : pt_child'[y] # None => y = x
                      /\ x # boot => wait_lock' = x
    BY Zenon DEF OneLinks
  <2>3. x = p  BY <2>1, Zenon
  <2>4. pt_pid'[pt_child'[p]] = 0  BY <1>2, <2>1, Zenon
  <2>5. prev'[p] = End(pt_list)' /\ p \in pt_alive'  BY <1>2, <2>1, <2>2, Zenon
  <2>6. \A y \in Threads : pt_child'[y] # None => y = p  BY <2>1, Zenon
  <2> QED  BY <2>3, <2>4, <2>5, <2>6, Zenon
<1>7. (End(pt_list) <= PID_MIN + Cardinality(Born))'  BY <1>2, Zenon DEF TInv, Born, End
<1> QED  BY <1>4, <1>5, <1>6, <1>7, Zenon DEF TInv

\* The new thread's pid is one more than all on the list, and goes to its end.
LEMMA LinkTInv == ASSUME Alone, TInv, NEW p \in Threads, Link(p) PROVE TInv'
<1> USE ProcessAssumption
<1> DEFINE q == pt_child[p]
           e == End(pt_list)
<1>1. TableTypeOK /\ Ascending(pt_list) /\ PidsUnique /\ PidsListed /\ OneLinks  BY Zenon DEF TInv
<1>2. q \in Threads /\ q # None  BY <1>1, Zenon DEF TableTypeOK, Link
<1>3. /\ p \in pt_alive /\ pt_pid[q] = 0 /\ prev[p] = e
      /\ \A x \in Threads : pt_child[x] # None => x = p
  BY <1>1, <1>2, Zenon DEF OneLinks
<1>4. e \in Nat /\ PID_MIN + 1 <= e /\ \A n \in Range(pt_list) : n \in Nat /\ n <= e
  BY <1>1, AscendingIs, Zenon
<1>5. IsFiniteSet(Born) /\ Cardinality(Born) \in Nat /\ Cardinality(Born \cup {q}) = Cardinality(Born) + 1
      /\ Cardinality(Born \cup {q}) <= Cardinality(Threads)
  <2>1. Born \in SUBSET Threads /\ Born \cup {q} \in SUBSET Threads  BY <1>2, Zenon DEF Born
  <2>2. IsFiniteSet(Threads)  BY Zenon DEF Alone
  <2>3. IsFiniteSet(Born) /\ Cardinality(Born \cup {q}) <= Cardinality(Threads)
    BY <2>1, <2>2, FS_Subset, Zenon
  <2>4. q \notin Born  BY <1>3, Zenon DEF Born
  <2> QED  BY <2>3, <2>4, FS_AddElement, FS_CardinalityType, Zenon
<1>6. ~(e > MAX_PID)
  <2>1. Cardinality(Threads) \in Nat  BY FS_CardinalityType, Zenon DEF Alone
  <2>2. e <= PID_MIN + Cardinality(Born)  BY Zenon DEF TInv
  <2> QED  BY <1>4, <1>5, <2>1, <2>2 DEF Alone
<1>7. /\ pt_list' = Linked(pt_list, e) /\ pt_pid' = [pt_pid EXCEPT ![q] = e + 1]
      /\ pt_alive' = pt_alive \cup {q} /\ pt_child' = [pt_child EXCEPT ![p] = None]
      /\ prev' = [prev EXCEPT ![p] = 0]
      /\ wait_lock' = IF wait_lock = p THEN None ELSE wait_lock
  BY <1>3, <1>6, Zenon DEF Link
<1>8. Ascending(pt_list') /\ Range(pt_list') = Range(pt_list) \cup {e + 1} /\ End(pt_list') = e + 1
  BY <1>1, <1>7, LinkedIs, Zenon
<1>9. pt_pid \in [Threads -> Nat] /\ pt_alive \subseteq Threads  BY <1>1, Zenon DEF TableTypeOK
<1> HIDE DEF q, e
<1>10. pt_pid'[q] = e + 1 /\ \A x \in Threads : x # q => pt_pid'[x] = pt_pid[x]  BY <1>2, <1>7, <1>9, Zenon
<1>11. \A x \in pt_alive : x # q /\ pt_pid'[x] = pt_pid[x] /\ pt_pid[x] \in Range(pt_list) /\ pt_pid[x] # e + 1
  <2> TAKE x \in pt_alive
  <2>1. pt_pid[x] # 0 /\ pt_pid[x] \in Range(pt_list)  BY <1>1, Zenon DEF PidsListed
  <2>2. x # q  BY <1>3, <2>1, Zenon
  <2>3. pt_pid[x] # e + 1  BY <1>4, <2>1
  <2> QED  BY <1>9, <1>10, <2>1, <2>2, <2>3, Zenon
<1>12. TableTypeOK'
  <2>1. pt_list' \in Seq(Nat)  BY <1>8, Zenon DEF Ascending
  <2>2. pt_pid' \in [Threads -> Nat]
    <3>1. e + 1 \in Nat  BY <1>4
    <3> QED  BY <1>2, <1>7, <1>9, <3>1, Zenon
  <2>3. pt_child' \in [Threads -> Threads \cup {None}] /\ prev' \in [Threads -> Nat]
    BY <1>1, <1>7, Zenon DEF TableTypeOK
  <2>4. pt_alive' \in SUBSET Threads  BY <1>2, <1>7, <1>9, Zenon
  <2>5. wait_lock' \in Threads \cup {None}  BY <1>1, <1>7, Zenon DEF TableTypeOK
  <2> QED  BY <2>1, <2>2, <2>3, <2>4, <2>5, Zenon DEF TableTypeOK
<1>13. PidsUnique'
  <2> SUFFICES ASSUME NEW x \in pt_alive', NEW y \in pt_alive', x # y PROVE pt_pid'[x] # pt_pid'[y]
    BY Zenon DEF PidsUnique
  <2>1. CASE x = q  BY <1>7, <1>10, <1>11, <2>1, Zenon
  <2>2. CASE y = q  BY <1>7, <1>10, <1>11, <2>2, Zenon
  <2>3. CASE x # q /\ y # q
    <3>1. x \in pt_alive /\ y \in pt_alive  BY <1>7, <2>3, Zenon
    <3>2. pt_pid[x] # pt_pid[y]  BY <1>1, <3>1, Zenon DEF PidsUnique
    <3> QED  BY <1>11, <3>1, <3>2, Zenon
  <2> QED  BY <2>1, <2>2, <2>3, Zenon
<1>14. PidsListed'
  <2>1. boot \in pt_alive' /\ pt_pid'[boot] = PID_MIN + 1  BY <1>1, <1>7, <1>11, Zenon DEF PidsListed
  <2>2. e + 1 > PID_MIN + 1 /\ e + 1 # 0  BY <1>4
  <2>3. \A x \in Threads \ {boot} : pt_pid'[x] = 0 \/ pt_pid'[x] > PID_MIN + 1
    BY <1>1, <1>10, <2>2, Zenon DEF PidsListed
  <2>4. \A x \in pt_alive' : pt_pid'[x] # 0 /\ pt_pid'[x] \in Range(pt_list')
    <3> TAKE x \in pt_alive'
    <3>1. CASE x = q  BY <1>8, <1>10, <2>2, <3>1, Zenon
    <3>2. CASE x \in pt_alive
      <4>1. pt_pid[x] # 0  BY <1>1, <3>2, Zenon DEF PidsListed
      <4> QED  BY <1>8, <1>11, <3>2, <4>1, Zenon
    <3> QED  BY <1>7, <3>1, <3>2, Zenon
  <2> QED  BY <2>1, <2>3, <2>4, Zenon DEF PidsListed
<1>15. OneLinks'
  <2>1. \A x \in Threads : pt_child'[x] = None
    <3>1. pt_child'[p] = None /\ \A x \in Threads : x # p => pt_child'[x] = pt_child[x]
      BY <1>1, <1>7, Zenon DEF TableTypeOK
    <3> QED  BY <1>3, <3>1, Zenon
  <2> QED  BY <2>1, Zenon DEF OneLinks
<1>16. (End(pt_list) <= PID_MIN + Cardinality(Born))'
  <2>1. Born' = Born \cup {q}
    <3>1. e + 1 # 0  BY <1>4
    <3>2. \A x \in Threads : pt_pid'[x] # 0 <=> (x = q \/ pt_pid[x] # 0)  BY <1>10, <3>1, Zenon
    <3> QED  BY <1>2, <3>2, Zenon DEF Born
  <2>2. e <= PID_MIN + Cardinality(Born)  BY Zenon DEF TInv, e
  <2>3. End(pt_list)' = e + 1  BY <1>8, Zenon DEF End
  <2>4. Cardinality(Born)' = Cardinality(Born) + 1  BY <1>5, <2>1, Zenon
  <2> QED  BY <1>4, <1>5, <2>2, <2>3, <2>4
<1> QED  BY <1>8, <1>12, <1>13, <1>14, <1>15, <1>16, Zenon DEF TInv

\* sys__exit takes its pid off the list.
LEMMA TableExitTInv == ASSUME Alone, TInv, NEW p \in Threads, table_exit(p) PROVE TInv'
<1> USE ProcessAssumption
<1>1. TableTypeOK /\ Ascending(pt_list) /\ PidsUnique /\ PidsListed /\ OneLinks  BY Zenon DEF TInv
<1>2. /\ p \in pt_alive /\ p # boot /\ wait_lock = None /\ pt_child[boot] = None
      /\ pt_list' = remove_pid_table(pt_list, pt_pid[p]) /\ pt_alive' = pt_alive \ {p}
      /\ UNCHANGED <<wait_lock, pt_pid, pt_child, prev>>
  BY Zenon DEF table_exit, Alone
<1>3. pt_pid \in [Threads -> Nat] /\ pt_pid[p] > PID_MIN + 1  BY <1>1, <1>2, Zenon DEF TableTypeOK, PidsListed
<1>4. /\ Ascending(pt_list') /\ Range(pt_list') = Range(pt_list) \ {pt_pid[p]}
      /\ End(pt_list') <= End(pt_list)
  BY <1>1, <1>2, <1>3, RemoveIs, Zenon
<1>5. TableTypeOK'
  <2>1. pt_list' \in Seq(Nat) /\ pt_alive' \in SUBSET Threads  BY <1>1, <1>2, <1>4, Zenon DEF Ascending, TableTypeOK
  <2> QED  BY <1>1, <1>2, <2>1, Zenon DEF TableTypeOK
<1>6. PidsUnique'  BY <1>1, <1>2, Zenon DEF PidsUnique
<1>7. PidsListed'
  <2>1. \A x \in pt_alive' : pt_pid[x] # 0 /\ pt_pid[x] \in Range(pt_list')
    <3> TAKE x \in pt_alive'
    <3>1. x \in pt_alive /\ x # p  BY <1>2, Zenon
    <3>2. pt_pid[x] # pt_pid[p]  BY <1>1, <1>2, <3>1, Zenon DEF PidsUnique
    <3> QED  BY <1>1, <1>4, <3>1, <3>2, Zenon DEF PidsListed
  <2>2. boot \in pt_alive' /\ pt_pid' = pt_pid  BY <1>1, <1>2, Zenon DEF PidsListed
  <2> QED  BY <1>1, <2>1, <2>2, Zenon DEF PidsListed
<1>8. OneLinks'
  <2>1. \A x \in Threads : pt_child[x] = None  BY <1>2, Quiet, Zenon
  <2>2. pt_child' = pt_child  BY <1>2, Zenon
  <2> QED  BY <2>1, <2>2, Zenon DEF OneLinks
<1>9. (End(pt_list) <= PID_MIN + Cardinality(Born))'
  <2>1. End(pt_list)' = End(pt_list') /\ Born' = Born  BY <1>2, Zenon DEF End, Born
  <2>2. IsFiniteSet(Born)
    <3>1. Born \in SUBSET Threads /\ IsFiniteSet(Threads)  BY Zenon DEF Born, Alone
    <3> QED  BY <3>1, FS_Subset, Zenon
  <2>3. Cardinality(Born) \in Nat  BY <2>2, FS_CardinalityType, Zenon
  <2>4. End(pt_list) \in Nat /\ End(pt_list') \in Nat  BY <1>1, <1>4, AscendingIs, Zenon
  <2>5. End(pt_list) <= PID_MIN + Cardinality(Born)  BY Zenon DEF TInv
  <2> QED  BY <1>4, <2>1, <2>3, <2>4, <2>5
<1> QED  BY <1>4, <1>5, <1>6, <1>7, <1>8, <1>9, Zenon DEF TInv

\* thread_exit leaves the list alone.
LEMMA ThreadExitTInv == ASSUME TInv, NEW p \in Threads, thread_exit(p) PROVE TInv'
<1>1. TableTypeOK /\ Ascending(pt_list) /\ PidsUnique /\ PidsListed /\ OneLinks  BY Zenon DEF TInv
<1>2. /\ p # boot /\ pt_child[p] = None /\ pt_alive' = pt_alive \ {p}
      /\ UNCHANGED <<pt_list, wait_lock, pt_pid, pt_child, prev>>
  BY Zenon DEF thread_exit
<1>3. pt_alive' \subseteq pt_alive /\ \A x \in pt_alive : x # p => x \in pt_alive'  BY <1>2, Zenon
<1>4. TableTypeOK'  BY <1>1, <1>2, <1>3, Zenon DEF TableTypeOK
<1>5. PidsUnique'  BY <1>1, <1>2, <1>3, Zenon DEF PidsUnique
<1>6. PidsListed'  BY <1>1, <1>2, <1>3, Zenon DEF PidsListed
<1>7. OneLinks'
  <2>1. End(pt_list)' = End(pt_list)  BY <1>2, Zenon DEF End
  <2>2. UNCHANGED <<pt_list, wait_lock, pt_pid, pt_child, prev>>  BY <1>2, Zenon
  <2>3. \A x \in Threads : pt_child[x] # None => x # p  BY <1>2, Zenon
  <2> QED  BY <1>1, <1>3, <2>1, <2>2, <2>3, Zenon DEF OneLinks
<1>8. (End(pt_list) <= PID_MIN + Cardinality(Born))'  BY <1>2, Zenon DEF TInv, Born, End
<1>9. Ascending(pt_list')  BY <1>1, <1>2, Zenon
<1> QED  BY <1>4, <1>5, <1>6, <1>7, <1>8, <1>9, Zenon DEF TInv

\* Every step keeps it.
LEMMA NextTInv == ASSUME Alone PROVE TInv /\ [TableNext]_tablevars => TInv'
<1> SUFFICES ASSUME TInv, [TableNext]_tablevars PROVE TInv'  OBVIOUS
<1>1. CASE UNCHANGED tablevars
  <2>1. UNCHANGED <<pt_list, wait_lock, pt_pid, pt_alive, pt_child, prev>>  BY <1>1, Zenon DEF tablevars
  <2>2. TableTypeOK' /\ Ascending(pt_list') /\ PidsUnique' /\ PidsListed'
    BY <2>1, Zenon DEF TInv, TableTypeOK, PidsUnique, PidsListed
  <2>3. OneLinks'  BY <2>1, Zenon DEF TInv, OneLinks, End
  <2>4. (End(pt_list) <= PID_MIN + Cardinality(Born))'  BY <2>1, Zenon DEF TInv, Born, End
  <2> QED  BY <2>2, <2>3, <2>4, Zenon DEF TInv
<1>2. ASSUME NEW p \in Threads, NEW q \in Threads, table_fork(p, q) PROVE TInv'
  <2>1. wait_lock = None /\ wait_lock' = p /\ pt_child[boot] = None /\ Walk(p, q)
    BY <1>2, Zenon DEF table_fork, Alone
  <2>2. \A x \in Threads : pt_child[x] = None  BY <2>1, Quiet, Zenon
  <2> QED  BY <2>1, <2>2, WalkTInv, Zenon
<1>3. ASSUME NEW q \in Threads, thread_fork(q) PROVE TInv'
  <2>1. Walk(boot, q) /\ wait_lock' = wait_lock /\ \A x \in Threads : pt_child[x] = None
    BY <1>3, Zenon DEF thread_fork, Alone
  <2>2. wait_lock \in Threads \cup {None} /\ boot \in Threads  BY ProcessAssumption, Zenon DEF TInv, TableTypeOK
  <2> QED  BY <2>1, <2>2, WalkTInv, Zenon
<1>4. ASSUME NEW p \in Threads, Link(p) \/ table_exit(p) \/ thread_exit(p) PROVE TInv'
  BY <1>4, LinkTInv, TableExitTInv, ThreadExitTInv, Zenon
<1> QED  BY <1>1, <1>2, <1>3, <1>4, Zenon DEF TableNext

\* The list of pids stays ascending and holds the pids of all live threads, which
\* differ (add_pid_table, remove_pid_table): for any number of threads that the
\* table has room for, if the menu's thread_fork, which calls add_pid_table
\* without wait_lock, overlaps no other fork and no exit.
THEOREM ProcessPidsSound ==
    ASSUME MenuAlone, IsFiniteSet(Threads), MAX_PID >= PID_MIN + Cardinality(Threads) - 1
    PROVE  TableSpec => []PidTableSound
<1>1. Alone  BY Zenon DEF Alone
<1>2. TInv /\ [TableNext]_tablevars => TInv'  BY <1>1, NextTInv, Zenon
<1>3. TInv => PidTableSound
  <2> SUFFICES ASSUME TInv PROVE ListSound  BY Zenon DEF TInv, PidTableSound
  <2>1. ASSUME NEW i \in 1..Len(pt_list)-1 PROVE pt_list[i] < pt_list[i+1]
    <3>1. Len(pt_list) \in Nat  BY AscendingIs, Zenon DEF TInv
    <3>2. i \in 1..Len(pt_list) /\ i+1 \in 1..Len(pt_list) /\ i < i+1  BY <3>1
    <3> QED  BY <3>2, Zenon DEF TInv, Ascending
  <2> QED  BY <2>1, Zenon DEF ListSound, TInv, PidsListed
<1> QED  BY <1>2, <1>3, InitTInv, PTL DEF TableSpec
=============================================================================
