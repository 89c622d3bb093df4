---------------------------- MODULE SchedProofs ----------------------------
(***************************************************************************)
(* OnePlace, StackExclusive and VictimsSuffice hold of the thread system   *)
(* for any number of CPUs and any set of threads: the inductive invariant, *)
(* what its parts say of the lists that hold the threads, the steps that   *)
(* switch, start, stop and wake threads, those of schedule and             *)
(* thread_consider_migration, and the theorems.                            *)
(***************************************************************************)
EXTENDS Sched, SeqLemmas

\* A CPU between two threads is idle, one that runs a thread is not; in the
\* interrupt handlers it is whatever it was before.
IdleMatchesPc ==
    \A c \in CPUs :
        /\ pc[c] \in {"pick", "idle", "relock"} => c_isidle[c]
        /\ pc[c] \in {"run", "switched"} => ~c_isidle[c]

\* An interrupt handler holds a thread it is waking while it does so, only then.
HandlerHolds == \A c \in CPUs : iwaking[c] # None <=> pc[c] = "iwake"

\* The last thread of a CPU is there to come back to or to be freed later.
CurExists == \A c \in CPUs : t_state[c_curthread[c]] \notin {"unborn", "destroyed"}

\* The locals of thread_consider_migration: it has victims between taking and
\* returning them, they are still this CPU's threads, the loops stay within the
\* CPUs, and the own queue has not become shorter since it was counted.
MigLocals ==
    \A c \in CPUs :
        /\ pc[c] \notin {"mig_take", "mig_send", "mig_give", "mig_left"} => mig[c].victims = <<>>
        /\ \A t \in Range(mig[c].victims) : t_cpu[t] = c
        /\ pc[c] = "mig_count" => /\ mig[c].next \in CPUs
                                  /\ mig[c].next > c => mig[c].mine <= Len(c_runqueue[c])
        /\ pc[c] = "mig_send" => mig[c].next >= 1
        /\ pc[c] = "mig_give" => mig[c].next \in CPUs /\ mig[c].next # c

\* The inductive invariant.
IInv ==
    /\ OnePlace /\ StackExclusive /\ VictimsSuffice
    /\ IdleMatchesPc /\ HandlerHolds /\ CurExists /\ MigLocals

-----------------------------------------------------------------------------
\* What OnePlace says of the places alone ...
InOnePlace ==
    /\ \A p \in Places : IsInjective(ListIn(p))
    /\ \A t \in Threads : \A p \in Places : t \in Range(ListIn(p)) =>
            ~Nowhere(t) /\ \A q \in Places : t \in Range(ListIn(q)) => q = p
    /\ \A t \in Threads : ~Nowhere(t) => \E p \in Places : t \in Range(ListIn(p))

\* ... and of the CPU of a thread.
Affinity ==
    \A c \in CPUs : \A t \in {c_curthread[c]} \cup Range(c_runqueue[c]) : t_cpu[t] = c

\* OnePlace, by its two halves ...
LEMMA OnePlaceIs == OnePlace <=> TypeOK /\ InOnePlace /\ Affinity
BY Zenon DEF OnePlace, InOnePlace, Affinity

\* ... and so in the next state.
LEMMA OnePlaceIsNext == OnePlace' <=> TypeOK' /\ InOnePlace' /\ Affinity'
BY Zenon DEF OnePlace, InOnePlace, Affinity

\* The forms a place can have.
LEMMA PlaceForms ==
    /\ \A c \in CPUs : /\ <<"runqueue", c>> \in Places /\ <<"victims", c>> \in Places
                       /\ <<"zombies", c>> \in Places /\ <<"iwaking", c>> \in Places
    /\ \A u \in Threads : <<"waking", u>> \in Places
    /\ <<"wchan", None>> \in Places
    /\ \A p \in Places :
        \/ \E c \in CPUs : \/ p = <<"runqueue", c>> \/ p = <<"victims", c>>
                           \/ p = <<"zombies", c>> \/ p = <<"iwaking", c>>
        \/ \E u \in Threads : p = <<"waking", u>>
        \/ p = <<"wchan", None>>
BY Zenon DEF Places

\* The list that each place stands for ...
LEMMA ListInIs ==
    /\ \A c : ListIn(<<"runqueue", c>>) = c_runqueue[c]
    /\ \A c : ListIn(<<"victims", c>>) = mig[c].victims
    /\ \A c : ListIn(<<"zombies", c>>) = c_zombies[c]
    /\ \A c : ListIn(<<"iwaking", c>>) = OnlyIf(iwaking[c])
    /\ \A u : ListIn(<<"waking", u>>) = OnlyIf(waking[u])
    /\ ListIn(<<"wchan", None>>) = wc_threads
BY Zenon DEF ListIn

\* ... and so in the next state.
LEMMA ListInIsNext ==
    /\ \A c : ListIn(<<"runqueue", c>>)' = c_runqueue'[c]
    /\ \A c : ListIn(<<"victims", c>>)' = mig'[c].victims
    /\ \A c : ListIn(<<"zombies", c>>)' = c_zombies'[c]
    /\ \A c : ListIn(<<"iwaking", c>>)' = OnlyIf(iwaking'[c])
    /\ \A u : ListIn(<<"waking", u>>)' = OnlyIf(waking'[u])
    /\ ListIn(<<"wchan", None>>)' = wc_threads'
BY Zenon DEF ListIn, OnlyIf

\* A step changes the lists of the places in A only.
LEMMA SameLists ==
    ASSUME NEW A,
           \A c \in CPUs : <<"runqueue", c>> \notin A => c_runqueue'[c] = c_runqueue[c],
           \A c \in CPUs : <<"victims", c>> \notin A => mig'[c].victims = mig[c].victims,
           \A c \in CPUs : <<"zombies", c>> \notin A => c_zombies'[c] = c_zombies[c],
           \A c \in CPUs : <<"iwaking", c>> \notin A => iwaking'[c] = iwaking[c],
           \A u \in Threads : <<"waking", u>> \notin A => waking'[u] = waking[u],
           <<"wchan", None>> \notin A => wc_threads' = wc_threads
    PROVE  \A p \in Places \ A : ListIn(p)' = ListIn(p)
BY PlaceForms, ListInIs, ListInIsNext

\* Threads move between two places a and b (or within one, or one of them is
\* left, or entered): if what happens to the threads there agrees with what
\* happens to Nowhere, every thread is in one place again.
LEMMA Move ==
    ASSUME InOnePlace,
           NEW a \in Places, NEW b \in Places,
           \A p \in Places \ {a, b} : ListIn(p)' = ListIn(p),
           IsInjective(ListIn(a)'), IsInjective(ListIn(b)'),
           a # b => Range(ListIn(a)') \cap Range(ListIn(b)') = {},
           \A t \in Threads :
              t \in Range(ListIn(a)') \cup Range(ListIn(b)') <=>
                 ~Nowhere(t)' /\ (Nowhere(t) \/ t \in Range(ListIn(a)) \cup Range(ListIn(b))),
           \A t \in Threads :
              ~Nowhere(t) /\ t \notin Range(ListIn(a)) \cup Range(ListIn(b)) => ~Nowhere(t)'
    PROVE  InOnePlace'
<1>1. ASSUME NEW p \in Places PROVE IsInjective(ListIn(p)')
  <2>1. CASE p \in {a, b}
    BY <2>1, Zenon
  <2>2. CASE p \notin {a, b}
    BY <2>2, ZenonT(60) DEF InOnePlace
  <2>3. QED
    BY <2>1, <2>2, Zenon
<1>2. ASSUME NEW t \in Threads, NEW p \in Places, t \in Range(ListIn(p)')
      PROVE  ~Nowhere(t)' /\ \A q \in Places : t \in Range(ListIn(q)') => q = p
  <2>1. CASE p \in {a, b}
    <3>1. ~Nowhere(t)' /\ (Nowhere(t) \/ t \in Range(ListIn(a)) \cup Range(ListIn(b)))
      BY <2>1, <1>2, Zenon
    <3>2. ASSUME NEW q \in Places, t \in Range(ListIn(q)') PROVE q = p
      <4>1. CASE q \in {a, b}
        BY <2>1, <1>2, <3>2, <4>1
      <4>2. CASE q \notin {a, b}
        <5>1. t \in Range(ListIn(q))
          BY <3>2, <4>2, Zenon
        <5>2. QED
          BY <5>1, <3>1, <4>2, Zenon DEF InOnePlace
      <4>3. QED
        BY <4>1, <4>2, Zenon
    <3>3. QED
      BY <3>1, <3>2, Zenon
  <2>2. CASE p \notin {a, b}
    <3>1. t \in Range(ListIn(p))
      BY <1>2, <2>2, Zenon
    <3>2. ~Nowhere(t) /\ \A q \in Places : t \in Range(ListIn(q)) => q = p
      BY <3>1, Zenon DEF InOnePlace
    <3>3. t \notin Range(ListIn(a)) \cup Range(ListIn(b))
      BY <3>2, <2>2, Zenon
    <3>4. ~Nowhere(t)' /\ t \notin Range(ListIn(a)') \cup Range(ListIn(b)')
      BY <3>2, <3>3, Zenon
    <3>5. ASSUME NEW q \in Places, t \in Range(ListIn(q)') PROVE q = p
      <4>1. q \notin {a, b}
        BY <3>4, <3>5, Zenon
      <4>2. QED
        BY <4>1, <3>2, <3>5, Zenon
    <3>6. QED
      BY <3>4, <3>5, Zenon
  <2>3. QED
    BY <2>1, <2>2, Zenon
<1>3. ASSUME NEW t \in Threads, ~Nowhere(t)' PROVE \E p \in Places : t \in Range(ListIn(p)')
  <2>1. CASE Nowhere(t)
    BY <2>1, <1>3, Zenon
  <2>2. CASE ~Nowhere(t)
    <3>1. PICK p \in Places : t \in Range(ListIn(p))
      BY <2>2, Zenon DEF InOnePlace
    <3>2. CASE p \in {a, b}
      <4>1. t \in Range(ListIn(a)) \cup Range(ListIn(b))
        BY <3>1, <3>2, Zenon
      <4>2. t \in Range(ListIn(a)') \cup Range(ListIn(b)')
        BY <4>1, <1>3, Zenon
      <4>3. QED
        BY <4>2, Zenon
    <3>3. CASE p \notin {a, b}
      BY <3>1, <3>3, Zenon
    <3>4. QED
      BY <3>2, <3>3, Zenon
  <2>3. QED
    BY <2>1, <2>2, Zenon
<1>4. QED
  BY <1>1, <1>2, <1>3, Zenon DEF InOnePlace

-----------------------------------------------------------------------------
\* The type invariant, field by field.
LEMMA TypeFacts ==
    ASSUME TypeOK, NEW c \in CPUs
    PROVE  /\ c_curthread[c] \in Threads /\ pc[c] \in Labels
           /\ c_runqueue[c] \in Seq(Threads) /\ Len(c_runqueue[c]) \in Nat
           /\ c_zombies[c] \in Seq(Threads) /\ iwaking[c] \in Threads \cup {None}
           /\ mig[c] \in MigRec /\ mig[c].next \in Nat /\ mig[c].mine \in Nat
           /\ mig[c].total \in Nat /\ mig[c].share \in Nat /\ mig[c].to_send \in Nat
           /\ mig[c].victims \in Seq(Threads) /\ Len(mig[c].victims) \in Nat
<1>1. /\ c_curthread[c] \in Threads /\ pc[c] \in Labels
      /\ c_runqueue[c] \in Seq(Threads) /\ c_zombies[c] \in Seq(Threads)
      /\ iwaking[c] \in Threads \cup {None} /\ mig[c] \in MigRec
  BY Zenon DEF TypeOK
<1>2. /\ mig[c].next \in Nat /\ mig[c].mine \in Nat /\ mig[c].total \in Nat
      /\ mig[c].share \in Nat /\ mig[c].to_send \in Nat /\ mig[c].victims \in Seq(Threads)
  BY <1>1, Zenon DEF MigRec
<1>3. QED
  BY <1>1, <1>2

\* The length of a run queue is a number.
LEMMA QueueNat ==
    ASSUME TypeOK
    PROVE  \A e \in CPUs : Len(c_runqueue[e]) \in Nat /\ Len(c_runqueue[e]) >= Len(c_runqueue[e])
BY TypeFacts

\* VictimsSuffice for one CPU, with its three conditions on numbers named.
LEMMA VictimsSufficeNext ==
    ASSUME \A c \in CPUs :
             /\ pc'[c] = "mig_victims" => Len(c_runqueue'[c]) >= mig'[c].to_send
             /\ pc'[c] = "mig_take" =>
                   Len(c_runqueue'[c]) + Len(mig'[c].victims) >= mig'[c].to_send
             /\ pc'[c] \in {"mig_send", "mig_give"} => Len(mig'[c].victims) >= mig'[c].to_send
    PROVE  VictimsSuffice'
BY Zenon DEF VictimsSuffice

\* What the steps that move no thread have in common.
LEMMA NobodyMoves ==
    ASSUME IInv, TypeOK',
           UNCHANGED <<c_curthread, c_isidle, c_runqueue, c_zombies, threadVars>>,
           \A c \in CPUs : mig'[c].victims = mig[c].victims
    PROVE  OnePlace' /\ StackExclusive' /\ CurExists'
<1>1. InOnePlace /\ Affinity /\ StackExclusive /\ CurExists
  BY OnePlaceIs, Zenon DEF IInv
<1>2. \A t \in Threads : Nowhere(t)' <=> Nowhere(t)
  BY Zenon DEF Nowhere, Running, threadVars
<1>3. \A p \in Places \ {} : ListIn(p)' = ListIn(p)
  <2>1. UNCHANGED <<c_runqueue, c_zombies, iwaking, waking, wc_threads>>
    BY Zenon DEF threadVars
  <2>2. QED
    BY <2>1, SameLists, Zenon
<1>4. InOnePlace'
  BY <1>1, <1>2, <1>3, Zenon DEF InOnePlace
<1>5. Affinity'
  BY <1>1, Zenon DEF Affinity, threadVars
<1>6. StackExclusive'
  BY <1>1 DEF StackExclusive, threadVars
<1>7. CurExists'
  BY <1>1, Zenon DEF CurExists, threadVars
<1>8. QED
  BY <1>4, <1>5, <1>6, <1>7, OnePlaceIsNext, Zenon

\* Changing some of the migration locals leaves the others.
LEMMA SetNext ==
    ASSUME NEW m \in MigRec, NEW n \in Nat
    PROVE  \E r \in MigRec :
              /\ r = [m EXCEPT !.next = n] /\ r.next = n /\ r.mine = m.mine
              /\ r.to_send = m.to_send /\ r.victims = m.victims /\ r.share = m.share
<1> DEFINE r == [m EXCEPT !.next = n]
<1>1. /\ r \in MigRec /\ r = [m EXCEPT !.next = n]
      /\ r.next = n /\ r.mine = m.mine /\ r.share = m.share
      /\ r.to_send = m.to_send /\ r.victims = m.victims
  BY Zenon DEF MigRec
<1> HIDE DEF r
<1>2. QED
  BY <1>1, Zenon

\* The list of victims changes.
LEMMA SetVictims ==
    ASSUME NEW m \in MigRec, NEW v \in Seq(Threads)
    PROVE  \E r \in MigRec :
              /\ r = [m EXCEPT !.victims = v] /\ r.next = m.next /\ r.mine = m.mine
              /\ r.to_send = m.to_send /\ r.victims = v
<1> DEFINE r == [m EXCEPT !.victims = v]
<1>1. /\ r \in MigRec /\ r = [m EXCEPT !.victims = v]
      /\ r.next = m.next /\ r.mine = m.mine /\ r.share = m.share
      /\ r.to_send = m.to_send /\ r.victims = v
  BY Zenon DEF MigRec
<1> HIDE DEF r
<1>2. QED
  BY <1>1, Zenon

\* The run queue lock is taken again after idling.
LEMMA RelockInv ==
    ASSUME IInv, NEW c \in CPUs, Relock(c)
    PROVE  IInv'
<1>1. TypeOK /\ VictimsSuffice /\ IdleMatchesPc /\ HandlerHolds /\ MigLocals
  BY Zenon DEF IInv, OnePlace
<1>2. TypeOK'
  BY <1>1, Zenon DEF TypeOK, Labels, Relock, Goto, threadVars
<1>3. OnePlace' /\ StackExclusive' /\ CurExists'
  BY <1>2, NobodyMoves, Zenon DEF Relock, Goto
<1>4. VictimsSuffice'
  BY <1>1, Zenon DEF VictimsSuffice, TypeOK, Relock, Goto
<1>5. IdleMatchesPc' /\ HandlerHolds'
  BY <1>1, Zenon DEF IdleMatchesPc, HandlerHolds, TypeOK, Relock, Goto, threadVars
<1>6. MigLocals'
  BY <1>1, Zenon DEF MigLocals, TypeOK, Relock, Goto, threadVars
<1>7. QED
  BY <1>3, <1>4, <1>5, <1>6, Zenon DEF IInv

\* interprocessor_interrupt moves no thread.
LEMMA InterprocessorInv ==
    ASSUME IInv, NEW c \in CPUs, interprocessor_interrupt(c)
    PROVE  IInv'
<1>1. TypeOK /\ VictimsSuffice /\ IdleMatchesPc /\ HandlerHolds /\ MigLocals
  BY Zenon DEF IInv, OnePlace
<1>2. TypeOK'
  BY <1>1, Zenon DEF TypeOK, Labels, interprocessor_interrupt, threadVars
<1>3. OnePlace' /\ StackExclusive' /\ CurExists'
  BY <1>2, NobodyMoves, Zenon DEF interprocessor_interrupt
<1>4. VictimsSuffice'
  BY <1>1, Zenon DEF VictimsSuffice, TypeOK, interprocessor_interrupt
<1>5. IdleMatchesPc' /\ HandlerHolds'
  BY <1>1, Zenon DEF IdleMatchesPc, HandlerHolds, TypeOK, interprocessor_interrupt, threadVars
<1>6. MigLocals'
  BY <1>1, Zenon DEF MigLocals, TypeOK, interprocessor_interrupt, threadVars
<1>7. QED
  BY <1>3, <1>4, <1>5, <1>6, Zenon DEF IInv

\* thread_consider_migration takes its own run queue lock.
LEMMA MigVictimsInv ==
    ASSUME IInv, NEW c \in CPUs, MigVictims(c)
    PROVE  IInv'
<1>1. TypeOK /\ VictimsSuffice /\ IdleMatchesPc /\ HandlerHolds /\ MigLocals
  BY Zenon DEF IInv, OnePlace
<1>2. TypeOK'
  BY <1>1, Zenon DEF TypeOK, Labels, MigVictims, Goto, threadVars
<1>3. OnePlace' /\ StackExclusive' /\ CurExists'
  BY <1>2, NobodyMoves, Zenon DEF MigVictims, Goto
<1>4. VictimsSuffice'
  <2>1. Len(c_runqueue[c]) >= mig[c].to_send /\ mig[c].victims = <<>>
    BY <1>1, Zenon DEF MigLocals, VictimsSuffice, MigVictims, Goto
  <2>2. Len(c_runqueue[c]) + Len(mig[c].victims) >= mig[c].to_send
    BY <2>1, <1>1, TypeFacts
  <2>3. UNCHANGED <<c_runqueue, mig>> /\ pc'[c] = "mig_take" /\ \A d \in CPUs \ {c} : pc'[d] = pc[d]
    BY <1>1, Zenon DEF TypeOK, MigVictims, Goto
  <2>4. SUFFICES ASSUME NEW d \in CPUs
                 PROVE  /\ pc'[d] = "mig_victims" => Len(c_runqueue[d]) >= mig[d].to_send
                        /\ pc'[d] = "mig_take" =>
                              Len(c_runqueue[d]) + Len(mig[d].victims) >= mig[d].to_send
                        /\ pc'[d] \in {"mig_send", "mig_give"} => Len(mig[d].victims) >= mig[d].to_send
    BY <2>3, VictimsSufficeNext, Zenon
  <2>5. CASE d = c
    BY <2>2, <2>3, <2>5, Zenon
  <2>6. CASE d # c
    BY <1>1, <2>3, <2>6, Zenon DEF VictimsSuffice
  <2>7. QED
    BY <2>5, <2>6, Zenon
<1>5. IdleMatchesPc' /\ HandlerHolds'
  BY <1>1, Zenon DEF IdleMatchesPc, HandlerHolds, TypeOK, MigVictims, Goto, threadVars
<1>6. MigLocals'
  BY <1>1, Zenon DEF MigLocals, TypeOK, MigVictims, Goto, threadVars
<1>7. QED
  BY <1>3, <1>4, <1>5, <1>6, Zenon DEF IInv

\* thread_consider_migration turns to the next CPU to send to.
LEMMA MigSendInv ==
    ASSUME IInv, NEW c \in CPUs, MigSend(c)
    PROVE  IInv'
<1>1. TypeOK /\ VictimsSuffice /\ IdleMatchesPc /\ HandlerHolds /\ MigLocals
  BY Zenon DEF IInv, OnePlace
<1>2. mig[c] \in MigRec /\ mig[c].next \in Nat /\ pc \in [CPUs -> Labels] /\ mig \in [CPUs -> MigRec]
  BY <1>1, Zenon DEF TypeOK, MigRec
<1>3. /\ mig' \in [CPUs -> MigRec]
      /\ \A d \in CPUs : /\ mig'[d].victims = mig[d].victims /\ mig'[d].to_send = mig[d].to_send
                         /\ mig'[d].mine = mig[d].mine
                         /\ mig'[d].next \in {mig[d].next, mig[d].next + 1}
                         /\ d # c => mig'[d] = mig[d]
  <2>1. CASE UNCHANGED mig
    BY <2>1, <1>2, Zenon
  <2>2. CASE mig' = [mig EXCEPT ![c] = [@ EXCEPT !.next = mig[c].next + 1]]
    <3>1. PICK r \in MigRec : /\ mig' = [mig EXCEPT ![c] = r]
                              /\ r.next = mig[c].next + 1 /\ r.mine = mig[c].mine
                              /\ r.to_send = mig[c].to_send /\ r.victims = mig[c].victims
      <4>1. mig[c].next + 1 \in Nat
        BY <1>2
      <4>2. PICK r \in MigRec : /\ r = [mig[c] EXCEPT !.next = mig[c].next + 1]
                                /\ r.next = mig[c].next + 1 /\ r.mine = mig[c].mine
                                /\ r.to_send = mig[c].to_send /\ r.victims = mig[c].victims
        BY <4>1, <1>2, SetNext
      <4>3. QED
        BY <4>2, <2>2, Zenon
    <3>2. QED
      BY <3>1, <1>2, Zenon
  <2>3. QED
    BY <2>1, <2>2, Zenon DEF MigSend
<1>a. /\ pc[c] = "mig_send"
      /\ UNCHANGED <<c_curthread, c_isidle, c_runqueue, c_zombies, c_ipi_pending>>
      /\ UNCHANGED <<t_state, t_cpu, live, waking, iwaking, wc_threads>>
  BY Zenon DEF MigSend, threadVars
<1>b. \/ pc' = [pc EXCEPT ![c] = "mig_left"]
      \/ mig[c].next = c /\ pc' = pc
      \/ /\ pc' = [pc EXCEPT ![c] = "mig_give"] /\ UNCHANGED mig
         /\ mig[c].next <= NumCPUs /\ mig[c].next # c
  BY Zenon DEF MigSend
<1>c. /\ pc' \in [CPUs -> Labels] /\ pc'[c] \in {"mig_left", "mig_send", "mig_give"}
      /\ \A d \in CPUs \ {c} : pc'[d] = pc[d]
  <2>1. \E l \in {"mig_left", "mig_send", "mig_give"} : pc' = [pc EXCEPT ![c] = l]
    <3>1. pc = [pc EXCEPT ![c] = "mig_send"]
      BY <1>2, <1>a, Zenon
    <3>2. QED
      BY <1>b, <3>1, Zenon
  <2>2. QED
    BY <1>2, <2>1, Zenon DEF Labels
<1>4. TypeOK'
  BY <1>1, <1>3, <1>a, <1>c, Zenon DEF TypeOK
<1>5. OnePlace' /\ StackExclusive' /\ CurExists'
  BY <1>4, <1>3, <1>a, NobodyMoves, Zenon DEF threadVars
<1>6. VictimsSuffice'
  <2>1. Len(mig[c].victims) >= mig[c].to_send
    BY <1>1, <1>a, Zenon DEF VictimsSuffice
  <2>2. SUFFICES ASSUME NEW d \in CPUs
                 PROVE  /\ pc'[d] = "mig_victims" => Len(c_runqueue'[d]) >= mig'[d].to_send
                        /\ pc'[d] = "mig_take" =>
                              Len(c_runqueue'[d]) + Len(mig'[d].victims) >= mig'[d].to_send
                        /\ pc'[d] \in {"mig_send", "mig_give"} =>
                              Len(mig'[d].victims) >= mig'[d].to_send
    BY VictimsSufficeNext, Zenon
  <2>3. CASE d = c
    BY <2>1, <2>3, <1>3, <1>c, Zenon
  <2>4. CASE d # c
    BY <1>1, <1>3, <1>a, <1>c, <2>4, Zenon DEF VictimsSuffice
  <2>5. QED
    BY <2>3, <2>4, Zenon
<1>7. IdleMatchesPc' /\ HandlerHolds'
  <2>1. \A d \in CPUs : \/ pc'[d] = pc[d]
                       \/ /\ pc'[d] \notin {"pick", "idle", "relock", "run", "switched", "iwake"}
                          /\ pc[d] # "iwake"
    BY <1>a, <1>c, Zenon
  <2>2. QED
    BY <1>1, <1>a, <2>1, Zenon DEF IdleMatchesPc, HandlerHolds
<1>8. MigLocals'
  <2>1. mig[c].next >= 1
    BY <1>1, <1>a, Zenon DEF MigLocals
  <2>2. pc'[c] = "mig_send" => mig'[c].next >= 1
    BY <1>2, <1>3, <2>1
  <2>3. pc'[c] = "mig_give" => mig'[c].next \in CPUs /\ mig'[c].next # c
    <3>1. SUFFICES ASSUME pc'[c] = "mig_give"
                   PROVE  mig'[c].next \in CPUs /\ mig'[c].next # c
      OBVIOUS
    <3>2. mig'[c] = mig[c] /\ mig[c].next <= NumCPUs /\ mig[c].next # c
      BY <1>2, <1>a, <1>b, <3>1, Zenon
    <3>3. QED
      BY <1>2, <2>1, <3>2, SchedAssumption DEF CPUs
  <2>4. QED
    BY <1>1, <1>3, <1>a, <1>c, <2>2, <2>3 DEF MigLocals
<1>9. QED
  BY <1>5, <1>6, <1>7, <1>8, Zenon DEF IInv

-----------------------------------------------------------------------------
\* What VictimsSuffice and MigLocals say of one CPU.
MigOwn(c) ==
    /\ pc[c] = "mig_victims" => Len(c_runqueue[c]) >= mig[c].to_send
    /\ pc[c] = "mig_take" => Len(c_runqueue[c]) + Len(mig[c].victims) >= mig[c].to_send
    /\ pc[c] \in {"mig_send", "mig_give"} => Len(mig[c].victims) >= mig[c].to_send
    /\ pc[c] \notin {"mig_take", "mig_send", "mig_give", "mig_left"} => mig[c].victims = <<>>
    /\ \A t \in Range(mig[c].victims) : t_cpu[t] = c
    /\ pc[c] = "mig_count" => /\ mig[c].next \in CPUs
                              /\ mig[c].next > c => mig[c].mine <= Len(c_runqueue[c])
    /\ pc[c] = "mig_send" => mig[c].next >= 1
    /\ pc[c] = "mig_give" => mig[c].next \in CPUs /\ mig[c].next # c

\* A step of CPU c leaves the counts and the victims of the other CPUs as good
\* as they were.
LEMMA MigStep ==
    ASSUME IInv, TypeOK', NEW c \in CPUs, MigOwn(c)',
           \A d \in CPUs \ {c} : pc'[d] = pc[d] /\ mig'[d] = mig[d],
           \A d \in CPUs \ {c} : Len(c_runqueue'[d]) >= Len(c_runqueue[d]),
           \A d \in CPUs \ {c} : \A t \in Range(mig[d].victims) : t_cpu'[t] = t_cpu[t]
    PROVE  VictimsSuffice' /\ MigLocals'
<1>1. TypeOK /\ VictimsSuffice /\ MigLocals
  BY Zenon DEF IInv, OnePlace
<1>2. \A d \in CPUs : Len(c_runqueue'[d]) \in Nat
  BY DEF TypeOK
<1>3. VictimsSuffice'
  <2>1. SUFFICES ASSUME NEW d \in CPUs
        PROVE /\ pc'[d] = "mig_victims" => Len(c_runqueue'[d]) >= mig'[d].to_send
              /\ pc'[d] = "mig_take" =>
                    Len(c_runqueue'[d]) + Len(mig'[d].victims) >= mig'[d].to_send
              /\ pc'[d] \in {"mig_send", "mig_give"} => Len(mig'[d].victims) >= mig'[d].to_send
    BY VictimsSufficeNext, Zenon
  <2>2. CASE d = c
    BY <2>2, Zenon DEF MigOwn
  <2>3. CASE d # c
    <3>1. /\ Len(c_runqueue[d]) \in Nat /\ Len(mig[d].victims) \in Nat /\ mig[d].to_send \in Nat
          /\ Len(c_runqueue'[d]) \in Nat /\ Len(c_runqueue'[d]) >= Len(c_runqueue[d])
          /\ pc'[d] = pc[d] /\ mig'[d] = mig[d]
      BY <1>1, <1>2, <2>3, TypeFacts, Zenon
    <3>2. /\ pc[d] = "mig_victims" => Len(c_runqueue[d]) >= mig[d].to_send
          /\ pc[d] = "mig_take" => Len(c_runqueue[d]) + Len(mig[d].victims) >= mig[d].to_send
          /\ pc[d] \in {"mig_send", "mig_give"} => Len(mig[d].victims) >= mig[d].to_send
      BY <1>1, Zenon DEF VictimsSuffice
    <3>3. \A x, y, m, n \in Nat : y >= x => (x >= n => y >= n) /\ (x + m >= n => y + m >= n)
      OBVIOUS
    <3>4. ASSUME pc[d] = "mig_victims" PROVE Len(c_runqueue'[d]) >= mig[d].to_send
      BY <3>1, <3>2, <3>3, <3>4, Zenon
    <3>5. ASSUME pc[d] = "mig_take"
          PROVE  Len(c_runqueue'[d]) + Len(mig[d].victims) >= mig[d].to_send
      <4>1. PICK x \in Nat, y \in Nat, m \in Nat, n \in Nat :
               /\ x = Len(c_runqueue[d]) /\ y = Len(c_runqueue'[d])
               /\ m = Len(mig[d].victims) /\ n = mig[d].to_send
        BY <3>1, Zenon
      <4>2. x + m >= n /\ y >= x
        BY <3>1, <3>2, <3>5, <4>1, Zenon
      <4>3. y + m >= n
        BY <4>2
      <4>4. QED
        BY <4>1, <4>3, Zenon
    <3>6. pc'[d] = pc[d] /\ mig'[d] = mig[d]
      BY <3>1, Zenon
    <3>7. QED
      BY <3>2, <3>4, <3>5, <3>6, Zenon
  <2>4. QED
    BY <2>2, <2>3, Zenon
<1>4. ASSUME NEW d \in CPUs
      PROVE  /\ pc'[d] \notin {"mig_take", "mig_send", "mig_give", "mig_left"} => mig'[d].victims = <<>>
             /\ \A t \in Range(mig'[d].victims) : t_cpu'[t] = d
             /\ pc'[d] = "mig_count" => /\ mig'[d].next \in CPUs
                                        /\ mig'[d].next > d => mig'[d].mine <= Len(c_runqueue'[d])
             /\ pc'[d] = "mig_send" => mig'[d].next >= 1
             /\ pc'[d] = "mig_give" => mig'[d].next \in CPUs /\ mig'[d].next # d
  <2>1. CASE d = c
    BY <2>1, Zenon DEF MigOwn
  <2>2. CASE d # c
    <3>1. /\ Len(c_runqueue[d]) \in Nat /\ mig[d].mine \in Nat
          /\ Len(c_runqueue'[d]) \in Nat /\ Len(c_runqueue'[d]) >= Len(c_runqueue[d])
          /\ pc'[d] = pc[d] /\ mig'[d] = mig[d]
          /\ \A t \in Range(mig[d].victims) : t_cpu'[t] = t_cpu[t]
      BY <1>1, <1>2, <2>2, TypeFacts, Zenon
    <3>2. /\ pc[d] \notin {"mig_take", "mig_send", "mig_give", "mig_left"} => mig[d].victims = <<>>
          /\ \A t \in Range(mig[d].victims) : t_cpu[t] = d
          /\ pc[d] = "mig_count" => /\ mig[d].next \in CPUs
                                    /\ mig[d].next > d => mig[d].mine <= Len(c_runqueue[d])
          /\ pc[d] = "mig_send" => mig[d].next >= 1
          /\ pc[d] = "mig_give" => mig[d].next \in CPUs /\ mig[d].next # d
      BY <1>1, Zenon DEF MigLocals
    <3>3. QED
      BY <3>1, <3>2
  <2>3. QED
    BY <2>1, <2>2, Zenon
<1>5. MigLocals'
  BY <1>4, Zenon DEF MigLocals
<1>6. QED
  BY <1>3, <1>5, Zenon

\* The same when CPU c is not in the middle of a migration after the step.
MigPcs == {"mig_count", "mig_victims", "mig_take", "mig_send", "mig_give", "mig_left"}

\* A CPU out of its migration leaves those of the others alone.
LEMMA OthersMigrate ==
    ASSUME IInv, TypeOK', NEW c \in CPUs,
           pc'[c] \notin MigPcs, mig'[c].victims = <<>>,
           \A d \in CPUs \ {c} : pc'[d] = pc[d] /\ mig'[d] = mig[d],
           \A d \in CPUs \ {c} : Len(c_runqueue'[d]) >= Len(c_runqueue[d]),
           \A d \in CPUs \ {c} : \A t \in Range(mig[d].victims) : t_cpu'[t] = t_cpu[t]
    PROVE  VictimsSuffice' /\ MigLocals'
<1>1. Range(mig'[c].victims) = {}
  BY DEF Range
<1>2. MigOwn(c)'
  BY <1>1, Zenon DEF MigOwn, MigPcs
<1>3. QED
  BY <1>2, MigStep, Zenon

\* thread_switch up to the search for the next thread.
LEMMA SwitchToInv ==
    ASSUME IInv, NEW c \in CPUs, NEW s \in {"S_READY", "S_SLEEP", "S_ZOMBIE"},
           pc[c] \in {"run", "yield"}, ~c_isidle[c], SwitchTo(c, s)
    PROVE  IInv'
<1>1. TypeOK /\ InOnePlace /\ Affinity /\ StackExclusive /\ IdleMatchesPc
      /\ HandlerHolds /\ CurExists /\ MigLocals
  BY OnePlaceIs, Zenon DEF IInv
<1>2. PICK u \in Threads : u = c_curthread[c]
  BY <1>1, TypeFacts, Zenon
<1>3. /\ pc' = [pc EXCEPT ![c] = "pick"]
      /\ t_state' = [t_state EXCEPT ![u] = s]
      /\ c_isidle' = [c_isidle EXCEPT ![c] = TRUE]
      /\ c_runqueue' = [c_runqueue EXCEPT ![c] = IF s = "S_READY" THEN Append(@, u) ELSE @]
      /\ wc_threads' = IF s = "S_SLEEP" THEN Append(wc_threads, u) ELSE wc_threads
      /\ c_zombies' = [c_zombies EXCEPT ![c] = IF s = "S_ZOMBIE" THEN Append(@, u) ELSE @]
      /\ UNCHANGED <<c_curthread, c_ipi_pending, mig, t_cpu, live, waking, iwaking>>
  BY <1>2, Zenon DEF SwitchTo
<1>4. \A d \in CPUs : /\ c_runqueue[d] \in Seq(Threads) /\ Append(c_runqueue[d], u) \in Seq(Threads)
                      /\ c_zombies[d] \in Seq(Threads) /\ Append(c_zombies[d], u) \in Seq(Threads)
                      /\ Range(Append(c_runqueue[d], u)) = Range(c_runqueue[d]) \cup {u}
                      /\ Range(Append(c_zombies[d], u)) = Range(c_zombies[d]) \cup {u}
  BY <1>1, TypeFacts, RangeAppend
<1>5. TypeOK'
  <2>1. wc_threads' \in Seq(Threads)
    BY <1>1, <1>3, RangeAppend, Zenon DEF TypeOK
  <2>2. c_runqueue' \in [CPUs -> Seq(Threads)] /\ c_zombies' \in [CPUs -> Seq(Threads)]
    BY <1>1, <1>3, <1>4, Zenon DEF TypeOK
  <2>3. QED
    BY <1>1, <1>3, <2>1, <2>2, Zenon DEF TypeOK, Labels, States
<1>6. \A t \in Threads : Nowhere(t)' <=> Nowhere(t) /\ t # u
  <2>1. \A d \in CPUs : c_curthread[d] = u => d = c
    BY <1>1, <1>2 DEF StackExclusive, IsInjective, TypeOK
  <2>2. \A t \in Threads : Running(t)' <=> Running(t) /\ t # u
    BY <1>1, <1>2, <1>3, <2>1, Zenon DEF Running, TypeOK
  <2>3. Running(u)
    BY <1>2, Zenon DEF Running
  <2>4. QED
    BY <1>1, <1>3, <2>2, <2>3, Zenon DEF Nowhere, TypeOK
<1>7. \A p \in Places : u \notin Range(ListIn(p))
  <2>1. Nowhere(u)
    BY <1>2, Zenon DEF Nowhere, Running
  <2>2. QED
    BY <2>1, <1>1, Zenon DEF InOnePlace
<1>8. InOnePlace'
  <2>1. PICK b \in Places, l \in Seq(Threads) :
           /\ ListIn(b) = l /\ ListIn(b)' = Append(l, u)
           /\ \A p \in Places \ {b} : ListIn(p)' = ListIn(p)
    <3>1. CASE s = "S_READY"
      <4> DEFINE b == <<"runqueue", c>>
      <4>1. ListIn(b) = c_runqueue[c] /\ ListIn(b)' = Append(c_runqueue[c], u) /\ b \in Places
        BY <1>1, <1>3, <3>1, PlaceForms, ListInIs, ListInIsNext, Zenon DEF TypeOK
      <4>2. \A p \in Places \ {b} : ListIn(p)' = ListIn(p)
        BY <1>1, <1>3, <3>1, SameLists, Zenon DEF TypeOK
      <4>3. QED
        BY <4>1, <4>2, <1>4, Zenon
    <3>2. CASE s = "S_SLEEP"
      <4> DEFINE b == <<"wchan", None>>
      <4>1. ListIn(b) = wc_threads /\ ListIn(b)' = Append(wc_threads, u) /\ b \in Places
        BY <1>3, <3>2, PlaceForms, ListInIs, ListInIsNext, Zenon
      <4>2. \A p \in Places \ {b} : ListIn(p)' = ListIn(p)
        BY <1>1, <1>3, <3>2, SameLists, Zenon DEF TypeOK
      <4>3. QED
        BY <4>1, <4>2, <1>1, Zenon DEF TypeOK
    <3>3. CASE s = "S_ZOMBIE"
      <4> DEFINE b == <<"zombies", c>>
      <4>1. ListIn(b) = c_zombies[c] /\ ListIn(b)' = Append(c_zombies[c], u) /\ b \in Places
        BY <1>1, <1>3, <3>3, PlaceForms, ListInIs, ListInIsNext, Zenon DEF TypeOK
      <4>2. \A p \in Places \ {b} : ListIn(p)' = ListIn(p)
        BY <1>1, <1>3, <3>3, SameLists, Zenon DEF TypeOK
      <4>3. QED
        BY <4>1, <4>2, <1>4, Zenon
    <3>4. QED
      BY <3>1, <3>2, <3>3, Zenon
  <2>2. IsInjective(l) /\ u \notin Range(l) /\ \A t \in Range(l) : t \in Threads => ~Nowhere(t)
    BY <1>1, <1>7, <2>1, Zenon DEF InOnePlace
  <2>3. IsInjective(Append(l, u)) /\ Range(Append(l, u)) = Range(l) \cup {u}
    BY <2>2, InjectiveAppend, RangeAppend
  <2>4. Nowhere(u)
    BY <1>2, Zenon DEF Nowhere, Running
  <2>5. \A t \in Threads : t \in Range(ListIn(b)') <=> ~Nowhere(t)' /\ (Nowhere(t) \/ t \in Range(ListIn(b)))
    BY <1>6, <2>1, <2>2, <2>3, <2>4, Zenon
  <2>6. \A t \in Threads : ~Nowhere(t) => ~Nowhere(t)'
    BY <1>6, Zenon
  <2>7. QED
    BY <1>1, <2>1, <2>3, <2>5, <2>6, Move, Zenon
<1>9. Affinity'
  <2>1. t_cpu[u] = c
    BY <1>1, <1>2, Zenon DEF Affinity
  <2>2. \A d \in CPUs : Range(c_runqueue'[d]) \subseteq Range(c_runqueue[d]) \cup (IF d = c THEN {u} ELSE {})
    <3>1. SUFFICES ASSUME NEW d \in CPUs
          PROVE Range(c_runqueue'[d]) \subseteq Range(c_runqueue[d]) \cup (IF d = c THEN {u} ELSE {})
      OBVIOUS
    <3>2. c_runqueue'[d] = IF d = c /\ s = "S_READY" THEN Append(c_runqueue[d], u) ELSE c_runqueue[d]
      BY <1>1, <1>3, Zenon DEF TypeOK
    <3>3. QED
      BY <3>2, <1>4, Zenon
  <2>3. c_curthread' = c_curthread /\ t_cpu' = t_cpu
    BY <1>3, Zenon
  <2>4. ASSUME NEW d \in CPUs, NEW t \in {c_curthread'[d]} \cup Range(c_runqueue'[d]) PROVE t_cpu'[t] = d
    <3>1. t \in {c_curthread[d]} \cup Range(c_runqueue[d]) \/ (d = c /\ t = u)
      BY <2>2, <2>3
    <3>2. QED
      BY <1>1, <2>1, <2>3, <3>1, Zenon DEF Affinity
  <2>5. QED
    BY <2>4, Zenon DEF Affinity
<1>10. StackExclusive'
  <2>1. \A d \in CPUs : c_curthread[d] = u => d = c
    BY <1>1, <1>2 DEF StackExclusive, IsInjective, TypeOK
  <2>2. IsInjective(c_curthread') /\ \A t \in Threads : live'[t] <=> \E d \in CPUs : c_curthread'[d] = t
    BY <1>1, <1>3, Zenon DEF StackExclusive
  <2>3. \A d, e \in CPUs : c_curthread'[d] \in Range(c_runqueue'[e]) => d = e
    BY <1>3, <1>9, <1>5 DEF Affinity, TypeOK
  <2>4. ASSUME NEW d \in CPUs, NEW t \in Range(c_zombies'[d])
        PROVE  t_state'[t] = "S_ZOMBIE" /\ (live'[t] => c_curthread'[d] = t /\ c_isidle'[d])
    <3>1. CASE t \in Range(c_zombies[d])
      <4>1. t # u /\ t \in Threads
        <5>1. <<"zombies", d>> \in Places /\ ListIn(<<"zombies", d>>) = c_zombies[d]
          BY PlaceForms, ListInIs, Zenon
        <5>2. QED
          BY <5>1, <3>1, <1>4, <1>7, RangeWithin, Zenon
      <4>2. t_state[t] = "S_ZOMBIE" /\ (live[t] => c_curthread[d] = t /\ c_isidle[d])
        BY <3>1, <1>1, Zenon DEF StackExclusive
      <4>3. QED
        BY <4>1, <4>2, <1>1, <1>3, Zenon DEF TypeOK
    <3>2. CASE t \notin Range(c_zombies[d])
      <4>1. d = c /\ s = "S_ZOMBIE" /\ t = u
        <5>1. c_zombies'[d] = IF d = c /\ s = "S_ZOMBIE" THEN Append(c_zombies[d], u) ELSE c_zombies[d]
          BY <1>1, <1>3, Zenon DEF TypeOK
        <5>2. QED
          BY <5>1, <2>4, <3>2, <1>4, Zenon
      <4>2. QED
        BY <4>1, <1>1, <1>2, <1>3, Zenon DEF TypeOK
    <3>3. QED
      BY <3>1, <3>2, Zenon
  <2>5. QED
    BY <2>2, <2>3, <2>4, Zenon DEF StackExclusive
<1>11. IdleMatchesPc' /\ HandlerHolds' /\ CurExists'
  <2>1. IdleMatchesPc'
    BY <1>1, <1>3, Zenon DEF IdleMatchesPc, TypeOK
  <2>2. HandlerHolds'
    BY <1>1, <1>3, Zenon DEF HandlerHolds, TypeOK
  <2>3. CurExists'
    BY <1>1, <1>3, Zenon DEF CurExists, TypeOK
  <2>4. QED
    BY <2>1, <2>2, <2>3, Zenon
<1>12. VictimsSuffice' /\ MigLocals'
  <2>1. mig'[c].victims = <<>>
    BY <1>1, <1>3, Zenon DEF MigLocals
  <2>2. \A d \in CPUs \ {c} : /\ pc'[d] = pc[d] /\ c_runqueue'[d] = c_runqueue[d]
                              /\ Len(c_runqueue'[d]) >= Len(c_runqueue[d])
    BY <1>1, <1>3, <1>4 DEF TypeOK
  <2>3. pc'[c] \notin MigPcs
    BY <1>1, <1>3, Zenon DEF TypeOK, MigPcs
  <2>4. QED
    BY <1>3, <1>5, <2>1, <2>2, <2>3, OthersMigrate, Zenon
<1>13. QED
  BY <1>5, <1>8, <1>9, <1>10, <1>11, <1>12, OnePlaceIsNext, Zenon DEF IInv

\* The lists of the places, without the places.
LEMMA ListFacts ==
    ASSUME IInv
    PROVE  /\ \A c \in CPUs : IsInjective(c_runqueue[c]) /\ IsInjective(mig[c].victims)
           /\ IsInjective(wc_threads)
           /\ \A c \in CPUs : \A t \in Range(c_runqueue[c]) : t \in Threads /\ ~Nowhere(t)
           /\ \A c \in CPUs : \A t \in Range(mig[c].victims) : t \in Threads /\ ~Nowhere(t)
           /\ \A c \in CPUs : \A t \in Range(c_zombies[c]) : t \in Threads /\ ~Nowhere(t)
           /\ \A t \in Range(wc_threads) : t \in Threads /\ ~Nowhere(t)
<1>1. TypeOK /\ InOnePlace
  BY OnePlaceIs, Zenon DEF IInv
<1>2. wc_threads \in Seq(Threads)
  BY <1>1, Zenon DEF TypeOK
<1>3. ASSUME NEW p \in Places, NEW l \in Seq(Threads), l = ListIn(p)
      PROVE  IsInjective(l) /\ \A t \in Range(l) : t \in Threads /\ ~Nowhere(t)
  <2>1. Range(l) \in SUBSET Threads
    BY RangeWithin, Zenon
  <2>2. QED
    BY <1>1, <1>3, <2>1, Zenon DEF InOnePlace
<1>4. ASSUME NEW c \in CPUs
      PROVE  /\ IsInjective(c_runqueue[c]) /\ IsInjective(mig[c].victims)
             /\ \A t \in Range(c_runqueue[c]) : t \in Threads /\ ~Nowhere(t)
             /\ \A t \in Range(mig[c].victims) : t \in Threads /\ ~Nowhere(t)
             /\ \A t \in Range(c_zombies[c]) : t \in Threads /\ ~Nowhere(t)
  <2>1. /\ c_runqueue[c] = ListIn(<<"runqueue", c>>) /\ <<"runqueue", c>> \in Places
        /\ mig[c].victims = ListIn(<<"victims", c>>) /\ <<"victims", c>> \in Places
        /\ c_zombies[c] = ListIn(<<"zombies", c>>) /\ <<"zombies", c>> \in Places
    BY PlaceForms, ListInIs, Zenon
  <2>2. /\ c_runqueue[c] \in Seq(Threads) /\ mig[c].victims \in Seq(Threads)
        /\ c_zombies[c] \in Seq(Threads)
    BY <1>1, TypeFacts, Zenon
  <2>3. QED
    BY <1>3, <2>1, <2>2, Zenon
<1>5. IsInjective(wc_threads) /\ \A t \in Range(wc_threads) : t \in Threads /\ ~Nowhere(t)
  <2>1. wc_threads = ListIn(<<"wchan", None>>) /\ <<"wchan", None>> \in Places
    BY PlaceForms, ListInIs, Zenon
  <2>2. QED
    BY <1>2, <1>3, <2>1, Zenon
<1>6. QED
  BY <1>4, <1>5, Zenon

\* thread_yield, when the CPU is idle or has nothing else to run.
LEMMA YieldInv ==
    ASSUME IInv, NEW c \in CPUs, Yield(c)
    PROVE  IInv'
<1>1. TypeOK /\ IdleMatchesPc /\ HandlerHolds /\ MigLocals
  BY Zenon DEF IInv, OnePlace
<1>2. CASE c_runqueue[c] # <<>> /\ ~c_isidle[c] /\ SwitchTo(c, "S_READY")
  BY <1>2, SwitchToInv, Zenon DEF Yield
<1>3. CASE /\ pc' = [pc EXCEPT ![c] = IF c_isidle[c] THEN "relock" ELSE "run"]
           /\ UNCHANGED <<c_curthread, c_isidle, c_runqueue, c_zombies, c_ipi_pending, mig, threadVars>>
  <2>1. TypeOK'
    BY <1>1, <1>3, Zenon DEF TypeOK, Labels, threadVars
  <2>2. OnePlace' /\ StackExclusive' /\ CurExists'
    BY <1>3, <2>1, NobodyMoves, Zenon
  <2>3. IdleMatchesPc' /\ HandlerHolds'
    BY <1>1, <1>3, Zenon DEF IdleMatchesPc, HandlerHolds, TypeOK, Yield, threadVars
  <2>4. VictimsSuffice' /\ MigLocals'
    <3>1. pc'[c] \notin MigPcs /\ \A d \in CPUs \ {c} : pc'[d] = pc[d]
      BY <1>1, <1>3, Zenon DEF TypeOK, MigPcs
    <3>2. mig'[c].victims = <<>>
      BY <1>1, <1>3, Zenon DEF MigLocals, Yield
    <3>3. \A d \in CPUs : Len(c_runqueue'[d]) >= Len(c_runqueue[d])
      BY <1>1, <1>3, TypeFacts
    <3>4. QED
      BY <1>3, <2>1, <3>1, <3>2, <3>3, OthersMigrate, Zenon DEF threadVars
  <2>5. QED
    BY <2>2, <2>3, <2>4, Zenon DEF IInv
<1>4. QED
  BY <1>2, <1>3, Zenon DEF Yield, thread_yield

\* The search for the next thread, and the switch to it.
LEMMA PickInv ==
    ASSUME IInv, NEW c \in CPUs, Pick(c)
    PROVE  IInv'
<1>1. TypeOK /\ InOnePlace /\ Affinity /\ StackExclusive /\ IdleMatchesPc
      /\ HandlerHolds /\ CurExists /\ MigLocals
  BY OnePlaceIs, Zenon DEF IInv
<1>2. pc[c] = "pick" /\ c_isidle[c] /\ mig[c].victims = <<>>
  BY <1>1, Zenon DEF Pick, IdleMatchesPc, MigLocals
<1>3. UNCHANGED <<c_zombies, c_ipi_pending, mig, t_state, t_cpu, waking, iwaking, wc_threads>>
  BY Zenon DEF Pick
<1>4. CASE /\ pc' = [pc EXCEPT ![c] = "idle"]
           /\ UNCHANGED <<c_curthread, c_isidle, c_runqueue, live>>
  <2>1. TypeOK'
    BY <1>1, <1>3, <1>4, Zenon DEF TypeOK, Labels
  <2>2. OnePlace' /\ StackExclusive' /\ CurExists'
    BY <1>3, <1>4, <2>1, NobodyMoves, Zenon DEF threadVars
  <2>3. IdleMatchesPc' /\ HandlerHolds'
    BY <1>1, <1>2, <1>3, <1>4, Zenon DEF IdleMatchesPc, HandlerHolds, TypeOK
  <2>4. VictimsSuffice' /\ MigLocals'
    <3>1. pc'[c] \notin MigPcs /\ \A d \in CPUs \ {c} : pc'[d] = pc[d]
      BY <1>1, <1>4, Zenon DEF TypeOK, MigPcs
    <3>2. \A d \in CPUs : Len(c_runqueue'[d]) >= Len(c_runqueue[d])
      BY <1>1, <1>4, TypeFacts
    <3>3. QED
      BY <1>2, <1>3, <2>1, <3>1, <3>2, OthersMigrate, Zenon
  <2>5. QED
    BY <2>2, <2>3, <2>4, Zenon DEF IInv
<1>5. CASE /\ c_runqueue[c] # <<>>
           /\ pc' = [pc EXCEPT ![c] = "switched"]
           /\ c_runqueue' = [c_runqueue EXCEPT ![c] = Tail(@)]
           /\ c_isidle' = [c_isidle EXCEPT ![c] = FALSE]
           /\ c_curthread' = [c_curthread EXCEPT ![c] = Head(c_runqueue[c])]
           /\ live' = [live EXCEPT ![c_curthread[c]] = FALSE, ![Head(c_runqueue[c])] = TRUE]
  <2>1. PICK u \in Threads, h \in Threads, q \in Seq(Threads) :
           u = c_curthread[c] /\ h = Head(c_runqueue[c]) /\ q = Tail(c_runqueue[c])
    <3>1. c_curthread[c] \in Threads /\ c_runqueue[c] \in Seq(Threads)
      BY <1>1, TypeFacts, Zenon
    <3>2. c_runqueue[c] # <<>>
      BY <1>5, Zenon
    <3>3. Head(c_runqueue[c]) \in Threads /\ Tail(c_runqueue[c]) \in Seq(Threads)
      BY <3>1, <3>2
    <3>4. QED
      BY <3>1, <3>3, Zenon
  <2>2. /\ h \in Range(c_runqueue[c]) /\ IsInjective(q) /\ Range(q) = Range(c_runqueue[c]) \ {h}
        /\ ~Nowhere(h) /\ t_cpu[h] = c
    <3>1. c_runqueue[c] \in Seq(Threads) /\ IsInjective(c_runqueue[c])
      BY <1>1, TypeFacts, ListFacts, Zenon
    <3>2. h \in Range(c_runqueue[c]) /\ IsInjective(q) /\ Range(q) = Range(c_runqueue[c]) \ {h}
      <4>1. c_runqueue[c] # <<>>
        BY <1>5, Zenon
      <4>2. QED
        BY <2>1, <3>1, <4>1, RangeTail, Zenon
    <3>3. QED
      BY <3>2, <1>1, ListFacts, Zenon DEF Affinity
  <2>3. /\ c_runqueue' = [c_runqueue EXCEPT ![c] = q]
        /\ c_curthread' = [c_curthread EXCEPT ![c] = h]
        /\ live' = [live EXCEPT ![u] = FALSE, ![h] = TRUE]
        /\ pc' = [pc EXCEPT ![c] = "switched"]
        /\ c_isidle' = [c_isidle EXCEPT ![c] = FALSE]
    BY <1>5, <2>1, Zenon
  <2>4. TypeOK'
    BY <1>1, <1>3, <2>3, Zenon DEF TypeOK, Labels
  <2>5. \A d \in CPUs \ {c} : c_curthread[d] # h
    BY <1>1, <2>2, Zenon DEF Affinity
  <2>6. \A t \in Threads : Nowhere(t)' <=> Nowhere(t) \/ t = h
    <3>1. \A t \in Threads : Running(t)' <=> Running(t) \/ t = h
      <4>1. /\ \A d \in CPUs \ {c} : c_curthread'[d] = c_curthread[d] /\ c_isidle'[d] = c_isidle[d]
            /\ c_curthread'[c] = h /\ ~c_isidle'[c]
        BY <1>1, <2>3, Zenon DEF TypeOK
      <4>2. QED
        BY <1>2, <4>1, Zenon DEF Running
    <3>2. QED
      BY <3>1, <1>3, Zenon DEF Nowhere
  <2>7. InOnePlace'
    <3> DEFINE b == <<"runqueue", c>>
    <3>1. b \in Places /\ ListIn(b) = c_runqueue[c] /\ ListIn(b)' = q
      BY <1>1, <2>3, PlaceForms, ListInIs, ListInIsNext, ZenonT(60) DEF TypeOK
    <3>2. \A p \in Places \ {b} : ListIn(p)' = ListIn(p)
      BY <1>1, <1>3, <2>3, SameLists, Zenon DEF TypeOK
    <3> HIDE DEF b
    <3>3. \A t \in Threads : t \in Range(ListIn(b)') <=> ~Nowhere(t)' /\ (Nowhere(t) \/ t \in Range(ListIn(b)))
      BY <2>2, <2>6, <3>1, ListFacts, Zenon
    <3>4. \A t \in Threads : ~Nowhere(t) /\ t \notin Range(ListIn(b)) => ~Nowhere(t)'
      BY <2>2, <2>6, <3>1, Zenon
    <3>5. QED
      BY <1>1, <2>2, <3>1, <3>2, <3>3, <3>4, Move
  <2>8. Affinity'
    BY <1>1, <1>3, <2>2, <2>3, ZenonT(60) DEF Affinity, TypeOK
  <2>9. StackExclusive'
    <3>1. IsInjective(c_curthread')
      BY <1>1, <2>3, <2>5, ZenonT(60) DEF StackExclusive, IsInjective, TypeOK
    <3>2. \A t \in Threads : live'[t] <=> \E d \in CPUs : c_curthread'[d] = t
      <4>1. \A d \in CPUs : c_curthread[d] = u => d = c
        BY <1>1, <2>1 DEF StackExclusive, IsInjective, TypeOK
      <4>2. \A t \in Threads : live[t] <=> \E d \in CPUs : c_curthread[d] = t
        BY <1>1, Zenon DEF StackExclusive
      <4>3. \A t \in Threads : live'[t] = IF t = h THEN TRUE ELSE IF t = u THEN FALSE ELSE live[t]
        BY <1>1, <2>3, Zenon DEF TypeOK
      <4>4. \A d \in CPUs : c_curthread'[d] = IF d = c THEN h ELSE c_curthread[d]
        BY <1>1, <2>3, Zenon DEF TypeOK
      <4>5. \A d \in CPUs \ {c} : c_curthread'[d] = c_curthread[d]
        BY <4>4, Zenon
      <4>6. c_curthread'[c] = h
        BY <4>4, Zenon
      <4>7. SUFFICES ASSUME NEW t \in Threads
                     PROVE  live'[t] <=> \E d \in CPUs : c_curthread'[d] = t
        OBVIOUS
      <4>8. CASE t = h
        BY <4>3, <4>6, <4>8, Zenon
      <4>9. CASE t # h /\ t = u
        BY <4>1, <4>3, <4>5, <4>6, <4>9, Zenon
      <4>10. CASE t # h /\ t # u
        <5>1. (\E d \in CPUs : c_curthread'[d] = t) <=> \E d \in CPUs : c_curthread[d] = t
          BY <2>1, <4>5, <4>6, <4>10, Zenon
        <5>2. QED
          BY <4>2, <4>3, <4>10, <5>1, Zenon
      <4>11. QED
        BY <4>8, <4>9, <4>10, Zenon
    <3>3. \A d, e \in CPUs : c_curthread'[d] \in Range(c_runqueue'[e]) => d = e
      BY <2>8, <2>4 DEF Affinity, TypeOK
    <3>4. ASSUME NEW d \in CPUs, NEW t \in Range(c_zombies'[d])
          PROVE  t_state'[t] = "S_ZOMBIE" /\ (live'[t] => c_curthread'[d] = t /\ c_isidle'[d])
      <4>1. t \in Range(c_zombies[d]) /\ t \in Threads
        BY <1>3, <3>4, ListFacts, Zenon
      <4>2. t_state[t] = "S_ZOMBIE" /\ (live[t] => c_curthread[d] = t /\ c_isidle[d])
        BY <4>1, <1>1, Zenon DEF StackExclusive
      <4>3. t # h
        <5>1. <<"zombies", d>> \in Places /\ ListIn(<<"zombies", d>>) = c_zombies[d]
          BY PlaceForms, ListInIs, Zenon
        <5>2. <<"runqueue", c>> \in Places /\ ListIn(<<"runqueue", c>>) = c_runqueue[c]
          BY PlaceForms, ListInIs, Zenon
        <5>3. <<"zombies", d>> # <<"runqueue", c>>
          OBVIOUS
        <5>4. QED
          BY <5>1, <5>2, <5>3, <4>1, <2>2, <1>1 DEF InOnePlace
      <4>4. CASE d = c
        BY <4>1, <4>2, <4>3, <4>4, <1>1, <1>3, <2>1, <2>3, Zenon DEF TypeOK
      <4>5. CASE d # c
        BY <4>1, <4>2, <4>3, <4>5, <1>1, <1>3, <1>5, <2>3, ZenonT(60) DEF TypeOK
      <4>6. QED
        BY <4>4, <4>5, Zenon
    <3>5. QED
      BY <3>1, <3>2, <3>3, <3>4, Zenon DEF StackExclusive
  <2>10. IdleMatchesPc' /\ HandlerHolds'
    BY <1>1, <1>2, <1>3, <1>5, Zenon DEF IdleMatchesPc, HandlerHolds, TypeOK
  <2>11. CurExists'
    BY <1>1, <1>3, <2>2, <2>3, Zenon DEF CurExists, Nowhere, TypeOK
  <2>12. VictimsSuffice' /\ MigLocals'
    <3>1. pc'[c] \notin MigPcs /\ \A d \in CPUs \ {c} : pc'[d] = pc[d]
      BY <1>1, <1>5, Zenon DEF TypeOK, MigPcs
    <3>2. \A d \in CPUs \ {c} : c_runqueue'[d] = c_runqueue[d] /\ Len(c_runqueue'[d]) >= Len(c_runqueue[d])
      BY <1>1, <2>3 DEF TypeOK
    <3>3. QED
      BY <1>2, <1>3, <2>4, <3>1, <3>2, OthersMigrate, Zenon
  <2>13. QED
    BY <2>4, <2>7, <2>8, <2>9, <2>10, <2>11, <2>12, OnePlaceIsNext, Zenon DEF IInv
<1>6. QED
  BY <1>4, <1>5, Zenon DEF Pick

\* The new thread is on its stack, the lock is released, the zombies are freed.
LEMMA FinishSwitchInv ==
    ASSUME IInv, NEW c \in CPUs, FinishSwitch(c)
    PROVE  IInv'
<1>1. TypeOK /\ InOnePlace /\ Affinity /\ StackExclusive /\ IdleMatchesPc
      /\ HandlerHolds /\ CurExists /\ MigLocals
  BY OnePlaceIs, Zenon DEF IInv
<1>2. PICK u \in Threads : u = c_curthread[c]
  BY <1>1, TypeFacts, Zenon
<1>3. /\ pc[c] = "switched"
      /\ UNCHANGED <<c_curthread, c_isidle, c_runqueue, c_ipi_pending, mig,
                     t_cpu, live, waking, iwaking, wc_threads>>
  BY Zenon DEF FinishSwitch, Goto
<1>4. /\ pc' \in [CPUs -> Labels] /\ pc'[c] = "run" /\ \A d \in CPUs \ {c} : pc'[d] = pc[d]
  <2>1. pc \in [CPUs -> Labels] /\ "run" \in Labels /\ pc' = [pc EXCEPT ![c] = "run"]
    BY <1>1, Zenon DEF TypeOK, Labels, FinishSwitch, Goto
  <2>2. QED
    BY <2>1, Zenon
<1>5. /\ c_zombies' \in [CPUs -> Seq(Threads)] /\ c_zombies'[c] = <<>>
      /\ \A d \in CPUs \ {c} : c_zombies'[d] = c_zombies[d]
  <2>1. c_zombies \in [CPUs -> Seq(Threads)] /\ c_zombies' = [c_zombies EXCEPT ![c] = <<>>]
    BY <1>1, Zenon DEF TypeOK, FinishSwitch
  <2>2. QED
    BY <2>1
<1>6. /\ t_state' \in [Threads -> States] /\ t_state'[u] = "S_RUN"
      /\ \A t \in Range(c_zombies[c]) \ {u} : t \in Threads => t_state'[t] = "destroyed"
      /\ \A t \in Threads \ {u} : t \notin Range(c_zombies[c]) => t_state'[t] = t_state[t]
  <2>1. t_state' = [t \in Threads |-> IF t = u THEN "S_RUN"
                                      ELSE IF t \in Range(c_zombies[c]) THEN "destroyed"
                                      ELSE t_state[t]]
    BY <1>2, Zenon DEF FinishSwitch
  <2>2. t_state \in [Threads -> States] /\ {"S_RUN", "destroyed"} \subseteq States
    BY <1>1, Zenon DEF TypeOK, States
  <2>3. QED
    BY <2>1, <2>2, Zenon
<1>7. ~c_isidle[c] /\ mig[c].victims = <<>> /\ Running(u) /\ u \notin Range(c_zombies[c])
  <2>1. ~c_isidle[c] /\ mig[c].victims = <<>>
    BY <1>1, <1>3, Zenon DEF IdleMatchesPc, MigLocals
  <2>2. Running(u) /\ Nowhere(u)
    BY <1>2, <2>1, Zenon DEF Running, Nowhere
  <2>3. QED
    BY <2>1, <2>2, ListFacts, Zenon
<1>8. TypeOK'
  BY <1>1, <1>3, <1>4, <1>5, <1>6, Zenon DEF TypeOK
<1>9. \A t \in Threads : Nowhere(t)' <=> Nowhere(t) \/ t \in Range(c_zombies[c])
  <2>1. \A t \in Threads : Running(t)' <=> Running(t)
    BY <1>3, Zenon DEF Running
  <2>2. QED
    BY <2>1, <1>6, <1>7, Zenon DEF Nowhere
<1>10. InOnePlace'
  <2> DEFINE b == <<"zombies", c>>
  <2>1. b \in Places /\ ListIn(b) = c_zombies[c] /\ ListIn(b)' = <<>>
    BY <1>5, PlaceForms, ListInIs, ListInIsNext, Zenon
  <2>2. \A p \in Places \ {b} : ListIn(p)' = ListIn(p)
    BY <1>3, <1>5, SameLists, Zenon
  <2> HIDE DEF b
  <2>3. IsInjective(<<>>) /\ Range(<<>>) = {}
    BY DEF IsInjective, Range
  <2>4. \A t \in Threads : t \in Range(ListIn(b)') <=> ~Nowhere(t)' /\ (Nowhere(t) \/ t \in Range(ListIn(b)))
    BY <1>9, <2>1, <2>3, Zenon
  <2>5. \A t \in Threads : ~Nowhere(t) /\ t \notin Range(ListIn(b)) => ~Nowhere(t)'
    BY <1>9, <2>1, Zenon
  <2>6. QED
    BY <1>1, <2>1, <2>2, <2>3, <2>4, <2>5, Move, Zenon
<1>11. Affinity'
  BY <1>1, <1>3, Zenon DEF Affinity
<1>12. StackExclusive'
  <2>1. ASSUME NEW d \in CPUs, NEW t \in Range(c_zombies'[d])
        PROVE  t_state'[t] = "S_ZOMBIE" /\ (live'[t] => c_curthread'[d] = t /\ c_isidle'[d])
    <3>1. d # c /\ t \in Range(c_zombies[d])
      <4>1. Range(<<>>) = {}
        BY DEF Range
      <4>2. QED
        BY <4>1, <2>1, <1>5, Zenon
    <3>2. t \in Threads /\ ~Nowhere(t)
      BY <3>1, ListFacts, Zenon
    <3>3. t # u /\ t \notin Range(c_zombies[c])
      <4>1. /\ <<"zombies", d>> \in Places /\ ListIn(<<"zombies", d>>) = c_zombies[d]
            /\ <<"zombies", c>> \in Places /\ ListIn(<<"zombies", c>>) = c_zombies[c]
        BY PlaceForms, ListInIs, Zenon
      <4>2. <<"zombies", d>> # <<"zombies", c>>
        BY <3>1, Zenon
      <4>3. t \notin Range(c_zombies[c])
        BY <4>1, <4>2, <3>1, <3>2, <1>1, Zenon DEF InOnePlace
      <4>4. QED
        BY <4>3, <3>2, <1>7, Zenon DEF Nowhere
    <3>4. t_state'[t] = t_state[t] /\ live' = live /\ c_curthread' = c_curthread /\ c_isidle' = c_isidle
      BY <1>3, <1>6, <3>2, <3>3, Zenon
    <3>5. QED
      BY <3>1, <3>4, <1>1, ZenonT(60) DEF StackExclusive
  <2>2. UNCHANGED <<c_curthread, c_runqueue, live>>
    BY <1>3, Zenon
  <2>3. QED
    BY <2>1, <2>2, <1>1, Zenon DEF StackExclusive
<1>13. IdleMatchesPc' /\ HandlerHolds'
  <2>1. c_isidle' = c_isidle /\ iwaking' = iwaking
    BY <1>3, Zenon
  <2>2. QED
    BY <1>1, <1>3, <1>4, <1>7, <2>1, Zenon DEF IdleMatchesPc, HandlerHolds
<1>14. CurExists'
  <2>1. ASSUME NEW d \in CPUs PROVE c_curthread[d] \notin Range(c_zombies[c])
    <3>1. c_curthread[d] \in Threads /\ live[c_curthread[d]]
      BY <1>1, TypeFacts, Zenon DEF StackExclusive
    <3>2. QED
      BY <3>1, <1>1, <1>7, Zenon DEF StackExclusive
  <2>2. ASSUME NEW d \in CPUs PROVE t_state'[c_curthread[d]] \notin {"unborn", "destroyed"}
    <3>1. c_curthread[d] \in Threads /\ t_state[c_curthread[d]] \notin {"unborn", "destroyed"}
      BY <1>1, TypeFacts, Zenon DEF CurExists
    <3>2. QED
      BY <2>1, <1>6, <3>1, Zenon
  <2>3. QED
    BY <2>2, <1>3, Zenon DEF CurExists
<1>15. VictimsSuffice' /\ MigLocals'
  <2>1. /\ pc'[c] \notin MigPcs /\ mig'[c].victims = <<>>
    <3>1. mig' = mig
      BY <1>3, Zenon
    <3>2. QED
      BY <1>4, <1>7, <3>1, Zenon DEF MigPcs
  <2>2. /\ \A d \in CPUs \ {c} : pc'[d] = pc[d] /\ mig'[d] = mig[d]
        /\ \A d \in CPUs \ {c} : Len(c_runqueue'[d]) >= Len(c_runqueue[d])
        /\ \A d \in CPUs \ {c} : \A t \in Range(mig[d].victims) : t_cpu'[t] = t_cpu[t]
    BY <1>1, <1>3, <1>4, QueueNat, Zenon
  <2>3. QED
    BY <1>8, <2>1, <2>2, OthersMigrate, Zenon
<1>16. QED
  BY <1>8, <1>10, <1>11, <1>12, <1>13, <1>14, <1>15, OnePlaceIsNext, Zenon DEF IInv

-----------------------------------------------------------------------------
\* A thread in one place is not in another.
LEMMA Elsewhere ==
    ASSUME InOnePlace, NEW a \in Places, NEW b \in Places, a # b,
           NEW x \in Threads, x \in Range(ListIn(a))
    PROVE  x \notin Range(ListIn(b))
BY Zenon DEF InOnePlace

\* The places hold threads.
LEMMA ListInType ==
    ASSUME TypeOK, NEW p \in Places
    PROVE  ListIn(p) \in Seq(Threads) /\ Range(ListIn(p)) \subseteq Threads
<1>1. \A t \in Threads \cup {None} : OnlyIf(t) \in Seq(Threads)
  BY DEF OnlyIf
<1>2. /\ \A u \in Threads : waking[u] \in Threads \cup {None}
      /\ wc_threads \in Seq(Threads)
  BY Zenon DEF TypeOK
<1>3. ListIn(p) \in Seq(Threads)
  <2>1. ASSUME NEW c \in CPUs
        PROVE  /\ ListIn(<<"runqueue", c>>) \in Seq(Threads)
               /\ ListIn(<<"victims", c>>) \in Seq(Threads)
               /\ ListIn(<<"zombies", c>>) \in Seq(Threads)
               /\ ListIn(<<"iwaking", c>>) \in Seq(Threads)
    BY <1>1, ListInIs, TypeFacts, Zenon
  <2>2. ASSUME NEW u \in Threads PROVE ListIn(<<"waking", u>>) \in Seq(Threads)
    BY <1>1, <1>2, ListInIs, Zenon
  <2>3. ListIn(<<"wchan", None>>) \in Seq(Threads)
    BY <1>2, ListInIs, Zenon
  <2>4. QED
    BY <2>1, <2>2, <2>3, PlaceForms, Zenon
<1>4. QED
  BY <1>3, RangeWithin, Zenon

\* One thread moves from a to b.
LEMMA MoveOne ==
    ASSUME TypeOK, InOnePlace, NEW a \in Places, NEW b \in Places, a # b,
           NEW x \in Threads, x \in Range(ListIn(a)),
           \A p \in Places \ {a, b} : ListIn(p)' = ListIn(p),
           IsInjective(ListIn(a)'), Range(ListIn(a)') = Range(ListIn(a)) \ {x},
           IsInjective(ListIn(b)'), Range(ListIn(b)') = Range(ListIn(b)) \cup {x},
           UNCHANGED <<c_curthread, c_isidle, t_state>>
    PROVE  InOnePlace'
<1>1. \A t \in Threads : Nowhere(t)' <=> Nowhere(t)
  BY Zenon DEF Nowhere, Running
<1>2. /\ \A t \in Threads : t \in Range(ListIn(a)) => ~Nowhere(t) /\ t \notin Range(ListIn(b))
      /\ \A t \in Threads : t \in Range(ListIn(b)) => ~Nowhere(t)
  BY Zenon DEF InOnePlace
<1>3. Range(ListIn(a)') \cap Range(ListIn(b)') = {}
  <2>1. Range(ListIn(a)) \subseteq Threads
    BY ListInType, Zenon
  <2>2. QED
    BY <2>1, <1>2, Zenon
<1>4. \A t \in Threads :
         t \in Range(ListIn(a)') \cup Range(ListIn(b)') <=>
            ~Nowhere(t)' /\ (Nowhere(t) \/ t \in Range(ListIn(a)) \cup Range(ListIn(b)))
  BY <1>1, <1>2, Zenon
<1>5. QED
  BY <1>1, <1>3, <1>4, Move, Zenon

\* What the steps have in common that move threads which do not run, on the
\* CPU that t_cpu names, and leave the zombies alone.
LEMMA StackKept ==
    ASSUME IInv, TypeOK', Affinity',
           UNCHANGED <<c_curthread, c_isidle, c_zombies, live>>,
           \A t \in Threads : t_state[t] # "unborn" => t_state'[t] = t_state[t]
    PROVE  StackExclusive' /\ CurExists'
<1>1. TypeOK /\ StackExclusive /\ CurExists
  BY Zenon DEF IInv, OnePlace
<1>2. \A d, e \in CPUs : c_curthread'[d] \in Range(c_runqueue'[e]) => d = e
  BY DEF Affinity, TypeOK
<1>3. ASSUME NEW d \in CPUs, NEW t \in Range(c_zombies'[d])
      PROVE  t_state'[t] = "S_ZOMBIE" /\ (live'[t] => c_curthread'[d] = t /\ c_isidle'[d])
  <2>1. t \in Threads
    BY <1>3, ListFacts, Zenon
  <2>2. QED
    BY <2>1, <1>1, <1>3 DEF StackExclusive
<1>4. StackExclusive'
  BY <1>1, <1>2, <1>3, Zenon DEF StackExclusive
<1>5. CurExists'
  BY <1>1, Zenon DEF CurExists, TypeOK
<1>6. QED
  BY <1>4, <1>5, Zenon

\* What thread_make_runnable does to the queues.
LEMMA RunnableAdded ==
    ASSUME TypeOK, NEW d \in CPUs, NEW x \in Threads, NEW q \in Seq(Threads),
           q = c_runqueue[d] \o <<x>>, AddRunnable(d, <<x>>)
    PROVE  /\ c_runqueue' \in [CPUs -> Seq(Threads)]
           /\ c_ipi_pending' \in [CPUs -> SUBSET {"IPI_UNIDLE"}]
           /\ c_runqueue'[d] = q /\ \A e \in CPUs \ {d} : c_runqueue'[e] = c_runqueue[e]
<1>1. c_runqueue \in [CPUs -> Seq(Threads)] /\ c_ipi_pending \in [CPUs -> SUBSET {"IPI_UNIDLE"}]
  BY Zenon DEF TypeOK
<1>2. c_runqueue' = [c_runqueue EXCEPT ![d] = q]
  BY Zenon DEF AddRunnable
<1>3. \E S \in SUBSET {"IPI_UNIDLE"} : c_ipi_pending' = [c_ipi_pending EXCEPT ![d] = S]
  <2>1. c_ipi_pending[d] \in SUBSET {"IPI_UNIDLE"}
    BY <1>1, Zenon
  <2>2. c_ipi_pending[d] \cup {"IPI_UNIDLE"} \in SUBSET {"IPI_UNIDLE"}
    BY <2>1, Zenon
  <2>3. \/ c_ipi_pending' = [c_ipi_pending EXCEPT ![d] = c_ipi_pending[d] \cup {"IPI_UNIDLE"}]
        \/ c_ipi_pending' = [c_ipi_pending EXCEPT ![d] = c_ipi_pending[d]]
    BY Zenon DEF AddRunnable
  <2>4. QED
    BY <2>1, <2>2, <2>3, Zenon
<1>4. c_ipi_pending' \in [CPUs -> SUBSET {"IPI_UNIDLE"}]
  BY <1>1, <1>3, Zenon
<1>5. QED
  BY <1>1, <1>2, <1>4, Zenon

\* The queue that thread_make_runnable(t, false) adds to.
LEMMA AppendRunnable ==
    ASSUME IInv, NEW d \in CPUs, NEW x \in Threads, x \notin Range(c_runqueue[d])
    PROVE  \E q \in Seq(Threads) :
              /\ q = c_runqueue[d] \o <<x>> /\ IsInjective(q)
              /\ Range(q) = Range(c_runqueue[d]) \cup {x} /\ Len(q) = Len(c_runqueue[d]) + 1
              /\ Len(q) >= Len(c_runqueue[d])
<1>1. c_runqueue[d] \in Seq(Threads) /\ IsInjective(c_runqueue[d])
  BY TypeFacts, ListFacts, Zenon DEF IInv, OnePlace
<1>2. Len(c_runqueue[d]) \in Nat
  BY <1>1
<1> DEFINE q == c_runqueue[d] \o <<x>>
<1>3. /\ q \in Seq(Threads) /\ IsInjective(q)
      /\ Range(q) = Range(c_runqueue[d]) \cup {x} /\ Len(q) = Len(c_runqueue[d]) + 1
  BY <1>1, AddOne
<1>4. q = c_runqueue[d] \o <<x>>
  OBVIOUS
<1> HIDE DEF q
<1>5. Len(q) >= Len(c_runqueue[d])
  BY <1>2, <1>3
<1>6. QED
  BY <1>3, <1>4, <1>5, Zenon

\* thread_fork
LEMMA ForkInv ==
    ASSUME IInv, NEW c \in CPUs, NEW t \in Threads, thread_fork(c, t)
    PROVE  IInv'
<1>1. TypeOK /\ InOnePlace /\ Affinity /\ StackExclusive /\ IdleMatchesPc
      /\ HandlerHolds /\ CurExists /\ MigLocals
  BY OnePlaceIs, Zenon DEF IInv
<1>2. PICK q \in Seq(Threads) : q = c_runqueue[c] \o <<t>>
  BY <1>1, TypeFacts, RangeSingle, RangeConcat, Zenon
<1>3. /\ pc[c] = "run" /\ t_state[t] = "unborn" /\ AddRunnable(c, <<t>>)
      /\ UNCHANGED <<c_curthread, c_isidle, c_zombies, pc, mig, live, waking, iwaking, wc_threads>>
  BY Zenon DEF thread_fork
<1>4. /\ t_state' \in [Threads -> States] /\ t_cpu' \in [Threads -> CPUs]
      /\ t_state'[t] = "S_READY" /\ \A u \in Threads \ {t} : t_state'[u] = t_state[u]
      /\ t_cpu'[t] = c /\ \A u \in Threads \ {t} : t_cpu'[u] = t_cpu[u]
  <2>1. t_state \in [Threads -> States] /\ t_cpu \in [Threads -> CPUs] /\ "S_READY" \in States
    BY <1>1, Zenon DEF TypeOK, States
  <2>2. t_state' = [t_state EXCEPT ![t] = "S_READY"] /\ t_cpu' = [t_cpu EXCEPT ![t] = c]
    BY Zenon DEF thread_fork
  <2>3. QED
    BY <2>1, <2>2, Zenon
<1>5. Nowhere(t) /\ ~Running(t) /\ \A d \in CPUs : c_curthread[d] # t
  BY <1>1, <1>3, Zenon DEF Nowhere, Running, CurExists
<1>6. /\ IsInjective(q) /\ Range(q) = Range(c_runqueue[c]) \cup {t} /\ t \notin Range(c_runqueue[c])
      /\ Len(q) >= Len(c_runqueue[c])
  <2>1. t \notin Range(c_runqueue[c])
    BY <1>1, <1>5, PlaceForms, ListInIs, Zenon DEF InOnePlace
  <2>2. QED
    BY <1>2, <2>1, AppendRunnable, Zenon
<1>7. /\ c_runqueue' \in [CPUs -> Seq(Threads)] /\ c_ipi_pending' \in [CPUs -> SUBSET {"IPI_UNIDLE"}]
      /\ c_runqueue'[c] = q /\ \A d \in CPUs \ {c} : c_runqueue'[d] = c_runqueue[d]
  BY <1>1, <1>2, <1>3, RunnableAdded, Zenon
<1>8. TypeOK'
  BY <1>1, <1>3, <1>4, <1>7, Zenon DEF TypeOK
<1>9. \A u \in Threads : Nowhere(u)' <=> Nowhere(u) /\ u # t
  <2>1. \A u \in Threads : Running(u)' <=> Running(u)
    BY <1>3, Zenon DEF Running
  <2>2. QED
    BY <2>1, <1>4, <1>5, Zenon DEF Nowhere
<1>10. InOnePlace'
  <2> DEFINE b == <<"runqueue", c>>
  <2>1. b \in Places /\ ListIn(b) = c_runqueue[c] /\ ListIn(b)' = q
    BY <1>7, PlaceForms, ListInIs, ListInIsNext, Zenon
  <2>2. \A p \in Places \ {b} : ListIn(p)' = ListIn(p)
    BY <1>3, <1>7, SameLists, Zenon
  <2> HIDE DEF b
  <2>3. \A u \in Threads : u \in Range(ListIn(b)') <=> ~Nowhere(u)' /\ (Nowhere(u) \/ u \in Range(ListIn(b)))
    <3>1. \A u \in Threads : u \in Range(c_runqueue[c]) => ~Nowhere(u)
      BY <1>1, <2>1, Zenon DEF InOnePlace
    <3>2. \A u \in Threads : u \in Range(q) <=> u \in Range(c_runqueue[c]) \/ u = t
      BY <1>6, Zenon
    <3>3. QED
      BY <1>5, <1>9, <2>1, <3>1, <3>2, Zenon
  <2>4. \A u \in Threads : ~Nowhere(u) => ~Nowhere(u)'
    BY <1>9, Zenon
  <2>5. QED
    BY <1>1, <1>6, <2>1, <2>2, <2>3, <2>4, Move
<1>11. Affinity'
  <2>1. /\ \A d \in CPUs \ {c} : Range(c_runqueue'[d]) = Range(c_runqueue[d])
        /\ Range(c_runqueue'[c]) = Range(c_runqueue[c]) \cup {t}
    BY <1>6, <1>7, Zenon
  <2>2. \A d \in CPUs : /\ c_curthread[d] \in Threads \ {t}
                        /\ \A u \in Range(c_runqueue[d]) : u \in Threads /\ u # t
    BY <1>1, <1>5, TypeFacts, ListFacts, Zenon
  <2>3. ASSUME NEW d \in CPUs, NEW u \in {c_curthread[d]} \cup Range(c_runqueue[d])
        PROVE  t_cpu'[u] = d
    <3>1. u \in Threads \ {t} /\ t_cpu[u] = d
      BY <1>1, <2>2, <2>3, Zenon DEF Affinity
    <3>2. QED
      BY <1>4, <3>1, Zenon
  <2>4. ASSUME NEW d \in CPUs, NEW u \in {c_curthread'[d]} \cup Range(c_runqueue'[d])
        PROVE  t_cpu'[u] = d
    <3>1. u \in {c_curthread[d]} \cup Range(c_runqueue[d]) \/ (d = c /\ u = t)
      BY <1>3, <2>1, <2>4, Zenon
    <3>2. QED
      BY <1>4, <2>3, <3>1, Zenon
  <2>5. QED
    BY <2>4, Zenon DEF Affinity
<1>12. StackExclusive' /\ CurExists'
  <2>1. \A u \in Threads : t_state[u] # "unborn" => t_state'[u] = t_state[u]
    BY <1>3, <1>4, Zenon
  <2>2. UNCHANGED <<c_curthread, c_isidle, c_zombies, live>>
    BY <1>3, Zenon
  <2>3. QED
    BY <2>1, <2>2, <1>8, <1>11, StackKept, Zenon
<1>13. IdleMatchesPc' /\ HandlerHolds'
  BY <1>1, <1>3, Zenon DEF IdleMatchesPc, HandlerHolds
<1>14. VictimsSuffice' /\ MigLocals'
  <2>1. pc'[c] \notin MigPcs /\ mig'[c].victims = <<>>
    <3>1. pc'[c] = "run" /\ mig[c].victims = <<>> /\ mig' = mig
      BY <1>1, <1>3, Zenon DEF MigLocals
    <3>2. QED
      BY <3>1, Zenon DEF MigPcs
  <2>2. \A d \in CPUs \ {c} : /\ pc'[d] = pc[d] /\ mig'[d] = mig[d]
                              /\ Len(c_runqueue'[d]) >= Len(c_runqueue[d])
    BY <1>1, <1>3, <1>7, QueueNat, Zenon
  <2>3. \A d \in CPUs \ {c} : \A u \in Range(mig[d].victims) : t_cpu'[u] = t_cpu[u]
    <3>1. \A d \in CPUs : \A u \in Range(mig[d].victims) : u \in Threads \ {t}
      BY <1>5, ListFacts, Zenon
    <3>2. QED
      BY <3>1, <1>4, Zenon
  <2>4. QED
    BY <1>8, <2>1, <2>2, <2>3, OthersMigrate, Zenon
<1>15. QED
  BY <1>8, <1>10, <1>11, <1>12, <1>13, <1>14, OnePlaceIsNext, Zenon DEF IInv

\* The members of a place for at most one thread.
LEMMA OnlyIfRange ==
    /\ \A x \in Threads : Range(OnlyIf(x)) = {x} /\ IsInjective(OnlyIf(x))
    /\ Range(OnlyIf(None)) = {} /\ IsInjective(OnlyIf(None))
<1>1. ASSUME NEW x \in Threads PROVE Range(OnlyIf(x)) = {x} /\ IsInjective(OnlyIf(x))
  <2>1. OnlyIf(x) = <<x>>
    BY SchedAssumption, Zenon DEF OnlyIf
  <2>2. QED
    BY <2>1, RangeSingle, Zenon
<1>2. Range(OnlyIf(None)) = {} /\ IsInjective(OnlyIf(None))
  BY DEF OnlyIf, Range, IsInjective
<1>3. QED
  BY <1>1, <1>2, Zenon

\* The run queues of the other CPUs are left alone.
LEMMA QueuesElsewhere ==
    ASSUME TypeOK, NEW d \in CPUs, NEW ts, AddRunnable(d, ts)
    PROVE  \A e \in CPUs \ {d} : c_runqueue'[e] = c_runqueue[e]
<1>1. c_runqueue \in [CPUs -> Seq(Threads)] /\ c_runqueue' = [c_runqueue EXCEPT ![d] = @ \o ts]
  BY Zenon DEF TypeOK, AddRunnable
<1>2. QED
  BY <1>1, Zenon

\* What the steps of CPU c that wake a thread have in common.
WakingStep(c) ==
    /\ UNCHANGED <<c_curthread, c_isidle, c_zombies, mig, t_state, t_cpu, live>>
    /\ waking' \in [Threads -> Threads \cup {None}]
    /\ iwaking' \in [CPUs -> Threads \cup {None}]
    /\ pc' \in [CPUs -> Labels] /\ pc'[c] \notin MigPcs /\ mig[c].victims = <<>>
    /\ \A e \in CPUs \ {c} : pc'[e] = pc[e]

\* They keep what is about the stacks and the migrations of other CPUs.
LEMMA WakingKeeps ==
    ASSUME IInv, NEW c \in CPUs, WakingStep(c), TypeOK', InOnePlace', Affinity',
           \A e \in CPUs : Len(c_runqueue'[e]) >= Len(c_runqueue[e])
    PROVE  OnePlace' /\ StackExclusive' /\ CurExists' /\ VictimsSuffice' /\ MigLocals'
<1>1. OnePlace'
  BY OnePlaceIsNext, Zenon
<1>2. StackExclusive' /\ CurExists'
  <2>1. /\ UNCHANGED <<c_curthread, c_isidle, c_zombies, live>>
        /\ \A t \in Threads : t_state[t] # "unborn" => t_state'[t] = t_state[t]
    BY Zenon DEF WakingStep
  <2>2. QED
    BY <2>1, StackKept, Zenon
<1>3. VictimsSuffice' /\ MigLocals'
  <2>1. /\ pc'[c] \notin MigPcs /\ mig'[c].victims = <<>>
        /\ \A e \in CPUs \ {c} : pc'[e] = pc[e] /\ mig'[e] = mig[e]
        /\ \A e \in CPUs \ {c} : Len(c_runqueue'[e]) >= Len(c_runqueue[e])
        /\ \A e \in CPUs \ {c} : \A t \in Range(mig[e].victims) : t_cpu'[t] = t_cpu[t]
    BY Zenon DEF WakingStep
  <2>2. QED
    BY <2>1, OthersMigrate, Zenon
<1>4. QED
  BY <1>1, <1>2, <1>3, Zenon

\* The parts of TypeOK that the waking steps leave alone.
LEMMA WakingType ==
    ASSUME TypeOK, NEW c \in CPUs, WakingStep(c),
           c_runqueue' \in [CPUs -> Seq(Threads)], wc_threads' \in Seq(Threads),
           c_ipi_pending' \in [CPUs -> SUBSET {"IPI_UNIDLE"}]
    PROVE  TypeOK'
BY Zenon DEF TypeOK, WakingStep

\* A waker puts the thread it holds on the run queue of the thread's CPU.
LEMMA WakeInv ==
    ASSUME IInv, NEW c \in CPUs, NEW x \in Threads, NEW d \in CPUs, NEW a \in Places,
           d = t_cpu[x], a # <<"runqueue", d>>,
           OnlyIf(x) = ListIn(a), OnlyIf(None) = ListIn(a)',
           AddRunnable(d, <<x>>), WakingStep(c), UNCHANGED wc_threads,
           \A p \in Places \ {a, <<"runqueue", d>>} : ListIn(p)' = ListIn(p)
    PROVE  OnePlace' /\ StackExclusive' /\ CurExists' /\ VictimsSuffice' /\ MigLocals'
<1>1. TypeOK /\ InOnePlace /\ Affinity
  BY OnePlaceIs, Zenon DEF IInv
<1>2. x \in Range(ListIn(a)) /\ Range(ListIn(a)') = Range(ListIn(a)) \ {x} /\ IsInjective(ListIn(a)')
  <2>1. Range(OnlyIf(x)) = {x} /\ Range(OnlyIf(None)) = {} /\ IsInjective(OnlyIf(None))
    BY OnlyIfRange, Zenon
  <2>2. QED
    BY <2>1, Zenon
<1>3. <<"runqueue", d>> \in Places /\ ListIn(<<"runqueue", d>>) = c_runqueue[d]
  BY PlaceForms, ListInIs, Zenon
<1>4. x \notin Range(c_runqueue[d])
  BY <1>1, <1>2, <1>3, Elsewhere, Zenon
<1>5. PICK q \in Seq(Threads) :
              /\ q = c_runqueue[d] \o <<x>> /\ IsInjective(q)
              /\ Range(q) = Range(c_runqueue[d]) \cup {x} /\ Len(q) >= Len(c_runqueue[d])
  BY <1>4, AppendRunnable, Zenon
<1>6. /\ c_runqueue' \in [CPUs -> Seq(Threads)] /\ c_ipi_pending' \in [CPUs -> SUBSET {"IPI_UNIDLE"}]
      /\ c_runqueue'[d] = q /\ \A e \in CPUs \ {d} : c_runqueue'[e] = c_runqueue[e]
  BY <1>1, <1>5, RunnableAdded, Zenon
<1>7. TypeOK'
  <2>1. wc_threads' \in Seq(Threads)
    BY <1>1, Zenon DEF TypeOK
  <2>2. QED
    BY <1>1, <1>6, <2>1, WakingType, Zenon
<1>8. ListIn(<<"runqueue", d>>)' = q
  BY <1>6, ListInIsNext, Zenon
<1>9. InOnePlace'
  <2>1. UNCHANGED <<c_curthread, c_isidle, t_state>>
    BY Zenon DEF WakingStep
  <2>2. QED
    BY <1>1, <1>2, <1>3, <1>5, <1>8, <2>1, MoveOne, Zenon
<1>10. Affinity'
  <2>1. /\ \A e \in CPUs : Range(c_runqueue'[e]) \subseteq Range(c_runqueue[e]) \cup {x}
        /\ \A e \in CPUs \ {d} : Range(c_runqueue'[e]) = Range(c_runqueue[e])
    BY <1>5, <1>6, Zenon
  <2>2. UNCHANGED <<c_curthread, t_cpu>>
    BY Zenon DEF WakingStep
  <2>3. QED
    BY <1>1, <2>1, <2>2, Zenon DEF Affinity
<1>11. \A e \in CPUs : Len(c_runqueue'[e]) >= Len(c_runqueue[e])
  <2>1. \A e \in CPUs : Len(c_runqueue[e]) >= Len(c_runqueue[e])
    BY <1>1, QueueNat, Zenon
  <2>2. QED
    BY <1>5, <1>6, <2>1, Zenon
<1>12. QED
  BY <1>7, <1>9, <1>10, <1>11, WakingKeeps, Zenon

\* wchan_wakeone, the second half.
LEMMA WakeRunnableInv ==
    ASSUME IInv, NEW c \in CPUs, WakeRunnable(c)
    PROVE  IInv'
<1>1. TypeOK /\ IdleMatchesPc /\ HandlerHolds /\ MigLocals
  BY Zenon DEF IInv, OnePlace
<1>2. PICK u \in Threads : u = c_curthread[c]
  BY <1>1, TypeFacts, Zenon
<1>3. PICK x \in Threads : x = waking[u]
  <2>1. waking[u] \in Threads \cup {None}
    BY <1>1, Zenon DEF TypeOK
  <2>2. waking[u] # None
    BY <1>2, Zenon DEF WakeRunnable
  <2>3. QED
    BY <2>1, <2>2, Zenon
<1>4. PICK d \in CPUs : d = t_cpu[x]
  BY <1>1, Zenon DEF TypeOK
<1>5. /\ pc[c] = "run" /\ AddRunnable(d, <<x>>)
      /\ UNCHANGED <<c_curthread, c_isidle, c_zombies, pc, mig, t_state, t_cpu, live, iwaking, wc_threads>>
  BY <1>2, <1>3, <1>4, Zenon DEF WakeRunnable, thread_make_runnable
<1>6. /\ waking' \in [Threads -> Threads \cup {None}]
      /\ waking'[u] = None /\ \A v \in Threads \ {u} : waking'[v] = waking[v]
  <2>1. waking \in [Threads -> Threads \cup {None}]
    BY <1>1, Zenon DEF TypeOK
  <2>2. waking' = [waking EXCEPT ![u] = None]
    BY <1>2, Zenon DEF WakeRunnable
  <2>3. QED
    BY <2>1, <2>2, Zenon
<1>7. WakingStep(c)
  <2>1. pc[c] \notin MigPcs /\ mig[c].victims = <<>>
    BY <1>1, <1>5, Zenon DEF MigPcs, MigLocals
  <2>2. pc' \in [CPUs -> Labels] /\ iwaking' \in [CPUs -> Threads \cup {None}]
    BY <1>1, <1>5, Zenon DEF TypeOK
  <2>3. QED
    BY <1>5, <1>6, <2>1, <2>2, Zenon DEF WakingStep
<1>8. OnePlace' /\ StackExclusive' /\ CurExists' /\ VictimsSuffice' /\ MigLocals'
  <2> DEFINE a == <<"waking", u>>
  <2>1. a \in Places /\ a # <<"runqueue", d>>
    BY PlaceForms, Zenon
  <2>2. OnlyIf(x) = ListIn(a) /\ OnlyIf(None) = ListIn(a)'
    BY <1>3, <1>6, ListInIs, ListInIsNext, Zenon
  <2>3. \A p \in Places \ {a, <<"runqueue", d>>} : ListIn(p)' = ListIn(p)
    <3>1. \A e \in CPUs \ {d} : c_runqueue'[e] = c_runqueue[e]
      BY <1>1, <1>5, QueuesElsewhere, Zenon
    <3>2. QED
      BY <1>5, <1>6, <3>1, SameLists, Zenon
  <2> HIDE DEF a
  <2>4. QED
    BY <1>4, <1>5, <1>7, <2>1, <2>2, <2>3, WakeInv, Zenon
<1>9. IdleMatchesPc' /\ HandlerHolds'
  BY <1>1, <1>5, Zenon DEF IdleMatchesPc, HandlerHolds
<1>10. QED
  BY <1>8, <1>9, Zenon DEF IInv

\* The same at the end of an interrupt handler.
LEMMA InterruptWakeInv ==
    ASSUME IInv, NEW c \in CPUs, InterruptWake(c)
    PROVE  IInv'
<1>1. TypeOK /\ IdleMatchesPc /\ HandlerHolds /\ MigLocals
  BY Zenon DEF IInv, OnePlace
<1>2. /\ pc[c] = "iwake" /\ pc \in [CPUs -> Labels] /\ iwaking \in [CPUs -> Threads \cup {None}]
      /\ iwaking[c] # None
  <2>1. pc[c] = "iwake"
    BY Zenon DEF InterruptWake, Goto
  <2>2. QED
    BY <1>1, <2>1, Zenon DEF HandlerHolds, TypeOK
<1>3. PICK x \in Threads : x = iwaking[c]
  BY <1>2, Zenon
<1>4. PICK d \in CPUs : d = t_cpu[x]
  BY <1>1, Zenon DEF TypeOK
<1>5. /\ AddRunnable(d, <<x>>)
      /\ UNCHANGED <<c_curthread, c_isidle, c_zombies, mig, t_state, t_cpu, live, waking, wc_threads>>
  BY <1>3, <1>4, Zenon DEF InterruptWake, thread_make_runnable
<1>6. /\ iwaking' \in [CPUs -> Threads \cup {None}]
      /\ iwaking'[c] = None /\ \A e \in CPUs \ {c} : iwaking'[e] = iwaking[e]
  <2>1. iwaking' = [iwaking EXCEPT ![c] = None]
    BY Zenon DEF InterruptWake
  <2>2. QED
    BY <1>2, <2>1, Zenon
<1>7. /\ pc' \in [CPUs -> Labels] /\ pc'[c] = IF c_isidle[c] THEN "relock" ELSE "run"
      /\ \A e \in CPUs \ {c} : pc'[e] = pc[e]
  <2>1. PICK l \in Labels : l = IF c_isidle[c] THEN "relock" ELSE "run"
    BY Zenon DEF Labels
  <2>2. pc' = [pc EXCEPT ![c] = l]
    BY <2>1, Zenon DEF InterruptWake, Goto
  <2>3. QED
    BY <1>2, <2>1, <2>2, Zenon
<1>8. WakingStep(c)
  <2>1. pc'[c] \notin MigPcs /\ mig[c].victims = <<>>
    <3>1. pc'[c] \in {"relock", "run"}
      BY <1>7, Zenon
    <3>2. QED
      BY <1>1, <1>2, <3>1, Zenon DEF MigPcs, MigLocals
  <2>2. waking' \in [Threads -> Threads \cup {None}]
    BY <1>1, <1>5, Zenon DEF TypeOK
  <2>3. QED
    BY <1>5, <1>6, <1>7, <2>1, <2>2, Zenon DEF WakingStep
<1>9. OnePlace' /\ StackExclusive' /\ CurExists' /\ VictimsSuffice' /\ MigLocals'
  <2> DEFINE a == <<"iwaking", c>>
  <2>1. a \in Places /\ a # <<"runqueue", d>>
    BY PlaceForms, Zenon
  <2>2. OnlyIf(x) = ListIn(a) /\ OnlyIf(None) = ListIn(a)'
    BY <1>3, <1>6, ListInIs, ListInIsNext, Zenon
  <2>3. \A p \in Places \ {a, <<"runqueue", d>>} : ListIn(p)' = ListIn(p)
    <3>1. \A e \in CPUs \ {d} : c_runqueue'[e] = c_runqueue[e]
      BY <1>1, <1>5, QueuesElsewhere, Zenon
    <3>2. QED
      BY <1>5, <1>6, <3>1, SameLists, Zenon
  <2> HIDE DEF a
  <2>4. QED
    BY <1>4, <1>5, <1>8, <2>1, <2>2, <2>3, WakeInv, Zenon
<1>10. IdleMatchesPc'
  BY <1>1, <1>5, <1>7, Zenon DEF IdleMatchesPc
<1>11. HandlerHolds'
  BY <1>1, <1>6, <1>7, Zenon DEF HandlerHolds
<1>12. QED
  BY <1>9, <1>10, <1>11, Zenon DEF IInv

\* A waker takes the first sleeper off the wait channel.
LEMMA TakeSleeper ==
    ASSUME IInv, NEW c \in CPUs, NEW b \in Places, NEW x \in Threads,
           b # <<"wchan", None>>, wc_threads # <<>>, x = Head(wc_threads),
           OnlyIf(None) = ListIn(b), OnlyIf(x) = ListIn(b)', wc_threads' = Tail(wc_threads),
           \A p \in Places \ {<<"wchan", None>>, b} : ListIn(p)' = ListIn(p),
           WakingStep(c), UNCHANGED <<c_runqueue, c_ipi_pending>>
    PROVE  OnePlace' /\ StackExclusive' /\ CurExists' /\ VictimsSuffice' /\ MigLocals'
<1>1. TypeOK /\ InOnePlace /\ Affinity
  BY OnePlaceIs, Zenon DEF IInv
<1>2. /\ x \in Range(wc_threads)
      /\ wc_threads' \in Seq(Threads) /\ IsInjective(wc_threads')
      /\ Range(wc_threads') = Range(wc_threads) \ {x}
  <2>1. wc_threads \in Seq(Threads) /\ IsInjective(wc_threads)
    BY <1>1, ListFacts, Zenon DEF TypeOK
  <2>2. QED
    BY <2>1, RangeTail, Zenon
<1>3. TypeOK'
  <2>1. c_runqueue' \in [CPUs -> Seq(Threads)] /\ c_ipi_pending' \in [CPUs -> SUBSET {"IPI_UNIDLE"}]
    BY <1>1, Zenon DEF TypeOK
  <2>2. QED
    BY <1>1, <1>2, <2>1, WakingType, Zenon
<1>4. InOnePlace'
  <2> DEFINE a == <<"wchan", None>>
  <2>1. a \in Places /\ ListIn(a) = wc_threads /\ ListIn(a)' = wc_threads'
    BY PlaceForms, ListInIs, ListInIsNext, Zenon
  <2>2. a # b /\ \A p \in Places \ {a, b} : ListIn(p)' = ListIn(p)
    BY Zenon
  <2> HIDE DEF a
  <2>3. IsInjective(ListIn(b)') /\ Range(ListIn(b)') = Range(ListIn(b)) \cup {x}
    <3>1. Range(OnlyIf(x)) = {x} /\ IsInjective(OnlyIf(x)) /\ Range(OnlyIf(None)) = {}
      BY OnlyIfRange, Zenon
    <3>2. QED
      BY <3>1, Zenon
  <2>4. UNCHANGED <<c_curthread, c_isidle, t_state>>
    BY Zenon DEF WakingStep
  <2>5. QED
    BY <1>1, <1>2, <2>1, <2>2, <2>3, <2>4, MoveOne, Zenon
<1>5. Affinity'
  <2>1. UNCHANGED <<c_curthread, t_cpu>>
    BY Zenon DEF WakingStep
  <2>2. QED
    BY <1>1, <2>1, Zenon DEF Affinity
<1>6. \A e \in CPUs : Len(c_runqueue'[e]) >= Len(c_runqueue[e])
  <2>1. \A e \in CPUs : Len(c_runqueue[e]) >= Len(c_runqueue[e])
    BY <1>1, QueueNat, Zenon
  <2>2. QED
    BY <2>1, Zenon
<1>7. QED
  BY <1>3, <1>4, <1>5, <1>6, WakingKeeps, Zenon

\* wchan_wakeone makes the first sleeper runnable.
LEMMA WakeoneInv ==
    ASSUME IInv, NEW c \in CPUs, wchan_wakeone(c)
    PROVE  IInv'
<1>1. TypeOK /\ IdleMatchesPc /\ HandlerHolds /\ MigLocals
  BY Zenon DEF IInv, OnePlace
<1>2. PICK u \in Threads : u = c_curthread[c]
  BY <1>1, TypeFacts, Zenon
<1>3. wc_threads \in Seq(Threads) /\ wc_threads # <<>> /\ pc[c] = "run" /\ waking[u] = None
  BY <1>1, <1>2, Zenon DEF wchan_wakeone, TypeOK
<1>4. PICK x \in Threads : x = Head(wc_threads)
  BY <1>3
<1>5. /\ wc_threads' = Tail(wc_threads)
      /\ UNCHANGED <<c_curthread, c_isidle, c_runqueue, c_zombies, c_ipi_pending, pc, mig,
                     t_state, t_cpu, live, iwaking>>
  BY Zenon DEF wchan_wakeone, cpuVars
<1>6. /\ waking' \in [Threads -> Threads \cup {None}]
      /\ waking'[u] = x /\ \A v \in Threads \ {u} : waking'[v] = waking[v]
  <2>1. waking \in [Threads -> Threads \cup {None}]
    BY <1>1, Zenon DEF TypeOK
  <2>2. waking' = [waking EXCEPT ![u] = x]
    BY <1>2, <1>4, Zenon DEF wchan_wakeone
  <2>3. QED
    BY <2>1, <2>2, Zenon
<1>7. WakingStep(c)
  <2>1. pc[c] \notin MigPcs /\ mig[c].victims = <<>>
    BY <1>1, <1>3, Zenon DEF MigPcs, MigLocals
  <2>2. pc' \in [CPUs -> Labels] /\ iwaking' \in [CPUs -> Threads \cup {None}]
    BY <1>1, <1>5, Zenon DEF TypeOK
  <2>3. QED
    BY <1>5, <1>6, <2>1, <2>2, Zenon DEF WakingStep
<1>8. OnePlace' /\ StackExclusive' /\ CurExists' /\ VictimsSuffice' /\ MigLocals'
  <2> DEFINE b == <<"waking", u>>
  <2>1. b \in Places /\ b # <<"wchan", None>>
    BY PlaceForms, Zenon
  <2>2. OnlyIf(None) = ListIn(b) /\ OnlyIf(x) = ListIn(b)'
    BY <1>3, <1>6, ListInIs, ListInIsNext, Zenon
  <2>3. \A p \in Places \ {<<"wchan", None>>, b} : ListIn(p)' = ListIn(p)
    <3>1. \A v \in Threads : b # <<"waking", v>> => waking'[v] = waking[v]
      BY <1>6, Zenon
    <3> HIDE DEF b
    <3>2. QED
      BY <1>5, <3>1, SameLists, Zenon
  <2> HIDE DEF b
  <2>4. QED
    BY <1>3, <1>4, <1>5, <1>7, <2>1, <2>2, <2>3, TakeSleeper, Zenon
<1>9. IdleMatchesPc' /\ HandlerHolds'
  BY <1>1, <1>5, Zenon DEF IdleMatchesPc, HandlerHolds
<1>10. QED
  BY <1>8, <1>9, Zenon DEF IInv

\* A device handler takes a sleeper off its channel.
LEMMA DeviceInterruptInv ==
    ASSUME IInv, NEW c \in CPUs, DeviceInterrupt(c)
    PROVE  IInv'
<1>1. TypeOK /\ IdleMatchesPc /\ HandlerHolds /\ MigLocals
  BY Zenon DEF IInv, OnePlace
<1>2. wc_threads \in Seq(Threads) /\ wc_threads # <<>> /\ pc[c] \in {"run", "idle"}
  BY <1>1, Zenon DEF DeviceInterrupt, TypeOK
<1>3. PICK x \in Threads : x = Head(wc_threads)
  BY <1>2
<1>4. /\ wc_threads' = Tail(wc_threads)
      /\ UNCHANGED <<c_curthread, c_isidle, c_runqueue, c_zombies, c_ipi_pending, mig,
                     t_state, t_cpu, live, waking>>
  BY Zenon DEF DeviceInterrupt
<1>5. /\ iwaking' \in [CPUs -> Threads \cup {None}]
      /\ iwaking'[c] = x /\ \A e \in CPUs \ {c} : iwaking'[e] = iwaking[e]
  <2>1. iwaking \in [CPUs -> Threads \cup {None}]
    BY <1>1, Zenon DEF TypeOK
  <2>2. iwaking' = [iwaking EXCEPT ![c] = x]
    BY <1>3, Zenon DEF DeviceInterrupt
  <2>3. QED
    BY <2>1, <2>2, Zenon
<1>6. /\ pc' \in [CPUs -> Labels] /\ pc'[c] = "iwake" /\ \A e \in CPUs \ {c} : pc'[e] = pc[e]
  <2>1. pc \in [CPUs -> Labels] /\ pc' = [pc EXCEPT ![c] = "iwake"]
    BY <1>1, Zenon DEF TypeOK, DeviceInterrupt
  <2>2. QED
    BY <2>1, Zenon DEF Labels
<1>7. x # None /\ iwaking[c] = None
  BY <1>1, <1>2, SchedAssumption, Zenon DEF HandlerHolds
<1>8. WakingStep(c)
  <2>1. pc'[c] \notin MigPcs /\ mig[c].victims = <<>>
    BY <1>1, <1>2, <1>6, Zenon DEF MigPcs, MigLocals
  <2>2. waking' \in [Threads -> Threads \cup {None}]
    BY <1>1, <1>4, Zenon DEF TypeOK
  <2>3. QED
    BY <1>4, <1>5, <1>6, <2>1, <2>2, Zenon DEF WakingStep
<1>9. OnePlace' /\ StackExclusive' /\ CurExists' /\ VictimsSuffice' /\ MigLocals'
  <2> DEFINE b == <<"iwaking", c>>
  <2>1. b \in Places /\ b # <<"wchan", None>>
    BY PlaceForms, Zenon
  <2>2. OnlyIf(None) = ListIn(b) /\ OnlyIf(x) = ListIn(b)'
    BY <1>5, <1>7, ListInIs, ListInIsNext, Zenon
  <2>3. \A p \in Places \ {<<"wchan", None>>, b} : ListIn(p)' = ListIn(p)
    <3>1. \A e \in CPUs : b # <<"iwaking", e>> => iwaking'[e] = iwaking[e]
      BY <1>5, Zenon
    <3> HIDE DEF b
    <3>2. QED
      BY <1>4, <3>1, SameLists, Zenon
  <2> HIDE DEF b
  <2>4. QED
    BY <1>2, <1>3, <1>4, <1>8, <2>1, <2>2, <2>3, TakeSleeper, Zenon
<1>10. IdleMatchesPc'
  BY <1>1, <1>4, <1>6, Zenon DEF IdleMatchesPc
<1>11. HandlerHolds'
  BY <1>1, <1>5, <1>6, <1>7, Zenon DEF HandlerHolds
<1>12. QED
  BY <1>9, <1>10, <1>11, Zenon DEF IInv

-----------------------------------------------------------------------------
\* A queue and what threadlist_remove leaves of it.
LEMMA RemoveOne ==
    ASSUME NEW q \in Seq(Threads), IsInjective(q), NEW i \in DOMAIN q
    PROVE  \E x \in Threads, r \in Seq(Threads), n \in Nat :
              /\ x = q[i] /\ r = threadlist_remove(q, i) /\ n = Len(q) /\ n # 0
              /\ Len(r) = n - 1 /\ IsInjective(r) /\ Range(r) = Range(q) \ {x} /\ x \in Range(q)
<1>1. i \in 1..Len(q) /\ q[i] \in Threads /\ Len(q) \in Nat /\ Len(q) # 0 /\ q[i] \in Range(q)
  BY DEF Range
<1>2. threadlist_remove(q, i) = Cut(q, i)
  BY Zenon DEF threadlist_remove, Cut
<1>3. /\ Cut(q, i) \in Seq(Threads) /\ Len(Cut(q, i)) = Len(q) - 1
      /\ IsInjective(Cut(q, i)) /\ Range(Cut(q, i)) = Range(q) \ {q[i]}
  BY <1>1, RangeCut, Zenon
<1>4. QED
  BY <1>1, <1>2, <1>3, Zenon

\* schedule: a queue keeps its threads, in another order.
LEMMA ScheduleKeeps ==
    ASSUME IInv, NEW c \in CPUs, schedule(c)
    PROVE  /\ c_runqueue' \in [CPUs -> Seq(Threads)]
           /\ \A d \in CPUs : /\ IsInjective(c_runqueue'[d])
                              /\ Range(c_runqueue'[d]) = Range(c_runqueue[d])
                              /\ Len(c_runqueue'[d]) = Len(c_runqueue[d])
<1>1. /\ c_runqueue \in [CPUs -> Seq(Threads)]
      /\ \A d \in CPUs : IsInjective(c_runqueue[d])
  BY ListFacts, Zenon DEF IInv, OnePlace, TypeOK
<1>2. CASE UNCHANGED c_runqueue
  BY <1>1, <1>2, Zenon
<1>3. ASSUME NEW i \in DOMAIN c_runqueue[c],
             c_runqueue' = [c_runqueue EXCEPT
                ![c] = <<c_runqueue[c][i]>> \o threadlist_remove(c_runqueue[c], i)]
      PROVE  /\ c_runqueue' \in [CPUs -> Seq(Threads)]
             /\ \A d \in CPUs : /\ IsInjective(c_runqueue'[d])
                                /\ Range(c_runqueue'[d]) = Range(c_runqueue[d])
                                /\ Len(c_runqueue'[d]) = Len(c_runqueue[d])
  <2>1. PICK q \in Seq(Threads), x \in Threads, r \in Seq(Threads), n \in Nat :
           /\ q = c_runqueue[c] /\ x = q[i] /\ r = threadlist_remove(q, i) /\ n = Len(q)
           /\ n # 0 /\ Len(r) = n - 1 /\ IsInjective(r) /\ Range(r) = Range(q) \ {x}
           /\ x \in Range(q)
    <3>1. PICK q \in Seq(Threads) : q = c_runqueue[c] /\ IsInjective(q)
      BY <1>1, Zenon
    <3>2. QED
      BY <1>3, <3>1, RemoveOne, ZenonT(60)
  <2>2. PICK s \in Seq(Threads) :
           s = <<x>> \o r /\ Len(s) = n /\ IsInjective(s) /\ Range(s) = Range(q)
    <3> DEFINE s == <<x>> \o r
    <3>1. s \in Seq(Threads) /\ Len(s) = Len(r) + 1 /\ Range(s) = Range(r) \cup {x} /\ IsInjective(s)
      BY <2>1, AddOne
    <3>2. s = <<x>> \o r
      BY Zenon
    <3> HIDE DEF s
    <3>3. QED
      <4>1. Len(s) = n
        BY <2>1, <3>1
      <4>2. Range(s) = Range(q)
        BY <2>1, <3>1
      <4>3. QED
        BY <3>1, <3>2, <4>1, <4>2, Zenon
  <2>3. c_runqueue' = [c_runqueue EXCEPT ![c] = s]
    BY <1>3, <2>1, <2>2, Zenon
  <2>4. c_runqueue'[c] = s /\ \A d \in CPUs \ {c} : c_runqueue'[d] = c_runqueue[d]
    BY <1>1, <2>3, Zenon
  <2>5. QED
    BY <1>1, <2>1, <2>2, <2>3, <2>4, Zenon
<1>4. QED
  BY <1>2, <1>3, Zenon DEF schedule

\* A step that only reorders lists leaves every thread where it is.
LEMMA Reorder ==
    ASSUME InOnePlace, UNCHANGED <<c_curthread, c_isidle, t_state>>,
           \A p \in Places : IsInjective(ListIn(p)') /\ Range(ListIn(p)') = Range(ListIn(p))
    PROVE  InOnePlace'
<1>1. \A t \in Threads : Nowhere(t)' <=> Nowhere(t)
  BY Zenon DEF Nowhere, Running
<1>2. QED
  BY <1>1, Zenon DEF InOnePlace

\* The clock interrupt.
LEMMA HardclockInv ==
    ASSUME IInv, NEW c \in CPUs, hardclock(c)
    PROVE  IInv'
<1>1. TypeOK /\ InOnePlace /\ Affinity /\ IdleMatchesPc /\ HandlerHolds /\ MigLocals
  BY OnePlaceIs, Zenon DEF IInv
<1>2. /\ pc[c] \in {"run", "idle"}
      /\ UNCHANGED <<c_curthread, c_isidle, c_zombies, c_ipi_pending, t_state, t_cpu, live,
                     waking, iwaking, wc_threads>>
      /\ UNCHANGED c_runqueue \/ schedule(c)
      /\ \/ pc' = [pc EXCEPT ![c] = "yield"] /\ UNCHANGED mig
         \/ /\ pc' = [pc EXCEPT ![c] = "mig_count"]
            /\ mig' = [mig EXCEPT ![c] = [NoMig EXCEPT !.next = 1]]
  BY Zenon DEF hardclock, threadVars
<1>3. /\ c_runqueue' \in [CPUs -> Seq(Threads)]
      /\ \A d \in CPUs : /\ IsInjective(c_runqueue'[d])
                         /\ Range(c_runqueue'[d]) = Range(c_runqueue[d])
                         /\ Len(c_runqueue'[d]) = Len(c_runqueue[d])
  <2>1. CASE UNCHANGED c_runqueue
    BY <2>1, <1>1, ListFacts, Zenon DEF TypeOK
  <2>2. CASE schedule(c)
    BY <2>2, ScheduleKeeps, Zenon
  <2>3. QED
    BY <1>2, <2>1, <2>2, Zenon
<1>4. PICK r \in MigRec : /\ r = [NoMig EXCEPT !.next = 1]
                          /\ r.next = 1 /\ r.victims = <<>>
  <2>1. [NoMig EXCEPT !.next = 1] =
           [next |-> 1, total |-> 0, mine |-> 0, share |-> 0, to_send |-> 0, victims |-> <<>>]
    BY DEF NoMig
  <2>2. <<>> \in Seq(Threads)
    OBVIOUS
  <2>3. QED
    BY <2>1, <2>2, Zenon DEF MigRec
<1>5. mig[c].victims = <<>>
  BY <1>1, <1>2, Zenon DEF MigLocals
<1>6. /\ \A d \in CPUs \ {c} : pc'[d] = pc[d] /\ mig'[d] = mig[d]
      /\ mig'[c].victims = <<>>
      /\ \/ pc'[c] = "yield"
         \/ pc'[c] = "mig_count" /\ mig'[c].next = 1
  BY <1>1, <1>2, <1>4, <1>5, Zenon DEF TypeOK
<1>7. TypeOK'
  <2>1. mig' \in [CPUs -> MigRec]
    <3>1. mig \in [CPUs -> MigRec]
      BY <1>1, Zenon DEF TypeOK
    <3>2. mig' = mig \/ mig' = [mig EXCEPT ![c] = r]
      BY <1>2, <1>4, Zenon
    <3>3. QED
      BY <3>1, <3>2, Zenon
  <2>2. pc' \in [CPUs -> Labels]
    <3>1. PICK l \in Labels : pc' = [pc EXCEPT ![c] = l]
      BY <1>2, Zenon DEF Labels
    <3>2. QED
      BY <1>1, <3>1, Zenon DEF TypeOK
  <2>3. QED
    BY <1>1, <1>2, <1>3, <2>1, <2>2, Zenon DEF TypeOK
<1>8. InOnePlace'
  <2>1. ASSUME NEW p \in Places
        PROVE  IsInjective(ListIn(p)') /\ Range(ListIn(p)') = Range(ListIn(p))
    <3>1. CASE \E d \in CPUs : p = <<"runqueue", d>>
      BY <3>1, <1>3, ListInIs, ListInIsNext
    <3>2. CASE p \notin {<<"runqueue", d>> : d \in CPUs}
      <4>1. ListIn(p)' = ListIn(p)
        <5>1. \A d \in CPUs : mig'[d].victims = mig[d].victims
          BY <1>5, <1>6, Zenon
        <5>2. QED
          BY <5>1, <3>2, <1>2, SameLists, Zenon
      <4>2. QED
        BY <4>1, <1>1 DEF InOnePlace
    <3>3. QED
      BY <3>1, <3>2, Zenon
  <2>2. QED
    BY <2>1, <1>1, <1>2, Reorder, Zenon
<1>9. Affinity'
  BY <1>1, <1>2, <1>3, Zenon DEF Affinity
<1>10. StackExclusive' /\ CurExists'
  BY <1>2, <1>7, <1>9, StackKept, Zenon
<1>11. IdleMatchesPc' /\ HandlerHolds'
  BY <1>1, <1>2, <1>6, Zenon DEF IdleMatchesPc, HandlerHolds
<1>12. VictimsSuffice' /\ MigLocals'
  <2>1. 1 \in CPUs /\ ~(1 > c)
    BY SchedAssumption DEF CPUs
  <2>2. Range(mig'[c].victims) = {}
    BY <1>6 DEF Range
  <2>3. MigOwn(c)'
    BY <1>6, <2>1, <2>2, Zenon DEF MigOwn
  <2>4. \A d \in CPUs : Len(c_runqueue'[d]) >= Len(c_runqueue[d])
    BY <1>1, <1>3, TypeFacts
  <2>5. QED
    BY <1>2, <1>6, <1>7, <2>3, <2>4, MigStep, Zenon
<1>13. QED
  BY <1>7, <1>8, <1>9, <1>10, <1>11, <1>12, OnePlaceIsNext, Zenon DEF IInv

-----------------------------------------------------------------------------
\* The locals at the end of the counting loop.
LEMMA NoMigIs == NoMig \in MigRec /\ NoMig.victims = <<>>
<1>1. <<>> \in Seq(Threads)
  OBVIOUS
<1>2. QED
  BY <1>1, Zenon DEF NoMig, MigRec

\* The share of each CPU, and what is to be sent, are noted.
LEMMA SetShare ==
    ASSUME NEW h \in Nat, NEW n \in Nat
    PROVE  \E r \in MigRec :
              /\ r = [NoMig EXCEPT !.share = h, !.to_send = n]
              /\ r.to_send = n /\ r.victims = <<>>
<1>1. PICK m \in MigRec : m = NoMig /\ m.victims = <<>>
  BY NoMigIs, Zenon
<1> DEFINE r == [m EXCEPT !.share = h, !.to_send = n]
<1>2. r \in MigRec /\ r.to_send = n /\ r.victims = m.victims
  BY Zenon DEF MigRec
<1>3. r = [NoMig EXCEPT !.share = h, !.to_send = n]
  BY <1>1, Zenon
<1> HIDE DEF r
<1>4. QED
  BY <1>1, <1>2, <1>3, Zenon

\* Counting moves nothing; the own queue can only grow after it was counted.
LEMMA MigCountInv ==
    ASSUME IInv, NEW c \in CPUs, MigCount(c)
    PROVE  IInv'
<1>1. TypeOK /\ IdleMatchesPc /\ HandlerHolds /\ MigLocals
  BY Zenon DEF IInv, OnePlace
<1>2. pc[c] = "mig_count" /\ mig[c].victims = <<>>
  BY <1>1, Zenon DEF MigCount, MigLocals
<1>3. PICK m \in MigRec, d \in CPUs, n \in Nat, own \in Nat :
         /\ m = mig[c] /\ d = m.next /\ n = Len(c_runqueue[d]) /\ own = Len(c_runqueue[c])
         /\ m.mine \in Nat /\ m.total \in Nat /\ m.victims = <<>>
         /\ d > c => m.mine <= own
  <2>1. mig[c].next \in CPUs /\ (mig[c].next > c => mig[c].mine <= Len(c_runqueue[c]))
    BY <1>1, <1>2, Zenon DEF MigLocals
  <2>2. mig[c] \in MigRec /\ mig[c].mine \in Nat /\ mig[c].total \in Nat
    BY <1>1, TypeFacts, Zenon
  <2>3. Len(c_runqueue[c]) \in Nat /\ Len(c_runqueue[mig[c].next]) \in Nat
    BY <1>1, <2>1, TypeFacts, Zenon
  <2>4. QED
    BY <1>2, <2>1, <2>2, <2>3, Zenon
<1>4. PICK total \in Nat, mine \in Nat, share \in Nat :
         /\ total = m.total + n
         /\ mine = IF d = c THEN n ELSE m.mine
         /\ share = (total + NumCPUs - 1) \div NumCPUs
  <2>1. PICK total \in Nat : total = m.total + n
    BY <1>3
  <2>2. PICK mine \in Nat : mine = IF d = c THEN n ELSE m.mine
    BY <1>3, Zenon
  <2>3. total + NumCPUs - 1 \in Nat /\ NumCPUs \in Nat \ {0}
    BY SchedAssumption
  <2>4. \A x \in Nat, y \in Nat \ {0} : x \div y \in Nat
    OBVIOUS
  <2>5. QED
    BY <2>1, <2>2, <2>3, <2>4, Zenon
<1>5. /\ \/ /\ d < NumCPUs
            /\ mig' = [mig EXCEPT ![c] = [m EXCEPT !.next = d + 1, !.total = total, !.mine = mine]]
            /\ UNCHANGED pc
         \/ /\ d = NumCPUs /\ mine < share
            /\ mig' = [mig EXCEPT ![c] = NoMig]
            /\ pc' = [pc EXCEPT ![c] = "yield"]
         \/ /\ d = NumCPUs /\ mine >= share
            /\ mig' = [mig EXCEPT ![c] = [NoMig EXCEPT !.share = share, !.to_send = mine - share]]
            /\ pc' = [pc EXCEPT ![c] = "mig_victims"]
      /\ UNCHANGED <<c_curthread, c_isidle, c_runqueue, c_zombies, c_ipi_pending, threadVars>>
  BY <1>3, <1>4, Zenon DEF MigCount
<1>6. c \in 1..NumCPUs /\ d \in 1..NumCPUs /\ NumCPUs \in Nat
  BY SchedAssumption, Zenon DEF CPUs
<1>7. (d >= c => mine <= own) /\ (d = NumCPUs => mine <= own)
  <2>1. CASE d = c
    <3>1. mine = n /\ n = own
      BY <2>1, <1>3, <1>4, Zenon
    <3>2. QED
      BY <3>1
  <2>2. CASE d # c
    <3>1. mine = m.mine /\ (d > c => mine <= own)
      BY <2>2, <1>3, <1>4, Zenon
    <3>2. d >= c => d > c
      BY <2>2, <1>6
    <3>3. d = NumCPUs => d > c
      BY <2>2, <1>6
    <3>4. QED
      BY <3>1, <3>2, <3>3, Zenon
  <2>3. QED
    BY <2>1, <2>2, Zenon
<1>8. PICK r \in MigRec, l \in {"mig_count", "yield", "mig_victims"} :
         /\ mig' = [mig EXCEPT ![c] = r] /\ pc' = [pc EXCEPT ![c] = l]
         /\ r.victims = <<>>
         /\ l = "mig_count" => r.next \in CPUs /\ (r.next > c => r.mine <= own)
         /\ l = "mig_victims" => own >= r.to_send
  <2>1. CASE /\ d < NumCPUs
             /\ mig' = [mig EXCEPT ![c] = [m EXCEPT !.next = d + 1, !.total = total, !.mine = mine]]
             /\ UNCHANGED pc
    <3>1. PICK k \in Nat : k = d + 1 /\ k \in CPUs /\ (k > c => mine <= own)
      BY <2>1, <1>6, <1>7 DEF CPUs
    <3>2. PICK r \in MigRec : /\ r = [m EXCEPT !.next = k, !.total = total, !.mine = mine]
                              /\ r.next = k /\ r.mine = mine /\ r.victims = m.victims
      <4> DEFINE r == [m EXCEPT !.next = k, !.total = total, !.mine = mine]
      <4>1. /\ r \in MigRec /\ r = [m EXCEPT !.next = k, !.total = total, !.mine = mine]
            /\ r.next = k /\ r.mine = mine /\ r.victims = m.victims
        BY Zenon DEF MigRec
      <4> HIDE DEF r
      <4>2. QED
        BY <4>1, Zenon
    <3>3. pc' = [pc EXCEPT ![c] = "mig_count"]
      BY <2>1, <1>1, <1>2, Zenon DEF TypeOK
    <3>4. mig' = [mig EXCEPT ![c] = r]
      BY <2>1, <3>1, <3>2, Zenon
    <3>5. r.victims = <<>> /\ r.next \in CPUs /\ (r.next > c => r.mine <= own)
      BY <1>3, <3>1, <3>2, Zenon
    <3>6. QED
      BY <3>3, <3>4, <3>5, Zenon
  <2>2. CASE /\ mig' = [mig EXCEPT ![c] = NoMig]
             /\ pc' = [pc EXCEPT ![c] = "yield"]
    BY <2>2, NoMigIs, Zenon
  <2>3. CASE /\ d = NumCPUs /\ mine >= share
             /\ mig' = [mig EXCEPT ![c] = [NoMig EXCEPT !.share = share, !.to_send = mine - share]]
             /\ pc' = [pc EXCEPT ![c] = "mig_victims"]
    <3>1. PICK k \in Nat : k = mine - share /\ own >= k
      BY <2>3, <1>7
    <3>2. PICK r \in MigRec : /\ r = [NoMig EXCEPT !.share = share, !.to_send = k]
                              /\ r.to_send = k /\ r.victims = <<>>
      BY SetShare, Zenon
    <3>3. mig' = [mig EXCEPT ![c] = r]
      BY <2>3, <3>1, <3>2, Zenon
    <3>4. QED
      BY <2>3, <3>1, <3>2, <3>3, Zenon
  <2>4. QED
    BY <1>5, <2>1, <2>2, <2>3, Zenon
<1>9. /\ mig'[c] = r /\ pc'[c] = l
      /\ \A e \in CPUs \ {c} : pc'[e] = pc[e] /\ mig'[e] = mig[e]
  BY <1>1, <1>8, Zenon DEF TypeOK
<1>10. TypeOK'
  BY <1>1, <1>5, <1>8, Zenon DEF TypeOK, Labels, threadVars
<1>11. OnePlace' /\ StackExclusive' /\ CurExists'
  <2>1. \A e \in CPUs : mig'[e].victims = mig[e].victims
    BY <1>2, <1>8, <1>9, Zenon
  <2>2. QED
    BY <1>5, <1>10, <2>1, NobodyMoves, Zenon
<1>12. IdleMatchesPc' /\ HandlerHolds'
  BY <1>1, <1>2, <1>5, <1>8, <1>9 DEF IdleMatchesPc, HandlerHolds, threadVars
<1>13. VictimsSuffice' /\ MigLocals'
  <2>1. Range(mig'[c].victims) = {}
    BY <1>8, <1>9 DEF Range
  <2>2. Len(c_runqueue'[c]) = own /\ \A e \in CPUs : Len(c_runqueue'[e]) >= Len(c_runqueue[e])
    BY <1>1, <1>3, <1>5, TypeFacts
  <2>3. MigOwn(c)'
    BY <1>8, <1>9, <2>1, <2>2, Zenon DEF MigOwn
  <2>4. t_cpu' = t_cpu
    BY <1>5, Zenon DEF threadVars
  <2>5. QED
    BY <1>9, <1>10, <2>2, <2>3, <2>4, MigStep, Zenon
<1>14. QED
  BY <1>11, <1>12, <1>13, Zenon DEF IInv

\* A step of the migration that leaves the threads where they are and only goes
\* on to "mig_send" at CPU n.
LEMMA SendOnInv ==
    ASSUME IInv, NEW c \in CPUs, NEW n \in Nat, n >= 1,
           pc[c] \in {"mig_take", "mig_give"},
           Len(mig[c].victims) >= mig[c].to_send,
           pc' = [pc EXCEPT ![c] = "mig_send"],
           mig' = [mig EXCEPT ![c].next = n],
           UNCHANGED <<c_curthread, c_isidle, c_runqueue, c_zombies, c_ipi_pending, threadVars>>
    PROVE  IInv'
<1>1. TypeOK /\ IdleMatchesPc /\ HandlerHolds /\ MigLocals
  BY Zenon DEF IInv, OnePlace
<1>2. PICK r \in MigRec : /\ mig' = [mig EXCEPT ![c] = r]
                          /\ r.next = n /\ r.to_send = mig[c].to_send
                          /\ r.victims = mig[c].victims
  <2>1. mig[c] \in MigRec
    BY <1>1, TypeFacts, Zenon
  <2>2. PICK r \in MigRec : /\ r = [mig[c] EXCEPT !.next = n] /\ r.next = n
                            /\ r.to_send = mig[c].to_send /\ r.victims = mig[c].victims
    BY <2>1, SetNext
  <2>3. QED
    BY <2>2, Zenon
<1>3. /\ mig'[c] = r /\ pc'[c] = "mig_send"
      /\ \A e \in CPUs \ {c} : pc'[e] = pc[e] /\ mig'[e] = mig[e]
  BY <1>1, <1>2, ZenonT(60) DEF TypeOK
<1>4. TypeOK'
  <2>1. mig' \in [CPUs -> MigRec]
    <3>1. mig \in [CPUs -> MigRec]
      BY <1>1, Zenon DEF TypeOK
    <3>2. \A f \in [CPUs -> MigRec] : [f EXCEPT ![c] = r] \in [CPUs -> MigRec]
      OBVIOUS
    <3>3. mig' = [mig EXCEPT ![c] = r]
      BY <1>2, Zenon
    <3>4. QED
      BY <3>1, <3>2, <3>3, ZenonT(60)
  <2>2. pc' \in [CPUs -> Labels]
    BY <1>1, Zenon DEF TypeOK, Labels
  <2>3. QED
    BY <1>1, <2>1, <2>2, Zenon DEF TypeOK, threadVars
<1>5. OnePlace' /\ StackExclusive' /\ CurExists'
  <2>1. \A e \in CPUs : mig'[e].victims = mig[e].victims
    BY <1>2, <1>3, Zenon
  <2>2. QED
    BY <1>4, <2>1, NobodyMoves, Zenon
<1>6. IdleMatchesPc' /\ HandlerHolds'
  BY <1>1, <1>3, Zenon DEF IdleMatchesPc, HandlerHolds, threadVars
<1>7. VictimsSuffice' /\ MigLocals'
  <2>1. \A e \in CPUs : Len(c_runqueue'[e]) >= Len(c_runqueue[e])
    BY <1>1, TypeFacts
  <2>2. t_cpu' = t_cpu
    BY Zenon DEF threadVars
  <2>3. \A t \in Range(mig[c].victims) : t_cpu[t] = c
    BY <1>1, Zenon DEF MigLocals
  <2>4. Len(mig'[c].victims) >= mig'[c].to_send
    BY <1>2, <1>3, Zenon
  <2>5. MigOwn(c)'
    BY <1>2, <1>3, <2>2, <2>3, <2>4, Zenon DEF MigOwn
  <2>6. QED
    BY <1>3, <1>4, <2>1, <2>2, <2>5, MigStep, Zenon
<1>8. QED
  BY <1>5, <1>6, <1>7, Zenon DEF IInv

\* The loop that takes the victims.
LEMMA MigTakeInv ==
    ASSUME IInv, NEW c \in CPUs, MigTake(c)
    PROVE  IInv'
<1>1. TypeOK /\ InOnePlace /\ Affinity /\ VictimsSuffice /\ IdleMatchesPc /\ HandlerHolds /\ MigLocals
  BY OnePlaceIs, Zenon DEF IInv
<1>2. /\ pc[c] = "mig_take"
      /\ UNCHANGED <<c_curthread, c_isidle, c_zombies, c_ipi_pending, t_state, t_cpu, live,
                     waking, iwaking, wc_threads>>
  BY Zenon DEF MigTake, threadVars
<1>3. PICK q \in Seq(Threads), v \in Seq(Threads) :
         q = c_runqueue[c] /\ v = mig[c].victims /\ IsInjective(q) /\ IsInjective(v)
  BY <1>1, TypeFacts, ListFacts, Zenon
<1>4. PICK k \in Nat, m \in Nat, n \in Nat :
         k = Len(v) /\ m = mig[c].to_send /\ n = Len(q) /\ n + k >= m
  BY <1>1, <1>2, <1>3, TypeFacts, Zenon DEF VictimsSuffice
<1>5. CASE /\ k = m
           /\ pc' = [pc EXCEPT ![c] = "mig_send"]
           /\ mig' = [mig EXCEPT ![c].next = 1]
           /\ UNCHANGED c_runqueue
  <2>1. Len(mig[c].victims) >= mig[c].to_send
    BY <1>3, <1>4, <1>5
  <2>2. UNCHANGED <<c_curthread, c_isidle, c_runqueue, c_zombies, c_ipi_pending, threadVars>>
    BY <1>2, <1>5, Zenon DEF threadVars
  <2>3. 1 \in Nat /\ 1 >= 1 /\ pc[c] \in {"mig_take", "mig_give"}
    BY <1>2
  <2>4. QED
    BY <1>5, <2>1, <2>2, <2>3, SendOnInv, Zenon
<1>6. ASSUME k < m, NEW i \in DOMAIN q,
             c_runqueue' = [c_runqueue EXCEPT ![c] = threadlist_remove(q, i)],
             mig' = [mig EXCEPT ![c].victims = <<q[i]>> \o v],
             UNCHANGED pc
      PROVE  IInv'
  <2>1. PICK x \in Threads, r \in Seq(Threads) :
           /\ x = q[i] /\ r = threadlist_remove(q, i) /\ n # 0
           /\ Len(r) = n - 1 /\ IsInjective(r) /\ Range(r) = Range(q) \ {x} /\ x \in Range(q)
    BY <1>3, <1>4, RemoveOne, Zenon
  <2>2. t_cpu[x] = c
    BY <1>1, <1>3, <2>1, Zenon DEF Affinity
  <2>3. x \notin Range(v)
    <3>1. /\ <<"runqueue", c>> \in Places /\ ListIn(<<"runqueue", c>>) = q
          /\ <<"victims", c>> \in Places /\ ListIn(<<"victims", c>>) = v
      BY <1>3, PlaceForms, ListInIs, Zenon
    <3>2. QED
      BY <1>1, <2>1, <3>1, Elsewhere, Zenon
  <2>4. PICK w \in Seq(Threads) :
           /\ w = <<x>> \o v /\ Len(w) = k + 1 /\ IsInjective(w) /\ Range(w) = Range(v) \cup {x}
    <3> DEFINE w == <<x>> \o v
    <3>1. w \in Seq(Threads) /\ Len(w) = Len(v) + 1 /\ Range(w) = Range(v) \cup {x} /\ IsInjective(w)
      BY <1>3, <2>3, AddOne
    <3>2. w = <<x>> \o v
      OBVIOUS
    <3> HIDE DEF w
    <3>3. QED
      BY <1>4, <3>1, <3>2, Zenon
  <2>5. PICK g \in MigRec : /\ mig' = [mig EXCEPT ![c] = g]
                            /\ g.victims = w /\ g.to_send = m
    <3>1. mig[c] \in MigRec
      BY <1>1, TypeFacts, Zenon
    <3>2. PICK g \in MigRec : /\ g = [mig[c] EXCEPT !.victims = w]
                              /\ g.victims = w /\ g.to_send = mig[c].to_send
      BY <3>1, SetVictims, ZenonT(60)
    <3>3. QED
      BY <1>4, <1>6, <2>1, <2>4, <3>2, Zenon
  <2>6. /\ c_runqueue'[c] = r /\ mig'[c] = g
        /\ \A e \in CPUs \ {c} : c_runqueue'[e] = c_runqueue[e] /\ mig'[e] = mig[e]
    BY <1>1, <1>6, <2>1, <2>5, Zenon DEF TypeOK
  <2>7. TypeOK'
    <3>1. c_runqueue' \in [CPUs -> Seq(Threads)]
      BY <1>1, <1>6, <2>1, Zenon DEF TypeOK
    <3>2. mig' \in [CPUs -> MigRec]
      BY <1>1, <2>5, Zenon DEF TypeOK
    <3>3. QED
      BY <1>1, <1>2, <1>6, <3>1, <3>2, Zenon DEF TypeOK
  <2>8. InOnePlace'
    <3> DEFINE a == <<"runqueue", c>>
               b == <<"victims", c>>
    <3>1. a \in Places /\ b \in Places /\ a # b
      BY PlaceForms, Zenon
    <3>2. ListIn(a) = q /\ ListIn(b) = v /\ ListIn(a)' = r /\ ListIn(b)' = w
      BY <1>3, <2>5, <2>6, ListInIs, ListInIsNext
    <3>3. \A p \in Places \ {a, b} : ListIn(p)' = ListIn(p)
      BY <1>2, <2>6, SameLists, Zenon
    <3> HIDE DEF a, b
    <3>4. /\ x \in Range(ListIn(a))
          /\ IsInjective(ListIn(a)') /\ Range(ListIn(a)') = Range(ListIn(a)) \ {x}
          /\ IsInjective(ListIn(b)') /\ Range(ListIn(b)') = Range(ListIn(b)) \cup {x}
      BY <2>1, <2>4, <3>2, Zenon
    <3>5. UNCHANGED <<c_curthread, c_isidle, t_state>>
      BY <1>2, Zenon
    <3>6. QED
      BY <1>1, <3>1, <3>3, <3>4, <3>5, MoveOne, Zenon
  <2>9. Affinity'
    <3>1. \A e \in CPUs : Range(c_runqueue'[e]) \subseteq Range(c_runqueue[e])
      BY <1>3, <2>1, <2>6, Zenon
    <3>2. QED
      BY <1>1, <1>2, <3>1, Zenon DEF Affinity
  <2>10. StackExclusive' /\ CurExists'
    BY <1>2, <2>7, <2>9, StackKept, Zenon
  <2>11. IdleMatchesPc' /\ HandlerHolds'
    BY <1>1, <1>2, <1>6, Zenon DEF IdleMatchesPc, HandlerHolds
  <2>12. VictimsSuffice' /\ MigLocals'
    <3>1. \A t \in Range(mig'[c].victims) : t_cpu'[t] = c
      <4>1. \A t \in Range(v) : t_cpu[t] = c
        BY <1>1, <1>3, Zenon DEF MigLocals
      <4>2. QED
        BY <1>2, <2>2, <2>4, <2>5, <2>6, <4>1, Zenon
    <3>2. Len(c_runqueue'[c]) + Len(mig'[c].victims) >= mig'[c].to_send
      <4>1. PICK j \in Nat, h \in Nat : j = Len(r) /\ h = Len(w) /\ j = n - 1 /\ h = k + 1
        BY <2>1, <2>4
      <4>2. j + h >= m
        BY <1>4, <4>1
      <4>3. QED
        BY <2>5, <2>6, <4>1, <4>2, Zenon
    <3>3. pc'[c] = "mig_take"
      BY <1>2, <1>6, Zenon
    <3>4. MigOwn(c)'
      BY <3>1, <3>2, <3>3, Zenon DEF MigOwn
    <3>5. \A e \in CPUs \ {c} : Len(c_runqueue'[e]) >= Len(c_runqueue[e])
      BY <1>1, <2>6, TypeFacts
    <3>6. QED
      BY <1>2, <1>6, <2>6, <2>7, <3>4, <3>5, MigStep, Zenon
  <2>13. QED
    BY <2>7, <2>8, <2>9, <2>10, <2>11, <2>12, OnePlaceIsNext, Zenon DEF IInv
<1>7. QED
  BY <1>3, <1>4, <1>5, <1>6, Zenon DEF MigTake

\* The loop that hands victims to another CPU: one victim.
LEMMA GiveInv ==
    ASSUME IInv, NEW c \in CPUs, NEW d \in CPUs, d = mig[c].next,
           pc[c] = "mig_give", mig[c].to_send > 0, GiveOne(c, d),
           UNCHANGED <<pc, c_curthread, c_isidle, c_zombies, t_state, live,
                       waking, iwaking, wc_threads>>
    PROVE  IInv'
<1>1. TypeOK /\ InOnePlace /\ Affinity /\ VictimsSuffice /\ IdleMatchesPc /\ HandlerHolds /\ MigLocals
  BY OnePlaceIs, Zenon DEF IInv
<1>2. PICK v \in Seq(Threads), k \in Nat, m \in Nat, n \in Nat :
         /\ v = mig[c].victims /\ IsInjective(v) /\ k = Len(v) /\ m = mig[c].to_send
         /\ k >= m /\ m > 0 /\ v # <<>> /\ n = m - 1
  <2>1. PICK v \in Seq(Threads), k \in Nat, m \in Nat :
           /\ v = mig[c].victims /\ IsInjective(v) /\ k = Len(v) /\ m = mig[c].to_send
           /\ k >= m /\ m > 0
    BY <1>1, TypeFacts, ListFacts, Zenon DEF VictimsSuffice
  <2>2. v # <<>>
    BY <2>1
  <2>3. QED
    BY <2>1, <2>2
<1>3. PICK x \in Threads, w \in Seq(Threads) :
         /\ x = Head(v) /\ w = Tail(v) /\ Len(w) = k - 1
         /\ x \in Range(v) /\ IsInjective(w) /\ Range(w) = Range(v) \ {x}
  <2>1. Head(v) \in Threads /\ Tail(v) \in Seq(Threads) /\ Len(Tail(v)) = k - 1
    BY <1>2
  <2>2. Head(v) \in Range(v) /\ IsInjective(Tail(v)) /\ Range(Tail(v)) = Range(v) \ {Head(v)}
    BY <1>2, RangeTail, Zenon
  <2>3. QED
    BY <2>1, <2>2, Zenon
<1>4. \A t \in Range(v) : t_cpu[t] = c
  BY <1>1, <1>2, Zenon DEF MigLocals
<1>5. d # c
  BY <1>1, Zenon DEF MigLocals
<1>6. ASSUME NEW z \in Seq(Threads),
             mig' = [mig EXCEPT ![c].victims = z, ![c].to_send = m - 1]
      PROVE  \E g \in MigRec : /\ mig' = [mig EXCEPT ![c] = g] /\ g.victims = z
                               /\ g.to_send = n /\ g.next = d
  <2>1. PICK f \in MigRec : f = mig[c] /\ f.next = d
    BY <1>1, TypeFacts, Zenon
  <2> DEFINE g == [f EXCEPT !.victims = z, !.to_send = n]
  <2>2. g \in MigRec /\ g.victims = z /\ g.to_send = n /\ g.next = f.next
    BY Zenon DEF MigRec
  <2>3. mig' = [mig EXCEPT ![c] = g]
    <3>1. [mig EXCEPT ![c].victims = z, ![c].to_send = m - 1] = [mig EXCEPT ![c] = g]
      BY <1>1, <1>2, <2>1, Zenon DEF TypeOK
    <3>2. QED
      BY <3>1, <1>6, Zenon
  <2> HIDE DEF g
  <2>4. QED
    BY <2>1, <2>2, <2>3, Zenon
\* curthread stays among the victims, at their tail.
<1>7. CASE /\ x = c_curthread[c]
           /\ mig' = [mig EXCEPT ![c].victims = Append(Tail(@), x), ![c].to_send = @ - 1]
           /\ UNCHANGED <<t_cpu, c_runqueue, c_ipi_pending>>
  <2>1. PICK z \in Seq(Threads) : /\ z = Append(w, x) /\ IsInjective(z)
                                  /\ Range(z) = Range(v) /\ Len(z) = k
    <3>1. /\ Append(w, x) \in Seq(Threads) /\ Range(Append(w, x)) = Range(w) \cup {x}
          /\ IsInjective(Append(w, x))
      <4>1. x \notin Range(w)
        BY <1>3, Zenon
      <4>2. Append(w, x) \in Seq(Threads) /\ Range(Append(w, x)) = Range(w) \cup {x}
        BY RangeAppend
      <4>3. IsInjective(Append(w, x))
        BY <1>3, <4>1, InjectiveAppend, Zenon
      <4>4. QED
        BY <4>2, <4>3, Zenon
    <3>2. Range(w) \cup {x} = Range(v)
      BY <1>3, Zenon
    <3>3. Len(Append(w, x)) = k
      BY <1>3
    <3>4. QED
      BY <3>1, <3>2, <3>3, Zenon
  <2>2. mig' = [mig EXCEPT ![c].victims = z, ![c].to_send = m - 1]
    BY <1>1, <1>2, <1>3, <1>7, <2>1, Zenon DEF TypeOK
  <2>3. PICK g \in MigRec : /\ mig' = [mig EXCEPT ![c] = g] /\ g.victims = z
                            /\ g.to_send = n /\ g.next = d
    BY <1>6, <2>2, Zenon
  <2>4. mig'[c] = g /\ \A e \in CPUs \ {c} : mig'[e] = mig[e]
    BY <1>1, <2>3, Zenon DEF TypeOK
  <2>5. TypeOK'
    <3>1. mig' \in [CPUs -> MigRec]
      BY <1>1, <2>3, Zenon DEF TypeOK
    <3>2. QED
      BY <1>1, <1>7, <3>1, Zenon DEF TypeOK
  <2>6. InOnePlace'
    <3>1. ASSUME NEW p \in Places
          PROVE  IsInjective(ListIn(p)') /\ Range(ListIn(p)') = Range(ListIn(p))
      <4>1. CASE p = <<"victims", c>>
        <5>1. ListIn(p) = v /\ ListIn(p)' = z
          BY <4>1, <1>2, <2>3, <2>4, ListInIs, ListInIsNext, Zenon
        <5>2. QED
          BY <2>1, <5>1, Zenon
      <4>2. CASE p # <<"victims", c>>
        <5>1. ListIn(p)' = ListIn(p)
          <6>1. \A l \in Places \ {<<"victims", c>>} : ListIn(l)' = ListIn(l)
            BY <1>7, <2>4, SameLists, Zenon
          <6>2. QED
            BY <4>2, <6>1, Zenon
        <5>2. QED
          BY <5>1, <1>1 DEF InOnePlace
      <4>3. QED
        BY <4>1, <4>2, Zenon
    <3>2. QED
      BY <3>1, <1>1, Reorder, Zenon
  <2>7. Affinity'
    BY <1>1, <1>7, Zenon DEF Affinity
  <2>8. StackExclusive' /\ CurExists'
    BY <2>5, <2>7, StackKept, Zenon
  <2>9. VictimsSuffice' /\ MigLocals'
    <3>1. \A t \in Range(mig'[c].victims) : t_cpu'[t] = c
      BY <1>4, <1>7, <2>1, <2>3, <2>4, Zenon
    <3>2. Len(mig'[c].victims) >= mig'[c].to_send
      BY <1>2, <2>1, <2>3, <2>4
    <3>3. pc'[c] = "mig_give" /\ mig'[c].next = d
      BY <2>3, <2>4, Zenon
    <3>4. MigOwn(c)'
      BY <1>5, <3>1, <3>2, <3>3, Zenon DEF MigOwn
    <3>5. \A e \in CPUs : Len(c_runqueue'[e]) >= Len(c_runqueue[e])
      BY <1>1, <1>7, TypeFacts
    <3>6. QED
      BY <1>7, <2>4, <2>5, <3>4, <3>5, MigStep, Zenon
  <2>10. IdleMatchesPc' /\ HandlerHolds'
    BY <1>1, Zenon DEF IdleMatchesPc, HandlerHolds
  <2>11. QED
    BY <2>5, <2>6, <2>7, <2>8, <2>9, <2>10, OnePlaceIsNext, Zenon DEF IInv
\* Any other victim goes to CPU d.
<1>8. CASE /\ x # c_curthread[c]
           /\ mig' = [mig EXCEPT ![c].victims = Tail(@), ![c].to_send = @ - 1]
           /\ t_cpu' = [t_cpu EXCEPT ![x] = d]
           /\ AddRunnable(d, <<x>>)
  <2>1. mig' = [mig EXCEPT ![c].victims = w, ![c].to_send = m - 1]
    BY <1>1, <1>2, <1>3, <1>8, Zenon DEF TypeOK
  <2>2. PICK g \in MigRec : /\ mig' = [mig EXCEPT ![c] = g] /\ g.victims = w
                            /\ g.to_send = n /\ g.next = d
    BY <1>6, <2>1, Zenon
  <2>3. \A e \in CPUs : x \notin Range(c_runqueue[e]) /\ (e # c => x \notin Range(mig[e].victims))
    <3>1. <<"victims", c>> \in Places /\ ListIn(<<"victims", c>>) = v
      BY <1>2, PlaceForms, ListInIs, Zenon
    <3>2. ASSUME NEW e \in CPUs PROVE x \notin Range(c_runqueue[e])
      <4>1. <<"runqueue", e>> \in Places /\ ListIn(<<"runqueue", e>>) = c_runqueue[e]
        BY PlaceForms, ListInIs, Zenon
      <4>2. QED
        BY <1>1, <1>3, <3>1, <4>1, Elsewhere, Zenon
    <3>3. ASSUME NEW e \in CPUs, e # c PROVE x \notin Range(mig[e].victims)
      <4>1. <<"victims", e>> \in Places /\ ListIn(<<"victims", e>>) = mig[e].victims
        BY PlaceForms, ListInIs, Zenon
      <4>2. <<"victims", e>> # <<"victims", c>>
        BY <3>3, Zenon
      <4>3. QED
        BY <1>1, <1>3, <3>1, <4>1, <4>2, Elsewhere, Zenon
    <3>4. QED
      BY <3>2, <3>3, Zenon
  <2>4. PICK q \in Seq(Threads) :
           /\ q = c_runqueue[d] \o <<x>> /\ IsInjective(q)
           /\ Range(q) = Range(c_runqueue[d]) \cup {x} /\ Len(q) >= Len(c_runqueue[d])
    BY <2>3, AppendRunnable, Zenon
  <2>5. /\ c_runqueue' = [c_runqueue EXCEPT ![d] = q]
        /\ c_ipi_pending' = [c_ipi_pending EXCEPT
              ![d] = IF c_isidle[d] /\ <<x>> # <<>> THEN @ \cup {"IPI_UNIDLE"} ELSE @]
    BY <1>8, <2>4, Zenon DEF AddRunnable
  <2>6. /\ mig'[c] = g /\ \A e \in CPUs \ {c} : mig'[e] = mig[e]
        /\ c_runqueue'[d] = q /\ \A e \in CPUs \ {d} : c_runqueue'[e] = c_runqueue[e]
        /\ t_cpu'[x] = d /\ \A t \in Threads \ {x} : t_cpu'[t] = t_cpu[t]
    BY <1>1, <1>8, <2>2, <2>5, ZenonT(60) DEF TypeOK
  <2>7. TypeOK'
    <3>1. mig' \in [CPUs -> MigRec]
      BY <1>1, <2>2, Zenon DEF TypeOK
    <3>2. c_runqueue' \in [CPUs -> Seq(Threads)]
      BY <1>1, <2>5, Zenon DEF TypeOK
    <3>3. c_ipi_pending' \in [CPUs -> SUBSET {"IPI_UNIDLE"}]
      BY <1>1, <2>5, Zenon DEF TypeOK
    <3>4. t_cpu' \in [Threads -> CPUs]
      BY <1>1, <1>8, Zenon DEF TypeOK
    <3>5. QED
      BY <1>1, <3>1, <3>2, <3>3, <3>4, Zenon DEF TypeOK
  <2>8. InOnePlace'
    <3> DEFINE a == <<"victims", c>>
               b == <<"runqueue", d>>
    <3>1. a \in Places /\ b \in Places /\ a # b
      BY PlaceForms, Zenon
    <3>2. ListIn(a) = v /\ ListIn(b) = c_runqueue[d] /\ ListIn(a)' = w /\ ListIn(b)' = q
      BY <1>2, <2>2, <2>6, ListInIs, ListInIsNext, Zenon
    <3>3. \A p \in Places \ {a, b} : ListIn(p)' = ListIn(p)
      BY <2>6, SameLists, Zenon
    <3> HIDE DEF a, b
    <3>4. /\ x \in Range(ListIn(a))
          /\ IsInjective(ListIn(a)') /\ Range(ListIn(a)') = Range(ListIn(a)) \ {x}
          /\ IsInjective(ListIn(b)') /\ Range(ListIn(b)') = Range(ListIn(b)) \cup {x}
      BY <1>3, <2>4, <3>2, Zenon
    <3>5. UNCHANGED <<c_curthread, c_isidle, t_state>>
      OBVIOUS
    <3>6. QED
      BY <1>1, <3>1, <3>3, <3>4, <3>5, MoveOne, Zenon
  <2>9. Affinity'
    <3>1. SUFFICES ASSUME NEW e \in CPUs, NEW t \in {c_curthread'[e]} \cup Range(c_runqueue'[e])
          PROVE  t_cpu'[t] = e
      BY Zenon DEF Affinity
    <3>2. \A f \in CPUs : c_curthread[f] # x /\ c_curthread[f] \in Threads
      <4>1. t_cpu[x] = c
        BY <1>3, <1>4, Zenon
      <4>2. QED
        BY <1>1, <1>8, <4>1, TypeFacts, Zenon DEF Affinity
    <3>3. CASE t = c_curthread'[e]
      BY <3>2, <3>3, <2>6, <1>1, Zenon DEF Affinity
    <3>4. CASE t \in Range(c_runqueue[e])
      <4>1. t \in Threads /\ t # x
        BY <3>4, <2>3, ListFacts, Zenon
      <4>2. QED
        BY <3>4, <4>1, <2>6, <1>1, Zenon DEF Affinity
    <3>5. CASE t = x /\ e = d
      BY <3>5, <2>6, Zenon
    <3>6. t = c_curthread'[e] \/ t \in Range(c_runqueue[e]) \/ (t = x /\ e = d)
      BY <3>1, <2>4, <2>6, Zenon
    <3>7. QED
      BY <3>3, <3>4, <3>5, <3>6, Zenon
  <2>10. StackExclusive' /\ CurExists'
    BY <2>7, <2>9, StackKept, Zenon
  <2>11. VictimsSuffice' /\ MigLocals'
    <3>1. \A t \in Range(mig'[c].victims) : t_cpu'[t] = c
      <4>1. \A t \in Range(w) : t \in Threads /\ t # x /\ t \in Range(v)
        BY <1>2, <1>3, ListFacts, Zenon
      <4>2. QED
        BY <1>4, <2>2, <2>6, <4>1, Zenon
    <3>2. Len(mig'[c].victims) >= mig'[c].to_send
      <4>1. PICK j \in Nat : j = Len(w) /\ j = k - 1
        BY <1>3
      <4>2. j >= n
        BY <1>2, <4>1
      <4>3. QED
        BY <2>2, <2>6, <4>1, <4>2, Zenon
    <3>3. pc'[c] = "mig_give" /\ mig'[c].next = d
      BY <2>2, <2>6, Zenon
    <3>4. MigOwn(c)'
      BY <1>5, <3>1, <3>2, <3>3, Zenon DEF MigOwn
    <3>5. \A e \in CPUs : Len(c_runqueue'[e]) >= Len(c_runqueue[e])
      <4>1. SUFFICES ASSUME NEW e \in CPUs PROVE Len(c_runqueue'[e]) >= Len(c_runqueue[e])
        OBVIOUS
      <4>2. PICK j \in Nat : j = Len(c_runqueue[e])
        BY <1>1, TypeFacts, Zenon
      <4>3. j >= j
        OBVIOUS
      <4>4. CASE e = d
        BY <2>4, <2>6, <4>4, Zenon
      <4>5. CASE e # d
        BY <2>6, <4>2, <4>3, <4>5, Zenon
      <4>6. QED
        BY <4>4, <4>5, Zenon
    <3>6. \A e \in CPUs \ {c} : \A t \in Range(mig[e].victims) : t_cpu'[t] = t_cpu[t]
      <4>1. \A e \in CPUs \ {c} : \A t \in Range(mig[e].victims) : t \in Threads /\ t # x
        BY <2>3, ListFacts, Zenon
      <4>2. QED
        BY <2>6, <4>1, Zenon
    <3>7. QED
      BY <2>6, <2>7, <3>4, <3>5, <3>6, MigStep, Zenon
  <2>12. IdleMatchesPc' /\ HandlerHolds'
    BY <1>1, Zenon DEF IdleMatchesPc, HandlerHolds
  <2>13. QED
    BY <2>7, <2>8, <2>9, <2>10, <2>11, <2>12, OnePlaceIsNext, Zenon DEF IInv
<1>9. QED
  BY <1>2, <1>3, <1>7, <1>8, Zenon DEF GiveOne

\* thread_consider_migration gives a victim to another CPU.
LEMMA MigGiveInv ==
    ASSUME IInv, NEW c \in CPUs, MigGive(c)
    PROVE  IInv'
<1>1. TypeOK /\ VictimsSuffice /\ MigLocals
  BY Zenon DEF IInv, OnePlace
<1>2. pc[c] = "mig_give" /\ UNCHANGED <<c_curthread, c_isidle, c_zombies, t_state, live,
                                        waking, iwaking, wc_threads>>
  BY Zenon DEF MigGive
<1>3. PICK d \in CPUs : d = mig[c].next
  BY <1>1, <1>2, Zenon DEF MigLocals
<1>4. CASE mig[c].to_send > 0 /\ GiveOne(c, d) /\ UNCHANGED pc
  BY <1>2, <1>3, <1>4, GiveInv, Zenon
<1>5. CASE /\ pc' = [pc EXCEPT ![c] = "mig_send"]
           /\ mig' = [mig EXCEPT ![c].next = d + 1]
           /\ UNCHANGED <<t_cpu, c_runqueue, c_ipi_pending>>
  <2>1. PICK n \in Nat : n = d + 1 /\ n >= 1
    BY SchedAssumption DEF CPUs
  <2>2. UNCHANGED <<c_curthread, c_isidle, c_runqueue, c_zombies, c_ipi_pending, threadVars>>
    BY <1>2, <1>5, Zenon DEF threadVars
  <2>3. pc[c] \in {"mig_take", "mig_give"} /\ Len(mig[c].victims) >= mig[c].to_send
    BY <1>1, <1>2, Zenon DEF VictimsSuffice
  <2>4. mig' = [mig EXCEPT ![c].next = n]
    BY <1>5, <2>1, Zenon
  <2>5. QED
    BY <1>5, <2>1, <2>2, <2>3, <2>4, SendOnInv, Zenon
<1>6. QED
  BY <1>3, <1>4, <1>5, Zenon DEF MigGive

\* The victims nobody took go back.
LEMMA MigLeftInv ==
    ASSUME IInv, NEW c \in CPUs, MigLeft(c)
    PROVE  IInv'
<1>1. TypeOK /\ InOnePlace /\ Affinity /\ IdleMatchesPc /\ HandlerHolds /\ MigLocals
  BY OnePlaceIs, Zenon DEF IInv
<1>2. /\ pc[c] = "mig_left" /\ pc' = [pc EXCEPT ![c] = "yield"]
      /\ mig' = [mig EXCEPT ![c] = NoMig]
      /\ UNCHANGED <<c_curthread, c_isidle, c_zombies, c_ipi_pending, t_state, t_cpu, live,
                     waking, iwaking, wc_threads>>
  BY Zenon DEF MigLeft, Goto, threadVars
<1>3. PICK q \in Seq(Threads), v \in Seq(Threads) :
         q = c_runqueue[c] /\ v = mig[c].victims /\ IsInjective(q) /\ IsInjective(v)
  BY <1>1, TypeFacts, ListFacts, Zenon
<1> DEFINE a == <<"victims", c>>
           b == <<"runqueue", c>>
<1>4. a \in Places /\ b \in Places /\ a # b /\ ListIn(a) = v /\ ListIn(b) = q
  BY <1>3, PlaceForms, ListInIs, Zenon
<1>5. /\ \A t \in Range(v) : t \in Threads /\ ~Nowhere(t) /\ t_cpu[t] = c
      /\ \A t \in Range(q) : t \in Threads /\ ~Nowhere(t)
      /\ Range(q) \cap Range(v) = {}
  <2>1. \A t \in Range(v) : t \in Threads /\ ~Nowhere(t) /\ t_cpu[t] = c
    BY <1>1, <1>3, ListFacts, Zenon DEF MigLocals
  <2>2. \A t \in Range(q) : t \in Threads /\ ~Nowhere(t)
    BY <1>3, ListFacts, Zenon
  <2>3. Range(q) \cap Range(v) = {}
    BY <1>1, <1>4, <2>1, Elsewhere, Zenon
  <2>4. QED
    BY <2>1, <2>2, <2>3, Zenon
<1>6. PICK s \in Seq(Threads) : /\ s = q \o v /\ IsInjective(s)
                                /\ Range(s) = Range(q) \cup Range(v)
  <2> DEFINE s == q \o v
  <2>1. s \in Seq(Threads) /\ IsInjective(s) /\ Range(s) = Range(q) \cup Range(v)
    BY <1>3, <1>5, RangeConcat
  <2>2. s = q \o v
    OBVIOUS
  <2> HIDE DEF s
  <2>3. QED
    BY <2>1, <2>2, Zenon
<1>7. c_runqueue' = [c_runqueue EXCEPT ![c] = s]
  BY <1>3, <1>6, Zenon DEF MigLeft
<1>8. /\ c_runqueue'[c] = s /\ mig'[c] = NoMig /\ pc'[c] = "yield"
      /\ \A e \in CPUs \ {c} : c_runqueue'[e] = c_runqueue[e] /\ mig'[e] = mig[e] /\ pc'[e] = pc[e]
  BY <1>1, <1>2, <1>7, Zenon DEF TypeOK
<1>9. TypeOK'
  <2>1. mig' \in [CPUs -> MigRec]
    BY <1>1, <1>2, NoMigIs, Zenon DEF TypeOK
  <2>2. c_runqueue' \in [CPUs -> Seq(Threads)]
    BY <1>1, <1>7, Zenon DEF TypeOK
  <2>3. pc' \in [CPUs -> Labels]
    BY <1>1, <1>2, Zenon DEF TypeOK, Labels
  <2>4. QED
    BY <1>1, <1>2, <2>1, <2>2, <2>3, Zenon DEF TypeOK
<1>10. InOnePlace'
  <2>1. ListIn(a)' = <<>> /\ ListIn(b)' = s
    BY <1>8, NoMigIs, ListInIsNext, Zenon
  <2>2. \A p \in Places \ {a, b} : ListIn(p)' = ListIn(p)
    BY <1>2, <1>8, SameLists, Zenon
  <2> HIDE DEF a, b
  <2>3. IsInjective(<<>>) /\ Range(<<>>) = {}
    BY DEF IsInjective, Range
  <2>4. IsInjective(ListIn(a)') /\ IsInjective(ListIn(b)') /\ Range(ListIn(a)') = {}
        /\ Range(ListIn(b)') = Range(q) \cup Range(v)
    BY <1>6, <2>1, <2>3, Zenon
  <2>5. \A t \in Threads : Nowhere(t)' <=> Nowhere(t)
    BY <1>2, Zenon DEF Nowhere, Running
  <2>6. \A t \in Threads :
           t \in Range(ListIn(a)') \cup Range(ListIn(b)') <=>
              ~Nowhere(t)' /\ (Nowhere(t) \/ t \in Range(ListIn(a)) \cup Range(ListIn(b)))
    BY <1>4, <1>5, <2>4, <2>5, Zenon
  <2>7. QED
    BY <1>1, <1>4, <2>2, <2>4, <2>5, <2>6, Move, Zenon
<1>11. Affinity'
  <2>1. SUFFICES ASSUME NEW e \in CPUs, NEW t \in {c_curthread'[e]} \cup Range(c_runqueue'[e])
        PROVE  t_cpu'[t] = e
    BY Zenon DEF Affinity
  <2>2. t \in {c_curthread[e]} \cup Range(c_runqueue[e]) \/ (e = c /\ t \in Range(v))
    <3>1. c_curthread'[e] = c_curthread[e]
      BY <1>2, Zenon
    <3>2. e = c => Range(c_runqueue'[e]) = Range(c_runqueue[e]) \cup Range(v)
      BY <1>3, <1>6, <1>8, Zenon
    <3>3. e # c => Range(c_runqueue'[e]) = Range(c_runqueue[e])
      BY <1>8, Zenon
    <3>4. QED
      BY <3>1, <3>2, <3>3, <2>1, Zenon
  <2>3. QED
    BY <1>1, <1>2, <1>5, <2>2, Zenon DEF Affinity
<1>12. StackExclusive' /\ CurExists'
  BY <1>2, <1>9, <1>11, StackKept, Zenon
<1>13. IdleMatchesPc' /\ HandlerHolds'
  BY <1>1, <1>2, <1>8, Zenon DEF IdleMatchesPc, HandlerHolds
<1>14. VictimsSuffice' /\ MigLocals'
  <2>1. pc'[c] \notin MigPcs /\ mig'[c].victims = <<>>
    BY <1>8, NoMigIs, Zenon DEF MigPcs
  <2>2. \A e \in CPUs \ {c} : Len(c_runqueue'[e]) >= Len(c_runqueue[e])
    BY <1>1, <1>8, TypeFacts
  <2>3. QED
    BY <1>2, <1>8, <1>9, <2>1, <2>2, OthersMigrate, Zenon
<1>15. QED
  BY <1>9, <1>10, <1>11, <1>12, <1>13, <1>14, OnePlaceIsNext, Zenon DEF IInv

-----------------------------------------------------------------------------
\* It holds when the CPUs have started.
LEMMA InitInv == Init => IInv
<1> SUFFICES ASSUME Init PROVE IInv
  OBVIOUS
<1>1. BootThreads \in [CPUs -> Threads] /\ IsInjective(BootThreads)
  BY SchedAssumption, Zenon DEF BootThreads, ExistsInjection, Injection
<1>2. /\ Range(<<>>) = {} /\ IsInjective(<<>>) /\ <<>> \in Seq(Threads)
  BY DEF Range, IsInjective
<1>3. /\ \A c \in CPUs : BootThreads[c] \in Range(BootThreads)
      /\ \A t \in Range(BootThreads) : \E c \in CPUs : BootThreads[c] = t
      /\ \A c, d \in CPUs : BootThreads[c] = BootThreads[d] => c = d
  BY <1>1, Zenon DEF Range, IsInjective
<1>4. \A c \in CPUs : t_cpu[BootThreads[c]] = c
  <2>1. SUFFICES ASSUME NEW c \in CPUs PROVE t_cpu[BootThreads[c]] = c
    OBVIOUS
  <2>2. PICK t \in Threads : t = BootThreads[c] /\ t \in Range(BootThreads)
    BY <1>1, <1>3, Zenon
  <2>3. t_cpu[t] = CHOOSE d \in CPUs : BootThreads[d] = t
    BY <2>2, Zenon DEF Init
  <2>4. \A d \in CPUs : BootThreads[d] = t => d = c
    BY <2>2, <1>3, Zenon
  <2>5. QED
    BY <2>2, <2>3, <2>4, Zenon
<1>5. TypeOK
  <2>1. t_cpu \in [Threads -> CPUs]
    <3>1. 1 \in CPUs
      BY SchedAssumption DEF CPUs
    <3>2. ASSUME NEW t \in Threads
          PROVE (IF t \in Range(BootThreads) THEN CHOOSE c \in CPUs : BootThreads[c] = t ELSE 1) \in CPUs
      <4>1. t \in Range(BootThreads) => (CHOOSE c \in CPUs : BootThreads[c] = t) \in CPUs
        BY <1>3, Zenon
      <4>2. QED
        BY <3>1, <4>1, Zenon
    <3>3. QED
      BY <3>2, Zenon DEF Init
  <2>2. mig \in [CPUs -> MigRec]
    BY NoMigIs, Zenon DEF Init
  <2>3. c_runqueue \in [CPUs -> Seq(Threads)] /\ c_zombies \in [CPUs -> Seq(Threads)] /\ wc_threads \in Seq(Threads)
    BY <1>2, Zenon DEF Init
  <2>4. live \in [Threads -> BOOLEAN]
    BY DEF Init
  <2>5. t_state \in [Threads -> States]
    BY Zenon DEF Init, States
  <2>6. QED
    BY <1>1, <2>1, <2>2, <2>3, <2>4, <2>5, Zenon DEF TypeOK, Init, Labels
<1>6. \A p \in Places : ListIn(p) = <<>>
  <2>1. \A c \in CPUs : /\ ListIn(<<"runqueue", c>>) = <<>> /\ ListIn(<<"zombies", c>>) = <<>>
                        /\ ListIn(<<"iwaking", c>>) = <<>>
    BY ListInIs, Zenon DEF Init, OnlyIf
  <2>2. \A c \in CPUs : ListIn(<<"victims", c>>) = <<>>
    BY ListInIs, NoMigIs, Zenon DEF Init
  <2>3. \A u \in Threads : ListIn(<<"waking", u>>) = <<>>
    BY ListInIs, Zenon DEF Init, OnlyIf
  <2>4. ListIn(<<"wchan", None>>) = <<>>
    BY ListInIs, Zenon DEF Init
  <2>5. QED
    BY <2>1, <2>2, <2>3, <2>4, PlaceForms, ZenonT(60)
<1>7. InOnePlace
  <2>1. \A t \in Threads : Nowhere(t)
    <3>1. SUFFICES ASSUME NEW t \in Threads, t \in Range(BootThreads) PROVE Running(t)
      BY Zenon DEF Nowhere, Init
    <3>2. PICK c \in CPUs : BootThreads[c] = t
      BY <3>1, <1>3, Zenon
    <3>3. c_curthread[c] = t /\ ~c_isidle[c]
      BY <3>2, Zenon DEF Init
    <3>4. QED
      BY <3>3, Zenon DEF Running
  <2>2. QED
    BY <2>1, <1>2, <1>6, Zenon DEF InOnePlace
<1>8. Affinity
  <2>1. \A c \in CPUs : c_curthread[c] = BootThreads[c] /\ Range(c_runqueue[c]) = {}
    BY <1>2, Zenon DEF Init
  <2>2. QED
    BY <1>4, <2>1, Zenon DEF Affinity
<1>9. StackExclusive
  <2>1. \A c \in CPUs : Range(c_runqueue[c]) = {} /\ Range(c_zombies[c]) = {}
    BY <1>2, Zenon DEF Init
  <2>2. \A t \in Threads : live[t] <=> \E c \in CPUs : c_curthread[c] = t
    BY <1>3, Zenon DEF Init
  <2>3. IsInjective(c_curthread)
    BY <1>1, Zenon DEF Init
  <2>4. QED
    BY <2>1, <2>2, <2>3, Zenon DEF StackExclusive
<1>10. VictimsSuffice /\ IdleMatchesPc /\ HandlerHolds
  BY Zenon DEF Init, VictimsSuffice, IdleMatchesPc, HandlerHolds
<1>11. CurExists
  <2>1. \A c \in CPUs : t_state[BootThreads[c]] = "S_RUN"
    BY <1>1, <1>3, Zenon DEF Init
  <2>2. QED
    BY <2>1, Zenon DEF CurExists, Init
<1>12. MigLocals
  <2>1. \A c \in CPUs : pc[c] = "run" /\ mig[c].victims = <<>>
    BY NoMigIs, Zenon DEF Init
  <2>2. QED
    BY <1>2, <2>1, Zenon DEF MigLocals
<1>13. QED
  BY <1>5, <1>7, <1>8, <1>9, <1>10, <1>11, <1>12, OnePlaceIs, Zenon DEF IInv

\* A step that changes nothing.
LEMMA StutterInv == IInv /\ UNCHANGED vars => IInv'
<1> SUFFICES ASSUME IInv, UNCHANGED vars PROVE IInv'
  OBVIOUS
<1>1. UNCHANGED <<c_curthread, c_isidle, c_runqueue, c_zombies, c_ipi_pending, pc, mig, threadVars>>
  BY Zenon DEF vars, cpuVars
<1>2. TypeOK /\ VictimsSuffice /\ IdleMatchesPc /\ HandlerHolds /\ MigLocals
  BY Zenon DEF IInv, OnePlace
<1>3. TypeOK'
  BY <1>1, <1>2, Zenon DEF TypeOK, threadVars
<1>4. OnePlace' /\ StackExclusive' /\ CurExists'
  BY <1>1, <1>3, NobodyMoves, Zenon
<1>5. VictimsSuffice' /\ IdleMatchesPc' /\ HandlerHolds' /\ MigLocals'
  BY <1>1, <1>2, Zenon DEF VictimsSuffice, IdleMatchesPc, HandlerHolds, MigLocals, threadVars
<1>6. QED
  BY <1>4, <1>5, Zenon DEF IInv

\* Every step of every CPU keeps the invariant.
LEMMA NextInv == IInv /\ [Next]_vars => IInv'
<1> SUFFICES ASSUME IInv, [Next]_vars PROVE IInv'
  OBVIOUS
<1>1. CASE UNCHANGED vars
  BY <1>1, StutterInv, Zenon
<1>2. ASSUME NEW c \in CPUs, thread_switch(c) PROVE IInv'
  <2>1. IdleMatchesPc
    BY Zenon DEF IInv
  <2>2. CASE wchan_sleep(c)
    BY <2>1, <2>2, SwitchToInv, Zenon DEF wchan_sleep, IdleMatchesPc
  <2>3. CASE thread_exit(c)
    BY <2>1, <2>3, SwitchToInv, Zenon DEF thread_exit, IdleMatchesPc
  <2>4. QED
    BY <1>2, <2>2, <2>3, PickInv, FinishSwitchInv, RelockInv, YieldInv, Zenon DEF thread_switch
<1>3. ASSUME NEW c \in CPUs, thread_consider_migration(c) PROVE IInv'
  BY <1>3, MigCountInv, MigVictimsInv, MigTakeInv, MigSendInv, MigGiveInv, MigLeftInv, Zenon
     DEF thread_consider_migration
<1>4. ASSUME NEW c \in CPUs,
             \/ \E t \in Threads : thread_fork(c, t)
             \/ wchan_wakeone(c) \/ WakeRunnable(c)
             \/ DeviceInterrupt(c) \/ InterruptWake(c) \/ interprocessor_interrupt(c)
             \/ hardclock(c)
      PROVE  IInv'
  BY <1>4, ForkInv, WakeoneInv, WakeRunnableInv, DeviceInterruptInv, InterruptWakeInv,
     InterprocessorInv, HardclockInv, Zenon
<1>5. QED
  BY <1>1, <1>2, <1>3, <1>4, Zenon DEF Next

\* So the invariant always holds.
LEMMA AlwaysIInv == Spec => []IInv
BY InitInv, NextInv, PTL DEF Spec

\* Whatever the number of CPUs and threads and however their steps interleave,
\* a thread that exists and does not run is on exactly one list and in no other
\* hands: thread_switch, the wakeups and thread_consider_migration never lose a
\* thread and never queue it twice.
THEOREM SchedOnePlace == Spec => []OnePlace
<1>1. IInv => OnePlace
  BY Zenon DEF IInv
<1>2. QED
  BY <1>1, AlwaysIInv, PTL

\* No two CPUs ever run on the stack of one thread, no queue offers a thread
\* whose registers are in a CPU to another CPU, and exorcise frees no stack
\* that is in use.
THEOREM SchedStackExclusive == Spec => []StackExclusive
<1>1. IInv => StackExclusive
  BY Zenon DEF IInv
<1>2. QED
  BY <1>1, AlwaysIInv, PTL

\* What thread_consider_migration counted without a lock between the CPUs still
\* covers what it takes and hands out: it never takes a thread from an empty
\* queue.
THEOREM SchedVictimsSuffice == Spec => []VictimsSuffice
<1>1. IInv => VictimsSuffice
  BY Zenon DEF IInv
<1>2. QED
  BY <1>1, AlwaysIInv, PTL
=============================================================================
