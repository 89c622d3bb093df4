------------------------------ MODULE Console ------------------------------
(***************************************************************************)
(* The console (kern/dev/generic/console.c) on the serial port             *)
(* (kern/dev/lamebus/lser.c).  Threads print with interrupts (putch_intr)  *)
(* or, with interrupts off, by polling (putch_polled); characters typed    *)
(* go through a ring of CONSOLE_INPUT_BUFFER_SIZE entries to getch.  One   *)
(* CPU, the boot CPU, takes the interrupts of the port.                    *)
(***************************************************************************)
EXTENDS Integers, Sequences, FiniteSets

CONSTANTS
    Writers, Pollers,       \* threads that print, by interrupts and by polling
    Readers,                \* threads that read
    Locking,                \* the readers that go through con_io
    Size,                   \* CONSOLE_INPUT_BUFFER_SIZE
    MaxTyped, MaxPolled     \* bounds: characters typed, printed by polling

Nobody == "nobody"

ASSUME ConsoleAssumption ==
    /\ Size \in Nat \ {0, 1} /\ MaxTyped \in Nat /\ MaxPolled \in Nat /\ Locking \subseteq Readers
    /\ Writers \cap Pollers = {} /\ Nobody \notin Pollers \cup Readers

VARIABLES
    sending, wactive,       \* the port: a character goes out; WIRQ is active
    typed, ractive,         \* characters typed; RIRQ is active (with the last)
    lost,                   \* a character was overwritten in the port
    ls_lock, ls_wbusy,      \* lser: owner of the spinlock; a write is under way
    irq,                    \* the interrupt handler: where it is, what it found
    cs_wsem, cs_rsem, head, tail, ring,     \* con_softc
    userlock,               \* con_userlock_read
    out,                    \* where each printing thread is
    polled,                 \* characters printed by polling
    in,                     \* where each reader is, and what it has read
    got,                    \* characters returned by getch, in order
    panicked                \* lser_write was not clear to write

port == <<sending, wactive, lost>>
input == <<typed, ractive, cs_rsem, head, tail, ring, userlock, in, got>>
vars == <<port, typed, ractive, ls_lock, ls_wbusy, irq, cs_wsem, cs_rsem, head, tail, ring,
          userlock, out, polled, in, got, panicked>>

NoIrq == [at |-> "idle", write |-> FALSE, char |-> 0]

Init ==
    /\ sending = FALSE /\ wactive = FALSE /\ lost = FALSE
    /\ typed = 0 /\ ractive = FALSE
    /\ ls_lock = Nobody /\ ls_wbusy = FALSE /\ irq = NoIrq
    /\ cs_wsem = 1 /\ cs_rsem = 0 /\ head = 0 /\ tail = 0
    /\ ring = [i \in 0..Size-1 |-> 0]
    /\ userlock = Nobody
    /\ out = [t \in Writers \cup Pollers |-> "idle"]
    /\ polled = 0
    /\ in = [r \in Readers |-> [at |-> "idle", char |-> 0, next |-> 0]]
    /\ got = <<>>
    /\ panicked = FALSE

TypeOK ==
    /\ cs_wsem \in {0, 1} /\ cs_rsem \in 0..Size-1
    /\ head \in 0..Size-1 /\ tail \in 0..Size-1 /\ typed \in 0..MaxTyped
    /\ ls_lock \in Pollers \cup {Nobody} /\ userlock \in Readers \cup {Nobody}
    /\ \A t \in DOMAIN out : out[t] \in {"idle", "P", "send", "pollready", "polldone", "pollsecond"}
    /\ \A r \in Readers : in[r].at \in {"idle", "P", "take", "advance"}
    /\ got \in Seq(0..MaxTyped)

-----------------------------------------------------------------------------
\* The port has sent the character.
PortDone ==
    /\ sending /\ sending' = FALSE /\ wactive' = TRUE
    /\ UNCHANGED <<lost, ls_lock, ls_wbusy, irq, cs_wsem, out, polled, input, panicked>>

\* A key is pressed, once the last one has been fetched.
Type ==
    /\ ~ractive /\ typed < MaxTyped
    /\ ractive' = TRUE /\ typed' = typed + 1
    /\ UNCHANGED <<port, ls_lock, ls_wbusy, irq, cs_wsem, cs_rsem, head, tail, ring, userlock, out, polled, in, got, panicked>>

Send == sending' = TRUE /\ lost' = (lost \/ sending)

-----------------------------------------------------------------------------
putch_intr(t) ==
    /\ out[t] = "idle" /\ out' = [out EXCEPT ![t] = "P"]
    /\ UNCHANGED <<port, ls_lock, ls_wbusy, irq, cs_wsem, polled, input, panicked>>

\* MUTANT: the first character does not wait for the semaphore.
P_wsem_nowait(t) ==
    /\ out[t] = "P"
    /\ out' = [out EXCEPT ![t] = "send"]
    /\ UNCHANGED <<port, cs_wsem, ls_lock, ls_wbusy, irq, polled, input, panicked>>

P_wsem(t) ==
    /\ out[t] = "P" /\ cs_wsem > 0
    /\ cs_wsem' = cs_wsem - 1 /\ out' = [out EXCEPT ![t] = "send"]
    /\ UNCHANGED <<port, ls_lock, ls_wbusy, irq, polled, input, panicked>>

\* lser_write, under ls_lock from end to end.
lser_write(t) ==
    /\ out[t] = "send" /\ ls_lock = Nobody /\ ~panicked
    /\ IF ls_wbusy THEN panicked' = TRUE /\ UNCHANGED <<port, ls_wbusy, out>>
       ELSE /\ ls_wbusy' = TRUE /\ Send /\ out' = [out EXCEPT ![t] = "idle"]
            /\ UNCHANGED <<wactive, panicked>>
    /\ UNCHANGED <<ls_lock, irq, cs_wsem, polled, input>>

\* lser_writepolled: with a write under way it waits for that one first.
lser_writepolled(t) ==
    /\ out[t] = "idle" /\ ls_lock = Nobody /\ polled < MaxPolled
    /\ polled' = polled + 1 /\ ls_lock' = t
    /\ IF ls_wbusy THEN out' = [out EXCEPT ![t] = "pollready"] /\ UNCHANGED port
       ELSE out' = [out EXCEPT ![t] = "polldone"] /\ Send /\ UNCHANGED wactive
    /\ UNCHANGED <<ls_wbusy, irq, cs_wsem, input, panicked>>

poll_ready(t) ==
    /\ out[t] = "pollready" /\ wactive
    /\ wactive' = FALSE /\ Send
    /\ out' = [out EXCEPT ![t] = "pollsecond"]
    /\ UNCHANGED <<ls_lock, ls_wbusy, irq, cs_wsem, polled, input, panicked>>

\* The character is out: the ready condition is left for the interrupt handler
\* if a write was under way, and cleared otherwise.
poll_done(t) ==
    /\ out[t] \in {"polldone", "pollsecond"} /\ wactive
    /\ wactive' = (out[t] = "pollsecond")
    /\ ls_lock' = Nobody /\ out' = [out EXCEPT ![t] = "idle"]
    /\ UNCHANGED <<sending, lost, ls_wbusy, irq, cs_wsem, polled, input, panicked>>

\* lser_irq up to spinlock_release.
lser_irq ==
    /\ irq = NoIrq /\ (wactive \/ ractive) /\ ls_lock = Nobody
    /\ irq' = [at |-> "start", write |-> wactive, char |-> IF ractive THEN typed ELSE 0]
    /\ wactive' = FALSE /\ ractive' = FALSE
    /\ ls_wbusy' = IF wactive THEN FALSE ELSE ls_wbusy
    /\ UNCHANGED <<sending, lost, ls_lock, typed, cs_wsem, cs_rsem, head, tail, ring, userlock, out, polled, in, got, panicked>>

\* ls_start: con_start, V(cs_wsem).
con_start ==
    /\ irq.at = "start"
    /\ cs_wsem' = IF irq.write THEN cs_wsem + 1 ELSE cs_wsem
    /\ irq' = [irq EXCEPT !.at = "input"]
    /\ UNCHANGED <<port, ls_lock, ls_wbusy, out, polled, input, panicked>>

\* ls_input: con_input; a full ring drops the character.
con_input ==
    LET nexthead == (head + 1) % Size IN
    /\ irq.at = "input" /\ irq' = NoIrq
    /\ IF irq.char = 0 \/ nexthead = tail THEN UNCHANGED <<head, ring, cs_rsem>>
       ELSE head' = nexthead /\ ring' = [ring EXCEPT ![head] = irq.char] /\ cs_rsem' = cs_rsem + 1
    /\ UNCHANGED <<port, ls_lock, ls_wbusy, cs_wsem, typed, ractive, tail, userlock, out, polled, in, got, panicked>>

-----------------------------------------------------------------------------
\* A read of one character: con_io takes con_userlock_read, the menu's kgets does not.
con_io(r) ==
    /\ in[r].at = "idle" /\ in' = [in EXCEPT ![r].at = "P"]
    /\ IF r \in Locking THEN userlock = Nobody /\ userlock' = r ELSE UNCHANGED userlock
    /\ UNCHANGED <<port, typed, ractive, ls_lock, ls_wbusy, irq, cs_wsem, cs_rsem, head, tail, ring, out, polled, got, panicked>>

P_rsem(r) ==
    /\ in[r].at = "P" /\ cs_rsem > 0
    /\ cs_rsem' = cs_rsem - 1 /\ in' = [in EXCEPT ![r].at = "take"]
    /\ UNCHANGED <<port, typed, ractive, ls_lock, ls_wbusy, irq, cs_wsem, head, tail, ring, userlock, out, polled, got, panicked>>

\* MUTANT: the tail moves by two.
getch_take_skip(r) ==
    /\ in[r].at = "take"
    /\ in' = [in EXCEPT ![r] = [at |-> "advance", char |-> ring[tail], next |-> (tail + 2) % Size]]
    /\ UNCHANGED <<port, typed, ractive, ls_lock, ls_wbusy, irq, cs_wsem, cs_rsem, head, tail, ring, userlock, out, polled, got, panicked>>

\* getch_intr: the character and the new tail are computed, then stored.
getch_take(r) ==
    /\ in[r].at = "take"
    /\ in' = [in EXCEPT ![r] = [at |-> "advance", char |-> ring[tail], next |-> (tail + 1) % Size]]
    /\ UNCHANGED <<port, typed, ractive, ls_lock, ls_wbusy, irq, cs_wsem, cs_rsem, head, tail, ring, userlock, out, polled, got, panicked>>

getch_advance(r) ==
    /\ in[r].at = "advance"
    /\ tail' = in[r].next /\ got' = Append(got, in[r].char)
    /\ in' = [in EXCEPT ![r] = [at |-> "idle", char |-> 0, next |-> 0]]
    /\ userlock' = IF userlock = r THEN Nobody ELSE userlock
    /\ UNCHANGED <<port, typed, ractive, ls_lock, ls_wbusy, irq, cs_wsem, cs_rsem, head, ring, out, polled, panicked>>

Handler == lser_irq \/ con_start \/ con_input

Next ==
    \/ PortDone \/ Type \/ lser_irq \/ con_start \/ con_input
    \/ \E t \in Writers : putch_intr(t) \/ P_wsem(t) \/ lser_write(t)
    \/ \E t \in Pollers : lser_writepolled(t) \/ poll_ready(t) \/ poll_done(t)
    \/ \E r \in Readers : con_io(r) \/ P_rsem(r) \/ getch_take(r) \/ getch_advance(r)

Spec == Init /\ [][Next]_vars

\* The port sends, the handler runs, and threads that can run do.
FairSpec ==
    /\ Spec /\ WF_vars(PortDone) /\ WF_vars(Handler)
    /\ \A t \in Writers : WF_vars(lser_write(t))
    /\ \A t \in Pollers : WF_vars(poll_ready(t) \/ poll_done(t))

-----------------------------------------------------------------------------
\* There is one permission to write: in cs_wsem, with a thread about to call
\* lser_write, as a write under way, or with the handler about to post it; so
\* lser_write never panics and no character is written over another, polled
\* output of other CPUs included.
OneWrite ==
    /\ cs_wsem + Cardinality({t \in Writers : out[t] = "send"}) + (IF ls_wbusy THEN 1 ELSE 0)
         + (IF irq.at = "start" /\ irq.write THEN 1 ELSE 0) = 1
    /\ ~panicked /\ ~lost

\* The ring holds the characters that cs_rsem and the readers past it stand
\* for, whatever the handler and a reader do at the same time.
RingCounts ==
    (head - tail + Size) % Size = cs_rsem + Cardinality({r \in Readers : in[r].at \in {"take", "advance"}})

\* Characters come out of getch_intr in the order they were typed, none twice.
InOrder == \A i, j \in 1..Len(got) : i < j => got[i] < got[j]

\* There is one permission to write to the port, in cs_wsem, with a thread or with
\* the handler.  The ring holds the characters that cs_rsem and the readers past
\* it stand for, also when con_input finds it full, and getch_intr returns them
\* in the order they were typed, none twice.
ConsoleSound == TypeOK /\ OneWrite /\ RingCounts /\ InOrder

\* A thread that waits to print gets to print, or another does: a character
\* that was sent is always followed by the permission to send the next.
OutputResumes == (cs_wsem = 0) ~> (cs_wsem = 1)
=============================================================================
