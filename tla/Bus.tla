-------------------------------- MODULE Bus --------------------------------
(***************************************************************************)
(* The system bus: autoconfiguration (kern/compile/ASST4/autoconf.c with   *)
(* the attach_ and config_ functions of kern/dev), the slot table and the  *)
(* interrupt dispatcher of kern/dev/lamebus/lamebus.c, the CPUs it         *)
(* numbers, and the clock of kern/dev/lamebus/ltimer.c.  mainbus_bootstrap *)
(* turns interrupts on before it probes, so every step of the boot thread  *)
(* may be followed by an interrupt; only the boot CPU takes them.          *)
(* The three parts share no state: `part' says which one a behaviour runs. *)
(***************************************************************************)
EXTENDS Integers, Sequences, FiniteSets, SequencesExt

CONSTANTS
    Slots,          \* the slots below the controller's: 0..n
    Cards,          \* what may be in a slot, "foreign" being a card with no driver
    MAXDUDS,        \* 10000 in lamebus_interrupt
    MaxStray,       \* bound: interrupts with no slot asserting, and messages polled out
    MaxNoMem,       \* bound: failures of kmalloc and vfs_adddev
    SECS,           \* the argument of clocksleep
    CPUS,           \* the hardware CPU numbers, 0..31 in lamebus_find_cpus
    SECOND, SMALL,  \* ticks in a second; 5000000 in ltimer_gettime, in ticks
    DELAY           \* bound: ticks between two register reads, interrupts off

Kinds == <<"emu", "ltrace", "ltimer", "lrandom", "lhd", "lser">>
Interrupting == {"emu", "ltimer", "lhd", "lser"}

BusAssumption ==
    /\ Slots = 0..Max(Slots) /\ Cards \subseteq {Kinds[i] : i \in 1..6} \cup {"foreign", "empty"}
    /\ MAXDUDS \in Nat /\ MaxStray \in Nat /\ MaxNoMem \in Nat /\ SECS \in Nat \ {0}
    /\ SECOND \in Nat /\ SMALL \in Nat /\ DELAY < SMALL /\ DELAY <= SECOND - SMALL

VARIABLES
    part,
    card,           \* slot -> the card in it
    line, irqe,     \* slots asserting an interrupt; slots not masked (IRQE)
    slotsinuse, irqfuncs,       \* lamebus_softc
    duds, strays,
    softc,          \* slot -> how far the driver's structure has been set up
    boot,           \* the boot thread: the kind it probes for, its step, its slot
    dev,            \* the_beep, the_clock, the_random, the_console; lt_timerclock's slot
    nomem,
    lb_irq,         \* lamebus_interrupt: next slot, irqs, duds_this_time
    lbolt,          \* seconds a thread in clocksleep has left
    fault,          \* what stopped the kernel
    cpus,           \* mask, self, c_number and started number of each CPU
    now, reading    \* the card's clock; the registers read so far

table == <<slotsinuse, irqfuncs>>
bus == <<card, line, irqe, table, duds, strays, softc, boot, dev, nomem, lb_irq, lbolt, fault>>
busvars == <<part, bus, cpus, now, reading>>

NoSlot == -1
NoBusIrq == [next |-> NoSlot, irqs |-> {}, duds |-> 0]
Devices == {"beep", "rtclock", "random", "con", "timerclock"}

\* lamebus_init: no handler, no slot in use but the controller's.
BusInit ==
    /\ part \in {"bus", "cpus", "clock"}
    /\ card \in [Slots -> IF part = "bus" THEN Cards ELSE {"empty"}]
    /\ line = {} /\ irqe = Slots
    /\ slotsinuse = {} /\ irqfuncs = [s \in Slots |-> "null"]
    /\ duds = 0 /\ strays = 0 /\ nomem = 0
    /\ softc = [s \in Slots |-> "none"]
    /\ boot = [kind |-> 1, at |-> "probe", slot |-> NoSlot]
    /\ dev = [d \in Devices |-> NoSlot]
    /\ lb_irq = NoBusIrq /\ lbolt = 0 /\ fault = "none"
    /\ cpus \in IF part = "cpus"
                THEN {[mask |-> m, self |-> i, number |-> <<>>, started |-> <<>>] : m \in SUBSET CPUS, i \in CPUS}
                ELSE {[mask |-> {}, self |-> 0, number |-> <<>>, started |-> <<>>]}
    /\ cpus.mask # {} => cpus.self \in cpus.mask
    /\ now = 0 /\ reading = <<>>

Booted == boot.kind > Len(Kinds)
Running == part = "bus" /\ fault = "none"

-----------------------------------------------------------------------------
(* The cards.  A card that has no interrupts enabled, or has been given    *)
(* no command, stays quiet; a foreign card does as it likes.               *)
raise(s) ==
    /\ Running /\ s \notin line
    /\ \/ card[s] = "foreign"
       \/ card[s] \in {"emu", "lhd"} /\ softc[s] = "ready"
       \/ card[s] = "ltimer" /\ dev["timerclock"] = s
       \/ card[s] = "lser" /\ softc[s] \in {"ready", "attached", "console", "unlisted"}
    /\ line' = line \cup {s}
    /\ UNCHANGED <<part, card, irqe, table, duds, strays, softc, boot, dev, nomem, lb_irq, lbolt, fault, cpus, now, reading>>

-----------------------------------------------------------------------------
(* Autoconfiguration.                                                      *)

\* The loop of autoconf_lamebus over one kind of device ends.
NextKind == boot' = [kind |-> boot.kind + 1, at |-> "probe", slot |-> NoSlot]

\* It tries the same kind again.
Again == boot' = [boot EXCEPT !.at = "probe", !.slot = NoSlot]

At(at) == Running /\ lb_irq = NoBusIrq /\ ~Booted /\ boot.at = at
Kind == IF Booted THEN "none" ELSE Kinds[boot.kind]

Unused_any(s) == TRUE
Unused(s) == s \notin slotsinuse

\* Slots the probe accepts: not in use, right vendor, device and version.
lamebus_probe(kind) == {s \in Slots : Unused(s) /\ card[s] = kind}

\* The attach_..._to_lamebus functions up to lamebus_mark: without a slot, or
\* without memory for the softc, the loop over this kind is over.
attach_probe ==
    /\ At("probe")
    /\ LET found == lamebus_probe(Kind)
       IN \/ found # {} /\ boot' = [boot EXCEPT !.at = "mark", !.slot = Min(found)] /\ UNCHANGED <<softc, nomem>>
          \/ found = {} /\ NextKind /\ UNCHANGED <<softc, nomem>>
          \/ found # {} /\ nomem < MaxNoMem /\ nomem' = nomem + 1 /\ NextKind /\ UNCHANGED softc
    /\ UNCHANGED <<part, card, line, irqe, table, duds, strays, dev, lb_irq, lbolt, fault, cpus, now, reading>>

lamebus_mark ==
    /\ At("mark")
    /\ slotsinuse' = slotsinuse \cup {boot.slot}
    /\ fault' = IF boot.slot \in slotsinuse THEN "mark" ELSE "none"
    /\ softc' = [softc EXCEPT ![boot.slot] = "raw"]
    /\ boot' = [boot EXCEPT !.at = IF Kind \in Interrupting THEN "hook" ELSE "config"]
    /\ UNCHANGED <<part, card, line, irqe, irqfuncs, duds, strays, dev, nomem, lb_irq, lbolt, cpus, now, reading>>

lamebus_attach_interrupt ==
    /\ At("hook")
    /\ fault' = IF irqfuncs[boot.slot] # "null" THEN "hook" ELSE "none"
    /\ irqfuncs' = [irqfuncs EXCEPT ![boot.slot] = Kind]
    /\ boot' = [boot EXCEPT !.at = "config"]
    /\ UNCHANGED <<part, card, line, irqe, slotsinuse, duds, strays, softc, dev, nomem, lb_irq, lbolt, cpus, now, reading>>

attach_emu_to_lamebus == Kind = "emu" /\ attach_probe
attach_ltrace_to_lamebus == Kind = "ltrace" /\ attach_probe
attach_ltimer_to_lamebus == Kind = "ltimer" /\ attach_probe
attach_lrandom_to_lamebus == Kind = "lrandom" /\ attach_probe
attach_lhd_to_lamebus == Kind = "lhd" /\ attach_probe
attach_lser_to_lamebus == Kind = "lser" /\ attach_probe

Config(d, then) ==
    /\ softc' = [softc EXCEPT ![boot.slot] = "ready"] /\ dev' = d /\ then
    /\ UNCHANGED <<part, card, line, irqe, table, duds, strays, nomem, lb_irq, lbolt, fault, cpus, now, reading>>

\* A config function that fails: nothing is cleaned up and the loop is over.
ConfigFails ==
    /\ nomem < MaxNoMem /\ nomem' = nomem + 1 /\ NextKind
    /\ UNCHANGED <<part, card, line, irqe, table, duds, strays, softc, dev, lb_irq, lbolt, fault, cpus, now, reading>>

tryattach_emu_to_lamebus == At("config") /\ Kind = "emu" /\ (Config(dev, Again) \/ ConfigFails)
tryattach_lhd_to_lamebus == At("config") /\ Kind = "lhd" /\ (Config(dev, Again) \/ ConfigFails)
tryattach_ltrace_to_lamebus == At("config") /\ Kind = "ltrace" /\ Config(dev, Again)

ToChild == boot' = [boot EXCEPT !.at = "child"]

\* The first ltimer, only, is wired to go off every second.
config_ltimer == IF dev["timerclock"] = NoSlot THEN [dev EXCEPT !["timerclock"] = boot.slot] ELSE dev

tryattach_ltimer_to_lamebus == At("config") /\ Kind = "ltimer" /\ Config(config_ltimer, ToChild)
tryattach_lrandom_to_lamebus == At("config") /\ Kind = "lrandom" /\ Config(dev, ToChild)
tryattach_lser_to_lamebus == At("config") /\ Kind = "lser" /\ Config(dev, ToChild)

\* The device d0 is attached to the device just configured unless there is one.
\* nextunit is raised after config has succeeded, which may be later than
\* the_... is set: vfs_adddev comes last in config_random and config_con.
Child(d, failing, then) ==
    \/ dev[d] = NoSlot /\ dev' = [dev EXCEPT ![d] = boot.slot] /\ UNCHANGED <<nomem, fault>> /\ then
    \/ dev[d] # NoSlot /\ ~failing /\ UNCHANGED <<dev, nomem, fault>> /\ then
    \/ dev[d] # NoSlot /\ failing /\ fault' = "assert" /\ UNCHANGED <<dev, nomem>> /\ then
    \/ dev[d] = NoSlot /\ nomem < MaxNoMem /\ nomem' = nomem + 1 /\ UNCHANGED <<dev, fault>> /\ then

KeepBus == UNCHANGED <<part, card, line, irqe, table, duds, strays, lb_irq, lbolt, cpus, now, reading>>

config_beep(then) == Child("beep", FALSE, then)
config_rtclock(then) == Child("rtclock", FALSE, then)

tryattach_beep_to_ltimer ==
    At("child") /\ Kind = "ltimer" /\ config_beep(boot' = [boot EXCEPT !.at = "child2"]) /\ KeepBus /\ UNCHANGED softc

tryattach_rtclock_to_ltimer ==
    At("child2") /\ config_rtclock(Again) /\ KeepBus /\ UNCHANGED softc

\* softc "unlisted": config_random has set the_random and vfs_adddev has failed.
config_random ==
       \/ Child("random", \E s \in Slots : softc[s] = "unlisted", Again) /\ UNCHANGED softc
       \/ /\ dev["random"] = NoSlot /\ nomem < MaxNoMem /\ nomem' = nomem + 1
          /\ dev' = [dev EXCEPT !["random"] = boot.slot] /\ softc' = [softc EXCEPT ![boot.slot] = "unlisted"]
          /\ Again /\ UNCHANGED fault

tryattach_random_to_lrandom == At("child") /\ Kind = "lrandom" /\ KeepBus /\ config_random

\* nextunit_con: a console that could not be listed leaves it at 0.
FirstConsole == \A s \in Slots : softc[s] # "console"

\* con0 goes on the first lser: attach_con_to_lser sets the callbacks ...
attach_con_to_lser ==
    /\ At("child") /\ Kind = "lser" /\ KeepBus /\ UNCHANGED <<dev, fault>>
    /\ \/ ~FirstConsole /\ Again /\ UNCHANGED <<softc, nomem>>
       \/ FirstConsole /\ nomem < MaxNoMem /\ nomem' = nomem + 1 /\ Again /\ UNCHANGED softc
       \/ /\ FirstConsole /\ softc' = [softc EXCEPT ![boot.slot] = "attached"]
          /\ boot' = [boot EXCEPT !.at = "child2con"] /\ UNCHANGED nomem

\* ... and config_con makes the semaphores they use, then the_console.
tryattach_con_to_lser ==
    /\ At("child2con") /\ KeepBus /\ Again
    /\ \/ /\ dev["con"] = NoSlot /\ dev' = [dev EXCEPT !["con"] = boot.slot] /\ UNCHANGED fault
          /\ \/ softc' = [softc EXCEPT ![boot.slot] = "console"] /\ UNCHANGED nomem
             \/ softc' = [softc EXCEPT ![boot.slot] = "unlisted"] /\ nomem < MaxNoMem /\ nomem' = nomem + 1
       \/ dev["con"] # NoSlot /\ fault' = "assert" /\ UNCHANGED <<softc, dev, nomem>>
       \/ dev["con"] = NoSlot /\ nomem < MaxNoMem /\ nomem' = nomem + 1 /\ UNCHANGED <<softc, dev, fault>>

autoconf_lamebus ==
    \/ attach_emu_to_lamebus \/ attach_ltrace_to_lamebus \/ attach_ltimer_to_lamebus
    \/ attach_lrandom_to_lamebus \/ attach_lhd_to_lamebus \/ attach_lser_to_lamebus
    \/ lamebus_mark \/ lamebus_attach_interrupt
    \/ tryattach_emu_to_lamebus \/ tryattach_ltrace_to_lamebus \/ tryattach_ltimer_to_lamebus
    \/ tryattach_lrandom_to_lamebus \/ tryattach_lhd_to_lamebus \/ tryattach_lser_to_lamebus
    \/ tryattach_beep_to_ltimer \/ tryattach_rtclock_to_ltimer \/ tryattach_random_to_lrandom
    \/ attach_con_to_lser \/ tryattach_con_to_lser

-----------------------------------------------------------------------------
(* The interrupt dispatcher.                                               *)

\* A message printed inside lamebus_interrupt: interrupts are off, so the
\* console polls, and lser_startpolling takes the spinlock of the bus again.
Message == fault' = IF dev["con"] # NoSlot THEN "spinlock" ELSE "none"

lamebus_interrupt ==
    /\ Running /\ lb_irq = NoBusIrq
    /\ \/ line \cap irqe # {} /\ UNCHANGED <<duds, strays, fault>>
          /\ lb_irq' = [next |-> 0, irqs |-> line, duds |-> 0]
       \/ line = {} /\ strays < MaxStray /\ strays' = strays + 1 /\ duds' = duds + 1 /\ Message
          /\ lb_irq' = [next |-> 0, irqs |-> {}, duds |-> 1]
    /\ UNCHANGED <<part, card, line, irqe, table, softc, boot, dev, nomem, lbolt, cpus, now, reading>>

Left == {s \in lb_irq.irqs : s >= lb_irq.next}

\* No driver, or a driver without a handler.
dud(s) ==
    /\ Running /\ lb_irq # NoBusIrq /\ Left # {} /\ s = Min(Left)
    /\ s \notin slotsinuse \/ irqfuncs[s] = "null"
    /\ duds' = duds + 1 /\ lb_irq' = [lb_irq EXCEPT !.next = s + 1, !.duds = @ + 1]
    /\ UNCHANGED <<part, card, line, irqe, table, strays, softc, boot, dev, nomem, lbolt, fault, cpus, now, reading>>

Served_first(s) ==
    /\ Running /\ lb_irq # NoBusIrq /\ Left # {} /\ s = Min(Left) /\ s \in slotsinuse
    /\ line' = line \ {s} /\ lb_irq' = [lb_irq EXCEPT !.irqs = {}]
    /\ UNCHANGED <<part, card, irqe, table, duds, strays, softc, boot, dev, nomem, cpus, now, reading>>

\* The handler turns the condition off; the irqs are read again after it.
Served(s) ==
    /\ Running /\ lb_irq # NoBusIrq /\ Left # {} /\ s = Min(Left) /\ s \in slotsinuse
    /\ line' = line \ {s} /\ lb_irq' = [lb_irq EXCEPT !.next = s + 1, !.irqs = line']
    /\ UNCHANGED <<part, card, irqe, table, duds, strays, softc, boot, dev, nomem, cpus, now, reading>>

\* emu_irq and lhd_irq wake whoever waits on the semaphores config made.
disk_irq(s) ==
    /\ irqfuncs[s] \in {"emu", "lhd"} /\ Served(s) /\ UNCHANGED lbolt
    /\ fault' = IF softc[s] # "ready" THEN "softc" ELSE "none"

\* timerclock wakes everything on lbolt, and clocksleep counts one second.
ltimer_irq(s) ==
    /\ irqfuncs[s] = "ltimer" /\ Served(s)
    /\ fault' = IF softc[s] # "ready" THEN "softc" ELSE "none"
    /\ lbolt' = IF dev["timerclock"] = s /\ lbolt > 0 THEN lbolt - 1 ELSE lbolt

\* lser_irq calls ls_input, which nothing has set before attach_con_to_lser
\* and which uses a semaphore that config_con makes.
lser_irq_called(s) ==
    /\ irqfuncs[s] = "lser" /\ Served(s) /\ UNCHANGED lbolt
    /\ \/ softc[s] \in {"console", "unlisted"} /\ UNCHANGED fault
       \/ softc[s] \notin {"console", "unlisted"} /\ fault' \in {"none", "callback"}

lamebus_interrupt_end ==
    /\ Running /\ lb_irq # NoBusIrq /\ Left = {}
    /\ duds' = IF lb_irq.duds = 0 THEN 0 ELSE duds
    /\ \/ lb_irq.duds = 0 /\ duds > 0 /\ Message
       \/ lb_irq.duds > 0 /\ duds > MAXDUDS /\ fault' = "toomany"
       \/ ~(lb_irq.duds = 0 /\ duds > 0) /\ ~(lb_irq.duds > 0 /\ duds > MAXDUDS) /\ UNCHANGED fault
    /\ lb_irq' = NoBusIrq
    /\ UNCHANGED <<part, card, line, irqe, table, strays, softc, boot, dev, nomem, lbolt, cpus, now, reading>>

\* A CPU with interrupts off prints: the console polls its port, masked.
lamebus_mask_interrupt ==
    /\ Running /\ strays < MaxStray /\ dev["con"] \in irqe
    /\ irqe' = irqe \ {dev["con"]} /\ strays' = strays + 1
    /\ UNCHANGED <<part, card, line, table, duds, softc, boot, dev, nomem, lb_irq, lbolt, fault, cpus, now, reading>>

lamebus_unmask_interrupt ==
    /\ Running /\ dev["con"] # NoSlot /\ dev["con"] \notin irqe /\ irqe' = irqe \cup {dev["con"]}
    /\ UNCHANGED <<part, card, line, table, duds, strays, softc, boot, dev, nomem, lb_irq, lbolt, fault, cpus, now, reading>>

\* A thread sleeps for SECS seconds.
clocksleep ==
    /\ Running /\ lb_irq = NoBusIrq /\ Booted /\ lbolt = 0 /\ lbolt' = SECS
    /\ UNCHANGED <<part, card, line, irqe, table, duds, strays, softc, boot, dev, nomem, lb_irq, fault, cpus, now, reading>>

Interrupts ==
    \/ lamebus_interrupt \/ lamebus_interrupt_end
    \/ \E s \in Slots : dud(s) \/ disk_irq(s) \/ ltimer_irq(s) \/ lser_irq_called(s)

-----------------------------------------------------------------------------
(* The CPUs: the boot CPU is number 0 and cpu_create numbers the others as *)
(* lamebus_find_cpus comes to them; lamebus_start_cpus counts them again,  *)
(* and the number it leaves for a CPU is the one cpu_hatch looks up.       *)
hwnum(mask) == SetToSortSeq(mask, <)

\* c_number of each CPU; allcpus already holds the boot CPU.
lamebus_find_cpus ==
    /\ part = "cpus" /\ cpus.number = <<>> /\ cpus.mask # {}
    /\ LET created == SelectSeq(hwnum(cpus.mask), LAMBDA i : i # cpus.self)
       IN cpus' = [cpus EXCEPT !.number = [i \in cpus.mask |-> IF i = cpus.self THEN 0 ELSE CHOOSE n \in 1..Len(created) : created[n] = i]]
    /\ UNCHANGED <<part, bus, now, reading>>

Skips_none(i) == FALSE
Skips(i) == i = cpus.self

\* cram[1] of each CPU: the count goes up for each CPU that is not skipped.
lamebus_start_cpus ==
    /\ part = "cpus" /\ cpus.number # <<>> /\ cpus.started = <<>>
    /\ cpus' = [cpus EXCEPT !.started =
                    [i \in {j \in cpus.mask : ~Skips(j)} |-> 1 + Cardinality({j \in cpus.mask : j < i /\ ~Skips(j)})]]
    /\ UNCHANGED <<part, bus, now, reading>>

-----------------------------------------------------------------------------
(* The time of day, read as seconds, nanoseconds and seconds again while   *)
(* the card's clock runs; the reader has interrupts off, so no more than   *)
(* DELAY ticks pass between two reads.                                     *)
Horizon == 3 * SECOND

tick(d) ==
    /\ part = "clock" /\ reading = <<>> /\ now + d <= Horizon /\ now' = now + d
    /\ UNCHANGED <<part, bus, cpus, reading>>

Reg(r, at) == CASE r = "sec" -> at \div SECOND [] r = "nsec" -> at % SECOND

\* One register read, d ticks after the last one.
ltimer_gettime(d) ==
    /\ part = "clock" /\ Len(reading) < 3 /\ (d > 0 => reading # <<>>)
    /\ now' = now + d
    /\ reading' = Append(reading, [at |-> now', val |-> Reg(IF Len(reading) = 1 THEN "nsec" ELSE "sec", now')])
    /\ UNCHANGED <<part, bus, cpus>>

gettime_secs_first == reading[1].val

\* The seconds that go with the nanoseconds read.
gettime_secs == IF reading[2].val < SMALL THEN reading[3].val ELSE reading[1].val

gettime_done ==
    /\ part = "clock" /\ Len(reading) = 3 /\ reading' = <<>>
    /\ now' = IF now > Horizon THEN 0 ELSE now
    /\ UNCHANGED <<part, bus, cpus>>

-----------------------------------------------------------------------------
BusNext ==
    \/ \E s \in Slots : raise(s)
    \/ autoconf_lamebus \/ Interrupts \/ clocksleep
    \/ lamebus_mask_interrupt \/ lamebus_unmask_interrupt
    \/ lamebus_find_cpus \/ lamebus_start_cpus
    \/ \E d \in 0..DELAY : tick(d) \/ ltimer_gettime(d)
    \/ gettime_done

BusSpec == BusInit /\ [][BusNext]_busvars

\* The boot CPU keeps running, a pending interrupt line is taken while
\* interrupts are on, and a timer that has been started goes off.
Fairness ==
    /\ WF_busvars(Interrupts) /\ WF_busvars(autoconf_lamebus) /\ WF_busvars(lamebus_unmask_interrupt)
    /\ \A s \in Slots : WF_busvars(card[s] = "ltimer" /\ raise(s))

BusFairSpec == BusSpec /\ Fairness
-----------------------------------------------------------------------------
BusTypeOK ==
    /\ line \subseteq Slots /\ irqe \subseteq Slots /\ slotsinuse \subseteq Slots
    /\ \A s \in Slots : irqfuncs[s] \in Interrupting \cup {"null"}
    /\ lbolt \in 0..SECS /\ nomem \in 0..MaxNoMem /\ strays \in 0..MaxStray

\* Interrupts are on while devices are probed, yet no handler finds a softc
\* that its config function has not filled in, and no slot is taken twice.
\* What can go wrong is confined: an unset callback of a serial port is
\* called only if the port is not the console's; the dispatcher takes its own
\* spinlock only after an interrupt without a handler; an assertion of a
\* config function fails only after memory has run out.
BootIsSafe ==
    /\ fault \notin {"mark", "hook", "softc"}
    /\ fault = "callback" => \E s \in Slots : card[s] = "lser" /\ softc[s] # "console"
    /\ fault = "spinlock" => strays > 0 \/ \E s \in Slots : card[s] = "foreign" \/ irqfuncs[s] = "null"
    /\ fault = "assert" => nomem > 0

\* The last slot, if it has a handler, does not wait for ever, whatever the
\* slots before it do and however often they interrupt: one pass of
\* lamebus_interrupt goes through all of them.  And a thread in clocksleep
\* wakes if there is a timer.
BusAnswers ==
    /\ LET s == Max(Slots)
       IN (s \in line /\ irqfuncs[s] # "null") ~> (s \notin line \/ fault # "none")
    /\ (lbolt > 0 /\ dev["timerclock"] # NoSlot) ~> (lbolt = 0 \/ fault # "none")

\* The number a CPU is started with is the one under which cpu_create put it
\* in allcpus; no two CPUs have the same.
CpusNumbered ==
    cpus.started # <<>> =>
        /\ DOMAIN cpus.started = cpus.mask \ {cpus.self}
        /\ \A i \in DOMAIN cpus.started : cpus.started[i] = cpus.number[i]

\* gettime returns a time the clock showed between its first and last read,
\* also when the second turns over among the three reads.
TimeIsRight ==
    Len(reading) = 3 => gettime_secs * SECOND + reading[2].val = reading[2].at

\* (Not the case.)  No keystroke during boot reaches an unset callback.
CallbackSet == fault # "callback"

\* (Not the case.)  A stray interrupt is reported, and the kernel goes on.
StraysReported == fault # "spinlock"
=============================================================================
