----------------------------- MODULE MCDevices -----------------------------
(***************************************************************************)
(* Two drivers that are woken by interrupts, the console (Console) and the *)
(* disk (Lhd), and the bus that finds the cards and hands out their        *)
(* interrupts (Bus), each in behaviours of its own.                        *)
(***************************************************************************)
EXTENDS Console, Lhd, Bus

VARIABLE model

ASSUME BusAssumption

allvars == <<model, vars, diskvars, busvars>>

\* What is on the disk, and in the slots, makes no difference to the others.
MCInit ==
    /\ model \in {"console", "disk", "bus"} /\ Init /\ DiskInit /\ BusInit
    /\ LET s == CHOOSE x \in Sectors : TRUE
           v == CHOOSE x \in Values : TRUE
       IN  model # "disk" => sect = s /\ buf = v /\ \A x \in Sectors : disk[x] = v
    /\ model # "bus" => part = "clock"

OfConsole(A) == model = "console" /\ A /\ UNCHANGED <<model, diskvars, busvars>>
OfDisk(A) == model = "disk" /\ A /\ UNCHANGED <<model, vars, busvars>>
OfBus(A) == model = "bus" /\ A /\ UNCHANGED <<model, vars, diskvars>>

\* The bus may come to rest: all is set up and no card interrupts.
MCNext == OfConsole(Next) \/ OfDisk(DiskNext) \/ OfBus(BusNext) \/ OfBus(UNCHANGED busvars)

\* The fairness of Console!FairSpec, DiskFairSpec and BusFairSpec.
MCSpec ==
    /\ MCInit /\ [][MCNext]_allvars
    /\ WF_allvars(OfDisk(Card)) /\ WF_allvars(OfDisk(lhd_irq))
    /\ \A t \in Threads :
        /\ WF_allvars(OfDisk(lhd_io(t))) /\ WF_allvars(OfDisk(lhd_io_done(t)))
        /\ WF_allvars(OfDisk(Return(t)))
    /\ WF_allvars(OfConsole(PortDone)) /\ WF_allvars(OfConsole(Handler))
    /\ \A t \in Writers : WF_allvars(OfConsole(lser_write(t)))
    /\ \A t \in Pollers : WF_allvars(OfConsole(poll_ready(t) \/ poll_done(t)))
    /\ WF_allvars(OfBus(Interrupts)) /\ WF_allvars(OfBus(autoconf_lamebus))
    /\ WF_allvars(OfBus(lamebus_unmask_interrupt))
    /\ \A s \in Slots : WF_allvars(OfBus(card[s] = "ltimer" /\ raise(s)))

\* Interrupts are on while autoconf_lamebus probes, yet no handler runs on a
\* structure that is not set up and no slot is marked twice; lamebus_find_cpus
\* starts every other CPU under the number cpu_create gave it; ltimer_gettime
\* returns a time the clock showed.
BusSound == BusTypeOK /\ BootIsSafe /\ CpusNumbered /\ TimeIsRight

\* An I/O that was started on the card ends (the threads are alike: one stands
\* for all); after a character was sent the permission to send the next one
\* comes; a slot that interrupts is served whatever lower slots do; and
\* clocksleep ends: no interrupt is lost.
DevicesAnswer == IoEnds(CHOOSE t \in Threads : TRUE) /\ OutputResumes /\ BusAnswers
=============================================================================
