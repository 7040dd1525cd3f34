----------------------------- MODULE Interrupts -----------------------------
(***************************************************************************)
(* Delivery and acknowledgement of hardware interrupts: the two cascaded   *)
(* 8259 controllers as interrupts/pic.cpp programs them, the dispatch set  *)
(* up in kernel.cpp and interrupts/idt.cpp, and the end-of-interrupt each  *)
(* handler sends.  Every gate is an interrupt gate, so handlers do not     *)
(* nest.                                                                   *)
(*                                                                         *)
(* Requests 0 to 7 are the master's lines, 8 to 15 the slave's, whose      *)
(* output is the master's line 2.                                          *)
(***************************************************************************)
EXTENDS Integers, FiniteSets

CONSTANTS Devices,  \* the request lines that devices use
          Masked    \* the masks the BIOS left, which initialize restores

ASSUME LinesAssumption == /\ Devices \subseteq 0 .. 15 \ {2}
                          /\ Masked \subseteq 0 .. 15

TimerLine == 0
Main == -1   \* no line: the main loop runs

VARIABLES irr,        \* requests latched in either controller
          isr,        \* lines in service in either controller
          IF_flag,    \* the CPU's interrupt flag
          cpu,        \* Main, or the vector whose handler runs
          recent      \* the lines served since main last ran

vars == <<irr, isr, IF_flag, cpu, recent>>

MasterLines == 0 .. 7
SlaveLines == 8 .. 15

\* PIC1_VECTOR_OFFSET and PIC2_VECTOR_OFFSET, written by PIC::initialize.
vector(n) == IF n \in MasterLines THEN 32 + n ELSE 40 + (n - 8)

Init == /\ irr = {} /\ isr = {}
        /\ IF_flag = FALSE
        /\ cpu = Main
        /\ recent = {}

-----------------------------------------------------------------------------
(* The controllers.                                                        *)

\* The line that has priority over all others of a set: the lowest.
Highest(S) == CHOOSE n \in S : \A m \in S : n <= m

\* What a controller asks for: its first unmasked request, unless a line of the
\* same or a higher priority is in service.
Asks(lines) ==
  LET requests == (irr \cap lines) \ Masked
      serving  == isr \cap lines
  IN {n \in requests : /\ \A m \in requests : n <= m
                       /\ \A m \in serving : n < m}

\* The request the CPU is given: the slave's goes through the master's line 2.
Delivered ==
  LET slave == IF 2 \in Masked \/ \E m \in isr \cap MasterLines : m <= 2
               THEN {} ELSE Asks(SlaveLines)
      master == Asks(MasterLines)
  IN IF \E n \in master : n < 2 THEN master
     ELSE IF slave # {} THEN slave
     ELSE master

\* A device raises its line.  Its next request comes after the main loop has
\* run again: handlers are short compared with the period of any device.
Raise(n) ==
  /\ n \in Devices \ irr
  /\ n \notin recent
  /\ irr' = irr \cup {n}
  /\ UNCHANGED <<isr, IF_flag, cpu, recent>>

\* The controllers put the line in service, the master also its line 2 for a
\* line of the slave, and the interrupt gate clears IF.
Deliver(n) ==
  /\ cpu = Main /\ IF_flag
  /\ n \in Delivered
  /\ irr' = irr \ {n}
  /\ isr' = isr \cup {n} \cup (IF n \in SlaveLines THEN {2} ELSE {})
  /\ IF_flag' = FALSE
  /\ cpu' = vector(n)
  /\ recent' = recent \cup {n}

\* A non-specific end of interrupt takes the controller's first line in service
\* out of service.
Acknowledge(inService, lines) ==
  IF inService \cap lines = {} THEN inService
                               ELSE inService \ {Highest(inService \cap lines)}

-----------------------------------------------------------------------------
(* The kernel.                                                             *)

\* kernel_main enables interrupts once the devices are initialised.
enable_interrupts ==
  /\ cpu = Main /\ ~IF_flag
  /\ IF_flag' = TRUE
  /\ UNCHANGED <<irr, isr, cpu, recent>>

\* Mutant: the timer passes its line.
eoi_argument_Line(v) == IF v = 33 THEN 33 ELSE 0

\* What the handler that the IDT holds for a vector passes to
\* send_end_of_interrupt: the timer's and the keyboard's pass their vectors,
\* the floppy's and the one for everything else pass 0.
eoi_argument(v) == CASE v = 32 -> 32
                     [] v = 33 -> 33
                     [] OTHER  -> 0

\* Mutant: for a line of the slave, only the slave is told.
send_end_of_interrupt_One(t_irq) ==
  Acknowledge(isr, IF t_irq >= 8 THEN SlaveLines ELSE MasterLines)

send_end_of_interrupt(t_irq) ==
  Acknowledge(IF t_irq >= 8 THEN Acknowledge(isr, SlaveLines) ELSE isr, MasterLines)

\* The handler acknowledges and returns, which restores IF.
handler(n) ==
  /\ cpu = vector(n)
  /\ isr' = send_end_of_interrupt(eoi_argument(vector(n)))
  /\ IF_flag' = TRUE
  /\ cpu' = Main
  /\ UNCHANGED <<irr, recent>>

\* The main loop executes instructions when no interrupt is due.
Run ==
  /\ cpu = Main /\ IF_flag
  /\ Delivered = {}
  /\ recent # {}
  /\ recent' = {}
  /\ UNCHANGED <<irr, isr, IF_flag, cpu>>

Next == \/ \E n \in Devices : Raise(n) \/ Deliver(n) \/ handler(n)
        \/ enable_interrupts
        \/ Run

\* The CPU executes, and the timer never stops.
Spec == /\ Init /\ [][Next]_vars
        /\ WF_vars(\E n \in Devices : Deliver(n))
        /\ WF_vars(\E n \in Devices : handler(n))
        /\ WF_vars(enable_interrupts)
        /\ WF_vars(Run)
        /\ WF_vars(Raise(TimerLine))

-----------------------------------------------------------------------------
TypeOK == /\ irr \subseteq Devices
          /\ isr \subseteq Devices \cup {2}
          /\ IF_flag \in BOOLEAN
          /\ cpu \in {Main} \cup 32 .. 47
          /\ recent \subseteq Devices

\* Whatever argument a handler passes to send_end_of_interrupt, the master has
\* nothing in service when no handler runs, so that none of its lines is locked
\* out, the one the slave is connected to included.
MasterAcknowledged == cpu = Main => isr \cap MasterLines = {}

\* The lines no other line of the slave comes before.  A later one can starve:
\* what frees the slave is the timer's acknowledgement, and at that moment the
\* first line may have its next request ready, and is left in service again.
NotOvertaken == {n \in Devices \ Masked :
                   n \in SlaveLines =>
                     ~\E m \in Devices \cap SlaveLines : m < n}

\* Every request of such a line is served eventually, although the handler for
\* everything else leaves the slave's lines in service: the timer's handler
\* passes an argument that acknowledges the slave, too.
RequestsServed == \A n \in NotOvertaken : n \in irr ~> n \notin irr
=============================================================================
