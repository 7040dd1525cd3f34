----------------------------- MODULE FloppyDisk -----------------------------
(***************************************************************************)
(* The command protocol of the floppy driver                               *)
(* (src/src/kernel/drivers/disk/floppy/floppy.cpp): command and parameter  *)
(* bytes, the wait for IRQ6 with its timeout, result bytes, retries, drive *)
(* and motor selection, between the calls of kernel.cpp and a controller   *)
(* that moves on its own.  What the bytes say is left out; which sectors a *)
(* read delivers is the subject of FloppyRead.                             *)
(*                                                                         *)
(* The controller is external and does what the driver expects of one: a   *)
(* byte written while it is idle is a command, a byte written while it     *)
(* waits for parameters is a parameter, and a byte read when it has no     *)
(* result to give is garbage.                                              *)
(***************************************************************************)
EXTENDS Integers, Sequences

CONSTANTS Drives,        \* the drives callers pass, invalid ones included
          COMMAND_ATTEMPT_COUNT,
          TIMEOUT_TIME   \* ticks until wait_for_irq gives up, 3000 in the code

ASSUME FloppyAssumption ==
  /\ Drives \subseteq Nat /\ 0 \in Drives
  /\ COMMAND_ATTEMPT_COUNT \in Nat \ {0}
  /\ TIMEOUT_TIME \in Nat /\ TIMEOUT_TIME > 2

VARIABLES
  currentDrive, diskMotorOn,  \* s_floppyState ...
  waitingForIRQ,              \* ... and the flag the handler resets
  todo,       \* what is left of the driver function that was called
  pc,         \* how far send_command or wait_for_irq is
  index,      \* bytes of the current phase already transferred
  attempt,    \* i of execute_command's loop
  elapsed,    \* PIT::get_ticks() - start in wait_for_irq, up to TIMEOUT_TIME
  ran,        \* has wait_for_irq made a step since the last tick?
  outcome,    \* of the function called: "busy", "ok" or the error
  genuine,    \* history: every result byte read was one the controller gave
  phase,      \* the controller: "idle", "command", "execute", "result", "reset"
  left,       \* bytes it still takes or gives in this phase
  fdcCommand, \* the command it works on
  ready,      \* RQM of the main status register
  seeking,    \* a drive moves its heads
  rqm,        \* how soon the controller is ready for the next byte
  answers,    \* is every IRQ6 handled two ticks before the timeout?
  irq,        \* IRQ6 is latched
  dor         \* the digital output register: drive and running motors

drives == <<currentDrive, diskMotorOn, dor>>
timing == <<rqm, answers>>
steady == <<drives, timing>>   \* what most steps leave alone
clock == <<elapsed, ran>>
progress == <<todo, index, attempt, clock, outcome>>
fdc == <<phase, left, fdcCommand, ready, seeking>>
vars == <<steady, waitingForIRQ, progress, pc, genuine, fdc, irq>>

Command == {"VERSION", "CONFIGURE", "LOCK", "SPECIFY", "RECALIBRATE",
            "SENSE_INTERRUPT", "READ_DATA"}

\* Mutant: the byte with the drive is not counted.
get_parameter_count_OneShort(c) ==
  CASE c = "READ_DATA" -> 7 [] c = "CONFIGURE" -> 3 [] c = "SPECIFY" -> 2
    [] c = "RECALIBRATE" -> 1 [] OTHER -> 0

get_parameter_count(c) ==
  CASE c = "READ_DATA" -> 8 [] c = "CONFIGURE" -> 3 [] c = "SPECIFY" -> 2
    [] c = "RECALIBRATE" -> 1 [] OTHER -> 0

get_result_byte_count(c) ==
  CASE c = "READ_DATA" -> 7 [] c = "SENSE_INTERRUPT" -> 2
    [] c \in {"LOCK", "VERSION"} -> 1 [] OTHER -> 0

\* Mutant: a command is missing from the list, as the TODO behind it fears.
command_has_interrupt_Short(c) == c = "READ_DATA"

command_has_interrupt(c) == c \in {"READ_DATA", "RECALIBRATE"}

\* What the controller takes and gives for a command.
Takes(c) == CASE c = "READ_DATA" -> 8 [] c = "CONFIGURE" -> 3
              [] c = "SPECIFY" -> 2 [] c = "RECALIBRATE" -> 1 [] OTHER -> 0
Gives(c) == CASE c = "READ_DATA" -> 7 [] c = "SENSE_INTERRUPT" -> 2
              [] c \in {"LOCK", "VERSION", "INVALID"} -> 1 [] OTHER -> 0

\* The steps a driver function consists of.
Run(c) == [do |-> "command", command |-> c]
CheckVersion == [do |-> "check_version"]
Reset == [do |-> "reset"]
Select(d, m) == [do |-> "select", drive |-> d, motorOn |-> m]
Commit(d, m) == [do |-> "commit", drive |-> d, motorOn |-> m]

reset(d, m) == <<Reset, Select(d, m)>>
read_cylinder(d) == <<Select(d, TRUE), Run("READ_DATA")>>
initialize == <<Run("VERSION"), CheckVersion, Run("CONFIGURE"), Run("LOCK")>>
              \o reset(0, TRUE)
              \o <<Run("VERSION"), Run("RECALIBRATE"), Run("SENSE_INTERRUPT")>>

\* A controller is ready for the next byte at the driver's next access, as an
\* emulated one is, or before read_msr_until_rqm gives up, or at any time.
Readiness == {"instant", "polled", "late"}

-----------------------------------------------------------------------------
\* The BIOS left drive 0 selected, its motor still on or not.
Init == /\ currentDrive = 0
        /\ diskMotorOn = [d \in Drives \cap 0 .. 3 |-> FALSE]
        /\ dor \in [drive : {0}, motors : SUBSET {0}]
        /\ waitingForIRQ = FALSE
        /\ todo = initialize /\ pc = "next" /\ outcome = "busy"
        /\ index = 0 /\ attempt = 0 /\ elapsed = 0 /\ ran = TRUE
        /\ genuine = TRUE
        /\ rqm \in Readiness /\ answers \in BOOLEAN
        /\ phase = "idle" /\ left = 0 /\ fdcCommand = "VERSION"
        /\ ready = TRUE /\ seeking = FALSE /\ irq = FALSE

(* The controller.                                                         *)

\* All parameters are there: the command is executed, answered or done.
Begins(c) ==
  /\ phase' = IF c = "READ_DATA" THEN "execute"
              ELSE IF Gives(c) > 0 THEN "result" ELSE "idle"
  /\ left' = IF phase' = "result" THEN Gives(c) ELSE 0
  /\ seeking' = (seeking \/ c = "RECALIBRATE")
  /\ fdcCommand' = c

\* A byte is written: a parameter of the command it works on, or command c.
TakesByte(c) ==
  /\ ready' = FALSE
  /\ IF phase = "command"
     THEN IF left = 1 THEN Begins(fdcCommand)
          ELSE left' = left - 1 /\ UNCHANGED <<phase, fdcCommand, seeking>>
     ELSE IF Takes(c) = 0 THEN Begins(c)
          ELSE /\ phase' = "command" /\ left' = Takes(c) /\ fdcCommand' = c
               /\ UNCHANGED seeking

\* A byte is read: the next result byte, or garbage.
GivesByte ==
  IF phase = "result" /\ ready
  THEN /\ ready' = FALSE
       /\ left' = left - 1
       /\ phase' = IF left = 1 THEN "idle" ELSE phase
       /\ UNCHANGED <<genuine, fdcCommand, seeking>>
  ELSE genuine' = FALSE /\ UNCHANGED fdc

BecomesReady ==
  /\ ~ready /\ phase \in {"idle", "command", "result"}
  /\ ready' = TRUE
  /\ UNCHANGED <<steady, waitingForIRQ, progress, pc, genuine, irq>>
  /\ UNCHANGED <<phase, left, fdcCommand, seeking>>

\* The end of a read, of a movement of the heads, or of a reset raises IRQ6.
Finishes ==
  /\ \/ /\ phase = "execute"
        /\ phase' = "result" /\ left' = Gives(fdcCommand) /\ ready' = TRUE
        /\ UNCHANGED seeking
     \/ /\ seeking /\ seeking' = FALSE
        /\ UNCHANGED <<phase, left, ready>>
     \/ /\ phase = "reset"
        /\ phase' = "idle" /\ ready' = TRUE
        /\ UNCHANGED <<left, seeking>>
  /\ irq' = TRUE
  /\ UNCHANGED <<steady, waitingForIRQ, progress, pc, genuine, fdcCommand>>

\* IRQ6 still has to come.
Working == phase \in {"execute", "reset"} \/ seeking

-----------------------------------------------------------------------------
(* The functions of the driver, item by item.                              *)

Doing(item) == pc = "next" /\ todo # << >> /\ Head(todo).do = item

GoesTo(label) == pc' = label /\ index' = 0 /\ elapsed' = 0 /\ ran' = TRUE

\* An error ends the function; kernel_main stops at every error.
Fails(error) == /\ todo' = << >> /\ outcome' = error /\ attempt' = 0
                /\ GoesTo("next")

\* kernel_main calls the driver, which is initialized.
Calls(items) ==
  /\ outcome = "ok"
  /\ todo' = items /\ outcome' = "busy"
  /\ UNCHANGED <<steady, waitingForIRQ, index, attempt, clock, pc,
                 genuine, fdc, irq>>

returns ==
  /\ pc = "next" /\ todo = << >> /\ outcome = "busy"
  /\ outcome' = "ok"
  /\ UNCHANGED <<steady, waitingForIRQ, todo, index, attempt, clock,
                 pc, genuine, fdc, irq>>

\* ASSERT(s_resultBytes[0] == 0x90): it is the expected controller, or another.
check_version ==
  /\ Doing("check_version")
  /\ \/ todo' = Tail(todo) /\ UNCHANGED <<index, attempt, clock, outcome, pc>>
     \/ Fails("NOT_IMPLEMENTED")
  /\ UNCHANGED <<steady, waitingForIRQ, genuine, fdc, irq>>

\* Mutant: the flag is not set.
reset_flag_Missing ==
  /\ Doing("reset")
  /\ GoesTo("reset")
  /\ UNCHANGED waitingForIRQ
  /\ UNCHANGED <<steady, todo, attempt, outcome, genuine, fdc, irq>>

\* reset: the flag is set before the write that resets the controller.
reset_flag ==
  /\ Doing("reset")
  /\ GoesTo("reset")
  /\ waitingForIRQ' = TRUE
  /\ UNCHANGED <<steady, todo, attempt, outcome, genuine, fdc, irq>>

reset_write ==
  /\ pc = "reset"
  /\ phase' = "reset" /\ left' = 0 /\ ready' = FALSE /\ seeking' = FALSE
  /\ GoesTo("wait")
  /\ UNCHANGED <<steady, waitingForIRQ, todo, attempt, outcome, genuine,
                 fdcCommand, irq>>

\* select_drive: parameters are specified for a drive other than the current.
select_drive ==
  /\ Doing("select")
  /\ LET d == Head(todo).drive
     IN IF d >= 4
        THEN Fails("INDEX_OUT_OF_RANGE")
        ELSE /\ todo' = (IF currentDrive # d THEN <<Run("SPECIFY")>> ELSE << >>)
                          \o <<Commit(d, Head(todo).motorOn)>> \o Tail(todo)
             /\ UNCHANGED <<index, attempt, clock, outcome, pc>>
  /\ UNCHANGED <<steady, waitingForIRQ, genuine, fdc, irq>>

\* Mutant: only the flag of the motor is looked at.
WritesDor_MotorOnly(d, m) == diskMotorOn[d] # m

WritesDor(d, m) == currentDrive # d \/ diskMotorOn[d] # m

\* One write selects the drive, sets its motor and turns all others off; then
\* the driver sleeps while the disk spins up.
select_drive_commit ==
  /\ Doing("commit")
  /\ LET d == Head(todo).drive
         m == Head(todo).motorOn
     IN /\ dor' = IF WritesDor(d, m)
                  THEN [drive |-> d, motors |-> IF m THEN {d} ELSE {}]
                  ELSE dor
        /\ currentDrive' = d
        /\ diskMotorOn' = [diskMotorOn EXCEPT ![d] = m]
  /\ todo' = Tail(todo)
  /\ UNCHANGED <<timing, waitingForIRQ, index, attempt, clock, outcome, pc,
                 genuine, fdc, irq>>

-----------------------------------------------------------------------------
(* execute_command and send_command.                                       *)

Sent == Head(todo).command

execute_command ==
  /\ Doing("command")
  /\ GoesTo("command")
  /\ genuine' = TRUE
  /\ UNCHANGED <<steady, waitingForIRQ, todo, attempt, outcome, fdc, irq>>

attempt_succeeds ==
  /\ pc = "success"
  /\ todo' = Tail(todo) /\ attempt' = 0
  /\ GoesTo("next")
  /\ UNCHANGED <<steady, waitingForIRQ, outcome, genuine, fdc, irq>>

\* send_command failed: execute_command calls it again, or gives up.
attempt_fails ==
  /\ pc = "failed"
  /\ IF attempt + 1 < COMMAND_ATTEMPT_COUNT
     THEN attempt' = attempt + 1 /\ GoesTo("command") /\ UNCHANGED <<todo, outcome>>
     ELSE Fails("TIMED_OUT")
  /\ genuine' = TRUE
  /\ UNCHANGED <<steady, waitingForIRQ, fdc, irq>>

\* An instant controller is ready before the driver looks.
Looks == rqm = "instant" => ready \/ phase \in {"execute", "reset"}

\* read_msr_until_rqm gives up.  A controller that is ready in time makes it do
\* so only while it executes.
PollFails == ~ready /\ (rqm = "late" \/ phase \in {"execute", "reset"})

\* RQM = 1 and DIO = 0; the busy bit is not looked at.
AcceptsByte == ready /\ phase \in {"idle", "command"}

\* The command byte, if the status register allows it at this moment.
send_command_byte ==
  /\ pc = "command" /\ Looks
  /\ IF AcceptsByte THEN GoesTo("flag") /\ TakesByte(Sent)
                    ELSE GoesTo("failed") /\ UNCHANGED fdc
  /\ UNCHANGED <<steady, waitingForIRQ, todo, attempt, outcome, genuine, irq>>

\* The flag is set before the parameters that start the execution.
send_command_flag ==
  /\ pc = "flag"
  /\ waitingForIRQ' = (waitingForIRQ \/ command_has_interrupt(Sent))
  /\ GoesTo("parameters")
  /\ UNCHANGED <<steady, todo, attempt, outcome, genuine, fdc, irq>>

\* The next parameter byte.  A controller that expects a command by now takes
\* it for one.
send_parameter ==
  /\ pc = "parameters" /\ index < get_parameter_count(Sent) /\ Looks
  /\ AcceptsByte
  /\ \E c \in IF phase = "idle" THEN Command \cup {"INVALID"} ELSE {"INVALID"} :
       TakesByte(c)
  /\ index' = index + 1
  /\ UNCHANGED <<steady, waitingForIRQ, todo, attempt, clock, outcome,
                 pc, genuine, irq>>

send_parameter_fails ==
  /\ pc = "parameters" /\ index < get_parameter_count(Sent) /\ Looks
  /\ PollFails \/ (ready /\ ~AcceptsByte)
  /\ GoesTo("failed")
  /\ UNCHANGED <<steady, waitingForIRQ, todo, attempt, outcome, genuine,
                 fdc, irq>>

parameters_sent ==
  /\ pc = "parameters" /\ index = get_parameter_count(Sent)
  /\ GoesTo(IF command_has_interrupt(Sent) THEN "wait" ELSE "results")
  /\ UNCHANGED <<steady, waitingForIRQ, todo, attempt, outcome, genuine,
                 fdc, irq>>

\* Mutant: the status behind the last byte is not checked.
EndsInStep_Unchecked == TRUE

\* (msr & 0x50) == 0x00, behind the last result byte.
EndsInStep == phase = "idle"

no_results ==
  /\ pc = "results" /\ get_result_byte_count(Sent) = 0
  /\ GoesTo("success")
  /\ UNCHANGED <<steady, waitingForIRQ, todo, attempt, outcome, genuine,
                 fdc, irq>>

\* The data register is read without a look at the status before.
receive_result ==
  /\ pc = "results" /\ index < get_result_byte_count(Sent) /\ Looks
  /\ GivesByte
  /\ index' = index + 1
  /\ pc' = "check"
  /\ UNCHANGED <<steady, waitingForIRQ, todo, attempt, clock, outcome, irq>>

\* The status behind it must say whether there are more.
check_result ==
  /\ pc = "check" /\ Looks
  /\ ready \/ PollFails
  /\ IF index < get_result_byte_count(Sent)
     THEN IF ready /\ phase = "result"
          THEN pc' = "results" /\ UNCHANGED <<index, clock>>
          ELSE GoesTo("failed")
     ELSE GoesTo(IF ready /\ EndsInStep THEN "success" ELSE "failed")
  /\ UNCHANGED <<steady, waitingForIRQ, todo, attempt, outcome, genuine,
                 fdc, irq>>

-----------------------------------------------------------------------------
(* wait_for_irq: the time is compared, then the flag is tested, then hlt;  *)
(* a tick or IRQ6 comes before, between or behind any of these steps.      *)

Waiting == pc \in {"wait", "testing", "halting", "halted"}

\* The next step of the loop.
WaitGoesOn(from, to) == pc = from /\ pc' = to /\ ran' = TRUE

\* Mutant: the start is read again in every round of the loop.
time_left_Restarts ==
  /\ elapsed < TIMEOUT_TIME
  /\ WaitGoesOn("wait", "testing")
  /\ elapsed' = 0
  /\ UNCHANGED <<steady, waitingForIRQ, todo, index, attempt, outcome,
                 genuine, fdc, irq>>

\* get_ticks() - start < TIMEOUT_TIME
time_left ==
  /\ elapsed < TIMEOUT_TIME
  /\ WaitGoesOn("wait", "testing")
  /\ UNCHANGED <<steady, waitingForIRQ, todo, index, attempt, elapsed, outcome,
                 genuine, fdc, irq>>

Resetting == todo # << >> /\ Head(todo).do = "reset"

irq_seen ==
  /\ pc = "testing" /\ ~waitingForIRQ
  /\ IF Resetting THEN GoesTo("next") /\ todo' = Tail(todo)
                  ELSE GoesTo("results") /\ UNCHANGED todo
  /\ UNCHANGED <<steady, waitingForIRQ, attempt, outcome, genuine, fdc, irq>>

irq_not_seen ==
  /\ waitingForIRQ
  /\ WaitGoesOn("testing", "halting")
  /\ UNCHANGED <<steady, waitingForIRQ, todo, index, attempt, elapsed, outcome,
                 genuine, fdc, irq>>

\* An interrupt between the test and hlt does not end the hlt.
KERNEL_HALT ==
  /\ WaitGoesOn("halting", "halted")
  /\ UNCHANGED <<steady, waitingForIRQ, todo, index, attempt, elapsed, outcome,
                 genuine, fdc, irq>>

wait_times_out ==
  /\ pc = "wait" /\ elapsed >= TIMEOUT_TIME
  /\ IF Resetting THEN Fails("TIMED_OUT")
                  ELSE GoesTo("failed") /\ UNCHANGED <<todo, outcome, attempt>>
  /\ UNCHANGED <<steady, waitingForIRQ, genuine, fdc, irq>>

\* An interrupt ends hlt and nothing else.
Resumes == IF pc = "halted" THEN "wait" ELSE pc

\* The timer interrupt; the loop makes at least one step in the millisecond
\* between two of them.  A controller that answers has its IRQ6 handled while
\* two more ticks are left: an IRQ6 just before hlt is seen two ticks later, if
\* the first of them comes before hlt, too.
Tick ==
  /\ Waiting /\ ran
  /\ answers /\ (Working \/ irq) => elapsed + 1 + 2 < TIMEOUT_TIME
  /\ elapsed' = IF elapsed < TIMEOUT_TIME THEN elapsed + 1 ELSE elapsed
  /\ ran' = FALSE
  /\ pc' = Resumes
  /\ UNCHANGED <<steady, waitingForIRQ, todo, index, attempt, outcome,
                 genuine, fdc, irq>>

\* IRQ6: the flag is reset, whatever the interrupt was raised for.
floppy_handler ==
  /\ irq
  /\ irq' = FALSE
  /\ waitingForIRQ' = FALSE
  /\ pc' = Resumes
  /\ UNCHANGED <<steady, progress, genuine, fdc>>

Driver == \/ returns \/ check_version \/ reset_flag \/ reset_write
          \/ select_drive \/ select_drive_commit
          \/ execute_command \/ attempt_succeeds \/ attempt_fails
          \/ send_command_byte \/ send_command_flag
          \/ send_parameter \/ send_parameter_fails \/ parameters_sent
          \/ no_results \/ receive_result \/ check_result
          \/ time_left \/ irq_seen \/ irq_not_seen \/ KERNEL_HALT
          \/ wait_times_out

Next == \/ Driver
        \/ \E d \in Drives : Calls(read_cylinder(d))
        \/ \E d \in Drives, m \in BOOLEAN : Calls(reset(d, m))
        \/ BecomesReady \/ Finishes
        \/ Tick \/ floppy_handler

\* The CPU executes, takes interrupts, and the timer ticks.  The controller is
\* fair only as far as it is in time.
Spec == /\ Init /\ [][Next]_vars
        /\ WF_vars(Driver) /\ WF_vars(Tick) /\ WF_vars(floppy_handler)
        /\ WF_vars(rqm # "late" /\ BecomesReady)
        /\ WF_vars(answers /\ Finishes)

-----------------------------------------------------------------------------
\* The assumptions under which the properties below are claimed.
InTime == rqm = "instant" /\ answers
PollsSuffice == rqm # "late"

\* No command times out if its IRQ6 is handled while two more ticks are left,
\* wherever it falls between setting the flag, comparing the time, testing the
\* flag and hlt.  (Between the test and hlt the wake-up is lost: the flag is
\* tested again behind the next tick, which may itself come before hlt.  Later
\* than that the loop may give up although the flag is reset.)
InTimeSucceeds == InTime => outcome # "TIMED_OUT"

\* When execute_command returns without an error, a controller that answers in
\* time has finished what the command started: its interrupt is not left for a later command.
SuccessMeansDone == InTime /\ pc = "success" => ~Working /\ ~irq

\* When a command that has results succeeded, each of its result bytes is one
\* the controller gave, and none is left, although the first byte is read
\* without a look at the status register and IRQ6 may be late or an older one.
ResultsGenuine ==
  PollsSuffice /\ pc = "success" /\ get_result_byte_count(Sent) > 0 => genuine /\ phase = "idle"

\* Driver and controller agree on the command, and on how many of its
\* parameters have been sent, also in a retry after IRQ6 came too late.  (A poll
\* that gives up between two parameters would break this: the retry's command
\* byte then is a parameter for the controller, which is still waiting for one.)
InStep ==
  PollsSuffice /\ pc = "parameters" /\ index < get_parameter_count(Sent) =>
    /\ phase = "command"
    /\ fdcCommand = Sent
    /\ left = get_parameter_count(Sent) - index

\* When a function has returned without an error, the drive the driver takes for
\* the current one is selected and its motor is in the state noted, although the
\* notes about the other drives are not kept right.
SelectedMotorRight ==
  outcome = "ok" => /\ dor.drive = currentDrive
                    /\ currentDrive \in dor.motors <=> diskMotorOn[currentDrive]

\* Every call returns, also when the controller never answers: all waits and
\* retries are bounded, and the timer ends every hlt.
CallsReturn == outcome = "busy" ~> outcome # "busy"
=============================================================================
