-------------------------- MODULE FloppyDiskProofs --------------------------
(***************************************************************************)
(* What a call of the floppy driver may rely on, for any set of drives,    *)
(* any number of attempts and any timeout: proofs of the invariants of     *)
(* module FloppyDisk.                                                      *)
(*                                                                         *)
(* Step says how many bytes of the command the controller still takes or   *)
(* gives, seen from where the driver is; it holds as long as no poll gives *)
(* up between two parameters.  It makes the last look at the status        *)
(* register count: a result byte read too early leaves one too many.       *)
(* Timely adds where IRQ6 is, if the controller is in time: on its way,    *)
(* latched or handled, from the byte that starts a command to the test of  *)
(* the flag, and nowhere else; and how many ticks are left at each step of *)
(* the wait.                                                               *)
(***************************************************************************)
EXTENDS FloppyDisk, SequenceTheorems, TLAPS

-----------------------------------------------------------------------------
(* The invariants.                                                         *)

ValidDrives == Drives \cap 0 .. 3

Item == [do : {"command"}, command : Command] \cup {CheckVersion, Reset}
        \cup [do : {"select"}, drive : Drives, motorOn : BOOLEAN]
        \cup [do : {"commit"}, drive : ValidDrives, motorOn : BOOLEAN]

Within(item) == todo # << >> /\ Head(todo).do = item

\* Where the driver is says what it works on.
Control ==
  /\ todo \in Seq(Item)
  /\ outcome # "busy" => todo = << >> /\ pc = "next"
  /\ pc \in {"next", "reset", "wait", "testing", "halting", "halted", "command",
             "flag", "parameters", "results", "check", "success", "failed"}
  /\ pc \in {"command", "flag", "parameters", "results", "check", "success", "failed"}
       => Within("command")
  /\ pc = "reset" => Within("reset")
  /\ Waiting
       => Within("reset") \/ (Within("command") /\ command_has_interrupt(Sent))
  /\ index \in Nat /\ elapsed \in Nat
  /\ rqm \in Readiness /\ answers \in BOOLEAN

\* The flags, and what the controller may be doing.
Flags == /\ waitingForIRQ \in BOOLEAN /\ irq \in BOOLEAN /\ genuine \in BOOLEAN
         /\ ready \in BOOLEAN /\ seeking \in BOOLEAN /\ ran \in BOOLEAN
         /\ phase \in {"idle", "command", "execute", "result", "reset"}

Right == /\ dor.drive = currentDrive
         /\ currentDrive \in dor.motors <=> diskMotorOn[currentDrive]

\* Before the first write of the register: whatever the BIOS left, the driver
\* takes the motor for off, and will switch it on.
Unset ==
  /\ outcome # "ok"
  /\ currentDrive = 0 /\ ~diskMotorOn[0]
  /\ \A i \in 1 .. Len(todo) :
       todo[i].do \in {"select", "commit"} => todo[i].drive = 0 /\ todo[i].motorOn
  /\ outcome = "busy" => \E i \in 1 .. Len(todo) : todo[i].do \in {"select", "commit"}

Selection ==
  /\ diskMotorOn \in [ValidDrives -> BOOLEAN] /\ currentDrive \in ValidDrives
  /\ Right \/ Unset

\* A byte of the command has been accepted, and it has not ended yet.
Active == /\ Within("command")
          /\ Waiting \/ pc \in {"flag", "parameters", "results", "check"}

\* Result bytes read.
Got == IF pc \in {"results", "check"} THEN index ELSE 0

\* How far the controller is with the command, as seen from the driver: one
\* that misses a result byte has more left than the driver will read.
Step ==
  /\ phase = "command" =>
       /\ pc \in {"flag", "parameters"} /\ index < get_parameter_count(Sent)
       /\ fdcCommand = Sent /\ left = get_parameter_count(Sent) - index
  /\ pc = "flag" => index = 0
  /\ pc \in {"flag", "parameters"} /\ index < get_parameter_count(Sent)
       => phase = "command"
  /\ Active =>
       /\ phase # "reset"
       /\ phase = "execute" => /\ Sent = "READ_DATA" /\ fdcCommand = Sent
                               /\ (genuine <=> Got = 0)
       /\ phase = "result" => /\ left \in Nat \ {0} /\ get_result_byte_count(Sent) > 0
                              /\ IF genuine THEN left = get_result_byte_count(Sent) - Got
                                            ELSE left > get_result_byte_count(Sent) - Got
       /\ phase = "idle" /\ get_result_byte_count(Sent) > 0 =>
            pc = "check" /\ genuine /\ Got = get_result_byte_count(Sent)
  /\ (\/ pc \in {"command", "flag", "parameters"}
      \/ Waiting /\ Within("command")) => genuine
  /\ pc = "success" /\ get_result_byte_count(Sent) > 0 => genuine /\ phase = "idle"

\* The controller has got what makes it raise IRQ6.
Begun == \/ Waiting
         \/ /\ pc = "parameters" /\ command_has_interrupt(Sent)
            /\ index >= get_parameter_count(Sent)

\* IRQ6 is still to be raised, or to be handled, or has been.
OneInterrupt == \/ Working /\ ~irq /\ waitingForIRQ
                \/ ~Working /\ irq /\ waitingForIRQ
                \/ ~Working /\ ~irq /\ ~waitingForIRQ

Expecting == pc = "reset" \/ (pc = "parameters" /\ command_has_interrupt(Sent))

\* Two ticks are left when IRQ6 is handled.  One is lost if it comes before the
\* next step of the loop, and no other does until that step; one ends hlt.
TimeLeft ==
  /\ waitingForIRQ \/ (pc = "halting" /\ ran) => elapsed + 2 < TIMEOUT_TIME
  /\ pc \in {"halting", "halted"} \/ (pc = "wait" /\ ran) => elapsed + 1 < TIMEOUT_TIME
  /\ pc = "wait" => elapsed < TIMEOUT_TIME

\* With a controller that is in time each interrupt is waited for once.
Timely ==
  /\ pc # "failed" /\ outcome # "TIMED_OUT"
  /\ Waiting => TimeLeft
  /\ genuine /\ ~(seeking /\ phase \in {"execute", "reset"})
  /\ Begun => OneInterrupt
  /\ ~Begun => ~Working /\ ~irq /\ (waitingForIRQ <=> Expecting)
  /\ pc \in {"next", "command", "success", "reset"} => phase = "idle"
  /\ Waiting /\ Within("reset") => phase \in {"reset", "idle"}

IInv == /\ Control /\ Flags /\ Selection
        /\ PollsSuffice => Step
        /\ InTime => Timely

-----------------------------------------------------------------------------
(* The steps left to a function.                                           *)

\* The first step, of whatever kind it is, and those behind it.
LEMMA ItemFacts ==
  ASSUME todo \in Seq(Item), todo # << >>
  PROVE  /\ Head(todo) \in Item /\ Tail(todo) \in Seq(Item)
         /\ Within("command") => Sent \in Command
         /\ Within("select") => /\ Head(todo).drive \in Drives
                                /\ Head(todo).motorOn \in BOOLEAN
         /\ Within("commit") => /\ Head(todo).drive \in ValidDrives
                                /\ Head(todo).motorOn \in BOOLEAN
<1>1. Head(todo) \in Item /\ Tail(todo) \in Seq(Item)
  OBVIOUS
<1>2. PICK i \in Item : i = Head(todo)
  BY <1>1
<1> QED BY <1>1, <1>2 DEF Within, Sent, Item, CheckVersion, Reset

\* What initialize consists of, besides a reset.
LEMMA CommandItems ==
  /\ <<Run("VERSION"), CheckVersion, Run("CONFIGURE"), Run("LOCK")>> \in Seq(Item)
  /\ <<Run("VERSION"), Run("RECALIBRATE"), Run("SENSE_INTERRUPT")>> \in Seq(Item)
<1>1. \A c \in Command : Run(c) \in Item
  BY DEF Item, Run
<1> QED BY <1>1 DEF Command, Item

\* What the functions consist of.
LEMMA Functions ==
  /\ initialize \in Seq(Item)
  /\ \A d \in Drives : read_cylinder(d) \in Seq(Item)
  /\ \A d \in Drives, m \in BOOLEAN : reset(d, m) \in Seq(Item)
<1>1. \A c \in Command : Run(c) \in Item
  BY DEF Item, Run
<1>2. \A d \in Drives, m \in BOOLEAN : Select(d, m) \in Item
  BY DEF Item, Select
<1>3. CheckVersion \in Item /\ Reset \in Item
  BY DEF Item
<1>4. \A d \in Drives, m \in BOOLEAN : reset(d, m) \in Seq(Item)
  BY <1>2, <1>3 DEF reset
<1>5. \A d \in Drives : read_cylinder(d) \in Seq(Item)
  <2>1. Run("READ_DATA") \in Item
    BY <1>1 DEF Command
  <2>2. \A d \in Drives : Select(d, TRUE) \in Item
    BY <1>2
  <2>3. \A x, y \in Item : <<x, y>> \in Seq(Item)
    OBVIOUS
  <2> QED BY <2>1, <2>2, <2>3 DEF read_cylinder
<1>6. reset(0, TRUE) \in Seq(Item)
  BY <1>4, FloppyAssumption
<1>7. \A s, t \in Seq(Item) : s \o t \in Seq(Item)
  OBVIOUS
<1>8. initialize \in Seq(Item)
  BY <1>6, <1>7, CommandItems DEF initialize
<1> QED BY <1>4, <1>5, <1>8

\* select_drive, of a drive that exists.
LEMMA Selected ==
  ASSUME todo \in Seq(Item), Within("select"), Head(todo).drive < 4
  PROVE  (IF currentDrive # Head(todo).drive THEN <<Run("SPECIFY")>> ELSE << >>)
           \o <<Commit(Head(todo).drive, Head(todo).motorOn)>> \o Tail(todo)
           \in Seq(Item)
<1>1. /\ Tail(todo) \in Seq(Item)
      /\ Head(todo).drive \in Drives /\ Head(todo).motorOn \in BOOLEAN
  BY ItemFacts DEF Within
<1>2. Head(todo).drive \in ValidDrives
  <2>1. PICK d \in Drives : d = Head(todo).drive
    BY <1>1
  <2>2. d \in Nat /\ d < 4
    BY <2>1, FloppyAssumption
  <2> QED BY <2>1, <2>2 DEF ValidDrives
<1>3. Commit(Head(todo).drive, Head(todo).motorOn) \in Item
  BY <1>1, <1>2 DEF Commit, Item
<1>4. Run("SPECIFY") \in Item
  BY DEF Run, Item, Command
<1> QED BY <1>1, <1>3, <1>4

-----------------------------------------------------------------------------
(* Control.                                                                *)

LEMMA ControlInit == Init => Control
BY Functions, SMT DEF Init, Control, Readiness, Waiting

LEMMA ControlStep == Control /\ [Next]_vars => Control'
<1> SUFFICES ASSUME Control, [Next]_vars PROVE Control'
  OBVIOUS
<1> USE DEF Within, Sent, Doing, GoesTo, Fails, steady, timing, clock, Waiting
<1>0. /\ todo \in Seq(Item) /\ index \in Nat /\ elapsed \in Nat
      /\ todo # << >> => Tail(todo) \in Seq(Item)
      /\ << >> \in Seq(Item)
  BY ItemFacts DEF Control
<1>1. CASE returns
  BY <1>0, <1>1 DEF returns, Control
<1>2. CASE check_version
  <2>1. todo' \in Seq(Item)
    BY <1>0, <1>2 DEF check_version, Control
  <2> QED BY <1>0, <1>2, <2>1 DEF check_version, Control
<1>3. CASE reset_flag \/ reset_write
  BY <1>0, <1>3 DEF reset_flag, reset_write, Control
<1>4. CASE select_drive
  <2>1. todo' \in Seq(Item)
    <3>1. CASE Head(todo).drive >= 4
      BY <1>0, <3>1, <1>4 DEF select_drive
    <3>2. CASE Head(todo).drive < 4
      <4>1. Head(todo).drive \in Nat
        BY <1>0, <1>4, ItemFacts, FloppyAssumption DEF select_drive
      <4>2. ~(Head(todo).drive >= 4)
        BY <3>2, <4>1
      <4> HIDE DEF Within
      <4>3. Within("select")
        BY <1>4 DEF select_drive, Within
      <4> QED BY <1>0, <1>4, <3>2, <4>2, <4>3, Selected DEF select_drive
    <3>3. Head(todo).drive \in Nat
      BY <1>0, <1>4, ItemFacts, FloppyAssumption DEF select_drive
    <3> QED BY <3>1, <3>2, <3>3
  <2> QED BY <1>0, <1>4, <2>1 DEF select_drive, Control
<1>5. CASE select_drive_commit
  BY <1>0, <1>5 DEF select_drive_commit, Control
<1>6. CASE execute_command \/ attempt_succeeds
  BY <1>0, <1>6 DEF execute_command, attempt_succeeds, Control
<1>7. CASE attempt_fails
  <2>1. todo' \in Seq(Item)
    BY <1>0, <1>7 DEF attempt_fails, Control
  <2> QED BY <1>0, <1>7, <2>1 DEF attempt_fails, Control
<1>8. CASE send_command_byte \/ send_command_flag
  BY <1>0, <1>8 DEF send_command_byte, send_command_flag, Control
<1>9. CASE send_parameter \/ send_parameter_fails
  BY <1>0, <1>9 DEF send_parameter, send_parameter_fails, Control
<1>10. CASE parameters_sent \/ no_results
  BY <1>0, <1>10 DEF parameters_sent, no_results, Control
<1>11. CASE receive_result
  BY <1>0, <1>11 DEF receive_result, Control
<1>12. CASE check_result
  BY <1>0, <1>12 DEF check_result, Control
<1>13. CASE irq_seen \/ wait_times_out
  <2>1. todo' \in Seq(Item)
    BY <1>0, <1>13 DEF irq_seen, wait_times_out, Resetting, Control
  <2> QED BY <1>0, <1>13, <2>1 DEF irq_seen, wait_times_out, Resetting, Control
<1>14. ASSUME NEW d \in Drives, Calls(read_cylinder(d)) PROVE Control'
  BY <1>0, <1>14, Functions DEF Calls, Control
<1>15. ASSUME NEW d \in Drives, NEW m \in BOOLEAN, Calls(reset(d, m)) PROVE Control'
  BY <1>0, <1>15, Functions DEF Calls, Control
<1>16. CASE BecomesReady \/ Finishes
  BY <1>0, <1>16 DEF BecomesReady, Finishes, progress, Control
<1>17. CASE time_left \/ irq_not_seen \/ KERNEL_HALT
  BY <1>0, <1>17 DEF time_left, irq_not_seen, KERNEL_HALT, WaitGoesOn, Control
<1>18. CASE Tick \/ floppy_handler
  BY <1>0, <1>18 DEF Tick, floppy_handler, Resumes, progress, Control
<1>19. CASE UNCHANGED vars
  BY <1>0, <1>19 DEF vars, progress, Control
<1> QED BY <1>1, <1>2, <1>3, <1>4, <1>5, <1>6, <1>7, <1>8, <1>9, <1>10, <1>11, <1>12,
          <1>13, <1>14, <1>15, <1>16, <1>17, <1>18, <1>19 DEF Next, Driver

-----------------------------------------------------------------------------
(* The selected drive.                                                     *)

\* Steps that touch no drive: the function goes on, does its next step, or fails.
LEMMA OtherSteps ==
  ASSUME Control, Selection, UNCHANGED drives,
         \/ UNCHANGED <<todo, outcome>>
         \/ /\ todo # << >> /\ Head(todo).do \notin {"select", "commit"}
            /\ todo' = Tail(todo) /\ UNCHANGED outcome
         \/ todo' = << >> /\ outcome' \notin {"ok", "busy"}
  PROVE  Selection'
<1>1. CASE Right
  BY <1>1 DEF Selection, Right, drives
<1>2. CASE Unset /\ UNCHANGED <<todo, outcome>>
  BY <1>2 DEF Selection, Unset, drives
<1>3. CASE Unset /\ todo' = << >> /\ outcome' \notin {"ok", "busy"}
  BY <1>3 DEF Selection, Unset, drives
<1>4. CASE /\ Unset
           /\ todo # << >> /\ Head(todo).do \notin {"select", "commit"}
           /\ todo' = Tail(todo) /\ UNCHANGED outcome
  <2>1. todo \in Seq(Item) /\ todo[1].do \notin {"select", "commit"}
    BY <1>4 DEF Control
  <2>2. /\ Len(todo) \in Nat /\ Len(todo') = Len(todo) - 1
        /\ \A i \in 1 .. Len(todo') : todo'[i] = todo[i + 1]
    BY <1>4, <2>1
  <2>3. \A i \in 1 .. Len(todo') : todo'[i].do \in {"select", "commit"}
                                    => todo'[i].drive = 0 /\ todo'[i].motorOn
    <3>1. \A i \in 1 .. Len(todo') : i + 1 \in 1 .. Len(todo) /\ todo'[i] = todo[i + 1]
      BY <2>1, <2>2
    <3> QED BY <1>4, <3>1 DEF Unset
  <2>4. ASSUME outcome = "busy"
        PROVE  \E i \in 1 .. Len(todo') : todo'[i].do \in {"select", "commit"}
    <3>1. PICK i \in 1 .. Len(todo) : todo[i].do \in {"select", "commit"}
      BY <1>4, <2>4 DEF Unset
    <3>2. i - 1 \in 1 .. Len(todo') /\ todo'[i - 1] = todo[i]
      BY <2>1, <2>2, <3>1
    <3> QED BY <3>1, <3>2
  <2> QED BY <1>4, <2>3, <2>4 DEF Selection, Unset, drives
<1> QED BY <1>1, <1>2, <1>3, <1>4 DEF Selection

LEMMA SelectionInit == Init => Selection
<1> SUFFICES ASSUME Init PROVE Selection
  OBVIOUS
<1>1. 0 \in ValidDrives
  BY FloppyAssumption DEF ValidDrives
<1>2. diskMotorOn \in [ValidDrives -> BOOLEAN] /\ ~diskMotorOn[0]
  BY <1>1 DEF Init, ValidDrives
<1>3. PICK a \in Seq(Item) :
        a = <<Run("VERSION"), CheckVersion, Run("CONFIGURE"), Run("LOCK")>>
  BY CommandItems
<1>4. Len(a) = 4 /\ \A i \in 1 .. 4 : a[i].do \in {"command", "check_version"}
  <2>1. /\ Len(a) = 4
        /\ a[1] = Run("VERSION") /\ a[2] = CheckVersion
        /\ a[3] = Run("CONFIGURE") /\ a[4] = Run("LOCK")
    BY <1>3
  <2>2. \A i \in 1 .. 4 : i = 1 \/ i = 2 \/ i = 3 \/ i = 4
    OBVIOUS
  <2> QED BY <2>1, <2>2 DEF Run, CheckVersion
<1>5. PICK b \in Seq(Item) : /\ b = reset(0, TRUE)
                            /\ Len(b) = 2 /\ b[1] = Reset /\ b[2] = Select(0, TRUE)
  BY FloppyAssumption, Functions DEF reset
<1>6. PICK c \in Seq(Item) :
        c = <<Run("VERSION"), Run("RECALIBRATE"), Run("SENSE_INTERRUPT")>>
  BY CommandItems
<1>7. Len(c) = 3 /\ \A i \in 1 .. 3 : c[i].do = "command"
  <2>1. /\ Len(c) = 3
        /\ c[1] = Run("VERSION") /\ c[2] = Run("RECALIBRATE")
        /\ c[3] = Run("SENSE_INTERRUPT")
    BY <1>6
  <2>2. \A i \in 1 .. 3 : i = 1 \/ i = 2 \/ i = 3
    OBVIOUS
  <2> QED BY <2>1, <2>2 DEF Run
<1>8. PICK e \in Seq(Item) :
        /\ e = a \o b /\ Len(e) = Len(a) + Len(b)
        /\ \A i \in 1 .. Len(a) + Len(b) :
             e[i] = IF i <= Len(a) THEN a[i] ELSE b[i - Len(a)]
  <2>1. /\ a \o b \in Seq(Item) /\ Len(a \o b) = Len(a) + Len(b)
        /\ \A i \in 1 .. Len(a) + Len(b) :
             (a \o b)[i] = IF i <= Len(a) THEN a[i] ELSE b[i - Len(a)]
    BY Zenon, ConcatProperties
  <2> QED BY Zenon, <2>1
<1>9. todo = e \o c
  BY <1>3, <1>5, <1>6, <1>8 DEF Init, initialize
<1>10. /\ Len(e) = 6 /\ \A i \in 1 .. 4 : e[i] = a[i]
       /\ e[5] = Reset /\ e[6] = Select(0, TRUE)
  <2>1. Len(a) + Len(b) = 6
    <3>1. Len(a) + Len(b) = 4 + 2
      BY Zenon, <1>4, <1>5
    <3> QED BY SMT, <3>1
  <2>2. \A i \in 1 .. 6 : e[i] = IF i <= 4 THEN a[i] ELSE b[i - 4]
    BY <1>4, <1>8, <2>1
  <2>3. Len(e) = 6
    BY <1>8, <2>1
  <2>4. e[5] = b[1] /\ e[6] = b[2]
    BY <2>2
  <2> QED BY <1>5, <2>2, <2>3, <2>4
<1>11. /\ Len(todo) = 9 /\ \A i \in 1 .. 6 : todo[i] = e[i]
       /\ \A i \in 7 .. 9 : todo[i] = c[i - 6] /\ i - 6 \in 1 .. 3
  <2>1. /\ Len(e \o c) = Len(e) + Len(c)
        /\ \A i \in 1 .. Len(e) + Len(c) :
             (e \o c)[i] = IF i <= Len(e) THEN e[i] ELSE c[i - Len(e)]
    BY Zenon, ConcatProperties
  <2>2. PICK t : t = todo
    OBVIOUS
  <2>3. Len(t) = 9 /\ \A i \in 1 .. 9 : t[i] = IF i <= 6 THEN e[i] ELSE c[i - 6]
    <3>1. Len(e) + Len(c) = 9 /\ Len(e) = 6
      BY <1>7, <1>10
    <3> QED BY Zenon, <1>9, <2>1, <2>2, <3>1
  <2>4. /\ \A i \in 1 .. 6 : t[i] = e[i]
        /\ \A i \in 7 .. 9 : t[i] = c[i - 6] /\ i - 6 \in 1 .. 3
    BY <2>3
  <2> QED BY Zenon, <2>2, <2>3, <2>4
<1>12. \A i \in 1 .. 9 : i # 6 => todo[i].do \notin {"select", "commit"}
  <2>1. \A i \in 1 .. 9 : i \in 1 .. 4 \/ i = 5 \/ i = 6 \/ i \in 7 .. 9
    OBVIOUS
  <2> QED BY <1>4, <1>7, <1>10, <1>11, <2>1 DEF Reset
<1>13. Len(todo) = 9 /\ todo[6] = Select(0, TRUE)
  <2>1. 6 \in 1 .. 6
    OBVIOUS
  <2> QED BY Zenon, <1>10, <1>11, <2>1
<1>14. Unset
  BY <1>2, <1>12, <1>13 DEF Unset, Init, Select
<1> QED BY <1>1, <1>2, <1>14 DEF Selection, Init

LEMMA SelectionStep == Control /\ Selection /\ [Next]_vars => Selection'
<1> SUFFICES ASSUME Control, Selection, [Next]_vars PROVE Selection'
  OBVIOUS
<1> USE DEF Doing, GoesTo, Fails, steady, progress
<1>1. CASE returns
  <2>1. todo = << >> /\ outcome = "busy"
    BY <1>1 DEF returns
  <2>2. Right
    BY <2>1 DEF Selection, Unset
  <2> QED BY <1>1, <2>2 DEF returns, Selection, Right, drives
<1>2. CASE check_version \/ attempt_succeeds \/ irq_seen
  <2>1. pc = "success" => Within("command")
    BY DEF Control
  <2> QED BY <1>2, <2>1, OtherSteps
       DEF check_version, attempt_succeeds, irq_seen, Resetting, Within
<1>3. CASE select_drive
  <2>1. CASE todo' = << >> /\ outcome' \notin {"ok", "busy"} /\ UNCHANGED drives
    BY <2>1, OtherSteps
  <2>2. CASE /\ UNCHANGED <<drives, outcome>>
             /\ todo' = (IF currentDrive # Head(todo).drive THEN <<Run("SPECIFY")>>
                         ELSE << >>)
                        \o <<Commit(Head(todo).drive, Head(todo).motorOn)>> \o Tail(todo)
    <3>1. CASE Right
      BY <2>2, <3>1 DEF Selection, Right, drives
    <3>2. CASE Unset
      <4>1. /\ todo \in Seq(Item) /\ Len(todo) \in Nat \ {0}
            /\ todo[1] = Head(todo) /\ todo[1].do = "select"
        BY <1>3 DEF select_drive, Control
      <4>2. todo[1].drive = 0 /\ todo[1].motorOn /\ currentDrive = 0
        BY <3>2, <4>1 DEF Unset
      <4>3. todo' = <<Commit(todo[1].drive, todo[1].motorOn)>> \o Tail(todo)
        BY <2>2, <4>1, <4>2
      <4>4. PICK c : c = Commit(todo[1].drive, todo[1].motorOn)
        OBVIOUS
      <4>5. Len(todo') = Len(todo) /\ todo'[1] = c
            /\ \A i \in 2 .. Len(todo) : todo'[i] = todo[i]
        BY <4>1, <4>3, <4>4
      <4>6. c.do = "commit" /\ c.drive = 0 /\ c.motorOn
        BY <4>2, <4>4 DEF Commit
      <4>7. \A i \in 1 .. Len(todo') : todo'[i].do \in {"select", "commit"}
                                        => todo'[i].drive = 0 /\ todo'[i].motorOn
        BY <3>2, <4>1, <4>5, <4>6 DEF Unset
      <4>8. \E i \in 1 .. Len(todo') : todo'[i].do \in {"select", "commit"}
        BY <4>1, <4>5, <4>6
      <4> QED BY <2>2, <3>2, <4>7, <4>8 DEF Selection, Unset, drives
    <3> QED BY <3>1, <3>2 DEF Selection
  <2> QED BY <1>3, <2>1, <2>2 DEF select_drive
<1>4. CASE select_drive_commit
  <2>1. PICK d \in ValidDrives, m \in BOOLEAN :
          d = Head(todo).drive /\ m = Head(todo).motorOn
    BY <1>4, ItemFacts DEF select_drive_commit, Control, Within
  <2>2. /\ currentDrive' = d
        /\ diskMotorOn' = [diskMotorOn EXCEPT ![d] = m]
        /\ dor' = IF WritesDor(d, m) THEN [drive |-> d, motors |-> IF m THEN {d} ELSE {}]
                                     ELSE dor
    BY <1>4, <2>1 DEF select_drive_commit
  <2>3. diskMotorOn' \in [ValidDrives -> BOOLEAN] /\ diskMotorOn'[d] = m
    BY <2>1, <2>2 DEF Selection
  <2>4. CASE WritesDor(d, m)
    <3>1. dor'.drive = d /\ (d \in dor'.motors <=> m)
      BY <2>2, <2>4
    <3> QED BY <2>2, <2>3, <3>1 DEF Selection, Right
  <2>5. CASE ~WritesDor(d, m)
    <3>1. currentDrive = d /\ diskMotorOn[d] = m /\ dor' = dor
      BY <2>2, <2>5 DEF WritesDor
    <3>2. Right
      <4>1. CASE Unset
        <5>1. todo \in Seq(Item) /\ Len(todo) \in Nat \ {0} /\ todo[1] = Head(todo)
              /\ todo[1].do = "commit"
          BY <1>4 DEF select_drive_commit, Control
        <5>2. m /\ d = 0
          BY <2>1, <4>1, <5>1 DEF Unset
        <5> QED BY <3>1, <4>1, <5>2 DEF Unset
      <4> QED BY <4>1 DEF Selection
    <3> QED BY <2>2, <2>3, <3>1, <3>2 DEF Selection, Right
  <2> QED BY <2>4, <2>5
<1>5. ASSUME NEW items, Calls(items) PROVE Selection'
  <2>1. Right
    BY <1>5 DEF Calls, Selection, Unset
  <2> QED BY <1>5, <2>1 DEF Calls, Selection, Right, drives
<1>6. CASE attempt_fails \/ wait_times_out
  BY <1>6, OtherSteps DEF attempt_fails, wait_times_out
<1>7. CASE reset_flag \/ reset_write \/ execute_command \/ send_command_byte \/ send_command_flag
  BY <1>7, OtherSteps
     DEF reset_flag, reset_write, execute_command, send_command_byte, send_command_flag
<1>8. CASE \/ send_parameter \/ send_parameter_fails \/ parameters_sent \/ no_results
           \/ receive_result \/ check_result
           \/ time_left \/ irq_not_seen \/ KERNEL_HALT
  BY <1>8, OtherSteps DEF send_parameter, send_parameter_fails, parameters_sent,
     no_results, receive_result, check_result, time_left, irq_not_seen, KERNEL_HALT
<1>9. CASE BecomesReady \/ Finishes \/ Tick \/ floppy_handler
  BY <1>9, OtherSteps DEF BecomesReady, Finishes, Tick, floppy_handler
<1>10. CASE UNCHANGED vars
  BY <1>10, OtherSteps DEF vars
<1> QED BY <1>1, <1>2, <1>3, <1>4, <1>5, <1>6, <1>7, <1>8, <1>9, <1>10 DEF Next, Driver

-----------------------------------------------------------------------------
(* Flags.                                                                  *)

LEMMA FlagsInit == Init => Flags
BY DEF Init, Flags

LEMMA FlagsStep == Flags /\ [Next]_vars => Flags'
<1> SUFFICES ASSUME Flags, [Next]_vars PROVE Flags'
  OBVIOUS
<1> USE DEF Flags, GoesTo, Fails, WaitGoesOn, fdc, clock, progress
<1>1. CASE returns \/ check_version \/ reset_flag \/ reset_write
  BY <1>1 DEF returns, check_version, reset_flag, reset_write
<1>2. CASE select_drive \/ select_drive_commit \/ execute_command
  BY <1>2 DEF select_drive, select_drive_commit, execute_command
<1>3. CASE attempt_succeeds \/ attempt_fails
  BY <1>3 DEF attempt_succeeds, attempt_fails
<1>4. CASE send_command_byte
  BY <1>4 DEF send_command_byte, TakesByte, Begins
<1>5. CASE send_command_flag
  BY <1>5 DEF send_command_flag
<1>6. CASE send_parameter
  BY <1>6 DEF send_parameter, TakesByte, Begins
<1>7. CASE send_parameter_fails \/ parameters_sent \/ no_results \/ check_result
  BY <1>7 DEF send_parameter_fails, parameters_sent, no_results, check_result
<1>8. CASE receive_result
  BY <1>8 DEF receive_result, GivesByte
<1>9. CASE irq_seen \/ wait_times_out \/ time_left \/ irq_not_seen \/ KERNEL_HALT
  BY <1>9 DEF irq_seen, wait_times_out, time_left, irq_not_seen, KERNEL_HALT
<1>10. ASSUME NEW items, Calls(items) PROVE Flags'
  BY <1>10 DEF Calls
<1>11. CASE BecomesReady \/ Finishes
  BY <1>11 DEF BecomesReady, Finishes
<1>12. CASE Tick \/ floppy_handler
  BY <1>12 DEF Tick, floppy_handler
<1>13. CASE UNCHANGED vars
  BY <1>13 DEF vars
<1> QED BY <1>1, <1>2, <1>3, <1>4, <1>5, <1>6, <1>7, <1>8, <1>9, <1>10, <1>11, <1>12,
          <1>13 DEF Next, Driver

-----------------------------------------------------------------------------
(* Driver and controller in step.                                          *)

\* The numbers of bytes on either side.
LEMMA Counts ==
  /\ \A c \in Command :
       /\ get_parameter_count(c) \in Nat /\ get_result_byte_count(c) \in Nat
       /\ Takes(c) = get_parameter_count(c) /\ Gives(c) = get_result_byte_count(c)
       /\ command_has_interrupt(c) => c \in {"READ_DATA", "RECALIBRATE"}
       /\ c \in {"READ_DATA", "RECALIBRATE"} => command_has_interrupt(c) /\ Takes(c) > 0
       /\ Gives(c) = 0 \/ Takes(c) = 0 \/ c = "READ_DATA"
       /\ Gives(c) > 0 /\ c # "READ_DATA" => ~command_has_interrupt(c)
       /\ c = "RECALIBRATE" => Gives(c) = 0
  /\ command_has_interrupt("READ_DATA") /\ Takes("READ_DATA") = 8 /\ Gives("READ_DATA") = 7
BY
     DEF Command, get_parameter_count, get_result_byte_count, Takes, Gives,
         command_has_interrupt

LEMMA StepInit == Init => Step
BY DEF Init, Step, Active, Waiting

LEMMA StepStep == Control /\ Flags /\ Step /\ PollsSuffice /\ [Next]_vars => Step'
<1> SUFFICES ASSUME Control, Flags, Step, PollsSuffice, [Next]_vars PROVE Step'
  OBVIOUS
<1> USE DEF Doing, GoesTo, Fails, steady, timing, fdc, progress, clock, Waiting
<1>0. /\ index \in Nat
      /\ Within("command") => Sent \in Command
      /\ pc \in {"command", "flag", "parameters", "results", "check", "success", "failed"}
           => Within("command")
      /\ phase \in {"idle", "command", "execute", "result", "reset"}
      /\ ready \in BOOLEAN /\ genuine \in BOOLEAN
  BY ItemFacts DEF Control, Flags, Within
<1>1. CASE returns
  BY <1>1 DEF returns, Step, Active
<1>2. CASE check_version
  BY <1>2 DEF check_version, Step, Active
<1>3. CASE reset_flag
  BY <1>3 DEF reset_flag, Step, Active
<1>4. CASE reset_write
  BY <1>4 DEF reset_write, Step, Active, Control, Within
<1>5. CASE select_drive
  BY <1>5 DEF select_drive, Step, Active
<1>6. CASE select_drive_commit
  BY <1>6 DEF select_drive_commit, Step, Active
<1>7. CASE execute_command
  BY <1>7 DEF execute_command, Step, Active
<1>8. CASE attempt_succeeds
  BY <1>8 DEF attempt_succeeds, Step, Active
<1>9. CASE attempt_fails
  BY <1>9 DEF attempt_fails, Step, Active
<1>10. CASE send_command_byte
  BY <1>0, <1>10, Counts
       DEF send_command_byte, TakesByte, Begins, AcceptsByte, Step, Active, Got,
           Within, Sent
<1>11. CASE send_command_flag
  BY <1>0, <1>11 DEF send_command_flag, Step, Active, Got, Within, Sent
<1>12. CASE send_parameter
  BY <1>0, <1>12, Counts
       DEF send_parameter, TakesByte, Begins, AcceptsByte, Step, Active, Got, Within,
           Sent
<1>13. CASE send_parameter_fails
  BY <1>0, <1>13
       DEF send_parameter_fails, PollFails, AcceptsByte, PollsSuffice, Step, Active
<1>14. CASE parameters_sent
  BY <1>0, <1>14, Counts DEF parameters_sent, Step, Active, Got, Within, Sent
<1>15. CASE no_results
  BY <1>0, <1>15 DEF no_results, Step, Active, Within, Sent
<1>16. CASE receive_result
  BY <1>0, <1>16, Counts DEF receive_result, GivesByte, Step, Active, Got, Within, Sent
<1>17. CASE check_result
  BY <1>0, <1>17, Counts
       DEF check_result, EndsInStep, PollFails, PollsSuffice, Step, Active, Got,
           Within, Sent
<1>18. CASE irq_seen
  BY <1>0, <1>18, Counts DEF irq_seen, Resetting, Step, Active, Got, Within, Sent, Control
<1>19. CASE time_left \/ irq_not_seen \/ KERNEL_HALT
  BY <1>0, <1>19 DEF time_left, irq_not_seen, KERNEL_HALT, WaitGoesOn, Step, Active, Got,
       Within, Sent
<1>20. CASE wait_times_out
  BY <1>0, <1>20 DEF wait_times_out, Resetting, Step, Active, Got, Within, Sent
<1>21. ASSUME NEW items, Calls(items) PROVE Step'
  BY <1>21 DEF Calls, Step, Active, Control
<1>22. CASE BecomesReady
  BY <1>0, <1>22 DEF BecomesReady, Step, Active, Got, Within, Sent
<1>23. CASE Finishes
  BY <1>0, <1>23, Counts DEF Finishes, Step, Active, Got, Within, Sent
<1>24. CASE Tick
  BY <1>0, <1>24 DEF Tick, Resumes, Step, Active, Got, Within, Sent
<1>25. CASE floppy_handler
  BY <1>0, <1>25 DEF floppy_handler, Resumes, Step, Active, Got, Within, Sent
<1>26. CASE UNCHANGED vars
  BY <1>0, <1>26 DEF vars, Step, Active, Got, Within, Sent
<1> QED BY <1>1, <1>2, <1>3, <1>4, <1>5, <1>6, <1>7, <1>8, <1>9, <1>10, <1>11, <1>12,
          <1>13, <1>14, <1>15, <1>16, <1>17, <1>18, <1>19, <1>20, <1>21, <1>22, <1>23,
          <1>24, <1>25, <1>26 DEF Next, Driver

-----------------------------------------------------------------------------
(* Interrupts in time.                                                     *)

LEMMA TimelyInit == Init => Timely
BY FloppyAssumption DEF Init, Timely, Begun, Expecting, Working, Waiting

LEMMA TimelyStep ==
  Control /\ Flags /\ Step /\ Timely /\ InTime /\ [Next]_vars => Timely'
<1> SUFFICES ASSUME Control, Flags, Step, Timely, InTime, [Next]_vars PROVE Timely'
  OBVIOUS
<1> USE DEF Doing, GoesTo, Fails, steady, timing, fdc, progress, clock, Waiting, InTime
<1>0. /\ index \in Nat /\ elapsed \in Nat /\ TIMEOUT_TIME \in Nat /\ TIMEOUT_TIME > 2
      /\ ran \in BOOLEAN
      /\ Within("command") => Sent \in Command
      /\ pc \in {"command", "flag", "parameters", "results", "check", "success", "failed"}
           => Within("command")
      /\ phase \in {"idle", "command", "execute", "result", "reset"}
      /\ ready \in BOOLEAN /\ genuine \in BOOLEAN /\ irq \in BOOLEAN
      /\ waitingForIRQ \in BOOLEAN /\ seeking \in BOOLEAN
  BY ItemFacts, FloppyAssumption DEF Control, Flags, Within
<1>a. /\ genuine /\ ~(seeking /\ phase \in {"execute", "reset"})
      /\ pc # "failed" /\ outcome # "TIMED_OUT"
      /\ Waiting => TimeLeft
      /\ Begun => OneInterrupt
      /\ ~Begun => ~Working /\ ~irq /\ (waitingForIRQ <=> Expecting)
      /\ pc \in {"next", "command", "success", "reset"} => phase = "idle"
      /\ Waiting /\ Within("reset") => phase \in {"reset", "idle"}
  BY DEF Timely
<1> USE DEF Timely, TimeLeft, Begun, Expecting, OneInterrupt, Working
<1>1. CASE returns
  BY <1>0, <1>a, <1>1 DEF returns
<1>2. CASE check_version
  BY <1>0, <1>a, <1>2 DEF check_version
<1>3. CASE reset_flag
  BY <1>0, <1>a, <1>3 DEF reset_flag
<1>4. CASE reset_write
  BY <1>0, <1>a, <1>4 DEF reset_write, Control, Within
<1>5. CASE select_drive
  BY <1>0, <1>a, <1>5 DEF select_drive
<1>6. CASE select_drive_commit
  BY <1>0, <1>a, <1>6 DEF select_drive_commit
<1>7. CASE execute_command
  BY <1>0, <1>a, <1>7 DEF execute_command
<1>8. CASE attempt_succeeds
  BY <1>0, <1>a, <1>8 DEF attempt_succeeds
<1>9. CASE attempt_fails
  BY <1>0, <1>a, <1>9 DEF attempt_fails
<1>10. CASE send_command_byte
  <2>1. PICK c \in Command : Sent = c /\ Sent' = c
    BY <1>0, <1>10 DEF send_command_byte, Sent
  <2>2. /\ get_parameter_count(c) \in Nat /\ Takes(c) = get_parameter_count(c)
        /\ get_result_byte_count(c) \in Nat /\ Gives(c) = get_result_byte_count(c)
        /\ command_has_interrupt(c) <=> c \in {"READ_DATA", "RECALIBRATE"}
        /\ c \in {"READ_DATA", "RECALIBRATE"} => Takes(c) > 0
        /\ c = "RECALIBRATE" => Gives(c) = 0
    BY Counts, <2>1
  <2> QED BY <1>0, <1>a, <1>10, <2>1, <2>2
       DEF send_command_byte, Looks, TakesByte, Begins, AcceptsByte
<1>11. CASE send_command_flag
  <2>1. PICK c \in Command : Sent = c /\ Sent' = c
    BY <1>0, <1>11 DEF send_command_flag, Sent
  <2>2. /\ get_parameter_count(c) \in Nat /\ Takes(c) = get_parameter_count(c)
        /\ get_result_byte_count(c) \in Nat /\ Gives(c) = get_result_byte_count(c)
        /\ command_has_interrupt(c) <=> c \in {"READ_DATA", "RECALIBRATE"}
        /\ c \in {"READ_DATA", "RECALIBRATE"} => Takes(c) > 0
        /\ c = "RECALIBRATE" => Gives(c) = 0
    BY Counts, <2>1
  <2>3. ~Begun /\ ~Expecting /\ ~Begun'
    BY <1>0, <1>11, <2>1, <2>2 DEF send_command_flag
  <2>4. waitingForIRQ' <=> command_has_interrupt(c)
    BY <1>0, <1>a, <1>11, <2>1, <2>3 DEF send_command_flag
  <2>5. Expecting' <=> command_has_interrupt(c)
    BY <1>11, <2>1 DEF send_command_flag
  <2> QED BY <1>0, <1>a, <1>11, <2>3, <2>4, <2>5 DEF send_command_flag
<1>12. CASE send_parameter
  <2>1. PICK c \in Command : Sent = c /\ Sent' = c
    BY <1>0, <1>12 DEF send_parameter, Sent
  <2>2. /\ get_parameter_count(c) \in Nat /\ Takes(c) = get_parameter_count(c)
        /\ get_result_byte_count(c) \in Nat /\ Gives(c) = get_result_byte_count(c)
        /\ command_has_interrupt(c) <=> c \in {"READ_DATA", "RECALIBRATE"}
        /\ c \in {"READ_DATA", "RECALIBRATE"} => Takes(c) > 0
        /\ c = "RECALIBRATE" => Gives(c) = 0
    BY Counts, <2>1
  <2> QED BY <1>0, <1>a, <1>12, <2>1, <2>2
       DEF send_parameter, TakesByte, Begins, AcceptsByte, Step
<1>13. CASE send_parameter_fails
  BY <1>0, <1>a, <1>13 DEF send_parameter_fails, PollFails, AcceptsByte, Step
<1>14. CASE parameters_sent
  BY <1>0, <1>a, <1>14, Counts DEF parameters_sent, Sent, Within
<1>15. CASE no_results
  BY <1>0, <1>a, <1>15 DEF no_results, Step, Active
<1>16. CASE receive_result
  <2>1. PICK c \in Command : Sent = c /\ Sent' = c
    BY <1>0, <1>16 DEF receive_result, Sent
  <2>2. /\ get_parameter_count(c) \in Nat /\ Takes(c) = get_parameter_count(c)
        /\ get_result_byte_count(c) \in Nat /\ Gives(c) = get_result_byte_count(c)
        /\ command_has_interrupt(c) <=> c \in {"READ_DATA", "RECALIBRATE"}
        /\ c \in {"READ_DATA", "RECALIBRATE"} => Takes(c) > 0
        /\ c = "RECALIBRATE" => Gives(c) = 0
    BY Counts, <2>1
  <2>3. phase = "result" /\ ready
    BY <1>0, <1>a, <1>16, <2>1, <2>2 DEF receive_result, Looks, Step, Active
  <2> QED BY <1>0, <1>a, <1>16, <2>3 DEF receive_result, GivesByte
<1>17. CASE check_result
  BY <1>0, <1>a, <1>17, Counts
       DEF check_result, Looks, EndsInStep, PollFails, Step, Active, Got
<1>18. CASE irq_seen
  BY <1>0, <1>a, <1>18 DEF irq_seen, Resetting, Control, Within
<1>19. CASE time_left \/ irq_not_seen \/ KERNEL_HALT
  <2>1. CASE time_left
    BY <1>0, <1>a, <2>1 DEF time_left, WaitGoesOn, Within
  <2>2. CASE irq_not_seen
    BY <1>0, <1>a, <2>2 DEF irq_not_seen, WaitGoesOn, Within
  <2>3. CASE KERNEL_HALT
    BY <1>0, <1>a, <2>3 DEF KERNEL_HALT, WaitGoesOn, Within
  <2> QED BY <1>19, <2>1, <2>2, <2>3
<1>20. CASE wait_times_out
  BY <1>0, <1>a, <1>20 DEF wait_times_out
<1>21. ASSUME NEW items, Calls(items) PROVE Timely'
  BY <1>0, <1>a, <1>21 DEF Calls, Control
<1>22. CASE BecomesReady
  BY <1>0, <1>a, <1>22 DEF BecomesReady, Within, Sent
<1>23. CASE Finishes
  BY <1>0, <1>a, <1>23 DEF Finishes, Within, Sent
<1>24. CASE Tick
  BY <1>0, <1>a, <1>24 DEF Tick, Resumes, Within, Sent
<1>25. CASE floppy_handler
  BY <1>0, <1>a, <1>25 DEF floppy_handler, Resumes, Within, Sent
<1>26. CASE UNCHANGED vars
  BY <1>0, <1>a, <1>26 DEF vars, Within, Sent
<1> QED BY <1>1, <1>2, <1>3, <1>4, <1>5, <1>6, <1>7, <1>8, <1>9, <1>10, <1>11, <1>12,
          <1>13, <1>14, <1>15, <1>16, <1>17, <1>18, <1>19, <1>20, <1>21, <1>22, <1>23,
          <1>24, <1>25, <1>26 DEF Next, Driver

-----------------------------------------------------------------------------
(* The theorems.                                                           *)

LEMMA InitInv == Init => IInv
BY ControlInit, FlagsInit, SelectionInit, StepInit, TimelyInit DEF IInv

LEMMA NextInv == IInv /\ [Next]_vars => IInv'
<1> SUFFICES ASSUME IInv, [Next]_vars PROVE IInv'
  OBVIOUS
<1>1. Control' /\ Flags' /\ Selection'
  BY ControlStep, FlagsStep, SelectionStep DEF IInv
<1>2. UNCHANGED timing
  BY DEF Next, Driver, vars, steady, returns, check_version, reset_flag, reset_write,
     select_drive, select_drive_commit, execute_command, attempt_succeeds, attempt_fails,
     send_command_byte, send_command_flag, send_parameter, send_parameter_fails,
     parameters_sent, no_results, receive_result, check_result, time_left,
     irq_seen, irq_not_seen, KERNEL_HALT, wait_times_out, Calls, BecomesReady, Finishes, Tick, floppy_handler
<1>3. (PollsSuffice' <=> PollsSuffice) /\ (InTime' <=> InTime)
  BY <1>2 DEF timing, PollsSuffice, InTime
<1>4. InTime => PollsSuffice
  BY DEF InTime, PollsSuffice
<1>5. PollsSuffice => Step'
  BY StepStep DEF IInv
<1>6. InTime => Timely'
  BY <1>4, TimelyStep DEF IInv
<1> QED BY <1>1, <1>3, <1>5, <1>6 DEF IInv

LEMMA Invariance == Spec => []IInv
BY InitInv, NextInv, PTL DEF Spec

\* When a driver function has returned without an error, the drive it takes for
\* the current one is selected, and its motor runs exactly if the driver notes so,
\* whatever drives were used before and whatever the BIOS left running.
THEOREM MotorRight == Spec => []SelectedMotorRight
<1>1. IInv => SelectedMotorRight
  BY DEF IInv, Selection, Right, Unset, SelectedMotorRight
<1> QED BY Invariance, <1>1, PTL

\* send_command's parameter bytes are taken for those of its command, as long as
\* no poll gives up, also in a retry.
THEOREM AlwaysInStep == Spec => []InStep
<1>1. IInv => InStep
  <2> SUFFICES ASSUME IInv, PollsSuffice, pc = "parameters", index < get_parameter_count(Sent)
               PROVE  /\ phase = "command" /\ fdcCommand = Sent
                      /\ left = get_parameter_count(Sent) - index
    BY DEF InStep
  <2> QED BY DEF IInv, Step
<1> QED BY Invariance, <1>1, PTL

\* A command that execute_command reports as successful has read the result
\* bytes the controller gave for it, all of them, under the same condition and
\* however late its interrupt came.
THEOREM ResultsAlwaysGenuine == Spec => []ResultsGenuine
<1>1. IInv => ResultsGenuine
  BY DEF IInv, Step, ResultsGenuine
<1> QED BY Invariance, <1>1, PTL

\* No call times out with a controller whose interrupts are handled while two
\* more ticks are left, for any timeout of three ticks or more.  An interrupt
\* between the test of the flag and hlt does not wake the CPU; the two ticks are
\* what the loop may need to test the flag again.
THEOREM NeverTimesOut == Spec => []InTimeSucceeds
<1>1. IInv => InTimeSucceeds
  BY DEF IInv, Timely, InTimeSucceeds
<1> QED BY Invariance, <1>1, PTL

\* Nor is an interrupt left over for the next command to take for its own.
THEOREM NothingLeftBehind == Spec => []SuccessMeansDone
<1>1. IInv => SuccessMeansDone
  BY DEF IInv, Timely, SuccessMeansDone, Begun, Waiting
<1> QED BY Invariance, <1>1, PTL
=============================================================================
