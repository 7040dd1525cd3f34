------------------------------- MODULE Timer -------------------------------
(***************************************************************************)
(* The tick counter of drivers/pit/pit.cpp and sleep of common.cpp: the    *)
(* counter wraps around, the timer interrupt comes between any two steps   *)
(* of sleep, and other interrupts end hlt, too.                            *)
(***************************************************************************)
EXTENDS Integers

CONSTANTS WORD,      \* uint has the values 0 .. WORD - 1
          Durations  \* what callers pass to sleep

\* The driver sleeps for 300 ticks, far from the 2^32 of a uint.
ASSUME DurationsAssumption == /\ WORD \in Nat \ {0}
                              /\ Durations \subseteq Nat
                              /\ \A d \in Durations : d + 2 < WORD

VARIABLES s_ticks,
          start, t_ticks,  \* of the sleep that was called
          pc,      \* "ready", "test", "halting" or "halted"
          passed,  \* history: ticks since start was read
          ran      \* has the main program made a step since the last tick?

sleepVars == <<s_ticks, start, t_ticks, pc, passed, ran>>

SleepInit == /\ s_ticks = 0 /\ start = 0 /\ t_ticks = 0
             /\ pc = "ready" /\ passed = 0 /\ ran = TRUE

sleep(d) ==
  /\ pc = "ready"
  /\ t_ticks' = d /\ start' = s_ticks
  /\ pc' = "test" /\ passed' = 0 /\ ran' = TRUE
  /\ UNCHANGED s_ticks

\* Mutant: the counter is compared with the end of the sleep.
Elapsed_Compared == s_ticks >= (start + t_ticks) % WORD

\* Mutant: the sleep ends at one value of the counter only.
Elapsed_Exactly == (s_ticks - start) % WORD = t_ticks

\* ~(PIT::get_ticks() - start < t_ticks), a difference of two uints.
Elapsed == (s_ticks - start) % WORD >= t_ticks

test ==
  /\ pc = "test"
  /\ pc' = IF Elapsed THEN "ready" ELSE "halting"
  /\ ran' = TRUE
  /\ UNCHANGED <<s_ticks, start, t_ticks, passed>>

KERNEL_HALT ==
  /\ pc = "halting"
  /\ pc' = "halted" /\ ran' = TRUE
  /\ UNCHANGED <<s_ticks, start, t_ticks, passed>>

\* Behind hlt comes the test; an interrupt before hlt only delays it.
Resumes == IF pc = "halted" THEN "test" ELSE pc

\* The timer interrupt.  The CPU makes at least one step in the millisecond
\* between two of them.  Ticks after the sleep are not counted, nor those
\* behind the second that is too many.
interval_handler ==
  /\ ran \/ pc = "halted"
  /\ s_ticks' = (s_ticks + 1) % WORD
  /\ passed' = IF pc = "ready" \/ passed = t_ticks + 2 THEN passed ELSE passed + 1
  /\ pc' = Resumes /\ ran' = (pc = "ready")
  /\ UNCHANGED <<start, t_ticks>>

\* Any other interrupt.
interrupt ==
  /\ pc = "halted"
  /\ pc' = Resumes
  /\ UNCHANGED <<s_ticks, start, t_ticks, passed, ran>>

SleepNext == \/ \E d \in Durations : sleep(d)
             \/ test \/ KERNEL_HALT
             \/ interval_handler \/ interrupt

\* The CPU executes and the timer, programmed before interrupts are enabled,
\* never stops.
SleepSpec == /\ SleepInit /\ [][SleepNext]_sleepVars
             /\ WF_sleepVars(test) /\ WF_sleepVars(KERNEL_HALT)
             /\ WF_sleepVars(interval_handler)

-----------------------------------------------------------------------------
SleepTypeOK == /\ s_ticks \in 0 .. WORD - 1 /\ start \in 0 .. WORD - 1
               /\ t_ticks \in Durations \cup {0}
               /\ pc \in {"ready", "test", "halting", "halted"}
               /\ passed \in 0 .. t_ticks + 1
               /\ ran \in BOOLEAN

\* sleep returns after as many ticks as were asked for, although the counter
\* wraps and other interrupts wake the CPU, and at most one later: a tick that
\* comes between the test and hlt is noticed at the next one only.
SleepsAsLong == pc = "ready" => passed \in {t_ticks, t_ticks + 1}

\* No sleep goes on forever.
SleepEnds == pc # "ready" ~> pc = "ready"
=============================================================================
