-------------------------- MODULE InterruptsProofs --------------------------
(***************************************************************************)
(* Interrupts and what counts the timer's.  For every set of devices and   *)
(* masks the master controller never keeps a line in service once a        *)
(* handler has returned (module Interrupts).  sleep is as long as was      *)
(* asked for, for every width of the counter and every duration (module    *)
(* Timer), and the timer ticks as often as set_frequency was asked for,    *)
(* or not (module Pit).                                                    *)
(***************************************************************************)
EXTENDS Interrupts, Timer, Pit, TLAPS

\* The master's line that a request occupies: its own, or the slave's.
MasterLine(n) == IF n \in SlaveLines THEN 2 ELSE n

\* The inductive invariant: MasterAcknowledged says nothing of the time when a
\* handler runs.  Then one line of the master is in service, that of the
\* interrupt being handled, which the next end of interrupt therefore hits.
ServesOne == cpu # Main => \E n \in Devices : /\ cpu = vector(n)
                                              /\ isr \cap MasterLines = {MasterLine(n)}

IInv == TypeOK /\ MasterAcknowledged /\ ServesOne

LEMMA Vectors ==
  ASSUME NEW n \in 0 .. 15
  PROVE  vector(n) = 32 + n
BY DEF vector, MasterLines

\* An end of interrupt takes the only line of a controller that is in service
\* out of service.
LEMMA AcknowledgeOnly ==
  ASSUME NEW S, NEW lines, NEW n \in 0 .. 15, S \cap lines = {n}
  PROVE  Acknowledge(S, lines) \cap lines = {}
<1>1. \E k \in {n} : \A m \in {n} : k <= m
  OBVIOUS
<1>2. Highest({n}) = n
  BY <1>1 DEF Highest
<1> QED BY <1>2 DEF Acknowledge

\* It adds nothing.
LEMMA AcknowledgeShrinks ==
  ASSUME NEW S, NEW lines
  PROVE  Acknowledge(S, lines) \subseteq S
BY DEF Acknowledge

\* Whatever a handler passes to send_end_of_interrupt, the master's only line
\* in service is taken out of service.
LEMMA EndOfInterrupt ==
  ASSUME NEW n \in 0 .. 15, NEW t_irq,
         isr \cap MasterLines = {n}
  PROVE  /\ send_end_of_interrupt(t_irq) \cap MasterLines = {}
         /\ send_end_of_interrupt(t_irq) \subseteq isr
<1> DEFINE served == IF t_irq >= 8 THEN Acknowledge(isr, SlaveLines) ELSE isr
<1>1. served \subseteq isr
  BY AcknowledgeShrinks
<1>2. send_end_of_interrupt(t_irq) = Acknowledge(served, MasterLines)
  BY DEF send_end_of_interrupt
<1>3. CASE served \cap MasterLines = {n}
  BY <1>1, <1>2, <1>3, AcknowledgeOnly, AcknowledgeShrinks
<1>4. CASE served \cap MasterLines # {n}
  <2>1. served \cap MasterLines = {}
    BY <1>1, <1>4
  <2> QED BY <1>1, <1>2, <2>1, AcknowledgeShrinks
<1> QED BY <1>3, <1>4

-----------------------------------------------------------------------------
LEMMA IInvInit == Init => IInv
BY DEF Init, IInv, TypeOK, MasterAcknowledged, ServesOne, Main

\* Delivery, dispatch and acknowledgement keep IInv.
LEMMA IInvStep == IInv /\ [Next]_vars => IInv'
<1> SUFFICES ASSUME IInv, [Next]_vars PROVE IInv'
  OBVIOUS
<1> USE LinesAssumption DEF IInv
<1>1. ASSUME NEW n \in Devices, Raise(n) PROVE IInv'
  BY <1>1 DEF Raise, TypeOK, MasterAcknowledged, ServesOne
<1>2. ASSUME NEW n \in Devices, Deliver(n) PROVE IInv'
  <2>1. n \in 0 .. 15 /\ n # 2 /\ vector(n) = 32 + n
    BY Vectors
  <2>2. cpu' = 32 + n /\ cpu' # Main
    BY <1>2, <2>1 DEF Deliver, Main
  <2>3. isr \cap MasterLines = {}
    BY <1>2 DEF Deliver, MasterAcknowledged
  <2>4. isr' \cap MasterLines = {MasterLine(n)}
    BY <1>2, <2>1, <2>3 DEF Deliver, MasterLine, MasterLines, SlaveLines
  <2>5. TypeOK'
    <3>1. irr' \subseteq Devices /\ isr' \subseteq Devices \cup {2} /\ recent' \subseteq Devices
      BY <1>2 DEF Deliver, TypeOK
    <3>2. IF_flag' \in BOOLEAN
      BY <1>2 DEF Deliver
    <3>3. cpu' \in {Main} \cup 32 .. 47
      BY <2>1, <2>2
    <3> QED BY <3>1, <3>2, <3>3 DEF TypeOK
  <2>6. ServesOne'
    BY <1>2, <2>2, <2>4 DEF Deliver, ServesOne
  <2> QED BY <2>2, <2>5, <2>6 DEF MasterAcknowledged
<1>3. ASSUME NEW n \in Devices, handler(n) PROVE IInv'
  <2>1. n \in 0 .. 15 /\ cpu = 32 + n /\ cpu # Main
    BY <1>3, Vectors DEF handler, Main
  <2>2. PICK m \in Devices : cpu = vector(m) /\ isr \cap MasterLines = {MasterLine(m)}
    BY <2>1 DEF ServesOne
  <2>3. MasterLine(m) \in 0 .. 15
    BY DEF MasterLine, SlaveLines
  <2>4. /\ isr' \cap MasterLines = {}
        /\ isr' \subseteq isr
    BY <1>3, <2>2, <2>3, EndOfInterrupt DEF handler
  <2>5. cpu' = Main
    BY <1>3 DEF handler
  <2>6. TypeOK'
    BY <1>3, <2>4, <2>5 DEF handler, TypeOK
  <2> QED BY <2>4, <2>5, <2>6 DEF MasterAcknowledged, ServesOne
<1>4. CASE enable_interrupts
  BY <1>4 DEF enable_interrupts, TypeOK, MasterAcknowledged, ServesOne
<1>5. CASE Run
  BY <1>5 DEF Run, TypeOK, MasterAcknowledged, ServesOne
<1>6. CASE UNCHANGED vars
  BY <1>6 DEF vars, TypeOK, MasterAcknowledged, ServesOne
<1> QED BY <1>1, <1>2, <1>3, <1>4, <1>5, <1>6 DEF Next

\* IInv holds in every reachable state.
THEOREM Invariance == Spec => []IInv
<1> QED BY IInvInit, IInvStep, PTL DEF Spec

\* Lines in service, requests and the CPU keep their types for every set of
\* devices.
THEOREM TypeCorrect == Spec => []TypeOK
<1>1. IInv => TypeOK
  BY DEF IInv
<1> QED BY <1>1, Invariance, PTL

\* Whatever the devices and the masks, and although the handlers of kernel.cpp
\* pass line numbers and vectors at will to send_end_of_interrupt, the master
\* has nothing in service when the main loop runs.
THEOREM MasterAlwaysAcknowledged == Spec => []MasterAcknowledged
<1>1. IInv => MasterAcknowledged
  BY DEF IInv
<1> QED BY <1>1, Invariance, PTL

-----------------------------------------------------------------------------
(* sleep (module Timer).  While it waits, the wrapped difference that it   *)
(* computes is the number of ticks that really passed (Counted).  That     *)
(* number stays below the width of the counter, since a sleep ends at most *)
(* one tick late, and so it has to be known for every step of sleep how    *)
(* late it can be (NotLate): by a tick that no step of the program has     *)
(* followed yet.                                                           *)

Counted == pc # "ready" => t_ticks \in Durations /\ passed = (s_ticks - start) % WORD

NotLate == /\ pc = "test" => passed <= t_ticks + 1 /\ (ran => passed <= t_ticks)
           /\ pc = "halting" => passed <= t_ticks /\ (ran => passed < t_ticks)
           /\ pc = "halted" => passed <= t_ticks /\ ran

SleepInv == SleepTypeOK /\ Counted /\ NotLate /\ SleepsAsLong

-----------------------------------------------------------------------------
(* Arithmetic with remainders.                                             *)

\* One more tick is one more in the wrapped difference, up to its last value.
LEMMA TickCounted ==
  ASSUME NEW w \in Nat \ {0}, NEW a \in 0 .. w - 1, NEW b \in 0 .. w - 1,
         ((a - b) % w) + 1 < w
  PROVE  /\ (a + 1) % w \in 0 .. w - 1
         /\ (((a + 1) % w) - b) % w = ((a - b) % w) + 1
<1>1. (a + 1) % w = IF a + 1 < w THEN a + 1 ELSE 0
  OBVIOUS
<1>2. (a - b) % w = IF a < b THEN a - b + w ELSE a - b
  OBVIOUS
<1>3. CASE a + 1 < w
  <2>1. (a + 1 - b) % w = IF a + 1 < b THEN a + 1 - b + w ELSE a + 1 - b
    BY <1>3
  <2> QED BY <1>1, <1>2, <1>3, <2>1
<1>4. CASE a + 1 = w
  <2>1. (0 - b) % w = IF 0 < b THEN 0 - b + w ELSE 0
    OBVIOUS
  <2> QED BY <1>1, <1>2, <1>4, <2>1
<1> QED BY <1>3, <1>4

-----------------------------------------------------------------------------
LEMMA SleepStarts == SleepInit => SleepInv
BY DurationsAssumption, SMT DEF SleepInit, SleepInv, SleepTypeOK, Counted, NotLate, SleepsAsLong

LEMMA SleepStep == SleepInv /\ [SleepNext]_sleepVars => SleepInv'
<1> SUFFICES ASSUME SleepInv, [SleepNext]_sleepVars PROVE SleepInv'
  OBVIOUS
<1> USE DurationsAssumption
<1>0. SleepTypeOK /\ Counted /\ NotLate /\ SleepsAsLong
  BY DEF SleepInv
<1>1. ASSUME NEW d \in Durations, sleep(d) PROVE SleepInv'
  <2>1. (s_ticks - s_ticks) % WORD = 0
    BY <1>0 DEF SleepTypeOK
  <2> QED BY <1>0, <1>1, <2>1
          DEF sleep, SleepInv, SleepTypeOK, Counted, NotLate, SleepsAsLong
<1>2. CASE test
  BY <1>0, <1>2 DEF test, Elapsed, SleepInv, SleepTypeOK, Counted, NotLate, SleepsAsLong
<1>3. CASE KERNEL_HALT
  BY <1>0, <1>3 DEF KERNEL_HALT, SleepInv, SleepTypeOK, Counted, NotLate, SleepsAsLong
<1>4. CASE interval_handler
  <2>1. s_ticks' \in 0 .. WORD - 1
    BY <1>0, <1>4 DEF interval_handler, SleepTypeOK
  <2>2. CASE pc = "ready"
    BY <1>0, <1>4, <2>1, <2>2
       DEF interval_handler, Resumes, SleepInv, SleepTypeOK, Counted, NotLate, SleepsAsLong
  <2>3. CASE pc # "ready"
    <3>1. passed <= t_ticks /\ t_ticks + 2 < WORD
      BY <1>0, <1>4, <2>3 DEF interval_handler, SleepTypeOK, Counted, NotLate
    <3>2. (s_ticks' - start) % WORD = passed + 1
      BY <1>0, <1>4, <2>3, <3>1, TickCounted DEF interval_handler, SleepTypeOK, Counted
    <3>3. passed' = passed + 1 /\ UNCHANGED <<start, t_ticks>>
      BY <1>4, <2>3, <3>1, <1>0 DEF interval_handler, SleepTypeOK
    <3>4. /\ pc' = (IF pc = "halted" THEN "test" ELSE pc)
          /\ ran' = FALSE /\ (ran \/ pc = "halted")
      BY <1>4, <2>3 DEF interval_handler, Resumes
    <3>5. SleepTypeOK'
      <4>1. passed' \in 0 .. t_ticks' + 1
        <5>1. t_ticks \in Nat /\ passed \in 0 .. t_ticks + 1
          BY <1>0 DEF SleepTypeOK
        <5> QED BY <5>1, <3>1, <3>3
      <4>2. pc' \in {"ready", "test", "halting", "halted"}
        BY <1>0, <3>4 DEF SleepTypeOK
      <4> QED BY <1>0, <2>1, <3>3, <3>4, <4>1, <4>2 DEF SleepTypeOK
    <3>6. Counted'
      BY <1>0, <2>3, <3>2, <3>3, <3>4 DEF Counted
    <3>7. NotLate'
      BY <1>0, <2>3, <3>1, <3>3, <3>4 DEF NotLate, SleepTypeOK
    <3> QED BY <2>3, <3>4, <3>5, <3>6, <3>7 DEF SleepInv, SleepsAsLong
  <2> QED BY <2>2, <2>3
<1>5. CASE interrupt
  BY <1>0, <1>5
     DEF interrupt, Resumes, SleepInv, SleepTypeOK, Counted, NotLate, SleepsAsLong
<1>6. CASE UNCHANGED sleepVars
  BY <1>0, <1>6 DEF sleepVars, SleepInv, SleepTypeOK, Counted, NotLate, SleepsAsLong
<1> QED BY <1>1, <1>2, <1>3, <1>4, <1>5, <1>6 DEF SleepNext

LEMMA SleepInvariance == SleepSpec => []SleepInv
BY SleepStarts, SleepStep, PTL DEF SleepSpec

\* No variable leaves its range: no more ticks pass during a sleep than one too
\* many.
THEOREM SleepTypeCorrect == SleepSpec => []SleepTypeOK
<1>1. SleepInv => SleepTypeOK
  BY DEF SleepInv
<1> QED BY SleepInvariance, <1>1, PTL

\* sleep of common.cpp waits as many ticks as it was asked for or one more, for
\* every width of the counter and wherever it wraps, however often other
\* interrupts wake the CPU.
THEOREM SleepCorrect == SleepSpec => []SleepsAsLong
<1>1. SleepInv => SleepsAsLong
  BY DEF SleepInv
<1> QED BY SleepInvariance, <1>1, PTL

-----------------------------------------------------------------------------
(* The frequency of the timer (module Pit).                                *)


\* Division of natural numbers, in a form without \div.
LEMMA Quotient ==
  ASSUME NEW a \in Nat, NEW b \in Nat \ {0}
  PROVE  /\ a \div b \in Nat
         /\ (a \div b) * b <= a
         /\ a < (a \div b) * b + b
OBVIOUS

\* round_div is off by half of the divisor at most.
LEMMA RoundDivNearest ==
  ASSUME NEW a \in Nat, NEW b \in Nat \ {0}, 2 * a < U32, b < U32
  PROVE  /\ round_div(a, b) \in Nat
         /\ 2 * a - b <= 2 * (round_div(a, b) * b)
         /\ 2 * (round_div(a, b) * b) <= 2 * a + b
<1> DEFINE t == a \div b
<1>1. t \in Nat /\ t * b <= a /\ a < t * b + b
  BY SMT, Quotient
<1>2. (t + 1) * b = t * b + b /\ t * b \in Nat
  BY SMT, <1>1
<1>3. ((t + 1) * b - a) % U32 = t * b + b - a
  <2>1. PICK p \in Nat : p = t * b
    BY SMT, <1>2
  <2>2. CASE a < b
    <3>1. a \div b = 0
      BY SMT, <2>2
    <3> QED BY SMT, <1>1, <1>2, <2>1, <2>2, <3>1 DEF U32, U16
  <2>3. CASE b <= a
    BY SMT, <1>1, <1>2, <2>1, <2>3 DEF U32, U16
  <2> QED BY SMT, <2>2, <2>3
<1>4. round_div(a, b) = IF a - t * b < t * b + b - a THEN t ELSE t + 1
  BY SMT, <1>3 DEF round_div
<1>5. PICK p \in Nat : p = t * b
  BY SMT, <1>2
<1>6. CASE a - p < p + b - a
  BY SMT, <1>1, <1>4, <1>5, <1>6
<1>7. CASE ~(a - p < p + b - a)
  BY SMT, <1>1, <1>2, <1>4, <1>5, <1>7
<1> QED BY SMT, <1>6, <1>7

\* What is written to the timer, from the rounded quotient.
LEMMA Count ==
  ASSUME NEW f \in Nat \ {0}, f < U32
  PROVE  \E r \in Nat :
           /\ 2 * BASE_FREQUENCY - f <= 2 * (r * f)
           /\ 2 * (r * f) <= 2 * BASE_FREQUENCY + f
           /\ count(f) = (r - (r % 2)) % U16
<1>0. BASE_FREQUENCY \in Nat /\ 2 * BASE_FREQUENCY < U32
  BY SMT DEF BASE_FREQUENCY, U32, U16
<1>1. PICK r \in Nat : r = round_div(BASE_FREQUENCY, f)
  BY SMT, <1>0, RoundDivNearest
<1>2. 2 * BASE_FREQUENCY - f <= 2 * (r * f) /\ 2 * (r * f) <= 2 * BASE_FREQUENCY + f
  BY SMT, <1>0, <1>1, RoundDivNearest
<1> QED BY SMT, <1>1, <1>2 DEF count

\* Every frequency from 19 Hz to two thirds of the base gives an even count, and
\* a timer whose period is off by one and a half cycles of the base at most
\* (times the frequency, so that nothing is divided); the 1000 Hz of
\* PIT::initialize are among them.
THEOREM FrequencyRight ==
  ASSUME NEW f \in Nat, 19 <= f, f <= 795454
  PROVE  /\ reload(f) \in Nat /\ reload(f) % 2 = 0
         /\ 2 <= reload(f) /\ reload(f) < U16
         /\ 2 * BASE_FREQUENCY - 3 * f <= 2 * (reload(f) * f)
         /\ 2 * (reload(f) * f) <= 2 * BASE_FREQUENCY + f
<1>0. f \in Nat \ {0} /\ f < U32
  BY SMT DEF BASE_FREQUENCY, U32, U16
<1>1. PICK r \in Nat : /\ 2 * BASE_FREQUENCY - f <= 2 * (r * f)
                       /\ 2 * (r * f) <= 2 * BASE_FREQUENCY + f
                       /\ count(f) = (r - (r % 2)) % U16
  BY SMT, <1>0, Count
<1>2. r >= 2
  <2>1. CASE r = 0
    BY SMT, <1>1, <2>1 DEF BASE_FREQUENCY
  <2>2. CASE r = 1
    BY SMT, <1>1, <2>2 DEF BASE_FREQUENCY
  <2> QED BY SMT, <2>1, <2>2
<1>3. r < U16
  <2> SUFFICES ASSUME r >= U16 PROVE FALSE
    BY SMT DEF U16
  <2>1. r * f >= U16 * f
    BY SMT DEF U16
  <2> QED BY SMT, <1>1, <2>1 DEF BASE_FREQUENCY, U16
<1>4. PICK n \in Nat : n = r - (r % 2) /\ (n = r \/ n = r - 1) /\ n % 2 = 0 /\ n >= 2
  BY SMT, <1>2
<1>5. reload(f) = n
  BY SMT, <1>1, <1>3, <1>4 DEF reload, U16
<1>6. n * f = r * f \/ n * f = r * f - f
  BY SMT, <1>4
<1>7. r * f \in Nat /\ n * f \in Nat
  BY SMT
<1> QED BY SMT, <1>1, <1>3, <1>4, <1>5, <1>6, <1>7 DEF U16, BASE_FREQUENCY

\* Every frequency above that gives the slowest timer there is instead of a fast
\* one: set_frequency does not check for it.
THEOREM HighFrequencyWraps ==
  ASSUME NEW f \in Nat, 795455 <= f, f < U32
  PROVE  reload(f) = U16
<1>1. PICK r \in Nat : /\ 2 * (r * f) <= 2 * BASE_FREQUENCY + f
                       /\ count(f) = (r - (r % 2)) % U16
  BY SMT, Count DEF BASE_FREQUENCY, U32, U16
<1>2. r < 2
  <2> SUFFICES ASSUME r >= 2 PROVE FALSE
    BY SMT
  <2>1. r * f >= 2 * f
    BY SMT
  <2> QED BY SMT, <1>1, <2>1 DEF BASE_FREQUENCY
<1>3. r - (r % 2) = 0
  BY SMT, <1>2
<1> QED BY SMT, <1>1, <1>3 DEF reload, U16
=============================================================================
