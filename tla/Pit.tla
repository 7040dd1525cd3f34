-------------------------------- MODULE Pit ---------------------------------
(***************************************************************************)
(* set_frequency of src/src/kernel/drivers/pit/pit.cpp: what the timer     *)
(* counts down from for a frequency that was asked for.                    *)
(***************************************************************************)
EXTENDS Integers

BASE_FREQUENCY == 1193182

U16 == 65536
U32 == U16 * U16

\* The nearer of the two quotients, the larger one if both are as near.
round_div(a, b) ==
  LET t == a \div b
      d1 == a - t * b
      d2 == ((t + 1) * b - a) % U32
  IN IF d1 < d2 THEN t ELSE t + 1

\* Odd counts are not wanted, and the count is cut to 16 bits.
count(t_frequency) ==
  LET n == round_div(BASE_FREQUENCY, t_frequency) IN (n - (n % 2)) % U16

\* The timer takes its two bytes, the low one first; 0 counts as 2^16.
reload(t_frequency) ==
  IF count(t_frequency) = 0 THEN U16 ELSE count(t_frequency)
=============================================================================
