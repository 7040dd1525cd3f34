-------------------------- MODULE FloppyReadProofs --------------------------
(***************************************************************************)
(* The transfers of module FloppyRead stay in s_dmaBuffer: first what      *)
(* initialize_channel of module Dma leaves in the channel - the address    *)
(* and the count it was given, whatever was in it before - then that the   *)
(* channel stays in step with the buffer.  As long as no transfer breaks   *)
(* off the buffer holds the cylinder that was asked for, and a request     *)
(* within a cylinder gets its sectors.                                     *)
(***************************************************************************)
EXTENDS FloppyRead, SequenceTheorems, TLAPS

-----------------------------------------------------------------------------
(* Two bytes.                                                              *)

\* Division of natural numbers, in a form without \div and %.
LEMMA Quotient ==
  ASSUME NEW a \in Nat, NEW b \in Nat \ {0}
  PROVE  /\ a \div b \in Nat /\ a % b \in 0 .. b - 1
         /\ a = (a \div b) * b + (a % b)
OBVIOUS

\* Quotient and remainder are unique.
LEMMA Unique ==
  ASSUME NEW b \in Nat \ {0}, NEW q \in Nat, NEW r \in 0 .. b - 1
  PROVE  /\ (q * b + r) \div b = q
         /\ (q * b + r) % b = r
<1> DEFINE a == q * b + r
           p == a \div b
           s == a % b
<1>1. a \in Nat /\ p \in Nat /\ s \in 0 .. b - 1 /\ a = p * b + s
  <2>1. q * b \in Nat
    OBVIOUS
  <2>2. a \in Nat
    BY <2>1
  <2> QED BY <2>2, Quotient
<1> HIDE DEF p, s
<1>2. CASE p < q
  <2>1. (p + 1) * b <= q * b /\ (p + 1) * b = p * b + b /\ p * b \in Nat /\ q * b \in Nat
    BY <1>1, <1>2
  <2> QED BY <1>1, <1>2, <2>1
<1>3. CASE q < p
  <2>1. (q + 1) * b <= p * b /\ (q + 1) * b = q * b + b /\ p * b \in Nat /\ q * b \in Nat
    BY <1>1, <1>3
  <2> QED BY <1>1, <1>3, <2>1
<1>4. CASE p = q
  <2>1. q * b \in Nat
    OBVIOUS
  <2>2. s = r
    BY <1>1, <1>4, <2>1
  <2> QED BY <1>4, <2>2 DEF p, s
<1> QED BY <1>1, <1>2, <1>3, <1>4

LEMMA Multiple ==
  ASSUME NEW b \in Nat \ {0}, NEW q \in Nat
  PROVE  (q * b) \div b = q /\ (q * b) % b = 0
<1>1. PICK r \in 0 .. b - 1 : r = 0
  OBVIOUS
<1>2. (q * b + r) \div b = q /\ (q * b + r) % b = r
  BY Unique, Zenon
<1>3. q * b + r = q * b
  BY <1>1
<1> QED BY <1>1, <1>2, <1>3, Zenon

\* The low byte of a number and then its high byte make that number.
LEMMA TwoBytes ==
  ASSUME BYTE \in Nat \ {0}, NEW register \in 0 .. SEGMENT - 1, NEW n \in 0 .. SEGMENT - 1
  PROVE  /\ WithByte(register, FALSE, n % BYTE) \in 0 .. SEGMENT - 1
         /\ WithByte(WithByte(register, FALSE, n % BYTE), TRUE, (n \div BYTE) % BYTE) = n
<1> DEFINE low == n % BYTE
           high == n \div BYTE
           q == register \div BYTE
           x == WithByte(register, FALSE, low)
<1>0. SEGMENT \in Nat /\ n \in Nat /\ register \in Nat
  BY DEF SEGMENT
<1>1. low \in 0 .. BYTE - 1 /\ high \in Nat /\ n = high * BYTE + low
  BY <1>0, Quotient
<1>2. q \in Nat /\ q * BYTE <= register
  BY <1>0, Quotient
<1>3. x = q * BYTE + low
  BY DEF WithByte
<1> HIDE DEF low, high, q, x
<1>4. q < BYTE /\ high < BYTE
  <2>1. SUFFICES ASSUME NEW k \in Nat, k * BYTE < BYTE * BYTE PROVE k < BYTE
    <3>1. q * BYTE < BYTE * BYTE
      BY <1>2 DEF SEGMENT
    <3>2. high * BYTE < BYTE * BYTE
      BY <1>1 DEF SEGMENT
    <3> QED BY <1>1, <1>2, <2>1, <3>1, <3>2
  <2>2. CASE k >= BYTE
    <3>1. k * BYTE >= BYTE * BYTE
      BY <2>2
    <3> QED BY <2>1, <3>1
  <2> QED BY <2>2
<1>5. x \in 0 .. SEGMENT - 1
  <2>1. q * BYTE + BYTE <= BYTE * BYTE
    BY <1>2, <1>4
  <2>2. q * BYTE \in Nat
    BY <1>2
  <2> QED BY <1>1, <1>3, <2>1, <2>2 DEF SEGMENT
<1>6. x % BYTE = low
  BY <1>1, <1>2, <1>3, Unique
<1>7. high % BYTE = high
  BY <1>1, <1>4
<1>8. WithByte(x, TRUE, high % BYTE) = low + high * BYTE
  BY <1>6, <1>7 DEF WithByte
<1>9. low + high * BYTE = n
  BY <1>1
<1> QED BY <1>5, <1>8, <1>9 DEF low, high, x
-----------------------------------------------------------------------------
(* The registers.                                                          *)

LEMMA Mask ==
  ASSUME NEW c \in Channel, NEW on \in BOOLEAN
  PROVE  LET d == mask(c, on)
         IN /\ d \in Channel /\ (d.masked <=> on)
            /\ d.page = c.page /\ d.base = c.base /\ d.address = c.address
            /\ d.count = c.count /\ d.left = c.left /\ d.mode = c.mode
BY DEF mask, Channel

LEMMA FlipFlop ==
  ASSUME NEW c \in Channel
  PROVE  LET d == reset_flip_flop(c)
         IN /\ d \in Channel /\ d.high = FALSE
            /\ d.page = c.page /\ d.base = c.base /\ d.address = c.address
            /\ d.count = c.count /\ d.left = c.left /\ d.mode = c.mode
BY DEF reset_flip_flop, Channel

LEMMA WriteAddress ==
  ASSUME NEW c \in Channel, NEW byte, NEW a \in 0 .. SEGMENT - 1,
         a = WithByte(c.base, c.high, byte)
  PROVE  LET d == write_address(c, byte)
         IN /\ d \in Channel /\ (c.high = FALSE => d.high = TRUE) /\ d.base = a /\ d.address = a
            /\ d.page = c.page /\ d.count = c.count /\ d.left = c.left /\ d.mode = c.mode
BY DEF write_address, Channel

LEMMA WriteCount ==
  ASSUME NEW c \in Channel, NEW byte, NEW n \in 0 .. SEGMENT - 1,
         n = WithByte(c.count, c.high, byte)
  PROVE  LET d == write_count(c, byte)
         IN /\ d \in Channel /\ (c.high = FALSE => d.high = TRUE) /\ d.count = n /\ d.left = n
            /\ d.page = c.page /\ d.base = c.base /\ d.address = c.address /\ d.mode = c.mode
BY DEF write_count, Channel

LEMMA ProgramCount ==
  ASSUME BYTE \in Nat \ {0}, NEW c \in Channel, NEW n \in 0 .. SEGMENT - 1
  PROVE  LET d == program_count(c, n)
         IN /\ d \in Channel /\ d.count = n /\ d.left = n
            /\ d.page = c.page /\ d.base = c.base /\ d.address = c.address /\ d.mode = c.mode
<1> DEFINE c1 == reset_flip_flop(c)
           low == WithByte(c.count, FALSE, n % BYTE)
           c2 == write_count(c1, n % BYTE)
           c3 == write_count(c2, (n \div BYTE) % BYTE)
<1>1. c.count \in 0 .. SEGMENT - 1
  BY DEF Channel
<1>2. low \in 0 .. SEGMENT - 1 /\ WithByte(low, TRUE, (n \div BYTE) % BYTE) = n
  BY <1>1, TwoBytes
<1>3. /\ c1 \in Channel /\ c1.high = FALSE /\ c1.count = c.count
      /\ c1.page = c.page /\ c1.base = c.base /\ c1.address = c.address /\ c1.mode = c.mode
  BY FlipFlop
<1> HIDE DEF c1, low
<1>4. low = WithByte(c1.count, c1.high, n % BYTE)
  BY <1>3 DEF low
<1>5. /\ c2 \in Channel /\ c2.high = TRUE /\ c2.count = low
      /\ c2.page = c.page /\ c2.base = c.base /\ c2.address = c.address /\ c2.mode = c.mode
  BY <1>2, <1>3, <1>4, WriteCount
<1> HIDE DEF c2
<1>6. n = WithByte(c2.count, c2.high, (n \div BYTE) % BYTE)
  BY <1>2, <1>5
<1>7. /\ c3 \in Channel /\ c3.count = n /\ c3.left = n
      /\ c3.page = c.page /\ c3.base = c.base /\ c3.address = c.address /\ c3.mode = c.mode
  BY <1>5, <1>6, WriteCount
<1> QED BY <1>7 DEF c1, c2, program_count

\* A buffer at the start of a page: its address is 0 within the page.
LEMMA ProgramAddress ==
  ASSUME BYTE \in Nat \ {0}, NEW c \in Channel, NEW page \in 0 .. BYTE - 1,
         NEW b \in Nat, b = page * SEGMENT
  PROVE  LET d == program_address(c, b)
         IN d \in Channel /\ d.page = page /\ d.base = 0 /\ d.address = 0
<1> DEFINE c1 == reset_flip_flop(c)
           byte1 == b % BYTE
           byte2 == (b \div BYTE) % BYTE
           low == WithByte(c.base, FALSE, byte1)
           c2 == write_address(c1, byte1)
           c3 == write_address(c2, byte2)
<1>1. page \in Nat /\ page * BYTE \in Nat /\ b = (page * BYTE) * BYTE /\ SEGMENT \in Nat \ {0}
  BY DEF SEGMENT
<1>2. b % BYTE = 0 /\ b \div BYTE = page * BYTE
  BY <1>1, Multiple, Zenon
<1>3. (b \div SEGMENT) % BYTE = page
  <2>1. b \div SEGMENT = page
    BY <1>1, Multiple, Zenon
  <2> QED BY <2>1
<1>4. b % BYTE = 0 /\ (b \div BYTE) % BYTE = 0
  <2>1. (page * BYTE) % BYTE = 0
    BY <1>1, Multiple, Zenon
  <2> QED BY <1>2, <2>1, Zenon
<1>5. PICK z \in 0 .. SEGMENT - 1 : z = 0
  BY <1>1
<1>6. z % BYTE = 0 /\ (z \div BYTE) % BYTE = 0 /\ c.base \in 0 .. SEGMENT - 1
  BY <1>5 DEF Channel
<1>7. low \in 0 .. SEGMENT - 1 /\ WithByte(low, TRUE, byte2) = z
  <2>1. byte1 = z % BYTE /\ byte2 = (z \div BYTE) % BYTE
    BY <1>4, <1>6
  <2> HIDE DEF byte1, byte2
  <2>2. /\ WithByte(c.base, FALSE, z % BYTE) \in 0 .. SEGMENT - 1
        /\ WithByte(WithByte(c.base, FALSE, z % BYTE), TRUE, (z \div BYTE) % BYTE) = z
    BY <1>6, TwoBytes, Zenon
  <2> QED BY <2>1, <2>2, Zenon
<1>8. c1 \in Channel /\ c1.high = FALSE /\ c1.base = c.base
  BY FlipFlop
<1> HIDE DEF c1, low, byte1, byte2
<1>9. low = WithByte(c1.base, c1.high, byte1)
  BY <1>8 DEF low
<1>10. c2 \in Channel /\ c2.high = TRUE /\ c2.base = low
  BY <1>7, <1>8, <1>9 DEF write_address, Channel
<1> HIDE DEF c2
<1>11. z = WithByte(c2.base, c2.high, byte2)
  BY <1>7, <1>10
<1>12. c3 \in Channel /\ c3.base = z /\ c3.address = z
  BY <1>10, <1>11, WriteAddress
<1> HIDE DEF c3
<1>13. LET d == [c3 EXCEPT !.page = page]
       IN d \in Channel /\ d.page = page /\ d.base = 0 /\ d.address = 0
  BY <1>5, <1>12 DEF Channel
<1> QED BY <1>3, <1>13 DEF c1, c2, c3, byte1, byte2, program_address

\* The channel is at the start of its buffer, and counts as far as it was told.
LEMMA InitializeChannel ==
  ASSUME BYTE \in Nat \ {0}, NEW c \in Channel, NEW page \in 0 .. BYTE - 1,
         NEW b \in Nat, b = page * SEGMENT, NEW n \in 0 .. SEGMENT - 1
  PROVE  LET d == initialize_channel(c, b, n)
         IN /\ d \in Channel /\ d.page = page /\ ~d.masked
            /\ d.base = 0 /\ d.address = 0 /\ d.count = n /\ d.left = n
<1> DEFINE c1 == mask(c, TRUE)
           c2 == program_address(c1, b)
           c3 == program_count(c2, n)
<1>1. c1 \in Channel
  BY Mask
<1> HIDE DEF c1
<1>2. c2 \in Channel /\ c2.page = page /\ c2.base = 0 /\ c2.address = 0
  BY <1>1, ProgramAddress
<1> HIDE DEF c2
<1>3. /\ c3 \in Channel /\ c3.page = page /\ c3.base = 0 /\ c3.address = 0
      /\ c3.count = n /\ c3.left = n
  BY <1>2, ProgramCount
<1> HIDE DEF c3
<1>4. LET d == mask(c3, FALSE)
      IN /\ d \in Channel /\ d.page = page /\ ~d.masked
         /\ d.base = 0 /\ d.address = 0 /\ d.count = n /\ d.left = n
  BY <1>3, Mask
<1> QED BY <1>4 DEF c1, c2, c3, initialize_channel

\* The mode of a read: upwards, and again from the start when at the end.
LEMMA ReadMode ==
  ASSUME NEW c \in Channel
  PROVE  LET d == set_mode(c, 2, TRUE, FALSE)
         IN /\ d \in Channel /\ d.mode.autoInit = TRUE /\ d.mode.down = FALSE
            /\ ~d.masked /\ d.page = c.page /\ d.base = c.base /\ d.address = c.address
            /\ d.count = c.count /\ d.left = c.left
<1> DEFINE m == [type |-> 2, autoInit |-> TRUE, down |-> FALSE]
           c1 == [c EXCEPT !.mode = m]
<1>1. m \in Mode /\ m.autoInit = TRUE /\ m.down = FALSE
  BY DEF Mode
<1> HIDE DEF m
<1>2. /\ c1 \in Channel /\ c1.mode = m
      /\ c1.page = c.page /\ c1.base = c.base /\ c1.address = c.address
      /\ c1.count = c.count /\ c1.left = c.left
  BY <1>1 DEF Channel
<1> HIDE DEF c1
<1>3. LET d == mask(c1, FALSE)
      IN /\ d \in Channel /\ d.mode = m /\ ~d.masked
         /\ d.page = c.page /\ d.base = c.base /\ d.address = c.address
         /\ d.count = c.count /\ d.left = c.left
  BY <1>2, Mask
<1> QED BY <1>1, <1>3 DEF c1, m, set_mode

-----------------------------------------------------------------------------
(* The transfers.                                                          *)

\* Where the channel stands: as far behind the start of the buffer as it is
\* before the end of its count.
ChannelInStep ==
  /\ channel.page * SEGMENT = BUFFER
  /\ channel.base = 0 /\ channel.count = DmaSectors - 1
  /\ channel.left \in 0 .. DmaSectors - 1
  /\ channel.address = DmaSectors - 1 - channel.left

\* Nothing is known of the channel before initialize, and of its mode before
\* the first read_cylinder.
ConfinedInv ==
  /\ channel \in Channel
  /\ DOMAIN s_dmaBuffer = 0 .. DmaSectors - 1
  /\ strayed = FALSE
  /\ pc # "boot" => ChannelInStep
  /\ pc = "read" => channel.mode.autoInit = TRUE /\ channel.mode.down = FALSE

-----------------------------------------------------------------------------
LEMMA Constants ==
  /\ DmaSectors \in Nat \ {0} /\ DmaSectors <= SEGMENT
  /\ SEGMENT \in Nat \ {0} /\ BYTE \in Nat \ {0}
  /\ BUFFER \in Nat /\ \E page \in 0 .. BYTE - 1 : BUFFER = page * SEGMENT
<1>1. SEGMENT \in Nat \ {0}
  BY GeometryAssumption DEF SEGMENT
<1>2. DmaSectors \in Nat \ {0}
  BY GeometryAssumption DEF DmaSectors
<1>3. PICK page \in 0 .. BYTE - 1 : BUFFER = page * SEGMENT
  BY GeometryAssumption
<1>4. page * SEGMENT \in Nat
  BY <1>1, <1>3, GeometryAssumption
<1> QED BY <1>1, <1>2, <1>3, <1>4, GeometryAssumption

LEMMA Small ==
  ASSUME NEW b \in Nat \ {0}, NEW a \in Nat, a < b
  PROVE  a % b = a
OBVIOUS

\* A transfer is as long as the channel lets it be, hits the buffer with every
\* sector, and leaves the channel in step with the buffer.
LEMMA TransferConfined ==
  ASSUME channel \in Channel, ChannelInStep,
         channel.mode.autoInit = TRUE, channel.mode.down = FALSE,
         NEW n \in 0 .. DmaSectors
  PROVE  LET moved == Moves(channel, n)
             d == AfterMoves(channel, moved)
         IN /\ \A i \in 0 .. moved - 1 : Target(channel, i) - BUFFER \in 0 .. DmaSectors - 1
            /\ d \in Channel /\ d.mode = channel.mode
            /\ d.page = channel.page /\ d.base = channel.base /\ d.count = channel.count
            /\ d.left \in 0 .. DmaSectors - 1
            /\ d.address = DmaSectors - 1 - d.left
<1> DEFINE moved == Moves(channel, n)
           d == AfterMoves(channel, moved)
<1> USE Constants
<1>1. /\ channel.left \in 0 .. DmaSectors - 1 /\ channel.page * SEGMENT = BUFFER
      /\ channel.address = DmaSectors - 1 - channel.left
      /\ channel.base = 0 /\ channel.count = DmaSectors - 1
  BY DEF ChannelInStep
<1>2. moved \in Nat /\ moved <= channel.left + 1
  BY <1>1 DEF Moves
<1>3. ASSUME NEW k \in Nat, k <= channel.left
      PROVE  (channel.address + k) % SEGMENT = channel.address + k
  BY <1>1, <1>3, Small
<1> HIDE DEF moved
<1>4. \A i \in 0 .. moved - 1 : Target(channel, i) - BUFFER \in 0 .. DmaSectors - 1
  <2> SUFFICES ASSUME NEW i \in 0 .. moved - 1
               PROVE  Target(channel, i) - BUFFER \in 0 .. DmaSectors - 1
    OBVIOUS
  <2>1. i \in Nat /\ i <= channel.left
    BY <1>1, <1>2
  <2>2. Target(channel, i) = BUFFER + (channel.address + i)
    BY <1>1, <1>3, <2>1 DEF Target
  <2> QED BY <1>1, <2>1, <2>2
<1>5. CASE moved <= channel.left
  <2>1. d = [channel EXCEPT !.left = channel.left - moved,
                            !.address = channel.address + moved]
    BY <1>2, <1>3, <1>5 DEF AfterMoves
  <2>2. channel.left - moved \in 0 .. DmaSectors - 1 /\ channel.address + moved \in 0 .. SEGMENT - 1
    BY <1>1, <1>2, <1>5
  <2>3. /\ d \in Channel /\ d.mode = channel.mode
        /\ d.page = channel.page /\ d.base = channel.base /\ d.count = channel.count
        /\ d.left = channel.left - moved /\ d.address = channel.address + moved
    <3> DEFINE l == channel.left - moved
               a == channel.address + moved
    <3>1. d = [channel EXCEPT !.left = l, !.address = a]
      BY <2>1
    <3>2. l \in 0 .. SEGMENT - 1 /\ a \in 0 .. SEGMENT - 1
      BY <2>2
    <3> HIDE DEF d, l, a
    <3>3. /\ d \in Channel /\ d.mode = channel.mode
          /\ d.page = channel.page /\ d.base = channel.base /\ d.count = channel.count
          /\ d.left = l /\ d.address = a
      BY <3>1, <3>2 DEF Channel
    <3> QED BY <3>3 DEF l, a
  <2> QED BY <1>1, <1>2, <1>4, <2>2, <2>3 DEF moved
<1>6. CASE ~(moved <= channel.left)
  <2>1. d = [channel EXCEPT !.left = channel.count, !.address = channel.base]
    BY <1>6 DEF AfterMoves
  <2>2. /\ d \in Channel /\ d.mode = channel.mode
        /\ d.page = channel.page /\ d.base = channel.base /\ d.count = channel.count
        /\ d.left = channel.count /\ d.address = channel.base
    BY <2>1 DEF Channel
  <2> QED BY <1>1, <1>4, <2>2 DEF moved
<1> QED BY <1>5, <1>6

-----------------------------------------------------------------------------
LEMMA ConfinedInit == Init => ConfinedInv
BY GeometryAssumption DEF Init, ConfinedInv

LEMMA ConfinedStep == ConfinedInv /\ [Next]_vars => ConfinedInv'
<1> SUFFICES ASSUME ConfinedInv, [Next]_vars PROVE ConfinedInv'
  OBVIOUS
<1>1. CASE initialize
  <2> DEFINE d == initialize_channel(channel, BUFFER, channel_count)
  <2>1. PICK page \in 0 .. BYTE - 1 : BUFFER = page * SEGMENT
    BY Constants
  <2>2. channel_count \in 0 .. SEGMENT - 1
    BY Constants DEF channel_count
  <2>3. channel \in Channel /\ BUFFER \in Nat /\ BYTE \in Nat \ {0}
    BY Constants DEF ConfinedInv
  <2>4. /\ d \in Channel /\ d.page = page
        /\ d.base = 0 /\ d.address = 0 /\ d.count = channel_count /\ d.left = channel_count
    BY <2>1, <2>2, <2>3, InitializeChannel
  <2>5. channel' = d /\ pc' = "ready" /\ UNCHANGED <<s_dmaBuffer, strayed>>
    BY <1>1 DEF initialize
  <2> HIDE DEF d
  <2>6. ChannelInStep'
    BY <2>1, <2>4, <2>5, Constants DEF ChannelInStep, channel_count
  <2> QED BY <2>4, <2>5, <2>6 DEF ConfinedInv
<1>2. CASE read_cylinder
  <2> DEFINE d == set_mode(channel, 2, TRUE, FALSE)
  <2>1. channel \in Channel /\ ChannelInStep
    BY <1>2 DEF ConfinedInv, read_cylinder
  <2>2. /\ d \in Channel /\ d.mode.autoInit = TRUE /\ d.mode.down = FALSE
        /\ d.page = channel.page /\ d.base = channel.base /\ d.address = channel.address
        /\ d.count = channel.count /\ d.left = channel.left
    BY <2>1, ReadMode
  <2>3. channel' = d /\ pc' = "read" /\ UNCHANGED <<s_dmaBuffer, strayed>>
    BY <1>2 DEF read_cylinder
  <2> HIDE DEF d
  <2>4. ChannelInStep'
    BY <2>1, <2>2, <2>3 DEF ChannelInStep
  <2> QED BY <2>2, <2>3, <2>4 DEF ConfinedInv
<1>3. CASE send_command
  <2>1. /\ channel \in Channel /\ ChannelInStep
        /\ channel.mode.autoInit = TRUE /\ channel.mode.down = FALSE
    BY <1>3 DEF ConfinedInv, send_command
  <2>2. PICK n \in 0 .. DmaSectors : Transfer(n)
    BY <1>3 DEF send_command
  <2> DEFINE moved == Moves(channel, n)
             d == AfterMoves(channel, moved)
  <2>3. /\ \A i \in 0 .. moved - 1 : Target(channel, i) - BUFFER \in 0 .. DmaSectors - 1
        /\ d \in Channel /\ d.mode = channel.mode
        /\ d.page = channel.page /\ d.base = channel.base /\ d.count = channel.count
        /\ d.left \in 0 .. DmaSectors - 1 /\ d.address = DmaSectors - 1 - d.left
    BY <2>1, TransferConfined
  <2>4. channel' = d
    BY <2>2 DEF Transfer
  <2>5. DOMAIN s_dmaBuffer' = 0 .. DmaSectors - 1
    BY <2>2 DEF Transfer, ConfinedInv
  <2>6. strayed' = FALSE
    BY <2>2, <2>3 DEF Transfer, ConfinedInv
  <2> HIDE DEF d, moved
  <2>7. ChannelInStep'
    BY <2>1, <2>3, <2>4 DEF ChannelInStep
  <2> QED BY <2>1, <2>3, <2>4, <2>5, <2>6, <2>7 DEF ConfinedInv
<1>4. CASE read_data \/ select_fails \/ copy_cylinder \/ copy_last_cylinder
  <2>1. UNCHANGED memory /\ pc # "boot" /\ pc' # "read"
    BY <1>4 DEF read_data, select_fails, copy_cylinder, copy_last_cylinder, memcpy
  <2> QED BY <2>1 DEF memory, ConfinedInv, ChannelInStep
<1>5. CASE UNCHANGED vars
  BY <1>5 DEF vars, memory, ConfinedInv, ChannelInStep
<1> QED BY <1>1, <1>2, <1>3, <1>4, <1>5 DEF Next

\* Whatever the BIOS left in the channel, wherever the buffer lies and however
\* often a transfer breaks off and is repeated, for disks of every geometry: the
\* controller writes to s_dmaBuffer and nowhere else, because initialize tells
\* the channel where it begins and how long it is, and from then on the channel
\* is never further in the buffer than it has left to its end.
THEOREM TransfersConfined == Spec => []BufferConfined
<1>1. ConfinedInv => BufferConfined
  BY DEF ConfinedInv, BufferConfined
<1> QED BY <1>1, ConfinedInit, ConfinedStep, PTL DEF Spec

-----------------------------------------------------------------------------
(* What a request within a cylinder delivers.                              *)

\* As long as no transfer breaks off the channel is at the start of the buffer
\* before each of them, and after one that succeeded the buffer holds the
\* cylinder.
WholeTransfers ==
  /\ pc # "boot" => channel.left = DmaSectors - 1 /\ ~channel.masked
  /\ pc = "copy" => s_dmaBuffer = [position \in 0 .. DmaSectors - 1 |->
                                    currentAddress.c * DmaSectors + position]

\* A request within a cylinder is still at its first one.
AtFirst ==
  /\ pc \in {"loop", "read", "copy"} =>
       t_count > 0 /\ currentAddress = lba_to_chs(t_lba) /\ r_buffer = << >>
  /\ pc = "ready" /\ calls > 0 => r_buffer = Asked
  /\ pc # "overrun"

DeliveryInv ==
  /\ t_lba \in Nat /\ t_count \in Nat /\ calls \in Nat /\ breaks \in Nat
  /\ pc = "boot" => calls = 0
  /\ breaks = 0 => WholeTransfers
  /\ breaks = 0 /\ WithinCylinder => AtFirst

\* Sides and sectors of a side count the sectors of a cylinder.
LEMMA Position ==
  ASSUME NEW lba \in Nat, lba \div DmaSectors < BYTE
  PROVE  /\ lba_to_chs(lba).c = lba \div DmaSectors
         /\ sectorIndex(lba_to_chs(lba)) = lba % DmaSectors
<1> DEFINE S == SECTORS_PER_CYLINDER
           H == HEAD_COUNT
<1>1. S \in Nat \ {0} /\ H \in Nat \ {0} /\ DmaSectors = S * H /\ DmaSectors \in Nat \ {0}
  BY GeometryAssumption, Constants DEF DmaSectors
<1> HIDE DEF S, H
<1>2. PICK c \in Nat, x \in 0 .. DmaSectors - 1 :
        c = lba \div DmaSectors /\ x = lba % DmaSectors /\ lba = c * DmaSectors + x
  <2>1. /\ lba \div DmaSectors \in Nat /\ lba % DmaSectors \in 0 .. DmaSectors - 1
        /\ lba = (lba \div DmaSectors) * DmaSectors + (lba % DmaSectors)
    BY <1>1, Quotient, Zenon
  <2> QED BY <2>1, Zenon
<1>3. PICK h \in Nat, y \in 0 .. S - 1 : x = h * S + y
  <2>1. x \in Nat
    BY <1>1
  <2>2. x \div S \in Nat /\ x % S \in 0 .. S - 1 /\ x = (x \div S) * S + (x % S)
    BY <1>1, <2>1, Quotient, Zenon
  <2> QED BY <2>2, Zenon
<1>4. h < H
  <2>1. CASE h >= H
    <3>1. h * S >= H * S /\ H * S = S * H /\ h * S \in Nat
      BY <1>1, <2>1
    <3> QED BY <1>1, <1>2, <1>3, <3>1
  <2> QED BY <1>1, <2>1
<1>5. lba = (c * H + h) * S + y /\ c * H + h \in Nat
  <2>1. c * DmaSectors = (c * H) * S
    BY <1>1
  <2>2. (c * H + h) * S = (c * H) * S + h * S
    BY <1>1
  <2>3. c * H \in Nat /\ (c * H) * S \in Nat /\ h * S \in Nat
    BY <1>1
  <2> QED BY <1>2, <1>3, <2>1, <2>2, <2>3
<1>6. lba \div S = c * H + h /\ lba % S = y
  BY <1>1, <1>5, Unique, Zenon
<1>7. (c * H + h) % H = h
  <2>1. h \in 0 .. H - 1
    BY <1>1, <1>4
  <2> QED BY <1>1, <2>1, Unique, Zenon
<1>8. c % BYTE = c
  BY <1>2, Small, Constants
<1>9. lba_to_chs(lba) = [c |-> c, h |-> h, s |-> y + 1]
  BY <1>2, <1>6, <1>7, <1>8, Zenon DEF lba_to_chs, S, H
<1>10. sectorIndex([c |-> c, h |-> h, s |-> y + 1]) = h * S + (y + 1 - 1)
  BY DEF sectorIndex, S
<1>11. y + 1 - 1 = y
  OBVIOUS
<1> QED BY <1>2, <1>3, <1>9, <1>10, <1>11

\* A request that ends in the cylinder it begins in.
LEMMA SameCylinder ==
  ASSUME t_lba \in Nat, t_count \in Nat, WithinCylinder
  PROVE  /\ endAddress.c = lba_to_chs(t_lba).c
         /\ lba_to_chs(t_lba).c * DmaSectors + sectorIndex(lba_to_chs(t_lba)) = t_lba
         /\ sectorIndex(lba_to_chs(t_lba)) \in 0 .. DmaSectors - 1
         /\ sectorIndex(endAddress) - sectorIndex(lba_to_chs(t_lba)) = t_count
         /\ sectorIndex(lba_to_chs(t_lba)) + t_count < DmaSectors
<1>1. t_lba + t_count \in Nat
  OBVIOUS
<1>2. PICK c \in Nat, x \in 0 .. DmaSectors - 1, y \in 0 .. DmaSectors - 1 :
        /\ c = t_lba \div DmaSectors /\ c = (t_lba + t_count) \div DmaSectors
        /\ x = t_lba % DmaSectors /\ y = (t_lba + t_count) % DmaSectors
        /\ t_lba = c * DmaSectors + x /\ t_lba + t_count = c * DmaSectors + y
  <2>1. t_lba \div DmaSectors = (t_lba + t_count) \div DmaSectors
    BY DEF WithinCylinder
  <2>2. /\ t_lba \div DmaSectors \in Nat /\ t_lba % DmaSectors \in 0 .. DmaSectors - 1
        /\ t_lba = (t_lba \div DmaSectors) * DmaSectors + (t_lba % DmaSectors)
    BY Constants, Quotient, Zenon
  <2>3. /\ (t_lba + t_count) % DmaSectors \in 0 .. DmaSectors - 1
        /\ t_lba + t_count = ((t_lba + t_count) \div DmaSectors) * DmaSectors
                               + ((t_lba + t_count) % DmaSectors)
    BY <1>1, Constants, Quotient, Zenon
  <2> QED BY <2>1, <2>2, <2>3, Zenon
<1>3. c < BYTE
  BY <1>2 DEF WithinCylinder
<1>4. lba_to_chs(t_lba).c = c /\ sectorIndex(lba_to_chs(t_lba)) = x
  BY <1>2, <1>3, Position
<1>5. endAddress.c = c /\ sectorIndex(endAddress) = y
  BY <1>1, <1>2, <1>3, Position DEF endAddress
<1>6. c * DmaSectors \in Nat
  BY Constants
<1>7. y - x = t_count /\ x + t_count < DmaSectors
  BY <1>2, <1>6, Constants
<1> QED BY <1>2, <1>4, <1>5, <1>7

\* A transfer of the whole cylinder fills the buffer from its start.
LEMMA WholeTransfer ==
  ASSUME channel \in Channel, ChannelInStep, channel.left = DmaSectors - 1,
         ~channel.masked,
         channel.mode.autoInit = TRUE, channel.mode.down = FALSE
  PROVE  /\ Moves(channel, DmaSectors) = DmaSectors
         /\ \A i \in 0 .. DmaSectors - 1 : Target(channel, i) - BUFFER = i
         /\ AfterMoves(channel, DmaSectors).left = DmaSectors - 1
         /\ ~AfterMoves(channel, DmaSectors).masked
<1> USE Constants
<1>1. /\ channel.page * SEGMENT = BUFFER /\ channel.address = 0
      /\ channel.count = DmaSectors - 1
  BY DEF ChannelInStep
<1>2. Moves(channel, DmaSectors) = DmaSectors
  BY DEF Moves
<1>3. ASSUME NEW i \in 0 .. DmaSectors - 1 PROVE Target(channel, i) - BUFFER = i
  <2>1. i \in Nat /\ i < SEGMENT
    BY <1>3
  <2>2. (channel.address + i) % SEGMENT = i
    BY <1>1, <2>1, Small
  <2> QED BY <1>1, <2>1, <2>2 DEF Target
<1>4. AfterMoves(channel, DmaSectors)
        = [channel EXCEPT !.left = channel.count, !.address = channel.base]
  <2>1. ~(DmaSectors <= channel.left)
    OBVIOUS
  <2> QED BY <2>1, Zenon DEF AfterMoves
<1>5. /\ AfterMoves(channel, DmaSectors).left = channel.count
      /\ (AfterMoves(channel, DmaSectors).masked <=> channel.masked)
  BY <1>4 DEF Channel
<1> QED BY <1>1, <1>2, <1>3, <1>5

\* Nor does one that moves nothing change the channel.
LEMMA NoTransfer ==
  ASSUME channel \in Channel, ChannelInStep
  PROVE  /\ Moves(channel, 0) = 0
         /\ AfterMoves(channel, 0).left = channel.left
         /\ (AfterMoves(channel, 0).masked <=> channel.masked)
<1>1. channel.left \in Nat
  BY Constants DEF ChannelInStep
<1>2. Moves(channel, 0) = 0
  BY <1>1 DEF Moves
<1>3. PICK a : AfterMoves(channel, 0) = [channel EXCEPT !.left = channel.left - 0, !.address = a]
  <2>1. 0 <= channel.left
    BY <1>1
  <2> QED BY <2>1, Zenon DEF AfterMoves
<1>4. /\ AfterMoves(channel, 0).left = channel.left - 0
      /\ (AfterMoves(channel, 0).masked <=> channel.masked)
  BY <1>3 DEF Channel
<1> QED BY <1>1, <1>2, <1>4

-----------------------------------------------------------------------------
LEMMA DeliveryInit == Init => DeliveryInv
BY DEF Init, DeliveryInv, WholeTransfers, AtFirst

LEMMA DeliverySend ==
  ASSUME ConfinedInv, DeliveryInv, send_command
  PROVE  DeliveryInv'
<1>1. /\ channel \in Channel /\ ChannelInStep /\ pc = "read"
      /\ channel.mode.autoInit = TRUE /\ channel.mode.down = FALSE
      /\ DOMAIN s_dmaBuffer = 0 .. DmaSectors - 1
  BY DEF ConfinedInv, send_command
<1>2. PICK n \in 0 .. DmaSectors, succeeds \in BOOLEAN :
       /\ breaks' = IF n = DmaSectors \/ (n = 0 /\ ~succeeds) THEN breaks ELSE breaks + 1
       /\ Transfer(n)
       /\ IF succeeds THEN pc' = "copy" /\ UNCHANGED attempt
          ELSE IF attempt + 1 < COMMAND_ATTEMPT_COUNT
          THEN attempt' = attempt + 1 /\ UNCHANGED pc
          ELSE pc' = "error" /\ UNCHANGED attempt
  BY DEF send_command
<1>3. UNCHANGED <<arguments, currentAddress, r_buffer, calls>>
  BY DEF send_command
<1>4. breaks' \in Nat /\ (breaks' = 0 => breaks = 0 /\ (n = DmaSectors \/ (n = 0 /\ ~succeeds)))
  BY <1>2 DEF DeliveryInv
<1>5. ASSUME breaks' = 0 PROVE WholeTransfers'
  <2>1. channel.left = DmaSectors - 1 /\ ~channel.masked
    BY <1>1, <1>4, <1>5 DEF DeliveryInv, WholeTransfers
  <2>2. channel' = AfterMoves(channel, Moves(channel, n))
    BY <1>2 DEF Transfer
  <2>3. CASE n = DmaSectors
    <3>1. channel'.left = DmaSectors - 1 /\ ~channel'.masked
      BY <1>1, <2>1, <2>2, <2>3, WholeTransfer
    <3>2. s_dmaBuffer' = [position \in 0 .. DmaSectors - 1 |->
                            currentAddress.c * DmaSectors + position]
      <4>1. /\ Moves(channel, n) = DmaSectors
            /\ \A i \in 0 .. DmaSectors - 1 : Target(channel, i) - BUFFER = i
        BY <1>1, <2>1, <2>3, WholeTransfer
      <4>2. ASSUME NEW position \in 0 .. DmaSectors - 1
            PROVE  {i \in 0 .. Moves(channel, n) - 1 : Target(channel, i) - BUFFER = position}
                     = {position}
        BY <4>1
      <4>3. \A position \in 0 .. DmaSectors - 1 :
              {position} # {} /\ (CHOOSE i \in {position} : TRUE) = position
        OBVIOUS
      <4>4. s_dmaBuffer' = [position \in DOMAIN s_dmaBuffer |->
              IF {i \in 0 .. Moves(channel, n) - 1 : Target(channel, i) - BUFFER = position} = {}
              THEN s_dmaBuffer[position]
              ELSE currentAddress.c * DmaSectors
                     + CHOOSE i \in {i \in 0 .. Moves(channel, n) - 1 :
                                       Target(channel, i) - BUFFER = position} : TRUE]
        BY <1>2, Zenon DEF Transfer
      <4>5. \A position \in 0 .. DmaSectors - 1 :
              s_dmaBuffer'[position] = currentAddress.c * DmaSectors + position
        <5> SUFFICES ASSUME NEW position \in 0 .. DmaSectors - 1
                     PROVE  s_dmaBuffer'[position] = currentAddress.c * DmaSectors + position
          OBVIOUS
        <5> DEFINE hits == {i \in 0 .. Moves(channel, n) - 1 :
                              Target(channel, i) - BUFFER = position}
        <5>1. s_dmaBuffer'[position] = IF hits = {} THEN s_dmaBuffer[position]
                ELSE currentAddress.c * DmaSectors + CHOOSE i \in hits : TRUE
          BY <1>1, <4>4, Zenon
        <5>2. hits = {position}
          BY <4>2, Zenon
        <5> HIDE DEF hits
        <5> QED BY <4>3, <5>1, <5>2, Zenon
      <4> QED BY <1>1, <4>4, <4>5
    <3> QED BY <1>3, <3>1, <3>2 DEF WholeTransfers
  <2>4. CASE n = 0 /\ ~succeeds
    <3>1. channel'.left = DmaSectors - 1 /\ ~channel'.masked
      BY <1>1, <2>1, <2>2, <2>4, NoTransfer
    <3>2. pc' # "copy"
      BY <1>1, <1>2, <2>4
    <3> QED BY <3>1, <3>2 DEF WholeTransfers
  <2> QED BY <1>4, <1>5, <2>3, <2>4
<1>6. ASSUME breaks' = 0, WithinCylinder' PROVE AtFirst'
  <2>1. AtFirst
    BY <1>3, <1>4, <1>6 DEF DeliveryInv, WithinCylinder, arguments
  <2>2. pc' \in {"read", "copy", "error"}
    BY <1>1, <1>2
  <2> QED BY <1>1, <1>3, <2>1, <2>2 DEF AtFirst, arguments
<1>7. pc' # "boot"
  BY <1>1, <1>2
<1> QED BY <1>3, <1>4, <1>5, <1>6, <1>7 DEF DeliveryInv, arguments

\* The last, and for such a request the only, sectors that are copied.
LEMMA DeliveryCopy ==
  ASSUME ConfinedInv, DeliveryInv, copy_last_cylinder, breaks = 0, WithinCylinder
  PROVE  pc' = "ready" /\ r_buffer' = Asked
<1>1. /\ currentAddress = lba_to_chs(t_lba) /\ r_buffer = << >> /\ pc = "copy"
      /\ s_dmaBuffer = [position \in 0 .. DmaSectors - 1 |->
                          currentAddress.c * DmaSectors + position]
  BY DEF DeliveryInv, AtFirst, WholeTransfers, copy_last_cylinder
<1>2. PICK c, x : c = currentAddress.c /\ x = sectorIndex(currentAddress)
  OBVIOUS
<1>3. t_lba \in Nat /\ t_count \in Nat
  BY DEF DeliveryInv
<1>4. /\ c * DmaSectors + x = t_lba /\ x \in 0 .. DmaSectors - 1
      /\ sectorIndex(endAddress) - x = t_count /\ x + t_count < DmaSectors
  BY <1>1, <1>2, <1>3, SameCylinder
<1>5. t_count % WORD = t_count
  BY <1>3, <1>4, Small, Constants, GeometryAssumption
<1>6. Len(r_buffer) = 0 /\ ~(t_count > t_count - Len(r_buffer))
  BY <1>1, <1>3
<1>7. /\ r_buffer' = r_buffer \o [k \in 1 .. t_count |-> DmaBuffer(x + k - 1)]
      /\ pc' = "ready"
  BY <1>2, <1>4, <1>5, <1>6, Zenon DEF copy_last_cylinder, memcpy
<1>8. ASSUME NEW k \in 1 .. t_count PROVE DmaBuffer(x + k - 1) = t_lba + k - 1
  <2>1. x + k - 1 \in 0 .. DmaSectors - 1
    BY <1>3, <1>4, Constants
  <2>2. DmaBuffer(x + k - 1) = c * DmaSectors + (x + k - 1)
    BY <1>1, <1>2, <2>1 DEF DmaBuffer
  <2>3. PICK p : p = c * DmaSectors
    OBVIOUS
  <2> QED BY <1>3, <1>4, <2>2, <2>3
<1>9. [k \in 1 .. t_count |-> DmaBuffer(x + k - 1)] = Asked
  BY <1>8, Zenon DEF Asked
<1>10. Asked \in Seq(Nat)
  BY <1>3 DEF Asked
<1>11. << >> \o Asked = Asked
  BY <1>10, ConcatEmptySeq, Zenon
<1> QED BY <1>1, <1>7, <1>9, <1>11, Zenon

LEMMA DeliveryStep == ConfinedInv /\ DeliveryInv /\ [Next]_vars => DeliveryInv'
<1> SUFFICES ASSUME ConfinedInv, DeliveryInv, [Next]_vars PROVE DeliveryInv'
  OBVIOUS
<1>1. CASE initialize
  <2>1. PICK page \in 0 .. BYTE - 1 : BUFFER = page * SEGMENT
    BY Constants
  <2>2. channel_count \in 0 .. SEGMENT - 1 /\ channel_count = DmaSectors - 1
    BY Constants DEF channel_count
  <2>3. channel \in Channel /\ BUFFER \in Nat /\ BYTE \in Nat \ {0}
    BY Constants DEF ConfinedInv
  <2>4. /\ initialize_channel(channel, BUFFER, channel_count).left = channel_count
        /\ ~initialize_channel(channel, BUFFER, channel_count).masked
    BY <2>1, <2>2, <2>3, InitializeChannel
  <2>5. channel'.left = DmaSectors - 1 /\ ~channel'.masked
    BY <1>1, <2>2, <2>4, Zenon DEF initialize
  <2>6. /\ pc' = "ready" /\ UNCHANGED <<arguments, r_buffer, calls, breaks>>
        /\ calls = 0
    BY <1>1 DEF initialize, DeliveryInv
  <2> QED BY <2>5, <2>6 DEF DeliveryInv, WholeTransfers, AtFirst, arguments
<1>2. CASE read_data
  <2>1. t_lba' \in Nat /\ t_count' \in Nat /\ calls' \in Nat
    BY <1>2, GeometryAssumption DEF read_data, DeliveryInv
  <2>2. UNCHANGED memory /\ pc' \in {"loop", "error"} /\ pc = "ready"
    BY <1>2 DEF read_data
  <2>3. breaks' = 0 => WholeTransfers'
    BY <2>2 DEF memory, DeliveryInv, WholeTransfers
  <2>4. AtFirst'
    BY <1>2, <2>2 DEF read_data, AtFirst
  <2> QED BY <2>1, <2>2, <2>3, <2>4 DEF DeliveryInv, memory
<1>3. CASE read_cylinder
  <2>1. channel \in Channel
    BY DEF ConfinedInv
  <2>2. channel'.left = channel.left /\ ~channel'.masked
    BY <1>3, <2>1, ReadMode DEF read_cylinder
  <2>3. /\ UNCHANGED <<arguments, currentAddress, r_buffer, s_dmaBuffer, breaks, calls>>
        /\ pc = "loop" /\ pc' = "read"
    BY <1>3 DEF read_cylinder
  <2>4. breaks' = 0 => WholeTransfers'
    BY <2>2, <2>3 DEF DeliveryInv, WholeTransfers
  <2>5. breaks' = 0 /\ WithinCylinder' => AtFirst'
    BY <2>3 DEF DeliveryInv, AtFirst, WithinCylinder, arguments
  <2> QED BY <2>3, <2>4, <2>5 DEF DeliveryInv, arguments
<1>4. CASE send_command
  BY <1>4, DeliverySend
<1>5. CASE copy_last_cylinder
  <2>1. UNCHANGED <<arguments, memory, calls>> /\ pc = "copy" /\ pc' \in {"ready", "overrun"}
    BY <1>5 DEF copy_last_cylinder, memcpy
  <2>2. breaks' = 0 => WholeTransfers'
    BY <2>1 DEF memory, DeliveryInv, WholeTransfers
  <2>3. ASSUME breaks' = 0, WithinCylinder' PROVE AtFirst'
    <3>1. breaks = 0 /\ WithinCylinder /\ Asked' = Asked
      BY <2>1, <2>3 DEF WithinCylinder, Asked, arguments, memory
    <3>2. pc' = "ready" /\ r_buffer' = Asked'
      BY <1>5, <3>1, DeliveryCopy
    <3> QED BY <3>2 DEF AtFirst
  <2> QED BY <2>1, <2>2, <2>3 DEF DeliveryInv, arguments, memory
<1>6. CASE copy_cylinder
  <2>1. /\ UNCHANGED <<arguments, memory, calls>>
        /\ pc = "copy" /\ pc' \in {"loop", "overrun"} /\ currentAddress.c # endAddress.c
    BY <1>6 DEF copy_cylinder, memcpy
  <2>2. breaks' = 0 => WholeTransfers'
    BY <2>1 DEF memory, DeliveryInv, WholeTransfers
  <2>3. ~(breaks' = 0 /\ WithinCylinder')
    <3> SUFFICES ASSUME breaks' = 0, WithinCylinder' PROVE FALSE
      OBVIOUS
    <3>1. breaks = 0 /\ WithinCylinder
      BY <2>1 DEF WithinCylinder, arguments, memory
    <3>2. currentAddress = lba_to_chs(t_lba)
      BY <2>1, <3>1 DEF DeliveryInv, AtFirst
    <3> QED BY <2>1, <3>1, <3>2, SameCylinder DEF DeliveryInv
  <2> QED BY <2>1, <2>2, <2>3 DEF DeliveryInv, arguments, memory
<1>7. CASE select_fails \/ UNCHANGED vars
  <2>1. /\ UNCHANGED <<arguments, currentAddress, r_buffer, memory, calls>>
        /\ UNCHANGED pc \/ (pc = "loop" /\ pc' = "error")
    BY <1>7 DEF select_fails, vars
  <2>2. breaks' = 0 => WholeTransfers'
    BY <2>1 DEF memory, DeliveryInv, WholeTransfers
  <2>3. breaks' = 0 /\ WithinCylinder' => AtFirst'
    BY <2>1 DEF DeliveryInv, AtFirst, WithinCylinder, Asked, arguments, memory
  <2> QED BY <2>1, <2>2, <2>3 DEF DeliveryInv, arguments, memory
<1> QED BY <1>1, <1>2, <1>3, <1>4, <1>5, <1>6, <1>7 DEF Next

\* For disks of every geometry, any calls of read_data and any repetitions of
\* the command: a request that ends before the end of its cylinder delivers the
\* sectors asked for, in order and no others, unless a transfer broke off.
THEOREM WithinCylinderDelivered == Spec => []ReadsWithinCylinder
<1>1. DeliveryInv => ReadsWithinCylinder
  BY DEF DeliveryInv, AtFirst, ReadsWithinCylinder
<1> QED BY <1>1, ConfinedInit, ConfinedStep, DeliveryInit, DeliveryStep, PTL DEF Spec
=============================================================================
