-------------------------------- MODULE Dma ---------------------------------
(***************************************************************************)
(* The DMA driver (src/src/kernel/drivers/dma/dma.cpp) for one channel of  *)
(* the 8237, whose 16-bit registers are written byte by byte through one   *)
(* port: a flip-flop says which byte is next.  Bytes are below BYTE, and   *)
(* what is moved in one go, a sector, counts as one.                       *)
(***************************************************************************)
EXTENDS Integers

CONSTANT BYTE   \* u8 has the values 0 .. BYTE - 1

SEGMENT == BYTE * BYTE   \* what the 16 bits of an address reach

Mode == [type : 0 .. 3, autoInit : BOOLEAN, down : BOOLEAN]
Channel == [masked : BOOLEAN, high : BOOLEAN, page : 0 .. BYTE - 1, mode : Mode,
            base : 0 .. SEGMENT - 1, address : 0 .. SEGMENT - 1,
            count : 0 .. SEGMENT - 1, left : 0 .. SEGMENT - 1]

-----------------------------------------------------------------------------
(* The channel: high is the flip-flop; base and count are what a register  *)
(* was set to, address and left where the transfer stands.                 *)

mask(channel, on) == [channel EXCEPT !.masked = on]
reset_flip_flop(channel) == [channel EXCEPT !.high = FALSE]

WithByte(register, high, byte) ==
  IF high THEN (register % BYTE) + byte * BYTE
          ELSE (register \div BYTE) * BYTE + byte

write_address(channel, byte) ==
  LET a == WithByte(channel.base, channel.high, byte)
  IN [channel EXCEPT !.base = a, !.address = a, !.high = ~channel.high]

write_count(channel, byte) ==
  LET n == WithByte(channel.count, channel.high, byte)
  IN [channel EXCEPT !.count = n, !.left = n, !.high = ~channel.high]

\* How many of n transfers take place: none behind the terminal count, which
\* comes with the transfer that finds left = 0.  Their direction is the floppy
\* command's, as in the emulator of start.sh, whatever the type in the mode.
Moves(channel, n) ==
  IF channel.masked THEN 0
  ELSE IF n <= channel.left THEN n ELSE channel.left + 1

\* Where in memory transfer i, counted from 0, goes; the page stays.
Target(channel, i) ==
  channel.page * SEGMENT
    + ((channel.address + (IF channel.mode.down THEN -i ELSE i)) % SEGMENT)

AfterMoves(channel, n) ==
  IF n <= channel.left
  THEN [channel EXCEPT !.left = @ - n,
          !.address = (@ + (IF channel.mode.down THEN -n ELSE n)) % SEGMENT]
  ELSE IF channel.mode.autoInit
  THEN [channel EXCEPT !.left = channel.count, !.address = channel.base]
  ELSE mask(channel, TRUE)

-----------------------------------------------------------------------------
(* The driver.                                                             *)

program_address(channel, bufferAddress) ==
  [write_address(write_address(reset_flip_flop(channel), bufferAddress % BYTE),
                 (bufferAddress \div BYTE) % BYTE)
     EXCEPT !.page = (bufferAddress \div SEGMENT) % BYTE]

program_count(channel, t_count) ==
  write_count(write_count(reset_flip_flop(channel), t_count % BYTE),
              (t_count \div BYTE) % BYTE)

initialize_channel(channel, bufferAddress, t_count) ==
  mask(program_count(program_address(mask(channel, TRUE), bufferAddress), t_count), FALSE)

set_mode(channel, t_transferType, t_autoInit, t_down) ==
  mask([channel EXCEPT !.mode = [type |-> t_transferType, autoInit |-> t_autoInit,
                                 down |-> t_down]], FALSE)
=============================================================================
