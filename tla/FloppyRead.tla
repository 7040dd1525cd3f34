----------------------------- MODULE FloppyRead -----------------------------
(***************************************************************************)
(* Which sectors read_data of the floppy driver                            *)
(* (src/src/kernel/drivers/disk/floppy/floppy.cpp) delivers: its loop over *)
(* cylinders, each read as a whole into the DMA buffer through the channel *)
(* of module Dma, and the parts of them it copies to the caller.  Offsets  *)
(* and byte counts are multiples of SECTOR_SIZE, so everything is counted  *)
(* in sectors.  The protocol of the command is in module FloppyDisk.       *)
(***************************************************************************)
EXTENDS Dma, Sequences

CONSTANTS SECTORS_PER_CYLINDER,  \* of one side, in spite of its name
          HEAD_COUNT,
          COMMAND_ATTEMPT_COUNT,
          BUFFER,      \* address of s_dmaBuffer
          WORD,        \* size_t has the values 0 .. WORD - 1, counted in sectors
          Addresses,   \* values of t_lba
          Counts,      \* values of t_count
          Left,        \* what the BIOS leaves in the channel
          MaxCalls,    \* bound: calls of read_data
          MaxBreaks    \* bound: transfers that break off

DmaSectors == SECTORS_PER_CYLINDER * HEAD_COUNT

\* s_dmaBuffer is aligned to what a channel can reach.
ASSUME GeometryAssumption ==
  /\ SECTORS_PER_CYLINDER \in Nat \ {0} /\ HEAD_COUNT \in Nat \ {0}
  /\ COMMAND_ATTEMPT_COUNT \in Nat \ {0}
  /\ BYTE \in Nat \ {0} /\ WORD \in Nat
  /\ DmaSectors < WORD /\ SECTORS_PER_CYLINDER < BYTE /\ DmaSectors <= SEGMENT
  /\ BUFFER \in {page * SEGMENT : page \in 0 .. BYTE - 1}
  /\ Addresses \subseteq Nat /\ Counts \subseteq Nat
  /\ Left \subseteq Channel
  /\ MaxCalls \in Nat /\ MaxBreaks \in Nat

VARIABLES t_lba, t_count,  \* the arguments of the call, or of the last one
          currentAddress,  \* c, h, s
          attempt,         \* i in execute_command
          r_buffer,        \* what the caller's buffer holds so far
          s_dmaBuffer,     \* which sector each part of it holds
          channel,         \* DMA channel 2
          pc,              \* "boot", "ready", "loop", "read", "copy", "error", "overrun"
          calls, breaks,   \* history: calls so far, transfers that broke off
          strayed          \* history: a transfer wrote beside s_dmaBuffer

arguments == <<t_lba, t_count>>
memory == <<s_dmaBuffer, channel, breaks, strayed>>
vars == <<arguments, currentAddress, attempt, r_buffer, memory, pc, calls>>

\* Mutant: sectors are counted from 0, as the sides are.
lba_to_chs_FromZero(lba) ==
  [c |-> (lba \div DmaSectors) % BYTE,
   h |-> (lba \div SECTORS_PER_CYLINDER) % HEAD_COUNT,
   s |-> lba % SECTORS_PER_CYLINDER]

lba_to_chs(lba) ==
  [c |-> (lba \div DmaSectors) % BYTE,
   h |-> (lba \div SECTORS_PER_CYLINDER) % HEAD_COUNT,
   s |-> (lba % SECTORS_PER_CYLINDER) + 1]

endAddress == lba_to_chs(t_lba + t_count)

get_next_cylinder(a) == [c |-> (a.c + 1) % BYTE, h |-> 0, s |-> 0]

\* The position of an address in the DMA buffer: -1 for sector 0 of side 0,
\* which as a size_t leads to the memory before the buffer all the same.
sectorIndex(a) == a.h * SECTORS_PER_CYLINDER + (a.s - 1)

\* The contents of memory that belongs to no cylinder read.
Outside == -1

DmaBuffer(position) ==
  IF position \in DOMAIN s_dmaBuffer THEN s_dmaBuffer[position] ELSE Outside

\* memcpy of count sectors, which may run over the end of the caller's buffer:
\* a difference below 0 is a count of nearly 4 GiB.
memcpy(position, count, label) ==
  IF count % WORD > t_count - Len(r_buffer)
  THEN pc' = "overrun" /\ UNCHANGED r_buffer
  ELSE /\ r_buffer' = r_buffer \o
            [k \in 1 .. count % WORD |-> DmaBuffer(position + k - 1)]
       /\ pc' = label

-----------------------------------------------------------------------------
Init == /\ t_lba = 0 /\ t_count = 0
        /\ currentAddress = [c |-> 0, h |-> 0, s |-> 1] /\ attempt = 0
        /\ r_buffer = << >>
        /\ s_dmaBuffer = [i \in 0 .. DmaSectors - 1 |-> Outside]
        /\ channel \in Left
        /\ pc = "boot"
        /\ calls = 0 /\ breaks = 0 /\ strayed = FALSE

\* Mutant: the count is the size of the buffer.
channel_count_Size == DmaSectors

\* The channel transfers one more than its count says.
channel_count == DmaSectors - 1

\* The end of FloppyDisk::initialize.
initialize ==
  /\ pc = "boot"
  /\ channel' = initialize_channel(channel, BUFFER, channel_count)
  /\ pc' = "ready"
  /\ UNCHANGED <<arguments, currentAddress, attempt, r_buffer, s_dmaBuffer,
                 calls, breaks, strayed>>

read_data ==
  /\ pc = "ready" /\ calls < MaxCalls
  /\ calls' = calls + 1
  /\ t_lba' \in Addresses /\ t_count' \in Counts
  /\ r_buffer' = << >>
  /\ IF t_count' > 0
     THEN pc' = "loop" /\ currentAddress' = lba_to_chs(t_lba')
     ELSE pc' = "error" /\ UNCHANGED currentAddress
  /\ UNCHANGED <<attempt, memory>>

\* read_cylinder: select_drive fails, or the channel is made ready.
select_fails ==
  /\ pc = "loop" /\ pc' = "error"
  /\ UNCHANGED <<arguments, currentAddress, attempt, r_buffer, memory, calls>>

read_cylinder ==
  /\ pc = "loop" /\ pc' = "read"
  /\ channel' = set_mode(channel, 2, TRUE, FALSE)
  /\ attempt' = 0
  /\ UNCHANGED <<arguments, currentAddress, r_buffer, s_dmaBuffer, breaks,
                 strayed, calls>>

\* The controller sends the first n sectors of the cylinder, as far as the
\* channel takes them.
Transfer(n) ==
  LET moved == Moves(channel, n)
      IndexOf(i) == Target(channel, i) - BUFFER
      Hits(position) == {i \in 0 .. moved - 1 : IndexOf(i) = position}
  IN /\ s_dmaBuffer' = [position \in DOMAIN s_dmaBuffer |->
                          IF Hits(position) = {} THEN s_dmaBuffer[position]
                          ELSE currentAddress.c * DmaSectors + CHOOSE i \in Hits(position) : TRUE]
     /\ strayed' = (strayed \/ \E i \in 0 .. moved - 1 : IndexOf(i) \notin DOMAIN s_dmaBuffer)
     /\ channel' = AfterMoves(channel, moved)

\* One send_command of READ_DATA.  The result bytes, which tell whether all
\* sectors were read, are received but not looked at.
send_command ==
  /\ pc = "read"
  /\ \E n \in 0 .. DmaSectors, succeeds \in BOOLEAN :
       /\ breaks' = IF n = DmaSectors \/ (n = 0 /\ ~succeeds) THEN breaks ELSE breaks + 1
       /\ breaks' <= MaxBreaks
       /\ Transfer(n)
       /\ IF succeeds THEN pc' = "copy" /\ UNCHANGED attempt
          ELSE IF attempt + 1 < COMMAND_ATTEMPT_COUNT
          THEN attempt' = attempt + 1 /\ UNCHANGED pc
          ELSE pc' = "error" /\ UNCHANGED attempt
  /\ UNCHANGED <<arguments, currentAddress, r_buffer, calls>>

copy_cylinder ==
  /\ pc = "copy" /\ currentAddress.c # endAddress.c
  /\ memcpy(sectorIndex(currentAddress),
            SECTORS_PER_CYLINDER - sectorIndex(currentAddress) - 1, "loop")
  /\ currentAddress' = get_next_cylinder(currentAddress)
  /\ UNCHANGED <<arguments, attempt, memory, calls>>

\* Behind the loop; endAddress.s is never 0, so the condition always holds.
copy_last_cylinder ==
  /\ pc = "copy" /\ currentAddress.c = endAddress.c
  /\ memcpy(sectorIndex(currentAddress),
            sectorIndex(endAddress) - sectorIndex(currentAddress), "ready")
  /\ UNCHANGED <<arguments, currentAddress, attempt, memory, calls>>

Next == \/ initialize \/ read_data \/ select_fails \/ read_cylinder
        \/ send_command \/ copy_cylinder \/ copy_last_cylinder

Spec == Init /\ [][Next]_vars

-----------------------------------------------------------------------------
Asked == [k \in 1 .. t_count |-> t_lba + k - 1]

WithinCylinder == /\ t_lba \div DmaSectors = (t_lba + t_count) \div DmaSectors
                  /\ t_lba \div DmaSectors < BYTE

\* A request that ends before the end of the cylinder it begins in delivers its
\* sectors, in order and no others, on both sides of the disk and across them,
\* whatever was read before, however often the command was repeated and
\* whatever the BIOS left in the channel, as long as no transfer broke off.
ReadsWithinCylinder ==
  breaks = 0 /\ WithinCylinder /\ calls > 0 =>
    pc # "overrun" /\ (pc = "ready" => r_buffer = Asked)

\* The controller writes to s_dmaBuffer and nowhere else, also when transfers
\* broke off and the channel was left in the middle of the buffer.
BufferConfined == ~strayed
=============================================================================
