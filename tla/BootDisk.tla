------------------------------ MODULE BootDisk ------------------------------
(***************************************************************************)
(* The disk reader of the bootloader (src/src/bootloader/bootloader.asm):  *)
(* one sector per BIOS call, three attempts each, from the position after  *)
(* the sector read last.                                                   *)
(*                                                                         *)
(* A sector of the disk is its number; what a sector-sized piece of memory *)
(* holds is the number of the sector it was read from.                     *)
(***************************************************************************)
EXTENDS Integers, Sequences

CONSTANTS SECTOR_COUNT, HEAD_COUNT, CYLINDER_COUNT,
          FLOPPY_READ_ATTEMPT_COUNT,
          SECTORS_PER_SEGMENT,  \* a segment is what bx can address
          BOOT1_SECTORS,        \* size of the file of stage 1
          MaxSectors,           \* bound: the size a sector that is no header gives
          MaxFailures           \* bound: how often int 13h fails

ASSUME BootDiskAssumption ==
  /\ {SECTOR_COUNT, HEAD_COUNT, CYLINDER_COUNT, FLOPPY_READ_ATTEMPT_COUNT,
      SECTORS_PER_SEGMENT, BOOT1_SECTORS} \subseteq Nat \ {0}
  /\ SECTOR_COUNT > 1  \* the sector behind the boot sector is in its track
  /\ BOOT1_SECTORS <= MaxSectors /\ MaxSectors \in Nat /\ MaxFailures \in Nat
  /\ BOOT1_SECTORS <= SECTORS_PER_SEGMENT

VARIABLES position,    \* CURRENT_CYLINDER_ADDR, CURRENT_HEAD_ADDR, CURRENT_SECTOR_ADDR
          attempts,    \* cx in read_next_floppy_sector_repeated
          es, bx,      \* where the next sector goes, in segments and sectors
          left,        \* cx in read_sectors
          rest,        \* cx in read_sectors_multi_segment
          stage1,      \* memory from STAGE1_LOAD_ADDR on
          buffer,      \* memory from 0x10000 on
          failures,    \* history: failed calls of int 13h
          gaveUp       \* history: a sector was never read

reader == <<position, attempts, es, bx, left, rest>>
disk == <<reader, stage1, buffer, failures, gaveUp>>

\* Contents of memory that come from no sector that is ever read.
ZERO == 0
GARBAGE == -1

\* The image is the boot sector and an archive: a header and its file, twice.
BOOT1_HEADER == 1
BOOT1_FILE == 2
KERNEL_HEADER == BOOT1_FILE + BOOT1_SECTORS
KERNEL_FILE == KERNEL_HEADER + 1

SectorAt(p) == (p.cylinder * HEAD_COUNT + p.head) * SECTOR_COUNT + p.sector - 1

\* The cylinder is compared and counted in a register that holds the head,
\* which has just been reset.
increment_floppy_position(p) ==
  IF p.sector < SECTOR_COUNT THEN [p EXCEPT !.sector = @ + 1]
  ELSE IF p.head < HEAD_COUNT - 1 THEN [p EXCEPT !.sector = 1, !.head = @ + 1]
  ELSE [cylinder |-> IF 0 < CYLINDER_COUNT THEN 0 + 1 ELSE 0, head |-> 0, sector |-> 1]

DiskInit ==
  /\ position = [cylinder |-> 0, head |-> 0, sector |-> 2]
  /\ attempts = FLOPPY_READ_ATTEMPT_COUNT
  /\ es = 0 /\ bx = 0 /\ left = 1 /\ rest = 0
  /\ stage1 = [i \in 0 .. MaxSectors - 1 |-> GARBAGE]
  /\ buffer = [i \in 0 .. MaxSectors - 1 |-> GARBAGE]
  /\ failures = 0 /\ gaveUp = FALSE

Address == es * SECTORS_PER_SEGMENT + bx

\* read_next_floppy_sector succeeds, and memory gets the sector.
ReadsInto(memory) ==
  /\ memory' = [memory EXCEPT ![Address] = SectorAt(position)]
  /\ position' = increment_floppy_position(position)
  /\ attempts' = FLOPPY_READ_ATTEMPT_COUNT
  /\ UNCHANGED <<failures, gaveUp>>

\* It fails, and there are attempts left.
RetriesSector ==
  /\ failures < MaxFailures /\ failures' = failures + 1
  /\ attempts > 1 /\ attempts' = attempts - 1
  /\ UNCHANGED <<position, es, bx, left, rest, stage1, buffer, gaveUp>>

\* The last attempt fails.  The comparison that ends the loop clears the carry
\* flag: the caller goes on, and the next slot of memory gets this sector.
GivesUpSector ==
  /\ failures < MaxFailures /\ failures' = failures + 1
  /\ attempts = 1 /\ attempts' = FLOPPY_READ_ATTEMPT_COUNT
  /\ gaveUp' = TRUE
  /\ UNCHANGED <<position, stage1, buffer>>

\* One of read_sectors' sectors follows another.
MoreSectors == left > 1

\* Mutant: the sectors are not counted.
NextSector_Uncounted ==
  bx' = (bx + 1) % SECTORS_PER_SEGMENT /\ UNCHANGED <<left, es, rest>>

\* bx wraps at the end of the segment.
NextSector ==
  left' = left - 1 /\ bx' = (bx + 1) % SECTORS_PER_SEGMENT /\ UNCHANGED <<es, rest>>

\* read_sectors is called for n sectors behind es:0, of which at most a segment
\* is read at once.
read_sectors(n) ==
  /\ left' = IF n < SECTORS_PER_SEGMENT THEN n ELSE SECTORS_PER_SEGMENT
  /\ rest' = n - left'
  /\ bx' = 0

\* Mutant: every segment is read to the same place.
NextSegment_Same == read_sectors(rest) /\ UNCHANGED es

NextSegment == read_sectors(rest) /\ es' = es + 1

\* ustar_read_file_size and ceil_div: any other sector gives any size.
SizesIn(content, header, sectors) ==
  IF content = header THEN {sectors} ELSE 0 .. MaxSectors
=============================================================================
