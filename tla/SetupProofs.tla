------------------------------ MODULE SetupProofs -----------------------------
(***************************************************************************)
(* What is set up before the system runs.                                  *)
(*                                                                         *)
(* The kernel, in module Bootloader: as long as every sector is read and   *)
(* the cylinders are counted right, the kernel that is entered is the one  *)
(* on the disk, for every disk, kernel and size of a segment.              *)
(*                                                                         *)
(* The memory map, in the same module: the kernel finds what the BIOS      *)
(* reported, and its heap ends where one of the reported ranges does, for  *)
(* every map and every size of the tables.                                 *)
(*                                                                         *)
(* The keyboard, in module PS2Controller: what is ready can be used,       *)
(* whatever the hardware did; in time, only keyboards get ready, and a     *)
(* keyboard whose controller opens the port does.  For any number of       *)
(* refusals and touched keys.                                              *)
(***************************************************************************)
EXTENDS Bootloader, PS2Controller, SequenceTheorems, TLAPS

-----------------------------------------------------------------------------
(***************************************************************************)
(* The kernel.  At every step of the disk reader the invariant says which  *)
(* sector comes next, what has been read so far, and how far the next      *)
(* slot of memory is from the end.                                         *)
(***************************************************************************)

TwoCylinders == 2 * HEAD_COUNT * SECTOR_COUNT

Intact == ~gaveUp /\ KERNEL_FILE + kernel.sectors <= TwoCylinders

Positions == [cylinder : 0 .. 1, head : 0 .. HEAD_COUNT - 1, sector : 1 .. SECTOR_COUNT]

\* The next sector is k, as far as the cylinder is counted.
NextIs(k) == k < TwoCylinders => position \in Positions /\ SectorAt(position) = k

HasBoot1(n) == \A i \in 0 .. n - 1 : stage1[i] = BOOT1_FILE + i
HasKernel(n) == \A i \in 0 .. n - 1 : buffer[i] = KERNEL_FILE + i

\* Stage 1 is loaded, one sector behind the other.
Boot1Loading ==
  /\ phase \in {"reset", "boot1_header"} => NextIs(BOOT1_HEADER) /\ es = 0 /\ bx = 0
  /\ phase = "boot1" => /\ es = 0 /\ bx \in 0 .. BOOT1_SECTORS - 1
                        /\ left = BOOT1_SECTORS - bx
                        /\ NextIs(BOOT1_FILE + bx) /\ HasBoot1(bx)
  /\ phase = "jump" => HasBoot1(BOOT1_SECTORS)

\* The kernel is, segment by segment.
KernelLoading ==
  /\ phase \in {"jump", "memory_info", "memory_loop", "kernel_header"} =>
       NextIs(KERNEL_HEADER)
  /\ phase = "kernel_header" => es = 0 /\ bx = 0
  /\ phase = "kernel" =>
       /\ es \in Nat /\ bx \in 0 .. SECTORS_PER_SEGMENT - 1
       /\ left \in 1 .. SECTORS_PER_SEGMENT - bx /\ rest \in Nat
       /\ Address + left + rest = kernel.sectors
       /\ rest > 0 => bx + left = SECTORS_PER_SEGMENT
       /\ NextIs(KERNEL_FILE + Address) /\ HasKernel(Address)
  /\ phase \in {"a20", "a20_keyboard", "elf"} => HasKernel(kernel.sectors)

\* The first n program headers have been loaded, and nothing over them.
Loaded(n) ==
  \A i \in 1 .. n :
    LET s == kernel.segments[i]
    IN s.type = PT_LOAD =>
         \A j \in 0 .. s.memsz - 1 :
           /\ s.vaddr + j \in DOMAIN image
           /\ image[s.vaddr + j] = IF j < s.filesz THEN KERNEL_FILE + s.offset + j ELSE ZERO

IsMemory(m) == m = [i \in 0 .. MaxSectors - 1 |-> m[i]]

BootIInv == /\ kernel \in Kernels /\ index \in 0 .. Len(kernel.segments)
            /\ IsMemory(stage1) /\ IsMemory(buffer)
            /\ phase = "kernel_started" => index = Len(kernel.segments)
            /\ Intact => Boot1Loading /\ KernelLoading /\ Loaded(index) /\ phase # "astray"

-----------------------------------------------------------------------------
LEMMA Sizes ==
  /\ SECTOR_COUNT \in Nat /\ SECTOR_COUNT > 1 /\ HEAD_COUNT \in Nat /\ HEAD_COUNT > 0
  /\ SECTORS_PER_SEGMENT \in Nat /\ SECTORS_PER_SEGMENT > 0
  /\ BOOT1_SECTORS \in Nat /\ BOOT1_SECTORS > 0 /\ MaxSectors \in Nat
  /\ BOOT1_SECTORS <= MaxSectors /\ BOOT1_SECTORS <= SECTORS_PER_SEGMENT
  /\ CYLINDER_COUNT \in Nat /\ CYLINDER_COUNT > 0
BY BootDiskAssumption

LEMMA Product == ASSUME NEW a \in Nat, NEW b \in Nat
                 PROVE  /\ a * b \in Nat /\ (a + 1) * b = a * b + b
                        /\ b > 0 => a <= a * b
OBVIOUS

\* Behind the last sector of a track the next track begins.
LEMMA NextSectorFollows ==
  ASSUME NEW k \in Nat, k + 1 < TwoCylinders, position \in Positions,
         SectorAt(position) = k
  PROVE  /\ increment_floppy_position(position) \in Positions
         /\ SectorAt(increment_floppy_position(position)) = k + 1
<1> DEFINE c == position.cylinder
           h == position.head
           s == position.sector
           n == increment_floppy_position(position)
<1>1. /\ c \in 0 .. 1 /\ h \in 0 .. HEAD_COUNT - 1 /\ s \in 1 .. SECTOR_COUNT
      /\ position = [cylinder |-> c, head |-> h, sector |-> s]
  BY DEF Positions
<1>2. k = (c * HEAD_COUNT + h) * SECTOR_COUNT + s - 1
  BY DEF SectorAt
<1>3. CASE s < SECTOR_COUNT
  <2>1. n = [cylinder |-> c, head |-> h, sector |-> s + 1]
    BY <1>1, <1>3 DEF increment_floppy_position
  <2>2. (c * HEAD_COUNT + h) * SECTOR_COUNT \in Int
    BY <1>1, Sizes
  <2> QED
    BY <1>1, <1>2, <1>3, <2>1, <2>2, Sizes DEF Positions, SectorAt
<1>4. CASE s = SECTOR_COUNT /\ h < HEAD_COUNT - 1
  <2>1. n = [cylinder |-> c, head |-> h + 1, sector |-> 1]
    <3>1. n = [position EXCEPT !.sector = 1, !.head = @ + 1]
      BY <1>1, <1>4, Sizes DEF increment_floppy_position
    <3> HIDE DEF n
    <3> QED
      BY <1>1, <3>1
  <2>2. c * HEAD_COUNT + h \in Nat
    BY <1>1, Sizes
  <2>3. (c * HEAD_COUNT + h + 1) * SECTOR_COUNT = (c * HEAD_COUNT + h) * SECTOR_COUNT + SECTOR_COUNT
    BY <2>2, Product, Sizes
  <2>4. c * HEAD_COUNT + (h + 1) = c * HEAD_COUNT + h + 1
    BY <1>1, <2>2, Sizes
  <2>5. (c * HEAD_COUNT + h) * SECTOR_COUNT \in Nat
    BY <2>2, Product, Sizes
  <2>6. SectorAt(n) = (c * HEAD_COUNT + h + 1) * SECTOR_COUNT + 1 - 1
    BY <2>1, <2>4 DEF SectorAt
  <2>7. SectorAt(n) = k + 1
    BY <1>2, <1>4, <2>3, <2>5, <2>6, Sizes
  <2> QED
    BY <1>1, <1>4, <2>1, <2>7, Sizes DEF Positions
<1>5. CASE s = SECTOR_COUNT /\ h = HEAD_COUNT - 1
  <2>1. HEAD_COUNT * SECTOR_COUNT \in Nat
    BY Product, Sizes
  <2>2. (c * HEAD_COUNT + h + 1) * SECTOR_COUNT = k + 1
    <3>1. c * HEAD_COUNT + h \in Nat
      BY <1>1, Sizes
    <3>2. (c * HEAD_COUNT + h + 1) * SECTOR_COUNT
            = (c * HEAD_COUNT + h) * SECTOR_COUNT + SECTOR_COUNT
      BY <3>1, Product, Sizes
    <3>3. (c * HEAD_COUNT + h) * SECTOR_COUNT \in Nat
      BY <3>1, Product, Sizes
    <3> QED
      BY <1>2, <1>5, <3>2, <3>3, Sizes
  <2>3. c = 0
    <3>1. SUFFICES ASSUME c = 1 PROVE FALSE
      BY <1>1
    <3>2. c * HEAD_COUNT + h + 1 = 2 * HEAD_COUNT
      BY <1>5, <3>1, Sizes
    <3> QED
      BY <2>2, <3>2 DEF TwoCylinders
  <2>4. c * HEAD_COUNT + h + 1 = HEAD_COUNT
    BY <1>5, <2>3, Sizes
  <2>5. n = [cylinder |-> 1, head |-> 0, sector |-> 1]
    BY <1>1, <1>5, Sizes DEF increment_floppy_position
  <2>6. SectorAt(n) = (1 * HEAD_COUNT + 0) * SECTOR_COUNT + 1 - 1
    BY <2>5 DEF SectorAt
  <2>7. 1 * HEAD_COUNT + 0 = HEAD_COUNT
    BY Sizes
  <2>8. SectorAt(n) = k + 1
    BY <2>1, <2>2, <2>4, <2>6, <2>7
  <2> QED
    BY <2>5, <2>8, Sizes DEF Positions
<1> QED
  BY <1>1, <1>3, <1>4, <1>5, Sizes

LEMMA ReadingAdvances ==
  ASSUME NEW k \in Nat, k < TwoCylinders, NextIs(k),
         position' = increment_floppy_position(position)
  PROVE  /\ SectorAt(position) = k
         /\ k + 1 < TwoCylinders => position' \in Positions /\ SectorAt(position') = k + 1
<1>1. position \in Positions /\ SectorAt(position) = k
  BY DEF NextIs
<1>2. ASSUME k + 1 < TwoCylinders
      PROVE  position' \in Positions /\ SectorAt(position') = k + 1
  BY <1>1, <1>2, NextSectorFollows
<1> QED
  BY <1>1, <1>2

\* Writing a slot of memory changes this slot only.
LEMMA SlotWritten ==
  ASSUME NEW m, NEW m2, NEW a, NEW v, IsMemory(m), m2 = [m EXCEPT ![a] = v]
  PROVE  /\ IsMemory(m2)
         /\ \A i \in 0 .. MaxSectors - 1 : m2[i] = IF i = a THEN v ELSE m[i]
BY DEF IsMemory

LEMMA Headers ==
  ASSUME NEW k \in Kernels
  PROVE  /\ k.sectors \in Nat /\ k.sectors > 0 /\ k.sectors <= MaxSectors
         /\ Len(k.segments) \in Nat /\ DOMAIN k.segments = 1 .. Len(k.segments)
         /\ \A i \in 1 .. Len(k.segments) :
              LET s == k.segments[i]
              IN /\ s.offset \in Nat /\ s.vaddr \in Nat /\ s.filesz \in Nat /\ s.memsz \in Nat
                 /\ s.offset + s.filesz <= k.sectors /\ s.filesz <= s.memsz
<1> DEFINE Header == [type : STRING, offset : Nat, vaddr : Nat, filesz : Nat, memsz : Nat]
<1>1. k.sectors \in 1 .. MaxSectors /\ k.segments \in Seq(Header)
  BY KernelsAssumption
<1>2. Len(k.segments) \in Nat /\ DOMAIN k.segments = 1 .. Len(k.segments)
  BY <1>1
<1>3. ASSUME NEW i \in 1 .. Len(k.segments)
      PROVE  LET s == k.segments[i]
             IN s.offset \in Nat /\ s.vaddr \in Nat /\ s.filesz \in Nat /\ s.memsz \in Nat
  <2>1. k.segments[i] \in Header
    <3> HIDE DEF Header
    <3> QED
      BY <1>1, <1>2
  <2> QED
    BY <2>1
<1>4. \A i \in 1 .. Len(k.segments) :
        LET s == k.segments[i]
        IN s.offset + s.filesz <= k.sectors /\ s.filesz <= s.memsz
  BY <1>2, KernelsAssumption
<1>5. k.sectors \in Nat /\ k.sectors > 0 /\ k.sectors <= MaxSectors
  BY <1>1, Sizes
<1> HIDE DEF Header
<1> QED
  BY <1>2, <1>3, <1>4, <1>5

-----------------------------------------------------------------------------
LEMMA BootInitIInv == BootInit => BootIInv
<1> SUFFICES ASSUME BootInit PROVE BootIInv
  OBVIOUS
<1> USE DEF BootInit, DiskInit
<1>1. kernel \in Kernels /\ index \in 0 .. Len(kernel.segments)
  BY Headers
<1>2. IsMemory(stage1) /\ IsMemory(buffer)
  BY DEF IsMemory
<1>3. NextIs(BOOT1_HEADER)
  <2>1. position \in Positions
    BY Sizes DEF Positions
  <2>2. 0 * HEAD_COUNT + 0 = 0 /\ 0 * SECTOR_COUNT = 0
    BY Sizes
  <2> QED
    BY <2>1, <2>2 DEF NextIs, SectorAt, BOOT1_HEADER
<1>4. Boot1Loading /\ KernelLoading
  BY <1>3 DEF Boot1Loading, KernelLoading
<1>5. Loaded(index)
  BY DEF Loaded
<1> QED
  BY <1>1, <1>2, <1>4, <1>5 DEF BootIInv

-----------------------------------------------------------------------------
(* Steps that read nothing.                                                *)

\* What is loaded stays.
LEMMA KernelStays ==
  ASSUME BootIInv, UNCHANGED <<kernel, index, image>>
  PROVE  /\ kernel' \in Kernels /\ index' \in 0 .. Len(kernel'.segments)
         /\ Loaded(index) => Loaded(index)'
BY DEF BootIInv, Loaded

\* A step that only goes on to the next phase needs to show only that what this
\* phase asks for is there.
LEMMA GoesOn ==
  ASSUME BootIInv, UNCHANGED <<kernel, index, image, position, stage1, buffer, gaveUp>>,
         phase' = "kernel_started" => index = Len(kernel.segments),
         Intact /\ Boot1Loading /\ KernelLoading =>
           Boot1Loading' /\ KernelLoading' /\ phase' # "astray"
  PROVE  BootIInv'
<1>1. Intact' => Intact
  BY DEF Intact, TwoCylinders, KERNEL_FILE, KERNEL_HEADER
<1>2. IsMemory(stage1)' /\ IsMemory(buffer)'
  BY DEF BootIInv, IsMemory
<1>3. phase' = "kernel_started" => index' = Len(kernel'.segments)
  OBVIOUS
<1>4. Intact => Boot1Loading /\ KernelLoading /\ Loaded(index)
  BY DEF BootIInv
<1> QED
  BY <1>1, <1>2, <1>3, <1>4, KernelStays DEF BootIInv

LEMMA RetryStep == ASSUME BootIInv, retry_sector PROVE BootIInv'
<1>1. /\ UNCHANGED <<phase, kernel, index, image, position, es, bx, left, rest>>
      /\ UNCHANGED <<stage1, buffer, gaveUp>>
  BY DEF retry_sector, RetriesSector, Goes
<1>2. phase' = "kernel_started" => index = Len(kernel.segments)
  BY <1>1 DEF BootIInv
<1>3. Boot1Loading => Boot1Loading'
  BY <1>1 DEF Boot1Loading, NextIs, HasBoot1, TwoCylinders, Positions, SectorAt
<1>4. KernelLoading => KernelLoading'
  BY <1>1 DEF KernelLoading, NextIs, HasKernel, TwoCylinders, Positions, SectorAt, Address
<1>5. Intact => phase # "astray"
  BY DEF BootIInv
<1> QED
  BY <1>1, <1>2, <1>3, <1>4, <1>5, GoesOn

LEMMA MoveStep ==
  ASSUME BootIInv,
         \/ stage0_start \/ jump_boot1 \/ load_system_memory_info \/ lsmi_loop
         \/ enable_a20 \/ a20wait \/ invalid_elf \/ jump_kernel
         \/ kernel_memory_range \/ kernel_memory \/ UNCHANGED bootVars
  PROVE  BootIInv'
<1>1. /\ UNCHANGED <<kernel, index, image, position, es, bx, left, rest>>
      /\ UNCHANGED <<stage1, buffer, gaveUp>>
  BY DEF stage0_start, jump_boot1, load_system_memory_info, lsmi_loop, enable_a20, a20wait,
         invalid_elf, jump_kernel, kernel_memory_range, kernel_memory, Goes, bootVars,
         disk, reader
<1>2. phase' = "kernel_started" => index = Len(kernel.segments)
  BY DEF stage0_start, jump_boot1, load_system_memory_info, lsmi_loop, enable_a20, a20wait,
         invalid_elf, jump_kernel, kernel_memory_range, kernel_memory, Goes, bootVars, BootIInv
<1> SUFFICES ASSUME Intact, Boot1Loading, KernelLoading
             PROVE  Boot1Loading' /\ KernelLoading' /\ phase' # "astray"
  BY <1>1, <1>2, GoesOn
<1>3. /\ HasBoot1(BOOT1_SECTORS)' <=> HasBoot1(BOOT1_SECTORS)
      /\ HasKernel(kernel.sectors) => HasKernel(kernel.sectors)'
      /\ NextIs(BOOT1_HEADER) => NextIs(BOOT1_HEADER)'
      /\ NextIs(KERNEL_HEADER) => NextIs(KERNEL_HEADER)'
  BY <1>1 DEF HasBoot1, HasKernel, NextIs, TwoCylinders, Positions, SectorAt,
              BOOT1_HEADER, KERNEL_HEADER, BOOT1_FILE
<1>4. \/ phase' = phase
      \/ phase = "reset" /\ phase' \in {"boot1_header", "stopped"}
      \/ phase = "jump" /\ phase' = "memory_info"
      \/ phase = "memory_info" /\ phase' \in {"stopped", "memory_loop"}
      \/ phase = "memory_loop" /\ phase' = "memory_loop"
      \/ phase \in {"a20", "a20_keyboard"} /\ phase' \in {"a20_keyboard", "elf", "stopped"}
      \/ phase' \in {"kernel_started", "ranges_known", "running", "no_heap"}
  <2>1. CASE jump_boot1
    BY <2>1 DEF jump_boot1, Goes, Boot1Loading, HasBoot1
  <2>2. CASE invalid_elf
    <3>1. phase = "elf" /\ buffer[0] # KERNEL_FILE
      BY <2>2 DEF invalid_elf, IsElf
    <3>2. HasKernel(kernel.sectors) /\ kernel.sectors \in Nat /\ kernel.sectors > 0
      BY <3>1, Headers DEF KernelLoading, BootIInv
    <3>3. buffer[0] = KERNEL_FILE + 0
      BY <3>2 DEF HasKernel
    <3> QED
      BY <3>1, <3>3, Sizes DEF KERNEL_FILE, KERNEL_HEADER, BOOT1_FILE
  <2>3. CASE UNCHANGED bootVars
    BY <2>3 DEF bootVars
  <2> QED
    BY <2>1, <2>2, <2>3
       DEF stage0_start, load_system_memory_info, lsmi_loop, enable_a20, a20wait,
           jump_kernel, kernel_memory_range, kernel_memory, Goes
<1>5. CASE phase' = phase
  <2>1. Boot1Loading'
    BY <1>1, <1>5 DEF Boot1Loading, NextIs, HasBoot1, TwoCylinders, Positions, SectorAt
  <2>2. KernelLoading'
    BY <1>1, <1>5 DEF KernelLoading, NextIs, HasKernel, TwoCylinders, Positions, SectorAt,
                      Address
  <2>3. phase' # "astray"
    BY <1>5 DEF BootIInv
  <2> QED
    BY <2>1, <2>2, <2>3
<1>6. CASE phase' # phase
  <2>1. Boot1Loading'
    BY <1>1, <1>3, <1>4, <1>6 DEF Boot1Loading
  <2>2. KernelLoading'
    BY <1>1, <1>3, <1>4, <1>6 DEF KernelLoading
  <2>3. phase' # "astray"
    BY <1>4, <1>6
  <2> QED
    BY <2>1, <2>2, <2>3
<1> QED
  BY <1>5, <1>6

LEMMA MapReadStep == ASSUME BootIInv, lsmi_loop_end PROVE BootIInv'
<1>1. /\ UNCHANGED <<kernel, index, image, position, stage1, buffer, gaveUp>>
      /\ phase = "memory_loop" /\ phase' = "kernel_header" /\ es' = 0 /\ bx' = 0
  BY DEF lsmi_loop_end, Goes
<1>2. NextIs(KERNEL_HEADER) => NextIs(KERNEL_HEADER)'
  BY <1>1 DEF NextIs, TwoCylinders, Positions, SectorAt, KERNEL_HEADER, BOOT1_FILE
<1>3. Boot1Loading'
  BY <1>1 DEF Boot1Loading
<1>4. KernelLoading => KernelLoading'
  BY <1>1, <1>2 DEF KernelLoading
<1> QED
  BY <1>1, <1>3, <1>4, GoesOn

-----------------------------------------------------------------------------
(* Loading a segment.                                                      *)

LEMMA SegmentStep == ASSUME BootIInv, load_elf_program_table_entry PROVE BootIInv'
<1> DEFINE s == kernel.segments[index + 1]
           loaded == segment_memory(s)
<1>1. /\ phase = "elf" /\ phase' = phase /\ index' = index + 1
      /\ UNCHANGED <<kernel, position, es, bx, left, rest, stage1, buffer, gaveUp>>
      /\ image' = IF s.type # PT_LOAD THEN image
                  ELSE [a \in DOMAIN image \cup DOMAIN loaded |->
                          IF a \in DOMAIN loaded THEN loaded[a] ELSE image[a]]
      /\ index < Len(kernel.segments)
  BY DEF load_elf_program_table_entry, disk, reader
<1>2. /\ kernel \in Kernels /\ index \in Nat /\ Len(kernel.segments) \in Nat
      /\ index + 1 \in 1 .. Len(kernel.segments)
  BY <1>1, Headers DEF BootIInv
<1>3. kernel' \in Kernels /\ index' \in 0 .. Len(kernel'.segments)
  BY <1>1, <1>2
<1>4. IsMemory(stage1)' /\ IsMemory(buffer)'
  BY <1>1 DEF BootIInv, IsMemory
<1> SUFFICES ASSUME Intact'
             PROVE  Boot1Loading' /\ KernelLoading' /\ Loaded(index)'
  BY <1>1, <1>3, <1>4 DEF BootIInv
<1>5. Intact /\ Boot1Loading /\ KernelLoading /\ Loaded(index)
  BY <1>1 DEF BootIInv, Intact, TwoCylinders, KERNEL_FILE, KERNEL_HEADER
<1>6. Boot1Loading'
  BY <1>1 DEF Boot1Loading
<1>7. KernelLoading'
  BY <1>1, <1>5 DEF KernelLoading, HasKernel
<1>8. HasKernel(kernel.sectors)
  BY <1>1, <1>5 DEF KernelLoading
<1>9. /\ s.offset \in Nat /\ s.vaddr \in Nat /\ s.filesz \in Nat /\ s.memsz \in Nat
      /\ s.offset + s.filesz <= kernel.sectors /\ s.filesz <= s.memsz
      /\ kernel.sectors \in Nat
  BY <1>2, Headers
<1>10. /\ DOMAIN loaded = s.vaddr .. s.vaddr + s.memsz - 1
       /\ \A a \in DOMAIN loaded :
            loaded[a] = IF a < s.vaddr + s.filesz THEN buffer[s.offset + a - s.vaddr] ELSE ZERO
  BY DEF segment_memory
<1> HIDE DEF loaded
<1>11. ASSUME s.type = PT_LOAD, NEW j \in 0 .. s.memsz - 1
       PROVE  /\ s.vaddr + j \in DOMAIN image'
              /\ image'[s.vaddr + j] =
                   IF j < s.filesz THEN KERNEL_FILE + s.offset + j ELSE ZERO
  <2> DEFINE a == s.vaddr + j
  <2>1. a \in s.vaddr .. s.vaddr + s.memsz - 1 /\ a \in Nat /\ j \in Nat
    BY <1>9
  <2> HIDE DEF s, a
  <2>2. a \in DOMAIN image' /\ image'[a] = loaded[a]
    BY <1>1, <1>10, <1>11, <2>1
  <2>3. CASE j < s.filesz
    <3>1. loaded[a] = buffer[s.offset + a - s.vaddr]
      <4>1. a < s.vaddr + s.filesz
        BY <1>9, <2>1, <2>3 DEF a
      <4> QED
        BY <1>10, <2>1, <4>1
    <3>2. s.offset + a - s.vaddr = s.offset + j
      BY <1>9, <2>1 DEF a
    <3>3. s.offset + j \in 0 .. kernel.sectors - 1
      BY <1>9, <2>1, <2>3
    <3>4. buffer[s.offset + j] = KERNEL_FILE + (s.offset + j)
      BY <1>8, <3>3 DEF HasKernel
    <3>5. KERNEL_FILE + (s.offset + j) = KERNEL_FILE + s.offset + j
      BY <1>9, <2>1, Sizes DEF KERNEL_FILE, KERNEL_HEADER, BOOT1_FILE
    <3> QED
      BY <2>2, <2>3, <3>1, <3>2, <3>4, <3>5 DEF a
  <2>4. CASE ~(j < s.filesz)
    <3>1. ~(a < s.vaddr + s.filesz)
      BY <1>9, <2>1, <2>4 DEF a
    <3>2. loaded[a] = ZERO
      BY <1>10, <2>1, <3>1
    <3> QED
      BY <2>2, <2>4, <3>2 DEF a
  <2> QED
    BY <2>3, <2>4
<1>12. ASSUME NEW i \in 1 .. index, kernel.segments[i].type = PT_LOAD,
              NEW j \in 0 .. kernel.segments[i].memsz - 1
       PROVE  LET t == kernel.segments[i]
              IN /\ t.vaddr + j \in DOMAIN image'
                 /\ image'[t.vaddr + j] =
                      IF j < t.filesz THEN KERNEL_FILE + t.offset + j ELSE ZERO
  <2> DEFINE t == kernel.segments[i]
             a == t.vaddr + j
  <2>1. /\ a \in DOMAIN image
        /\ image[a] = IF j < t.filesz THEN KERNEL_FILE + t.offset + j ELSE ZERO
    BY <1>5, <1>12 DEF Loaded
  <2>2. CASE s.type # PT_LOAD
    BY <1>1, <2>1, <2>2
  <2>3. CASE s.type = PT_LOAD
    <3>1. i \in 1 .. Len(kernel.segments) /\ i < index + 1
      BY <1>2
    <3>2. t.vaddr \in Nat /\ t.memsz \in Nat
      BY <1>2, <3>1, Headers
    <3>3. t.vaddr + t.memsz <= s.vaddr \/ s.vaddr + s.memsz <= t.vaddr
      <4>1. i \in DOMAIN kernel.segments /\ index + 1 \in DOMAIN kernel.segments
        BY <1>2, <3>1, Headers
      <4> QED
        BY <1>2, <1>12, <2>3, <3>1, <4>1, DisjointAssumption DEF PT_LOAD
    <3>4. a \notin s.vaddr .. s.vaddr + s.memsz - 1
      BY <1>9, <3>2, <3>3
    <3> QED
      BY <1>1, <1>10, <2>1, <2>3, <3>4
  <2> QED
    BY <2>2, <2>3
<1>13. Loaded(index)'
  <2> SUFFICES ASSUME NEW i \in 1 .. index + 1, kernel.segments[i].type = PT_LOAD,
                      NEW j \in 0 .. kernel.segments[i].memsz - 1
               PROVE  LET t == kernel.segments[i]
                      IN /\ t.vaddr + j \in DOMAIN image'
                         /\ image'[t.vaddr + j] =
                              IF j < t.filesz THEN KERNEL_FILE + t.offset + j ELSE ZERO
    BY <1>1 DEF Loaded, KERNEL_FILE, KERNEL_HEADER, BOOT1_FILE
  <2>1. i \in 1 .. index \/ i = index + 1
    BY <1>2
  <2> QED
    BY <1>11, <1>12, <2>1
<1> QED
  BY <1>6, <1>7, <1>13

-----------------------------------------------------------------------------
(* Reading a sector.                                                       *)

LEMMA SmallRemainder ==
  ASSUME NEW b \in Nat, NEW a \in 0 .. b - 1 PROVE a % b = a
OBVIOUS

LEMMA Numbers ==
  /\ BOOT1_HEADER = 1 /\ BOOT1_FILE = 2 /\ KERNEL_HEADER = 2 + BOOT1_SECTORS
  /\ KERNEL_FILE = 3 + BOOT1_SECTORS /\ TwoCylinders \in Nat
BY Sizes DEF BOOT1_HEADER, BOOT1_FILE, KERNEL_HEADER, KERNEL_FILE, TwoCylinders

\* A call of read_sectors leaves the rest to the next call, but no more.
LEMMA SegmentBegins ==
  ASSUME NEW n \in Nat, n > 0, read_sectors(n)
  PROVE  /\ left' \in 1 .. SECTORS_PER_SEGMENT /\ rest' \in Nat /\ left' + rest' = n
         /\ rest' > 0 => left' = SECTORS_PER_SEGMENT
         /\ bx' = 0
BY Sizes DEF read_sectors

\* Whatever comes next, a sector that is read or given up changes no more.
LEMMA AfterSectorKeeps ==
  ASSUME Reading, AfterSector
  PROVE  UNCHANGED <<kernel, index, image>> /\ phase' \notin {"kernel_started", "astray"}
BY DEF Reading, AfterSector, AfterHeader, Goes

LEMMA ReadKeeps ==
  ASSUME BootIInv, read_sector,
         Intact /\ Boot1Loading /\ KernelLoading => Boot1Loading' /\ KernelLoading'
  PROVE  BootIInv'
<1>1. UNCHANGED <<kernel, index, image>> /\ phase' \notin {"kernel_started", "astray"}
  BY AfterSectorKeeps DEF read_sector
<1>2. IsMemory(stage1)' /\ IsMemory(buffer)'
  <2>1. \/ stage1' = stage1
        \/ stage1' = [stage1 EXCEPT ![Address] = SectorAt(position)]
    BY DEF read_sector, ReadsInto
  <2>2. \/ buffer' = buffer
        \/ buffer' = [buffer EXCEPT ![Address] = SectorAt(position)]
    BY DEF read_sector, ReadsInto
  <2>3. IsMemory(stage1) /\ IsMemory(buffer)
    BY DEF BootIInv
  <2>4. IsMemory(stage1')
    BY <2>1, <2>3, SlotWritten
  <2>5. IsMemory(buffer')
    BY <2>2, <2>3, SlotWritten
  <2> QED
    BY <2>4, <2>5 DEF IsMemory
<1>3. Intact' => Intact
  BY <1>1 DEF read_sector, ReadsInto, Intact, TwoCylinders, KERNEL_FILE, KERNEL_HEADER
<1> QED
  BY <1>1, <1>2, <1>3, KernelStays DEF BootIInv

LEMMA GiveUpStep == ASSUME BootIInv, give_up_sector PROVE BootIInv'
<1>1. UNCHANGED <<kernel, index, image>> /\ phase' \notin {"kernel_started", "astray"}
  BY AfterSectorKeeps DEF give_up_sector
<1>2. gaveUp' /\ UNCHANGED <<stage1, buffer>>
  BY DEF give_up_sector, GivesUpSector
<1> QED
  BY <1>1, <1>2, KernelStays DEF BootIInv, Intact, IsMemory

LEMMA Boot1HeaderRead ==
  ASSUME BootIInv, read_sector, phase = "boot1_header", Intact, Boot1Loading
  PROVE  Boot1Loading' /\ KernelLoading'
<1>1. es = 0 /\ bx = 0 /\ NextIs(1)
  BY Numbers DEF Boot1Loading
<1>2. 1 < TwoCylinders /\ kernel.sectors \in Nat
  BY Headers, Numbers, Sizes DEF Intact, BootIInv
<1>3. /\ stage1' = [stage1 EXCEPT ![Address] = SectorAt(position)]
      /\ position' = increment_floppy_position(position)
  BY DEF read_sector, ReadsInto
<1>4. /\ SectorAt(position) = 1
      /\ 1 + 1 < TwoCylinders => position' \in Positions /\ SectorAt(position') = 1 + 1
  BY <1>1, <1>2, <1>3, ReadingAdvances
<1>5. Address = 0
  BY <1>1, Sizes DEF Address
<1>6. stage1'[0] = BOOT1_HEADER
  <2>1. IsMemory(stage1) /\ 0 \in 0 .. MaxSectors - 1
    BY Sizes DEF BootIInv
  <2> QED
    BY <1>3, <1>4, <1>5, <2>1, Numbers DEF IsMemory
<1>7. /\ phase' = "boot1" /\ es' = 0 /\ bx' = 0 /\ left' = BOOT1_SECTORS
  BY <1>6, Sizes DEF read_sector, AfterSector, AfterHeader, SizesIn, Goes
<1>8. NextIs(BOOT1_FILE + bx)'
  BY <1>4, <1>7, Numbers DEF NextIs, BOOT1_FILE
<1>9. Boot1Loading'
  BY <1>7, <1>8, Sizes DEF Boot1Loading, HasBoot1
<1> QED
  BY <1>7, <1>9 DEF KernelLoading

LEMMA KernelHeaderRead ==
  ASSUME BootIInv, read_sector, phase = "kernel_header", Intact, KernelLoading
  PROVE  Boot1Loading' /\ KernelLoading'
<1>1. es = 0 /\ bx = 0 /\ NextIs(KERNEL_HEADER)
  BY DEF KernelLoading
<1>2. /\ kernel.sectors \in Nat /\ kernel.sectors > 0
      /\ KERNEL_HEADER \in Nat /\ KERNEL_HEADER < TwoCylinders
  BY Headers, Numbers, Sizes DEF Intact, BootIInv
<1>3. /\ buffer' = [buffer EXCEPT ![Address] = SectorAt(position)]
      /\ position' = increment_floppy_position(position)
  BY DEF read_sector, ReadsInto
<1>4. /\ SectorAt(position) = KERNEL_HEADER
      /\ KERNEL_HEADER + 1 < TwoCylinders =>
           position' \in Positions /\ SectorAt(position') = KERNEL_HEADER + 1
  BY <1>1, <1>2, <1>3, ReadingAdvances
<1>5. Address = 0
  BY <1>1, Sizes DEF Address
<1>6. buffer'[0] = KERNEL_HEADER
  <2>1. IsMemory(buffer) /\ 0 \in 0 .. MaxSectors - 1
    BY Sizes DEF BootIInv
  <2> QED
    BY <1>3, <1>4, <1>5, <2>1 DEF IsMemory
<1>7. /\ phase' = "kernel" /\ es' = 0 /\ read_sectors(kernel.sectors)
      /\ kernel' = kernel
  BY <1>2, <1>6 DEF read_sector, AfterSector, AfterHeader, SizesIn, Goes
<1>8. /\ left' \in 1 .. SECTORS_PER_SEGMENT /\ rest' \in Nat /\ left' + rest' = kernel.sectors
      /\ rest' > 0 => left' = SECTORS_PER_SEGMENT
      /\ bx' = 0
  BY <1>2, <1>7, SegmentBegins
<1>9. Address' = 0
  BY <1>7, <1>8, Sizes DEF Address
<1>10. NextIs(KERNEL_FILE + Address)'
  <2>1. KERNEL_HEADER + 1 = KERNEL_FILE + Address'
    BY <1>9, Numbers, Sizes
  <2> QED
    BY <1>4, <2>1 DEF NextIs, KERNEL_FILE, KERNEL_HEADER
<1>11. HasKernel(Address)'
  BY <1>9 DEF HasKernel
<1>12. KernelLoading'
  <2>1. /\ es' \in Nat /\ bx' \in 0 .. SECTORS_PER_SEGMENT - 1
        /\ left' \in 1 .. SECTORS_PER_SEGMENT - bx'
        /\ Address' + left' + rest' = kernel'.sectors
        /\ rest' > 0 => bx' + left' = SECTORS_PER_SEGMENT
    <3>1. bx' \in 0 .. SECTORS_PER_SEGMENT - 1
      BY <1>8, Sizes
    <3>2. left' \in 1 .. SECTORS_PER_SEGMENT - bx'
      BY <1>8, Sizes
    <3>3. Address' + left' + rest' = kernel'.sectors
      BY <1>7, <1>8, <1>9, Sizes
    <3> QED
      BY <1>7, <1>8, <3>1, <3>2, <3>3
  <2> QED
    BY <1>7, <1>8, <1>10, <1>11, <2>1 DEF KernelLoading
<1> QED
  BY <1>7, <1>12 DEF Boot1Loading

LEMMA Boot1Read ==
  ASSUME BootIInv, read_sector, phase = "boot1", Intact, Boot1Loading
  PROVE  Boot1Loading' /\ KernelLoading'
<1>1. /\ es = 0 /\ bx \in 0 .. BOOT1_SECTORS - 1 /\ left = BOOT1_SECTORS - bx
      /\ NextIs(BOOT1_FILE + bx) /\ HasBoot1(bx)
  BY DEF Boot1Loading
<1>2. /\ BOOT1_FILE + bx \in Nat /\ BOOT1_FILE + bx < TwoCylinders
      /\ kernel.sectors \in Nat
  BY <1>1, Headers, Numbers, Sizes DEF Intact, BootIInv
<1>3. /\ stage1' = [stage1 EXCEPT ![Address] = SectorAt(position)]
      /\ position' = increment_floppy_position(position)
  BY DEF read_sector, ReadsInto
<1>4. /\ SectorAt(position) = BOOT1_FILE + bx
      /\ BOOT1_FILE + bx + 1 < TwoCylinders =>
           position' \in Positions /\ SectorAt(position') = BOOT1_FILE + bx + 1
  BY <1>1, <1>2, <1>3, ReadingAdvances
<1>5. Address = bx
  BY <1>1, Sizes DEF Address
<1>6. \A i \in 0 .. bx : stage1'[i] = BOOT1_FILE + i
  <2> SUFFICES ASSUME NEW i \in 0 .. bx PROVE stage1'[i] = BOOT1_FILE + i
    OBVIOUS
  <2>1. IsMemory(stage1) /\ i \in 0 .. MaxSectors - 1
    BY <1>1, Sizes DEF BootIInv
  <2>2. stage1'[i] = IF i = bx THEN SectorAt(position) ELSE stage1[i]
    BY <1>3, <1>5, <2>1 DEF IsMemory
  <2>3. i # bx => i \in 0 .. bx - 1
    BY <1>1, Sizes
  <2> QED
    BY <1>1, <1>4, <2>2, <2>3 DEF HasBoot1
<1>7. CASE left > 1
  <2>1. phase' = "boot1" /\ left' = left - 1 /\ es' = es /\ bx' = bx + 1
    <3>1. /\ phase' = "boot1" /\ left' = left - 1 /\ es' = es
          /\ bx' = (bx + 1) % SECTORS_PER_SEGMENT
      BY <1>7 DEF read_sector, AfterSector, MoreSectors, NextSector, Goes
    <3>2. bx + 1 \in 0 .. SECTORS_PER_SEGMENT - 1
      BY <1>1, <1>7, Sizes
    <3>3. (bx + 1) % SECTORS_PER_SEGMENT = bx + 1
      BY <3>2, Sizes, SmallRemainder
    <3> QED
      BY <3>1, <3>3
  <2>2. NextIs(BOOT1_FILE + bx)'
    <3>1. BOOT1_FILE + bx + 1 = BOOT1_FILE + bx'
      BY <1>1, <2>1, Numbers, Sizes
    <3> QED
      BY <1>4, <3>1 DEF NextIs, BOOT1_FILE
  <2>3. HasBoot1(bx)'
    <3>1. bx' - 1 = bx
      BY <1>1, <2>1, Sizes
    <3> QED
      BY <1>6, <3>1 DEF HasBoot1, BOOT1_FILE
  <2>4. bx' \in 0 .. BOOT1_SECTORS - 1 /\ left' = BOOT1_SECTORS - bx'
    BY <1>1, <1>7, <2>1, Sizes
  <2> QED
    BY <1>1, <2>1, <2>2, <2>3, <2>4 DEF Boot1Loading, KernelLoading
<1>8. CASE left = 1
  <2>1. phase' = "jump" /\ bx + 1 = BOOT1_SECTORS
    BY <1>1, <1>8, Sizes DEF read_sector, AfterSector, MoreSectors, Goes
  <2>2. NextIs(KERNEL_HEADER)'
    <3>1. BOOT1_FILE + bx + 1 = KERNEL_HEADER
      BY <1>1, <2>1, Numbers, Sizes
    <3> QED
      BY <1>4, <3>1 DEF NextIs, KERNEL_HEADER, BOOT1_FILE
  <2>3. HasBoot1(BOOT1_SECTORS)'
    <3>1. BOOT1_SECTORS - 1 = bx
      BY <1>1, <2>1, Sizes
    <3> QED
      BY <1>6, <3>1 DEF HasBoot1, BOOT1_FILE
  <2> QED
    BY <2>1, <2>2, <2>3 DEF Boot1Loading, KernelLoading
<1> QED
  BY <1>1, <1>7, <1>8, Sizes

LEMMA KernelRead ==
  ASSUME BootIInv, read_sector, phase = "kernel", Intact, KernelLoading
  PROVE  Boot1Loading' /\ KernelLoading'
<1>1. /\ es \in Nat /\ bx \in 0 .. SECTORS_PER_SEGMENT - 1
      /\ left \in 1 .. SECTORS_PER_SEGMENT - bx /\ rest \in Nat
      /\ Address + left + rest = kernel.sectors
      /\ rest > 0 => bx + left = SECTORS_PER_SEGMENT
      /\ NextIs(KERNEL_FILE + Address) /\ HasKernel(Address)
  BY DEF KernelLoading
<1>2. kernel.sectors \in Nat /\ kernel.sectors <= MaxSectors
  BY Headers DEF BootIInv
<1>3. /\ es * SECTORS_PER_SEGMENT \in Nat
      /\ (es + 1) * SECTORS_PER_SEGMENT = es * SECTORS_PER_SEGMENT + SECTORS_PER_SEGMENT
  BY <1>1, Product, Sizes
<1>4. Address = es * SECTORS_PER_SEGMENT + bx
  BY DEF Address
<1>5. /\ Address \in Nat /\ Address < kernel.sectors
      /\ KERNEL_FILE + Address \in Nat /\ KERNEL_FILE + Address < TwoCylinders
  BY <1>1, <1>2, <1>3, <1>4, Numbers, Sizes DEF Intact
<1>6. /\ buffer' = [buffer EXCEPT ![Address] = SectorAt(position)]
      /\ position' = increment_floppy_position(position) /\ kernel' = kernel
  BY AfterSectorKeeps DEF read_sector, ReadsInto
<1>7. /\ SectorAt(position) = KERNEL_FILE + Address
      /\ KERNEL_FILE + Address + 1 < TwoCylinders =>
           position' \in Positions /\ SectorAt(position') = KERNEL_FILE + Address + 1
  BY <1>1, <1>5, <1>6, ReadingAdvances
<1>8. \A i \in 0 .. Address : buffer'[i] = KERNEL_FILE + i
  <2> SUFFICES ASSUME NEW i \in 0 .. Address PROVE buffer'[i] = KERNEL_FILE + i
    OBVIOUS
  <2>1. IsMemory(buffer) /\ i \in 0 .. MaxSectors - 1
    BY <1>2, <1>5, Sizes DEF BootIInv
  <2>2. buffer'[i] = IF i = Address THEN SectorAt(position) ELSE buffer[i]
    BY <1>6, <2>1 DEF IsMemory
  <2>3. i # Address => i \in 0 .. Address - 1
    BY <1>5
  <2> QED
    BY <1>1, <1>7, <2>2, <2>3 DEF HasKernel
<1>9. ASSUME Address' = Address + 1
      PROVE  NextIs(KERNEL_FILE + Address)' /\ HasKernel(Address)'
  <2>1. KERNEL_FILE + Address + 1 = KERNEL_FILE + Address' /\ Address' - 1 = Address
    BY <1>5, <1>9, Numbers, Sizes
  <2> QED
    BY <1>7, <1>8, <2>1 DEF NextIs, HasKernel, KERNEL_FILE, KERNEL_HEADER, BOOT1_FILE
<1>10. CASE left > 1
  <2>1. phase' = "kernel" /\ left' = left - 1 /\ es' = es /\ rest' = rest /\ bx' = bx + 1
    <3>1. /\ phase' = "kernel" /\ left' = left - 1 /\ es' = es /\ rest' = rest
          /\ bx' = (bx + 1) % SECTORS_PER_SEGMENT
      BY <1>10 DEF read_sector, AfterSector, MoreSectors, NextSector, Goes
    <3>2. bx + 1 \in 0 .. SECTORS_PER_SEGMENT - 1
      BY <1>1, <1>10, Sizes
    <3>3. (bx + 1) % SECTORS_PER_SEGMENT = bx + 1
      BY <3>2, Sizes, SmallRemainder
    <3> QED
      BY <3>1, <3>3
  <2>2. Address' = Address + 1
    BY <1>1, <1>3, <1>4, <2>1, Sizes DEF Address
  <2>3. /\ es' \in Nat /\ bx' \in 0 .. SECTORS_PER_SEGMENT - 1
        /\ left' \in 1 .. SECTORS_PER_SEGMENT - bx' /\ rest' \in Nat
        /\ Address' + left' + rest' = kernel'.sectors
        /\ rest' > 0 => bx' + left' = SECTORS_PER_SEGMENT
    BY <1>1, <1>5, <1>6, <1>10, <2>1, <2>2, Sizes
  <2> QED
    BY <1>9, <2>1, <2>2, <2>3 DEF Boot1Loading, KernelLoading
<1>11. CASE left = 1 /\ rest > 0
  <2>1. phase' = "kernel" /\ read_sectors(rest) /\ es' = es + 1
    BY <1>11 DEF read_sector, AfterSector, MoreSectors, NextSegment, Goes
  <2>2. /\ left' \in 1 .. SECTORS_PER_SEGMENT /\ rest' \in Nat /\ left' + rest' = rest
        /\ rest' > 0 => left' = SECTORS_PER_SEGMENT
        /\ bx' = 0
    BY <1>1, <1>11, <2>1, SegmentBegins
  <2>3. Address' = Address + 1
    <3>1. Address' = (es + 1) * SECTORS_PER_SEGMENT + 0
      BY <2>1, <2>2 DEF Address
    <3> QED
      BY <1>1, <1>3, <1>4, <1>11, <3>1, Sizes
  <2>4. /\ es' \in Nat /\ bx' \in 0 .. SECTORS_PER_SEGMENT - 1
        /\ left' \in 1 .. SECTORS_PER_SEGMENT - bx'
        /\ Address' + left' + rest' = kernel'.sectors
        /\ rest' > 0 => bx' + left' = SECTORS_PER_SEGMENT
    <3>1. bx' \in 0 .. SECTORS_PER_SEGMENT - 1
      BY <2>2, Sizes
    <3>2. left' \in 1 .. SECTORS_PER_SEGMENT - bx'
      BY <2>2, Sizes
    <3>3. Address' + left' + rest' = kernel'.sectors
      <4>1. kernel'.sectors = kernel.sectors
        BY <1>6
      <4>2. Address + 1 + rest = kernel.sectors
        BY <1>1, <1>11
      <4>3. left' \in Nat /\ rest' \in Nat /\ left' + rest' = rest
        BY <2>2
      <4>4. Address' + left' + rest' = Address + 1 + rest
        BY <1>5, <2>3, <4>3
      <4> QED
        BY <4>1, <4>2, <4>4
    <3>4. es' \in Nat
      BY <1>1, <2>1
    <3> QED
      BY <2>2, <3>1, <3>2, <3>3, <3>4
  <2> QED
    BY <1>9, <2>1, <2>2, <2>3, <2>4 DEF Boot1Loading, KernelLoading
<1>12. CASE left = 1 /\ rest = 0
  <2>1. phase' = "a20"
    BY <1>12 DEF read_sector, AfterSector, MoreSectors, Goes
  <2>2. kernel.sectors - 1 = Address
    BY <1>1, <1>2, <1>5, <1>12
  <2>3. HasKernel(kernel.sectors)'
    BY <1>6, <1>8, <2>2 DEF HasKernel, KERNEL_FILE, KERNEL_HEADER, BOOT1_FILE
  <2> QED
    BY <2>1, <2>3 DEF Boot1Loading, KernelLoading
<1> QED
  BY <1>1, <1>10, <1>11, <1>12, Sizes

LEMMA ReadStep == ASSUME BootIInv, read_sector PROVE BootIInv'
<1>1. phase \in {"boot1_header", "boot1", "kernel_header", "kernel"}
  BY DEF read_sector, Reading
<1> QED
  BY <1>1, ReadKeeps, Boot1HeaderRead, KernelHeaderRead, Boot1Read, KernelRead

-----------------------------------------------------------------------------
\* Whatever the disk, the kernel and its segments are: as long as every sector
\* is read at last and the file ends in the first two cylinders, stage 1 is
\* entered where it begins, and every segment of the kernel is in its place
\* when load_kernel_elf is through, the rest of its memory zero.
THEOREM KernelLoaded == BootSpec => []ImageLoaded
<1>1. BootIInv /\ [BootNext]_bootVars => BootIInv'
  BY RetryStep, MoveStep, MapReadStep, SegmentStep, GiveUpStep, ReadStep DEF BootNext
<1>2. BootIInv => ImageLoaded
  <2> SUFFICES ASSUME BootIInv, ~gaveUp /\ KERNEL_FILE + kernel.sectors <= TwoCylinders
               PROVE  phase # "astray" /\ (phase = "kernel_started" => ImageRight)
    BY DEF ImageLoaded, TwoCylinders
  <2>1. phase # "astray" /\ Loaded(index)
    BY DEF BootIInv, Intact
  <2>2. phase = "kernel_started" => index = Len(kernel.segments) /\ kernel \in Kernels
    BY DEF BootIInv
  <2> QED
    BY <2>1, <2>2, Headers DEF Loaded, ImageRight
<1> QED
  BY BootInitIInv, <1>1, <1>2, PTL DEF BootSpec

-----------------------------------------------------------------------------
(***************************************************************************)
(* The memory map.  Two lists are made, each from another that is read     *)
(* entry by entry: the table from the answers of the BIOS, and the ranges  *)
(* from the table.  For each, the invariant says which place every         *)
(* element was taken from, in which order, and what was left out.          *)
(***************************************************************************)

\* The slots of table t before slot d hold the entries of map m up to n that
\* are not empty, in their order: slot k holds entry from[k].
StoredFrom(from, t, d, m, n) ==
  /\ from \in [1 .. d - 1 -> 1 .. n]
  /\ \A k, l \in 1 .. d - 1 : k < l => from[k] < from[l]
  /\ \A k \in 1 .. d - 1 : t[k] = m[from[k]] /\ t[k][2] # ZeroNumber
  /\ \A i \in 1 .. n : m[i][2] # ZeroNumber => \E k \in 1 .. d - 1 : from[k] = i

Stored(t, d, m, n) ==
  \E from \in [1 .. d - 1 -> 1 .. n] : StoredFrom(from, t, d, m, n)

\* r lists the usable ranges of the slots of t before slot s: range k is that
\* of slot place[k].
FoundAt(place, t, s, r) ==
  /\ place \in [1 .. Len(r) -> 1 .. s - 1]
  /\ \A k, l \in 1 .. Len(r) : k < l => place[k] < place[l]
  /\ \A k \in 1 .. Len(r) : is_usable(t[place[k]]) /\ r[k] = Cut(t[place[k]])
  /\ \A q \in 1 .. s - 1 : is_usable(t[q]) => \E k \in 1 .. Len(r) : place[k] = q

Found(t, s, r) ==
  \E place \in [1 .. Len(r) -> 1 .. s - 1] : FoundAt(place, t, s, r)

\* How much of the map is in the table when the null entry is.
Kept == IF style = "last" THEN Len(map) - 1 ELSE Len(map)

\* The entries given so far.
Given == IF ebx = 0 THEN Len(map) ELSE ebx

\* Between two calls of the BIOS: slot di holds the entry given last, or the
\* call behind the last entry failed.
Collecting ==
  \/ style = "carry_kept" /\ ebx \in 1 .. Len(map)
  \/ /\ style # "carry_kept" /\ ebx \in 0 .. Len(map) /\ (ebx = 0 => style = "last")
     /\ style = "last" => ebx < Len(map)
     /\ di \in 1 .. Given /\ table[di] = map[Given]
     /\ Stored(table, di, map, Given - 1)
  \/ /\ style = "carry_zero" /\ ebx = 0
     /\ di \in 1 .. Len(map) + 1 /\ Stored(table, di, map, Len(map))

Collected ==
  /\ style # "carry_kept" /\ di \in 1 .. SLOTS
  /\ Stored(table, di, map, Kept) /\ ~is_usable(table[di])

\* Behind slot di, nothing was written.
Untouched == \A k \in 1 .. SLOTS : k > di => table[k] = residue

Searching ==
  /\ slot \in 1 .. SLOTS + 1 /\ ranges \in Seq(Int \X Int) /\ Len(ranges) <= ENTRIES
  /\ Found(table, slot, ranges)

\* The heap ends where the first range does that holds its base.
Chosen == \E k \in 1 .. Len(ranges) :
            /\ HoldsHeap(ranges[k]) /\ \A l \in 1 .. k - 1 : ~HoldsHeap(ranges[l])
            /\ endAddress = EndOf(ranges[k])

BeforeMap == {"reset", "boot1_header", "boot1", "jump", "memory_info"}
BehindMap == {"kernel_header", "kernel", "a20", "a20_keyboard", "elf"}
InKernel == {"kernel_started", "ranges_known", "running", "no_heap"}

MapIInv ==
  /\ map \in Maps /\ style \in Styles /\ residue \in Residues
  /\ table \in [1 .. SLOTS -> Entries]
  /\ phase \in BeforeMap => ebx = 0 /\ di = 1 /\ Untouched /\ table[1] = residue
  /\ phase = "memory_loop" => Collecting /\ (style # "carry_kept" => Untouched)
  /\ phase \in BehindMap \cup InKernel => Collected /\ Untouched
  /\ phase \in BeforeMap \cup {"memory_loop"} \cup BehindMap => slot = 1 /\ ranges = << >>
  /\ phase \in InKernel => Searching
  /\ phase \in InKernel \ {"kernel_started"} => MapEnds
  /\ phase = "running" => Chosen
  /\ phase = "no_heap" => \A k \in 1 .. Len(ranges) : ~HoldsHeap(ranges[k])

-----------------------------------------------------------------------------
(* Numbers and entries.                                                    *)

LEMMA MapSizes ==
  /\ WORD \in Nat /\ WORD > 1 /\ ENTRIES \in Nat /\ ENTRIES > 0 /\ SLOTS \in Nat
  /\ HEAP_BASE \in Nat /\ HEAP_BASE > 0
  /\ Residues \subseteq Entries
BY MemoryMapAssumption

LEMMA MapEntries ==
  ASSUME NEW m \in Maps
  PROVE  /\ Len(m) \in Nat /\ 1 <= Len(m) /\ Len(m) < SLOTS
         /\ DOMAIN m = 1 .. Len(m) /\ \A i \in 1 .. Len(m) : m[i] \in Entries
<1>1. m \in Seq(Entries) /\ Len(m) \in 1 .. SLOTS - 1
  BY MemoryMapAssumption
<1> HIDE DEF Entries
<1> QED
  BY <1>1, MapSizes

LEMMA Numerals ==
  ASSUME NEW n \in [1 .. 4 -> 0 .. WORD - 1]
  PROVE  U32(n) \in Nat /\ (U32(n) = 1 <=> n[1] = 1 /\ n[2] = 0)
<1>1. n[1] \in 0 .. WORD - 1 /\ n[2] \in 0 .. WORD - 1
  OBVIOUS
<1>2. WORD * n[2] \in Nat /\ (n[2] = 0 => WORD * n[2] = 0)
  BY <1>1, MapSizes
<1>3. n[2] > 0 => WORD * n[2] >= WORD
  BY <1>1, MapSizes
<1> QED
  BY <1>1, <1>2, <1>3, MapSizes DEF U32

LEMMA UsableAlike ==
  ASSUME NEW e \in Entries
  PROVE  /\ is_usable(e) <=> Usable(e)
         /\ U32(e[1]) \in Nat /\ U32(e[2]) \in Nat
<1>1. /\ e[1] \in [1 .. 4 -> 0 .. WORD - 1] /\ e[2] \in [1 .. 4 -> 0 .. WORD - 1]
      /\ e[3] \in [1 .. 4 -> 0 .. WORD - 1]
  BY DEF Entries
<1> QED
  BY <1>1, Numerals DEF is_usable, Usable

\* The null entry is no usable one, whatever is left of the entry it replaces.
LEMMA NullUnusable ==
  ASSUME NEW e \in Entries
  PROVE  LET null == [q \in 1 .. 3 |-> <<0, e[q][2], 0, e[q][4]>>]
         IN null \in Entries /\ ~is_usable(null)
<1> DEFINE null == [q \in 1 .. 3 |-> <<0, e[q][2], 0, e[q][4]>>]
<1>1. ASSUME NEW q \in 1 .. 3
      PROVE  <<0, e[q][2], 0, e[q][4]>> \in [1 .. 4 -> 0 .. WORD - 1]
  <2>1. e[q] \in [1 .. 4 -> 0 .. WORD - 1]
    BY DEF Entries
  <2>2. e[q][2] \in 0 .. WORD - 1 /\ e[q][4] \in 0 .. WORD - 1 /\ 0 \in 0 .. WORD - 1
    BY <2>1, MapSizes
  <2> QED
    BY <2>2
<1>2. null \in Entries
  BY <1>1 DEF Entries
<1>3. null[3][1] # 1
  OBVIOUS
<1>4. ~Usable(null)
  BY <1>3 DEF Usable
<1> QED
  BY <1>2, <1>4, UsableAlike

LEMMA ZeroUnusable == ~is_usable(ZeroEntry)
<1>1. U32(ZeroNumber) = 0
  BY MapSizes DEF U32, ZeroNumber
<1>2. ZeroEntry[3] = ZeroNumber
  BY DEF ZeroEntry
<1> QED
  BY <1>1, <1>2 DEF is_usable

-----------------------------------------------------------------------------
(* The two lists.                                                          *)

LEMMA NothingStored == ASSUME NEW t, NEW m PROVE Stored(t, 1, m, 0)
<1> DEFINE from == [k \in 1 .. 1 - 1 |-> 0]
<1>1. from \in [1 .. 1 - 1 -> 1 .. 0] /\ 1 .. 1 - 1 = {} /\ 1 .. 0 = {}
  OBVIOUS
<1> HIDE DEF from
<1>2. StoredFrom(from, t, 1, m, 0)
  BY <1>1 DEF StoredFrom
<1> QED
  BY <1>1, <1>2 DEF Stored

LEMMA StoredStays ==
  ASSUME NEW t, NEW t2, NEW d, NEW m, NEW n, Stored(t, d, m, n),
         \A k \in 1 .. d - 1 : t2[k] = t[k]
  PROVE  Stored(t2, d, m, n)
<1>1. PICK from \in [1 .. d - 1 -> 1 .. n] : StoredFrom(from, t, d, m, n)
  BY DEF Stored
<1>2. StoredFrom(from, t2, d, m, n)
  BY <1>1 DEF StoredFrom
<1> QED
  BY <1>2 DEF Stored

\* The entry in slot d is kept, unless it is empty.
LEMMA StoreNext ==
  ASSUME NEW t, NEW m, NEW n \in Nat, NEW d \in Nat \ {0},
         t[d] = m[n + 1], Stored(t, d, m, n)
  PROVE  Stored(t, IF t[d][2] = ZeroNumber THEN d ELSE d + 1, m, n + 1)
<1> PICK from \in [1 .. d - 1 -> 1 .. n] : StoredFrom(from, t, d, m, n)
  BY DEF Stored
<1> USE DEF StoredFrom
<1>1. CASE t[d][2] = ZeroNumber
  <2>1. from \in [1 .. d - 1 -> 1 .. n + 1]
    OBVIOUS
  <2>2. \A i \in 1 .. n + 1 : i \in 1 .. n \/ i = n + 1
    OBVIOUS
  <2>3. \A i \in 1 .. n + 1 : m[i][2] # ZeroNumber => \E k \in 1 .. d - 1 : from[k] = i
    BY <1>1, <2>2
  <2>4. StoredFrom(from, t, d, m, n + 1)
    BY <2>1, <2>3
  <2> HIDE DEF StoredFrom
  <2> QED
    BY <1>1, <2>1, <2>4 DEF Stored
<1>2. CASE t[d][2] # ZeroNumber
  <2> DEFINE next == [k \in 1 .. d |-> IF k = d THEN n + 1 ELSE from[k]]
  <2>1. /\ next \in [1 .. d -> 1 .. n + 1] /\ next[d] = n + 1
        /\ \A k \in 1 .. d - 1 : next[k] = from[k] /\ from[k] \in 1 .. n
    <3>1. \A k \in 1 .. d : k = d \/ k \in 1 .. d - 1
      OBVIOUS
    <3>2. \A k \in 1 .. d - 1 : from[k] \in 1 .. n /\ from[k] \in 1 .. n + 1
      OBVIOUS
    <3>3. d \in 1 .. d /\ n + 1 \in 1 .. n + 1 /\ \A k \in 1 .. d - 1 : k \in 1 .. d /\ k # d
      OBVIOUS
    <3> HIDE DEF StoredFrom
    <3> QED
      BY <3>1, <3>2, <3>3
  <2>2. \A k \in 1 .. d : k \in 1 .. d - 1 \/ k = d
    OBVIOUS
  <2> HIDE DEF next
  <2>3. \A k, l \in 1 .. d : k < l => next[k] < next[l]
    <3> SUFFICES ASSUME NEW k \in 1 .. d, NEW l \in 1 .. d, k < l PROVE next[k] < next[l]
      OBVIOUS
    <3>1. k \in 1 .. d - 1
      OBVIOUS
    <3>2. CASE l = d
      BY <2>1, <3>1, <3>2
    <3>3. CASE l \in 1 .. d - 1
      BY <2>1, <3>1, <3>3
    <3> QED
      BY <2>2, <3>2, <3>3
  <2>4. \A k \in 1 .. d : t[k] = m[next[k]] /\ t[k][2] # ZeroNumber
    BY <1>2, <2>1, <2>2
  <2>5. \A i \in 1 .. n + 1 : m[i][2] # ZeroNumber => \E k \in 1 .. d : next[k] = i
    <3> SUFFICES ASSUME NEW i \in 1 .. n + 1, m[i][2] # ZeroNumber
                 PROVE  \E k \in 1 .. d : next[k] = i
      OBVIOUS
    <3>1. CASE i = n + 1
      BY <2>1, <3>1
    <3>2. CASE i \in 1 .. n
      <4>1. PICK k \in 1 .. d - 1 : from[k] = i
        BY <3>2
      <4> QED
        BY <2>1, <4>1
    <3> QED
      BY <3>1, <3>2
  <2>6. (d + 1) - 1 = d
    OBVIOUS
  <2>7. StoredFrom(next, t, d + 1, m, n + 1)
    BY <2>1, <2>3, <2>4, <2>5, <2>6
  <2> HIDE DEF StoredFrom
  <2>8. Stored(t, d + 1, m, n + 1)
    BY <2>1, <2>6, <2>7 DEF Stored
  <2> QED
    BY <1>2, <2>8
<1> QED
  BY <1>1, <1>2

LEMMA NothingFound == ASSUME NEW t PROVE Found(t, 1, << >>)
<1> DEFINE place == [k \in 1 .. 0 |-> 0]
<1>1. place \in [1 .. 0 -> 1 .. 1 - 1] /\ 1 .. 0 = {} /\ 1 .. 1 - 1 = {} /\ Len(<< >>) = 0
  OBVIOUS
<1> HIDE DEF place
<1>2. FoundAt(place, t, 1, << >>)
  BY <1>1 DEF FoundAt
<1> QED
  BY <1>1, <1>2 DEF Found

\* The range of slot s is kept if it is usable.
LEMMA FindNext ==
  ASSUME NEW t, NEW s \in Nat \ {0}, NEW S, NEW r \in Seq(S), Found(t, s, r),
         Cut(t[s]) \in S
  PROVE  Found(t, s + 1, IF is_usable(t[s]) THEN Append(r, Cut(t[s])) ELSE r)
<1> DEFINE n == Len(r)
<1>1. n \in Nat
  OBVIOUS
<1>0. PICK place \in [1 .. n -> 1 .. s - 1] : FoundAt(place, t, s, r)
  BY DEF Found
<1>2. /\ \A k, l \in 1 .. n : k < l => place[k] < place[l]
      /\ \A k \in 1 .. n : is_usable(t[place[k]]) /\ r[k] = Cut(t[place[k]])
      /\ \A q \in 1 .. s - 1 : is_usable(t[q]) => \E k \in 1 .. n : place[k] = q
  BY <1>0 DEF FoundAt
<1>3. (s + 1) - 1 = s /\ \A q \in 1 .. s : q \in 1 .. s - 1 \/ q = s
  OBVIOUS
<1>4. CASE ~is_usable(t[s])
  <2>1. place \in [1 .. n -> 1 .. s]
    BY <1>2
  <2>2. \A q \in 1 .. s : is_usable(t[q]) => \E k \in 1 .. n : place[k] = q
    BY <1>2, <1>3, <1>4
  <2>3. FoundAt(place, t, s + 1, r)
    BY <1>2, <1>3, <2>1, <2>2 DEF FoundAt
  <2> QED
    BY <1>3, <1>4, <2>1, <2>3 DEF Found
<1>5. CASE is_usable(t[s])
  <2> DEFINE next == [k \in 1 .. n + 1 |-> IF k = n + 1 THEN s ELSE place[k]]
             r2 == Append(r, Cut(t[s]))
  <2>1. /\ Len(r2) = n + 1 /\ r2[n + 1] = Cut(t[s])
        /\ \A k \in 1 .. n : r2[k] = r[k]
    OBVIOUS
  <2>2. /\ next \in [1 .. n + 1 -> 1 .. s] /\ next[n + 1] = s
        /\ \A k \in 1 .. n : next[k] = place[k] /\ place[k] \in 1 .. s - 1
    BY <1>1, <1>2
  <2>3. \A k \in 1 .. n + 1 : k \in 1 .. n \/ k = n + 1
    BY <1>1
  <2> HIDE DEF next, r2, n
  <2>4. \A k, l \in 1 .. n + 1 : k < l => next[k] < next[l]
    <3> SUFFICES ASSUME NEW k \in 1 .. n + 1, NEW l \in 1 .. n + 1, k < l
                 PROVE  next[k] < next[l]
      OBVIOUS
    <3>1. k \in 1 .. n
      BY <1>1
    <3>2. CASE l = n + 1
      BY <2>2, <3>1, <3>2
    <3>3. CASE l \in 1 .. n
      BY <1>2, <2>2, <3>1, <3>3
    <3> QED
      BY <2>3, <3>2, <3>3
  <2>5. \A k \in 1 .. n + 1 : is_usable(t[next[k]]) /\ r2[k] = Cut(t[next[k]])
    BY <1>2, <1>5, <2>1, <2>2, <2>3
  <2>6. \A q \in 1 .. s : is_usable(t[q]) => \E k \in 1 .. n + 1 : next[k] = q
    <3> SUFFICES ASSUME NEW q \in 1 .. s, is_usable(t[q])
                 PROVE  \E k \in 1 .. n + 1 : next[k] = q
      OBVIOUS
    <3>1. CASE q = s
      BY <1>1, <2>2, <3>1
    <3>2. CASE q \in 1 .. s - 1
      <4>1. PICK k \in 1 .. n : place[k] = q
        BY <1>2, <3>2
      <4> QED
        BY <1>1, <2>2, <4>1
    <3> QED
      BY <1>3, <3>1, <3>2
  <2>7. FoundAt(next, t, s + 1, r2)
    BY <1>3, <2>1, <2>2, <2>4, <2>5, <2>6 DEF FoundAt
  <2>8. Found(t, s + 1, r2)
    BY <1>3, <2>1, <2>2, <2>7 DEF Found
  <2> QED
    BY <1>5, <2>8 DEF r2
<1> QED
  BY <1>4, <1>5

-----------------------------------------------------------------------------
(* The invariant holds from the start.                                     *)

LEMMA MapInitIInv == BootInit => MapIInv
<1> SUFFICES ASSUME BootInit PROVE MapIInv
  OBVIOUS
<1>1. /\ phase = "reset" /\ map \in Maps /\ style \in Styles /\ residue \in Residues
      /\ table = [i \in 1 .. SLOTS |-> residue]
      /\ ebx = 0 /\ di = 1 /\ slot = 1 /\ ranges = << >>
  BY DEF BootInit, MapInit
<1>2. table \in [1 .. SLOTS -> Entries]
  BY <1>1, MapSizes
<1>3. 1 \in 1 .. SLOTS
  BY <1>1, MapEntries, MapSizes
<1>4. Untouched /\ table[1] = residue
  BY <1>1, <1>3 DEF Untouched
<1> QED
  BY <1>1, <1>2, <1>4 DEF MapIInv, BeforeMap, BehindMap, InKernel

\* While the map is left alone, the phases around it may pass.
LEMMA MapLeftAlone ==
  ASSUME MapIInv, UNCHANGED memoryMap,
         \/ phase' = phase
         \/ phase' \in {"stopped", "astray"}
         \/ phase \in BeforeMap /\ phase' \in BeforeMap
         \/ phase \in BehindMap /\ phase' \in BehindMap
  PROVE  MapIInv'
<1>1. UNCHANGED <<map, style, residue, ebx, table, di, slot, ranges, endAddress>>
  BY DEF memoryMap, bios
<1>2. UNCHANGED <<Untouched, Collecting, Collected, Searching, MapEnds>>
  BY <1>1 DEF Untouched, Collecting, Collected, Searching, MapEnds, Slot, Stored, StoredFrom,
              Found, FoundAt, Given, Kept
<1>3. Chosen' = Chosen
  BY <1>1 DEF Chosen, HoldsHeap, EndOf
<1>4. (\A k \in 1 .. Len(ranges) : ~HoldsHeap(ranges[k]))' =
        (\A k \in 1 .. Len(ranges) : ~HoldsHeap(ranges[k]))
  BY <1>1 DEF HoldsHeap, EndOf
<1> QED
  BY <1>1, <1>2, <1>3, <1>4 DEF MapIInv, BeforeMap, BehindMap, InKernel

-----------------------------------------------------------------------------
(* The BIOS is asked for the map.                                          *)

\* A call that gives entry n writes it to slot di, and nothing else.
LEMMA CallGives ==
  ASSUME map \in Maps, style \in Styles, table \in [1 .. SLOTS -> Entries],
         ebx \in Nat, ebx < Len(map), di' \in 1 .. SLOTS, Call
  PROVE  /\ table' \in [1 .. SLOTS -> Entries] /\ table'[di'] = map[ebx + 1]
         /\ \A k \in 1 .. SLOTS : k # di' => table'[k] = table[k]
         /\ ebx' = IF style = "last" /\ ebx + 1 = Len(map) THEN 0 ELSE ebx + 1
<1>1. table' = [table EXCEPT ![di'] = map[ebx + 1]]
  BY DEF Call
<1>2. map[ebx + 1] \in Entries
  BY MapEntries
<1>3. ebx' = IF style = "last" /\ ebx + 1 = Len(map) THEN 0 ELSE ebx + 1
  BY DEF Call
<1> HIDE DEF Entries
<1> QED
  BY <1>1, <1>2, <1>3

LEMMA FirstCallStep == ASSUME MapIInv, load_system_memory_info PROVE MapIInv'
<1>1. CASE UNCHANGED memoryMap /\ Goes("stopped")
  BY <1>1, MapLeftAlone DEF Goes
<1>2. CASE Goes("memory_loop") /\ FirstCall
  <2>1. /\ phase = "memory_info" /\ phase' = "memory_loop" /\ di' = di /\ Call
        /\ UNCHANGED <<map, style, residue, slot, ranges, endAddress>>
    BY <1>2 DEF load_system_memory_info, FirstCall, Goes, bios
  <2>2. /\ map \in Maps /\ style \in Styles /\ residue \in Residues
        /\ table \in [1 .. SLOTS -> Entries]
        /\ ebx = 0 /\ di = 1 /\ Untouched /\ slot = 1 /\ ranges = << >>
    BY <2>1 DEF MapIInv, BeforeMap
  <2>3. /\ Len(map) \in Nat /\ 1 <= Len(map) /\ Len(map) < SLOTS
    BY <2>2, MapEntries
  <2>4. /\ table' \in [1 .. SLOTS -> Entries] /\ table'[1] = map[1]
        /\ \A k \in 1 .. SLOTS : k # 1 => table'[k] = table[k]
        /\ ebx' = IF style = "last" /\ 1 = Len(map) THEN 0 ELSE 1
    <3>1. ebx + 1 = 1 /\ di' = 1 /\ di' \in 1 .. SLOTS /\ ebx \in Nat /\ ebx < Len(map)
      BY <2>1, <2>2, <2>3, MapSizes
    <3> QED
      BY <2>1, <2>2, <3>1, CallGives
  <2>5. Untouched'
    BY <2>1, <2>2, <2>4 DEF Untouched
  <2>6. Given' = 1
    BY <2>1, <2>3, <2>4 DEF Given
  <2>7. Collecting'
    <3>1. CASE style = "carry_kept"
      BY <2>1, <2>3, <2>4, <3>1 DEF Collecting
    <3>2. CASE style # "carry_kept"
      <4>1. ebx' \in 0 .. Len(map) /\ (ebx' = 0 => style = "last")
        BY <2>3, <2>4
      <4>2. style = "last" => ebx' < Len(map)
        BY <2>3, <2>4
      <4>3. Stored(table', 1, map, 0)
        BY NothingStored
      <4>4. di' \in 1 .. Given' /\ table'[di'] = map[Given']
        BY <2>1, <2>2, <2>4, <2>6
      <4>5. Stored(table', di', map', Given' - 1)
        BY <2>1, <2>2, <2>6, <4>3
      <4> QED
        BY <2>1, <3>2, <4>1, <4>2, <4>4, <4>5 DEF Collecting
    <3> QED
      BY <3>1, <3>2
  <2> QED
    BY <2>1, <2>2, <2>4, <2>5, <2>7 DEF MapIInv, BeforeMap, BehindMap, InKernel
<1> QED
  BY <1>1, <1>2 DEF load_system_memory_info

LEMMA NextCallStep == ASSUME MapIInv, lsmi_loop PROVE MapIInv'
<1>1. /\ phase = "memory_loop" /\ phase' = "memory_loop"
      /\ ebx # 0 /\ di' = next_slot /\ Call
      /\ UNCHANGED <<map, style, residue, slot, ranges, endAddress>>
  BY DEF lsmi_loop, NextCall, Goes, bios
<1>2. /\ map \in Maps /\ style \in Styles /\ residue \in Residues
      /\ table \in [1 .. SLOTS -> Entries]
      /\ Collecting /\ slot = 1 /\ ranges = << >>
      /\ style # "carry_kept" => Untouched
  BY <1>1 DEF MapIInv
<1>3. Len(map) \in Nat /\ Len(map) < SLOTS /\ \A i \in 1 .. Len(map) : map[i] \in Entries
  BY <1>2, MapEntries
<1>4. SUFFICES /\ table' \in [1 .. SLOTS -> Entries]
               /\ Collecting' /\ (style # "carry_kept" => Untouched')
  BY <1>1, <1>2 DEF MapIInv, BeforeMap, BehindMap, InKernel
<1>5. CASE style = "carry_kept"
  <2>1. ebx \in 1 .. Len(map)
    BY <1>2, <1>5 DEF Collecting
  <2>2. ebx' \in 1 .. Len(map)
    BY <1>1, <1>3, <1>5, <2>1 DEF Call
  <2>3. table' \in [1 .. SLOTS -> Entries]
    <3>1. \/ table' = table
          \/ ebx + 1 \in 1 .. Len(map) /\ table' = [table EXCEPT ![di'] = map[ebx + 1]]
      BY <1>1, <1>3, <2>1 DEF Call
    <3> HIDE DEF Entries
    <3> QED
      BY <1>2, <1>3, <3>1
  <2> QED
    BY <1>1, <1>5, <2>2, <2>3 DEF Collecting
<1>6. CASE style # "carry_kept"
  <2>1. /\ ebx \in 1 .. Len(map) /\ (style = "last" => ebx < Len(map))
        /\ di \in 1 .. ebx /\ table[di] = map[ebx] /\ Stored(table, di, map, ebx - 1)
    BY <1>1, <1>2, <1>3, <1>6 DEF Collecting, Given
  <2>2. /\ di \in 1 .. SLOTS /\ di' = IF table[di][2] = ZeroNumber THEN di ELSE di + 1
        /\ di' \in 1 .. ebx + 1 /\ di' \in 1 .. SLOTS /\ di <= di'
    BY <1>1, <1>2, <1>3, <2>1, MapSizes DEF next_slot, Slot
  <2>3. Stored(table, di', map, ebx)
    <3>1. ebx - 1 \in Nat /\ ebx - 1 + 1 = ebx /\ di \in Nat \ {0}
      BY <1>3, <2>1
    <3> QED
      BY <2>1, <2>2, <3>1, StoreNext
  <2>4. CASE ebx < Len(map)
    <3>1. /\ table' \in [1 .. SLOTS -> Entries] /\ table'[di'] = map[ebx + 1]
          /\ \A k \in 1 .. SLOTS : k # di' => table'[k] = table[k]
          /\ ebx' = IF style = "last" /\ ebx + 1 = Len(map) THEN 0 ELSE ebx + 1
      BY <1>1, <1>2, <1>3, <2>1, <2>2, <2>4, CallGives
    <3>2. Given' = ebx + 1
      BY <1>1, <1>3, <2>1, <3>1 DEF Given
    <3>3. Stored(table', di', map, ebx)
      <4>1. \A k \in 1 .. di' - 1 : table'[k] = table[k]
        BY <2>2, <3>1, MapSizes
      <4> QED
        BY <2>3, <4>1, StoredStays
    <3>4. Collecting'
      <4>1. ebx' \in 0 .. Len(map) /\ (ebx' = 0 => style = "last")
        BY <1>3, <2>1, <2>4, <3>1
      <4>2. style = "last" => ebx' < Len(map)
        BY <1>3, <2>1, <2>4, <3>1
      <4>3. di' \in 1 .. Given' /\ table'[di'] = map[Given']
        BY <2>2, <3>1, <3>2
      <4>4. Given' - 1 = ebx
        BY <1>3, <2>1, <3>2
      <4>5. Stored(table', di', map', Given' - 1)
        BY <1>1, <3>3, <4>4
      <4> QED
        BY <1>1, <1>6, <4>1, <4>2, <4>3, <4>5 DEF Collecting
    <3>5. Untouched'
      BY <1>1, <1>2, <1>6, <2>1, <2>2, <3>1, MapSizes DEF Untouched
    <3> QED
      BY <3>1, <3>4, <3>5
  <2>5. CASE ebx = Len(map)
    <3>1. style = "carry_zero" /\ ebx' = 0 /\ table' = table
      BY <1>1, <1>2, <1>3, <1>6, <2>1, <2>5 DEF Call, Styles
    <3>2. Collecting'
      <4>1. di' \in 1 .. Len(map) + 1
        BY <2>2, <2>5
      <4>2. Stored(table', di', map', Len(map'))
        BY <1>1, <2>3, <2>5, <3>1
      <4> QED
        BY <1>1, <3>1, <4>1, <4>2 DEF Collecting
    <3>3. Untouched'
      BY <1>1, <1>2, <1>6, <2>1, <2>2, <3>1, MapSizes DEF Untouched
    <3> QED
      BY <1>2, <3>1, <3>2, <3>3
  <2> QED
    BY <1>3, <2>1, <2>4, <2>5
<1> QED
  BY <1>5, <1>6

LEMMA NullEntryStep == ASSUME MapIInv, lsmi_loop_end PROVE MapIInv'
<1>1. /\ phase = "memory_loop" /\ phase' = "kernel_header" /\ ebx = 0
      /\ table' = [i \in DOMAIN table |->
                     IF i = di THEN [q \in 1 .. 3 |-> <<0, table[i][q][2], 0, table[i][q][4]>>]
                     ELSE table[i]]
      /\ UNCHANGED <<map, style, residue, ebx, di, slot, ranges, endAddress>>
  BY DEF lsmi_loop_end, AddNullEntry, Goes, bios
<1>2. /\ map \in Maps /\ style \in Styles /\ residue \in Residues
      /\ table \in [1 .. SLOTS -> Entries]
      /\ Collecting /\ slot = 1 /\ ranges = << >>
      /\ style # "carry_kept" => Untouched
  BY <1>1 DEF MapIInv
<1>3. Len(map) \in Nat /\ 1 <= Len(map) /\ Len(map) < SLOTS
  BY <1>2, MapEntries
<1>4. /\ style # "carry_kept" /\ di \in 1 .. SLOTS /\ Stored(table, di, map, Kept)
  <2>1. style # "carry_kept"
    BY <1>1, <1>2 DEF Collecting
  <2>2. CASE style = "last"
    <3>1. di \in 1 .. Len(map) /\ Stored(table, di, map, Len(map) - 1)
      BY <1>1, <1>2, <2>2 DEF Collecting, Given
    <3> QED
      BY <1>3, <2>1, <2>2, <3>1, MapSizes DEF Kept
  <2>3. CASE style = "carry_zero"
    <3>1. di \in 1 .. Len(map) + 1 /\ Stored(table, di, map, Len(map))
      BY <1>1, <1>2, <2>3 DEF Collecting
    <3> QED
      BY <1>3, <2>1, <2>3, <3>1, MapSizes DEF Kept
  <2> QED
    BY <1>2, <2>1, <2>2, <2>3 DEF Styles
<1>5. /\ \A k \in 1 .. SLOTS : k # di => table'[k] = table[k]
      /\ table'[di] = [q \in 1 .. 3 |-> <<0, table[di][q][2], 0, table[di][q][4]>>]
  BY <1>1, <1>2, <1>4
<1>6. table'[di] \in Entries /\ ~is_usable(table'[di])
  <2>1. table[di] \in Entries
    BY <1>2, <1>4
  <2> HIDE DEF Entries, is_usable
  <2> QED
    BY <1>5, <2>1, NullUnusable
<1>7. table' \in [1 .. SLOTS -> Entries]
  <2>1. DOMAIN table = 1 .. SLOTS /\ \A k \in 1 .. SLOTS : table[k] \in Entries
    BY <1>2
  <2>2. \A k \in 1 .. SLOTS : table'[k] \in Entries
    BY <1>5, <1>6, <2>1
  <2>3. table' = [k \in 1 .. SLOTS |-> table'[k]]
    BY <1>1, <2>1
  <2> HIDE DEF Entries
  <2> QED
    BY <2>2, <2>3
<1>8. Stored(table', di, map, Kept)
  <2>1. \A k \in 1 .. di - 1 : table'[k] = table[k]
    BY <1>4, <1>5, MapSizes
  <2> QED
    BY <1>4, <2>1, StoredStays
<1>9. Untouched'
  BY <1>1, <1>2, <1>4, <1>5, MapSizes DEF Untouched
<1>10. Collected'
  <2>1. Kept' = Kept
    BY <1>1 DEF Kept
  <2> QED
    BY <1>1, <1>4, <1>6, <1>8, <2>1 DEF Collected, is_usable, U32
<1> QED
  BY <1>1, <1>2, <1>7, <1>9, <1>10 DEF MapIInv, BeforeMap, BehindMap, InKernel

-----------------------------------------------------------------------------
(* The kernel looks for its heap.                                          *)

LEMMA CutIsRange == ASSUME NEW e \in Entries PROVE Cut(e) \in Int \X Int
<1>1. U32(e[1]) \in Nat /\ U32(e[2]) \in Nat
  BY UsableAlike
<1> QED
  BY <1>1 DEF Cut

\* What was written stays, whatever the kernel reads of it.
LEMMA TableStays ==
  ASSUME UNCHANGED <<map, style, residue, table, di>>
  PROVE  Collected' = Collected /\ Untouched' = Untouched
BY DEF Collected, Untouched, Kept, Stored, StoredFrom, is_usable, U32

LEMMA RangesStay ==
  ASSUME UNCHANGED <<table, slot, ranges>>
  PROVE  Searching' = Searching /\ MapEnds' = MapEnds
<1>1. Found(table, slot, ranges)' = Found(table, slot, ranges)
  BY DEF Found, FoundAt, is_usable, Cut, U32
<1>2. Searching' = Searching
  BY <1>1 DEF Searching
<1>3. MapEnds' = MapEnds
  BY DEF MapEnds, Slot
<1> QED
  BY <1>2, <1>3

LEMMA KernelEnteredStep == ASSUME MapIInv, jump_kernel PROVE MapIInv'
<1>1. /\ phase = "elf" /\ phase' = "kernel_started"
      /\ UNCHANGED <<map, style, residue, ebx, table, di, slot, ranges, endAddress>>
  BY DEF jump_kernel, Goes, memoryMap, bios
<1>2. /\ map \in Maps /\ style \in Styles /\ residue \in Residues
      /\ table \in [1 .. SLOTS -> Entries]
      /\ Collected /\ Untouched /\ slot = 1 /\ ranges = << >>
  BY <1>1 DEF MapIInv, BehindMap
<1>3. Collected' /\ Untouched'
  BY <1>1, <1>2, TableStays
<1>4. Searching'
  <2>1. Found(table', slot', ranges')
    BY <1>1, <1>2, NothingFound
  <2>2. slot' \in 1 .. SLOTS + 1 /\ ranges' \in Seq(Int \X Int) /\ Len(ranges') <= ENTRIES
    BY <1>1, <1>2, MapSizes
  <2> QED
    BY <2>1, <2>2 DEF Searching
<1> QED
  BY <1>1, <1>2, <1>3, <1>4 DEF MapIInv, BeforeMap, BehindMap, InKernel

LEMMA RangeStep == ASSUME MapIInv, kernel_memory_range PROVE MapIInv'
<1>1. /\ phase = "kernel_started"
      /\ map \in Maps /\ style \in Styles /\ residue \in Residues
      /\ table \in [1 .. SLOTS -> Entries]
      /\ Collected /\ Untouched /\ Searching
  BY DEF MapIInv, InKernel, kernel_memory_range
<1>2. UNCHANGED <<map, style, residue, ebx, table, di, endAddress>>
  BY DEF kernel_memory_range, initialize_memory_range, memoryMap, bios
<1>3. Collected' /\ Untouched'
  BY <1>1, <1>2, TableStays
<1>4. CASE MapEnds /\ Goes("ranges_known") /\ UNCHANGED memoryMap
  <2>1. phase' = "ranges_known" /\ slot' = slot /\ ranges' = ranges
    BY <1>4 DEF Goes, memoryMap
  <2>2. Searching' /\ MapEnds'
    BY <1>1, <1>2, <1>4, <2>1, RangesStay
  <2> QED
    BY <1>1, <1>2, <1>3, <2>1, <2>2 DEF MapIInv, BeforeMap, BehindMap, InKernel
<1>5. CASE initialize_memory_range /\ Goes("kernel_started")
  <2>1. /\ phase' = "kernel_started" /\ ~MapEnds /\ slot' = slot + 1
        /\ ranges' = IF is_usable(Slot(slot)) THEN Append(ranges, Cut(Slot(slot))) ELSE ranges
    BY <1>5 DEF initialize_memory_range, Goes
  <2>2. /\ slot \in 1 .. SLOTS + 1 /\ ranges \in Seq(Int \X Int)
        /\ Found(table, slot, ranges)
    BY <1>1 DEF Searching
  <2>3. slot \in 1 .. SLOTS /\ Slot(slot) = table[slot]
    BY <1>1, <2>1 DEF MapEnds, Slot
  <2>4. Len(ranges) \in Nat /\ Len(ranges) < ENTRIES
    BY <2>1, <2>2, MapSizes DEF MapEnds
  <2>5. Cut(table[slot]) \in Int \X Int
    <3>1. table[slot] \in Entries
      BY <1>1, <2>3
    <3> QED
      BY <3>1, CutIsRange
  <2>6. Found(table, slot', ranges')
    BY <2>1, <2>2, <2>3, <2>5, MapSizes, FindNext
  <2>7. ranges' \in Seq(Int \X Int) /\ Len(ranges') <= ENTRIES
    <3> DEFINE cut == Cut(table[slot])
    <3>1. \/ ranges' = ranges
          \/ ranges' = Append(ranges, cut) /\ cut \in Int \X Int
      BY <2>1, <2>3, <2>5
    <3> HIDE DEF cut
    <3>2. Append(ranges, cut) \in Seq(Int \X Int) /\ Len(Append(ranges, cut)) = Len(ranges) + 1
      BY <2>2, <2>5, AppendProperties DEF cut
    <3>3. CASE ranges' = ranges
      BY <2>2, <2>4, <3>3, MapSizes
    <3>4. CASE ranges' = Append(ranges, cut)
      <4>1. ranges' \in Seq(Int \X Int) /\ Len(ranges') = Len(ranges) + 1
        BY <3>2, <3>4
      <4>2. Len(ranges) + 1 <= ENTRIES
        BY <2>4, MapSizes
      <4> QED
        BY <4>1, <4>2, Zenon
    <3> QED
      BY <3>1, <3>3, <3>4
  <2>8. Searching'
    BY <1>2, <2>1, <2>3, <2>6, <2>7, MapSizes DEF Searching
  <2> QED
    BY <1>1, <1>2, <1>3, <2>1, <2>8 DEF MapIInv, BeforeMap, BehindMap, InKernel
<1> QED
  BY <1>4, <1>5 DEF kernel_memory_range

LEMMA HeapStep == ASSUME MapIInv, kernel_memory PROVE MapIInv'
<1>1. /\ phase = "ranges_known"
      /\ map \in Maps /\ style \in Styles /\ residue \in Residues
      /\ table \in [1 .. SLOTS -> Entries]
      /\ Collected /\ Untouched /\ Searching /\ MapEnds
  BY DEF MapIInv, InKernel, kernel_memory
<1>2. UNCHANGED <<map, style, residue, ebx, table, di, slot, ranges>>
  BY DEF kernel_memory, initialize, initialize_fails, memoryMap, bios
<1>3. Collected' /\ Untouched' /\ Searching' /\ MapEnds'
  BY <1>1, <1>2, TableStays, RangesStay
<1>4. /\ Len(ranges) \in Nat /\ DOMAIN ranges = 1 .. Len(ranges)
  BY <1>1 DEF Searching
<1>5. CASE initialize /\ Goes("running")
  <2>1. PICK k \in DOMAIN ranges :
          /\ HoldsHeap(ranges[k]) /\ \A l \in 1 .. k - 1 : ~HoldsHeap(ranges[l])
          /\ endAddress' = EndOf(ranges[k])
    BY <1>5 DEF initialize
  <2>2. Chosen'
    BY <1>2, <1>4, <2>1 DEF Chosen, HoldsHeap, EndOf
  <2> QED
    BY <1>1, <1>2, <1>3, <1>5, <2>2 DEF MapIInv, BeforeMap, BehindMap, InKernel, Goes
<1>6. CASE initialize_fails /\ Goes("no_heap")
  <2>1. \A k \in 1 .. Len(ranges) : ~HoldsHeap(ranges[k])
    BY <1>4, <1>6 DEF initialize_fails
  <2>2. (\A k \in 1 .. Len(ranges) : ~HoldsHeap(ranges[k]))'
    BY <1>2, <2>1 DEF HoldsHeap, EndOf
  <2> QED
    BY <1>1, <1>2, <1>3, <1>6, <2>2 DEF MapIInv, BeforeMap, BehindMap, InKernel, Goes
<1> QED
  BY <1>5, <1>6 DEF kernel_memory

-----------------------------------------------------------------------------
LEMMA MapAfterSector ==
  ASSUME AfterSector, Reading
  PROVE  \/ phase \in BeforeMap /\ phase' \in BeforeMap
         \/ phase \in BehindMap /\ phase' \in BehindMap
BY DEF Reading, AfterSector, AfterHeader, Goes, BeforeMap, BehindMap

LEMMA MapNextIInv == ASSUME MapIInv, [BootNext]_bootVars PROVE MapIInv'
<1>1. CASE stage0_start
  BY <1>1, MapLeftAlone DEF stage0_start, Goes, BeforeMap
<1>2. CASE read_sector
  BY <1>2, MapAfterSector, MapLeftAlone DEF read_sector
<1>3. CASE retry_sector
  BY <1>3, MapLeftAlone DEF retry_sector, Goes
<1>4. CASE give_up_sector
  BY <1>4, MapAfterSector, MapLeftAlone DEF give_up_sector
<1>5. CASE jump_boot1
  BY <1>5, MapLeftAlone DEF jump_boot1, Goes, BeforeMap
<1>6. CASE load_system_memory_info
  BY <1>6, FirstCallStep
<1>7. CASE lsmi_loop
  BY <1>7, NextCallStep
<1>8. CASE lsmi_loop_end
  BY <1>8, NullEntryStep
<1>9. CASE enable_a20 \/ a20wait
  BY <1>9, MapLeftAlone DEF enable_a20, a20wait, Goes, BehindMap
<1>10. CASE invalid_elf
  BY <1>10, MapLeftAlone DEF invalid_elf, Goes
<1>11. CASE load_elf_program_table_entry
  BY <1>11, MapLeftAlone DEF load_elf_program_table_entry
<1>12. CASE jump_kernel
  BY <1>12, KernelEnteredStep
<1>13. CASE kernel_memory_range
  BY <1>13, RangeStep
<1>14. CASE kernel_memory
  BY <1>14, HeapStep
<1>15. CASE UNCHANGED bootVars
  BY <1>15, MapLeftAlone DEF bootVars
<1> QED
  BY <1>1, <1>2, <1>3, <1>4, <1>5, <1>6, <1>7, <1>8, <1>9, <1>10, <1>11, <1>12, <1>13,
     <1>14, <1>15 DEF BootNext

LEMMA MapInvariant == BootSpec => []MapIInv
<1>1. MapIInv /\ [BootNext]_bootVars => MapIInv'
  BY MapNextIInv
<1> QED
  BY MapInitIInv, <1>1, PTL DEF BootSpec

-----------------------------------------------------------------------------
(* What the kernel finds.                                                  *)

KernelLooked == phase \in InKernel \ {"kernel_started"}

\* Slot k was given as entry from[k], and range k was found in slot place[k].
Traced(from, place) == /\ StoredFrom(from, table, di, map, Kept)
                       /\ FoundAt(place, table, slot, ranges)

LEMMA Traces ==
  ASSUME MapIInv, KernelLooked
  PROVE  /\ map \in Maps /\ Kept \in Nat /\ Kept <= Len(map)
         /\ di \in 1 .. SLOTS /\ slot \in 1 .. SLOTS + 1
         /\ Len(ranges) \in Nat /\ Len(ranges) <= ENTRIES /\ DOMAIN ranges = 1 .. Len(ranges)
         /\ table \in [1 .. SLOTS -> Entries] /\ ~is_usable(table[di]) /\ Untouched /\ MapEnds
         /\ \E from, place : Traced(from, place)
<1>1. /\ map \in Maps /\ table \in [1 .. SLOTS -> Entries]
      /\ Collected /\ Searching /\ Untouched /\ MapEnds
  BY DEF MapIInv, KernelLooked
<1>2. Kept \in Nat /\ Kept <= Len(map)
  BY <1>1, MapEntries DEF Kept
<1>3. Len(ranges) \in Nat /\ DOMAIN ranges = 1 .. Len(ranges)
  BY <1>1 DEF Searching
<1>4. PICK from \in [1 .. di - 1 -> 1 .. Kept] : StoredFrom(from, table, di, map, Kept)
  BY <1>1 DEF Collected, Stored
<1>5. PICK place \in [1 .. Len(ranges) -> 1 .. slot - 1] : FoundAt(place, table, slot, ranges)
  BY <1>1 DEF Searching, Found
<1>6. Traced(from, place)
  BY <1>4, <1>5 DEF Traced
<1> QED
  BY <1>1, <1>2, <1>3, <1>6 DEF Collected, Searching

\* A range from before slot di is that of the entry stored there.
LEMMA RangesGiven ==
  ASSUME MapIInv, KernelLooked, NEW from, NEW place, Traced(from, place),
         NEW k \in 1 .. Len(ranges), place[k] < di
  PROVE  /\ place[k] \in 1 .. di - 1 /\ from[place[k]] \in 1 .. Kept
         /\ Wanted(map[from[place[k]]]) /\ ranges[k] = Cut(map[from[place[k]]])
<1> DEFINE q == place[k]
<1>1. /\ map \in Maps /\ Kept \in Nat /\ Kept <= Len(map) /\ di \in Nat /\ slot \in Nat
  BY Traces, MapSizes
<1>2. q \in 1 .. slot - 1 /\ is_usable(table[q]) /\ ranges[k] = Cut(table[q])
  BY DEF Traced, FoundAt
<1>3. q \in 1 .. di - 1
  BY <1>1, <1>2
<1> HIDE DEF q
<1>4. from[q] \in 1 .. Kept /\ table[q] = map[from[q]] /\ table[q][2] # ZeroNumber
  BY <1>3 DEF Traced, StoredFrom
<1>5. map[from[q]] \in Entries
  <2>1. from[q] \in 1 .. Len(map)
    BY <1>1, <1>4, MapEntries
  <2> QED
    BY <1>1, <2>1, MapEntries
<1>6. Usable(map[from[q]])
  BY <1>2, <1>4, <1>5, UsableAlike
<1> QED
  BY <1>2, <1>3, <1>4, <1>6 DEF q, Wanted

\* An entry that is wanted is stored, and its range is found unless there is no
\* room for it.
LEMMA WantedFound ==
  ASSUME MapIInv, KernelLooked, NEW from, NEW place, Traced(from, place),
         NEW i \in 1 .. Kept, Wanted(map[i])
  PROVE  \E q \in 1 .. di - 1 :
           /\ from[q] = i
           /\ \/ \E k \in 1 .. Len(ranges) : place[k] = q
              \/ slot <= q /\ Len(ranges) = ENTRIES
<1>1. /\ map \in Maps /\ Kept \in Nat /\ Kept <= Len(map)
      /\ di \in 1 .. SLOTS /\ slot \in 1 .. SLOTS + 1
      /\ Len(ranges) \in Nat /\ Len(ranges) <= ENTRIES /\ MapEnds
      /\ DOMAIN table = 1 .. SLOTS
  BY Traces
<1>2. PICK q \in 1 .. di - 1 : from[q] = i
  BY DEF Traced, StoredFrom, Wanted
<1>3. table[q] = map[i]
  BY <1>2 DEF Traced, StoredFrom
<1>4. CASE slot <= q
  <2>1. slot \in 1 .. di - 1 /\ slot \in 1 .. SLOTS
    BY <1>1, <1>4, MapSizes
  <2>2. table[slot][2] # ZeroNumber
    BY <2>1 DEF Traced, StoredFrom
  <2>3. Slot(slot) # ZeroEntry
    BY <1>1, <2>1, <2>2 DEF Slot, ZeroEntry
  <2>4. Len(ranges) = ENTRIES
    BY <1>1, <2>3, MapSizes DEF MapEnds
  <2> QED
    BY <1>2, <1>4, <2>4
<1>5. CASE q < slot
  <2>1. q \in 1 .. slot - 1
    BY <1>1, <1>5, MapSizes
  <2>2. is_usable(table[q])
    <3>1. i \in 1 .. Len(map)
      BY <1>1, MapEntries
    <3> QED
      BY <1>1, <1>3, <3>1, MapEntries, UsableAlike DEF Wanted
  <2>3. \E k \in 1 .. Len(ranges) : place[k] = q
    BY <2>1, <2>2 DEF Traced, FoundAt
  <2> QED
    BY <1>2, <2>3
<1> QED
  BY <1>1, <1>4, <1>5, MapSizes

\* In memory that was zero, nothing is found behind the table.
LEMMA NothingBehind ==
  ASSUME MapIInv, KernelLooked, residue = ZeroEntry,
         NEW from, NEW place, Traced(from, place), NEW k \in 1 .. Len(ranges)
  PROVE  place[k] < di
<1>1. /\ di \in 1 .. SLOTS /\ slot \in 1 .. SLOTS + 1 /\ ~is_usable(table[di]) /\ Untouched
  BY Traces
<1>2. place[k] \in 1 .. slot - 1 /\ is_usable(table[place[k]])
  BY DEF Traced, FoundAt
<1>3. place[k] \in 1 .. SLOTS /\ place[k] # di
  BY <1>1, <1>2, MapSizes
<1>4. ~(place[k] > di)
  BY <1>1, <1>2, <1>3, ZeroUnusable DEF Untouched
<1> QED
  BY <1>1, <1>3, <1>4, MapSizes

LEMMA TableRightHolds == MapIInv => TableRight
<1> SUFFICES ASSUME MapIInv, phase = "ranges_known", residue = ZeroEntry
             PROVE  Lists(ranges, IF style = "last" THEN SubSeq(map, 1, Len(map) - 1)
                                  ELSE map)
  BY DEF TableRight
<1> DEFINE entries == IF style = "last" THEN SubSeq(map, 1, Len(map) - 1) ELSE map
<1>1. KernelLooked
  BY DEF KernelLooked, InKernel
<1>2. /\ map \in Maps /\ Kept \in Nat /\ Kept <= Len(map) /\ di \in Nat /\ slot \in Nat
      /\ Len(ranges) \in Nat /\ Len(ranges) <= ENTRIES /\ DOMAIN ranges = 1 .. Len(ranges)
  BY <1>1, Traces, MapSizes
<1>3. PICK from, place : Traced(from, place)
  BY <1>1, Traces
<1>4. DOMAIN entries = 1 .. Kept /\ \A i \in 1 .. Kept : entries[i] = map[i]
  <2>1. map \in Seq(Entries) /\ Len(map) \in Nat /\ 1 <= Len(map) /\ DOMAIN map = 1 .. Len(map)
    BY <1>2, MapEntries, MemoryMapAssumption
  <2> HIDE DEF Entries
  <2>2. CASE style = "last"
    <3>1. 1 .. Len(map) - 1 \subseteq 1 .. Len(map)
      BY <2>1
    <3>2. /\ DOMAIN SubSeq(map, 1, Len(map) - 1) = 1 .. Len(map) - 1
          /\ \A i \in 1 .. Len(map) - 1 : SubSeq(map, 1, Len(map) - 1)[i] = map[i]
      BY <2>1
    <3> QED
      BY <2>2, <3>2 DEF Kept
  <2>3. CASE style # "last"
    BY <2>1, <2>3 DEF Kept
  <2> QED
    BY <2>2, <2>3
<1> HIDE DEF entries
<1>5. \A k \in 1 .. Len(ranges) :
        /\ place[k] \in 1 .. di - 1 /\ from[place[k]] \in 1 .. Kept
        /\ Wanted(map[from[place[k]]]) /\ ranges[k] = Cut(map[from[place[k]]])
  BY <1>1, <1>3, NothingBehind, RangesGiven
<1> DEFINE origin == [k \in DOMAIN ranges |-> from[place[k]]]
<1>6. /\ origin \in [DOMAIN ranges -> DOMAIN entries]
      /\ \A k \in 1 .. Len(ranges) : origin[k] = from[place[k]]
  BY <1>2, <1>4, <1>5
<1> HIDE DEF origin
<1>7. \A q, l \in 1 .. di - 1 : q < l => from[q] < from[l]
  BY <1>3 DEF Traced, StoredFrom
<1>8. \A k, l \in DOMAIN ranges : k < l => origin[k] < origin[l]
  <2> SUFFICES ASSUME NEW k \in 1 .. Len(ranges), NEW l \in 1 .. Len(ranges), k < l
               PROVE  origin[k] < origin[l]
    BY <1>2
  <2>1. place[k] < place[l]
    BY <1>3 DEF Traced, FoundAt
  <2>2. place[k] \in 1 .. di - 1 /\ place[l] \in 1 .. di - 1
    BY <1>5
  <2>3. from[place[k]] < from[place[l]]
    BY <1>7, <2>1, <2>2
  <2> QED
    BY <1>6, <2>3
<1>9. \A k \in DOMAIN ranges :
        Wanted(entries[origin[k]]) /\ ranges[k] = Cut(entries[origin[k]])
  BY <1>2, <1>4, <1>5, <1>6
<1>10. ASSUME NEW i \in DOMAIN entries, Wanted(entries[i])
       PROVE  \/ \E k \in DOMAIN ranges : origin[k] = i
              \/ Len(ranges) = ENTRIES /\ \A k \in DOMAIN ranges : origin[k] < i
  <2>1. i \in 1 .. Kept /\ Wanted(map[i])
    BY <1>4, <1>10
  <2>2. PICK q \in 1 .. di - 1 :
          /\ from[q] = i
          /\ \/ \E k \in 1 .. Len(ranges) : place[k] = q
             \/ slot <= q /\ Len(ranges) = ENTRIES
    BY <1>1, <1>3, <2>1, WantedFound
  <2>3. CASE \E k \in 1 .. Len(ranges) : place[k] = q
    BY <1>2, <1>6, <2>2, <2>3
  <2>4. CASE slot <= q /\ Len(ranges) = ENTRIES
    <3>1. \A k \in 1 .. Len(ranges) : place[k] < q
      <4>1. \A k \in 1 .. Len(ranges) : place[k] \in 1 .. slot - 1
        BY <1>3 DEF Traced, FoundAt
      <4> QED
        BY <1>2, <2>4, <4>1
    <3>2. \A k \in 1 .. Len(ranges) : origin[k] < i
      BY <1>5, <1>6, <1>7, <2>2, <3>1
    <3> QED
      BY <1>2, <2>4, <3>2
  <2> QED
    BY <2>2, <2>3, <2>4
<1>11. Lists(ranges, entries)
  BY <1>2, <1>6, <1>8, <1>9, <1>10 DEF Lists
<1> QED
  BY <1>11 DEF entries

-----------------------------------------------------------------------------
(* Where the heap ends.                                                    *)

\* Of an entry below 4 GiB, nothing is cut off.
LEMMA HoldsAlike ==
  ASSUME NEW e \in Entries, Usable(e), Below4GiB(e)
  PROVE  /\ EndOf(Cut(e)) = U32(e[1]) + U32(e[2])
         /\ HoldsHeap(Cut(e)) <=> UsableForHeap(e)
<1> DEFINE n == U32(e[1]) + U32(e[2])
<1>1. U32(e[1]) \in Nat /\ U32(e[2]) \in Nat /\ WORD * WORD \in Nat
  BY UsableAlike, MapSizes
<1>2. n \in 0 .. WORD * WORD - 1
  BY <1>1 DEF Below4GiB
<1> HIDE DEF n
<1>3. n % (WORD * WORD) = n
  BY <1>1, <1>2, SmallRemainder
<1>4. EndOf(Cut(e)) = n
  BY <1>3 DEF EndOf, Cut, n
<1> QED
  BY <1>4 DEF HoldsHeap, UsableForHeap, Cut, n

\* The entry for the heap is not empty.
LEMMA HeapWanted ==
  ASSUME NEW e \in Entries, UsableForHeap(e)
  PROVE  Wanted(e)
<1>1. e[2] = ZeroNumber => U32(e[2]) = 0
  BY MapSizes DEF U32, ZeroNumber
<1>2. U32(e[1]) \in Nat
  BY UsableAlike
<1> QED
  BY <1>1, <1>2, MapSizes DEF UsableForHeap, Wanted

\* Where an entry below 4 GiB was taken for the heap, it is one for the heap.
LEMMA ChosenEntry ==
  ASSUME map \in Maps, NEW i \in 1 .. Len(map), Wanted(map[i]), Below4GiB(map[i]),
         NEW k \in 1 .. Len(ranges), ranges[k] = Cut(map[i]), HoldsHeap(ranges[k]),
         endAddress = EndOf(ranges[k])
  PROVE  UsableForHeap(map[i]) /\ endAddress = U32(map[i][1]) + U32(map[i][2])
<1>1. map[i] \in Entries
  BY MapEntries
<1> QED
  BY <1>1, HoldsAlike DEF Wanted

LEMMA HeapInUsableMemoryHolds == MapIInv => HeapInUsableMemory
<1> SUFFICES ASSUME MapIInv, phase \in {"running", "no_heap"}
             PROVE  HeapInUsableMemory
  BY DEF HeapInUsableMemory
<1>1. KernelLooked
  BY DEF KernelLooked, InKernel
<1>2. /\ map \in Maps /\ Kept \in Nat /\ Kept <= Len(map) /\ di \in Nat /\ slot \in Nat
      /\ Len(ranges) \in Nat /\ DOMAIN ranges = 1 .. Len(ranges)
      /\ Len(map) \in Nat /\ DOMAIN map = 1 .. Len(map)
      /\ \A i \in 1 .. Len(map) : map[i] \in Entries
  BY <1>1, Traces, MapSizes, MapEntries
<1>3. PICK from, place : Traced(from, place)
  BY <1>1, Traces
<1>4. ASSUME NEW k \in 1 .. Len(ranges), place[k] < di
      PROVE  /\ from[place[k]] \in 1 .. Kept /\ from[place[k]] \in 1 .. Len(map)
             /\ Wanted(map[from[place[k]]]) /\ ranges[k] = Cut(map[from[place[k]]])
  <2>1. /\ from[place[k]] \in 1 .. Kept
        /\ Wanted(map[from[place[k]]]) /\ ranges[k] = Cut(map[from[place[k]]])
    BY <1>1, <1>3, <1>4, RangesGiven
  <2> QED
    BY <1>2, <2>1
<1>5. ASSUME KeepsHeap
      PROVE  \E i \in 1 .. Kept, q \in 1 .. di - 1 :
               /\ from[q] = i
               /\ \A j \in 1 .. i : Wanted(map[j]) => Below4GiB(map[j])
               /\ \/ \E k \in 1 .. Len(ranges) : place[k] = q /\ HoldsHeap(ranges[k])
                  \/ slot <= q /\ Len(ranges) = ENTRIES
  <2>1. PICK i \in 1 .. Len(map) :
          /\ UsableForHeap(map[i]) /\ (style = "last" => i < Len(map))
          /\ \A j \in 1 .. i - 1 : Wanted(map[j]) => Below4GiB(map[j])
    BY <1>2, <1>5 DEF KeepsHeap
  <2>2. i \in 1 .. Kept
    BY <1>2, <2>1 DEF Kept
  <2>3. Wanted(map[i])
    BY <1>2, <2>1, HeapWanted
  <2>4. PICK q \in 1 .. di - 1 :
          /\ from[q] = i
          /\ \/ \E k \in 1 .. Len(ranges) : place[k] = q
             \/ slot <= q /\ Len(ranges) = ENTRIES
    BY <1>1, <1>3, <2>2, <2>3, WantedFound
  <2>5. \A j \in 1 .. i : Wanted(map[j]) => Below4GiB(map[j])
    <3>1. \A j \in 1 .. i : j \in 1 .. i - 1 \/ j = i
      BY <1>2
    <3> QED
      BY <2>1, <3>1 DEF UsableForHeap
  <2>6. ASSUME NEW k \in 1 .. Len(ranges), place[k] = q
        PROVE  HoldsHeap(ranges[k])
    <3>1. ranges[k] = Cut(map[i])
      BY <1>2, <1>4, <2>4, <2>6
    <3> QED
      BY <1>2, <2>1, <3>1, HoldsAlike DEF UsableForHeap
  <2> QED
    BY <2>2, <2>4, <2>5, <2>6
<1>6. phase = "no_heap" /\ KeepsHeap => Len(ranges) = ENTRIES
  BY <1>5 DEF MapIInv
<1>7. ASSUME phase = "running"
      PROVE  \E k \in 1 .. Len(ranges) :
               /\ HoldsHeap(ranges[k]) /\ \A l \in 1 .. k - 1 : ~HoldsHeap(ranges[l])
               /\ endAddress = EndOf(ranges[k])
  BY <1>7 DEF MapIInv, Chosen
<1> DEFINE Ends(i) == UsableForHeap(map[i]) /\ endAddress = U32(map[i][1]) + U32(map[i][2])
<1>8. ASSUME phase = "running", KeepsHeap
      PROVE  \E i \in 1 .. Len(map) : Ends(i)
  <2>1. PICK k \in 1 .. Len(ranges) :
          /\ HoldsHeap(ranges[k]) /\ \A l \in 1 .. k - 1 : ~HoldsHeap(ranges[l])
          /\ endAddress = EndOf(ranges[k])
    BY <1>7, <1>8
  <2>2. PICK i \in 1 .. Kept, q \in 1 .. di - 1 :
          /\ from[q] = i
          /\ \A j \in 1 .. i : Wanted(map[j]) => Below4GiB(map[j])
          /\ \/ \E l \in 1 .. Len(ranges) : place[l] = q /\ HoldsHeap(ranges[l])
             \/ slot <= q /\ Len(ranges) = ENTRIES
    BY <1>5, <1>8
  <2>3. place[k] \in Nat /\ place[k] <= q /\ place[k] >= 1
    <3>1. /\ \A l \in 1 .. Len(ranges) : place[l] \in 1 .. slot - 1
          /\ \A l, m \in 1 .. Len(ranges) : l < m => place[l] < place[m]
      BY <1>3 DEF Traced, FoundAt
    <3>2. CASE slot <= q
      BY <1>2, <3>1, <3>2
    <3>3. CASE \E l \in 1 .. Len(ranges) : place[l] = q /\ HoldsHeap(ranges[l])
      <4>1. PICK l \in 1 .. Len(ranges) : place[l] = q /\ HoldsHeap(ranges[l])
        BY <3>3
      <4>2. k <= l
        BY <1>2, <2>1, <4>1
      <4>3. k = l \/ place[k] < place[l]
        BY <1>2, <3>1, <4>2
      <4> QED
        BY <1>2, <3>1, <4>1, <4>3
    <3> QED
      BY <2>2, <3>2, <3>3
  <2>4. place[k] \in 1 .. di - 1 /\ place[k] < di
    BY <1>2, <2>3
  <2> DEFINE j == from[place[k]]
  <2>5. j \in 1 .. Len(map) /\ Wanted(map[j]) /\ ranges[k] = Cut(map[j])
    BY <1>4, <2>4
  <2>6. j <= i
    <3>1. /\ \A l, m \in 1 .. di - 1 : l < m => from[l] < from[m]
          /\ \A l \in 1 .. di - 1 : from[l] \in 1 .. Kept
      BY <1>3 DEF Traced, StoredFrom
    <3>2. place[k] = q \/ place[k] < q
      BY <1>2, <2>3
    <3> QED
      BY <1>2, <2>2, <2>4, <3>1, <3>2
  <2> HIDE DEF j
  <2>7. Below4GiB(map[j])
    BY <1>2, <2>2, <2>5, <2>6
  <2> QED
    BY <1>2, <2>1, <2>5, <2>7, ChosenEntry
<1>9. ASSUME phase = "running", residue = ZeroEntry,
             \A i \in DOMAIN map : Wanted(map[i]) => Below4GiB(map[i])
      PROVE  \E i \in 1 .. Len(map) : Ends(i)
  <2>1. PICK k \in 1 .. Len(ranges) : HoldsHeap(ranges[k]) /\ endAddress = EndOf(ranges[k])
    BY <1>7, <1>9
  <2>2. place[k] < di
    BY <1>1, <1>3, <1>9, NothingBehind
  <2> DEFINE j == from[place[k]]
  <2>3. j \in 1 .. Len(map) /\ Wanted(map[j]) /\ ranges[k] = Cut(map[j])
    BY <1>4, <2>2
  <2> HIDE DEF j
  <2> QED
    BY <1>2, <1>9, <2>1, <2>3, ChosenEntry
<1> QED
  BY <1>2, <1>6, <1>8, <1>9 DEF HeapInUsableMemory

-----------------------------------------------------------------------------
(* In memory that was zero before, the kernel finds the usable ranges of   *)
(* the BIOS' map: all of them, in order, each whole in its low 32 bits,    *)
(* none twice and none that is empty - up to as many as its table has room *)
(* for, and up to the last one where the BIOS marks the end of the list    *)
(* with it.                                                                *)
THEOREM MemoryMapCopied == BootSpec => []TableRight
<1>1. MapIInv => TableRight
  BY TableRightHolds
<1> QED
  BY MapInvariant, <1>1, PTL

(* Where the map keeps the heap, the heap that initialize of manager.cpp   *)
(* sets up ends where one of the map's usable ranges does that holds its   *)
(* base, whatever lies in memory behind the table; it is not found only if *)
(* the ranges before it fill the kernel's table.                           *)
THEOREM HeapWellPlaced == BootSpec => []HeapInUsableMemory
<1>1. MapIInv => HeapInUsableMemory
  BY HeapInUsableMemoryHolds
<1> QED
  BY MapInvariant, <1>1, PTL

-----------------------------------------------------------------------------
(***************************************************************************)
(* The keyboard.  The steps of the driver are numbered.  For each, the     *)
(* invariant says what can be in the buffers between driver and device:    *)
(* little if the hardware takes its time (Base), and nearly everything if  *)
(* it is in time and nobody types (Exchange).                              *)
(***************************************************************************)

(* Where the driver is.                                                    *)

Plan == controller_initialize \o keyboard_initialize
Rest(k) == SubSeq(Plan, k, 22)

\* The step the driver is at, 23 when it is through.
at == 23 - Len(todo)

\* A step itself, or what it is replaced by until it is done.
Forms(k) == CASE k \in {17, 18, 20, 22} -> {Send(Plan[k].c, i) : i \in Nat}
                                           \cup {Answer(Plan[k].c, i) : i \in Nat}
              [] k = 19 -> {Identify, Identify2}
              [] OTHER -> {Plan[k]}

Place(k) == IF k = 23 THEN todo = << >>
            ELSE \E h \in Forms(k) : todo = <<h>> \o Rest(k + 1)

-----------------------------------------------------------------------------
(* Whatever the hardware does.                                             *)

AtMostOne(s) == s = << >> \/ \E b : s = <<b>>

\* The configuration that the set-up is to end with, but for the port.
Good(bits) == IRQ1 \in bits /\ TRANSLATION \notin bits

\* What is in the input buffer was written lately.
Entered(x, k) ==
  /\ x.do \in {"command", "write_config", "send"}
  /\ x.do = "command" => /\ k < 17
                         /\ x.c = "READ_CONFIG" => k \in {5, 6}
                         /\ x.c \in {"SELF_TEST", "TEST_FIRST"} => k >= 9
  /\ x.do = "write_config" => /\ expecting /\ k <= 17
                              /\ k = 17 => Good(x.bits) /\ Head(todo).do = "send"
  /\ x.do = "send" => /\ k >= 17
                      /\ x.c = "DISABLE_SCANNING" =>
                           k <= 18 /\ (k = 18 => Head(todo).do = "send")
                      /\ x.c = "RESET" => k >= 20

Input(k) ==
  /\ AtMostOne(inbuf)
  /\ inbuf # << >> => Entered(inbuf[1], k)
  /\ k \in {7, 11, 16} => \/ inbuf = <<Command("WRITE_CONFIG")>>
                          \/ inbuf = << >> /\ expecting
  /\ k >= 17 => \/ inbuf # << >> /\ inbuf[1].do = "write_config"
                \/ Good(config) /\ ~expecting

\* The device was reset and has been on since.
Up(k) == k >= 20 /\ PORT1_OFF \notin config /\ (IsKeyboard => scanning)

\* The bytes a device sends.
Sent == {ACK, RESEND, FAILURE, DEVICE_OK, xAB, x83, x41, {}, {2, 3, 4}, 4 .. 7}

ReadConfigOpen(k) ==
  k <= 4 \/ (inbuf # << >> /\ inbuf[1].do = "command" /\ inbuf[1].c = "READ_CONFIG")

\* The byte that says that the device is on is not there before.  The
\* configuration byte may look like it, but then it is gone when the self-test
\* has been passed.
Output(k) ==
  /\ AtMostOne(outbuf) /\ AtMostOne(reply)
  /\ pending \in Seq(Sent)
  /\ ReadConfigOpen(k) => reply = << >> /\ outbuf # <<SELF_TEST_OK>>
  /\ k <= 9 /\ outbuf = <<SELF_TEST_OK>> => reply # <<DEVICE_OK>>
  /\ Up(k) \/ /\ k < 22 /\ pending \in Seq(Sent \ {DEVICE_OK})
              /\ k >= 10 => outbuf # <<DEVICE_OK>> /\ reply # <<DEVICE_OK>>

Base == outcome # "stopped" =>
          /\ at \in 1 .. 23 /\ Place(at)
          /\ outcome \in {"busy", "ready"} /\ (outcome = "ready" => at = 23)
          /\ Input(at) /\ Output(at)

-----------------------------------------------------------------------------
(* Hardware in time, and nobody types.                                     *)

Calm == timely /\ (IsKeyboard => touches = 0)

Quiet == reply = << >> /\ outbuf = << >> /\ pending = << >>

Asking == {"READ_CONFIG", "SELF_TEST", "TEST_FIRST"}

\* No answer is on its way.
NotAsked == inbuf # << >> /\ inbuf[1].do = "command" => inbuf[1].c \notin Asking

\* One answer is on its way, the right one if no test failed.
Asked(c, answer) ==
  /\ pending = << >>
  /\ \/ inbuf = <<Command(c)>> /\ reply = << >> /\ outbuf = << >>
     \/ inbuf = << >> /\ \E b : /\ \/ reply = <<b>> /\ outbuf = << >>
                                   \/ reply = << >> /\ outbuf = <<b>>
                                /\ answer # << >> /\ ~faulty => b = answer[1]

\* What is on its way from the device.
Pipe == outbuf \o pending

\* What the device sends behind its acknowledgement.
More(c, bytes) == CASE c = "IDENTIFY" -> bytes = Identity
                    [] c = "RESET" -> bytes = <<DEVICE_OK>> \/ (faulty /\ bytes = <<FAILURE>>)
                    [] OTHER -> bytes = << >>

\* The port is open, and the bytes have yet to be read.
Arriving(bytes) ==
  inbuf = << >> /\ Pipe = bytes /\ PORT1_OFF \notin config /\ device # "NONE"

\* A command was sent, and was lost, refused or obeyed.
Answering(c, i) ==
  \/ inbuf = <<Send(c, i)>> /\ Quiet
  \/ inbuf = << >> /\ Quiet /\ ~(reopens /\ device # "NONE")
  \/ Arriving(<<RESEND>>) /\ i < refusals
  \/ \E bytes \in Seq(Sent) : More(c, bytes) /\ Arriving(<<ACK>> \o bytes)

\* The set-up of the controller: at most one answer is on its way.
SettingUp(k) ==
  /\ k <= 3 => reply = << >> /\ pending = << >>
  /\ k \notin {5, 9, 13} => NotAsked
  /\ k \in {4, 6, 7, 8, 10, 11, 12, 14, 15, 16} => Quiet
  /\ k = 5 => Asked("READ_CONFIG", << >>)
  /\ k = 9 => Asked("SELF_TEST", <<SELF_TEST_OK>>)
  /\ k = 13 => Asked("TEST_FIRST", <<{}>>)

\* The loop around a command for the device.
Trying(h, k) ==
  /\ h.i <= refusals
  /\ h.do = "send" => Quiet /\ (k > 17 => inbuf = << >>)
                      /\ (inbuf # << >> => inbuf[1].do = "write_config")
  /\ h.do = "answer" => Answering(h.c, h.i)

Identifying(h) ==
  IF h = Identify THEN Arriving(Identity)
  ELSE Arriving(<<Identity[2]>>) /\ device \in {"MF2", "MF2_TRANSLATED", "UNKNOWN"}

Exchange(k) ==
  /\ k < 17 => SettingUp(k)
  /\ k >= 17 => reply = << >>
  /\ k \in {17, 18, 20, 22} => Trying(Head(todo), k)
  /\ k = 19 => Identifying(Head(todo))
  /\ k >= 20 => IsKeyboard
  /\ k = 21 => Arriving(<<DEVICE_OK>>) \/ (faulty /\ Arriving(<<FAILURE>>))
  /\ k = 23 => inbuf = << >> /\ Quiet
  /\ IsKeyboard \/ ~scanning

Fine == /\ Calm /\ reopens /\ IsKeyboard
        /\ refusals < COMMAND_RETRY_COUNT /\ ~faulty

IInv == /\ refusals \in Nat /\ touches \in Nat /\ device \in Devices
        /\ Base
        /\ Calm /\ outcome # "stopped" => Exchange(at)
        /\ Fine => outcome # "stopped"
-----------------------------------------------------------------------------
(* Bytes and steps.                                                        *)

\* Each pair differs in a bit.
LEMMA Bytes ==
  /\ \A b \in Sent : b # SELF_TEST_OK
  /\ \A b \in Sent : b = DEVICE_OK \/ b \in Sent \ {DEVICE_OK}
  /\ DEVICE_OK \notin {ACK, RESEND, FAILURE, xAB, x83, x41, {}, {2, 3, 4}, 4 .. 7}
  /\ DEVICE_OK \notin {SELF_TEST_OK, {0}}
  /\ RESEND # ACK /\ xAB # {} /\ {} \notin {x41, x83}
<1>1. /\ 0 \in SELF_TEST_OK /\ 2 \in SELF_TEST_OK
      /\ 0 \notin ACK /\ 0 \notin RESEND /\ 0 \notin FAILURE /\ 0 \notin DEVICE_OK
      /\ 2 \notin xAB /\ 2 \notin x83 /\ 2 \notin x41 /\ 2 \notin {}
      /\ 0 \notin {2, 3, 4} /\ 0 \notin 4 .. 7
  BY DEF SELF_TEST_OK, ACK, RESEND, FAILURE, DEVICE_OK, xAB, x83, x41
<1>2. \A b \in Sent : 0 \notin b \/ 2 \notin b
  BY <1>1 DEF Sent
<1>3. /\ 1 \in DEVICE_OK /\ 0 \notin DEVICE_OK /\ 2 \notin DEVICE_OK /\ 4 \notin DEVICE_OK
      /\ 4 \in ACK /\ 2 \in RESEND /\ 2 \in FAILURE /\ 0 \in xAB /\ 0 \in x83 /\ 0 \in x41
      /\ 1 \notin {} /\ 2 \in {2, 3, 4} /\ 4 \in 4 .. 7 /\ 0 \in {0}
  BY DEF ACK, RESEND, FAILURE, DEVICE_OK, xAB, x83, x41
<1>4. 2 \in RESEND /\ 2 \notin ACK /\ 0 \in xAB /\ 0 \in x41 /\ 0 \in x83 /\ 0 \notin {}
  BY DEF ACK, RESEND, xAB, x83, x41
<1>5. \A b \in Sent : b # SELF_TEST_OK
  BY <1>1, <1>2
<1>6. DEVICE_OK \notin {ACK, RESEND, FAILURE, xAB, x83, x41, {}, {2, 3, 4}, 4 .. 7}
  BY <1>3
<1>7. DEVICE_OK \notin {SELF_TEST_OK, {0}}
  BY <1>1, <1>3
<1>8. RESEND # ACK /\ xAB # {} /\ {} \notin {x41, x83}
  BY <1>4
<1> QED
  BY <1>5, <1>6, <1>7, <1>8

Joins(S, s, e, t) == /\ t \in Seq(S) /\ Len(t) = Len(s) + 1 /\ Len(s) \in Nat
                     /\ \A i \in 1 .. Len(s) : t[i] = s[i]
                     /\ t[Len(s) + 1] = e

LEMMA Join ==
  ASSUME NEW S, NEW s \in Seq(S), NEW e \in S
  PROVE  Joins(S, s, e, s \o <<e>>)
<1>1. PICK t : t = <<e>>
  OBVIOUS
<1>2. t \in Seq(S) /\ Len(t) = 1 /\ t[1] = e /\ Len(s) \in Nat
  BY <1>1, LenProperties
<1>3. PICK u : u = s \o t
  OBVIOUS
<1>4. /\ u \in Seq(S) /\ Len(u) = Len(s) + Len(t)
      /\ \A i \in 1 .. Len(s) + Len(t) : u[i] = IF i <= Len(s) THEN s[i] ELSE t[i - Len(s)]
  BY <1>2, <1>3, ConcatProperties
<1>5. \A i \in 1 .. Len(s) : u[i] = s[i]
  BY <1>2, <1>4
<1>6. u[Len(s) + 1] = e
  <2>1. Len(s) + 1 \in 1 .. Len(s) + 1 /\ ~(Len(s) + 1 <= Len(s)) /\ Len(s) + 1 - Len(s) = 1
    BY <1>2
  <2> QED
    BY <1>2, <1>4, <2>1
<1> QED
  BY <1>1, <1>2, <1>3, <1>4, <1>5, <1>6 DEF Joins

LEMMA PlanSteps ==
  /\ Len(Plan) = 22 /\ \E S : Plan \in Seq(S)
  /\ Plan[1] = Command("DISABLE_FIRST") /\ Plan[2] = Command("DISABLE_SECOND")
  /\ Plan[3] = Flush /\ Plan[4] = Command("READ_CONFIG") /\ Plan[5] = ReadConfig
  /\ Plan[6] = Command("WRITE_CONFIG") /\ Plan[7] = WriteConfig({})
  /\ Plan[8] = Command("SELF_TEST") /\ Plan[9] = Expect(SELF_TEST_OK)
  /\ Plan[10] = Command("WRITE_CONFIG") /\ Plan[11] = WriteConfig({})
  /\ Plan[12] = Command("TEST_FIRST") /\ Plan[13] = Expect({})
  /\ Plan[14] = Command("ENABLE_FIRST") /\ Plan[15] = Command("WRITE_CONFIG")
  /\ Plan[16] = WriteConfig({IRQ1})
  /\ Plan[17] = Send("DISABLE_SCANNING", 0) /\ Plan[18] = Send("IDENTIFY", 0)
  /\ Plan[19] = Identify /\ Plan[20] = Send("RESET", 0)
  /\ Plan[21] = Expect(DEVICE_OK) /\ Plan[22] = Send("ENABLE_SCANNING", 0)
<1> DEFINE a == controller_initialize
           b == keyboard_initialize
<1>1. PICK c1, c2, c3, c4, c5, c6, c7, c8, c9, c10, c11, c12, c13, c14, c15, c16 :
        /\ a = <<c1, c2, c3, c4, c5, c6, c7, c8, c9, c10, c11, c12, c13, c14, c15, c16>>
        /\ c1 = Command("DISABLE_FIRST") /\ c2 = Command("DISABLE_SECOND")
        /\ c3 = Flush /\ c4 = Command("READ_CONFIG") /\ c5 = ReadConfig
        /\ c6 = Command("WRITE_CONFIG") /\ c7 = WriteConfig({})
        /\ c8 = Command("SELF_TEST") /\ c9 = Expect(SELF_TEST_OK)
        /\ c10 = Command("WRITE_CONFIG") /\ c11 = WriteConfig({})
        /\ c12 = Command("TEST_FIRST") /\ c13 = Expect({})
        /\ c14 = Command("ENABLE_FIRST") /\ c15 = Command("WRITE_CONFIG")
        /\ c16 = WriteConfig({IRQ1})
  BY DEF controller_initialize
<1>2. PICK d1, d2, d3, d4, d5, d6 :
        /\ b \in Seq({d1, d2, d3, d4, d5, d6}) /\ Len(b) = 6
        /\ b[1] = d1 /\ b[2] = d2 /\ b[3] = d3 /\ b[4] = d4 /\ b[5] = d5 /\ b[6] = d6
        /\ d1 = Send("DISABLE_SCANNING", 0) /\ d2 = Send("IDENTIFY", 0)
        /\ d3 = Identify /\ d4 = Send("RESET", 0)
        /\ d5 = Expect(DEVICE_OK) /\ d6 = Send("ENABLE_SCANNING", 0)
  <2>1. PICK e1, e2, e3, e4, e5, e6 :
          /\ e1 = Send("DISABLE_SCANNING", 0) /\ e2 = Send("IDENTIFY", 0)
          /\ e3 = Identify /\ e4 = Send("RESET", 0)
          /\ e5 = Expect(DEVICE_OK) /\ e6 = Send("ENABLE_SCANNING", 0)
    OBVIOUS
  <2>2. b = (((<<e1>> \o <<e2>> \o <<e3>>) \o <<e4>>) \o <<e5>>) \o <<e6>>
    BY <2>1 DEF keyboard_initialize, get_first_port_device_type,
                resend_until_success_or_timeout
  <2>3. PICK S : S = {e1, e2, e3, e4, e5, e6}
    OBVIOUS
  <2>4. PICK g1, g2, g3, g4, g5 : /\ g1 = <<e1>> /\ g2 = g1 \o <<e2>> /\ g3 = g2 \o <<e3>>
                                  /\ g4 = g3 \o <<e4>> /\ g5 = g4 \o <<e5>>
                                  /\ b = g5 \o <<e6>>
    BY <2>2, Zenon
  <2>5. g1 \in Seq(S) /\ Len(g1) = 1 /\ g1[1] = e1
    BY <2>3, <2>4
  <2>6. g2 \in Seq(S) /\ Len(g2) = 2 /\ g2[1] = e1 /\ g2[2] = e2
    <3>1. e2 \in S
      BY <2>3
    <3>2. Joins(S, g1, e2, g2)
      BY <2>4, <2>5, <3>1, Join
    <3> QED
      BY <2>5, <3>2 DEF Joins
  <2>7. g3 \in Seq(S) /\ Len(g3) = 3 /\ g3[1] = e1 /\ g3[2] = e2 /\ g3[3] = e3
    <3>1. e3 \in S
      BY <2>3
    <3>2. Joins(S, g2, e3, g3)
      BY <2>4, <2>6, <3>1, Join
    <3> QED
      BY <2>6, <3>2 DEF Joins
  <2>8. /\ g4 \in Seq(S) /\ Len(g4) = 4
        /\ g4[1] = e1 /\ g4[2] = e2 /\ g4[3] = e3 /\ g4[4] = e4
    <3>1. e4 \in S
      BY <2>3
    <3>2. Joins(S, g3, e4, g4)
      BY <2>4, <2>7, <3>1, Join
    <3> QED
      BY <2>7, <3>2 DEF Joins
  <2>9. /\ g5 \in Seq(S) /\ Len(g5) = 5
        /\ g5[1] = e1 /\ g5[2] = e2 /\ g5[3] = e3 /\ g5[4] = e4 /\ g5[5] = e5
    <3>1. e5 \in S
      BY <2>3
    <3>2. Joins(S, g4, e5, g5)
      BY <2>4, <2>8, <3>1, Join
    <3> QED
      BY <2>8, <3>2 DEF Joins
  <2>10. /\ b \in Seq(S) /\ Len(b) = 6
         /\ b[1] = e1 /\ b[2] = e2 /\ b[3] = e3 /\ b[4] = e4 /\ b[5] = e5 /\ b[6] = e6
    <3>1. e6 \in S
      BY <2>3
    <3>2. Joins(S, g5, e6, b)
      BY <2>4, <2>9, <3>1, Join
    <3> QED
      BY <2>9, <3>2 DEF Joins
  <2> QED
    BY <2>1, <2>3, <2>10, Zenon
<1> HIDE DEF a, b
<1>3. PICK S : /\ S = {c1, c2, c3, c4, c5, c6, c7, c8, c9, c10, c11, c12, c13, c14, c15, c16,
                        d1, d2, d3, d4, d5, d6}
  OBVIOUS
<1>4. a \in Seq(S) /\ Len(a) = 16 /\ b \in Seq(S) /\ Len(b) = 6
  <2>1. a \in Seq(S) /\ Len(a) = 16
    BY <1>1, <1>3
  <2>2. \A i \in 1 .. 6 : b[i] \in S
    BY <1>2, <1>3
  <2>3. b \in Seq(S)
    BY <1>2, <2>2, SeqDef
  <2> QED
    BY <1>2, <2>1, <2>3
<1>5. /\ \E T : Plan \in Seq(T)
      /\ Len(Plan) = 22
      /\ \A i \in 1 .. 16 : Plan[i] = a[i]
      /\ \A i \in 17 .. 22 : Plan[i] = b[i - 16]
  <2>1. PICK p : p = a \o b
    OBVIOUS
  <2>2. /\ p \in Seq(S) /\ Len(p) = Len(a) + Len(b)
        /\ \A i \in 1 .. Len(a) + Len(b) : p[i] = IF i <= Len(a) THEN a[i] ELSE b[i - Len(a)]
    BY <1>4, <2>1, ConcatProperties
  <2>3. p = Plan
    BY <2>1 DEF Plan, a, b
  <2> QED
    BY <1>4, <2>2, <2>3
<1>6. /\ Plan[1] = c1 /\ Plan[2] = c2 /\ Plan[3] = c3 /\ Plan[4] = c4
      /\ Plan[5] = c5 /\ Plan[6] = c6 /\ Plan[7] = c7 /\ Plan[8] = c8
      /\ Plan[9] = c9 /\ Plan[10] = c10 /\ Plan[11] = c11 /\ Plan[12] = c12
      /\ Plan[13] = c13 /\ Plan[14] = c14 /\ Plan[15] = c15 /\ Plan[16] = c16
  BY <1>1, <1>5
<1>7. /\ Plan[17] = d1 /\ Plan[18] = d2 /\ Plan[19] = d3
      /\ Plan[20] = d4 /\ Plan[21] = d5 /\ Plan[22] = d6
  BY <1>2, <1>5
<1> QED
  BY <1>1, <1>2, <1>5, <1>6, <1>7, Zenon
\* What the steps of the plan say, field by field.
LEMMA PlanFields ==
  /\ \A k \in {1, 2, 4, 6, 8, 10, 12, 14, 15} : Plan[k].do = "command"
  /\ \A k \in {7, 11, 16} : Plan[k].do = "write_config"
  /\ Plan[16].bits = {IRQ1}
  /\ \A k \in {9, 13, 21} : Plan[k].do = "expect"
  /\ \A k \in {17, 18, 20, 22} : Plan[k].do = "send" /\ Plan[k].i = 0
  /\ Plan[5].do = "read_config"
  /\ Plan[4].c = "READ_CONFIG" /\ Plan[8].c = "SELF_TEST" /\ Plan[12].c = "TEST_FIRST"
  /\ \A k \in {1, 2, 6, 10, 14, 15} : Plan[k].c \notin Asking
  /\ Plan[9].byte = SELF_TEST_OK /\ Plan[13].byte = {} /\ Plan[21].byte = DEVICE_OK
  /\ Plan[17].c = "DISABLE_SCANNING" /\ Plan[18].c = "IDENTIFY"
  /\ Plan[20].c = "RESET" /\ Plan[22].c = "ENABLE_SCANNING"
<1>1. /\ Plan[1].do = "command" /\ Plan[1].c = "DISABLE_FIRST"
      /\ Plan[2].do = "command" /\ Plan[2].c = "DISABLE_SECOND"
      /\ Plan[4].do = "command" /\ Plan[4].c = "READ_CONFIG"
  <2>1. /\ Plan[1] = Command("DISABLE_FIRST") /\ Plan[2] = Command("DISABLE_SECOND")
        /\ Plan[4] = Command("READ_CONFIG")
    BY PlanSteps, Zenon
  <2> QED
    BY <2>1 DEF Command
<1>2. /\ Plan[6].do = "command" /\ Plan[6].c = "WRITE_CONFIG"
      /\ Plan[8].do = "command" /\ Plan[8].c = "SELF_TEST"
      /\ Plan[10].do = "command" /\ Plan[10].c = "WRITE_CONFIG"
  <2>1. /\ Plan[6] = Command("WRITE_CONFIG") /\ Plan[8] = Command("SELF_TEST")
        /\ Plan[10] = Command("WRITE_CONFIG")
    BY PlanSteps, Zenon
  <2> QED
    BY <2>1 DEF Command
<1>3. /\ Plan[12].do = "command" /\ Plan[12].c = "TEST_FIRST"
      /\ Plan[14].do = "command" /\ Plan[14].c = "ENABLE_FIRST"
      /\ Plan[15].do = "command" /\ Plan[15].c = "WRITE_CONFIG"
  <2>1. /\ Plan[12] = Command("TEST_FIRST") /\ Plan[14] = Command("ENABLE_FIRST")
        /\ Plan[15] = Command("WRITE_CONFIG")
    BY PlanSteps, Zenon
  <2> QED
    BY <2>1 DEF Command
<1>4. /\ Plan[7].do = "write_config" /\ Plan[11].do = "write_config"
      /\ Plan[16].do = "write_config" /\ Plan[16].bits = {IRQ1}
  <2>1. /\ Plan[7] = WriteConfig({}) /\ Plan[11] = WriteConfig({})
        /\ Plan[16] = WriteConfig({IRQ1})
    BY PlanSteps, Zenon
  <2> QED
    BY <2>1 DEF WriteConfig
<1>5. /\ Plan[9].do = "expect" /\ Plan[13].do = "expect" /\ Plan[21].do = "expect"
      /\ Plan[9].byte = SELF_TEST_OK /\ Plan[13].byte = {} /\ Plan[21].byte = DEVICE_OK
  <2>1. /\ Plan[9] = Expect(SELF_TEST_OK) /\ Plan[13] = Expect({})
        /\ Plan[21] = Expect(DEVICE_OK)
    BY PlanSteps, Zenon
  <2> QED
    BY <2>1 DEF Expect
<1>6. /\ Plan[17].do = "send" /\ Plan[17].i = 0 /\ Plan[17].c = "DISABLE_SCANNING"
      /\ Plan[18].do = "send" /\ Plan[18].i = 0 /\ Plan[18].c = "IDENTIFY"
      /\ Plan[20].do = "send" /\ Plan[20].i = 0 /\ Plan[20].c = "RESET"
      /\ Plan[22].do = "send" /\ Plan[22].i = 0 /\ Plan[22].c = "ENABLE_SCANNING"
  <2>1. /\ Plan[17] = Send("DISABLE_SCANNING", 0) /\ Plan[18] = Send("IDENTIFY", 0)
        /\ Plan[20] = Send("RESET", 0) /\ Plan[22] = Send("ENABLE_SCANNING", 0)
    BY PlanSteps, Zenon
  <2> QED
    BY <2>1 DEF Send
<1>7. Plan[5].do = "read_config"
  <2>1. Plan[5] = ReadConfig
    BY PlanSteps, Zenon
  <2> QED
    BY <2>1 DEF ReadConfig
<1>8. \A k \in {1, 2, 6, 10, 14, 15} : Plan[k].c \notin Asking
  BY <1>1, <1>2, <1>3 DEF Asking
<1> QED
  BY <1>1, <1>2, <1>3, <1>4, <1>5, <1>6, <1>7, <1>8

\* A sequence behind its first element.
Leads(S, e, s, t) == /\ t \in Seq(S) /\ t # << >> /\ Len(t) = Len(s) + 1 /\ Len(s) \in Nat
                     /\ t[1] = e /\ Head(t) = e /\ Tail(t) = s
                     /\ \A i \in 1 .. Len(s) : t[i + 1] = s[i]

LEMMA Lead ==
  ASSUME NEW S, NEW e \in S, NEW s \in Seq(S)
  PROVE  Leads(S, e, s, <<e>> \o s)
<1>1. PICK f : f = <<e>>
  OBVIOUS
<1>2. f \in Seq(S) /\ Len(f) = 1 /\ f[1] = e /\ Len(s) \in Nat
  BY <1>1, LenProperties
<1>3. PICK t : t = f \o s
  OBVIOUS
<1>4. /\ t \in Seq(S) /\ Len(t) = Len(f) + Len(s)
      /\ \A i \in 1 .. Len(f) + Len(s) : t[i] = IF i <= Len(f) THEN f[i] ELSE s[i - Len(f)]
  BY <1>2, <1>3, ConcatProperties
<1>5. t[1] = e /\ Len(t) = Len(s) + 1
  BY <1>2, <1>4
<1>6. t # << >>
  BY <1>2, <1>5
<1>7. \A i \in 1 .. Len(s) : t[i + 1] = s[i]
  <2> TAKE i \in 1 .. Len(s)
  <2>1. i + 1 \in 1 .. Len(f) + Len(s) /\ ~(i + 1 <= Len(f)) /\ i + 1 - Len(f) = i
    BY <1>2
  <2> QED
    BY <1>4, <2>1
<1>8. /\ Head(t) = t[1]
      /\ Tail(t) \in Seq(S) /\ Len(Tail(t)) = Len(t) - 1
      /\ \A i \in 1 .. Len(Tail(t)) : Tail(t)[i] = t[i + 1]
  BY <1>4, <1>6, HeadTailProperties
<1>9. Tail(t) = s
  <2>1. Len(Tail(t)) = Len(s)
    BY <1>2, <1>5, <1>8
  <2>2. \A i \in 1 .. Len(s) : Tail(t)[i] = s[i]
    BY <1>7, <1>8, <2>1
  <2> QED
    BY <1>8, <2>1, <2>2, SeqEqual
<1> QED
  BY <1>1, <1>2, <1>3, <1>4, <1>5, <1>6, <1>7, <1>8, <1>9 DEF Leads

LEMMA RestSteps ==
  /\ Rest(23) = << >>
  /\ \A k \in 1 .. 23 : Len(Rest(k)) = 23 - k /\ \E S : Rest(k) \in Seq(S)
  /\ \A k \in 1 .. 22 : Rest(k) = <<Plan[k]>> \o Rest(k + 1)
  /\ Rest(1) = Plan
<1>1. PICK S : Plan \in Seq(S) /\ Len(Plan) = 22
  BY PlanSteps
<1>2. \A i \in 1 .. 22 : Plan[i] \in S
  BY <1>1, ElementOfSeq
<1>3. ASSUME NEW k \in 1 .. 23
      PROVE  /\ Rest(k) \in Seq(S) /\ Len(Rest(k)) = 23 - k
             /\ \A i \in 1 .. 23 - k : Rest(k)[i] = Plan[k + i - 1]
  <2>1. k \in Int /\ 22 \in Int /\ \A i \in k .. 22 : Plan[i] \in S
    BY <1>2
  <2>2. PICK r : r = SubSeq(Plan, k, 22)
    OBVIOUS
  <2>3. /\ r \in Seq(S) /\ Len(r) = IF k <= 22 THEN 22 - k + 1 ELSE 0
        /\ \A i \in 1 .. 22 - k + 1 : r[i] = Plan[k + i - 1]
    BY <2>1, <2>2, SubSeqProperties
  <2>4. 22 - k + 1 = 23 - k /\ (~(k <= 22) => 23 - k = 0)
    OBVIOUS
  <2> QED
    BY <2>2, <2>3, <2>4 DEF Rest
<1>4. Rest(23) = << >>
  BY SubSeqEmpty DEF Rest
<1>5. \A k \in 1 .. 22 : Rest(k) = <<Plan[k]>> \o Rest(k + 1)
  <2> TAKE k \in 1 .. 22
  <2>1. k \in 1 .. Len(Plan) /\ 22 \in k .. Len(Plan)
    BY <1>1
  <2> QED
    BY <1>1, <2>1, SubSeqRecursiveFirst DEF Rest
<1>6. Rest(1) = Plan
  <2>1. PICK r : r = Rest(1)
    OBVIOUS
  <2>2. r \in Seq(S) /\ Len(r) = 23 - 1 /\ \A i \in 1 .. 23 - 1 : r[i] = Plan[1 + i - 1]
    <3>1. 1 \in 1 .. 23
      OBVIOUS
    <3> QED
      BY <1>3, <2>1, <3>1
  <2>3. Len(r) = Len(Plan) /\ \A i \in 1 .. Len(r) : r[i] = Plan[i]
    BY <1>1, <2>2
  <2>4. r = Plan
    BY <1>1, <2>2, <2>3, SeqEqual
  <2> QED
    BY <2>1, <2>4
<1> QED
  BY <1>3, <1>4, <1>5, <1>6

\* Where the driver is, from what is left to do.
LEMMA Located ==
  ASSUME NEW k \in 1 .. 22, NEW h, NEW t, t = <<h>> \o Rest(k + 1)
  PROVE  t # << >> /\ Head(t) = h /\ Tail(t) = Rest(k + 1) /\ 23 - Len(t) = k
<1>1. k + 1 \in 1 .. 23
  OBVIOUS
<1>2. PICK S : Rest(k + 1) \in Seq(S)
  BY <1>1, RestSteps
<1>3. PICK T : T = S \cup {h}
  OBVIOUS
<1>4. h \in T /\ Rest(k + 1) \in Seq(T)
  BY <1>2, <1>3, SeqMonotonic
<1>5. Leads(T, h, Rest(k + 1), t)
  BY <1>4, Lead
<1>6. Len(Rest(k + 1)) = 23 - (k + 1)
  BY <1>1, RestSteps
<1> QED
  BY <1>5, <1>6 DEF Leads
\* What the driver does at a step, and the steps it can be at when it does that.
LEMMA Kinds ==
  ASSUME NEW k \in 1 .. 22, NEW h \in Forms(k)
  PROVE  /\ h.do \in {"command", "flush", "read_config", "write_config", "expect",
                      "send", "answer", "identify", "identify2"}
         /\ h.do = "command" => k \in {1, 2, 4, 6, 8, 10, 12, 14, 15} /\ h = Plan[k]
         /\ h.do = "flush" => k = 3
         /\ h.do = "read_config" => k = 5
         /\ h.do = "write_config" => k \in {7, 11, 16} /\ h = Plan[k]
         /\ h.do = "expect" => k \in {9, 13, 21} /\ h = Plan[k]
         /\ h.do = "send" => k \in {17, 18, 20, 22} /\ \E i \in Nat : h = Send(Plan[k].c, i)
         /\ h.do = "answer" => k \in {17, 18, 20, 22} /\ \E i \in Nat : h = Answer(Plan[k].c, i)
         /\ h.do = "identify" => k = 19 /\ h = Identify
         /\ h.do = "identify2" => k = 19 /\ h = Identify2
<1>1. CASE k \in {17, 18, 20, 22}
  <2>1. \E i \in Nat : h = Send(Plan[k].c, i) \/ h = Answer(Plan[k].c, i)
    BY <1>1 DEF Forms
  <2> QED
    BY <1>1, <2>1 DEF Send, Answer
<1>2. CASE k = 19
  <2>1. h = Identify \/ h = Identify2
    BY <1>2 DEF Forms
  <2> QED
    BY <1>2, <2>1 DEF Identify, Identify2
<1>3. CASE k \notin {17, 18, 19, 20, 22}
  <2>1. h = Plan[k]
    BY <1>3 DEF Forms
  <2>2. CASE k \in {1, 2, 4, 6, 8, 10, 12, 14, 15}
    BY <2>1, <2>2, PlanFields
  <2>3. CASE k \in {7, 11, 16}
    BY <2>1, <2>3, PlanFields
  <2>4. CASE k \in {9, 13, 21}
    BY <2>1, <2>4, PlanFields
  <2>5. CASE k = 3
    <3>1. h = Flush
      BY <2>1, <2>5, PlanSteps
    <3> QED
      BY <2>5, <3>1 DEF Flush
  <2>6. CASE k = 5
    <3>1. h = ReadConfig
      BY <2>1, <2>6, PlanSteps
    <3> QED
      BY <2>6, <3>1 DEF ReadConfig
  <2> QED
    BY <1>3, <2>2, <2>3, <2>4, <2>5, <2>6
<1> QED
  BY <1>1, <1>2, <1>3

\* The steps of the plan are forms of themselves.
LEMMA PlanForms == \A k \in 1 .. 22 : Plan[k] \in Forms(k)
<1> SUFFICES ASSUME NEW k \in 1 .. 22 PROVE Plan[k] \in Forms(k)
  OBVIOUS
<1>1. CASE k \in {17, 18, 20, 22}
  <2>1. PICK c : Plan[k] = Send(c, 0)
    BY <1>1, PlanSteps
  <2>2. Plan[k].c = c
    BY <2>1 DEF Send
  <2>3. Plan[k] = Send(Plan[k].c, 0)
    BY <2>1, <2>2
  <2> QED
    BY <1>1, <2>3 DEF Forms
<1>2. CASE k = 19
  BY <1>2, PlanSteps DEF Forms
<1>3. CASE k \notin {17, 18, 19, 20, 22}
  BY <1>3 DEF Forms
<1> QED
  BY <1>1, <1>2, <1>3

\* A step that is done.
Advanced(k) == /\ at' = k + 1 /\ Place(k + 1)'
               /\ k < 22 => todo' # << >> /\ Head(todo') = Plan[k + 1]

LEMMA Advance ==
  ASSUME NEW k \in 1 .. 22, NEW h, todo = <<h>> \o Rest(k + 1), Continues(<< >>)
  PROVE  Advanced(k)
<1>1. Tail(todo) = Rest(k + 1)
  BY Located
<1>2. k + 1 \in 1 .. 23
  OBVIOUS
<1>3. PICK S : Rest(k + 1) \in Seq(S) /\ Len(Rest(k + 1)) = 23 - (k + 1)
  BY <1>2, RestSteps
<1>4. todo' = Rest(k + 1)
  BY <1>1, <1>3, ConcatEmptySeq DEF Continues
<1>5. at' = k + 1
  BY <1>3, <1>4 DEF at
<1>6. CASE k = 22
  <2>1. todo' = << >> /\ k + 1 = 23
    BY <1>4, <1>6, RestSteps
  <2>2. Place(k + 1)'
    BY <2>1 DEF Place
  <2> QED
    BY <1>5, <1>6, <2>2 DEF Advanced
<1>7. CASE k < 22
  <2>1. PICK j \in 1 .. 22 : j = k + 1 /\ j # 23
    BY <1>7
  <2>2. todo' = <<Plan[j]>> \o Rest(j + 1) /\ Plan[j] \in Forms(j)
    BY <1>4, <2>1, RestSteps, PlanForms
  <2>3. Place(j)'
    BY <2>1, <2>2 DEF Place
  <2>4. todo' # << >> /\ Head(todo') = Plan[j]
    BY <2>2, Located
  <2> QED
    BY <1>5, <2>1, <2>3, <2>4 DEF Advanced
<1> QED
  BY <1>6, <1>7

\* A step that is replaced.
LEMMA Replace ==
  ASSUME NEW k \in 1 .. 22, NEW h, todo = <<h>> \o Rest(k + 1),
         NEW g \in Forms(k), Continues(<<g>>)
  PROVE  at' = k /\ Place(k)' /\ todo' # << >> /\ Head(todo') = g
<1>1. todo' = <<g>> \o Rest(k + 1)
  BY Located DEF Continues
<1>2. todo' # << >> /\ Head(todo') = g /\ 23 - Len(todo') = k
  BY <1>1, Located
<1>3. Place(k)'
  <2>1. k # 23
    OBVIOUS
  <2>2. \E f \in Forms(k) : todo' = <<f>> \o Rest(k + 1)
    BY <1>1
  <2> QED
    BY <2>1, <2>2 DEF Place
<1> QED
  BY <1>2, <1>3 DEF at
\* A step that is not done yet.
At(k, h) == at = k /\ todo = <<h>> \o Rest(k + 1) /\ todo # << >> /\ Head(todo) = h

LEMMA Current ==
  ASSUME at \in 1 .. 23, Place(at), todo # << >>
  PROVE  \E k \in 1 .. 22 : \E h \in Forms(k) : At(k, h)
<1>1. at # 23
  BY DEF Place
<1>2. PICK k \in 1 .. 22 : k = at /\ k # 23
  BY <1>1
<1>3. PICK h \in Forms(k) : todo = <<h>> \o Rest(k + 1)
  <2>1. Place(k)
    BY <1>2
  <2> QED
    BY <1>2, <2>1 DEF Place
<1>4. Head(todo) = h
  BY <1>3, Located
<1>5. At(k, h)
  BY <1>2, <1>3, <1>4 DEF At
<1> QED
  BY <1>5

LEMMA Stay ==
  ASSUME NEW k, at = k, Place(k), UNCHANGED todo
  PROVE  at' = k /\ Place(k)'
BY DEF at, Place

-----------------------------------------------------------------------------
(* The driver, whatever the hardware does.                                 *)

\* Reading and waiting leave the input buffer alone.
LEMMA InputKept ==
  ASSUME NEW k \in 1 .. 22, NEW j \in {k, k + 1}, Input(k),
         k \in {3, 5, 9, 13} \cup 17 .. 22,
         k >= 17 => Head(todo).do # "send",
         j = 18 => k = 18 \/ Head(todo').do = "send",
         UNCHANGED <<inbuf, expecting, config>>
  PROVE  Input(j)'
<1>1. inbuf # << >> => Entered(inbuf[1], j)'
  <2> SUFFICES ASSUME inbuf # << >> PROVE Entered(inbuf[1], j)'
    OBVIOUS
  <2>1. Entered(inbuf[1], k)
    BY DEF Input
  <2> QED
    BY <2>1 DEF Entered
<1>2. AtMostOne(inbuf)'
  BY DEF Input, AtMostOne
<1>3. j \notin {7, 11, 16}
  OBVIOUS
<1>4. j >= 17 => \/ inbuf # << >> /\ inbuf[1].do = "write_config"
                 \/ Good(config) /\ ~expecting
  BY DEF Input
<1>5. Good(config)' <=> Good(config)
  BY DEF Good
<1> QED
  BY <1>1, <1>2, <1>3, <1>4, <1>5 DEF Input

LEMMA OutputKept ==
  ASSUME NEW k \in 1 .. 22, NEW j \in {k, k + 1}, Output(k),
         k = 9 /\ j = 10 => outbuf = <<SELF_TEST_OK>>,
         k = 21 /\ j = 22 => outbuf = <<DEVICE_OK>>,
         outbuf' = outbuf \/ outbuf' = << >>,
         UNCHANGED <<inbuf, reply, pending, config, scanning, device>>
  PROVE  Output(j)'
<1>1. AtMostOne(outbuf)' /\ AtMostOne(reply)' /\ pending' \in Seq(Sent)
  BY DEF Output, AtMostOne
<1>2. ReadConfigOpen(j)' => reply' = << >> /\ outbuf' # <<SELF_TEST_OK>>
  <2>1. ReadConfigOpen(j)' => ReadConfigOpen(k)
    <3>1. j <= 4 => k <= 4
      OBVIOUS
    <3>2. inbuf' = inbuf
      OBVIOUS
    <3> QED
      BY <3>1, <3>2, Zenon DEF ReadConfigOpen
  <2> QED
    BY <2>1 DEF Output
<1>3. j <= 9 /\ outbuf' = <<SELF_TEST_OK>> => reply' # <<DEVICE_OK>>
  BY DEF Output
<1>4. CASE Up(k)
  <2>1. Up(j)'
    BY <1>4 DEF Up, IsKeyboard
  <2> QED
    BY <1>1, <1>2, <1>3, <2>1 DEF Output
<1>5. CASE ~Up(k)
  <2>1. k < 22 /\ pending \in Seq(Sent \ {DEVICE_OK})
        /\ (k >= 10 => outbuf # <<DEVICE_OK>> /\ reply # <<DEVICE_OK>>)
    BY <1>5 DEF Output
  <2>2. j < 22
    <3>1. CASE k < 21
      BY <3>1
    <3>2. CASE k = 21
      <4>1. outbuf # <<DEVICE_OK>>
        BY <2>1, <3>2
      <4>2. j # 22
        BY <3>2, <4>1
      <4> QED
        BY <3>2, <4>2
    <3> QED
      BY <2>1, <3>1, <3>2
  <2>3. j >= 10 => outbuf' # <<DEVICE_OK>> /\ reply' # <<DEVICE_OK>>
    <3>1. CASE k >= 10
      <4>1. outbuf # <<DEVICE_OK>> /\ reply # <<DEVICE_OK>>
        BY <2>1, <3>1
      <4>2. << >> # <<DEVICE_OK>>
        OBVIOUS
      <4> QED
        BY <4>1, <4>2
    <3>2. CASE k = 9 /\ j = 10
      <4>1. outbuf = <<SELF_TEST_OK>> /\ reply # <<DEVICE_OK>>
        BY <3>2 DEF Output
      <4>2. <<SELF_TEST_OK>> # <<DEVICE_OK>>
        BY Bytes
      <4> QED
        BY <4>1, <4>2
    <3> QED
      BY <3>1, <3>2
  <2> QED
    BY <1>1, <1>2, <1>3, <2>1, <2>2, <2>3 DEF Output
<1> QED
  BY <1>4, <1>5
Arrived(j) == /\ j \in 1 .. 23 /\ at = j /\ Place(j)
              /\ outcome \in {"busy", "ready"} /\ (outcome = "ready" => j = 23)
              /\ Input(j) /\ Output(j)

LEMMA Landed ==
  ASSUME NEW j, Arrived(j)'
  PROVE  Base'
BY DEF Arrived, Base

LEMMA Here ==
  ASSUME Base, outcome # "stopped"
  PROVE  Arrived(at)
BY DEF Arrived, Base

LEMMA Busy ==
  ASSUME Base, outcome = "busy", todo # << >>
  PROVE  \E k \in 1 .. 22 : Arrived(k) /\ \E h \in Forms(k) : At(k, h)
<1>1. Arrived(at) /\ at \in 1 .. 23 /\ Place(at)
  BY DEF Base, Arrived
<1>2. PICK k \in 1 .. 22 : \E h \in Forms(k) : At(k, h)
  BY <1>1, Current
<1>3. k = at
  BY <1>2 DEF At
<1>4. Arrived(k)
  BY <1>1, <1>3
<1> QED
  BY <1>2, <1>4

LEMMA BaseCommand ==
  ASSUME Base, port_write_command
  PROVE  Base'
<1>0. outcome = "busy" /\ todo # << >>
  BY DEF port_write_command, Doing
<1>k. PICK k \in 1 .. 22 : Arrived(k) /\ \E h \in Forms(k) : At(k, h)
  BY <1>0, Busy
<1>1. PICK h \in Forms(k) : At(k, h) /\ Arrived(k)
  BY <1>k
<1>2. /\ h.do = "command" /\ inbuf' = <<h>> /\ Continues(<< >>) /\ outcome = "busy"
      /\ UNCHANGED <<outbuf, reply, expecting, config, pending, scanning, device>>
  BY <1>1 DEF port_write_command, Doing, At, hardware
<1>3. k \in {1, 2, 4, 6, 8, 10, 12, 14, 15} /\ h = Plan[k]
  BY <1>2, Kinds
<1>4. PICK j \in 2 .. 16 : j = k + 1
  BY <1>3
<1>5. at' = j /\ Place(j)'
  BY <1>1, <1>2, <1>4, Advance DEF At, Advanced
<1>6. outcome' = "busy"
  BY <1>2 DEF Continues
<1>7. Input(k) /\ Output(k)
  BY <1>1 DEF Arrived
<1>8. /\ h.c = "READ_CONFIG" => k = 4
      /\ h.c \in {"SELF_TEST", "TEST_FIRST"} => k >= 8
      /\ k \in {6, 10, 15} => h = Command("WRITE_CONFIG")
  <2>1. k \in {6, 10, 15} => h = Command("WRITE_CONFIG")
    BY <1>3, PlanSteps
  <2>2. CASE k \in {4, 8, 12}
    BY <1>3, <2>2, PlanFields
  <2>3. CASE k \notin {4, 8, 12}
    <3>1. h.c \notin Asking
      BY <1>3, <2>3, PlanFields
    <3> QED
      BY <2>1, <3>1 DEF Asking
  <2> QED
    BY <2>1, <2>2, <2>3
<1>9. Input(j)'
  <2>1. AtMostOne(inbuf)' /\ inbuf'[1] = h
    BY <1>2 DEF AtMostOne
  <2>2. Entered(h, j)'
    BY <1>2, <1>3, <1>4, <1>8 DEF Entered
  <2>3. j \in {7, 11, 16} => inbuf' = <<Command("WRITE_CONFIG")>>
    BY <1>2, <1>3, <1>4, <1>8
  <2> QED
    BY <2>1, <2>2, <2>3 DEF Input
<1>10. Output(j)'
  <2>1. ReadConfigOpen(j)' => ReadConfigOpen(k)
    <3>1. inbuf'[1].c = "READ_CONFIG" => k = 4
      BY <1>2, <1>8
    <3> QED
      BY <1>4, <3>1 DEF ReadConfigOpen
  <2>2. ReadConfigOpen(j)' => reply' = << >> /\ outbuf' # <<SELF_TEST_OK>>
    BY <1>2, <1>7, <2>1 DEF Output
  <2>3. ~Up(k) /\ j < 22 /\ (j >= 10 => k >= 10) /\ (j <= 9 => k <= 9)
    BY <1>3, <1>4 DEF Up
  <2>4. AtMostOne(outbuf)' /\ AtMostOne(reply)'
    BY <1>2, <1>7 DEF Output, AtMostOne
  <2> QED
    BY <1>2, <1>7, <2>2, <2>3, <2>4 DEF Output
<1> QED
  BY <1>4, <1>5, <1>6, <1>9, <1>10, Landed DEF Arrived

LEMMA BaseFlush ==
  ASSUME Base, flush
  PROVE  Base'
<1>0. outcome = "busy" /\ todo # << >>
  BY DEF flush, Doing
<1>k. PICK k \in 1 .. 22 : Arrived(k) /\ \E h \in Forms(k) : At(k, h)
  BY <1>0, Busy
<1>1. PICK h \in Forms(k) : At(k, h) /\ Arrived(k)
  BY <1>k
<1>2. /\ h.do = "flush" /\ outbuf' = << >> /\ Continues(<< >>) /\ outcome = "busy"
      /\ UNCHANGED <<inbuf, reply, expecting, config, pending, scanning, device>>
  BY <1>1 DEF flush, Doing, At, hardware, controller
<1>3. k = 3
  BY <1>2, Kinds
<1>4. at' = 4 /\ Place(4)'
  <2>1. at' = k + 1 /\ Place(k + 1)'
    BY <1>1, <1>2, Advance DEF At, Advanced
  <2>2. k + 1 = 4
    BY <1>3
  <2> QED
    BY <2>1, <2>2
<1>5. outcome' = "busy"
  BY <1>2 DEF Continues
<1>6. 4 \in {k, k + 1} /\ Input(k) /\ Output(k)
  BY <1>1, <1>3 DEF Arrived
<1>7. Input(4)'
  BY <1>2, <1>3, <1>6, InputKept
<1>8. Output(4)'
  BY <1>2, <1>3, <1>6, OutputKept
<1> QED
  BY <1>4, <1>5, <1>7, <1>8, Landed DEF Arrived

LEMMA BaseSend ==
  ASSUME Base, send_to_device, outcome' # "stopped"
  PROVE  Base'
<1>1. outcome = "busy" /\ todo # << >>
  BY DEF send_to_device, Doing
<1>2. PICK k \in 1 .. 22 : Arrived(k) /\ \E h \in Forms(k) : At(k, h)
  BY <1>1, Busy
<1>3. PICK h \in Forms(k) : At(k, h)
  BY <1>2
<1>4. /\ h.do \in {"write_config", "send"}
      /\ UNCHANGED <<outbuf, reply, expecting, config, pending, scanning, device>>
  BY <1>3 DEF send_to_device, Doing, At, hardware
<1>5. Input(k) /\ Output(k) /\ at = k /\ Place(k)
  BY <1>2 DEF Arrived
<1>6. CASE inbuf # << >>
  <2>1. UNCHANGED <<todo, outcome, inbuf>>
    BY <1>6 DEF send_to_device, Stops
  <2>2. at' = k /\ Place(k)'
    BY <1>5, <2>1, Stay
  <2>3. Input(k)'
    BY <1>4, <1>5, <2>1 DEF Input, AtMostOne, Entered, Good
  <2>4. Output(k)'
    BY <1>4, <1>5, <2>1 DEF Output, AtMostOne, ReadConfigOpen, Up, IsKeyboard
  <2>5. Arrived(k)'
    BY <1>1, <2>1, <2>2, <2>3, <2>4 DEF Arrived
  <2> QED
    BY <2>5, Landed
<1>7. CASE inbuf = << >> /\ h.do = "write_config"
  <2>1. k \in {7, 11, 16} /\ h = Plan[k]
    BY <1>7, Kinds
  <2>2. /\ inbuf' = <<WriteConfig(newConfigByte(h.bits))>>
        /\ Continues(<< >>)
    <3>1. Head(todo) = h /\ ~Doing("send") /\ AfterSending = << >>
      BY <1>3, <1>7 DEF At, Doing, AfterSending
    <3> QED
      BY <1>7, <3>1 DEF send_to_device
  <2>3. PICK j \in {8, 12, 17} : j = k + 1
    BY <2>1
  <2>4. at' = j /\ Place(j)' /\ (j = 17 => Head(todo') = Plan[17])
    <3>1. Advanced(k)
      BY <1>3, <2>2, Advance DEF At
    <3> QED
      BY <2>3, <3>1 DEF Advanced
  <2>5. PICK x : x = WriteConfig(newConfigByte(h.bits))
    OBVIOUS
  <2>6. x.do = "write_config" /\ (j = 17 => Good(x.bits))
    <3>1. x.do = "write_config" /\ x.bits = newConfigByte(h.bits)
      BY <2>5 DEF WriteConfig
    <3>2. ASSUME j = 17 PROVE Good(x.bits)
      <4>1. k = 16 /\ h.bits = {IRQ1}
        BY <2>1, <2>3, <3>2, PlanFields
      <4> QED
        BY <3>1, <4>1 DEF newConfigByte, Good, IRQ1, TRANSLATION, PORT1_OFF, PORT2_OFF
    <3> QED
      BY <3>1, <3>2
  <2>7. expecting
    BY <1>5, <1>7, <2>1 DEF Input
  <2>8. Input(j)'
    <3>1. inbuf' = <<x>> /\ inbuf'[1] = x /\ AtMostOne(inbuf)'
      BY <2>2, <2>5 DEF AtMostOne
    <3>2. j = 17 => Head(todo').do = "send"
      BY <2>4, PlanFields
    <3>3. Entered(x, j)'
      BY <1>4, <2>3, <2>6, <2>7, <3>2 DEF Entered
    <3> QED
      BY <2>3, <2>6, <3>1, <3>3 DEF Input
  <2>9. Output(j)'
    <3>1. ~ReadConfigOpen(j)'
      BY <2>2, <2>3, <2>5, <2>6 DEF ReadConfigOpen, Command
    <3>2. ~Up(k) /\ j < 22 /\ (j >= 10 => k >= 10) /\ (j <= 9 => k <= 9)
      BY <2>1, <2>3 DEF Up
    <3>3. AtMostOne(outbuf)' /\ AtMostOne(reply)'
      BY <1>4, <1>5 DEF Output, AtMostOne
    <3> QED
      BY <1>4, <1>5, <3>1, <3>2, <3>3 DEF Output
  <2>10. outcome' = "busy" /\ j \in 1 .. 23
    BY <1>1, <2>2 DEF Continues
  <2> QED
    BY <2>4, <2>8, <2>9, <2>10, Landed DEF Arrived
<1>8. CASE inbuf = << >> /\ h.do = "send"
  <2>1. k \in {17, 18, 20, 22}
    BY <1>8, Kinds
  <2>2. PICK i \in Nat : h = Send(Plan[k].c, i)
    BY <1>8, Kinds
  <2>3. inbuf' = <<h>> /\ Continues(<<Answer(h.c, h.i)>>)
    <3>1. Head(todo) = h /\ Doing("send") /\ AfterSending = <<Answer(h.c, h.i)>>
      BY <1>1, <1>3, <1>8 DEF At, Doing, AfterSending
    <3> QED
      BY <1>8, <3>1 DEF send_to_device
  <2>4. h.do = "send" /\ h.c = Plan[k].c /\ h.i = i
    BY <2>2 DEF Send
  <2>5. Answer(h.c, h.i) \in Forms(k)
    BY <2>1, <2>4 DEF Forms
  <2>6. at' = k /\ Place(k)'
    BY <1>3, <2>3, <2>5, Replace DEF At
  <2>7. Input(k)'
    <3>1. inbuf'[1] = h /\ AtMostOne(inbuf)'
      BY <2>3 DEF AtMostOne
    <3>2. /\ h.c = "DISABLE_SCANNING" => k = 17
          /\ h.c = "RESET" => k = 20
      <4>1. /\ Plan[18].c = "IDENTIFY" /\ Plan[22].c = "ENABLE_SCANNING"
            /\ Plan[17].c = "DISABLE_SCANNING" /\ Plan[20].c = "RESET"
        BY PlanFields
      <4> QED
        BY <2>1, <2>4, <4>1
    <3>3. Entered(h, k)'
      BY <2>1, <2>4, <3>2 DEF Entered
    <3>4. Good(config)' /\ ~expecting'
      BY <1>4, <1>5, <1>8, <2>1 DEF Input, Good
    <3> QED
      BY <2>1, <3>1, <3>3, <3>4 DEF Input
  <2>8. Output(k)'
    <3>1. ~ReadConfigOpen(k)'
      BY <2>1, <2>3, <2>4 DEF ReadConfigOpen, Command
    <3>2. AtMostOne(outbuf)' /\ AtMostOne(reply)' /\ (Up(k) <=> Up(k)')
      BY <1>4, <1>5 DEF Output, AtMostOne, Up, IsKeyboard
    <3> QED
      BY <1>4, <1>5, <3>1, <3>2 DEF Output
  <2>9. outcome' = "busy"
    BY <1>1, <2>3 DEF Continues
  <2> QED
    BY <2>6, <2>7, <2>8, <2>9, Landed DEF Arrived
<1> QED
  BY <1>4, <1>6, <1>7, <1>8

\* How the driver goes on when it read, or waited: it stays, takes the next
\* step, or replaces the one at hand.
LEMMA BaseResponse ==
  ASSUME Base, get_response, outcome' # "stopped"
  PROVE  Base'
<1>1. outcome = "busy" /\ todo # << >>
  BY DEF get_response, Doing
<1>2. PICK k \in 1 .. 22 : Arrived(k) /\ \E h \in Forms(k) : At(k, h)
  BY <1>1, Busy
<1>3. PICK h \in Forms(k) : At(k, h)
  BY <1>2
<1>4. /\ h.do \in {"read_config", "expect", "answer", "identify", "identify2"}
      /\ Head(todo) = h
      /\ UNCHANGED <<inbuf, reply, expecting, config, pending, scanning, device>>
      /\ outbuf' = outbuf \/ outbuf' = << >>
  BY <1>3 DEF get_response, Doing, At, hardware, controller
<1>5. k \in {5, 9, 13} \cup 17 .. 22
  BY <1>4, Kinds
<1>6. Input(k) /\ Output(k) /\ at = k /\ Place(k)
  BY <1>2 DEF Arrived
<1>7. SUFFICES ASSUME NEW j \in {k, k + 1}, at' = j, Place(j)',
                      outcome' = "busy",
                      j = 18 => k = 18 \/ Head(todo').do = "send",
                      k = 9 /\ j = 10 => outbuf = <<SELF_TEST_OK>>,
                      k = 21 /\ j = 22 => outbuf = <<DEVICE_OK>>
               PROVE  Base'
  <2>1. CASE UNCHANGED <<todo, outcome>>
    BY <1>1, <1>6, <1>7, <2>1, Stay
  <2>2. CASE \E i \in Nat : h.do = "answer" /\ Continues(<<Send(h.c, i)>>)
    <3>1. PICK i \in Nat : h.do = "answer" /\ Continues(<<Send(h.c, i)>>)
      BY <2>2
    <3>2. k \in {17, 18, 20, 22} /\ h.c = Plan[k].c
      BY <3>1, Kinds DEF Answer
    <3>3. Send(h.c, i) \in Forms(k)
      BY <3>2 DEF Forms
    <3>4. at' = k /\ Place(k)'
      BY <1>3, <3>1, <3>3, Replace DEF At
    <3>5. outcome' = "busy" /\ (k = 9 => k # 10) /\ (k = 21 => k # 22)
      BY <1>1, <3>1 DEF Continues
    <3> QED
      BY <1>7, <3>4, <3>5
  <2>3. CASE h.do = "identify" /\ Continues(<<Identify2>>)
    <3>1. k = 19
      BY <2>3, Kinds
    <3>2. Identify2 \in Forms(k)
      BY <3>1 DEF Forms
    <3>3. at' = k /\ Place(k)'
      BY <1>3, <2>3, <3>2, Replace DEF At
    <3>4. outcome' = "busy"
      BY <1>1, <2>3 DEF Continues
    <3> QED
      BY <1>7, <3>1, <3>3, <3>4
  <2>4. CASE /\ Continues(<< >>)
             /\ h.do = "expect" => outbuf # << >> /\ outbuf[1] = h.byte
    <3>1. Advanced(k)
      BY <1>3, <2>4, Advance DEF At
    <3>2. PICK j \in 1 .. 23 : j = k + 1
      OBVIOUS
    <3>3. at' = j /\ Place(j)'
      BY <3>1, <3>2 DEF Advanced
    <3>4. ASSUME j = 18 PROVE Head(todo').do = "send"
      <4>1. Head(todo') = Plan[18]
        BY <3>1, <3>2, <3>4 DEF Advanced
      <4> QED
        BY <4>1, PlanFields
    <3>5. ASSUME k \in {9, 21} PROVE outbuf = <<h.byte>> /\ h = Plan[k]
      <4>1. h.do = "expect" /\ h = Plan[k]
        <5>1. h = Plan[k]
          BY <3>5 DEF Forms
        <5>2. Plan[9].do = "expect" /\ Plan[21].do = "expect"
          BY PlanFields
        <5> QED
          BY <3>5, <5>1, <5>2
      <4>2. outbuf # << >> /\ outbuf[1] = h.byte /\ AtMostOne(outbuf)
        BY <2>4, <4>1, <1>6 DEF Output
      <4> QED
        BY <4>1, <4>2 DEF AtMostOne
    <3>6. k = 9 => outbuf = <<SELF_TEST_OK>>
      BY <3>5, PlanFields
    <3>7. k = 21 => outbuf = <<DEVICE_OK>>
      BY <3>5, PlanFields
    <3>8. outcome' = "busy"
      BY <1>1, <2>4 DEF Continues
    <3> QED
      BY <1>7, <3>2, <3>3, <3>4, <3>6, <3>7, <3>8
  <2>5. CASE no_response
    <3>1. CASE tries < 2
      BY <2>1, <2>5, <3>1 DEF no_response
    <3>2. CASE ~(tries < 2) /\ Doing("identify")
      BY <1>4, <2>4, <2>5, <3>2 DEF no_response, Doing
    <3>3. CASE ~(tries < 2) /\ ~Doing("identify")
      BY <2>5, <3>3 DEF no_response, Stops
    <3> QED
      BY <3>1, <3>2, <3>3
  <2>6. CASE outbuf # << >> /\ ~no_response
    <3>1. CASE Doing("read_config")
      BY <1>4, <2>4, <2>6, <3>1 DEF get_response, Doing
    <3>2. CASE Doing("expect")
      BY <1>4, <2>4, <2>6, <3>2 DEF get_response, Doing, Stops
    <3>3. CASE Doing("answer")
      <4>1. resend_or_return(outbuf[1]) /\ h.do = "answer"
        BY <1>4, <2>6, <3>3 DEF get_response, Doing
      <4>2. PICK i \in Nat : h = Answer(Plan[k].c, i)
        BY <4>1, Kinds
      <4>3. i + 1 \in Nat /\ h.i = i
        BY <4>2 DEF Answer
      <4> QED
        BY <1>4, <2>2, <2>4, <4>1, <4>3 DEF resend_or_return, Stops
    <3>4. CASE Doing("identify") \/ Doing("identify2")
      <4>1. identified(outbuf[1])
        BY <2>6, <3>4 DEF get_response, Doing
      <4>2. h.do \in {"identify", "identify2"}
        BY <1>4, <3>4 DEF Doing
      <4> QED
        BY <1>4, <2>3, <2>4, <4>1, <4>2 DEF identified, Stops, Doing
    <3> QED
      BY <3>1, <3>2, <3>3, <3>4 DEF get_response
  <2> QED
    BY <2>5, <2>6 DEF get_response
<1>8. j \in 1 .. 23 /\ j # 24
  OBVIOUS
<1>9. Input(j)'
  BY <1>4, <1>5, <1>6, <1>7, InputKept
<1>10. Output(j)'
  BY <1>4, <1>6, <1>7, OutputKept
<1> QED
  BY <1>7, <1>8, <1>9, <1>10, Landed DEF Arrived

LEMMA BaseReady ==
  ASSUME Base, enable_interrupts
  PROVE  Base'
<1>1. at = 23
  <2>1. Len(todo) = 0
    BY DEF enable_interrupts
  <2> QED
    BY <2>1 DEF at
<1>2. Arrived(23)
  BY <1>1, Here DEF enable_interrupts
<1>3. UNCHANGED <<todo, inbuf, outbuf, reply, expecting, config, pending, scanning, device>>
  BY DEF enable_interrupts, controller, hardware
<1>4. at' = 23 /\ Place(23)'
  BY <1>1, <1>2, <1>3, Stay DEF Arrived
<1>5. Input(23)'
  BY <1>2, <1>3 DEF Arrived, Input, AtMostOne, Entered, Good
<1>6. Output(23)'
  BY <1>2, <1>3 DEF Arrived, Output, AtMostOne, ReadConfigOpen, Up, IsKeyboard
<1>7. outcome' = "ready"
  BY DEF enable_interrupts
<1> QED
  BY <1>4, <1>5, <1>6, <1>7, Landed DEF Arrived

-----------------------------------------------------------------------------
(* Controller, device and user, whatever their timing.                     *)

LEMMA Unmoved ==
  ASSUME NEW k, Arrived(k), UNCHANGED driver, Input(k)', Output(k)'
  PROVE  Base'
<1>1. at' = k /\ Place(k)'
  BY Stay DEF driver, Arrived
<1> QED
  BY <1>1, Landed DEF driver, Arrived

LEMMA BaseObeys ==
  ASSUME Base, outcome # "stopped", Obeys
  PROVE  Base'
<1>1. PICK k \in 1 .. 23 : k = at /\ Arrived(k)
  BY Here DEF Arrived
<1>2. PICK x : x = inbuf[1]
  OBVIOUS
<1>3. /\ inbuf # << >> /\ x.do = "command" /\ inbuf' = << >> /\ reply = << >>
      /\ x.c = "WRITE_CONFIG" => expecting'
      /\ UNCHANGED <<todo, tries, configByte, outcome, outbuf, pending, scanning, device>>
  BY <1>2 DEF Obeys, Written, IsCommand, driver, hardware
<1>4. Input(k) /\ Output(k)
  BY <1>1 DEF Arrived
<1>5. /\ k < 17
      /\ x.c = "READ_CONFIG" => k \in {5, 6}
      /\ x.c \in {"SELF_TEST", "TEST_FIRST"} => k >= 9
  BY <1>2, <1>3, <1>4 DEF Input, Entered
<1>6. Input(k)'
  <2>1. k \in {7, 11, 16} => expecting'
    <3>1. k \in {7, 11, 16} => x = Command("WRITE_CONFIG")
      BY <1>2, <1>3, <1>4 DEF Input
    <3> QED
      BY <1>3, <3>1 DEF Command
  <2> QED
    BY <1>3, <1>5, <2>1 DEF Input, AtMostOne
<1>7. /\ AtMostOne(reply')
      /\ reply' = << >> \/ k > 4
      /\ k <= 9 /\ outbuf = <<SELF_TEST_OK>> => reply' # <<DEVICE_OK>>
      /\ k >= 10 => reply' # <<DEVICE_OK>>
  <2>1. CASE x.c = "READ_CONFIG"
    <3>1. k \in {5, 6} /\ reply' = <<config>>
      BY <1>2, <1>5, <2>1 DEF Obeys
    <3>2. outbuf # <<SELF_TEST_OK>>
      BY <1>2, <1>3, <1>4, <2>1 DEF Output, ReadConfigOpen
    <3> QED
      BY <3>1, <3>2 DEF AtMostOne
  <2>2. CASE x.c = "SELF_TEST"
    <3>1. k >= 9 /\ reply' \in {<<SELF_TEST_OK>>, <<FAILURE>>}
      BY <1>2, <1>5, <2>2 DEF Obeys
    <3>2. <<SELF_TEST_OK>> # <<DEVICE_OK>> /\ <<FAILURE>> # <<DEVICE_OK>>
      BY Bytes
    <3> QED
      BY <3>1, <3>2 DEF AtMostOne
  <2>3. CASE x.c = "TEST_FIRST"
    <3>1. k >= 9 /\ reply' \in {<<{}>>, <<{0}>>}
      BY <1>2, <1>5, <2>3 DEF Obeys
    <3>2. <<{}>> # <<DEVICE_OK>> /\ <<{0}>> # <<DEVICE_OK>>
      BY Bytes
    <3> QED
      BY <3>1, <3>2 DEF AtMostOne
  <2>4. CASE x.c \notin Asking
    <3>1. reply' = << >>
      BY <1>2, <1>3, <2>4 DEF Obeys, Asking
    <3> QED
      BY <3>1 DEF AtMostOne
  <2> QED
    BY <2>1, <2>2, <2>3, <2>4 DEF Asking
<1>8. Output(k)'
  <2>1. ReadConfigOpen(k)' => k <= 4
    BY <1>3 DEF ReadConfigOpen
  <2>2. k <= 4 => reply' = << >> /\ outbuf' # <<SELF_TEST_OK>>
    BY <1>3, <1>4, <1>5, <1>7 DEF Output, ReadConfigOpen
  <2>3. ~Up(k) /\ k < 22
    BY <1>5 DEF Up
  <2>4. AtMostOne(outbuf)' /\ AtMostOne(reply)'
    BY <1>3, <1>4, <1>7 DEF Output, AtMostOne
  <2> QED
    BY <1>3, <1>4, <1>7, <2>1, <2>2, <2>3, <2>4 DEF Output
<1> QED
  BY <1>1, <1>3, <1>6, <1>8, Unmoved DEF driver

LEMMA BaseTakesConfig ==
  ASSUME Base, outcome # "stopped", TakesConfig
  PROVE  Base'
<1>1. PICK k \in 1 .. 23 : k = at /\ Arrived(k)
  BY Here DEF Arrived
<1>2. PICK x : x = inbuf[1]
  OBVIOUS
<1>3. /\ inbuf # << >> /\ x.do # "command" /\ inbuf' = << >>
      /\ expecting /\ ~expecting' /\ config' = x.bits
      /\ UNCHANGED <<todo, tries, configByte, outcome, reply, outbuf, pending, scanning, device>>
  BY <1>2 DEF TakesConfig, Written, IsCommand, driver, hardware
<1>4. Input(k) /\ Output(k) /\ Entered(x, k)
  BY <1>1, <1>2, <1>3 DEF Arrived, Input
<1>5. k <= 17 /\ (k = 17 => Good(x.bits))
  BY <1>2, <1>3, <1>4 DEF Input, Entered
<1>6. k \notin {7, 11, 16}
  BY <1>2, <1>3, <1>4 DEF Input, Command
<1>7. Input(k)'
  BY <1>3, <1>5, <1>6 DEF Input, AtMostOne, Good
<1>8. Output(k)'
  <2>1. ReadConfigOpen(k)' => ReadConfigOpen(k)
    BY <1>3 DEF ReadConfigOpen
  <2>2. ~Up(k) /\ AtMostOne(outbuf)' /\ AtMostOne(reply)'
    BY <1>3, <1>4, <1>5 DEF Up, Output, AtMostOne
  <2> QED
    BY <1>3, <1>4, <2>1, <2>2 DEF Output
<1> QED
  BY <1>1, <1>3, <1>7, <1>8, Unmoved DEF driver

LEMMA BaseReplies ==
  ASSUME Base, outcome # "stopped", Replies
  PROVE  Base'
<1>1. PICK k \in 1 .. 23 : k = at /\ Arrived(k)
  BY Here DEF Arrived
<1>2. /\ outbuf = << >> /\ reply # << >> /\ outbuf' = reply /\ reply' = << >>
      /\ UNCHANGED <<todo, tries, configByte, outcome, inbuf, expecting, config, pending,
                     scanning, device>>
  BY DEF Replies, driver, hardware
<1>3. Input(k) /\ Output(k)
  BY <1>1 DEF Arrived
<1>4. Input(k)'
  BY <1>2, <1>3 DEF Input, AtMostOne, Entered, Good
<1>5. ~ReadConfigOpen(k)'
  BY <1>2, <1>3 DEF Output, ReadConfigOpen
<1>6. AtMostOne(outbuf)' /\ AtMostOne(reply)' /\ (Up(k)' <=> Up(k))
  BY <1>2, <1>3 DEF Output, AtMostOne, Up, IsKeyboard
<1>7. Output(k)'
  BY <1>2, <1>3, <1>5, <1>6 DEF Output
<1> QED
  BY <1>1, <1>2, <1>4, <1>7, Unmoved DEF driver

LEMMA BaseDeviceSends ==
  ASSUME Base, outcome # "stopped", DeviceSends
  PROVE  Base'
<1>1. PICK k \in 1 .. 23 : k = at /\ Arrived(k)
  BY Here DEF Arrived
<1>2. /\ outbuf = << >> /\ reply = << >> /\ pending # << >>
      /\ outbuf' = <<Head(pending)>> /\ pending' = Tail(pending)
      /\ UNCHANGED <<todo, tries, configByte, outcome, inbuf, reply, expecting, config,
                     scanning, device>>
  BY DEF DeviceSends, driver, controller, hardware
<1>3. Input(k) /\ Output(k)
  BY <1>1 DEF Arrived
<1>4. Input(k)'
  BY <1>2, <1>3 DEF Input, AtMostOne, Entered, Good
<1>5. Head(pending) \in Sent /\ pending' \in Seq(Sent)
  BY <1>2, <1>3 DEF Output
<1>6. outbuf' # <<SELF_TEST_OK>>
  BY <1>2, <1>5, Bytes
<1>7. AtMostOne(outbuf)' /\ AtMostOne(reply)' /\ (Up(k)' <=> Up(k))
  BY <1>2 DEF AtMostOne, Up, IsKeyboard
<1>8. ~Up(k) => /\ outbuf' # <<DEVICE_OK>>
                /\ pending' \in Seq(Sent \ {DEVICE_OK})
  <2> SUFFICES ASSUME ~Up(k) PROVE outbuf' # <<DEVICE_OK>> /\ pending' \in Seq(Sent \ {DEVICE_OK})
    OBVIOUS
  <2>1. PICK S : S = Sent \ {DEVICE_OK}
    OBVIOUS
  <2>2. pending \in Seq(S)
    BY <1>3, <2>1 DEF Output
  <2>3. Head(pending) \in S /\ Tail(pending) \in Seq(S)
    BY <1>2, <2>2
  <2> QED
    BY <1>2, <2>1, <2>3
<1>9. Output(k)'
  BY <1>2, <1>3, <1>5, <1>6, <1>7, <1>8 DEF Output
<1> QED
  BY <1>1, <1>2, <1>4, <1>9, Unmoved DEF driver

LEMMA Replaced ==
  ASSUME NEW S, pending \in Seq(S), NEW bytes \in Seq(S), Answers(bytes)
  PROVE  pending' \in Seq(S)
<1>1. pending \o bytes \in Seq(S)
  BY ConcatProperties
<1> QED
  BY <1>1 DEF Answers

LEMMA Words ==
  /\ \A b \in Sent : <<b>> \in Seq(Sent)
  /\ \A b \in Sent \ {DEVICE_OK} : <<b>> \in Seq(Sent \ {DEVICE_OK})
  /\ {ACK, RESEND, FAILURE} \subseteq Sent \ {DEVICE_OK} /\ DEVICE_OK \in Sent
  /\ Identity \in Seq(Sent \ {DEVICE_OK})
  /\ <<ACK>> \o Identity \in Seq(Sent \ {DEVICE_OK})
  /\ <<ACK, DEVICE_OK>> \in Seq(Sent) /\ <<ACK, FAILURE>> \in Seq(Sent)
  /\ <<ACK, DEVICE_OK>> \o (IF device = "MOUSE" THEN <<{}>> ELSE << >>) \in Seq(Sent)
  /\ \A c \in Codes : c \in Seq(Sent \ {DEVICE_OK})
<1>1. PICK S : S = Sent \ {DEVICE_OK}
  OBVIOUS
<1>2. {ACK, RESEND, FAILURE, xAB, x83, x41, {}, {2, 3, 4}, 4 .. 7} \subseteq S
  <2>1. \A b \in {ACK, RESEND, FAILURE, xAB, x83, x41, {}, {2, 3, 4}, 4 .. 7} : b # DEVICE_OK
    BY Bytes, Zenon
  <2>2. {ACK, RESEND, FAILURE, xAB, x83, x41, {}, {2, 3, 4}, 4 .. 7} \subseteq Sent
    BY DEF Sent
  <2> QED
    BY <1>1, <2>1, <2>2
<1>3. DEVICE_OK \in Sent
  BY DEF Sent
<1>4. PICK ack, fail, ok, a1, a2, a3, a4, u1, u2 :
        /\ ack = ACK /\ fail = FAILURE /\ ok = DEVICE_OK /\ a1 = xAB /\ a2 = x83 /\ a3 = x41
        /\ a4 = {} /\ u1 = {2, 3, 4} /\ u2 = 4 .. 7
  OBVIOUS
<1>5. {ack, fail, a1, a2, a3, a4, u1, u2} \subseteq S /\ ok \in Sent /\ S \subseteq Sent
  BY <1>1, <1>2, <1>3, <1>4
<1>6. Identity \in {<<a1, a2>>, <<a1, a3>>, <<a4>>, <<a1, a4>>, << >>}
  BY <1>4 DEF Identity
<1>7. Identity \in Seq(S)
  <2>1. <<a1, a2>> \in Seq(S) /\ <<a1, a3>> \in Seq(S)
    BY <1>5
  <2>2. <<a4>> \in Seq(S) /\ <<a1, a4>> \in Seq(S) /\ << >> \in Seq(S)
    BY <1>5
  <2> QED
    BY <1>6, <2>1, <2>2
<1>8. <<ack>> \in Seq(S) /\ <<ack, ok>> \in Seq(Sent) /\ <<ack, fail>> \in Seq(Sent)
  BY <1>5
<1>9. <<ack>> \o Identity \in Seq(S)
  BY <1>7, <1>8, ConcatProperties
<1>10. <<ack, ok>> \o (IF device = "MOUSE" THEN <<a4>> ELSE << >>) \in Seq(Sent)
  <2>1. PICK m : m = IF device = "MOUSE" THEN <<a4>> ELSE << >>
    OBVIOUS
  <2>2. m \in Seq(Sent)
    BY <1>5, <2>1
  <2>3. <<ack, ok>> \o m \in Seq(Sent)
    BY <1>8, <2>2, ConcatProperties
  <2> QED
    BY <2>1, <2>3
<1>11. \A c \in Codes : c \in Seq(S)
  <2>1. Codes = {<<u1>>, <<u2, u1>>}
    BY <1>4 DEF Codes
  <2>2. <<u1>> \in Seq(S) /\ <<u2, u1>> \in Seq(S)
    BY <1>5
  <2> QED
    BY <2>1, <2>2
<1>12. {ACK, RESEND, FAILURE} \subseteq S
  BY <1>2
<1> QED
  BY <1>1, <1>3, <1>4, <1>7, <1>8, <1>9, <1>10, <1>11, <1>12

LEMMA BasePasses ==
  ASSUME Base, outcome # "stopped", DeviceIgnores \/ DeviceRefuses \/ DeviceObeys
  PROVE  Base'
<1>1. PICK k \in 1 .. 23 : k = at /\ Arrived(k)
  BY Here DEF Arrived
<1>2. PICK x : x = inbuf[1]
  OBVIOUS
<1>3. /\ inbuf # << >> /\ x.do # "command" /\ inbuf' = << >> /\ ~expecting
      /\ config' = config \/ config' = config \ {PORT1_OFF}
      /\ UNCHANGED <<todo, tries, configByte, outcome, expecting, reply, outbuf, device>>
  BY <1>2 DEF DeviceIgnores, DeviceRefuses, DeviceObeys, Passes, Written, IsCommand,
              driver, hardware
<1>4. Input(k) /\ Output(k) /\ Entered(x, k)
  BY <1>1, <1>2, <1>3 DEF Arrived, Input
<1>5. /\ x.do = "send" /\ k >= 17
      /\ x.c = "DISABLE_SCANNING" => k <= 18
      /\ x.c = "RESET" => k >= 20
  BY <1>3, <1>4 DEF Entered
<1>6. Good(config)
  BY <1>2, <1>3, <1>4, <1>5 DEF Input
<1>7. Good(config)'
  BY <1>3, <1>6 DEF Good, IRQ1, TRANSLATION, PORT1_OFF
<1>8. Input(k)'
  <2>1. k \in {7, 11, 16} => inbuf' = << >> /\ expecting'
    BY <1>5
  <2>2. AtMostOne(inbuf)' /\ ~expecting'
    BY <1>3 DEF AtMostOne
  <2> QED
    BY <1>3, <1>7, <2>1, <2>2 DEF Input
<1>9. Up(k) => Up(k)'
  <2> SUFFICES ASSUME Up(k) PROVE Up(k)'
    OBVIOUS
  <2>1. PORT1_OFF \notin config' /\ x.c # "DISABLE_SCANNING" /\ (IsKeyboard' <=> IsKeyboard)
    BY <1>3, <1>5 DEF Up, IsKeyboard
  <2>2. IsKeyboard => scanning'
    <3>1. CASE DeviceIgnores \/ DeviceRefuses
      BY <3>1 DEF DeviceIgnores, DeviceRefuses, Up
    <3>2. CASE DeviceObeys
      BY <1>2, <2>1, <3>2 DEF DeviceObeys, Up
    <3> QED
      BY <3>1, <3>2
  <2> QED
    BY <2>1, <2>2 DEF Up
<1>10. pending' \in Seq(Sent)
  <2>1. CASE DeviceIgnores
    BY <1>4, <2>1 DEF DeviceIgnores, Output
  <2>2. CASE DeviceRefuses
    <3>1. <<RESEND>> \in Seq(Sent)
      BY Words
    <3> QED
      BY <1>4, <2>2, <3>1, Replaced DEF DeviceRefuses, Output
  <2>3. CASE DeviceObeys
    <3>1. PICK bytes : Answers(bytes) /\ bytes \in Seq(Sent)
      <4>1. <<ACK>> \in Seq(Sent) /\ <<ACK>> \o Identity \in Seq(Sent)
        <5>1. Sent \ {DEVICE_OK} \subseteq Sent
          OBVIOUS
        <5>2. <<ACK>> \o Identity \in Seq(Sent)
          BY <5>1, Words, SeqMonotonic
        <5>3. <<ACK>> \in Seq(Sent)
          BY Words
        <5> QED
          BY <5>2, <5>3
      <4> QED
        BY <2>3, <4>1, Words DEF DeviceObeys
    <3>2. pending \in Seq(Sent)
      BY <1>4 DEF Output
    <3> QED
      BY <3>1, <3>2, Replaced
  <2> QED
    BY <2>1, <2>2, <2>3
<1>11. ASSUME ~Up(k)', pending \in Seq(Sent \ {DEVICE_OK})
       PROVE  pending' \in Seq(Sent \ {DEVICE_OK})
  <2>1. CASE DeviceIgnores
    BY <1>11, <2>1 DEF DeviceIgnores
  <2>2. CASE DeviceRefuses
    <3>1. <<RESEND>> \in Seq(Sent \ {DEVICE_OK})
      BY Words
    <3> QED
      BY <1>11, <2>2, <3>1, Replaced DEF DeviceRefuses
  <2>3. CASE DeviceObeys /\ x.c # "RESET"
    <3>1. PICK bytes : Answers(bytes) /\ bytes \in Seq(Sent \ {DEVICE_OK})
      <4>1. <<ACK>> \in Seq(Sent \ {DEVICE_OK})
        BY Words
      <4>2. <<ACK>> \o Identity \in Seq(Sent \ {DEVICE_OK})
        BY Words
      <4> QED
        BY <1>2, <2>3, <4>1, <4>2 DEF DeviceObeys
    <3> QED
      BY <1>11, <3>1, Replaced
  <2>4. CASE DeviceObeys /\ x.c = "RESET"
    <3>1. PORT1_OFF \notin config'
      BY <2>4 DEF DeviceObeys, Passes, Reaches, PORT1_OFF
    <3>2. IsKeyboard' => scanning'
      BY <1>2, <1>3, <2>4 DEF DeviceObeys, IsKeyboard
    <3> QED
      BY <1>5, <1>11, <2>4, <3>1, <3>2 DEF Up
  <2> QED
    BY <2>1, <2>2, <2>3, <2>4
<1>12. Output(k)'
  <2>1. ~ReadConfigOpen(k)' /\ AtMostOne(outbuf)' /\ AtMostOne(reply)'
    BY <1>3, <1>4, <1>5 DEF ReadConfigOpen, Output, AtMostOne
  <2> QED
    BY <1>3, <1>4, <1>5, <1>9, <1>10, <1>11, <2>1 DEF Output
<1> QED
  BY <1>1, <1>3, <1>8, <1>12, Unmoved DEF driver

LEMMA BaseTouches ==
  ASSUME Base, outcome # "stopped", UserTouches
  PROVE  Base'
<1>1. PICK k \in 1 .. 23 : k = at /\ Arrived(k)
  BY Here DEF Arrived
<1>2. PICK c \in Codes : pending' = pending \o c
  BY DEF UserTouches
<1>3. /\ UNCHANGED <<todo, tries, configByte, outcome, inbuf, reply, expecting, config,
                     outbuf, scanning, device>>
  BY DEF UserTouches, driver, controller, hardware
<1>4. Input(k) /\ Output(k)
  BY <1>1 DEF Arrived
<1>5. Input(k)'
  BY <1>3, <1>4 DEF Input, AtMostOne, Entered, Good
<1>6. c \in Seq(Sent \ {DEVICE_OK}) /\ c \in Seq(Sent)
  <2>1. c \in Seq(Sent \ {DEVICE_OK})
    BY Words
  <2> QED
    BY <2>1, SeqMonotonic
<1>7. pending' \in Seq(Sent)
  BY <1>2, <1>4, <1>6, ConcatProperties DEF Output
<1>8. pending \in Seq(Sent \ {DEVICE_OK}) => pending' \in Seq(Sent \ {DEVICE_OK})
  BY <1>2, <1>6, ConcatProperties
<1>9. AtMostOne(outbuf)' /\ AtMostOne(reply)' /\ (Up(k)' <=> Up(k))
      /\ (ReadConfigOpen(k)' <=> ReadConfigOpen(k))
  BY <1>3, <1>4 DEF Output, AtMostOne, Up, IsKeyboard, ReadConfigOpen
<1>10. Output(k)'
  BY <1>3, <1>4, <1>7, <1>8, <1>9 DEF Output
<1> QED
  BY <1>1, <1>3, <1>5, <1>10, Unmoved DEF driver

LEMMA BaseStep ==
  ASSUME Base, outcome # "stopped", outcome' # "stopped", [Next]_vars
  PROVE  Base'
<1>1. CASE port_write_command
  BY <1>1, BaseCommand
<1>2. CASE flush
  BY <1>2, BaseFlush
<1>3. CASE send_to_device
  BY <1>3, BaseSend
<1>4. CASE get_response
  BY <1>4, BaseResponse
<1>5. CASE enable_interrupts
  BY <1>5, BaseReady
<1>6. CASE Obeys
  BY <1>6, BaseObeys
<1>7. CASE TakesConfig
  BY <1>7, BaseTakesConfig
<1>8. CASE Replies
  BY <1>8, BaseReplies
<1>9. CASE DeviceSends
  BY <1>9, BaseDeviceSends
<1>10. CASE DeviceIgnores \/ DeviceRefuses \/ DeviceObeys
  BY <1>10, BasePasses
<1>11. CASE UserTouches
  BY <1>11, BaseTouches
<1>12. CASE UNCHANGED vars
  <2>1. Arrived(at)
    BY Here
  <2>2. PICK k : k = at /\ Arrived(k)
    BY <2>1
  <2>3. UNCHANGED <<todo, tries, configByte, outcome, inbuf, reply, expecting, config,
                    outbuf, pending, scanning, device>>
    BY <1>12 DEF vars, driver, controller, hardware
  <2>4. Input(k)'
    BY <2>2, <2>3 DEF Arrived, Input, AtMostOne, Entered, Good
  <2>5. Output(k)'
    BY <2>2, <2>3 DEF Arrived, Output, AtMostOne, ReadConfigOpen, Up, IsKeyboard
  <2> QED
    BY <2>2, <2>3, <2>4, <2>5, Unmoved DEF driver
<1> QED
  BY <1>1, <1>2, <1>3, <1>4, <1>5, <1>6, <1>7, <1>8, <1>9, <1>10, <1>11, <1>12
     DEF Next, Driver, Hardware

-----------------------------------------------------------------------------
(* What the driver finds, if the hardware is in time.                      *)

LEMMA Pair ==
  ASSUME NEW S, NEW x \in S, NEW y \in S
  PROVE  <<x>> \o <<y>> = <<x, y>>
<1>1. PICK f, g, p : f = <<x>> /\ g = <<y>> /\ p = <<x, y>>
  OBVIOUS
<1>2. f \in Seq(S) /\ g \in Seq(S) /\ p \in Seq(S) /\ Len(f) = 1 /\ Len(g) = 1 /\ Len(p) = 2
      /\ f[1] = x /\ g[1] = y /\ p[1] = x /\ p[2] = y
  BY <1>1
<1>3. PICK u : u = f \o g
  OBVIOUS
<1>4. /\ u \in Seq(S) /\ Len(u) = Len(f) + Len(g)
      /\ \A i \in 1 .. Len(f) + Len(g) : u[i] = IF i <= Len(f) THEN f[i] ELSE g[i - Len(f)]
  BY <1>2, <1>3, ConcatProperties
<1>5. Len(u) = Len(p) /\ \A i \in 1 .. Len(u) : u[i] = p[i]
  BY <1>2, <1>4
<1>6. u = p
  BY <1>2, <1>4, <1>5, SeqEqual
<1> QED
  BY <1>1, <1>3, <1>6

LEMMA FindsNothing ==
  ASSUME pending \in Seq(Sent), AtMostOne(outbuf), Arriving(<< >>)
  PROVE  outbuf = << >> /\ pending = << >>
<1>1. outbuf \o pending = << >>
  BY DEF Arriving, Pipe
<1>2. CASE outbuf = << >>
  BY <1>1, <1>2, ConcatEmptySeq
<1>3. ASSUME outbuf # << >> PROVE FALSE
  <2>1. PICK e : outbuf = <<e>>
    BY <1>3 DEF AtMostOne
  <2>2. PICK S : S = Sent \cup {e}
    OBVIOUS
  <2>3. e \in S /\ pending \in Seq(S)
    BY <2>2, SeqMonotonic
  <2>4. Leads(S, e, pending, outbuf \o pending)
    BY <2>1, <2>3, Lead
  <2> QED
    BY <1>1, <2>4 DEF Leads
<1> QED
  BY <1>2, <1>3

LEMMA FindsFirst ==
  ASSUME pending \in Seq(Sent), AtMostOne(outbuf), Settled,
         NEW b \in Sent, NEW others \in Seq(Sent), Arriving(<<b>> \o others)
  PROVE  outbuf = <<b>> /\ pending = others
<1>1. outbuf \o pending = <<b>> \o others /\ PORT1_OFF \notin config
  BY DEF Arriving, Pipe
<1>2. Leads(Sent, b, others, <<b>> \o others)
  BY Lead
<1>3. outbuf # << >>
  <2> SUFFICES ASSUME outbuf = << >> PROVE FALSE
    OBVIOUS
  <2>1. pending = << >>
    BY <1>1 DEF Settled
  <2>2. outbuf \o pending = << >>
    BY <2>1, ConcatEmptySeq
  <2> QED
    BY <1>1, <1>2, <2>2 DEF Leads
<1>4. PICK e : outbuf = <<e>>
  BY <1>3 DEF AtMostOne
<1>5. PICK S : S = Sent \cup {e}
  OBVIOUS
<1>6. e \in S /\ pending \in Seq(S)
  BY <1>5, SeqMonotonic
<1>7. Leads(S, e, pending, outbuf \o pending)
  BY <1>4, <1>6, Lead
<1> QED
  BY <1>1, <1>2, <1>4, <1>7 DEF Leads

LEMMA FindsOne ==
  ASSUME pending \in Seq(Sent), AtMostOne(outbuf), Settled, NEW b \in Sent, Arriving(<<b>>)
  PROVE  outbuf = <<b>> /\ pending = << >>
<1>1. PICK f : f = <<b>> /\ f \in Seq(Sent)
  BY Words
<1>2. f \o << >> = f /\ << >> \in Seq(Sent)
  BY <1>1, ConcatEmptySeq
<1>3. Arriving(<<b>> \o << >>)
  BY <1>1, <1>2
<1> QED
  BY <1>2, <1>3, FindsFirst

\* What is on its way can be written with its first byte in front.
LEMMA Shifts ==
  ASSUME pending \in Seq(Sent), pending # << >>, outbuf = << >>,
         outbuf' = <<Head(pending)>>, pending' = Tail(pending)
  PROVE  Pipe' = Pipe
<1>1. Pipe = pending
  BY ConcatEmptySeq DEF Pipe
<1>2. PICK e, t : e = Head(pending) /\ t = Tail(pending)
  OBVIOUS
<1>3. e \in Sent /\ t \in Seq(Sent) /\ <<e>> \o t = pending
  <2>1. e \in Sent /\ t \in Seq(Sent) /\ Len(t) = Len(pending) - 1
        /\ e = pending[1] /\ \A i \in 1 .. Len(t) : t[i] = pending[i + 1]
    BY <1>2, HeadTailProperties
  <2>2. PICK u : u = <<e>> \o t
    OBVIOUS
  <2>3. Leads(Sent, e, t, u)
    BY <2>1, <2>2, Lead
  <2>4. u \in Seq(Sent) /\ Len(u) = Len(pending)
    BY <2>1, <2>3 DEF Leads
  <2>5. \A i \in 1 .. Len(u) : u[i] = pending[i]
    <3> TAKE i \in 1 .. Len(u)
    <3>1. CASE i = 1
      BY <2>1, <2>3, <3>1 DEF Leads
    <3>2. CASE i # 1
      <4>1. PICK m \in 1 .. Len(t) : i = m + 1
        BY <2>3, <3>2 DEF Leads
      <4> QED
        BY <2>1, <2>3, <4>1 DEF Leads
    <3> QED
      BY <3>1, <3>2
  <2> QED
    BY <2>1, <2>2, <2>4, <2>5, SeqEqual
<1> QED
  BY <1>1, <1>2, <1>3 DEF Pipe

\* Enabling interrupts, or waiting on, leaves everything as it is.
LEMMA ExchangeSame ==
  ASSUME NEW k, Exchange(k),
         UNCHANGED <<todo, inbuf, reply, config, outbuf, pending, scanning, hardware, history>>
  PROVE  Exchange(k)'
<1>1. (NotAsked' <=> NotAsked) /\ (Quiet' <=> Quiet) /\ (IsKeyboard' <=> IsKeyboard)
  BY DEF NotAsked, Quiet, IsKeyboard, hardware
<1>2. \A bytes : Arriving(bytes)' <=> Arriving(bytes)
  BY DEF Arriving, Pipe, hardware
<1>3. \A c, answer : Asked(c, answer)' <=> Asked(c, answer)
  BY DEF Asked, history
<1>4. Identity' = Identity
  BY DEF Identity, hardware
<1>5. \A c, bytes : More(c, bytes)' <=> More(c, bytes)
  BY <1>4 DEF More, history
<1>6. \A c, i : Answering(c, i)' <=> Answering(c, i)
  BY <1>1, <1>2, <1>5 DEF Answering, hardware, history
<1> QED
  BY <1>1, <1>2, <1>3, <1>4, <1>6 DEF Exchange, SettingUp, Trying, Identifying, hardware, history

LEMMA ExchangeCommand ==
  ASSUME Base, Exchange(at), port_write_command
  PROVE  Exchange(at)'
<1>0. outcome = "busy" /\ todo # << >>
  BY DEF port_write_command, Doing
<1>1. PICK k \in 1 .. 22 : Arrived(k) /\ \E h \in Forms(k) : At(k, h)
  BY <1>0, Busy
<1>2. PICK h \in Forms(k) : At(k, h)
  BY <1>1
<1>3. /\ h.do = "command" /\ inbuf' = <<h>> /\ Continues(<< >>)
      /\ UNCHANGED <<outbuf, reply, config, pending, scanning, device>>
  BY <1>2 DEF port_write_command, Doing, At, hardware
<1>4. k \in {1, 2, 4, 6, 8, 10, 12, 14, 15} /\ h = Plan[k]
  BY <1>3, Kinds
<1>5. PICK j \in {2, 3, 5, 7, 9, 11, 13, 15, 16} : j = k + 1
  BY <1>4
<1>6. at' = j
  BY <1>2, <1>3, <1>5, Advance DEF At, Advanced
<1>7. Exchange(k)
  BY <1>2 DEF At
<1>8. (Quiet' <=> Quiet) /\ (IsKeyboard' <=> IsKeyboard)
  BY <1>3 DEF Quiet, IsKeyboard
<1>9. j \notin {5, 9, 13} => NotAsked'
  <2>1. k \notin {4, 8, 12} => h.c \notin Asking
    BY <1>4, PlanFields
  <2> QED
    BY <1>3, <1>5, <2>1 DEF NotAsked
<1>10. /\ j = 5 => Asked("READ_CONFIG", << >>)'
       /\ j = 9 => Asked("SELF_TEST", <<SELF_TEST_OK>>)'
       /\ j = 13 => Asked("TEST_FIRST", <<{}>>)'
  <2> SUFFICES ASSUME j \in {5, 9, 13}
               PROVE  /\ j = 5 => Asked("READ_CONFIG", << >>)'
                      /\ j = 9 => Asked("SELF_TEST", <<SELF_TEST_OK>>)'
                      /\ j = 13 => Asked("TEST_FIRST", <<{}>>)'
    OBVIOUS
  <2>1. Quiet'
    BY <1>5, <1>7, <1>8 DEF Exchange, SettingUp
  <2>2. /\ j = 5 => inbuf' = <<Command("READ_CONFIG")>>
        /\ j = 9 => inbuf' = <<Command("SELF_TEST")>>
        /\ j = 13 => inbuf' = <<Command("TEST_FIRST")>>
    BY <1>3, <1>4, <1>5, PlanSteps
  <2> QED
    BY <2>1, <2>2 DEF Asked, Quiet
<1>11. j \in {7, 11, 15, 16} => Quiet'
  BY <1>5, <1>7, <1>8 DEF Exchange, SettingUp
<1>12. j <= 3 => reply' = << >> /\ pending' = << >>
  BY <1>3, <1>5, <1>7 DEF Exchange, SettingUp
<1>13. IsKeyboard' \/ ~scanning'
  BY <1>3, <1>7, <1>8 DEF Exchange, SettingUp
<1>14. Exchange(j)'
  BY <1>9, <1>10, <1>11, <1>12, <1>13 DEF Exchange, SettingUp
<1> QED
  BY <1>6, <1>14

LEMMA ExchangeFlush ==
  ASSUME Base, timely, Exchange(at), flush
  PROVE  Exchange(at)'
<1>0. outcome = "busy" /\ todo # << >>
  BY DEF flush, Doing
<1>1. PICK k \in 1 .. 22 : Arrived(k) /\ \E h \in Forms(k) : At(k, h)
  BY <1>0, Busy
<1>2. PICK h \in Forms(k) : At(k, h)
  BY <1>1
<1>3. /\ h.do = "flush" /\ outbuf' = << >> /\ Continues(<< >>) /\ inbuf = << >>
      /\ UNCHANGED <<inbuf, reply, config, pending, scanning, device>>
  BY <1>2 DEF flush, Doing, At, hardware, controller, Looks, Settled
<1>4. k = 3
  BY <1>3, Kinds
<1>5. at' = 4
  BY <1>2, <1>3, <1>4, Advance DEF At, Advanced
<1>6. Exchange(3)
  BY <1>2, <1>4 DEF At
<1>7. Quiet' /\ NotAsked'
  BY <1>3, <1>6 DEF Exchange, SettingUp, Quiet, NotAsked
<1>8. IsKeyboard' \/ ~scanning'
  BY <1>3, <1>6 DEF Exchange, SettingUp, IsKeyboard
<1>9. Exchange(4)'
  BY <1>7, <1>8 DEF Exchange, SettingUp
<1> QED
  BY <1>5, <1>9

LEMMA ExchangeSend ==
  ASSUME Base, timely, Exchange(at), refusals \in Nat, send_to_device
  PROVE  Exchange(at)' /\ outcome' # "stopped"
<1>0. outcome = "busy" /\ todo # << >>
  BY DEF send_to_device, Doing
<1>1. PICK k \in 1 .. 22 : Arrived(k) /\ \E h \in Forms(k) : At(k, h)
  BY <1>0, Busy
<1>2. PICK h \in Forms(k) : At(k, h)
  BY <1>1
<1>3. /\ h.do \in {"write_config", "send"} /\ inbuf = << >> /\ Head(todo) = h
      /\ UNCHANGED <<outbuf, reply, config, pending, scanning, device, reopens, refusals>>
  BY <1>2 DEF send_to_device, Doing, At, hardware, history, Looks, Settled
<1>4. Exchange(k)
  BY <1>2 DEF At
<1>5. (Quiet' <=> Quiet) /\ (IsKeyboard' <=> IsKeyboard)
  BY <1>3 DEF Quiet, IsKeyboard
<1>6. IsKeyboard' \/ ~scanning'
  BY <1>3, <1>4, <1>5 DEF Exchange, SettingUp, Trying
<1>7. CASE h.do = "write_config"
  <2>1. k \in {7, 11, 16}
    BY <1>7, Kinds
  <2>2. /\ inbuf' = <<WriteConfig(newConfigByte(h.bits))>>
        /\ Continues(<< >>)
    <3>1. ~Doing("send") /\ AfterSending = << >>
      BY <1>3, <1>7 DEF Doing, AfterSending
    <3> QED
      BY <1>3, <3>1 DEF send_to_device
  <2>3. PICK j \in {8, 12, 17} : j = k + 1
    BY <2>1
  <2>4. at' = j /\ (j = 17 => Head(todo') = Plan[17])
    <3>1. Advanced(k)
      BY <1>2, <2>2, Advance DEF At
    <3> QED
      BY <2>3, <3>1 DEF Advanced
  <2>5. Quiet'
    BY <1>4, <1>5, <2>1 DEF Exchange, SettingUp, Trying
  <2>6. inbuf'[1].do = "write_config"
    BY <2>2 DEF WriteConfig
  <2>7. NotAsked'
    BY <2>6 DEF NotAsked
  <2>8. j = 17 => Head(todo').do = "send" /\ Head(todo').i = 0
    BY <2>4, PlanFields
  <2>9. Exchange(j)'
    BY <1>3, <1>6, <2>5, <2>6, <2>7, <2>8 DEF Exchange, SettingUp, Trying, Quiet
  <2>10. outcome' = "busy"
    BY <1>0, <2>2 DEF Continues
  <2> QED
    BY <2>4, <2>9, <2>10
<1>8. CASE h.do = "send"
  <2>1. k \in {17, 18, 20, 22}
    BY <1>8, Kinds
  <2>2. PICK i \in Nat : h = Send(Plan[k].c, i)
    BY <1>8, Kinds
  <2>3. inbuf' = <<h>> /\ Continues(<<Answer(h.c, h.i)>>)
    <3>1. Doing("send") /\ AfterSending = <<Answer(h.c, h.i)>>
      BY <1>0, <1>3, <1>8 DEF Doing, AfterSending
    <3> QED
      BY <1>3, <3>1 DEF send_to_device
  <2>4. h.c = Plan[k].c /\ h.i = i /\ h = Send(h.c, h.i)
    BY <2>2 DEF Send
  <2>5. Answer(h.c, h.i) \in Forms(k)
    BY <2>1, <2>4 DEF Forms
  <2>6. at' = k /\ Head(todo') = Answer(h.c, h.i)
    BY <1>2, <2>3, <2>5, Replace DEF At
  <2>7. Quiet' /\ h.i <= refusals'
    BY <1>3, <1>4, <1>5, <1>8, <2>1 DEF Exchange, SettingUp, Trying
  <2>8. Answering(h.c, h.i)'
    BY <2>3, <2>4, <2>7 DEF Answering
  <2>9. PICK g : g = Head(todo') /\ g.do = "answer" /\ g.c = h.c /\ g.i = h.i
    BY <2>6 DEF Answer
  <2>10. reply' = << >> /\ (k >= 20 => IsKeyboard')
    BY <1>3, <1>4, <1>5, <2>1 DEF Exchange, SettingUp, Trying
  <2>11. Exchange(k)'
    BY <1>6, <2>1, <2>7, <2>8, <2>9, <2>10 DEF Exchange, SettingUp, Trying
  <2>12. outcome' = "busy"
    BY <1>0, <2>3 DEF Continues
  <2> QED
    BY <2>6, <2>11, <2>12
<1> QED
  BY <1>3, <1>7, <1>8

\* What the driver does with a byte that it finds.
Takes(h, b) ==
  /\ outbuf' = << >>
  /\ h.do = "read_config" => Continues(<< >>)
  /\ h.do = "expect" => IF b = h.byte THEN Continues(<< >>) ELSE Stops
  /\ h.do = "answer" => resend_or_return(b)
  /\ h.do \in {"identify", "identify2"} => identified(b)

LEMMA Taking ==
  ASSUME NEW h, NEW b, get_response, Head(todo) = h, outbuf = <<b>>
  PROVE  Takes(h, b)
<1>1. outbuf # << >> /\ outbuf[1] = b /\ ~no_response
  BY DEF no_response
<1>2. outcome = "busy" /\ todo # << >>
  BY DEF get_response, Doing
<1>3. outbuf' = << >>
  BY <1>1 DEF get_response
<1>4. h.do = "read_config" => Continues(<< >>)
  BY <1>1, <1>2 DEF get_response, Doing
<1>5. h.do = "expect" => IF b = h.byte THEN Continues(<< >>) ELSE Stops
  BY <1>1, <1>2 DEF get_response, Doing
<1>6. h.do = "answer" => resend_or_return(b)
  BY <1>1, <1>2 DEF get_response, Doing
<1>7. h.do \in {"identify", "identify2"} => identified(b)
  BY <1>1, <1>2 DEF get_response, Doing
<1> QED
  BY <1>3, <1>4, <1>5, <1>6, <1>7 DEF Takes

LEMMA Waiting ==
  ASSUME get_response, outbuf = << >>
  PROVE  no_response /\ outbuf' = << >>
BY DEF get_response

\* The keyboard, and the commands, do what they should.
Sure == reopens /\ IsKeyboard /\ refusals < COMMAND_RETRY_COUNT /\ ~faulty

InTime == (outcome' # "stopped" => Exchange(at)') /\ (Sure => outcome' # "stopped")

LEMMA ExchangeAnswered ==
  ASSUME NEW k \in {5, 9, 13}, NEW h \in Forms(k), At(k, h), outcome = "busy",
         Settled, Exchange(k), get_response
  PROVE  InTime
<1>1. UNCHANGED <<inbuf, reply, pending, scanning, device>> /\ inbuf = << >>
  BY DEF get_response, controller, hardware, Settled
<1>2. Head(todo) = h /\ h = Plan[k]
  BY DEF At, Forms
<1>3. PICK c, answer : /\ Asked(c, answer)
                       /\ k = 9 => answer = <<SELF_TEST_OK>>
                       /\ k = 13 => answer = <<{}>>
  BY DEF Exchange, SettingUp
<1>4. PICK b : /\ pending = << >> /\ reply = << >> /\ outbuf = <<b>>
               /\ answer # << >> /\ ~faulty => b = answer[1]
  <2>1. pending = << >> /\ inbuf # <<Command(c)>>
    BY <1>1, <1>3 DEF Asked
  <2>2. PICK b : /\ \/ reply = <<b>> /\ outbuf = << >>
                    \/ reply = << >> /\ outbuf = <<b>>
                 /\ answer # << >> /\ ~faulty => b = answer[1]
    BY <1>3, <2>1 DEF Asked
  <2>3. outbuf = << >> => reply = << >>
    BY DEF Settled
  <2>4. reply = << >> /\ outbuf = <<b>>
    BY <2>2, <2>3
  <2> QED
    BY <2>1, <2>2, <2>4
<1>5. Takes(h, b)
  BY <1>2, <1>4, Taking
<1>6. outcome' # "stopped" => Continues(<< >>)
  <2>1. h.do \in {"read_config", "expect"}
    BY <1>2, PlanFields
  <2> QED
    BY <1>5, <2>1 DEF Takes, Stops
<1>7. outcome' # "stopped" => Exchange(at)'
  <2> SUFFICES ASSUME outcome' # "stopped" PROVE Exchange(at)'
    OBVIOUS
  <2>1. PICK j \in {6, 10, 14} : j = k + 1
    OBVIOUS
  <2>2. at' = j
    <3>1. k \in 1 .. 22
      OBVIOUS
    <3>2. Advanced(k)
      BY <1>6, <3>1, Advance DEF At
    <3> QED
      BY <2>1, <3>2 DEF Advanced
  <2>3. Quiet' /\ NotAsked'
    BY <1>1, <1>4, <1>5 DEF Takes, Quiet, NotAsked
  <2>4. IsKeyboard' \/ ~scanning'
    BY <1>1 DEF Exchange, SettingUp, IsKeyboard
  <2>5. Exchange(j)'
    BY <2>3, <2>4 DEF Exchange, SettingUp
  <2> QED
    BY <2>2, <2>5
<1>8. ASSUME Sure PROVE outcome' # "stopped"
  <2>1. answer # << >> => b = answer[1]
    BY <1>4, <1>8 DEF Sure
  <2>2. Continues(<< >>)
    <3>1. CASE k = 5
      <4>1. h.do = "read_config"
        BY <1>2, <3>1, PlanFields
      <4> QED
        BY <1>5, <4>1 DEF Takes
    <3>2. CASE k = 9
      <4>1. h.do = "expect" /\ h.byte = SELF_TEST_OK
        BY <1>2, <3>2, PlanFields
      <4>2. b = SELF_TEST_OK
        BY <1>3, <2>1, <3>2
      <4> QED
        BY <1>5, <4>1, <4>2 DEF Takes
    <3>3. CASE k = 13
      <4>1. h.do = "expect" /\ h.byte = {}
        BY <1>2, <3>3, PlanFields
      <4>2. b = {}
        <5>1. PICK e : e = {}
          OBVIOUS
        <5>2. answer = <<e>>
          BY <1>3, <3>3, <5>1
        <5> QED
          BY <2>1, <5>1, <5>2
      <4> QED
        BY <1>5, <4>1, <4>2 DEF Takes
    <3> QED
      BY <3>1, <3>2, <3>3
  <2> QED
    BY <2>2 DEF Continues
<1> QED
  BY <1>7, <1>8 DEF InTime

\* The byte that says that the device is on.
LEMMA ExchangeReset ==
  ASSUME NEW h \in Forms(21), At(21, h), outcome = "busy", Settled, Exchange(21),
         pending \in Seq(Sent), AtMostOne(outbuf), refusals \in Nat, get_response
  PROVE  InTime
<1>1. UNCHANGED <<inbuf, reply, pending, scanning, device, refusals>> /\ inbuf = << >>
  BY DEF get_response, controller, hardware, history, Settled
<1>2. Head(todo) = h /\ h.do = "expect" /\ h.byte = DEVICE_OK
  <2>1. h = Plan[21] /\ Head(todo) = h
    BY DEF At, Forms
  <2> QED
    BY <2>1, PlanFields
<1>3. Arriving(<<DEVICE_OK>>) \/ (faulty /\ Arriving(<<FAILURE>>))
  BY DEF Exchange, Trying
<1>4. PICK b : outbuf = <<b>> /\ pending = << >> /\ (~faulty => b = DEVICE_OK)
  <2>1. DEVICE_OK \in Sent /\ FAILURE \in Sent
    BY Words
  <2> QED
    BY <1>3, <2>1, FindsOne
<1>5. Takes(h, b)
  BY <1>2, <1>4, Taking
<1>6. outcome' # "stopped" => Continues(<< >>)
  BY <1>2, <1>5 DEF Takes, Stops
<1>7. outcome' # "stopped" => Exchange(at)'
  <2> SUFFICES ASSUME outcome' # "stopped" PROVE Exchange(at)'
    OBVIOUS
  <2>1. Advanced(21)
    <3>1. 21 \in 1 .. 22 /\ At(21, h) /\ Continues(<< >>)
      BY <1>6
    <3> QED
      BY <3>1, Advance DEF At
  <2>2. at' = 22 /\ Head(todo') = Plan[22]
    BY <2>1 DEF Advanced
  <2>3. Head(todo').do = "send" /\ Head(todo').i = 0
    BY <2>2, PlanFields
  <2>4. Quiet' /\ IsKeyboard' /\ inbuf' = << >>
    <3>1. reply = << >> /\ IsKeyboard
      BY DEF Exchange, Trying
    <3> QED
      BY <1>1, <1>4, <1>5, <3>1 DEF Takes, Quiet, IsKeyboard
  <2>5. Exchange(22)'
    BY <1>1, <2>3, <2>4 DEF Exchange, Trying, Quiet
  <2> QED
    BY <2>2, <2>5
<1>8. Sure => outcome' # "stopped"
  BY <1>2, <1>4, <1>5 DEF Takes, Sure, Continues
<1> QED
  BY <1>7, <1>8 DEF InTime

LEMMA ExchangeIdentify ==
  ASSUME NEW h \in Forms(19), At(19, h), outcome = "busy", Settled, Exchange(19), Place(19),
         pending \in Seq(Sent), AtMostOne(outbuf), refusals \in Nat, device \in Devices,
         get_response
  PROVE  InTime
<1>1. /\ UNCHANGED <<inbuf, reply, config, pending, scanning, hardware, history>>
      /\ UNCHANGED <<device, refusals>>
      /\ inbuf = << >> /\ reply = << >> /\ PORT1_OFF \notin config
  BY DEF get_response, controller, hardware, history, Settled, Exchange, Trying, Identifying, Arriving
<1>2. Head(todo) = h
  BY DEF At
<1>3. ASSUME Continues(<< >>), pending = << >>, outbuf' = << >>, IsKeyboard
      PROVE  InTime
  <2>1. Advanced(19)
    <3>1. 19 \in 1 .. 22
      OBVIOUS
    <3> QED
      BY <1>3, <3>1, Advance DEF At
  <2>2. at' = 20 /\ Head(todo') = Plan[20]
    BY <2>1 DEF Advanced
  <2>3. Head(todo').do = "send" /\ Head(todo').i = 0
    BY <2>2, PlanFields
  <2>4. Quiet' /\ IsKeyboard' /\ inbuf' = << >>
    BY <1>1, <1>3 DEF Quiet, IsKeyboard
  <2>5. Exchange(20)'
    BY <1>1, <2>3, <2>4 DEF Exchange, Trying, Identifying, Quiet
  <2>6. outcome' # "stopped"
    BY <1>3 DEF Continues
  <2> QED
    BY <2>2, <2>5, <2>6 DEF InTime
<1>4. ASSUME UNCHANGED <<todo, outcome, outbuf>>
      PROVE  InTime
  <2>1. Exchange(19)'
    BY <1>1, <1>4, ExchangeSame
  <2>2. at' = 19
    BY <1>4 DEF at, At
  <2> QED
    BY <1>4, <2>1, <2>2 DEF InTime
<1>5. CASE h = Identify
  <2>1. Arriving(Identity) /\ h.do = "identify"
    BY <1>2, <1>5 DEF Exchange, Trying, Identifying, Identify
  <2>2. CASE device \in {"AT", "NONE"}
    <3>1. Identity = << >>
      BY <2>2 DEF Identity
    <3>2. outbuf = << >> /\ pending = << >>
      BY <2>1, <3>1, FindsNothing
    <3>3. IsKeyboard
      BY <2>1, <2>2 DEF Arriving, IsKeyboard
    <3>4. no_response /\ outbuf' = << >>
      BY <3>2, Waiting
    <3>5. Doing("identify")
      BY <1>2, <2>1 DEF Doing, At
    <3>6. CASE tries < 2
      <4>1. UNCHANGED <<todo, outcome, outbuf>>
        BY <3>2, <3>4, <3>6 DEF no_response
      <4> QED
        BY <1>4, <4>1
    <3>7. CASE ~(tries < 2)
      <4>1. Continues(<< >>)
        BY <3>4, <3>5, <3>7 DEF no_response
      <4> QED
        BY <1>3, <3>2, <3>3, <3>4, <4>1
    <3> QED
      BY <3>6, <3>7
  <2>3. CASE device \in {"MF2", "MF2_TRANSLATED", "UNKNOWN", "MOUSE"}
    <3>1. PICK b \in Sent, others \in Seq(Sent) :
            /\ Identity = <<b>> \o others
            /\ device = "MOUSE" => b = {}
            /\ device # "MOUSE" => b = xAB /\ others = <<Identity[2]>>
      <4>1. PICK a1, a2, a3, a4 : a1 = xAB /\ a2 = x83 /\ a3 = x41 /\ a4 = {}
        OBVIOUS
      <4>2. {a1, a2, a3, a4} \subseteq Sent
        BY <4>1 DEF Sent
      <4>3. /\ <<a1>> \o <<a2>> = <<a1, a2>> /\ <<a1>> \o <<a3>> = <<a1, a3>>
            /\ <<a1>> \o <<a4>> = <<a1, a4>>
        BY <4>2, Pair
      <4>4. <<a4>> \o << >> = <<a4>>
        BY <4>2, ConcatEmptySeq
      <4>5. Identity = CASE device = "MF2" -> <<a1, a2>>
                         [] device = "MF2_TRANSLATED" -> <<a1, a3>>
                         [] device = "MOUSE" -> <<a4>>
                         [] device = "UNKNOWN" -> <<a1, a4>>
                         [] OTHER -> << >>
        BY <4>1 DEF Identity
      <4>6. CASE device = "MF2"
        <5>1. Identity = <<a1>> \o <<a2>> /\ Identity[2] = a2 /\ <<a2>> \in Seq(Sent)
          <6>1. Identity = <<a1, a2>>
            BY <4>5, <4>6
          <6>2. Identity = <<a1>> \o <<a2>>
            BY <4>3, <6>1
          <6>3. Identity[2] = a2
            BY <6>1
          <6>4. <<a2>> \in Seq(Sent)
            BY <4>2, Words
          <6> QED
            BY <6>2, <6>3, <6>4
        <5> QED
          BY <4>1, <4>2, <4>6, <5>1
      <4>7. CASE device = "MF2_TRANSLATED"
        <5>1. Identity = <<a1>> \o <<a3>> /\ Identity[2] = a3 /\ <<a3>> \in Seq(Sent)
          BY <4>2, <4>3, <4>5, <4>7
        <5> QED
          BY <4>1, <4>2, <4>7, <5>1
      <4>8. CASE device = "MOUSE"
        <5>1. Identity = <<a4>> \o << >> /\ << >> \in Seq(Sent)
          BY <4>4, <4>5, <4>8
        <5> QED
          BY <4>1, <4>2, <4>8, <5>1
      <4>9. CASE device = "UNKNOWN"
        <5>1. Identity = <<a1>> \o <<a4>> /\ Identity[2] = a4 /\ <<a4>> \in Seq(Sent)
          BY <4>2, <4>3, <4>5, <4>9
        <5> QED
          BY <4>1, <4>2, <4>9, <5>1
      <4> QED
        BY <2>3, <4>6, <4>7, <4>8, <4>9
    <3>2. Arriving(<<b>> \o others)
      BY <2>1, <3>1
    <3>3. outbuf = <<b>> /\ pending = others
      BY <3>2, FindsFirst
    <3>4. Takes(h, b) /\ outbuf' = << >>
      BY <1>2, <3>3, Taking DEF Takes
    <3>5. identified(b) /\ Doing("identify") /\ ~Doing("identify2")
      BY <1>2, <2>1, <3>4 DEF Takes, Doing, At
    <3>6. CASE device = "MOUSE"
      <4>1. b # xAB
        BY <3>1, <3>6, Bytes
      <4>2. outcome' = "stopped" /\ ~IsKeyboard
        BY <3>5, <3>6, <4>1 DEF identified, Stops, IsKeyboard
      <4> QED
        BY <4>2 DEF InTime, Sure
    <3>7. CASE device # "MOUSE"
      <4>1. Continues(<<Identify2>>)
        BY <3>1, <3>5, <3>7 DEF identified
      <4>2. Identify2 \in Forms(19)
        BY DEF Forms
      <4>3. at' = 19 /\ Head(todo') = Identify2
        <5>1. 19 \in 1 .. 22
          OBVIOUS
        <5> QED
          BY <4>1, <4>2, <5>1, Replace DEF At
      <4>4. Identify2 # Identify
        <5>1. Identify2.do # Identify.do
          BY DEF Identify, Identify2
        <5> QED
          BY <5>1
      <4>5. Arriving(<<Identity[2]>>)'
        <5>1. Pipe' = <<Identity[2]>> /\ Identity' = Identity
          BY <1>1, <3>1, <3>3, <3>4, <3>7, ConcatEmptySeq DEF Pipe, Identity
        <5> QED
          BY <1>1, <2>3, <5>1 DEF Arriving
      <4>6. device' \in {"MF2", "MF2_TRANSLATED", "UNKNOWN"} /\ reply' = << >>
        BY <1>1, <2>3, <3>7
      <4>7. IsKeyboard' \/ ~scanning'
        BY <1>1 DEF Exchange, Trying, Identifying, IsKeyboard
      <4>8. Exchange(19)'
        BY <4>3, <4>4, <4>5, <4>6, <4>7 DEF Exchange, Trying, Identifying
      <4>9. outcome' # "stopped"
        BY <4>1 DEF Continues
      <4> QED
        BY <4>3, <4>8, <4>9 DEF InTime
    <3> QED
      BY <3>6, <3>7
  <2>4. device \in {"AT", "MF2", "MF2_TRANSLATED", "MOUSE", "UNKNOWN", "NONE"}
    BY PS2Assumption
  <2> QED
    BY <2>2, <2>3, <2>4
<1>6. CASE h # Identify
  <2>1. h = Identify2 /\ h.do = "identify2"
    BY <1>6 DEF Forms, Identify2
  <2>2. Arriving(<<Identity[2]>>) /\ device \in {"MF2", "MF2_TRANSLATED", "UNKNOWN"}
    BY <1>2, <1>6 DEF Exchange, Trying, Identifying
  <2>3. PICK b \in Sent : /\ b = Identity[2]
                          /\ IsKeyboard => b \in {x41, x83}
                          /\ b \in {x41, x83} => IsKeyboard
    <3>1. x83 \in Sent /\ x41 \in Sent /\ {} \in Sent
      BY DEF Sent
    <3>2. /\ device = "MF2" => Identity[2] = x83
          /\ device = "MF2_TRANSLATED" => Identity[2] = x41
          /\ device = "UNKNOWN" => Identity[2] = {}
      BY DEF Identity
    <3>3. {} \notin {x41, x83}
      BY Bytes
    <3> QED
      BY <2>2, <3>1, <3>2, <3>3 DEF IsKeyboard
  <2>4. outbuf = <<b>> /\ pending = << >>
    BY <2>2, <2>3, FindsOne
  <2>5. Takes(h, b) /\ outbuf' = << >>
    BY <1>2, <2>4, Taking DEF Takes
  <2>6. identified(b) /\ ~Doing("identify") /\ Doing("identify2")
    BY <1>2, <2>1, <2>5 DEF Takes, Doing, At
  <2>7. CASE b \in {x41, x83}
    <3>1. Continues(<< >>)
      BY <2>6, <2>7 DEF identified
    <3> QED
      BY <1>3, <2>3, <2>4, <2>5, <2>7, <3>1
  <2>8. CASE b \notin {x41, x83}
    <3>1. outcome' = "stopped"
      BY <2>6, <2>8 DEF identified, Stops
    <3> QED
      BY <2>3, <2>8, <3>1 DEF InTime, Sure
  <2> QED
    BY <2>7, <2>8
<1> QED
  BY <1>5, <1>6

\* The loop that sends a command until it is not refused.
LEMMA ExchangeResend ==
  ASSUME NEW k \in {17, 18, 20, 22}, NEW h \in Forms(k), At(k, h), h.do = "answer",
         outcome = "busy", Settled, Exchange(k), pending \in Seq(Sent), AtMostOne(outbuf),
         refusals \in Nat, get_response
  PROVE  InTime
<1>1. /\ UNCHANGED <<inbuf, reply, config, pending, scanning, hardware, history>>
      /\ UNCHANGED <<device, reopens, refusals, faulty>>
      /\ inbuf = << >>
  BY DEF get_response, controller, hardware, history, Settled
<1>2. Head(todo) = h /\ k \in 1 .. 22
  BY DEF At
<1>3. PICK i \in Nat : h = Answer(Plan[k].c, i)
  <2>1. PICK i \in Nat : h = Send(Plan[k].c, i) \/ h = Answer(Plan[k].c, i)
    BY DEF Forms
  <2>2. h = Answer(Plan[k].c, i)
    BY <2>1 DEF Send
  <2> QED
    BY <2>2
<1>4. h.c = Plan[k].c /\ h.i = i
  BY <1>3 DEF Answer
<1>5. i <= refusals /\ Answering(h.c, i) /\ reply = << >> /\ (k >= 20 => IsKeyboard)
  <2>1. reply = << >> /\ (k >= 20 => IsKeyboard)
    BY DEF Exchange, Trying, Identifying
  <2>2. h.i <= refusals /\ Answering(h.c, h.i)
    BY <1>2 DEF Exchange, Trying, Identifying
  <2> QED
    BY <1>4, <2>1, <2>2
<1>6. IsKeyboard' \/ ~scanning'
  BY <1>1 DEF Exchange, Trying, Identifying, IsKeyboard
<1>7. ~Doing("identify")
  BY <1>2 DEF Doing
<1>8. CASE Quiet /\ ~(reopens /\ device # "NONE")
  <2>1. no_response /\ outbuf' = outbuf
    BY <1>8, Waiting DEF Quiet
  <2>2. CASE tries < 2
    <3>1. UNCHANGED <<todo, outcome, outbuf>>
      BY <2>1, <2>2 DEF no_response
    <3>2. Exchange(k)'
      BY <1>1, <3>1, ExchangeSame
    <3>3. at' = k
      BY <3>1 DEF at, At
    <3> QED
      BY <3>1, <3>2, <3>3 DEF InTime
  <2>3. CASE ~(tries < 2)
    <3>1. outcome' = "stopped"
      BY <1>7, <2>1, <2>3 DEF no_response, Stops
    <3>2. ~Sure
      BY <1>8 DEF Sure, IsKeyboard
    <3> QED
      BY <3>1, <3>2 DEF InTime
  <2> QED
    BY <2>2, <2>3
<1>9. CASE Arriving(<<RESEND>>) /\ i < refusals
  <2>1. outbuf = <<RESEND>> /\ pending = << >>
    <3>1. RESEND \in Sent
      BY Words
    <3> QED
      BY <1>9, <3>1, FindsOne
  <2>2. Takes(h, RESEND) /\ resend_or_return(RESEND) /\ outbuf' = << >>
    BY <1>2, <2>1, Taking DEF Takes
  <2>3. CASE i + 1 < COMMAND_RETRY_COUNT
    <3>1. Continues(<<Send(h.c, i + 1)>>)
      BY <1>2, <1>4, <2>2, <2>3 DEF resend_or_return
    <3>2. Send(h.c, i + 1) \in Forms(k)
      BY <1>4 DEF Forms
    <3>3. at' = k /\ Head(todo') = Send(h.c, i + 1)
      BY <1>2, <3>1, <3>2, Replace DEF At
    <3>4. PICK g : g = Head(todo') /\ g.do = "send" /\ g.i = i + 1
      BY <3>3 DEF Send
    <3>5. Quiet' /\ (k >= 20 => IsKeyboard')
      BY <1>1, <1>5, <2>1, <2>2 DEF Quiet, IsKeyboard
    <3>6. i + 1 <= refusals'
      BY <1>1, <1>9
    <3>7. Exchange(k)'
      <4>1. reply' = << >> /\ inbuf' = << >> /\ k >= 17
        BY <1>1, <1>5
      <4> QED
        BY <1>6, <3>4, <3>5, <3>6, <4>1 DEF Exchange, Trying, Identifying
    <3>8. outcome' # "stopped"
      BY <3>1 DEF Continues
    <3> QED
      BY <3>3, <3>7, <3>8 DEF InTime
  <2>4. CASE ~(i + 1 < COMMAND_RETRY_COUNT)
    <3>1. outcome' = "stopped"
      BY <1>2, <1>4, <2>2, <2>4 DEF resend_or_return, Stops
    <3>2. ~Sure
      BY <1>9, <2>4, PS2Assumption DEF Sure
    <3> QED
      BY <3>1, <3>2 DEF InTime
  <2> QED
    BY <2>3, <2>4
<1>10. CASE \E bytes \in Seq(Sent) : More(h.c, bytes) /\ Arriving(<<ACK>> \o bytes)
  <2>1. PICK bytes \in Seq(Sent) : More(h.c, bytes) /\ Arriving(<<ACK>> \o bytes)
    BY <1>10
  <2>2. outbuf = <<ACK>> /\ pending = bytes
    <3>1. ACK \in Sent
      BY Words
    <3> QED
      BY <2>1, <3>1, FindsFirst
  <2>3. Takes(h, ACK) /\ resend_or_return(ACK) /\ outbuf' = << >>
    BY <1>2, <2>2, Taking DEF Takes
  <2>4. Continues(<< >>)
    BY <2>3, Bytes DEF resend_or_return
  <2>5. Advanced(k)
    BY <1>2, <2>4, Advance DEF At
  <2>6. Arriving(bytes)'
    <3>1. Pipe' = bytes
      BY <1>1, <2>2, <2>3, ConcatEmptySeq DEF Pipe
    <3> QED
      BY <1>1, <2>1, <3>1 DEF Arriving
  <2>7. Exchange(at)'
    <3>1. CASE k = 17
      <4>1. bytes = << >>
        BY <1>4, <2>1, <3>1, PlanFields DEF More
      <4>2. at' = 18 /\ Head(todo') = Plan[18]
        BY <2>5, <3>1 DEF Advanced
      <4>3. Head(todo').do = "send" /\ Head(todo').i = 0
        BY <4>2, PlanFields
      <4>4. Quiet'
        BY <1>1, <1>5, <2>2, <2>3, <4>1 DEF Quiet
      <4>5. Exchange(18)'
        <5>1. reply' = << >> /\ inbuf' = << >> /\ 0 <= refusals'
          BY <1>1, <1>5
        <5> QED
          BY <1>6, <4>3, <4>4, <5>1 DEF Exchange, Trying, Identifying
      <4> QED
        BY <4>2, <4>5
    <3>2. CASE k = 18
      <4>1. bytes = Identity
        BY <1>4, <2>1, <3>2, PlanFields DEF More
      <4>2. at' = 19 /\ Head(todo') = Identify
        BY <2>5, <3>2, PlanSteps DEF Advanced
      <4>3. Identity' = Identity
        BY <1>1 DEF Identity
      <4>4. Exchange(19)'
        BY <1>1, <1>5, <1>6, <2>6, <4>1, <4>2, <4>3 DEF Exchange, Trying, Identifying
      <4> QED
        BY <4>2, <4>4
    <3>3. CASE k = 20
      <4>1. bytes = <<DEVICE_OK>> \/ (faulty /\ bytes = <<FAILURE>>)
        BY <1>4, <2>1, <3>3, PlanFields DEF More
      <4>2. at' = 21
        BY <2>5, <3>3 DEF Advanced
      <4>3. Arriving(<<DEVICE_OK>>)' \/ (faulty' /\ Arriving(<<FAILURE>>)')
        BY <1>1, <2>6, <4>1
      <4>4. IsKeyboard'
        BY <1>1, <1>5, <3>3 DEF IsKeyboard
      <4>5. Exchange(21)'
        BY <1>1, <1>5, <4>3, <4>4 DEF Exchange, Trying, Identifying
      <4> QED
        BY <4>2, <4>5
    <3>4. CASE k = 22
      <4>1. bytes = << >>
        BY <1>4, <2>1, <3>4, PlanFields DEF More
      <4>2. at' = 23
        BY <2>5, <3>4 DEF Advanced
      <4>3. Quiet' /\ inbuf' = << >>
        BY <1>1, <1>5, <2>2, <2>3, <4>1 DEF Quiet
      <4>4. IsKeyboard'
        BY <1>1, <1>5, <3>4 DEF IsKeyboard
      <4>5. Exchange(23)'
        BY <1>1, <1>5, <4>3, <4>4 DEF Exchange, Trying, Identifying
      <4> QED
        BY <4>2, <4>5
    <3> QED
      BY <3>1, <3>2, <3>3, <3>4
  <2>8. outcome' # "stopped"
    BY <2>4 DEF Continues
  <2> QED
    BY <2>7, <2>8 DEF InTime
<1>11. inbuf # <<Send(h.c, i)>>
  BY <1>1
<1> QED
  BY <1>5, <1>8, <1>9, <1>10, <1>11 DEF Answering

LEMMA ExchangeResponse ==
  ASSUME Base, timely, Exchange(at), refusals \in Nat, device \in Devices, get_response
  PROVE  InTime
<1>1. outcome = "busy" /\ todo # << >> /\ Settled
  BY DEF get_response, Doing, Looks
<1>2. PICK k \in 1 .. 22 : Arrived(k) /\ \E h \in Forms(k) : At(k, h)
  BY <1>1, Busy
<1>3. PICK h \in Forms(k) : At(k, h)
  BY <1>2
<1>4. h.do \in {"read_config", "expect", "answer", "identify", "identify2"}
  BY <1>3 DEF get_response, Doing, At
<1>5. /\ Exchange(k) /\ Place(k)
      /\ pending \in Seq(Sent) /\ AtMostOne(outbuf)
  BY <1>2, <1>3 DEF At, Arrived, Output
<1>6. CASE k \in {5, 9, 13}
  BY <1>1, <1>3, <1>5, <1>6, ExchangeAnswered
<1>7. CASE k = 21
  <2>1. h \in Forms(21) /\ At(21, h) /\ Exchange(21)
    BY <1>3, <1>5, <1>7
  <2> QED
    BY <1>1, <1>5, <2>1, ExchangeReset
<1>8. CASE k = 19
  <2>1. h \in Forms(19) /\ At(19, h) /\ Exchange(19) /\ Place(19)
    BY <1>3, <1>5, <1>8
  <2> QED
    BY <1>1, <1>5, <2>1, ExchangeIdentify
<1>9. CASE k \in {17, 18, 20, 22}
  <2>1. h.do = "answer"
    BY <1>4, <1>9, Kinds
  <2> QED
    BY <1>1, <1>3, <1>5, <1>9, <2>1, ExchangeResend
<1> QED
  BY <1>4, <1>6, <1>7, <1>8, <1>9, Kinds

-----------------------------------------------------------------------------
(* Controller, device and user, if they are in time.                       *)

LEMMA Asks ==
  ASSUME NEW k \in {17, 18, 20, 22}, Place(k)
  PROVE  /\ Head(todo).do \in {"send", "answer"}
         /\ Head(todo).c = Plan[k].c /\ Head(todo).i \in Nat
<1>1. k \in 1 .. 22 /\ k # 23
  OBVIOUS
<1>2. PICK h \in Forms(k) : todo = <<h>> \o Rest(k + 1)
  BY <1>1 DEF Place
<1>3. Head(todo) = h
  BY <1>1, <1>2, Located
<1>4. PICK i \in Nat : h = Send(Plan[k].c, i) \/ h = Answer(Plan[k].c, i)
  BY DEF Forms
<1> QED
  BY <1>3, <1>4 DEF Send, Answer

LEMMA ExchangeObeys ==
  ASSUME Base, outcome # "stopped", Exchange(at), Obeys
  PROVE  Exchange(at)'
<1>1. PICK k \in 1 .. 23 : k = at /\ Arrived(k)
  BY Here DEF Arrived
<1>2. PICK x : x = inbuf[1]
  OBVIOUS
<1>3. /\ inbuf # << >> /\ x.do = "command" /\ inbuf' = << >> /\ reply = << >>
      /\ UNCHANGED <<todo, outbuf, pending, scanning, device>>
  BY <1>2 DEF Obeys, Written, IsCommand, driver, hardware
<1>4. k < 17
  BY <1>1, <1>2, <1>3 DEF Arrived, Input, Entered
<1>5. Exchange(k) /\ at' = k
  BY <1>1, <1>3 DEF at
<1>6. NotAsked' /\ (IsKeyboard' \/ ~scanning')
  BY <1>3, <1>5 DEF NotAsked, Exchange, SettingUp, IsKeyboard
<1>7. CASE k \notin {5, 9, 13}
  <2>1. x.c \notin Asking
    BY <1>2, <1>3, <1>4, <1>5, <1>7 DEF Exchange, SettingUp, NotAsked
  <2>2. reply' = << >>
    BY <1>2, <1>3, <2>1 DEF Obeys, Asking
  <2>3. Quiet => Quiet'
    BY <1>3, <2>2 DEF Quiet
  <2>4. Exchange(k)'
    BY <1>3, <1>4, <1>5, <1>6, <1>7, <2>2, <2>3 DEF Exchange, SettingUp
  <2> QED
    BY <1>5, <2>4
<1>8. CASE k \in {5, 9, 13}
  <2>1. PICK c, answer :
          /\ Asked(c, answer)
          /\ \/ k = 5 /\ c = "READ_CONFIG" /\ answer = << >>
             \/ k = 9 /\ c = "SELF_TEST" /\ answer = <<SELF_TEST_OK>>
             \/ k = 13 /\ c = "TEST_FIRST" /\ answer = <<{}>>
    BY <1>5, <1>8 DEF Exchange, SettingUp
  <2>2. x = Command(c) /\ outbuf = << >> /\ pending = << >>
    BY <1>2, <1>3, <2>1 DEF Asked
  <2>3. x.c = c
    BY <2>2 DEF Command
  <2>4. PICK b : reply' = <<b>> /\ (answer # << >> /\ ~faulty' => b = answer[1])
    <3>1. CASE k = 5
      <4>1. reply' = <<config>>
        BY <1>2, <2>1, <2>3, <3>1 DEF Obeys
      <4> QED
        BY <2>1, <3>1, <4>1
    <3>2. CASE k = 9
      <4>1. reply' = <<SELF_TEST_OK>> \/ (reply' = <<FAILURE>> /\ faulty')
        BY <1>2, <2>1, <2>3, <3>2 DEF Obeys
      <4>2. answer[1] = SELF_TEST_OK
        BY <2>1, <3>2
      <4> QED
        BY <4>1, <4>2
    <3>3. CASE k = 13
      <4>1. PICK e, f : e = {} /\ f = {0}
        OBVIOUS
      <4>2. reply' = <<e>> \/ (reply' = <<f>> /\ faulty')
        BY <1>2, <2>1, <2>3, <3>3, <4>1 DEF Obeys
      <4>3. answer = <<e>>
        BY <2>1, <3>3, <4>1
      <4> QED
        BY <4>2, <4>3
    <3> QED
      BY <1>8, <3>1, <3>2, <3>3
  <2>5. Asked(c, answer)'
    BY <1>3, <2>2, <2>4 DEF Asked
  <2>6. Exchange(k)'
    <3>1. /\ k = 5 => Asked("READ_CONFIG", << >>)'
          /\ k = 9 => Asked("SELF_TEST", <<SELF_TEST_OK>>)'
          /\ k = 13 => Asked("TEST_FIRST", <<{}>>)'
      <4>1. CASE k = 5
        BY <2>1, <2>5, <4>1
      <4>2. CASE k = 9
        BY <2>1, <2>5, <4>2
      <4>3. CASE k = 13
        BY <2>1, <2>5, <4>3
      <4> QED
        BY <4>1, <4>2, <4>3
    <3> QED
      BY <1>6, <1>8, <3>1 DEF Exchange, SettingUp
  <2> QED
    BY <1>5, <2>6
<1> QED
  BY <1>7, <1>8

LEMMA ExchangeTakesConfig ==
  ASSUME Base, outcome # "stopped", Exchange(at), TakesConfig
  PROVE  Exchange(at)'
<1>1. PICK k \in 1 .. 23 : k = at /\ Arrived(k)
  BY Here DEF Arrived
<1>2. PICK x : x = inbuf[1]
  OBVIOUS
<1>3. /\ inbuf # << >> /\ x.do # "command" /\ inbuf' = << >> /\ expecting
      /\ UNCHANGED <<todo, reply, outbuf, pending, scanning, device, refusals>>
  BY <1>2 DEF TakesConfig, Written, IsCommand, driver, hardware, history
<1>4. k <= 17 /\ (k = 17 => x.do = "write_config")
  BY <1>1, <1>2, <1>3 DEF Arrived, Input, Entered
<1>5. Exchange(k) /\ at' = k
  BY <1>1, <1>3 DEF at
<1>6. NotAsked' /\ (Quiet' <=> Quiet) /\ (IsKeyboard' \/ ~scanning')
  BY <1>3, <1>5 DEF NotAsked, Quiet, Exchange, SettingUp, Trying, IsKeyboard
<1>7. k \notin {5, 9, 13}
  <2> SUFFICES ASSUME k \in {5, 9, 13} PROVE FALSE
    OBVIOUS
  <2>1. PICK c, answer : Asked(c, answer)
    BY <1>5 DEF Exchange, SettingUp, Trying
  <2>2. x = Command(c)
    BY <1>2, <1>3, <2>1 DEF Asked
  <2> QED
    BY <1>3, <2>2 DEF Command
<1>8. CASE k < 17
  <2>1. Exchange(k)'
    BY <1>3, <1>5, <1>6, <1>7, <1>8 DEF Exchange, SettingUp, Trying
  <2> QED
    BY <1>5, <2>1
<1>9. CASE k = 17
  <2>1. Exchange(17) /\ Place(17)
    BY <1>1, <1>5, <1>9 DEF Arrived
  <2>2. PICK h : h = Head(todo)
    OBVIOUS
  <2>3. h.do \in {"send", "answer"}
    BY <2>1, <2>2, Asks
  <2>4. h.do # "answer"
    <3> SUFFICES ASSUME h.do = "answer" PROVE FALSE
      OBVIOUS
    <3>1. Answering(h.c, h.i)
      BY <2>1, <2>2 DEF Exchange, SettingUp, Trying
    <3>2. x = Send(h.c, h.i)
      BY <1>2, <1>3, <3>1 DEF Answering, Arriving
    <3> QED
      BY <1>4, <1>9, <3>2 DEF Send
  <2>5. h.do = "send" /\ Quiet /\ h.i <= refusals /\ reply = << >>
    BY <2>1, <2>2, <2>3, <2>4 DEF Exchange, SettingUp, Trying
  <2>6. Head(todo') = h
    BY <1>3, <2>2
  <2>7. Exchange(17)'
    BY <1>3, <1>6, <2>5, <2>6 DEF Exchange, SettingUp, Trying
  <2> QED
    BY <1>5, <1>9, <2>7
<1> QED
  BY <1>4, <1>8, <1>9

LEMMA ExchangeReplies ==
  ASSUME Base, outcome # "stopped", Exchange(at), Replies
  PROVE  Exchange(at)'
<1>1. PICK k \in 1 .. 23 : k = at /\ Arrived(k)
  BY Here DEF Arrived
<1>2. /\ outbuf = << >> /\ reply # << >> /\ outbuf' = reply /\ reply' = << >>
      /\ UNCHANGED <<todo, inbuf, pending, scanning, device, faulty>>
  BY DEF Replies, driver, hardware, history
<1>3. Exchange(k) /\ at' = k
  BY <1>1, <1>2 DEF at
<1>4. k \in {5, 9, 13}
  <2>1. ~(k <= 3) /\ ~(k >= 17)
    BY <1>2, <1>3 DEF Exchange, SettingUp
  <2>2. k \notin {4, 6, 7, 8, 10, 11, 12, 14, 15, 16}
    BY <1>2, <1>3 DEF Exchange, SettingUp, Quiet
  <2> QED
    BY <2>1, <2>2
<1>5. IsKeyboard' \/ ~scanning'
  BY <1>2, <1>3 DEF Exchange, SettingUp, IsKeyboard
<1>6. \A c, answer : Asked(c, answer) => Asked(c, answer)'
  <2> SUFFICES ASSUME NEW c, NEW answer, Asked(c, answer) PROVE Asked(c, answer)'
    OBVIOUS
  <2>1. PICK b : reply = <<b>> /\ inbuf = << >> /\ (answer # << >> /\ ~faulty => b = answer[1])
    BY <1>2 DEF Asked
  <2>2. outbuf' = <<b>> /\ pending' = << >>
    BY <1>2, <2>1 DEF Asked
  <2> QED
    BY <1>2, <2>1, <2>2 DEF Asked
<1>7. Exchange(k)'
  BY <1>3, <1>4, <1>5, <1>6 DEF Exchange, SettingUp
<1> QED
  BY <1>3, <1>7

LEMMA ExchangeDeviceSends ==
  ASSUME Base, outcome # "stopped", Exchange(at), DeviceSends
  PROVE  Exchange(at)'
<1>1. PICK k \in 1 .. 23 : k = at /\ Arrived(k)
  BY Here DEF Arrived
<1>2. /\ outbuf = << >> /\ reply = << >> /\ pending # << >>
      /\ outbuf' = <<Head(pending)>> /\ pending' = Tail(pending)
      /\ UNCHANGED <<todo, inbuf, reply, config, scanning, device, reopens, refusals, faulty>>
  BY DEF DeviceSends, driver, controller, hardware, history
<1>3. Exchange(k) /\ at' = k
  BY <1>1, <1>2 DEF at
<1>4. ~Quiet /\ \A c, answer : ~Asked(c, answer)
  BY <1>2 DEF Quiet, Asked
<1>5. k >= 17 /\ k # 23
  <2>1. ~(k <= 3)
    BY <1>2, <1>3 DEF Exchange, SettingUp
  <2>2. k \notin {4, 6, 7, 8, 10, 11, 12, 14, 15, 16} /\ k # 23
    BY <1>3, <1>4 DEF Exchange, SettingUp
  <2>3. k \notin {5, 9, 13}
    BY <1>3, <1>4 DEF Exchange, SettingUp
  <2> QED
    BY <2>1, <2>2, <2>3
<1>6. Pipe' = Pipe
  <2>1. pending \in Seq(Sent)
    BY <1>1 DEF Arrived, Output
  <2> QED
    BY <1>2, <2>1, Shifts
<1>7. \A bytes : Arriving(bytes)' <=> Arriving(bytes)
  BY <1>2, <1>6 DEF Arriving
<1>8. IsKeyboard' <=> IsKeyboard
  BY <1>2 DEF IsKeyboard
<1>9. Identity' = Identity
  BY <1>2 DEF Identity
<1>10. CASE k \in {17, 18, 20, 22}
  <2>1. PICK h : h = Head(todo) /\ Head(todo') = h
    BY <1>2
  <2>2. h.do = "answer" /\ h.i <= refusals /\ Answering(h.c, h.i)
    <3>1. h.do \in {"send", "answer"}
      BY <1>1, <1>10, <2>1, Asks DEF Arrived
    <3>2. h.do = "send" => Quiet
      BY <1>3, <1>10, <2>1 DEF Exchange, SettingUp, Trying, Identifying
    <3>3. h.do = "answer" => Answering(h.c, h.i)
      BY <1>3, <1>10, <2>1 DEF Exchange, SettingUp, Trying, Identifying
    <3>4. h.i <= refusals
      BY <1>3, <1>10, <2>1 DEF Exchange, SettingUp, Trying, Identifying
    <3> QED
      BY <1>4, <3>1, <3>2, <3>3, <3>4
  <2>3. Answering(h.c, h.i)'
    <3>1. \A bytes : More(h.c, bytes)' <=> More(h.c, bytes)
      BY <1>2, <1>9 DEF More
    <3> QED
      BY <1>2, <1>4, <1>7, <2>2, <3>1 DEF Answering
  <2>4. reply' = << >> /\ (IsKeyboard' \/ ~scanning') /\ (k >= 20 => IsKeyboard')
    BY <1>2, <1>3, <1>5, <1>8 DEF Exchange, SettingUp, Trying, Identifying
  <2>5. h.i <= refusals'
    BY <1>2, <2>2
  <2>6. Exchange(k)'
    BY <1>10, <2>1, <2>2, <2>3, <2>4, <2>5 DEF Exchange, SettingUp, Trying, Identifying
  <2> QED
    BY <1>3, <2>6
<1>11. CASE k \in {19, 21}
  <2>1. Exchange(k)'
    BY <1>2, <1>3, <1>7, <1>8, <1>9, <1>11 DEF Exchange, SettingUp, Trying, Identifying
  <2> QED
    BY <1>3, <2>1
<1> QED
  BY <1>5, <1>10, <1>11

LEMMA ExchangePasses ==
  ASSUME Base, outcome # "stopped", Exchange(at), refusals \in Nat,
         DeviceIgnores \/ DeviceRefuses \/ DeviceObeys
  PROVE  Exchange(at)'
<1>1. PICK k \in 1 .. 23 : k = at /\ Arrived(k)
  BY Here DEF Arrived
<1>2. PICK x : x = inbuf[1]
  OBVIOUS
<1>3. /\ inbuf # << >> /\ x.do # "command" /\ inbuf' = << >> /\ ~expecting
      /\ config' = IF reopens THEN config \ {PORT1_OFF} ELSE config
      /\ UNCHANGED <<todo, reply, outbuf, device, reopens>>
      /\ refusals' >= refusals /\ refusals' \in Nat
  <2>1. Passes
    BY DEF DeviceIgnores, DeviceRefuses, DeviceObeys
  <2>2. refusals' = refusals \/ refusals' = refusals + 1
    BY DEF DeviceIgnores, DeviceRefuses, DeviceObeys
  <2>3. refusals' >= refusals /\ refusals' \in Nat
    BY <2>2
  <2> QED
    BY <1>2, <2>1, <2>3 DEF Passes, Written, IsCommand, driver, hardware
<1>4. x.do = "send" /\ k >= 17 /\ Place(k)
  BY <1>1, <1>2, <1>3 DEF Arrived, Input, Entered
<1>5. Exchange(k) /\ at' = k
  BY <1>1, <1>3 DEF at
<1>6. k \in {17, 18, 20, 22}
  <2>1. k # 19
    BY <1>3, <1>5 DEF Exchange, Trying, Identifying, Arriving
  <2>2. k # 21
    BY <1>3, <1>5 DEF Exchange, Trying, Identifying, Arriving
  <2>3. k # 23
    BY <1>3, <1>5 DEF Exchange, Trying, Identifying
  <2> QED
    BY <1>4, <2>1, <2>2, <2>3
<1>7. PICK h : h = Head(todo) /\ Head(todo') = h
  BY <1>3
<1>8. h.do \in {"send", "answer"} /\ h.c = Plan[k].c /\ h.i \in Nat
  BY <1>4, <1>6, <1>7, Asks
<1>9. h.do = "answer"
  <2>1. h.do = "send" => inbuf[1].do = "write_config"
    BY <1>3, <1>5, <1>6, <1>7 DEF Exchange, Trying, Identifying
  <2> QED
    BY <1>2, <1>4, <1>8, <2>1
<1>10. /\ Answering(h.c, h.i) /\ h.i <= refusals /\ reply = << >>
       /\ (k >= 20 => IsKeyboard) /\ (IsKeyboard \/ ~scanning)
  <2>1. Answering(h.c, h.i)
    BY <1>5, <1>6, <1>7, <1>9 DEF Exchange, Trying, Identifying
  <2>2. h.i <= refusals
    BY <1>5, <1>6, <1>7 DEF Exchange, Trying, Identifying
  <2> QED
    BY <1>4, <1>5, <2>1, <2>2 DEF Exchange, Trying, Identifying
<1>11. x = Send(h.c, h.i) /\ Quiet
  BY <1>2, <1>3, <1>10 DEF Answering, Arriving
<1>12. x.c = h.c /\ pending = << >> /\ outbuf = << >>
  BY <1>11 DEF Send, Quiet
<1>13. SUFFICES Answering(h.c, h.i)' /\ (IsKeyboard' \/ ~scanning')
  <2>1. ASSUME Answering(h.c, h.i)', IsKeyboard' \/ ~scanning' PROVE Exchange(k)'
    <3>1. k >= 20 => IsKeyboard'
      BY <1>3, <1>10 DEF IsKeyboard
    <3>2. h.i <= refusals' /\ reply' = << >>
      BY <1>3, <1>8, <1>10
    <3> QED
      BY <1>6, <1>7, <1>9, <2>1, <3>1, <3>2 DEF Exchange, Trying, Identifying
  <2> QED
    BY <1>5, <2>1
<1>14. ASSUME Reaches, NEW bytes, pending' = bytes
       PROVE  Arriving(bytes)'
  <2>1. device' # "NONE" /\ PORT1_OFF \notin config'
    BY <1>3, <1>14 DEF Reaches
  <2>2. Pipe' = bytes
    <3>1. outbuf' = << >> /\ pending' \in Seq(Sent)
      <4>1. Base'
        BY BasePasses
      <4>2. outcome' # "stopped"
        BY DEF DeviceIgnores, DeviceRefuses, DeviceObeys, Passes, driver
      <4> QED
        BY <1>3, <1>12, <4>1, <4>2 DEF Base, Output
    <3> QED
      BY <1>14, <3>1, ConcatEmptySeq DEF Pipe
  <2> QED
    BY <1>3, <2>1, <2>2 DEF Arriving
<1>15. CASE DeviceIgnores
  <2>1. Quiet' /\ UNCHANGED scanning
    BY <1>3, <1>10, <1>12, <1>15 DEF DeviceIgnores, Quiet
  <2>2. ~(reopens /\ device # "NONE")
    BY <1>15 DEF DeviceIgnores, Reaches
  <2>3. IsKeyboard' \/ ~scanning'
    BY <1>3, <1>10, <2>1 DEF IsKeyboard
  <2> QED
    BY <1>3, <2>1, <2>2, <2>3 DEF Answering
<1>16. CASE DeviceRefuses
  <2>1. pending' = <<RESEND>> /\ Reaches /\ refusals' = refusals + 1 /\ UNCHANGED scanning
    BY <1>12, <1>16 DEF DeviceRefuses, Answers
  <2>2. Arriving(<<RESEND>>)'
    BY <1>14, <2>1
  <2>3. h.i < refusals'
    BY <1>8, <1>10, <2>1
  <2>4. IsKeyboard' \/ ~scanning'
    BY <1>3, <1>10, <2>1 DEF IsKeyboard
  <2> QED
    BY <2>2, <2>3, <2>4 DEF Answering
<1>17. CASE DeviceObeys
  <2>1. Reaches
    BY <1>17 DEF DeviceObeys
  <2>2. h.c \in {"DISABLE_SCANNING", "IDENTIFY", "RESET", "ENABLE_SCANNING"}
        /\ (h.c \in {"RESET", "ENABLE_SCANNING"} => IsKeyboard)
    <3>1. /\ k = 17 => h.c = "DISABLE_SCANNING"
          /\ k = 18 => h.c = "IDENTIFY"
          /\ k = 20 => h.c = "RESET"
          /\ k = 22 => h.c = "ENABLE_SCANNING"
      BY <1>8, PlanFields
    <3> QED
      BY <1>6, <1>10, <3>1
  <2>3. IsKeyboard' \/ ~scanning'
    <3>1. scanning' = CASE h.c = "DISABLE_SCANNING" -> FALSE
                         [] h.c = "ENABLE_SCANNING" -> TRUE
                         [] h.c = "RESET" -> IsKeyboard
                         [] OTHER -> scanning
      BY <1>2, <1>12, <1>17 DEF DeviceObeys
    <3>2. IsKeyboard' <=> IsKeyboard
      BY <1>3 DEF IsKeyboard
    <3>3. CASE h.c = "DISABLE_SCANNING"
      BY <3>1, <3>3
    <3>4. CASE h.c = "ENABLE_SCANNING"
      BY <2>2, <3>2, <3>4
    <3>5. CASE h.c = "RESET"
      BY <2>2, <3>2, <3>5
    <3>6. CASE h.c = "IDENTIFY"
      <4>1. scanning' = scanning
        BY <3>1, <3>6
      <4> QED
        BY <1>10, <3>2, <4>1
    <3> QED
      BY <2>2, <3>3, <3>4, <3>5, <3>6
  <2>4. PICK bytes \in Seq(Sent) : More(h.c, bytes)' /\ pending' = <<ACK>> \o bytes
    <3>1. PICK ack, ok, fail : ack = ACK /\ ok = DEVICE_OK /\ fail = FAILURE
      OBVIOUS
    <3>2. ack \in Sent /\ ok \in Sent /\ fail \in Sent
      BY <3>1 DEF Sent
    <3>3. <<ack>> \in Seq(Sent) /\ <<ok>> \in Seq(Sent) /\ <<fail>> \in Seq(Sent)
          /\ << >> \in Seq(Sent)
      BY <3>2
    <3>4. CASE h.c = "IDENTIFY"
      <4>1. pending' = <<ACK>> \o Identity /\ Identity' = Identity
        BY <1>2, <1>3, <1>12, <1>17, <3>4 DEF DeviceObeys, Answers, Identity
      <4>2. Identity \in Seq(Sent)
        <5>1. Identity \in Seq(Sent \ {DEVICE_OK})
          BY Words
        <5> QED
          BY <5>1, SeqMonotonic
      <4> QED
        BY <3>4, <4>1, <4>2 DEF More
    <3>5. CASE h.c = "RESET"
      <4>1. device # "MOUSE"
        BY <2>2, <3>5 DEF IsKeyboard
      <4>2. \/ pending' = <<ack, ok>> \o << >>
            \/ pending' = <<ack, fail>> /\ faulty'
        BY <1>2, <1>12, <1>17, <3>1, <3>5, <4>1 DEF DeviceObeys, Answers
      <4>3. <<ack, ok>> \o << >> = <<ack>> \o <<ok>> /\ <<ack, fail>> = <<ack>> \o <<fail>>
        <5>1. <<ack, ok>> \in Seq(Sent)
          BY <3>2
        <5>2. <<ack, ok>> \o << >> = <<ack, ok>>
          BY <5>1, ConcatEmptySeq
        <5>3. <<ack>> \o <<ok>> = <<ack, ok>> /\ <<ack>> \o <<fail>> = <<ack, fail>>
          BY <3>2, Pair
        <5> QED
          BY <5>2, <5>3
      <4>4. CASE pending' = <<ack, ok>> \o << >>
        <5>1. More(h.c, <<ok>>)'
          BY <3>1, <3>5 DEF More
        <5> QED
          BY <3>1, <3>3, <4>3, <4>4, <5>1
      <4>5. CASE pending' = <<ack, fail>> /\ faulty'
        <5>1. More(h.c, <<fail>>)'
          BY <3>1, <3>5, <4>5 DEF More
        <5> QED
          BY <3>1, <3>3, <4>3, <4>5, <5>1
      <4> QED
        BY <4>2, <4>4, <4>5
    <3>6. CASE h.c \in {"DISABLE_SCANNING", "ENABLE_SCANNING"}
      <4>1. pending' = <<ack>>
        BY <1>2, <1>12, <1>17, <3>1, <3>6 DEF DeviceObeys, Answers
      <4>2. <<ack>> \o << >> = <<ack>>
        BY <3>3, ConcatEmptySeq
      <4>3. More(h.c, << >>)'
        BY <3>6 DEF More
      <4> QED
        BY <3>1, <3>3, <4>1, <4>2, <4>3
    <3> QED
      BY <2>2, <3>4, <3>5, <3>6
  <2>5. Arriving(<<ACK>> \o bytes)'
    BY <1>14, <2>1, <2>4
  <2> QED
    BY <2>3, <2>4, <2>5 DEF Answering
<1> QED
  BY <1>15, <1>16, <1>17

\* Only a device that reports keys can be touched, and that is a keyboard.
LEMMA ExchangeTouches ==
  ASSUME Exchange(at), touches \in Nat, UserTouches
  PROVE  ~Calm'
<1>1. scanning /\ touches' = touches + 1 /\ UNCHANGED device
  BY DEF UserTouches, hardware
<1>2. IsKeyboard
  BY <1>1 DEF Exchange
<1>3. IsKeyboard' /\ touches' # 0
  BY <1>1, <1>2 DEF IsKeyboard
<1> QED
  BY <1>3 DEF Calm

-----------------------------------------------------------------------------
(* The invariant.                                                          *)

LEMMA PS2Init == Init => IInv
<1> SUFFICES ASSUME Init PROVE IInv
  OBVIOUS
<1>1. todo = Plan /\ Plan = <<Plan[1]>> \o Rest(2)
  <2>1. 1 \in 1 .. 22 /\ 1 + 1 = 2
    OBVIOUS
  <2>2. Rest(1) = <<Plan[1]>> \o Rest(2)
    BY <2>1, RestSteps
  <2> QED
    BY <2>2, RestSteps DEF Init, Plan
<1>2. at = 1
  BY <1>1, PlanSteps DEF at
<1>3. Place(1)
  <2>1. 1 \in 1 .. 22 /\ 1 # 23 /\ 1 + 1 = 2
    OBVIOUS
  <2>2. Plan[1] \in Forms(1)
    BY <2>1, PlanForms
  <2> QED
    BY <1>1, <2>1, <2>2 DEF Place
<1>4. Input(1)
  BY DEF Init, Input, AtMostOne
<1>5. outbuf = << >> \/ outbuf = <<{2, 3, 4}>> \/ outbuf = <<4 .. 7>>
  <2>1. PICK u1, u2 : u1 = {2, 3, 4} /\ u2 = 4 .. 7
    OBVIOUS
  <2>2. Codes = {<<u1>>, <<u2, u1>>}
    BY <2>1 DEF Codes
  <2>3. SubSeq(<<u1>>, 1, 1) = <<u1>> /\ SubSeq(<<u2, u1>>, 1, 1) = <<u2>>
    <3>1. ASSUME NEW S, NEW p \in Seq(S), p # << >>
          PROVE  SubSeq(p, 1, 1) = <<p[1]>>
      <4>1. Len(p) \in Nat /\ Len(p) >= 1
        BY <3>1, EmptySeq, LenProperties
      <4>2. 1 \in 1 .. Len(p) /\ p[1] \in S /\ 1 \in 1 .. Len(p)
        BY <4>1, ElementOfSeq
      <4>3. SubSeq(p, 1, 1) = <<p[1]>> \o SubSeq(p, 1 + 1, 1)
        BY <4>2, SubSeqRecursiveFirst
      <4>4. SubSeq(p, 1 + 1, 1) = << >>
        BY SubSeqEmpty
      <4>5. <<p[1]>> \in Seq(S)
        BY <4>2
      <4> QED
        BY <4>3, <4>4, <4>5, ConcatEmptySeq
    <3>2. PICK S : S = {u1, u2}
      OBVIOUS
    <3>3. u1 \in S /\ u2 \in S
      BY <3>2
    <3>4. PICK p, q : p = <<u1>> /\ q = <<u2, u1>>
      OBVIOUS
    <3>5. p \in Seq(S) /\ p # << >> /\ p[1] = u1
      BY <3>3, <3>4
    <3>6. q \in Seq(S) /\ q # << >> /\ q[1] = u2
      BY <3>3, <3>4
    <3> QED
      BY <3>1, <3>4, <3>5, <3>6
  <2>4. outbuf = << >> \/ \E c \in Codes : outbuf = SubSeq(c, 1, 1)
    BY DEF Init
  <2> QED
    BY <2>1, <2>2, <2>3, <2>4
<1>6. Output(1)
  <2>1. outbuf # <<SELF_TEST_OK>>
    <3>1. {2, 3, 4} \in Sent /\ 4 .. 7 \in Sent
      BY DEF Sent
    <3>2. PICK u1, u2, t : u1 = {2, 3, 4} /\ u2 = 4 .. 7 /\ t = SELF_TEST_OK
      OBVIOUS
    <3>3. u1 # t /\ u2 # t
      BY <3>1, <3>2, Bytes
    <3>4. outbuf = << >> \/ outbuf = <<u1>> \/ outbuf = <<u2>>
      BY <1>5, <3>2
    <3> QED
      BY <3>2, <3>3, <3>4
  <2>2. AtMostOne(outbuf) /\ AtMostOne(reply)
    BY <1>5 DEF AtMostOne, Init
  <2>3. << >> \in Seq(Sent) /\ << >> \in Seq(Sent \ {DEVICE_OK})
    OBVIOUS
  <2> QED
    BY <2>1, <2>2, <2>3 DEF Init, Output
<1>7. Base
  BY <1>2, <1>3, <1>4, <1>6 DEF Init, Base
<1>8. Exchange(1)
  BY DEF Init, Exchange, SettingUp, NotAsked
<1>9. refusals \in Nat /\ touches \in Nat /\ device \in Devices /\ outcome = "busy"
  BY DEF Init
<1> QED
  BY <1>2, <1>7, <1>8, <1>9 DEF IInv

LEMMA PS2Step == IInv /\ [Next]_vars => IInv'
<1> SUFFICES ASSUME IInv, [Next]_vars PROVE IInv'
  OBVIOUS
<1>1. /\ refusals \in Nat /\ touches \in Nat /\ device \in Devices /\ Base
  BY DEF IInv
<1>2. /\ refusals' \in Nat /\ touches' \in Nat
      /\ UNCHANGED <<device, timely, reopens>>
      /\ refusals' >= refusals /\ touches' >= touches /\ (faulty => faulty')
  <2>1. CASE Driver
    BY <1>1, <2>1 DEF Driver, port_write_command, flush, send_to_device, get_response,
                      enable_interrupts, hardware, history
  <2>2. CASE Obeys
    <3>1. UNCHANGED <<refusals, touches, device, timely, reopens>>
      BY <2>2 DEF Obeys, hardware
    <3>2. faulty => faulty'
      BY <2>2 DEF Obeys
    <3> QED
      BY <1>1, <3>1, <3>2
  <2>3. CASE TakesConfig \/ Replies \/ DeviceSends
    BY <1>1, <2>3 DEF TakesConfig, Replies, DeviceSends, hardware, history
  <2>4. CASE DeviceIgnores \/ DeviceRefuses \/ DeviceObeys
    <3>1. UNCHANGED <<touches, device, timely, reopens>>
      BY <2>4 DEF DeviceIgnores, DeviceRefuses, DeviceObeys, Passes, hardware
    <3>2. refusals' = refusals \/ refusals' = refusals + 1
      BY <2>4 DEF DeviceIgnores, DeviceRefuses, DeviceObeys
    <3>3. faulty => faulty'
      BY <2>4 DEF DeviceIgnores, DeviceRefuses, DeviceObeys
    <3> QED
      BY <1>1, <3>1, <3>2, <3>3
  <2>5. CASE UserTouches
    BY <1>1, <2>5 DEF UserTouches, hardware
  <2>6. CASE UNCHANGED vars
    BY <1>1, <2>6 DEF vars, hardware, history
  <2> QED
    BY <2>1, <2>2, <2>3, <2>4, <2>5, <2>6 DEF Next, Hardware
<1>3. Calm' => Calm
  BY <1>1, <1>2 DEF Calm, IsKeyboard
<1>4. Fine' => Fine
  BY <1>1, <1>2, <1>3, PS2Assumption DEF Fine, IsKeyboard
<1>5. CASE outcome = "stopped"
  <2>1. outcome' = "stopped"
    BY <1>5 DEF Next, Driver, Hardware, UserTouches, port_write_command, flush, send_to_device,
                get_response, enable_interrupts, Obeys, TakesConfig, Replies, DeviceSends,
                DeviceIgnores, DeviceRefuses, DeviceObeys, Passes, Doing, driver, vars
  <2>2. Base'
    BY <2>1 DEF Base
  <2> QED
    BY <1>1, <1>2, <1>4, <1>5, <2>1, <2>2 DEF IInv
<1>6. CASE outcome # "stopped"
  <2>1. outcome' # "stopped" => Base'
    BY <1>1, <1>6, BaseStep
  <2>2. Base'
    BY <2>1 DEF Base
  <2>3. ASSUME Calm'
        PROVE  (outcome' # "stopped" => Exchange(at)') /\ (Fine' => outcome' # "stopped")
    <3>1. timely /\ Exchange(at) /\ Calm
      BY <1>3, <1>6, <2>3 DEF IInv, Calm
    <3>2. CASE port_write_command
      <4>1. Exchange(at)'
        BY <1>1, <3>1, <3>2, ExchangeCommand
      <4>2. outcome' # "stopped"
        BY <1>6, <3>2 DEF port_write_command, Continues
      <4> QED
        BY <4>1, <4>2
    <3>3. CASE flush
      <4>1. Exchange(at)'
        BY <1>1, <3>1, <3>3, ExchangeFlush
      <4>2. outcome' # "stopped"
        BY <1>6, <3>3 DEF flush, Continues
      <4> QED
        BY <4>1, <4>2
    <3>4. CASE send_to_device
      BY <1>1, <3>1, <3>4, ExchangeSend
    <3>5. CASE get_response
      <4>1. InTime
        BY <1>1, <3>1, <3>5, ExchangeResponse
      <4>2. Fine' => Sure
        BY <1>4 DEF Fine, Sure
      <4> QED
        BY <4>1, <4>2 DEF InTime
    <3>6. CASE enable_interrupts
      <4>1. PICK k : k = at /\ Exchange(k)
        BY <3>1
      <4>2. Exchange(k)'
        BY <3>6, <4>1, ExchangeSame DEF enable_interrupts, controller
      <4>3. at' = k /\ outcome' # "stopped"
        BY <3>6, <4>1 DEF enable_interrupts, at
      <4> QED
        BY <4>2, <4>3
    <3>7. CASE Obeys
      <4>1. Exchange(at)'
        BY <1>1, <1>6, <3>1, <3>7, ExchangeObeys
      <4> QED
        BY <1>6, <3>7, <4>1 DEF Obeys, driver
    <3>8. CASE TakesConfig
      <4>1. Exchange(at)'
        BY <1>1, <1>6, <3>1, <3>8, ExchangeTakesConfig
      <4> QED
        BY <1>6, <3>8, <4>1 DEF TakesConfig, driver
    <3>9. CASE Replies
      <4>1. Exchange(at)'
        BY <1>1, <1>6, <3>1, <3>9, ExchangeReplies
      <4> QED
        BY <1>6, <3>9, <4>1 DEF Replies, driver
    <3>10. CASE DeviceSends
      <4>1. Exchange(at)'
        BY <1>1, <1>6, <3>1, <3>10, ExchangeDeviceSends
      <4> QED
        BY <1>6, <3>10, <4>1 DEF DeviceSends, driver
    <3>11. CASE DeviceIgnores \/ DeviceRefuses \/ DeviceObeys
      <4>1. Exchange(at)'
        BY <1>1, <1>6, <3>1, <3>11, ExchangePasses
      <4> QED
        BY <1>6, <3>11, <4>1 DEF DeviceIgnores, DeviceRefuses, DeviceObeys, Passes, driver
    <3>12. CASE UserTouches
      BY <1>1, <2>3, <3>1, <3>12, ExchangeTouches
    <3>13. CASE UNCHANGED vars
      <4>1. PICK k : k = at /\ Exchange(k)
        BY <3>1
      <4>2. Exchange(k)'
        BY <3>13, <4>1, ExchangeSame DEF vars, driver, controller
      <4>3. at' = k /\ outcome' # "stopped"
        BY <1>6, <3>13, <4>1 DEF vars, driver, at
      <4> QED
        BY <4>2, <4>3
    <3> QED
      BY <3>2, <3>3, <3>4, <3>5, <3>6, <3>7, <3>8, <3>9, <3>10, <3>11, <3>12, <3>13
         DEF Next, Driver, Hardware
  <2>4. Fine' => Calm'
    BY DEF Fine
  <2> QED
    BY <1>1, <1>2, <2>2, <2>3, <2>4 DEF IInv
<1> QED
  BY <1>5, <1>6

LEMMA PS2Invariance == Spec => []IInv
<1> QED
  BY PS2Init, PS2Step, PTL DEF Spec

-----------------------------------------------------------------------------
\* Whatever the hardware does and whenever it does it: once interrupts are
\* enabled the interrupt, the port and the keyboard are on, untranslated.
THEOREM ReadyIsUsable == Spec => []UsableWhenReady
<1>1. IInv => UsableWhenReady
  <2> SUFFICES ASSUME IInv, outcome = "ready"
               PROVE  /\ IRQ1 \in config /\ {PORT1_OFF, TRANSLATION} \cap config = {}
                      /\ IsKeyboard => scanning
    BY DEF UsableWhenReady
  <2>1. at = 23 /\ Input(23) /\ Output(23)
    BY DEF IInv, Base
  <2>2. Up(23)
    BY <2>1 DEF Output
  <2>3. Good(config)
    <3>1. ~(inbuf # << >> /\ inbuf[1].do = "write_config")
      BY <2>1 DEF Input, Entered
    <3> QED
      BY <2>1, <3>1 DEF Input
  <2> QED
    BY <2>2, <2>3 DEF Up, Good
<1> QED
  BY <1>1, PS2Invariance, PTL

\* Hardware in time: what is ready is a keyboard.
THEOREM OnlyKeyboardsGetReady == Spec => []OnlyKeyboards
<1>1. IInv => OnlyKeyboards
  <2> SUFFICES ASSUME IInv, timely, outcome = "ready", ~IsKeyboard PROVE FALSE
    BY DEF OnlyKeyboards
  <2>1. at = 23 /\ Exchange(at)
    BY DEF IInv, Base, Calm
  <2> QED
    BY <2>1 DEF Exchange
<1> QED
  BY <1>1, PS2Invariance, PTL

\* Hardware in time, a controller that opens the port, and fewer refusals than
\* attempts: a keyboard that nobody touches gets ready, and no answer is left over.
THEOREM KeyboardsGetReady == Spec => []InTimeSucceeds
<1>1. IInv => InTimeSucceeds
  <2> SUFFICES ASSUME IInv, timely /\ reopens /\ IsKeyboard, touches = 0,
                      refusals < COMMAND_RETRY_COUNT, ~faulty
               PROVE  /\ outcome # "stopped"
                      /\ outcome = "ready" => outbuf = << >> /\ pending = << >>
    BY DEF InTimeSucceeds
  <2>1. Calm /\ outcome # "stopped"
    BY DEF IInv, Fine, Calm
  <2>2. outcome = "ready" => Exchange(23)
    BY <2>1 DEF IInv, Base
  <2> QED
    BY <2>1, <2>2 DEF Exchange, Quiet
<1> QED
  BY <1>1, PS2Invariance, PTL

=============================================================================
