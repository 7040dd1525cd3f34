----------------------------- MODULE Bootloader -----------------------------
(***************************************************************************)
(* From the boot sector to the kernel's heap: both stages and the ELF      *)
(* loader of src/src/bootloader/bootloader.asm, which use the disk reader  *)
(* (BootDisk) and the memory map (MemoryMap), up to                        *)
(* MemoryManager::initialize of the kernel that was loaded.                *)
(*                                                                         *)
(* The kernel is an ELF file whose headers are in its first sector; sizes  *)
(* and addresses of its segments are in sectors.                           *)
(***************************************************************************)
EXTENDS BootDisk, MemoryMap

CONSTANT Kernels  \* files: [sectors |-> , segments |-> sequence of program headers]

ASSUME KernelsAssumption ==
  \A k \in Kernels :
    /\ k.sectors \in 1 .. MaxSectors
    /\ k.segments \in Seq([type : STRING, offset : Nat, vaddr : Nat,
                           filesz : Nat, memsz : Nat])
    /\ \A i \in DOMAIN k.segments :
         LET s == k.segments[i]
         IN s.offset + s.filesz <= k.sectors /\ s.filesz <= s.memsz

\* The linker puts no two loaded segments in the same place.
ASSUME DisjointAssumption ==
  \A k \in Kernels : \A i, j \in DOMAIN k.segments :
    LET s == k.segments[i]
        t == k.segments[j]
    IN i < j /\ s.type = "LOAD" /\ t.type = "LOAD" =>
         s.vaddr + s.memsz <= t.vaddr \/ t.vaddr + t.memsz <= s.vaddr

VARIABLES phase,   \* how far the system has come
          kernel,  \* the kernel on the disk
          index,   \* program headers loaded so far
          image,   \* memory from 1 MiB on, where written
          polls,   \* polls of the keyboard controller that have ended
          answers  \* does the keyboard controller end every poll at last?

a20 == <<polls, answers>>
bootVars == <<phase, kernel, index, image, a20, disk, memoryMap>>

PT_LOAD == "LOAD"

\* "stopped" is a hlt, "astray" a jump to what is no code.
Final == {"running", "stopped", "astray", "no_heap"}

BootInit == /\ phase = "reset"
            /\ kernel \in Kernels
            /\ index = 0 /\ image = << >>
            /\ polls = 0 /\ answers \in BOOLEAN
            /\ DiskInit /\ MapInit

Goes(to) == phase' = to /\ UNCHANGED <<kernel, index, image, a20>>

stage0_start ==
  /\ phase = "reset"
  /\ \E to \in {"boot1_header", "stopped"} : Goes(to)
  /\ UNCHANGED <<disk, memoryMap>>

-----------------------------------------------------------------------------
(* A sector was read, or given up: what the code does next.                *)

AfterHeader(memory, header, sectors, file, behind) ==
  \E n \in SizesIn(memory'[0], header, sectors) :
    /\ Goes(IF n = 0 THEN behind ELSE file)
    /\ es' = 0
    /\ IF file = "boot1" THEN left' = n /\ rest' = 0 /\ bx' = 0
                         ELSE read_sectors(n)

AfterSector ==
  CASE phase = "boot1_header" ->
         AfterHeader(stage1, BOOT1_HEADER, BOOT1_SECTORS, "boot1", "jump")
    [] phase = "kernel_header" ->
         AfterHeader(buffer, KERNEL_HEADER, kernel.sectors, "kernel", "a20")
    [] phase = "boot1" ->
         IF MoreSectors THEN NextSector /\ Goes("boot1")
         ELSE Goes("jump") /\ UNCHANGED <<es, bx, left, rest>>
    [] phase = "kernel" ->
         IF MoreSectors THEN NextSector /\ Goes("kernel")
         ELSE IF rest > 0 THEN NextSegment /\ Goes("kernel")
         ELSE Goes("a20") /\ UNCHANGED <<es, bx, left, rest>>

Reading == phase \in {"boot1_header", "boot1", "kernel_header", "kernel"}

read_sector ==
  /\ Reading
  /\ IF phase \in {"boot1_header", "boot1"}
     THEN ReadsInto(stage1) /\ UNCHANGED buffer
     ELSE ReadsInto(buffer) /\ UNCHANGED stage1
  /\ AfterSector
  /\ UNCHANGED memoryMap

retry_sector == Reading /\ RetriesSector /\ Goes(phase) /\ UNCHANGED memoryMap

give_up_sector == Reading /\ GivesUpSector /\ AfterSector /\ UNCHANGED memoryMap

-----------------------------------------------------------------------------
\* jmp boot1_start, into whatever was read.
jump_boot1 ==
  /\ phase = "jump"
  /\ Goes(IF \A i \in 0 .. BOOT1_SECTORS - 1 : stage1[i] = BOOT1_FILE + i
          THEN "memory_info" ELSE "astray")
  /\ UNCHANGED <<disk, memoryMap>>

\* The first call of int 15h fails, or gives the first entry.
load_system_memory_info ==
  /\ phase = "memory_info"
  /\ \/ Goes("stopped") /\ UNCHANGED memoryMap
     \/ Goes("memory_loop") /\ FirstCall
  /\ UNCHANGED disk

lsmi_loop ==
  /\ phase = "memory_loop"
  /\ NextCall /\ Goes("memory_loop")
  /\ UNCHANGED disk

lsmi_loop_end ==
  /\ phase = "memory_loop"
  /\ AddNullEntry /\ Goes("kernel_header")
  /\ left' = 1 /\ rest' = 0 /\ es' = 0 /\ bx' = 0
  /\ UNCHANGED <<position, attempts, stage1, buffer, failures, gaveUp>>

\* The A20 line is enabled, by the BIOS if need be, or the keyboard controller
\* has to do it.
enable_a20 ==
  /\ phase = "a20"
  /\ \E to \in {"elf", "a20_keyboard"} : Goes(to)
  /\ UNCHANGED <<disk, memoryMap>>

\* The keyboard controller is polled before and behind every byte written.
A20_POLLS == 7

\* A poll has no bound.  When the controller has ended it, by taking a byte or,
\* once, by giving one, the next byte goes out; behind the last poll the line is
\* enabled, or the bootloader stops.
a20wait ==
  /\ phase = "a20_keyboard"
  /\ polls' = polls + 1
  /\ phase' \in IF polls' < A20_POLLS THEN {phase} ELSE {"elf", "stopped"}
  /\ UNCHANGED <<kernel, index, image, answers, disk, memoryMap>>

\* Without the headers of an ELF file, load_kernel_elf returns early and
\* jmp edx goes anywhere.
IsElf == buffer[0] = KERNEL_FILE

invalid_elf ==
  /\ phase = "elf" /\ ~IsElf
  /\ Goes("astray")
  /\ UNCHANGED <<disk, memoryMap>>

\* Zero out the segment, then copy what the file has of it.
segment_memory(s) ==
  [a \in s.vaddr .. s.vaddr + s.memsz - 1 |->
     IF a < s.vaddr + s.filesz THEN buffer[s.offset + a - s.vaddr] ELSE ZERO]

load_elf_program_table_entry ==
  /\ phase = "elf" /\ IsElf /\ index < Len(kernel.segments)
  /\ LET s == kernel.segments[index + 1]
         loaded == segment_memory(s)
     IN image' = IF s.type # PT_LOAD THEN image
                 ELSE [a \in DOMAIN image \cup DOMAIN loaded |->
                         IF a \in DOMAIN loaded THEN loaded[a] ELSE image[a]]
  /\ index' = index + 1
  /\ UNCHANGED <<phase, kernel, a20, disk, memoryMap>>

jump_kernel ==
  /\ phase = "elf" /\ IsElf /\ index = Len(kernel.segments)
  /\ Goes("kernel_started")
  /\ UNCHANGED <<disk, memoryMap>>

kernel_memory_range ==
  /\ phase = "kernel_started"
  /\ \/ initialize_memory_range /\ Goes("kernel_started")
     \/ MapEnds /\ Goes("ranges_known") /\ UNCHANGED memoryMap
  /\ UNCHANGED disk

kernel_memory ==
  /\ phase = "ranges_known"
  /\ \/ initialize /\ Goes("running")
     \/ initialize_fails /\ Goes("no_heap")
  /\ UNCHANGED disk

BootNext == \/ stage0_start
            \/ read_sector \/ retry_sector \/ give_up_sector
            \/ jump_boot1
            \/ load_system_memory_info \/ lsmi_loop \/ lsmi_loop_end
            \/ enable_a20 \/ a20wait
            \/ invalid_elf \/ load_elf_program_table_entry \/ jump_kernel
            \/ kernel_memory_range \/ kernel_memory

\* The CPU executes, and the BIOS returns from every call.  Only a keyboard
\* controller that answers is fair.
BootSpec == /\ BootInit /\ [][BootNext]_bootVars
            /\ WF_bootVars((phase = "a20_keyboard" => answers) /\ BootNext)

-----------------------------------------------------------------------------
\* The kernel's memory when it starts: every segment as the file has it, its
\* rest zero, where MemoryRangeTable lies, for one.
ImageRight ==
  \A i \in DOMAIN kernel.segments :
    LET s == kernel.segments[i]
    IN s.type = PT_LOAD =>
         \A j \in 0 .. s.memsz - 1 :
           image[s.vaddr + j] = IF j < s.filesz THEN KERNEL_FILE + s.offset + j ELSE ZERO

\* If no sector failed three times, and the files end in the first two
\* cylinders (the cylinder is not counted any further), no jump goes astray
\* and the kernel that starts is the one on the disk, over every split of its
\* file into tracks and segments and whichever reads had to be repeated.
ImageLoaded ==
  ~gaveUp /\ KERNEL_FILE + kernel.sectors <= 2 * HEAD_COUNT * SECTOR_COUNT =>
    /\ phase # "astray"
    /\ phase = "kernel_started" => ImageRight

Usable(e) == e[3][1] = 1 /\ e[3][2] = 0
Below4GiB(e) == /\ <<e[1][3], e[1][4], e[2][3], e[2][4]>> = ZeroNumber
                /\ U32(e[1]) + U32(e[2]) < WORD * WORD
UsableForHeap(e) == /\ Usable(e) /\ Below4GiB(e)
                    /\ U32(e[1]) <= HEAP_BASE /\ HEAP_BASE < U32(e[1]) + U32(e[2])

\* The memory map as a reader of the BIOS' documentation expects it: the first
\* ENTRIES usable ranges that are not empty, in the order of the map.  place
\* says which entry a range is.
Wanted(e) == Usable(e) /\ e[2] # ZeroNumber

Lists(found, entries) ==
  /\ Len(found) <= ENTRIES
  /\ \E place \in [DOMAIN found -> DOMAIN entries] :
       /\ \A k, l \in DOMAIN found : k < l => place[k] < place[l]
       /\ \A k \in DOMAIN found :
            Wanted(entries[place[k]]) /\ found[k] = Cut(entries[place[k]])
       /\ \A i \in DOMAIN entries : Wanted(entries[i]) =>
            \/ \E k \in DOMAIN found : place[k] = i
            \/ Len(found) = ENTRIES /\ \A k \in DOMAIN found : place[k] < i

\* In memory that was zero before, the kernel finds the usable ranges of the
\* map, in order and without empty ones, and the last entry is missing if the
\* BIOS ends its list with it.
TableRight ==
  phase = "ranges_known" /\ residue = ZeroEntry =>
    Lists(ranges, IF style = "last" THEN SubSeq(map, 1, Len(map) - 1) ELSE map)

\* The entry for the heap is kept in full, and no usable range before it
\* reaches 4 GiB, as in every map in the order of addresses.
KeepsHeap ==
  \E i \in DOMAIN map :
    /\ UsableForHeap(map[i]) /\ (style = "last" => i < Len(map))
    /\ \A j \in 1 .. i - 1 : Wanted(map[j]) => Below4GiB(map[j])

\* If the map keeps the heap, or nothing follows the table and nothing reaches
\* 4 GiB, the heap ends where a usable range that holds its base ends, although
\* ranges are cut to 32 bits and what follows the table in memory may be read
\* as a part of it; and the range is missed only behind ENTRIES others.
HeapInUsableMemory ==
  /\ /\ phase = "running"
     /\ \/ KeepsHeap
        \/ residue = ZeroEntry /\ \A i \in DOMAIN map : Wanted(map[i]) => Below4GiB(map[i])
     => \E i \in DOMAIN map :
          UsableForHeap(map[i]) /\ endAddress = U32(map[i][1]) + U32(map[i][2])
  /\ phase = "no_heap" /\ KeepsHeap => Len(ranges) = ENTRIES

\* The boot comes to an end, be it a hlt or a jump to what is no code, if the BIOS
\* ends its memory map with ebx = 0 and the keyboard controller, where it is
\* needed for the A20 line, answers: however often sectors have to be read again,
\* the loops over sectors, segments, entries and program headers end.
BootEnds == style # "carry_kept" /\ answers => <>(phase \in Final)
=============================================================================
