----------------------------- MODULE MemoryMap ------------------------------
(***************************************************************************)
(* The memory map on its way from the BIOS to the heap: the bootloader     *)
(* stores the answers to int 15h, E820 as a table of 24-byte entries       *)
(* (src/src/bootloader/bootloader.asm), and the kernel picks the region of *)
(* its heap from it (initialize_memory_range and initialize of             *)
(* src/src/kernel/memory-manager/manager.cpp).                             *)
(*                                                                         *)
(* An entry is three 64-bit numbers - base, length, type with attributes - *)
(* of four 16-bit words each, the lowest first; a word is below WORD.      *)
(***************************************************************************)
EXTENDS Integers, Sequences

CONSTANTS WORD,        \* a 16-bit word has the values 0 .. WORD - 1
          ENTRIES,     \* size of MemoryRangeTable::entries
          SLOTS,       \* slots of the table that may not be zero
          HEAP_BASE,   \* HEAP_BASE_ADDRESS
          Maps,        \* what the BIOS may report: sequences of entries
          Residues     \* what the table's memory may hold before

\* An entry is three 64-bit numbers.
Entries == [1 .. 3 -> [1 .. 4 -> 0 .. WORD - 1]]

ASSUME MemoryMapAssumption ==
  /\ WORD \in Nat \ {0, 1} /\ ENTRIES \in Nat \ {0} /\ SLOTS \in Nat
  /\ HEAP_BASE \in 1 .. WORD * WORD - 1
  /\ Maps \subseteq Seq(Entries) /\ Residues \subseteq Entries
  /\ \A m \in Maps : Len(m) \in 1 .. SLOTS - 1

VARIABLES map,         \* what the BIOS reports
          style,       \* how it marks the end of the list
          ebx,         \* its continuation value: 0, or the entry given last
          residue,     \* what every slot of the table held before
          table, di,   \* the table at MEMORY_INFO_BOTTOM, the slot written next
          slot,        \* p in initialize_memory_range: the slot read next
          ranges,      \* s_memoryRangeTable: <<base, length>> of usable regions
          endAddress   \* s_memoryInfo.endAddress

bios == <<map, style, residue>>
memoryMap == <<bios, ebx, table, di, slot, ranges, endAddress>>

\* ebx = 0 with the last entry; carry behind it, with ebx = 0 or as it was.
Styles == {"last", "carry_zero", "carry_kept"}

ZeroNumber == <<0, 0, 0, 0>>
ZeroEntry == <<ZeroNumber, ZeroNumber, ZeroNumber>>
Slot(i) == IF i \in DOMAIN table THEN table[i] ELSE ZeroEntry

MapInit == /\ map \in Maps /\ style \in Styles
           /\ ebx = 0
           /\ residue \in Residues
           /\ table = [i \in 1 .. SLOTS |-> residue]
           /\ di = 1
           /\ slot = 1 /\ ranges = << >> /\ endAddress = 0

\* int 15h writes the entry behind the one it gave last, or fails.
Call == IF ebx < Len(map)
        THEN /\ table' = [table EXCEPT ![di'] = map[ebx + 1]]
             /\ ebx' = IF style = "last" /\ ebx + 1 = Len(map) THEN 0 ELSE ebx + 1
        ELSE /\ ebx' = IF style = "carry_zero" THEN 0 ELSE ebx
             /\ UNCHANGED table

FirstCall == /\ di' = di /\ Call
             /\ UNCHANGED <<bios, slot, ranges, endAddress>>

\* Mutant: every entry is kept.
next_slot_Always == di + 1

\* An entry of length 0 is overwritten.
next_slot == IF Slot(di)[2] = ZeroNumber THEN di ELSE di + 1

\* The carry flag is tested behind a comparison that clears it.
NextCall == /\ ebx # 0
            /\ di' = next_slot /\ Call
            /\ UNCHANGED <<bios, slot, ranges, endAddress>>

\* The null entry: of every 32 bits only the low word is written.
AddNullEntry ==
  /\ ebx = 0
  /\ table' = [i \in DOMAIN table |->
                 IF i = di THEN [q \in 1 .. 3 |-> <<0, table[i][q][2], 0, table[i][q][4]>>]
                 ELSE table[i]]
  /\ UNCHANGED <<bios, ebx, di, slot, ranges, endAddress>>

-----------------------------------------------------------------------------
(* The kernel.                                                             *)

\* The low 32 bits of a number.
U32(number) == number[1] + WORD * number[2]

is_usable(entry) == U32(entry[3]) = 1

\* The null entry is reached, or s_memoryRangeTable is full.
MapEnds == Slot(slot) = ZeroEntry \/ Len(ranges) >= ENTRIES

\* What a range keeps of an entry.
Cut(entry) == <<U32(entry[1]), U32(entry[2])>>

\* One turn of the loop: a usable range is kept.
initialize_memory_range ==
  /\ ~MapEnds
  /\ ranges' = IF is_usable(Slot(slot)) THEN Append(ranges, Cut(Slot(slot))) ELSE ranges
  /\ slot' = slot + 1
  /\ UNCHANGED <<bios, ebx, table, di, endAddress>>

EndOf(range) == (range[1] + range[2]) % (WORD * WORD)

\* Mutant: only the end is compared.
HoldsHeap_Below(range) == HEAP_BASE < EndOf(range)

HoldsHeap(range) == range[1] <= HEAP_BASE /\ HEAP_BASE < EndOf(range)

\* The first range that holds the base of the heap ends the heap; whether a
\* block header fits behind it is not checked.
initialize ==
  /\ \E i \in DOMAIN ranges :
       /\ HoldsHeap(ranges[i]) /\ \A j \in 1 .. i - 1 : ~HoldsHeap(ranges[j])
       /\ endAddress' = EndOf(ranges[i])
  /\ UNCHANGED <<bios, ebx, table, di, slot, ranges>>

initialize_fails == /\ \A i \in DOMAIN ranges : ~HoldsHeap(ranges[i])
                    /\ UNCHANGED memoryMap
=============================================================================
