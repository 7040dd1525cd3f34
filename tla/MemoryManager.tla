--------------------------- MODULE MemoryManager ----------------------------
(***************************************************************************)
(* The kernel's heap (src/src/kernel/memory-manager/manager.cpp): block    *)
(* headers laid out inside the heap itself and linked both ways, and a     *)
(* vector of the free ones ordered by size.                                *)
(*                                                                         *)
(* Addresses are bytes.  A block is named by the address of its header;    *)
(* next, prev and used are the fields of the headers that are part of the  *)
(* heap, so DOMAIN next is the set of blocks.  A header that was merged    *)
(* into a neighbour is no longer in it, though a stale prev link may still *)
(* lead to its address.                                                    *)
(*                                                                         *)
(* No interrupt handler allocates: kmalloc and kfree are atomic.           *)
(***************************************************************************)
EXTENDS FreeList, FiniteSets

CONSTANTS HEAP_BASE,   \* HEAP_BASE_ADDRESS
          HEADER,      \* sizeof(BlockHeader)
          ALIGN,       \* sizeof(u32)
          CAPACITY,    \* template argument CAPACITY of freeBlocks
          WORD,        \* size_t has the values 0 .. WORD - 1
          RegionEnds,  \* where the memory region that holds HEAP_BASE may end
          Requests     \* the sizes callers ask for

nullptr == 0

ASSUME LayoutAssumption ==
  /\ HEAP_BASE \in Nat \ {0} /\ HEADER \in Nat \ {0} /\ ALIGN \in Nat \ {0}
  /\ CAPACITY \in Nat \ {0} /\ WORD \in Nat
  /\ RegionEnds \subseteq {e \in Nat : HEAP_BASE + HEADER < e /\ e < WORD}
  /\ Requests \subseteq 0 .. WORD - 1

VARIABLES next, prev, used,  \* the fields of the block headers
          freeBlocks,        \* s_memoryInfo.freeBlocks
          endAddress,        \* s_memoryInfo.endAddress
          phase,             \* "boot", "running", "stopped" or "overlapping"
          allocated,         \* history: block -> size, of what callers hold
          overflowed         \* history: a free block was left out of a full list

vars == <<next, prev, used, freeBlocks, endAddress, phase, allocated, overflowed>>

blocks == DOMAIN next
ListedIn(fr) == {fr[k] : k \in 1 .. Len(fr)}

-----------------------------------------------------------------------------
(* Helpers, which the code calls on a list and on links it is changing:    *)
(* nx and fr stand for next and freeBlocks at the moment of the call.      *)

\* Mutant: the size is rounded down.
get_smallest_gte_multiple_Down(t_value, t_multiple) ==
  t_value - (t_value % t_multiple)

\* The C expression wraps at the width of size_t.
get_smallest_gte_multiple(t_value, t_multiple) ==
  IF t_value % t_multiple = 0
  THEN t_value
  ELSE (t_value + (t_multiple - (t_value % t_multiple))) % WORD

get_block_size(nx, b) ==
  (IF nx[b] = nullptr THEN endAddress ELSE nx[b]) - b - HEADER

SizesOf(nx, fr) == [k \in 1 .. Len(fr) |-> get_block_size(nx, fr[k])]

\* What the bisection returns on a sorted list (FreeBlockSearch).
find_first_gte_free_block(nx, fr, t_size) ==
  CHOOSE i \in 0 .. Len(fr) : IsFirstGte(SizesOf(nx, fr), t_size, i)

\* Mutant: the block is appended whatever its size.
add_free_block_Append(nx, fr, b) == Append(fr, b)

\* Mutant: a block too small to be split is not listed.
add_free_block_LargeOnly(nx, fr, b) ==
  IF get_block_size(nx, b) > HEADER
  THEN insert(fr, find_first_gte_free_block(nx, fr, get_block_size(nx, b)), b)
  ELSE fr

\* insert fails on a full vector, and add_free_block ignores that it did.
add_free_block(nx, fr, b) ==
  IF Len(fr) < CAPACITY
  THEN insert(fr, find_first_gte_free_block(nx, fr, get_block_size(nx, b)), b)
  ELSE fr

\* The positions at which remove_free_block's scan, which starts at the first
\* block of b's size and ends with the last one, finds b.
Found(nx, fr, b) ==
  {i \in find_first_gte_free_block(nx, fr, get_block_size(nx, b)) .. Len(fr) - 1 :
      /\ fr[i + 1] = b
      /\ \A j \in 1 .. i + 1 :
            j > find_first_gte_free_block(nx, fr, get_block_size(nx, b))
              => get_block_size(nx, fr[j]) = get_block_size(nx, b)}

remove_free_block(nx, fr, b) == remove(fr, CHOOSE i \in Found(nx, fr, b) : TRUE)

\* Mutant: the swallowed block's successor keeps its link to it.
absorb_prev_Dangling(nx, pv, a, b) == [c \in DOMAIN pv \ {b} |-> pv[c]]

\* Block b becomes a part of block a: a->next = b->next, a->next->prev = a.
absorb_next(nx, a, b) ==
  [c \in DOMAIN nx \ {b} |-> IF c = a THEN nx[b] ELSE nx[c]]
absorb_prev(nx, pv, a, b) ==
  [c \in DOMAIN pv \ {b} |-> IF c = nx[b] THEN a ELSE pv[c]]

-----------------------------------------------------------------------------
Init == /\ next = << >> /\ prev = << >> /\ used = << >>
        /\ freeBlocks = << >>
        /\ endAddress = 0
        /\ phase = "boot"
        /\ allocated = << >>
        /\ overflowed = FALSE

\* One free block from HEAP_BASE to the end of its memory region.
initialize ==
  /\ phase = "boot"
  /\ \E e \in RegionEnds : endAddress' = e
  /\ next' = [b \in {HEAP_BASE} |-> nullptr]
  /\ prev' = [b \in {HEAP_BASE} |-> nullptr]
  /\ used' = [b \in {HEAP_BASE} |-> FALSE]
  /\ freeBlocks' = <<HEAP_BASE>>
  /\ phase' = "running"
  /\ UNCHANGED <<allocated, overflowed>>

\* No region of the memory map holds HEAP_BASE: kernel_main stops.
initialize_fails ==
  /\ phase = "boot"
  /\ phase' = "stopped"
  /\ UNCHANGED <<next, prev, used, freeBlocks, endAddress, allocated, overflowed>>

paddedSize(t_size) == get_smallest_gte_multiple(t_size, ALIGN)

freeBlockIndex(t_size) ==
  find_first_gte_free_block(next, freeBlocks, paddedSize(t_size))

SplitsBlock(b, t_size) ==
  get_block_size(next, b) - paddedSize(t_size) > HEADER

\* Mutant: the block stays in the list of free blocks.
malloc_whole_StillListed(t_size, b) ==
  /\ used' = [used EXCEPT ![b] = TRUE]
  /\ UNCHANGED <<next, prev, freeBlocks>>

malloc_whole(t_size, b) ==
  /\ used' = [used EXCEPT ![b] = TRUE]
  /\ freeBlocks' = remove(freeBlocks, freeBlockIndex(t_size))
  /\ UNCHANGED <<next, prev>>

\* Mutant: the header of the rest is written where the data begins.
split_address_NoHeader(b, t_size) == b + paddedSize(t_size)

split_address(b, t_size) == b + HEADER + paddedSize(t_size)

\* The rest of b becomes a block of its own.  The block behind it, if there is
\* one, keeps its prev link to b.
malloc_split(t_size, b) ==
  LET splitBlock == split_address(b, t_size)
      next1 == [c \in blocks \cup {splitBlock} |->
                  IF c = b THEN splitBlock
                  ELSE IF c = splitBlock THEN next[b]
                  ELSE next[c]]
  IN /\ next' = next1
     /\ prev' = [c \in blocks \cup {splitBlock} |->
                   IF c = splitBlock THEN b ELSE prev[c]]
     /\ used' = [c \in blocks \cup {splitBlock} |->
                   IF c = b THEN TRUE ELSE IF c = splitBlock THEN FALSE ELSE used[c]]
     /\ freeBlocks' = add_free_block(next1,
                                     remove(freeBlocks, freeBlockIndex(t_size)),
                                     splitBlock)

kmalloc(t_size) ==
  /\ phase = "running"
  /\ t_size # 0
  /\ freeBlockIndex(t_size) < Len(freeBlocks)
  /\ LET b == freeBlocks[freeBlockIndex(t_size) + 1]
     IN /\ IF SplitsBlock(b, t_size) THEN malloc_split(t_size, b)
                                     ELSE malloc_whole(t_size, b)
        /\ allocated' = [c \in DOMAIN allocated \cup {b} |->
                           IF c = b THEN t_size ELSE allocated[c]]
  /\ UNCHANGED <<endAddress, phase, overflowed>>

\* INVALID_ARGUMENT, UNINITIALIZED or NO_FREE_BLOCKS: kmalloc stops the kernel.
kmalloc_fails(t_size) ==
  /\ phase \in {"boot", "running"}
  /\ t_size # 0 /\ phase = "running" => freeBlockIndex(t_size) = Len(freeBlocks)
  /\ phase' = "stopped"
  /\ UNCHANGED <<next, prev, used, freeBlocks, endAddress, allocated, overflowed>>

\* Mutant: a freed block is only merged with the one before it.
MergesNext_Never(node) == FALSE

\* The links and the list after lines 119-127: the next block is swallowed if
\* it is unused.
MergesNext(node) == next[node] # nullptr /\ ~used[next[node]]

NextRemovable(node) ==
  MergesNext(node) => Found(next, freeBlocks, next[node]) # {}

next_AfterNext(node) ==
  IF MergesNext(node) THEN absorb_next(next, node, next[node]) ELSE next
prev_AfterNext(node) ==
  IF MergesNext(node) THEN absorb_prev(next, prev, node, next[node]) ELSE prev
free_AfterNext(node) ==
  IF MergesNext(node) THEN remove_free_block(next, freeBlocks, next[node])
                      ELSE freeBlocks

\* What node->prev->used may read as: a prev link can be stale, and the memory
\* of a header that is no longer one holds whatever was written there since.
PrevUsed(node) == IF prev[node] \in blocks THEN {used[prev[node]]} ELSE BOOLEAN

\* The block is returned to the list as it is, prev being in use or absent.
kfree_alone(node) ==
  /\ NextRemovable(node)
  /\ prev[node] # nullptr => TRUE \in PrevUsed(node)
  /\ next' = next_AfterNext(node)
  /\ prev' = prev_AfterNext(node)
  /\ used' = [c \in DOMAIN next' |-> IF c = node THEN FALSE ELSE used[c]]
  /\ freeBlocks' = add_free_block(next', free_AfterNext(node), node)
  /\ phase' = phase

\* Mutant: the block before the freed one is swallowed without a look at it.
kfree_into_prev_Unchecked(node) ==
  LET p == prev[node]
      nx == next_AfterNext(node)
  IN /\ NextRemovable(node)
     /\ p # nullptr /\ p \in blocks
     /\ next' = absorb_next(nx, p, node)
     /\ prev' = absorb_prev(nx, prev_AfterNext(node), p, node)
     /\ used' = [c \in DOMAIN next' |-> used[c]]
     /\ freeBlocks' = add_free_block(next', free_AfterNext(node), p)
     /\ phase' = phase

\* The block before it is unused and swallows it.  If the link was stale, the
\* blocks between the two are lost from the chain, though callers hold them.
kfree_into_prev(node) ==
  LET p == prev[node]
      nx == next_AfterNext(node)
      fr == free_AfterNext(node)
  IN /\ NextRemovable(node)
     /\ p # nullptr /\ p \in blocks /\ ~used[p]
     /\ Found(nx, fr, p) # {}
     /\ next' = absorb_next(nx, p, node)
     /\ prev' = absorb_prev(nx, prev_AfterNext(node), p, node)
     /\ used' = [c \in DOMAIN next' |-> used[c]]
     /\ freeBlocks' = add_free_block(next', remove_free_block(nx, fr, p), p)
     /\ phase' = IF next[p] = node THEN phase ELSE "overlapping"

\* INVALID_ARGUMENT for memory that is not in use, INDEX_OUT_OF_RANGE for a
\* neighbour that is not in the list: kfree stops the kernel.
FreeFails(node) ==
  used[node] /\ NextRemovable(node) =>
    /\ prev[node] # nullptr
    /\ FALSE \in PrevUsed(node)
    /\ prev[node] \in blocks =>
         Found(next_AfterNext(node), free_AfterNext(node), prev[node]) = {}

kfree_fails(node) ==
  /\ phase = "running"
  /\ FreeFails(node)
  /\ phase' = "stopped"
  /\ UNCHANGED <<next, prev, used, freeBlocks, endAddress, allocated, overflowed>>

kfree(node) ==
  /\ phase = "running"
  /\ used[node]
  /\ kfree_alone(node) \/ kfree_into_prev(node)
  /\ allocated' = [c \in DOMAIN allocated \ {node} |-> allocated[c]]
  /\ overflowed' = \/ overflowed
                    \/ /\ Len(freeBlocks) = CAPACITY
                       /\ \E b \in DOMAIN next' : ~used'[b] /\ b \notin ListedIn(freeBlocks')
  /\ UNCHANGED endAddress

Next == \/ initialize
        \/ initialize_fails
        \/ \E t_size \in Requests : kmalloc(t_size) \/ kmalloc_fails(t_size)
        \/ \E node \in blocks : kfree(node) \/ kfree_fails(node)

Spec == Init /\ [][Next]_vars

-----------------------------------------------------------------------------
Running == phase = "running"
Listed == ListedIn(freeBlocks)

\* The headers follow one another without gap or overlap: the chain of next
\* pointers starts at HEAP_BASE, goes through every header in the order of the
\* addresses, leaves room for data behind each, and ends at the end of the
\* region.
HeapTiled == Running =>
  /\ HEAP_BASE \in blocks
  /\ \A b \in blocks :
       /\ HEAP_BASE <= b
       /\ IF next[b] = nullptr
          THEN b + HEADER < endAddress /\ \A c \in blocks : c <= b
          ELSE /\ next[b] \in blocks /\ b + HEADER < next[b]
               /\ \A c \in blocks : c <= b \/ next[b] <= c

\* The vector lists unused blocks, each once, and all of them until it has been
\* too full for one: a block that is freed then is lost.
FreeListExact == Running =>
  /\ Listed \subseteq {b \in blocks : ~used[b]}
  /\ ~overflowed => \A b \in blocks : ~used[b] => b \in Listed
  /\ Cardinality(Listed) = Len(freeBlocks)

\* It lists them by size, which the bisections of malloc, add_free_block and
\* remove_free_block rely on, although the sizes of listed blocks are not
\* stored: they follow from links that every malloc and free changes.
FreeListSorted == Running => IsSorted(SizesOf(next, freeBlocks))

\* Used blocks are those callers hold, and each has room for what was asked.
AllocationsFit == Running =>
  /\ DOMAIN allocated = {b \in blocks : used[b]}
  /\ \A b \in DOMAIN allocated : get_block_size(next, b) >= allocated[b]

\* No link back is stale.
LinksConsistent ==
  Running /\ \A b \in blocks : next[b] # nullptr => prev[next[b]] = b

\* With no stale link in the heap, and none of its free blocks left out of a full
\* list, kfree of what kmalloc returned cannot stop the kernel: the neighbours to
\* merge with are always found in the list.
FreeSucceeds == LinksConsistent /\ ~overflowed => \A b \in DOMAIN allocated : ~FreeFails(b)

\* No memory is both in a listed free block and in a caller's hands.
NoOverlap ==
  \A b \in DOMAIN allocated, f \in Listed :
     \/ b + HEADER + allocated[b] <= f
     \/ f + HEADER + get_block_size(next, f) <= b

Coalesced ==
  \A b \in blocks : next[b] # nullptr => used[b] \/ used[next[b]]

\* malloc and free keep unused blocks apart as long as no link is stale, so
\* that the heap cannot fragment into unused neighbours.
StaysCoalesced == [][LinksConsistent /\ Coalesced => Coalesced']_vars

\* As long as no link is stale, no free returns memory a caller still holds.
OverlapNeedsStaleLink == [][LinksConsistent /\ NoOverlap => NoOverlap']_vars

\* Links go stale in one way only: malloc splits a block that is not the last.
StaleOnlyBySplit ==
  [][LinksConsistent /\ Running' /\ ~LinksConsistent' =>
       \E c \in DOMAIN next' \ DOMAIN next : next'[c] # nullptr]_vars
=============================================================================
