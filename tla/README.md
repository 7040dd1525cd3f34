# A verification project for KessokuOS

KessokuOS (`src/`) is a small x86 operating system: a two-stage bootloader in
assembly and a kernel in C++20 with a PS/2 keyboard driver, a floppy driver, a
timer, a text screen and a heap.  There are no processes and no second CPU.
What makes it hard to test is that interrupt handlers share state with the main
loop without locks, that drivers talk to hardware by polling a bounded number
of times, that the heap keeps its own data structure inside the memory it hands
out, and that everything runs on 32-bit arithmetic that wraps.

This directory holds TLA+ models of the parts that carry this logic, TLC
configurations that check them, and proofs checked by TLAPS.  Every definition is translated from
the source; `PROJECT.json` gives the lines for each one.

## 1. The system

| Part | Source (`src/src/...`) | State | Operations | What makes it correct |
|---|---|---|---|---|
| Event queue | `kernel/data/queue.hpp` | array of SIZE + 1, start and end index | `push_back`, `pop_front`, `size` | FIFO under interruption, no torn element, refuses only when full |
| Memory manager | `kernel/memory-manager/manager.cpp` | headers in the heap (`next`, `prev`, `used`), vector of free blocks sorted by size, end of the region | `initialize`, `initialize_memory_range`, `malloc`, `free`, `kmalloc`, `kfree` | blocks tile the region, list = unused blocks in order, no memory handed out twice, a legal free succeeds |
| FCVector | `kernel/data/fc_vector.hpp` | array and size | `insert`, `remove`, `push_back` | elements are kept and shifted, order is kept |
| Keyboard driver | `kernel/drivers/ps2/keyboard/` | key state table, event queue | `initialize`, `keyboard_handler`, `poll_event`, `is_key_pressed` | decodes what was typed and nothing else; the handler returns |
| PS/2 controller | `kernel/drivers/ps2/ps2.cpp` | - (the controller's configuration byte) | `initialize`, `send_to_device`, `get_response`, `get_first_port_device_type` | bounded waits, right configuration byte, only keyboards |
| Main loop | `kernel/kernel.cpp` | - | `kernel_main`: set-up, then poll and halt | set-up order; no event is left behind by `hlt` |
| Interrupts | `kernel/interrupts/` | IDT, PIC masks | `PIC::initialize`, `send_end_of_interrupt`, handlers, `set_entry` | every interrupt acknowledged at the right controller |
| PIT and sleep | `kernel/drivers/pit/`, `kernel/common.cpp` | tick counter | `initialize`, `set_frequency`, `interval_handler`, `sleep` | sleeps end, and not too early |
| Floppy driver | `kernel/drivers/disk/floppy/` | selected drive, motor, `waitingForIRQ` | `initialize`, `reset`, `read_data`, `select_drive`, `send_command`, `wait_for_irq`, `floppy_handler` | command, result and interrupt phases in step; right sectors read |
| DMA | `kernel/drivers/dma/` | channel registers | `initialize_channel`, `set_mode` | transfers stay inside the buffer |
| VGA | `kernel/drivers/vga/` | cursor, text buffer | `put_char`, `put_string`, `new_line`, scrolling | cursor stays on the screen |
| Bootloader | `bootloader/bootloader.asm` | disk position, memory map, kernel image | disk reader, E820 loop, ELF loader | the kernel on the disk is started, complete memory map |
| GDT | `kernel/gdt.cpp` | table | `add_entry`, `load_table` | - |
| Common helpers, ErrorOr, crt | `kernel/common.*`, `kernel/data/error_or.hpp`, `kernel/crt/` | - | `mem*`, `get_smallest_gte_multiple`, early returns | arithmetic at its boundaries |

How they interact:

* The keyboard sends scancodes byte by byte into the one-byte output buffer of
  the 8042, which raises IRQ 1.  `keyboard_handler` reads the bytes of one
  scancode by polling, pushes an event into the **event queue** and updates the
  key state.  `kernel_main` calls `poll_event` until the queue is empty and then
  executes `hlt`; any interrupt, the 1000 Hz timer at the latest, wakes it.
* The **PIC** hands requests to the CPU through the IDT; every gate is an
  interrupt gate, so handlers do not nest.  Each handler calls
  `PIC::send_end_of_interrupt`.
* The floppy driver sets `waitingForIRQ`, issues a command and halts until
  `floppy_handler` resets it; `sleep` waits for the counter of the timer handler.
* The bootloader leaves the E820 map at a fixed address, `MemoryManager::initialize`
  takes from it the region that holds `HEAP_BASE_ADDRESS`.  Only the main
  program allocates, never a handler.

The hard behaviours, each at its line, are the `hazards` of `PROJECT.json`.

## 2. The modules

    BoundedFifo  <--implements--  EventQueue  <--proofs--  EventQueueProofs
         ^ queue at this level
    Keyboard          (handler, 8042, latch, main loop, timer tick)  <--proofs--  KeyboardProofs
    PS2Controller     (set-up of the 8042 and of the keyboard)  <--proofs--  SetupProofs
    FreeList  <--  FreeBlockSearch  <--proofs--  MemoryManagerProofs
         ^-------  MemoryManager    <--proofs--  MemoryManagerProofs
    BootDisk, MemoryMap  <--  Bootloader  (boot sector to heap)  <--proofs--  SetupProofs
    Interrupts        (two 8259s, dispatch, end-of-interrupt)  <--proofs--  InterruptsProofs
    FloppyDisk        (command protocol, controller, IRQ6, timer tick)
                           <--proofs--  FloppyDiskProofs
    Dma  <--  FloppyRead   (which sectors read_data delivers, through which memory)
                           <--proofs--  FloppyReadProofs
    Terminal          (screen, cursor, line editing)  <--proofs--  TerminalProofs
    Timer             (tick counter, sleep)       <--proofs--  InterruptsProofs
    Pit               (the divisor of the timer)  <--proofs--  InterruptsProofs

Each module that is checked on its own has an `MC` module and one or more `.cfg` files; `BootDisk`,
`MemoryMap` and `Dma` are parts of the module that extends them, `Pit` has no state.
The operators named `<definition>_<Word>` and commented "Mutant:" are plausible
bugs: put in the place of `<definition>` each one must make TLC report a
property as violated, which shows that the property depends on the code.

### BoundedFifo and EventQueue

`BoundedFifo` is what the queue promises: at most SIZE elements, oldest first,
what comes while it is full is dropped.  `EventQueue` is the ring buffer of
`queue.hpp`.  The handler's `push_back` is one step because the gate clears IF;
the main loop's `pop_front` is four (test, two words of the copy, index update),
with a push possible between any two.  `m_data` starts with arbitrary contents,
as the constructor leaves it.  `Contents` maps indices to the abstract sequence;
`ImplementsFifo` is the refinement (`offered`, what was last pushed, ties the element that is
stored to the one that was given), `NoTornRead` says that the slot being copied
cannot be overwritten meanwhile.

Run `queue`: SIZE = 3 and two keycodes, hence four different elements. Four
slots are enough for an empty, a partly filled, a full and a wrapped queue at
every relative position of the indices.  Nothing waits inside the module and
nothing needs fairness.

### FreeList, FreeBlockSearch and MemoryManager

`FreeList` holds `insert` and `remove` of `FCVector` as operators on sequences
and defines what the first block that is large enough is (`IsFirstGte`).
`FreeBlockSearch` is the bisection of `find_first_gte_free_block`, one action per
branch.  Run `search` starts it on every sorted list of up to five sizes
from 1 to 4 and for each size from 0 to 5; ties, a size below
all and a size above all are included.  Fairness is that the function keeps
executing.

`MemoryManager` is the heap.  A block is named by the address of its header,
`next`, `prev` and `used` are functions on the blocks, `freeBlocks` is the vector
and `allocated` is a history variable with the sizes callers asked for.
`kmalloc` and `kfree` are whole actions, since no handler allocates; a step that
ends in `KERNEL_STOP` leads to `phase = "stopped"`.  Two points need care:

* `malloc` does not update the `prev` link of the block behind a split block.
  Such a stale link is kept as the address it holds.  When it no longer leads to
  a header, the `used` flag read through it is nondeterministic (`PrevUsed`).
* When a `free` merges a block into the one its stale link names,
  the chain no longer says what callers hold.  The model stops there
  (`phase = "overlapping"`), and the invariants about the structure are claimed
  for `phase = "running"`; `OverlapNeedsStaleLink` and `StaleOnlyBySplit` say
  exactly what has to happen first.

A third is that a freed block is lost when the vector is full, because the error of
`insert` is ignored; the history variable `overflowed` records it.  `FreeListExact` and
`FreeSucceeds` are claimed as long as that has not happened, all others also afterwards.

The model assumes that the region has room for one header and some data behind
`HEAP_BASE_ADDRESS`, which the code does not check (listed as a hazard).

Runs: `heap` uses the header size of 12 and the alignment of 4 of the code in a
heap of 96 or 78 bytes with requests of 0, 1, 4 and 20 bytes: up to six
blocks, splits that leave just a header and do not happen, splits of a
block in the middle, merges on either side and both, a region that does not end
on a multiple of 4.  CAPACITY = 3 lets the vector overflow after twelve steps.
`heap_overlap` shows the overlap.  Deadlock checking is off in both: the
kernel really stops.  `get_smallest_gte_multiple` is modelled with its wrap-around, but the
sizes asked for stay away from the limit: for sizes within three bytes of 2^32 the padded
size is 0, and the caller would get a block without room.

### Keyboard

The keyboard's buffer, the 8042's output buffer, the request latch, the handler
inside `parse_scancode`, the event queue (as `BoundedFifo`), the key state and
the main loop.  The controller moves while the handler polls; the main
loop does not.  The scancode tables are restricted to four keys that show
what the tables can get wrong: a single-byte key, an extended key that shares
its last byte with a single-byte key, and print screen with its four- and
six-byte codes.

`prompt`, chosen at the start, says whether the next byte of a code follows at once when one is
read.  This is how QEMU's keyboard behaves, which `start.sh` runs the system on;
a real keyboard needs about a millisecond per byte.  `NothingInvented` and `KeyStateFollows`
are claimed for a prompt keyboard: when the byte behind 0xF0 comes after the third
poll, the handler has forgotten the prefix and reports a release as a press.
The liveness properties are claimed for both.

Run `keyboard`: the two keys with the shared byte, print screen, and three key
actions against a queue of two events, so that it overflows while a key is held.
Three actions are enough for two keys held at once, for a press and a release between which
another code arrives, and for a code behind the print screen key's that is drained with
it (`KeyStateFollows` is claimed while that key, "unimplemented" in the code,
has not been touched).  Fairness: the CPU
executes handler and main loop, the timer ticks (PIT channel 0 runs freely), the
keyboard sends what it holds.  No fairness of the user is assumed.

### Interrupts

Request and in-service registers of both controllers, priority, cascade, the CPU's
IF and the argument each handler passes to `send_end_of_interrupt`.  The
generic handler passes 0 also for the vectors of the slave, so the slave's line
stays in service when it returns, although the comment above the call says
"Acknowledge interrupt"; the timer passes its vector
0x20, which is at least 8, and therefore acknowledges the slave as well, which
is why requests of the slave still get through (`RequestsServed` in run
`interrupts`).  That holds for the slave's first line only: a later one can be
overtaken forever (`NotOvertaken`).  The lines are timer, keyboard, floppy, and three
lines of the slave, one of them masked.  `recent` is the timing assumption that
a device does not raise its next request before the main loop has run again;
without it one line of a high priority could starve all others on
any 8259.  Fairness: the CPU takes interrupts and finishes handlers, interrupts get
enabled, the timer runs.

### FloppyDisk

The driver's functions are lists of steps (`todo`): `read_cylinder` is a drive
selection and a READ DATA, `initialize` the sequence of `floppy.cpp:226-248`.  The
steps of `execute_command`, `send_command` and `wait_for_irq` are actions of their own,
because the controller, IRQ6 and the timer tick can come between any two of
them.  The controller (external) is in one of the phases idle, command, execute, result or
reset; it takes what is written to it for a command or a parameter according to
its phase, and a byte that is read at the wrong moment is garbage (`genuine`).
What the bytes say is left out.  After an error the model stops, as
`kernel_main` does, so deadlock checking is off.

`wait_for_irq` compares the time, tests the flag and executes `hlt` in three steps, and a tick or IRQ6 may come
at each of them.  An IRQ6 between the test and `hlt` does not wake the CPU; the flag is tested
again behind the next tick, and if that one comes before `hlt`, too, behind the one after it.  If the timeout is
reached meanwhile, the command fails although its interrupt has been handled.  So the two ticks
of `answers` are what the code needs, and they are exact: with an IRQ6 handled one tick before the timeout
TLC finds a wait that gives up.  Of three seconds, two milliseconds are no restriction of any controller.
`ran` is the assumption, as in `Timer`, that the loop makes a step in every millisecond.

Two variables, chosen at the start, say how timely the controller is.  `rqm` is "instant" (an
emulated controller is ready again before the next access), "polled" (ready within
the three polls of `read_msr_until_rqm`; the code reads the first result byte without
polling) or "late".  `answers` says that IRQ6 is handled at least two ticks before the timeout.  Run `floppy` explores all six combinations and claims, for

* instant and answering (`InTime`): nothing times out, wherever ticks and IRQ6 fall, and a command that succeeded
  has finished;
* not late (`PollsSuffice`): parameters and results stay in step across retries although
  interrupts are late or missing.  They do *not* when a poll between two
  parameters gives up: `execute_command` sends the command byte again, and RQM = 1
  with DIO = 0 also holds for a controller that still waits for a parameter;
* all: every call returns, and if it returns without an error the current drive and its motor are as noted.
  After an error they need not be: `initialize` may fail before the first write to the register, with the motor
  that the BIOS left running.

Bounds: drives 0 and 1 and the invalid 4, the code's three attempts, a timeout of four ticks
(IRQ6 in time before the first tick or behind it, and late at each later one).  Fairness:
the driver runs, the timer ticks, a latched IRQ6 is taken; the controller is fair
only as far as the two variables say that it is in time.

### Dma and FloppyRead

`Dma` is `dma.cpp` and one channel of the 8237 (external): the address and the count
are written byte by byte behind a flip-flop, the page beside them, and a transfer
that reaches the terminal count starts the channel again if it is set to.
The 8237 calls the type 0b10, which `read_cylinder` sets, a transfer from memory
to the device; the emulator that `start.sh` runs goes by the floppy command, and so
does the model.

`FloppyRead` is `read_data` with its loop over cylinders, counted in sectors: every offset and byte
count in it is a multiple of SECTOR_SIZE.  `read_cylinder` sets the mode of the channel
and sends the command up to three times; each time the controller moves any
number of sectors, and the command may fail although all were moved, or succeed
although the transfer broke off, since the driver does not look at the
result bytes.  The channel is programmed once, at the end of `initialize`, so a
transfer that broke off shifts the next one (`breaks`).  What is copied from outside the DMA
buffer is `Outside`; a copy that runs over the end of the caller's buffer leads to
"overrun".

Run `floppy_read`: `ReadsWithinCylinder` says that a request within one cylinder delivers its
sectors, in order, as long as no transfer broke off; `BufferConfined` that nothing
beside the buffer is written, in any case.  The geometry is two sides of two sectors, bytes of three
values (so that the buffer, at page 1, is not at address 0 and its count needs both
bytes), a `size_t` of 64, three calls for up to six sectors each, the code's three attempts,
two broken transfers, and a channel that the BIOS left counting down, in the
middle of a transfer, with the flip-flop in either state.  Requests that cross into the next cylinder are
part of the run, but no property claims them: `byteCount` (`floppy.cpp:281`) is one sector per head too short,
underflows for a start on side 1, and the next cylinder starts at sector index -1.
The model stops when a call fails or overruns, so deadlock checking is off.

### PS2Controller

`PS2::initialize` and `Keyboard::initialize` as one list of steps (`todo`), in the style of
`FloppyDisk`: commands are written without a look at the controller, data after at most four
looks at the input buffer, and three looks at an empty output buffer end a
`get_response`.  `kernel_main` calls both with interrupts disabled, so no handler interferes.
The 8042, the device and the user are external and move between any two steps.  A
byte is the set of its bits, so that the masks of the configuration byte are set operations.

Four things about the hardware are chosen at the start: the `device` (three kinds of
keyboard, a mouse, an unknown device, nothing), the configuration the BIOS left,
whether hardware has done its work before the driver's next access (`timely`),
and whether the controller switches the first port on when a byte is sent to the device
(`reopens`, as QEMU and many controllers do).  The last one matters because the configuration byte
that `ps2.cpp:98` writes was read while the port was disabled: it disables the port
again, right after `ENABLE_FIRST_PS2`.  `InTimeSucceeds` is claimed for controllers that reopen it;
`UsableWhenReady` and `InitEnds` for all.  Controllers that do not reopen it end in an
error, "stopped": nothing is ever reported ready that does not work.

Run `ps2`: up to three resend requests (as many as make a command fail), one key touched at
any moment, self-tests that fail, leftovers in the output buffer.  Fairness: the CPU
executes; hardware is fair only if it is timely.  The model stops when the set-up is
over, so deadlock checking is off.

### BootDisk, MemoryMap and Bootloader

`BootDisk` is the disk reader of the bootloader: position, three attempts, and the loops of
`read_sectors` and `read_sectors_multi_segment`, one action per BIOS call.  A piece of
memory holds the number of the sector that was read into it.  Two things are as the assembly
has them and not as its comments say:

* the cylinder is compared and counted in a register that was just loaded with the head (line 222),
  so it is 1 after every cylinder;
* `cmp cx, 0` behind the last failed attempt (line 182) clears the carry flag that
  was to report it: the caller goes on, and the following sectors lie one slot early.

`MemoryMap` is the E820 table from the BIOS to the heap: the loop that stores the
entries, the null entry of which only the low word of each 32 bits is written (lines 380-385),
`initialize_memory_range` of the kernel, which cuts 64 bits to 32 (one turn of its loop per action), and the choice
of the region in `MemoryManager::initialize`.  `style` is how the BIOS ends its list, and `residue` what
the table's memory held before.  The test of the carry flag (line 353) comes behind a
comparison that clears it, so a BIOS that ends its list with carry and keeps ebx is asked
forever; `BootEnds` excludes it.

Of the A20 line `Bootloader` has the ways to enable it: it is enabled already, or the BIOS does it, or the
keyboard controller has to (`a20_keyboard`).  The seven polls of port 0x64 on that way (`a20wait`, `a20wait2`, lines 602-645)
have no bound, so the boot hangs if the controller does not answer.  `answers`, chosen at the start, says whether it does;
`BootEnds` is claimed if so.

`Bootloader` composes the two with the jumps between the stages and the ELF loader, up to
`MemoryManager::initialize` in the kernel that was started.

* `ImageLoaded`: if no sector failed three times and the image ends in the first two cylinders, no
  jump goes astray, and every segment of the kernel that starts is as the file has it, the rest zero.
* `TableRight`, if the memory of the table was zero: `MemoryRangeTable` lists the usable ranges of the map that are
  not empty, in order, none left out and none twice, up to as many as it has room for.  The last entry of the map is
  missing if the BIOS ends its list with it: the null entry overwrites it.
* `HeapInUsableMemory`: the heap ends where a usable range does that holds its base, if the map keeps the heap
  (`KeepsHeap`: its entry is not the one that gets overwritten, and no usable range before it reaches 4 GiB; a map in
  the order of addresses has none), or if the memory of the table was zero and no usable range reaches 4 GiB.  And
  where the map keeps the heap, it is missed only behind a full `MemoryRangeTable`.

Run `boot`: tracks of two sectors on two sides, segments of two sectors, so that the ends of tracks, sides and segments fall
differently; a kernel that ends with the second cylinder and one that does not; six failing BIOS calls,
enough to give up two sectors; words of four values, so that ranges lie above
"4 GiB", end there, and wrap; nine maps, with an empty entry, a high range whose low bits look like
the heap's, and more usable ranges than the kernel's table (two) takes.  Fairness: the CPU executes, BIOS
calls return, and the keyboard controller ends the polls if it `answers`.  The end of `BootEnds` may be a `hlt` or a jump to
what is no code: that the right kernel runs is the subject of `ImageLoaded`.  The system stops after the boot, so deadlock checking is off.

### Terminal

The screen of `vga.cpp` as functions from a display to a display, and beside it an
endless sheet of paper that is never scrolled.  `ScreenShowsTail` says that the
screen is the end of the paper; `LineShown` and `LineStays` are about the line
editing of `kernel_main`, in which `"\b \b"` erases and the last column is never
written.  Run `terminal`: 3 x 3 cells and up to five lines, so that the screen
scrolls twice, wraps, and is overwritten after a carriage return and a backspace.

### Timer and Pit

`sleep` compares the difference of two readings of a counter that wraps.  The timer
interrupt can come at every step, also between the test and `hlt`; other interrupts wake it
too.  Run `timer`: a counter of eight values and sleeps of up to five ticks, from each of its values.
Assumptions: the CPU makes a step in every millisecond, and no sleep comes
within two ticks of the counter's range (`DurationsAssumption`; the longest is 300
of 2^32).

`Pit` is `round_div` and the divisor of `set_frequency`, cut to 16 bits.  It has no state and no run;
`InterruptsProofs` says which frequencies come out right.

## 3. Runs

| Run | Expected | Shows |
|---|---|---|
| `queue` | pass | no torn read, refinement of the bounded FIFO |
| `search` | pass | bisection: bounds, result, termination |
| `heap` | pass | layout, list, allocations; when a merge and a free are safe |
| `heap_overlap` | violation | memory returned that a caller holds |
| `keyboard` | pass | no invented event, key state, handler returns, events polled |
| `ps2` | pass | the set-up ends; what is ready is a keyboard and works |
| `interrupts` | pass | master always acknowledged, requests served |
| `floppy` | pass | no timeout, in step, genuine results, motor as noted, calls return |
| `floppy_read` | pass | requests within a cylinder are right, the DMA stays in its buffer |
| `terminal` | pass | the screen is the tail of the output, line editing |
| `timer` | pass | sleep ends, never early, at most a tick late |
| `boot` | pass | the kernel on the disk is started, with a heap in usable memory |

The violation is the finding of `PROJECT.json`, with the line of the repository it
contradicts.  The runs check no type invariants: where one is part of an inductive
invariant it is proved.

## 4. Proofs

The proofs are for every value of the constants, under the named assumptions of
the modules, which TLC evaluates in the runs.

`EventQueueProofs` (assumptions: SIZE a positive natural number,
`NoElement` not an element):

* `TypeCorrect`: `Spec => []TypeOK`.
* `NeverTorn`: `Spec => []NoTornRead`.  `NoTornRead` is inductive together with
  `TypeOK`: a push writes only the slot `m_endIndex`, which differs from
  `m_startIndex` whenever the queue is not empty and not full, and only
  `pop_front_advance` moves `m_startIndex`.
* `Refinement`: `Spec => Fifo!Spec`.  One lemma per action: a push that is not
  refused appends to `Contents`, the advance takes its head, and the steps in between
  stutter.  The lemmas describe `Count` and `SlotOf` across the wrap without `%`.

* `SizeMayBeShort`: `size()`, which nothing calls, counts a queue that does not wrap, and is
  one short of one that does: it adds SIZE where the array has SIZE + 1 slots.

`MemoryManagerProofs`, on `FreeBlockSearch` (assumptions: lists are sorted sequences of naturals,
sizes are naturals):

* `SearchTypeCorrect`, `SearchInBounds`, `SearchCorrect`: from an inductive
  invariant that says, inside the loop, that the block at `start` is too small,
  that the blocks from `end` on are large enough and that `midpoint` is the mean of
  the two.  `ReturnsFirstGte` alone speaks only of the end of the loop and is not inductive.

`MemoryManagerProofs`, on `MemoryManager` (assumptions: `LayoutAssumption`, which only says that the region has room
for one block, that addresses fit into a word and that the sizes are not 0; and `RequestsFit`:
no request is so near to 2^32 that its padding wraps, which is the one thing
`get_smallest_gte_multiple` gets wrong):

* First, for all sequences of naturals, the operators of `FreeList`: `InsertSorted`, `RemoveSorted`
  (inserting where the search says keeps a list sorted, and so does removal), `FirstGteExists` and
  `FirstGteUnique` (there is exactly one such place, which with
  `SearchCorrect` makes the `CHOOSE` in `MemoryManager` the value the code computes).
* `HeapStaysTiled`, `FreeListStaysExact`, `FreeListStaysSorted`, `AllocationsAlwaysFit`: the four
  invariants of the structure.  None is inductive alone: where `malloc` and `remove_free_block` look
  depends on the order of the list, the order on the sizes, the sizes on the links, and which
  neighbour is merged on the `used` flags.  The invariant `HeapInv` has all of it:
  the headers form one chain to which every header belongs (`Chain`), the list holds headers, each once and in
  the order of their sizes (`ListOK`), never more than CAPACITY, and listed,
  unused and not allocated are the same as long as the list has not overflowed.  It says nothing of
  `prev` but that the first block has none: it holds with any stale links, until one is followed.
  `SplitChain` and `AbsorbChain` say what a split and a merge do to the chain and
  to the sizes of all blocks, `AddList` and `RemoveFree` what the vector operations do to the
  list; each step is a split or up to two merges, with the list carried along.
* `FreeAlwaysSucceeds`, `OverlapNeedsStale`: from the same invariant and from `Predecessor`, that a `prev`
  link which is not stale leads to the block that ends where this one begins.
* `StaleNeedsSplit`, `UnusedStayApart`: the action properties about links and unused neighbours.
  Merges keep all links right (`AbsorbLinked`), and a split sets those of the two parts.

`InterruptsProofs`, on `Interrupts` (assumption: lines are numbers of the two controllers, line 2 is
the cascade):

* `TypeCorrect` and `MasterAlwaysAcknowledged`: from `TypeOK`, `MasterAcknowledged` and
  `ServesOne`, which says what `MasterAcknowledged` leaves open: while a handler runs, one
  line of the master is in service, that of the interrupt it was called for,
  so the end of interrupt cannot hit another.

`InterruptsProofs`, on `Timer` (assumptions: the counter has at least two values, sleeps stay two ticks
below its range):

* `SleepTypeCorrect` and `SleepCorrect`: `Spec => []SleepsAsLong`, wherever the counter stands and
  whatever its range.  The invariant says that the wrapped difference the code compares is the number of
  ticks that really passed (`Counted`); that number must stay below the range for this, so for
  every step of `sleep` it also says how late it can be (`NotLate`).

`InterruptsProofs`, on `Pit` (no assumptions; statements about all 32-bit frequencies):

* `FrequencyRight`: from 19 Hz to two thirds of 1193182 Hz the count is even, not 0, and the
  timer's period off by at most one and a half cycles of the base.  The 1000 Hz of the kernel are among them.
* `HighFrequencyWraps`: above that the count is 0, and the timer as slow as it can be.

`FloppyReadProofs` (assumptions: the geometry is not empty, `s_dmaBuffer` starts on a page of
the DMA controller and a cylinder fits into that page):

* `TransfersConfined`: `Spec => []BufferConfined`, whatever is in the channel before
  `initialize_channel`.  `InitializeChannel` shows that address and count arrive although
  they are written in bytes behind a flip-flop of unknown state; the invariant then says that the
  channel is as far from the start of the buffer as it is from the end of its count
  (`ChannelInStep`), so that auto-initialisation takes it back to the start exactly when the buffer is full, wherever
  transfers break off.

* `WithinCylinderDelivered`: `Spec => []ReadsWithinCylinder`.  As long as no transfer broke
  off, every transfer starts with a full count, so what is copied is the cylinder that
  was asked for (`WholeTransfers`), also when the command before it moved everything and failed.  A request within a
  cylinder never leaves the first turn of the loop (`AtFirst`), whose offset and
  byte count are those of the request (`Position`, `SameCylinder`).  This is where
  `read_data` is right for all geometries; behind the first cylinder it is not.

`FloppyDiskProofs` (assumptions: those of the module - drives are numbers, at least one attempt, a timeout of at
least three ticks; for each property the timing it is claimed under):

* `MotorRight`: `Spec => []SelectedMotorRight`, for any controller.  The notes in the driver and the register
  agree (`Selection`), but for the time from power-on to the
  first write, for which the invariant says that the write is still to come and what it will be (`Unset`).
* `AlwaysInStep`, `ResultsAlwaysGenuine`: from `Step`, which says for every place in
  `execute_command` how many bytes the controller still takes or gives.  `InStep` alone is not inductive: a
  result byte read too early leaves one too many, so the invariant follows the surplus to the last look at the status
  register (`RQM = 0` or `BSY`), where the command is repeated.
* `NeverTimesOut`, `NothingLeftBehind`: from `Timely`, which adds where IRQ6 is: exactly one of on its way,
  latched, and handled from the byte that starts a command to the test of the flag
  (`OneInterrupt`), and nowhere otherwise.  Setting `waitingForIRQ` before the command makes sure that no
  interrupt comes before the flag is set.  Testing it before `hlt` does not make sure that none falls between the
  two; what such a lost wake-up costs is `TimeLeft`, the number of ticks that are certain to be left at each step of
  the loop: two when IRQ6 is handled, of which one may pass before the loop's next step and one ends `hlt`, so that
  one more comparison of the time succeeds.

`KeyboardProofs` (assumptions: the keys are among the four of the module; any size of the queue and any
number of polls):

* `InventsNothing`, `KeyTableRight`: `Spec => []NothingInvented` and `Spec => []KeyStateFollows`, for any
  number of key actions.  Both are about the ends of a pipe; the invariant (`KeepsStep`) says what is inside.
  There is a way to give every byte that is on its way, and the last one that was read, a place: the
  number of the action and the position in its scancode (`Tags`).  Reading moves on by one
  place (`ConsumeTags`), the user adds the places of a whole scancode (`AppendTags`).  The state of
  `parse_scancode` fits the place read last (`Fits`), which `ParseStep` shows byte by byte: this is where
  a table that mixed the codes up, or the missing branch behind E0 F0 12, would
  fail.  The handler returns once in the middle of a scancode, behind the third byte of print
  screen's release (`Half`), without an event.  What was decoded embeds into the actions up to that place, and the key
  table is the one after them (`Embeds`, `KeyStates`).

`TerminalProofs` (assumption: at least two columns and one row; any number of lines to type):

* `DisplayTypeCorrect` and `TailShown`: `Spec => []ScreenShowsTail`.  Each function of `vga.cpp` is compared
  with what the same characters do on endless paper: `NewLineKept`, `CharKept`, `MoveKept` and `ErasedKept`
  say that it keeps the relation `Kept` of the two, of which `ScreenShowsTail` is one part and the
  place of the cursor another, through the scroll too.
* `LineIsTyped`: `Spec => []LineShown`.  The invariant adds that the cursor stands behind
  what was typed and that the rest of its row is blank (`Editing`).
* `OtherLinesStay`: `Spec => LineStays`.  Typing never wraps, since the last column is
  never written, and erasing never leaves the row.

`SetupProofs`, on `PS2Controller` (assumptions: those of the module - at least one attempt, devices among the six kinds, bytes of
eight bits; any number of resend requests and of keys touched):

* `ReadyIsUsable`, `OnlyKeyboardsGetReady`, `KeyboardsGetReady`: the three invariants of the run.  None says anything
  of the time before the set-up is over, so the invariant numbers the steps of the driver (`at`, `Place`) and says for
  each what can be in the buffers between driver and device.
* `Base` holds whatever the hardware does and however late.  What is in the input buffer was written
  lately (`Entered`), and the configuration byte that is to stay is the last one (`Input`).  The byte
  DEVICE_OK is not on its way before the keyboard was reset (`Output`); so whoever reads it knows
  that the port is open and the keyboard scans (`Up`), however many old answers were mistaken for new ones on the way there.
* `Exchange` adds, for hardware in time and a user who keeps the hands off (`Calm`): at every step exactly the
  answer to the last command is on its way, or none (`Asked`, `Answering`, `Arriving`).  Whoever gets behind the
  identification is a keyboard, and what is read at the end was all there was.  `Fine`, the conditions of
  `InTimeSucceeds`, makes every answer the right one.

`SetupProofs`, on `Bootloader` (assumptions: those of the modules - at least two sectors in a track, so that the one
behind the boot sector is in its track; stage 1 fits into a segment, as `read_sectors` is called for it directly; program
headers are consistent and the linker puts no two loaded segments in one place):

* `KernelLoaded`: `BootSpec => []ImageLoaded`, for every geometry, size of a segment and kernel, and any number of failed
  reads.  At every step of the disk reader the invariant (`Boot1Loading`, `KernelLoading`) says which sector of the disk is
  next, that the next slot of memory is as far from the start of the file (`NextIs`, `HasBoot1`, `HasKernel`), and that
  the sectors left, in this segment and behind it, are those the file still has.  `NextSectorFollows` is the arithmetic of
  sector, head and cylinder: it holds up to the end of the second cylinder and not behind, which is why
  `ImageLoaded` is claimed for such files only.  `Loaded` says that the segments copied so far
  stay as they are; without `DisjointAssumption` a later one could cover them.

`SetupProofs`, on `Bootloader` too, for the memory map (assumptions: those of `MemoryMap` - an entry is three numbers of four
words, a map has at least one entry, and the table at least one slot more than the map has entries; any word size of
at least two values, any size of the kernel's table, any maps and any leftovers):

* `MemoryMapCopied`: `BootSpec => []TableRight`.  Two lists are made one from the other, and what is lost between them
  is what the property is about, so the invariant `MapIInv` says of each where its elements came from: slot k of the
  table holds entry `from[k]` of the map (`Stored`), range k is that of slot `place[k]` (`Found`), both functions
  increase, and they leave out only entries that are empty, and slots that are not usable.  A list that is built entry
  by entry this way needs no induction over the map: each turn of a loop adds one place (`StoreNext`, `FindNext`).
  Between two calls of the BIOS the invariant also says that slot `di` holds the entry given last (`Collecting`),
  which the null entry makes unusable in whatever state it is (`NullUnusable`).  The two functions composed are the
  one that `TableRight` asks for.
* `HeapWellPlaced`: `BootSpec => []HeapInUsableMemory`, from the same invariant and from `Chosen`, that the heap ends where
  the *first* range does that holds its base.  That range is not behind the one of the entry for the heap, so it comes from
  the map and not from what was left behind the table, and from an entry of which nothing was cut off (`HoldsAlike`).

Only model-checked: liveness (`Terminates`, `HandlerReturns`, `EventsArePolled`, `RequestsServed`, `CallsReturn`,
`SleepEnds`, `InitEnds`, `BootEnds`), because fairness and ENABLED are outside what the provers handle.
No module has a RECURSIVE operator.

## 5. Not modelled

* GDT, IDT entry encoding, crt and linker files: straight-line code that writes
  constants.  CPU exceptions reach the generic handler too; what it does to
  their stack frames is below the level of the models.
* Printing and number formatting.
* The other entries of the scancode tables: data, generated by a script.
* How the A20 line is checked, what the bytes to the keyboard controller say, and the switch to protected mode:
  `Bootloader` has the polls of the controller, and that the line is enabled behind them or the bootloader stops.
* The port tables of `dma.cpp` and the mode byte of `set_frequency`: constants.
* `memmove` and `memset`, which the kernel does not call; `memcpy` is part of `FloppyRead`.
* ErrorOr and `TRY`: the failing branches of the actions that use them.

## 6. Plan

Done, in this order: event queue, bisection and heap, keyboard, interrupts, floppy disk,
terminal, timer, PS/2 controller, bootloader and memory map, DMA, and the proofs of section 4.
Next: `memcpy` and `memmove` byte by byte, and the remaining scancodes.
