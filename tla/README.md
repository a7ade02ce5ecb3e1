# NanoShell Experimental: a TLA+ verification project

NanoShell Experimental is a small 32-bit x86 kernel in C. What it has beyond start-up
code is a memory manager (physical frames, a kernel heap, user address spaces with
demand paging and copy-on-write), an interrupt-driven keyboard, a console and the
usual string and formatting routines. It runs a single thread; interrupt handlers and
the page-fault handler are the only other actors.

This directory holds TLA+ models of that code, the TLC configurations that check them
on small instances, and proofs of some of the results for every size, checked by
TLAPS. `PROJECT.json` lists the runs, maps every definition to the lines it stands
for, and records the hazards, the findings and the theorems. Paths below are relative
to the repository (`src/mm/uheap.c` and so on).

    tlc -config UserHeap.cfg MCUserHeap.tla      # a run; see the table below
    tlc -config KernelHeap.cfg KernelHeap.tla
    tlc -config Sequential.cfg MCSequential.tla
    tlapm UserHeapProofs.tla                     # proofs; so for every *Proofs.tla

## 1. Inventory

| Part | State | Operations | Hard behaviour | Correct if |
|---|---|---|---|---|
| User heaps, `mm/uheap.c` | `UserHeap` objects: reference count, page directory, page tables (in kernel-heap pages), page entries; `g_pCurrentUserHeap` | create, clone, kill, map (fixed hint, with or without clobbering), create one mapping, create/remove a page table, unmap, use | frames shared by clones; lazily allocated pages; half-done mappings | references match mappings; nothing is freed in use, nothing leaks; heaps do not see each other's stores |
| Page faults, `mm/fault.c` | none of its own | demand paging, copy-on-write, invalid faults | runs inside any access, takes frames and counter tables | as above |
| Page reference counter, `mm/pmrcount.c` | two-level table of counters, second level in kernel-heap pages | reference, unreference | a table must outlive its last counter; panics on a zero count | counter = number of mappings; tables exactly while needed |
| Physical memory, `mm/pmm.c` | bitset of frames | find, request, set, clear, initialise from the boot loader's map | frame 0 doubles as the failure value; casts of region sizes | a set bit = a frame in use |
| Kernel heap, `mm/kheap.c` | page entries (these are the page tables), pages per allocation | allocate, with or without physical addresses, reallocate, free, map physical memory | pages that are given out but not yet present; sizes that wrap; searches at the end of the array; frames that run out | blocks are disjoint, and owned until freed; every frame returned once |
| Wrappers, `mm/shim.c`, `mm/uheap.c:536-650` | interrupt flag, the heaps' locks | the same calls, with interrupts off or a lock held | interrupts enabled on return whatever they were before | the flag and the locks are balanced |
| Locks, `lock.c` | held flag, owner address | lock, unlock | a lock that is taken stops the system | never taken twice |
| Interrupts, `idt.c`, `asm/interrupt.asm` | descriptor table, tick count | timer, keyboard, page fault, system call | arrive between any two instructions | see keyboard |
| Keyboard, `keyboard.c` | ring of 32 characters, two indices, key states | interrupt adds, reader polls, waits with `hlt`, flushes | interrupt against reader; a ring without a test for full; test-then-`hlt` | no key lost, repeated or reordered; a wait ends |
| Console, `console.c` | cursor, screen, wrap mode, line buffer | print, scroll, move, read a line | cursor at the edges, scrolling in wrap mode | the cursor stays on the screen |
| Printing, `print.c` | format state | `vsnprintf` | padding state, buffer ends | writes inside the buffer |
| Strings, `string.c` | none (`Tokenize` keeps a state) | copies, compares, conversions | boundaries | as their reference definitions |
| Start-up and debugging, `main.c`, `debug.c` | interrupt flag | stop, log, enable/disable interrupts | `KeStopSystem` ends everything | |
| Hardware set-up and data: `vga.c`, `extra/fonts.h`, `asm/*.asm`, boot code | registers | | | |
| Headers without implementation: `elf.h`, `task.h`, `variant.h` | | | | |

Interactions. `uheap.c` takes the object, the directory and the page tables of a heap
from `kheap.c`, and counts the frames of user pages with `pmrcount.c`, whose tables
come from `kheap.c` too. Kernel-heap pages and user pages get their frames from
`pmm.c` when the page-fault handler serves the first access, so a frame is taken in
the middle of what looks like an assignment. Giving back is the reverse:
`MuiKillPageEntry` clears the bit in the bitset *and* drops a reference, two accounts
of the same frame that have to agree.

The hazards, each at its line and with the properties that watch it, are in
`PROJECT.json`.

## 2. Modules

| Module | What it is |
|---|---|
| `FrameBitset` | The order in which frames are found: lowest first. Used by the two heaps. |
| `UserHeap` | User heaps, page faults, reference counter and frames as one state machine. |
| `PrivateMemory` | What user heaps promise: every heap has a memory of its own. Abstract specification. |
| `MCUserHeap` | Instances for TLC: which table covers a page, symmetry, a view. |
| `FrameBitsetProofs` | Lemmas about `FrameBitset`. |
| `UserHeapProofs` | Proofs about `UserHeap` for any caller: types, page tables, counters. |
| `UserHeapOwnerProofs` | Proofs about `UserHeap`: leaks, owners of frames, private memories and the refinement. |
| `KernelHeap` | The kernel heap, with its callers and the page-fault handler. |
| `BlockAllocator` | What the kernel heap promises: an allocator of disjoint blocks. Abstract specification. |
| `KernelHeapProofs` | Proofs about `KernelHeap`, the refinement included. |
| `Keyboard` | The key buffer between interrupt handler and reader. |
| `KeyQueue` | What the buffer promises: a queue. Abstract specification. |
| `KeyboardProofs` | Proofs about `Keyboard`, the refinement included, and about the lines of `Terminal`. |
| `Console` | Cursor and screen under `CoPrintChar`, and line input, `CoGetString`. |
| `LineEditor` | What line input promises: the line as it was edited. Abstract specification. |
| `ConsoleProofs` | Proofs about `Console`, the refinement included. |
| `Terminal` | `Console` and `Keyboard` composed: programs that read lines while keys arrive. |
| `Locking` | The interrupt flag, the heaps' locks, the wrappers, nested page faults. |
| `LockingProofs` | Proofs about `Locking`. |
| `Translation` | The processor's cached translations over the page entries of user heaps. |
| `MapSearch` | Addresses: range checks and the search for a free place, on numbers that wrap. |
| `Pmm` | The frames of the boot loader's memory map, from `MpInitialize` on. |
| `Format` | `vsnprintf`. |
| `Strings` | `string.c`. |
| `MCSequential` | The instance for TLC of `Translation`, `MapSearch`, `Pmm`, `Format` and `Strings`, none of which another part interrupts. |
| `SequentialProofs` | Proofs about `Pmm`, `MapSearch`, `Translation`, `Format` and `Strings`, and about `RoundTrip`. |

Operators marked "mutant" are deliberately wrong variants of the definition that
follows them. No specification uses them; put in place of that definition, each makes
a run fail, which shows that the property depends on it.

### UserHeap

*State.* `used` is the bitset; `refCount` and `level1` the two levels of the counter;
`nRefCount`, `directory`, `table`, `entry` the heaps; `current` is
`g_pCurrentUserHeap`; `memory` what the frames hold; `system` is "running" or the
reason of `KeStopSystem`. A page entry is a record of the bits the code tests and a
frame. The `UserHeap` object and its page directory are created and freed together and
never apart, so one frame stands for both.

*Actions.* One per call, whole: `CreateHeap`, `CloneHeap`, `KillHeap`, `MapRange`
(fixed hint without clobbering), `ClobberPage` (one iteration with clobbering),
`CreateMapping`, `CreatePageTable`, `UnMap`, `RemovePageTable`, `UseHeap`; a program's
`Store`; and the branches of the page-fault handler: `DemandFault`, `CowReuse`,
`CowCopy`, `InvalidFault`, `FaultOutOfMemory`. A call is one step because the kernel
has one thread and no interrupt handler touches this state. The one thing that does
happen inside a call is a nested page fault, when a fresh kernel-heap page is first
written; its effect, taking a frame, is part of the step.

*Running out.* A call that finds too few frames ends in `KeStopSystem`
("outOfMemory"): the nested fault cannot be served. What the call had changed until
then cannot be observed, since nothing runs afterwards, so the step leaves it out.
That is why the roll-back branches of the code that follow a failed kernel allocation
never run: a kernel-heap page is given out before it has a frame.

*Freed in use.* `MuiKillPageEntry` gives a frame back whatever its count (finding
below). A frame can therefore come into use twice. While user pages are involved the
model follows this exactly. When the frame holds a page table, a directory or a
counter table, what its contents then mean to the processor is arbitrary; the model
ends with `system = "corrupted"` and claims nothing further.

*Three specifications.* `Spec`: any legal call in any order. `CarefulSpec`: the
callers give up no page whose frame is mapped elsewhere (`FreesOnlyUnreferenced`).
`PrivateSpec`: in addition pages come to share frames only by cloning, not by
`MuCreateMapping` with an explicit frame. What holds under `Spec` holds for every use
of the interface. What needs `CarefulSpec` fails under `Spec`, by the finding.

*Not in the inputs.* `CreatePageTable` is called only where there is none, as inside
`uheap.c`; explicit mappings through `MapRange` and `ClobberPage` are of device
frames. The other uses break the counters in ways the hazards name; they are planned
as a module of their own. Kernel frames are taken in rising order within a call; their
identity matters to nothing but which of them is which.

### KernelHeap

*State.* `entry`, `allocSize`, `used` are the arrays and the bitset. `held` is the
callers' side: which blocks have been given to whom, by the addresses and sizes that
were returned. `system` is as above, with "outOfBounds" for an access behind the
arrays, of which nothing more is said.

*Sizes.* The unit is the page. The code's sizes are 32-bit bytes, so 2^20 pages are
zero bytes: `AddressPages`. `MhReAllocate(p, 0)` computes `(0 - 1 >> 12) + 1 = 2^20`
pages (`Needed`), and the block's old size in bytes is then zero (`Fits`).

*Actions.* `Allocate`, `AllocatePhys`, `MapPhysical`, `FreeBlock`, `FreePage`,
`ReAllocate` (`Shrink`, `GrowInPlace`, `Move`), and `Touch`, the fault on the first
access to a page. `Move` includes the faults of its `memcpy`. The search for a hole
goes by `PRESENT` only and does not stop at the end of the array: `RunsOff` lets it
either find nothing or go out of bounds.

*Two specifications.* `Spec`: any call. `CarefulSpec`: what the callers in this
repository do, `uheap.c` and `pmrcount.c`: they write to the pages of a block before
the next allocation (`Settled`), ask for no size zero and, an assumption on the
machine and not on the callers, the search does not run off the array and frames
suffice for a block with physical addresses.

### Keyboard

*State.* The ring with the byte behind it, the two indices, where the reader is, how
many keys have been typed, and what the reader has returned. A key is its number in
the order of typing; which character it is, and the table of key states, is data.

*Steps.* The handler is one step (interrupt gate, so interrupts are off in it):
`PressKey`, `OtherKey` (a release, or a key without a character) or `Tick` (the
timer). The reader's steps are as fine as interrupts can see: the test of the wait,
the `hlt`, the reading of a key, the two stores of a flush (in the order the statement
has; the Makefile asks for no optimisation).

*Index 32.* The wrap is `while (end > 32)`, so 32 itself is used as an index, one
behind the array. The byte there belongs to something else or to nothing, as the
linker has it: the store either does no harm, or `system` becomes "overrun" and
nothing more is claimed. The properties speak about the first case.

*History.* `lost` says whether a key has come to a full buffer. It decides nothing in
the code's steps; `KeyQueue` promises an exact queue until then, and afterwards only
that what is read keeps rising.

### Console

*State.* `curX`, `curY`, `textBuffer` as in the code, a place on the screen holding a
letter or nothing; `outside` records that something was plotted off the screen.
`state`, `size`, `index`, `buffer` are `CoGetString`: whether it is running, its
`max_size`, and the caller's buffer.

*Actions.* `PrintChar` is a character printed by anyone while no line is being read.
`GetString` is the call; `GetLetter`, `GetBackspace` and `GetEnter` take one key each
and echo it in the same step, as nothing runs in between that prints; `LineFull` is
the end of the loop. Which key comes is left open: `Keyboard` says in which order they
come. The wrap mode of `CoScrollUpByOne` is not modelled: nothing sets `pushOrWrap`.

*Why the screen is interesting.* `CoPlotChar` checks nothing, so that the cursor stays
on the screen is all that keeps it from writing behind the buffer. A backspace at the
start of a row has to find the end of the row above, and the scroll that an echo
causes must move the line with the cursor; `LineOnScreen` relates the screen to the
buffer over any mixture of these.

### Terminal

*State.* That of `Keyboard` and of `Console`, and two history variables: which
character each key was, and which key was the first not yet read when `CoGetString`
was called.

*Steps.* Interrupts are those of `Keyboard`, between any two steps of the reader. The
reader's steps are those of `KbWaitForKeyAndGet`, and the one that takes the key also
does what `CoGetString` does with it: nothing that an interrupt changes is looked at
in between. When the buffer has overflowed between the test and the reading, the wait
returns zero, which goes into the line (`GetZero`).

*Properties.* `LineIsTyped` goes from the keyboard's interrupt to the caller's buffer:
a line is what the characters typed for it make of it, from the first that no one had
read, without a gap, to the last one read. `LineReturns` is liveness: a call of
`CoGetString` returns once there is an Enter to read. The hazard is the step between
the test and the `hlt`: the key's own interrupt is over by then, and it is the timer
that wakes the reader.

### Locking

*State.* The interrupt flag; for each place where a user heap can be whether its lock
is held (the flag is in memory of the kernel heap and is still there when another heap
is made at the same address); the call that runs and how far it is; the handlers that
have interrupted it, the innermost last.

*Steps.* A call is as many steps as there are places where an interrupt makes a
difference: locking, entering and leaving the kernel heap, `cli` and `sti`. What a
function does to memory is in the other modules; here it is whether it may run. How
often a function on a user heap needs the kernel heap is left open (`MaxHeapCalls`).
Between any two steps a timer or keyboard interrupt may come if the flag allows it,
and a page fault where the code touches a new page of the kernel heap (`KernelFault`) or
user memory (`UserFault`). User memory is touched in three places (`TouchesUserPages`):
by the program outside of the calls, in the bodies of the mapping functions, which read
`pPhysicalAddresses` and store `*pAddressOut` with the heap's lock held, and inside of
the kernel heap, where `MhSetupPage` stores `*pPhysOut` (`kheap.c:108`) through the
pointer that the caller of `shim.c` gave. A fault on a user page may need a counter table
(`pmrcount.c:75`), enters the kernel heap, and its first access to the table faults
again. So the kernel heap can be entered while it is being used.

*Uninterrupted, not exclusive.* `HeapIsUninterrupted` says what the flag does for the
kernel heap: while one of its functions runs, be it the program's or a fault handler's,
interrupts are disabled, no interrupt handler is in between, and no handler on the way
back enables them. It does not say that one function at a time uses the heap, which the
code does not ensure: what the second entry can do is in section 5.

*Stops.* An assertion of disabled interrupts that fails, and a lock that is held or
not held when it should not be, end everything (`system`). The Mu wrappers do not
disable interrupts and call functions which assert it, so whether they stop depends on
their caller; `CallsReturn` allows this stop for them, and for the wrappers of
`shim.c` none.

### Translation

*State.* Page entries per heap, the heap in use, and `tlb`. The processor may cache a
present entry of the heap in use, or drop one, at any time (`Fill`, `Evict`).

*What is claimed.* `TranslationsHold`: a cached translation agrees with the page entry
and has no right that the entry has lost. Two paths leave one behind:
`MuiKillPageEntry` invalidates only if it is given an address other than zero
(`uheap.c:78`), and `MuiKillPageTablesEntries` gives it none (`uheap.c:90`). `stale`
is the set of pages left so, and both properties leave these out until they are
invalidated. Frames are those of careful callers (see `UserHeap`).

### MapSearch

Addresses are numbers of `AddressBits` bits, and all arithmetic wraps as the code's
does. Page entries are "none", "demand" or "present". `held` is the callers' side:
what they were given and have not unmapped. A caller unmaps what it was given; an
address in the middle of a page, which a caller's own hint can produce, runs into the
assertion of `MuiUnMap` (`stopped`).

"Free" has two meanings in the code: the search asks for pages that are not present, the
mapping for pages with no entry at all, so a demand page is free for the one and not for
the other. `FindsPlace` is stated with neither: `room` is pages without an entry that end
before the kernel heap. If there is room, the search comes to a place in the user's half,
and the mapping there succeeds or has met a demand page. That it does meet one although
there is room elsewhere is in section 5.

### Pmm

The region loop of `MpInitialize` goes by frames, casts lengths to `int` and cuts
addresses to 32 bits: `AddressesOf` and `AsInt` do the same with fewer bits.
`KernelAndModulesStay`, `FramesAreMemory` and `ZeroMeansNone` say what the rest of the
kernel can assume of it: frames of the kernel and of modules are never handed out, no
frame is invented and no memory lost, and zero is not a frame. Memory that the map
reserves is not safe: the scan goes by frames, so a frame that an available region shares
with a reserved one is offered, and a region above the limit is cut to addresses that may
be reserved. `OfferedIsMemory` allows these two cases, which the instance contains, and
no other (section 5).

### Format and Strings

`Format` takes one step per round of `vsnprintf`'s loop. Characters are their codes.
`said` is the text the format has promised so far, with the padding in `asked`, which is
written down with each format. What it has to be is stated by `Asks`, in terms of the
format alone: where the conversions begin, and that each is padded as the last flag up
to it says, since `paddingInfo` and `paddingChar` are not reset. `Asks` is an
assumption about the calls, which TLC evaluates; it uses nothing of `Directive`, which
is the code's way of finding out. `RendersAsAsked` compares what the two lead to, for
decimal numbers. A hexadecimal one is promised all digits of its type and no padding, the
type being a byte for `b`, a word for `w`, an `int` for `x` and `p`, two for `q`
(`PromisedHex`), as the comments in the code say (`print.c:249`, `print.c:270`); the one
in front of it, `print.c:65`, gives `b` and `w` each other's type, and a property in its
words would fail for every `%b` and `%w` (section 5).

`Strings` runs the functions over a small memory. The functions are operators; the
properties quantify over all arguments, in all the memories that calls lead to.
Bytes are compared as the `char`s that they are, negative from 128 on (`Signed`), so
`strcmp` does not sort by codes; it is an order all the same.
`Tokenize` has its state as variables, and its property is about sequences of calls:
where each token starts, where it ends, and that what is left has not been touched.
`RoundTrip` relates the two modules: `atoi` reads back what `%d` prints.

## 3. Runs

| Run | Instance | Shows |
|---|---|---|
| `userheap` | `Spec`; 2 heaps, 1 page, 7 frames, 2 counter tables | counters, counter tables, page tables and leaks, for any caller |
| `userheap_careful` | `CarefulSpec`; 2 heaps, 2 pages of one table, 9 frames, a device | the bitset is exact, no frame serves two purposes |
| `userheap_private` | `PrivateSpec`; 3 heaps, 1 page, 11 frames, 2 values, a device | writable pages are alone on their frame; refinement of `PrivateMemory` |
| `kheap` | `Spec`; 3 entries, 2 frames, blocks to 3 pages | frames are taken and returned once, for any caller |
| `kheap_careful` | `CarefulSpec`; 5 entries, 4 frames, blocks to 4 pages | sizes, pages, refinement of `BlockAllocator` |
| `console` | 2 by 3 screen, 2 letters, buffers of 1, 3 and 5 bytes | the cursor stays on the screen; a line shows as edited and is returned as edited (refinement of `LineEditor`) |
| `terminal` | ring of 3, 6 keys, 1 letter, buffer of 3 bytes, screen of 1 place | refinement of `KeyQueue`, overflow included; lines are what was typed; a line with an Enter returns |
| `locking` | 3 places for heaps, up to 3 kernel-heap calls per call | no interrupt while the kernel heap is used, whatever faults come; locks are balanced; calls return |
| `sequential` | one of five machines: `Format` (16-bit `int`, buffers of 1, 4, 9 and 40), `Strings` (5 bytes, 4 characters), `MapSearch` (5-bit addresses, pages of 2), `Translation` (2 heaps, 2 pages, 3 frames, a device), `Pmm` (6-bit addresses, frames of 4) | printing and strings are as defined; callers own what they map; a search with room leads to free or demand pages; no stale translation; frames are neither invented nor lost |
| `userheap_free`, `userheap_clone`, `kheap_full` | | findings, section 5 |

Why the bounds are enough. Sharing needs two heaps; sharing that outlives the source
of a clone, and clones of clones, need three (`userheap_private`). One page per heap
suffices for the counters, which add up over heaps; ranges, roll-back and a page table
with several entries need two pages (`userheap_careful`). Two counter tables make one
of them empty while the other is not. Frames are as many as the largest state needs
plus, in `userheap`, few enough for the system to run out. In `KernelHeap` three
entries allow a hole that is too small, a block that cannot grow and has to move, and
a search that runs off the end; two frames make them run out. Five entries let a block
move over the place it has left. A ring of three with six keys wraps around,
overflows, and holds a whole line with its Enter before the line is asked for. In
`terminal` what single keys a program takes before its first line are letters, and
later it only flushes between lines: other characters make a difference only in a
line, and a key is taken in the same way in both. One letter suffices, since keys are
numbered; the screen, whose contents `console` covers, has one place. `AddressPages =
16` stands for 2^20; it only has to exceed the array. Device frames are in the
`careful` and `private` runs and in the proofs; `userheap` has none. On the screen of
two by three, a line of four letters covers two full rows, so it scrolls and is
deleted over both row ends; a buffer of one byte has room for the terminator only.

Three places for heaps allow a heap in use, one that is cloned and one that is made;
three kernel-heap calls are one per object of a heap. Handlers nest at most twice, in the
model as in the code (`TypeOK`). In `sequential`, a format is one
conversion of each kind, numbers have all kinds of flags and follow one another, some
formats end in the middle of a conversion or have one that does not exist, and the
buffers are full everywhere from
the terminator on; five bytes hold two strings that overlap by some or all of their
bytes. Mappings of 1, 2 and 15 pages fit, compete and wrap around the address space,
from hints below the area for mappings, in the middle of a page, and at the very end
of the addresses. The memory maps have a hole, a region of half the address space or
more, regions that begin and end in the middle of a frame, one of them with a reserved
region in the rest of the frame, and one above the limit that is cut to a reserved frame;
modules start and end in the middle of a frame. The bytes of `Strings` are the terminator,
a letter in both cases, and one that is negative as a `char`. Two heaps, a page besides page zero and three
frames let a page be shared, copied and given up. Sixteen bits replace the 32 of an
`int` because TLC's own integers have 32; every operator takes the width as a
parameter.

The five machines of `sequential` share no variable, and nothing interrupts any of
them; `job` chooses one for a behaviour, so their states add up and do not multiply. The
others stay as they start, in one of their initial states (`MCSequential!Init`).

Fairness. `terminal`: weak fairness of the program's steps, since the processor
executes instructions, and of `Tick`, since the timer runs freely from `KeTimerInit`
on and `KeIdtInit` ends with `sti`. No fairness of the person typing. `locking`: weak
fairness of the handlers' steps; strong fairness of the call's own (`Progress`) and of the
handler of a user fault (`UserHandler`), which interrupts, or faults on the kernel heap,
disable and enable again and again: the timer's period is far longer than its handler, so
the program goes on between two interrupts, and a page fault that has been resolved does
not repeat. No fairness of calls: a program need not call anything.

Symmetry and view. Heaps are interchangeable in every action and property, and
`HeapSymmetry` is used for safety only (in `sequential` too, where `MapSearch`'s and
the others' states have no heaps). `FrameView`, in the runs of `CarefulSpec` and
`PrivateSpec`, identifies states that differ by a renaming of frames. That is sound
there: under these specifications a free frame is held by nobody and is like every
other (one counter table covers all frames in those instances), so which of them the
lowest-first search returns makes no difference to any state up to renaming, and no
property names a frame. Under `Spec` a free frame may still be mapped, so the view is
not used. `SequentialView`, in `sequential`, does the same for `Translation`, where the
free frames are the ones that no entry holds: it keeps the entries, the cached
translations, and for each frame who maps it and which translations use it. Only of a
translation that is stale (in `stale`) the frame is left out: no step reads it, the two
properties leave such a page out, and the page goes out of `stale` only when its
translation goes. The states of the other four machines are seen as they are.

## 4. Proofs

Every theorem holds for all values of the constants that satisfy the module's
assumption, and the hypotheses are no more than that: `ConstantsAssumption` (finite
sets of heaps, pages, frames and tables, pages and frames numbered, devices outside
the allocator), `KernelHeapAssumption`, `KeyboardAssumption` and so on, stated as
`ASSUME` in the module. Which callers a theorem
is about is said by the specification it starts from (`Spec`, `CarefulSpec`,
`PrivateSpec`).

| Module | From | Theorems |
|---|---|---|
| `UserHeapProofs` | `Spec` | `TypeCorrect`, `TablesCorrect`, `RefCountCorrect`, `NoBadRefCount`, `Level1Correct` |
| `UserHeapOwnerProofs` | `Spec` | `NoFrameLeaks` |
| | `CarefulSpec` | `BitsetCorrect`, `OneOwnerPerFrame` |
| | `PrivateSpec` | `WritableIsExclusive`, `HeapsStayPrivate` (refinement of `PrivateMemory`) |
| `KernelHeapProofs` | `Spec` | `TypeCorrect`, `FramesCorrect` |
| | `CarefulSpec` | `SizesCorrect`, `PagesCorrect`, `BlocksRefined` (refinement of `BlockAllocator`) |
| `LockingProofs` | `Spec` | `TypeCorrect`, `HeapUninterrupted`, `LocksFreed` |
| `ConsoleProofs` | `Spec` | `CursorStays`, `TypeCorrect`, `LineStaysOnScreen`, `LineEdited` (refinement of `LineEditor`) |
| `KeyboardProofs` | `Spec` | `TypeCorrect`, `BufferRefinesQueue` (refinement of `KeyQueue`) |
| | `TerminalSpec` | `QueueUnderLines`, `LinesAreTyped` |
| `SequentialProofs` | `PmmSpec` | `BlockedFramesStay`, `OfferedExactly`, `ZeroIsNoFrame` |
| | `SearchSpec` | `MappingsOwned`, `PlacesFound` |
| | `TlbSpec` | `TranslationsStay`, `WritesStayPrivate` |
| | `FormatSpec` | `FormatStaysInBuffer`, `FormatRenders` |
| | `StringsSpec` | `CopiesExact`, `ComparesAsOrder`, `TokenizeSplits` |
| | `Spec` of `MCSequential` | `NumbersReadBack` |

The run `sequential` composes the specifications of its five parts; the theorems are
about each of them alone, and hold of the composition by `PartsRun`: a step of
`MCSequential` is a step of one part and leaves the variables of the others as they are.

### UserHeap, any caller

* `TypeCorrect`. More than types: counters are natural numbers, so none goes below
  zero, and no entry is writable and copy-on-write at once. One lemma per action;
  `PickType` and `ReleaseType` carry the arithmetic.
* `TablesCorrect`. Inductive relative to `TypeOK`.
* `RefCountCorrect`. The invariant is `CountInv == TypeOK /\ EntriesHaveTables /\
  RefCountExact`. `EntriesHaveTables` is needed because a clone adds one mapper per
  page of its source only if the heap that is made has no entries left from an earlier
  life. The steps fall into a few shapes, each a lemma about `Mappers`: nothing counted
  changes (`SameMappers`), one entry changes (`OneEntry`), the pages of a heap are
  killed (`KilledPages`).
* `NoBadRefCount`. From exactness: whoever maps a frame is among its mappers, so its
  counter is at least the number of pages given up.
* `Level1Correct`. A step raises some counters (and makes the tables they need) or
  lowers some (and frees the tables that become empty), never both.
* `NoFrameLeaks`. Every step is of one of two shapes, `Grows` (frames are taken, and
  each of them is put somewhere) or `Shrinks` (what a step lets go of it also gives
  back), and both keep `NoLeak` next to `CountInv`.

### UserHeap, careful and private callers

* `BitsetCorrect`, `OneOwnerPerFrame`. `OneOwner` is not inductive: it counts owners
  and says nothing of *which* step could make two meet. The invariant `OwnerInv` says
  it pairwise (`Exclusive`: directories, page tables and counter tables have different
  frames, and none of them is mapped) next to `TakenExactly`; a new owner gets a frame
  that is not taken, hence by `TakenExactly` nobody's.
* `WritableIsExclusive`. The invariant is `PrivateInv == OwnerInv /\ WritableExclusive`:
  a fault makes a page writable on a frame that was free, so by `OwnerInv` mapped by
  nobody, or that nobody else maps; a clone takes the right from both.
* `HeapsStayPrivate`. Every step of `UserHeap` is a step of `PrivateMemory` or changes
  nothing that heaps see. The cases are grouped by what happens to the contents
  (`ContentStep`): nothing, a whole heap, a range of pages, one stored value.
  By `PrivateInv` a store changes the contents of one heap only.

### KernelHeap

* `TypeCorrect`, `FramesCorrect`. `FramesInv` joins `FramesExact` with the types; one
  lemma per action, with the faults of `memcpy` in a move as the largest.
* `SizesCorrect`, `PagesCorrect`. Neither is inductive alone. `BlocksInv` says that
  held blocks lie in the array, have their recorded sizes and do not overlap, and that
  the entries in use are exactly theirs; `CarefulInv` is that and `FramesInv`. Careful
  callers leave no entry of a block without its frame when they ask for the next, so
  the search, which goes by `PRESENT` only, finds pages that nobody holds.
* `BlocksRefined`. From `CarefulInv`, action by action: the search gives a disjoint
  block, and `Shrink`, `GrowInPlace` and `Move` change no other.

### Locking

* `TypeCorrect`, `HeapUninterrupted`, `LocksFreed`. `LockingInv` describes the handlers
  that have interrupted one another (`HandlersInv`): an interrupt handler or a fault on a
  user page is the first, a fault on a user page comes where user pages are touched, and
  only such a fault uses the kernel heap; that interrupts stay disabled while the program
  is in the kernel heap, whatever handler returns (`DisabledInv`); and for each step of
  a call which locks it may hold (`CallInv`). `HeapIsUninterrupted` follows by cases on
  the handlers.

### Console

* `CursorStays`. Inductive with the type of the screen (`ScreenInv`); `PlaceOnScreen`
  is the arithmetic of `x + y * width`, and `AdvanceType` says why one push suffices: a
  step advances by at most one row.
* `TypeCorrect`. The index of `CoGetString` stays inside of the caller's buffer: while
  the loop runs, `index < size`.
* `LineStaysOnScreen`. Inductive together with `ScreenInv` and the type of the line
  (`LineShown` is the property with its products multiplied out). A scroll moves line
  and cursor alike, and none drops the start of the line while it fits on all rows but
  one.
* `LineEdited`. The line so far consists of letters (`LineLetters`), so the terminator
  ends the string exactly where the line ends.

### Keyboard

* `TypeCorrect`, `BufferRefinesQueue`. `IndexInv` bounds the indices, the one behind the
  array included. `Rising` says that the unread keys rise, and that all that have been
  read are older; the promise after an overflow rests on it. Before an overflow each
  step adds to, takes from or empties `Unread`, by arithmetic on two indices that wrap
  at different times.

### Terminal

* `QueueUnderLines`. Every step of `Terminal` is a step of `Keyboard` or leaves it alone
  (`KeyboardSteps`).
* `LinesAreTyped`. `LineIsTyped` is a property of steps; the invariant behind it,
  `TerminalInv`, is about states. `Consecutive`: until the buffer overflows, the unread
  keys are the last ones typed, without a gap, so the one that is read next is known by
  its number. `WaitInv`: when the reader takes a key there is one, although interrupts
  come between its test and its taking, and nobody flushes the buffer during a line.
  `Reading`: the line holds letters only and is `Edited` of the characters from `first`
  to the last one read, none of which is Enter. `Edited` is a recursive function: a
  solution exists for every text and two solutions agree (`EditsExist`, `EditsAgree`, by
  the least place where one fails), so one more character is one more `Edit`
  (`EditedNext`). The assumption is that letters, Backspace, Enter and the terminator
  differ (`TerminalAssumption`).

### Translation

* `TranslationsStay`, `WritesStayPrivate`. Every step sets one entry and invalidates its
  page, kills entries and marks what it leaves behind as stale, clones, caches, or
  switches heaps (`TlbShape`). `TlbInv` joins `TranslationsHold` with `WritableAlone`: a
  page with the right to write has its frame to itself. That is needed for
  `NoWriteSneaksIn`, since a translation with the right stands for an entry with the
  right.

### Pmm

* `BlockedFramesStay`, `OfferedExactly`, `ZeroIsNoFrame`. `PmmInv` says of each phase of
  `MpInitialize` what has been done so far: what is blocked neither is free nor has been
  given away (`BlockedStay`), what is offered belongs to a region (`OfferedIsMemory`),
  and the regions that have been scanned have offered all their whole frames
  (`OfferedSoFar`). That regions do not overlap is needed for the first half: a frame in
  the inside of a region has no byte of another (`TwoRegions`).
  The rest is arithmetic with any frame size: the addresses that the loop over a region
  steps through, one frame apart, hit exactly the whole frames (`RegionOnly`,
  `RegionAll`), and those over a module hit every frame that the module touches
  (`ModuleAll`), whatever the offset of its start.

### MapSearch

* `MappingsOwned`. `SearchInv` is `HeldIsOwned` with the types and with
  `MapsInUserHeap`: that is what lets a call from the hint start in the user's half. The
  numbers of pages are not bounded, so a mapping can wrap around the address space;
  `MappingEnds` shows that it cannot come out below itself, because addresses one page
  apart do not jump over the kernel's half, where mapping fails.
* `PlacesFound`. If there is room, the search does not end before it (`RoomIsFound`). What
  it finds ends in the user's half although the range check wraps, because its start is
  below the kernel heap and it is no longer than the room (`FoundInUserHalf`); and of
  pages that are not present, the mapping refuses the demand pages only (`FreeOrDemand`).
  An aligned hint leads to an aligned place, since the start of a place's page is a place
  too (`FloorIsFree`).

### Format

* `FormatStaysInBuffer`. Every conversion goes through `Put`; `FormatInv` adds the types,
  and what the conversions put together are texts (`DigitCountIs`, `UnsToStrIs`,
  `HexWritten`). That the mask loops write the digits of the type is `HexPromised`.
* `FormatRenders`. `RenderInv` adds `Rendering`: while the loop runs, everything promised
  has been written, `pos` is not inside of a directive, and the code's `paddingInfo` and
  `paddingChar` are those of the last conversion, or both mean no padding
  (`PaddingInForce`). `DirectiveAsked` then has the cases of the flag, against `Asks`.

### Strings

* `CopiesExact`. The copying loops are recursive functions. Each is shown to be an
  explicit function: that one satisfies the recursion, and if another did too, the two
  would differ at a least place, where the recursion makes them equal
  (`ForwardCopies`, `BackwardCopies`, `LengthIs`). This replaces induction.
* `ComparesAsOrder`. `strcmp` returns the difference at the first place where the strings
  differ, terminators included (`MemCmpOrders`); of three strings, the first such places
  are compared (`SmallerOfThree`).
* `TokenizeSplits`. `SplitSoFar` says what the memory of the string looks like after some
  calls: as at the start, with a terminator for every separator that has been reached.
  `TokensAreFields` follows (`FieldsReturned`), as a token's text ends at its terminator.
* `NumbersReadBack`. `AtoiReads`: after each digit `atoi` has what is left of the number
  when the digits to come are divided away, so its products are those that `uns_to_str`
  took apart; padding zeros leave it at zero. No product exceeds an `int` but that of the
  smallest one, which wraps to itself, and so does its negation (`SignedReads`).

### Only model-checked

The liveness properties, `LineReturns` and `CallsReturn`, which are out of the prover's
reach. Every other property that the passing runs check is a theorem. Where data are
traversed by a loop (`Strings`, `Format`, `Terminal`), the theorems rest on solutions of
the recursion, as described above, and not on induction, which the provers do not offer.

## 5. Where code and comments disagree

1. `MuiKillPageEntry` (`uheap.c:71`) frees the frame before it drops its reference and
   whatever the count: killing or unmapping one of several heaps that share a frame
   frees it under the others. The comment at `uheap.c:184-188` says this is prevented
   by keeping the parent alive; the reference count it means is never raised.
   `userheap_free`; shortest case: create, map, touch, clone, kill the clone.
2. A page that is already copy-on-write is copied without its COW bit
   (`uheap.c:209`), so the second clone of a heap can never write to it.
   `userheap_clone`.
3. The search for a hole runs past the end of the array (`kheap.c:236`).
   `kheap_full`.

The models also contain, without a run of their own, since no caller in the repository
meets them or no comment promises otherwise:

* `kheap.c:232`: the search goes by `PRESENT`, so a block that has not been touched is
  handed out a second time. No caller allocates twice without writing in between
  (`CarefulSpec`).
* `kheap.c:259`: a block with physical addresses is returned incomplete;
  `kheap.c:292`: after a resize to zero bytes the recorded size makes `MhFree` run off
  the array.
* `uheap.c:65`: pages that were never touched stay in place when they are unmapped,
  though the comment at `uheap.c:494` says that `MuiUnMap` "Unmaps a chunk of memory
  that has been mapped". The roll-back of a failed mapping (`uheap.c:432`) goes
  through the same function: its caller gets an error and a changed address space.
  `HeldIsOwned` says that other callers are not hurt.
* `uheap.c:78` and `uheap.c:90`: translations that stay after an unmapping (see
  Translation).
* `uheap.c:305`: a demand page made by `MuiCreateMapping` is read-only whatever
  `bReadWrite` is.
* `uheap.c:338`: `start + nPages * PAGE_SIZE` wraps, so a huge count passes the check;
  the mapping then fails when it reaches the kernel's half. `uheap.c:444`: from a hint
  in the middle of a page the search finds a place in the middle of a page, which
  `MuiUnMap` refuses by an assertion.
* `uheap.c:563` and the wrappers after it: they call kernel-heap functions that assert
  disabled interrupts, without disabling them.
* `shim.c:61` and others: interrupts are enabled on return whatever they were before.
* `kheap.c:108`: the kernel heap stores `*pPhysOut` through the caller's pointer. If that
  points to a demand or copy-on-write page of the heap in use, the fault needs a frame,
  perhaps a counter table, and enters the kernel heap again. A single page is safe: its
  entry is set before the store. In `MhAllocate` of several pages (`kheap.c:248-259`) the
  nested `MhAllocateSinglePage` can take a page of the hole that has just been found, and
  the outer loop then sets it up a second time: the counter table loses its frame. The
  comments in `memory.h` do not forbid such a pointer; no caller in the repository passes
  one, and `KernelHeap` models callers with pointers to kernel memory.
* `uheap.c:357` and `uheap.c:400`: the search takes demand pages for free ("Checks if a
  continuous chain of mappings is free", `uheap.c:344`), and the mapping then refuses
  them. A second `MuiMapMemoryNonFixedHint` from the same hint, before the first
  mapping has been touched, fails with room left, though the mapping "can diverge a little
  bit" (`uheap.c:461`). `MuiMapMemory` usually escapes by its own hint, which goes on
  behind the last mapping; but a hint that has wrapped to the base of the user heap meets
  the demand pages there, does not move after a failure, and fails until they are touched.
* `pmm.c:140`: a region of 2 GB or more frees nothing. `pmm.c:137` says that a range is
  freed "if this memory range is not reserved", but the loop frees whole frames: of a
  frame that an available region begins or ends in, the rest may be reserved, and a
  region above 4 GB is cut to low addresses, which may be reserved too.
* `print.c:65-66`: `%b` is said to print a `uint16` and `%w` a `uint8`; the code
  (`print.c:250-288`) has it the other way round. A width before any hexadecimal
  conversion is read and ignored.
* `string.c:40`: `memmove` declares its pointers `restrict`, against its purpose. The
  Makefile builds without optimisation, so the loops are as written, and as modelled.
* `keyboard.c:145`: the index 32 is used, one behind the array.
* `print.c:102`: after `%0` and a digit the format is read behind its terminator.
* `string.c:206`: a `Tokenize` state that has come to an end returns `NULL` for every
  later string as well; `string.c:139-160`: `memtolower` and `memtoupper` change one
  character more than their size.

## 6. Not modelled, and why

* `MuiMapMemoryFixedHint` with the addresses of ordinary memory and `bIsMMIO` false,
  which maps frames without counting them, and `MuCreatePageTable` on a slot that has
  a table, which forgets it. Nothing in the repository does either, and both break
  every property of the counters at once.
* The index one behind the array, which `MhGetPageEntry` accepts (`kheap.c:50`), which
  no fault on a page of a block reaches; `MhMapPhysicalMemory` with no pages
  (`kheap.c:413`).
* The address arithmetic of `MmMapPhysicalMemoryRWUnsafe` (`shim.c:50`), which passes
  a page number where an address is expected: which frame of a device an entry maps is
  in no model.
* `fmemcpy32` (`string.c:35`), which never changes its counter and does not end unless
  it is zero, and `fast_memset` (`string.c:66`), which counts bytes and indexes words.
  Nothing calls them.
* `vsprintf`, which has no size to check against, and a size of zero for `vsnprintf`.
* The console's wrap mode (`console.c:121`, where the cursor leaves the screen):
  nothing selects it. The serial console, clearing, the hex dump, the hardware's
  cursor. `CoGetString` with a size of zero.
* `MpInitialize`'s two stops for tables of the boot loader above 1 MB, and logging
  everywhere.
* The scan-code map and the key states: data. The system call that logs a string,
  which nothing calls.
* Hardware set-up, fonts, boot code, headers without an implementation: straight-line
  register writes, data and declarations.

## 7. Plan

Done, abstract specifications in italics: `UserHeap` (*PrivateMemory*), `KernelHeap`
(*BlockAllocator*), `Keyboard` (*KeyQueue*), `Console` (*LineEditor*), `Terminal`,
`Locking`, `Translation`, `MapSearch`, `Pmm`, `Format`, `Strings`.

Left to model, in this order: liveness of faults (a store is eventually carried out);
`UserHeap` with explicit mappings of ordinary memory.

Left to prove: the liveness properties, for which another prover is needed.
