# TLA+ models of the mini-os kernel

These modules model the parts of the kernel in `kern/` where order, interrupts
and bounds matter, check them on small instances with TLC, and prove the main
safety properties for every instance with TLAPS. `PROJECT.json` lists the
components, the runs, the mutants that show each property can fail, the map
from definitions to source lines, the findings and the hazards.

## 1. Inventory

The kernel is a single-CPU, ring-0 i386 system with kernel threads. GRUB loads
it, `kern_entry()` builds temporary page tables, `kern_init()` initialises the
parts one after the other with interrupts off, creates the tty thread, executes
`sti` and becomes the idle thread, which calls `schedule()` for ever.

| part | state | operations | talks to |
|---|---|---|---|
| Scheduler, threads (`kern/schedule`, `kern/process`, `kern/driver/clock.c`) | `current`, the circular run list, the saved context in each PCB, `tss_entry.esp0`, EFLAGS.IF, the stacks | `init_sched`, `kernel_thread`, `kthread_exit`, `schedule`, `change_task_to`, `switch_to`, `timer_callback` | called by the idle thread and by interrupt 32; gets stacks from the heap |
| Interrupts (`kern/trap`) | handler table, the two 8259A | stubs, `isr_handler`, `register_interrupt_handler`, `init_8259a` | enters every other part, on the stack of whatever thread runs |
| Keyboard buffer (`kern/driver/keyboard.c`) | `kb_in`: ring buffer, two pointers, a count | `keyboard_handler` (interrupt 33), `get_byte_from_kbuf` (tty thread) | 8042 in front, decoder behind |
| Decoder, tty (`keyboard_read`, `tty.c`) | modifier flags, `code_with_E0` | `keyboard_read`, `in_process` | buffer in front, console behind |
| Page frames (`kern/mm/pmm.c`) | stack of free frames | `init_pmm`, `pmm_alloc_page`, `pmm_free_page` | page tables and heap |
| Page tables (`kern/mm/vmm.c`) | `pgd_kern`, page tables, the TLB | `init_vmm`, `map`, `unmap`, `get_mapping`, `page_fault` | heap above, frames below |
| Heap (`kern/mm/heap.c`) | chunk list, `heap_first`, `heap_max` | `kmalloc`, `kfree` | called by `kernel_thread` and `kern_init` |
| Segments, TSS (`kern/mm/gdt.c`) | GDT, TSS | `init_gdt`, `set_kernel_stack` | scheduler |
| Console (`kern/driver/console.c`) | cursor, video memory, CRTC index | `console_putc_color`, `scroll`, `console_clear` | printk, from threads and from handlers |
| printk, panic, ELF symbols | static buffers | formatting, stack trace | console |

What is hard here:

* interrupts between any two instructions of a thread, and a timer handler that
  does not return until its thread is scheduled again (acknowledgement order,
  interrupt flag across switches, `current` against the stack in use);
* a ring buffer shared by a handler and a thread whose only protection is
  `cli`/`sti` around a part of the reader;
* that section clears the interrupt flag of whichever thread is on the CPU, so
  its protection and the scheduler's handling of the flag depend on each other;
* a console that threads and interrupt handlers use at the same time without any
  protection;
* a thread function that returns, for which nothing is prepared;
* a heap whose list, page tables, frame stack and TLB must agree through
  splitting, merging, growing, shrinking and running out of memory;
* 32-bit sums at region and heap boundaries, and fixed capacities (32 bytes of
  keyboard buffer, 512 MB of frames).

What makes each part correct:

* Scheduler: a suspended thread can be resumed from its PCB; the CPU goes round
  the run list and never stops doing so; interrupts are on exactly in threads.
* Interrupts: nothing stays in service while interrupts are on.
* Keyboard buffer: a bounded FIFO; the 8042 is always served.
* Both together: the section is never left open by a switch, and neither part
  sees anything of the other but the interrupt flag.
* Console: the cursor comes back to the screen whoever interrupts whom; the
  screen shows the text when nobody interrupts a character.
* Decoder: scan codes are split where the keyboard split them; modifiers follow
  the keys.
* Frames, page tables: exactly the free memory is found, and all of it can be
  reached; each frame has one owner; no stale translation.
* Heap: callers get blocks that are large enough, disjoint and left alone;
  calls return; memory is given back.

## 2. Modules

### Scheduler, Pic8259, RoundRobin, SchedulerProofs

`Scheduler` has one variable for each piece of state in the table above, plus
`cpu` (whose stack esp points into, and at which level) and `frame` (the
activation at each level of each stack: a program counter and the locals of the
`schedule()` call made there). A stack has two levels, the thread's own code and
an interrupt taken in it; interrupts do not nest because the stubs `cli` and no
handler enables them. Each action is one instruction sequence between two
points at which an interrupt can matter:

| action | code |
|---|---|
| `KernelThread`, `Sti`, `CallSchedule` | `kernel_thread()`, the end of `kern_init()` |
| `ReadNext`, `TestNext`, `SetCurrent` | `schedule()`: the read of `current->next`; `change_task_to()`: the test, the assignments to `prev` and `current` |
| `SaveContext` | `set_kernel_stack()` and the saving half of `switch_to` |
| `RestoreContext` | the loading half of `switch_to`, `popf` and `ret` |
| `TakeInterrupt`, `AckInterrupt`, `Dispatch`, `ReturnFromInterrupt` | stub, end-of-interrupt commands, handler call, `iret` |
| `DeviceRequest` | a device raises its line |
| `ThreadReturns` | a thread function returns: through `kthread_exit()` and on to address 0, where `page_fault()` loops with interrupts off |

`Pic8259` is the pair of interrupt controllers as `init_8259a()` programs them:
fixed priority, fully nested, cascaded, not auto-EOI. The chips are hardware,
so most of it is marked external in the map; `EndOfInterrupt` is the code's.

Left out as data: pid, name, state and `need_resched` (never read by the
scheduler), cr3 (all threads share `pgd_kern`), callee-saved registers (they
travel with esp). The loading half of `switch_to` is one step, and so are
`set_kernel_stack()` and the saving half: an interrupt between these two is one in
the window of the next paragraph, where one a step earlier does the same harm.

`QuietSwitch` names a timing assumption. `change_task_to()` is not atomic: when
the idle thread calls it, interrupts are on, and a timer tick between
`current = next` and the end of `switch_to` corrupts a PCB (finding 1). With
`QuietSwitch = TRUE` the model excludes interrupts in this window and nowhere
else; all other interleavings are in. `TypeOK` and `OneRing` are proved without
it.

`RoundRobin` is the abstract scheduler: a ring, a holder, `HandOn` to the
successor again and again, until a holder whose function returns stops it.
`Scheduler` implements it with the ring being the `next` links and the holder
the thread whose stack esp is in.

`ThreadReturns` is what `kernel_thread()` prepares: it stores `kthread_exit`
under the thread function and the argument above it, so `kthread_exit()`, which
prints and returns, returns to the argument, NULL. Page 0 is not mapped. No
thread function in the repository returns; `Returning` names those that may.

### KeyboardQueue, ByteFifo, KeyboardQueueProofs

`keyboard_handler()` is one action (interrupts are off, one CPU). The reader,
`get_byte_from_kbuf()`, has one action per access to shared memory, with
`count--` split into a load and a store. The 8042 holds one byte and takes the
next when that has been read. `ByteFifo` is a bounded FIFO with an output
register; the mapping lets a byte leave the queue at the moment the reader
loads it, while `head` and `count` follow in later steps. A byte that has arrived
is put in the queue or, only if that is full, dropped (`keyboard.c:39`): `ByteFifo`
has the port the byte arrives at, so a byte dropped too early is not a stutter.

The handler is split in `Receive`, what `keyboard_handler()` does, and the guard
on the interrupt flag, because `Kernel` below uses the one without the other.

### Kernel, KernelProofs

`Kernel` EXTENDS `Scheduler` and takes `KeyboardQueue` as an instance: one
interrupt flag, one CPU. The tty thread is a thread like any other, whose
thread-level instructions are the steps of `get_byte_from_kbuf()` (`TtyStep`); a
byte in the 8042 raises interrupt 33 (`KeyEvent`); `keyboard_handler()` is what
`isr_handler()` calls for it, on the stack of whatever thread was interrupted,
after its acknowledgement (`Handle`).

Neither part was written for this: `KeyboardQueue` has a flag that nobody but its
reader changes, `Scheduler` has threads that never touch the flag. Two refinement
mappings show that both views are right:

| property | maps | to |
|---|---|---|
| `ImplementsQueue` | `~InSection` (whether the reader is between `cli` and `sti`, on the CPU or off it) | `interruptFlag` of `KeyboardQueue` |
| `ImplementsScheduler` | `interruptFlag \/ InSection` | `interruptFlag` of `Scheduler` |

The first includes `KeyboardQueue`'s fairness, so what that module assumes of its
reader and its handler is here a consequence of how the scheduler and the
interrupt controller serve them.

### Keyboard, KeyEvents, KeyReports, KeyboardProofs

`Keyboard` is `keyboard_read()` in the tty thread's endless loop, over the FIFO
that `KeyboardQueue` implements. Its action is one `get_byte_from_kbuf()` with
all the code does before the next one: `got` holds the bytes the current call
has taken, and so says where in the function the reader stands.

| action | code |
|---|---|
| `ReadFirst`, `ReadExtended` | the first byte of a key; the one after `E0` |
| `ReadPause`, `ReadPrint` | the further bytes of Pause and of PrintScreen, and what happens when they do not match |
| `Decode` (`column`, `Flags`, `in_process`) | the second half of `keyboard_read()`, ended by `in_process()` of the tty |
| `Hit`, `Arrive` | the keyboard (external): a key event, and the arrival of its next byte, which the full buffer drops |

A key value is the place of its first appearance in `keymap`, as <<row,
column>>; the map's contents appear as the sets of rows with an entry, with the
same entry for both shift states, with an entry after `E0`, and with a
character. `KeysAssumption` says what keys there may be: those whose code
`keymap` has an entry for, PrintScreen and Pause.

`KeyReports` is what the tty relies on, in terms of key events instead of bytes.
`KeyEvents` puts a history variable beside `Keyboard`, the events whose bytes have
not been dealt with: a key hit is appended, and a call of `keyboard_read()` that
has come to its end takes the oldest one out. If the decoder ended a call in the
middle of a code, or ran on into the next, this would be the wrong one, and what is
reported would differ. The history restricts nothing: every step of `Keyboard` is
one of `KeyEvents`.

Assumptions, each named in the module:

* `Patient`: the buffer does not overflow; without it only `TypeOK` and `Resyncs`
  are claimed.
* `Alone`: PrintScreen and Pause are not combined with a modifier, nor the cursor
  and editing keys and the keypad's slash (`Edited`) with Shift. Keyboards then
  send other codes, and the code does not know them: releasing PrintScreen under
  Shift sends `E0 B7` alone, releasing a cursor key under Shift ends in the fake
  Shift `E0 2A`, and `keyboard.c:92-109` then swallows the first byte of the next key.
* `KeysAssumption`: a keyboard with keys of `Edited` has no Num Lock, or it is never
  used and stays off; Num Lock makes keyboards send the same fake Shifts.

### BootMemory, BootMemoryProofs

`init_pmm()` with one action per memory map entry skipped or taken and one per
frame pushed, then `init_vmm()`. Sums are 32-bit (`Low`), and the map's 64-bit
fields are cut to their low halves as the code does. `Frames(m)` is the
reference: the pages that lie whole in an available region and behind the
kernel. All that is assumed of a map is that its regions do not overlap (`Apart`).
Available memory above 4 GB, or up to its edge, is in the model and in the maps,
and the code gets it wrong: a region above is taken for one below, one that ends at
4 GB for one that ends at 0. `FindsExactlyTheFrames` therefore says at which point
it stops to claim anything: when `init_pmm()` comes to such a region (`Below4GB`).
The stack it leaves on a map without one (distinct frames, as many as
`phy_page_count`) is what `Heap` starts from.

### Console, ConsoleText, Terminal, ConsoleProofs

`Console` is `console_putc_color()` with `scroll()` and `move_cursor()`, called by
a thread with interrupts on and, through `isr_handler()`, by an interrupt that has
no handler and so prints a line. Both work on the same `cursor_x`, `cursor_y`,
video memory and CRTC index register. The kernel is compiled without
optimisation, so each C statement is a load step and a store step, and an
interrupt may come between any two steps. One pair of loads is not split: `Location`
reads `cursor_y` and `cursor_x` in one step.

| action | code |
|---|---|
| `Putc` | the call, with the branch on the character taken (`First`) |
| `Load`, `StoreCell`, `StoreColumn`, `StoreRow`, `Home`, `Wrap` | the branches and the wrap at the right edge |
| `Scroll`, `CopyCell`, `BlankCell`, `Bottom` | `scroll()`, cell by cell |
| `SelectHigh`, `OutHigh`, `SelectLow`, `OutLow` | `move_cursor()`: an index and a byte, twice |
| `Interrupt` | an interrupt without a handler; its line is any characters up to a newline |

`Byte` is the range of the cursor variables, so that `cursor_x--` below zero gives
255 as in the code. Colours are left out, and what `printk()` formats.

`Terminal` is what whoever prints relies on: lines of text, a cursor, a screen
that shows the last lines. `ConsoleText` runs it beside `Console`. A handler that
prints inside a call of the thread mixes the two texts (`mixed`), and from then on
only the cursor is claimed: that it comes back to the screen, and that the blinking
one catches up when handlers have stopped, which bounds the damage and does not
detect it.

### Paging, Heap, Allocator, HeapLists, HeapProofs

`Paging` holds the frame stack, the page directory, the page table entries, the
TLB, and `map`, `unmap`, `get_mapping` as operators that the heap's actions
use. `Heap` has one action per iteration of the loops of `kmalloc()` and
`kfree()`:

| action | code |
|---|---|
| `Kmalloc`, `Walk`, `TakeChunk` | entry, the search, `split_chunk()` and the return |
| `StartGrowing`, `Grow`, `OutOfMemory`, `AppendChunk` | no chunk fits: `alloc_chunk()`, the panic of `pmm_alloc_page()`, the new header |
| `Kfree` | `kfree()`, `glue_chunk()`, and the unlinking in `free_chunk()` |
| `Shrink`, `ShrinkDone` | the loop of `free_chunk()` |
| `Fill` | the processor caches a translation (external) |

The chunk list is a function from header addresses to headers, so a pointer to
a header that has been unlinked leads out of its domain and TLC stops there.
A failed assertion is the state `panic`, in which the model stops; this is why
these runs have `CHECK_DEADLOCK FALSE`. Callers are the boot code: one call at
a time, interrupts off, and only live pointers are freed. `init_pmm()` is the
constant `BootStacks`, a set of possible frame stacks: distinct frames, no more
than the array holds (`HeapAssumption`; `BootMemoryProofs` shows it of
`init_pmm()`). `HeapAssumption` also places the heap in the upper half of the
address space, as `0xE0000000` is.

`Allocator` is what callers rely on: a granted block is as large as requested
and apart from all others, and blocks in use do not change.

## 3. Runs

| run | instance | shows |
|---|---|---|
| `scheduler` | 3 threads, one of which may return; interrupts 32, 33, 38, 46 | `CurrentOwnsCpu`, `ContextsIntact`, `FlagFollowsLevel`, `InterruptsAcked`, `OneRing` and `ServesInRoundOrder` (refinement with liveness) under `QuietSwitch` |
| `scheduler_tick` | the same without `QuietSwitch` | `ContextsIntact` violated: finding 1 |
| `kernel` | 2 threads, interrupts 32, 33, 38, a buffer of 1 byte | `FlagFollowsSection`, `HandlerFindsByte`, `ImplementsQueue`, `ImplementsScheduler` (refinements with liveness) |
| `keyboard_queue` | 3 slots, 3 byte values | `PointersAgree`, `DeliversInOrder` (refinement with liveness), `PortIsServed` |
| `keyboard` | a letter, left Shift, right Ctrl, cursor up, PrintScreen, Pause; 3 bytes of buffer | `ModifiersFollowKeys`, `ReportsKeysInOrder` (refinement with liveness) |
| `keyboard_loss` | a letter, right Ctrl, PrintScreen, Pause; 1 byte of buffer, bytes dropped | `Resyncs` |
| `keyboard_alt` | both Alt keys | `ModifiersFollowKeys` violated: finding 3 |
| `console` | 3 columns, 2 rows, tab stops of 2, bytes modulo 6, a letter and the space | `CursorOnScreen`, `CursorRecovers`, `TextShown` |
| `heap` | up to 6 frames, pages of 8 bytes, headers of 3, 2 pages per table, requests of 1, 6, 14 | `HeapTiled`, `ChunksMapped`, `FrameOwnership`, `TlbCoherent`, `Trimmed`, `StopsOnlyWithoutFrames`, `GivesApartBlocks` (refinement), `CallsReturn` |
| `heap_wrap` | requests of 1 and 100, of a 512-byte address space | `ChunksMapped` violated: finding 2 |
| `boot_memory` | pages of 4 bytes in an address space of 256, 8 frames of capacity; all pairs of 126 regions that do not overlap, machines with three regions, and machines with memory up to, across and above the 256, before and behind a region that fits | `FindsExactlyTheFrames`, `SmallMemoryReachable` |
| `boot_memory_window` | a PC with 3 to 12 pages of memory | `FramesReachable` violated: finding 4 |

Why the bounds are enough. Three threads make the successor and the predecessor
of a thread different and let one thread be preempted, one yielded and one new
at the same time; a thread has at most one interrupt on its stack, so more
threads add rotations, not shapes. The four interrupts are one with a
scheduling handler, one with a plain handler, one without handler on each
chip. Three slots and three byte values let the ring wrap with 0, 1, 2 and 3
bytes in it and tell a reordering from a repetition; the proofs lift it to any
size. Five frames carry three heap pages and two page tables; with pages of eight bytes and requests of one, six and fourteen, chunks fit
in a page, end exactly at its end, straddle two or three, and up to six chunks
are adjacent, so that every case of splitting and of merging occurs; the boot
stacks with four and with five frames run out at a page, the one with six at a
page table. As in the kernel, the heap begins at 7/8
of the address space; the proofs lift it to any sizes. The keys are one of each
kind the decoder tells apart: one byte, two bytes with and without a flag,
shifting, both special sequences; a buffer of three holds the end of one key and the start of the next
behind the bytes already taken, and with a buffer of one any byte can be the one
that is dropped. The regions of `boot_memory` begin and end on and off page
boundaries, below, across and at the kernel's end and the capacity, and at the end
of the address space.

In `kernel` the buffer has one slot: `keyboard_queue` covers its wrapping, and
what the composition adds is where a switch, a preemption or an interrupt falls
relative to the section. (The same properties hold with two slots, in a run of
four minutes.) Two threads suffice to be switched between; interrupt 32
preempts, 33 has the handler, 38 has none and delays both. In `console`, three
columns let a tab, a wrap and a backspace each begin on and off the edge, two
rows let a scroll copy and blank; the text is followed without a bound, since only
the lines on the screen are kept. Nothing in `Console` depends on the numbers but
through `Byte > Width + TabStop`, and `ConsoleProofs` lifts the cursor and the text
to every screen.

Fairness. `Scheduler`: the CPU executes its next step (`CpuStep`), an interrupt
that stays deliverable is taken, and the PIT, programmed by `init_timer()`,
keeps ticking; nothing is assumed of other devices. `KeyboardQueue`: the reader
and the handler run when they can — the reader because the scheduler keeps
coming back to it (`ServesInRoundOrder`), the handler because an interrupt is
taken once interrupts are on; nothing is assumed of the person typing. `Heap`:
the call in progress runs on. `Keyboard`: the reader runs, and the keyboard sends
the bytes of a key it has begun. `Kernel` needs more than `Scheduler`, and gets it
from the 10 ms between two ticks, in which the CPU executes very many
instructions: again and again interrupts are on with no tick pending
(`TicksApart`), a thread that gets the CPU again and again executes an
instruction of its own now and then, and an interrupt that is deliverable again
and again is taken (strong fairness of `TtyStep` and of interrupt 33). Without
them the model has ticks so dense that the tty thread is preempted before each of
its instructions. `Console` assumes none; `CursorRecovers` is about executions in
which the thread goes on printing and handlers have stopped. Safety runs would hold without any of it.

Bounds in the models: `QuietSwitch` above is the only restriction on schedules;
`Threads`, `Irqs`, `N`, `Keys`, `Width`, `Height`,
`TabStop`, `Byte`, `Frames`, `PAGE_MAX_SIZE`, `PTE_SIZE`,
`Requests`, `Maps` are the only bounds, and none of them cuts off a behaviour in the middle.

## 4. Findings

1. **A tick inside the idle thread's switch** (`kern/schedule/sched.c:43`).
   `current` is moved on before the outgoing context is saved; a timer
   interrupt in between runs `schedule()` with the wrong `current` and saves the
   idle stack in the tty thread's PCB.
2. **Huge requests** (`kern/mm/heap.c:100`): from 512 MB up `start + len` wraps,
   the heap is not expanded and the pointer returned is not backed by memory.
3. **Right Alt** (`kern/driver/keyboard.c:151`) sets and clears the flag of left
   Alt; `FLAG_ALT_R` is never reported.
4. **Slightly more than 512 MB** (`kern/mm/pmm.c:33`): the capacity of the frame
   stack counts frames, and the memory below the kernel is not in it, so frames
   beyond the 512 MB window get in. They are the first to be taken, and the
   kernel faults when it clears its first page table through the window.

Seen in the models without a run of its own:

* A thread function that returns stops the whole system (`ThreadReturns`), where
  `kern/process/proc.h:52` calls `kthread_exit()` the exit of a thread.
  `RoundRobin` allows for it.
* A handler that prints inside a call of `console_putc_color()` overwrites
  characters and leaves the blinking cursor behind (`mixed`); `CursorOnScreen`
  and `CursorRecovers` bound the damage.
* After a byte of Pause, PrintScreen or an `E0` key has been dropped, left Shift,
  left Ctrl, Num Lock or the keypad's `*`, which send a byte of those codes, can be
  taken for the rest of one, and the call waits on behind it (`Resyncs` without the
  hypothesis `Distinct` of section 5).
* Available memory above 4 GB, or up to its edge, is pushed as frames it is not, or
  missed (`kern/mm/pmm.c:22-23`): the maps `High` of `MCBootMemory` contain such
  machines, and `FindsExactlyTheFrames` does not hold of them without `Below4GB`.
* `kmalloc()` takes the first hole that fits, not the smallest as the comment at
  `kern/mm/heap.c:2` says.

Met in code that is not modelled: `libs/elf.c:23` adds `PAGE_OFFSET` to a pointer
to a 16-byte structure, where it vanishes modulo 2^32, so the panic screen looks
symbols up at a physical address that `init_vmm()` no longer maps.

## 5. Proofs

`SchedulerProofs` proves, for any sets of threads and interrupts:

* `TypeCorrect` and `RunListIsOneRing`, unconditionally. The ring needs an
  inductive argument on "every subset of the run list closed under `next` that
  contains the head is the run list": inserting before the head keeps it.
* `CurrentAlwaysOwnsCpu`, `ContextsStayIntact`, `FlagAlwaysFollowsLevel`,
  `InterruptsAlwaysAcked` and `ServesTheRound`, assuming `QuietSwitch`. The
  inductive invariant `IInv` says, besides the properties: where the CPU's
  activation may stand at each level and what its locals are there (`OnCpu`,
  `Locals`), what a suspended stack and its PCB look like (`Suspended`), how
  `current`, `esp0` and the interrupt flag relate to them (`Globals`), that boot
  is the idle thread's first activity (`Booting`), and that the interrupts in
  service are those of the one activation that has not acknowledged yet
  (`Acked`). None of the properties is inductive alone: `ContextsIntact` says
  nothing of the thread on the CPU, which is the next one to be suspended.

`KeyboardQueueProofs` proves, for any buffer size and alphabet, `TypeCorrect`,
`PointersAlwaysAgree` and `DeliversInOrderAlways` (every step of the ring
buffer is a step of the FIFO or a stutter; the handler's drop is one of the full
FIFO, since it never runs between the reader's load and its update of `count`).

`ConsoleProofs` proves, for a screen of any size, `TypeCorrect`,
`CursorReturnsToScreen` and `TextAlwaysShown`. The cursor leaves the screen in the
middle of a call, and a handler that starts there leaves it further out, so the
invariant (`Bounds`) speaks of each activation: at which points of the thread,
which starts on the screen, and of a handler, which starts anywhere, `cursor_x`
and `cursor_y` are back in bounds. The handler ends every line with a newline,
which brings the column back before the wrap and the row back in `scroll()`.

For the text, the invariant (`Follows`) says of the call in progress what the
screen and the cursor will be when the rest of it is done: at each point the
picture as it will be after the cells still to copy and blank (`Copied`,
`Blanked`), the cursor after a wrap and a scroll still to come (`WrappedEnds`,
`ScrolledEnds`), and the bytes of `move_cursor()` still to write are the text's. A
character is in the text from the call on (`PutcShows`, where `TextPut` and
`TextMore` relate a text and its picture), each step does a part of what is left
(`PutShows`, `ScrollShows`, `MoveShows`), and when a call returns nothing is left.
Rows and columns of cells are a matter of `\div` and `%`, which `Place` and
`Below` reduce to products once.

`KernelProofs` proves, for any number of threads, any interrupts and any buffer:

* `AlwaysFindsByte` and `QueueImplemented` (the safety half of `ImplementsQueue`),
  unconditionally, from `KInv`: types and ring of `Scheduler` (`Base`), the
  section is open only while the tty thread is on its own level with interrupts
  off (`Section`), handlers sit on top of interruptible code (`HandlersOnTop`), and
  the request or the activation of interrupt 33 comes with its byte (`ByteAhead`).
* `FlagAlwaysFollowsSection` and `SchedulerImplemented` (the safety half of
  `ImplementsScheduler`), assuming `QuietSwitch`, from `SInv`, which adds what
  `SchedulerProofs` knows of the stacks, with the flag of `Kernel` instead.

`BootMemoryProofs` proves, for every page size, kernel size, capacity and memory
map that satisfies `BootAssumption` (of the map: that its regions do not overlap):

* `TypeCorrect`: the frame stack stays inside its array, the loops inside the map.
* `FindsExactly` and `AllReachable`. The hypothesis of the first, `Below4GB`, is in
  the property, and speaks of the entries looked at so far; `StillBelow` is why that
  is enough for an induction. The second needs none, since its maps end by
  `PMM_MAX_SIZE`. The invariant `IInv` cuts the reference set `Frames` up by
  regions: between entries the stack holds the frames of the entries passed
  (`FramesBefore`), inside a region also those below `begin` (`InRegion`). It rests on lemmas about the rounding in 32 bits (`BeginRounded`,
  `EndRounded`: nothing wraps below the last page), on `TakenFrames` (the loop
  runs over exactly the frames of the region), `SkippedEmpty` (a region skipped has
  none) and `Disjoint` (no frame belongs to two regions).

`HeapProofs`, on top of `HeapLists`, proves every safety property of the heap:
`TypeCorrect`, `ListCorrect`, `ChunksOnPages`, `FramesOwnedOnce`,
`TlbStaysCoherent`, `MemoryGivenBack`, `StopsForWantOfFrames`, and `Implements`,
that the heap implements `Allocator` (which has no fairness, so this is all of
`GivesApartBlocks`). They hold for every page, header and page table size, every
place of the heap, any requests and any boot stack, under `Roomy`: what the boot
stack holds, if all of it became heap, and one request behind it end below `Word`.
That excludes exactly the wrap of finding 2. The instance of the run `heap`
satisfies it, and so does the kernel on a machine of up to 512 MB: the heap could
grow by as many pages as the stack has frames, the memory below the kernel's end
(more than 1 MB) is not among them, and the requests of the repository (up to
50000 bytes, `kern/init/entry.c:99`) are far smaller than that.

* `HeapLists` is about the list alone, as a function from addresses to headers.
  `Listed` says that a set of headers is a list: the first one starts the heap,
  each `next` is the address behind the chunk and each `prev` leads back, one chunk
  is the last, and no two overlap. The lemmas say that splitting, appending,
  marking, absorbing a neighbour, gluing on both sides and unlinking the last chunk
  keep a list a list, which chunks remain, and what became of their lengths.
* The inductive invariant `IInv` has two halves that do not need each other's
  steps. `PagesInv`: `heap_max` is a page boundary below the limit that the frames
  set, the mapped pages are those of the heap, tables are where pages are, every
  frame has one owner, the frames add up, and the TLB agrees. `ListInv`: the list,
  no two free neighbours, the chunks in use are the live ones, and for each `pc` what
  the locals mean: during the walk `prev` and `cur` are neighbours; while growing
  `cur` is the end of the list and nothing free fits; while shrinking `cur` is the
  end that is left and everything behind it is to go. The properties alone are not
  inductive: none of them says what `cur` is between two iterations.
* They meet at two points: the header `kmalloc()` writes is on pages that are there
  (`HeaderPresent`), and the loop of `free_chunk()` gives back frames the heap
  owned, so that the stack has room (`ShrinkPages`).

`KeyboardProofs` proves, for any set of keys that `keymap` knows and any size of the
buffer:

* `TypeCorrect`, unconditionally: whatever bytes arrive or are dropped, what a call
  has taken begins one of the three codes of several bytes. It rests on `Reader`,
  one byte read: the bytes taken begin such a code, or are one, or a key is looked up.
* `AlwaysResyncs`, assuming `Distinct`: no key of one byte sends a byte of the codes
  of Pause and PrintScreen. The keypad's `*` (`37`), left Shift (`2A`) and left Ctrl
  (`1D`) do, Num Lock (`45`) does, and after a loss such a byte can be taken for the
  rest of Pause or PrintScreen, so that the call goes on waiting behind a key that
  came through whole: for those keys the property does not hold. The invariant
  (`SyncInv`) says that the bytes on their way end as the code of the last key does,
  as far as both go back; `NoneInside` says that nothing a call may stand inside
  ends as a code does.
* `FlagsFollowKeys` and `ReportsInOrderAlways` (the safety half of
  `ReportsKeysInOrder`), assuming `Patient` and that there is no right Alt key
  (finding 3), of keys used as `Alone` says. The invariant (`Follows`) divides the bytes taken, buffered and to
  come into the codes of the pending events, one behind the other (`Chain`), with
  the modifiers down at each place: they begin with the flags the decoder keeps and
  end with the keys that are down, and the bytes taken are fewer than the first
  code's. `KeyRead` shows that the bytes of a code are kept up to the last, and that
  the last reports the key as `KeyReports` says, for each of the three kinds of code.

Only model-checked: liveness (the fairness halves of `ServesInRoundOrder`,
`DeliversInOrder`, `ReportsKeysInOrder`, `ImplementsQueue` and
`ImplementsScheduler`; `PortIsServed`, `CursorRecovers`, `CallsReturn`), which the
prover does not reach. Every invariant of the runs that pass is proved. The theorems
assume only the named assumptions of the modules (`SchedulerAssumption`, `IrqAssumption`,
`QueueAssumption`, `KeysAssumption`, `KernelAssumption`, `ConsoleAssumption`,
`BootAssumption`, `PagingAssumption`, `HeapAssumption`), which TLC evaluates in the
runs, and where it says so `QuietSwitch`, `Roomy`, `Distinct`,
`Patient` or a keyboard without right Alt.

## 6. Not modelled

Exceptions other than the fault of a returning thread, and the contents of IDT and
GDT descriptors; the PIT divisor; permission bits of page tables; formatting
(`printk.c`), the panic screen and ELF symbols (`elf.c`), string routines. They
hold no state the modelled parts depend on, and what they compute is data: bits
for the processor and wording for the screen.

Concurrent calls of `kmalloc()` and `kfree()`, which take no lock: only
`kern_init()` calls them, before `sti`. PrintScreen and Pause together with
modifiers, and the cursor and editing keys with Shift or Num Lock (`Alone`,
`KeysAssumption`), whose fake Shifts `keyboard_read()` does not know. A second
interrupt for a byte the 8042 has already given away: the model's 8042 raises one
for each byte, so `HandlerFindsByte` is about the handler being called for interrupt
33 and no other.

## 7. Plan

The panic screen over the page tables that `BootMemory` leaves.
