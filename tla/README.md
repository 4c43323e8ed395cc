# A TLA+ verification of the sos kernel

This directory specifies, model-checks and proves parts of *sos*, a small i386
operating system: a boot loader (`src/boot`), a kernel (`src/kernel`) and a
file system with its host tools (`src/efs`). File names below are relative to
`src/`; line numbers are those of the source beside this directory.

| file | what it is |
|---|---|
| `Heap.tla` | what callers of `kalloc` and `kfree` rely on (abstract) |
| `Alloc.tla` | the first-fit allocator, `kernel/alloc.c` and `kernel/lib/kalloc.c` |
| `MCAlloc.tla`, `MCAlloc.cfg` | its instance for TLC |
| `RoundRobin.tla` | what the scheduler promises (abstract) |
| `Kernel.tla` | boot, interrupts, timer, scheduler, exit of processes, interleaved |
| `Kernel.cfg`, `KernelKend.cfg` | its instances for TLC |
| `TimerList.tla`, `TimerList.cfg` | the list of timed events, changed by the callbacks called from it |
| `AddressSpaces.tla` | what the memory manager promises (abstract) |
| `MemMan.tla` | physical frames, page tables and address spaces |
| `MemMan.cfg`, `MemManFull.cfg`, `MemManReserve.cfg`, `MemManUndo.cfg` | its instances for TLC |
| `TypeAhead.tla` | what the keyboard driver keeps for a reader (abstract) |
| `Console.tla`, `Console.cfg` | input queue, modifiers, cursor, and how boot connects the interrupt lines |
| `FileStore.tla` | what the EFS tools promise (abstract) |
| `Efs.tla`, `EfsCrash.cfg` | the EFS disk, `mkefs` and `writeefs`, a block write at a time |
| `Loader.tla`, `Loader.cfg` | the boot loader on the disks the tools leave; composes with `Efs` |
| `DirScan.tla`, `DirScan.cfg` | the loader's comparison of names, a character at a time |
| `AllocProofs.tla`, `KernelProofs.tla`, `TimerListProofs.tla`, `MemManProofs.tla`, `ConsoleProofs.tla`, `EfsProofs.tla`, `EfsRefinement.tla`, `DirScanProofs.tla` | theorems |
| `PROJECT.json` | runs, mutants, the map from definitions to source lines, findings, hazards, theorems |

Run `tlc -config X.cfg M` for a run and `tlapm M.tla` for the proofs.

## 1. Inventory

The components, the state each keeps, what changes it, what is hard about it and
what makes it correct. "Status" says whether it is modelled here.

### Kernel heap — `kernel/alloc.c`, `kernel/lib/kalloc.c` (modelled)
*State*: a free list and a used list of slots threaded through the region itself
(an 8-byte header `{next, len}` before each block), and the `inited` flag.
*Operations*: `init_alloc`, `alloc` (first fit, split), `free` (unlink, merge with
the neighbour before and the one after). *Users*: the memory manager, process
creation and destruction. *Hard*: the geometry after long sequences of calls;
headers that disappear in a merge. *Correct*: blocks handed out are disjoint,
nothing is lost, free memory is never left in adjacent pieces, what `kfree` is
given is checked.

### Interrupts — `kernel/arch/i386/{trap.S,irq.c,8259_pic.c,cpu.c}`, `kernel/{interrupt.c,irq.c}` (partly modelled)
*State*: the IDT, the 8259's mask, request and in-service registers, the table
`irqs` of handlers. *Operations*: entry and return code, end of interrupt,
`bind_irq`, `enable_irq`, `disable_irq`, the exception handlers, the system call.
*Hard*: IRQs enter through trap gates, so a second IRQ can enter between the first
one's entry and its `cli`; the end of interrupt does not name an IRQ; lines, vectors,
gates and handlers are numbered apart, in four files. *Correct*: each interrupt is
acknowledged once, by its own handler; a line that is let through has one.

### Timer — `kernel/timer.c`, `kernel/arch/i386/8253_timer.c` (events modelled, the chip not)
*State*: a list of events with remaining ticks and an interval. *Operations*:
`timer_interrupt`, `time_event_set`, `_add`, `_del`. *Hard*: the list is changed
by callbacks while it is traversed; a callback may switch contexts in the middle.
*Correct*: a tick counts every event down once, and ends. The kernel has one event,
the scheduler's.

### Scheduler — `kernel/sched.c`, `kernel/arch/i386/sched.c` (modelled)
*State*: `proctab`, `curproc`, `sched_event`. *Operations*: `init_sched`,
`sched_add`, `schedule`, `process_kill`, hardware task switch. *Hard*: it runs in
interrupt context and in a system call, switches stacks inside a handler, and
ends by starting `kend` on the stack of whatever was running. *Correct*: only live
processes run, the order is first come first served, everybody runs, `kend` starts
once and the keyboard still works afterwards.

### kmain — `kernel/kmain.c`, `kernel/init.c` (partly modelled)
Initialises in order, creates three processes, enables interrupts and halts for
ever; `kend` does the same after the last process. `init.c` runs constructors
from a linker section; it keeps no state.

### Physical memory and address spaces — `kernel/memman.c`, `kernel/arch/i386/{paging.c,process.c}` (partly modelled)
*State*: `frame_map` (a reference count per frame), an address space per process
(directory, tables, frames), the process's TSS. *Operations*: `init_memman`,
`memman_alloc_frame`, `memman_free_frame`, `alloc_addr_space`, `free_addr_space`,
`init_paging`, `create_process`, `destroy_process`. *Hard*: failure in the middle
of an allocation, counts that wrap at 8 bits, a process that frees the memory it is
running on. *Correct*: no frame is in two address spaces, what a process had is
free when it has ended, a failed creation leaves nothing behind.

### Keyboard and console — `kernel/dev/*`, `kernel/arch/i386/dev/{kbd.c,bcon.c}` (partly modelled)
*State*: the ring buffer `input_queue`, the modifier keys `kbd_state`, the cursor in
the 6845, the characters in video memory. *Operations*: `bcon_kbd_handle`, `enqueue`,
`dequeue`, `bcon_putchar`, scrolling and cursor movement; `bcon_init`, `kbd_init`.
*Hard*: the buffer full, empty and wrapped; key-up and key-down events of several
modifiers whose masks overlap; backspace, which moves the cursor without looking
where it is. *Correct*: the buffer is a queue, modifiers follow their keys, the
cursor stays on the screen.

### The file system — `efs/*` (modelled)
*State*: superblock with the map of used blocks, inodes, the root directory, data
and indirect blocks, all on the device. *Operations*: `mkefs` (superblock, inode
blocks, root directory, root inode, mark), `new_file`, `find_file`, `falloc_block`,
`add_block_pointer`, `writeefs`. *Hard*: each operation is several separate block
writes, with an error or a kill between any two; block 0 and "no block" are the same
number; what was truncated keeps its pointers. *Correct*: no block belongs to two
files, every block in use is marked, the directory has one entry for each inode
taken, a file is a beginning of what was written, all of it when its writer is done, as
far as an inode has pointers.

### Boot loader — `boot/boot1.S`, `boot/boot2.S` (partly modelled)
Real-mode assembly that finds the kernel in the root directory, reads its inode and
copies its blocks to memory through `get_bnum`. *Hard*: registers of 16 bits for
sizes of 32; a destination, 0x500, from which the copy grows towards the loader itself, at
0x9000; a comparison that leaves the index where the strings differ; disks that
a killed `writeefs` has left. *Correct*: the file asked for is found, and what runs is
what was written, if it is below 34 KB.

### Not modelled
`kernel/lib/*` other than `kalloc.c` (formatting, strings, memory copies),
`kernel/arch/i386/{descriptor.c,cmos.c,io.c}`, the 8253, `kernel/arch/i386/dev/{dma.c,floppy.c}`
(port writes that keep no state of their own; the floppy driver only probes),
`kernel/panic.c` (output, then halt: it is the action `Panic`), `kernel/init.c`,
`kernel/test_code.S` (three user programs), build files. What is left out of the
modelled components is said in section 2.

### How they interact
The devices interrupt through the 8259; `trap.S` and `irq.c` acknowledge and call
`interrupt_irq`, which calls `timer_interrupt` or `kbd_interrupt`. The timer calls
`schedule` through an event; `schedule` switches contexts inside the handler, so
that the rest of the handler runs when the context is switched back to. A process
ends with system call 1, which frees its memory and calls `schedule` directly.
`kmain` and the processes are separate contexts with separate stacks. The console's
key handler and the kernel's output share the cursor. `mkefs`, `writeefs` and the
loader share the disk, and nothing else; they never run at the same time.

## 2. The models

A definition whose comment says `\* mutant` is not part of the model: it is what a
plausible mistake would make of the definition after it. Each property is tried out
on one of them, and the run must then fail.

### Heap and Alloc
`Alloc` has one action per way through a call: `KallocInit`, `KallocSucceeds` and
`KallocFails`, `Kfree` and `KfreeIgnored`. `freelist` and `usedlist` are the two C
lists as sequences of header addresses in list order; `len[a]` is the `len` field
of the header at address `a`. A header absorbed by a merge leaves the domain of
`len`, because its bytes belong to a block that can be overwritten from then on.
The order of the lists is kept (first fit depends on it). Addresses and lengths
are byte-exact; `Word` and `Hdr` are those of the i386 build. `Split` has both branches
of `alloc.c:88` (`Larger`); the one that does not split is never taken, because the
search (`Fits`) has already skipped slots too small to be split. `Others` is the list
without the free neighbours a block is merged with, and `Adds` says when the block is
put on it: only if it was not merged with the one before.

*Left out*: `size + 8` is computed in 32 bits and wraps for sizes of nearly 4 GB;
no caller passes one, and sizes are small here. The kernel calls the allocator
with interrupts disabled, so calls do not interleave. `init_alloc`'s failure for a
region shorter than 8 bytes is excluded by `RegionAssumption`.

`Heap` is what callers see: a partial function from the addresses handed out to
lengths. A request is granted at least the size asked for, disjoint from every
block still out, or refused; giving back anything that is not out changes nothing.
`Alloc` implements it with `blocks <- handedOut`, the slots on the used list.

### RoundRobin and Kernel
`Kernel` composes `kmain`, the 8259, the interrupt entry code, the timer's one
event, the scheduler and the processes. A *context* is a flow of control with a
stack of its own: 0 is `kmain`'s, `c > 0` is process `c`'s.

| state | in the code |
|---|---|
| `phase`, `toAdd` | how far `kmain` is |
| `curproc`, `status` | `curproc`, `proctab[].status` |
| `base[c]` | what context `c` does below any interrupt: `kmain`, user code, an exception before its `cli`, `kend` |
| `entry[c]` | frames of IRQs on `c`'s stack that have not reached their `cli` |
| `suspended[c]` | `c` was switched away from inside `timer_interrupt` |
| `irr`, `isr` | the 8259's registers |
| `active`, `t_remaining` | whether `sched_event` is on the list, and its counter |
| `kends` | history: how often `kend` was entered |

*Atomicity.* An IRQ gate is a trap gate (`cpu.c:141-172`), which leaves interrupts
enabled; `trap.S:42` executes `cli` as its first instruction. `IrqEntry(n)` is the
CPU taking the interrupt, and the handler from its `cli` on is one action:
`TimerInterrupt`, `KbdInterrupt`. Between the two, another IRQ may enter on top.
From `cli` to `iret` nothing can interrupt, except that a task switch inside
`schedule` continues another context; the rest of the switched-away handler is the
action `Resume`. The system call enters through an interrupt gate (`cpu.c:178`) and
is atomic; exceptions enter through trap gates, so `Fault` and `Panic` are two steps.

*The 8259* is modelled as the kernel programs it (edge triggered, not auto-EOI,
fixed priorities): one request per line is remembered, a line is delivered if
nothing of its priority or a higher one is in service, and a non-specific end of
interrupt retires the highest priority in service. Only lines 0 and 1 are unmasked
in this kernel.

*Abstracted*: `create_process` always succeeds (`kmain.c:20-30` ignores its result;
the memory it uses is the subject of `MemMan`). What user code computes
and system call 2, which prints, change no modelled state. No code sets a process
to `PROC_WAIT`, so `sched.c:80` is dead and left out. The keyboard handler's effect
on queue, modifiers and cursor is the subject of `Console`; what is kept here is that
it may reboot the machine (`bcon_kbd.c:182-183`).

`RoundRobin` is the scheduler's promise: one processor and a queue. `Kernel`
implements it with the queue read off `proctab` in the order of the scan, starting
after `curproc`.

### AddressSpaces and MemMan
`MemMan` is memory from `init_memman` on. Everything it does happens with interrupts
disabled, so two calls never interleave; but `alloc_addr_space` takes one frame after
the other and can fail at each, so it is a sequence of steps: `CreateProcess` (the
lists), `AllocDirectory`, `AllocTable`, `AllocFrame`, `NextTable`, `Created` (back in
`create_process`). `pc` says where the call is, `as`, `i`, `j` and `proc_frames` are
the C variables.

| state | in the code |
|---|---|
| `frame_map` | the `count` field of each element the map has |
| `kern_pts` | the frames `init_paging` took for the kernel's page tables |
| `space[p]` | `proctab[p].addr_space`: directory, the two lists; and `ptes`, the frames the tables point to |
| `heap` | the blocks `kalloc` has handed out, by what they are for |

`init_memman` allocates `frame_count / 32 + 1` elements, so `FrameMap` is that long,
and reserves 128 of 1024 / 8 bytes, so `Reserved` is one frame of every 32 of the first
4 MB. The lists contain `Junk` (what `kalloc` left there) until they are written.

Two steps leave what the model can say. When no element of the map is free,
`get_free_frame` reads on behind it: what it finds there depends on other blocks'
contents, so either the search fails, as intended, or the step `BeyondTheMap` ends in
`"corrupt"`; so does freeing a frame named by `Junk`. A cleanup loop that has passed
the beginning of its list goes on with words that are no frames of the process:
`"runaway"`. Nothing is said about what follows.

*Abstracted*: `kalloc` is taken to succeed here (its result is not checked at
`memman.c:101,103` and `process.c:28,40,41`; `Alloc` models the refusal). What is
written into page tables, the copy of the program and the TSS's contents are left out;
the no-swap flag is never read. If no directory can be allocated, `kmain` adds the
process all the same, without an address space: that process is left out.

`AddressSpaces` is the promise: a process gets frames that nobody else has, keeps
exactly those, and gives all of them back. `MemMan` implements it with `has` the frames
the hardware would use for a process, not the lists the code keeps.

### TimerList
The list with pointers (`head`, `next`), and on it whatever they lead to: `Active` is the
smallest set that has the head in it and that no pointer leaves, which is what walking the
list finds and can be reasoned about without a recursive definition. `timer_interrupt` is
the loop it is: one
step per event, with `p->next` read only after the callback has returned. A callback
may take its own event off the list, as `schedule` does before it switches for the last
time, and may set and add other events. The loop does not bear more, and the guards of
the model say so: a callback that takes the *next* event off the list is followed into
what was cut off; one that adds its own event again (or sets it, which clears its
pointer) sends the loop back to the head or ends it early. No code of the kernel does
that. Events are set before they are added: one with 0 ticks left would be due 2^32 - 1
ticks later. `UintMax` is small so that this wrap is a state like others.

### TypeAhead and Console
`Console` is everything between a scan code and the cursor. `Enqueue`, `QueueFull`,
`Dequeue`, `Press` and `Release` are the ways through `bcon_kbd_handle`; `Output` is
`bcon_putchar` called by anything else; `Up`, `Down`, `Left`, `HomeLine` are the
functions of `bcon_cursor.c`, on the offset of 16 bits the 6845 keeps; `BconInit` to
`EnableInterrupts` are the steps of `kmain` that connect the devices. The handlers and
all output run with interrupts disabled, so each is one step.

`kbd_state` is a set of bit numbers, and `Clear(n)` what `kbd_state &= ~1<<n` does: the
complement is taken first, so every bit up to `n` goes. `Bit` gives both shift keys
bit 0, as `bcon_kbd.h` does. `Vector`, `Gate` and `Enable` are the four numberings:
8259 line to vector (`init_pic`), vector to the number its gate pushes (`cpu.c`, where
IRQ 8's gate has IRQ 9's entry and the gate for 49 is not present), and line to mask
bit (`enable_irq`, where lines from 7 on are counted from the second chip).

*Left out*: the characters on the screen, upper case (a letter is a letter), echo
(always on: nothing calls `echo_off`), the keys that neither print nor modify, and
`bcon_input_queue_head`, which nothing calls.

`TypeAhead` is a queue of bounded length that backspace takes the *oldest* element out
of. `Console` implements it with the `count` keys from `head` on, around the ring.

### FileStore, Efs, Loader and DirScan
`Efs` is the disk and the two programs that write it. Each `write_block` is a step,
with what the program computes between two of them; `pc` says which write is next, and
`Stops` where the program may be killed (`Stop`), which throws its memory away and
keeps the disk. `mkefs` may run again on a disk in use, and it may erase the superblock
it has just written (section 5): `CreateSuperblock` leaves in `pos` the block its next loop
begins at, 1 or 0. Of what `mkefs` reads after its `free`, `data_offset` is taken to be
intact: the model is that of a C library that uses the first 8 bytes of a free block.

| state | on the disk |
|---|---|
| `superblock`, `used` | whether the ident is there, the bitmap |
| `inodes` | the inode table: size, references, direct and indirect pointers |
| `dir` | data block 0, the only block the root directory ever has |
| `text[b]`, `slot[b]` | data block `b` read as a part of a file, and as block numbers |

The unit of size is a directory entry (16 bytes), so that a file need not be a whole
number of blocks. What a block holds is `<<source, place>>`: the source it was copied
from and which block of it. `PointDropped` is the double indirect block that is "not
yet implemented" and returns success (`inode.c:255`); `FallocFails` gives `-1`, which
`writeefs` does not take for an error, and the `lseek` to it fails (`WriteFails`).

*Left out*: errors of the device or of the source file; names of 11 characters and
more (see section 5); sources so long that a size wraps; a disk that holds something
else with an ident that is partly EFS's; a C library that writes over `data_offset` in the
freed superblock; the branches under `__KERNEL__`, which do nothing; the command lines.

`FileStore` is the promise: a name has no file, or the first blocks of one source,
whole blocks and in order; another's file never changes. Blocks beyond the `Reach` of an
inode are `Lost`: the file has their length and not their content. `Efs` implements it with
`files` read off the directory as `boot2.S` reads it, through `GetBnum`. "Formatted"
means that there is a superblock and block 0 is marked, which `mkefs` does last: before
that nothing can be allocated on the disk, as block 0 is also the answer "none".

`Loader` composes `Efs` with `boot2.S`: switched on at any moment no tool runs, it looks
the kernel up and reads block after block. `Word` is the range of a 16-bit register, in
entries: `boot2.S:312` takes the number of the last block from the low word of the size.
`Room` is how many blocks fit between `KERNEL_ADDRESS` (0x500) and the loader, which runs
at 0x9000 with its variables in its first 256 bytes: 34. `read_kern_loop` does not look where
a block goes; the block that does not fit overwrites the disk geometry and the code's
variables, the ones after it the code, the inode and the stack. From then on `boot` is
`"lost"`, and nothing is said of what the loader does, except that the machine can be
switched off.
`DirScan` is the comparison `Loader` takes for granted, with its registers; `SearchIsRight`
(section 4) says when it may.

## 3. What the runs check

**alloc** (`MCAlloc.cfg`). A region of 84 bytes, requests of 1, 8 and 12 bytes,
`kfree` of every word of the region and of NULL: about 10 700 distinct states. The
region holds up to six slots, so the free list takes every order, a freed slot has
free neighbours on either side, both or none, and a request can fit no slot, the
first or a later one. Properties: the type invariant; slots stay inside the region
(`Contained`), never overlap (`Disjoint`) and lose no byte (`NoLeak`); free slots
are never adjacent (`Coalesced`) and the region is whole again when everything has
been given back (`AllFreed`); headers are on word boundaries, which `alloc.h:23-24`
says the macros rely on (`WordAligned`); and the refinement `ImplementsHeap`.

**kernel** (`Kernel.cfg`). Three process slots beside `kmain`'s, four processes (so that
`sched_add` also finds the table full), `schedule` every second tick: 6 700 states.
Properties: the 8259 agrees with the stacks (`ServiceDiscipline`), an end of interrupt
retires the interrupt of the handler that sends it (`EoiRetiresOwnIrq`), the CPU is never
with a process that has ended (`CurrentIsLive`), `kend` starts at most once and the
scheduler never runs again (`KendOnce`), a context that has ended is never returned
to (`DeadStaysDead`), the scheduler is a queue (`ImplementsRoundRobin`), everybody who can
run gets the CPU (`EveryProcessRuns`), and a key that is pressed is handled, except in the
one situation the next run shows (`KeyIsHandled`).

**kernel_kend** (`KernelKend.cfg`) is expected to fail: see the findings.

**timers** (`TimerList.cfg`). Three events, intervals of one and two ticks, a counter
that wraps at 3: 187 000 states, with every order of the list and every change to it
from outside and from callbacks. Properties: a tick counts each event that stays on the
list down exactly once, and none twice (`OnceATick`); nothing on the list has 0 ticks
left (in `TypeOK`); what a tick has yet to reach only becomes less, by one event with every
step of the loop (`TickAdvances`); a tick ends (`TickEnds`).

**memman** (`MemMan.cfg`). Three processes of 1, 64, 65 or 66 frames, where a page table has
64 entries: a few, exactly as many as a table holds (`alloc_addr_space` then takes a second
table, which stays empty), one more and two more. With tables and directory they take 3,
67, 68 or 69 of 72 frames, so that creation fails at each of its steps: 69 and 3 take all,
and the next process gets no directory; 68 and 3 leave one, and it gets no page table; two
of 3 leave 66, and one of 67 fails at its second page table, of which the first is given
back; others fail for a frame. Failures at the directory return, and the kernel goes on:
processes end and frames are used again. The other failures end in `"runaway"`, and the exit
of a process of 65 frames or more may end in `"corrupt"` (section 5): 18 200 states.
Properties: between two calls the counts and the blocks are exactly those of the kernel and the processes there are (`FramesBalanced`, `HeapBalanced`), all
frames asked for are there (`SpaceIsComplete`), and the refinement
`ImplementsAddressSpaces`.

**memman_full**, **memman_reserve**, **memman_undo** are expected to fail: see the
findings. They use a machine with one page table per process.

**console** (`Console.cfg`). One printing key, newline, tab and backspace, a queue of two,
a screen of 10 x 2, the cursor wherever the BIOS may have left it: 377 000 states.
Properties: the cursor stays on the screen (`CursorOnScreen`), the queue is a queue
(`ImplementsTypeAhead`), no modifier is stuck (`NoStuckModifier`), only Ctl-Meta-Del
reboots (`RebootsOnlyOnCtlMetaDel`), both lines reach their handlers and no line is let
through that has none (`LinesReachTheirHandlers`).

**efs** (`Loader.cfg`). Three names, one more than there are inodes for, sources of 2, 5 and 9 entries, blocks of 3, one direct
and one indirect pointer, five data blocks, three inodes; `mkefs` again on a disk with up
to three blocks in use; kills everywhere but inside the creation of a file; boots whenever
no tool runs: 913 000 states. The sources fill part of a block, need the indirect block,
and reach beyond it; two files do not fit the disk, so every allocation also fails; files
are written over by longer and shorter ones; a third file finds no inode. Two blocks fit
below the loader: a kernel of 2 or 5 entries does, one of 6, which a killed writer of 9
leaves, makes it read a third block over itself, and one of 9 is 0 in a `Word` of 9.
Properties: the directory, the inodes and
their reference counts agree (`DirectoryIntact`), no two uses of a block (`NoBlockShared`),
nothing is allocated on a disk that is not yet formatted (`NothingAllocatedTooEarly`), a
file that an inode can hold is complete when its writer says so (`CompleteWhenDone`), what
is loaded is the beginning of a source (`RunsAPrefix`), and the refinement `ImplementsFileStore`.

**efs_crash**, **dirscan** are expected to fail: see the findings.

*Bounds.* Sizes are scaled down; the ratios the code computes with are those of the code.
In `MemMan` (a frame of 4 bytes, page tables of 64 or 128 entries) they are one element
per 32 frames, 8 bits per byte, 4 bytes per element. Three processes are the fewest for
which the order of the queue says something while one of them ends. An interval of two has
ticks that call `schedule` and ticks that do not. Three events are a head, a middle and a
tail. A queue of two is empty, full and wrapped; a screen of two lines scrolls, and 10
columns are the fewest that `ConsoleAssumption` allows ("QueueFull" fits a line, as it does
on 80). `OffsetRange` is 64, so that a cursor that leaves the screen at either end stays
inside the type and is seen to be off the screen. `FormatBound` keeps `mkefs` from a disk
that is fuller than three blocks, which halves the state space; what `mkefs` does not
depend on it. `Kernel`, `Console` and `MemMan` bound nothing else: their state spaces are
finite. In `Efs`, sizes are bounded by the sources; in `TimerList`, `MaxInterval` bounds
what an event is set to. The theorems below hold without these bounds.

`Stops` leaves out the two moments inside `new_file` between the directory entry and the
inode (`"root"`, `"take"`): a kill there makes the next file share an inode, which
`efs_crash` shows, and after that neither the directory nor the files are what
`DirectoryIntact` and `FileStore` promise.

*Deadlock* is checked for the allocator. The other systems may really stop, and their
runs have `CHECK_DEADLOCK FALSE`: `Kernel` panics and reboots, `Console` reboots, `MemMan`
has two states after which nothing is said, the tool of `Efs` fails in `new_file` when the
root directory cannot grow, and `DirScan` ends with its answer. `TimerList` has no such
state, but nothing makes another tick come, and no property needs one.

*Fairness.* `Kernel!Fairness`: the 8253 goes on ticking. The CPU executes
instructions, so an enabled step of `kmain`, of a handler or a delivery of the timer's
interrupt eventually happens (weak fairness). The keyboard's interrupt and handler can
be disabled again and again by ticks that come first, so they need strong fairness:
a CPU that is again and again about to execute an instruction eventually does. No
fairness for `SyscallExit`, `Fault` or a key press. The keyboard has the lower
priority, so a statement about it also needs ticks that leave it time: `TicksAreSlow`
says that the CPU is again and again done with a tick before the next one (a tick is
10 ms). It is a premise of the keyboard properties, not of the specification.
`TimerList!Fairness`: `timer_interrupt` runs with interrupts disabled, so its loop goes on
(`WF` of `Loop`), and callbacks return (`WF` of `Return`): a callback that never does, like
`schedule` into `kend`, ends the handler for good, and `Kernel` is about that. Callbacks
may make calls for as long as they like, but what a callback can do to the list without
repeating a state is finite. The other modules state no fairness: nobody has to type,
format or boot.

## 4. What is proved

All theorems hold for every value of the constants that satisfies the assumptions
the modules name, and are checked by TLAPS to the last step.

`AllocProofs.tla`, from `RegionAssumption` and `CallersAssumption`:
- `Invariance`, `TypeCorrect`; `SlotsStayInside` (`Contained`), `SlotsAreDisjoint`
  (`Disjoint`), `SlotsLeaveNoGap` (`NoLeak`); `FreeSlotsStayMerged` (`Coalesced`),
  `EverythingComesBack` (`AllFreed`); `HeadersAreAligned` (`WordAligned`);
  `Refinement` (`ImplementsHeap`).
- *The argument.* None of these properties is inductive alone: merging is right only
  because the slots tile the region. The invariant says that the two lists are
  injective and disjoint, that their slots tile the region (each slot ends where
  another starts or at the end of the region, and no slot starts inside another),
  that no two free slots are adjacent, and that headers are aligned. The geometry is
  proved about sets of addresses first (`SplitTiling`: cutting a slot in two keeps a
  tiling a tiling; `MergeTiling`: so does joining two adjacent ones), then carried
  over to the lists (`UnlinkSet`, `PushSet`). Coalescing needs the tiling twice: at
  most one free slot ends where the freed one starts, and at most one starts where
  it ends, so one pass over the list is enough.

`KernelProofs.tla`, from `KernelAssumption`:
- `Invariance`, `TypeCorrect`; `InServiceIsEntered` (`ServiceDiscipline`), `EoiIsItsOwn`
  (`EoiRetiresOwnIrq`); `SchedulerIsSafe` (`CurrentIsLive`), `KendIsEnteredOnce`
  (`KendOnce`); `EndedForGood` (`DeadStaysDead`).
- *The argument.* The properties need to know which frames can be on which stack.
  `StackInv`: the stack of a context holds no IRQ, one, or the timer's on top of the
  keyboard's; the timer's is only on the stack of the context that has the CPU and
  is not suspended, the keyboard's on at most one; and they are there exactly when
  in service. `ProcInv` ties the status of a process to what its context does, and
  says that one that has ended has an empty stack. `CurrentInv` says what the running
  context can be, `BootInv` what `kmain` has set up by the time interrupts are
  enabled (without a process, the first tick would start `kend` on `kmain`'s stack).
  `NextProcFacts` is the lemma about the scan in `schedule`: it stops at the nearest
  process that can run, or where it began, and then no other process can run.
- `ScanIsAQueue` (`ImplementsRoundRobin`); `InOrder` (`NobodyIsOvertaken`, which no run checks:
  it follows from the queue, and says how long a process waits).
- *The argument.* The queue that `Kernel` shows to `RoundRobin` is a choice: the processes
  that wait, in the order of their distance from the running one. `QueueIsAll` and
  `QueueIsOne` say that such a sequence holds everybody who waits once, and that there is
  only one (finite sets of the same size, and the first place where two would differ), so a
  step is mapped by giving the sequence it leaves: `QueueMoves`, a switch takes the nearest
  off, everybody else comes nearer by its distance, and the one that is left is now the
  farthest (`DistanceMoves`); `QueueGrows`, while `kmain` adds processes, slots are in use
  from the first one on without a gap (`QueueInv`), so the first free slot is the farthest.
  An exit is a switch from a slot that does not wait any more (`QueueExit`), and
  `SchedulerSteps` says that nothing else changes who runs or waits.

`TimerListProofs.tla`, from `TimerAssumption`:
- `Invariance`, `TypeCorrect` (nothing on the list has 0 ticks left); `CountedOnce`
  (`OnceATick`); `TickGetsAhead` (`TickAdvances`).
- *The argument.* `OnceATick` speaks of the end of a tick; the invariant says at every step of
  it that events ahead of the loop have not been counted, and events behind it that were on
  the list all the time have been counted once (`LoopInv`). While a callback runs, "ahead" is
  what the pointer of its event leads to, also when the event has been taken off: a pointer
  back to the event would count it twice, so the list must never come back to itself
  (`ListInv`). The lemmas are about the set `Reach` of what pointers lead to: it is the least
  closed set (`ReachIsLeast`), unfolds by one pointer (`ReachUnfolds`) and depends on no
  pointer outside (`ReachSame`); taking an event out removes exactly that event
  (`UnlinkMiddle`, `UnlinkList`).

`MemManProofs.tla`, from `MachineAssumption` and `CallersAssumption`:
- `Invariance`, `TypeCorrect`; `NothingIsLost` (`FramesBalanced`), `BlocksAreCounted`
  (`HeapBalanced`); `SpacesAreComplete` (`SpaceIsComplete`); `Refinement`
  (`ImplementsAddressSpaces`).
- `MemoryIsEnough`: `MemoryFullIsNoticed` and `CleanupEnds`, which runs `memman_full` and
  `memman_undo` show to fail, hold where the frame map has an element for every frame of as
  many processes as there can be, none of which needs more than one full page table
  (`EnoughFrames`). `kmain`'s three processes are such a case from 12 MB of memory on: with
  97 elements 32 are reserved, 3 hold page tables of the kernel, and each process needs 19
  (64 KB and its text are 17 frames, and there is a table and a directory).
- *The argument.* `FramesBalanced` speaks of the moments between two calls; the
  invariant says at every step who holds what, the call in progress included.
  `DisjointInv`: nobody holds what somebody else holds or what is reserved. `MapInv`:
  what is held is what is marked, so the first free frame is nobody's (`Fresh`).
  `CallInv`: which elements of the lists are written already, so that a frame that is
  stored replaces junk and not a frame. `SpaceInv`: if nothing on a process's list is
  junk, the list names exactly what its tables point to, so `free_addr_space` gives
  back what the process holds (`FreesWhatIsHeld`). For an address space of several full
  tables the premise is false (section 5): freeing it ends in `"corrupt"`, about which
  neither the model nor the theorems say anything more.
  `SpaceIsComplete` has an argument of its own, which needs little of the above: frames
  taken and frames left are the frames asked for (`Remainder`), every table before the
  current one is full and every frame stored is a new one (`Fresh`), so when the counter
  reaches zero the tables point to as many frames as the caller asked for (`CountInv`).
  `MemoryIsEnough` counts: all a process holds fits in a list as long as the largest one
  needs (`OneList`), and what is held while a frame is asked for fits together with the one
  asked for (`Covered`). So the processes' frames are the image of processes and places, at
  most one fewer than their product has elements, and some element of the map is free
  (`NotFull`). Every call then succeeds, and no list of a process has junk (`SuccessInv`).

`ConsoleProofs.tla`, from `ConsoleAssumption`:
- `TypeCorrect`; `CursorCorrect`, `StaysOnScreen` (`CursorOnScreen`); `NoneIsStuck`
  (`NoStuckModifier`); `RebootsOnly` (`RebootsOnlyOnCtlMetaDel`); `LinesReach`
  (`LinesReachTheirHandlers`); `RingIsAQueue` (`ImplementsTypeAhead`).
- *The argument.* `CursorOnScreen` is not inductive: a backspace at the first place
  leaves the screen. `CursorInv` says that the cursor is at least as many places from
  the beginning as there are characters in the queue; `Forward` is what all output does
  to it: it goes forward, or it is on the last line, and that is far enough for a full
  queue (`BCON_KBD_QUEUE_LEN <= (TERM_LINES - 1) * TERM_COLS`: 100 against 1920). The
  lemmas below it (`Quotient`, `OffTheEnd`, `Scrolls`) are the arithmetic of lines and
  columns. `RingInv` is `tail = head + count` around the ring; `EnqueueTypes` and
  `DequeueTakes` map the two operations to those of `TypeAhead`, element by element.
  `BootInv` says what is connected at each stage of boot.

`EfsProofs.tla`, from `EfsAssumption`:
- `Invariance`, `TypeCorrect`; `NothingEarly` (`NothingAllocatedTooEarly`); and, for tools
  that are not killed inside `new_file` (`Uninterrupted`), `DirectoryInvariance`,
  `DirectoryStaysIntact` (`DirectoryIntact`), `BlockInvariance`, `NoBlockIsShared`
  (`NoBlockShared`), and `NewFilesAreEmpty`: `NewFileIsEmpty`, which run `efs_crash` shows to
  fail without the premise.
- *The argument.* `PcInv` and `OnAnEfs` are what a running program knows: that the source is
  not at its end, that the file is found, that the block is one, that there is a
  superblock. `DirInv` extends `DirectoryIntact`
  to the steps of `mkefs` and `new_file`: `MkefsInv` says what is on the disk before block
  0 is marked, `EntryInv` that between the entry and the inode exactly one entry names an
  inode that is not yet taken. That the directory never grows beyond its block is a
  pigeonhole argument (`RoomForOne`): its entries have inodes of their own, one inode is
  still free, and there are no more inodes than places. `NotTheRoot` keeps file writes off
  the root inode. The premise `Uninterrupted` cannot be dropped: `efs_crash` is the
  counterexample.

- *The argument for blocks.* A *place* is an inode and a logical block below its size; what it holds is
  the block its direct pointer names, or the one its indirect block lists (`Num`). `Apart`
  says that different places hold different blocks, all marked, and that indirect blocks are
  nobody's data. `NoBlockShared` is not inductive, because the tools mark a block before they
  point to it and raise the size last: `ReadWriteKnows` says that the block in the writer's
  hands is `Loose` (marked, and held by no place) and which pointer will hold it;
  `NewFileKnows` says the same of the steps of `new_file`. Pointers beyond a file's size are
  what a truncation left behind and may name anything, so each case of `AddBlockPointer`
  shows that such a pointer is written over before a place reaches it. The lemmas
  `Unmoved`, `Extended`, `Attached` are the three things a step can do to the places: none
  or fewer of them, one more that holds the loose block, an inode that gets the loose block
  as its indirect one.

- *The argument for new files.* `Empties` says that an inode that is free is empty, which
  `SetSize` needs `DirInv` for: the file it grows has an inode that is taken. It
  holds on unformatted disks too, with one exception it names: there the root's inode may
  be free, `new_file` grows it and then takes it, as an empty one. That no file's data is
  written to such a disk is part of it.

`EfsRefinement.tla`, under the same premise `Uninterrupted`:
- `CopyInvariance`, `FileIsComplete` (`CompleteWhenDone`); `Refinement`
  (`ImplementsFileStore`).
- *The argument.* The refinement reads a file through its places (`View`). `TextStays`: a block that is
  written is held by no place, so no file changes while a block is copied (`FileStays`), and
  the step that raises the size appends one chunk of the source (`SetSizeWrites`). `Kept`
  says what is never among data (block 0's number, what an unwritten block holds), `Copied`
  that what a running `writeefs` has copied is its source's beginning. `ReadWriteStore`,
  `NewFileStore` and `StoreStep` then map each step to one of `FileStore` or to none: opening
  a file is `Begin` at the truncation or at the directory entry, raising the size is
  `Extend`, `mkefs` is `Erase`.
- `RunsWhatWasWritten` (`RunsAPrefix`, of `LoaderSpec`, from `LoaderAssumption` too).
  `WholeFile` adds the size to what the refinement says of a file: all of its source, or whole
  blocks of it. `LoadInv` says that the loader has read what the inode's pointers name, block
  after block. Block 0 is the root directory's place and so no other's, and a kernel below
  `Room` blocks, 34 KB, leaves the loader alone, has its whole size in the low word and needs
  no more pointers than an inode has: then the two meet.

`DirScanProofs.tla`, from `Characters` (letters are neither 0 nor ".", an entry has room for
one):
- `SearchIsRight`: `FindsTheFile`, which run `dirscan` shows to fail, holds if no entry before
  the one looked for begins with its first letter (`LettersDiffer`). `Loader` takes this for
  granted: there no name begins with the letter of another.
- *The argument.* `ScanInv` says that SI is at an entry, as far into it as the names agree
  (`BufferIs` is the arithmetic of entries). Names that have agreed in one letter are the same
  (`OneLetterIsEnough`), so a comparison fails at the beginning of an entry or not at all, and
  the step to the next entry is right.

*Only model-checked*: liveness (`EveryProcessRuns`, `KeyIsHandled`, `TickEnds`), which is out
of the prover's reach. What makes two of them true is proved: a process that waits has fewer
in front of it after every switch (`InOrder`), and a tick fewer events ahead after every step
(`TickGetsAhead`); that switches and steps go on happening is the fairness TLC takes into
account. What a run that is expected to fail shows is a counterexample; the premise under which
its property does hold is proved for `dirscan`, `efs_crash`, `memman_full` and `memman_undo`.
The property of `memman_reserve` fails with the first process there is; that of `kernel_kend`
is liveness.

## 5. Findings

Six runs show where the code does something else than its comments say.

**The keyboard can be dead when `kend` runs** (`kernel_kend`). `ChangeLog:22-24` says
that `kend` enables interrupts so that it "can show off the keyboard driver". If a
key's interrupt is entered while `kmain` halts (`kmain.c:63`), and the timer's enters
before the keyboard entry's `cli`, then `schedule` switches to the first process.
`sched.c:60` never selects slot 0 again: the keyboard's entry never sends its end of
interrupt, IRQ 1 stays in service and no further key is delivered, also not in `kend`.
The window is one instruction, before the first switch. With interrupt gates instead
of trap gates it would not exist.

**The frame map is too short** (`memman_full`). `memman.c:38` sizes it as a bitmap, one
element per 32 frames, and `memman.c:24-25,65` index it with the frame. With all
elements in use the search reads behind the map instead of saying that memory is full
(`memman.c:17`), and the count of what it takes for a frame is incremented in somebody
else's block. With 16 MB 93 elements are free after `init_paging`, enough for `kmain`'s
three processes; with 8 MB 31 are, too few for the second. Below 128 MB no frame
above 4 MB is ever handed out.

**The first 4 MB are not reserved** (`memman_reserve`). `memman.c:55` says they are;
`memman.c:56` marks 128 bytes of the map, which are 32 frames.

**A failed allocation does not return** (`memman_undo`). `for( j -= 1; j >= 0; j-- )` of a
`uint32` (`memman.c:123,136,139`): what `ChangeLog:18-20` says was fixed frees the frames
of the last page table and then whatever the words before the list name, for ever.
`memman.h:59` still says that nothing is freed.

**A killed `writeefs` leaves two files in one inode** (`efs_crash`). `new_file` writes the
directory entry and the directory's size before the inode is marked as taken
(`efs.c:88-96`). Killed in between, it leaves a name whose inode is free: the name can be
written, and the next new file gets the same inode, size and blocks. `efs/include/efs.h:13`
promises a new empty file. Marking the inode first would lose no more than an inode.

**The loader's search gets out of step** (`dirscan`). `boot2.S`'s `strcmp` leaves SI where
the names differ, and `boot2.S:269` adds the length of an entry to *that*. After an entry
that shares its first letter with the name asked for, the comparison goes on in the middle
of names: the kernel is not found, or another file's inode is taken for it. `mkefs`'s first
entry is ".", so a disk with one file boots.

Seen while modelling, and not the subject of a run:

- `alloc.c:65` refuses a slot that would fit exactly (`len >= size + 8` is asked of it), so
  `alloc.c:88`'s other branch is dead; `kalloc.h:9-10` says NULL means that there is not
  enough memory.
- `memman.c:132` stores into `frames[j]` with `j` from 0 again for each page table: a process
  of more than 4 MB overwrites the record of its first frames, and `free_addr_space` then
  reads elements that were never written. `kmain` creates no such process.
- `efs.c:28` joins the ident's bytes with `&&` where `||` is meant: a disk passes if any of
  them is right. `efs.c:220` answers `-1` where `writeefs` tests for 0.
- `inode.c:253-258` drops a pointer that would need a double indirect block and returns 0,
  although `efs/include/inode.h:59` says "Return -1 on error": `writeefs` goes on, the file's
  size grows, and what lies beyond is read as nothing. `CompleteWhenDone` therefore speaks
  of sources an inode can hold, and of the size only for longer ones. `inode.c:121` reads the
  indirect block at its data number, without `data_to_real`: only the loader, which has
  code of its own, reads files on this disk.
- `writeefs.c:100-101` copies a name of `EFS_FILE_NAME_LEN` - 1 characters or more without
  an end.
- `mkefs.c:116` reads `sb->inode_offset` after `free( sb )` (`mkefs.c:106`). Where the C library
  keeps its free list in the first 8 bytes of a block, as on x86-64, it reads 0 and
  the loop begins at block 0: the superblock is erased, `set_inode` writes the root inode to
  the beginning of the boot sector, and `mkefs` ends without an error. The binary
  `efs/mkefs` in the repository does that (run on an empty image it leaves no ident and the
  bytes of the root inode at offset 0). On i386 only the ident in memory is lost and the disk
  is right. The model has these two outcomes (`CreateSuperblock`); a disk without a superblock
  is refused by `writeefs`. `sb->data_offset` is read after the `free` too (`mkefs.c:116`, and
  from `mkefs.c:134` on). It lies in bytes 12-15: a C library that writes there as well (glibc
  from 2.29 on keeps a second word in a free block) changes it, and what `mkefs` does then is
  not modelled.
- `read_kern_loop` (`boot2.S:323-347`) copies the kernel from 0x500 up without an end, and the
  loader is at 0x9000 (`boot1.S:7-8`), its stack below 0x9C00 (`boot1.S:65-69`): block 34, the
  35th, overwrites the loader's variables and the next ones its code. So a kernel has to be
  smaller than 34 KB, while `boot2.S:26-28` provides for 261 blocks; as one block more than
  needed is read when the size is a multiple of a block, exactly 34 KB is too much.
  `boot2.S:312` takes the last block from the low word of the size, so that a kernel of 64 KB
  or more would be cut off, and BX would wrap. An empty kernel loads one block: block 0, the
  root directory, which is then run.
- `8259_pic.c:46`: `disable_irq` masks every line *but* one; nothing calls it. `enable_irq` is
  off by one for line 7. `cpu.c:157-160` gives IRQ 9's entry IRQ 8's gate and IRQ 9 none.
  `irqs` is initialised with 15 NULLs, and IRQ 15 is beyond it. None of those lines is let
  through (`LinesReachTheirHandlers`).
- `cpu.c:191` passes `kalloc_init` an end address as the length.
- `bcon_kbd.h`'s masks have no parentheses, so `~` applies before the shift: releasing a
  modifier clears the bits of those below it. A modifier can be lost while it is held, never
  stuck (`NoStuckModifier`), and `RebootsOnlyOnCtlMetaDel` holds.
- Backspace takes the oldest character out of the queue, not the last (`bcon_kbd.c:136`).
  Nothing reads the queue, so after 100 keys every further one prints "QueueFull".
  `bcon_input_queue_head`, unused, advances the head and not the count.
- `timer.h:50` says the opposite of what `repeat` does. `timer.c:87-88` writes through `head`
  when it is NULL, that is to address 16; the page is mapped.

## 6. What is left

- The process whose address space could not be allocated (`kmain.c:24-25`): what it runs is
  arbitrary, and a module that composes `Kernel` with `MemMan` could only say so.
- `process_kill` frees the memory it runs on; what a freed frame holds is not modelled.
- `boot1.S`, and what the characters on the screen are.
