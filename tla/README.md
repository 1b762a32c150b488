# dalek, verified

TLA+ models of dalek, a small boot loader for 32-bit PCs, with the
configurations that model-check them and machine-checked proofs about them.
Paths are relative to the repository; `stage2/` stands for
`src/bootloader/stage2/` and `stage1/` for `src/bootloader/stage1/`.

Everything is checked with TLC (`tlc -config Run.cfg Module`) and TLAPS
(`tlapm ScreenProofs.tla`). `PROJECT.json` lists the runs, the lines of code each
definition stands for, a plausible bug per property that the property catches,
the hazards the properties are aimed at, and the theorems.

## The system

`install.py` writes a boot sector (stage 1) that holds a list of sector ranges.
The boot sector loads those sectors and jumps to stage 2, which asks the BIOS for
the memory map, enters 32-bit protected mode and starts `main`: a command line
with drivers for keyboard, screen, timer and floppy, a heap, a FAT reader and
commands, one of which goes back to real mode and starts another boot sector.

In protected mode one thread of control runs, without paging and without tasks;
interrupts cut into it. An interrupt enters through an interrupt gate, so that a
handler runs with interrupts off and to its end; the main thread can be cut
between any two of its instructions. That asymmetry is the source of nearly all
the hard behaviour: state is shared between handlers and the main thread without
locks, and only the order of loads and stores protects it. The repository's
`README.md` builds with `-DCMAKE_BUILD_TYPE=DEBUG`, and neither the `CMakeLists.txt`
files nor `cmake/modules/Platform/i386.cmake` ask for optimisation, so the models take
the accesses in program order; where C leaves the order of two loads open, both
orders happen.

| Part | Code | State | Operations | What makes it correct |
|---|---|---|---|---|
| Keyboard driver | `stage2/devices/keyboard/` | modifier flags, ring buffer and its two indices | `kb_handler` (IRQ 1), `kb_getc`, `kb_read`, `kb_init` | a FIFO queue: no key lost once accepted, none twice, the reader woken; no stuck modifier |
| Memory manager | `stage2/memory.c` | the pool, the lists of used and of free blocks | `mm_initialize`, `malloc`, `free`, totals | blocks never overlap; a list node never lies in memory handed out; nothing lost |
| Root filesystem | `stage2/fs.c`, `stage2/filesystems/fat/fat.c` | the handle mounted and its table | `fs_set_root`, `fat_get_handle`, `fat_release_handle` | the mounted handle is alive; the others were freed once |
| Floppy driver | `stage2/devices/floppy/` | motor state and ticks, count of interrupts, position, the output register | `fd_init`, `fd_read`, `fd_seek`, `fd_reset`, `fd_irq_handler` (IRQ 6), `fd_timer`, `fd_deinit` | motors are stopped, data is that of the block asked for, requests end |
| Interrupts | `stage2/irq.c/.S`, `idt.c/.S` | gates, routines, saved masks | install, dispatch, end of interrupt, remap and its undoing | a line runs its routine; controllers are released; the BIOS gets its set-up back |
| Timer | `stage2/timer.c` | 64-bit counter, task list | `timer_handler` (IRQ 0), register, unregister, `sleep` | tasks in time, sleeps long enough and finite |
| Screen | `stage2/devices/screen/` | video memory, position, attributes | `screen_putc`, `screen_scroll`, `screen_clear`, `screen_write`, ANSI sequences | writes in video memory, cursor where text goes, sequences read like a terminal |
| Output and log | `stage2/stdio.c` | none of its own | `vprintf`, `log` | numbers readable, colours restored |
| Strings | `stage2/strings.c` | none | `itoa_s`, `strtol`, `strncmp`, `strsplit`, ... | inverses of each other; names told apart |
| Command line | `stage2/cli.c`, `gets` | a line of 128 bytes, 16 words, the list of commands | `gets`, `cli_register`, `cli_start` | what runs is what was typed |
| Device registry | `stage2/io.c` | a list of devices | `io_register_device`, lookup, `io_read`, ... | an operation reaches the device named |
| Commands | `stage2/commands/` | none | `read`, `seek`, `root`, `chainload`, ... | the right device, or an error |
| Start-up | `stage2/main.c`, `modules.c` | list of modules | `main`, `mod_init_all`, `mod_destroy_all` | handlers before devices, tear-down order |
| Memory map | `stage2/stage2.S` | table of 32 entries | the loop around INT 15h, E820 | what the BIOS told, in order |
| Stage 1 | `stage1/` | registers, retry count | load by the list, jump | every sector in its place |
| Installer | `install.py` | none | clusters to ranges, split at 64 KB | every sector once |
| Panic, ports, GDT | `panic.c`, `ports.c`, `gdt.S` | none | single instructions, tables | - |

How they interact: `timer_handler` calls the registered tasks (`fd_timer`);
`fd_read` is called by `fat_get_handle` through the device registry and waits for
the interrupts of IRQ 6 with `hlt`; `fs_set_root` allocates from the memory
manager; `kb_handler`, `irq_handler` and timer tasks may print and so run
`screen_putc` inside another one; `chainload` destroys the modules (which sleep,
and need the timer), turns interrupts off and undoes the remapping.

## The modules

One action per operation or, where an interrupt may come in between, per access
to shared state; `pc` says where the main thread is. Variables and definitions
have the names of the code where they have one there. Variables marked *external*
are devices, as the code uses them; those marked *ghost* are history a property
needs and no guard reads. A name with an underscore and a word after a
definition's name (`Lookup_ShiftFirst`) is a faulty variant of that definition:
no specification uses it, and a property fails when it takes the definition's
place.

| Module | Models | Checked by |
|---|---|---|
| `Keyboard`, `KeymapEsEs` | the keyboard driver with the tables of es_es | `MCKeyboard`, `Keyboard.cfg`; `KeyboardProofs` |
| `KeyQueue` | abstract: a bounded FIFO queue with one reader; `Keyboard` implements it | same |
| `MemoryManager` | the allocator | `MCMount`, `Mount.cfg`; `MemoryProofs` |
| `Heap` | abstract: what malloc and free promise; `MemoryManager` implements it | same |
| `Mount` | the command `root` on top of `MemoryManager`: the two composed | same |
| `Floppy` | the floppy driver with its controller and `fd_timer` | `Floppy`, `Floppy.cfg`; `FloppyProofs` |
| `Interrupts` | gates, dispatch, the two 8259A, start-up and `chainload` | `MCInterrupts`, `Interrupts.cfg`; `InterruptsProofs` |
| `Timer`, `TimerPace` | the timer, and the pace of the main thread | `MCTimer`, `Timer.cfg`; `TimerProofs` |
| `Screen` | `screen_putc` and what it calls, interrupted by itself | `MCScreen`, `Screen.cfg`; `ScreenProofs` |
| `Strings` | the operators of `strings.c` that others use | with `Console` and `Shell`; `ScreenProofs`, `BootShellProofs` |
| `Console` | `vprintf` and `log`, the scan of `screen_write`, `screen_ansi_attr`, interrupted by a handler that logs | `MCConsole`, `Console.cfg`; `ScreenProofs` |
| `Shell` | modules that register devices and commands, `gets`, `strsplit`, the loop of `cli_start`, the commands on devices | `MCShell`, `Shell.cfg`; `BootShellProofs` |
| `Installer` | from clusters to the list of ranges | with `Boot` |
| `Stage1` | the loader of the boot sectors | with `Boot`; `BootShellProofs` |
| `MemoryMap` | the loop of `stage2.S` over E820 | with `Boot`; `BootShellProofs` |
| `Boot` | the three composed | `MCBoot`, `Boot.cfg`; `BootShellProofs` |
| `Arithmetic` | lemmas for the proofs: quotients, least elements, induction, functions and folds defined by recursion, sequences, sums | (proofs) |

### Keyboard

`kb_handler` is one step: it takes a byte off the wire, decodes it and pushes a
key. The reader takes a step for the test of the buffer (`CheckEmpty`), the
`hlt`, the advance of `pop_index` (`PopIndex`) and the read of the slot
(`ReadSlot`). The keyboard is free to send make codes again (auto-repeat) and
breaks in any order. `hlt` ends at any interrupt, the timer's included.

Run: shift, caps lock, the escaped right alt and a letter, a buffer of three
slots, reads of one byte. Three slots are enough for the buffer to be empty, half
full, full and wrapped with each index at every place; four keys reach all four
tables and the case swap. `ImplementsQueue` is a refinement: the ring buffer
between its two indices, with the key in the reader's hand, is the abstract
queue. Fairness: the processor runs the main thread; the timer keeps
interrupting (it is programmed once and its handler is always unmasked); a byte
on the wire raises its interrupt.

### Memory and mounts

A call of `malloc` or `free` is one step, because the only callers run on the
main thread. The lists are those of the code: the used list as a set, the free
list in its order, each free node with the address where the node itself lives.
That address is what the hazard is about: nodes of the free list are allocated
from the memory they describe. `Mount` composes the allocator with the command
`root`, one step per call of the allocator, and with other callers, so that every
step of a mount is also a step of the allocator and `ImplementsHeap` is checked
of the composition.

The run scales sizes down (a node of 2 bytes, a megabyte of 4, words of 256),
keeping the code's arithmetic: pointer arithmetic in units of the node, the
subtraction of an address from a length, unsigned sizes. Three pools of one usable
block, with 8, 15 and 19 bytes to serve, and one map with two usable blocks above
the megabyte, of which the code takes the last. With requests of 1 and 3 bytes
(and a node of 2, all plus a header of 2) up to four blocks are alive, free lists
get several nodes, used-up nodes stay, and `malloc` fails in every place it is
called from, the one inside `free` included.

### Floppy

The main thread takes a step for every access to what it shares with `fd_timer`
and `fd_irq_handler`: reading and writing the output register are two steps, the
ticks and the state of a motor are stored one after the other, `irq_waiting--` is
a load and a store. The driver converts a block to head, cylinder and sector
(`fd_block2hcs`), and the drive reads the sector it finds there (`SectorAt`). The
controller executes one command at a time, answers with success, an error or an
abnormal end, and may not answer at all; a drive whose motor is off does not
answer a read.

Run: one drive of 8 blocks, two heads and two sectors per track, so that a read
crosses a head and a cylinder; reads of 0 to 2 blocks, 2 tries instead of 10, the
real 300 ticks. Two tries tell a retry from the last one; the loops do nothing
else with the count. `LATE = FALSE` says that a controller which has not answered
within a timeout does not answer that command any more (see "Disagreements").
Fairness: the main thread runs, and the timer task is called again and again;
nothing is assumed of the controller, so that `RequestEnds` rests on the timeouts
and the counts of tries. `CHECK_DEADLOCK` is off because the driver may be
destroyed, absent or have panicked.

### Interrupts

The two 8259A are modelled with their request, service and mask registers and
their base vector; acceptance follows their priorities, and a slave's interrupt
goes through line 2. `irq_handler` is three steps (routine, end of interrupt,
the second write, which is a mask). The main thread goes from `idt_install`
through `sti`, the initialisers and the command `chainload` to the jump to real
mode. An interrupt may be raised at any point of that.

Run: lines 0, 1, 5, 6 and 14, exceptions 8 and 20 (one of the vectors the BIOS
uses for the timer, one the CPU reserves), keys pressed before `kb_init`.
Fairness: the CPU accepts interrupts and runs their handlers; a handler takes
less time than the period of a device, so that the main thread gets to run
between interrupts (strong fairness of its steps, which are disabled while a
handler runs); the timer ticks. `CHECK_DEADLOCK` is off because the system ends
in real mode or in a panic.

### Timer

`timer_handler` is one step; `timer_register_task` stores callback, period and
last call in three steps; `sleep` loads the two words of the counter in two
steps. A task may unregister itself while it is called, as the task of
`test_timer` does.

Run: two slots, two tasks, words of 4 values instead of 2^32, so that the low
word and the whole counter wrap. A task becomes visible to `timer_handler` by the
first of the three stores (`timer.c:77`), and a tick before the other two finds it
with the period and the last call of the slot's last task: the code then does call
it early. `EarlyOnlyFilling` says that this window (`Filling`) is the only place where
a task is called before its time, and `NeverLate` is about tasks whose registration
is complete (`Settled`). `EarlyOnlyFilling` and `SleptLong` are stated until the
counter needs its high word (in the code after 49 days), because from then on
they do not hold: `last_call` has 32 bits, and a torn read is wrong by 2^32.
`TimerPace` bounds the pace of the main thread to one step per word of ticks,
which is all `SleepReturns` needs; with a word of 3 values it would be too little.

### Screen

`Screen` takes a step for every load and store of the position and of the cursor
registers. An address is loaded in two steps, `posx` and `posy` in either order
(`LoadPosition`), once for the character's byte, again for the attribute's, and again
for the cursor; each byte is stored in a step of its own. An interrupt handler's
text runs through the same code while the main thread waits in the middle of it.

Run: a screen of 2 by 2 with 8 cells of video memory, all control characters, a
message with an end of line and one longer than a row. `CUT_ERASE = FALSE` keeps
handlers out of a backspace. That is not a detail: `InVideo` and `PositionOnScreen`
hold only with it. `screen.c:104-110` tests `posx` once and decrements it twice, and
with `CUT_ERASE = TRUE` TLC finds `InVideo` violated (see "Disagreements").
`CursorShown` speaks of calls that were not cut, `BlankBeyond` of text that went
forward and was not cut since the last clear.

### Console and strings

A format is the sequence of its pieces: texts, each with the character behind it
(`vprintf` writes a text up to a `%`, which `screen_write` should not look at), and
conversions of integers, which `itoa_s` prints and `screen_write` scans like the
rest. The scan of a text is one step per character or sequence; setting the
attributes is one step per parameter, as `kb_handler` may log in between.
`Rendered` compares what was printed and carried out with a terminal that reads
one character at a time (a state machine that shares no definition with the
scan); `NumbersRead` prints a number and reads it back with `strtol`;
`LogColours` relates what `log` prints to its level and to the attribute it found.

Run: every text of up to four characters of ESC, NUL, `[`, `m`, another final
letter and a digit; whole sequences with several, empty and missing parameters;
numbers at the edges of a width, of both bases, of `strtol`'s 16 bits and of a
long, here of 20 bits. Negative decimals are left out of `NumbersRead` (see
"Disagreements"). A width comes with the padding `0`: without it `itoa_s` pads with
NUL, in front, and nothing of the number is printed; no format of the repository
does that. `MCConsole` evaluates the two hypotheses of the theorems about texts,
`Ended` and `PlainMessages`.

### Shell

`mod_init` registers the devices and commands of a module, the levels in order and
modules of one level in any; both lists grow at their heads. `Type` is one
character of `gets` with its echo: a character that finds the buffer full is
written behind it and ends the model (`overrun`), as nothing can be said of the
program after that. `Split`, `LookUp` and one action per command follow; a device
carries out its operation well or not. `shown` is what the user sees on the line.

`RunsTheLine` says that the words on the screen are the command's arguments,
`OverrunByLine` that the buffers are left only by what is on the screen, and
`ActsOnNamed` that a command's device is the newest of the name typed. The first
two are of lines that a newline ended: a key that is no ASCII character makes
`gets` return NULL, and `cli_start` runs what the buffer holds (see
"Disagreements"). Those lines are in the run all the same, with a buffer that
holds something before it is first written, so that what they leave is what the
next line finds; `ActsOnNamed` is checked of them too.

Run: a buffer of 6 characters and 4 words, lines of letters, blanks, deletions,
NULs (a key outside the low byte) and a negative character; three modules with
names that begin one another and two devices of one name. `CHECK_DEADLOCK` is off
because `reboot`, `chainload` and an overrun end the model.

### Boot

`Installer` has the operators of `install.py`; `FileSectors` is the reference, from
the layout of a FAT. A list is installed only when its numbers fit the 16 bits that
`struct.pack` gives them (`Packs`). `Stage1` counts memory in sectors; `bx` wraps
where it has 16 bits, and so does `ax`, the logical sector (`AX_SECTORS`); the
conversion of a sector to the registers of INT 13h is that of the code, and the BIOS
undoes it by the registers' layout, the two high bits of the cylinder included. A
read may fail and leave garbage behind.

`MemoryMap` follows the instructions of the loop, flags included: the `test` of EBX
(`stage2.S:93`) clears the carry flag that the BIOS has set, and the `jnc` behind it
is always taken. The BIOS ends its map with EBX = 0 together with the last entry,
with the carry flag and EBX = 0 in the call after it, or with the carry flag and EBX
as it was (`"kept"`); in the last case the code asks for ever. Behind the table lies
code: a run that writes there ends the model (`overrun`). `Boot` runs installer,
loader and map one after the other.

What the properties leave out, because the code does not keep it:

- `Loaded` needs one sector per cluster (`install.py:211` names other sectors with
  more), extents that do not go over sector 65535 (`Countable`: a range that begins below and
  goes beyond is packed, and stage 1 goes on with sector 0 behind 65535), and a file
  of at most 64 KB, as `bx` wraps.
- `MapRead` allows an overrun for a map without room in the table and for a BIOS that
  ends by the carry flag alone; `Boots` says nothing of those.

Run: two geometries, with 15 sectors and 17 heads and with 2 sectors and 127 heads,
whose 256th cylinder begins below sector 65536; files of one to three extents, that
end before, at and behind the 64 KB boundary (scaled to 5 sectors), on both sides of
cylinder 256, at sector 65535, over it and behind it; maps of one to four entries for
a table of three. The 65536 of `AX_SECTORS` is the real one. Fairness: instructions
go on, and a disk can be reset after some attempts (`disk_reset` is tried for ever).
`CHECK_DEADLOCK` is off because the boot ends.

## What the runs show

Passing runs, all of them complete state spaces:

| Run | Properties | Distinct states |
|---|---|---|
| Keyboard | NoStuckModifier, SlotKept, ImplementsQueue, WaitingReaderServed | 454 201 |
| Mount | BlocksDisjoint, NodesSafe, Accounted, RootAlive, NothingLeaked, ImplementsHeap | 71 114 |
| Floppy | NoMotorLeftOn, CountdownExact, OffIsOff, ResultIsReady, ReadsBlocks, RequestEnds, MotorStops | 758 572 |
| Interrupts | OwnRoutine, MasterReleased, RestoredForBios, DriverLinesServed, Chainloads | 38 950 |
| Timer | NeverLate, SleptLong, EarlyOnlyFilling, SleepReturns | 488 862 |
| Screen | CursorShown, BlankBeyond, InVideo, PositionOnScreen | 1 831 150 |
| Console | Rendered, NumbersRead, LogColours | 652 360 |
| Shell | RunsTheLine, OverrunByLine, ActsOnNamed | 1 199 906 |
| Boot | Loaded, InOrder, MapRead, Boots | 11 376 |

The type invariants are not in this list: those of `Keyboard`, `MemoryManager`,
`Floppy`, `Interrupts`, `Timer` and `Screen` are theorems.

Three runs end in a violation on purpose, each of a promise the repository writes
down: `MemoryUsedUp` (memory.c:127, 137), `FloppyTwoMotors` (floppy.h:111) and
`IrqSlave` (irq.c:144).

## Disagreements between code and text

With a run:

- `memory.c:128` compares a `size_t` with `< 0`: the node of a used-up block stays
  in the list although the comment says it is deleted. Each mount and release
  costs a node, until the disk mounted first cannot be mounted any more.
- `floppy.c:586-589` reads, changes and writes the output register with
  interrupts on. With two drives, `fd_timer` stopping the other motor in between is
  undone, with `motor_state` off, and that motor turns for ever. This is why
  `OffIsOff` is checked with one drive.
- `irq.c:146` writes the second end-of-interrupt to the master's data port, where
  it is a mask: the slave is never released.

Seen while modelling, without a run of their own:

- `memory.c:54`: no `break`, so the last usable block above 1 MB is the pool, not
  "the first" (line 49). `memory.c:78`: the first free block's size is a length
  minus an address, not "the rest" (line 71); a pool shorter than that address
  makes it wrap, which the theorems exclude (`InReach`).
- `memory.c:197`: `free` calls `malloc` for a node without testing the result; with
  no room left the free list becomes empty, and the freed block is lost
  (`Accounted` is stated for a list that is not).
- `fat.c:103` and `122`, `io.c:32`: `malloc`'s result is not tested; the table, the
  handle or the device goes to address 0, where the real-mode vectors are
  (`null_written` in `Mount`).
- `floppy.c:83`: interrupts are counted, and nobody clears the count before a
  command: a late answer is taken for that of the next command. The run assumes
  that there is none (`LATE = FALSE`).
- `floppy.c:344`: a reset stops the motors and leaves `motor_state` on; the next
  read goes to a drive that does not turn. `floppy.c:224` writes to a read-only
  port under the comment "Turn motors off". `floppy.c:358` says 3 seconds, and
  300 ticks of 50 per 50 ms are 300 ms.
- `irq.c:140`: a key pressed between `sti` and `kb_init` is acknowledged and not
  read; the keyboard then never interrupts again.
- `timer.c:77-79`: a tick between the stores that register a task calls it with the
  period and the last call of the slot's last task, before its time.
- `timer.c:64`: the counter's two words are loaded separately: a carry in between
  makes a sleep too short, once in 49 days. `timer.c:30`: after 2^32 ticks every
  task is due at every tick.
- `screen.c:104-110` tests `posx > 0` once and decrements twice around a call of
  itself: a handler that ends a line in between makes `posx` 65535, and the next
  character is written far behind the video memory. With `CUT_ERASE = TRUE` TLC finds
  `InVideo` violated in that way; the runs and theorems about the screen exclude it.
- `screen.c:128` wraps one column late: the character after a full row is put in the
  first cell of the next and overwritten. `screen.c:79-83`: the cursor is written in
  four port accesses, so that a handler that prints in between leaves it elsewhere.
- `screen.c:204`: a piece that ends inside a sequence is scanned behind its end.
- `screen.c:163`: one earlier attribute is remembered, so that a handler that logs
  between the two sequences of `log` leaves the console in a message's colour.
- `keyboard.c:147`: a 16-bit key code is stored in a `char`, so that `getc`, "Gets an
  ascii character" (stdio.h:24), may return NUL or a negative number.
- `stdio.c:39`, `cli.c:56`: `gets`, "Read a string from the keyboard until a '\n'"
  (stdio.h:30), returns NULL on such a key without ending the string, and
  `cli_start` does not look at the result: it runs the line typed so far, followed
  by what the buffer still holds of older lines.
- `stdio.c:55`: `gets` knows no limit; `strings.c` splits any number of words.
- `strings.c:120`: a negative number is printed with its sign last ("123-"; the
  comment at 74 puts the sign "in the head"). `strings.c:71` takes a long,
  so that `%lld` prints 32 bits. `strings.c:112`: the width of a number has no bound
  in a buffer of 64 characters. `stdio.c:108`: in `%10d` the second digit of the
  width is its padding.
- `strings.c:224`: `strncmp` never says that the first string is smaller when it
  begins the second, against `strings.c:212`. `strings.c:254`: `strlcpy` writes one
  character behind a destination that it fills.
- `chainload.c:50` refuses a sector only when both bytes of the marker are wrong.
  `memory.c:14` of the commands prints its help for every argument but "help".
- `stage2.S:93`: `test` clears the carry flag before `jnc` (line 95) looks at it. A BIOS
  that ends its map by the carry flag and leaves EBX as it was is asked again for
  ever: entries that are none are counted, and 24 bytes further are written each
  time, over the table and the code behind it. `MapRead` and `Boots` except such a BIOS,
  which the run has (`"kept"`).
- `stage2.S:94`: the last entry of a memory map is not counted when the BIOS ends it
  with EBX = 0 (`MapRead` says "all but at most the last"). A map that has no room in
  the 32 entries of the table is written behind it.
- `install.py:211` multiplies the first data sector by the sectors per cluster, too:
  with more than one the list is not that of the file. `Loaded` is stated for one, and
  without that condition fails with two.
- `fat1x.s:135`: the logical sector has 16 bits: a range over sector 65535 is
  continued with sector 0. `install.py:114` packs 16 bits per number and raises for a
  range that begins behind sector 65535, but not for one that goes there.
  `install.py:231`: the list may be longer than the room for it in the boot sector.

## What is proved

`KeyboardProofs`, for every buffer length from 2 to 256, every keymap of 16-bit
codes over scan codes below 96, every set of keys and every read length:

- `Invariance`: `IInv` is an invariant. `TypeOK` is not inductive: that a byte off
  the wire indexes a table needs `WireOK` (what the keyboard has sent decodes to a
  scan code), and that the slot the reader is about to read is the one it popped
  needs `ReaderOK` (while `pc = "read"`, `pop_index` is the successor of `index`;
  a pop happens on a buffer that is not empty; bytes are left to read).
- `TypeCorrect`: `TypeOK`, from it.
- `SlotNeverOverwritten`: `SlotKept`. The handler writes `push_index` only when
  its successor is not `pop_index`; the popped slot's successor is `pop_index`.
- `ModifiersReleased`: `NoStuckModifier`, under `ModifiersAgree`: the plain, the
  shift and the alt-gr table name the same modifier for a scan code. Otherwise the
  break of a shift, looked up while a shift is on, would not be that of its make.
  The tables of es_es meet it, which `MCKeyboard` evaluates. `FlagsOK` says that a
  flag that is set has a key held that sets it, or the key whose bytes are still on
  the wire.
- `Refinement`: `ImplementsQueue`. A push appends to, and a pop takes from, the
  sequence between the indices (`RingPush`, `RingPop`), whichever of them wraps.

`MemoryProofs`, for every size of a node, a megabyte and a word, every set of
requests and of memory maps, under `InReach`: the pool the code takes ends within
a word, and is longer than the address of the first byte handed out.

- `AllocatorDisjoint`, `AllocatorNodesSafe`, `AllocatorTypes`. The invariant
  `MMInv` says more than the three: the blocks of both lists and what
  `mm_initialize` keeps for its first nodes are `Sound` (inside the pool and apart);
  every block a caller holds is in the used list (`LiveOK`); every free node is the
  first one or lies in a used block that no caller holds (`NodesOK`, `Away`). The
  last is why `free` may call `malloc` in the middle of its work: the block it is
  freeing is in neither list, and the node it gets is apart from it.
- `AllocatorAccounts`: `Accounted`. `AccountInv` says that the sizes of the free
  list, added up from its head, and those of the used blocks are the size the pool
  began with, and that every used block is the first one, a caller's, or holds
  a node of the free list. A free list that has become empty stays empty, so that nothing need be
  said of it.
- `AllocatorImplementsHeap`: each call maps to one of the abstract heap.
- `MountUsesAllocator`: a behaviour of `Mount` is one of the allocator, which
  carries the theorems over. `RootStaysAlive` and `MountLeaksNothing`: the blocks
  the filesystem owns are those it knows at each step of the command (`KnownOK`),
  unless `malloc` gave it NULL.

`FloppyProofs`, for every size of the disk, number of tries, length of a read and
spin-down time that is a multiple of the timer task's 50:

- `Types`: `TypeOK`. It needs that an interrupt is counted off only after one was
  loaded, and that blocks are left whenever one is being read.
- `BlockAddressed`: for every geometry the drive undoes `fd_block2hcs`.
- `MotorsGivenBack` and `CountdownNeverWraps`: `NoMotorLeftOn` and
  `CountdownExact`. The invariant `MotorsInv` says that a motor's state is ON
  exactly while a request owns it (`Owned`: which program points, and for the
  waits and resets, called on behalf of whom), and that the ticks are stored
  before the state that lets `fd_timer` look at them. Both hold with two drives
  and with a controller that answers late.
- `ResultsAreReady` and `BlocksInOrder`: `ResultIsReady` and `ReadsBlocks`, under
  `~LATE`. `Answered` says, for every program point, what the controller is doing
  and how many interrupts are counted: nothing is outstanding except in a wait,
  where it is the command just sent, and a command given up is never answered.
  `DataInv` adds what is in the DMA buffer and in the caller's.
- `OneDriveOffIsOff`: `OffIsOff`, for one drive. The hypothesis is needed: with
  two, `FloppyTwoMotors` shows the violation. The proof uses it in one place,
  `fd_motor`'s store of the state ON, which must cover every motor bit that was
  written back.

`InterruptsProofs`, for every set of lines and exceptions and every mask of the
BIOS: `Types`, `OwnRoutineRuns`, `MasterIsReleased`, `BiosFindsItsMasks`. `IntInv`
relates the phase of start-up to the tables (`PhaseOK`: interrupts are off until
vectors and gates agree, the masks saved are those of the BIOS from then on) and
the phase of `irq_handler` to what the master has in service (`ServiceOK`). That
the vector accepted is that of the line, cascaded or not, is `AcceptedPair`.

`TimerProofs`, for every number of slots, word width from 2 up, set of tasks with
periods of at least 1 and set of delays; the pace of `TimerPace` is not needed for
safety:

- `Types`: `TypeOK`; the registering thread's locals are valid (`RegisterOK`).
- `Punctual`: `NeverLate`. The invariant `OnTime` has two cases for a registered
  task: its age is at most the time since `last_call`, which is below the period;
  or it was just called or registered, and `last_call` is the low word of the
  counter. In the second, once the counter needs its high word, the difference is
  at least a word, so that the task is due at the next tick (`TickOnTime`), also
  when the whole counter wraps there.
- `EarlyCalls` and `SleepsLongEnough`: `EarlyOnlyFilling` and `SleptLong`, until the
  counter needs its high word. A call outside the three stores of the task's
  registration comes when its period ends exactly; one inside them may come early. `Exact`: the age is the time since `last_call`;
  `Measured`: what `sleep` has loaded lies between its start and now.

`ScreenProofs`, for every size of the screen and of a tab, and all texts of the
main thread and of handlers, under `Undisturbed` (a handler prints no backspace and
does not cut one: the code violates the properties otherwise) and `Room` (the video
memory has a row and a tab more than the screen, and a row fits 16 bits; the code
has 16384 cells for 2000):

- `WritesInVideo` and `StaysOnScreen`: `InVideo` and `PositionOnScreen`. The
  invariant `ScreenInv` bounds what the main thread has loaded, however many
  handlers came since (`MainRegister`: a column and the first cell of a row, loaded at
  different times, still add up to a cell of the video memory), and the position a handler finds:
  past the end of a row only while the main thread is about to test its column
  (`Wide`), below the screen only while it is about to test its row (`Tall`), and
  never both; in the second case the row is the one it has loaded, so that it
  scrolls (`RowKept`).
- `CursorFollows`: `CursorShown`. A call that was not cut writes both bytes of the
  position it left.
- `NothingBehind`: `BlankBeyond`. Between the wrap of the column and the step to the
  next row the cells behind the row are blank, though not those behind the
  position (`BehindRow`).
- `TypeCorrect`: `TypeOK`.

It also proves, of `Console`, for all texts, messages and numbers, with a handler
that may log between any two steps:

- `NumbersAreRead`: `NumbersRead`, for every number (a negative decimal is not in
  the property), width and base, without a hypothesis. What `itoa_s` prints is a recursive function of the number;
  `DigitsRead` says, by induction over it, that reading those digits from the left
  gives the number back, `NumberRead` that zeros in front change nothing, and the
  16 bits of `strtol` come last.
- `TextRendered`: `Rendered`, under `Ended`: a text that a `%` cuts is not in the
  middle of a sequence there. The code violates the property otherwise
  (`screen.c:204`). In `RenderInv` the scan and the terminal agree wherever the
  scan stops; where the terminal is in a sequence and the scan is not, the NUL that
  ended the sequence comes next.
- `MessagesColoured`: `LogColours`, under `PlainMessages`: a message has no
  sequence of its own. `ColourInv` has a part for each of the three texts of `log`:
  what is left of a text (`AtLevel`, `AtMessage`, `AtReset`) says what the attribute
  is and which one is remembered. A handler's message leaves the attribute as it
  found it, and is remembered instead of the earlier one (`KeyboardKeeps`); this is
  why the property is stated as it is.

`BootShellProofs`, of `Boot` and of `Shell`:

- `SectorAddressed`: for every geometry, the registers stage 1 computes name the
  sector, as long as its cylinder has ten bits.
- `LoadedInOrder`: `InOrder` of `LoadSpec`, for every set of geometries and lists
  whose ranges stay below the 1024th cylinder (`Fits`), whatever reads fail. The
  sectors are those the 16-bit counter names, after a wrap too.
- `EntriesInOrder`: `MapRead` of `MapSpec`, for every set of maps, way of ending one
  and size of the table. In the loop the slot in hand is full and not counted yet, and a BIOS that
  ends with EBX = 0 has more to tell (`MapAt`).
- `BootLoads` and `BootReadsMap`: a behaviour of `Boot` is one of `LoadSpec` and one
  of `MapSpec`. `BootInOrder` and `BootMapRead` carry the two theorems over.
- `FileIsLoaded`: `Loaded`, under `Fits`, with the conditions of `Loaded` itself: one
  sector per cluster (the code violates it with two), no extent over sector 65535, at
  most 64 KB. The ranges that the installer writes, joined and split at
  64 KB, name the file's sectors in order: an induction over the list of clusters,
  and one over the ranges.
- `LineOverruns` and `NamedDeviceActs`: `OverrunByLine` and `ActsOnNamed`, for every
  length of the buffer, number of words, and modules. `ShellInv` relates the buffer
  to what is on the screen (`Typed`, with the deletions and the characters echoed),
  the words to the line (`Args`), and the device and command found to the lists,
  whose newest entries come first (`Held`, `Found`).
- `LineRuns`: `RunsTheLine`, for buffers of at most 128 characters: `strncmp`
  compares no more than that, and the buffer of `cli_start` has 128.

`Arithmetic` has what these proofs share. The library states induction over numbers
and sequences and the recursion of functions for an operator as parameter, which
cannot be instantiated here; `Arithmetic` states them for sets and functions instead
(`Induction`, `SeqInduction`, `SetInduction`, `Recursion`, `FoldRecursion`), so that
what a recursive function computes is proved for every input.

The assumptions are those named in the modules (`LenAssumption`, `SizeAssumption`,
`MapAssumption`, `DriveAssumption`, `MaskAssumption`, `WordAssumption`, ...), all
met by the code's constants; the hypotheses named above stand in the theorems.

Only model-checked: liveness (`WaitingReaderServed`, `RequestEnds`, `MotorStops`,
`DriverLinesServed`, `Chainloads`, `SleepReturns`, `Boots`), as reasoning under
fairness is out of the prover's reach here. Every safety property of a passing run
is a theorem. The hypotheses are conditions the code meets or, where it does not,
the listed disagreements; the passing runs check the properties under the same ones.

## Not modelled

- The parsing of a format by `vprintf` and `%f` with `ftoa_s`: a format is given as
  its pieces. `strlcpy`, `strlen`, `strcontains`, `memset` and `memcpy` beyond their
  use in what is modelled.
- The listing of a root directory (`fat_get_root`, the loop at `fat.c:114`, which
  has no bound but an entry that begins with 0): it only prints.
- The reading of the FAT header and of `mshowfat`'s output in `install.py`, and the
  room for the list in the boot sector.
- The programming of the DMA controller beyond the buffer it fills; `fd_write`, which
  only fails; `irq_uninstall_handler`, which has no caller.
- The GDT and the ports: constant tables and single instructions. What a panic
  prints: a panic is a state from which nothing goes on.
- The panic of `main` without a memory map or a stdin, and a failed `malloc` in
  `io_register_device`.

## Plan

1. Done: all parts with state of their own, first those in which interrupts and the
   main thread meet, then what they share, then the sequential ones; abstract
   specifications of the keyboard (a queue) and the allocator (a heap).
2. Worth stating next: a drive that reads blocks in order, as an abstract
   specification of `Floppy`; a cell-by-cell terminal, for `Screen` and `Console`
   together.
3. Worth proving next: that `Floppy` implements that drive. Every safety property
   and both refinements that the runs check are proved.
