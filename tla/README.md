# A TLA+ model of ShompOS

ShompOS (`src/ShompOS`) is a small 32-bit x86 kernel: it boots through GRUB,
sets up descriptor tables, a PIT clock and a keyboard, keeps a buddy heap, an
in-memory file system with a shell, and schedules kernel processes that may be
loaded from ELF files. This directory holds TLA+ modules of its stateful parts,
TLC configurations that check them, and TLAPS proofs.

Paths below are relative to `src/ShompOS/` unless they start with `src/`.

## 1. The system

| Component | State | Operations | Interacts with |
|---|---|---|---|
| Heap (`src/memory/heap.c`) | `free_list[scale]`, `current_brk`, a header in front of every block | `init_heap`, `allocate`, `free`, `brk`, `sbrk` | called by everything: boot, shell commands in the keyboard interrupt, a dying process |
| Process table and scheduler (`src/process/process.c`) | `proc_table`, `active_pid`, `next_pid` | `init_process`, `kill_process`, `switch_process`, `switch_process_from_queue` | clock interrupt, ELF loader, return from a process |
| Exit and context switch (`process.c`, `context_switch.S`, `boot.S`) | the saved stack pointers, the stacks | the return path laid out by `init_process`, `context_switch` | heap, scheduler, both interrupts |
| RamFS tree (`src/fs/ramfs.c`, `ramfs_executables.c`) | directories, files, `current_dir` | `touch`, `mkdir`, `rm`, `cd`, `ls`, `pwd`, `cat`, `run` | heap, shell |
| File descriptors (`ramfs.c`) | `fd_table`, `fd_count` | open, read, write, seek, close | RamFS; every key press writes to descriptors 0 and 1 |
| Shell, keyboard (`src/kernel/kernel.c`) | `cmd_buffer`, `cmd_pos`, modifier keys | `handle_keyboard_interrupt`, `handle_command` | RamFS, ELF loader, terminal |
| Terminal (`kernel.c`) | row, column, colour, VGA buffer | write, clear, wrap | processes, boot and the keyboard interrupt |
| Interrupt set-up (`boot.S`, `isr.S`, `kernel.c`) | IDT, PIC masks, PIT | `init_idt`, `init_kb`, `init_pit` | decides who may interrupt whom |
| ELF loader (`src/elf/elf.c`) | none of its own | `init_elf`, `is_readable` | RamFS, heap, processes |
| System calls, exceptions (`syscalls.c`, `isr.S`) | a table with one entry | `exit`, exception handlers | processes |
| fake_libc (`src/fake_libc`) | the static pointer of `strtok` | string functions | RamFS, shell |

**What is hard.** There are no locks. The keyboard gate is an interrupt gate and
runs whole shell commands; the clock gate is a trap gate whose stub turns
interrupts off first; a process that returns runs `kill_process` and
`switch_process_from_queue` with interrupts *on* and on the stack it has just
freed. `kernel_main` turns interrupts on (`kernel.c:800`) before it has a file
system, descriptors or a process. The heap and the directory arrays are pointer
surgery whose errors show many calls later. Nothing is persistent and there are
no messages, so crashes, loss and reordering do not arise.

**What makes each part correct.**

* Heap: blocks tile the heap and never overlap; the lists hold exactly the free
  blocks; what is granted is large enough and left alone until freed; free
  merges all that can merge; every call returns.
* Scheduler: one process per PID, one ACTIVE process, a backstop that is always
  there and runs last, a bounded wait.
* Exit: a stack belongs to one process and is freed once; a saved context is
  resumed as the process it belongs to; the path looks like one step.
* Free lists: no store of an operation ever shows a list that is neither the one
  before nor the one after it.
* Shell and terminal: Enter runs what was typed and nothing else; every
  character that would run is to be seen after the prompt, in order, and nothing
  else is unless the echo printed stray bytes; the cursor stays on the screen.
* ELF loader: the block spans the segments, each byte of a segment is copied
  except where a later segment is copied over it, nothing else is written, a call
  that fails keeps nothing.
* RamFS: a tree with unique names; no block lost or freed twice; what a
  descriptor refers to does not change under it; data is lost only where it is
  overwritten; a path leads to the file it names.

`PROJECT.json` lists the hazards at their lines, with the properties that cover
them.

## 2. Modules

| Module | Models | Grain |
|---|---|---|
| `Heap` | `heap.c` | one step per loop iteration of a call; calls do not overlap |
| `HeapContract` | what callers may expect of `heap.h` | abstract: regions by pointer |
| `HeapLemmas`, `HeapProofs` | proofs about `Heap` | |
| `FreeList` | the links of `heap.c`'s lists, with a second caller in the keyboard interrupt | one step per store to a link |
| `FreeListProofs` | proofs about `FreeList` with one caller | |
| `FreeListContract` | the two list operations as `Heap` uses them | abstract: sequences |
| `Scheduler` | `process.c` | one step per call |
| `SchedulerProofs` | proofs about `Scheduler` | |
| `ExitPath` (extends `Scheduler`) | the exit path, `context_switch`, `init_process` at boot | one step per statement or group of statements between which an interrupt makes a difference |
| `ExitProofs` | proofs about `ExitPath` | |
| `RamFS` | `ramfs.c`, the shell's commands | one step per call |
| `RamFSProofs` | proofs about `RamFS` | |
| `Console` | keyboard handler, `handle_command`, terminal, boot stages, `syscall_exit` | a handler is one step; the writer outside interrupts one store |
| `ConsoleProofs` | proofs about `Console` | |
| `LineEditor` | what the user of the shell is promised | abstract: a line and a command |
| `Loader` (extends `Libc`) | `elf.c` | one step per program header and pass |
| `LoaderProofs` | proofs about `Loader` and the copies of `Libc` | |
| `Libc` | `string.c` | operators on a memory of bytes |
| `MCHeap`, `MCFreeList`, `MCExitPath`, `MCRamFS`, `MCConsole`, `MCLoader` | inputs and symmetry for TLC | |

How they compose: `Heap` does its list operations as those of
`FreeListContract`, which `FreeList` implements; `ExitPath` implements
`Scheduler`; `Console` implements `LineEditor`; the commands that `Console` runs
by name are the actions of `RamFS`, and `run` is `Loader` followed by `Keyboard`
of `ExitPath` (`Spawn` of `Scheduler`).

### Heap

Addresses are byte offsets from `HEAP_LOWER_BOUND`. `header` maps the address of
each live `block_header` to `is_free` and `scale`; `free_list[s]` is the sequence
of blocks reached from `free_list[s].next`. `pc` names the loop under way:
`split` (allocate), `grow` and `shrink` (brk), `coalesce` (free). `Init` is
`init_heap` up to its `sbrk(1)`. A read of a header where none lives yields any
header (`HeadersAt`). `ReadsAreHeaders` shows that this happens in one case only:
`__blkmngr_coalesce_block` reads `buddy->is_free` and `buddy->scale` before it
tests the scale (heap.c:172-173), so that for a whole block at the end of the heap
it reads at `current_brk`, and the test of the scale then makes what it read
irrelevant. `granted` is a ghost: the blocks callers own with the sizes they asked
for. Callers free
only what they own, or a block that is in a list (which the code detects).

### FreeList

A node is a list head or a block; `next` and `prev` are the two link fields, a
node that points to itself is an end. Each store to a link or to `is_free` is a
step, in the order of the source. Which block is whose buddy is left to `Heap`:
here any block that passes the tests of the code may be merged, and any unused
address may become a block. There are two threads. "process" stands for whatever
runs outside interrupts (`kernel_main` during boot, returning processes after
it), "keyboard" for a shell command, which once begun ends before the other
goes on. `Interrupts` says whether it may begin in the middle of a call. The code
allows that; FALSE isolates what the order of the stores is worth on its own.
`lists`, the sequences a walk from each head meets, is the refinement mapping to
`FreeListContract`. A caller frees what it holds or a block that is in a list.

### Scheduler and ExitPath

`proc_table` is one function per field. `IsChosen` states what the loop in
`switch_process_from_queue` computes; `ExitPath` has the loop itself (`Scan`),
and `ImplementsScheduler` compares the two. `halted` is a CPU exception that
stops the machine: `init_process` with a full table dereferences NULL, for which
the compiler emits a trap.

`ExitPath` adds `saved` (whose context each slot's `ESP` resumes), `stack` (which
stack each slot owns), `allocated` (which stacks the heap has handed out), `at`
(how far a dying process is) and `boot` (how far `kernel_main` is in
`init_process`: number, slot, context, PID and status are stored one after the
other). `cpu` is the process whose instructions run, which need not be
`active_pid`. Interrupts come at any step, as the code leaves them enabled on
both paths. `own`, `before` and `met` are ghosts. A step is at least one
statement. Where it is more, the comment of the definition says why: in
`BootNumber`, `BootReserve` and `Switch` an interrupt between the statements
does nothing that it could not do before or after them; in `BootFill` and
`BootPublish` what a command leaves of its own between two stores to the slot
it shares with `kernel_main` is not followed.

`met` remembers whether an interrupt has arrived on the exit path or during the
boot, and the properties fall in two groups. `BackstopKept` and
`HaltOnlyWhenFull` hold whatever meets an exit, and say nothing once a command has
come during the boot. `ContextIntact`,
`StackExclusive`, `StacksExact` and `ImplementsScheduler` hold until one does and
say so; with `met` left out of them TLC refutes each. What happens then:

* After `STOPPED` is stored (`process.c:66`) a command may spawn a process into
  the slot; line 68 then frees the new process's stack.
* A tick between lines 142 and 144 saves the dying context in the slot of the
  process that was about to be resumed (run `exit_dead_runs`).
* A spawn after the stack is freed may get the stack the exit still runs on.
* At boot a command that runs before line 819 takes PID 0 (run `boot_pid0`), and
  one that arrives inside `init_process` takes the slot it has just chosen.

### RamFS

A string is the sequence of what stands between its slashes, because `open`,
`cd` and `pwd` differ in where they split and join. Names may hold slashes, as
nothing in `touch` or `mkdir` keeps them out. `dir` and `file` map addresses to
structures; freed file addresses are used again. `allocate` grants every small
request (`brk` never refuses, `heap.c:271`), so only arrays and data buffers can
be refused, at `MaxFiles`, `MaxSubdirs` and `MaxData`: all three are the largest
block in the code, and are kept apart so that each is met on a small instance.
Bytes of a fresh buffer are `Junk`. `held` and `lost` are ghosts that count heap
blocks as the code allocates and frees them. Each call is one step: all callers
are the boot code and the keyboard interrupt, which do not interrupt each other
once the shell runs. `rm` takes any file, open or not, as in the code. What a
call does that then follows the pointer of a descriptor to the freed file is
undefined and left out (`FileIsThere`), until another file is created at that
address, as the heap will soon do; calls that return before they follow it are
kept. The length of the buffer of `pwd` is not computed: that it is one byte too
long is read from the code and stands in `ramfs_pwd` as a `Junk` byte.
`allocate` failing inside `init_fs` is left out.

### Console and LineEditor

The keyboard handler and `syscall_exit` run behind interrupt gates and are one
step each, including the commands' output, of which only what it does to the
cursor matters: every command prints whole lines or clears the screen. The screen
is kept as the row of the cursor, and only as far as `EchoMatches` asks about it:
a cell that something other than the handler's echo and prompt may have written
is `Stale`.

Outside interrupts, `kernel_main` prints its greeting and later `test_jump` its
two lines; they are never both at it, so there is one writer. It takes one step
per store to `terminal_row` or `terminal_column` and keeps the value it is about
to store in a register. Compiled as the Makefile does it (`gcc -O2`, 32 bit),
`++terminal_row == VGA_HEIGHT` compares in a register and stores only the value
that stays, so no interrupt sees a cursor past the screen from a half-done wrap;
`TypeOK` depends on that, and on the writer never storing a value read before an
interrupt that is no longer on the screen. `Paint` is what the sample processes
do to the cells without moving the cursor. `stage` is how far `kernel_main` has
come: keys typed before `current_dir` is set are dropped by Enter, keys typed
before descriptor 1 is open are in the line but not on the screen.

`ramfs_write` to descriptor 1 prints a string and ignores the count
(`ramfs.c:348`), while the handler passes it one character (`kernel.c:410`):
what follows it on the stack is printed too. `Strays` is the set of strings that
may follow; they stand on the row like any other character, move the cursor,
wrap or end the line. `strayed` is a ghost that says whether there was one since
the last Enter. `EchoMatches` then still asks for every character of the line,
in order, between the prompt and the cursor; without strays nothing else stands
there. The marks on the screen that are not characters of a command (`NUL`,
`NewLine`, `PromptChar`, `Stale`) are assumed not to be typed.

### Loader and Libc

The file stands in memory at address 0, the block for the program behind it, and
every byte of the file is a value of its own, so that a byte in the wrong place
shows. Sums wrap at `AddressSpace`; a block that the heap grants ends before it
does (`Allocate`). Headers are arbitrary records; the properties
speak of files as linkers make them (`WellFormed`). With several segments, each
copied to the start of the block, `LastCopyStands` says what is left there: at
each offset the byte of the last segment that has one. Only the lowest segment
is where the program looks for it, so a program of one segment is in place and
one of two is not. `Libc` has the functions of
`string.c` that have a caller, as what they read and write; `MCLoader` compares
them with their definitions in words over all small strings, and `memmove` with a
simultaneous assignment over all overlaps. `IsReadable` keeps of the format's bits
whether the test passes.

### Conventions

An operator whose comment begins with *Mutant* is not the code but a plausible
bug in the definition after it; substituting it makes TLC refute a property, as
`PROJECT.json` records. It is never used by the specification.

## 3. Runs

Passing runs:

| Run | Instance | Distinct states | Shows |
|---|---|---|---|
| `heap` | scales 4..6, 9-byte headers, two top-level blocks, requests at both sides of each class boundary | 109 000 | `TypeOK`, `Disjoint`, `Tiled`, `ReadsAreHeaders`, `ListsExact`, `Capacity`, `FullyMerged`; `ImplementsContract`; `Terminates` |
| `free_list` | four blocks, three scales, one caller | 9 600 | `WellLinked`; `ImplementsLists` |
| `scheduler` | 4 slots, PIDs up to 5 | 17 300 | `TypeOK`, `UniquePids`, `BackstopAlive`, `ActiveIsCurrent`, `BoundedWait`, `BackstopLast`; `EveryoneRuns` |
| `exit_path` | 3 slots, 5 PIDs, 4 stacks, two processes made at boot, interrupts anywhere | 4 987 000 | `ExitTypeOK`, `ContextIntact`, `StackExclusive`, `StacksExact`, `BackstopKept`, `HaltOnlyWhenFull`; `ImplementsScheduler` |
| `ramfs_tree` | 3 directories, 5 files, 5 descriptors, names with a slash, arrays up to their largest size, rm of open files included | 583 000 | `Tree`, `NamesUnique`, `BlocksBalanced`, `OpenResolves`, `PwdLeadsBack`, `DescriptorStable` |
| `ramfs_data` | buffers of at most 2 bytes, positions up to 3, two descriptors on one file, which touch creates and rm removes while they are open | 242 000 | `TypeOK`, `DataSurvives`, `AppendKeepsAll`, `OnlySeekLeavesFile` |
| `console` | a screen of 2 rows of 5, a prompt of 1, a line of 3, a letter and the space, at most two stray bytes or a line end after each | 1 574 000 | `TypeOK`, `EchoMatches`; `ImplementsLineEditor` |
| `loader` | 8 addresses, files of 3 bytes, up to 2 headers with sizes 0..2 | 1 000 000 | `TextHoldsProgram`, `ErrorsHoldNothing` |

Runs that end in a counterexample, each against a sentence of the source:

| Run | Property | The source says | The code does |
|---|---|---|---|
| `free_list_interrupted` | `GrantedOnce` | the lists "represent[s] free memory blocks", `heap.c:7` | a command's allocate takes the block that the call it interrupts has read from the list |
| `exit_dead_runs` | `DeadDoesNotRun` | STOPPED "will not run again", `process.h:15` | a tick after line 142 saves a dead context over a live one, which is then resumed |
| `boot_pid0` | `ZeroIsBackstop` | "proccess 0 is reserved for the backstop process", `process.c:6` | a command typed before `kernel.c:819` takes PID 0 |
| `ramfs_rm_open` | `FilesAreThere` | "Pointer to the file", `ramfs.h:59` | rm leaves descriptors dangling |

Other places where the code and its text part, or that a reader would not expect,
seen while modelling and in the models as the code has them, but without a run of
their own:

* Heap: the lists are stacks, not the "FIFO" of `heap.c:7`. A block found only
  after `sbrk` is returned whole, past the loop that says "split block if too
  large" (`heap.c:219`, 227). A second free of a block that a merge has absorbed
  is not noticed (`heap.c:243`).
* Processes: a SPAWNED process is picked by the next scan, not only when
  "explicitly asked" (`process.c:74`); a full table stops the machine instead of
  returning a PID.
* Files: an O_RDONLY descriptor can be written (`ramfs.c:354`: O_RDONLY shares a
  bit with O_RDWR) and an O_WRONLY one read; a read from past the end wraps
  (`Available`); `ramfs_close` frees nothing (`lost`); open splits a path at its
  first slash though the variable is `last_slash` (`ramfs.c:247`), so that a file
  in a directory is not found under its absolute path; `pwd` prints an unwritten
  byte first (`ramfs_pwd`).
* Console: letting go of one shift key lets go of both; the echo prints stray
  bytes; `test_jump` and `sample3` paint over the line, the latter starting at
  row `VGA_HEIGHT`. A command that gets PID 0 turns the backstop into a process
  like others, which would be a second writer; that is not followed.
* Loader: a header of another type is skipped only if it takes memory
  (`elf.c:36`); every segment is copied to the start of the block (`elf.c:71`), so
  of a program with two (`mnt/home/test_syscalls`, `mnt/home/doc/greeting`) the
  second covers the first; the text is never freed; `ELF_ERROR` is 1, which is
  also a PID. The only system call, exit, prints and returns to the process.

**Bounds, and why they are enough.** Three scales give a block that is split or
merged twice, one that starts in the middle, and both halves of a parent; two
top-level blocks let brk shrink past one and stop at the other. `HeapLimit` is
the only bound on `Heap` beyond its constants, and the proofs have it as an
arbitrary number. Four slots are the backstop and three processes that can be
ahead of one another in every order, and one PID more than slots makes PIDs wrap
onto those in use. Four blocks and three scales in `FreeList` are two splits in
one call, two merges in one call, and lists with a block in the middle. In
`ExitPath` PIDs do not wrap (`MaxPid` bounds the number of processes ever
created), three slots are the backstop, the dying process and one more, two
processes at boot leave a slot for a command to take in between. In `RamFS` three
directories reach depth two and fill the root's array,
`MaxFds` leaves one slot free above the four that boot opens, and the sizes are
such that a write fits, just fits, and does not fit from each position;
`MaxLost` and `MaxPosition` bound the counters that grow for ever, and `UsedFds`
the descriptors whose positions vary: two on one file and stdin in `ramfs_data`,
stdout and one more in `ramfs_tree`. In `Console` a full line ends one column
before the row does, as the real one fits in it (9 + 63 of 80); a command's output
and `syscall_exit` fill the row and wrap the screen, and a letter and a space make
every kind of command: no name, a name, a name and an argument, empty or not.
`Strays` has the empty string, one byte, two, and a line end: each puts the row
out of step with the line in a way of its own. In
`Loader` two headers lie apart, adjoin, overlap, nest and come in either order,
and eight addresses make every sum wrap; `FileLen`, `Sizes`, `Offsets` and
`Entries` bound the input.

**Deadlock.** It is checked for `Heap`, `FreeList` and `Console`. The others may
stop: a halted machine has no step, `init_elf` returns, and the bounds of
`RamFS` cut off its last steps.

**Fairness.** `WF(Step)` in `Heap`: a call under way runs on; there is no wait
in its code. `WF(Tick)` in `Scheduler`: the PIT keeps interrupting once it is
unmasked, and processes cannot turn interrupts off for good. `WF(Boot \/
StartClock)`: `kernel_main` runs on until it has started the clock. Nothing is
assumed of processes: they need not return, and users need not type.
Only `EveryoneRuns`, `Terminates` and `ImplementsContract` depend on fairness.

## 4. Proofs

The theorems hold for every value of the constants that satisfies the named
assumptions of the modules: `ScaleAssumption`, `BlockSizeAssumption`,
`HeaderAssumption` and `InputAssumption` of `Heap` (the last one has it that the
first block fits in the memory there is), `ProcessAssumption` of `Scheduler`,
`StackAssumption` of `ExitPath`, `FreeListAssumption` of `FreeList`,
`ConsoleAssumption` of `Console`, `LoaderAssumption` of `Loader`, and
`TableAssumption`, `HeapAssumption`, `BoundAssumption` and `InputAssumption` of
`RamFS` (the largest buffer is no larger than positions may get, and `size_t`
holds twice a position and twice a buffer). Each proof has one inductive
invariant, proved step by step, from which the rest follows.

**Heap** (`HeapProofs`, from `Invariance`): `TypeCorrect`, `BlocksAreDisjoint`,
`BlocksTileTheHeap`, `HeadersAreRead`, `ListsAreExact`, `GrantsHaveRoom`. The
inductive invariant adds to the checked properties that blocks are *aligned* to
their size (`Aligned`) and what each `pc` may assume of the locals (`CallInv`);
tiling is restated as "every byte is in a block" (`Cover`), which splits and
merges keep without a case on neighbours. Alignment is what makes the buddy
arithmetic work: two aligned blocks of power-of-two sizes are nested or apart, so
once the buddy's address is in a block, that block starts at it or lies wholly
inside it. `HeapLemmas` has these facts about multiples, and what pushing on and
removing from a list do.

`FreeMergesAll` (`FullyMerged`) follows from `NoFreeBuddies`, which unlike it
holds in the middle of calls too, as the block that is split or merged is not
free, and from alignment once more: were the blocks of an aligned larger one all
free, the smallest of them would have its buddy among them, free and of its own
size (`BuddyIsBlock`). `CallsKeepContract` is
the safety part of `ImplementsContract`: initial states map to initial states and
every step of `heap.c` grants, releases, or leaves the callers' regions alone.
That a call returns, the rest of `ImplementsContract`, is liveness.

**Free lists** (`FreeListProofs`, from `FreeListInvariance`): `ListsStayLinked`
(`WellLinked`) and `PointersImplementLists` (`ImplementsLists`), for one caller
at a time (`Interrupts = FALSE`); with two, run `free_list_interrupted` shows
what goes wrong. The invariant says that a sequence for each scale tells
what the links must be. A statement of `add_to_free_list` or
`remove_from_free_list` breaks that at one place, which the invariant names
(`BackInv`, `AddInv`, `RemoveInv`) and a later statement mends. Every step then
leaves the sequences as they are or is one `Cons` or one `RemoveAt` (`Moves`).
`lists` is a recursive walk; that it equals the sequences is shown by least
counterexample, as there is no rule of induction to cite. The test that `free`
starts with needs its own argument: it refuses exactly the blocks that are in a
list.

**Scheduler** (`SchedulerProofs`, from `Invariance`): `TypeCorrect`,
`PidsAreUnique`, `BackstopStays`, `CurrentIsActive`, `WaitIsBounded`,
`BackstopIsLast`. `BoundedWait` is not inductive: a process at the bound could
have many ahead of it. `WaitInv` adds them up: the wait of a process plus the
number of processes ahead of it is at most `MaxProcess - 2`. A decision adds one
to the wait and takes one away from those ahead, and a new process never starts
ahead.

**Exit path** (`ExitProofs`, from `ExitInvariance`): `ExitTypeCorrect`,
`ExitKeepsBackstop`, `ExitHaltsOnlyWhenFull` whatever meets an exit, if no command
comes during the boot, and
`ContextsStayIntact`, `StacksAreExclusive`, `StacksAreExact`,
`ExitImplementsScheduler` until an interrupt arrives on the exit path or during
the boot (and `StacksAreExact` while the machine is not halted). The invariant has layers
to match: `BootInv` before the clock runs, `RunInv` after it whatever meets an
exit, `StackInv` while nothing has. The refinement maps a state in the middle of
an exit or of `init_process` to the one before it, so that the step that ends
either is the whole of the abstract one and the others stutter.

**Loader** (`LoaderProofs`, from `LoaderInvariance`): `ProgramIsLoaded`
(`TextHoldsProgram`) and `ErrorsReleaseAll` (`ErrorsHoldNothing`). The first pass
leaves behind that the block spans the segments it has seen (`Spanned`), on which
the second relies when it copies; the second, that of the headers it has seen the
last one with a byte at an offset has it there (`CopiedOver`). What `memcpy` and the downward loop of `memmove`
write is recursive, and again shown by least counterexample; `MemmoveCopies` is
that a `memmove` is the simultaneous assignment of all its bytes, for every
overlap.

**Console** (`ConsoleProofs`, from `ConsoleInvariance`): `ConsoleTypeCorrect`
(`TypeOK`), `ScreenShowsLine` (`EchoMatches`), `ConsoleImplementsEditor`
(`ImplementsLineEditor`). `EchoMatches` is inductive once the line and the
writer's register have their types (`LineTyped`, `WriterTyped`) and no cell
between a whole prompt and the cursor is `Stale` (`RowKept`): a character put
on the screen outside the shell never completes a prompt that was not there, so a
step keeps the prompt and what follows it or leaves a row without one.

**RamFS** (`RamFSProofs`, from `RamFSInvariance`): `RamFSTypeCorrect` (`TypeOK`),
`TreeHolds`, `NamesStayUnique`, `BlocksStayBalanced`, `PathsOpenTheirFiles`
(`OpenResolves`), `PrintedPathsLeadBack` (`PwdLeadsBack`), and of steps
`DescriptorsStayStable`, `DataStays` and `AppendingKeepsAll`. The invariant is the
well-formed tree (`DirsTyped`, `FilesTyped`, `FilesHang`, `DirsHang`), the typed
table and the balance of blocks. The files arrays and the subdirs arrays are both
families of sequences in which nothing stands twice, so what creating and deleting
do to them (`Extended`, `Shortened`) is proved once for both. That every
directory hangs from the root (`Reached`) is stated without paths, as an
induction over directories (`Descends`); from it `PwdLeadsBack` gets the chain of
parents of a directory, shows that there is only one, and that `pwd` prints its
names and `ramfs_find_dir` follows them down again. A step leaves the table
alone, opens, closes or moves one descriptor, or writes (`StepsAre`), from
which the action properties follow. `OnlySeeksLeaveFiles` holds whatever `rm` is
given: a descriptor whose file was removed may find itself past the end of the
next file at that address, and the property says so; a write or a read never
leaves it there (`WriteSkips`, `SoughtPosition`). `Strings` is STRING with the literals of the model named, because the
provers do not know that a literal is a string.

**Only model-checked.** Liveness is out of the prover's reach: `EveryoneRuns`,
`Terminates`, and the fairness in `ImplementsContract`. `Libc`'s functions other
than `memcpy` and `memmove` are compared with their definitions on small strings
only. The runs that end in a counterexample are statements of what
the code does not do. Every other property of the passing runs is a theorem.

## 5. Not modelled, and what is left

Left out for good: terminal colours and text, port programming, descriptor-table
formats, the build and the test programs; they have no state whose order matters,
or are data. The exception handlers: most of `ist.S`'s table print and halt
(`exception_handler`, which is what a full process table comes to); division by
zero prints and goes on after the instruction; and nine of them call
`kill_process` with no argument, which takes the word on top of the stack for a
PID, and return to the instruction that failed. Which exceptions arise is a
matter of the programs that run. `strcpy`,
`strncmp`, `terminal_refresh`, `parse_command`, `execute_command` and
`void_command` have no caller.

Left open: commands that run while `init_stdio` is still creating files (one that
creates a file between two of its statements could move the files array under
it); the backstop scheduled like any other process; memory that ends before
`brk` does.

Theorems worth adding: what `strlen`, `strcmp`, `strchr` and `strtok` of `Libc`
compute, by least counterexample as for `memcpy`; and that `EveryoneRuns`
follows from `BoundedWait` up to the step that needs fairness.
