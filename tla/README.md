# GalaxyOS: a TLA+ model of the kernel

GalaxyOS is a hobby operating system for one i386 CPU: a monolithic kernel
(`src/kernel`), a small user library and a few programs (`src/userland`). This
directory holds TLA+ modules translated from its C and assembly sources, TLC
configurations that check them on small instances, and proofs checked by TLAPS.

## 1. Inventory

### 1.1 How the kernel executes

There is one CPU and no kernel thread besides idle and the kernel process. The
kernel is entered through two stubs of `i386/boot.S`:

* `isr_common_stub` for CPU exceptions: `irq_handler` -> `exception_handle`.
* `irq_common_stub` for interrupts, for `int 0x30` (yield) and for `int 0x80`
  (system call): `irq_handler` first polls the keyboard, wakes the threads
  suspended on this irq (`sched_check_suspended_threads`), runs the handler, and
  the stub then **always** saves the stack pointer of the current thread and
  calls `sched_loop` -> `sched_pick_next`. So every system call is also a
  scheduling point, and between two entries into the kernel exactly one user or
  kernel thread runs.

Interrupts are off from the first instruction on: the gates of interrupts, of
`int 0x30` and of `int 0x80` are interrupt gates, which clear the flag; those of
exceptions are trap gates, which do not, but their stubs begin with `cli`. A global `kmode` says whether code that
takes a lock must disable interrupts itself (`cli`/`sti` in `liballoc_lock`,
`sched_create_thread`, ...); `syscall_handler` sets it to 0 on entry and to 1 on
exit. As `sched_pick_next` runs with `kmode == 1`, a `kfree` inside it enables
interrupts in the middle of the loop: see "interrupt windows" below.

### 1.2 Components

| component | state it keeps | operations | hard behaviour | what makes it correct |
|---|---|---|---|---|
| scheduler `sched/sched.c` | `processes[]`, `threads[]`, `queue`, `queue_loc`, `currenttid`, reference counts `waiting_threads` | create, fork, exit, kill, wait, suspend, pick next, reap | any order of exits, kills, waits and collections; a waiter may die; a process may vanish while it is waited for | no popped thread is stale, the queue is exact, reference counts equal references, waits end only with the exit, nobody starves |
| interfaces `sched/interface.c` | named message queues, `wait_msg` of threads | create, delete, send, recv, wait, has_msg | messages between processes that may die; a woken thread may find the message gone; deletion under waiters | queue order per receiver, a private queue is private, no thread waits on a deleted interface |
| process loader `sched/pload.c` | `psregions`, `entrypoint`, process state | create, load | loading fails half way | a process that failed to load does not run |
| safe copies `sched/safecpy.c` | none | copy from/to user, range checks | wrap-around of address arithmetic | never accepts a range that reaches the kernel |
| physical pages `mem/pmm.c` | stack of free frames | alloc, free | exhaustion, double free | a frame is free or has one use, and only what nobody frees is lost |
| page tables `mem/vmm.c` | page directory and tables | map, unmap, stacks | one stack mapped at a time | user mappings stay below the kernel |
| kernel heap `mem/liballoc*.c` | `l_memRoot`, `l_bestBet`, counters, the end of kernel memory | malloc, free, realloc | `l_bestBet` outlives what it points to; a search that starts in the middle; callers that write one byte too many | blocks never overlap, counters are exact, pages are taken only when no gap fits |
| user heap `libc/malloc/liballoc*.c` | the same lists in a process, `lock` | malloc, free, realloc, `sbrk` | threads that share it; a lock whose refusal nobody looks at | what it hands out is what an allocator promises |
| program break `sched.c:292-391` | `brk`, `pgbrk`, `brk_offset` | grow, shrink, rollback | running out of pages half way | pages match the break, rollback restores it |
| system calls `i386/syscall.c` | file descriptors of a process | 30 calls | user memory that changes between check and use | every user pointer is copied once |
| environment, arguments `syscall.c`, `pload.c`, `crt0.S` | `environ`, `environc`, `environ_size`, `argv`, the new stack | setenv, getenv, exec, setup | arrays that grow by hand; limits in one file that must fit a stack in another; an error nobody looks at | what was set last is read back; what exec accepts arrives |
| exceptions `i386/exceptionx86.c` | `procerr`, `procerr_unhandled`, `procerrhandler` | deliver, return, double fault | the error is kept per process, threads fault | an exception ends a process for a cause of its own |
| VFS `drv/fs/vfs.c` | mounts, files, `openfiles` | detect, mount, open, read, write, close, list | failure of the driver, descriptors that are reused | a position moves by what was read |
| FAT `drv/fs/vfat.c` | cluster chains on disk | mount, read | file ends inside a cluster | the bytes read are the file's |
| ISO 9660 `drv/fs/iso9660.c` | path table, tree, table of records | mount, read | a read fails in the middle of the mount; a field nobody initialises | the tree is the disc's, the bytes are the file's |
| ATA, ATAPI, RAM disk `drv/ata*.c`, `drv/fs/rdisk.c` | detected drives, `vfs_blockdevices` | detect, read blocks | empty drives, errors that are reported as success | booting ends in the system or says why not |
| PS/2 controller and keyboard `drv/ps2.c`, `drv/ps2kb.c` | devices of two ports, command queue, scan code state, ring | identify, send, interrupt, read | slow devices, garbled commands, answers between scan codes, a full ring | the characters read are those typed, in order |
| terminal `drv/vgatty.c` | cursor, screen | put, scroll, backspace | edges of the screen | the line being edited is what the screen shows |
| shell `bin/gsh` | a line | read, echo, run | the line fills its buffer | see terminal |
| init, power `bin/init`, `lib/usercom` | `teardown` | reboot protocol over `sys:power` | a sender dies, a reply is not read | every request is answered, reboot happens |

The components meet in three places: the thread and process tables (scheduler,
interfaces, loader, exceptions and system calls all write them), the heap lock
(which may re-enable interrupts), and user memory. Interrupt 1 ties the keyboard
to the scheduler: it wakes the threads that suspended themselves in `read`.

### 1.3 Hazards

`PROJECT.json` lists each at its line with the properties that guard it.
The ones that matter most: a process structure or a thread structure is freed
while something still refers to it (reference counts, queue entries, `tids`,
`wait_msg`, `cr3`); a handler fails half way (break, loader); the page pool runs
out; a wake-up is lost or given to the wrong thread; an interrupt arrives where
a lock has just re-enabled interrupts; a device answers late, not at all, or with
an error that a driver reports as success.

## 2. Plan

Modules, in the order in which they are written (done ones in bold):

1. **Sched**, **SchedProofs**: processes, threads, run queue, waiting, reaping.
2. **Interface**, **Mailbox**, **InterfaceProofs**: message queues and the
   abstract mailbox they implement.
3. **Memory**, **MemoryProofs**: frames, page tables, break, loader, stacks, reaping.
4. **Vfat**, **Vfs**, **VfsProofs**: mounting a FAT volume, path lookup, open files,
   reading.
5. **Heap**, **KernelHeap**, **KernelHeapProofs**, **Blocks**, **UserHeap**,
   **UserHeapProofs**: liballoc as a data structure, the kernel's use of it, what an
   allocator promises, and a process whose threads share one.
6. **Atapi**, **Iso9660**, **Boot**: drives, the disc, and `kernel_main` up to the
   mounted system volume.
7. **Ps2**, **Terminal**, **Console**: a character from the key to the screen.
   **DeviceProofs**: the proofs about Console and Boot.
8. **Environ**, **Process**, **ProcessProofs**: environment, arguments, and what
   becomes of the faults of threads.
9. Preempt: `sched_pick_next` in steps finer than a loop iteration, with the
   interrupt flag, `kmode` and the `sti` of `kfree`, `liballoc_unlock` and
   `pload_load_process`. Composes the queue part of Sched with the heap lock.
10. Power: `bin/init/power.c` and `lib/usercom/power.c` over Mailbox.
11. Safecpy: 32-bit range arithmetic, exhaustively over small widths.

Abstract specifications: **Mailbox**, **Blocks**; a process life cycle with join, which
Sched is to implement (spawn, exit once, wait returns the exit code); an open
file as a position in a byte sequence.

Every safety invariant and action property that a run checks is a theorem (section 6);
the modules that are still to come bring their own.

## 3. Modules and the code

### 3.1 Sched

State: `pstate`, `ptids`, `waiting_threads`, `exitcode` are fields of
`processes[]`; `tstate`, `town` (pid), `twait` (wait), `wait_msg` are fields of
`threads[]`; a NULL entry has state `"none"`. `queue` is `queue[queue_start ..
queue_end-1]`, `queue_loc` the number of popped entries. `cpu` says who executes.

| actions | code |
|---|---|
| `Interrupt(irq)` | `irq_handler` with `sched_check_suspended_threads` |
| `Syscall` (`ExitProcess`, `KillProcess`, `WaitProcess`, `ExitThread`, `ForkThread`, `SpawnProcess`, `ReadSuspends`, `WaitMessage`, `DeleteInterface`) | the system calls that change scheduler state, each with its error returns |
| `KernelLoop` | `kernel_loop`: wait for init, panic when it died |
| `Pick` (`PickRunning`, `PickSuspended`, `PickMessage`, `PickStillWaiting`, `PickWaitOver`, `PickStarting`, `PickLoad`, `PickExiting`, `PickDead`, the wrap-around) | one iteration of the loop of `sched_pick_next` |
| `Halted` | `panic()` |

`MaxPid` and `MaxTid` bound the tables: in the code `sched_create_thread` and
`sched_create_process` panic when `MAX_THREADS`/`MAX_PROCESSES` are used up (the
fork returns `-EAGAIN`); the model stops creating there.

### 3.2 Interface and Mailbox

An interface is an element of `Ids`; `Live` are the ones not deleted. `Create`,
`Delete`, `Send` and `Recv` are the functions of `interface.c`. The blocking receive of
the user library is three system calls, so it is three actions (`RecieveTry`,
`RecieveWait`, `RecieveAgain`; the spelling is the source's) between which every
other thread may run. What Interface needs from the scheduler is reduced to
`Wake` (the popped thread has a message), `Die` and the freeing of processes.
Mailbox is the promise: one keeper, messages taken once and oldest first by
someone entitled to them, sleepers that wake for a message or the closing.
`Pending` and `Asleep` are the refinement mapping.

### 3.3 Memory

`pmem_stack` is the array of `pmm.c`: the frame freed last is allocated first,
which decides who gets a freed directory. `page[p][v]`, `table[p][k]`,
`directory[p]`, `stackpt[p][t]` and `stack[p]` say what each frame of process `p` and
of its thread `t` is used for, or was last when they are gone: `Known` and `Exists`
are the processes and threads that the kernel still has a structure of, and only what
these refer to counts as a use (`FrameUses`). `LeftBehind` are the frames that were a page
table of a process that is gone or the stack of a thread that was collected.
A long operation (`op`) is one action per iteration of its loop:
`BrkStart`, `GrowPage`, `GrowGivesUp`, `RollbackPage`, `RollbackDone`,
`GrowDone`, `ShrinkPage`, `ShrinkDone` for `sched_setbrk_true`; `LoadStart`,
`LoadTake`, `LoadTaken`, `LoadMap`, `LoadFails`, `LoadMapped`, `LoadDone` for
`pload_load_process`; `ForkStart`, `ForkRead`, `ForkWrite`, `ForkDone` for the stack copy
of `sched_fork_thread`, which faults in the page of either stack that is not mapped
(`FaultIn`, as in `StackFault`); `StartReap`, the shrink, `RegionPage`, `ReapDone` for
`sched_reap_process` and `sched_free_all`. `ThreadExit` and `ThreadCollect` end a
thread, which frees no frame. `cr3` and `cur` say which directory
is loaded and who executes.

### 3.4 Vfat and Vfs

A volume is data: for each cluster its successor in the FAT (`next`) and, if it
is a directory's, its entries (`slots`); `sector` is the first sector of the
root directory of FAT12 and FAT16. An entry has a kind (end, free, part of a
long name, `.` or `..`, directory, file) and a name; upper and lower case, the
padding of short names and the boot sector's arithmetic are left out. The k-th
byte of cluster c is the pair <<c, k>>, so a byte says where it comes from.

Vfat: `calls` is the stack of calls of `vfat_read_directory`, and each action is
one round of its loop: `NextCluster`, `Return`, `SkipFree`, `TakeLongName`,
`SkipDot`, `EnterDirectory` (the recursive call), `AddFile`. `vfat_read_root_sector`
is the same loop without next clusters. `AccessFile` is `vfat_accessfile`.

Vfs: `FindDirectory`, `FindFile` and `PathOfDirectory` are the functions of
`vfs.c` with the scan, the passing over and the ends they have. `openfiles` holds
the handles of each process, `reply` what the last call returned. `Open`,
`Close`, `Read`, `Write`, `Exec`, `Chdir` and `Exit` are one step each. Only one
mounted volume is modelled; block devices are reliable, as `rdisk.c` is.

### 3.5 Heap, KernelHeap, Blocks, UserHeap

Heap is liballoc without its callers: a heap is a sequence of majors with their
minors, `Found` and `Grown` are what `malloc` does with a request (the visits from
`l_bestBet` to the end and once more from the start, cases 1 to 5, the new
`l_bestBet`), `Unlinked` and `BestAfterFree` what `free` does. Sizes of heads,
alignment and pages are constants, and the arithmetic is the code's. `UsageSound` and
`CountersExact` compare the code's counters with sizes of sets of bytes: what lies in
blocks (`DataUnits`) and what lies in majors (`PageUnits`).

KernelHeap has `Kmalloc`, `Kfree`, `KreallocInPlace` and `KreallocMoves` over
`liballoc-vmm.c`, which gives each address out once and panics when the pool is
empty. UserHeap keeps the cells with `next`, `prev` and `block` as the code does and
cuts each call where another thread may come in: `Malloc` searches, `ReadBreak` and
`SetBreak` are the two system calls of `sbrk`, `Place` writes the minor. Blocks is
the promise both are held to: a set of blocks, of which a new one overlaps none.

### 3.6 Atapi, Iso9660, Boot

A disc is a function from sectors to what they hold: a descriptor, a path table,
records, data; `IsDisc` says which functions are discs. `Reads` is one call of `vfs_read_blocks`: the sectors that cannot be
read keep what the memory held, and nobody is told (`GoodSectors`, `Transfer`). `IsoMount` is
`attempt_mount`, one extent per step: `ReadDescriptor`, `ReadPathTable`, `Descend`
(`find_dir_entry`, again from the root for each directory), (`find_dir_entry`, again from the root for each directory), `AppendFiles`, whose loop
over the records adds one file to the table per round (`WithFile` on `EntryTable`).
Boot is
`kernel_main` from `devinit` on, one action per call that can fail: `Detect`,
`InitDrives`, `FindVolume`, `AskVfat`, `AskIso`, `Mount`, `ReadImage`,
`MountRamdisk`, then `ReadFile` by programs. `mount = "lost"` stands for a kernel
that has followed NULL or written over its own memory, about which nothing can be
said.

### 3.7 Ps2, Terminal, Console

Ps2 has the controller's buffer, which the two ports share (`obf`), what each
device has still to send (`outbox`), `ps2_init` as a program counter whose polls may
give up, the ring of commands, the scan code machine and the ring of characters.
`meant` is a ghost: the characters the typist means. Terminal is `terminal_putchar`
on a record. Console puts them together with the interrupt (`KeyboardIrq`,
`TimerIrq`: `irq_handler` up to the handler, which sends commands and wakes
threads; `ps2kb_handler`: the handler), `syscall_read`, and the shell's `Prompt`,
`Echo`, `Output` (a command prints one printable character) and `Run`. `BootScreens` are
the screens that the kernel's own log may leave to the shell.

### 3.8 Environ, Process

A string of the environment is the sequence of its parts between equal signs, since
`setenv` compares up to the first one. `syscall_setenv` is the search, the growth and
the write; `syscall_exec` copies the caller's strings to the child. An argument
is its length, and whether it can be read: `kargv_user` is a recursive function over the vector,
`syscall_setup` the pushes on the new stack. Process adds threads, exceptions and
handlers: `exception_handle` with `sched_user_fault` and the faked call,
`syscall_eret`, `syscall_ehndlr`, `syscall_tfork`, `syscall_texit`, `syscall_exit` and
`sched_kill_process`. `raised` and `killed` are ghosts.

### 3.9 How the modules meet

Each module abstracts the others by nondeterminism: Sched lets any thread make
any call at any time and any message arrive; Interface lets any thread be woken
when the code would wake it and die at any step; Memory lets any process be
scheduled, exit or be killed, and lets the caller say whether some thread waits
for it. What one module assumes of another is stated as a property there:
Interface's fairness is `NoStarvation` and `PickTerminates` of Sched,
Memory's `Collect` is the `PickWaitOver` of Sched, and the volume that Vfat mounts at
the end of Boot is one whose units are those of boot.img (`FilesIntact`).
Console composes Ps2 and Terminal, Boot composes Atapi and Iso9660, Process extends
Environ; their actions are steps of one specification.

## 4. Runs

| run | instance | shows |
|---|---|---|
| `sched_safety` | pids and tids 0..4 | the queue is exact, no panic in `sched_pick_next`, reference counts equal claims, waits end only with the exit and with its code, the dead stay dead |
| `sched_live` | pids and tids 0..3 | the loop of `sched_pick_next` ends; no runnable thread starves; a waiter of an exited process is resumed |
| `sched_reap_fault` | as `sched_safety` | finding: NULL thread written during reap |
| `interface` | 2 processes, 3 threads, 1 name, 2 messages per queue, 3 bytes, 2 messages sent | no dangling wait, privacy, refinement of Mailbox, no lost wake-up |
| `memory` | 3 processes of 2 threads, 11 frames, 4 user pages, 2 pages per table, stacks of 1 page | no frame is used twice, those lost are the page tables and stacks nobody frees and those of failed loads, break and pages agree, reserve kept, the pages of segments and break returned |
| `files` | 6 volumes, 2 processes, 2 opens, clusters of 2 bytes, 6 entries per cluster | the tree is the volume's, paths lead where they say and back, reads return the file's bytes, descriptors are never reused, open counts are right, mounting ends |
| `kernel_heap` | 3 sizes of request, 4 pages, 8 pages of addresses | blocks lie apart and in their majors with a byte to spare, counters are exact, `l_bestBet` never dangles, pages are taken only when nothing fits |
| `user_heap` | 2 threads, 2 sizes, break up to 5 pages; calls that do not overlap | lists, back pointers and counters agree; malloc, free and realloc implement Blocks |
| `user_heap_lock` | the same, calls may overlap | finding: two threads are handed the same block |
| `boot` | 8 machines, 5 discs, 3 command lines, 2 failing reads | the tree is the disc's, the RAM disk and what programs read are the file's, a crash has one of three causes, booting ends |
| `console` | 3 pairs of devices, 6 keys, 4 events, ring of 3, screen of 3 by 2, line of 4 | no character is lost or changed but by a full ring, nobody sleeps over one, the line is what the screen shows, the commands are all sent |
| `process` | 2 processes, 2 threads, 3 names, 8 vectors, 3 calls of setenv or exceptions | names keep their last value, accepted arguments arrive, exceptions kill for a cause, whatever handlers are set and whoever kills |

Each property of a passing run has a mutant in `PROJECT.json`: the faulty variant
of one operator (they stand beside the original, marked "Faulty variant") with
which the property fails.

### Bounds and why they are enough

* Sched: beside idle and kernel there are init, up to two more processes and
  up to two more threads. That lets a waiter, the process it waits for and
  a killer be three different processes; a waiter die before, between and after
  exit and collection; and the queue hold a dead thread at its start, middle and
  end. `sched_live` has one thread fewer, since liveness needs the graph of all
  states.
* Interface: two threads of one process and one of another make every race for
  a message possible; two messages are needed for order, and `MaxQueueBytes`
  lies below two maximal messages so that both limits are met separately.
  `MaxSent` bounds the stamps.
* Memory: 11 frames cannot hold three running processes with full breaks, so
  every allocation fails somewhere: the check up front, the reserve in the
  middle of a break (with pages to roll back), the loader, the stack, the fork.
  The third file has overlapping segments, so that loading fails half way. Two
  threads of a process (`MaxThreads`) are the forking one and its copy, one of which
  ends before the other; one page of stack each (`MaxDepth`) is read, copied and left
  behind. The
  reserve of 8 frames (`BrkReserve`) is 4 here, fork's 16 (`ForkReserve`) is 2:
  what matters is that the first is at least a page and a table, and that the
  second is less than a stack can be deep (1024 pages in the code).
* Files: the volumes of MCVfs are chosen one per situation: nested directories
  with a long name and a file whose clusters are out of order (FAT16); a root
  directory of two clusters, a directory that fills its cluster and one inside
  another of the same name (FAT32); a path found twice; a full root sector with
  a name of two parts; a FAT16 directory that ends with its cluster; a name too
  long for `lfnbuf`. The last four are volumes the driver reads wrongly, and
  the properties say which they leave out (`Legible`, `FoundTwice`, `PassesOver`).
  `Word` is 16 in place of 2^32, above twice the largest file; positions take
  all of its values, since a failing write moves back by one. Two opens in all
  are enough to close one descriptor and open another, in one process or two.
* Heaps: heads of one unit, majors of two pages of 8 units or more. The requests
  are one that fits many times, one that fits a few times and (in the kernel)
  one that needs a major of its own, so that majors become full, fragmented,
  empty and larger than the minimum, and the pool and the address space run out.
  In `user_heap` the constraint `OneAtATime` stops at the first call that finds the
  lock taken: what happens after it is the finding of `user_heap_lock`.
* Boot: the disc has directories two deep, a directory of two sectors, two files of
  one name, an image that fills neither its last sector nor its last block.
  `TableStep` is 4 in place of 32, so the table of records grows, and `FreshIndices`
  holds values of `fentries_loc` inside the table, just behind it and far beyond.
  Two errors are enough for a failed read that is followed by another with what
  the first left in memory. `MaxReads` is 1: reads do not depend on each other.
* Console: the ring holds two characters, so three fill it; four
  events are a key under Shift or Caps Lock, or a line with a backspace in it. The
  screen is as small as wraps and scrolls allow; the one screen in `BootScreens` has the
  cursor in its last row, and commands print one letter. `MaxFaults` is 2: a command may be garbled twice.
  `MaxEarly` limits typing while commands are queued. The typist waits until the
  keyboard has sent what it has, since people are slower than the wire.
* Process: a parent and a child, or two threads of one process, with three calls of
  setenv or exceptions: enough for a name set before and after exec, for two
  threads that fault in one handler, and for a second error after the first was
  survived. `MAX_ENVIRON_VARS` is 2 with three names. The vectors have 9 and 10
  arguments at a limit of 9, lengths 4 and 5 at a limit of 5, and totals of 10 and
  more at a limit of 10; the stack region of 84 is what the longest of them fills.

## 5. Fairness

* `WF(Pick)`: `sched_pick_next` is a loop that runs with interrupts off; the
  CPU executes it.
* `WF(Interrupt(0))`: the timer is started in `irq_init` and its gate is open
  whenever a thread runs. No fairness is assumed of any thread, of keyboard
  interrupts or of system calls: a thread may compute for ever.
* Interface: `WF(Wake)`, `WF(RecieveWait)`, `WF(RecieveAgain)` say that a
  runnable thread inside `psInterfaceRecieve` gets to its next system call and
  that a waiting thread is looked at; the first is `NoStarvation` of Sched plus
  the straight-line code of the library, the second holds because
  `sched_pick_next` pops every queued thread on each round.
* Memory has safety properties only.
* Files: `WF(Mounting)`: mounting is a loop of the kernel before there is any
  thread. A process need never make another call.
* Boot: `WF(BootStep)`: nothing else runs, and the drive's polls end, if only with an
  error. Nothing is assumed of a kernel that is lost.
* Console: `WF(SetUp)` (the boot goes on), `WF(Device)` (what a device has to say
  reaches the controller when its buffer is free), `WF(KeyboardIrq)`, `WF(TimerIrq)`,
  `WF(ps2kb_handler)` (the interrupt gate is open whenever a thread runs, and a
  handler that was entered returns), `WF(Shell)` (`NoStarvation` of Sched). Nobody
  has to type.
* The heaps, Process and Environ have safety properties only: a thread may stop
  calling at any time.

## 6. Proofs

### 6.1 SchedProofs

For every `MaxPid`, `MaxTid` and every set of exit codes: `TypeCorrect`,
`NoSchedulerPanic` (`[]PickNeverPanics`), `QueueExact` (`[]QueueHoldsThreads`) and
`DeadNotRevived`. None is inductive; the invariant `SchedInv` is

* `TypeOK`;
* `IdleAlive`: the idle thread and process never die, so the fallback of the loop exists;
* `TidsOwned`: a thread listed in `tids` belongs to that process;
* `FreshTids`: tids not handed out yet are unused;
* `LiveThreadsOwned`: a thread that is not dead is listed by a process that is
  neither freed nor exiting. This is what makes reaping safe: emptying `tids`
  after marking its threads dead covers every live thread of the process;
* `QueueHoldsThreads`: each existing thread is queued exactly once, so removing the
  popped entry removes the thread;
* `CurrentRuns`: in user mode the current thread is runnable.

The proof has one step per action and one lemma per group of actions; the shift
of the queue in `PickDead` is a lemma on sequences of its own.

`WaitersExact` (`[]WaitersCounted`) and `WaitsEndWithExit` rest on `SchedInv` and `WaitInv`:

* `CountInv`: `waiting_threads` of a process is the number of claims on it. Each action
  adds or removes one claim, or none, or empties the table entry; the lemmas say what
  that does to the cardinality of a set of threads;
* `WaitFieldInv`: only a thread that waits, or died waiting, names a user process in
  its `wait` field, so that reading the field as an irq number counts no claim;
* `WaitedStays`: a process that is waited for is not freed, so a pid that is waited for
  is never given to another process. This is what makes the exit code that a waiter gets
  the one of the process it named;
* `KernelAlive`, `EmptyIsExiting`: the kernel process waits for init and stays; a process
  without threads is on its way out.

### 6.2 InterfaceProofs

For every set of processes, threads, names and every limit: `TypeCorrect`,
`NoThreadWaitsOnNothing`, `PrivateIsPrivate` and `ImplementsMailbox`. The
invariant `InterfaceInv` adds to them that a deleted interface is empty and a
live one has a creator (`CreatorsInv`) and that stamps increase along a queue
(`StampsInv`). The refinement needs `StampsInv` for "oldest first": the first
entitled element of the array is the one with the least stamp.

### 6.3 MemoryProofs

For every number of frames, page size, page table size, end of user memory,
set of processes and programs: `TypeCorrect`, `ReserveKept`
(`[]BrkLeavesReserve`) and `RunningProcessHasDirectory`. `TypeOK` says more here
than that variables have their types: pages that are released lie in user
memory, the break never passes the end of it, and `brk_offset`, which
`sched_setbrk_true` subtracts from, never drops below zero. The invariant
`MemoryInv` adds what that takes:

* `BrkInv`: the break lies at a page boundary, at or above its offset, and the
  offset is zero before the process is loaded;
* `GrowInv`, `ShrinkInv`: while the break moves, the old break, the current one
  and the requested one are in order and the first and the last lie in user
  memory, so that the loops stop exactly at their ends;
* `DirectoryHeld`, `CurHeld`: a process that can be scheduled has a directory,
  and the one that executes can be scheduled;
* `OpInv`, `MapInv`: the process an operation works for has the state that
  operation needs, and the loader works on a segment of the file.

The arithmetic (page boundaries, `RoundUp`, the pages at a break) is proved once
in lemmas from division with remainder. `ReserveKept` uses the assumption
`BrkReserve >= 2`, a page and its table; the code keeps 8.

The second half of the module is about pages and frames: `BreakMatches`
(`[]BrkMatchesPages`), `PagesReturned` (`[]ReapReturnsPages`: the pages of the segments
and of the break, and not the stacks) and `OwnedOnce` (`[]FramesOwnedOnce`). `MemoryAssumption` says that there are finitely many processes and
that a program has a segment.

The first two need `PageInv`, which says for each process which pages it has mapped, by
where it is in its life: none before it is loaded, those of the segments mapped so far
and of the part of the current one while it is loaded, those of all segments and of the
break while it runs (less or more what an unfinished move of the break has added or
taken), and at most what the reaper can find after its exit and while it is reaped.
`TakenInv` says that the loader holds no more frames than the segment it is mapping has
pages, and none between two segments: those it holds get mapped.

`OwnedOnce` counts. `Places` is the number of places a frame is in: the pool, the frames
the loader has taken, the directories, page tables, pages, tables of stacks and stack
pages of all processes and threads, those that are gone included. Every action conserves
it for each frame, by a lemma for each way in which frames change hands; the one
exception, the loader that gives up and forgets the frames it took, lowers it. So
`PlacedOnce` is inductive: each frame is in one place, or in none after a load that may
have failed. It takes `FreshHoldsNothing`: a process or thread that is created had no
directory and no table of a stack, whose frame would be dropped. The places that belong
to the kernel's structures are uses; the others are what is left behind.
`UsesOfPlaces` compares the two sums, and `PlacesAreUses` follows: with `PageInv`,
a process that is gone holds no page unless its load failed, so a frame that has no use
is one of `LeftBehind` or of a failed load, and each frame of `LeftBehind` has none.

### 6.4 VfsProofs

For every finite set of processes, all volumes, paths, lengths and limits.

* `OpenCountsExact` (`[]OpenCounts`) and `DescriptorsKept` (`DescriptorsStable`). `OpenInv`
  adds to the counts that a handle without a file is a closed one and that there are none
  before the volume is mounted (`HandlesInv`). The count of a file is the cardinality of
  the set of handles that name it, over all processes, and opening, closing, exec and exit
  change it by the handles they add and remove.
* `TreeInvariant`: `TreeInv` says what `vfat_read_directory` builds while it calls itself. A
  directory stands behind its parent and before its subdirectories, the i-th of which is at
  least i places behind it (`InPlace`), so that the scan of a directory, which goes on in
  the directory it has found, comes to an end; the calls under way lead down the tree, and
  the directory that each of them fills is behind all that its parent has so far
  (`CallsInv`); a file has the size of the entry that its id refers to (`EntriesInv`).
* `PathsLeadBack` (`[]PathLeadsBack`): a directory is found by its name unless another one
  of that name comes before it. A directory that `vfs_find_directory` returned was found
  that way, as were all those above it (`Found`), so the names from the root to it, which
  `vfs_get_path_directory` puts together, lead to it again (`PathFinds`). `Found` is needed
  because two entries of a directory may have one name, and only the first is ever found.
* `TypeCorrect` (`[]TypeOK`), from the tree and the word arithmetic of `loc += bytesread`.
* `ReadsReturnFile` (`[]ReadReturnsFile`): `Yields` says which cluster, counted along the
  FAT from the first one of the file, each byte of a reply comes from. `accessfile` yields
  that (`AccessYields`), and it is what the file holds if the position stays inside it
  (`YieldsFile`).
* `LookupsMean` (`LookupExact`): a path is taken by its words (`Meant`: a name is the
  directory of that name in the one before it, `..` its parent) and by `vfs_find_directory`
  and `vfs_find_file`, and both lead to the same place. `LinksInv` says that every directory
  but the root is in its parent's list or still has a call, and every file in its
  directory's, so that when the mount ends nothing that refers to a parent is missing from
  its list (`Complete`). `NameMeans` is one round of the loop, `WalkMeans` the walk by
  induction over the names. The hypotheses are those of the property: no two of one name in
  a directory, no directory inside one of its own name behind it, and no name that leads
  nowhere before the last.
  `PathMeans` proves it for a path of any length and any names. `LookupExact` asks it of
  paths of up to three names at the end of the mount, and `EveryPathMeans` (`[]PathsMean`)
  of every path as long as the volume is mounted.
* `TreeBecomesVolume` (`TreeIsVolume`): the invariant is `VolumeInv`. While a legible volume
  is read, the topmost call is at an entry of its directory, which holds what the entries
  before it list (`ReadsTo`, `Reading`), and the long name in `lfnbuf` is what lies right
  before that entry; a call below it waits at the entry of the very directory that the next
  one reads (`Waiting`); a directory without a call is done (`Done`). `CallAdvances` and
  `ClusterAdvances` move a call by an entry and to the next cluster, `CallCompletes` shows
  that where it returns the directory holds all that lies on the volume. At the end every
  directory is done, and `TreeMeans` compares the two sets of paths, from the last
  directory of the tree to the first.

A scan, a walk, a path, a chain and a flattened sequence are recursive functions of the
model. TLA+ takes such a function to be any that satisfies its equation, so each needs a
lemma that there is one, by induction over its arguments (`ScanExists`, `WalkExists`,
`PathsExist`, `ChainsExist`, `HopExists`, `FlatExists`, `MeantExists`), and a second
induction for what it yields. The induction theorems of the library take an operator and
cannot be used; `AllNumbers` is induction for a set of numbers, from the well-foundedness
of `<`. The paths below the directories of a volume are different: nothing says that its
directories form a tree, so there is no order to go by. They exist all the same, since the
rule that makes them never takes a path away: the least sets that it adds nothing to are
sets that it leaves as they are (`LeastSets`, `BelowExists`).

`VolumesAssumption` says that the volume is well formed: the entries that are looked at
exist, have sizes below `Word` and, for a directory, the size 0; they refer to clusters of
the volume, which are fewer than what marks the end of a chain; chains end, a file's chain
has room for its size, and no part of a name is `.` or `..`. The driver checks none of it,
and the mounted volume is the one the system is installed on. `Legible` is the hypothesis
of `TreeIsVolume` and `MountEnds` and says which of these volumes the driver can read
whole: a long name takes one part, right before its entry; the last slot of a sector or a
cluster, which the loop does not look at, is not in use, nor is it what ends a directory
whose chain goes on; a directory ends in its cluster unless the chain's end is marked as
FAT32 does. `CallsAssumption` says that paths are sequences of names.

### 6.5 KernelHeapProofs

For all sizes of heads, pages, alignment and requests, and any number of pages:
`HeapIsSound` (`[]HeapSound`) and `GrowsWhenFull` (`GrowsOnlyWhenFull`). The invariant
`HeapOK` says

* `HeapInv`: each major is sound (`MajorInv`), lies below the break and apart from the
  others. Its minors are ordered two by two rather than neighbour by neighbour, which
  says the same and needs no induction along the list;
* no major is empty, since `free` returns it, and `l_bestBet` names a major or none;
* the two counters of the heap and the `usage` of each major are the cardinalities of
  sets of bytes, and pages in the heap and in the pool are those there were.

One lemma per way in which `malloc` places a block (in a new major, in front of the first
minor, behind the last, in a gap) and in which `free` unlinks one says that the major stays
sound and what happens to its bytes. `GrowsWhenFull` is the statement that the search
misses nothing: the code skips a major whose `usage` leaves too little (`diff`) before it
looks at its gaps, and a gap that fits implies that the counter lets the search look at it
(`NoGapLeft`).

### 6.6 UserHeapProofs

For all sizes of heads, pages, alignment and requests, any limit of the break and any
number of threads: `HeapListsInvariant`, `ListsStayCoherent`
(`[](OneAtATime => ListsCoherent)`) and `BlocksImplemented`
(`[]OneAtATime => ImplementsBlocks`). Both need that no two calls have overlapped, as in
the run `user_heap`: after `liballoc_lock` has refused a call, neither holds
(`user_heap_lock`). The invariant `HeapListsOK` says, as long as nothing was refused,

* `ListsOK`: the majors and the minors, taken as sets of cells, are linked in the order
  of their addresses. `Adjacent(S, a, c)` says that c comes next after a in S, and a list
  is one whose `next` are adjacent to their cells (`IsList`); what the loops of the code
  see (`Walk`) is then the set in order, by induction along the list (`WalkIs`). Every
  major ends before the next one and below the break, every minor ends before the next
  one and in its major and has the one before it as `prev`, and `usage` is the cardinality
  of the bytes in the minors (`UnitsIn`);
* `OwnedOK`: the blocks of the threads are those of the minors, and no pointer has two
  owners;
* `JobOK`: what the thread inside `malloc` remembers is still so after it was preempted:
  the break it has read, the last major, and the gap that its search found (`PlaceOK`),
  with the neighbours that it reads only now (`NextFor`). This is what the lock is for:
  `OneCall` says that a thread between its search and its last write has the lock and is
  the only one.

The lists are related to the sequences that Heap searches by `ViewAll`, and the
lemmas on gaps are those of KernelHeapProofs. `PlaceKeeps`, `ReleaseKeeps`, `GrowKeeps`
and `ShrinkKeeps` say what linking, unlinking, a new major and a smaller request do to the
lists; `OwnedPlace`, `OwnedRelease` and `OwnedShrink` what they do to the blocks, and with
that the step of Blocks: `Place` is its `Malloc`, `Release` its `Free`, `ReallocInPlace`
its `Shrink`, and every other action a stutter. `UserHeapAssumption` says that requests
are not zero, which `malloc` refuses, and that the limit of the break is a number.

### 6.7 DeviceProofs

Console. For every screen, length of the line and of the ring, layout of the keyboard and pairs of
devices:

* `LineShown` (`[]LineIsOnScreen`), from `ScreenInv`: while the shell edits a line, the
  prompt and the line stand in the cells before the cursor, and the line is never longer
  than what lies there, so that wrapping, scrolling and backspace keep it so;
* `NobodySleepsOverCharacters` (`[]SleepsOnlyWhenEmpty`), from `SleepInv`: a reader that
  sleeps found the ring empty, with interrupts off, and a handler that fills it has been
  entered by an interrupt that wakes it;
* `CharactersInOrder` (`[]KeysInOrder`), from `OrderInv`. `WireInv` is the heart of it: the
  bytes on their way (in the controller's buffer, then in the keyboard's) take the decoder
  from the state it is in to the state with the modifiers that the typist has pressed, and
  give the characters that are meant and not yet in the ring. `StageInv` says which answers
  the devices still owe in each stage of `ps2_init`, so that no answer is left over to be
  taken for a key. The exceptions (`odd`, `late`) are those of the property.

Boot. For every set of machines with whatever disc, every size of a sector, step of the
table and number of errors: `TreeStaysDisc` (`[]TreeIsDisc`), `FilesStayIntact`
(`[]FilesIntact`) and `CrashesExplained` (`[]LostForCause`). `BootInv` says

* `DriveInv`: what is in memory was read of the disc or is junk, and the volume's drive is
  one that was found; `PhaseInv`: what there is in each phase of `kernel_main`;
* `TreeInv`: a directory comes behind its parent, a file's parent is a directory;
* `DiscInv`: as long as no read has failed, `dirs` is the path table of the disc, the files
  are those of the directories that `append_files` is through with, each once, the table of
  records has room for them unless its index was far off from the start (`TableSound`), and
  the search for the next directory is in one of its ancestors, at a name that lies on the
  way (`OnTheWay`).

The tree is put together from the path table, and `TreeIsDisc` compares it with a walk of
the disc that knows only directories and goes down one level at a time (`AtDepth`, whose
levels exist by `DepthsExist`): at each depth the directories are those with as many names
above them (`DirectoriesAtDepth`), and so their files (`FilesOfDisc`). For `FilesIntact`,
`UnitRead` follows one unit of a read through the buffer of sectors and `CopiedRight` the
whole read; `RamdiskHolds` does it for the image.

`IsoAssumption` says what a drive may hold (`IsDisc`): any disc without a volume
descriptor, or one that was written with a volume, whose path table names parents first
and every directory once, whose directories have their record in their parent, whose names
in a directory differ and whose files have their data where their records say. The driver
checks none of it. `AtapiAssumption` and `BootAssumption` give the types of the machines,
the command lines and the limits.

### 6.8 ProcessProofs

For every set of processes, threads, errors, names, values and argument vectors, and
for every limit: `FaultsHaveCause` (`[]DiesForCause`) and `EnvironmentAgrees`
(`[]EnvAgrees`) and `ArgumentsReachStack` (`[]ArgumentsArrive`). The first needs
`FaultInv`:

* `LiveThreadsRun`: a thread that can run belongs to a running process, so a process
  that has ended raises nothing more, and only another process that kills it later
  changes its exit code;
* `NoErrorLeft`: between two exceptions `procerr` is zero. Without it an exception
  that is no error (a breakpoint, a stack page that is mapped) would find the error
  of another thread and kill for it;
* `UnhandledWasRaised`: `procerr_unhandled` implies that an error was raised before,
  which makes the second one a double fault.

The second needs `EnvInv`: in every running process that set plain names only, no
name is in the array twice (`Unique`), the lookup gives the last value, and the
array is longer than its strings. The lemmas are about sequences: a plain name
matches by the first part alone (`PlainMatch`), the search returns the only match
(`IndexOfMatch`), and writing a string changes the answer for its name and no
other (`WithStringSound`). `EnvironAssumption` says that names and values are
sequences with at least one part, which `setenv` checks for names and which the
cut at equal signs gives for values.

The third needs `ArgInv` (`Given`): a running process that was not set up has an empty
stack and a vector that `kargv_user` lets through, and after setup the strings lie where
`uargv` says. `KargvExists` and `PushExists` show that the two runs over the vector
exist, by induction over the number of strings, and `SetupFits` goes through both runs
side by side: after n strings of which `kargv_user` has counted `total` bytes, setup has
pushed a multiple of 4 bytes that is at most `total + 3 * n`. `StackAssumption` says
that the region holds the largest such multiple, the vector and two words; with the
constants of syscall.c:47-52 that is 1 055 756 of 4 194 304 bytes. The run's region is
the smallest that satisfies it.

All proofs assume only the named assumptions on the constants.

### 6.9 Only model-checked

All liveness (`PickTerminates`, `NoStarvation`, `WaiterResumes`, `ReceiveCompletes`,
`MountEnds`, `BootEnds`, `CommandsComplete`): liveness under fairness is out of the
prover's reach. Every invariant and every action property of the passing runs, and the two
refinements, are theorems.

## 7. Findings

| run | what happens | what the repository says |
|---|---|---|
| `sched_reap_fault` | after one thread of a process calls `texit` and is collected, its tid stays in `tids`; the exit or kill of the process writes through `threads[tid] == NULL` | sched.c:527 "if there are any threads still active, kill them all" |
| `user_heap_lock` | malloc, free and realloc go on when `liballoc_lock` returns -1, and two threads get the same block | liballoc.h:28 "This function is supposed to lock the memory data structures." |

What the models show besides, where no run is spent on it. Properties that hold
name the exception where they leave one out:

* Sched: killing an exited process that is kept for its waiter replaces its exit
  code; when the last claim on an exited process is dropped by a dead waiter,
  nobody frees the process.
* Interface: the blocking receive of the library returns `-EAGAIN` when another
  thread was faster, against ps.h:19 "will block if there are no messages". When the
  creator of an interface is gone nobody may delete it.
* Memory: whatever a process does, its end costs the page tables that `vmm_map_page`
  took for it and, for each of its threads, the stack and its page table, so
  execs and exits alone use up the pool; a thread that ends alone costs its stack as
  well. sched.c:559 says of `sched_free_all` "free all memory used by the process in
  userspace", but it frees the pages of segments and break only; the TODO in sched.c:672,
  "free all pages allocated for the thread's user stack", knows of the stacks, and
  nothing in the code of the tables. A load that fails loses the frames it holds. No
  other frame is lost (`LeftBehind` and `LoadMayFail` in `FramesOwnedOnce`).
  The loader may be handed the directory that cr3 still points to;
  `sched_fork_thread` asks for 16 frames and copies a stack that may need more, and
  a fault in the stack region asks for none, so both can panic on an empty pool
  (sched.c:168 says "don't panic on userspace exhaustion").
* Vfat: the clusters of a read are counted from its length alone, so a read that
  starts inside a cluster and leaves it returns bytes from behind the buffer
  (`ReadReturnsFile` leaves those out). Long names that do not fit stop the mount
  (`MountEnds`), other irregular volumes are misread (`Legible`, `FoundTwice`,
  `PassesOver`).
* Boot: `get_cdrom_capacity_polling` returns 1 for an empty drive, which is then a
  disc, and a CD that no driver recognises is mounted through NULL; a failed read is
  reported as success; `fentries_loc` is never initialised (`LostForCause` names the
  three). Reads across sectors, as in Vfat (`FilesIntact`).
* Console: a keyboard on port 2 raises interrupt 12, which wakes no reader
  (`SleepsOnlyWhenEmpty`); E0 F0 is not understood, so an arrow that is released is
  taken for the key of the number pad, and a repeated Caps Lock for several
  (`odd`); a device that answers after the poll gave up is misdetected (`late`); a
  byte the controller does not take is forgotten (`lost`); a full ring loses all
  it has (`WithChar`).
* Process: `procerr_unhandled` is set when a handler is called and never reset when
  it returns, so the second error that a program survives ends it. A process that an
  exception has ended and that is kept for a waiter may be killed once more, and then
  the waiter gets the killer's code (`DiesForCause` leaves those out). A name
  with an equal sign is stored and found under a shorter one (`aliased`).

## 8. What is not modelled

* Interrupts inside `sched_pick_next`. `kfree` and `pload_load_process` enable
  them there (`kmode` is 1); Sched, Interface and Memory take each kernel entry
  as running with interrupts off. The windows are module Preempt of the plan.
  `exception_handle` has one more: it clears `currentps->procerr` after
  `sched_exit_process`, which may have freed the structure with interrupts on
  (exceptionx86.c:133-135, 146-147 and 156-157), so the write may hit a block of somebody
  else. Process clears the field of the process that has ended.
* What the write to the NULL thread of a collected one does in a reap
  (`sched_reap_fault`): Sched stops there, Memory goes on.
* The growth of `processes[]`, `threads[]` and `tids`, and the panics when
  `MAX_PROCESSES` or `MAX_THREADS` are reached. Reading it shows that the tests are
  of the wrong tables: `threads[]` grows when `last_tid` reaches `processes_size`
  (sched.c:83), from then on by 512 entries with every thread, and `tids` (128
  entries) when `threadcount` reaches `threads_size` (sched.c:149), so the 129th
  thread of a process is written behind it. The queue grows with `processes[]` only.
* Frames that the kernel heap takes from under Memory (KernelHeap has a pool of its
  own), and segments that are not aligned to a page.
* Files: writing (no driver can), several mounts at once, `vfs_fstat` and directory
  listing. Hard disks: they are detected and no driver registers them.
* Exceptions in kernel mode, which panic. `safecpy.c` range arithmetic: it has no
  state; what a string that cannot be read does to exec is in Environ.
* The double panic of a panic, rebooting, and the hardware cursor: port writes.
* Console: parsing of the shell's line; its commands only print, one character at a time;
  terminal colours; a second keyboard, for which the driver sends no commands.
* The power protocol (planned, section 2), the user programs and library stubs
  (sequential; what they ask of the kernel is the arbitrary thread of Sched,
  Interface, Memory and Vfs), the safety tests, and the debug shell, which is never
  started. Descriptor tables and `boot.S` run once before anything that is modelled.
