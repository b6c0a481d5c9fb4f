# A TLA+ model of the nanOS kernel

nanOS (`src/nanOS`) is a small 64-bit teaching kernel with round-robin
multitasking, a page allocator, mutexes, condition variables, fifos and a shell.
This directory models the parts of it where several actors meet: processes,
interrupts, kills and shared objects. TLC checks small instances; TLAPS proves most of
the safety properties, and the refinements, for every instance.

The references are the C and assembly sources, their comments, and the two
documents in `src/Informe` (the design report, in Spanish, and the user manual).
"The report, p. n" in a comment is `InformeSOTP2.pdf`.

## 1. The system

| component | state | operations | talks to |
|---|---|---|---|
| process table (`process.c`) | `process_table`, one control block per process (status, pid, ppid, data pages, open files), `foreground` | create, destroy, kill, block/unblock, foreground | allocator, table mutex, scheduler |
| scheduler (`processManager.c`) | ring of nodes, `current`, `prev`, quantum per node, `superlock` | `next_process`, `add_process`, `yield_process`, `end_process`, `set_next_current` | every blocking call ends in `yield_process` |
| sleep list (`timer.c`) | list of (process, ticks) | `sleep`, `timer_handler` | unblocks processes |
| init and boot (`init.c`, `kernel.c`) | none of its own | starts the shell, gives it the keyboard, halts in a loop | runs with interrupts **on** |
| interrupt entries (`asm/interrupts.asm`, `idtLoader.c`) | saved registers | tick, key, `int 80h`, `int 70h` (yield) | all are interrupt gates: interrupts **off** inside |
| system calls (`systemCalls.c`) | table of functions | 3..37 | everything |
| keyboard (`keyboardDriver.c`) | circular buffer of scancodes, shift state | `store_scancode`, `get_char`, ESC | `foreground`, reader |
| page allocators (`memoryAllocator.c`) | two stacks of pages and their indices | get, store | everybody |
| mutexes (`kernelMutex.c`, `queueADT.c`) | array of {name, locked, state, queue} | open, close, lock, unlock | scheduler, allocator (itself behind a mutex) |
| condition variables (`condVariable.c`) | array of {name, queue, its mutex} | open, close, wait, signal, broadcast | mutexes |
| fifos (`fifo.c`) | array of {name, circular buffer, queue of read requests, mutex} | open, close, read, write | mutexes, allocator |
| screen (`videoDriver.c`) | cells, cursor, colors | `sys_write`, colors, pixels | programs |
| image (`ModulePacker`, `moduleLoader.c`) | the binaries, packed | load, clear the bss | boot |
| shell, commands, executer (`Userland`) | line buffer, arguments' page | read a line, run a command, hand over the keyboard | all system calls |
| programs (`Userland`) | philosophers, two producer-consumers | their commands | mutexes, conditions, fifos |

What is hard about it:

* *Interleavings.* The kernel is not preemptible inside a system call, so the
  interleaving is of whole calls, ticks and keys, with two exceptions: init, which
  calls `sys_exec` with interrupts on, and `sys_read`, which turns them on before
  it blocks. What a program does with several calls (ask for the pids and then for
  each process, start a process and then give it the keyboard) is interleaved with all others.
* *Deferred deletion.* `kill` only marks; the scheduler removes the process
  when the ring comes to it. Meanwhile, and afterwards, the sleep list, mutex
  queues, condition queues, fifo requests and `foreground` keep pointing to it,
  and its page may become another process.
* *No owners.* Mutexes do not know who has them: a dead holder never releases, and a close tells nobody.
* *Loops with interrupts off*, whose end depends on global facts (init is ready).
* *Limits*: 255 pages in a stack of 8-bit indices, 128 processes, 64 pages listed
  per process, full buffers of keys, lines and fifos; no answer when pages run out.

What makes each part correct, in a sentence: the ring is one cycle of the live
processes; a page has one user; a mutex one owner; a wake-up reaches its sleeper; a
fifo and the keyboard are queues; a command gets what was typed, runs what was asked and
gives the keyboard back; what a process has in the general registers survives a switch.

`PROJECT.json` lists every component, modelled or not, and every such hazard at
its line, with the property that would catch it going wrong.

## 2. Modules

| module | models | how |
|---|---|---|
| `Scheduler` | `process.c`, `processManager.c`, `timer.c`, `init.c`, `sys_read` of the keyboard | one action per system call, interrupt, iteration of `set_next_current`, and statement of init |
| `Processes` | what the scheduler promises: who runs is neither waiting nor killed | abstract specification |
| `SchedulerProcesses` | the refinement mapping `Scheduler` -> `Processes` | |
| `MCScheduler` | instances for TLC | symmetry of the pages other than init's |
| `MemoryAllocator`, `MCMemoryAllocator` | `memoryAllocator.c` and all who hold pages | one action per operation of each user |
| `KernelMutex` | `kernelMutex.c` over processes that come, go and are killed | one action per operation; a lock that waits returns in a step of its own |
| `FifoLock` | what a mutex promises: one owner, until it is closed in use; first come first served; a line is a set of pairs | abstract specification |
| `CondVariable` | `condVariable.c` over `KernelMutex`, which it EXTENDS | `cond_wait` in two steps: up to its yield, and from the wake-up on |
| `Fifo` | `fifo.c`, with the wrap-around of its indices and the copies of bytes | one action per call; a read that waits returns in a step of its own |
| `ByteQueues` | what fifos promise: bounded queues of the bytes passed to the writes, readers in order, each up to its cut | abstract specification |
| `Keyboard` | `keyboardDriver.c` and the loop of `sys_read` | one action per key, and per stretch of `sys_read` between which a key may come |
| `Objects`, `MCObjects` | `CondVariable`, `Fifo` (bytes), `Fifo` (names) and `Keyboard`, and their properties; the instances of TLC | one of them per behaviour |
| `Foreground` | the keyboard's way between shells, commands and ESC | one action per system call of `execute`, `executer`, `set_fg`, `kill` |
| `Executer` | the page of arguments of `executer.c` | caller, processes and the stack of free pages |
| `CommandLine`, `Arguments` | from keys to a command (`stdio.c`, `shell.c`); the words of a line (`executer.c`) | one action per key typed, and per character read; functions of a line |
| `Philosophers` | `philo.c` | one action per critical section |
| `ProducerConsumer`, `ProducerConsumer2` | the programs of those names | a fifo is its number of bytes; a critical section is a step |
| `ProcessList`, `ObjectList`, `TableScan` | `ps` and `ipcs` over tables that change; the loop that copies a table | one action per system call |
| `Clock` | `time` and `set_GMT` | one action per system call, and per second |
| `Console` | the text screen, the echo of a line, `bg_color` | one action per character |
| `Numerals` | `itoa`, `atoi`, `isnum`, `printf`, `scanf` | functions of codes, with ints of `WIDTH` bits |
| `SystemCalls` | library, registers, table and wrappers of every call | one action per call |
| `ContextSwitch` | `interrupts.asm`, `fill_stack`, the stack pointers | one action per stub; the stack is a sequence of words |
| `Image` | `ModulePacker`, `moduleLoader.c`, `memcpy`, `clearBSS` | one action per turn of a loop: a block of a file, a module, a cell copied |
| `Programs`, `Services`, `Loader`, `MCPrograms` | those of the modules from `Foreground` on that theorems are about: programs with the switch between them, what the kernel does for them, and what puts them in memory; the instances of TLC | one of them per behaviour |
| `X_proofs` | theorems on `X`, for six of the modules above (`CondVariable_proofs` has those on `KernelMutex` too), and in `Memory_proofs` on `MemoryAllocator` and `Loader` | TLAPS |
| `OrderLemmas` | lemmas on finite sets of numbers, division, sequences, and the words of a line | TLAPS |

**Composition.** The modules meet where the code does. `CondVariable` calls the operations of
`KernelMutex`. Above them, `Philosophers` and `ProducerConsumer2` take a critical section as one
step, which is what `MutualExclusion` and `MutexSurvivesWaiting` say, and the order of
service from `FifoLock`; `ProducerConsumer` takes a fifo as its number of bytes, which is what
`ByteQueues` says. All of them take a process as ready or blocked, which is what `Processes`
says and `Scheduler` implements. `MCObjects` and `MCPrograms` put together components that share no
variables: a behaviour chooses one of them.

### Scheduler

A process is identified with the page of its control block, and its ring node
with it: they are created and removed together. `table`, `st`, `pid`, `ppid`,
`foreground`, `current`, `prev`, `next`, `quantum`, `superlock` are the variables of
the C code; `sleeping` is the timer's list as a set. Three variables are program
counters: `kernel` (inside `set_next_current`, called from where), `boot` (init's
statement) and `reading` (where a process is in `sys_read`).

* A page that is freed keeps its contents until it is handed out again, and
  which free page is handed out is left open: this is how dangling pointers
  in `foreground`, `prev` and `sleeping` are seen to be harmless or not.
* `sys_end`, `ReapDeleted` contain the whole of `destroy_process`, with the
  `unset_superlock` that its last `mutex_unlock` performs.
* `yield_process` is the last thing its callers do: the rest of `next_process` is the
  dispatch loop (`SkipBlocked`, `ReapDeleted`, `Resume`). No other action is
  enabled meanwhile, because interrupts are off.
* The keyboard buffer is abstracted: in `sys_read`'s loop the next read may find
  bytes or not (`Keyboard` has the buffer, and not the other processes).
* Since a page is a control block or free here, what happens when a dangling pointer
  reaches a page that now holds something else (a node, a program's data) is left out.

### MemoryAllocator

An array and its index become the sequence of the entries not yet popped. Pages have
users: control blocks, nodes, stacks, pages reserved by programs, requests of readers,
entries of the sleep list, a queue and its nodes. `data_page` (what the control block
lists) and `reserved` (what the program has) are separate, since `add_data_page` may
drop a page. `abandoned` has the requests that nobody stores. `Exhausted` stands for
what follows an empty stack, where the code recurses or faults: the model stops there.

### KernelMutex

`state`, `locked`, `queue` are the fields of `open_mutexes`. The scheduler is taken
as its abstraction: a process runs when it is ready. `holds` is what programs
conclude from the returns of `mutex_lock` and their own `mutex_unlock`; `lost` remembers
mutexes whose holder is gone.

A close tells nobody (`kernelMutex.c:78-97`): who had the mutex still believes so, the waiters it
releases do too, and any of them may unlock the mutex of that entry when it is open again and
another process has locked it. `MutualExclusion` does not hold of such a mutex, and says so:
`misused` has those that were closed while somebody had or awaited them, until they
are opened with nobody left who believes to have them. For all others it is claimed whatever else is
closed and opened.

Killed waiters stay queued; `PageReuse` says whether their page may be taken by
a new process while still queued. The runs say FALSE: with TRUE the code does hand
a mutex to a process that never asked for it, and `MutualExclusion` and
`LockedForSomebody` fail.

### CondVariable, Fifo, Keyboard

* `waits` is where a process is in `cond_wait`; waking up is not returning, since
  `mutex_lock` may wait again. A killed waiter stays queued, as in the mutexes. Who finds the
  mutex closed when it wakes goes on without it (`GoesOnWithout`), and the mutex is `misused`.
* In `Fifo`, `want` and `got` are the fields of a `read_request`, known by its reader. `call`
  is what the last call was given and returned: `ByteQueues` has the same variable, so that what enters
  a queue is the front of the source of that `fifo_write`, as long as the count it returns.
* A reader looks at its fifo again after it wakes. One that was served before a close reports an
  error and its bytes are lost; one that a close released, and whose entry has been opened
  again, returns a `bytes_read` that nobody set (`fifo.c:185-190`). `shut` has the readers whose fifo was closed meanwhile:
  `ByteQueues` lets these, and no others, be told so.
* A
  write into a full fifo copies a negative length: `halted`. `WriteWhenFull` says whether
  programs do that; the passing run says FALSE, `FifoFull` TRUE. `holed` remembers that a
  fifo was closed before an open one, where the scan for a name stops short.
* In `Keyboard`, `raced` and `missed` remember that a key came inside the decrement
  of `get_char`, or between finding nothing and blocking: what is lost then is said
  in the properties' conditions. A character is chosen by the modifiers at the time it
  is read, not pressed, as in the code.

### Programs

* `Philosophers` adds the first ones before it listens (`toAdd`). `surprised` remembers that one was
  seated between an eater and the hungry one who waits for it.
* In `Executer` the copied `argv` still points into the caller's page: the property says
  for how long that is good.
* `Foreground` has pids and not pages: once somebody's parent has gone first (`orphans`)
  the keyboard may be lost (run `SchedulerKeyboard`), and the property says no more.
* With no argument `isnum(argv[0])` reads address 0: the commands of the philosophers and of both
  producers start with any number (`philosophersProblem`, `producerConsumer`, `producerConsumer2`).
* `build_arguments` puts a pointer to each argument, without looking, in a table of `MAX_ARGS` (32), which the
  characters of the arguments follow: more arguments write over them. `Garbled` is any arguments
  then, and `CommandGetsTheWords` claims only those that `Fits`. A line of 62 characters is enough to have too many.
* `ContextSwitch` has the general registers and flags, which the stubs save, and the SSE registers,
  which they do not although user land is compiled with them. `ComputesWithFloats` leaves something there. `RegistersSurvive`
  claims the former of everybody, and the latter only until another process computes with them.
* In `Clock` the offset is shared by all programs, and another may set it between the three reads;
  `offset` remembers the one that the hour was read with. Less than a minute goes by while the time is read.
* `Keyboard`'s tables have a key of each kind; CAPS LOCK changes two keys that are no letters
  into characters that neither other table has there.

A definition named `X_Y` is `X` with a plausible mistake `Y`. Nothing uses it; it
exists so that each property can be shown to fail under some mistake.

## 3. Runs

| run | question | instance | states |
|---|---|---|---|
| `Scheduler` | do the safety properties hold, is `IInv` an invariant? | 4 pages, 4 pids, sleeps of 1 or 2 ticks, self-kills allowed | 3.5 M |
| `SchedulerLive` | does dispatch end, does everybody run, is `Processes` implemented? | 3 pages, 3 pids, fairness | 12 k |
| `SchedulerKill` | is a kill final? **violated** | 3 pages | |
| `SchedulerWake` | are sleepers woken when due? **violated** | 3 pages, 3 pids, sleeps up to 4 ticks | |
| `SchedulerKeyboard` | does ESC lead back to the shell? **violated** | 4 pages | |
| `Memory` | has every page one user, is none lost? | 3 processes, 6 pages, 2 stacks, 1 sleeper, a queue of 2 | 228 k |
| `MemoryParameters` | is page 0 kept? **violated** | same | |
| `Mutex` | exclusion, hand-over, queues, order, service | 3 processes, 2 mutexes | 137 k |
| `Objects` | conditions, fifos, names and keys: nobody forgotten, bytes and keys in order | 3 processes; a mutex and a condition; a fifo of 2 bytes; 2 fifos and 2 names; a buffer of 2 keys | 240 k |
| `Programs` | what each program promises | 4 philosophers; fifos of 6 bytes; buffers of 3; lines of 7, tables of 3 arguments; a screen of 2 by 2; ints of 6 bits; 4 pids; 6 table entries; binaries of up to 3 bytes, blocks of 2 | 230 k |
| `FifoFull` | does a write return? **violated** | fifo of 2 bytes | |
| `PhilosophersLeave` | does a marked philosopher leave? **violated** | 4 philosophers | |

**Bounds.** Four pages are init, the shell and two programs: enough for a killed
process before and behind the current one, for reuse of a page and a pid, and for
a program with a child. Sleeps of two ticks let an old
entry wake a process in the middle of its own sleep; the proof has no such bound.
`MaxQuantum` stops yields from stacking quantum without end; the proof has the
bound only as a guard of `yield_process`. A tick that finds init inside
`set_superlock` is taken at most twice (ticks are 55 ms apart). Six pages and two
stack pages let the allocators run out and refill in any order, with lists of two
pages. Two mutexes allow closing one, reopening it and nesting; three processes allow
a holder, a waiter and a killer.
Two bytes and two keys fill a buffer, wrap its indices and let a reader find less than it wants. Four
philosophers are the fewest among whom one can be seated between two that know
each other and others then leave. Three buffer places tell a first item
from the others. Lines of seven characters hold two words, "&" and spare spaces, and exceed the
limits of six and seven; a table of three pointers has room for the function, one argument and the end, and
a second argument runs past it. Two characters of a line are enough to wrap at the edge of a screen of two by two and to be scrolled. Ints of six bits have a least one, and numerals that
exceed them; binaries of none to three bytes end with a full block or not, and do or do not
fit between the addresses; three pids beside init are a shell, a command and its child. The number of hours, minutes and
seconds is small so that every carry happens in a few steps. Limits of the code (128 keys,
1024 bytes, 128 fifos) are parameters: what happens at them does not depend on their size.

**Deadlock** is checked in the scheduler's runs. It is not in `Memory` (the kernel
halts when pages run out) nor in `Mutex` (programs can wait for each other over two
mutexes, and for a dead holder), nor in `Objects` and `Programs` (everybody may wait for
somebody who was killed or for a key, and a program ends).

**Fairness.** The scheduler's: the loop with interrupts off goes on, the
processor executes init when it is current, and the timer ticks. Nothing is assumed
of programs, of the keyboard or of the user. The mutexes': a ready process gets
to run (this is `ReadyRuns` of the scheduler) and programs unlock what they lock.
The conditions add that who is woken goes on, the keyboard that a
`sys_read` goes on, the philosophers that each of them takes its next step and the
listener answers, the second producer and consumer that each gets the mutex that it
goes on asking for (strong fairness: pauses come between; the order of arrival of
`FifoLock` gives it). No key, command, signal or kill is ever assumed.
`ReadyRuns` itself is conditional: a new process goes right after its creator, so
an endless chain of creations starves the others. `WaiterIsServed` assumes that no
program waits for a mutex while it has another, or goes away with one.

**What the violations show.** Each is described under `findings` in `PROJECT.json`:
a mark lost by a self-kill followed by a read; a sleeper woken by the entry
of a dead one whose page it got; ESC that cannot return the keyboard once
the parent is gone; page 0, documented as reserved, handed out last; a write into a full
fifo that never ends; a philosopher that is forgotten because its neighbour changed.

## 4. Proofs

### What is proved

| module | theorems | for any |
|---|---|---|
| `Scheduler_proofs` | its invariants (`Invariance` and one theorem for each), `KilledStaysKilled`; without self-kills `KillIsFinal` and that it implements `Processes` | pages, bounds |
| `CondVariable_proofs` | `MutualExclusion`, `LockedForSomebody`, `BlockedIsQueued`, types of `KernelMutex`, and it implements `FifoLock`; `SleeperIsQueued`, `MutexSurvivesWaiting` | processes, mutexes, conditions |
| `Fifo_proofs` | `ReaderIsQueued`, `NameHasOneFifo`; it implements `ByteQueues` | processes, fifos, bytes, sizes |
| `Objects_proofs` | `KeysInOrder`, `ModifiersFollowKeys` of `Keyboard`; the two modules above, as `Objects` has them | buffers, keys |
| `Memory_proofs` | `PagesHaveOneUser`, `NoPageIsLost`; `ModulesAreLoaded` | pages, processes, lists; binaries, blocks, addresses |
| `Programs_proofs` | `SlotsAreConserved`, `NeighboursEatApart`, `HungryHasAReason`, `KeyboardComesBack`, `CommandRunsWhatWasAsked`, `RegistersSurvive`; `CommandGetsTheWords` | slots, philosophers, pids, pages, processes; lines, buffers, command names |
| `Services_proofs` | `CallsReachTheirHandlers`, `ListsShowWhatStays`, `TimeShownIsNotAhead`, `EchoIsTheLine` | arguments, tables, lengths of a day, screens |

### From which assumptions

The constants' own (`ProcAssumption`, `MutexAssumption` ...) are checked by TLC. Theorems
name the rest as hypotheses:

* `~PageReuse` (mutexes, conditions): no process gets the page of a killed one while it is
  still queued. Without it the code does what the theorems deny (section 2), so it is a
  limit of the result and not a fact about the code.
* `~SelfKill` (the last two theorems of the scheduler): a process ends through `sys_end`. With
  it `KillIsFinal` is false: run `SchedulerKill`.
* `~WriteWhenFull` (`FifosAreByteQueues`): a write into a full fifo never ends: run `FifoFull`.
* `MaxReserved <= MAX_DATA_PAGES` (`PagesComeBack`): no program reserves more pages
  than its control block lists (`process.h:16`: 64); beyond, `add_data_page` forgets them.
* Numbers that the code gives: `BufferHasRoom` (`keyboardDriver.c:5`: 128), `BuffersHaveRoom`
  (`fifo.h:7`: 1024), `ShellHasRoom` (`processManager.h:9`: 128), `SizesAreNumbers`,
  `TableIsFinite`, `PagesAreNumbered`, `TableHasRoom` (`processManager.h:9`), `TablesHaveSizes` (128 of each
  object), `LightIsBytes`, `DayIsLong` (24, 60 and 60, offsets of less than a day), `ScreenHasRoom` (`videoDriver.h:30-34`: the resolution in characters;
  what moves the cursor has no drawing), `KernelIsBelow` (`kernel.ld`, `dirs.h:7-10`: the kernel with its bss
  ends before the addresses of user land, in order), and init among the
  processes (`InitIsAProcess`).
* `NullIsNoKey`, `NullIsNoWait`: that `NULL` stands for nothing else, as a pointer or as -1 in C.

### Why the invariants are what they are

*Scheduler.* None of the properties is inductive alone. That the ring
stays one cycle when `current` is unlinked through `prev` needs `prev` to be its
predecessor (`PrevPrecedesCurrent`), which in turn fails for init's first turn,
when `add_process` has just linked the shell behind it; the exception is harmless
because init is never removed (`InitIsReady`, `BootOrder`). That freed processes leave
ring and table together needs `TableAgrees`. That the quantum is positive
needs `BootOrder`, because a taken superlock is what lets a quantum run below one.
`OneCycle(R, nx)` says that `nx` permutes `R` and that every non-empty
part of `R` closed under `nx` contains init: "one cycle" without
induction over path lengths. Two lemmas say that inserting after a node and
removing a node other than init keep it. The refinement needs `PInv` beside it: a killed
process is never the one that runs.

*Mutexes.* Exclusion needs that the one served was waiting for this very mutex: hence who is
queued sleeps for it, once and in one queue (`QueuedOnce`, `QueuedSleeps`), who sleeps is queued
(`SleeperIsInLine`), the dead hold and wait for nothing (`GoneHaveNothing`), one owner at a time
(`OneOwner`, but for the `misused` ones), and an open mutex that is locked is one that somebody has or went away
with, and the other way round unless it is `misused` (`LockedIsTaken`). The unlocking loop skips marked waiters: `TurnIsFirst` says
which it finds, by `SmallestOf` (a non-empty set of numbers has a least one, in `OrderLemmas`).
In `FifoLock` the line is the order of arrival among waiters, which a
queue with dead entries still determines; the owner of a `misused` mutex is `Anybody`, and its line is served
in order all the same.

*Conditions.* `MInv` is the mutexes' invariant without "nobody sleeps elsewhere", so that it
serves here again. `CInv` repeats its shape for the conditions' queues; `WaitsForOne` says that nobody
is in both. `WakesKeep` covers signal, broadcast and close at once: the first m of a queue wake.

*Fifos.* `ReadersInv` ties queues to readers as above, and `GoneWasKilled` says whose requests
are stale: who is gone had been killed. `OpenFirst` makes names unique: the scan stops at the first place that is
free, so open fifos have to come first (until one is closed before others: `holed`). For
`ByteQueues`, `Ring` relates the two indices and the count, and who waits wants
bytes. A write serves readers in a loop: the remaining count after i of them is a
recursive function whose existence is proved once (`CountsExist`, by a least
counterexample); the cuts of the abstract `Flow` are the fill minus that count, and
`Pieces` says that what each reader got lies between two cuts, wherever the buffer wraps. That the
bytes in the buffer are the source's from its first on, in both copies of a write that wraps, is part of the same step.

*Keyboard.* `KeysHeld`: the buffer holds, from `ret_index` on, the keys not yet read;
`TakesSome` says that a `get_char` at its decrement has read a positive count.

*Pages.* `OneUse` alone is not inductive, since a page's use is spread over lists, queues and two
stacks: `Consistent` (a process has all its pages and what is none has nothing; the list is part
of what was reserved) relates them, `StacksHaveOneUser` and `NoRepetition` say that no stack has a page
twice or one that is used. `NothingMissing` with `AllListed` adds that no page is left out.
Each step moves few pages, and lemmas (`Stays`, `Moved`, `Lost`) say that this keeps the rest.

*The image.* `ImageInv` follows the loops: what the packer has written is the files before the one it is at, and so much of that one
(`Packing`, with `Start(i)` where file i begins); once it `IsPacked`, the kernel's copy is whole (`Intact`) since the
loader writes only after its end; what was copied is at its place and is not overwritten (`Loading`, `Copying`),
because a binary ends before the next address (`Places`), which is also after the bss.

*Programs.* `SlotsInv`: slots and whole items add up, counting those held. `TableInv`: what a philosopher does
and what the table says of it agree (`PlacesAgree`), and while the listener waits only the last is marked
(`LastIsMarked`). `FamilyInv`: the keyboard is with a descendant of the shell as long as no parent went first
(`FamilyHolds`), and the shell stays, unmarked. `ExecInv`: nobody else has the page of a caller that is there (`PagesApart`,
`CallerIsThere`), and what was asked is in it (`AskedIsThere`).
`SwitchInv`: a stack has the frame of the call that its process is in, and above it the frame
of the stub through which it lost the processor. `Mirrors`, closed under concatenation, says
that a stub restores first what it saved last; the first frame of a new process is one of them.
`FloatsInv`: no stub touches the SSE registers, so they hold what the last process that used them left.

*The shell.* `ShellInv` says of each moment what is typed, what is still in the buffer and what was taken
out of it: the line is the characters that have come and those to come (`LineComes`), and what is kept of
the former (`IsKept`) has their words as its pieces, with an empty piece more after a space, no space
first and no two together. `KeepsOn` is a character more, in each of its cases. At the end of the line the
space goes (`WithoutTheLast`), and `ShellRuns` follows the shell: `FirstWord` and `LastWord`
say what the pieces before and behind the first space are, and when the last is the mark alone.
The loops of `build_arguments` (`Strings`) and of the reference `Words` are recursive functions over places of the line, which
exist by `Iterated`; a fact about them goes from place to place by `StepByStep`, a least counterexample
again. Characters stay opaque but for `CharactersDiffer`. Nothing is assumed of the constants.

`ClockInv`: the clock is at some hour, minute and second, what was read follows from them, from the offset
at that read and from the time since, and the carries (`Ticks`) are the only places where it falls behind; that what is shown is then late by
nothing, a minute or an hour is arithmetic of two-digit numbers (`Digits`). `PsInv`, `IpcsInv`: who stayed
is shown or still to be asked for. `CopiesAll`, by a least counterexample, says that the kernel's loop copies
all that is in use, and for `ps` that needs its limit, `n_processes`, to count the table. `SysInv`: the descriptor is the
key plus three; the rest follows call by call.

`EchoInv`: the characters that the line shows lie before the cursor, the last first; a scroll keeps distances
from the cursor (`SettledMoves`), and `mixed` excuses only a line that has begun. `CleanInv`: while the
screen is cleared, some f rows at its end have the new background, and of the n ends of line written all but f
have moved the cursor a row down. After 2 * HEIGHT of them f is HEIGHT at least, so that every row is clean,
wherever the cursor was and whatever is written in between.

Lemmas `...Keep`/`...Keeps` are one per action or group of actions; effect lemmas say what shared helpers change.

### Only model-checked

* Liveness (`DispatchEnds`, `ReadyRuns`, `WaiterIsServed`, `SignalsReachEveryone`, `KeysEndARead`,
  `MarkedLeavesUnsurprised`, `NobodyIsLeftWaiting`): fairness and `ENABLED` are out of this prover's reach.
* What numbers and texts are to each other (`NumbersAreWhatTheySay`): quotients and powers of
  any size, through folds over digits.
* The six violations, each a counterexample.

## 5. Plan

Done: all modules above, with three abstract specifications and the proofs of section 4.

Out of reach, and left to TLC: the liveness properties and the digits of numbers.

## 6. Not modelled

* Third-party and data: the boot loader (Pure64), the disk formatter (BMFS), the font tables
  (`font.c`, `font.h`: more than a quarter of the lines).
* Output only: the pixels of a character, the early console, fractals, the drawing of the
  philosophers, messages and help, the programs `test` and `test2`.
* Sequential and without state: strings, character classes, mathematics, random numbers;
  `intLinkedlistADT.c`, which nothing uses.
* Of the processes: names, and the contents of pages and stacks beyond the frames of
  `ContextSwitch`. What a wake-up through a dangling pointer does to a page that is
  no control block any more is therefore left out.
* What goes wrong and no property catches, each disclosed where it is excepted: two programs that
  compute with floats spoil each other's numbers (two `fractals`; the SSE registers are in `ContextSwitch`);
  arguments beyond the table; mutexes and fifos closed in use; a mutex handed over after the page of a
  killed waiter was taken again. Why each is excepted is noted under `hazards` in `PROJECT.json`.
* Readings of the clock that are more than a minute apart.
* Of the hardware: the interrupt controller, the registers of the keyboard's own controller (the
  code leaves its byte unread when the buffer is full), the resolution of the screen.
