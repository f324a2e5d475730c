# A TLA+ development of the NachOS kernel (CS333 project)

The repository is NachOS 4.0, a teaching operating system that runs user programs on a
simulated MIPS machine, extended with system calls for files, sockets, processes and
named semaphores. The kernel is under `src/NachOS-4.0/code/`; paths below are relative
to that directory unless they begin with `src/`. This directory holds TLA+ models of its
parts, the TLC runs that check them and TLAPS proofs of the main results for every size
of the system. The kernel is modelled as it is built, with
`-DFILESYS_STUB -DRDATA -DSIM_FIX`; the one module about code that is compiled out says so.

## Inventory

| Component | State | Operations | What is hard |
|---|---|---|---|
| Threads, scheduler (`threads/thread.cc`, `scheduler.cc`, `switch.S`) | current thread, status of each thread, ready list, the finished thread still to be deleted, saved registers and stacks | Fork, Yield, Sleep, Finish, Begin, Run, CheckToBeDestroyed, SWITCH, StackAllocate | time slices at every tick; idling inside Sleep; deleting a thread from another thread's stack |
| Semaphores (`threads/synch.cc`) | value, queue of sleeping threads | P, V (V also from interrupt handlers) | a unit can be taken by a third thread before the woken one runs |
| Locks, conditions, SynchList (`threads/synch.cc`, `synchlist.cc`) | lock semaphore and holder, queue of per-waiter semaphores, the list | Acquire, Release, Wait, Signal, Append, RemoveFront, Apply | the lock is released before the waiter sleeps; the waiter deletes its semaphore |
| Interrupts, timer (`machine/interrupt.cc`, `timer.cc`, `threads/alarm.cc`) | interrupt level, pending interrupts sorted by time, yieldOnReturn | SetLevel, OneTick, Idle, Schedule, CheckIfDue | handlers run in the middle of a thread; idling advances the clock |
| Processes (`threads/ptable.cc`, `pcb.cc`, handlers in `userprog/exception.cc`) | pid bitmap, PCBs with three semaphores, a counter, an exit code | Exec, ExecV, Join, Exit, Halt, RunProcess | parent, children and grandparent meet on shared semaphores; exit waits for join; load failures |
| Named semaphores (`threads/stable.cc`, `sem.cc`) | ten slots of name and semaphore | CreateSemaphore, Wait, Signal | a name looked up before sleeping; duplicate names |
| File table, sockets (`filesys/filesys.h`, `openfile.h`, handlers in `exception.cc`) | twenty slots of file or socket | Create, Open, Close, Read, Write, Seek, Remove, socket calls | slots that leak or dangle; failed opens |
| Memory (`userprog/addrspace.cc`, `machine/translate.cc`) | frame bitmap, page tables, page table register, saved user registers | Load, Execute, Translate, SaveState, RestoreState, destructor | frames run out in the middle of Load; the space of a finished thread is deleted by the next one |
| Object file converter (`src/NachOS-4.0/coff2noff/`) | the NOFF header and file being built | one step per section | what it writes is what Load has to understand |
| Console, disk (`userprog/synchconsole.cc`, `filesys/synchdisk.cc`, `machine/console.cc`, `disk.cc`) | lock, semaphore, busy flag, buffer, head and track buffer | GetChar, PutChar, ReadSector, WriteSector, CallBack | requests against completion interrupts; latency arithmetic |
| Network, post office (`network/post.cc`, `machine/network.cc`) | mailboxes, one-packet buffers, the postal worker | Send, Receive, PostalDelivery, polling | packets lost, machines stopped and restarted |
| Disk file system (`filesys/filesys.cc`, `directory.cc`, `filehdr.cc`, `openfile.cc`) | free map, directory, headers | Create, Open, Remove, ReadAt, WriteAt | several sector writes per operation, crashes between them |
| Library (`lib/`) | linked cells, buckets, counts; host files and sockets | lists, sorted lists, hash tables, bitmaps | pointers and counts kept in several places |
| MIPS simulator (`machine/mipssim.cc`) and `test/start.S` | registers, delayed load, memory | one instruction, interrupt, trap | delayed loads, unaligned accesses, overflow |
| User programs and servers (`test/`, `src/sockets/`) | buffers, tables of clients | connect, send, receive, select | partial reads, resets, full tables |
| Start-up, statistics, debugger | flags and counters | | nothing that meets other state |

Components interact in three ways: kernel code calls P and V of semaphores that other
threads or interrupt handlers use; the dispatcher moves the CPU, and with it the machine's
registers and page table, between threads at every tick; system calls enter the kernel
from user programs at any time.

## Modules

**AbstractSemaphore** says what a semaphore promises: a counter, and the set of threads
inside `P()`. The higher modules take their P and V steps from it.

**Synch** is the kernel's core: threads, the dispatcher, semaphores and the interrupt
level on one CPU. `SetLevel(IntOn)` calls `OneTick`, which runs due handlers and may
yield; kernel code is cut into actions exactly there. So everything from
`SetLevel(IntOff)` to the point where interrupts come back on is one action, and a
thread switch in the middle of `P()` (inside `Sleep`) ends one action and starts
another. `level`, `currentThread` and `status` tell the three states of the CPU apart:
`Running` (interrupts on), `Switched` (just switched to, interrupts off), `Idling` (in
the loop of `Thread::Sleep`). `Run` and `Sleep` are operators used by the actions, since
in the code they are calls inside one piece. `Interrupt` is a device completion whose
handler is `V()`; `Yield` is both the call and the time slice.

**SynchList** is `Lock`, `Condition` and `SynchList` over abstract semaphores; the `MailBox`
of the post office is a `SynchList`. An action ends at the end of each `P()` and `V()`.

**ProcessTable** is `PTable`, `PCB` and the process system calls. A process is its pid and
`pc` says where its thread is in `ExecUpdate`, `JoinUpdate` or `ExitUpdate`; `P`/`V` steps
and `Fork` end actions. User code is any sequence of system calls. A Load succeeds or
fails freely. `halted` stops everything. The branch of `PCB::Exec` for a PCB that already
has a file name cannot be taken (each PCB is new) and is left out. Join arguments are
indices of the table: the code does not check the range.

**SemaphoreTable** is `STable`, `Sem` and the named-semaphore calls. A slot is free exactly
while its name is `NoName`: the bitmap and the pointer change in one step.

**FileTable** is the array `fileSlot` of the stub file system with the handlers of the file
and socket calls. A slot is empty, the console, a file (inode, type, position), a socket, a
slot whose host open failed, one whose `OpenFile` was deleted (Exec) or one that was deleted
itself (`closeTCP`). Each handler is one action per outcome, for no handler enables
interrupts while it uses the table. `fault` stands for a null or freed pointer followed; a
call that may survive that still does what the code goes on to do (Close deletes a slot of
Exec a second time and then sets it to NULL, Remove with a file open compares names in the
buffer that Open's handler has freed), and nothing is claimed from there on. The history
`clean` says that there was no failed Open, no Exec, no socket call, and no Remove while a
file was open; `lent` and `spent` count the slots programs were given and those used up.

**Coff2noff** converts a COFF file section by section, with the error exits that delete the
output; a word of a file is the sequence of its bytes, and `WordToHost`, `SwapHeader` and the
loader's test of the magic number are about their order. **Switch** has the x86 registers, the
words of each kernel stack, and what `StackAllocate`, `SWITCH` and `ThreadRoot` do with them.
**Memory** extends both: `Fork` allocates the stack, `Run` is `Scheduler::Run` after the
switch (destroying a finished thread, restoring user registers and page table), `LoadProgram`,
`LoadTooLarge` and `LoadFails` are the outcomes of `AddrSpace::Load`, `Write` and `Trap` a
user access. Pages are the unit; a page of the COFF file keeps its number through conversion
and loading, so that it can be told where it ended up. The compiler's file is any sequence of
sections, among them read-only data longer than the code before it and uninitialised data in
several sections, which coff2noff refuses or merges.

**Devices** has the sorted list of pending interrupts, simulated time (`OneTick`, `Idle`),
the timer, the console and the disk with the arithmetic of its latency, and the
synchronous front ends. Each thread goes round `Acquire`, `Request`, `P`, `Release`; a due
interrupt is handled before anything else. Time is kept relative, so the state space is
finite without a bound.

**PostOffice** has, for each machine, the host socket, the one-packet buffer that a polling
interrupt fills, the postal worker, the mailboxes and the senders. A machine may stop at
any point and boot again; its socket then exists no more, and what is sent to it is lost.

**DiskFileSystem** is the file system without `FILESYS_STUB`, which this build leaves out.
An action writes one sector, and `Crash` may come between any two: Create writes the header
(`WriteHeader`), the sectors of the directory one after the other (`WriteTable`) and the
bitmap (`WriteMap`), Remove the bitmap and then the directory, and a write to a file is
`Write` and a `WriteAt` for each sector it touches, the first and last of which were read
before, as the code does. Which sector of the directory an entry's parts lie in is a
constant: an entry may lie across two. (Ten entries of 20 bytes are 200 bytes in sectors of
128; the seventh has its flag and sector number in the first and part of its name in the
second.) A header has room for `NumDirect` sector numbers (30 in the source). Create of a
longer file writes the others behind the header object, which may end in a fault
(`CreateOverruns`) or go on; what then reaches the disk is the part there is room for, and a
write behind it takes a sector number out of nowhere (`WriteBeyond`). The commands of
`threads/main.cc` are on top: `Copy` creates a file and fills it in requests of
`TransferSize`, `Print_` reads it back in such requests, `List` and `FileSystemPrint` show
what there is.

Three history variables say what the properties leave out, and no more. `lost` has the
entries that were hit by an accident: the kernel died while it made or removed that very
file, or an OpenFile of a file that is gone wrote to its sectors. The source says that it is
not robust against the first (`filesys/filesys.cc:38`). All other files are still claimed to
be intact, whatever the crash or the stray write was. `astray` is set when such a file is
opened or removed, which may act on any sector. `overrun` is set by the header that is too
small; it excuses a fault, and that sectors stay marked, and the content of that file only.

**StartStub** is `test/start.S` as a sequence of instructions; **Mips** executes decoded
instructions one at a time with the delayed load of `OneInstruction`, exceptions, system
calls that return a result, and interrupts between instructions. **MipsArch** is the
architecture as the manual gives it, with integers and bytes instead of masks and shifts.

**SocketService** composes the client programs with the three servers over TCP: bytes in
order, any number at a time, connections that are refused, reset or abandoned.

**List** has the operations of `List` and `SortedList` cell by cell on a heap, as operators
that give the heap and the list they leave and whether their ASSERTs hold. **Containers** puts
them to use in a list, a sorted list and the buckets of a `HashTable`, and has `Bitmap` word by
word, with the self-tests of the library; **AbstractCollection** says what they promise.

The theorems are in the modules whose names end with **Proofs**: SynchProofs,
ProcessTableProofs, PostOfficeProofs and DiskFileSystemProofs about the module of that name,
SynchListProofs about SynchList and List, MemoryProofs about Memory with Switch and Coff2noff,
SemaphoreAndDeviceProofs about SemaphoreTable and Devices, FileAndSocketProofs about FileTable
and SocketService. The modules of such a pair share no state; the definitions of Devices and
SocketService have names of their own (`DevicesInit`, `ServiceInit`, ...) so that one module
can extend both. The modules whose names begin with MC give the others their constants.

Definitions called mutants in the comments are variants of the definition they precede
with a plausible bug; no specification uses them. They show that each property can fail.

## Runs

| Run | Instance | Shows |
|---|---|---|
| synch | 3 threads, 2 semaphores (initially 0 and 1), values up to 2, 1 device request per semaphore | each runnable thread is in one place (OneHome), finished threads are deleted in time and never used again (CarcassReaped), no wake-up is lost (NoLostWakeup), semaphores refine AbstractSemaphore (ImplementsSemaphore), ready threads run (ReadyRuns), units are taken (UnitsAreTaken) |
| synchlist | 4 threads, 3 appends, 1 apply | the lock excludes (MutualExclusion), a signal reaches only semaphores that exist (WaiterAlive), no item stays while somebody wants one (NoLostSignal, ItemsAreTaken) |
| processes | 3 pids, exit codes 0 and 1 | JoinAfterExit, ReleasePerJoin, NumWaitExact, PidForever, JoinReturns, ReleaseIsTaken |
| named_semaphores | 3 processes, 2 names, 3 slots, values up to 2 | a Signal goes where the sleepers of that name are (SignalFindsSleeper) and they are served (SleepersAreServed) |
| files | 4 slots, 1 name, 3 inodes, lengths up to 2 | a null or freed pointer is followed only after a failed Open, an Exec, a socket call or a Remove with a file open (CleanNeverFaults); each slot is free, lent, or used up by one Exec or one closed socket (SlotsAccounted); one id never moves another's position (IdsIndependent) |
| memory | 3 threads, 6 frames, 6 COFF files, converted on hosts of either byte order | the bitmap is exact (MapExact), each thread runs in its own registers, stack and page table (OwnContext), sees nothing of another's memory (Isolation) and finds every section where it was linked, except what the wrong loop bound and the inverted test for uninitialised data lose, which is told exactly (SegmentsLoaded) |
| devices | 2 threads, a disk of 2 tracks with 2 sectors, inputs of 2 characters | one completion per request (OneCompletion), input in order and ended once (InputInOrder), the head has passed over the sector at completion (HeadPasses), every request ends (IoCompletes) |
| post_office | 2 machines, 2 senders on the first, 1 box, 2 packets, 2 boots | at most once and in order across restarts (InOrderOnce), the buffer never overwritten or read empty (BufferedOnce), delivery and return of Send (Delivered) |
| disk_files | 9 sectors of 2 bytes, 2 names, 1 open file, sizes 1, 3 and 5, room for 2 sectors in a header, a directory of 2 sectors whose second entry lies across both, transfers of 2 bytes, a crash between any two sector writes | every file that no accident has hit has its own, marked sectors and a header, and without accidents no sector is lost (DiskConsistent); these files keep and print what was written or copied (ContentsKept) |
| mips | words of four 3-bit bytes, 6 registers, 8 bytes of memory | every pair of instructions with interrupts between does what the manual says (ImplementsArch); a program started by `start.S` gets the result of each of seven stubs, returns and exits (StubsReturn) |
| containers | 4 cells, 5 items with 4 keys, tables of 1, 2 and 4 buckets, 5 bits in words of 3 | the classes' own SanityCheck and self-tests, no cell lost (Sound), and the promised results (ImplementsCollection) |
| sockets | an echo client with 2 sockets, a file client, 2 host clients, messages of 2 bytes, a table of 1 | a client never sees another's text (OwnReply) and every client ends (EveryClientEnds) |

Bounds. With three threads one can hold the CPU while one sleeps and one takes the unit
meant for it, which is the race P's loop is for; two semaphores let a thread move from one
queue to another. Four threads on a SynchList allow two consumers asleep, one barging in
and a producer. Three pids allow two siblings that compete for one release, and a
grandparent still inside Exec while its child is already a parent. A table of three slots
with two names lets a name occur twice or three times and lets the table fill up. Four file
slots leave two besides the console: two ids on one file, one lost and one in use, a full
table; a third inode lets a file be created while two removed ones are still open. Six
frames hold three small programs, or a small and a middle one, or the large one, so that
loads fail and frames are used again; the six COFF files have every kind of section, read-only data
longer than code, one with something behind it, a section outside the space, and two
uninitialised sections, once adjacent and once with a gap. Two threads are enough to contend for a
device and leave no thread to run while both wait, so that the idle loop is exercised; seek,
rotation and console times of one or two ticks let interrupts fall due together. Two packets
make order and overwriting visible, two boots a restart with mail on the way. Nine sectors
leave four behind the system's five: two files of one sector or one of two, with a removed
one's leftovers, and they run out. Size 5 needs three sectors, one more than a header has
room for; one open file is enough to outlive its file and write to another's sectors. Words of
twelve bits keep the four bytes, two halves and the sign of the real ones; a load, the
instruction in its delay slot and an interrupt between them need two instructions. System
call numbers must fit the six-bit immediate, so `SC_Add` is 30 there instead of 42; the rest
are the source's. Three insertions resize the hash table twice. Two bytes let TCP split a
message, two host clients overfill a table of one.

`MaxValue`, `MaxPending`, `MaxAppends`, `MaxApplies`, `MaxLen`, `MaxMail`, `MaxBoots`,
`Handles`, `Sizes`, `MaxCells`, `Fuel` and `TextFuel` cap what the code leaves unbounded;
the proofs hold for every value of the first nine. TextFuel is just enough for the longest
program with `start.S`, and StubsReturn says that no program is cut off by it.

Deadlock is checked in `synch` and `devices`, where the timer always rearms and time never
ends. The others say `CHECK_DEADLOCK FALSE`: consumers may wait for an item nobody
appends, processes may halt the machine, wait for one another or (process 0) for
themselves; a fault, a machine that is down for good and programs that have ended stop the
other models.

Fairness. In Synch: a running thread is eventually interrupted by the timer and yields,
a thread that was switched to goes on, the idle loop looks at the ready list again. In
SynchList, ProcessTable and SemaphoreTable a step a thread can take inside the kernel is
weakly fair, which Synch justifies through ReadyRuns and UnitsAreTaken: a unit that stays
available is taken by some thread inside P. No thread is promised a semaphore that others
keep taking, and user programs are not obliged to make any call. In Devices time passes
(weak fairness of `OneTick \/ Idle`), a due interrupt is handled before anything else, and
P is strongly fair only because due interrupts disable it for a moment: the thread inside it
holds the device's lock, so nobody can take its unit. In PostOffice the polling interrupt is
always pending while a machine is up, and worker, completion and Send go on by the same
argument. In SocketService the host runs its programs and `select` reports each socket that
is ready; nobody has to be killed.

## Proofs

All theorems are for any values of the constants allowed by the named assumptions: a finite
set of threads, tables, memories and bounds whose sizes are natural numbers (of a file, a
sector, a header, a track and a transfer: positive ones), object files whose numbers fit their
fields, a disk that holds the sectors of the system (two headers, the bitmap, the directory), a
directory whose entries have their names behind their flags, senders that belong to a machine, and
values like `None` that differ from what they stand against. TLC evaluates the assumptions in
every run.

*SynchProofs.* The inductive invariant is `IInv`: `TypeOK`, `OneHome`, `CpuInv` and
`NoLostWakeup`. OneHome alone is not inductive: that a thread V wakes is nowhere else needs
that a sleeper is inside P of that very semaphore and that only the current thread runs,
which is CpuInv. TypeTheorem, OneHomeTheorem and CarcassTheorem follow from the first three
parts. NoLostWakeupTheorem counts woken threads: V adds one woken thread with the one unit,
a unit leaves with a woken thread or with a running one that was never queued.
ImplementsTheorem maps each step to a step or a stutter of AbstractSemaphore, the threads
inside P being those whose `sem` is that semaphore.

*SynchListProofs.* MutualExclusionTheorem, WaiterAliveTheorem and NoLostSignalTheorem, from
the conjunction of TypeOK and those three.

The theorems about module List are about its operators: in which state of heap and list they
may be called (`WellFormed`, and what the callers guarantee: an item is put on a list once and
only what is there is taken out) and what they leave. WellFormed says that there is a sequence
of cells in use, none twice, each linked to the next, which first, last and the count fit
(`IsChain`). The iterator sees exactly this sequence (`ChainIs`, by the least place where it
would not); a cell linked in at any place, or taken out at any place, gives the sequence with
or without it (`InsertChain`, `RemoveChain`). Append, Prepend, Insert, RemoveFront and Remove
are one of the two, and each leaves a list that is WellFormed again, so the theorems hold for
any sequence of calls, from the empty list on (`EmptyListIs`). SanityTheorem says that
WellFormed implies what SanityCheck asserts, InsertTheorem and SortedTakeTheorem that a sorted
list stays sorted and equal keys keep their order, and SeparationTheorem that lists on the same
heap do not disturb each other.

*ProcessTableProofs.* `Tree` says that the pid an Exec or Join is about is a child of the
caller and has no thread before the Fork, that free pids have neither thread nor children,
and JoinAfterExit. It gives JoinAfterExitTheorem and PidForeverTheorem. On top of it the two
counts (ReleasePerJoinTheorem, NumWaitTheorem) are inductive: each action adds at most one
process to Joined, Released or the deducted children, and that process has one parent.

*SemaphoreAndDeviceProofs.* SignalFindsSleeper is not inductive: a name may be created again
while a process sleeps on the first semaphore of that name. It holds because slots are taken
from the low end and never given back, so that a later one goes behind (`Prefix`); with
TypeOK and Prefix it is inductive (SignalFindsSleeperTheorem). NamesForeverTheorem is the
action property behind it.

For the devices the invariant `DevicesInv` follows one request: a thread that holds the front
end's lock is before its request (the device idle, the semaphore 0), or waits while there is
one interrupt of the device in the list or one unit in the semaphore (`OneRequest`), and one
read interrupt or unit stands for one character that nobody has collected (`OneReader`).
The interrupts of a kind are counted in the list by their places, and removing the one that is
due takes one away. OneCompletionTheorem, InputInOrderTheorem and DevicesTypeCorrect follow.
HeadPassesTheorem is about remainders: `ModuloDiff`, the turn of the disk during the seek and
the ticks that pass leave the time at which the request is due in the same place of the turn.

*FileAndSocketProofs.* TypeOK and CleanNeverFaults are inductive together (FilesTypeTheorem,
CleanTheorem). IndependentTheorem follows from one fact about all calls: a step changes at most
one slot, and that slot was empty or the one the call was about. AccountTheorem counts: when
one slot changes, the number of slots of some kinds changes with that slot alone
(`OneChanges`), so each call has to say of one slot what it was, what it is and whom it is
booked to.

OwnReply says nothing about the bytes on their way and is not inductive. `ServiceInv` adds
that each connection is in step: before its client has written nothing is on its way, and
while the client waits, what came back is a beginning of the client's own message in capitals
and what the server has not read begins where that ends; the buffer the servers share is
written up to the length that was read before it is used (ServiceTypeCorrect, OwnReplyTheorem).

*MemoryProofs.* MapExact needs that no frame is in two page tables: otherwise the destructor
of one space frees a frame of another. That (`Mapped`, NoSharingTheorem) is inductive with
`Running`, which says that only a thread that can run is on the CPU and that one without an
address space has no pages. IsolationTheorem needs in addition that the machine has the page
table of the thread that writes, which is `UserContext`, and OwnContextTheorem what lies on
the kernel stack of a thread that is new, running or switched out, word by word
(`KernelContext`): SWITCH restores what the last SWITCH of that thread saved, or what
StackAllocate prepared.

SegmentsLoadedTheorem goes from the compiler's file to the memory. Every conversion of a word
is undone by the next one (`WordsKept`), and the magic number, which is not its own mirror
image, tells Load when to swap, so that Load has the header coff2noff set up whatever the byte
order of either host (`HeaderKept`). The loop over the sections is a recursive function: that
it has a value and what that value is are shown by taking the least place where it would fail.
Its invariant says that the contents copied so far end where the next section is linked, so
that the place of a section in the file is its address (`CopyDone`, `CopiedDone`), and what has
become of the uninitialised data, of which a second section is refused when it is adjacent and
added when it is not (`BssDone`). Then all loops of Load that reach a page put the same page
there (`SectionImage`), also the one over the read-only data when it reads on behind its
section; the pages it does not reach are zero, because Load clears the frames first. What Load
left stays because nothing but the program writes its frames (`LoadedImage`, with IInv).

*PostOfficeProofs.* BufferedOnceTheorem: a packet is in the one-packet buffer exactly while
one wake-up for it is on its way to the postal worker. InOrderOnceTheorem follows a packet
from the host's socket to the buffer, the worker, the box and the reader. The invariant
`Places` says that each of these has older packets of a sender than the ones before it and
keeps its own in order; a move is an element leaving one place for the next, a loss only
takes away, and a boot empties all places of a machine but not the record of what a sender
has sent.

*DiskFileSystemProofs.* The invariant `IInv` has three parts besides the types. `Progress` holds
whatever has happened to the disk before: it says how far the operation in memory has got, which
sectors of its directory are written, and that a write is within its file (`TouchedInFile`, from
the arithmetic of `divRoundUp`). `Good` holds until `astray`: at each step of an operation the
entries that are in use, not lost and not being made or removed (`SoundNow`) have their files to
themselves, marked and with a header on disk (`Agree`), without accidents nothing else is marked
(`Exact`), what a Create in memory will write was free, and an OpenFile of one of these files has
the header that is on disk (`Opened`), so that a write through it stays in the file's own
sectors. WriteTable is the step that needs Progress: after part of the directory is written the
entry on disk is neither the old nor the new one, but the other entries are as before. A write
through an OpenFile whose file is gone takes from SoundNow the entries whose sectors it hits, and
their OpenFiles with them. DiskTypeTheorem and DiskConsistentTheorem follow; the latter includes
that the kernel never meets a header that is none or a sector that "ought to be marked" unless
a lost file was used or a header overrun.

ContentsKeptTheorem adds `KInv`: at every step, also between two sectors of a write, each file of
SoundNow that fits its header holds byte by byte (`Content`) what the history says was written to
it (`Kept`), and without accidents the history has no other file (`Listed`). The center is
`WroteByte`: the buffer of whole sectors that WriteAt builds around the bytes, written to one
sector, changes exactly the bytes of the request in that sector, at any offset and length. That
reading in requests of TransferSize, or sector by sector, puts the same bytes together
(`PrintIs`, `HeaderPrintIs`) is shown for the recursive functions as above. The claim is for
every size, but only for files with at most NumDirect sectors.

Only model-checked: liveness (ReadyRuns, UnitsAreTaken, ItemsAreTaken, JoinReturns,
ReleaseIsTaken, SleepersAreServed, IoCompletes, Delivered, EveryClientEnds), which is outside
the prover's reach, and the properties of the two modules that use Bitwise, which the prover
cannot take: StubsReturn and ImplementsArch of Mips, Sound and ImplementsCollection of
Containers. The lists of Containers are covered by the theorems about List; its bitmap, hash
table and self-tests are not. Every other property of the runs is a theorem.

## Where the code and its documentation differ

Each of these is in the models as the code has it; the properties are stated so that they
say what does hold.

* `PTable::JoinUpdate` returns 0; `userprog/syscall.h:100` promises the exit status.
* A child whose program cannot be loaded finishes without `ExitUpdate`, so Join on it never
  returns (`threads/pcb.cc:80`); JoinReturns is about children that were loaded.
* `PTable::JoinUpdate` indexes `pcb[]` with the caller's argument unchecked, and process 0
  may join itself.
* `STable::Create` does not look at the name, against `threads/stable.h:20`.
* `Semaphore::P` blocks at zero only: one created with a negative value never blocks.
* `closeTCP` compares the slot with NULL where it should clear it (`filesys/filesys.h:212`;
  `src/NachOS-4.0/Report.md:73` says the socket is closed and its slot set to NULL). The slot is
  used up, as is one per Exec (`userprog/exception.cc:649`): `spent` in SlotsAccounted. A Close
  of such a slot deletes it a second time before it sets it to NULL (`exception.cc:242`).
* A failed Open keeps a slot without a file, and Remove follows the missing pointer of such a
  slot, of a socket or of one used up by Exec (`exception.cc:465`): CleanNeverFaults.
* `Report.md:26` says Remove refuses a file that is open. The name it compares with is the
  buffer that OpenFile keeps a pointer to (`filesys/filesys.h:147`) and that the handler of
  Open frees (`exception.cc:214`): the comparison reads freed memory and may come out either
  way. CleanNeverFaults is therefore about programs that remove nothing while a file is open.
* The loop over the read-only segment runs to its address, not its size
  (`userprog/addrspace.cc:207`; the comment at line 166 says the segments are copied into
  memory). Of a segment longer than its address the rest stays zero; of a shorter one what is
  read too much is what follows in the file, and belongs there. SegmentsLoaded says both.
* `coff2noff.c:272` refuses a second uninitialised section that is adjacent to the first and
  merges one that is not, against the comment at line 268. The sizes are added up without the
  gap, so that the end of the merged data may be the stack or outside the space: the second
  exception of SegmentsLoaded.
* The console takes the byte 255 for the end of its input (`machine/console.cc`).
* Mail for a mailbox number that does not exist stops the receiving machine in an ASSERT
  (`network/post.cc:210`).
* `FileHeader::Allocate` does not compare with `NumDirect` (`filesys/filehdr.cc:51`), although
  `filesys.cc:35` says that files cannot be bigger than about 3KB: a longer file overruns the
  header in memory, is cut to NumDirect sectors on disk, and is read and written at sectors that
  are not its own. DiskConsistent and ContentsKept say what survives.
* Create and Remove leave a window in which the directory names a file whose sectors the
  bitmap has free, or the bitmap has sectors of no file; an OpenFile outlives its file and may
  overwrite another's (`filesys.cc:205` and 304, `openfile.cc:163`): `lost`.
* SRL and SRLV shift an `int`, so the sign is shifted in (`machine/mipssim.cc:522`):
  ImplementsArch is for logical shifts of words that are not negative. The least word divided
  by -1 kills the simulator.
* The comment in `threads/switch.S` says eax holds the start-up function of a new thread; the
  code has it in ecx.
* `test/server.c` never clears its buffer, so one client may get the rest of another's text;
  OwnReply is about the other two servers. `test/server3.c` exits when a read fails, and
  accepts connections it has no place for and never answers them.
* The clients' ports are not in network byte order, so the user programs reach
  `src/sockets/server.c` and not the servers of `test/`.
* `handle_SC_ExecV` lacks a semicolon as committed (`exception.cc:667`), and is modelled as if
  it had it.

## Plan

Done: all components of the inventory except the last, and proofs of every safety property
outside Mips and Containers. Left:

1. The hash table of Containers on top of the theorems about List; ReHash is a fold over all
   items, so that its invariant needs an induction over that fold.
2. Composition of ProcessTable with Memory, so that a failed load and a child nobody joins
   are seen to keep their frames.

## Not modelled

* The debugger, debugging output, statistics, start-up and the command line, except the
  commands on files: what start-up leaves behind is the Init of the modules.
* User programs other than the socket clients and `start.S`: each kernel module allows any
  sequence of system calls, which includes theirs.
* `AddrSpace::Translate` and `Condition::Broadcast`, which nothing calls; the conversion to
  flat files in `coff2noff`; the parts of `switch.S` for machines other than the x86.
* Returns that cannot be taken: `handle_SC_Exec` leaves the program counter where it is when
  `User2System` gives no buffer (`userprog/exception.cc:639`), but it always gives one.
* The host: files are inodes with a length, sockets carry packets or bytes, and a host
  call that the code does not check for blocking (`sendto`) does not block.
* The vendored compiler and BFD headers under `src/usr/local/`, which hold no code of this
  system.
