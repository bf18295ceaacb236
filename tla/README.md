# A verification project for the 0x3c0 microkernel

TLA+ models of the kernel's concurrent and stateful parts, the TLC
configurations that check them on small instances, and theorems about them
that TLAPS proves for every value of their constants.  Every definition is
translated from the C++ and C source; `PROJECT.json` names for each one the
lines it stands for.

## 1. The system

0x3c0 is a 32-bit x86 microkernel.  `Source/Boot/Boot.cpp` sets up memory, the
interrupt table and the drivers, loads every GRUB module as a process, and
yields; from then on the kernel runs only inside system calls (`int 0x30`),
interrupts and exceptions.  Programs are meant to talk to each other with
messages, and to a file server (the VFS process) through a C library.

At this commit the kernel is in the middle of a port to 64 bits: `Main` stops
at a `cli; hlt` behind a debugger breakpoint (`Boot.cpp:22-23`) and the call that
runs the installed interrupt handlers is commented out
(`Interrupts.cpp:14-16`).  The models describe the kernel past these two
stops: `Main` runs to its end and an interrupt runs the handlers installed for
it.

### Components

| component | state it keeps | operations | interacts with |
|---|---|---|---|
| `LinkedList<T>` | First, Last, count, the nodes' Next/Previous | Add, Find, Remove, GetCount | process lists, thread lists, driver lists |
| `Scheduler` (one per processor) | processes, sleepingProcesses, totalPriority, currentProcess, currentThread, timer | Yield, YieldTo, AddProcess, RemoveProcess, Sleep, Wake, SetTimer, GetAllProcesses | called by system calls, the timer, `Main`; saves and loads `StackStates` |
| `Process`, `Thread` | threads, current thread, state, priority, onReceipt, security; parent, sleeping, saved registers | Start, SendMessage, sendStatusChangeMessage, Sleep, Wake | scheduler, address spaces, heap |
| Native system calls | the array of calls | 19 calls: threads, processes, messages, pages, drivers, privileges; their dispatch and result | everything here |
| `Mutex`, `Semaphore` | one word | Lock, Unlock, atomic operators | the scheduler's two list locks |
| `Physical::PageAllocator` | bitmap, frameCount, dmaZoneEnd | CompleteInitialisation, AllocatePage, FreePage | paging, heap, boot |
| `Heap` (liballoc) | majors, minors, heapStart, heapEnd | Allocate, Free, Reallocate, alignment | every `new`; paging and the frames |
| `Virtual` (paging) | page directories and tables, `current`, cr3 | Initialise, MapMemory, EraseMapping, RetrieveMapping, SwitchPageDirectory, ClonePageDirectory, CopyToAddressSpace | processes, heap, scheduler |
| interrupt table, `DriverManager` | a list of sinks for each of 48 vectors; drivers, the VFS driver | Install, AddInterrupt, InvokeInterruptChain; InstallDriver, GetVFS, receive | system calls, scheduler, processes |
| C library | handles with pending operations, pool of message thread ids, handlers per process, timers, waits | requests to the VFS and their answers | SendMessage, SleepThread, WakeThread |
| ELF loader | none | Start: address space, sections, first thread | boot, CreateProcess |
| descriptor tables, assembly stubs, POSIX fork, utilities | | | boot |

### What is hard about it

- *Interleaving of processors* in a lock that is built from plain reads and
  writes (`Mutex.cpp:57-69`).
- *Long sequences of legal system calls*: each call is atomic (interrupts are
  off from the entry stub to IRET), but the scheduler's state is spread over two
  process lists, a thread list per process, two "current" pointers and a sum
  kept by hand, and `LinkedList` has its own idea of what removal means.  Almost
  every call touches several of these.
- *Stale state*: `RemoveProcess` changes the current thread before its caller
  yields; `KillProcess` yields after it has freed its own process; a list's
  `Last` may be a node that has been cut off.
- *Bit arithmetic at a boundary*: 32-bit shifts used as masks of 64-bit words.
- *Three notions of "the address space in use"*: cr3, `Virtual::current` and the
  directory of `currentProcess`.  A switch of threads sets the first, the heap
  goes by the second, the system calls by the third, and `RemoveProcess` changes
  the third alone.  A timer's message is allocated between the change of the first
  and that of the second.
- *Pages taken back too early or too late*: page tables are linked from several
  directories, copied once, freed when empty, and made from frames that are not
  cleared; temporary windows have to be closed on every path.
- *Handlers that change the frame they share*: a vector has several sinks, all with
  the same registers, and any of them may switch threads; the system call handler
  tells by RIP whether the frame is still its caller's.
- *What a program may ask of the kernel's own address space*:
  `PerformPageManagement` takes any page that is not mapped, since its bound tests
  another register.

What makes each part correct: a lock that is not stranded and excludes; lists
that never hold a process twice; a current process that may run and a current
thread that belongs to it; a priority sum that matches the list it describes;
frames that are handed out once and accounted for; for the heap, live blocks
that do not overlap; directories that agree on the kernel and share nothing else,
with no page of a process lost; for each vector its sinks in order; a result that reaches its
caller and nobody else.  The hazards are listed line by line in `PROJECT.json`.

## 2. Modules

| module | models | role |
|---|---|---|
| `LinkedList` | `Include/LinkedList.h` | operators on a list value; no behaviour of its own |
| `Mutex` | `Source/IPC/Mutex.cpp` | several processors in Lock and Unlock |
| `PhysicalAllocator` | `Source/MemoryAllocation/PhysicalAllocator.cpp` | the frame bitmap |
| `AbstractHeap` | | what a heap promises its callers, as a set of blocks |
| `Heap` | `Source/MemoryAllocation/AllocateMemory.cpp` | majors and minors of liballoc; implements `AbstractHeap` |
| `Scheduler` | `Scheduler.cpp`, the scheduling part of `Process.cpp`, `Thread.cpp`, `Native.cpp`, `DriverStructures.cpp`, `Boot.cpp` | one processor and every call that changes what it schedules |
| `AddressSpaces` | `Paging.cpp`, and what boot, ELF loader, heaps, processes, messages and switches do to directories | memory word by word, and every call that maps or unmaps |
| `Dispatch` | `Interrupts.cpp`, `DriverStructures.cpp`, the dispatcher and the calls of `Native.cpp` that schedule and map nothing | sinks, drivers, privileges, results |
| `MCMutex`, `MCScheduler`, `MCAddressSpaces`, `MCDispatch` | | values of constants and symmetry for TLC |
| `LinkedList_proofs`, `Mutex_proofs`, `PhysicalAllocator_proofs`, `Heap_proofs`, `Scheduler_proofs`, `AddressSpaces_proofs`, `Dispatch_proofs` | | lemmas and theorems |
| `Induction` | | least indices, induction, and functions defined by recursion, for the proofs |

`Scheduler` and `Dispatch` EXTEND `LinkedList`; their lists of processes, threads,
sinks and drivers are `LinkedList` values with the class's real Add and Remove.
The components meet in the kernel's calls, each of which touches the state of
several.  A call is therefore in several modules, in each with what it does to
that module's state, and the rest as a choice or as an assumption:

| module | leaves open | assumes |
|---|---|---|
| `AddressSpaces` | which process Yield draws and which one `RemoveProcess` finds first; when a heap grows; which majors of the kernel heap a delete empties (any range of pages) | that `AllocatePage` gives a frame that is free |
| `Dispatch` | which thread Yield draws, if any; which one `RemoveProcess` makes the current one; whether the calls that schedule or map succeed | that the owner of the current thread is the current process (`CurrentThreadOwned`) |
| `Scheduler` | what happens to memory | that its objects stay what they were |
| `Heap` | what else maps pages | that the frames it gets are free |

So the modules do depend on each other, and the findings in one limit what another
says:

- `frames_twice` refutes what `AddressSpaces` and `Heap` assume.  As built the mark
  of no frame above 31 is seen, `Unmarked` is all of `Frame`, and the second
  allocation of a run already gives out a frame in use: there `AddressSpaces` is
  `lost` and its properties say nothing.  Its runs and theorems are about the rest of the
  code: with the allocator's marks repaired (`Unmarked` = {}) this never ends them, and
  for any other value they hold until `AllocatePage` first hands out a frame in use.
- `heap_unmaps` is in `AddressSpaces` too: `FreeMajor` walks the pages `liballoc_free`
  walks, so that pages of live majors of the kernel heap are lost.  `PagesKept` and
  `ProcessHeapsMapped` leave the kernel heap's region out for that reason; when a table
  goes as well the memory is `split`, see below.
- `scheduler_saves` is in `Dispatch` too: `RemovingCall` saves the frame as the
  state of the thread `RemoveProcess` has made current.  `PortAccessKept` and
  `OtherFramesKept` name that call as the exception it is.

### LinkedList

A list is the sequence of values reachable from First, the field `count` and the
value of the node `Last` points to.  This keeps what the class does wrong, since
all of its users depend on it: Find answers 0 both for the first node and for an
absent value (line 66-71), so Remove of an absent value removes the first node;
removing a node that is not the first leaves `count` alone (112-119); Last is
never moved back, so that Add after the removal of the tail links the new
node behind one that is no longer reachable; removing the tail stores through a
null pointer (116).

### Mutex

One action per access to the word: `Test` is the read in `if`, `Spin` one turn of
the `while`, `Take` the write in `else`, `Unlock` the write of 1.

### PhysicalAllocator

`bitmap` is a function from words to sets of bit positions.  `Mask(n)` is what
`1 << n` yields on this processor: the shift of an `int` uses n mod 32 and the
result is sign-extended to the 64 bits of a word, so that `1 << 31` covers half a
word.  In the C++ standard a shift by 32 or more is undefined; the compiled code
shifts by n mod 32.  `setBit` finds its word with bit / 32, `testBit` and
`clearBit` with bit / 64.  `HalfWord` stands for 32.  A mark for a word behind the
end of the bitmap is written to memory that no read of the bitmap sees.
`holders` is what the callers know: how often a frame was handed out and not yet
given back.  `FreePage` is called with such frames, and with 0: the answer of
`RetrieveMapping` for a page that is not mapped, which `liballoc_free` and `~Heap`
pass on.  Two details are abstracted: `firstFreeBit` skips a word equal to
0xFFFFFFFF, all of whose frames test as taken anyway; and the address of the
bitmap, whose assignment is commented out (line 117).

### Heap

`heap` is one record: the majors and the minors by their addresses, `l_bestBet`,
`heapEnd`, `l_inuse`, the mapped pages and a mode.  The lists that the code keeps
are in the order of addresses (a major is added at the end of the heap, a minor
between its neighbours), so `Next` and `Previous` are left out, and "the rest of
the list" is "the larger addresses".

| model | code |
|---|---|
| `Allocate` / `Allocated` | `Allocate`: the search from the best bet or the first major, CASE 1 to 5, the update of the best bet, the new major |
| `Gap`, `Gaps` | CASE 2, 3 and 4: room at the start of a major or behind a minor |
| `Granted`, `Extended` | `liballoc_alloc`, which may run out of frames at any page and keeps those it has mapped |
| `Free` / `Freed` | `Free`: usage, unlinking, best bet, and `liballoc_free` with the loop it really has |
| `Shrink`, `Move` | the two outcomes of `Reallocate`; `Move` is Allocate, copy, Free, in this order |
| `Fault` | a call that touches a page that is not mapped |
| `Destroy` | `~Heap` |

What is abstracted: calls come with live blocks (a wrong magic number is reported
and changes no list); request sizes are below the wrap of 32 bits; switching page
directories and the page tables that `MapMemory` and `EraseMapping` make and free
(both are in `AddressSpaces`); the TLB; statistics other than `l_inuse`; `CleanAllocate`, which has no caller.
A fault ends the run of the model (mode `faulted`) in the state before the call;
nothing is claimed of what such a call had written.  Copying to the null pointer
after a failed reallocation counts as a fault.  Blocks are told apart by where they
start, so that the refinement mapping is the set of `[start, size]` of the minors.

### Scheduler

`sched` is the Scheduler object, `currentThread` of each process (`cursor`) and
the saved registers (`state`, `cpu`).  It is one record because the methods call
each other: `YieldTo`, `Yield`, `AddProcess`, `RemoveProcess`, `SleepProcess`,
`Wake` map a record to the next one, and a handler composes them in the order
of its calls.

| model | code |
|---|---|
| `Init`, `BootYield` | `Main` loads the boot modules and calls `Yield(0)` |
| `YieldCall`, `CreateThread`, `KillCurrentThread` / `KillOtherThread` / `UseMissingThread`, `CreateProcess`, `KillProcess`, `SendMessage`, `InstallTimer`, `SetReceiptMethod`, `SleepThread`, `WakeThread` | the functions of `Native.cpp` that schedule |
| `TimerInterrupt` | `DriverInterruptSource::receive` of the scheduler's timer: a yield |
| `StartThread` | the constructor of Thread and `Thread::Start` |
| `Drawable`, `MayDrawNobody` | the random draw of `Yield` and its running sum: any process whose share is not empty may be drawn; a draw beyond the sum selects nobody |
| `FirstAwake` | the loop of `YieldTo` over sleeping threads, which does not wrap around |
| `mode` | `halted` is the `cli; hlt` of `YieldTo`; `wild` means the kernel has followed a null or freed pointer, after which nothing is claimed |

The value of a thread's saved registers is the thread whose execution they are:
`state[t] = t` is the correct value.

Choices that follow the code as built:

- Only boot modules and `CreateProcess` make processes, with priority
  `DefaultProcessPriority` = 1 and parent 0; nothing sets `ProcessState::IOBound`.
  `Priority` and `IOBound` are constants so that the theorems cover other values.
- `isAddressValid(eax, true)` refuses an address that ring 3 may not read.
  Threads and processes live in the kernel heap, so `WakeThread`, `KillThread` of
  another thread and `SendMessage` by system call are refused as built
  (`KernelHeapUserAccessible = FALSE`).  `KillProcess` passes `false` and works.
- A refused call (invalid address, missing privilege) changes nothing and is
  no step.  Boot modules are taken to be valid ELF files.
- `NullPageMapped` says whether a program has mapped page 0, in which case the
  store through null in `LinkedList::Remove` lands there and the kernel goes on;
  every other dereference of null leads to `wild`.
- `KillProcess` deletes the threads of its process, and `~Thread` gives their
  stacks, blocks of the process's heap, to the kernel heap, whose directory does
  not map them: that call leads to `wild`.  Only a process that has lost all its
  threads before is deleted.
- `CreateProcess` passes 0 as the address of the arguments, and `Thread::Start`
  reads there: without page 0 it leads to `wild`.
- A timer interrupt is a yield and nothing more: `InstallDriver` makes the driver's
  block with `CanReceiveIRQ` clear, and only `KillThread` sets it, for a process
  `BecomeDriver` was told of; nothing calls that.
- `YieldTo` neither saves R8 to R15 nor SS; registers are one value here.
- `sendStatusChangeMessage` has no receiver because every parent is 0.

### AddressSpaces

An address is a page; its directory index is `page \div Entries`, its table index
`page % Entries`.  Memory (`vm.mem`) is a function from frames to their words, and a
directory or a table is a frame like any other: its words are frames, `NotPresent`
or `Junk`, whatever a program's data happens to be.  So a directory that is made
from a frame which held something else has junk where the code does not write, and
a frame that is freed while it is linked shows up as linked.

| model | code |
|---|---|
| `MapMemory`, `EraseMapping`, `RetrieveMapping`, `Switch`, `ClonePageDirectory`, `CopyToAddressSpace`, `Initialise` | the methods of `Virtual` |
| `Grow`, `Allocate`, `DestroyHeap` | `liballoc_alloc` and the switches around it; `~Heap` |
| `StartThread`, `NewProcess`, `SendMessage` | `Thread::Start`, the constructor of Process, `Process::SendMessage` |
| `SetUp`, `LoadModule` | `Main`: the kernel heap, `SetupStack`, one turn of the loop over the modules with `ELFLoader::Start` |
| `KernelDelete`, `KernelDeletes`, `FreeMajor`, `Enter`, `Leave` | `operator delete`, `Heap::Free` and its switches, `liballoc_free` |
| `Yield`, `EndLastThread`, `SleepProcess`, `WakeProcess` | what `YieldTo`, `RemoveProcess`, `Sleep` and `Wake` do to cr3, to `currentProcess` and, with the status change message, to the kernel heap |
| `Interrupt`, `InterruptMessage` | `DriverInterruptSource::receive`: the message made and deleted around the yield, and sent when the driver can receive it |
| `CreateThread`, `CreateProcess`, `SendMessageCall`, `KillProcess`, `PerformPageManagement`, `RequestIdentityMapping` | the functions of `Native.cpp` |
| mode `split` | `EraseMapping` has freed a table all directories share |
| mode `lost` | the code touched a page that is not mapped, got no frame or one in use, made a table or directory of a frame that is not clear, or gave a program a page table to fill; nothing is claimed afterwards |

The two modes end a run: the state in which they begin is checked, what would follow
is not followed.  After a frame has two uses every write may change a table, and what is
left of the kernel does is not worth a claim.

Choices:

- The recursive entry of each directory is left out: the code reaches the tables of
  the directory in cr3 through it, and so do `TableOf` and `SetEntry`.  Read, write and user
  bits are not modelled; `KernelHeapUserAccessible` stands for the user bit of the
  one region where it decides something.
- Memory is taken to be clear before boot, but for the image and frame 0.
- `LayoutAssumption` is the order of the regions in `MemoryMap.h` and of the windows'
  addresses in `Paging.cpp`: each region at directory indices of its own.  It also
  says that boot modules are linked below the kernel heap, which `ELFLoader` does not
  check; a module that is linked elsewhere is not in the model.
- Programs ask `PerformPageManagement` for any page: its bound tests EBX.  Of
  `ProgramPages` the theorems say only that they are pages.
- A new table or directory is not cleared by the code.  The model goes on when the
  frame is clear and is `lost` otherwise, so that old words are never taken for
  mappings.
- `TimerReceives` says whether the timer's driver has `CanReceiveIRQ` set.  As built
  nobody has, see `Scheduler`; for another driver than the timer's the message changes
  nothing that matters, so it is in all runs, for the timer's
  only if the constant is TRUE, which it is in no run.
- A loop of the code is a recursive function whose value at k is the machine after k
  turns (`ReleasePages`, `LoadSection`, `ELFStart`, `Initialise`); one turn is an operator
  (`Release`, `PlaceNew`, `AddTable`).
- The majors of all heaps are `Heap`'s matter.  A delete frees here any range of the
  kernel heap's pages below its end, or none: every range a major may be in, and some
  that none is in.  `KillDeletes` bounds how many majors one `KillProcess` empties;
  other calls delete one object.
- `CreateProcess` passes a negative length to the copy: nothing is copied from a
  block that begins at a page, and everything up to the end of memory otherwise
  (`BlocksAligned`).
- `RequestIdentityMapping` never ends its loop before addresses wrap, and leads to
  `lost` whenever it gets that far.
- The DMA case of `PerformPageManagement` takes a frame and maps nothing; the posix
  argument of `ClonePageDirectory` is used by fork only, which no program reaches.

### Dispatch

`interrupts` is the array inside `Interrupts`, a sequence of `LinkedList` values;
`List(0)` starts it with an item, a null pointer, so that vector 0 has none and the
last one is at the end.  `frame` is what all sinks of a vector share, the registers
of the program that was interrupted; `state[t]` is what is saved of t.  `Switch` stores
the frame as the state of `current`, whoever that is by then, and loads the next
thread's.  `Registers(t)`, in the properties, is what the kernel goes on with when
it goes on with t.

| model | code |
|---|---|
| `Install`, `AddInterrupt`, `Chain`, `GetItem` | `Interrupts` and `List::GetItem` |
| `Received` | `DriverInterruptSource::receive`, for a set of sinks |
| `Interrupt` | `InvokeInterruptChain` of a vector; every gate of the IDT is open to ring 3, so a program can raise any |
| `Entries`, `WithResult`, `Return`, `UnknownCall` | `SystemCallInterrupt::receive`: the frame as the sinks before it left it, the write of RAX while RIP is the caller's, the sinks behind it |
| `InstallDriver`, `YieldCall`, `KillProcessCall`, `KillThreadCall`, `ToggleSecurityPrivilege`, `SecurityPrivilegeStatus`, `RequestProcessData` | the functions of `Native.cpp` |
| `RemovingCall` | `SleepThread` of the last thread awake, `KillProcess` of the own process, `KillThread` of the last thread: `RemoveProcess` replaces the current thread, then Yield |
| `OtherCall` | `GetCurrentThread`, the stubs, and the calls whose work is in the other modules |
| `TimerAfter`, `VFSAfter` | `DriverManager::InstallDriver` and the choice of the scheduler's timer |
| `Run` | the program goes on: another place, its own value in RAX |

Of the registers there are RIP, RAX and the IO privilege level in RFLAGS.
That `RemoveProcess` has registers saved as another thread's is `Scheduler`'s finding
(`SavedStateIsOwn`) and happens here as well, in `RemovingCall`.  `DriverManager::vfs` and the bits of a process's `Bitmap` are not
initialised: `Init` has every value they may have, and a `vfs` that is junk stays
so until `RequestProcessData` follows it (`lost`).  The POSIX sink asks for vector
0x40 and is dropped.  `RemoveDriver` and `RemoveInterrupt` have no caller.  What
`RequestProcessData` copies into the caller's heap is not modelled.

## 3. Runs

| run | question | result |
|---|---|---|
| `mutex` | four processors: is the lock ever left taken with nobody inside, does a waiting processor ever wait with nobody getting in? | never |
| `mutex_exclusion` | does the lock exclude, as its users' comments say? | no, see findings |
| `scheduler` | every order of the calls that make, end, sleep and yield threads and processes, as built: types, lists, current process and thread, priority sum, no switch to a sleeper | holds, 48,463 states |
| `scheduler_user_heap` | the same with calls on kernel objects allowed, page 0 mapped and a timer interrupt between any two calls: wake-ups, kills of other threads, messages, new processes, removal of list tails | holds, 1,021,463 states |
| `scheduler_halts` | is the halt in `YieldTo` unreachable, as its comment says? | no |
| `scheduler_saves` | is what is saved as a thread's state its own? | no |
| `frames` | are the frames below the half word accounted for exactly, whatever happens above? | yes |
| `frames_twice` | is a frame handed out only once at a time? | no |
| `heap` | every order of Allocate, Free and Reallocate, with frames running out anywhere: blocks apart, no dangling best bet or empty major, counters, growth only without room, and the refinement of `AbstractHeap` | holds, 97,045 states |
| `heap_unmaps` | is the header of a live block's major always mapped? | no |
| `address_spaces` | a boot module, then every order of thread, process, message, interrupt and page calls, of kernel addresses too, in whatever directory, and any release of the kernel heap: do all directories share the kernel's tables, has a frame one use, are processes' heaps mapped where they belong, does a process keep its pages? | yes, until memory is `split` or `lost`; 17,105 states |
| `dispatch` | two programs install drivers of any kind on any vector, the system calls' included, and make calls and interrupts: chains in order, one file system, the first timer, IO access only for drivers and by `RemoveProcess`, registers of others kept, results to their callers? | yes, 215,552 states |

### The findings

1. *Mutex*: a processor that waited leaves the loop without taking the lock, and
   test and set are two accesses: several processors enumerate and change the
   process list together.
2. *YieldTo halts*: the search for an awake thread starts behind the thread that
   ran last and ends at the end of the list.  With the first thread awake and the
   last one asleep the processor halts for good.
3. *Saved registers*: `RemoveProcess` makes another process's thread current, and
   the Yield that follows saves the registers of the thread that fell asleep as
   the state of that thread.
4. *Frames*: `setBit` and `testBit` disagree on the word of a frame above 31, so
   it is handed out again.
5. *Heap*: the loop of `liballoc_free` runs from the page behind the major down to
   its second page.  The first page of the next major, with its header, is unmapped
   while its blocks are in use; the first page of the released major stays mapped,
   and its frame is lost when the page is mapped again.

Four more disagreements of the code with its comments are in the models, and TLC finds
each at once when it is asked, but they have no run of their own:

- `RemoveProcess` of a process that is not on the list takes the first one off.
  `KillProcess` of a process whose last thread has ended does that, and an awake process
  is then on neither list.  Wake takes it for awake ("If the process is not present in the
  list of sleeping processes, it's already awake", `Scheduler.cpp:288`) and returns.
- `EraseMapping` frees a table of the kernel heap with its last entry and unlinks it from
  the directory in use only, although "the heaps have to stay consistent across every
  address space" (`Paging.cpp:28-29`).  `liballoc_free` begins with the page behind a
  major, which may be the first of a table nothing else is mapped in.  `AddressSpaces`
  stops there, in mode `split`.
- The test above `PerformPageManagement`'s mapping ("There's no way that an application or
  driver should be allowed to manipulate kernel addresses", `Native.cpp:272`) compares
  EBX, the kind of request, with a bound that also lacks a digit; the page is in EAX.
  `AddressSpaces` maps whatever page is asked for, and its properties hold with that.
- With `TimerReceives` the message to the timer's driver is allocated after the yield has
  loaded another directory, of which `Virtual::current` does not know.  The driver's heap
  grows there, over a page of the heap of the process that was drawn.  As built no driver
  can receive.

### Bounds and why they are enough

- `mutex`: four processors; the argument needs two inside at once and two
  waiting.  Nothing else is bounded.
- `frames`: half words of 4 bits, 5 words, DMA zone of 2 words, at most
  `MaxHolders` = 2 outstanding grants of one frame (a second grant is already the
  violation; the bound only stops it repeating).  Five words give frames whose
  mark lands in a word of the same zone, of the other zone, and beyond the bitmap;
  the memory map marks frames of several of them.  4-bit halves keep the frame
  whose mask sign-extends apart from the lowest and the middle ones.
- `heap`: pages of 10, headers of 2 and 3, alignment 2, six pages, at least two
  pages for a major.  That gives three majors of two pages or two of three, a
  middle major to release, and a heap at its limit.  Requests of 0, 5 and 14 let a
  block be shrunk in place, grow by moving, fit into a gap another has left or not,
  and need a major larger than the minimum.  Sizes are chosen so that an error of
  one header changes what fits.
  Nothing is cut: the heap's own limit bounds the run.
- `scheduler`: three booted processes and two more threads, which any process may
  make.  That gives three threads in one process next to others, an empty list, a
  list of one, a removal of first, middle and last, and a process that ends or
  sleeps while two others are on the list, so that the wrong one can be taken off.
  `CreateProcess` is enabled and stops the kernel, as built.  `WordSize` = 16
  lets counters wrap.  `MaxCount` = 6 bounds the counts of the process lists and is
  not reached.  The two new threads are interchangeable, so the run uses their
  symmetry; the properties are safety properties, for which that is sound.
- `scheduler_user_heap`: two processes, one of them booted, and three threads with
  `MaxCount` = 3, because kills, wakes and messages now name any thread and the timer
  strikes anywhere.  Here the bound does cut: Wake of a process adds to `count` what
  the removal of another than the first node never took off, and counts would
  grow without end.
- `address_spaces`: tables of nine words, one for each region of a directory: the
  program, the kernel heap (two pages in one table and one in the next, so that a
  release can empty a table), the user heap, the kernel image, the stack, what lies
  between, the windows, the page tables.  Seventeen frames are enough to boot a module of
  two sections and to make a second process, whose heaps grow, and few
  enough to run out in every call; one of them is not marked, so that frames in use are
  handed out as well.  Programs ask for pages behind the kernel heap's end and their own
  heap's, for a window, a page table and an address between the regions.  One major is
  emptied by a call, two by a `KillProcess`.
- `dispatch`: two threads of two processes, two drivers, two places in a program.  A
  result can go to the wrong thread only between two, and a second driver is
  what tells first from latest.  The descriptions are a timer on a vector of its
  own, a timer and file system on the vector of the system calls, a file system
  without interrupts, and a driver for vector 0.  Vectors 0, 1, 3 and 4 are the null
  list, a list, the item behind the array and one beyond it.

Deadlock is not checked in the scheduler's runs, since the kernel stops in modes
`halted` and `wild` and every bound of the model stops it as well; nor in `heap`,
which stops when the heap has been destroyed or has faulted, nor in
`address_spaces` and `dispatch`, which stop when `lost`; in `frames` and
`mutex` it is checked unless the configuration says otherwise.

### Fairness

Only `mutex` has a liveness property.  It assumes weak fairness of a processor's
steps inside Lock and inside the critical section, and none for asking for the
lock: all critical sections of `Scheduler.cpp` are bounded loops run with
interrupts off, so a processor inside one reaches Unlock.  The property is that
*somebody* gets in; that a given processor does is not true of a spin loop
without a queue.

### Seeded faults

Next to some definitions stand operators marked "Seeded fault": the same code
with a plausible mistake (a dropped store, a missing test, a forgotten sum).
Each property was checked to fail when its seeded fault replaces the definition,
so that no run passes because it could not fail.

## 4. Proofs

TLAPS checks, from the modules' named assumptions on constants alone:

- **Mutex_proofs**: `TypeCorrect` and `LockNotStranded`.  `NoStrandedLock` is
  inductive together with the type: the write of 0 is the step into the
  critical section, and the step that leaves it writes 1, whoever else is inside.
- **PhysicalAllocator_proofs**: `TypeCorrect` and `LowFramesCorrect`, for every
  width of a word, every memory size and memory map.  `LowFramesAccounted`
  is not inductive: it needs `UpperHalfUnheld`, that no frame of the upper half of
  word 0 is ever handed out, because its mask is that of a frame of the lower
  half, which is lower and therefore found first; only so does the release of a
  frame of word 0 clear no other frame's bit.
- **Heap_proofs**: `TypeCorrect`, `BlocksApartCorrect`, `NoDanglingCorrect`,
  `UsageAccountedCorrect`, `GrowsOnlyWithoutRoomAlways` and the
  refinement `HeapKeepsPromise`: all that the run `heap` checks, for any sizes of pages
  and headers, any alignment and any requests.  `Sound` is a property of a record (its type, majors apart,
  minors apart, best bet alive); there is one lemma per operator that makes a
  record (`WithMinorSound`, `WithMajorSound`, `WithoutMinorSound`, ...) and the
  calls compose them.  `BlocksApart` alone is not inductive: that a new major at
  `heapEnd` has a new address, and that `heapEnd` may fall back to the start of the
  last major, need `MajorsUsed`, that every major holds a minor and so is not
  empty.  The best bet's survival needs that the search's choice is a major, for
  which one of finitely many has most free bytes (`LargestExists`).  For the
  refinement, `BlockInside` places the aligned block inside its minor, and
  `BlocksDiffer` follows from minors being apart.
  The counters' invariant is `Counted`, kept by each operator on records, as long as
  the record is `Sound`: a new minor's address is new, so that it is counted once; a new
  major's address is that of no minor's block, so that nothing in it has to be counted.
  The model writes the sums with the community modules' `MapThenSumSet`, a fold that takes
  the elements in an order of its own.  `Total` is that fold without its operator
  argument, and `TotalStep` (any element may be taken first) and `TotalDisjoint` are what
  the proofs use; both are inductions on the size of the set.
  `GrowsOnlyWithoutRoomAlways` is two claims about a major with a gap anywhere.
  The search tries an address that will do (`GapFound`: behind the last minor in front of
  the gap).  And CASE 1 does not skip the major, because its usage leaves as many bytes
  (`GapCounted`: the minors on either side of the gap, being apart, take no more than lies
  there, `MinorsPacked`).  The second needs the counters to be exact: were usage ever too high, the heap
  would grow although there is room.
- **LinkedList_proofs**: what Find, Add and Remove return for any list, and
  that they keep lists free of duplicates.
- **Scheduler_proofs**: `TypeCorrect`, `QueuesCorrect`, `CurrentProcessCorrect`,
  `CurrentThreadCorrect` and `NoSwitchToSleeper`, for any finite number of threads, any processes,
  priorities and system calls, and both values of the two switches, and
  `PriorityAccountingStays`.  The
  invariants are not inductive alone.  `IInv` adds: every thread a list of a
  process holds, its Last, what the Next pointer of a removed node leads to
  and the process's cursor belong to that process (else a switch would end in
  another process's thread); every listed process has had a thread (so that a
  process that has just been created is on no list); and the lists are
  sound while booting as well.  `SchedSound` is stated about a record, so that
  there is one lemma per method of Scheduler and a handler's lemma is the
  composition of those of the methods it calls.  `NoSwitchToSleeper` is a
  step property: `Spared` says it of a pair of records, `YieldToSpares` rests on the
  loop of `YieldTo` (`FirstAwakeType`), and `RemoveProcessMoves` shows that the
  one method which picks a thread without looking whether it sleeps has taken a
  process off the list.
  `PriorityAccountingStays` is for processes of one effective priority e, which is what the
  kernel makes (`DefaultProcessPriority`, and nothing is ever IO bound), with a total that
  fits into a word.  With different priorities it is false, as TLC shows at once: Remove of a
  process that is not on the list takes the first one off, and the priority of
  another is subtracted.  With equal ones the sum is e times the length, and what has to be
  shown is that the list becomes longer by one or shorter by one whenever the sum changes.  A
  step of the list can do something else in three ways: `count` has wrapped or has fallen
  to 0 before the list is empty, so that Add starts it anew, or Last is a node cut off, so that
  what is added is not reachable.  `QueueCounted` excludes them: count is never below the number
  of processes, and Last is the last of them unless page 0 is mapped.

- **AddressSpaces_proofs**: `StructureHolds`, and from it `TypeCorrect`,
  `KernelSharedAlways`, `NoFrameTwiceAlways`, `ProcessHeapsMappedAlways` and the
  action property `PagesAreKept`: all that the run checks, for any number of frames,
  processes and modules, any sections, any pages asked for, any set of unmarked frames
  and any layout with the regions of `MemoryMap.h`.  The last two need `~TimerReceives`:
  without it the second is false, see the findings.  All speak of memory that is sound, see the modes above.
  None of the properties is inductive.  `IInv` says of the machine, with the set D
  of directories that may come into use, `Steady`:
  `Sorted` (free frames, directories and taken frames are different ones), `Common` (the
  kernel's part is linked, complete and the same in all directories) and `Held`.  `Held` says
  with two functions, `holder` and `slot`, where each frame is: every link and every page
  leads to a frame whose holder and slot are the place it was found in, and free frames and
  directories have none.  One frame in two places would have two holders, so no pair
  of places ever has to be compared.  `Ends` and `Filled` are about heaps, `Aligned` is what
  makes growth by `Virtual::current` harmless without the timer's message: when
  that is not the kernel's directory, neither is cr3.  While a call runs some of this is broken
  in a known way, so `Structure(v, D, K, R)` has two more arguments: the window entries
  K that are open and the frames R that have been taken and are not linked yet; between
  two calls both are empty.
  `IInv` adds that the stack is mapped after `SetUp`, that processes have directories of
  their own, and that the kernel's directory is not current once somebody can run.
  There is one lemma for each small step, one for each method, which is a chain of small steps
  (`ClonePageDirectory`: take, open two windows, copy, close two), and one for each call,
  which is a chain of methods.  `Fine`, `Good` and `Partly` say of a pair of machines
  that the second is `OK` and what processes keep from the first to the second; they
  compose, and give `PagesAreKept`.  Address arithmetic is needed in one place, `SamePage`,
  `Regions` and `Layout`: a page is where its two indices say, and the regions' indices are in
  order.

- **Dispatch_proofs**: `TypeCorrect`, `ChainsInOrderAlways`, `TimerIsFirstAlways`,
  `OneVFSAlways`, `PortAccess`, `OtherFramesKeptAlways` and `CallsAnsweredAlways`, for any
  threads, processes, drivers, vectors and privileges, and a table of any size.
  `IInv` adds to the type `CallsFirst`, that the system
  calls' sink is the first of its vector, with drivers only behind it, and that
  the list's count is at least 1 and at most one more than the drivers installed,
  so that it cannot wrap and make Add start the list anew; and `VFSSound`, that
  what programs were told is the parent of the one `vfs` there is.  From
  `CallsFirst` follows that no sink comes before the system calls', so the
  frame a call sees is its caller's: without it `CallsAnswered` would fail for a
  timer in front.  The two action properties about registers follow from what a `Switch` does
  to them: it stores the frame where it came from and loads what is stored, unless
  `RemoveProcess` has changed `current` in between, which only `RemovingCall` does.
  For the two orders the invariant is `Ordered`: all lists have
  only been added to, so that their count is their length and Last is their
  end, and a driver is appended to a vector's chain in the step that
  appends it to the list of drivers; `Select` of a longer list is that of the shorter one and
  the new element if it was asked for.

- **Induction**: the theorems of the library that do induction or define a function by
  recursion take an operator as a parameter.  Here the predicate is a set and the step is a
  function, which can be instantiated: `InductionOnNat`, `InductionUpTo`, and
  `LoopExists`, that a loop of n turns has a function and that its value at i has what every turn
  preserves.  All of the loops of `AddressSpaces`, the lists of `Dispatch` and the sums of `Heap` go
  through these.

Model-checked only: `SomebodyGetsIn`, since liveness under fairness is out of the
prover's reach.  Every safety and action property that a passing run checks is a theorem.
The properties of the runs that end in a finding are false.

## 5. Not modelled, and the plan

Not modelled for good: descriptor tables and assembly stubs (fixed tables and
register saving), port IO, string and memory helpers, `AllocatePages` (no caller,
and it calls `firstFreeBits` with arguments that do not fit), the shared page
calls (stubs, here only as answers), `BootstrapStack::Pop`, `RemoveDriver` and
`RemoveInterrupt` (no caller), the lists of schedulers of several processors
(nothing starts a second one; what the lock does with several is in `Mutex`).

The C library, and fork.  Both were to be modelled and turned out not to have a behaviour
to model at this commit.  The library asks for its thread id with call 15, which is
`SleepThread` in the kernel's array of calls, so every request to the VFS goes to sleep before
it has named the thread to wake; `getVFS` reads its answer from RBX, the kernel leaves
it in RBP; the fields of an operation that decide whether the requester sleeps are what
`malloc` left in them; `preMain` walks arrays nobody has set; and no message reaches
a handler, since `SendMessage` refuses every process of the kernel heap.  The
interleavings that look hard in its source (an answer before the sleep,
a message thread id recycled while another is taken) are never reached.
Fork's sink is dropped by the interrupt table, as `Dispatch` shows.

What a next step would be, in this order:

1. `Requests`: the library's requests, when their constants match the kernel's: a
   client's threads access by access against the handler, on the kernel's
   SleepThread and WakeThread, implementing "every request is answered once, by its
   own answer".
2. `Processors`: several schedulers over `Mutex`, when a second one is started.
