--------------------------- MODULE AddressSpaces ---------------------------
(***************************************************************************)
(* Virtual (Source/Multitasking/Paging.cpp) and the code that changes      *)
(* address spaces through it: Main's loading of the boot modules, the      *)
(* heaps' growth, their releases and their destruction, the creation and   *)
(* the end of processes, messages, interrupts and PerformPageManagement.   *)
(* An address is a page: its directory index is page \div Entries, its     *)
(* table index page % Entries.                                             *)
(*                                                                         *)
(* Memory is a function from frames to their words.  A word of a directory *)
(* or table is the frame it points to, or NotPresent; Junk is the content  *)
(* of a page.  The recursive entry, the last of each directory, is left    *)
(* out: the code reaches the tables of the current directory, cr3,         *)
(* through it.                                                             *)
(*                                                                         *)
(* The memory is sound until one of these happens, and then stops:         *)
(*   - it is lost, and nothing is claimed of it, when the code touches a   *)
(*     page that is not mapped, gets from AllocatePage a frame in use or   *)
(*     none, makes a table or a directory of a frame that is not clear     *)
(*     (neither MapMemory nor ClonePageDirectory clears it), or a program  *)
(*     is given a table to fill;                                           *)
(*   - it is split when EraseMapping frees a table that all address spaces *)
(*     share.                                                              *)
(*                                                                         *)
(* A system call runs with interrupts off and is one action.  The calls    *)
(* compose functions from a record vm to the next one in the order of the  *)
(* code; each of them leaves a memory that has stopped alone.              *)
(*                                                                         *)
(* Which process Yield may draw is Scheduler's matter: here it is any that *)
(* has a thread.  Which major a delete empties is Heap's matter: here it   *)
(* is any range of pages of the kernel heap, or none.                      *)
(***************************************************************************)
EXTENDS Integers, Sequences, FiniteSetsExt

CONSTANTS Entries,                       \* 1024: words of a directory or table
          Frame,                         \* what AllocatePage(false) gives out
          Unmarked,                      \* the frames whose mark testBit does not see: as built all
          KernelDirectory, KernelTable,  \* the boot directory and its table of the kernel image
          KernelHeapStart, KernelHeapEnd, UserHeapStart, UserHeapEnd,
          KernelBoundary,                \* the page of 0xF0000000
          StackPage,                     \* the page of 0xF0400000
          WindowTable, WindowPage,       \* the pages of 0xFFBFE000, 0xFFBFF000,
          WindowSource, WindowDirectory, \* 0xFFBFC000 and 0xFFBFD000
          Process,                       \* the Process objects there may ever be
          Modules,                       \* the boot modules, a sequence of processes
          Sections,                      \* the sections of each module: [first, last] page
          ProgramPages,                  \* the pages programs ask for
          KillDeletes,                   \* how many majors the deletes of a KillProcess may empty
          BlocksAligned,                 \* do CreateProcess's blocks begin at a page?
          KernelHeapUserAccessible,      \* may ring 3 read the kernel heap's pages?
          TimerReceives,                 \* has the timer's driver ended a thread of an interrupt message?
          Null                           \* no process

NotPresent == 0
Junk == -1
Index == 0 .. Entries - 1
DirectoryIndex(page) == page \div Entries
TableIndex(page) == page % Entries

ModuleSet == {Modules[i] : i \in 1 .. Len(Modules)}
Blank == [i \in Index |-> NotPresent]
Content == [i \in Index |-> Junk]
StaticFrames == {0, KernelDirectory, KernelTable}
KernelHeapIndices == DirectoryIndex(KernelHeapStart) .. DirectoryIndex(KernelHeapEnd)

\* The words of a directory that are the same in all: the tables of the kernel
\* heap, of the kernel's image and of its stacks.
SharedIndices == KernelHeapIndices \cup {DirectoryIndex(KernelBoundary), DirectoryIndex(StackPage)}

ASSUME AddressSpacesAssumption ==
    /\ Entries \in Nat \ {0}
    /\ Frame \subseteq Nat \ StaticFrames /\ KernelDirectory # KernelTable
    /\ {KernelDirectory, KernelTable} \subseteq Nat \ {0}
    /\ Modules \in Seq(Process) /\ Cardinality(ModuleSet) = Len(Modules)
    /\ BlocksAligned \in BOOLEAN /\ KernelHeapUserAccessible \in BOOLEAN /\ TimerReceives \in BOOLEAN
    /\ Unmarked \subseteq Frame /\ KillDeletes \in Nat

\* MemoryMap.h: from below, the programs' images, the kernel heap, the heap of
\* the address space, the kernel's image, its stacks, the windows and the page
\* tables as the recursive entry shows them, each at directory indices of its
\* own.
Windows == {WindowSource, WindowDirectory, WindowTable, WindowPage}
ASSUME LayoutAssumption ==
    /\ {KernelHeapStart, KernelHeapEnd, UserHeapStart, UserHeapEnd, KernelBoundary, StackPage} \subseteq Nat
    /\ KernelHeapStart <= KernelHeapEnd /\ UserHeapStart <= UserHeapEnd
    /\ DirectoryIndex(KernelHeapEnd) < DirectoryIndex(UserHeapStart)
    /\ DirectoryIndex(UserHeapEnd) < DirectoryIndex(KernelBoundary)
    /\ DirectoryIndex(KernelBoundary) < DirectoryIndex(StackPage)
    /\ DirectoryIndex(StackPage) < DirectoryIndex(WindowDirectory)
    /\ Windows \subseteq Nat /\ DirectoryIndex(WindowDirectory) < Entries - 1
    /\ \A page \in Windows : DirectoryIndex(page) = DirectoryIndex(WindowDirectory)
    /\ ProgramPages \subseteq Nat
    /\ \A page \in ProgramPages : DirectoryIndex(page) \in Index
    /\ \A p \in ModuleSet : Sections[p] \in Seq({s \in [first : Nat, last : Nat] :
          s.first <= s.last /\ DirectoryIndex(s.last + 1) < DirectoryIndex(KernelHeapStart)})

VARIABLES vm,        \* mem, free   the frames' words; the free frames
                     \* cr3         the directory the processor uses
                     \* current     Virtual::current
                     \* heapEnd     Heap::heapEnd of each directory's heap
                     \* mode        "sound", "split" or "lost", see above
          directory, \* Process::pageDir; NotPresent: no such process yet or any more
          populated, \* the processes that have a thread
          running,   \* Scheduler::currentProcess
          phase      \* how far Main has got

vars == <<vm, directory, populated, running, phase>>
----------------------------------------------------------------------------
HeapMax(d) == IF d = KernelDirectory THEN KernelHeapEnd ELSE UserHeapEnd
HeapStart(d) == IF d = KernelDirectory THEN KernelHeapStart ELSE UserHeapStart

\* The machine as the boot code leaves it: memory is clear but for the image.
Machine ==
    [mem |-> [f \in Frame \cup StaticFrames |->
                 IF f = 0 THEN Content
                 ELSE IF f = KernelTable THEN [i \in Index |-> KernelTable]
                 ELSE IF f = KernelDirectory
                 THEN [Blank EXCEPT ![DirectoryIndex(KernelBoundary)] = KernelTable]
                 ELSE Blank],
     free |-> Frame,
     cr3 |-> KernelDirectory,
     current |-> KernelDirectory,
     heapEnd |-> [d \in Frame \cup {KernelDirectory} |-> HeapStart(d)],
     mode |-> "sound"]

\* Nothing is known of a lost machine.
Lost == [Machine EXCEPT !.mode = "lost"]
Stopped(v) == v.mode # "sound"

\* AllocatePage(false), whose result no caller here but MapMemory and
\* liballoc_alloc tests: the lowest frame firstFreeBit takes for a free one.
NextFrame(v) == Min(v.free \cup Unmarked)
Take(v) == IF Stopped(v) THEN v
           ELSE IF v.free = {} \/ NextFrame(v) \notin v.free THEN Lost
           ELSE [v EXCEPT !.free = @ \ {NextFrame(v)}]

\* A frame that becomes a table or a directory as it is.
TakeClear(v) == IF Stopped(Take(v)) \/ v.mem[NextFrame(v)] = Blank THEN Take(v) ELSE Lost

\* The table that covers a page in the directory in use.
TableOf(v, page) == v.mem[v.cr3][DirectoryIndex(page)]

RetrieveMapping(v, page) ==
    IF TableOf(v, page) = NotPresent THEN NotPresent ELSE v.mem[TableOf(v, page)][TableIndex(page)]

\* A read or a write of the kernel's at a page.
Touch(v, page) == IF ~Stopped(v) /\ RetrieveMapping(v, page) = NotPresent THEN Lost ELSE v

SetEntry(v, frame, page) == [v EXCEPT !.mem[TableOf(v, page)][TableIndex(page)] = frame]

\* MapMemory gives the page's region a table if it has none.
MapMemory(v, frame, page) ==
    LET u == TakeClear(v)
    IN  IF Stopped(v) THEN v
        ELSE IF TableOf(v, page) # NotPresent THEN SetEntry(v, frame, page)
        ELSE IF Stopped(u) THEN u
        ELSE SetEntry([u EXCEPT !.mem[v.cr3][DirectoryIndex(page)] = NextFrame(v)], frame, page)

\* Seeded fault of EraseMapping: the empty table is freed and stays linked.
EraseMappingKeepLink(v, page) ==
    LET u == SetEntry(v, NotPresent, page)
    IN  IF Stopped(v) THEN v
        ELSE IF TableOf(v, page) = NotPresent THEN Lost
        ELSE IF u.mem[TableOf(v, page)] # Blank THEN u
        ELSE [u EXCEPT !.free = @ \cup {TableOf(v, page)},
                       !.mode = IF DirectoryIndex(page) \in SharedIndices THEN "split" ELSE @]

\* EraseMapping frees a table without entries and clears its word in the
\* directory in use, and in no other.
EraseMapping(v, page) ==
    LET u == SetEntry(v, NotPresent, page)
    IN  IF Stopped(v) THEN v
        ELSE IF TableOf(v, page) = NotPresent THEN Lost
        ELSE IF u.mem[TableOf(v, page)] # Blank THEN u
        ELSE [u EXCEPT !.free = @ \cup {TableOf(v, page)},
                       !.mem[v.cr3][DirectoryIndex(page)] = NotPresent,
                       !.mode = IF DirectoryIndex(page) \in SharedIndices THEN "split" ELSE @]

Switch(v, d) == IF Stopped(v) THEN v ELSE [v EXCEPT !.cr3 = d, !.current = d]

\* What the methods of Heap do around their work: the heap's directory d is
\* compared with Virtual::current, not with cr3, and in the end
\* Virtual::current is loaded again.
Enter(v, d) == IF v.current # d THEN Switch(v, d) ELSE v
Leave(v, d, w) == IF v.current # d THEN Switch(w, v.current) ELSE w
----------------------------------------------------------------------------
\* Seeded fault of Inherits: the tables of the kernel heap are not linked.
InheritsImageOnly(i) == i >= DirectoryIndex(KernelBoundary)

\* The words ClonePageDirectory copies.
Inherits(i) == i >= DirectoryIndex(KernelBoundary) \/ i \in KernelHeapIndices

\* ClonePageDirectory without POSIX semantics.  The new directory is the next
\* free frame; the entry of the windows is skipped.
ClonePageDirectory(v) ==
    LET new == NextFrame(v)
        open == MapMemory(MapMemory(TakeClear(v), new, WindowDirectory), KernelDirectory, WindowSource)
        copied == [open EXCEPT !.mem[new] = [i \in Index |->
                      IF Inherits(i) /\ i # DirectoryIndex(WindowDirectory)
                      THEN open.mem[KernelDirectory][i] ELSE open.mem[new][i]]]
    IN  IF Stopped(open) THEN open
        ELSE EraseMapping(EraseMapping(copied, WindowDirectory), WindowSource)

\* The loop of CopyToAddressSpace, with addressMustExist: it gives up when
\* the directory d has no table for the page or the table no entry.  The data
\* is read at its address in the directory in use.  The second page of what
\* straddles a page boundary is written behind the window, over the page
\* tables.
CopyPage(v, source, d, page, straddles) ==
    LET table == v.mem[d][DirectoryIndex(page)]
        open == MapMemory(v, table, WindowTable)
        frame == open.mem[table][TableIndex(page)]
    IN  IF Stopped(v) \/ table = NotPresent THEN v
        ELSE IF Stopped(open) THEN open
        ELSE IF frame = NotPresent THEN EraseMapping(open, WindowTable)
        ELSE IF straddles THEN Lost
        ELSE EraseMapping(EraseMapping(Touch(MapMemory(open, frame, WindowPage), source), WindowPage), WindowTable)

\* CopyToAddressSpace of data on the page source to a page of the directory d.
CopyToAddressSpace(v, source, d, page, straddles) ==
    EraseMapping(CopyPage(MapMemory(v, d, WindowDirectory), source, d, page, straddles), WindowDirectory)
----------------------------------------------------------------------------
\* A fresh frame, which the program or the kernel will fill, for a page.
PlacePage(v, page) ==
    LET u == Take(v)
    IN  IF Stopped(u) THEN u ELSE MapMemory([u EXCEPT !.mem[NextFrame(v)] = Content], NextFrame(v), page)

\* liballoc_alloc of one page; no caller tests for NULL.
Grow(v, d) ==
    LET u == PlacePage(v, v.heapEnd[d])
    IN  IF Stopped(v) THEN v
        ELSE IF v.heapEnd[d] + 1 > HeapMax(d) THEN Lost
        ELSE IF Stopped(u) THEN u
        ELSE [u EXCEPT !.heapEnd[d] = @ + 1]

\* Seeded fault of Allocate: the heap grows in the directory in use.
AllocateHere(v, d, grows) == IF grows \/ v.heapEnd[d] = HeapStart(d) THEN Grow(v, d) ELSE v

\* Heap::Allocate for the heap of directory d.  grows: no major has room; an
\* empty heap has none.
Allocate(v, d, grows) ==
    LET u == Enter(v, d)
    IN  Leave(v, d, IF grows \/ v.heapEnd[d] = HeapStart(d) THEN Grow(u, d) ELSE u)

\* operator new.
KernelNew(v, grows) == Allocate(v, KernelDirectory, grows)

\* Thread::Start: the stack is taken from the process's heap and written
\* where that address is in the directory in use, where the arguments are
\* read too; then the list grows.
StartThread(v, d, grows, block, args) ==
    KernelNew(Touch(Touch(Allocate(v, d, grows), args), block), FALSE)

\* new Process: the object and the heap of its address space.
NewProcess(v, d) ==
    IF Stopped(v) THEN v ELSE KernelNew([v EXCEPT !.heapEnd[d] = UserHeapStart], FALSE)

\* FreePage(RetrieveMapping(page)) and EraseMapping(page), in the directory in
\* use.  A page that is not mapped frees frame 0, which is in the DMA segment.
Release(v, page) ==
    IF Stopped(v) THEN v
    ELSE EraseMapping([v EXCEPT !.free = @ \cup ({RetrieveMapping(v, page)} \ {NotPresent})], page)

ReleasePages(v, pages) ==
    LET released[k \in 0 .. Len(pages)] == IF k = 0 THEN v ELSE Release(released[k - 1], pages[k])
    IN  released[Len(pages)]

WithHeapEnd(v, d, page) == IF Stopped(v) THEN v ELSE [v EXCEPT !.heapEnd[d] = page]

\* The pages of the heap of d, from its start.
PagesOfHeap(v, d) == [k \in 1 .. v.heapEnd[d] - UserHeapStart |-> UserHeapStart + k - 1]

\* Seeded fault of DestroyHeap: the directory in use is left as it is.
DestroyHeapHere(v, d) == WithHeapEnd(ReleasePages(v, PagesOfHeap(v, d)), d, UserHeapStart)

\* ~Heap: every page of the heap, in the heap's directory.
DestroyHeap(v, d) ==
    Switch(WithHeapEnd(ReleasePages(Switch(v, d), PagesOfHeap(v, d)), d, UserHeapStart), v.current)

\* A major of the kernel heap: its first page and the page behind its last.
Major == {m \in [first : KernelHeapStart .. KernelHeapEnd, last : KernelHeapStart .. KernelHeapEnd] :
             m.first < m.last}

\* liballoc_free walks from the page behind the major down to its second page:
\* the first one stays mapped.  The heap ends before the last major again.
FreeMajor(v, m) ==
    LET u == ReleasePages(Touch(v, m.first), [k \in 1 .. m.last - m.first |-> m.last - k + 1])
    IN  IF m.last = v.heapEnd[KernelDirectory] THEN WithHeapEnd(u, KernelDirectory, m.first) ELSE u

\* operator delete: Heap::Free of a block whose major m is empty then.
KernelDelete(v, m) ==
    IF m.last > v.heapEnd[KernelDirectory] THEN v
    ELSE Leave(v, KernelDirectory, FreeMajor(Enter(v, KernelDirectory), m))

\* The deletes of a call and the majors they empty: no more than n.
Emptied(n) == UNION {[1 .. k -> Major] : k \in 0 .. n}
KernelDeletes(v, majors) ==
    LET deleted[k \in 0 .. Len(majors)] == IF k = 0 THEN v ELSE KernelDelete(deleted[k - 1], majors[k])
    IN  deleted[Len(majors)]

\* Scheduler::Sleep and Wake: a node for the list the process goes to, then
\* sendStatusChangeMessage, which makes a message and deletes it.
StatusChange(v, grows, majors) == KernelDeletes(KernelNew(KernelNew(v, grows), FALSE), majors)
----------------------------------------------------------------------------
\* ELFLoader::Start maps the pages of a section and one more, up to the first
\* that is mapped already; the frame it took for that one is lost.  The copy
\* that follows needs all pages of the section.
PlaceNew(u, page) ==
    IF u.broken \/ Stopped(u.v) THEN u
    ELSE IF RetrieveMapping(u.v, page) # NotPresent
    THEN [v |-> Take(u.v), broken |-> TRUE]
    ELSE [v |-> PlacePage(u.v, page), broken |-> FALSE]

LoadSection(v, section) ==
    LET pages == section.last - section.first + 2
        placed[k \in 0 .. pages] ==
            IF k = 0 THEN [v |-> v, broken |-> FALSE] ELSE PlaceNew(placed[k - 1], section.first + k - 1)
        u == placed[pages].v
        missing == \E page \in section.first .. section.last : RetrieveMapping(u, page) = NotPresent
    IN  IF ~Stopped(u) /\ missing THEN Lost ELSE u

\* The first block of a new process's heap, and its page.
ELFStart(v, p, d) ==
    LET params == Touch(Allocate(Switch(KernelNew(v, FALSE), d), d, FALSE), UserHeapStart)
        sections == Sections[p]
        loaded[i \in 0 .. Len(sections)] ==
            IF i = 0 THEN params ELSE LoadSection(loaded[i - 1], sections[i])
    IN  StartThread(Switch(loaded[Len(sections)], v.current), d, FALSE, UserHeapStart, UserHeapStart)

\* Initialise: a table for every region of the kernel heap.
AddTable(v, i) ==
    LET u == TakeClear(v)
    IN  IF Stopped(u) THEN u ELSE [u EXCEPT !.mem[KernelDirectory][i] = NextFrame(v)]

Initialise(v) ==
    LET first == DirectoryIndex(KernelHeapStart)
        tables == DirectoryIndex(KernelHeapEnd) - first + 1
        added[k \in 0 .. tables] == IF k = 0 THEN v ELSE AddTable(added[k - 1], first + k - 1)
    IN  added[tables]

Init ==
    /\ vm = Initialise(Machine)
    /\ directory = [p \in Process |-> NotPresent]
    /\ populated = {}
    /\ running = Null
    /\ phase = 0

Sound == vm.mode = "sound"

\* Main up to the modules: the kernel heap is used first, then SetupStack.
SetUp ==
    /\ phase = 0 /\ Sound
    /\ vm' = LET v == KernelNew(vm, FALSE) IN
             IF ~Stopped(v) /\ RetrieveMapping(v, StackPage) = NotPresent THEN PlacePage(v, StackPage) ELSE v
    /\ phase' = 1
    /\ UNCHANGED <<directory, populated, running>>

\* One turn of Main's loop over the boot modules.
LoadModule ==
    LET p == Modules[phase]
        d == NextFrame(vm)
    IN  /\ phase \in 1 .. Len(Modules) /\ Sound
        /\ IF Stopped(TakeClear(vm)) THEN vm' = Lost /\ UNCHANGED <<directory, populated>>
           ELSE /\ vm' = ELFStart(NewProcess(Switch(ClonePageDirectory(vm), d), d), p, d)
                /\ directory' = [directory EXCEPT ![p] = d]
                /\ populated' = populated \cup {p}
        /\ phase' = phase + 1
        /\ UNCHANGED running

\* YieldTo writes cr3 only, and only when p is not the current process, from.
YieldTo(v, from, p) == IF Stopped(v) \/ p = from THEN v ELSE [v EXCEPT !.cr3 = directory[p]]

Alive == {p \in Process : directory[p] # NotPresent}

\* Main's Yield(0), and every later switch to another process.
Yield(p) ==
    /\ phase > Len(Modules) /\ Sound
    /\ p \in populated \ {running}
    /\ vm' = YieldTo(vm, running, p)
    /\ running' = p
    /\ UNCHANGED <<directory, populated, phase>>

Calls == running # Null /\ Sound /\ UNCHANGED phase

\* RemoveProcess of the current process makes the first one on the list the
\* current one and leaves cr3 alone; a later YieldTo finds it current and
\* leaves cr3 alone too.  KillThread of a last thread.
EndLastThread(q, first) ==
    /\ Calls
    /\ q \in populated
    /\ populated' = populated \ {q}
    /\ IF q = running THEN first \in populated' ELSE first = running
    /\ running' = first
    /\ UNCHANGED <<vm, directory>>

\* SleepThread of the last thread that was awake: Scheduler::Sleep, whose
\* RemoveProcess makes the first process on the list the current one, and then
\* Yield to p.
SleepProcess(first, p, grows, majors) ==
    /\ Calls
    /\ {first, p} \subseteq populated \ {running}
    /\ vm' = YieldTo(StatusChange(vm, grows, majors), first, p)
    /\ running' = p
    /\ UNCHANGED <<directory, populated>>

\* WakeThread of a thread of another process, which sleeps: Scheduler::Wake.
WakeProcess(grows, majors) ==
    /\ Calls
    /\ populated # {running}
    /\ vm' = StatusChange(vm, grows, majors)
    /\ UNCHANGED <<directory, populated, running>>

\* The page an allocation in p's heap comes from, when the heap grows or not.
Blocks(p, grows) ==
    IF grows THEN {vm.heapEnd[directory[p]]}
    ELSE UserHeapStart .. vm.heapEnd[directory[p]] - 1

\* Where the running program may keep data: what it has mapped.  Of the
\* kernel's image and stacks it can read nothing, or what all address spaces
\* have.
DataPages == {page \in 0 .. (Entries - 1) * Entries - 1 :
    /\ DirectoryIndex(page) \notin {DirectoryIndex(KernelBoundary), DirectoryIndex(StackPage)}
    /\ RetrieveMapping(vm, page) # NotPresent}

\* new Thread, then Thread::Start.
CreateThread(growsKernel, grows) ==
    /\ Calls
    /\ \E block \in Blocks(running, grows), args \in DataPages :
          vm' = StartThread(KernelNew(vm, growsKernel), directory[running], grows, block, args)
    /\ populated' = populated \cup {running}
    /\ UNCHANGED <<directory, running>>

\* The length CreateProcess passes is negative: a block that begins at a page
\* is not copied at all.  The address space it passes is `false', frame 0.
\* The arguments it passes are at address 0.
CreateProcess(p) ==
    LET d == NextFrame(vm)
        made == NewProcess(ClonePageDirectory(vm), d)
        copied == EraseMapping(MapMemory(made, 0, WindowDirectory), WindowDirectory)
    IN  /\ Calls
        /\ directory[p] = NotPresent
        /\ IF Stopped(TakeClear(vm)) THEN vm' = Lost /\ UNCHANGED <<directory, populated>>
           ELSE /\ vm' = IF ~BlocksAligned THEN Lost
                         ELSE StartThread(KernelNew(copied, FALSE), d, FALSE, UserHeapStart, 0)
                /\ directory' = [directory EXCEPT ![p] = d]
                /\ populated' = populated \cup {p}
        /\ UNCHANGED running

\* Process::SendMessage to q.  The data is at the page source of the directory
\* in use.  It goes to the block's address in the directory e of the sender,
\* the kernel's for an interrupt, not of q.
SendMessage(v, source, e, q, grows, block, straddles) ==
    LET d == directory[q]
        thread == KernelNew(Allocate(v, d, grows), FALSE)
        copied == CopyToAddressSpace(thread, source, e, block, straddles)
    IN  StartThread(Touch(copied, block), d, FALSE, block, StackPage)

\* The system call; a Process, its destination, is in the kernel heap.
SendMessageCall(q, grows, straddles, majors) ==
    /\ Calls
    /\ KernelHeapUserAccessible
    /\ \E block \in Blocks(q, grows), source \in DataPages :
          vm' = KernelDeletes(SendMessage(KernelNew(vm, FALSE), source, directory[running], q, grows, block, straddles),
                              majors)
    /\ populated' = populated \cup {q}
    /\ UNCHANGED <<directory, running>>

\* DriverInterruptSource::receive: a Message is made, an interrupt of the
\* timer's driver yields to p, and the message is deleted.
Interrupt(p, grows, majors) ==
    /\ Calls
    /\ p \in populated
    /\ vm' = KernelDeletes(YieldTo(KernelNew(vm, grows), running, p), majors)
    /\ running' = p
    /\ UNCHANGED <<directory, populated>>

\* The same, when the driver q can receive the interrupt: its data, the frame
\* on the kernel's stack, is sent to q, after the Yield if it is the timer's.
InterruptMessage(p, q, grows, majors) ==
    /\ Calls
    /\ p \in IF TimerReceives THEN populated ELSE {running}
    /\ \E block \in Blocks(q, grows) :
          vm' = KernelDeletes(SendMessage(YieldTo(KernelNew(vm, FALSE), running, p), StackPage, KernelDirectory,
                                          q, grows, block, FALSE),
                              majors)
    /\ populated' = populated \cup {q}
    /\ running' = p
    /\ UNCHANGED directory

\* PerformPageManagement of any page that is not mapped, of the kernel's too:
\* the bound that is meant for the page is compared with EBX.  A page in the
\* region of the recursive entry is one of the page tables.
PerformPageManagement(page) ==
    LET recursive == DirectoryIndex(page) = Entries - 1
    IN  /\ Calls
        /\ IF recursive THEN TableIndex(page) # Entries - 1 /\ vm.mem[vm.cr3][TableIndex(page)] = NotPresent
           ELSE RetrieveMapping(vm, page) = NotPresent
        /\ vm' = IF recursive THEN Lost ELSE PlacePage(vm, page)
        /\ UNCHANGED <<directory, populated, running>>

\* RequestIdentityMapping of a page that is not mapped: its loops advance eax
\* and not i, until eax + ebx wraps, and then map everything.
RequestIdentityMapping(page) ==
    /\ Calls
    /\ RetrieveMapping(vm, page) = NotPresent
    /\ vm' = Lost
    /\ UNCHANGED <<directory, populated, running>>

\* Seeded fault of KillProcess: the process stays on the list of processes.
KillProcessStillListed(q, p, grows, majors, last) ==
    /\ Calls
    /\ q \in Alive /\ p \in populated
    /\ vm' = YieldTo(DestroyHeap(vm, directory[q]), running, p)
    /\ running' = p
    /\ directory' = [directory EXCEPT ![q] = NotPresent]
    /\ UNCHANGED populated

\* KillProcess: ~Thread gives the stack, which is in the process's heap, to
\* the kernel heap, whose directory does not map it; elfObject is not
\* initialised unless the process is a boot module.  A process without
\* threads loses its heap's frames and its objects in the kernel heap; the
\* rest of its address space, the directory included, is not freed.  Then
\* sendStatusChangeMessage, whose message empties another major at most, and
\* Yield.
KillProcess(q, p, grows, majors, last) ==
    LET deleted == KernelDeletes(DestroyHeap(vm, directory[q]), majors)
    IN  /\ Calls
        /\ q \in Alive /\ p \in populated \ {q}
        /\ \/ (q \in populated \/ q \notin ModuleSet) /\ vm' = Lost
           \/ q \notin populated /\ vm' = YieldTo(KernelDeletes(KernelNew(deleted, grows), last), running, p)
        /\ running' = p
        /\ directory' = [directory EXCEPT ![q] = NotPresent]
        /\ populated' = populated \ {q}

Next ==
    \/ SetUp
    \/ LoadModule
    \/ \E p \in Process : Yield(p)
    \/ \E q, first \in Process : EndLastThread(q, first)
    \/ \E first, p \in Process, grows \in BOOLEAN, majors \in Emptied(1) : SleepProcess(first, p, grows, majors)
    \/ \E grows \in BOOLEAN, majors \in Emptied(1) : WakeProcess(grows, majors)
    \/ \E growsKernel, grows \in BOOLEAN : CreateThread(growsKernel, grows)
    \/ \E p \in Process : CreateProcess(p)
    \/ \E q \in Alive, grows, straddles \in BOOLEAN, majors \in Emptied(1) :
          SendMessageCall(q, grows, straddles, majors)
    \/ \E p \in Process, grows \in BOOLEAN, majors \in Emptied(1) : Interrupt(p, grows, majors)
    \/ \E p \in Process, q \in Alive, grows \in BOOLEAN, majors \in Emptied(1) :
          InterruptMessage(p, q, grows, majors)
    \/ \E page \in ProgramPages : PerformPageManagement(page)
    \/ \E page \in ProgramPages : RequestIdentityMapping(page)
    \/ \E q, p \in Process, grows \in BOOLEAN, majors \in Emptied(KillDeletes), last \in Emptied(1) :
          KillProcess(q, p, grows, majors, last)

Spec == Init /\ [][Next]_vars
----------------------------------------------------------------------------
Word == Frame \cup StaticFrames \cup {NotPresent, Junk}

Machines ==
    [mem : [Frame \cup StaticFrames -> [Index -> Word]], free : SUBSET Frame,
     cr3 : Frame \cup {KernelDirectory}, current : Frame \cup {KernelDirectory},
     heapEnd : [Frame \cup {KernelDirectory} -> Nat], mode : {"sound", "split", "lost"}]

\* Type invariant.
TypeOK ==
    /\ vm \in Machines
    /\ directory \in [Process -> Frame \cup {NotPresent}]
    /\ populated \subseteq Alive
    /\ running \in Process \cup {Null}
    /\ phase \in 0 .. Len(Modules) + 1

\* The directories a later step may load into cr3.
Directories == {KernelDirectory, vm.cr3, vm.current} \cup {directory[p] : p \in Alive}

\* What a directory maps a page to.
Mapping(d, page) ==
    LET t == vm.mem[d][DirectoryIndex(page)]
    IN  IF t = NotPresent THEN NotPresent ELSE vm.mem[t][TableIndex(page)]

\* Whatever grows the kernel heap or maps a page in the kernel's part, in
\* whichever directory, and whenever a process was made, every directory has
\* the same tables for the kernel heap, the kernel's image and its stacks, for
\* as long as EraseMapping frees none of them.
KernelSharedEverywhere ==
    Sound /\ phase > 0 =>
        \A d \in Directories, i \in SharedIndices : vm.mem[d][i] = vm.mem[KernelDirectory][i]

LinksOf(d) == {<<d, i>> : i \in {j \in Index \ SharedIndices : vm.mem[d][j] # NotPresent}}
SharedLinks == {<<KernelDirectory, i>> : i \in {j \in SharedIndices : vm.mem[KernelDirectory][j] # NotPresent}}
Tables(links) == {vm.mem[l[1]][l[2]] : l \in links} \ {KernelTable}

\* Every place in a directory or a table that points to a frame.
Places ==
    LET links == SharedLinks \cup UNION {LinksOf(d) : d \in Directories}
    IN  links \cup {l \in Tables(links) \X Index : vm.mem[l[1]][l[2]] # NotPresent}

\* A frame has one use: it is a directory, or one table or page of one
\* address space (or of the kernel's shared part), or free.  A page of one
\* process is no other's, what EraseMapping and Heap have freed is linked from
\* nowhere, and no window is left open on another address space's directory,
\* tables or pages between two calls.
NoFrameTwice ==
    Sound =>
        /\ \A a, b \in Places : a # b => vm.mem[a[1]][a[2]] # vm.mem[b[1]][b[2]]
        /\ \A a \in Places : vm.mem[a[1]][a[2]] \notin vm.free \cup Directories
        /\ Directories \cap vm.free = {}

\* Every page between the start and the end of a process's heap is mapped in
\* the process's directory: growing a heap while another address space is in
\* use still maps the page in the right one, and no release of the kernel heap
\* reaches it.
ProcessHeapsMapped ==
    Sound => \A d \in Directories \ {KernelDirectory} : \A page \in UserHeapStart .. vm.heapEnd[d] - 1 :
        Mapping(d, page) # NotPresent

\* The pages of a directory no release of the kernel heap and no growth of a
\* heap is about.
Owned(d) == {page \in 0 .. (Entries - 1) * Entries - 1 :
    /\ DirectoryIndex(page) \notin KernelHeapIndices \cup {DirectoryIndex(WindowDirectory)}
    /\ page \notin vm.heapEnd[d] .. UserHeapEnd - 1}

\* No call takes such a page away from a process that goes on, or puts another
\* frame in its place; ~Heap of one process and the releases of the kernel
\* heap least of all.
PagesKept ==
    [][ Sound /\ Sound' =>
          \A p \in Alive : directory'[p] = directory[p] =>
            \A page \in Owned(directory[p]) :
                Mapping(directory[p], page) # NotPresent =>
                    Mapping(directory[p], page)' = Mapping(directory[p], page) ]_vars
=============================================================================
