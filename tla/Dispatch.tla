------------------------------ MODULE Dispatch ------------------------------
(***************************************************************************)
(* Interrupts and the system calls: Interrupts (Source/Common/             *)
(* Interrupts.cpp) keeps a list of sinks for each vector, DriverManager    *)
(* (Source/Drivers/DriverStructures.cpp) adds the drivers that programs    *)
(* install, and Native::SystemCallInterrupt (Source/SystemCalls/           *)
(* Native.cpp) is one sink among them, on SystemCallVector.                *)
(*                                                                         *)
(* All sinks of a vector get the same stack frame, the registers of the    *)
(* program that was interrupted.  A sink that yields saves the frame as    *)
(* the state of the scheduler's current thread and loads another thread's, *)
(* and the sinks after it work on that one.  RemoveProcess replaces the    *)
(* current thread and leaves the frame, which is then saved as the state   *)
(* of a thread it does not belong to.                                      *)
(*                                                                         *)
(* Of the registers there are rip, the place in the program; rax, the      *)
(* program's Own, or Done or Refused when the kernel wrote it; and iopl,   *)
(* the IO privilege level 3 in RFLAGS.  Which thread Yield draws, if any,  *)
(* and which one RemoveProcess finds first is Scheduler's matter: here it  *)
(* may be any.  The owner of the current thread is the current process, as *)
(* CurrentThreadOwned of Scheduler says.                                   *)
(*                                                                         *)
(* Interrupts are off from the entry stub to IRET: each is one action.     *)
(***************************************************************************)
EXTENDS LinkedList, FiniteSets

CONSTANTS Thread, Process,
          Owner,                     \* Thread::parent
          Place,                     \* what RIP may be in a program
          Block,                     \* the DriverInfoBlocks there may be
          Description,               \* what programs fill them with
          VectorCount,               \* 48
          SystemCallVector,          \* 0x30
          POSIXVector,               \* 0x40
          Vector,                    \* the vectors that are raised
          Asked,                     \* the privileges that are asked for
          FlagSets,                  \* the flags RequestProcessData is given
          SystemCalls, POSIX,        \* the two sinks Main installs
          Own,                       \* a program's value
          Done, Refused,             \* 0 or an answer; an error
          Junk                       \* an uninitialised value

Timer == "Timer"
VFS == "VFS"
SecurityPrivilegeCount == 21
YieldPrivilege == 2
RestrictedPrivileges == {10, 14, 16, 17, 18, 19, 20}
DefaultPrivileges == {0, 2, 3, 4, 6, 8, 9, 11, 12, 15}
Privilege == 0 .. SecurityPrivilegeCount - 1

Sink == Block \cup {SystemCalls, POSIX}

\* What the kernel keeps of a driver.
Fields == [parent : Process, irq : Nat, supportsInterrupts : BOOLEAN, type : SUBSET {Timer, VFS}]

ASSUME DispatchAssumption ==
    /\ Owner \in [Thread -> Process] /\ Null \notin Process \cup Sink
    /\ Null \notin List(Sink) /\ Null \notin Fields
    /\ Junk \notin Block \cup {Null} /\ {SystemCalls, POSIX} \cap Block = {}
    /\ SystemCalls # POSIX
    /\ Description \subseteq [irq : Nat, supportsInterrupts : BOOLEAN, type : SUBSET {Timer, VFS}]
    /\ IsFiniteSet(Block) /\ Cardinality(Block) + 1 < WordSize
    /\ VectorCount \in Nat /\ SystemCallVector \in 1 .. VectorCount
    /\ POSIXVector \in Nat /\ POSIXVector > VectorCount
    /\ Vector \subseteq Nat \ {SystemCallVector} /\ Asked \subseteq Nat
    /\ FlagSets \subseteq SUBSET Nat /\ Own \notin {Done, Refused}

VARIABLES current,    \* Scheduler::currentThread
          frame,      \* the registers of the program that runs, or was interrupted
          state,      \* Thread::state, the saved registers
          interrupts, \* Interrupts::interrupts, the array of a List
          drivers,    \* the list DriverManager is
          info,       \* the installed DriverInfoBlocks' fields
          timer,      \* Scheduler::timer
          vfs,        \* DriverManager::vfs
          privileges, \* Process::securityPrivileges
          returned,   \* the VFS processes RequestProcessData has answered with
          lost        \* the kernel follows a null or an uninitialised pointer

vars == <<current, frame, state, interrupts, drivers, info, timer, vfs, privileges, returned, lost>>
cpu == <<current, frame, state>>
devices == <<interrupts, drivers, info, timer, vfs>>
----------------------------------------------------------------------------
\* List::GetItem: the index count reads one item past the array.
GetItem(array, i) ==
    IF i < Len(array) THEN array[i + 1] ELSE IF i = Len(array) THEN Junk ELSE Null

\* Seeded fault of Install: the array begins without an item.
InstallFromEmpty == [i \in 1 .. VectorCount |-> EmptyList]

\* Interrupts::Install.  List(0) has an item already, a null pointer, so that
\* the lists are at 1 to VectorCount.
Install == <<Null>> \o [i \in 1 .. VectorCount |-> EmptyList]

\* Seeded fault of AddInterrupt: the newest sink comes first.
AddInterruptFirst(array, sink, vector) ==
    IF vector >= Len(array) THEN array
    ELSE [array EXCEPT ![vector + 1] = [AddItem(@, sink) EXCEPT !.items = <<sink>> \o SelectSeq(@, LAMBDA x : x \notin {sink, Null})]]

\* Interrupts::AddInterrupt drops a sink for a vector beyond the array.
AddInterrupt(array, sink, vector) ==
    IF vector >= Len(array) THEN array ELSE [array EXCEPT ![vector + 1] = AddItem(@, sink)]

\* The sinks InvokeInterruptChain goes through: none while the list holds its
\* first, empty node.
Chain(array, vector) ==
    LET sinks == GetItem(array, vector).items IN IF sinks = <<Null>> THEN <<>> ELSE sinks

\* Seeded fault of Switch: RFLAGS is not loaded.
SwitchKeepFlags(c, t) ==
    LET saved == [c.state EXCEPT ![c.thread] = c.frame]
    IN  [thread |-> t, frame |-> [saved[t] EXCEPT !.iopl = c.frame.iopl], state |-> saved]

\* YieldTo: the frame is saved as the state of the current thread, and t's is
\* loaded.
Switch(c, t) ==
    LET saved == [c.state EXCEPT ![c.thread] = c.frame]
    IN  [thread |-> t, frame |-> saved[t], state |-> saved]

\* Yield may draw nobody, or a process without threads.
Yields(c) == {c} \cup {Switch(c, t) : t \in Thread}

\* DriverInterruptSource::receive of each of these sinks.  Only the timer's
\* does something: no block ever has CanReceiveIRQ set.
Received(c, sinks, tmr) == IF tmr # Null /\ tmr \in sinks THEN Yields(c) ELSE {c}

PositionOfCalls(sinks) == CHOOSE i \in 1 .. Len(sinks) : sinks[i] = SystemCalls
Before(sinks) == {sinks[i] : i \in 1 .. PositionOfCalls(sinks) - 1}
After(sinks) == {sinks[i] : i \in PositionOfCalls(sinks) + 1 .. Len(sinks)}
----------------------------------------------------------------------------
Frame == [rip : Place, rax : {Own, Done, Refused}, iopl : BOOLEAN]

\* Main: the table, the system calls, and the POSIX calls, whose vector is
\* beyond the table.  Neither the bits of a new Bitmap nor DriverManager::vfs
\* is initialised.
Init ==
    /\ current \in Thread
    /\ frame \in [rip : Place, rax : {Own}, iopl : {FALSE}]
    /\ state \in [Thread -> [rip : Place, rax : {Own}, iopl : {FALSE}]]
    /\ interrupts = AddInterrupt(AddInterrupt(Install, SystemCalls, SystemCallVector), POSIX, POSIXVector)
    /\ drivers = EmptyList
    /\ info = [b \in Block |-> Null]
    /\ timer = Null
    /\ vfs \in {Null, Junk}
    /\ privileges \in [Process -> {DefaultPrivileges \cup bits : bits \in SUBSET (Asked \cap Privilege)}]
    /\ returned = {}
    /\ lost = FALSE

\* The program goes on.
Run(place) ==
    /\ ~lost
    /\ frame' = [frame EXCEPT !.rip = place, !.rax = Own]
    /\ UNCHANGED <<current, state, devices, privileges, returned, lost>>

Fail == lost' = TRUE /\ UNCHANGED <<cpu, devices, privileges, returned>>

Now == [thread |-> current, frame |-> frame, state |-> state]

\* The interrupt leaves c.
Resume(c) == current' = c.thread /\ frame' = c.frame /\ state' = c.state

\* InvokeInterruptChain for another vector than the system calls': all gates
\* are open to ring 3, so a program can raise any.
Interrupt(vector) ==
    /\ ~lost
    /\ IF GetItem(interrupts, vector) \in {Null, Junk} THEN Fail
       ELSE /\ \E c \in Received(Now, ToSet(Chain(interrupts, vector)), timer) : Resume(c)
            /\ UNCHANGED <<devices, privileges, returned, lost>>

\* What the sinks before the system calls' leave.
Entries == Received(Now, Before(Chain(interrupts, SystemCallVector)), timer)

\* Seeded fault of WithResult: RAX is written whoever has the frame now.
WithResultAlways(entry, c, result) == [c EXCEPT !.frame.rax = result]

\* The end of SystemCallInterrupt::receive.  RAX is written only while the
\* frame's RIP is the caller's.
WithResult(entry, c, result) ==
    IF c.frame.rip = entry.frame.rip THEN [c EXCEPT !.frame.rax = result] ELSE c

\* The handler has left c and returned result; the sinks behind it follow,
\* among them one that the handler has just installed.
Return(entry, c, result) ==
    /\ \E d \in Received(WithResult(entry, c, result), After(Chain(interrupts', SystemCallVector)), timer') :
          Resume(d)
    /\ lost' = FALSE
----------------------------------------------------------------------------
\* Seeded fault of TimerAfter: a later timer replaces the first.
TimerAfterLatest(b, d) == IF Timer \in d.type THEN b ELSE timer

\* InstallDriver makes the first timer the scheduler's.
TimerAfter(b, d) == IF Timer \in d.type /\ timer = Null THEN b ELSE timer

\* Seeded fault of VFSAfter: a later file system replaces the first.
VFSAfterLatest(b, d) == IF VFS \in d.type /\ vfs # Junk THEN b ELSE vfs

VFSAfter(b, d) == IF VFS \in d.type /\ vfs = Null THEN b ELSE vfs

\* InstallDriver.  The list of vector 0 is a null pointer.  The program's
\* frame gets IO privilege level 3.
InstallDriver(b, d, entry) ==
    LET block == [parent |-> Owner[entry.thread], irq |-> d.irq,
                  supportsInterrupts |-> d.supportsInterrupts, type |-> d.type]
    IN  /\ info[b] = Null
        /\ IF d.supportsInterrupts /\ GetItem(interrupts, d.irq) = Null /\ d.irq < Len(interrupts) THEN Fail
           ELSE /\ timer' = TimerAfter(b, d)
                /\ vfs' = VFSAfter(b, d)
                /\ drivers' = AddItem(drivers, b)
                /\ info' = [info EXCEPT ![b] = block]
                /\ interrupts' = IF d.supportsInterrupts THEN AddInterrupt(interrupts, b, d.irq) ELSE interrupts
                /\ Return(entry, [entry EXCEPT !.frame.iopl = TRUE], Done)
                /\ UNCHANGED <<privileges, returned>>

YieldCall(entry) ==
    /\ UNCHANGED <<devices, privileges, returned>>
    /\ \/ YieldPrivilege \in privileges[Owner[entry.thread]] /\ \E c \in Yields(entry) : Return(entry, c, Done)
       \/ YieldPrivilege \notin privileges[Owner[entry.thread]] /\ Return(entry, entry, Refused)

\* KillProcess of another process, which asks for no privilege.
KillProcessCall(entry) ==
    /\ UNCHANGED <<devices, privileges, returned>>
    /\ \E c \in Yields(entry) : Return(entry, c, Done)

\* SleepThread of the last thread awake and KillProcess of the caller's own
\* process: RemoveProcess makes first the current thread, then Yield.  Also
\* KillThread of the last thread, which does not yield.
RemovingCall(first, entry) ==
    /\ UNCHANGED <<devices, privileges, returned>>
    /\ \E c \in Yields([entry EXCEPT !.thread = first]) : Return(entry, c, Done)

\* KillThread of the calling thread while its process has others: the current
\* thread is a null pointer, which the next switch follows.
KillThreadCall == Fail

\* The test of Process::SetSecurityPrivilege.  No process is a kernel process:
\* Main and CreateProcess leave ProcessState::Kernel clear, and nothing calls
\* SetState.
MaySet(n) == n \notin RestrictedPrivileges

\* SetSecurityPrivilege switches the bit.
Toggled(bits, n) == IF n \in bits THEN bits \ {n} ELSE bits \cup {n}

ToggleSecurityPrivilege(n, entry) ==
    LET p == Owner[entry.thread]
        granted == n <= SecurityPrivilegeCount - 1 /\ MaySet(n)
    IN  /\ UNCHANGED <<devices, returned>>
        /\ privileges' = IF granted THEN [privileges EXCEPT ![p] = Toggled(@, n)] ELSE privileges
        /\ Return(entry, entry, IF granted THEN Done ELSE Refused)

\* The bit itself goes to RBX.
SecurityPrivilegeStatus(n, entry) ==
    /\ UNCHANGED <<devices, privileges, returned>>
    /\ Return(entry, entry, IF n <= SecurityPrivilegeCount - 1 THEN Done ELSE Refused)

\* RequestProcessData.  Its thread listing runs the list of processes down to
\* the null pointer and follows that; its driver listing copies from
\* Process::driver, which is not initialised and may happen to be null.
RequestProcessData(flags, entry) ==
    LET refused == 1 \notin flags /\ flags \cap {2, 3, 4} # {}
        mayFail == 3 \in flags
        fails == 2 \in flags \/ (0 \in flags /\ vfs = Junk)
    IN  \/ /\ ~refused /\ (fails \/ mayFail)
           /\ Fail
        \/ /\ refused \/ ~fails
           /\ UNCHANGED <<devices, privileges>>
           /\ returned' = IF ~refused /\ 0 \in flags /\ vfs # Null
                          THEN returned \cup {info[vfs].parent} ELSE returned
           /\ Return(entry, entry, IF refused THEN Refused ELSE Done)

\* The calls that leave the frame, the current thread and the devices alone:
\* GetCurrentThread, the calls for shared pages and the CPU boot stub, a
\* SleepThread while another thread is awake, and those whose work is in
\* Scheduler and AddressSpaces.  InstallDriver refuses a bad address.
OtherCall(result, entry) ==
    /\ UNCHANGED <<devices, privileges, returned>>
    /\ Return(entry, entry, result)

\* A number that is not in the array of calls: RAX is written outright.
UnknownCall(entry) ==
    /\ \E c \in Received([entry EXCEPT !.frame.rax = Refused],
                          After(Chain(interrupts, SystemCallVector)), timer) : Resume(c)
    /\ UNCHANGED <<devices, privileges, returned, lost>>

\* The calls that do not yield.
PlainCall(entry) ==
    \/ \E b \in Block, d \in Description : InstallDriver(b, d, entry)
    \/ \E n \in Asked : ToggleSecurityPrivilege(n, entry)
    \/ \E n \in Asked : SecurityPrivilegeStatus(n, entry)
    \/ \E flags \in FlagSets : RequestProcessData(flags, entry)
    \/ \E result \in {Done, Refused} : OtherCall(result, entry)
    \/ UnknownCall(entry)

Next ==
    \/ \E place \in Place : Run(place)
    \/ \E vector \in Vector : Interrupt(vector)
    \/ ~lost /\ \E entry \in Entries : PlainCall(entry)
    \/ ~lost /\ \E entry \in Entries : YieldCall(entry)
    \/ ~lost /\ \E entry \in Entries : KillProcessCall(entry)
    \/ ~lost /\ \E entry \in Entries, first \in Thread : RemovingCall(first, entry)
    \/ ~lost /\ KillThreadCall

Spec == Init /\ [][Next]_vars
----------------------------------------------------------------------------
\* Type invariant.
TypeOK ==
    /\ current \in Thread
    /\ frame \in Frame /\ state \in [Thread -> Frame]
    /\ interrupts \in Seq(List(Sink) \cup {Null}) /\ Len(interrupts) = VectorCount + 1
    /\ interrupts[1] = Null /\ \A i \in 1 .. VectorCount : interrupts[i + 1] \in List(Sink)
    /\ drivers \in List(Block)
    /\ info \in [Block -> Fields \cup {Null}]
    /\ timer \in {b \in Block : info[b] # Null} \cup {Null}
    /\ vfs \in {b \in Block : info[b] # Null} \cup {Null, Junk}
    /\ privileges \in [Process -> SUBSET Privilege]
    /\ returned \subseteq Process
    /\ lost \in BOOLEAN

\* The items of s that are in T, in their order.
Select(s, T) ==
    LET chosen[i \in 0 .. Len(s)] ==
            IF i = 0 THEN <<>>
            ELSE IF s[i] \in T THEN Append(chosen[i - 1], s[i]) ELSE chosen[i - 1]
    IN  chosen[Len(s)]

\* The drivers that asked for a vector, and those that are timers.
Asking(v) == {b \in Block : info[b] # Null /\ info[b].supportsInterrupts /\ info[b].irq = v}
Timers == {b \in Block : info[b] # Null /\ Timer \in info[b].type}

\* The sinks of a vector are the drivers that asked for it, each once and in
\* the order they were installed, and the system calls come before any of
\* them: whatever is installed, in which order and by whom, InstallDriver's
\* list of drivers and the table agree, and int 0x30 keeps its handler.
ChainsInOrder ==
    \A v \in 1 .. VectorCount :
        Chain(interrupts, v) =
            (IF v = SystemCallVector THEN <<SystemCalls>> ELSE <<>>) \o Select(drivers.items, Asking(v))

\* DriverType's comment: a timer drives the scheduler "if it is the only timer
\* device".  It is the first one ever installed, and stays it.
TimerIsFirst ==
    LET timers == Select(drivers.items, Timers)
    IN  timer = IF timers = <<>> THEN Null ELSE Head(timers)

\* RequestProcessData's comment: "The VFS process is managed by the driver
\* manager.  There can only be one".  No two programs are ever told of
\* different ones, at whatever time they ask.
OneVFS == Cardinality(returned) <= 1

\* The registers the kernel goes on with when it goes on with t.
Registers(t) == IF t = current THEN frame ELSE state[t]

\* InstallDriver gives its caller IO privilege level 3.  But for the calls
\* that take the caller's process off the list, after which the frame is
\* saved as another thread's, no thread gets it in any other way: no switch,
\* by a call or by the timer before or behind it, hands RFLAGS on.
PortAccessKept ==
    [][ \A t \in Thread : ~Registers(t).iopl /\ Registers(t)'.iopl =>
          \/ t = current /\ info' # info
          \/ \E entry \in Entries, first \in Thread : RemovingCall(first, entry) ]_vars

\* SystemCallInterrupt::receive's comment takes into account that a call can
\* change the frame.  The registers of a thread that is not the current one
\* are changed only when it stands at the RIP of the frame (the result may go
\* to it), or when RemoveProcess makes it the current one before the frame is
\* saved.
OtherFramesKept ==
    [][ \A t \in Thread \ {current} :
          \/ Registers(t)' = Registers(t)
          \/ Registers(t).rip = frame.rip
          \/ \E entry \in Entries : RemovingCall(t, entry) ]_vars

\* A call that does not yield is answered in its caller's RAX, also when
\* drivers, the timer among them, share the vector of the system calls.
CallsAnswered ==
    [][ ~lost' /\ (\E entry \in Entries : PlainCall(entry)) =>
          \A t \in Thread : t = current => Registers(t)'.rax # Own ]_vars
=============================================================================
