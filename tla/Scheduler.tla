----------------------------- MODULE Scheduler -----------------------------
(***************************************************************************)
(* One processor's Scheduler (Source/Multitasking/Scheduler.cpp) together  *)
(* with the parts of Process, Thread and of the system calls               *)
(* (Source/SystemCalls/Native.cpp) that change what it schedules.  A       *)
(* system call and an interrupt run with interrupts off from their entry   *)
(* stub to IRET, so each is one action; the code it interrupts is whatever *)
(* the current thread executes.                                            *)
(*                                                                         *)
(* The variable sched is the Scheduler object, the field currentThread of  *)
(* each Process and the registers.  It is a record because the methods     *)
(* call each other: RemoveProcess, AddProcess, Wake, Sleep, YieldTo are    *)
(* functions from such a record to the next one, and a handler composes    *)
(* them in the order of its calls.                                         *)
(*                                                                         *)
(* The value of a thread's saved registers is abstracted to the thread     *)
(* whose execution they are.                                               *)
(***************************************************************************)
EXTENDS LinkedList, FiniteSets, Relation

CONSTANTS Process, Thread,   \* the objects there may ever be
          BootProcesses,     \* the sequence of boot modules Main loads
          BootThread,        \* the thread ELFLoader::Start starts in each
          Priority,          \* Process::priority
          IOBound,           \* the processes whose state has ProcessState::IOBound
          KernelHeapUserAccessible, \* may ring 3 read the kernel heap's pages?
          NullPageMapped,    \* is page 0 mapped in the directory in use?
          Calls,             \* the system calls and interrupts that happen
          MaxCount           \* bound: no list's count is driven beyond it

BootSet == {BootProcesses[i] : i \in 1..Len(BootProcesses)}

ASSUME SchedulerAssumption ==
    /\ Null \notin Process /\ Null \notin Thread
    /\ IsFiniteSet(Thread)
    /\ BootProcesses \in Seq(Process) /\ BootProcesses # <<>> /\ Len(BootProcesses) < WordSize - 1
    /\ \A i, j \in 1..Len(BootProcesses) : BootProcesses[i] = BootProcesses[j] => i = j
    /\ BootThread \in [BootSet -> Thread]
    /\ \A p, q \in BootSet : BootThread[p] = BootThread[q] => p = q
    /\ Priority \in [Process -> 0..50] /\ IOBound \subseteq Process
    /\ KernelHeapUserAccessible \in BOOLEAN /\ NullPageMapped \in BOOLEAN
    /\ MaxCount \in Nat /\ MaxCount < WordSize - 1

VARIABLES sched,     \* see above
          threads,   \* Process::threads, a LinkedList of each process
          next,      \* the Next pointer of a node KillThread took off its list
          parent,    \* Thread::parent; Null: the thread does not exist yet
          sleeping,  \* Thread::sleeping
          onReceipt, \* does Process::onReceipt hold a function?
          deleted,   \* the processes KillProcess has deleted
          timer      \* DriverInfoBlock::Parent of Scheduler::timer, or Null

vars == <<sched, threads, next, parent, sleeping, onReceipt, deleted, timer>>
----------------------------------------------------------------------------
\* "booting" until Main's Yield(0); "running"; "halted" in the cli; hlt of
\* YieldTo; "wild" once the kernel has followed a null pointer.
Mode == {"booting", "running", "halted", "wild"}

Running == sched.mode = "running"
Wild(s) == [s EXCEPT !.mode = "wild"]

EffectivePriority(p) == IF p \in IOBound THEN Priority[p] \div 2 ELSE Priority[p]

ThreadsOf(p) == {t \in Thread : parent[t] = p}

\* node->Next for the node that holds thread t of process p.
NodeAfter(p, t) ==
    IF t \in ItemsOf(threads[p]) THEN ItemAfter(threads[p], t) ELSE next[t]

\* `if(currentThread->Next == 0) currentThread = threads->First; else
\* currentThread = currentThread->Next`, of process p.  The node a Process
\* is made with is on no list and has no Next: Null stands for it.
Advance(s, p) ==
    LET n == IF s.cursor[p] = Null THEN Null ELSE NodeAfter(p, s.cursor[p])
    IN  IF n = Null THEN FirstItem(threads[p]) ELSE n

\* Seeded fault of FirstAwake: the loop is missing.
FirstAwakeUntested(p, t, asleep) == t

\* The node at which YieldTo's loop over sleeping threads stops when it
\* starts at t: the first one, following Next, whose thread is awake.  Null
\* when it reaches the end: the loop does not go back to the first node.
FirstAwake(p, t, asleep) ==
    LET mine == ThreadsOf(p)
        skips == [e \in mine \X mine |-> asleep[e[1]] /\ NodeAfter(p, e[1]) = e[2]]
        path == ReflexiveTransitiveClosure(skips, mine)
        stop == {u \in mine : path[t, u] /\ ~asleep[u]}
    IN  IF t \notin mine \/ stop = {} THEN Null ELSE CHOOSE u \in stop : TRUE

YieldTo(s, p, asleep) ==
    LET u == FirstAwake(p, Advance(s, p), asleep)
        saved == IF s.currentThread = Null THEN s.state
                 ELSE [s.state EXCEPT ![s.currentThread] = s.cpu]
    IN  IF threads[p].count = 0 THEN s
        ELSE IF u = Null THEN [s EXCEPT !.currentProcess = p, !.mode = "halted"]
        ELSE IF s.currentThread = Null /\ s.mode # "booting" THEN Wild(s)
        ELSE [s EXCEPT !.currentProcess = p,
                       !.currentThread = u,
                       !.cursor[p] = u,
                       !.state = saved,
                       !.cpu = saved[u],
                       !.mode = "running"]

\* The accumulator of Scheduler::Yield: the sum of the priorities of the
\* first i processes.
Accumulated(items) ==
    LET sum[i \in 0..Len(items)] ==
            IF i = 0 THEN 0 ELSE sum[i-1] + EffectivePriority(items[i])
    IN  sum

\* Yield draws a number from 0..totalPriority (RandomGenerator::Next can
\* return its maximum) and stops at the process whose share of the running
\* sum holds it.  The processes some draw selects:
Drawable(s) ==
    LET items == s.processes.items
        sum == Accumulated(items)
    IN  {p \in ItemsOf(s.processes) : \E i \in 1..Len(items) :
            items[i] = p /\ sum[i-1] < sum[i] /\ sum[i-1] <= s.totalPriority}

\* Does some draw select no process, so that Yield returns to its caller?
MayDrawNobody(s) ==
    \/ ItemsOf(s.processes) = {}
    \/ Accumulated(s.processes.items)[Len(s.processes.items)] <= s.totalPriority

\* The states Yield may end in.
Yield(s, asleep) ==
    {YieldTo(s, p, asleep) : p \in Drawable(s)} \cup (IF MayDrawNobody(s) THEN {s} ELSE {})
----------------------------------------------------------------------------
AddProcess(s, p) ==
    [s EXCEPT !.processes = AddItem(@, p),
              !.totalPriority = (@ + EffectivePriority(p)) % WordSize]

\* Seeded faults of TakeOff: the total is signed; nothing is subtracted.
TakeOffSigned(s, p) ==
    [s EXCEPT !.totalPriority = @ - EffectivePriority(p), !.processes = RemoveItem(@, p)]
TakeOffNoPriority(s, p) == [s EXCEPT !.processes = RemoveItem(@, p)]

\* The first two statements of RemoveProcess.
TakeOff(s, p) ==
    [s EXCEPT !.totalPriority = (@ - EffectivePriority(p)) % WordSize,
              !.processes = RemoveItem(@, p)]

\* Seeded faults of RemoveProcess: the current process is not replaced; its
\* thread is not.
RemoveProcessKeepCurrent(s, p) ==
    IF StoresThroughNull(s.processes, p) /\ ~NullPageMapped THEN Wild(s)
    ELSE TakeOff(s, p)

RemoveProcessKeepThread(s, p) ==
    LET r == RemoveProcessKeepCurrent(s, p)
        q == FirstItem(r.processes)
    IN  IF r.mode = "wild" \/ s.currentProcess # p THEN r
        ELSE IF q = Null THEN Wild(r)
        ELSE [r EXCEPT !.currentProcess = q]

\* When the current process is removed, the first process of what is left
\* becomes the current one, at its next thread, asleep or not.
RemoveProcess(s, p) ==
    LET r == TakeOff(s, p)
        q == FirstItem(r.processes)
        t == Advance(r, q)
    IN  IF StoresThroughNull(s.processes, p) /\ ~NullPageMapped THEN Wild(s)
        ELSE IF s.currentProcess # p THEN r
        ELSE IF q = Null THEN Wild(r)
        ELSE IF threads[q].items = <<>> /\ t = Null THEN Wild(r)
        ELSE [r EXCEPT !.currentProcess = q, !.currentThread = t, !.cursor[q] = t]

\* Scheduler::Sleep.  parent is 0 in every Process the kernel makes, so that
\* sendStatusChangeMessage sends nothing.
SleepProcess(s, p) ==
    LET r == RemoveProcess(s, p)
    IN  IF r.mode = "wild" THEN r
        ELSE [r EXCEPT !.sleepingProcesses = AddItem(@, p)]

\* Seeded fault of Wake: the test whether the process sleeps is missing.
WakeAnyway(s, p) ==
    AddProcess([s EXCEPT !.sleepingProcesses = RemoveItem(@, p)], p)

\* Scheduler::Wake reads sleepingProcesses->First->Value before anything.
Wake(s, p) ==
    LET asleep == s.sleepingProcesses IN
    IF asleep.items = <<>> THEN Wild(s)
    ELSE IF p \notin ItemsOf(asleep) THEN s
    ELSE IF StoresThroughNull(asleep, p) /\ ~NullPageMapped THEN Wild(s)
    ELSE AddProcess([s EXCEPT !.sleepingProcesses = RemoveItem(@, p)], p)
----------------------------------------------------------------------------
\* Main: every boot module is a process with one started thread, on the
\* process list; nothing is current until Main calls Yield(0).  n is the sum
\* of their priorities, as an unsigned int.
Init ==
    /\ \E n \in 0..WordSize-1 :
       /\ n = Accumulated(BootProcesses)[Len(BootProcesses)] % WordSize
       /\ sched = [processes |-> [items |-> BootProcesses,
                                  count |-> Len(BootProcesses),
                                  last |-> BootProcesses[Len(BootProcesses)]],
                   sleepingProcesses |-> EmptyList,
                   totalPriority |-> n,
                   currentProcess |-> Null,
                   currentThread |-> Null,
                   cursor |-> [p \in Process |-> Null],
                   state |-> [t \in Thread |-> t],
                   cpu |-> Null,
                   mode |-> "booting"]
    /\ threads = [p \in Process |-> IF p \in BootSet THEN ListOf(BootThread[p]) ELSE EmptyList]
    /\ next = [t \in Thread |-> Null]
    /\ parent = [t \in Thread |-> IF \E p \in BootSet : BootThread[p] = t
                                  THEN CHOOSE p \in BootSet : BootThread[p] = t
                                  ELSE Null]
    /\ sleeping = [t \in Thread |-> parent[t] = Null]
    /\ onReceipt = [p \in Process |-> FALSE]
    /\ deleted = {}
    /\ timer = Null

\* A Process that was made and has not been deleted.
Exists(p) == ThreadsOf(p) # {} /\ p \notin deleted

\* new Thread(..., p) followed by Thread::Start.
StartThread(t, p) ==
    LET L == threads[p] IN
    /\ parent[t] = Null
    /\ parent' = [parent EXCEPT ![t] = p]
    /\ threads' = [threads EXCEPT ![p] = AddItem(L, t)]
    /\ next' = IF L.count # 0 /\ ~Attached(L) /\ L.last # Null
               THEN [next EXCEPT ![L.last] = t]
               ELSE next
    /\ sleeping' = [sleeping EXCEPT ![t] = FALSE]

NoNewThread == UNCHANGED <<threads, next, parent, sleeping>>

\* Main's Yield(0).  The first number drawn is a constant of the generator
\* and is not its maximum, so some process is selected.
BootYield ==
    /\ sched.mode = "booting"
    /\ \E p \in Drawable(sched) : sched' = YieldTo(sched, p, sleeping)
    /\ NoNewThread
    /\ UNCHANGED <<onReceipt, deleted, timer>>

YieldCall ==
    /\ Running
    /\ sched' \in Yield(sched, sleeping)
    /\ NoNewThread
    /\ UNCHANGED <<onReceipt, deleted, timer>>

CreateThread(t) ==
    /\ Running
    /\ StartThread(t, sched.currentProcess)
    /\ sched' = Wake(sched, sched.currentProcess)
    /\ UNCHANGED <<onReceipt, deleted, timer>>

\* The address of the new thread's arguments is 0, which Thread::Start reads.
CreateProcess(p, t) ==
    /\ Running
    /\ ThreadsOf(p) = {} /\ parent[t] = Null
    /\ IF NullPageMapped
       THEN StartThread(t, p) /\ sched' = AddProcess(sched, p)
       ELSE NoNewThread /\ sched' = Wild(sched)
    /\ UNCHANGED <<onReceipt, deleted, timer>>

\* KillThread with eax = 0 (itself) or with the address of a Thread.  A
\* process that loses its last thread is taken off the process list.
KillThread(t, itself) ==
    LET p == parent[t]
        L == threads[p]
        gone == FindItem(L, t)
        s == IF itself THEN [sched EXCEPT !.currentThread = Null] ELSE sched
    IN  /\ IF StoresThroughNull(L, t) /\ ~NullPageMapped
           THEN /\ sched' = Wild(sched)
                /\ UNCHANGED <<threads, next>>
           ELSE /\ threads' = [threads EXCEPT ![p] = RemoveItem(L, t)]
                /\ next' = IF ItemsOf(L) = {} THEN next
                           ELSE [next EXCEPT ![L.items[gone]] = ItemAfter(L, L.items[gone])]
                /\ sched' = IF RemoveItem(L, t).count = 0 THEN RemoveProcess(s, p) ELSE s
        /\ UNCHANGED <<parent, sleeping, onReceipt, deleted, timer>>

KillCurrentThread ==
    /\ Running
    /\ sched.currentThread # Null
    /\ KillThread(sched.currentThread, TRUE)

\* A thread of a process that has a thread left; it may have ended itself.
KillOtherThread(t) ==
    /\ Running
    /\ KernelHeapUserAccessible
    /\ parent[t] # Null /\ parent[t] \notin deleted
    /\ ItemsOf(threads[parent[t]]) # {}
    /\ KillThread(t, FALSE)

\* KillThread and SleepThread use sched->GetCurrentThread() unchecked: after
\* KillThread(0) it is 0 until the next switch.
UseMissingThread ==
    /\ Running
    /\ sched.currentThread = Null
    /\ sched' = Wild(sched)
    /\ NoNewThread
    /\ UNCHANGED <<onReceipt, deleted, timer>>

\* Seeded fault of KillProcess: the process is not taken off the list.
KillProcessKeepListed(p) ==
    /\ Running
    /\ Exists(p)
    /\ ItemsOf(threads[p]) = {}
    /\ deleted' = deleted \cup {p}
    /\ sched' \in Yield(sched, sleeping)
    /\ NoNewThread
    /\ UNCHANGED <<onReceipt, timer>>

\* isAddressValid(eax, false): the one call that takes a kernel address.
\* ~Thread gives its stack to the kernel heap, whose address space does not
\* map it: only a process that has no thread left can be deleted.
KillProcess(p) ==
    LET s == RemoveProcess(sched, p) IN
    /\ Running
    /\ Exists(p)
    /\ IF ItemsOf(threads[p]) = {} /\ s.mode # "wild"
       THEN deleted' = deleted \cup {p} /\ sched' \in Yield(s, sleeping)
       ELSE UNCHANGED deleted /\ sched' = Wild(s)
    /\ NoNewThread
    /\ UNCHANGED <<onReceipt, timer>>

SleepThread ==
    LET p == sched.currentProcess
        s == SleepProcess(sched, p)
        allAsleep == \A t \in ItemsOf(threads[p]) : sleeping'[t]
    IN  /\ Running
        /\ sched.currentThread # Null
        /\ sleeping' = [sleeping EXCEPT ![sched.currentThread] = TRUE]
        /\ sched' \in IF ~allAsleep THEN {sched}
                      ELSE IF s.mode = "wild" THEN {s}
                      ELSE Yield(s, sleeping')
        /\ UNCHANGED <<threads, next, parent, onReceipt, deleted, timer>>

\* isAddressValid(eax, true) refuses the address of a Thread unless ring 3
\* may read the kernel heap, which holds every Thread.
WakeThread(t) ==
    /\ Running
    /\ KernelHeapUserAccessible
    /\ parent[t] # Null /\ parent[t] \notin deleted
    /\ sleeping' = [sleeping EXCEPT ![t] = FALSE]
    /\ sched' = Wake(sched, parent[t])
    /\ UNCHANGED <<threads, next, parent, onReceipt, deleted, timer>>

SetReceiptMethod ==
    /\ Running
    /\ onReceipt' = [onReceipt EXCEPT ![sched.currentProcess] = TRUE]
    /\ NoNewThread
    /\ UNCHANGED <<sched, deleted, timer>>

\* The system call: its destination is a Process, in the kernel heap too.
\* Process::SendMessage starts a thread in the destination and leaves the
\* destination on whichever list it is.  Programs leave the message code
\* InterruptReceived, whose thread KillThread treats apart, to the kernel.
SendMessage(p, t) ==
    /\ Running
    /\ KernelHeapUserAccessible
    /\ Exists(p) /\ onReceipt[p]
    /\ StartThread(t, p)
    /\ UNCHANGED <<sched, onReceipt, deleted, timer>>

\* InstallDriver of a timer, with the scheduler still without one.
InstallTimer ==
    /\ Running
    /\ timer = Null
    /\ timer' = sched.currentProcess
    /\ NoNewThread
    /\ UNCHANGED <<sched, onReceipt, deleted>>

\* DriverInterruptSource::receive of the timer: Yield.  No message follows:
\* InstallDriver makes the block with CanReceiveIRQ clear, and only KillThread
\* sets it, of a process that BecomeDriver, which nothing calls, was told of.
TimerInterrupt ==
    /\ Running
    /\ timer # Null
    /\ sched' \in Yield(sched, sleeping)
    /\ NoNewThread
    /\ UNCHANGED <<onReceipt, deleted, timer>>

\* The bound MaxCount; a count that has dropped below 0 is beyond it.
InBounds == \A L \in {sched.processes, sched.sleepingProcesses} :
                L.count < MaxCount \/ L.count = WordSize - 1

Happens(call) == call \in Calls /\ InBounds

Next ==
    \/ BootYield
    \/ Happens("Yield") /\ YieldCall
    \/ Happens("KillThread") /\ KillCurrentThread
    \/ Happens("KillThread") /\ UseMissingThread
    \/ Happens("SleepThread") /\ SleepThread
    \/ Happens("SetReceiptMethod") /\ SetReceiptMethod
    \/ Happens("Timer") /\ InstallTimer
    \/ Happens("Timer") /\ TimerInterrupt
    \/ \E t \in Thread : Happens("CreateThread") /\ CreateThread(t)
    \/ \E t \in Thread : Happens("KillThread") /\ KillOtherThread(t)
    \/ \E t \in Thread : Happens("WakeThread") /\ WakeThread(t)
    \/ \E p \in Process : Happens("KillProcess") /\ KillProcess(p)
    \/ \E p \in Process, t \in Thread : Happens("CreateProcess") /\ CreateProcess(p, t)
    \/ \E p \in Process, t \in Thread : Happens("SendMessage") /\ SendMessage(p, t)

Spec == Init /\ [][Next]_vars
----------------------------------------------------------------------------
\* Type invariant.
TypeOK ==
    /\ sched \in [processes : List(Process), sleepingProcesses : List(Process),
                  totalPriority : 0..WordSize-1,
                  currentProcess : Process \cup {Null},
                  currentThread : Thread \cup {Null},
                  cursor : [Process -> Thread \cup {Null}],
                  state : [Thread -> Thread \cup {Null}],
                  cpu : Thread \cup {Null},
                  mode : Mode]
    /\ threads \in [Process -> List(Thread)]
    /\ next \in [Thread -> Thread \cup {Null}]
    /\ parent \in [Thread -> Process \cup {Null}]
    /\ sleeping \in [Thread -> BOOLEAN]
    /\ onReceipt \in [Process -> BOOLEAN]
    /\ deleted \subseteq Process
    /\ timer \in Process \cup {Null}

\* The two process lists stay lists of different processes: no process is on
\* one of them twice or on both, and no deleted process can be drawn by
\* Yield.  RemoveProcess, called for a process that is not on the list,
\* takes off the wrong one; even so no process is ever put on twice.
QueuesSound ==
    Running => /\ NoDuplicates(sched.processes)
               /\ NoDuplicates(sched.sleepingProcesses)
               /\ ItemsOf(sched.processes) \cap ItemsOf(sched.sleepingProcesses) = {}
               /\ ItemsOf(sched.processes) \cap deleted = {}

\* The processor never runs in a process that is on the sleeping list, nor
\* in one that KillProcess has deleted: RemoveProcess always picks another
\* current process before the caller moves or deletes the removed one.
CurrentProcessRunnable ==
    Running => /\ sched.currentProcess \in Process
               /\ sched.currentProcess \notin ItemsOf(sched.sleepingProcesses)
               /\ sched.currentProcess \notin deleted

\* Scheduler::currentThread is a thread of Scheduler::currentProcess (or 0,
\* after KillThread(0)): the thread a system call acts on and the privileges
\* it is checked against belong together.  Nothing is said of the address
\* space, which RemoveProcess leaves as it was.
CurrentThreadOwned ==
    Running /\ sched.currentThread # Null =>
        parent[sched.currentThread] = sched.currentProcess

\* totalPriority is the sum of the priorities of the processes that Yield
\* walks over, so that every one of them has its share of the draw.
PriorityAccounted ==
    sched.totalPriority = Accumulated(sched.processes.items)[Len(sched.processes.items)]

\* AddProcess and RemoveProcess keep totalPriority up to date by hand, and
\* RemoveProcess may take another process off the list than the one whose
\* priority it subtracts.  As all priorities are equal, no step breaks the
\* accounting of a list that has a process before and after it, unless page
\* 0 is mapped: then a process added behind a cut-off node is counted and
\* never walked over.
PriorityAccountingKept ==
    [][ /\ Running /\ PriorityAccounted /\ sched.processes.items # <<>>
        /\ Running' /\ sched'.processes.items # <<>> /\ ~NullPageMapped
        => PriorityAccounted' ]_vars

\* A switch that is not forced by taking a process off the list never goes
\* to a thread that sleeps: what the loop in YieldTo is for.
NeverSwitchesToSleeper ==
    [][ /\ sched'.mode = "running"
        /\ sched'.processes = sched.processes
        /\ sched'.currentThread \notin {sched.currentThread, Null}
        => ~sleeping'[sched'.currentThread] ]_vars

\* YieldTo's comment on its loop over sleeping threads: running off the end
\* of the list "cannot happen because there is a separate list for sleeping
\* processes".  The cli; hlt after the loop is never executed.
NeverHalts == sched.mode # "halted"

\* YieldTo's "Save the previous thread state": what is saved as the state of
\* a thread is always the state of that thread's own execution.
SavedStateIsOwn == \A t \in Thread : sched.state[t] = t
=============================================================================
