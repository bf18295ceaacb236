-------------------------- MODULE Scheduler_proofs --------------------------
(***************************************************************************)
(* The scheduler's safety invariants, for any number of processes and      *)
(* threads, any set of system calls, whether or not ring 3 may name kernel *)
(* objects and whether or not page 0 is mapped.                            *)
(*                                                                         *)
(* SchedSound is the property every method of Scheduler keeps: a lemma per *)
(* method says so, and a handler, which composes methods, inherits it.     *)
(***************************************************************************)
EXTENDS Scheduler, LinkedList_proofs, FiniteSetTheorems

\* The values of sched.
SchedType ==
    [processes : List(Process), sleepingProcesses : List(Process),
     totalPriority : 0..WordSize-1,
     currentProcess : Process \cup {Null},
     currentThread : Thread \cup {Null},
     cursor : [Process -> Thread \cup {Null}],
     state : [Thread -> Thread \cup {Null}],
     cpu : Thread \cup {Null},
     mode : Mode]

HasThread(p, par) == \E t \in Thread : par[t] = p

\* The process lists of s: different processes, none on both, none of them
\* without a thread, none that can be drawn deleted.
ListsSound(s, par, del) ==
    /\ NoDuplicates(s.processes) /\ NoDuplicates(s.sleepingProcesses)
    /\ ItemsOf(s.processes) \cap ItemsOf(s.sleepingProcesses) = {}
    /\ ItemsOf(s.processes) \cap del = {}
    /\ \A p \in ItemsOf(s.processes) \cup ItemsOf(s.sleepingProcesses) : HasThread(p, par)

CurrentSound(s, par, del) ==
    /\ s.currentProcess \in Process
    /\ s.currentProcess \notin ItemsOf(s.sleepingProcesses)
    /\ s.currentProcess \notin del
    /\ s.currentThread # Null => par[s.currentThread] = s.currentProcess

\* par and del stand for the values of parent and deleted.
SchedSound(s, par, del) ==
    /\ s \in SchedType
    /\ \A p \in Process : s.cursor[p] # Null => par[s.cursor[p]] = p
    /\ s.mode \in {"booting", "running"} => ListsSound(s, par, del)
    /\ s.mode = "running" => CurrentSound(s, par, del)

ThreadsType ==
    /\ threads \in [Process -> List(Thread)]
    /\ next \in [Thread -> Thread \cup {Null}]
    /\ parent \in [Thread -> Process \cup {Null}]
    /\ sleeping \in [Thread -> BOOLEAN]

\* The thread list of a process, the node Last points to and what the Next
\* pointers of nodes that were cut off lead to are threads of that process.
ThreadsSound ==
    /\ ThreadsType
    /\ \A p \in Process : ItemsOf(threads[p]) \cup ({threads[p].last} \ {Null}) \subseteq ThreadsOf(p)
    /\ \A t \in Thread : next[t] # Null => parent[t] # Null /\ parent[next[t]] = parent[t]

RestSound ==
    /\ onReceipt \in [Process -> BOOLEAN]
    /\ timer \in Process \cup {Null}
    /\ deleted \subseteq Process
    /\ \A p \in deleted : HasThread(p, parent)

\* The inductive invariant.
IInv == ThreadsSound /\ RestSound /\ SchedSound(sched, parent, deleted)
----------------------------------------------------------------------------
(* Which thread a switch ends at. *)

LEMMA AdvanceType ==
    ASSUME ThreadsSound, NEW s \in SchedType, NEW p \in Process,
           s.cursor[p] # Null => parent[s.cursor[p]] = p
    PROVE  Advance(s, p) \in ThreadsOf(p) \cup {Null}
<1>1. threads[p] \in List(Thread) /\ ItemsOf(threads[p]) \subseteq ThreadsOf(p)
  BY DEF ThreadsSound, ThreadsType
<1>2. FirstItem(threads[p]) \in ThreadsOf(p) \cup {Null}
  BY <1>1, FirstItemType
<1>3. ASSUME s.cursor[p] # Null
      PROVE  NodeAfter(p, s.cursor[p]) \in ThreadsOf(p) \cup {Null}
  <2>1. s.cursor[p] \in Thread /\ parent[s.cursor[p]] = p
    BY <1>3 DEF SchedType
  <2>2. ItemAfter(threads[p], s.cursor[p]) \in ThreadsOf(p) \cup {Null}
    BY <1>1, ItemAfterType
  <2>3. next[s.cursor[p]] \in ThreadsOf(p) \cup {Null}
    BY <2>1 DEF ThreadsSound, ThreadsType, ThreadsOf
  <2> QED
    BY <2>2, <2>3 DEF NodeAfter
<1> QED
  BY <1>2, <1>3 DEF Advance

LEMMA FirstAwakeType ==
    ASSUME NEW p, NEW t, NEW asleep
    PROVE  /\ FirstAwake(p, t, asleep) \in ThreadsOf(p) \cup {Null}
           /\ FirstAwake(p, t, asleep) # Null => ~asleep[FirstAwake(p, t, asleep)]
<1> DEFINE mine == ThreadsOf(p)
           skips == [e \in mine \X mine |-> asleep[e[1]] /\ NodeAfter(p, e[1]) = e[2]]
           path == ReflexiveTransitiveClosure(skips, mine)
           stop == {u \in mine : path[t, u] /\ ~asleep[u]}
<1>1. FirstAwake(p, t, asleep) = IF t \notin mine \/ stop = {} THEN Null ELSE CHOOSE u \in stop : TRUE
  BY DEF FirstAwake
<1> HIDE DEF mine, path, skips
<1>2. \A u \in stop : u \in mine /\ ~asleep[u]
  BY Zenon
<1> HIDE DEF stop
<1>3. stop # {} => (CHOOSE u \in stop : TRUE) \in stop
  OBVIOUS
<1> QED
  BY <1>1, <1>2, <1>3 DEF mine
----------------------------------------------------------------------------
(* The methods of Scheduler. *)

LEMMA WildSound ==
    ASSUME NEW s, NEW par, NEW del, SchedSound(s, par, del)
    PROVE  SchedSound(Wild(s), par, del)
BY DEF SchedSound, SchedType, Wild, Mode

LEMMA YieldToSound ==
    ASSUME ThreadsSound, NEW s, NEW del, SchedSound(s, parent, del),
           s.mode \in {"booting", "running"},
           NEW p \in ItemsOf(s.processes), NEW asleep
    PROVE  SchedSound(YieldTo(s, p, asleep), parent, del)
<1> DEFINE u == FirstAwake(p, Advance(s, p), asleep)
           saved == IF s.currentThread = Null THEN s.state
                    ELSE [s.state EXCEPT ![s.currentThread] = s.cpu]
<1>1. /\ s \in SchedType /\ p \in Process
      /\ p \notin ItemsOf(s.sleepingProcesses) /\ p \notin del
  BY ItemsType DEF SchedSound, SchedType, ListsSound
<1>2. u \in ThreadsOf(p) \cup {Null}
  BY FirstAwakeType
<1>3. saved \in [Thread -> Thread \cup {Null}]
  BY <1>1 DEF SchedType
<1> HIDE DEF u, saved
<1>4. CASE YieldTo(s, p, asleep) = s
  BY <1>4
<1>5. CASE YieldTo(s, p, asleep) = [s EXCEPT !.currentProcess = p, !.mode = "halted"]
  <2> DEFINE r == [s EXCEPT !.currentProcess = p, !.mode = "halted"]
  <2>1. /\ r \in SchedType /\ r.processes = s.processes /\ r.sleepingProcesses = s.sleepingProcesses
        /\ r.currentProcess = p /\ r.mode = "halted" /\ r.cursor = s.cursor
    BY <1>1 DEF SchedType, Mode
  <2> HIDE DEF r
  <2>2. SchedSound(r, parent, del)
    BY <1>1, <2>1 DEF SchedSound
  <2> QED
    BY <1>5, <2>2 DEF r
<1>6. CASE YieldTo(s, p, asleep) = Wild(s)
  BY <1>6, WildSound
<1>7. ASSUME u # Null,
             YieldTo(s, p, asleep) = [s EXCEPT !.currentProcess = p, !.currentThread = u,
                                               !.cursor[p] = u, !.state = saved,
                                               !.cpu = saved[u], !.mode = "running"]
      PROVE  SchedSound(YieldTo(s, p, asleep), parent, del)
  <2> DEFINE r == YieldTo(s, p, asleep)
  <2>1. u \in Thread /\ parent[u] = p
    BY <1>2, <1>7 DEF ThreadsOf
  <2>2. r.cursor = [s.cursor EXCEPT ![p] = u] /\ s.cursor \in [Process -> Thread \cup {Null}]
    BY <1>1, <1>7 DEF SchedType
  <2>3. r \in SchedType
    <3>1. saved[u] \in Thread \cup {Null} /\ r.cursor \in [Process -> Thread \cup {Null}]
      BY <1>1, <1>3, <2>1, <2>2
    <3>2. r = [processes |-> s.processes, sleepingProcesses |-> s.sleepingProcesses,
               totalPriority |-> s.totalPriority, currentProcess |-> p, currentThread |-> u,
               cursor |-> r.cursor, state |-> saved, cpu |-> saved[u], mode |-> "running"]
      BY <1>1, <1>7, <2>2 DEF SchedType
    <3> QED
      BY <1>1, <1>3, <2>1, <3>1, <3>2 DEF SchedType, Mode
  <2>4. \A q \in Process : r.cursor[q] # Null => parent[r.cursor[q]] = q
    BY <2>1, <2>2 DEF SchedSound
  <2>5. r.processes = s.processes /\ r.sleepingProcesses = s.sleepingProcesses
    BY <1>1, <1>7 DEF SchedType
  <2>6. r.currentProcess = p /\ r.currentThread = u
    BY <1>1, <1>7 DEF SchedType
  <2> HIDE DEF r
  <2>7. ListsSound(r, parent, del)
    BY <2>5 DEF ListsSound, SchedSound
  <2>8. CurrentSound(r, parent, del)
    BY <1>1, <2>1, <2>5, <2>6 DEF CurrentSound
  <2> QED
    BY <2>3, <2>4, <2>7, <2>8 DEF SchedSound, r
<1> QED
  BY <1>4, <1>5, <1>6, <1>7 DEF YieldTo, u, saved

LEMMA YieldSound ==
    ASSUME ThreadsSound, NEW s, NEW del, SchedSound(s, parent, del), s.mode = "running",
           NEW asleep, NEW r \in Yield(s, asleep)
    PROVE  SchedSound(r, parent, del)
<1>1. Drawable(s) \subseteq ItemsOf(s.processes)
  BY DEF Drawable
<1>2. CASE \E p \in Drawable(s) : r = YieldTo(s, p, asleep)
  BY <1>1, <1>2, YieldToSound
<1>3. CASE r = s
  BY <1>3
<1> QED
  BY <1>2, <1>3 DEF Yield

LEMMA EffectivePriorityType ==
    ASSUME NEW p \in Process
    PROVE  EffectivePriority(p) \in Int
<1>1. Priority[p] \in 0..50
  BY SchedulerAssumption
<1>2. Priority[p] \div 2 \in Int
  BY <1>1
<1> QED
  BY <1>1, <1>2 DEF EffectivePriority

LEMMA TotalType ==
    ASSUME NEW n \in Int
    PROVE  n % WordSize \in 0..WordSize-1
BY WordSizeAssumption

LEMMA AddProcessSound ==
    ASSUME NEW s, NEW par, NEW del, SchedSound(s, par, del), s.mode = "running",
           NEW p \in Process, p \notin ItemsOf(s.processes), p \notin ItemsOf(s.sleepingProcesses),
           p \notin del, HasThread(p, par)
    PROVE  SchedSound(AddProcess(s, p), par, del)
<1> DEFINE r == AddProcess(s, p)
           total == (s.totalPriority + EffectivePriority(p)) % WordSize
<1>1. s \in SchedType /\ s.processes \in List(Process) /\ p # Null
  BY SchedulerAssumption DEF SchedSound, SchedType
<1>2. total \in 0..WordSize-1
  BY <1>1, EffectivePriorityType, TotalType DEF SchedType
<1>3. AddItem(s.processes, p) \in List(Process)
  BY <1>1, AddItemCases
<1>4. r = [s EXCEPT !.processes = AddItem(s.processes, p), !.totalPriority = total]
  BY <1>1 DEF AddProcess, SchedType
<1> HIDE DEF r, total
<1>5. /\ r \in SchedType /\ r.processes = AddItem(s.processes, p)
      /\ r.sleepingProcesses = s.sleepingProcesses /\ r.cursor = s.cursor /\ r.mode = s.mode
      /\ r.currentProcess = s.currentProcess /\ r.currentThread = s.currentThread
  BY <1>1, <1>2, <1>3, <1>4 DEF SchedType
<1>6. /\ NoDuplicates(r.processes)
      /\ ItemsOf(r.processes) \subseteq ItemsOf(s.processes) \cup {p}
  BY <1>1, <1>5, AddItemKeeps DEF SchedSound, ListsSound
<1>7. ListsSound(r, par, del)
  BY <1>5, <1>6 DEF SchedSound, ListsSound
<1>8. CurrentSound(r, par, del)
  BY <1>5 DEF SchedSound, CurrentSound
<1> QED
  BY <1>5, <1>7, <1>8 DEF SchedSound, r

\* Whatever process it is called for, RemoveProcess leaves sound lists on
\* which that process is not to be drawn, and a current process that is
\* another one.
LEMMA RemoveProcessSound ==
    ASSUME ThreadsSound, NEW s, NEW del, SchedSound(s, parent, del), s.mode = "running",
           NEW p \in Process
    PROVE  /\ SchedSound(RemoveProcess(s, p), parent, del)
           /\ RemoveProcess(s, p).mode \in {"running", "wild"}
           /\ RemoveProcess(s, p).mode = "running" =>
                /\ p \notin ItemsOf(RemoveProcess(s, p).processes)
                /\ RemoveProcess(s, p).currentProcess # p
                /\ RemoveProcess(s, p).sleepingProcesses = s.sleepingProcesses
<1> DEFINE total == (s.totalPriority - EffectivePriority(p)) % WordSize
           r == [s EXCEPT !.totalPriority = total, !.processes = RemoveItem(s.processes, p)]
           q == FirstItem(r.processes)
           t == Advance(r, q)
           r2 == [r EXCEPT !.currentProcess = q, !.currentThread = t, !.cursor[q] = t]
<1>1. s \in SchedType /\ s.processes \in List(Process)
  BY DEF SchedSound, SchedType
<1>2. total \in 0..WordSize-1
  BY <1>1, EffectivePriorityType, TotalType DEF SchedType
<1>3. RemoveItem(s.processes, p) \in List(Process)
  BY <1>1, RemoveItemCases
<1>4. r = [s EXCEPT !.totalPriority = (@ - EffectivePriority(p)) % WordSize,
                    !.processes = RemoveItem(@, p)]
  BY <1>1 DEF SchedType
<1>5. \/ RemoveProcess(s, p) = Wild(s)
      \/ RemoveProcess(s, p) = Wild(r)
      \/ s.currentProcess # p /\ RemoveProcess(s, p) = r
      \/ q # Null /\ RemoveProcess(s, p) = r2
  BY <1>4 DEF RemoveProcess, TakeOff
<1> HIDE DEF total, r
<1>6. /\ r \in SchedType /\ r.processes = RemoveItem(s.processes, p)
      /\ r.sleepingProcesses = s.sleepingProcesses /\ r.cursor = s.cursor /\ r.mode = s.mode
      /\ r.currentProcess = s.currentProcess /\ r.currentThread = s.currentThread
  BY <1>1, <1>2, <1>3 DEF SchedType, r
<1>7. /\ NoDuplicates(r.processes) /\ p \notin ItemsOf(r.processes)
      /\ ItemsOf(r.processes) \subseteq ItemsOf(s.processes)
  BY <1>1, <1>6, RemoveItemKeeps DEF SchedSound, ListsSound
<1>8. ListsSound(r, parent, del)
  BY <1>6, <1>7 DEF SchedSound, ListsSound
<1>9. SchedSound(r, parent, del)
  <2>1. CurrentSound(r, parent, del)
    BY <1>6 DEF SchedSound, CurrentSound
  <2> QED
    BY <1>6, <1>8, <2>1 DEF SchedSound
<1>10. CASE RemoveProcess(s, p) = Wild(s) \/ RemoveProcess(s, p) = Wild(r)
  <2>1. Wild(s).mode = "wild" /\ Wild(r).mode = "wild"
    BY <1>1, <1>6 DEF Wild, SchedType
  <2> QED
    BY <1>9, <1>10, <2>1, WildSound
<1>11. CASE s.currentProcess # p /\ RemoveProcess(s, p) = r
  BY <1>6, <1>7, <1>9, <1>11
<1>12. CASE q # Null /\ RemoveProcess(s, p) = r2
  <2>1. q \in ItemsOf(r.processes) /\ q \in Process
    BY <1>6, <1>12, FirstItemType, ItemsType DEF SchedType
  <2>2. t \in ThreadsOf(q) \cup {Null}
    BY <1>6, <2>1, AdvanceType DEF SchedSound
  <2> HIDE DEF t, q
  <2>3. (t # Null => parent[t] = q) /\ t \in Thread \cup {Null}
    BY <2>2 DEF ThreadsOf
  <2>4. /\ r2.processes = r.processes /\ r2.sleepingProcesses = r.sleepingProcesses
        /\ r2.currentProcess = q /\ r2.currentThread = t
        /\ r2.cursor = [r.cursor EXCEPT ![q] = t] /\ r2.mode = r.mode
    BY <1>6 DEF SchedType
  <2> HIDE DEF r2
  <2>5. r2 \in SchedType
    <3>1. r2.cursor \in [Process -> Thread \cup {Null}]
      <4>1. r.cursor \in [Process -> Thread \cup {Null}]
        BY <1>6 DEF SchedType
      <4> QED
        BY <2>1, <2>3, <2>4, <4>1
    <3>2. r2 = [processes |-> r.processes, sleepingProcesses |-> r.sleepingProcesses,
                totalPriority |-> r.totalPriority, currentProcess |-> q, currentThread |-> t,
                cursor |-> [r.cursor EXCEPT ![q] = t], state |-> r.state, cpu |-> r.cpu,
                mode |-> r.mode]
      <4>1. r = [processes |-> r.processes, sleepingProcesses |-> r.sleepingProcesses,
                 totalPriority |-> r.totalPriority, currentProcess |-> r.currentProcess,
                 currentThread |-> r.currentThread, cursor |-> r.cursor, state |-> r.state,
                 cpu |-> r.cpu, mode |-> r.mode]
        BY <1>6 DEF SchedType
      <4>2. r2 = [[r EXCEPT !.currentProcess = q, !.currentThread = t]
                    EXCEPT !.cursor = [r.cursor EXCEPT ![q] = t]]
        BY <4>1 DEF r2
      <4> QED
        BY <4>1, <4>2
    <3> QED
      BY <1>6, <2>1, <2>3, <2>4, <3>1, <3>2 DEF SchedType
  <2>6. \A c \in Process : r2.cursor[c] # Null => parent[r2.cursor[c]] = c
    BY <1>6, <2>3, <2>4 DEF SchedSound, SchedType
  <2>7. ListsSound(r2, parent, del)
    BY <1>8, <2>4 DEF ListsSound
  <2>8. CurrentSound(r2, parent, del)
    BY <1>8, <2>1, <2>3, <2>4 DEF CurrentSound, ListsSound
  <2>9. SchedSound(r2, parent, del)
    BY <2>5, <2>6, <2>7, <2>8 DEF SchedSound
  <2> QED
    BY <1>6, <1>7, <1>12, <2>1, <2>4, <2>9
<1> QED
  BY <1>5, <1>10, <1>11, <1>12

\* Scheduler::Sleep of the current process, the only one it is called for.
LEMMA SleepProcessSound ==
    ASSUME ThreadsSound, NEW s, NEW del, SchedSound(s, parent, del), s.mode = "running",
           HasThread(s.currentProcess, parent)
    PROVE  /\ SchedSound(SleepProcess(s, s.currentProcess), parent, del)
           /\ SleepProcess(s, s.currentProcess).mode \in {"running", "wild"}
<1> DEFINE p == s.currentProcess
           r == RemoveProcess(s, p)
           r2 == [r EXCEPT !.sleepingProcesses = AddItem(r.sleepingProcesses, p)]
<1>1. p \in Process /\ p \notin ItemsOf(s.sleepingProcesses) /\ p # Null
  BY SchedulerAssumption DEF SchedSound, CurrentSound
<1>2. /\ SchedSound(r, parent, del) /\ r.mode \in {"running", "wild"}
      /\ r.mode = "running" => /\ p \notin ItemsOf(r.processes) /\ r.currentProcess # p
                               /\ r.sleepingProcesses = s.sleepingProcesses
  BY <1>1, RemoveProcessSound
<1>3. r \in SchedType /\ r.sleepingProcesses \in List(Process)
  BY <1>2 DEF SchedSound, SchedType
<1>4. SleepProcess(s, p) = IF r.mode = "wild" THEN r ELSE r2
  BY <1>3 DEF SleepProcess, SchedType
<1> HIDE DEF r
<1>5. CASE r.mode = "wild"
  BY <1>2, <1>4, <1>5
<1>6. CASE r.mode = "running"
  <2>1. AddItem(r.sleepingProcesses, p) \in List(Process)
    BY <1>1, <1>3, AddItemCases
  <2>2. /\ r2 \in SchedType /\ r2.sleepingProcesses = AddItem(r.sleepingProcesses, p)
        /\ r2.processes = r.processes /\ r2.cursor = r.cursor /\ r2.mode = r.mode
        /\ r2.currentProcess = r.currentProcess /\ r2.currentThread = r.currentThread
    BY <1>3, <2>1 DEF SchedType
  <2> HIDE DEF r2
  <2>3. /\ NoDuplicates(r2.sleepingProcesses)
        /\ ItemsOf(r2.sleepingProcesses) \subseteq ItemsOf(r.sleepingProcesses) \cup {p}
    BY <1>1, <1>2, <1>3, <1>6, <2>2, AddItemKeeps DEF SchedSound, ListsSound
  <2>4. ListsSound(r2, parent, del)
    BY <1>2, <1>6, <2>2, <2>3 DEF SchedSound, ListsSound
  <2>5. CurrentSound(r2, parent, del)
    BY <1>2, <1>6, <2>2, <2>3 DEF SchedSound, CurrentSound
  <2>6. SchedSound(r2, parent, del)
    BY <1>2, <2>2, <2>4, <2>5 DEF SchedSound
  <2> QED
    BY <1>4, <1>6, <2>2, <2>6
<1> QED
  BY <1>2, <1>5, <1>6

LEMMA WakeSound ==
    ASSUME NEW s, NEW par, NEW del, SchedSound(s, par, del), s.mode = "running",
           NEW p \in Process, p \notin del
    PROVE  SchedSound(Wake(s, p), par, del)
<1> DEFINE awake == RemoveItem(s.sleepingProcesses, p)
           r == [s EXCEPT !.sleepingProcesses = awake]
<1>1. s \in SchedType /\ s.sleepingProcesses \in List(Process) /\ ListsSound(s, par, del)
  BY DEF SchedSound, SchedType
<1>2. \/ Wake(s, p) = Wild(s)
      \/ Wake(s, p) = s
      \/ p \in ItemsOf(s.sleepingProcesses) /\ Wake(s, p) = AddProcess(r, p)
  BY <1>1 DEF Wake, SchedType
<1>3. CASE Wake(s, p) = Wild(s)
  BY <1>3, WildSound
<1>4. CASE p \in ItemsOf(s.sleepingProcesses) /\ Wake(s, p) = AddProcess(r, p)
  <2>1. /\ awake \in List(Process) /\ NoDuplicates(awake) /\ p \notin ItemsOf(awake)
        /\ ItemsOf(awake) \subseteq ItemsOf(s.sleepingProcesses)
    BY <1>1, RemoveItemCases, RemoveItemKeeps DEF ListsSound
  <2>2. /\ r \in SchedType /\ r.sleepingProcesses = awake /\ r.processes = s.processes
        /\ r.cursor = s.cursor /\ r.mode = s.mode
        /\ r.currentProcess = s.currentProcess /\ r.currentThread = s.currentThread
    BY <1>1, <2>1 DEF SchedType
  <2> HIDE DEF r, awake
  <2>3. ListsSound(r, par, del)
    BY <1>1, <2>1, <2>2 DEF ListsSound
  <2>4. CurrentSound(r, par, del)
    BY <2>1, <2>2 DEF SchedSound, CurrentSound
  <2>5. SchedSound(r, par, del)
    BY <2>2, <2>3, <2>4 DEF SchedSound
  <2>6. p \notin ItemsOf(r.processes) /\ p \notin ItemsOf(r.sleepingProcesses) /\ HasThread(p, par)
    BY <1>1, <1>4, <2>1, <2>2 DEF ListsSound
  <2> QED
    BY <1>4, <2>2, <2>5, <2>6, AddProcessSound
<1> QED
  BY <1>2, <1>3, <1>4
----------------------------------------------------------------------------
(* What a change of parent, deleted or the thread lists leaves as it was. *)

\* A new thread of any process disturbs nothing the scheduler holds.
LEMMA ParentGrows ==
    ASSUME NEW s, NEW par, NEW par2, NEW del, SchedSound(s, par, del),
           \A u \in Thread : par[u] # Null => par2[u] = par[u]
    PROVE  SchedSound(s, par2, del)
<1>1. s \in SchedType /\ Null \notin Process
  BY SchedulerAssumption DEF SchedSound
<1>2. \A p \in Process : HasThread(p, par) => HasThread(p, par2)
  BY <1>1 DEF HasThread
<1>3. \A p \in Process : s.cursor[p] # Null => par2[s.cursor[p]] = p
  BY <1>1 DEF SchedSound, SchedType
<1>4. ListsSound(s, par, del) => ListsSound(s, par2, del)
  <2>1. ItemsOf(s.processes) \subseteq Process /\ ItemsOf(s.sleepingProcesses) \subseteq Process
    BY <1>1, ItemsType DEF SchedType
  <2> QED
    BY <1>2, <2>1 DEF ListsSound
<1>5. CurrentSound(s, par, del) => CurrentSound(s, par2, del)
  BY <1>1 DEF CurrentSound, SchedType
<1> QED
  BY <1>1, <1>3, <1>4, <1>5 DEF SchedSound

\* A process that neither runs nor can be drawn may be deleted.
LEMMA DeletedGrows ==
    ASSUME NEW s, NEW par, NEW del, NEW p, SchedSound(s, par, del),
           s.mode \in {"running", "wild"},
           s.mode = "running" => p \notin ItemsOf(s.processes) /\ s.currentProcess # p
    PROVE  SchedSound(s, par, del \cup {p})
BY DEF SchedSound, ListsSound, CurrentSound

LEMMA StartThreadSound ==
    ASSUME ThreadsSound, NEW t \in Thread, NEW p \in Process, StartThread(t, p)
    PROVE  /\ ThreadsSound'
           /\ parent'[t] = p
           /\ \A u \in Thread : parent[u] # Null => parent'[u] = parent[u]
<1> DEFINE L == threads[p]
           N == AddItem(L, t)
<1>1. /\ ThreadsType /\ Null \notin Thread /\ Null \notin Process
      /\ L \in List(Thread)
  BY SchedulerAssumption DEF ThreadsSound, ThreadsType
<1>2. /\ parent \in [Thread -> Process \cup {Null}]
      /\ parent' = [parent EXCEPT ![t] = p] /\ parent[t] = Null
      /\ threads \in [Process -> List(Thread)]
      /\ threads' = [threads EXCEPT ![p] = N]
      /\ next \in [Thread -> Thread \cup {Null}]
  BY <1>1 DEF ThreadsType, StartThread
<1>3. /\ N \in List(Thread) /\ ItemsOf(N) \subseteq ItemsOf(L) \cup {t} /\ N.last = t
  BY <1>1, AddItemCases, AddItemKeeps DEF AddItem, ListOf
<1>4. ItemsOf(L) \cup ({L.last} \ {Null}) \subseteq ThreadsOf(p)
  BY DEF ThreadsSound
<1> HIDE DEF L, N
<1>5. /\ parent' \in [Thread -> Process \cup {Null}] /\ parent'[t] = p
      /\ \A u \in Thread : parent[u] # Null => parent'[u] = parent[u]
  BY <1>2
<1>6. \A q \in Process : ThreadsOf(q) \subseteq ThreadsOf(q)'
  BY <1>1, <1>5 DEF ThreadsOf
<1>7. \/ next' = next
      \/ L.last \in ThreadsOf(p) /\ next' = [next EXCEPT ![L.last] = t]
  BY <1>4 DEF StartThread, L
<1>8. ThreadsType'
  <2>1. threads' \in [Process -> List(Thread)]
    BY <1>2, <1>3
  <2>2. next' \in [Thread -> Thread \cup {Null}]
    BY <1>2, <1>7
  <2>3. sleeping' \in [Thread -> BOOLEAN]
    BY <1>1 DEF StartThread, ThreadsType
  <2> QED
    BY <1>5, <2>1, <2>2, <2>3 DEF ThreadsType
<1>9. ASSUME NEW q \in Process
      PROVE  ItemsOf(threads'[q]) \cup ({threads'[q].last} \ {Null}) \subseteq ThreadsOf(q)'
  <2>1. t \in ThreadsOf(p)'
    BY <1>5 DEF ThreadsOf
  <2>2. CASE q = p
    BY <1>2, <1>3, <1>4, <1>6, <2>1, <2>2
  <2>3. CASE q # p
    <3>1. threads'[q] = threads[q]
      BY <1>2, <2>3
    <3> QED
      BY <1>6, <3>1 DEF ThreadsSound
  <2> QED
    BY <2>2, <2>3
<1>10. ASSUME NEW u \in Thread, next'[u] # Null
       PROVE  parent'[u] # Null /\ parent'[next'[u]] = parent'[u]
  <2>1. CASE next'[u] = next[u]
    <3>1. next[u] \in Thread /\ parent[u] # Null /\ parent[next[u]] = parent[u]
      BY <1>2, <1>10, <2>1 DEF ThreadsSound
    <3> QED
      BY <1>5, <2>1, <3>1
  <2>2. CASE u = L.last /\ L.last \in ThreadsOf(p) /\ next'[u] = t
    <3>1. parent[u] = p
      BY <2>2 DEF ThreadsOf
    <3> QED
      BY <1>1, <1>5, <2>2, <3>1
  <2> QED
    BY <1>2, <1>7, <2>1, <2>2
<1> QED
  BY <1>5, <1>8, <1>9, <1>10 DEF ThreadsSound

LEMMA SleepingChanges ==
    ASSUME ThreadsSound, sleeping' \in [Thread -> BOOLEAN], UNCHANGED <<threads, next, parent>>
    PROVE  ThreadsSound'
BY DEF ThreadsSound, ThreadsType, ThreadsOf

LEMMA RestGrows ==
    ASSUME RestSound, UNCHANGED <<onReceipt, deleted, timer>>,
           \A u \in Thread : parent[u] # Null => parent'[u] = parent[u]
    PROVE  RestSound'
<1>1. Null \notin Process
  BY SchedulerAssumption
<1> QED
  BY <1>1 DEF RestSound, HasThread
----------------------------------------------------------------------------
(* Every action keeps the inductive invariant. *)

LEMMA InitSound == Init => IInv
<1> SUFFICES ASSUME Init PROVE IInv
  OBVIOUS
<1> DEFINE n == Len(BootProcesses)
<1>1. /\ BootProcesses \in Seq(Process) /\ n \in 1..WordSize-1 /\ WordSize \in Nat /\ WordSize > 1
      /\ \A i \in 1..n : BootProcesses[i] \in BootSet /\ BootProcesses[i] \in Process
      /\ \A i, j \in 1..n : BootProcesses[i] = BootProcesses[j] => i = j
  <2>1. n \in Nat \ {0}
    BY SchedulerAssumption, EmptySeq, LenProperties
  <2>2. \A i \in 1..n : BootProcesses[i] \in Process
    BY SchedulerAssumption, ElementOfSeq
  <2> QED
    BY <2>1, <2>2, SchedulerAssumption, WordSizeAssumption DEF BootSet
<1>2. /\ BootSet \subseteq Process
      /\ \A p \in BootSet : BootThread[p] \in Thread /\ parent[BootThread[p]] = p
      /\ \A t \in Thread : parent[t] # Null => parent[t] \in BootSet
      /\ parent \in [Thread -> Process \cup {Null}]
  <2>1. BootSet \subseteq Process
    BY <1>1 DEF BootSet
  <2>2. /\ \A p \in BootSet : BootThread[p] \in Thread
        /\ \A p, q \in BootSet : BootThread[p] = BootThread[q] => p = q
    BY SchedulerAssumption
  <2>3. parent = [t \in Thread |-> IF \E p \in BootSet : BootThread[p] = t
                                   THEN CHOOSE p \in BootSet : BootThread[p] = t
                                   ELSE Null]
    BY DEF Init
  <2>4. ASSUME NEW p \in BootSet PROVE parent[BootThread[p]] = p
    <3>1. (CHOOSE q \in BootSet : BootThread[q] = BootThread[p]) = p
      BY <2>2
    <3> QED
      BY <2>2, <2>3, <3>1
  <2>5. ASSUME NEW t \in Thread
        PROVE  parent[t] \in BootSet \cup {Null}
    <3>1. CASE \E p \in BootSet : BootThread[p] = t
      BY <2>4, <3>1
    <3>2. CASE ~ \E p \in BootSet : BootThread[p] = t
      BY <2>3, <3>2
    <3> QED
      BY <3>1, <3>2
  <2> QED
    BY <2>1, <2>2, <2>3, <2>4, <2>5
<1> DEFINE boot == [items |-> BootProcesses, count |-> n, last |-> BootProcesses[n]]
<1>3. PICK total \in 0..WordSize-1 :
         sched = [processes |-> boot, sleepingProcesses |-> EmptyList, totalPriority |-> total,
                  currentProcess |-> Null, currentThread |-> Null,
                  cursor |-> [p \in Process |-> Null], state |-> [t \in Thread |-> t],
                  cpu |-> Null, mode |-> "booting"]
  BY DEF Init
<1>4. boot \in List(Process) /\ NoDuplicates(boot) /\ ItemsOf(boot) \subseteq BootSet
  <2>1. BootProcesses \in Seq(Process \cup {Null}) /\ BootProcesses[n] \in Process
    BY <1>1, ElementOfSeq, SeqDef
  <2> QED
    BY <1>1, <2>1 DEF List, NoDuplicates, ItemsOf, BootSet
<1>5. /\ EmptyList \in List(Process) /\ EmptyList \in List(Thread)
      /\ NoDuplicates(EmptyList) /\ ItemsOf(EmptyList) = {} /\ EmptyList.last = Null
  <2>1. \A S : <<Null>> \in Seq(S \cup {Null})
    OBVIOUS
  <2> QED
    BY <1>1, <2>1 DEF EmptyList, List, NoDuplicates, ItemsOf
<1> HIDE DEF boot
<1>6. SchedSound(sched, parent, deleted)
  <2>1. sched \in SchedType
    BY <1>3, <1>4, <1>5 DEF SchedType, Mode
  <2>2. ListsSound(sched, parent, deleted)
    <3>1. deleted = {}
      BY DEF Init
    <3> QED
      BY <1>2, <1>3, <1>4, <1>5, <3>1 DEF ListsSound, HasThread
  <2> QED
    BY <1>3, <2>1, <2>2 DEF SchedSound
<1>7. ThreadsSound
  <2>1. threads = [p \in Process |-> IF p \in BootSet THEN ListOf(BootThread[p]) ELSE EmptyList]
    BY DEF Init
  <2>2. ASSUME NEW p \in BootSet
        PROVE  /\ ListOf(BootThread[p]) \in List(Thread)
               /\ ItemsOf(ListOf(BootThread[p])) \subseteq {BootThread[p]}
               /\ ListOf(BootThread[p]).last = BootThread[p]
    <3>1. <<BootThread[p]>> \in Seq(Thread \cup {Null}) /\ 1 \in 0..WordSize-1
      BY <1>1, <1>2
    <3> QED
      BY <1>2, <3>1 DEF ListOf, List, ItemsOf
  <2>3. threads \in [Process -> List(Thread)]
    BY <1>5, <2>1, <2>2
  <2>4. ASSUME NEW p \in Process
        PROVE  ItemsOf(threads[p]) \cup ({threads[p].last} \ {Null}) \subseteq ThreadsOf(p)
    <3>1. CASE p \in BootSet
      BY <1>2, <2>1, <2>2, <3>1 DEF ThreadsOf
    <3>2. CASE p \notin BootSet
      BY <1>5, <2>1, <3>2
    <3> QED
      BY <3>1, <3>2
  <2>5. next \in [Thread -> Thread \cup {Null}] /\ \A t \in Thread : next[t] = Null
    BY DEF Init
  <2>6. sleeping \in [Thread -> BOOLEAN]
    BY DEF Init
  <2> QED
    BY <1>2, <2>3, <2>4, <2>5, <2>6 DEF ThreadsSound, ThreadsType
<1>8. RestSound
  BY DEF Init, RestSound
<1> QED
  BY <1>6, <1>7, <1>8 DEF IInv

LEMMA KillThreadSound ==
    ASSUME IInv, Running, NEW t \in Thread, NEW itself \in BOOLEAN, KillThread(t, itself),
           parent[t] \in Process
    PROVE  IInv'
<1> DEFINE p == parent[t]
           L == threads[p]
           R == RemoveItem(L, t)
           node == L.items[FindItem(L, t)]
           s == IF itself THEN [sched EXCEPT !.currentThread = Null] ELSE sched
<1>1. /\ ThreadsSound /\ ThreadsType /\ RestSound /\ SchedSound(sched, parent, deleted)
      /\ sched \in SchedType /\ sched.mode = "running" /\ Null \notin Thread
      /\ L \in List(Thread) /\ ItemsOf(L) \subseteq ThreadsOf(p)
  BY SchedulerAssumption DEF IInv, ThreadsSound, ThreadsType, SchedSound, Running
<1>2. UNCHANGED <<parent, sleeping, onReceipt, deleted, timer>>
  BY DEF KillThread
<1>3. RestSound'
  BY <1>1, <1>2 DEF RestSound, HasThread
<1>4. CASE sched' = Wild(sched) /\ UNCHANGED <<threads, next>>
  <2>1. SchedSound(sched', parent', deleted')
    BY <1>1, <1>2, <1>4, WildSound
  <2>2. ThreadsSound'
    BY <1>1, <1>2, <1>4, SleepingChanges DEF ThreadsType
  <2> QED
    BY <1>3, <2>1, <2>2 DEF IInv
<1>5. CASE /\ threads' = [threads EXCEPT ![p] = R]
           /\ next' = IF ItemsOf(L) = {} THEN next ELSE [next EXCEPT ![node] = ItemAfter(L, node)]
           /\ sched' = IF R.count = 0 THEN RemoveProcess(s, p) ELSE s
  <2>1. /\ R \in List(Thread) /\ ItemsOf(R) \subseteq ItemsOf(L) /\ R.last = L.last
    <3>1. L \in List(Thread)
      BY <1>1
    <3>2. R.last = L.last
      BY <3>1 DEF RemoveItem, List
    <3> QED
      BY <3>1, <3>2, RemoveItemCases, RemoveItemKeeps
  <2>2. \/ next' = next
        \/ node \in ThreadsOf(p) \cup {Null} /\ next' = [next EXCEPT ![node] = ItemAfter(L, node)]
    <3>1. CASE L.items = <<>>
      <4>1. ItemsOf(L) = {}
        BY <3>1, EmptySeq DEF ItemsOf
      <4> QED
        BY <1>5, <4>1
    <3>2. CASE L.items # <<>>
      <4>1. node \in ItemsOf(L) \cup {Null}
        BY <1>1, <3>2, FindItemCorrect DEF ItemsOf
      <4> QED
        BY <1>1, <1>5, <4>1
    <3> QED
      BY <3>1, <3>2
  <2>3. ItemAfter(L, node) \in ThreadsOf(p) \cup {Null}
    BY <1>1, ItemAfterType
  <2> HIDE DEF L, R, node
  <2>4. ThreadsType'
    <3>1. threads' \in [Process -> List(Thread)]
      BY <1>1, <1>5, <2>1 DEF ThreadsType
    <3>2. next' \in [Thread -> Thread \cup {Null}]
      BY <1>1, <2>2, <2>3 DEF ThreadsType, ThreadsOf
    <3> QED
      BY <1>1, <1>2, <3>1, <3>2 DEF ThreadsType
  <2>5. ASSUME NEW q \in Process
        PROVE  ItemsOf(threads'[q]) \cup ({threads'[q].last} \ {Null}) \subseteq ThreadsOf(q)'
    <3>1. ThreadsOf(q)' = ThreadsOf(q)
      BY <1>2 DEF ThreadsOf
    <3>2. ItemsOf(threads[q]) \cup ({threads[q].last} \ {Null}) \subseteq ThreadsOf(q)
      BY <1>1 DEF ThreadsSound
    <3>3. CASE q = p
      <4>1. threads'[q] = R
        BY <1>1, <1>5, <3>3 DEF ThreadsType
      <4> QED
        BY <2>1, <3>1, <3>2, <3>3, <4>1 DEF L
    <3>4. CASE q # p
      BY <1>1, <1>5, <3>1, <3>2, <3>4 DEF ThreadsType
    <3> QED
      BY <3>3, <3>4
  <2>6. ASSUME NEW u \in Thread, next'[u] # Null
        PROVE  parent'[u] # Null /\ parent'[next'[u]] = parent'[u]
    <3>1. CASE next'[u] = next[u]
      BY <1>1, <1>2, <2>6, <3>1 DEF ThreadsSound
    <3>2. CASE u = node /\ node \in ThreadsOf(p) /\ next'[u] = ItemAfter(L, node)
      <4>1. next'[u] \in ThreadsOf(p) /\ u \in ThreadsOf(p) /\ p # Null
        BY <2>3, <2>6, <3>2, SchedulerAssumption
      <4> QED
        BY <1>2, <4>1 DEF ThreadsOf
    <3> QED
      BY <1>1, <2>2, <3>1, <3>2 DEF ThreadsType
  <2>7. ThreadsSound'
    BY <2>4, <2>5, <2>6 DEF ThreadsSound
  <2>8. SchedSound(s, parent, deleted) /\ s.mode = "running"
    <3>1. CASE s = sched
      BY <1>1, <3>1
    <3>2. CASE s = [sched EXCEPT !.currentThread = Null]
      <4>1. /\ s \in SchedType /\ s.mode = sched.mode /\ s.cursor = sched.cursor
            /\ s.processes = sched.processes /\ s.sleepingProcesses = sched.sleepingProcesses
            /\ s.currentProcess = sched.currentProcess /\ s.currentThread = Null
        BY <1>1, <3>2 DEF SchedType
      <4> HIDE DEF s
      <4> QED
        BY <1>1, <4>1 DEF SchedSound, ListsSound, CurrentSound
    <3> QED
      BY <3>1, <3>2
  <2>9. SchedSound(RemoveProcess(s, p), parent, deleted)
    BY <1>1, <2>8, RemoveProcessSound
  <2>10. SchedSound(sched', parent', deleted')
    BY <1>2, <1>5, <2>8, <2>9
  <2> QED
    BY <1>3, <2>7, <2>10 DEF IInv
<1> QED
  BY <1>4, <1>5 DEF KillThread

\* The step of a system call that starts thread t in process p and then puts
\* the scheduler in the state s.
LEMMA NewThreadSound ==
    ASSUME IInv, NEW t \in Thread, NEW p \in Process, StartThread(t, p),
           NEW s, SchedSound(s, parent, deleted), sched' = s,
           UNCHANGED <<onReceipt, deleted, timer>>
    PROVE  IInv'
<1>1. ThreadsSound /\ RestSound
  BY DEF IInv
<1>2. /\ ThreadsSound'
      /\ \A u \in Thread : parent[u] # Null => parent'[u] = parent[u]
  BY <1>1, StartThreadSound
<1>3. SchedSound(s, parent', deleted)
  BY <1>2, ParentGrows
<1>4. RestSound'
  BY <1>1, <1>2, RestGrows
<1> QED
  BY <1>2, <1>3, <1>4 DEF IInv

\* The step of a handler that leaves all threads and lists of threads alone.
LEMMA NoNewThreadSound ==
    ASSUME IInv, NoNewThread, SchedSound(sched', parent, deleted),
           onReceipt' \in [Process -> BOOLEAN], timer' \in Process \cup {Null},
           UNCHANGED deleted
    PROVE  IInv'
<1>1. ThreadsSound'
  BY SleepingChanges DEF IInv, ThreadsSound, ThreadsType, NoNewThread
<1>2. RestSound'
  BY DEF IInv, RestSound, HasThread, NoNewThread
<1> QED
  BY <1>1, <1>2 DEF IInv, NoNewThread

LEMMA KillProcessSound ==
    ASSUME IInv, NEW p \in Process, KillProcess(p)
    PROVE  IInv'
<1> DEFINE s == RemoveProcess(sched, p)
           del == deleted \cup {p}
<1>1. /\ ThreadsSound /\ RestSound /\ SchedSound(sched, parent, deleted)
      /\ sched.mode = "running"
  BY DEF IInv, KillProcess, Running
<1>2. /\ SchedSound(s, parent, deleted) /\ s.mode \in {"running", "wild"}
      /\ s.mode = "running" => p \notin ItemsOf(s.processes) /\ s.currentProcess # p
  BY <1>1, RemoveProcessSound
<1>3. \/ deleted' = del /\ s.mode = "running" /\ sched' \in Yield(s, sleeping)
      \/ deleted' = deleted /\ sched' = Wild(s)
  BY <1>2 DEF KillProcess
<1> HIDE DEF s
<1>4. SchedSound(sched', parent, deleted')
  <2>1. CASE deleted' = del /\ s.mode = "running" /\ sched' \in Yield(s, sleeping)
    <3>1. SchedSound(s, parent, del)
      BY <1>2, <2>1, DeletedGrows
    <3> QED
      BY <1>1, <2>1, <3>1, YieldSound
  <2>2. CASE deleted' = deleted /\ sched' = Wild(s)
    BY <1>2, <2>2, WildSound
  <2> QED
    BY <1>3, <2>1, <2>2
<1>5. RestSound'
  BY <1>1, <1>3 DEF RestSound, KillProcess, NoNewThread, Exists, HasThread, ThreadsOf
<1>6. ThreadsSound'
  BY <1>1, SleepingChanges DEF ThreadsSound, ThreadsType, NoNewThread, KillProcess
<1> QED
  BY <1>4, <1>5, <1>6 DEF IInv, KillProcess, NoNewThread

LEMMA SleepThreadSound ==
    ASSUME IInv, SleepThread
    PROVE  IInv'
<1> DEFINE s == SleepProcess(sched, sched.currentProcess)
<1>1. /\ ThreadsSound /\ RestSound /\ SchedSound(sched, parent, deleted)
      /\ sched.mode = "running" /\ sched.currentThread # Null
  BY DEF IInv, SleepThread, Running
<1>2. /\ sched.currentProcess \in Process /\ sched.currentThread \in Thread
      /\ parent[sched.currentThread] = sched.currentProcess
  BY <1>1 DEF SchedSound, SchedType, CurrentSound
<1>3. SchedSound(s, parent, deleted) /\ s.mode \in {"running", "wild"}
  BY <1>1, <1>2, SleepProcessSound DEF HasThread
<1>4. sched' \in {sched, s} \cup (IF s.mode = "wild" THEN {s} ELSE Yield(s, sleeping'))
  BY DEF SleepThread
<1> HIDE DEF s
<1>5. SchedSound(sched', parent, deleted)
  BY <1>1, <1>3, <1>4, YieldSound
<1>6. ThreadsSound'
  BY <1>1, <1>2, SleepingChanges DEF SleepThread, ThreadsSound, ThreadsType
<1>7. RestSound'
  BY <1>1 DEF RestSound, HasThread, SleepThread
<1> QED
  BY <1>5, <1>6, <1>7 DEF IInv, SleepThread

LEMMA TimerInterruptSound ==
    ASSUME IInv, TimerInterrupt
    PROVE  IInv'
<1>1. /\ ThreadsSound /\ RestSound /\ SchedSound(sched, parent, deleted)
      /\ sched.mode = "running" /\ timer \in Process
  BY DEF IInv, RestSound, TimerInterrupt, Running
<1>2. SchedSound(sched', parent, deleted)
  BY <1>1, YieldSound DEF TimerInterrupt
<1> QED
  BY <1>1, <1>2, NoNewThreadSound DEF TimerInterrupt, RestSound

LEMMA WakeThreadSound ==
    ASSUME IInv, NEW t \in Thread, WakeThread(t)
    PROVE  IInv'
<1>1. /\ ThreadsSound /\ RestSound /\ SchedSound(sched, parent, deleted)
      /\ sched.mode = "running" /\ parent[t] \in Process /\ parent[t] \notin deleted
  BY DEF IInv, ThreadsSound, ThreadsType, WakeThread, Running
<1>2. SchedSound(Wake(sched, parent[t]), parent, deleted)
  BY <1>1, WakeSound
<1>3. ThreadsSound'
  BY <1>1, SleepingChanges DEF WakeThread, ThreadsSound, ThreadsType
<1>4. RestSound'
  BY <1>1 DEF RestSound, HasThread, WakeThread
<1> QED
  BY <1>2, <1>3, <1>4 DEF IInv, WakeThread

LEMMA CreateProcessSound ==
    ASSUME IInv, NEW t \in Thread, NEW p \in Process, CreateProcess(p, t)
    PROVE  IInv'
<1>1. /\ ThreadsSound /\ RestSound /\ SchedSound(sched, parent, deleted)
      /\ sched.mode = "running" /\ ~HasThread(p, parent)
  BY DEF IInv, CreateProcess, Running, ThreadsOf, HasThread
<1>2. CASE NullPageMapped
  <2>1. StartThread(t, p) /\ sched' = AddProcess(sched, p)
    BY <1>2 DEF CreateProcess
  <2>2. /\ p \notin ItemsOf(sched.processes) /\ p \notin ItemsOf(sched.sleepingProcesses)
        /\ p \notin deleted
    BY <1>1 DEF SchedSound, ListsSound, RestSound
  <2>3. /\ ThreadsSound' /\ parent'[t] = p
        /\ \A u \in Thread : parent[u] # Null => parent'[u] = parent[u]
    BY <1>1, <2>1, StartThreadSound
  <2>4. SchedSound(sched, parent', deleted)
    BY <1>1, <2>3, ParentGrows
  <2>5. SchedSound(AddProcess(sched, p), parent', deleted)
    BY <1>1, <2>2, <2>3, <2>4, AddProcessSound DEF HasThread
  <2>6. RestSound'
    BY <1>1, <2>3, RestGrows DEF CreateProcess, RestSound
  <2> QED
    BY <2>1, <2>3, <2>5, <2>6 DEF IInv, CreateProcess
<1>3. CASE ~NullPageMapped
  <2>1. NoNewThread /\ sched' = Wild(sched)
    BY <1>3 DEF CreateProcess
  <2>2. SchedSound(sched', parent, deleted)
    BY <1>1, <2>1, WildSound
  <2> QED
    BY <1>1, <2>1, <2>2, NoNewThreadSound DEF CreateProcess, RestSound
<1> QED
  BY <1>2, <1>3

LEMMA StepSound == IInv /\ [Next]_vars => IInv'
<1> SUFFICES ASSUME IInv, [Next]_vars PROVE IInv'
  OBVIOUS
<1>1. /\ ThreadsSound /\ RestSound /\ SchedSound(sched, parent, deleted)
      /\ parent \in [Thread -> Process \cup {Null}]
  BY DEF IInv, ThreadsSound, ThreadsType
<1>2. Running => /\ sched.mode = "running"
                 /\ sched.currentProcess \in Process /\ sched.currentProcess \notin deleted
                 /\ sched.currentThread # Null =>
                      /\ sched.currentThread \in Thread
                      /\ parent[sched.currentThread] = sched.currentProcess
  BY <1>1 DEF SchedSound, SchedType, CurrentSound, Running
<1>3. CASE BootYield
  <2>1. PICK p \in Drawable(sched) : sched' = YieldTo(sched, p, sleeping)
    BY <1>3 DEF BootYield
  <2>2. p \in ItemsOf(sched.processes) /\ sched.mode = "booting"
    BY <1>3 DEF BootYield, Drawable
  <2>3. SchedSound(sched', parent, deleted)
    BY <1>1, <2>1, <2>2, YieldToSound
  <2> QED
    BY <1>1, <1>3, <2>3, NoNewThreadSound DEF BootYield, RestSound
<1>4. CASE YieldCall
  <2>1. SchedSound(sched', parent, deleted)
    BY <1>1, <1>2, <1>4, YieldSound DEF YieldCall
  <2> QED
    BY <1>1, <1>4, <2>1, NoNewThreadSound DEF YieldCall, RestSound
<1>5. CASE KillCurrentThread
  BY <1>2, <1>5, KillThreadSound DEF KillCurrentThread
<1>6. CASE UseMissingThread
  <2>1. SchedSound(sched', parent, deleted)
    BY <1>1, <1>6, WildSound DEF UseMissingThread
  <2> QED
    BY <1>1, <1>6, <2>1, NoNewThreadSound DEF UseMissingThread, RestSound
<1>7. CASE SleepThread
  BY <1>7, SleepThreadSound
<1>8. CASE SetReceiptMethod
  BY <1>1, <1>8, NoNewThreadSound DEF SetReceiptMethod, RestSound
<1>9. CASE InstallTimer
  BY <1>1, <1>2, <1>9, NoNewThreadSound DEF InstallTimer, RestSound
<1>10. CASE TimerInterrupt
  BY <1>10, TimerInterruptSound
<1>11. CASE \E t \in Thread : CreateThread(t)
  <2>1. PICK t \in Thread : CreateThread(t)
    BY <1>11
  <2>2. SchedSound(Wake(sched, sched.currentProcess), parent, deleted)
    BY <1>1, <1>2, <2>1, WakeSound DEF CreateThread
  <2> QED
    BY <1>1, <1>2, <2>1, <2>2, NewThreadSound DEF CreateThread, RestSound
<1>12. CASE \E t \in Thread : KillOtherThread(t)
  BY <1>1, <1>12, KillThreadSound DEF KillOtherThread
<1>13. CASE \E t \in Thread : WakeThread(t)
  BY <1>13, WakeThreadSound
<1>14. CASE \E p \in Process : KillProcess(p)
  BY <1>14, KillProcessSound
<1>15. CASE \E p \in Process, t \in Thread : CreateProcess(p, t)
  BY <1>15, CreateProcessSound
<1>16. CASE \E p \in Process, t \in Thread : SendMessage(p, t)
  BY <1>1, <1>16, NewThreadSound DEF SendMessage, RestSound
<1>17. CASE UNCHANGED vars
  BY <1>1, <1>17, NoNewThreadSound DEF vars, NoNewThread, RestSound
<1> QED
  BY <1>3, <1>4, <1>5, <1>6, <1>7, <1>8, <1>9, <1>10, <1>11, <1>12, <1>13, <1>14, <1>15,
     <1>16, <1>17 DEF Next, Happens
----------------------------------------------------------------------------
(* Switches to sleeping threads. *)

\* From s to r no thread that sleeps has become current, unless the list of
\* processes has changed too.
Spared(s, r, asleep) ==
    r.mode = "running" /\ r.processes = s.processes /\ r.currentThread \notin {s.currentThread, Null}
        => ~asleep[r.currentThread]

LEMMA YieldToSpares ==
    ASSUME NEW s \in SchedType, NEW p, NEW asleep
    PROVE  /\ YieldTo(s, p, asleep).processes = s.processes
           /\ Spared(s, YieldTo(s, p, asleep), asleep)
<1> DEFINE u == FirstAwake(p, Advance(s, p), asleep)
           saved == IF s.currentThread = Null THEN s.state
                    ELSE [s.state EXCEPT ![s.currentThread] = s.cpu]
<1>1. u # Null => ~asleep[u]
  BY FirstAwakeType
<1> HIDE DEF u, saved
<1>2. CASE YieldTo(s, p, asleep) = s
  BY <1>2 DEF Spared
<1>3. CASE \/ YieldTo(s, p, asleep) = [s EXCEPT !.currentProcess = p, !.mode = "halted"]
           \/ YieldTo(s, p, asleep) = Wild(s)
  BY <1>3 DEF Spared, Wild, SchedType
<1>4. CASE /\ u # Null
           /\ YieldTo(s, p, asleep) = [s EXCEPT !.currentProcess = p, !.currentThread = u,
                                                !.cursor[p] = u, !.state = saved,
                                                !.cpu = saved[u], !.mode = "running"]
  <2>1. YieldTo(s, p, asleep).processes = s.processes /\ YieldTo(s, p, asleep).currentThread = u
    BY <1>4 DEF SchedType
  <2> QED
    BY <1>1, <1>4, <2>1 DEF Spared
<1> QED
  BY <1>2, <1>3, <1>4 DEF YieldTo, u, saved

LEMMA YieldSpares ==
    ASSUME NEW s \in SchedType, NEW asleep, NEW r \in Yield(s, asleep)
    PROVE  r.processes = s.processes /\ Spared(s, r, asleep)
<1>1. CASE \E p \in Drawable(s) : r = YieldTo(s, p, asleep)
  BY <1>1, YieldToSpares
<1>2. CASE r = s
  BY <1>2 DEF Spared
<1> QED
  BY <1>1, <1>2 DEF Yield

\* RemoveProcess changes the current thread only when it takes a process off
\* the list.
LEMMA RemoveProcessMoves ==
    ASSUME NEW s \in SchedType, NEW p, RemoveProcess(s, p).mode = "running"
    PROVE  \/ RemoveProcess(s, p).currentThread = s.currentThread
           \/ RemoveProcess(s, p).processes # s.processes
<1> DEFINE R == RemoveItem(s.processes, p)
           r == TakeOff(s, p)
           q == FirstItem(r.processes)
           t == Advance(r, q)
<1>1. /\ r.processes = R /\ r.currentThread = s.currentThread
      /\ Wild(s).mode = "wild" /\ Wild(r).mode = "wild"
  BY DEF TakeOff, Wild, SchedType
<1>2. \/ RemoveProcess(s, p) = r
      \/ q # Null /\ RemoveProcess(s, p) = [r EXCEPT !.currentProcess = q, !.currentThread = t, !.cursor[q] = t]
  BY <1>1 DEF RemoveProcess
<1>3. CASE s.processes.items = <<>>
  <2>1. q = Null
    BY <1>1, <1>3, RemoveItemCases DEF FirstItem, SchedType
  <2> QED
    BY <1>1, <1>2, <2>1
<1>4. CASE s.processes.items # <<>>
  <2>1. s.processes \in List(Process) /\ Len(s.processes.items) \in Nat
    BY ItemsType DEF SchedType
  <2>2. Len(R.items) = Len(s.processes.items) - 1
    BY <1>4, <2>1, RemoveItemCases
  <2>3. R # s.processes
    BY <2>1, <2>2
  <2>4. RemoveProcess(s, p).processes = R
    BY <1>1, <1>2 DEF TakeOff, SchedType
  <2> QED
    BY <2>3, <2>4
<1> QED
  BY <1>3, <1>4

LEMMA WakeMovesNothing ==
    ASSUME NEW s \in SchedType, NEW p
    PROVE  Wake(s, p).currentThread = s.currentThread
BY DEF Wake, AddProcess, Wild, SchedType

LEMMA KillThreadSpares ==
    ASSUME IInv, Running, NEW t, NEW itself \in BOOLEAN, KillThread(t, itself)
    PROVE  Spared(sched, sched', sleeping')
<1> DEFINE s == IF itself THEN [sched EXCEPT !.currentThread = Null] ELSE sched
           r == RemoveProcess(s, parent[t])
<1>1. sched \in SchedType
  BY DEF IInv, SchedSound
<1>2. s \in SchedType /\ s.processes = sched.processes /\ s.currentThread \in {sched.currentThread, Null}
  BY <1>1 DEF SchedType
<1>3. sched' \in {Wild(sched), s, r}
  BY DEF KillThread
<1> HIDE DEF s
<1>4. CASE sched' = Wild(sched)
  BY <1>1, <1>4 DEF Wild, Spared, SchedType
<1>5. CASE sched' = s
  BY <1>2, <1>5 DEF Spared
<1>6. CASE sched' = r
  BY <1>2, <1>6, RemoveProcessMoves DEF Spared
<1> QED
  BY <1>3, <1>4, <1>5, <1>6

LEMMA KillProcessSpares ==
    ASSUME IInv, NEW p \in Process, KillProcess(p)
    PROVE  Spared(sched, sched', sleeping')
<1> DEFINE s == RemoveProcess(sched, p)
<1>1. /\ ThreadsSound /\ SchedSound(sched, parent, deleted) /\ sched.mode = "running"
      /\ sched \in SchedType /\ sleeping' = sleeping
  BY DEF IInv, SchedSound, KillProcess, Running, NoNewThread
<1>2. s \in SchedType /\ s.mode \in {"running", "wild"}
  BY <1>1, RemoveProcessSound DEF SchedSound
<1>3. s.mode = "running" => s.currentThread = sched.currentThread \/ s.processes # sched.processes
  BY <1>1, RemoveProcessMoves
<1>4. \/ s.mode = "running" /\ sched' \in Yield(s, sleeping)
      \/ sched' = Wild(s)
  BY <1>2 DEF KillProcess
<1> HIDE DEF s
<1>5. CASE sched' = Wild(s)
  BY <1>2, <1>5 DEF Wild, Spared, SchedType
<1>6. CASE s.mode = "running" /\ sched' \in Yield(s, sleeping)
  <2>1. sched'.processes = s.processes /\ Spared(s, sched', sleeping)
    BY <1>2, <1>6, YieldSpares
  <2> QED
    BY <1>1, <1>3, <1>6, <2>1 DEF Spared
<1> QED
  BY <1>4, <1>5, <1>6

LEMMA SleepThreadSpares ==
    ASSUME IInv, SleepThread
    PROVE  Spared(sched, sched', sleeping')
<1> DEFINE p == sched.currentProcess
           r == RemoveProcess(sched, p)
           s == SleepProcess(sched, p)
<1>1. /\ ThreadsSound /\ SchedSound(sched, parent, deleted) /\ sched.mode = "running"
      /\ sched \in SchedType /\ sched.currentThread # Null
      /\ p \in Process /\ sched.currentThread \in Thread /\ parent[sched.currentThread] = p
  BY DEF IInv, SchedSound, SchedType, CurrentSound, SleepThread, Running
<1>2. s \in SchedType
  BY <1>1, SleepProcessSound DEF SchedSound, HasThread
<1>3. r.mode = "running" => r.currentThread = sched.currentThread \/ r.processes # sched.processes
  BY <1>1, RemoveProcessMoves
<1>4. r \in SchedType
  BY <1>1, RemoveProcessSound DEF SchedSound
<1>5. s.mode = r.mode /\ s.currentThread = r.currentThread /\ s.processes = r.processes
  <2>1. s = IF r.mode = "wild" THEN r
            ELSE [r EXCEPT !.sleepingProcesses = AddItem(r.sleepingProcesses, p)]
    BY <1>4 DEF SleepProcess, SchedType
  <2> HIDE DEF s, r, p
  <2> QED
    BY <1>4, <2>1 DEF SchedType
<1>6. \/ sched' = sched
      \/ s.mode = "wild" /\ sched' = s
      \/ s.mode # "wild" /\ sched' \in Yield(s, sleeping')
  BY DEF SleepThread
<1>7. s.mode \in {"running", "wild"}
  BY <1>1, SleepProcessSound DEF HasThread
<1> HIDE DEF s, r
<1>8. CASE sched' = sched \/ (s.mode = "wild" /\ sched' = s)
  BY <1>8 DEF Spared
<1>9. CASE s.mode = "running" /\ sched' \in Yield(s, sleeping')
  <2>1. sched'.processes = s.processes /\ Spared(s, sched', sleeping')
    BY <1>2, <1>9, YieldSpares
  <2> QED
    BY <1>3, <1>5, <1>9, <2>1 DEF Spared
<1> QED
  BY <1>6, <1>7, <1>8, <1>9

LEMMA StepSpares == IInv /\ [Next]_vars => Spared(sched, sched', sleeping')
<1> SUFFICES ASSUME IInv, [Next]_vars PROVE Spared(sched, sched', sleeping')
  OBVIOUS
<1>1. sched \in SchedType
  BY DEF IInv, SchedSound
<1>2. CASE BootYield
  BY <1>1, <1>2, YieldToSpares DEF BootYield, NoNewThread
<1>3. CASE YieldCall
  BY <1>1, <1>3, YieldSpares DEF YieldCall, NoNewThread
<1>4. CASE KillCurrentThread
  BY <1>4, KillThreadSpares DEF KillCurrentThread
<1>5. CASE UseMissingThread
  BY <1>1, <1>5 DEF UseMissingThread, Wild, Spared, SchedType
<1>6. CASE SleepThread
  BY <1>6, SleepThreadSpares
<1>7. CASE SetReceiptMethod \/ InstallTimer \/ UNCHANGED vars
  BY <1>7 DEF SetReceiptMethod, InstallTimer, vars, Spared
<1>8. CASE TimerInterrupt
  BY <1>1, <1>8, YieldSpares DEF TimerInterrupt, NoNewThread
<1>9. CASE \E t \in Thread : CreateThread(t)
  BY <1>1, <1>9, WakeMovesNothing DEF CreateThread, Spared
<1>10. CASE \E t \in Thread : KillOtherThread(t)
  BY <1>10, KillThreadSpares DEF KillOtherThread
<1>11. CASE \E t \in Thread : WakeThread(t)
  BY <1>1, <1>11, WakeMovesNothing DEF WakeThread, Spared
<1>12. CASE \E p \in Process : KillProcess(p)
  BY <1>12, KillProcessSpares
<1>13. CASE \E p \in Process, t \in Thread : CreateProcess(p, t)
  BY <1>1, <1>13 DEF CreateProcess, AddProcess, Wild, Spared, SchedType
<1>14. CASE \E p \in Process, t \in Thread : SendMessage(p, t)
  BY <1>14 DEF SendMessage, Spared
<1> QED
  BY <1>2, <1>3, <1>4, <1>5, <1>6, <1>7, <1>8, <1>9, <1>10, <1>11, <1>12, <1>13, <1>14
     DEF Next, Happens
----------------------------------------------------------------------------
LEMMA Inductive == Spec => []IInv
<1>1. Init => IInv
  BY InitSound
<1>2. IInv /\ [Next]_vars => IInv'
  BY StepSound
<1> QED
  BY <1>1, <1>2, PTL DEF Spec

\* Whatever system calls are made and in whatever order, the Scheduler, the
\* threads and the driver's record stay what their types say: in particular
\* the unsigned counters stay in range and every list holds its own type.
THEOREM TypeCorrect == Spec => []TypeOK
<1>1. IInv => TypeOK
  BY DEF IInv, ThreadsSound, ThreadsType, RestSound, SchedSound, SchedType, TypeOK
<1> QED
  BY <1>1, Inductive, PTL

\* The two process lists stay disjoint lists of different processes, and
\* Yield never draws a deleted process: for any number of processes and
\* threads, although Remove takes off the wrong node for an absent process.
THEOREM QueuesCorrect == Spec => []QueuesSound
<1>1. IInv => QueuesSound
  BY DEF IInv, SchedSound, ListsSound, QueuesSound, Running
<1> QED
  BY <1>1, Inductive, PTL

\* The current process is never a sleeping or a deleted one.
THEOREM CurrentProcessCorrect == Spec => []CurrentProcessRunnable
<1>1. IInv => CurrentProcessRunnable
  BY DEF IInv, SchedSound, CurrentSound, CurrentProcessRunnable, Running
<1> QED
  BY <1>1, Inductive, PTL

\* The current thread always belongs to the current process.
THEOREM CurrentThreadCorrect == Spec => []CurrentThreadOwned
<1>1. IInv => CurrentThreadOwned
  BY DEF IInv, SchedSound, CurrentSound, CurrentThreadOwned, Running
<1> QED
  BY <1>1, Inductive, PTL

\* A switch never goes to a sleeping thread, unless the step has taken a
\* process off the list: whatever is created, ended, put to sleep or woken,
\* and in whichever order the threads of a process are.
THEOREM NoSwitchToSleeper == Spec => NeverSwitchesToSleeper
<1>1. IInv /\ [Next]_vars =>
        [/\ sched'.mode = "running"
         /\ sched'.processes = sched.processes
         /\ sched'.currentThread \notin {sched.currentThread, Null}
         => ~sleeping'[sched'.currentThread]]_vars
  BY StepSpares DEF Spared
<1> QED
  BY <1>1, Inductive, PTL DEF Spec, NeverSwitchesToSleeper
----------------------------------------------------------------------------
(* The sum of the priorities. *)

\* A list of processes: it holds processes only, count is at least their
\* number, and unless page 0 is mapped Last is the last of them.
QueueSound(L) ==
    L.items # <<>> =>
        /\ \A i \in 1..Len(L.items) : L.items[i] # Null
        /\ Len(L.items) <= L.count /\ L.count < WordSize - 1
        /\ NullPageMapped \/ Attached(L)

QueueCounted == QueueSound(sched.processes)

Changes(s, r, L) ==
    \/ r.processes = s.processes /\ r.totalPriority = s.totalPriority
    \/ \E p \in Process :
          /\ r.processes = AddItem(L, p) /\ InBounds
          /\ r.totalPriority = (s.totalPriority + EffectivePriority(p)) % WordSize
    \/ \E p \in Process :
          /\ r.processes = RemoveItem(L, p) /\ (StoresThroughNull(L, p) => NullPageMapped)
          /\ r.totalPriority = (s.totalPriority - EffectivePriority(p)) % WordSize

\* From s to r the list of processes and the total stay, or one process is
\* added, or a removal takes one off.
Changed(s, r) == Changes(s, r, s.processes)

LEMMA YieldToKeepsTotal ==
    ASSUME NEW s \in SchedType, NEW p, NEW asleep
    PROVE  YieldTo(s, p, asleep).totalPriority = s.totalPriority
BY DEF YieldTo, Wild, SchedType

LEMMA YieldKeepsTotal ==
    ASSUME NEW s \in SchedType, NEW asleep, NEW r \in Yield(s, asleep)
    PROVE  r.processes = s.processes /\ r.totalPriority = s.totalPriority
BY YieldToKeepsTotal, YieldSpares DEF Yield

LEMMA RemoveProcessChanges ==
    ASSUME NEW s \in SchedType, NEW p \in Process
    PROVE  Changed(s, RemoveProcess(s, p))
<1> DEFINE r == TakeOff(s, p)
           q == FirstItem(r.processes)
           t == Advance(r, q)
<1>1. /\ r.processes = RemoveItem(s.processes, p)
      /\ r.totalPriority = (s.totalPriority - EffectivePriority(p)) % WordSize
  BY DEF TakeOff, SchedType
<1>5. r \in SchedType
  <2> DEFINE L == RemoveItem(s.processes, p)
             n == (s.totalPriority - EffectivePriority(p)) % WordSize
  <2>1. L \in List(Process)
    BY RemoveItemCases DEF SchedType
  <2>2. n \in 0..WordSize-1
    BY EffectivePriorityType, TotalType DEF SchedType
  <2>3. r = [s EXCEPT !.totalPriority = n, !.processes = L]
    BY DEF TakeOff, SchedType
  <2> HIDE DEF L, n, r
  <2> QED
    BY <2>1, <2>2, <2>3 DEF SchedType
<1>2. CASE StoresThroughNull(s.processes, p) /\ ~NullPageMapped
  <2>1. RemoveProcess(s, p) = Wild(s)
    BY <1>2 DEF RemoveProcess
  <2> QED
    BY <2>1 DEF Wild, Changed, Changes, SchedType
<1>3. CASE ~ (StoresThroughNull(s.processes, p) /\ ~NullPageMapped)
  <2>1. \/ RemoveProcess(s, p) \in {r, Wild(r)}
        \/ RemoveProcess(s, p) = [r EXCEPT !.currentProcess = q, !.currentThread = t, !.cursor[q] = t]
    BY <1>3 DEF RemoveProcess
  <2> HIDE DEF r, q, t
  <2>2. RemoveProcess(s, p).processes = r.processes /\ RemoveProcess(s, p).totalPriority = r.totalPriority
    BY <1>5, <2>1 DEF Wild, SchedType
  <2> QED
    BY <1>1, <1>3, <2>2 DEF Changed, Changes
<1> QED
  BY <1>2, <1>3

LEMMA AddProcessChanges ==
    ASSUME InBounds, NEW s \in SchedType, NEW r \in SchedType, NEW p \in Process,
           r.processes = s.processes, r.totalPriority = s.totalPriority
    PROVE  Changed(s, AddProcess(r, p))
BY DEF AddProcess, Changed, Changes, SchedType

LEMMA WakeChanges ==
    ASSUME InBounds, NEW s \in SchedType, NEW p \in Process
    PROVE  Changed(s, Wake(s, p))
<1> DEFINE asleep == RemoveItem(s.sleepingProcesses, p)
           r == [s EXCEPT !.sleepingProcesses = asleep]
<1>1. asleep \in List(Process)
  BY RemoveItemCases DEF SchedType
<1>2. r \in SchedType /\ r.processes = s.processes /\ r.totalPriority = s.totalPriority
  BY <1>1 DEF SchedType
<1>3. Wake(s, p) \in {Wild(s), s, AddProcess(r, p)}
  BY DEF Wake, SchedType
<1> HIDE DEF r
<1>4. Changed(s, AddProcess(r, p))
  BY <1>2, AddProcessChanges
<1>5. Changed(s, s) /\ Changed(s, Wild(s))
  BY DEF Changed, Changes, Wild, SchedType
<1> QED
  BY <1>3, <1>4, <1>5

LEMMA KillThreadChanges ==
    ASSUME IInv, NEW t, parent[t] \in Process, NEW itself \in BOOLEAN, KillThread(t, itself)
    PROVE  Changed(sched, sched')
<1> DEFINE s == IF itself THEN [sched EXCEPT !.currentThread = Null] ELSE sched
           r == RemoveProcess(s, parent[t])
<1>1. sched \in SchedType
  BY DEF IInv, SchedSound
<1>2. s \in SchedType /\ s.processes = sched.processes /\ s.totalPriority = sched.totalPriority
  BY <1>1 DEF SchedType
<1>3. sched' \in {Wild(sched), s, r}
  BY DEF KillThread
<1> HIDE DEF s
<1>4. Changed(s, r)
  BY <1>2, RemoveProcessChanges
<1>5. Changed(sched, r)
  BY <1>2, <1>4 DEF Changed, Changes
<1>6. Changed(sched, Wild(sched)) /\ Changed(sched, s)
  BY <1>1, <1>2 DEF Changed, Changes, Wild, SchedType
<1> QED
  BY <1>3, <1>5, <1>6

LEMMA KillProcessChanges ==
    ASSUME IInv, NEW p \in Process, KillProcess(p)
    PROVE  Changed(sched, sched')
<1> DEFINE s == RemoveProcess(sched, p)
<1>1. ThreadsSound /\ SchedSound(sched, parent, deleted) /\ sched.mode = "running" /\ sched \in SchedType
  BY DEF IInv, SchedSound, KillProcess, Running
<1>2. s \in SchedType /\ Changed(sched, s)
  BY <1>1, RemoveProcessSound, RemoveProcessChanges DEF SchedSound
<1>3. sched' \in Yield(s, sleeping) \/ sched' = Wild(s)
  BY DEF KillProcess
<1> HIDE DEF s
<1>4. sched'.processes = s.processes /\ sched'.totalPriority = s.totalPriority
  BY <1>2, <1>3, YieldKeepsTotal DEF Wild, SchedType
<1> QED
  BY <1>2, <1>4 DEF Changed, Changes

LEMMA SleepThreadChanges ==
    ASSUME IInv, SleepThread
    PROVE  Changed(sched, sched')
<1> DEFINE p == sched.currentProcess
           r == RemoveProcess(sched, p)
           s == SleepProcess(sched, p)
<1>1. /\ ThreadsSound /\ SchedSound(sched, parent, deleted) /\ sched.mode = "running"
      /\ sched \in SchedType /\ sched.currentThread # Null
      /\ p \in Process /\ sched.currentThread \in Thread /\ parent[sched.currentThread] = p
  BY DEF IInv, SchedSound, SchedType, CurrentSound, SleepThread, Running
<1>2. s \in SchedType
  BY <1>1, SleepProcessSound DEF SchedSound, HasThread
<1>3. r \in SchedType /\ Changed(sched, r)
  BY <1>1, RemoveProcessSound, RemoveProcessChanges DEF SchedSound
<1>4. s.processes = r.processes /\ s.totalPriority = r.totalPriority
  <2>1. s = IF r.mode = "wild" THEN r
            ELSE [r EXCEPT !.sleepingProcesses = AddItem(r.sleepingProcesses, p)]
    BY <1>3 DEF SleepProcess, SchedType
  <2> HIDE DEF s, r, p
  <2> QED
    BY <1>3, <2>1 DEF SchedType
<1>5. sched' = sched \/ sched' = s \/ sched' \in Yield(s, sleeping')
  BY DEF SleepThread
<1> HIDE DEF s, r
<1>6. CASE sched' = sched
  BY <1>6 DEF Changed, Changes
<1>7. CASE sched' = s \/ sched' \in Yield(s, sleeping')
  <2>1. sched'.processes = s.processes /\ sched'.totalPriority = s.totalPriority
    BY <1>2, <1>7, YieldKeepsTotal
  <2> QED
    BY <1>3, <1>4, <2>1 DEF Changed, Changes
<1> QED
  BY <1>5, <1>6, <1>7

LEMMA StepChanges == IInv /\ [Next]_vars => Changed(sched, sched')
<1> SUFFICES ASSUME IInv, [Next]_vars PROVE Changed(sched, sched')
  OBVIOUS
<1>1. sched \in SchedType /\ parent \in [Thread -> Process \cup {Null}]
  BY DEF IInv, SchedSound, ThreadsSound, ThreadsType
<1>2. Running => /\ sched.currentProcess \in Process
                 /\ sched.currentThread # Null => parent[sched.currentThread] = sched.currentProcess
  BY DEF IInv, SchedSound, CurrentSound, Running
<1>3. CASE BootYield
  BY <1>1, <1>3, YieldToKeepsTotal, YieldToSpares DEF BootYield, Changed, Changes
<1>4. CASE YieldCall \/ TimerInterrupt
  BY <1>1, <1>4, YieldKeepsTotal DEF YieldCall, TimerInterrupt, Changed, Changes
<1>5. CASE KillCurrentThread
  BY <1>2, <1>5, KillThreadChanges DEF KillCurrentThread
<1>6. CASE UseMissingThread
  BY <1>1, <1>6 DEF UseMissingThread, Wild, Changed, Changes, SchedType
<1>7. CASE SleepThread
  BY <1>7, SleepThreadChanges
<1>8. CASE SetReceiptMethod \/ InstallTimer \/ UNCHANGED vars
  BY <1>8 DEF SetReceiptMethod, InstallTimer, vars, Changed, Changes
<1>9. CASE InBounds /\ \E t \in Thread : CreateThread(t)
  BY <1>1, <1>2, <1>9, WakeChanges DEF CreateThread
<1>10. CASE \E t \in Thread : KillOtherThread(t)
  BY <1>1, <1>10, KillThreadChanges DEF KillOtherThread
<1>11. CASE InBounds /\ \E t \in Thread : WakeThread(t)
  BY <1>1, <1>11, WakeChanges DEF WakeThread
<1>12. CASE \E p \in Process : KillProcess(p)
  BY <1>12, KillProcessChanges
<1>13. CASE InBounds /\ \E p \in Process, t \in Thread : CreateProcess(p, t)
  <2>1. PICK p \in Process, t \in Thread : CreateProcess(p, t)
    BY <1>13
  <2>2. sched' = AddProcess(sched, p) \/ sched' = Wild(sched)
    BY <2>1 DEF CreateProcess
  <2>3. Changed(sched, AddProcess(sched, p))
    BY <1>1, <1>13, AddProcessChanges
  <2>4. Changed(sched, Wild(sched))
    BY <1>1 DEF Wild, Changed, Changes, SchedType
  <2> QED
    BY <2>2, <2>3, <2>4
<1>14. CASE \E p \in Process, t \in Thread : SendMessage(p, t)
  BY <1>14 DEF SendMessage, Changed, Changes
<1> QED
  BY <1>3, <1>4, <1>5, <1>6, <1>7, <1>8, <1>9, <1>10, <1>11, <1>12, <1>13, <1>14 DEF Next, Happens

\* Adding to such a list, and removing from it, gives such a list.
LEMMA AddItemCounted ==
    ASSUME NEW L \in List(Process), NEW p \in Process, QueueSound(L),
           L.count < MaxCount \/ L.count = WordSize - 1
    PROVE  /\ QueueSound(AddItem(L, p))
           /\ L.items # <<>> /\ ~NullPageMapped =>
                Len(AddItem(L, p).items) = Len(L.items) + 1
<1>0. /\ L.items \in Seq(Process \cup {Null}) /\ Len(L.items) \in Nat /\ L.count \in 0..WordSize-1
      /\ p # Null /\ WordSize \in Nat /\ MaxCount \in Nat /\ MaxCount < WordSize - 1 /\ WordSize > 2
  <2>1. Len(BootProcesses) \in Nat \ {0}
    BY SchedulerAssumption, EmptySeq
  <2>2. /\ Len(BootProcesses) < WordSize - 1 /\ MaxCount \in Nat /\ MaxCount < WordSize - 1
        /\ Null \notin Process
    BY SchedulerAssumption
  <2>3. WordSize \in Nat /\ WordSize > 2
    BY <2>1, <2>2, WordSizeAssumption
  <2>4. L.items \in Seq(Process \cup {Null}) /\ Len(L.items) \in Nat /\ L.count \in 0..WordSize-1
    BY ItemsType DEF List
  <2> QED
    BY <2>2, <2>3, <2>4
<1>1. CASE L.count = 0
  <2>1. L.items = <<>>
    <3>1. SUFFICES ASSUME L.items # <<>> PROVE FALSE
      OBVIOUS
    <3>2. Len(L.items) # 0 /\ Len(L.items) <= L.count
      BY <1>0, <3>1, EmptySeq DEF QueueSound
    <3> QED
      BY <1>0, <1>1, <3>2
  <2>2. AddItem(L, p) = ListOf(p)
    BY <1>1 DEF AddItem
  <2>3. ListOf(p).items = <<p>> /\ ListOf(p).count = 1 /\ ListOf(p).last = p
    BY DEF ListOf
  <2>4. Len(<<p>>) = 1 /\ <<p>>[1] = p
    OBVIOUS
  <2>5. 1 < WordSize - 1
    BY <1>0
  <2> QED
    BY <1>0, <2>1, <2>2, <2>3, <2>4, <2>5 DEF QueueSound, Attached
<1>2. CASE L.count # 0 /\ L.items = <<>>
  <2>1. AddItem(L, p).items = <<>>
    BY <1>2 DEF AddItem, Attached
  <2> QED
    BY <1>2, <2>1 DEF QueueSound
<1>3. CASE L.count # 0 /\ L.items # <<>>
  <2>1. /\ \A i \in 1..Len(L.items) : L.items[i] # Null
        /\ Len(L.items) <= L.count /\ L.count < MaxCount /\ L.count + 1 < WordSize - 1
        /\ NullPageMapped \/ Attached(L)
    BY <1>0, <1>3 DEF QueueSound
  <2>2. (L.count + 1) % WordSize = L.count + 1
    <3>1. \A a \in Nat : a < WordSize => a % WordSize = a
      BY <1>0
    <3>2. L.count + 1 \in Nat /\ L.count + 1 < WordSize
      <4>1. L.count \in Nat /\ L.count + 1 < WordSize - 1 /\ WordSize \in Nat
        BY <1>0, <2>1
      <4> QED
        BY <4>1
    <3> QED
      BY <3>1, <3>2
  <2>3. /\ AddItem(L, p).items = IF Attached(L) /\ L.last # Null THEN Append(L.items, p) ELSE L.items
        /\ AddItem(L, p).count = L.count + 1 /\ AddItem(L, p).last = p
    BY <1>3, <2>2 DEF AddItem
  <2>4. CASE Attached(L)
    <3>1. L.last # Null
      <4>1. Len(L.items) \in 1..Len(L.items)
        BY <1>0, <1>3, EmptySeq
      <4> QED
        BY <2>1, <2>4, <4>1 DEF Attached
    <3>2. /\ Append(L.items, p) # <<>> /\ Len(Append(L.items, p)) = Len(L.items) + 1
          /\ \A i \in 1..Len(L.items) : Append(L.items, p)[i] = L.items[i]
          /\ Append(L.items, p)[Len(L.items) + 1] = p
      BY <1>0, AppendProperties
    <3>3. \A i \in 1..Len(L.items) + 1 : Append(L.items, p)[i] # Null
      BY <1>0, <2>1, <3>2
    <3> DEFINE M == AddItem(L, p)
               t == Append(L.items, p)
    <3>4. M.items = t /\ M.last = p /\ M.count = L.count + 1
      BY <2>3, <2>4, <3>1
    <3> HIDE DEF M, t
    <3>5. t # <<>> /\ Len(t) = Len(L.items) + 1 /\ t[Len(t)] = p /\ \A i \in 1..Len(t) : t[i] # Null
      BY <3>2, <3>3 DEF t
    <3>6. Len(t) <= M.count /\ M.count < WordSize - 1
      BY <1>0, <2>1, <3>4, <3>5
    <3>7. QueueSound(M) /\ Len(M.items) = Len(L.items) + 1
      BY <3>4, <3>5, <3>6 DEF QueueSound, Attached
    <3> QED
      BY <3>7 DEF M
  <2>5. CASE ~Attached(L)
    <3>1. AddItem(L, p).items = L.items /\ NullPageMapped
      BY <2>1, <2>3, <2>5
    <3>2. Len(L.items) <= L.count + 1
      BY <1>0, <2>1
    <3> QED
      BY <2>1, <2>3, <3>1, <3>2 DEF QueueSound
  <2> QED
    BY <2>4, <2>5
<1> QED
  BY <1>1, <1>2, <1>3

LEMMA RemoveItemCounted ==
    ASSUME NEW L \in List(Process), NEW p, QueueSound(L),
           StoresThroughNull(L, p) => NullPageMapped
    PROVE  QueueSound(RemoveItem(L, p))
<1>1. CASE L.items = <<>>
  BY <1>1, RemoveItemCases DEF QueueSound
<1>2. CASE L.items # <<>>
  <2> DEFINE M == RemoveItem(L, p)
             i == FindItem(L, p)
             n == Len(L.items)
  <2>1. /\ n \in Nat \ {0} /\ L.count \in 0..WordSize-1 /\ i \in 1..n
        /\ WordSize \in Nat /\ WordSize > 1
    <3>1. L.items \in Seq(Process \cup {Null}) /\ n \in Nat /\ L.count \in 0..WordSize-1
      BY ItemsType
    <3>2. n # 0
      BY <1>2, <3>1, EmptySeq
    <3>3. i \in 1..n
      BY <1>2, FindItemCorrect
    <3> QED
      BY <3>1, <3>2, <3>3, WordSizeAssumption
  <2>2. /\ \A j \in 1..n : L.items[j] # Null
        /\ n <= L.count /\ L.count < WordSize - 1
        /\ NullPageMapped \/ L.last = L.items[n]
    BY <1>2 DEF QueueSound, Attached
  <2>3. /\ Len(M.items) = n - 1
        /\ \A j \in 1..n-1 : M.items[j] = IF j < i THEN L.items[j] ELSE L.items[j+1]
    BY <1>2, RemoveItemCases
  <2>4. M.last = L.last /\ M.count = IF i = 1 THEN (L.count - 1) % WordSize ELSE L.count
    BY <1>2 DEF RemoveItem, List
  <2>5. i > 1 /\ i = n => NullPageMapped
    BY DEF StoresThroughNull
  <2> HIDE DEF M, i, n
  <2>6. (L.count - 1) % WordSize = L.count - 1
    BY <2>1, <2>2
  <2>7. n - 1 <= M.count /\ M.count < WordSize - 1
    BY <2>1, <2>2, <2>4, <2>6, <2>5
  <2>8. QueueSound(M)
    <3>1. SUFFICES ASSUME M.items # <<>> PROVE QueueSound(M)
      BY DEF QueueSound
    <3>2. n - 1 \in Nat \ {0}
      <4>1. M \in List(Process)
        BY RemoveItemCases DEF M
      <4>2. Len(M.items) # 0
        BY <3>1, <4>1, ItemsType, EmptySeq
      <4> QED
        BY <2>1, <2>3, <4>2
    <3>3. \A j \in 1..n-1 : M.items[j] # Null
      BY <2>1, <2>2, <2>3
    <3>4. NullPageMapped \/ M.last = M.items[n - 1]
      BY <2>1, <2>2, <2>3, <2>4, <2>5, <3>2
    <3> QED
      BY <2>3, <2>7, <3>1, <3>3, <3>4 DEF QueueSound, Attached
  <2> QED
    BY <2>8 DEF M
<1> QED
  BY <1>1, <1>2

LEMMA CountedInit == Init => QueueCounted
<1> SUFFICES ASSUME Init PROVE QueueCounted
  OBVIOUS
<1>1. /\ sched.processes.items = BootProcesses /\ sched.processes.count = Len(BootProcesses)
      /\ sched.processes.last = BootProcesses[Len(BootProcesses)]
  BY DEF Init
<1>2. /\ BootProcesses \in Seq(Process) /\ Null \notin Process /\ Len(BootProcesses) < WordSize - 1
      /\ BootProcesses # <<>> /\ Len(BootProcesses) \in Nat
  BY SchedulerAssumption
<1>3. \A i \in 1..Len(BootProcesses) : BootProcesses[i] \in Process
  BY <1>2, ElementOfSeq
<1> QED
  BY <1>1, <1>2, <1>3 DEF QueueCounted, QueueSound, Attached

LEMMA CountedNext == IInv /\ QueueCounted /\ [Next]_vars => QueueCounted'
<1> SUFFICES ASSUME IInv, QueueCounted, [Next]_vars PROVE QueueCounted'
  OBVIOUS
<1> DEFINE L == sched.processes
<1>1. L \in List(Process) /\ QueueSound(L)
  BY DEF IInv, SchedSound, SchedType, QueueCounted
<1>2. Changed(sched, sched')
  BY StepChanges
<1>3. InBounds => L.count < MaxCount \/ L.count = WordSize - 1
  BY DEF InBounds
<1> HIDE DEF L
<1>4. /\ \A p \in Process : InBounds => QueueSound(AddItem(L, p))
      /\ \A p \in Process : (StoresThroughNull(L, p) => NullPageMapped) => QueueSound(RemoveItem(L, p))
  BY <1>1, <1>3, AddItemCounted, RemoveItemCounted
<1>5. QueueSound(sched'.processes)
  BY <1>1, <1>2, <1>4 DEF Changed, Changes, L
<1> QED
  BY <1>5 DEF QueueCounted

----------------------------------------------------------------------------

\* The running sum of equal priorities.
LEMMA EqualShares ==
    ASSUME NEW e \in Nat, \A p \in Process : EffectivePriority(p) = e,
           NEW items, NEW n \in Nat, Len(items) = n, \A i \in 1..n : items[i] \in Process
    PROVE  Accumulated(items)[Len(items)] = e * n
<1> DEFINE Unfolded(f) == f = [i \in 0..Len(items) |->
                                  IF i = 0 THEN 0 ELSE f[i-1] + EffectivePriority(items[i])]
           f == [i \in 0..n |-> e * i]
           chosen == CHOOSE g : Unfolded(g)
<1>1. Unfolded(f)
  <2>1. ASSUME NEW i \in 0..n PROVE f[i] = IF i = 0 THEN 0 ELSE f[i-1] + EffectivePriority(items[i])
    <3>1. CASE i = 0
      BY <3>1
    <3>2. CASE i # 0
      <4>1. i \in 1..n /\ i - 1 \in 0..n /\ EffectivePriority(items[i]) = e
        BY <3>2
      <4>2. f[i] = e * i /\ f[i-1] = e * (i - 1)
        BY <4>1
      <4>3. e * i = e * (i - 1) + e
        BY <4>1
      <4> QED
        BY <3>2, <4>1, <4>2, <4>3
    <3> QED
      BY <3>1, <3>2
  <2>2. f = [i \in 0..n |-> f[i]]
    OBVIOUS
  <2> HIDE DEF f
  <2> QED
    BY <2>1, <2>2
<1>2. Unfolded(chosen)
  <2> HIDE DEF Unfolded
  <2> QED
    BY <1>1, Zenon
<1>3. Accumulated(items) = chosen
  BY Zenon DEF Accumulated
<1> HIDE DEF chosen, f
<1>4. \A i \in 0..n : chosen[i] = IF i = 0 THEN 0 ELSE chosen[i-1] + EffectivePriority(items[i])
  BY <1>2
<1> DEFINE P == {i \in 0..n : chosen[i] = e * i}
<1>5. 0 \in P
  BY <1>4
<1>6. ASSUME NEW i \in 1..n, i - 1 \in P PROVE i \in P
  <2>1. i \in 0..n /\ i # 0 /\ chosen[i-1] = e * (i - 1) /\ EffectivePriority(items[i]) = e
    BY <1>6
  <2>2. chosen[i] = e * (i - 1) + e
    BY <1>4, <2>1
  <2>3. e * i = e * (i - 1) + e
    OBVIOUS
  <2> QED
    BY <2>1, <2>2, <2>3
<1> HIDE DEF P
<1>7. 0..n \subseteq P
  BY <1>5, <1>6, InductionUpTo
<1>8. n \in P
  BY <1>7
<1> QED
  BY <1>3, <1>8 DEF P

\* A list of different processes is not longer than there are processes.
LEMMA QueueFits ==
    ASSUME IsFiniteSet(Process), NEW L \in List(Process), NoDuplicates(L),
           \A i \in 1..Len(L.items) : L.items[i] # Null
    PROVE  Len(L.items) <= Cardinality(Process) /\ Cardinality(Process) \in Nat
<1> DEFINE n == Len(L.items)
           f == [i \in 1..n |-> L.items[i]]
<1>1. n \in Nat /\ \A i \in 1..n : L.items[i] \in Process
  BY ItemsType
<1>2. f \in Injection(1..n, Process)
  BY <1>1 DEF Injection, NoDuplicates, IsInjective
<1> HIDE DEF n, f
<1>4. IsFiniteSet(1..n) /\ Cardinality(1..n) = n
  BY <1>1, FS_Interval
<1>5. Cardinality(1..n) <= Cardinality(Process)
  BY <1>2, FS_Injection
<1> QED
  BY <1>4, <1>5, FS_CardinalityType DEF n

\* A step keeps the total of a list that has a process before and after it.
LEMMA StepAccounted ==
    ASSUME NEW e \in Nat, \A p \in Process : EffectivePriority(p) = e,
           IsFiniteSet(Process), e * Cardinality(Process) < WordSize,
           IInv, IInv', QueueCounted, QueueCounted', Changed(sched, sched'), ~NullPageMapped,
           Running, Running', PriorityAccounted,
           sched.processes.items # <<>>, sched'.processes.items # <<>>
    PROVE  PriorityAccounted'
<1> DEFINE L == sched.processes
           M == sched'.processes
           n == Len(L.items)
           m == Len(M.items)
           c == Cardinality(Process)
<1>1. /\ L \in List(Process) /\ NoDuplicates(L) /\ QueueSound(L)
      /\ M \in List(Process) /\ NoDuplicates(M) /\ QueueSound(M)
      /\ sched.totalPriority \in 0..WordSize-1
  BY DEF IInv, SchedSound, SchedType, ListsSound, QueueCounted, Running
<1>2. /\ n \in Nat \ {0} /\ n <= c /\ m \in Nat \ {0} /\ m <= c /\ c \in Nat
      /\ \A i \in 1..n : L.items[i] \in Process
      /\ \A i \in 1..m : M.items[i] \in Process
  <2>1. \A i \in 1..n : L.items[i] # Null
    BY <1>1 DEF QueueSound
  <2>2. \A i \in 1..m : M.items[i] # Null
    BY <1>1 DEF QueueSound
  <2>3. /\ L.items \in Seq(Process \cup {Null}) /\ n \in Nat /\ \A i \in 1..n : L.items[i] \in Process
        /\ M.items \in Seq(Process \cup {Null}) /\ m \in Nat /\ \A i \in 1..m : M.items[i] \in Process
    <3>1. /\ L.items \in Seq(Process \cup {Null}) /\ n \in Nat
          /\ \A i \in 1..n : L.items[i] \in Process \cup {Null}
      BY <1>1, ItemsType
    <3>2. /\ M.items \in Seq(Process \cup {Null}) /\ m \in Nat
          /\ \A i \in 1..m : M.items[i] \in Process \cup {Null}
      BY <1>1, ItemsType
    <3> QED
      BY <2>1, <2>2, <3>1, <3>2
  <2>4. n # 0 /\ m # 0
    BY <2>3, EmptySeq
  <2> QED
    BY <1>1, <2>1, <2>2, <2>3, <2>4, QueueFits
<1>3. Accumulated(L.items)[n] = e * n /\ Accumulated(M.items)[m] = e * m
  BY <1>2, EqualShares
<1>4. sched.totalPriority = e * n
  BY <1>3 DEF PriorityAccounted
<1>5. e * m \in Nat /\ e * m < WordSize
  <2>1. \A x, y \in Nat : x <= y => e * x \in Nat /\ e * x <= e * y
    OBVIOUS
  <2>2. m \in Nat /\ c \in Nat /\ m <= c /\ e * c \in Nat /\ e * c < WordSize
    BY <1>2
  <2> HIDE DEF m, c
  <2>3. e * m \in Nat /\ e * m <= e * c
    BY <2>1, <2>2
  <2> QED
    BY <2>2, <2>3, WordSizeAssumption
<1>6. (e * m) % WordSize = e * m
  <2> DEFINE a == e * m
  <2>1. a \in Nat /\ a < WordSize
    BY <1>5
  <2> HIDE DEF a
  <2>2. a % WordSize = a
    BY <2>1, WordSizeAssumption
  <2> QED
    BY <2>2 DEF a
<1>7. \/ M = L /\ sched'.totalPriority = sched.totalPriority
      \/ /\ \E p \in Process : M = AddItem(L, p) /\ (L.count < MaxCount \/ L.count = WordSize - 1)
         /\ sched'.totalPriority = (sched.totalPriority + e) % WordSize
      \/ /\ \E p \in Process : M = RemoveItem(L, p)
         /\ sched'.totalPriority = (sched.totalPriority - e) % WordSize
  BY DEF Changed, Changes, InBounds
<1> HIDE DEF M
<1>8. sched'.totalPriority = e * m
  <2>1. CASE M = L /\ sched'.totalPriority = sched.totalPriority
    BY <1>4, <2>1
  <2>2. CASE /\ \E p \in Process : M = AddItem(L, p) /\ (L.count < MaxCount \/ L.count = WordSize - 1)
             /\ sched'.totalPriority = (sched.totalPriority + e) % WordSize
    <3>1. m = n + 1
      BY <1>1, <2>2, AddItemCounted
    <3>2. e * m = e * n + e
      <4>1. \A x \in Nat : e * (x + 1) = e * x + e
        OBVIOUS
      <4> QED
        BY <1>2, <3>1, <4>1
    <3> QED
      BY <1>4, <1>6, <2>2, <3>2
  <2>3. CASE /\ \E p \in Process : M = RemoveItem(L, p)
             /\ sched'.totalPriority = (sched.totalPriority - e) % WordSize
    <3>1. m = n - 1
      BY <1>1, <2>3, RemoveItemCases
    <3>2. e * m = e * n - e
      <4>1. e * (n - 1) = e * n - e
        BY <1>2
      <4> QED
        BY <3>1, <4>1
    <3> QED
      BY <1>4, <1>6, <2>3, <3>2
  <2> QED
    BY <1>7, <2>1, <2>2, <2>3
<1> QED
  BY <1>3, <1>8 DEF PriorityAccounted, M

\* AddProcess and RemoveProcess keep the total right while Yield's sum does
\* not overflow and all priorities are the same: for any number of processes
\* and any calls, and although RemoveProcess may subtract the priority of
\* another process than the one it takes off.
THEOREM PriorityAccountingStays ==
    ASSUME NEW e \in Nat, \A p \in Process : EffectivePriority(p) = e,
           IsFiniteSet(Process), e * Cardinality(Process) < WordSize
    PROVE  Spec => PriorityAccountingKept
<1>1. Init => QueueCounted
  BY CountedInit
<1>2. IInv /\ QueueCounted /\ [Next]_vars => QueueCounted'
  BY CountedNext
<1>3. IInv /\ IInv' /\ QueueCounted /\ QueueCounted' /\ [Next]_vars =>
        [/\ Running /\ PriorityAccounted /\ sched.processes.items # <<>>
         /\ Running' /\ sched'.processes.items # <<>> /\ ~NullPageMapped
         => PriorityAccounted']_vars
  BY StepChanges, StepAccounted
<1> QED
  BY <1>1, <1>2, <1>3, Inductive, PTL DEF Spec, PriorityAccountingKept
=============================================================================
