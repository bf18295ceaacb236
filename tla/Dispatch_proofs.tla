--------------------------- MODULE Dispatch_proofs ---------------------------
(***************************************************************************)
(* What holds of Dispatch for any number of threads, processes and drivers *)
(* and any table.  The inductive invariant adds to the type invariant that *)
(* the system calls come first in the list of their vector.                *)
(***************************************************************************)
EXTENDS Dispatch, LinkedList_proofs, FiniteSetTheorems

InstalledBlocks == {b \in Block : info[b] # Null}

\* The system calls are the first sink of the list and the only one that is
\* not a driver.
Leads(items) ==
    /\ Len(items) >= 1 /\ items[1] = SystemCalls
    /\ \A i \in 2 .. Len(items) : items[i] \in Block

\* The list's count cannot wrap to 0, at which Add would begin a new list.
CallsFirst ==
    /\ Leads(interrupts[SystemCallVector + 1].items)
    /\ interrupts[SystemCallVector + 1].count \in 1 .. Cardinality(InstalledBlocks) + 1

\* What RequestProcessData has answered names the process of the one VFS.
VFSSound == returned # {} => vfs \in Block /\ returned = {info[vfs].parent}

IInv == TypeOK /\ CallsFirst /\ VFSSound

CPU == [thread : Thread, frame : Frame, state : [Thread -> Frame]]

\* The registers that c goes on with when it goes on with t.
RegistersOf(c, t) == IF t = c.thread THEN c.frame ELSE c.state[t]
----------------------------------------------------------------------------
(* Select, by induction on the length of the sequence. *)

\* The values the recursion of Select goes through.
Selecting(f, s, T) ==
    /\ f[0] = <<>>
    /\ \A i \in 1 .. Len(s) : f[i] = IF s[i] \in T THEN Append(f[i - 1], s[i]) ELSE f[i - 1]

LEMMA SelectUnfolds ==
    ASSUME NEW S, NEW s \in Seq(S), NEW T
    PROVE  \E f \in [0 .. Len(s) -> Seq(S \cap T)] : Selecting(f, s, T) /\ Select(s, T) = f[Len(s)]
<1> DEFINE X == Seq(S \cap T)
           n == Len(s)
           op == [a \in (1 .. n) \X X |-> IF s[a[1]] \in T THEN Append(a[2], s[a[1]]) ELSE a[2]]
           Unfolded(f) == f = [i \in 0 .. Len(s) |->
               IF i = 0 THEN <<>> ELSE IF s[i] \in T THEN Append(f[i - 1], s[i]) ELSE f[i - 1]]
<1>1. n \in Nat /\ \A i \in 1 .. n : s[i] \in S
  BY LenProperties, ElementOfSeq
<1>2. <<>> \in X
  BY EmptySeq
<1>3. op \in [(1 .. n) \X X -> X]
  <2>1. ASSUME NEW a \in (1 .. n) \X X PROVE op[a] \in X
    <3>1. a[1] \in 1 .. n /\ a[2] \in X /\ s[a[1]] \in S
      BY <1>1
    <3>2. s[a[1]] \in T => Append(a[2], s[a[1]]) \in X
      BY <3>1, AppendProperties
    <3> QED
      BY <3>1, <3>2
  <2> QED
    BY <2>1
<1>4. PICK f \in [0 .. n -> X] : Recursive(f, n, <<>>, op)
  <2> HIDE DEF op, X, n
  <2> QED
    BY <1>1, <1>2, <1>3, RecursionExists
<1> HIDE DEF op, X
<1>5. ASSUME NEW i \in 1 .. n
      PROVE  op[<<i, f[i - 1]>>] = IF s[i] \in T THEN Append(f[i - 1], s[i]) ELSE f[i - 1]
  <2>1. i - 1 \in 0 .. n /\ f[i - 1] \in X
    BY <1>1, <1>4
  <2> QED
    BY <2>1 DEF op
<1>6. Unfolded(f)
  <2>1. f = [i \in 0 .. n |-> IF i = 0 THEN <<>> ELSE op[<<i, f[i - 1]>>]]
    BY <1>4 DEF Recursive
  <2>2. \A i \in 0 .. n : i # 0 => i \in 1 .. n
    BY <1>1
  <2> QED
    BY <2>1, <2>2, <1>5
<1> DEFINE chosen == CHOOSE g : Unfolded(g)
<1>7. Unfolded(chosen)
  <2> HIDE DEF Unfolded
  <2> QED
    BY <1>6, Zenon
<1>8. Select(s, T) = chosen[n]
  BY Zenon DEF Select
<1> HIDE DEF chosen
<1>9. chosen \in [0 .. n -> X] /\ Selecting(chosen, s, T)
  <2>1. /\ Selecting(chosen, s, T) /\ DOMAIN chosen = 0 .. n
        /\ chosen = [i \in 0 .. n |-> chosen[i]]
    <3>1. \A i \in 0 .. n : chosen[i] =
              IF i = 0 THEN <<>> ELSE IF s[i] \in T THEN Append(chosen[i - 1], s[i]) ELSE chosen[i - 1]
      BY <1>7, Zenon
    <3>2. DOMAIN chosen = 0 .. n /\ chosen = [i \in 0 .. n |-> chosen[i]]
      BY <1>7
    <3>3. 0 \in 0 .. n /\ \A i \in 1 .. n : i \in 0 .. n /\ i # 0
      BY <1>1
    <3> QED
      BY <3>1, <3>2, <3>3 DEF Selecting
  <2> DEFINE P == {i \in Nat : i <= n => chosen[i] \in X}
  <2>2. 0 \in P
    BY <1>2, <2>1 DEF Selecting
  <2>3. ASSUME NEW i \in Nat, i \in P PROVE i + 1 \in P
    <3>1. SUFFICES ASSUME i + 1 <= n PROVE chosen[i + 1] \in X
      OBVIOUS
    <3>2. i + 1 \in 1 .. n /\ (i + 1) - 1 = i /\ chosen[i] \in X /\ s[i + 1] \in S
      BY <1>1, <2>3, <3>1
    <3>3. chosen[i + 1] = IF s[i + 1] \in T THEN Append(chosen[i], s[i + 1]) ELSE chosen[i]
      BY <2>1, <3>2 DEF Selecting
    <3> QED
      BY <3>2, <3>3, AppendProperties DEF X
  <2> HIDE DEF P
  <2>4. Nat \subseteq P
    BY <2>2, <2>3, InductionOnNat
  <2>5. \A i \in 0 .. n : chosen[i] \in X
    BY <1>1, <2>4 DEF P
  <2> QED
    BY <2>1, <2>5
<1> QED
  BY <1>8, <1>9 DEF X

\* Two recursions over sequences and sets that agree so far agree.
LEMMA SelectingSame ==
    ASSUME NEW s, NEW t, NEW T, NEW U, NEW f, NEW g, Selecting(f, s, T), Selecting(g, t, U),
           NEW n \in Nat, n <= Len(s), n <= Len(t), Len(s) \in Nat, Len(t) \in Nat,
           \A i \in 1 .. n : s[i] = t[i] /\ (s[i] \in T <=> t[i] \in U)
    PROVE  f[n] = g[n]
<1> DEFINE P == {i \in Nat : i <= n => f[i] = g[i]}
<1>1. 0 \in P
  BY DEF Selecting
<1>2. ASSUME NEW i \in Nat, i \in P PROVE i + 1 \in P
  <2>1. SUFFICES ASSUME i + 1 <= n PROVE f[i + 1] = g[i + 1]
    OBVIOUS
  <2>2. /\ i + 1 \in 1 .. Len(s) /\ i + 1 \in 1 .. Len(t) /\ i + 1 \in 1 .. n
        /\ (i + 1) - 1 = i /\ f[i] = g[i]
    BY <1>2, <2>1
  <2>3. /\ f[i + 1] = IF s[i + 1] \in T THEN Append(f[i], s[i + 1]) ELSE f[i]
        /\ g[i + 1] = IF t[i + 1] \in U THEN Append(g[i], t[i + 1]) ELSE g[i]
    BY <2>2 DEF Selecting
  <2> QED
    BY <2>2, <2>3
<1> HIDE DEF P
<1>3. n \in P
  BY <1>1, <1>2, InductionOnNat
<1> QED
  BY <1>3 DEF P

\* Select looks at nothing but which of the items are in the set.
LEMMA SelectAgrees ==
    ASSUME NEW S, NEW s \in Seq(S), NEW T, NEW U,
           \A i \in 1 .. Len(s) : s[i] \in T <=> s[i] \in U
    PROVE  Select(s, T) = Select(s, U)
<1>1. Len(s) \in Nat
  BY LenProperties
<1>2. PICK f : Selecting(f, s, T) /\ Select(s, T) = f[Len(s)]
  BY SelectUnfolds
<1>3. PICK g : Selecting(g, s, U) /\ Select(s, U) = g[Len(s)]
  BY SelectUnfolds
<1>4. f[Len(s)] = g[Len(s)]
  BY <1>1, <1>2, <1>3, SelectingSame
<1> QED
  BY <1>2, <1>3, <1>4

LEMMA SelectAppend ==
    ASSUME NEW S, NEW s \in Seq(S), NEW x \in S, NEW T
    PROVE  Select(Append(s, x), T) = IF x \in T THEN Append(Select(s, T), x) ELSE Select(s, T)
<1> DEFINE t == Append(s, x)
           n == Len(s)
<1>1. /\ n \in Nat /\ t \in Seq(S) /\ Len(t) = n + 1 /\ t[n + 1] = x
      /\ \A i \in 1 .. n : t[i] = s[i]
  BY LenProperties, AppendProperties
<1> HIDE DEF t
<1>2. PICK f : Selecting(f, s, T) /\ Select(s, T) = f[n]
  BY SelectUnfolds
<1>3. PICK g : Selecting(g, t, T) /\ Select(t, T) = g[Len(t)]
  BY <1>1, SelectUnfolds
<1>4. f[n] = g[n]
  BY <1>1, <1>2, <1>3, SelectingSame
<1>5. n + 1 \in 1 .. Len(t) /\ (n + 1) - 1 = n
  BY <1>1
<1>6. g[n + 1] = IF x \in T THEN Append(g[n], x) ELSE g[n]
  BY <1>1, <1>3, <1>5 DEF Selecting
<1> QED
  BY <1>1, <1>2, <1>3, <1>4, <1>6 DEF t

LEMMA SelectEmpty ==
    ASSUME NEW s, s = <<>>, NEW T
    PROVE  Select(s, T) = <<>>
<1>1. Len(s) = 0 /\ s \in Seq({})
  BY EmptySeq
<1>2. PICK f : Selecting(f, s, T) /\ Select(s, T) = f[Len(s)]
  BY <1>1, SelectUnfolds
<1>3. f[0] = <<>>
  BY <1>2 DEF Selecting
<1>4. Select(s, T) = f[Len(s)]
  BY <1>2
<1> QED
  BY <1>1, <1>3, <1>4

LEMMA SelectOne ==
    ASSUME NEW x, NEW T
    PROVE  Select(<<x>>, T) = IF x \in T THEN <<x>> ELSE <<>>
<1> DEFINE e == <<>>
<1>1. e \in Seq({x}) /\ <<x>> = Append(e, x) /\ Select(e, T) = e
  BY EmptySeq, SelectEmpty
<1> HIDE DEF e
<1>2. Select(Append(e, x), T) = IF x \in T THEN Append(Select(e, T), x) ELSE Select(e, T)
  BY <1>1, SelectAppend
<1>3. Select(<<x>>, T) = IF x \in T THEN <<x>> ELSE e
  BY <1>1, <1>2
<1> QED
  BY <1>3 DEF e

LEMMA SelectType ==
    ASSUME NEW S, NEW s \in Seq(S), NEW T
    PROVE  Select(s, T) \in Seq(S \cap T)
<1>1. Len(s) \in Nat
  BY LenProperties
<1>2. PICK f \in [0 .. Len(s) -> Seq(S \cap T)] : Select(s, T) = f[Len(s)]
  BY SelectUnfolds
<1> QED
  BY <1>1, <1>2
----------------------------------------------------------------------------
(* The receivers of an interrupt. *)

\* A switch saves and loads: it changes nobody's registers.
LEMMA YieldsKeep ==
    ASSUME NEW c \in CPU, NEW d \in Yields(c)
    PROVE  d \in CPU /\ \A t \in Thread : RegistersOf(d, t) = RegistersOf(c, t)
<1>1. CASE d = c
  BY <1>1
<1>2. CASE \E t \in Thread : d = Switch(c, t)
  BY <1>2 DEF Switch, CPU, RegistersOf
<1> QED
  BY <1>1, <1>2 DEF Yields

\* Nor does any driver's receive.
LEMMA ReceivedKeeps ==
    ASSUME NEW c \in CPU, NEW sinks, NEW tmr, NEW d \in Received(c, sinks, tmr)
    PROVE  d \in CPU /\ \A t \in Thread : RegistersOf(d, t) = RegistersOf(c, t)
BY YieldsKeep DEF Received

\* The state the kernel resumes.
LEMMA Resumed ==
    ASSUME NEW c \in CPU, Resume(c)
    PROVE  /\ current' \in Thread /\ frame' \in Frame /\ state' \in [Thread -> Frame]
           /\ \A t \in Thread : Registers(t)' = RegistersOf(c, t)
BY DEF Resume, CPU, Registers, RegistersOf

\* Nothing comes before the system calls.
LEMMA NothingBefore ==
    ASSUME TypeOK, CallsFirst
    PROVE  Before(Chain(interrupts, SystemCallVector)) = {}
<1> DEFINE L == interrupts[SystemCallVector + 1]
<1>1. /\ SystemCallVector \in Nat /\ SystemCallVector < Len(interrupts)
      /\ L.items # <<Null>> /\ SystemCalls \notin Block
  BY DispatchAssumption DEF TypeOK, CallsFirst, Leads, Sink
<1>2. Chain(interrupts, SystemCallVector) = L.items
  BY <1>1 DEF Chain, GetItem
<1>3. L \in List(Sink)
  BY DispatchAssumption DEF TypeOK
<1>4. Len(L.items) \in Nat
  BY <1>3, ItemsType
<1>5. PositionOfCalls(L.items) = 1
  BY <1>1, <1>4 DEF PositionOfCalls, CallsFirst, Leads
<1> QED
  BY <1>2, <1>5 DEF Before

LEMMA EntryIsNow ==
    ASSUME TypeOK, CallsFirst
    PROVE  Entries = {Now}
BY NothingBefore DEF Entries, Received

\* What the return of a system call leaves of the registers.
LEMMA ReturnKeeps ==
    ASSUME NEW entry \in CPU, NEW c \in CPU, NEW result \in {Done, Refused}, Return(entry, c, result)
    PROVE  /\ current' \in Thread /\ frame' \in Frame /\ state' \in [Thread -> Frame] /\ lost' = FALSE
           /\ \A t \in Thread : Registers(t)'.iopl = RegistersOf(c, t).iopl
           /\ \A t \in Thread : Registers(t)' = RegistersOf(c, t)
                  \/ (t = c.thread /\ c.frame.rip = entry.frame.rip)
           /\ \A t \in Thread : t = c.thread /\ c.frame.rip = entry.frame.rip => Registers(t)'.rax = result
<1> DEFINE w == WithResult(entry, c, result)
<1>1. /\ w \in CPU
      /\ \A t \in Thread : RegistersOf(w, t).iopl = RegistersOf(c, t).iopl
      /\ \A t \in Thread : RegistersOf(w, t) = RegistersOf(c, t)
             \/ (t = c.thread /\ c.frame.rip = entry.frame.rip)
      /\ \A t \in Thread : t = c.thread /\ c.frame.rip = entry.frame.rip => RegistersOf(w, t).rax = result
  BY DEF WithResult, CPU, Frame, RegistersOf
<1>2. PICK d \in Received(w, After(Chain(interrupts', SystemCallVector)), timer') : Resume(d) /\ lost' = FALSE
  BY DEF Return
<1> HIDE DEF w
<1>3. d \in CPU /\ \A t \in Thread : RegistersOf(d, t) = RegistersOf(w, t)
  BY <1>1, <1>2, ReceivedKeeps
<1> QED
  BY <1>1, <1>2, <1>3, Resumed

LEMMA NowType ==
    ASSUME TypeOK
    PROVE  /\ Now \in CPU /\ Now.thread = current /\ Now.frame = frame /\ current \in Thread
           /\ \A t \in Thread : RegistersOf(Now, t) = Registers(t)
BY DEF TypeOK, Now, CPU, RegistersOf, Registers

\* RemoveProcess replaces the current thread and leaves the frame.
LEMMA RemovedKeeps ==
    ASSUME TypeOK, NEW first \in Thread
    PROVE  LET c == [Now EXCEPT !.thread = first]
           IN  c \in CPU /\ \A t \in Thread \ {current, first} : RegistersOf(c, t) = Registers(t)
BY DEF TypeOK, Now, CPU, RegistersOf, Registers
----------------------------------------------------------------------------
(* What every step keeps that leaves the devices and the answers alone. *)

LEMMA CallKeepsInvariant ==
    ASSUME IInv, UNCHANGED <<devices, returned>>, privileges' \in [Process -> SUBSET Privilege],
           current' \in Thread, frame' \in Frame, state' \in [Thread -> Frame], lost' \in BOOLEAN
    PROVE  IInv'
<1>1. UNCHANGED <<interrupts, drivers, info, timer, vfs, returned>>
  BY DEF devices
<1> QED
  BY <1>1 DEF IInv, TypeOK, CallsFirst, InstalledBlocks, VFSSound

\* A call that only returns, from the frame as it was or from another.
LEMMA ReturnKeepsInvariant ==
    ASSUME IInv, UNCHANGED <<devices, returned>>, privileges' \in [Process -> SUBSET Privilege],
           NEW c \in CPU, NEW result \in {Done, Refused}, Return(Now, c, result)
    PROVE  IInv'
<1>1. Now \in CPU
  BY NowType DEF IInv
<1> QED
  BY <1>1, ReturnKeeps, CallKeepsInvariant
----------------------------------------------------------------------------
(* The initial state. *)

LEMMA InstallType ==
    /\ Install \in Seq(List(Sink) \cup {Null}) /\ Len(Install) = VectorCount + 1
    /\ Install[1] = Null
    /\ \A i \in 1 .. VectorCount : Install[i + 1] = EmptyList
<1> DEFINE S == List(Sink) \cup {Null}
           lists == [i \in 1 .. VectorCount |-> EmptyList]
<1>1. VectorCount \in Nat /\ EmptyList \in List(Sink)
  <2>1. <<Null>> \in Seq(Sink \cup {Null})
    OBVIOUS
  <2> QED
    BY <2>1, DispatchAssumption, WordSizeAssumption DEF EmptyList, List
<1>2. lists \in [1 .. VectorCount -> S]
  BY <1>1
<1>3. lists \in Seq(S) /\ Len(lists) = VectorCount
  BY <1>1, <1>2
<1>4. <<Null>> \in Seq(S) /\ Len(<<Null>>) = 1 /\ <<Null>>[1] = Null
  OBVIOUS
<1> HIDE DEF S, lists
<1>5. /\ Install \in Seq(S) /\ Len(Install) = 1 + VectorCount
      /\ \A i \in 1 .. 1 + VectorCount : Install[i] = IF i <= 1 THEN <<Null>>[i] ELSE lists[i - 1]
  <2>1. Install = <<Null>> \o lists
    BY DEF Install, lists
  <2> QED
    BY <1>1, <1>3, <1>4, <2>1, ConcatProperties
<1>6. \A i \in 1 .. VectorCount : Install[i + 1] = lists[i]
  BY <1>1, <1>5
<1> QED
  BY <1>1, <1>4, <1>5, <1>6 DEF S, lists

LEMMA InitSound == Init => IInv
<1> SUFFICES ASSUME Init PROVE IInv
  OBVIOUS
<1> DEFINE first == ListOf(SystemCalls)
<1>1. /\ SystemCallVector \in 1 .. VectorCount /\ VectorCount \in Nat
      /\ POSIXVector \in Nat /\ POSIXVector > VectorCount
  BY DispatchAssumption
<1>2. AddInterrupt(Install, SystemCalls, SystemCallVector)
        = [Install EXCEPT ![SystemCallVector + 1] = first]
  <2>1. ~ (SystemCallVector >= Len(Install)) /\ Install[SystemCallVector + 1] = EmptyList
    BY <1>1, InstallType
  <2>2. SystemCallVector + 1 \in DOMAIN Install
    BY <1>1, InstallType, LenProperties
  <2>3. AddItem(EmptyList, SystemCalls) = first
    BY DEF AddItem, EmptyList
  <2> QED
    BY <2>1, <2>2, <2>3 DEF AddInterrupt
<1>3. first \in List(Sink) /\ first.items = <<SystemCalls>> /\ first.count = 1
  <2>1. <<SystemCalls>> \in Seq(Sink \cup {Null})
    BY DEF Sink
  <2> QED
    BY <2>1, WordSizeAssumption DEF ListOf, List, Sink
<1> HIDE DEF first
<1>4. /\ interrupts = [Install EXCEPT ![SystemCallVector + 1] = first]
      /\ interrupts \in Seq(List(Sink) \cup {Null}) /\ Len(interrupts) = VectorCount + 1
      /\ \A i \in 1 .. VectorCount + 1 :
             interrupts[i] = IF i = SystemCallVector + 1 THEN first ELSE Install[i]
  <2> DEFINE table == [Install EXCEPT ![SystemCallVector + 1] = first]
  <2>1. SystemCallVector + 1 \in 1 .. Len(Install) /\ first \in List(Sink) \cup {Null}
    BY <1>1, <1>3, InstallType
  <2>2. /\ table \in Seq(List(Sink) \cup {Null}) /\ Len(table) = VectorCount + 1
        /\ \A i \in 1 .. VectorCount + 1 :
               table[i] = IF i = SystemCallVector + 1 THEN first ELSE Install[i]
    BY <2>1, InstallType, ExceptSeq
  <2>3. interrupts = AddInterrupt(table, POSIX, POSIXVector)
    BY <1>2 DEF Init
  <2>4. POSIXVector >= Len(table)
    BY <1>1, <2>2, DispatchAssumption
  <2> QED
    BY <2>2, <2>3, <2>4 DEF AddInterrupt
<1>5. EmptyList \in List(Block) /\ EmptyList \in List(Sink)
  <2>1. <<Null>> \in Seq(Block \cup {Null}) /\ <<Null>> \in Seq(Sink \cup {Null})
    OBVIOUS
  <2> QED
    BY <2>1, WordSizeAssumption DEF EmptyList, List
<1>6. TypeOK
  <2>1. interrupts[1] = Null /\ \A i \in 1 .. VectorCount : interrupts[i + 1] \in List(Sink)
    BY <1>1, <1>3, <1>4, <1>5, InstallType
  <2>2. privileges \in [Process -> SUBSET Privilege]
    BY DEF Init, DefaultPrivileges, Privilege, SecurityPrivilegeCount
  <2> QED
    BY <1>4, <1>5, <2>1, <2>2 DEF TypeOK, Init, Frame
<1>7. CallsFirst
  <2>1. interrupts[SystemCallVector + 1] = first
    BY <1>1, <1>4
  <2>2. InstalledBlocks = {}
    BY DEF Init, InstalledBlocks
  <2>3. Leads(<<SystemCalls>>)
    BY DEF Leads
  <2>4. 1 \in 1 .. Cardinality({}) + 1
    BY FS_EmptySet
  <2> QED
    BY <1>3, <2>1, <2>2, <2>3, <2>4 DEF CallsFirst
<1> QED
  BY <1>6, <1>7 DEF IInv, VFSSound, Init
----------------------------------------------------------------------------
(* InstallDriver, the one call that changes the devices. *)

\* A driver's sink comes behind the system calls.
LEMMA AddBehindCalls ==
    ASSUME NEW L \in List(Sink), Leads(L.items), NEW n \in Nat, L.count \in 1 .. n + 1,
           n + 2 < WordSize, NEW b \in Block
    PROVE  /\ AddItem(L, b) \in List(Sink)
           /\ Leads(AddItem(L, b).items) /\ AddItem(L, b).count \in 1 .. n + 2
<1>1. Len(L.items) \in Nat /\ L.items \in Seq(Sink \cup {Null}) /\ b \in Sink
  BY ItemsType DEF Sink
<1>2. L.count # 0 /\ (L.count + 1) % WordSize = L.count + 1
  BY WordSizeAssumption
<1>3. /\ AddItem(L, b).items \in {L.items, Append(L.items, b)}
      /\ AddItem(L, b).count = L.count + 1
  BY <1>2 DEF AddItem
<1>4. /\ Len(Append(L.items, b)) = Len(L.items) + 1
      /\ \A i \in 1 .. Len(L.items) : Append(L.items, b)[i] = L.items[i]
      /\ Append(L.items, b)[Len(L.items) + 1] = b
  BY <1>1, AppendProperties
<1>5. Leads(Append(L.items, b))
  BY <1>1, <1>4 DEF Leads
<1>6. Leads(AddItem(L, b).items)
  BY <1>3, <1>5
<1>7. AddItem(L, b).count \in 1 .. n + 2
  BY <1>3
<1> QED
  BY <1>1, <1>6, <1>7, AddItemCases

\* There are never more drivers than blocks.
LEMMA RoomForOneMore ==
    ASSUME NEW b \in Block, info[b] = Null
    PROVE  /\ IsFiniteSet(InstalledBlocks) /\ Cardinality(InstalledBlocks) \in Nat
           /\ Cardinality(InstalledBlocks \cup {b}) = Cardinality(InstalledBlocks) + 1
           /\ Cardinality(InstalledBlocks) + 2 < WordSize
<1>1. /\ InstalledBlocks \cup {b} \in SUBSET Block /\ InstalledBlocks \in SUBSET Block
      /\ b \notin InstalledBlocks
  BY DEF InstalledBlocks
<1>2. IsFiniteSet(InstalledBlocks)
  BY <1>1, DispatchAssumption, FS_Subset
<1>3. Cardinality(InstalledBlocks \cup {b}) = Cardinality(InstalledBlocks) + 1
  BY <1>1, <1>2, FS_AddElement
<1>4. Cardinality(InstalledBlocks \cup {b}) <= Cardinality(Block)
  BY <1>1, DispatchAssumption, FS_Subset
<1>5. Cardinality(InstalledBlocks) \in Nat /\ Cardinality(Block) \in Nat
  BY <1>2, DispatchAssumption, FS_CardinalityType
<1>6. Cardinality(Block) + 1 < WordSize /\ WordSize \in Nat
  BY DispatchAssumption, WordSizeAssumption
<1> QED
  BY <1>2, <1>3, <1>4, <1>5, <1>6

\* Adding a driver's sink to a vector keeps the table and the system calls'
\* place in it.
LEMMA AddInterruptKeeps ==
    ASSUME TypeOK, CallsFirst, NEW b \in Block, info[b] = Null, NEW vector \in Nat \ {0},
           NEW table, table = AddInterrupt(interrupts, b, vector)
    PROVE  /\ table \in Seq(List(Sink) \cup {Null}) /\ Len(table) = VectorCount + 1
           /\ table[1] = Null /\ \A i \in 1 .. VectorCount : table[i + 1] \in List(Sink)
           /\ Leads(table[SystemCallVector + 1].items)
           /\ table[SystemCallVector + 1].count \in 1 .. Cardinality(InstalledBlocks) + 2
<1> DEFINE old == interrupts[SystemCallVector + 1]
           new == AddItem(old, b)
           n == Cardinality(InstalledBlocks)
<1>1. /\ SystemCallVector \in 1 .. VectorCount /\ VectorCount \in Nat
      /\ interrupts \in Seq(List(Sink) \cup {Null}) /\ Len(interrupts) = VectorCount + 1
      /\ old \in List(Sink) /\ b \in Sink
  BY DispatchAssumption DEF TypeOK, Sink
<1>2. n \in Nat /\ n + 2 < WordSize
  BY RoomForOneMore
<1>3. Leads(old.items) /\ old.count \in 1 .. n + 1
  BY DEF CallsFirst
<1> HIDE DEF n
<1>4. Leads(new.items) /\ new.count \in 1 .. n + 2
  BY <1>1, <1>2, <1>3, AddBehindCalls
<1>5. old.count \in 1 .. n + 2
  BY <1>2, <1>3
<1> HIDE DEF new, old
<1>6. CASE vector >= Len(interrupts)
  <2>1. table = interrupts
    BY <1>6 DEF AddInterrupt
  <2> QED
    BY <1>3, <1>5, <2>1 DEF TypeOK, n, old
<1>7. CASE ~ (vector >= Len(interrupts))
  <2> DEFINE added == AddItem(interrupts[vector + 1], b)
  <2>1. vector + 1 \in 1 .. Len(interrupts) /\ vector \in 1 .. VectorCount
    BY <1>1, <1>7
  <2>2. added \in List(Sink)
    BY <1>1, <2>1, AddItemCases DEF TypeOK
  <2>3. table = [interrupts EXCEPT ![vector + 1] = added]
    <3>1. vector + 1 \in DOMAIN interrupts
      BY <1>1, <2>1, LenProperties
    <3> QED
      BY <1>7, <3>1 DEF AddInterrupt
  <2>4. vector = SystemCallVector => added = new
    BY DEF new, old
  <2> HIDE DEF added
  <2>5. /\ table \in Seq(List(Sink) \cup {Null}) /\ Len(table) = VectorCount + 1
        /\ \A i \in 1 .. VectorCount + 1 :
               table[i] = IF i = vector + 1 THEN added ELSE interrupts[i]
    BY <1>1, <2>1, <2>2, <2>3, ExceptSeq
  <2>6. table[1] = Null /\ \A i \in 1 .. VectorCount : table[i + 1] \in List(Sink)
    BY <1>1, <2>1, <2>2, <2>5 DEF TypeOK
  <2>7. table[SystemCallVector + 1] \in {new, old}
    BY <1>1, <2>1, <2>4, <2>5 DEF old
  <2> QED
    BY <1>3, <1>4, <1>5, <2>5, <2>6, <2>7 DEF n
<1> QED
  BY <1>6, <1>7

LEMMA InstallDriverSound ==
    ASSUME IInv, ~lost, NEW b \in Block, NEW d \in Description, InstallDriver(b, d, Now)
    PROVE  IInv'
<1> DEFINE block == [parent |-> Owner[current], irq |-> d.irq,
                     supportsInterrupts |-> d.supportsInterrupts, type |-> d.type]
           c == [Now EXCEPT !.frame.iopl = TRUE]
<1>1. /\ TypeOK /\ CallsFirst /\ VFSSound
      /\ Now \in CPU /\ Now.thread = current
      /\ info[b] = Null /\ current \in Thread
  BY NowType DEF IInv, InstallDriver, TypeOK
<1>2. CASE Fail
  BY <1>2, CallKeepsInvariant DEF Fail, cpu, IInv, TypeOK
<1>3. CASE /\ ~ (d.supportsInterrupts /\ GetItem(interrupts, d.irq) = Null /\ d.irq < Len(interrupts))
           /\ timer' = TimerAfter(b, d) /\ vfs' = VFSAfter(b, d)
           /\ drivers' = AddItem(drivers, b) /\ info' = [info EXCEPT ![b] = block]
           /\ interrupts' = IF d.supportsInterrupts THEN AddInterrupt(interrupts, b, d.irq) ELSE interrupts
           /\ Return(Now, c, Done)
           /\ UNCHANGED <<privileges, returned>>
  <2>1. block \in Fields /\ block # Null
    BY <1>1, DispatchAssumption DEF Fields
  <2> HIDE DEF block
  <2>2. /\ info' \in [Block -> Fields \cup {Null}] /\ info'[b] # Null
        /\ \A x \in Block : x # b => info'[x] = info[x]
        /\ InstalledBlocks' = InstalledBlocks \cup {b} /\ b \notin InstalledBlocks
    BY <1>1, <1>3, <2>1 DEF TypeOK, InstalledBlocks
  <2>3. /\ Cardinality(InstalledBlocks) \in Nat
        /\ Cardinality(InstalledBlocks)' = Cardinality(InstalledBlocks) + 1
    BY <1>1, <2>2, RoomForOneMore
  <2>4. /\ interrupts' \in Seq(List(Sink) \cup {Null}) /\ Len(interrupts') = VectorCount + 1
        /\ interrupts'[1] = Null /\ \A i \in 1 .. VectorCount : interrupts'[i + 1] \in List(Sink)
        /\ CallsFirst'
    <3>1. CASE ~ d.supportsInterrupts
      <4>1. interrupts' = interrupts
        BY <1>3, <3>1
      <4>2. CallsFirst'
        BY <1>1, <2>3, <4>1 DEF CallsFirst
      <4> QED
        BY <1>1, <4>1, <4>2 DEF TypeOK
    <3>2. CASE d.supportsInterrupts
      <4>1. d.irq \in Nat \ {0}
        <5>1. d.irq \in Nat
          BY DispatchAssumption
        <5>2. GetItem(interrupts, 0) = Null /\ 0 < Len(interrupts)
          BY <1>1, DispatchAssumption DEF GetItem, TypeOK
        <5> QED
          BY <1>3, <3>2, <5>1, <5>2
      <4>2. interrupts' = AddInterrupt(interrupts, b, d.irq)
        BY <1>3, <3>2
      <4>3. /\ interrupts' \in Seq(List(Sink) \cup {Null}) /\ Len(interrupts') = VectorCount + 1
            /\ interrupts'[1] = Null /\ \A i \in 1 .. VectorCount : interrupts'[i + 1] \in List(Sink)
            /\ Leads(interrupts'[SystemCallVector + 1].items)
            /\ interrupts'[SystemCallVector + 1].count \in 1 .. Cardinality(InstalledBlocks) + 2
        BY <1>1, <4>1, <4>2, AddInterruptKeeps
      <4>4. CallsFirst'
        BY <2>3, <4>3 DEF CallsFirst
      <4> QED
        BY <4>3, <4>4
    <3> QED
      BY <3>1, <3>2
  <2>5. c \in CPU
    BY <1>1 DEF CPU, Frame
  <2> HIDE DEF c
  <2>6. current' \in Thread /\ frame' \in Frame /\ state' \in [Thread -> Frame] /\ lost' = FALSE
    BY <1>1, <1>3, <2>5, ReturnKeeps
  <2>7. drivers' \in List(Block)
    BY <1>1, <1>3, AddItemCases DEF TypeOK
  <2>8. /\ timer' \in {x \in Block : info'[x] # Null} \cup {Null}
        /\ vfs' \in {x \in Block : info'[x] # Null} \cup {Null, Junk}
    BY <1>1, <1>3, <2>2 DEF TimerAfter, VFSAfter, TypeOK
  <2>9. TypeOK'
    BY <1>1, <1>3, <2>2, <2>4, <2>6, <2>7, <2>8 DEF TypeOK
  <2>10. VFSSound'
    <3>1. CASE returned = {}
      BY <1>3, <3>1 DEF VFSSound
    <3>2. CASE returned # {}
      <4>1. vfs \in Block /\ vfs # Null /\ info[vfs] # Null /\ vfs # b
        BY <1>1, <3>2, DispatchAssumption DEF VFSSound, TypeOK, Sink
      <4>2. vfs' = vfs /\ info'[vfs] = info[vfs] /\ returned' = returned
        BY <1>3, <2>2, <4>1 DEF VFSAfter
      <4> QED
        BY <1>1, <4>1, <4>2 DEF VFSSound
    <3> QED
      BY <3>1, <3>2
  <2> QED
    BY <2>4, <2>9, <2>10 DEF IInv
<1> QED
  BY <1>1, <1>2, <1>3 DEF InstallDriver
----------------------------------------------------------------------------
(* The other actions. *)

LEMMA InterruptSound ==
    ASSUME IInv, NEW vector, Interrupt(vector)
    PROVE  IInv'
<1>1. TypeOK /\ Now \in CPU
  BY NowType DEF IInv
<1>2. CASE Fail
  BY <1>1, <1>2, CallKeepsInvariant DEF Fail, cpu, TypeOK
<1>3. CASE /\ \E c \in Received(Now, ToSet(Chain(interrupts, vector)), timer) : Resume(c)
           /\ UNCHANGED <<devices, privileges, returned, lost>>
  <2>1. PICK c \in Received(Now, ToSet(Chain(interrupts, vector)), timer) : Resume(c)
    BY <1>3
  <2>2. c \in CPU
    BY <1>1, ReceivedKeeps
  <2> QED
    BY <1>1, <1>3, <2>1, <2>2, Resumed, CallKeepsInvariant DEF TypeOK
<1> QED
  BY <1>2, <1>3 DEF Interrupt

LEMMA RunSound ==
    ASSUME IInv, NEW place \in Place, Run(place)
    PROVE  IInv'
<1>1. frame' \in Frame
  BY DEF Run, IInv, TypeOK, Frame
<1> QED
  BY <1>1, CallKeepsInvariant DEF Run, IInv, TypeOK

\* The calls that yield, after RemoveProcess or without it.
LEMMA YieldingSound ==
    ASSUME IInv, UNCHANGED <<devices, privileges, returned>>, NEW b \in CPU,
           \E c \in Yields(b) : Return(Now, c, Done)
    PROVE  IInv'
<1>1. PICK c \in Yields(b) : Return(Now, c, Done)
  OBVIOUS
<1>2. c \in CPU /\ privileges' \in [Process -> SUBSET Privilege]
  BY YieldsKeep DEF IInv, TypeOK
<1> QED
  BY <1>1, <1>2, ReturnKeepsInvariant

\* What ToggleSecurityPrivilege does to the privileges.
LEMMA ToggleKeeps ==
    ASSUME TypeOK, NEW n \in Asked, ToggleSecurityPrivilege(n, Now)
    PROVE  privileges' \in [Process -> SUBSET Privilege]
<1> DEFINE p == Owner[current]
           granted == n <= SecurityPrivilegeCount - 1 /\ MaySet(n)
<1>1. /\ privileges' = IF granted THEN [privileges EXCEPT ![p] = Toggled(@, n)] ELSE privileges
      /\ privileges \in [Process -> SUBSET Privilege] /\ n \in Nat /\ p \in Process
  BY DispatchAssumption DEF ToggleSecurityPrivilege, Now, TypeOK
<1>2. CASE granted
  <2>1. n \in Privilege
    BY <1>1, <1>2 DEF Privilege, SecurityPrivilegeCount
  <2> HIDE DEF p, granted
  <2> QED
    BY <1>1, <1>2, <2>1 DEF Toggled
<1>3. CASE ~ granted
  BY <1>1, <1>3
<1> QED
  BY <1>2, <1>3

LEMMA ToggleSound ==
    ASSUME IInv, NEW n \in Asked, ToggleSecurityPrivilege(n, Now)
    PROVE  IInv'
<1>1. TypeOK /\ Now \in CPU
  BY NowType DEF IInv
<1>2. UNCHANGED <<devices, returned>> /\ privileges' \in [Process -> SUBSET Privilege]
  BY <1>1, ToggleKeeps DEF ToggleSecurityPrivilege
<1>3. \E result \in {Done, Refused} : Return(Now, Now, result)
  BY DEF ToggleSecurityPrivilege
<1> QED
  BY <1>1, <1>2, <1>3, ReturnKeepsInvariant

\* The calls that change nothing but the caller's RAX.
LEMMA AnswerSound ==
    ASSUME IInv, UNCHANGED <<devices, privileges, returned>>, NEW result \in {Done, Refused},
           Return(Now, Now, result)
    PROVE  IInv'
<1>1. TypeOK /\ Now \in CPU
  BY NowType DEF IInv
<1>2. privileges' \in [Process -> SUBSET Privilege]
  BY <1>1 DEF TypeOK
<1> QED
  BY <1>1, <1>2, ReturnKeepsInvariant

LEMMA RequestProcessDataSound ==
    ASSUME IInv, NEW flags, RequestProcessData(flags, Now)
    PROVE  IInv'
<1> DEFINE refused == 1 \notin flags /\ flags \cap {2, 3, 4} # {}
           asks == ~refused /\ 0 \in flags /\ vfs # Null
<1>1. TypeOK /\ VFSSound /\ CallsFirst /\ Now \in CPU
  BY NowType DEF IInv
<1>2. CASE Fail
  BY <1>1, <1>2, CallKeepsInvariant DEF Fail, cpu, TypeOK
<1>3. CASE ~ Fail
  <2>1. /\ asks => vfs # Junk
        /\ UNCHANGED <<devices, privileges>>
        /\ returned' = IF asks THEN returned \cup {info[vfs].parent} ELSE returned
        /\ \E result \in {Done, Refused} : Return(Now, Now, result)
    BY <1>3 DEF RequestProcessData
  <2>2. CASE ~ asks
    BY <2>1, <2>2, AnswerSound
  <2>3. CASE asks
    <3>1. /\ vfs \in Block /\ info[vfs] \in Fields
          /\ returned' = {info[vfs].parent}
      BY <1>1, <2>1, <2>3 DEF TypeOK, VFSSound
    <3>2. current' \in Thread /\ frame' \in Frame /\ state' \in [Thread -> Frame] /\ lost' = FALSE
      BY <1>1, <2>1, ReturnKeeps
    <3>3. UNCHANGED <<interrupts, drivers, info, timer, vfs, privileges>>
      BY <2>1 DEF devices
    <3>4. TypeOK'
      BY <1>1, <3>1, <3>2, <3>3 DEF TypeOK, Fields
    <3>5. CallsFirst'
      BY <1>1, <3>3 DEF CallsFirst, InstalledBlocks
    <3>6. VFSSound'
      BY <3>1, <3>3 DEF VFSSound
    <3> QED
      BY <3>4, <3>5, <3>6 DEF IInv
  <2> QED
    BY <2>2, <2>3
<1> QED
  BY <1>2, <1>3

LEMMA UnknownCallKeeps ==
    ASSUME TypeOK, UnknownCall(Now)
    PROVE  /\ current' \in Thread /\ frame' \in Frame /\ state' \in [Thread -> Frame]
           /\ \A t \in Thread : Registers(t)'.iopl = Registers(t).iopl
           /\ \A t \in Thread \ {current} : Registers(t)' = Registers(t)
           /\ \A t \in Thread : t = current => Registers(t)'.rax = Refused
           /\ UNCHANGED <<devices, privileges, returned, lost>>
<1> DEFINE w == [Now EXCEPT !.frame.rax = Refused]
<1>1. w \in CPU
  BY NowType DEF CPU, Frame
<1>2. /\ \A t \in Thread : RegistersOf(w, t).iopl = Registers(t).iopl
      /\ \A t \in Thread \ {current} : RegistersOf(w, t) = Registers(t)
      /\ \A t \in Thread : t = current => RegistersOf(w, t).rax = Refused
  BY DEF RegistersOf, Registers, Now, TypeOK, Frame
<1>3. PICK c \in Received(w, After(Chain(interrupts, SystemCallVector)), timer) : Resume(c)
  BY DEF UnknownCall
<1> HIDE DEF w
<1>4. c \in CPU /\ \A t \in Thread : RegistersOf(c, t) = RegistersOf(w, t)
  BY <1>1, <1>3, ReceivedKeeps
<1> QED
  BY <1>2, <1>3, <1>4, Resumed DEF UnknownCall

LEMMA UnknownCallSound ==
    ASSUME IInv, UnknownCall(Now)
    PROVE  IInv'
<1>1. TypeOK
  BY DEF IInv
<1> QED
  BY <1>1, UnknownCallKeeps, CallKeepsInvariant DEF TypeOK

LEMMA PlainCallSound ==
    ASSUME IInv, ~lost, PlainCall(Now)
    PROVE  IInv'
<1>1. CASE \E b \in Block, d \in Description : InstallDriver(b, d, Now)
  BY <1>1, InstallDriverSound
<1>2. CASE \E n \in Asked : ToggleSecurityPrivilege(n, Now)
  BY <1>2, ToggleSound
<1>3. CASE \E n \in Asked : SecurityPrivilegeStatus(n, Now)
  BY <1>3, AnswerSound DEF SecurityPrivilegeStatus
<1>4. CASE \E flags \in FlagSets : RequestProcessData(flags, Now)
  BY <1>4, RequestProcessDataSound
<1>5. CASE \E result \in {Done, Refused} : OtherCall(result, Now)
  BY <1>5, AnswerSound DEF OtherCall
<1>6. CASE UnknownCall(Now)
  BY <1>6, UnknownCallSound
<1> QED
  BY <1>1, <1>2, <1>3, <1>4, <1>5, <1>6 DEF PlainCall

LEMMA NextSound == IInv /\ [Next]_vars => IInv'
<1> SUFFICES ASSUME IInv, [Next]_vars PROVE IInv'
  OBVIOUS
<1>1. Entries = {Now} /\ TypeOK /\ Now \in CPU
  BY EntryIsNow, NowType DEF IInv
<1>2. CASE \E place \in Place : Run(place)
  BY <1>2, RunSound
<1>3. CASE \E vector \in Vector : Interrupt(vector)
  BY <1>3, InterruptSound
<1>4. CASE ~lost /\ \E entry \in Entries : PlainCall(entry)
  BY <1>1, <1>4, PlainCallSound
<1>5. CASE ~lost /\ \E entry \in Entries : YieldCall(entry)
  <2>1. YieldCall(Now)
    BY <1>1, <1>5
  <2> QED
    BY <1>1, <2>1, YieldingSound, AnswerSound DEF YieldCall
<1>6. CASE ~lost /\ \E entry \in Entries : KillProcessCall(entry)
  <2>1. KillProcessCall(Now)
    BY <1>1, <1>6
  <2> QED
    BY <1>1, <2>1, YieldingSound DEF KillProcessCall
<1>7. CASE ~lost /\ \E entry \in Entries, first \in Thread : RemovingCall(first, entry)
  <2>1. PICK first \in Thread : RemovingCall(first, Now)
    BY <1>1, <1>7
  <2> QED
    BY <1>1, <2>1, RemovedKeeps, YieldingSound DEF RemovingCall
<1>8. CASE KillThreadCall
  BY <1>1, <1>8, CallKeepsInvariant DEF KillThreadCall, Fail, cpu, TypeOK
<1>9. CASE UNCHANGED vars
  BY <1>9 DEF vars, IInv, TypeOK, CallsFirst, InstalledBlocks, VFSSound
<1> QED
  BY <1>2, <1>3, <1>4, <1>5, <1>6, <1>7, <1>8, <1>9 DEF Next
----------------------------------------------------------------------------
(* What one step does to the registers. *)

\* The registers of the threads that are not the current one, but for the
\* threads in T.
OthersKept(T) ==
    \A t \in Thread \ ({current} \cup T) :
        Registers(t)' = Registers(t) \/ Registers(t).rip = frame.rip

FlagsKept(T) == \A t \in Thread \ T : Registers(t)'.iopl = Registers(t).iopl

Answered == \A t \in Thread : t = current => Registers(t)'.rax # Own

\* The handler leaves c, which has changed only the registers of threads in
\* T; the result goes to the thread c goes on with.
LEMMA ReturnFrames ==
    ASSUME TypeOK, NEW c \in CPU, NEW result \in {Done, Refused}, Return(Now, c, result), NEW T,
           \A t \in Thread \ T : RegistersOf(c, t) = Registers(t)
    PROVE  OthersKept(T) /\ FlagsKept(T)
<1>1. Now \in CPU /\ Now.frame = frame
  BY NowType
<1>2. /\ \A t \in Thread : Registers(t)'.iopl = RegistersOf(c, t).iopl
      /\ \A t \in Thread : Registers(t)' = RegistersOf(c, t)
             \/ (t = c.thread /\ c.frame.rip = frame.rip)
  BY <1>1, ReturnKeeps
<1>3. \A t \in Thread : t = c.thread => RegistersOf(c, t) = c.frame
  BY DEF RegistersOf
<1>4. FlagsKept(T)
  BY <1>2 DEF FlagsKept
<1>5. OthersKept(T)
  BY <1>2, <1>3 DEF OthersKept
<1> QED
  BY <1>4, <1>5

\* A call that does not switch is answered in its caller's RAX.
LEMMA ReturnAnswers ==
    ASSUME TypeOK, NEW c \in CPU, NEW result \in {Done, Refused}, Return(Now, c, result),
           c.thread = current, c.frame.rip = frame.rip
    PROVE  Answered
<1>1. Now \in CPU /\ Now.frame = frame /\ Own \notin {Done, Refused}
  BY NowType, DispatchAssumption
<1>2. \A t \in Thread : t = c.thread => Registers(t)'.rax = result
  BY <1>1, ReturnKeeps
<1> QED
  BY <1>1, <1>2 DEF Answered

\* The answer of a call that has changed no registers.
LEMMA AnswerFrames ==
    ASSUME TypeOK, NEW result \in {Done, Refused}, Return(Now, Now, result)
    PROVE  OthersKept({}) /\ FlagsKept({}) /\ Answered
BY NowType, ReturnFrames, ReturnAnswers

LEMMA InstallDriverFrames ==
    ASSUME TypeOK, NEW b \in Block, NEW d \in Description, InstallDriver(b, d, Now), ~lost'
    PROVE  OthersKept({current}) /\ FlagsKept({current}) /\ Answered /\ info' # info
<1> DEFINE c == [Now EXCEPT !.frame.iopl = TRUE]
<1>1. c \in CPU /\ c.thread = current /\ c.frame.rip = frame.rip
  BY NowType DEF CPU, Frame, Now
<1>2. \A t \in Thread \ {current} : RegistersOf(c, t) = Registers(t)
  BY DEF RegistersOf, Registers, Now
<1>3. Return(Now, c, Done)
  BY DEF InstallDriver, Fail
<1>4. info' # info
  <2> DEFINE block == [parent |-> Owner[Now.thread], irq |-> d.irq,
                       supportsInterrupts |-> d.supportsInterrupts, type |-> d.type]
  <2>1. info[b] = Null /\ info' = [info EXCEPT ![b] = block]
    BY DEF InstallDriver, Fail
  <2>2. block \in Fields
    BY NowType, DispatchAssumption DEF Fields
  <2> HIDE DEF block
  <2> QED
    BY <2>1, <2>2, DispatchAssumption DEF TypeOK
<1> HIDE DEF c
<1> QED
  BY <1>1, <1>2, <1>3, <1>4, ReturnFrames, ReturnAnswers

\* What a call that does not yield does to the registers.
LEMMA PlainCallFrames ==
    ASSUME TypeOK, PlainCall(Now), ~lost'
    PROVE  /\ OthersKept({}) /\ Answered
           /\ FlagsKept({}) \/ (FlagsKept({current}) /\ info' # info)
<1>1. CASE \E b \in Block, d \in Description : InstallDriver(b, d, Now)
  BY <1>1, InstallDriverFrames DEF OthersKept
<1>2. CASE \E n \in Asked : ToggleSecurityPrivilege(n, Now)
  BY <1>2, AnswerFrames DEF ToggleSecurityPrivilege
<1>3. CASE \E n \in Asked : SecurityPrivilegeStatus(n, Now)
  BY <1>3, AnswerFrames DEF SecurityPrivilegeStatus
<1>4. CASE \E flags \in FlagSets : RequestProcessData(flags, Now)
  BY <1>4, AnswerFrames DEF RequestProcessData, Fail
<1>5. CASE \E result \in {Done, Refused} : OtherCall(result, Now)
  BY <1>5, AnswerFrames DEF OtherCall
<1>6. CASE UnknownCall(Now)
  BY <1>6, UnknownCallKeeps, DispatchAssumption DEF OthersKept, FlagsKept, Answered
<1> QED
  BY <1>1, <1>2, <1>3, <1>4, <1>5, <1>6 DEF PlainCall

\* What stops the kernel leaves the registers alone.
LEMMA LostKeepsFrames ==
    ASSUME UNCHANGED cpu
    PROVE  OthersKept({}) /\ FlagsKept({})
BY DEF cpu, Registers, OthersKept, FlagsKept

LEMMA LostCalls ==
    ASSUME PlainCall(Now), lost', ~lost
    PROVE  UNCHANGED cpu
<1>1. ASSUME NEW c, NEW result, Return(Now, c, result) PROVE FALSE
  BY <1>1 DEF Return
<1>2. CASE Fail
  BY <1>2 DEF Fail
<1>3. CASE UnknownCall(Now)
  BY <1>3 DEF UnknownCall
<1> QED
  BY <1>1, <1>2, <1>3 DEF PlainCall, InstallDriver, ToggleSecurityPrivilege,
     SecurityPrivilegeStatus, RequestProcessData, OtherCall

\* The calls that yield.
LEMMA YieldingFrames ==
    ASSUME TypeOK, NEW b \in CPU, NEW T, \A t \in Thread \ T : RegistersOf(b, t) = Registers(t),
           \E c \in Yields(b) : Return(Now, c, Done)
    PROVE  OthersKept(T) /\ FlagsKept(T)
<1>1. PICK c \in Yields(b) : Return(Now, c, Done)
  OBVIOUS
<1>2. c \in CPU /\ \A t \in Thread \ T : RegistersOf(c, t) = Registers(t)
  BY <1>1, YieldsKeep
<1> QED
  BY <1>1, <1>2, ReturnFrames

\* Every step keeps the registers of the other threads, but for those of the
\* thread that RemoveProcess makes the current one; and their flags, but for
\* the caller's of InstallDriver.
LEMMA StepFrames ==
    ASSUME IInv, [Next]_vars
    PROVE  \/ \E first \in Thread : RemovingCall(first, Now) /\ OthersKept({first})
           \/ OthersKept({}) /\ (FlagsKept({}) \/ (FlagsKept({current}) /\ info' # info))
<1>1. TypeOK /\ Entries = {Now} /\ Now \in CPU /\ \A t \in Thread : RegistersOf(Now, t) = Registers(t)
  BY EntryIsNow, NowType DEF IInv
<1>2. CASE \E place \in Place : Run(place)
  BY <1>1, <1>2 DEF Run, OthersKept, FlagsKept, Registers, TypeOK, Frame
<1>3. CASE \E vector \in Vector : Interrupt(vector)
  <2>1. CASE Fail
    BY <2>1, LostKeepsFrames DEF Fail
  <2>2. CASE ~ Fail
    <3>1. PICK vector \in Vector : Interrupt(vector)
      BY <1>3
    <3>2. PICK c \in Received(Now, ToSet(Chain(interrupts, vector)), timer) : Resume(c)
      BY <2>2, <3>1 DEF Interrupt
    <3>3. c \in CPU /\ \A t \in Thread : RegistersOf(c, t) = Registers(t)
      BY <1>1, <3>2, ReceivedKeeps
    <3> QED
      BY <3>2, <3>3, Resumed DEF OthersKept, FlagsKept
  <2> QED
    BY <2>1, <2>2
<1>4. CASE ~lost /\ \E entry \in Entries : PlainCall(entry)
  <2>1. ~lost /\ PlainCall(Now)
    BY <1>1, <1>4
  <2>2. CASE lost'
    BY <2>1, <2>2, LostCalls, LostKeepsFrames
  <2>3. CASE ~lost'
    BY <1>1, <2>1, <2>3, PlainCallFrames
  <2> QED
    BY <2>2, <2>3
<1>5. CASE ~lost /\ \E entry \in Entries : YieldCall(entry)
  <2>1. YieldCall(Now)
    BY <1>1, <1>5
  <2> QED
    BY <1>1, <2>1, YieldingFrames, AnswerFrames DEF YieldCall
<1>6. CASE ~lost /\ \E entry \in Entries : KillProcessCall(entry)
  <2>1. KillProcessCall(Now)
    BY <1>1, <1>6
  <2> QED
    BY <1>1, <2>1, YieldingFrames DEF KillProcessCall
<1>7. CASE ~lost /\ \E entry \in Entries, first \in Thread : RemovingCall(first, entry)
  <2>1. PICK first \in Thread : RemovingCall(first, Now)
    BY <1>1, <1>7
  <2>2. OthersKept({current, first})
    BY <1>1, <2>1, RemovedKeeps, YieldingFrames DEF RemovingCall
  <2> QED
    BY <2>1, <2>2 DEF OthersKept
<1>8. CASE KillThreadCall
  BY <1>8, LostKeepsFrames DEF KillThreadCall, Fail
<1>9. CASE UNCHANGED vars
  <2>1. UNCHANGED cpu
    BY <1>9 DEF vars, cpu
  <2> QED
    BY <2>1, LostKeepsFrames
<1> QED
  BY <1>2, <1>3, <1>4, <1>5, <1>6, <1>7, <1>8, <1>9 DEF Next
----------------------------------------------------------------------------
(* The order of the drivers and of the sinks. *)

\* A list that has only ever been added to, at most n values: its first,
\* empty node, or all its values within reach.
Linked(L, n) ==
    \/ L = EmptyList
    \/ /\ Len(L.items) \in 1 .. n /\ L.count = Len(L.items)
       /\ L.last = L.items[Len(L.items)] /\ L.last # Null

\* Add puts a value at the end of such a list.
LEMMA AddLinked ==
    ASSUME NEW S, NEW L \in List(S), NEW n \in Nat, n + 1 < WordSize, Linked(L, n),
           NEW x \in S, x # Null
    PROVE  /\ Linked(AddItem(L, x), n + 1)
           /\ AddItem(L, x).items = IF L = EmptyList THEN <<x>> ELSE Append(L.items, x)
<1>1. L.items \in Seq(S \cup {Null}) /\ Len(L.items) \in Nat
  BY ItemsType
<1>2. CASE L = EmptyList
  <2>1. AddItem(L, x) = ListOf(x)
    BY <1>2 DEF AddItem, EmptyList
  <2>2. Len(<<x>>) = 1 /\ <<x>>[1] = x
    OBVIOUS
  <2> QED
    BY <1>2, <2>1, <2>2 DEF Linked, ListOf
<1>3. CASE L # EmptyList
  <2>1. /\ Len(L.items) \in 1 .. n /\ L.count = Len(L.items)
        /\ L.last = L.items[Len(L.items)] /\ L.last # Null
    BY <1>3 DEF Linked
  <2>2. L.count # 0 /\ (L.count + 1) % WordSize = L.count + 1 /\ L.items # <<>>
    <3>1. L.count \in Nat \ {0} /\ L.count + 1 < WordSize
      BY <1>1, <2>1, WordSizeAssumption
    <3>2. (L.count + 1) % WordSize = L.count + 1
      BY <3>1, WordSizeAssumption
    <3>3. L.items # <<>>
      BY <2>1, EmptySeq
    <3> QED
      BY <3>1, <3>2, <3>3
  <2>3. AddItem(L, x) = [items |-> Append(L.items, x), count |-> L.count + 1, last |-> x]
    BY <2>1, <2>2 DEF AddItem, Attached
  <2>4. Len(Append(L.items, x)) = Len(L.items) + 1 /\ Append(L.items, x)[Len(L.items) + 1] = x
    BY <1>1, AppendProperties
  <2> QED
    BY <1>1, <1>3, <2>1, <2>3, <2>4 DEF Linked
<1> QED
  BY <1>2, <1>3

\* What of a list's values is in T, before and after a value is added.
LEMMA SelectAdded ==
    ASSUME NEW S, NEW L \in List(S), NEW n \in Nat, n + 1 < WordSize, Linked(L, n),
           NEW x \in S, x # Null, NEW T, Null \notin T
    PROVE  Select(AddItem(L, x).items, T) =
               IF x \in T THEN Append(Select(L.items, T), x) ELSE Select(L.items, T)
<1>1. L.items \in Seq(S \cup {Null}) /\ AddItem(L, x).items = IF L = EmptyList THEN <<x>> ELSE Append(L.items, x)
  BY ItemsType, AddLinked
<1>2. CASE L = EmptyList
  <2>1. Select(L.items, T) = <<>>
    BY <1>2, SelectOne DEF EmptyList
  <2>2. Append(<<>>, x) = <<x>>
    OBVIOUS
  <2> QED
    BY <1>1, <1>2, <2>1, <2>2, SelectOne
<1>3. CASE L # EmptyList
  <2> DEFINE values == S \cup {Null}
  <2>1. L.items \in Seq(values) /\ x \in values /\ AddItem(L, x).items = Append(L.items, x)
    BY <1>1, <1>3
  <2> HIDE DEF values
  <2>2. Select(Append(L.items, x), T) = IF x \in T THEN Append(Select(L.items, T), x) ELSE Select(L.items, T)
    BY <2>1, SelectAppend
  <2> QED
    BY <2>1, <2>2
<1> QED
  BY <1>2, <1>3

\* The sinks of a list, and what Add makes of them.
Sinks(L) == IF L.items = <<Null>> THEN <<>> ELSE L.items

LEMMA SinksAdded ==
    ASSUME NEW S, NEW L \in List(S), NEW n \in Nat, n + 1 < WordSize, Linked(L, n),
           NEW x \in S, x # Null
    PROVE  Sinks(AddItem(L, x)) = Append(Sinks(L), x)
<1>1. L.items \in Seq(S \cup {Null}) /\ AddItem(L, x).items = IF L = EmptyList THEN <<x>> ELSE Append(L.items, x)
  BY ItemsType, AddLinked
<1>2. CASE L = EmptyList
  <2>1. Sinks(L) = <<>> /\ <<x>> # <<Null>> /\ Append(<<>>, x) = <<x>>
    BY <1>2 DEF Sinks, EmptyList
  <2> QED
    BY <1>1, <1>2, <2>1 DEF Sinks
<1>3. CASE L # EmptyList
  <2>1. Len(L.items) \in Nat /\ L.items # <<Null>>
    BY <1>1, <1>3, LenProperties DEF Linked
  <2>2. Append(L.items, x) # <<Null>>
    <3> DEFINE t == Append(L.items, x)
    <3>1. t[Len(t)] = x
      BY <1>1, AppendProperties, x \in S \cup {Null}
    <3> HIDE DEF t
    <3>2. t # <<Null>>
      BY <3>1
    <3> QED
      BY <3>2 DEF t
  <2> QED
    BY <1>1, <1>3, <2>1, <2>2 DEF Sinks
<1> QED
  BY <1>2, <1>3

\* The inductive invariant of the two orders: the list of drivers and every
\* vector's list have only been added to, and the drivers are installed.
Ordered ==
    /\ Linked(drivers, Cardinality(InstalledBlocks))
    /\ \A i \in 1 .. Len(drivers.items) : drivers.items[i] \in InstalledBlocks \cup {Null}
    /\ \A v \in 1 .. VectorCount : Linked(interrupts[v + 1], Cardinality(InstalledBlocks) + 1)
    /\ ChainsInOrder /\ TimerIsFirst

\* Every step leaves the devices alone or installs a driver.
LEMMA StepDevices ==
    ASSUME IInv, [Next]_vars
    PROVE  \/ UNCHANGED devices
           \/ \E b \in Block, d \in Description : ~lost /\ InstallDriver(b, d, Now) /\ ~ Fail
<1>1. Entries = {Now}
  BY EntryIsNow DEF IInv
<1>2. CASE ~lost /\ \E entry \in Entries : PlainCall(entry)
  <2>1. ~lost /\ PlainCall(Now)
    BY <1>1, <1>2
  <2>2. Fail => UNCHANGED devices
    BY DEF Fail
  <2> QED
    BY <2>1, <2>2 DEF PlainCall, ToggleSecurityPrivilege, SecurityPrivilegeStatus,
       RequestProcessData, OtherCall, UnknownCall
<1>3. CASE ~ (~lost /\ \E entry \in Entries : PlainCall(entry))
  BY <1>3 DEF Next, Run, Interrupt, Fail, YieldCall, KillProcessCall, RemovingCall, KillThreadCall, vars, devices
<1> QED
  BY <1>2, <1>3
LEMMA ConcatAppend ==
    ASSUME NEW S, NEW s \in Seq(S), NEW t \in Seq(S), NEW x \in S
    PROVE  s \o Append(t, x) = Append(s \o t, x)
<1>1. <<x>> \in Seq(S) /\ s \o t \in Seq(S)
  BY ConcatProperties
<1>2. Append(t, x) = t \o <<x>> /\ Append(s \o t, x) = (s \o t) \o <<x>>
  BY <1>1, AppendIsConcat
<1>3. s \o (t \o <<x>>) = (s \o t) \o <<x>>
  BY <1>1, ConcatAssociative
<1> QED
  BY <1>2, <1>3

LEMMA ChainIsSinks ==
    ASSUME NEW array, Len(array) = VectorCount + 1, NEW v \in 1 .. VectorCount
    PROVE  Chain(array, v) = Sinks(array[v + 1])
<1>1. v < Len(array)
  BY DispatchAssumption
<1> QED
  BY <1>1 DEF Chain, Sinks, GetItem

\* What InstallDriver does to the devices.
LEMMA Installs ==
    ASSUME IInv, ~lost, NEW b \in Block, NEW d \in Description, InstallDriver(b, d, Now), ~ Fail
    PROVE  /\ info[b] = Null /\ d.irq \in Nat /\ d.supportsInterrupts \in BOOLEAN
           /\ \A x \in Block : info'[x] # Null <=> (x = b \/ info[x] # Null)
           /\ \A x \in Block \ {b} : info'[x] = info[x]
           /\ info'[b].irq = d.irq /\ info'[b].supportsInterrupts = d.supportsInterrupts
           /\ info'[b].type = d.type
           /\ drivers' = AddItem(drivers, b) /\ timer' = TimerAfter(b, d)
           /\ Len(interrupts') = VectorCount + 1
           /\ \A v \in 1 .. VectorCount : interrupts'[v + 1] =
                  IF d.supportsInterrupts /\ d.irq = v
                  THEN AddItem(interrupts[v + 1], b) ELSE interrupts[v + 1]
<1> DEFINE block == [parent |-> Owner[Now.thread], irq |-> d.irq,
                     supportsInterrupts |-> d.supportsInterrupts, type |-> d.type]
<1>1. /\ info[b] = Null /\ info' = [info EXCEPT ![b] = block]
      /\ drivers' = AddItem(drivers, b) /\ timer' = TimerAfter(b, d)
      /\ interrupts' = IF d.supportsInterrupts THEN AddInterrupt(interrupts, b, d.irq) ELSE interrupts
  BY DEF InstallDriver
<1>2. TypeOK /\ d.irq \in Nat /\ d.supportsInterrupts \in BOOLEAN
  BY DispatchAssumption DEF IInv
<1>3. block \in Fields /\ block # Null
  BY <1>2, NowType, DispatchAssumption DEF Fields, TypeOK
<1>4. block.irq = d.irq /\ block.supportsInterrupts = d.supportsInterrupts /\ block.type = d.type
  OBVIOUS
<1> HIDE DEF block
<1>5. /\ \A x \in Block : info'[x] # Null <=> (x = b \/ info[x] # Null)
      /\ \A x \in Block \ {b} : info'[x] = info[x]
      /\ info'[b] = block
  BY <1>1, <1>2, <1>3 DEF TypeOK
<1>6. /\ VectorCount \in Nat /\ interrupts \in Seq(List(Sink) \cup {Null})
      /\ Len(interrupts) = VectorCount + 1 /\ \A v \in 1 .. VectorCount : interrupts[v + 1] \in List(Sink)
  BY <1>2, DispatchAssumption DEF TypeOK
<1>7. /\ Len(interrupts') = VectorCount + 1
      /\ \A v \in 1 .. VectorCount : interrupts'[v + 1] =
             IF d.supportsInterrupts /\ d.irq = v
             THEN AddItem(interrupts[v + 1], b) ELSE interrupts[v + 1]
  <2>1. CASE ~ d.supportsInterrupts \/ d.irq >= Len(interrupts)
    <3>1. interrupts' = interrupts
      BY <1>1, <2>1 DEF AddInterrupt
    <3>2. \A v \in 1 .. VectorCount : ~ (d.supportsInterrupts /\ d.irq = v)
      BY <1>6, <2>1
    <3> QED
      BY <1>6, <3>1, <3>2
  <2>2. CASE d.supportsInterrupts /\ ~ (d.irq >= Len(interrupts))
    <3>1. d.irq # 0
      <4>1. GetItem(interrupts, 0) = Null /\ 0 < Len(interrupts)
        BY <1>2, <1>6 DEF GetItem, TypeOK
      <4>2. ~ (d.supportsInterrupts /\ GetItem(interrupts, d.irq) = Null /\ d.irq < Len(interrupts))
        BY DEF InstallDriver
      <4> QED
        BY <2>2, <4>1, <4>2
    <3> DEFINE i == d.irq + 1
               added == AddItem(interrupts[i], b)
    <3>2. i \in 1 .. Len(interrupts) /\ d.irq \in 1 .. VectorCount /\ b \in Sink
      BY <1>2, <1>6, <2>2, <3>1 DEF Sink
    <3>3. added \in List(Sink) /\ interrupts' = [interrupts EXCEPT ![i] = added]
      <4>1. i \in DOMAIN interrupts
        BY <1>6, <3>2, LenProperties
      <4> QED
        BY <1>1, <1>6, <2>2, <3>2, <4>1, AddItemCases DEF AddInterrupt
    <3> HIDE DEF added
    <3>4. /\ Len(interrupts') = VectorCount + 1
          /\ \A j \in 1 .. VectorCount + 1 : interrupts'[j] = IF j = i THEN added ELSE interrupts[j]
      BY <1>6, <3>2, <3>3, ExceptSeq
    <3>5. ASSUME NEW v \in 1 .. VectorCount
          PROVE  interrupts'[v + 1] = IF d.irq = v THEN AddItem(interrupts[v + 1], b) ELSE interrupts[v + 1]
      <4>1. v + 1 \in 1 .. VectorCount + 1 /\ (v + 1 = i <=> d.irq = v)
        BY <1>2, <1>6
      <4> QED
        BY <3>4, <4>1 DEF added
    <3> QED
      BY <2>2, <3>4, <3>5
  <2> QED
    BY <1>2, <2>1, <2>2
<1> QED
  BY <1>1, <1>2, <1>4, <1>5, <1>7

LEMMA InstallDriverOrdered ==
    ASSUME IInv, Ordered, ~lost, NEW b \in Block, NEW d \in Description, InstallDriver(b, d, Now), ~ Fail
    PROVE  Ordered'
<1> DEFINE n == Cardinality(InstalledBlocks)
<1>1. /\ TypeOK /\ info[b] = Null /\ b \in Sink /\ b # Null /\ Null \notin Block
      /\ drivers \in List(Block) /\ drivers.items \in Seq(Block \cup {Null})
      /\ \A v \in 1 .. VectorCount : interrupts[v + 1] \in List(Sink)
      /\ VectorCount \in Nat /\ Len(interrupts) = VectorCount + 1
  <2>1. TypeOK /\ info[b] = Null
    BY Installs DEF IInv
  <2>2. drivers \in List(Block) /\ drivers.items \in Seq(Block \cup {Null})
    BY <2>1, ItemsType DEF TypeOK
  <2>3. b \in Sink /\ b # Null /\ Null \notin Block /\ VectorCount \in Nat
    BY DispatchAssumption DEF Sink
  <2> QED
    BY <2>1, <2>2, <2>3 DEF TypeOK
<1>2. InstalledBlocks' = InstalledBlocks \cup {b} /\ b \notin InstalledBlocks
  BY Installs DEF InstalledBlocks
<1>3. n \in Nat /\ n' = n + 1 /\ n + 2 < WordSize /\ WordSize \in Nat
  BY <1>1, <1>2, RoomForOneMore, WordSizeAssumption
<1> HIDE DEF n
<1>4. /\ Linked(drivers, n) /\ \A v \in 1 .. VectorCount : Linked(interrupts[v + 1], n + 1)
      /\ \A i \in 1 .. Len(drivers.items) : drivers.items[i] \in InstalledBlocks \cup {Null}
  BY DEF Ordered, n
<1>5. n + 1 < WordSize /\ n + 1 \in Nat /\ (n + 1) + 1 < WordSize
  BY <1>3
<1>6. Linked(drivers', n + 1)
  <2>1. drivers' = AddItem(drivers, b)
    BY Installs
  <2>2. Linked(AddItem(drivers, b), n + 1)
    BY <1>1, <1>3, <1>4, <1>5, AddLinked
  <2> QED
    BY <2>1, <2>2
<1>7. \A i \in 1 .. Len(drivers'.items) : drivers'.items[i] \in InstalledBlocks' \cup {Null}
  <2> DEFINE items == drivers.items
  <2>1. drivers'.items = IF drivers = EmptyList THEN <<b>> ELSE Append(items, b)
    BY <1>1, <1>3, <1>4, <1>5, Installs, AddLinked
  <2>2. CASE drivers = EmptyList
    <3>1. Len(<<b>>) = 1 /\ <<b>>[1] = b
      OBVIOUS
    <3> QED
      BY <1>2, <2>1, <2>2, <3>1
  <2>3. CASE drivers # EmptyList
    <3> DEFINE new == Append(items, b)
    <3>1. /\ Len(items) \in Nat /\ Len(new) = Len(items) + 1
          /\ \A i \in 1 .. Len(items) : new[i] = items[i]
          /\ new[Len(items) + 1] = b
      BY <1>1, LenProperties, AppendProperties, b \in Block \cup {Null}
    <3>2. drivers'.items = new
      BY <2>1, <2>3
    <3> HIDE DEF new
    <3>3. ASSUME NEW i \in 1 .. Len(new) PROVE new[i] \in InstalledBlocks \cup {b, Null}
      <4>1. i = Len(items) + 1 \/ i \in 1 .. Len(items)
        BY <3>1
      <4> QED
        BY <1>4, <3>1, <4>1
    <3> QED
      BY <1>2, <3>2, <3>3
  <2> QED
    BY <2>2, <2>3
<1>8. \A v \in 1 .. VectorCount : Linked(interrupts'[v + 1], (n + 1) + 1)
  <2> SUFFICES ASSUME NEW v \in 1 .. VectorCount PROVE Linked(interrupts'[v + 1], (n + 1) + 1)
    OBVIOUS
  <2> DEFINE L == interrupts[v + 1]
  <2>1. L \in List(Sink) /\ Linked(L, n + 1) /\ interrupts'[v + 1] \in {L, AddItem(L, b)}
    BY <1>1, <1>4, Installs
  <2> HIDE DEF L
  <2>2. Linked(AddItem(L, b), (n + 1) + 1)
    BY <1>1, <1>5, <2>1, AddLinked
  <2>3. Linked(L, (n + 1) + 1)
    BY <1>3, <2>1 DEF Linked
  <2> QED
    BY <2>1, <2>2, <2>3
<1>9. ASSUME NEW T, NEW U, T \subseteq InstalledBlocks, U \in {T, T \cup {b}}
      PROVE  Select(drivers'.items, U) =
                 IF b \in U THEN Append(Select(drivers.items, T), b) ELSE Select(drivers.items, T)
  <2>1. Null \notin U
    BY <1>1, <1>9 DEF InstalledBlocks
  <2>2. Select(drivers'.items, U) =
            IF b \in U THEN Append(Select(drivers.items, U), b) ELSE Select(drivers.items, U)
    BY <1>1, <1>3, <1>4, <1>5, <2>1, Installs, SelectAdded
  <2>3. \A i \in 1 .. Len(drivers.items) : drivers.items[i] \in U <=> drivers.items[i] \in T
    BY <1>1, <1>2, <1>4, <1>9
  <2>4. Select(drivers.items, U) = Select(drivers.items, T)
    BY <1>1, <2>3, SelectAgrees
  <2> QED
    BY <2>2, <2>4
<1>10. ChainsInOrder'
  <2> SUFFICES ASSUME NEW v \in 1 .. VectorCount
               PROVE  Chain(interrupts', v) =
                          (IF v = SystemCallVector THEN <<SystemCalls>> ELSE <<>>)
                          \o Select(drivers'.items, Asking(v)')
    BY DEF ChainsInOrder
  <2> DEFINE L == interrupts[v + 1]
             first == IF v = SystemCallVector THEN <<SystemCalls>> ELSE <<>>
             asking == Select(drivers.items, Asking(v))
             hit == d.supportsInterrupts /\ d.irq = v
  <2>1. Chain(interrupts, v) = Sinks(L) /\ Chain(interrupts', v) = Sinks(interrupts'[v + 1])
    BY <1>1, Installs, ChainIsSinks
  <2>2. Sinks(L) = first \o asking
    BY <2>1 DEF Ordered, ChainsInOrder
  <2>3. Sinks(interrupts'[v + 1]) = IF hit THEN Append(Sinks(L), b) ELSE Sinks(L)
    <3>1. interrupts'[v + 1] = IF hit THEN AddItem(L, b) ELSE L
      BY Installs
    <3>2. L \in List(Sink) /\ Linked(L, n + 1)
      BY <1>1, <1>4
    <3> HIDE DEF L, hit
    <3>3. Sinks(AddItem(L, b)) = Append(Sinks(L), b)
      BY <1>1, <1>5, <3>2, SinksAdded
    <3> QED
      BY <3>1, <3>3
  <2>4. /\ Asking(v) \subseteq InstalledBlocks
        /\ Asking(v)' = IF hit THEN Asking(v) \cup {b} ELSE Asking(v)
    BY <1>1, Installs DEF Asking, InstalledBlocks
  <2>5. b \in Asking(v)' <=> hit
    BY <1>2, <2>4
  <2> HIDE DEF hit
  <2>6. Select(drivers'.items, Asking(v)') = IF hit THEN Append(asking, b) ELSE asking
    BY <1>9, <2>4, <2>5
  <2>7. first \in Seq(Sink) /\ asking \in Seq(Sink)
    <3>1. asking \in Seq((Block \cup {Null}) \cap Asking(v))
      BY <1>1, SelectType
    <3>2. (Block \cup {Null}) \cap Asking(v) \subseteq Sink
      BY <1>1 DEF Asking, Sink
    <3>3. asking \in Seq(Sink)
      BY <3>1, <3>2, SeqMonotonic
    <3>4. <<SystemCalls>> \in Seq(Sink) /\ <<>> \in Seq(Sink)
      BY DEF Sink
    <3> QED
      BY <3>3, <3>4
  <2> HIDE DEF first, asking
  <2>8. first \o Append(asking, b) = Append(first \o asking, b)
    BY <1>1, <2>7, ConcatAppend
  <2> QED
    BY <2>1, <2>2, <2>3, <2>6, <2>8 DEF first
<1>11. TimerIsFirst'
  <2> DEFINE old == Select(drivers.items, Timers)
             new == Select(drivers'.items, Timers')
  <2>1. /\ Timers \subseteq InstalledBlocks
        /\ Timers' = IF Timer \in d.type THEN Timers \cup {b} ELSE Timers
    BY <1>1, Installs DEF Timers, InstalledBlocks
  <2>2. b \in Timers' <=> Timer \in d.type
    BY <1>2, <2>1
  <2>3. new = IF Timer \in d.type THEN Append(old, b) ELSE old
    BY <1>9, <2>1, <2>2
  <2>4. timer = IF old = <<>> THEN Null ELSE Head(old)
    BY DEF Ordered, TimerIsFirst
  <2>5. old \in Seq(Block)
    <3>1. old \in Seq((Block \cup {Null}) \cap Timers)
      BY <1>1, SelectType
    <3>2. (Block \cup {Null}) \cap Timers \subseteq Block
      BY <1>1 DEF Timers
    <3> QED
      BY <3>1, <3>2, SeqMonotonic
  <2>6. timer' = IF Timer \in d.type /\ timer = Null THEN b ELSE timer
    BY Installs DEF TimerAfter
  <2> HIDE DEF old, new
  <2>7. CASE old = <<>>
    <3>1. Append(old, b) = <<b>> /\ <<b>> # <<>> /\ Head(<<b>>) = b
      BY <2>7
    <3>2. timer' = IF new = <<>> THEN Null ELSE Head(new)
      BY <2>3, <2>4, <2>6, <2>7, <3>1
    <3> QED
      BY <3>2 DEF TimerIsFirst, new
  <2>8. CASE old # <<>>
    <3>1. Head(old) \in Block
      BY <2>5, <2>8, HeadTailProperties
    <3>2. timer' = Head(old)
      BY <1>1, <2>4, <2>6, <2>8, <3>1
    <3>3. Append(old, b) # <<>> /\ Head(Append(old, b)) = Head(old)
      BY <2>5, <2>8, HeadTailAppend, AppendProperties
    <3>4. timer' = IF new = <<>> THEN Null ELSE Head(new)
      BY <2>3, <2>8, <3>2, <3>3
    <3> QED
      BY <3>4 DEF TimerIsFirst, new
  <2> QED
    BY <2>7, <2>8
<1>12. n' = Cardinality(InstalledBlocks)'
  BY DEF n
<1> QED
  BY <1>3, <1>6, <1>7, <1>8, <1>10, <1>11, <1>12 DEF Ordered
LEMMA OrderedInit == Init => Ordered
<1> SUFFICES ASSUME Init PROVE Ordered
  OBVIOUS
<1> DEFINE first == ListOf(SystemCalls)
<1>1. /\ VectorCount \in Nat /\ SystemCallVector \in 1 .. VectorCount
      /\ SystemCalls # Null /\ Null \notin Block
      /\ InstalledBlocks = {} /\ drivers = EmptyList /\ timer = Null
  BY DispatchAssumption DEF Init, InstalledBlocks, Sink
<1>2. Cardinality(InstalledBlocks) = 0
  BY <1>1, FS_EmptySet
<1>3. Len(interrupts) = VectorCount + 1 /\ \A v \in 1 .. VectorCount :
          interrupts[v + 1] = IF v = SystemCallVector THEN first ELSE EmptyList
  <2> DEFINE table == [Install EXCEPT ![SystemCallVector + 1] = first]
  <2>1. /\ Install \in Seq(List(Sink) \cup {Null}) /\ Len(Install) = VectorCount + 1
        /\ \A v \in 1 .. VectorCount : Install[v + 1] = EmptyList
    BY InstallType
  <2>2. AddInterrupt(Install, SystemCalls, SystemCallVector) = table
    <3>1. ~ (SystemCallVector >= Len(Install)) /\ Install[SystemCallVector + 1] = EmptyList
      BY <1>1, <2>1
    <3>2. SystemCallVector + 1 \in DOMAIN Install
      BY <1>1, <2>1, LenProperties
    <3>3. AddItem(EmptyList, SystemCalls) = first
      BY DEF AddItem, EmptyList
    <3> QED
      BY <3>1, <3>2, <3>3 DEF AddInterrupt
  <2>3. first \in List(Sink) \cup {Null}
    <3>1. <<SystemCalls>> \in Seq(Sink \cup {Null})
      BY DEF Sink
    <3> QED
      BY <3>1, WordSizeAssumption DEF ListOf, List, Sink
  <2> HIDE DEF first
  <2>4. SystemCallVector + 1 \in 1 .. Len(Install)
    BY <1>1, <2>1
  <2>5. /\ Len(table) = VectorCount + 1
        /\ \A j \in 1 .. VectorCount + 1 :
               table[j] = IF j = SystemCallVector + 1 THEN first ELSE Install[j]
    BY <2>1, <2>3, <2>4, ExceptSeq
  <2>6. interrupts = table
    <3>1. POSIXVector >= Len(table)
      BY <1>1, <2>5, DispatchAssumption
    <3> QED
      BY <2>2, <3>1 DEF Init, AddInterrupt
  <2> HIDE DEF table
  <2>7. \A v \in 1 .. VectorCount : v + 1 \in 1 .. VectorCount + 1 /\ (v + 1 = SystemCallVector + 1 <=> v = SystemCallVector)
    BY <1>1
  <2> QED
    BY <2>1, <2>5, <2>6, <2>7
<1>4. first.items = <<SystemCalls>> /\ Linked(first, 1) /\ Linked(EmptyList, 1)
  <2>1. Len(<<SystemCalls>>) = 1 /\ <<SystemCalls>>[1] = SystemCalls
    OBVIOUS
  <2> QED
    BY <1>1, <2>1 DEF Linked, ListOf
<1> HIDE DEF first
<1>5. \A T : Null \notin T => Select(drivers.items, T) = <<>>
  BY <1>1, SelectOne DEF EmptyList
<1>6. (\A v : Null \notin Asking(v)) /\ Null \notin Timers
  BY <1>1 DEF Asking, Timers
<1>7. TimerIsFirst
  BY <1>1, <1>5, <1>6 DEF TimerIsFirst
<1>8. ChainsInOrder
  <2> SUFFICES ASSUME NEW v \in 1 .. VectorCount
               PROVE  Chain(interrupts, v) =
                          (IF v = SystemCallVector THEN <<SystemCalls>> ELSE <<>>)
                          \o Select(drivers.items, Asking(v))
    BY DEF ChainsInOrder
  <2>1. Select(drivers.items, Asking(v)) = <<>>
    BY <1>5, <1>6
  <2>2. Chain(interrupts, v) = Sinks(interrupts[v + 1])
    BY <1>3, ChainIsSinks
  <2>3. Sinks(first) = <<SystemCalls>> /\ Sinks(EmptyList) = <<>>
    BY <1>1, <1>4 DEF Sinks, EmptyList
  <2>4. <<SystemCalls>> \o <<>> = <<SystemCalls>> /\ <<>> \o <<>> = <<>>
    OBVIOUS
  <2> QED
    BY <1>3, <2>1, <2>2, <2>3, <2>4
<1>9. drivers.items = <<Null>> /\ Len(<<Null>>) = 1 /\ <<Null>>[1] = Null
  BY <1>1 DEF EmptyList
<1>10. /\ Linked(drivers, Cardinality(InstalledBlocks))
       /\ \A i \in 1 .. Len(drivers.items) : drivers.items[i] \in InstalledBlocks \cup {Null}
       /\ \A v \in 1 .. VectorCount : Linked(interrupts[v + 1], Cardinality(InstalledBlocks) + 1)
  <2>1. Linked(drivers, Cardinality(InstalledBlocks))
    BY <1>1 DEF Linked
  <2>2. \A i \in 1 .. Len(drivers.items) : drivers.items[i] \in InstalledBlocks \cup {Null}
    <3>1. \A i \in 1 .. 1 : i = 1
      OBVIOUS
    <3> QED
      BY <1>9, <3>1
  <2>3. Cardinality(InstalledBlocks) + 1 = 1
    BY <1>2
  <2> QED
    BY <1>3, <1>4, <2>1, <2>2, <2>3
<1> QED
  BY <1>7, <1>8, <1>10 DEF Ordered

LEMMA OrderedNext == IInv /\ Ordered /\ [Next]_vars => Ordered'
<1> SUFFICES ASSUME IInv, Ordered, [Next]_vars PROVE Ordered'
  OBVIOUS
<1>1. CASE UNCHANGED devices
  <2>1. UNCHANGED <<interrupts, drivers, info, timer>>
    BY <1>1 DEF devices
  <2> QED
    BY <2>1 DEF Ordered, InstalledBlocks, ChainsInOrder, TimerIsFirst, Asking, Timers
<1>2. CASE \E b \in Block, d \in Description : ~lost /\ InstallDriver(b, d, Now) /\ ~ Fail
  BY <1>2, InstallDriverOrdered
<1> QED
  BY <1>1, <1>2, StepDevices

----------------------------------------------------------------------------
(* The theorems. *)

LEMMA Inductive == Spec => []IInv
BY InitSound, NextSound, PTL DEF Spec

\* The dispatcher's state keeps its type, whatever is installed and called:
\* the scheduler's timer and the VFS driver are always installed blocks.
THEOREM TypeCorrect == Spec => []TypeOK
<1>1. IInv => TypeOK
  BY DEF IInv
<1> QED
  BY <1>1, Inductive, PTL

LEMMA OrderedAlways == Spec => []Ordered
BY OrderedInit, OrderedNext, Inductive, PTL DEF Spec

\* Every vector's chain holds the drivers that asked for it, each once and in
\* the order of the list of drivers, behind the system calls if it is theirs.
THEOREM ChainsInOrderAlways == Spec => []ChainsInOrder
<1>1. Ordered => ChainsInOrder
  BY DEF Ordered
<1> QED
  BY <1>1, OrderedAlways, PTL

\* The scheduler's timer is the first driver ever installed as a timer.
THEOREM TimerIsFirstAlways == Spec => []TimerIsFirst
<1>1. Ordered => TimerIsFirst
  BY DEF Ordered
<1> QED
  BY <1>1, OrderedAlways, PTL

\* RequestProcessData never names two VFS processes.
THEOREM OneVFSAlways == Spec => []OneVFS
<1>1. ASSUME IInv PROVE OneVFS
  <2>1. CASE returned = {}
    BY <2>1, FS_EmptySet DEF OneVFS
  <2>2. CASE returned # {}
    <3>1. returned = {info[vfs].parent}
      BY <1>1, <2>2 DEF IInv, VFSSound
    <3>2. Cardinality(returned) = 1
      BY <3>1, FS_Singleton
    <3> QED
      BY <3>2 DEF OneVFS
  <2> QED
    BY <2>1, <2>2
<1> QED
  BY <1>1, Inductive, PTL

\* No step but InstallDriver, for its caller, and a call that takes the
\* caller's process off the list gives a thread IO privilege level 3.
THEOREM PortAccess == Spec => PortAccessKept
<1> DEFINE Kept == \A t \in Thread : ~Registers(t).iopl /\ Registers(t)'.iopl =>
               \/ t = current /\ info' # info
               \/ \E entry \in Entries, first \in Thread : RemovingCall(first, entry)
<1>1. ASSUME IInv, [Next]_vars PROVE Kept
  <2>1. Entries = {Now}
    BY <1>1, EntryIsNow DEF IInv
  <2>2. CASE \E first \in Thread : RemovingCall(first, Now)
    BY <2>1, <2>2
  <2>3. CASE FlagsKept({}) \/ (FlagsKept({current}) /\ info' # info)
    BY <2>3 DEF FlagsKept
  <2> HIDE DEF Kept
  <2> QED
    BY <1>1, <2>2, <2>3, StepFrames
<1>2. IInv /\ [Next]_vars => [Kept]_vars
  BY <1>1
<1> QED
  BY <1>2, Inductive, PTL DEF Spec, PortAccessKept

\* No step changes the registers of a thread that is not the current one,
\* unless it stands at the frame's RIP or RemoveProcess has made it the
\* current one before the frame was saved.
THEOREM OtherFramesKeptAlways == Spec => OtherFramesKept
<1> DEFINE Kept == \A t \in Thread \ {current} :
               \/ Registers(t)' = Registers(t)
               \/ Registers(t).rip = frame.rip
               \/ \E entry \in Entries : RemovingCall(t, entry)
<1>1. ASSUME IInv, [Next]_vars PROVE Kept
  <2>1. Entries = {Now}
    BY <1>1, EntryIsNow DEF IInv
  <2>2. CASE \E first \in Thread : RemovingCall(first, Now) /\ OthersKept({first})
    BY <2>1, <2>2 DEF OthersKept
  <2>3. CASE OthersKept({})
    BY <2>3 DEF OthersKept
  <2> HIDE DEF Kept
  <2> QED
    BY <1>1, <2>2, <2>3, StepFrames
<1>2. IInv /\ [Next]_vars => [Kept]_vars
  BY <1>1
<1> QED
  BY <1>2, Inductive, PTL DEF Spec, OtherFramesKept

\* Every call that does not yield is answered in its caller's RAX, whichever
\* drivers share the vector with the system calls.
THEOREM CallsAnsweredAlways == Spec => CallsAnswered
<1>1. ASSUME IInv, ~lost', \E entry \in Entries : PlainCall(entry)
      PROVE  \A t \in Thread : t = current => Registers(t)'.rax # Own
  <2>1. TypeOK /\ Entries = {Now}
    BY <1>1, EntryIsNow DEF IInv
  <2> QED
    BY <1>1, <2>1, PlainCallFrames DEF Answered
<1>2. IInv => [~lost' /\ (\E entry \in Entries : PlainCall(entry)) =>
                  \A t \in Thread : t = current => Registers(t)'.rax # Own]_vars
  BY <1>1
<1> QED
  BY <1>2, Inductive, PTL DEF CallsAnswered
=============================================================================
