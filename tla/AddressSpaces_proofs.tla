------------------------ MODULE AddressSpaces_proofs ------------------------
(***************************************************************************)
(* What holds of AddressSpaces for any number of frames, processes and     *)
(* modules and any layout with the regions of MemoryMap.h.                 *)
(*                                                                         *)
(* The invariant speaks of a machine v, of the set D of directories that   *)
(* may come into use, of the entries K of the window table of the          *)
(* directory in use that may be open windows, and of the frames R that     *)
(* were taken and are not linked yet: a call is a sequence of small steps, *)
(* each of which keeps it for some K and R, and between two calls both are *)
(* empty.  That no frame is in two places is said with the two functions   *)
(* holder and slot, which give for a frame the only place it may be in.    *)
(***************************************************************************)
EXTENDS AddressSpaces, Induction, SequenceTheorems

Frames == Frame \cup StaticFrames
WindowIndex == DirectoryIndex(WindowDirectory)
KernelIndex == DirectoryIndex(KernelBoundary)
StackIndex == DirectoryIndex(StackPage)

\* A link is a word of a directory that points to a table; a shared one
\* counts as the kernel directory's.
Link(v, d, i) == (i \in SharedIndices => d = KernelDirectory) /\ v.mem[d][i] # NotPresent

\* An open window.
Open(v, K, d, i, j) == d = v.cr3 /\ i = WindowIndex /\ j \in K

\* A page is a word, at j, of a linked table, but for the open windows and
\* the table of the kernel's image.
Page(v, K, d, i, j) ==
    /\ Link(v, d, i) /\ i # KernelIndex
    /\ v.mem[v.mem[d][i]][j] # NotPresent
    /\ ~ Open(v, K, d, i, j)

\* Which frames are what.
Sorted(v, D, R) ==
    /\ v \in Machines /\ v.mode = "sound"
    /\ D \subseteq Frame \cup {KernelDirectory} /\ {KernelDirectory, v.cr3, v.current} \subseteq D
    /\ R \subseteq Frame
    /\ v.free \cap D = {} /\ v.free \cap R = {} /\ D \cap R = {}

\* The kernel's part is the same in all directories.  Before there is a second
\* directory it is complete, and the kernel's directory never has a table in
\* another part that ClonePageDirectory copies.
Common(v, D) ==
    /\ \A d \in D, i \in SharedIndices : v.mem[d][i] = v.mem[KernelDirectory][i]
    /\ \A i \in KernelHeapIndices : v.mem[KernelDirectory][i] # NotPresent
    /\ v.mem[KernelDirectory][KernelIndex] = KernelTable
    /\ \A j \in Index : v.mem[KernelTable][j] # NotPresent
    /\ D = {KernelDirectory} \/ v.mem[KernelDirectory][StackIndex] # NotPresent
    /\ \A i \in Index \ (SharedIndices \cup {WindowIndex}) : v.mem[KernelDirectory][i] = NotPresent

\* Where the frames are that links and pages point to.
Held(v, D, K, R, holder, slot) ==
    /\ \A f \in v.free \cup D \cup R : holder[f] = 0
    /\ \A d \in D, i \in Index : Link(v, d, i) /\ i # KernelIndex =>
          v.mem[d][i] \in Frame /\ holder[v.mem[d][i]] = d /\ slot[v.mem[d][i]] = i
    /\ \A d \in D, i, j \in Index : Page(v, K, d, i, j) =>
          /\ v.mem[v.mem[d][i]][j] \in Frame
          /\ holder[v.mem[v.mem[d][i]][j]] = v.mem[d][i] /\ slot[v.mem[v.mem[d][i]][j]] = j

Structure(v, D, K, R) ==
    /\ Sorted(v, D, R) /\ Common(v, D)
    /\ \E holder, slot \in [Frames -> Nat] : Held(v, D, K, R, holder, slot)

\* What a directory has at the indices i and j of a page; NotPresent when the
\* page is not mapped.
Entry(v, d, i, j) == IF v.mem[d][i] = NotPresent THEN NotPresent ELSE v.mem[v.mem[d][i]][j]
----------------------------------------------------------------------------
(* The layout. *)

LEMMA PageParts ==
    ASSUME NEW page \in Nat
    PROVE  /\ DirectoryIndex(page) \in Nat /\ TableIndex(page) \in Index
           /\ page = Entries * DirectoryIndex(page) + TableIndex(page)
BY AddressSpacesAssumption DEF DirectoryIndex, TableIndex, Index

\* A page is where its two indices say.
LEMMA SamePage ==
    ASSUME NEW page \in Nat, NEW other \in Nat,
           DirectoryIndex(page) = DirectoryIndex(other), TableIndex(page) = TableIndex(other)
    PROVE  page = other
BY PageParts

LEMMA IndexMonotonic ==
    ASSUME NEW page \in Nat, NEW other \in Nat, page <= other
    PROVE  DirectoryIndex(page) <= DirectoryIndex(other)
<1> DEFINE a == DirectoryIndex(page)
           b == DirectoryIndex(other)
<1>0. Entries \in Nat \ {0}
  BY AddressSpacesAssumption
<1>1. /\ a \in Nat /\ page = Entries * a + TableIndex(page) /\ TableIndex(page) \in 0 .. Entries - 1
      /\ b \in Nat /\ other = Entries * b + TableIndex(other) /\ TableIndex(other) \in 0 .. Entries - 1
  BY PageParts DEF Index
<1> HIDE DEF a, b
<1>2. SUFFICES ASSUME b < a PROVE FALSE
  BY <1>1 DEF a, b
<1>3. Entries * (b + 1) <= Entries * a
  <2>1. \A x, y \in Nat : x <= y => Entries * x <= Entries * y
    BY <1>0
  <2> QED
    BY <1>1, <1>2, <2>1
<1>4. Entries * (b + 1) = Entries * b + Entries /\ Entries * b \in Nat /\ Entries * a \in Nat
  BY <1>0, <1>1
<1> QED
  BY <1>0, <1>1, <1>3, <1>4

\* The regions' indices, from below.
LEMMA Regions ==
    /\ {DirectoryIndex(KernelHeapStart), DirectoryIndex(KernelHeapEnd), DirectoryIndex(UserHeapStart),
        DirectoryIndex(UserHeapEnd), KernelIndex, StackIndex, WindowIndex, Entries} \subseteq Nat
    /\ DirectoryIndex(KernelHeapStart) <= DirectoryIndex(KernelHeapEnd)
    /\ DirectoryIndex(KernelHeapEnd) < DirectoryIndex(UserHeapStart)
    /\ DirectoryIndex(UserHeapStart) <= DirectoryIndex(UserHeapEnd)
    /\ DirectoryIndex(UserHeapEnd) < KernelIndex
    /\ KernelIndex < StackIndex
    /\ StackIndex < WindowIndex
    /\ WindowIndex < Entries - 1
<1>1. /\ {KernelHeapStart, KernelHeapEnd, UserHeapStart, UserHeapEnd, KernelBoundary, StackPage} \subseteq Nat
      /\ WindowDirectory \in Nat /\ Entries \in Nat
      /\ KernelHeapStart <= KernelHeapEnd /\ UserHeapStart <= UserHeapEnd
  BY LayoutAssumption, AddressSpacesAssumption DEF Windows
<1>2. /\ DirectoryIndex(KernelHeapStart) <= DirectoryIndex(KernelHeapEnd)
      /\ DirectoryIndex(UserHeapStart) <= DirectoryIndex(UserHeapEnd)
  BY <1>1, IndexMonotonic
<1>3. /\ DirectoryIndex(KernelHeapEnd) < DirectoryIndex(UserHeapStart)
      /\ DirectoryIndex(UserHeapEnd) < KernelIndex
      /\ KernelIndex < StackIndex
      /\ StackIndex < WindowIndex
      /\ WindowIndex < Entries - 1
  BY LayoutAssumption DEF WindowIndex, KernelIndex, StackIndex
<1> QED
  BY <1>1, <1>2, <1>3, PageParts DEF WindowIndex, KernelIndex, StackIndex

\* Which indices are whose.
LEMMA Layout ==
    /\ {WindowIndex, KernelIndex, StackIndex} \subseteq Index
    /\ WindowIndex # KernelIndex /\ StackIndex # KernelIndex
    /\ SharedIndices \subseteq Index /\ SharedIndices = KernelHeapIndices \cup {KernelIndex, StackIndex}
    /\ WindowIndex \notin SharedIndices
    /\ KernelIndex \notin KernelHeapIndices /\ StackIndex \notin KernelHeapIndices
    /\ \A i \in Index : i \in SharedIndices => Inherits(i) /\ i # WindowIndex
BY Regions DEF Index, SharedIndices, KernelHeapIndices, Inherits, WindowIndex, KernelIndex, StackIndex

LEMMA KernelHeapPages ==
    ASSUME NEW page \in KernelHeapStart .. KernelHeapEnd
    PROVE  page \in Nat /\ DirectoryIndex(page) \in KernelHeapIndices
<1>1. page \in Nat /\ KernelHeapStart \in Nat /\ KernelHeapEnd \in Nat /\ KernelHeapStart <= page /\ page <= KernelHeapEnd
  BY LayoutAssumption
<1>2. /\ DirectoryIndex(KernelHeapStart) <= DirectoryIndex(page) /\ DirectoryIndex(page) <= DirectoryIndex(KernelHeapEnd)
      /\ DirectoryIndex(KernelHeapStart) \in Nat /\ DirectoryIndex(page) \in Nat /\ DirectoryIndex(KernelHeapEnd) \in Nat
  BY <1>1, IndexMonotonic, PageParts
<1> QED
  BY <1>1, <1>2 DEF KernelHeapIndices

\* An index that is neither shared nor the windows'.
Private(i) == i \in Index \ SharedIndices /\ i # WindowIndex

LEMMA UserHeapPages ==
    ASSUME NEW page \in UserHeapStart .. UserHeapEnd
    PROVE  page \in Nat /\ Private(DirectoryIndex(page))
<1>1. /\ UserHeapStart \in Nat /\ UserHeapEnd \in Nat /\ page \in Nat
      /\ UserHeapStart <= page /\ page <= UserHeapEnd
  BY LayoutAssumption
<1>2. /\ DirectoryIndex(UserHeapStart) <= DirectoryIndex(page) /\ DirectoryIndex(page) <= DirectoryIndex(UserHeapEnd)
      /\ DirectoryIndex(page) \in Nat
  BY <1>1, IndexMonotonic, PageParts
<1> QED
  BY <1>1, <1>2, Regions DEF Private, Index, SharedIndices, KernelHeapIndices, KernelIndex, StackIndex, WindowIndex

\* The pages of the programs' images.
ImagePages == {page \in Nat : DirectoryIndex(page) < DirectoryIndex(KernelHeapStart)}

LEMMA ImagePagesPrivate ==
    ASSUME NEW page \in ImagePages
    PROVE  page \in Nat /\ Private(DirectoryIndex(page))
<1>1. DirectoryIndex(page) \in Nat /\ DirectoryIndex(page) < DirectoryIndex(KernelHeapStart) /\ page \in Nat
  BY PageParts DEF ImagePages
<1> QED
  BY <1>1, Regions DEF Private, Index, SharedIndices, KernelHeapIndices, KernelIndex, StackIndex, WindowIndex
----------------------------------------------------------------------------
(* What the parts of the structure say of a single frame. *)

LEMMA WordTypes ==
    ASSUME NEW v \in Machines, NEW f \in Frames, NEW i \in Index
    PROVE  v.mem[f][i] \in Word
BY DEF Machines, Frames

LEMMA StaticTypes ==
    /\ KernelDirectory \in Frames /\ KernelTable \in Frames /\ Frame \subseteq Frames
    /\ KernelDirectory \notin Frame /\ KernelTable \notin Frame /\ KernelDirectory # KernelTable
    /\ KernelDirectory \in Nat \ {0} /\ KernelTable \in Nat \ {0} /\ Frame \subseteq Nat \ {0}
    /\ Frames \subseteq Nat
    /\ NotPresent \in Word /\ Junk \in Word /\ NotPresent = 0
    /\ Frames \subseteq Word /\ NotPresent \notin Frame \cup {KernelDirectory, KernelTable}
<1>0. Frame \subseteq Nat \ StaticFrames /\ KernelDirectory # KernelTable /\ {KernelDirectory, KernelTable} \subseteq Nat \ {0}
  BY AddressSpacesAssumption
<1>1. /\ Frame \subseteq Nat \ {0, KernelDirectory, KernelTable} /\ KernelDirectory # KernelTable
      /\ {KernelDirectory, KernelTable} \subseteq Nat \ {0}
  BY <1>0 DEF StaticFrames
<1>2. Frames = Frame \cup {0, KernelDirectory, KernelTable} /\ Word = Frames \cup {NotPresent, Junk} /\ NotPresent = 0
  BY DEF Frames, StaticFrames, Word, NotPresent
<1>3. /\ KernelDirectory \in Frames /\ KernelTable \in Frames /\ Frame \subseteq Frames /\ Frames \subseteq Word
      /\ NotPresent \in Word /\ Junk \in Word
  BY <1>2
<1>4. \A f \in Frames : f \in Nat
  BY <1>1, <1>2
<1>6. NotPresent \notin Frame \cup {KernelDirectory, KernelTable}
  BY <1>1, <1>2
<1>5. /\ KernelDirectory \notin Frame /\ KernelTable \notin Frame
      /\ KernelDirectory \in Nat \ {0} /\ KernelTable \in Nat \ {0} /\ Frame \subseteq Nat \ {0}
  BY <1>1
<1> QED
  BY <1>1, <1>2, <1>3, <1>4, <1>5, <1>6

\* The directory whose link covers an index.
Owner(d, i) == IF i \in SharedIndices THEN KernelDirectory ELSE d

\* What a linked table is: a frame of its own, or the kernel's.
LEMMA TableFacts ==
    ASSUME NEW v, NEW D, NEW K, NEW R, NEW holder, NEW slot,
           Sorted(v, D, R), Common(v, D), Held(v, D, K, R, holder, slot), NEW d \in D, NEW i \in Index, v.mem[d][i] # NotPresent
    PROVE  /\ Owner(d, i) \in D /\ d \in Frames /\ v.mem[Owner(d, i)][i] = v.mem[d][i] /\ Link(v, Owner(d, i), i)
           /\ i = KernelIndex => v.mem[d][i] = KernelTable
           /\ i # KernelIndex =>
                /\ v.mem[d][i] \in Frame /\ v.mem[d][i] \notin v.free \cup D \cup R
                /\ holder[v.mem[d][i]] = Owner(d, i) /\ slot[v.mem[d][i]] = i
           /\ v.mem[d][i] \in Frames \ D
<1>1. KernelDirectory \in D /\ D \subseteq Frames /\ 0 \notin D /\ KernelTable \notin D
  BY StaticTypes DEF Sorted
<1>2. Owner(d, i) \in D /\ v.mem[Owner(d, i)][i] = v.mem[d][i] /\ Link(v, Owner(d, i), i)
  BY <1>1 DEF Owner, Common, Link
<1>3. i = KernelIndex => v.mem[d][i] = KernelTable
  BY Layout DEF Common
<1>4. i # KernelIndex =>
        v.mem[d][i] \in Frame /\ holder[v.mem[d][i]] = Owner(d, i) /\ slot[v.mem[d][i]] = i
  BY <1>2 DEF Held
<1>5. i # KernelIndex => v.mem[d][i] \notin v.free \cup D \cup R
  BY <1>1, <1>2, <1>4 DEF Held
<1> QED
  BY <1>1, <1>2, <1>3, <1>4, <1>5, StaticTypes

LEMMA TableFrames ==
    ASSUME NEW v, NEW D, NEW K, NEW R, Structure(v, D, K, R),
           NEW d \in D, NEW i \in Index, v.mem[d][i] # NotPresent
    PROVE  /\ d \in Frames /\ Owner(d, i) \in D /\ v.mem[Owner(d, i)][i] = v.mem[d][i]
           /\ v.mem[d][i] \in Frames /\ v.mem[d][i] \notin D
           /\ i = KernelIndex => v.mem[d][i] = KernelTable
           /\ v.mem[d][i] \notin v.free /\ v.mem[d][i] \notin R
           /\ i # KernelIndex => v.mem[d][i] \in Frame
<1>1. PICK holder \in [Frames -> Nat], slot \in [Frames -> Nat] : Held(v, D, K, R, holder, slot)
  BY DEF Structure
<1>2. Sorted(v, D, R) /\ Common(v, D)
  BY DEF Structure
<1>3. v.free \subseteq Frame /\ R \subseteq Frame /\ KernelTable \notin Frame
  BY <1>2, StaticTypes DEF Sorted, Machines
<1>4. /\ Owner(d, i) \in D /\ d \in Frames /\ v.mem[Owner(d, i)][i] = v.mem[d][i]
      /\ i = KernelIndex => v.mem[d][i] = KernelTable
      /\ i # KernelIndex => v.mem[d][i] \in Frame /\ v.mem[d][i] \notin v.free \cup D \cup R
      /\ v.mem[d][i] \in Frames \ D
  <2>1. Owner(d, i) \in D
    BY <1>1, <1>2, TableFacts
  <2>2. d \in Frames
    BY <1>1, <1>2, TableFacts
  <2>3. v.mem[Owner(d, i)][i] = v.mem[d][i]
    BY <1>1, <1>2, TableFacts
  <2>4. i = KernelIndex => v.mem[d][i] = KernelTable
    BY <1>1, <1>2, TableFacts
  <2>5. i # KernelIndex => v.mem[d][i] \in Frame 
    BY <1>1, <1>2, TableFacts
  <2>6. i # KernelIndex => v.mem[d][i] \notin v.free \cup D \cup R
    BY <1>1, <1>2, TableFacts
  <2>7. v.mem[d][i] \in Frames \ D
    BY <1>1, <1>2, TableFacts
  <2> QED
    BY <2>1, <2>2, <2>3, <2>4, <2>5, <2>6, <2>7
<1> QED
  BY <1>3, <1>4

\* A page's frame.
LEMMA PageFrames ==
    ASSUME NEW v, NEW D, NEW R, Structure(v, D, {}, R),
           NEW d \in D, NEW i \in Index, i # KernelIndex, NEW j \in Index, Entry(v, d, i, j) # NotPresent
    PROVE  /\ Entry(v, d, i, j) \in Frame
           /\ Entry(v, d, i, j) \notin v.free /\ Entry(v, d, i, j) \notin D /\ Entry(v, d, i, j) \notin R
<1>1. PICK holder \in [Frames -> Nat], slot \in [Frames -> Nat] : Held(v, D, {}, R, holder, slot)
  BY DEF Structure
<1>2. v.mem[d][i] # NotPresent /\ Entry(v, d, i, j) = v.mem[v.mem[d][i]][j]
  BY DEF Entry
<1>3. Owner(d, i) \in D /\ v.mem[Owner(d, i)][i] = v.mem[d][i] /\ v.mem[d][i] \in Frame
  BY <1>2, TableFrames
<1>4. Page(v, {}, Owner(d, i), i, j)
  BY <1>2, <1>3 DEF Page, Link, Open, Owner
<1>5. Entry(v, d, i, j) \in Frame /\ holder[Entry(v, d, i, j)] = v.mem[d][i] /\ v.mem[d][i] # 0
  BY <1>1, <1>2, <1>3, <1>4 DEF Held, NotPresent
<1> QED
  BY <1>1, <1>5 DEF Held
----------------------------------------------------------------------------
(* Small steps that write no word of a directory or a table. *)

\* Every directory maps what it did, but for the windows' region.
Same(u, v, D) == \A d \in D, i \in Index \ {WindowIndex}, j \in Index : Entry(u, d, i, j) = Entry(v, d, i, j)

\* The same, with the windows' region.
Equal(u, v, D) == \A e \in D, k, l \in Index : Entry(u, e, k, l) = Entry(v, e, k, l)

Turned(u, v, D, K, R) == Structure(u, D, K, R) /\ Equal(u, v, D)

LEMMA SameThenSame ==
    ASSUME NEW u, NEW v, NEW w, NEW D, Same(u, v, D), Same(w, u, D)
    PROVE  Same(w, v, D)
BY DEF Same

\* Taking frames, giving them back, forgetting some, loading cr3, opening
\* windows.
LEMMA Regroup ==
    ASSUME NEW v, NEW D, NEW K, NEW R, Structure(v, D, K, R),
           NEW u \in Machines, u.mode = "sound", u.mem = v.mem,
           NEW E \in SUBSET D, {KernelDirectory, u.cr3, u.current} \subseteq E,
           NEW S \in SUBSET Frame, u.free \cap S = {}, u.free \cup S \subseteq v.free \cup R,
           NEW L, K \subseteq L, u.cr3 = v.cr3 \/ K = {}
    PROVE  Structure(u, E, L, S) /\ Same(u, v, D)
<1>1. PICK holder \in [Frames -> Nat], slot \in [Frames -> Nat] : Held(v, D, K, R, holder, slot)
  BY DEF Structure
<1>2. Sorted(u, E, S)
  BY DEF Structure, Sorted
<1>3. Common(u, E)
  BY DEF Structure, Common
<1>4. /\ \A d, i : Link(u, d, i) <=> Link(v, d, i)
      /\ \A d, i, j : Page(u, L, d, i, j) => Page(v, K, d, i, j)
  BY DEF Link, Page, Open
<1>5. Held(u, E, L, S, holder, slot)
  <2>1. \A f \in u.free \cup E \cup S : holder[f] = 0
    BY <1>1 DEF Held
  <2>2. \A d \in E, i \in Index : Link(u, d, i) /\ i # KernelIndex =>
          u.mem[d][i] \in Frame /\ holder[u.mem[d][i]] = d /\ slot[u.mem[d][i]] = i
    BY <1>1, <1>4 DEF Held
  <2>3. ASSUME NEW d \in E, NEW i \in Index, NEW j \in Index, Page(u, L, d, i, j)
        PROVE  /\ u.mem[u.mem[d][i]][j] \in Frame
               /\ holder[u.mem[u.mem[d][i]][j]] = u.mem[d][i] /\ slot[u.mem[u.mem[d][i]][j]] = j
    <3>1. Page(v, K, d, i, j) /\ d \in D
      BY <1>4, <2>3
    <3> QED
      BY <1>1, <3>1 DEF Held
  <2> QED
    BY <2>1, <2>2, <2>3 DEF Held
<1> QED
  BY <1>1, <1>2, <1>3, <1>5 DEF Structure, Same, Entry

\* A window that has no entry is closed.
LEMMA CloseWindows ==
    ASSUME NEW v, NEW D, NEW K, NEW R, Structure(v, D, K, R), NEW L,
           \A j \in K \ L : Entry(v, v.cr3, WindowIndex, j) = NotPresent
    PROVE  Structure(v, D, L, R)
<1>1. PICK holder \in [Frames -> Nat], slot \in [Frames -> Nat] : Held(v, D, K, R, holder, slot)
  BY DEF Structure
<1>2. \A d, i, j : Page(v, L, d, i, j) => Page(v, K, d, i, j)
  BY DEF Page, Open, Entry, Link
<1>3. Held(v, D, L, R, holder, slot)
  BY <1>1, <1>2 DEF Held
<1> QED
  BY <1>1, <1>3 DEF Structure

\* A frame that is not linked yet is filled with anything.
LEMMA FillFrame ==
    ASSUME NEW v, NEW D, NEW K, NEW R, Structure(v, D, K, R),
           NEW n \in R, NEW u \in Machines, u.mode = "sound",
           \A f \in Frames \ {n}, i \in Index : u.mem[f][i] = v.mem[f][i],
           u.cr3 = v.cr3, u.current = v.current, u.free = v.free
    PROVE  Structure(u, D, K, R) /\ Same(u, v, D)
<1>1. PICK holder \in [Frames -> Nat], slot \in [Frames -> Nat] : Held(v, D, K, R, holder, slot)
  BY DEF Structure
<1>2. D \subseteq Frames \ {n} /\ n \in Frame /\ KernelTable \in Frames \ {n} /\ KernelDirectory \in D
  BY StaticTypes DEF Structure, Sorted
<1>3. ASSUME NEW d \in D, NEW i \in Index
      PROVE  /\ u.mem[d][i] = v.mem[d][i]
             /\ v.mem[d][i] # NotPresent => \A j \in Index : u.mem[v.mem[d][i]][j] = v.mem[v.mem[d][i]][j]
  <2>1. u.mem[d][i] = v.mem[d][i]
    BY <1>2
  <2>2. v.mem[d][i] # NotPresent => v.mem[d][i] \in Frames \ {n}
    BY TableFrames
  <2> QED
    BY <2>1, <2>2
<1>4. Sorted(u, D, R)
  BY DEF Structure, Sorted
<1>5. Common(u, D)
  BY <1>2, Layout DEF Structure, Common
<1>6. /\ \A d \in D, i \in Index : Link(u, d, i) <=> Link(v, d, i)
      /\ \A d \in D, i, j \in Index : Page(u, K, d, i, j) => Page(v, K, d, i, j)
  BY <1>3 DEF Link, Page, Open
<1>7. Held(u, D, K, R, holder, slot)
  <2>1. ASSUME NEW d \in D, NEW i \in Index, NEW j \in Index, Page(u, K, d, i, j)
        PROVE  /\ u.mem[u.mem[d][i]][j] \in Frame
               /\ holder[u.mem[u.mem[d][i]][j]] = u.mem[d][i] /\ slot[u.mem[u.mem[d][i]][j]] = j
    <3>1. Page(v, K, d, i, j) /\ u.mem[d][i] = v.mem[d][i] /\ v.mem[d][i] # NotPresent
      BY <1>3, <1>6, <2>1 DEF Page, Link
    <3>2. u.mem[u.mem[d][i]][j] = v.mem[v.mem[d][i]][j]
      BY <1>3, <3>1
    <3> QED
      BY <1>1, <3>1, <3>2 DEF Held
  <2>2. \A d \in D, i \in Index : Link(u, d, i) /\ i # KernelIndex =>
          u.mem[d][i] \in Frame /\ holder[u.mem[d][i]] = d /\ slot[u.mem[d][i]] = i
    BY <1>1, <1>3, <1>6 DEF Held
  <2>3. \A f \in u.free \cup D \cup R : holder[f] = 0
    BY <1>1 DEF Held
  <2> QED
    BY <2>1, <2>2, <2>3 DEF Held
<1>8. Same(u, v, D)
  BY <1>3 DEF Same, Entry
<1> QED
  BY <1>1, <1>4, <1>5, <1>7, <1>8 DEF Structure

\* ClonePageDirectory's frame becomes a directory.
LEMMA Adopt ==
    ASSUME NEW v, NEW D, NEW K, NEW R, Structure(v, D, K, R), NEW n \in R,
           v.mem[KernelDirectory][StackIndex] # NotPresent,
           \A i \in Index : v.mem[n][i] = IF i \in SharedIndices THEN v.mem[KernelDirectory][i] ELSE NotPresent
    PROVE  Structure(v, D \cup {n}, K, R \ {n})
<1>1. PICK holder \in [Frames -> Nat], slot \in [Frames -> Nat] : Held(v, D, K, R, holder, slot)
  BY DEF Structure
<1>2. n \in Frame /\ n # KernelDirectory /\ n \notin D
  BY StaticTypes DEF Structure, Sorted
<1>3. Sorted(v, D \cup {n}, R \ {n})
  BY <1>2 DEF Structure, Sorted
<1>4. Common(v, D \cup {n})
  BY Layout DEF Structure, Common
<1>5. \A i \in Index : ~ Link(v, n, i)
  BY <1>2 DEF Link
<1>6. Held(v, D \cup {n}, K, R \ {n}, holder, slot)
  BY <1>1, <1>5 DEF Held, Page
<1> QED
  BY <1>1, <1>3, <1>4, <1>6 DEF Structure
----------------------------------------------------------------------------
(* Small steps that write one word. *)

\* u is v but for the word i of a frame.
Writes(u, v, f, i, word) ==
    /\ u \in Machines /\ u.mode = v.mode /\ u.free = v.free
    /\ u.cr3 = v.cr3 /\ u.current = v.current /\ u.heapEnd = v.heapEnd
    /\ u.mem[f][i] = word
    /\ \A g \in Frames, k \in Index : g # f \/ k # i => u.mem[g][k] = v.mem[g][k]

\* A directory gets a clear frame as a table.
LEMMA AddLink ==
    ASSUME NEW v, NEW D, NEW K, NEW R, Structure(v, D, K, R),
           NEW d \in D, NEW i \in Index, v.mem[d][i] = NotPresent, i \in SharedIndices => D = {KernelDirectory},
           d = KernelDirectory => i \in SharedIndices \cup {WindowIndex},
           NEW t \in R, \A j \in Index : v.mem[t][j] = NotPresent,
           NEW u, Writes(u, v, d, i, t)
    PROVE  Turned(u, v, D, K, R \ {t})
<1>1. PICK holder \in [Frames -> Nat], slot \in [Frames -> Nat] : Held(v, D, K, R, holder, slot)
  BY DEF Structure
<1>2. /\ t \in Frame /\ t \in Frames /\ t \notin D /\ t # d /\ d \in Frames /\ d \in Nat /\ D \subseteq Frames
      /\ KernelTable \in Frames /\ KernelTable \notin D /\ KernelTable # d /\ KernelDirectory \in D /\ i \in Nat
      /\ 0 \notin D /\ t # 0
  BY StaticTypes DEF Structure, Sorted, Index
<1>3. i # KernelIndex
  BY Layout, StaticTypes DEF Structure, Common
<1>4. /\ u.mem[d][i] = t
      /\ \A e \in D, k \in Index : e # d \/ k # i => u.mem[e][k] = v.mem[e][k]
      /\ \A f \in Frames \ {d}, k \in Index : u.mem[f][k] = v.mem[f][k]
  BY <1>2 DEF Writes
<1>5. \A e \in D, k \in Index : v.mem[e][k] # NotPresent =>
        \A l \in Index : u.mem[v.mem[e][k]][l] = v.mem[v.mem[e][k]][l]
  <2>1. ASSUME NEW e \in D, NEW k \in Index, v.mem[e][k] # NotPresent PROVE v.mem[e][k] \in Frames \ {d}
    BY <2>1, TableFrames
  <2> QED
    BY <2>1, <1>4
<1>6. \A l \in Index : u.mem[t][l] = NotPresent
  BY <1>2, <1>4
<1>7. Sorted(u, D, R \ {t})
  BY DEF Structure, Sorted, Writes
<1>8. Common(u, D)
  <2>1. Common(v, D) /\ i # KernelIndex /\ KernelTable \in Frames \ {d}
    BY <1>2, <1>3 DEF Structure
  <2>2. \A k \in Index : v.mem[KernelDirectory][k] # NotPresent => u.mem[KernelDirectory][k] = v.mem[KernelDirectory][k]
    BY <1>2, <1>4
  <2>3. \A k \in KernelHeapIndices \cup {KernelIndex, StackIndex} : k \in Index
    BY Layout
  <2>4. /\ \A k \in KernelHeapIndices : u.mem[KernelDirectory][k] # NotPresent
        /\ u.mem[KernelDirectory][KernelIndex] = KernelTable
        /\ D = {KernelDirectory} \/ u.mem[KernelDirectory][StackIndex] # NotPresent
    BY <2>1, <2>2, <2>3, StaticTypes DEF Common
  <2>5. \A l \in Index : u.mem[KernelTable][l] # NotPresent
    BY <2>1, <1>4 DEF Common
  <2>6. \A k \in Index \ (SharedIndices \cup {WindowIndex}) : u.mem[KernelDirectory][k] = NotPresent
    BY <2>1, <1>2, <1>4 DEF Common
  <2>7. \A e \in D, k \in SharedIndices : u.mem[e][k] = u.mem[KernelDirectory][k]
    <3>1. CASE i \in SharedIndices
      BY <3>1
    <3>2. CASE i \notin SharedIndices
      BY <2>1, <3>2, <1>2, <1>4, Layout DEF Common
    <3> QED
      BY <3>1, <3>2
  <2> QED
    BY <2>4, <2>5, <2>6, <2>7 DEF Common
<1>9. ASSUME NEW e \in D, NEW k \in Index, NEW l \in Index PROVE Entry(u, e, k, l) = Entry(v, e, k, l)
  <2>1. CASE e = d /\ k = i
    BY <2>1, <1>4, <1>6 DEF Entry
  <2>2. CASE e # d \/ k # i
    BY <2>2, <1>4, <1>5 DEF Entry
  <2> QED
    BY <2>1, <2>2
<1> DEFINE h == [holder EXCEPT ![t] = d]
           s == [slot EXCEPT ![t] = i]
<1>10. /\ h \in [Frames -> Nat] /\ s \in [Frames -> Nat]
       /\ h[t] = d /\ s[t] = i /\ \A f \in Frames \ {t} : h[f] = holder[f] /\ s[f] = slot[f]
  BY <1>2
<1> HIDE DEF h, s
<1>11. holder[t] = 0 /\ t \notin v.free
  BY <1>1 DEF Held, Structure, Sorted
<1>12. Held(u, D, K, R \ {t}, h, s)
  <2>1. ASSUME NEW f \in u.free \cup D \cup (R \ {t}) PROVE h[f] = 0
    <3>1. f \in Frames /\ f # t /\ f \in v.free \cup D \cup R
      BY <1>2, <1>11, StaticTypes DEF Structure, Sorted, Machines, Writes
    <3> QED
      BY <1>1, <1>10, <3>1 DEF Held
  <2>2. ASSUME NEW e \in D, NEW k \in Index, Link(u, e, k), k # KernelIndex
        PROVE  u.mem[e][k] \in Frame /\ h[u.mem[e][k]] = e /\ s[u.mem[e][k]] = k
    <3>1. CASE e = d /\ k = i
      BY <3>1, <1>2, <1>4, <1>10
    <3>2. CASE e # d \/ k # i
      <4>1. u.mem[e][k] = v.mem[e][k] /\ Link(v, e, k)
        BY <2>2, <3>2, <1>4 DEF Link
      <4>2. v.mem[e][k] \in Frame /\ holder[v.mem[e][k]] = e /\ slot[v.mem[e][k]] = k
        BY <1>1, <2>2, <4>1 DEF Held
      <4> QED
        BY <1>2, <1>10, <1>11, <4>1, <4>2, StaticTypes
    <3> QED
      BY <3>1, <3>2
  <2>3. ASSUME NEW e \in D, NEW k \in Index, NEW l \in Index, Page(u, K, e, k, l)
        PROVE  /\ u.mem[u.mem[e][k]][l] \in Frame
               /\ h[u.mem[u.mem[e][k]][l]] = u.mem[e][k] /\ s[u.mem[u.mem[e][k]][l]] = l
    <3>1. e # d \/ k # i
      BY <2>3, <1>4, <1>6 DEF Page
    <3>2. u.mem[e][k] = v.mem[e][k] /\ v.mem[e][k] # NotPresent /\ k # KernelIndex
      BY <2>3, <3>1, <1>4 DEF Page, Link
    <3>3. u.mem[u.mem[e][k]][l] = v.mem[v.mem[e][k]][l]
      BY <3>2, <1>5
    <3>4. Page(v, K, e, k, l)
      BY <2>3, <3>2, <3>3 DEF Page, Link, Open, Writes
    <3>5. /\ v.mem[v.mem[e][k]][l] \in Frame
          /\ holder[v.mem[v.mem[e][k]][l]] = v.mem[e][k] /\ slot[v.mem[v.mem[e][k]][l]] = l
      BY <1>1, <3>4 DEF Held
    <3>6. v.mem[v.mem[e][k]][l] # t
      BY <3>2, <3>5, <1>11 DEF NotPresent
    <3> QED
      BY <3>2, <3>3, <3>5, <3>6, <1>10, StaticTypes
  <2> QED
    BY <2>1, <2>2, <2>3 DEF Held
<1> QED
  BY <1>7, <1>8, <1>9, <1>10, <1>12 DEF Structure, Equal, Turned

\* Where the table of d at i is linked.
Covers(d, i, e, k) == k = i /\ (e = d \/ i \in SharedIndices)

\* What a write of a word of a linked table does to directories and pages.
Written(u, v, D, R, d, i, j, t, word) ==
    /\ t \in Frame /\ t \notin D \cup R \cup v.free
    /\ \A e \in D, k \in Index : u.mem[e][k] = v.mem[e][k]
    /\ \A e \in D, k \in Index : v.mem[e][k] = t <=> Covers(d, i, e, k)
    /\ \A e \in D, k, l \in Index : v.mem[e][k] # NotPresent =>
          u.mem[v.mem[e][k]][l] = IF Covers(d, i, e, k) /\ l = j THEN word ELSE v.mem[v.mem[e][k]][l]
    /\ \A e \in D, k, l \in Index :
          Entry(u, e, k, l) = IF Covers(d, i, e, k) /\ l = j THEN word ELSE Entry(v, e, k, l)
    /\ Common(u, D)

LEMMA WriteWord ==
    ASSUME NEW v, NEW D, NEW K, NEW R, Structure(v, D, K, R),
           NEW d \in D, NEW i \in Index, i # KernelIndex, NEW j \in Index,
           NEW t, v.mem[d][i] = t, t # NotPresent,
           NEW word, NEW u, Writes(u, v, t, j, word)
    PROVE  Written(u, v, D, R, d, i, j, t, word)
<1>1. PICK holder \in [Frames -> Nat], slot \in [Frames -> Nat] : Held(v, D, K, R, holder, slot)
  BY DEF Structure
<1>2. /\ t \in Frame /\ t \notin D \cup R \cup v.free
  BY TableFrames
<1>3. D \subseteq Frames \ {t} /\ KernelTable \in Frames \ {t} /\ KernelDirectory \in D
  BY <1>2, StaticTypes DEF Structure, Sorted
<1>4. \A e \in D, k \in Index : u.mem[e][k] = v.mem[e][k]
  BY <1>3 DEF Writes
<1>5. ASSUME NEW e \in D, NEW k \in Index PROVE v.mem[e][k] = t <=> Covers(d, i, e, k)
  <2>1. Sorted(v, D, R) /\ Common(v, D)
    BY DEF Structure
  <2>2. Covers(d, i, e, k) => v.mem[e][k] = t
    BY <1>3, <2>1 DEF Covers, Common
  <2>3. ASSUME v.mem[e][k] = t PROVE Covers(d, i, e, k)
    <3>1. k # KernelIndex
      BY <1>2, <2>3, TableFrames, StaticTypes
    <3>2. holder[t] = Owner(d, i) /\ slot[t] = i
      BY <1>1, <2>1, TableFacts
    <3>3. holder[t] = Owner(e, k) /\ slot[t] = k
      BY <1>1, <2>1, <2>3, <3>1, TableFacts
    <3> QED
      BY <3>2, <3>3 DEF Covers, Owner
  <2> QED
    BY <2>2, <2>3
<1>6. ASSUME NEW e \in D, NEW k \in Index, NEW l \in Index, v.mem[e][k] # NotPresent
      PROVE  u.mem[v.mem[e][k]][l] = IF Covers(d, i, e, k) /\ l = j THEN word ELSE v.mem[v.mem[e][k]][l]
  <2>1. v.mem[e][k] \in Frames
    BY <1>6, TableFrames
  <2>2. v.mem[e][k] = t <=> Covers(d, i, e, k)
    BY <1>5
  <2> QED
    BY <2>1, <2>2 DEF Writes
<1>7. ASSUME NEW e \in D, NEW k \in Index, NEW l \in Index
      PROVE  Entry(u, e, k, l) = IF Covers(d, i, e, k) /\ l = j THEN word ELSE Entry(v, e, k, l)
  BY <1>4, <1>5, <1>6 DEF Entry
<1>8. Common(u, D)
  <2>1. \A k \in Index : u.mem[KernelTable][k] = v.mem[KernelTable][k]
    BY <1>3 DEF Writes
  <2> QED
    BY <1>3, <1>4, <2>1, Layout DEF Structure, Common
<1> QED
  BY <1>2, <1>4, <1>5, <1>6, <1>7, <1>8 DEF Written

\* An entry of a linked table is cleared, or becomes a frame that was taken,
\* or is an open window and becomes anything.
LEMMA PutWord ==
    ASSUME NEW v, NEW D, NEW K, NEW R, Structure(v, D, K, R),
           NEW d \in D, NEW i \in Index, i # KernelIndex, NEW j \in Index,
           NEW t, v.mem[d][i] = t, t # NotPresent,
           NEW word, NEW X \in SUBSET R, X \subseteq {word}, word \in X \cup {NotPresent} \/ Open(v, K, d, i, j),
           NEW u, Writes(u, v, t, j, word)
    PROVE  Structure(u, D, K, R \ X)
<1>1. PICK holder \in [Frames -> Nat], slot \in [Frames -> Nat] : Held(v, D, K, R, holder, slot)
  BY DEF Structure
<1>0. Written(u, v, D, R, d, i, j, t, word)
  BY WriteWord
<1>2. /\ t \in Frame /\ t \notin D \cup R \cup v.free
      /\ \A e \in D, k \in Index : u.mem[e][k] = v.mem[e][k]
      /\ \A e \in D, k \in Index : v.mem[e][k] = t <=> Covers(d, i, e, k)
      /\ Common(u, D)
  BY <1>0 DEF Written
<1>3. \A e \in D, k, l \in Index : v.mem[e][k] # NotPresent =>
         u.mem[v.mem[e][k]][l] = IF Covers(d, i, e, k) /\ l = j THEN word ELSE v.mem[v.mem[e][k]][l]
  BY <1>0 DEF Written
<1>4. Sorted(u, D, R \ X)
  BY DEF Structure, Sorted, Writes
<1> DEFINE h == [f \in Frames |-> IF f = word /\ word \in X THEN t ELSE holder[f]]
           s == [f \in Frames |-> IF f = word /\ word \in X THEN j ELSE slot[f]]
<1>5. /\ h \in [Frames -> Nat] /\ s \in [Frames -> Nat]
      /\ word \in X => h[word] = t /\ s[word] = j
      /\ \A f \in Frames : f # word \/ word \notin X => h[f] = holder[f] /\ s[f] = slot[f]
  <2>1. t \in Nat /\ j \in Nat /\ R \subseteq Frames
    BY <1>2, StaticTypes DEF Index, Structure, Sorted
  <2> QED
    BY <2>1
<1> HIDE DEF h, s
<1>6. word \in X => holder[word] = 0 /\ word \notin v.free \cup D
  BY <1>1 DEF Held, Structure, Sorted
<1>7. D \cup R \cup v.free \subseteq Frames /\ 0 \notin D
  BY StaticTypes DEF Structure, Sorted, Machines
<1>8. Held(u, D, K, R \ X, h, s)
  <2>1. ASSUME NEW f \in u.free \cup D \cup (R \ X) PROVE h[f] = 0
    <3>1. f \in Frames /\ (f # word \/ word \notin X) /\ f \in v.free \cup D \cup R
      BY <1>6, <1>7 DEF Writes
    <3> QED
      BY <1>1, <1>5, <3>1 DEF Held
  <2>2. ASSUME NEW e \in D, NEW k \in Index, Link(u, e, k), k # KernelIndex
        PROVE  u.mem[e][k] \in Frame /\ h[u.mem[e][k]] = e /\ s[u.mem[e][k]] = k
    <3>1. u.mem[e][k] = v.mem[e][k] /\ Link(v, e, k)
      BY <2>2, <1>2 DEF Link
    <3>2. v.mem[e][k] \in Frame /\ holder[v.mem[e][k]] = e /\ slot[v.mem[e][k]] = k
      BY <1>1, <2>2, <3>1 DEF Held
    <3>3. v.mem[e][k] # word \/ word \notin X
      BY <3>2, <1>6, <1>7
    <3> QED
      BY <1>5, <3>1, <3>2, <3>3, StaticTypes
  <2>3. ASSUME NEW e \in D, NEW k \in Index, NEW l \in Index, Page(u, K, e, k, l)
        PROVE  /\ u.mem[u.mem[e][k]][l] \in Frame
               /\ h[u.mem[u.mem[e][k]][l]] = u.mem[e][k] /\ s[u.mem[u.mem[e][k]][l]] = l
    <3>1. u.mem[e][k] = v.mem[e][k] /\ v.mem[e][k] # NotPresent /\ k # KernelIndex /\ Link(v, e, k)
          /\ ~ Open(v, K, e, k, l)
      BY <2>3, <1>2 DEF Page, Link, Open, Writes
    <3>2. CASE Covers(d, i, e, k) /\ l = j
      <4>1. u.mem[u.mem[e][k]][l] = word /\ v.mem[e][k] = t
        BY <3>1, <3>2, <1>2, <1>3
      <4>2. word # NotPresent
        BY <2>3, <4>1 DEF Page
      <4>3. ~ Open(v, K, d, i, j)
        BY <3>1, <3>2, Layout DEF Open, Covers
      <4>4. word \in X
        BY <4>2, <4>3
      <4>5. word \in Frame /\ h[word] = t /\ s[word] = j
        BY <4>4, <1>5 DEF Structure, Sorted
      <4> QED
        BY <3>1, <3>2, <4>1, <4>5
    <3>3. CASE ~ (Covers(d, i, e, k) /\ l = j)
      <4>1. u.mem[u.mem[e][k]][l] = v.mem[v.mem[e][k]][l]
        BY <3>1, <3>3, <1>3
      <4>2. Page(v, K, e, k, l)
        BY <2>3, <3>1, <4>1 DEF Page
      <4>3. /\ v.mem[v.mem[e][k]][l] \in Frame
            /\ holder[v.mem[v.mem[e][k]][l]] = v.mem[e][k] /\ slot[v.mem[v.mem[e][k]][l]] = l
        BY <1>1, <4>2 DEF Held
      <4>4. v.mem[v.mem[e][k]][l] # word \/ word \notin X
        BY <4>3, <3>1, <1>6 DEF NotPresent
      <4> QED
        BY <3>1, <4>1, <4>3, <4>4, <1>5, StaticTypes
    <3> QED
      BY <3>2, <3>3
  <2> QED
    BY <2>1, <2>2, <2>3 DEF Held
<1> QED
  BY <1>2, <1>4, <1>5, <1>8 DEF Structure

\* A page is unmapped, and its frame is nowhere else.
LEMMA DropPage ==
    ASSUME NEW v, NEW D, NEW R, Structure(v, D, {}, R),
           NEW d \in D, NEW i \in Index, i # KernelIndex, NEW j \in Index,
           NEW t, v.mem[d][i] = t, t # NotPresent,
           NEW x, v.mem[t][j] = x, x # NotPresent,
           NEW u, Writes(u, v, t, j, NotPresent)
    PROVE  x \in Frame /\ x \notin v.free \cup R /\ Structure(u, D, {}, R \cup {x})
<1>1. PICK holder \in [Frames -> Nat], slot \in [Frames -> Nat] : Held(v, D, {}, R, holder, slot)
  BY DEF Structure
<1>0. Written(u, v, D, R, d, i, j, t, NotPresent)
  BY WriteWord
<1>2. /\ t \in Frame /\ t \notin D \cup R \cup v.free
      /\ \A e \in D, k \in Index : u.mem[e][k] = v.mem[e][k]
      /\ \A e \in D, k \in Index : v.mem[e][k] = t <=> Covers(d, i, e, k)
      /\ Common(u, D)
  BY <1>0 DEF Written
<1>3. \A e \in D, k, l \in Index : v.mem[e][k] # NotPresent =>
         u.mem[v.mem[e][k]][l] = IF Covers(d, i, e, k) /\ l = j THEN NotPresent ELSE v.mem[v.mem[e][k]][l]
  BY <1>0 DEF Written
<1>4. Owner(d, i) \in D /\ v.mem[Owner(d, i)][i] = t
  BY TableFrames
<1>5. Page(v, {}, Owner(d, i), i, j)
  BY <1>4 DEF Page, Link, Open, Owner
<1>6. x \in Frame /\ holder[x] = t /\ slot[x] = j /\ t # 0
  BY <1>1, <1>4, <1>5 DEF Held, NotPresent
<1>7. x \notin v.free \cup D \cup R
  BY <1>1, <1>6 DEF Held
<1>8. Sorted(u, D, R \cup {x})
  BY <1>6, <1>7 DEF Structure, Sorted, Writes
<1> DEFINE h == [holder EXCEPT ![x] = 0]
<1>9. h \in [Frames -> Nat] /\ h[x] = 0 /\ \A f \in Frames \ {x} : h[f] = holder[f]
  BY <1>6, StaticTypes
<1> HIDE DEF h
<1>10. D \cup R \cup v.free \subseteq Frames /\ 0 \notin D
  BY StaticTypes DEF Structure, Sorted, Machines
<1>11. Held(u, D, {}, R \cup {x}, h, slot)
  <2>1. ASSUME NEW f \in u.free \cup D \cup R \cup {x} PROVE h[f] = 0
    <3>1. f # x => f \in Frames /\ f \in v.free \cup D \cup R
      BY <1>10 DEF Writes
    <3> QED
      BY <1>1, <1>9, <3>1 DEF Held
  <2>2. ASSUME NEW e \in D, NEW k \in Index, Link(u, e, k), k # KernelIndex
        PROVE  u.mem[e][k] \in Frame /\ h[u.mem[e][k]] = e /\ slot[u.mem[e][k]] = k
    <3>1. u.mem[e][k] = v.mem[e][k] /\ Link(v, e, k)
      BY <2>2, <1>2 DEF Link
    <3>2. v.mem[e][k] \in Frame /\ holder[v.mem[e][k]] = e /\ slot[v.mem[e][k]] = k
      BY <1>1, <2>2, <3>1 DEF Held
    <3>3. v.mem[e][k] # x
      BY <3>2, <1>2, <1>6
    <3> QED
      BY <1>9, <3>1, <3>2, <3>3, StaticTypes
  <2>3. ASSUME NEW e \in D, NEW k \in Index, NEW l \in Index, Page(u, {}, e, k, l)
        PROVE  /\ u.mem[u.mem[e][k]][l] \in Frame
               /\ h[u.mem[u.mem[e][k]][l]] = u.mem[e][k] /\ slot[u.mem[u.mem[e][k]][l]] = l
    <3>1. u.mem[e][k] = v.mem[e][k] /\ v.mem[e][k] # NotPresent /\ k # KernelIndex /\ Link(v, e, k)
      BY <2>3, <1>2 DEF Page, Link
    <3>2. ~ (Covers(d, i, e, k) /\ l = j) /\ u.mem[u.mem[e][k]][l] = v.mem[v.mem[e][k]][l]
      BY <2>3, <3>1, <1>3 DEF Page
    <3>3. Page(v, {}, e, k, l)
      BY <2>3, <3>1, <3>2 DEF Page, Open
    <3>4. /\ v.mem[v.mem[e][k]][l] \in Frame
          /\ holder[v.mem[v.mem[e][k]][l]] = v.mem[e][k] /\ slot[v.mem[v.mem[e][k]][l]] = l
      BY <1>1, <3>3 DEF Held
    <3>5. v.mem[v.mem[e][k]][l] # x
      BY <1>2, <1>6, <3>2, <3>4
    <3> QED
      BY <3>1, <3>2, <3>4, <3>5, <1>9, StaticTypes
  <2> QED
    BY <2>1, <2>2, <2>3 DEF Held
<1> QED
  BY <1>2, <1>6, <1>7, <1>8, <1>9, <1>11 DEF Structure

\* A table without entries is unlinked.
LEMMA DropLink ==
    ASSUME NEW v, NEW D, NEW K, NEW R, Structure(v, D, K, R),
           NEW d \in D, NEW i \in Index \ SharedIndices,
           NEW t, v.mem[d][i] = t, t # NotPresent, \A j \in Index : v.mem[t][j] = NotPresent,
           NEW u, Writes(u, v, d, i, NotPresent)
    PROVE  /\ t \in Frame /\ t \notin v.free \cup R
           /\ Turned(u, v, D, K, R \cup {t})
<1>1. PICK holder \in [Frames -> Nat], slot \in [Frames -> Nat] : Held(v, D, K, R, holder, slot)
  BY DEF Structure
<1>2. i # KernelIndex
  BY Layout
<1>12. t \in Frame /\ t \notin D /\ t \notin R /\ t \notin v.free
  BY <1>2, TableFrames
<1>3. /\ t \in Frame /\ t \notin D /\ t \notin R /\ t \notin v.free /\ t # d /\ d \in Frames /\ D \subseteq Frames
      /\ KernelTable \in Frames /\ KernelTable # d /\ KernelDirectory \in D
      /\ 0 \notin D /\ t # 0
  BY <1>12, StaticTypes DEF Structure, Sorted, NotPresent
<1>4. /\ u.mem[d][i] = NotPresent
      /\ \A e \in D, k \in Index : e # d \/ k # i => u.mem[e][k] = v.mem[e][k]
      /\ \A f \in Frames \ {d}, k \in Index : u.mem[f][k] = v.mem[f][k]
  BY <1>3 DEF Writes
<1>5. \A e \in D, k \in Index : v.mem[e][k] # NotPresent =>
        \A l \in Index : u.mem[v.mem[e][k]][l] = v.mem[v.mem[e][k]][l]
  <2>1. ASSUME NEW e \in D, NEW k \in Index, v.mem[e][k] # NotPresent PROVE v.mem[e][k] \in Frames \ {d}
    BY <2>1, TableFrames
  <2> QED
    BY <2>1, <1>4
<1>6. Sorted(u, D, R \cup {t})
  BY <1>3 DEF Structure, Sorted, Writes
<1>7. Common(u, D)
  BY <1>3, <1>4, Layout DEF Structure, Common
<1>8. ASSUME NEW e \in D, NEW k \in Index, NEW l \in Index PROVE Entry(u, e, k, l) = Entry(v, e, k, l)
  <2>1. CASE e = d /\ k = i
    BY <2>1, <1>4 DEF Entry
  <2>2. CASE e # d \/ k # i
    BY <2>2, <1>4, <1>5 DEF Entry
  <2> QED
    BY <2>1, <2>2
<1>9. holder[t] = d /\ slot[t] = i
  BY <1>1, <1>2 DEF Held, Link
<1> DEFINE h == [holder EXCEPT ![t] = 0]
<1>10. h \in [Frames -> Nat] /\ h[t] = 0 /\ \A f \in Frames \ {t} : h[f] = holder[f]
  BY <1>3, StaticTypes
<1> HIDE DEF h
<1>11. Held(u, D, K, R \cup {t}, h, slot)
  <2>1. ASSUME NEW f \in u.free \cup D \cup R \cup {t} PROVE h[f] = 0
    <3>1. f # t => f \in Frames /\ f \in v.free \cup D \cup R
      BY StaticTypes DEF Structure, Sorted, Machines, Writes
    <3> QED
      BY <1>1, <1>10, <3>1 DEF Held
  <2>2. ASSUME NEW e \in D, NEW k \in Index, Link(u, e, k), k # KernelIndex
        PROVE  /\ u.mem[e][k] = v.mem[e][k] /\ Link(v, e, k) /\ v.mem[e][k] # t /\ v.mem[e][k] \in Frame
               /\ h[u.mem[e][k]] = e /\ slot[u.mem[e][k]] = k
    <3>1. e # d \/ k # i
      BY <2>2, <1>4 DEF Link
    <3>2. u.mem[e][k] = v.mem[e][k] /\ Link(v, e, k)
      BY <2>2, <3>1, <1>4 DEF Link
    <3>3. v.mem[e][k] \in Frame /\ holder[v.mem[e][k]] = e /\ slot[v.mem[e][k]] = k
      BY <1>1, <2>2, <3>2 DEF Held
    <3>4. v.mem[e][k] # t
      BY <1>9, <3>1, <3>3
    <3> QED
      BY <1>10, <3>2, <3>3, <3>4, StaticTypes
  <2>3. ASSUME NEW e \in D, NEW k \in Index, NEW l \in Index, Page(u, K, e, k, l)
        PROVE  /\ u.mem[u.mem[e][k]][l] \in Frame
               /\ h[u.mem[u.mem[e][k]][l]] = u.mem[e][k] /\ slot[u.mem[u.mem[e][k]][l]] = l
    <3>1. u.mem[e][k] = v.mem[e][k] /\ Link(v, e, k) /\ k # KernelIndex
      BY <2>2, <2>3 DEF Page
    <3>2. u.mem[u.mem[e][k]][l] = v.mem[v.mem[e][k]][l]
      BY <3>1, <1>5 DEF Link
    <3>3. Page(v, K, e, k, l)
      BY <2>3, <3>1, <3>2 DEF Page, Open, Writes
    <3>4. /\ v.mem[v.mem[e][k]][l] \in Frame
          /\ holder[v.mem[v.mem[e][k]][l]] = v.mem[e][k] /\ slot[v.mem[v.mem[e][k]][l]] = l
      BY <1>1, <3>3 DEF Held
    <3>5. v.mem[e][k] \notin D
      BY <3>1, TableFrames DEF Link
    <3>6. v.mem[v.mem[e][k]][l] # t
      BY <1>9, <3>4, <3>5
    <3> QED
      BY <3>1, <3>2, <3>4, <3>6, <1>10, StaticTypes
  <2>4. \A e \in D, k \in Index : Link(u, e, k) /\ k # KernelIndex =>
          u.mem[e][k] \in Frame /\ h[u.mem[e][k]] = e /\ slot[u.mem[e][k]] = k
    BY <2>2
  <2> QED
    BY <2>1, <2>3, <2>4 DEF Held
<1> QED
  BY <1>3, <1>6, <1>7, <1>8, <1>10, <1>11 DEF Structure, Equal, Turned
----------------------------------------------------------------------------
(* The operations of Virtual. *)

\* Nothing but memory differs.
Kept(u, v) == u.cr3 = v.cr3 /\ u.current = v.current /\ u.heapEnd = v.heapEnd

\* The machine of the boot code, and a lost one, are machines.
LEMMA MachineTypes == Machine \in Machines /\ Lost \in Machines /\ Machine.mode = "sound" /\ Lost.mode = "lost"
<1>1. /\ Blank \in [Index -> Word] /\ Content \in [Index -> Word]
      /\ [i \in Index |-> KernelTable] \in [Index -> Word]
      /\ [Blank EXCEPT ![DirectoryIndex(KernelBoundary)] = KernelTable] \in [Index -> Word]
  BY StaticTypes DEF Blank, Content, Word, Frames
<1> DEFINE words == [f \in Frame \cup StaticFrames |->
                 IF f = 0 THEN Content
                 ELSE IF f = KernelTable THEN [i \in Index |-> KernelTable]
                 ELSE IF f = KernelDirectory
                 THEN [Blank EXCEPT ![DirectoryIndex(KernelBoundary)] = KernelTable]
                 ELSE Blank]
           ends == [d \in Frame \cup {KernelDirectory} |-> HeapStart(d)]
<1>2. words \in [Frame \cup StaticFrames -> [Index -> Word]]
  BY <1>1
<1>3. ends \in [Frame \cup {KernelDirectory} -> Nat]
  BY LayoutAssumption DEF HeapStart
<1>4. Machine = [mem |-> words, free |-> Frame, cr3 |-> KernelDirectory, current |-> KernelDirectory,
                 heapEnd |-> ends, mode |-> "sound"]
  BY DEF Machine
<1> HIDE DEF words, ends
<1>5. Machine \in Machines /\ Machine.mode = "sound"
  BY <1>2, <1>3, <1>4 DEF Machines
<1>6. Lost \in Machines /\ Lost.mode = "lost"
  BY <1>5 DEF Lost, Machines
<1> QED
  BY <1>5, <1>6

\* One word of memory is written.
Put(v, f, i, word) == [v EXCEPT !.mem[f][i] = word]

LEMMA Poke ==
    ASSUME NEW v \in Machines, NEW f \in Frames, NEW i \in Index, NEW word \in Word
    PROVE  Writes(Put(v, f, i, word), v, f, i, word)
<1> DEFINE words == [v.mem EXCEPT ![f][i] = word]
           u == Put(v, f, i, word)
<1>1. words \in [Frame \cup StaticFrames -> [Index -> Word]]
      /\ \A g \in Frames, k \in Index : words[g][k] = IF g = f /\ k = i THEN word ELSE v.mem[g][k]
  BY DEF Machines, Frames
<1>2. u = [v EXCEPT !.mem = words]
  BY DEF Machines, Put
<1> HIDE DEF words, u
<1>3. /\ u \in Machines /\ u.mem = words /\ u.free = v.free /\ u.mode = v.mode
      /\ u.cr3 = v.cr3 /\ u.current = v.current /\ u.heapEnd = v.heapEnd
  BY <1>1, <1>2 DEF Machines
<1> QED
  BY <1>1, <1>3 DEF Writes, u

LEMMA Basics ==
    ASSUME NEW v, NEW D, NEW K, NEW R, Structure(v, D, K, R)
    PROVE  /\ v \in Machines /\ v.mode = "sound" /\ ~Stopped(v)
           /\ v.free \subseteq Frame /\ R \subseteq Frame /\ v.free \cap R = {} /\ D \cap R = {} /\ v.free \cap D = {}
           /\ {KernelDirectory, v.cr3, v.current} \subseteq D
           /\ D \subseteq Frame \cup {KernelDirectory} /\ D \subseteq Frames
BY StaticTypes DEF Structure, Sorted, Machines, Stopped

\* The frames in R hold what they did.
Held0(u, v, R) == \A f \in R, k \in Index : u.mem[f][k] = v.mem[f][k]

\* A frame is taken.
Taken(u, v, D, K, R, n) ==
    /\ n \in v.free /\ n \in Frame /\ n \notin D
    /\ Structure(u, D, K, R \cup {n}) /\ u.mem = v.mem /\ Kept(u, v)

LEMMA TakeStep ==
    ASSUME NEW v, NEW D, NEW K, NEW R, Structure(v, D, K, R)
    PROVE  /\ Take(v) \in Machines
           /\ ~ Stopped(Take(v)) => Taken(Take(v), v, D, K, R, NextFrame(v))
<1> DEFINE n == NextFrame(v)
           u == Take(v)
<1>1. CASE v.free = {} \/ n \notin v.free
  <2>1. u = Lost
    BY <1>1, Basics DEF Take
  <2> QED
    BY <2>1, MachineTypes DEF Stopped
<1>2. CASE n \in v.free
  <2>1. u = [v EXCEPT !.free = @ \ {n}]
    BY <1>2, Basics DEF Take
  <2>2. v \in Machines /\ v.mode = "sound" /\ n \in Frame /\ n \notin D /\ n \notin R
    BY <1>2, Basics
  <2> HIDE DEF n, u
  <2>3. /\ u \in Machines /\ u.mode = "sound" /\ u.mem = v.mem /\ u.free = v.free \ {n}
        /\ u.cr3 = v.cr3 /\ u.current = v.current /\ u.heapEnd = v.heapEnd
    BY <2>1, <2>2 DEF Machines
  <2>4. Structure(u, D, K, R \cup {n})
    <3>1. D \in SUBSET D /\ R \cup {n} \in SUBSET Frame /\ {KernelDirectory, u.cr3, u.current} \subseteq D
          /\ u.free \cap (R \cup {n}) = {} /\ u.free \cup (R \cup {n}) \subseteq v.free \cup R
      BY <1>2, <2>2, <2>3, Basics
    <3> QED
      BY <2>3, <3>1, Regroup
  <2> QED
    BY <1>2, <2>2, <2>3, <2>4 DEF Taken, Kept, n, u
<1> QED
  BY <1>1, <1>2

LEMMA TakeClearStep ==
    ASSUME NEW v, NEW D, NEW K, NEW R, Structure(v, D, K, R)
    PROVE  /\ TakeClear(v) \in Machines
           /\ ~ Stopped(TakeClear(v)) =>
                /\ TakeClear(v) = Take(v) /\ Taken(TakeClear(v), v, D, K, R, NextFrame(v))
                /\ \A j \in Index : v.mem[NextFrame(v)][j] = NotPresent
<1>1. CASE Stopped(Take(v))
  <2>1. TakeClear(v) = Take(v)
    BY <1>1 DEF TakeClear
  <2> QED
    BY <1>1, <2>1, TakeStep
<1>2. CASE ~ Stopped(Take(v)) /\ v.mem[NextFrame(v)] = Blank
  <2>1. TakeClear(v) = Take(v)
    BY <1>2 DEF TakeClear
  <2>2. \A j \in Index : v.mem[NextFrame(v)][j] = NotPresent
    BY <1>2 DEF Blank
  <2> QED
    BY <1>2, <2>1, <2>2, TakeStep
<1>3. CASE ~ Stopped(Take(v)) /\ v.mem[NextFrame(v)] # Blank
  <2>1. TakeClear(v) = Lost
    BY <1>3 DEF TakeClear
  <2> QED
    BY <2>1, MachineTypes DEF Stopped
<1> QED
  BY <1>1, <1>2, <1>3

\* Where MapMemory may make a table.
MayMap(v, D, page) ==
    /\ page \in Nat /\ DirectoryIndex(page) \in Index
    /\ DirectoryIndex(page) \in SharedIndices => D = {KernelDirectory} \/ TableOf(v, page) # NotPresent
    /\ v.cr3 = KernelDirectory => DirectoryIndex(page) \in SharedIndices \cup {WindowIndex}

\* w has a table t for the page; u is w with the entry.
Covered(u, w, v, D, K, R, page, t, word) ==
    /\ Structure(w, D, K, R) /\ Equal(w, v, D) /\ Kept(w, v) /\ Held0(w, v, R)
    /\ t # NotPresent /\ w.mem[w.cr3][DirectoryIndex(page)] = t
    /\ Writes(u, w, t, TableIndex(page), word)

\* MapMemory: a table for the region if there is none, then the entry.
LEMMA MapTable ==
    ASSUME NEW v, NEW D, NEW K, NEW R, Structure(v, D, K, R), NEW page, MayMap(v, D, page),
           NEW word \in Word
    PROVE  /\ MapMemory(v, word, page) \in Machines
           /\ ~ Stopped(MapMemory(v, word, page)) =>
                \E w, t : Covered(MapMemory(v, word, page), w, v, D, K, R, page, t, word)
<1> DEFINE i == DirectoryIndex(page)
           j == TableIndex(page)
           d == v.cr3
           u == MapMemory(v, word, page)
<1>0. /\ v \in Machines /\ ~Stopped(v) /\ d \in D /\ d \in Frames /\ i \in Index /\ j \in Index
      /\ TableOf(v, page) = v.mem[d][i] /\ page \in Nat
  BY Basics, PageParts DEF TableOf, MayMap
<1>1. CASE TableOf(v, page) # NotPresent
  <2> DEFINE t == v.mem[d][i]
  <2>1. t \in Frames /\ t # NotPresent
    BY <1>0, <1>1, TableFrames
  <2>2. u = Put(v, t, j, word)
    BY <1>0, <1>1 DEF MapMemory, SetEntry, Put
  <2>3. Writes(u, v, t, j, word)
    BY <1>0, <2>1, <2>2, Poke
  <2>4. Equal(v, v, D) /\ Kept(v, v) /\ Held0(v, v, R)
    BY DEF Equal, Kept, Held0
  <2>5. Covered(u, v, v, D, K, R, page, t, word)
    BY <2>1, <2>3, <2>4 DEF Covered
  <2> QED
    BY <2>3, <2>5 DEF Writes
<1>2. CASE TableOf(v, page) = NotPresent /\ Stopped(TakeClear(v))
  <2>1. u = TakeClear(v)
    BY <1>0, <1>2 DEF MapMemory
  <2> QED
    BY <1>2, <2>1, TakeClearStep
<1>3. CASE TableOf(v, page) = NotPresent /\ ~ Stopped(TakeClear(v))
  <2> DEFINE t == NextFrame(v)
             a == TakeClear(v)
             w == Put(a, d, i, t)
  <2>1. /\ Taken(a, v, D, K, R, t) /\ \A l \in Index : v.mem[t][l] = NotPresent
    BY <1>3, TakeClearStep
  <2>2. /\ t \in Frame /\ t \in Frames /\ t \in Word /\ t # NotPresent /\ t \notin D /\ t \notin R
        /\ Structure(a, D, K, R \cup {t}) /\ a.mem = v.mem /\ Kept(a, v) /\ a \in Machines
    BY <2>1, StaticTypes, Basics DEF Taken
  <2>3. u = Put(w, t, j, word)
    <3>1. u = SetEntry(w, word, page)
      BY <1>0, <1>3 DEF MapMemory, Put
    <3>2. Writes(w, a, d, i, t)
      BY <1>0, <2>2, Poke
    <3>3. TableOf(w, page) = t
      BY <3>2, <2>2 DEF Writes, TableOf, Kept
    <3> QED
      BY <3>1, <3>3 DEF SetEntry, Put
  <2>4. Writes(w, a, d, i, t)
    BY <1>0, <2>2, Poke
  <2>5. i \in SharedIndices => D = {KernelDirectory}
    BY <1>3 DEF MayMap
  <2>6. d = KernelDirectory => i \in SharedIndices \cup {WindowIndex}
    BY DEF MayMap
  <2>7. a.mem[d][i] = NotPresent /\ \A l \in Index : a.mem[t][l] = NotPresent
    BY <1>0, <1>3, <2>1, <2>2
  <2> HIDE DEF t, a, w, i, j, d
  <2>8. Structure(w, D, K, R) /\ Equal(w, a, D)
    <3> DEFINE S == R \cup {t}
    <3>1. t \in S /\ Structure(a, D, K, S) /\ S \ {t} = R
      BY <2>2
    <3> HIDE DEF S
    <3>2. Turned(w, a, D, K, S \ {t})
      BY <1>0, <2>4, <2>5, <2>6, <2>7, <3>1, AddLink
    <3> QED
      BY <3>1, <3>2 DEF Turned
  <2>10. Equal(w, v, D)
    BY <2>2, <2>8 DEF Equal, Entry
  <2>11. Kept(w, v) /\ w \in Machines
    BY <2>2, <2>4 DEF Writes, Kept
  <2>12. Held0(w, v, R)
    <3>0. R \subseteq Frame /\ D \cap R = {}
      BY Basics
    <3>1. \A f \in R : f \in Frames /\ f # d
      BY <1>0, <3>0, StaticTypes
    <3> QED
      BY <2>2, <2>4, <3>1 DEF Held0, Writes
  <2>13. Writes(u, w, t, j, word)
    BY <1>0, <2>2, <2>3, <2>11, Poke
  <2>14. w.mem[w.cr3][i] = t
    BY <1>0, <2>4, <2>11 DEF Writes, Kept, d
  <2>15. Covered(u, w, v, D, K, R, page, t, word)
    BY <2>2, <2>8, <2>10, <2>11, <2>12, <2>13, <2>14 DEF Covered, i, j
  <2> QED
    BY <2>13, <2>15 DEF Writes
<1> QED
  BY <1>1, <1>2, <1>3

\* The entry of d at i and j has become word, and nothing else has changed.
Set(u, v, D, d, i, j, word) ==
    \A e \in D, k, l \in Index :
        Entry(u, e, k, l) = IF Covers(d, i, e, k) /\ l = j THEN word ELSE Entry(v, e, k, l)

LEMMA SetEqual ==
    ASSUME NEW u, NEW w, NEW v, NEW D, NEW d, NEW i, NEW j, NEW word, Equal(w, v, D), Set(u, w, D, d, i, j, word)
    PROVE  Set(u, v, D, d, i, j, word)
BY DEF Equal, Set

\* What MapMemory and EraseMapping leave of v, with the window K and the
\* frames R.
Changed(u, v, D, K, R, page, word) ==
    /\ Structure(u, D, K, R) /\ Kept(u, v)
    /\ Set(u, v, D, v.cr3, DirectoryIndex(page), TableIndex(page), word)

\* The same, or the memory has stopped; S are the frames that are not linked
\* yet, and those in R hold what they did.
Result(u, v, D, K, S, R, page, word) ==
    /\ u \in Machines
    /\ ~ Stopped(u) => Changed(u, v, D, K, S, page, word) /\ Held0(u, v, R)

\* MapMemory of a frame that was taken, or in a window of anything.
LEMMA MapStep ==
    ASSUME NEW v, NEW D, NEW K, NEW R, Structure(v, D, K, R), NEW page, MayMap(v, D, page),
           DirectoryIndex(page) # KernelIndex, NEW word \in Word, NEW X \in SUBSET R, X \subseteq {word},
           \/ word \in X \cup {NotPresent}
           \/ DirectoryIndex(page) = WindowIndex /\ TableIndex(page) \in K
    PROVE  Result(MapMemory(v, word, page), v, D, K, R \ X, R, page, word)
<1> DEFINE u == MapMemory(v, word, page)
           i == DirectoryIndex(page)
           j == TableIndex(page)
<1>1. u \in Machines /\ (~ Stopped(u) => \E w, t : Covered(u, w, v, D, K, R, page, t, word))
  BY MapTable
<1>2. SUFFICES ASSUME ~ Stopped(u)
               PROVE  Changed(u, v, D, K, R \ X, page, word) /\ Held0(u, v, R)
  BY <1>1 DEF Result
<1>3. PICK w, t : Covered(u, w, v, D, K, R, page, t, word)
  BY <1>1, <1>2
<1> HIDE DEF u
<1>4. /\ Structure(w, D, K, R) /\ Equal(w, v, D) /\ Kept(w, v) /\ Held0(w, v, R)
      /\ t # NotPresent /\ w.mem[w.cr3][i] = t /\ Writes(u, w, t, j, word)
  BY <1>3 DEF Covered
<1>5. page \in Nat /\ i \in Index /\ j \in Index /\ w.cr3 \in D /\ i # KernelIndex /\ w.cr3 = v.cr3
  BY <1>4, Basics, PageParts DEF MayMap, Kept
<1>6. word \in X \cup {NotPresent} \/ Open(w, K, w.cr3, i, j)
  BY DEF Open
<1> HIDE DEF i, j
<1>7. Structure(u, D, K, R \ X)
  BY <1>4, <1>5, <1>6, PutWord
<1>8. Written(u, w, D, R, w.cr3, i, j, t, word)
  BY <1>4, <1>5, WriteWord
<1>9. Set(u, w, D, v.cr3, i, j, word)
  BY <1>5, <1>8 DEF Written, Set
<1>10. Kept(u, v)
  BY <1>4 DEF Kept, Writes
<1>11. Held0(u, v, R)
  <2>1. R \subseteq Frames
    BY Basics, StaticTypes
  <2>2. t \notin R
    BY <1>8 DEF Written
  <2> QED
    BY <1>4, <2>1, <2>2 DEF Held0, Writes
<1> QED
  BY <1>4, <1>7, <1>9, <1>10, <1>11, SetEqual DEF Changed, i, j

\* The windows' pages.
LEMMA WindowPages ==
    ASSUME NEW page \in Windows
    PROVE  /\ page \in Nat /\ DirectoryIndex(page) = WindowIndex /\ TableIndex(page) \in Index
           /\ DirectoryIndex(page) \in Index \ SharedIndices /\ DirectoryIndex(page) # KernelIndex
           /\ \A v, D : MayMap(v, D, page)
<1>1. page \in Nat /\ DirectoryIndex(page) = WindowIndex
  BY LayoutAssumption DEF WindowIndex
<1>2. TableIndex(page) \in Index
  BY <1>1, PageParts
<1>3. WindowIndex \in Index \ SharedIndices /\ WindowIndex # KernelIndex
  BY Layout
<1> QED
  BY <1>1, <1>2, <1>3 DEF MayMap

LEMMA OpenWindow ==
    ASSUME NEW v, NEW D, NEW K, NEW R, Structure(v, D, K, R), NEW page \in Windows, NEW word \in Word
    PROVE  Result(MapMemory(v, word, page), v, D, K \cup {TableIndex(page)}, R, R, page, word)
<1> DEFINE u == MapMemory(v, word, page)
           L == K \cup {TableIndex(page)}
<1>1. Structure(v, D, L, R)
  <2>1. /\ D \in SUBSET D /\ v \in Machines /\ v.mode = "sound" /\ R \in SUBSET Frame
        /\ {KernelDirectory, v.cr3, v.current} \subseteq D
        /\ v.free \cap R = {} /\ v.free \cup R \subseteq v.free \cup R /\ K \subseteq L
    BY Basics
  <2> QED
    BY <2>1, Regroup
<1>2. /\ MayMap(v, D, page) /\ DirectoryIndex(page) # KernelIndex
      /\ DirectoryIndex(page) = WindowIndex /\ TableIndex(page) \in L
  BY WindowPages
<1> HIDE DEF L
<1>3. {} \in SUBSET R /\ {} \subseteq {word} /\ R \ {} = R
  OBVIOUS
<1>4. Result(MapMemory(v, word, page), v, D, L, R \ {}, R, page, word)
  BY <1>1, <1>2, <1>3, MapStep
<1> QED
  BY <1>3, <1>4 DEF L

\* EraseMapping when the entry has been cleared.
EraseTable(u, i) ==
    LET t == u.mem[u.cr3][i]
    IN  IF u.mem[t] # Blank THEN u
        ELSE [u EXCEPT !.free = @ \cup {t}, !.mem[u.cr3][i] = NotPresent,
                       !.mode = IF i \in SharedIndices THEN "split" ELSE @]

LEMMA EraseTableStep ==
    ASSUME NEW u, NEW D, NEW K, NEW R, Structure(u, D, K, R), NEW i \in Index, i # KernelIndex,
           u.mem[u.cr3][i] # NotPresent
    PROVE  /\ EraseTable(u, i) \in Machines
           /\ ~ Stopped(EraseTable(u, i)) =>
                Turned(EraseTable(u, i), u, D, K, R) /\ Kept(EraseTable(u, i), u) /\ Held0(EraseTable(u, i), u, R)
<1> DEFINE r == EraseTable(u, i)
           t == u.mem[u.cr3][i]
           d == u.cr3
<1>0. /\ u \in Machines /\ u.mode = "sound" /\ ~Stopped(u) /\ d \in D /\ d \in Frames /\ R \subseteq Frame /\ D \cap R = {}
      /\ {KernelDirectory, u.cr3, u.current} \subseteq D /\ u.free \cap R = {}
  BY Basics
<1>1. t \in Frame /\ t \in Frames /\ t \notin R /\ t # NotPresent
  BY <1>0, TableFrames
<1>2. CASE u.mem[t] # Blank
  <2>1. r = u
    BY <1>2 DEF EraseTable
  <2> QED
    BY <1>0, <2>1 DEF Turned, Equal, Kept, Held0
<1>3. CASE u.mem[t] = Blank
  <2> DEFINE x == Put(u, d, i, NotPresent)
  <2>1. Writes(x, u, d, i, NotPresent)
    BY <1>0, StaticTypes, Poke
  <2>2. r = [x EXCEPT !.free = @ \cup {t}, !.mode = IF i \in SharedIndices THEN "split" ELSE @]
    BY <1>3 DEF EraseTable, Put
  <2>3. \A j \in Index : u.mem[t][j] = NotPresent
    BY <1>3 DEF Blank
  <2> HIDE DEF x, r, t, d
  <2>4. /\ x \in Machines /\ x.mode = "sound"
        /\ x.free = u.free /\ x.cr3 = u.cr3 /\ x.current = u.current /\ x.heapEnd = u.heapEnd
    BY <1>0, <2>1 DEF Writes
  <2>5. /\ r \in Machines /\ r.mem = x.mem /\ r.free = u.free \cup {t} /\ r.cr3 = u.cr3 /\ r.current = u.current
        /\ r.heapEnd = u.heapEnd /\ r.mode = IF i \in SharedIndices THEN "split" ELSE "sound"
    BY <1>1, <2>2, <2>4 DEF Machines
  <2>6. CASE i \in SharedIndices
    BY <2>5, <2>6 DEF Stopped, r
  <2>7. CASE i \notin SharedIndices
    <3>1. i \in Index \ SharedIndices /\ u.mem[d][i] = t
      BY <2>7 DEF t, d
    <3>2. Turned(x, u, D, K, R \cup {t})
      BY <1>0, <1>1, <2>1, <2>3, <3>1, DropLink
    <3>3. /\ Structure(x, D, K, R \cup {t}) /\ r.mode = "sound" /\ D \in SUBSET D /\ R \in SUBSET Frame
          /\ {KernelDirectory, r.cr3, r.current} \subseteq D /\ r.free \cap R = {}
          /\ r.free \cup R \subseteq x.free \cup (R \cup {t}) /\ K \subseteq K /\ r.cr3 = x.cr3
      BY <1>0, <1>1, <2>4, <2>5, <2>7, <3>2 DEF Turned
    <3>4. Structure(r, D, K, R)
      BY <2>5, <3>3, Regroup
    <3>5. Equal(r, u, D)
      BY <2>5, <3>2 DEF Turned, Equal, Entry
    <3>6. Held0(r, u, R)
      BY <1>0, <2>1, <2>5, StaticTypes DEF Held0, Writes
    <3> QED
      BY <2>5, <3>4, <3>5, <3>6 DEF Turned, Kept, r
  <2> QED
    BY <2>6, <2>7
<1> QED
  BY <1>2, <1>3

LEMMA EraseIsTable ==
    ASSUME NEW v, ~ Stopped(v), NEW page, NEW t, TableOf(v, page) = t, t # NotPresent,
           NEW u, SetEntry(v, NotPresent, page) = u,
           u.cr3 = v.cr3, u.mem[v.cr3][DirectoryIndex(page)] = t
    PROVE  EraseMapping(v, page) = EraseTable(u, DirectoryIndex(page))
BY DEF EraseMapping, EraseTable

LEMMA EraseStep ==
    ASSUME NEW v, NEW D, NEW K, NEW R, Structure(v, D, K, R),
           NEW page \in Nat, DirectoryIndex(page) \in Index, DirectoryIndex(page) # KernelIndex
    PROVE  Result(EraseMapping(v, page), v, D, K, R, R, page, NotPresent)
<1> DEFINE i == DirectoryIndex(page)
           j == TableIndex(page)
           t == v.mem[v.cr3][i]
           u == Put(v, t, j, NotPresent)
           r == EraseMapping(v, page)
<1>0. /\ v \in Machines /\ ~Stopped(v) /\ v.mode = "sound" /\ v.cr3 \in D /\ v.cr3 \in Frames /\ j \in Index
      /\ R \subseteq Frames /\ NotPresent \in Word
  <2>1. /\ v \in Machines /\ ~Stopped(v) /\ v.mode = "sound" /\ {v.cr3} \subseteq D /\ D \subseteq Frames
        /\ R \subseteq Frame
    BY Basics
  <2> QED
    BY <2>1, PageParts, StaticTypes
<1>1. CASE t = NotPresent
  <2>1. r = Lost
    BY <1>0, <1>1 DEF EraseMapping, TableOf
  <2> QED
    BY <2>1, MachineTypes DEF Result, Stopped
<1>2. CASE t # NotPresent
  <2>1. t \in Frames
    BY <1>0, <1>2, TableFrames
  <2>2. Writes(u, v, t, j, NotPresent)
    BY <1>0, <2>1, Poke
  <2>3. SetEntry(v, NotPresent, page) = u /\ TableOf(v, page) = t
    BY DEF SetEntry, TableOf, Put
  <2> HIDE DEF u, t, r, i, j
  <2>4. i \in Index /\ i # KernelIndex /\ v.mem[v.cr3][i] = t
    BY DEF i, t
  <2>5. Written(u, v, D, R, v.cr3, i, j, t, NotPresent)
    BY <1>0, <1>2, <2>2, <2>4, WriteWord
  <2>6. {} \in SUBSET R /\ {} \subseteq {NotPresent} /\ NotPresent \in {} \cup {NotPresent} /\ R \ {} = R
    OBVIOUS
  <2>7. Structure(u, D, K, R \ {})
    BY <1>0, <1>2, <2>2, <2>4, <2>6, PutWord
  <2>8. Structure(u, D, K, R) /\ u.cr3 = v.cr3 /\ u.mem[u.cr3][i] = t /\ t \notin R
    BY <1>0, <2>2, <2>4, <2>5, <2>6, <2>7 DEF Written, Writes
  <2>9. r = EraseTable(u, i)
    BY <1>0, <1>2, <2>3, <2>8, EraseIsTable DEF i, r
  <2>10. /\ EraseTable(u, i) \in Machines
         /\ ~ Stopped(EraseTable(u, i)) =>
              Turned(EraseTable(u, i), u, D, K, R) /\ Kept(EraseTable(u, i), u) /\ Held0(EraseTable(u, i), u, R)
    BY <1>2, <2>4, <2>8, EraseTableStep
  <2>11. ASSUME ~ Stopped(r) PROVE Changed(r, v, D, K, R, page, NotPresent) /\ Held0(r, v, R)
    <3>1. Structure(r, D, K, R) /\ Equal(r, u, D) /\ Kept(r, u) /\ Held0(r, u, R)
      BY <2>9, <2>10, <2>11 DEF Turned
    <3>2. Set(u, v, D, v.cr3, i, j, NotPresent)
      BY <2>5 DEF Written, Set
    <3>3. Set(r, v, D, v.cr3, i, j, NotPresent)
      BY <3>1, <3>2 DEF Set, Equal
    <3>4. Kept(r, v)
      BY <2>2, <3>1 DEF Kept, Writes
    <3>5. Held0(r, v, R)
      BY <1>0, <2>2, <2>8, <3>1 DEF Held0, Writes
    <3> QED
      BY <3>1, <3>3, <3>4, <3>5 DEF Changed, i, j
  <2> QED
    BY <2>9, <2>10, <2>11 DEF Result, r
<1> QED
  BY <1>1, <1>2

LEMMA CloseWindow ==
    ASSUME NEW v, NEW D, NEW K, NEW R, Structure(v, D, K, R), NEW page \in Windows
    PROVE  Result(EraseMapping(v, page), v, D, K \ {TableIndex(page)}, R, R, page, NotPresent)
<1> DEFINE r == EraseMapping(v, page)
           L == K \ {TableIndex(page)}
<1>1. page \in Nat /\ DirectoryIndex(page) \in Index /\ DirectoryIndex(page) # KernelIndex
      /\ DirectoryIndex(page) = WindowIndex /\ TableIndex(page) \in Index
  BY WindowPages
<1>2. Result(r, v, D, K, R, R, page, NotPresent)
  BY <1>1, EraseStep
<1>3. SUFFICES ASSUME ~ Stopped(r) PROVE Structure(r, D, L, R)
  BY <1>2 DEF Result, Changed
<1> HIDE DEF r
<1>4. Structure(r, D, K, R) /\ Kept(r, v) /\ Set(r, v, D, v.cr3, WindowIndex, TableIndex(page), NotPresent)
  BY <1>1, <1>2, <1>3 DEF Result, Changed
<1>5. r.cr3 = v.cr3 /\ v.cr3 \in D
  BY <1>4, Basics DEF Kept
<1>6. Entry(r, r.cr3, WindowIndex, TableIndex(page)) = NotPresent
  BY <1>1, <1>4, <1>5 DEF Set, Covers
<1> QED
  BY <1>4, <1>6, CloseWindows

\* PlacePage puts the next frame at the page.
LEMMA PlaceStep ==
    ASSUME NEW v, NEW D, Structure(v, D, {}, {}), NEW page, MayMap(v, D, page), DirectoryIndex(page) # KernelIndex
    PROVE  /\ Result(PlacePage(v, page), v, D, {}, {}, {}, page, NextFrame(v))
           /\ ~ Stopped(PlacePage(v, page)) => NextFrame(v) \in Frame
<1> DEFINE n == NextFrame(v)
           a == Take(v)
           b == [a EXCEPT !.mem[n] = Content]
           r == PlacePage(v, page)
<1>1. a \in Machines /\ (~ Stopped(a) => Taken(a, v, D, {}, {}, n))
  BY TakeStep
<1>2. CASE Stopped(a)
  <2>1. r = a
    BY <1>2 DEF PlacePage
  <2> QED
    BY <1>1, <1>2, <2>1 DEF Result
<1>3. CASE ~ Stopped(a)
  <2>1. r = MapMemory(b, n, page)
    BY <1>3 DEF PlacePage
  <2>2. /\ n \in Frame /\ n \in Frames /\ n \in Word /\ n \notin D
        /\ Structure(a, D, {}, {n}) /\ a.mem = v.mem /\ Kept(a, v) /\ a.mode = "sound"
    <3>1. Taken(a, v, D, {}, {}, n)
      BY <1>1, <1>3
    <3>2. n \in Frame /\ n \notin D /\ Structure(a, D, {}, {} \cup {n}) /\ a.mem = v.mem /\ Kept(a, v)
      BY <3>1 DEF Taken
    <3>3. {} \cup {n} = {n}
      OBVIOUS
    <3> QED
      BY <1>3, <3>2, <3>3, StaticTypes DEF Stopped
  <2> HIDE DEF a, n
  <2> DEFINE words == [a.mem EXCEPT ![n] = Content]
  <2>3. /\ words \in [Frame \cup StaticFrames -> [Index -> Word]]
        /\ \A f \in Frames \ {n}, i \in Index : words[f][i] = a.mem[f][i]
    BY <1>1, <2>2, StaticTypes DEF Machines, Frames, Content
  <2>4. b = [a EXCEPT !.mem = words]
    BY <1>1 DEF Machines
  <2> HIDE DEF words, b
  <2>5. /\ b \in Machines /\ b.mem = words /\ b.free = a.free /\ b.mode = a.mode
        /\ b.cr3 = a.cr3 /\ b.current = a.current /\ b.heapEnd = a.heapEnd
    BY <1>1, <2>3, <2>4 DEF Machines
  <2>6. Structure(b, D, {}, {n}) /\ \A d \in D, i \in Index : b.mem[d][i] = v.mem[d][i]
    <3>1. n \in {n} /\ \A f \in Frames \ {n}, i \in Index : b.mem[f][i] = a.mem[f][i]
      BY <2>3, <2>5
    <3>2. Structure(b, D, {}, {n}) /\ Same(b, a, D)
      BY <2>2, <2>5, <3>1, FillFrame
    <3>3. D \subseteq Frames \ {n}
      BY <2>2, Basics
    <3> QED
      BY <2>2, <3>1, <3>2, <3>3
  <2>7. Equal(b, v, D) /\ Kept(b, v)
    <3>1. \A d \in D, i \in Index : v.mem[d][i] # NotPresent => v.mem[d][i] \in Frames \ {n}
      BY <2>2, <1>3, TakeStep, TableFrames DEF Taken, a, n
    <3>2. \A f \in Frames \ {n}, i \in Index : b.mem[f][i] = v.mem[f][i]
      BY <2>2, <2>3, <2>5
    <3>3. Kept(b, v)
      BY <2>2, <2>5 DEF Kept
    <3> QED
      BY <2>6, <3>1, <3>2, <3>3 DEF Equal, Entry
  <2>8. MayMap(b, D, page)
    <3>1. v.cr3 \in D /\ b.cr3 = v.cr3
      BY <2>7, Basics DEF Kept
    <3> QED
      BY <2>6, <3>1 DEF MayMap, TableOf
  <2>9. {n} \in SUBSET {n} /\ {n} \subseteq {n} /\ n \in {n} \cup {NotPresent} /\ {n} \ {n} = {}
    OBVIOUS
  <2>10. Result(MapMemory(b, n, page), b, D, {}, {n} \ {n}, {n}, page, n)
    BY <2>2, <2>6, <2>8, <2>9, MapStep
  <2>11. r \in Machines /\ (~ Stopped(r) => Changed(r, b, D, {}, {}, page, n))
    BY <2>1, <2>9, <2>10 DEF Result
  <2>12. ASSUME ~ Stopped(r) PROVE Changed(r, v, D, {}, {}, page, n)
    <3>1. Structure(r, D, {}, {}) /\ Kept(r, b) /\ Set(r, b, D, b.cr3, DirectoryIndex(page), TableIndex(page), n)
      BY <2>11, <2>12 DEF Changed
    <3>2. b.cr3 = v.cr3
      BY <2>7 DEF Kept
    <3>3. Set(r, v, D, v.cr3, DirectoryIndex(page), TableIndex(page), n)
      BY <2>7, <3>1, <3>2, SetEqual
    <3> QED
      BY <2>7, <3>1, <3>3 DEF Changed, Kept
  <2>13. Result(r, v, D, {}, {}, {}, page, n)
    BY <2>11, <2>12 DEF Result, Held0
  <2> QED
    BY <2>2, <2>13 DEF n
<1> QED
  BY <1>2, <1>3

\* FreePage and EraseMapping of a page.
LEMMA ReleaseStep ==
    ASSUME NEW v, NEW D, Structure(v, D, {}, {}),
           NEW page \in Nat, DirectoryIndex(page) \in Index, DirectoryIndex(page) # KernelIndex
    PROVE  Result(Release(v, page), v, D, {}, {}, {}, page, NotPresent)
<1> DEFINE i == DirectoryIndex(page)
           j == TableIndex(page)
           t == v.mem[v.cr3][i]
           x == v.mem[t][j]
           a == [v EXCEPT !.free = @ \cup {x}]
           b == Put(v, t, j, NotPresent)
           c == [b EXCEPT !.free = @ \cup {x}]
           r == Release(v, page)
<1>0. /\ v \in Machines /\ ~Stopped(v) /\ v.mode = "sound" /\ v.cr3 \in D /\ v.cr3 \in Frames /\ j \in Index
      /\ NotPresent \in Word /\ v.free \subseteq Frame /\ v.free \cap D = {}
      /\ {KernelDirectory, v.cr3, v.current} \subseteq D
  BY Basics, PageParts, StaticTypes
<1>1. CASE RetrieveMapping(v, page) = NotPresent
  <2>1. v.free \cup ({RetrieveMapping(v, page)} \ {NotPresent}) = v.free
    BY <1>1
  <2>2. [v EXCEPT !.free = @ \cup ({RetrieveMapping(v, page)} \ {NotPresent})] = v
    BY <1>0, <2>1 DEF Machines
  <2>3. r = EraseMapping(v, page)
    BY <1>0, <2>2 DEF Release
  <2> QED
    BY <2>3, EraseStep
<1>2. CASE RetrieveMapping(v, page) # NotPresent
  <2>1. t # NotPresent /\ x # NotPresent /\ RetrieveMapping(v, page) = x
    BY <1>2 DEF RetrieveMapping, TableOf
  <2>2. r = EraseMapping(a, page)
    <3>1. {x} \ {NotPresent} = {x}
      BY <2>1
    <3> QED
      BY <1>0, <2>1, <3>1 DEF Release
  <2>3. t \in Frames
    BY <1>0, <2>1, TableFrames
  <2>4. Writes(b, v, t, j, NotPresent)
    BY <1>0, <2>3, Poke
  <2>5. TableOf(a, page) = t /\ SetEntry(a, NotPresent, page) = c /\ a.mode = "sound" /\ a.cr3 = v.cr3
    BY <1>0 DEF TableOf, SetEntry, Put, Machines
  <2> HIDE DEF t, x, a, b, c, r, i, j
  <2>6. i \in Index /\ i # KernelIndex /\ v.mem[v.cr3][i] = t /\ v.mem[t][j] = x
    BY DEF i, t, x
  <2>7. x \in Frame /\ x \notin v.free /\ Structure(b, D, {}, {} \cup {x})
    BY <1>0, <2>1, <2>4, <2>6, DropPage
  <2>8. Written(b, v, D, {}, v.cr3, i, j, t, NotPresent)
    BY <1>0, <2>1, <2>4, <2>6, WriteWord
  <2>9. /\ b \in Machines /\ b.mode = "sound" /\ b.free = v.free /\ b.cr3 = v.cr3 /\ b.current = v.current
        /\ b.heapEnd = v.heapEnd
    BY <1>0, <2>4 DEF Writes
  <2>10. /\ c \in Machines /\ c.mem = b.mem /\ c.free = v.free \cup {x} /\ c.cr3 = v.cr3 /\ c.current = v.current
         /\ c.heapEnd = v.heapEnd /\ c.mode = "sound"
    BY <2>7, <2>9 DEF Machines, c
  <2>11. Structure(c, D, {}, {})
    <3>1. D \in SUBSET D /\ {} \in SUBSET Frame /\ c.free \cap {} = {} /\ c.free \cup {} \subseteq b.free \cup ({} \cup {x})
          /\ {KernelDirectory, c.cr3, c.current} \subseteq D /\ {} \subseteq {} /\ c.cr3 = b.cr3
      BY <1>0, <2>9, <2>10
    <3> QED
      BY <2>7, <2>10, <3>1, Regroup
  <2>12. c.mem[v.cr3][i] = t /\ c.mem[c.cr3][i] # NotPresent
    BY <1>0, <2>1, <2>6, <2>8, <2>10 DEF Written
  <2>13. r = EraseTable(c, i)
    BY <2>1, <2>2, <2>5, <2>10, <2>12, EraseIsTable DEF Stopped, i
  <2>14. /\ EraseTable(c, i) \in Machines
         /\ ~ Stopped(EraseTable(c, i)) =>
              Turned(EraseTable(c, i), c, D, {}, {}) /\ Kept(EraseTable(c, i), c) /\ Held0(EraseTable(c, i), c, {})
    BY <2>6, <2>11, <2>12, EraseTableStep
  <2>15. ASSUME ~ Stopped(r) PROVE Changed(r, v, D, {}, {}, page, NotPresent)
    <3>1. Structure(r, D, {}, {}) /\ Equal(r, c, D) /\ Kept(r, c)
      BY <2>13, <2>14, <2>15 DEF Turned
    <3>2. Set(b, v, D, v.cr3, i, j, NotPresent)
      BY <2>8 DEF Written, Set
    <3>3. Set(r, v, D, v.cr3, i, j, NotPresent)
      BY <2>10, <3>1, <3>2 DEF Set, Equal, Entry
    <3>4. Kept(r, v)
      BY <2>10, <3>1 DEF Kept
    <3> QED
      BY <3>1, <3>3, <3>4 DEF Changed, i, j
  <2> QED
    BY <2>13, <2>14, <2>15 DEF Result, Held0, r
<1> QED
  BY <1>1, <1>2
----------------------------------------------------------------------------
(* Machines between the steps of a call. *)

\* The frame a directory maps a page to; NotPresent if there is none.
At(v, d, page) == Entry(v, d, DirectoryIndex(page), TableIndex(page))

\* The pages of d no release of the kernel heap and no growth of a heap is
\* about.
Own(v, d) == {page \in Nat :
    /\ DirectoryIndex(page) \in Index \ (KernelHeapIndices \cup {WindowIndex})
    /\ page \notin v.heapEnd[d] .. UserHeapEnd - 1}

KeptPages(u, v, d) == \A page \in Own(v, d) : At(v, d, page) # NotPresent => At(u, d, page) = At(v, d, page)

\* From v to u no process lost a page of its own, or what its heap had.
Mapped(u, v, D) == \A d \in D \ {KernelDirectory} : v.heapEnd[d] <= u.heapEnd[d] /\ KeptPages(u, v, d)

\* A heap ends in its region, and a process's is mapped up to its end: unless
\* the timer's driver can receive its interrupts, see GrowStep.
Ends(v, D) == \A d \in D : v.heapEnd[d] \in HeapStart(d) .. HeapMax(d)
Filled(v, D) ==
    \A d \in D \ {KernelDirectory} : \A page \in UserHeapStart .. v.heapEnd[d] - 1 : At(v, d, page) # NotPresent

\* The kernel's directory is not in use when it is not the current one: no
\* process's pages are mapped there.
Aligned(v) == v.current # KernelDirectory => v.cr3 # KernelDirectory

Steady(v, D) == Structure(v, D, {}, {}) /\ Ends(v, D) /\ (TimerReceives \/ Filled(v, D)) /\ Aligned(v)

OK(v, D) == v \in Machines /\ (~ Stopped(v) => Steady(v, D))

\* u comes of v by steps of the kernel.
Fine(u, v, D) == OK(u, D) /\ (~ Stopped(u) => ~ Stopped(v) /\ (TimerReceives \/ Mapped(u, v, D)))
Good(u, v, D) == Fine(u, v, D) /\ (~ Stopped(u) => u.current = v.current)

\* The directory in use is the current one, or nothing depends on it.
Settled(v) == TimerReceives \/ Stopped(v) \/ v.current = KernelDirectory \/ v.cr3 = v.current

LEMMA StoppedIsGood ==
    ASSUME NEW u \in Machines, Stopped(u), NEW v, NEW D
    PROVE  Good(u, v, D) /\ Settled(u) /\ OK(u, D)
BY DEF Good, Fine, OK, Settled

LEMMA LostIsGood ==
    ASSUME NEW v, NEW D
    PROVE  Good(Lost, v, D) /\ Settled(Lost) /\ Stopped(Lost) /\ OK(Lost, D)
BY MachineTypes, StoppedIsGood DEF Stopped

LEMMA SteadyParts ==
    ASSUME NEW v, NEW D, Steady(v, D)
    PROVE  /\ Structure(v, D, {}, {}) /\ v \in Machines /\ v.mode = "sound" /\ ~ Stopped(v)
           /\ {KernelDirectory, v.cr3, v.current} \subseteq D
           /\ D \subseteq Frame \cup {KernelDirectory} /\ D \subseteq Frames
           /\ \A d \in D : v.heapEnd[d] \in Nat /\ v.heapEnd[d] \in HeapStart(d) .. HeapMax(d)
           /\ OK(v, D)
<1>1. Structure(v, D, {}, {})
  BY DEF Steady
<1>2. /\ v \in Machines /\ v.mode = "sound" /\ ~ Stopped(v)
      /\ {KernelDirectory, v.cr3, v.current} \subseteq D
      /\ D \subseteq Frame \cup {KernelDirectory} /\ D \subseteq Frames
  BY <1>1, Basics
<1>3. \A d \in D : v.heapEnd[d] \in Nat /\ v.heapEnd[d] \in HeapStart(d) .. HeapMax(d)
  BY <1>2, LayoutAssumption DEF Steady, Ends, HeapStart, HeapMax
<1> QED
  BY <1>1, <1>2, <1>3 DEF OK

LEMMA MappedSelf ==
    ASSUME NEW v, NEW D, \A d \in D : v.heapEnd[d] \in Nat
    PROVE  Mapped(v, v, D)
BY DEF Mapped, KeptPages

LEMMA MappedThenMapped ==
    ASSUME NEW u, NEW v, NEW w, NEW D, \A d \in D : v.heapEnd[d] \in Nat /\ u.heapEnd[d] \in Nat /\ w.heapEnd[d] \in Nat,
           Mapped(u, v, D), Mapped(w, u, D)
    PROVE  Mapped(w, v, D)
<1>1. SUFFICES ASSUME NEW d \in D \ {KernelDirectory} PROVE v.heapEnd[d] <= w.heapEnd[d] /\ KeptPages(w, v, d)
  BY DEF Mapped
<1>2. v.heapEnd[d] <= u.heapEnd[d] /\ u.heapEnd[d] <= w.heapEnd[d]
  BY DEF Mapped
<1>3. KeptPages(u, v, d) /\ KeptPages(w, u, d)
  BY DEF Mapped
<1>4. Own(v, d) \subseteq Own(u, d)
  <2>1. UserHeapEnd \in Nat
    BY LayoutAssumption
  <2>2. \A page \in Nat : page \in u.heapEnd[d] .. UserHeapEnd - 1 => page \in v.heapEnd[d] .. UserHeapEnd - 1
    BY <1>2, <2>1
  <2> QED
    BY <2>2 DEF Own
<1>5. KeptPages(w, v, d)
  BY <1>3, <1>4 DEF KeptPages
<1> QED
  BY <1>2, <1>5

LEMMA FineSelf ==
    ASSUME NEW v, NEW D, OK(v, D)
    PROVE  Fine(v, v, D) /\ Good(v, v, D)
BY SteadyParts, MappedSelf DEF OK, Fine, Good

LEMMA FineThenFine ==
    ASSUME NEW u, NEW v, NEW w, NEW D, OK(v, D), Fine(u, v, D), Fine(w, u, D)
    PROVE  Fine(w, v, D)
<1>1. CASE Stopped(w)
  BY <1>1 DEF Fine
<1>2. CASE ~ Stopped(w)
  <2>1. ~ Stopped(u) /\ ~ Stopped(v)
    BY <1>2 DEF Fine
  <2>2. Steady(w, D) /\ Steady(u, D) /\ Steady(v, D)
    BY <1>2, <2>1 DEF Fine, OK
  <2>3. \A d \in D : v.heapEnd[d] \in Nat /\ u.heapEnd[d] \in Nat /\ w.heapEnd[d] \in Nat
    BY <2>2, SteadyParts
  <2>4. TimerReceives \/ (Mapped(u, v, D) /\ Mapped(w, u, D))
    BY <1>2, <2>1 DEF Fine
  <2>5. TimerReceives \/ Mapped(w, v, D)
    BY <2>3, <2>4, MappedThenMapped
  <2> QED
    BY <2>1, <2>5 DEF Fine
<1> QED
  BY <1>1, <1>2

LEMMA GoodThenGood ==
    ASSUME NEW u, NEW v, NEW w, NEW D, OK(v, D), Good(u, v, D), Good(w, u, D)
    PROVE  Good(w, v, D)
<1>1. Fine(w, v, D)
  BY FineThenFine DEF Good
<1>2. ~ Stopped(w) => ~ Stopped(u) /\ w.current = v.current
  BY DEF Good, Fine
<1> QED
  BY <1>1, <1>2 DEF Good

LEMMA GoodIsOK ==
    ASSUME NEW u, NEW v, NEW D, Good(u, v, D)
    PROVE  OK(u, D) /\ Fine(u, v, D)
BY DEF Good, Fine

\* What is mapped is still filled.
LEMMA StillFilled ==
    ASSUME NEW v, NEW D, Steady(v, D), NEW u, NEW d \in D \ {KernelDirectory}, KeptPages(u, v, d), ~ TimerReceives,
           NEW page \in UserHeapStart .. v.heapEnd[d] - 1
    PROVE  At(u, d, page) # NotPresent
<1>1. v.heapEnd[d] \in UserHeapStart .. UserHeapEnd
  BY SteadyParts DEF HeapStart, HeapMax
<1>2. page \in UserHeapStart .. UserHeapEnd /\ page < v.heapEnd[d]
  BY <1>1, LayoutAssumption
<1>3. page \in Nat /\ Private(DirectoryIndex(page))
  BY <1>2, UserHeapPages
<1>4. page \in Own(v, d)
  BY <1>1, <1>2, <1>3, Layout DEF Own, Private
<1>5. At(v, d, page) # NotPresent
  BY DEF Steady, Filled
<1> QED
  BY <1>4, <1>5 DEF KeptPages

\* A step that keeps the structure and the pages and grows no process's heap.
LEMMA Carried ==
    ASSUME NEW v, NEW D, Steady(v, D), NEW u, Structure(u, D, {}, {}), Ends(u, D), Aligned(u),
           \A d \in D \ {KernelDirectory} : u.heapEnd[d] = v.heapEnd[d],
           TimerReceives \/ \A d \in D \ {KernelDirectory} : KeptPages(u, v, d)
    PROVE  Steady(u, D) /\ Fine(u, v, D)
<1>1. TimerReceives \/ Filled(u, D)
  BY StillFilled DEF Filled
<1>2. Steady(u, D)
  BY <1>1 DEF Steady
<1>3. TimerReceives \/ Mapped(u, v, D)
  <2>1. \A d \in D : v.heapEnd[d] \in Nat
    BY SteadyParts
  <2> QED
    BY <2>1 DEF Mapped
<1> QED
  BY <1>2, <1>3, SteadyParts DEF Fine

\* What the windows are used for leaves the pages alone.
LEMMA SameIsGood ==
    ASSUME NEW v, NEW D, Steady(v, D), NEW u, Structure(u, D, {}, {}), Kept(u, v), Same(u, v, D)
    PROVE  Good(u, v, D)
<1>1. Ends(u, D) /\ Aligned(u)
  BY DEF Steady, Ends, Aligned, Kept
<1>2. \A d \in D : KeptPages(u, v, d)
  <2>1. ASSUME NEW d \in D, NEW page \in Own(v, d) PROVE At(u, d, page) = At(v, d, page)
    <3>1. DirectoryIndex(page) \in Index \ {WindowIndex} /\ TableIndex(page) \in Index
      BY PageParts DEF Own
    <3> QED
      BY <3>1 DEF Same, At
  <2> QED
    BY <2>1 DEF KeptPages
<1>3. Fine(u, v, D)
  BY <1>1, <1>2, Carried DEF Kept
<1> QED
  BY <1>3 DEF Good, Kept

LEMMA SwitchStep ==
    ASSUME NEW v, NEW D, OK(v, D), NEW d \in D
    PROVE  /\ Fine(Switch(v, d), v, D) /\ Settled(Switch(v, d))
           /\ Stopped(Switch(v, d)) <=> Stopped(v)
           /\ ~ Stopped(v) => Switch(v, d).current = d /\ Switch(v, d).cr3 = d
<1> DEFINE u == Switch(v, d)
<1>1. CASE Stopped(v)
  BY <1>1, StoppedIsGood DEF Switch, OK, Good
<1>2. CASE ~ Stopped(v)
  <2>1. Steady(v, D)
    BY <1>2 DEF OK
  <2>2. u = [v EXCEPT !.cr3 = d, !.current = d]
    BY <1>2 DEF Switch
  <2>3. v \in Machines /\ v.mode = "sound" /\ D \subseteq Frame \cup {KernelDirectory} /\ KernelDirectory \in D
        /\ v.free \subseteq Frame
    <3>1. v \in Machines /\ v.mode = "sound" /\ D \subseteq Frame \cup {KernelDirectory} /\ {KernelDirectory} \subseteq D
      BY <2>1, SteadyParts
    <3>2. v.free \subseteq Frame
      BY <3>1 DEF Machines
    <3> QED
      BY <3>1, <3>2
  <2> HIDE DEF u
  <2>4. /\ u \in Machines /\ u.mode = "sound" /\ u.mem = v.mem /\ u.free = v.free /\ u.heapEnd = v.heapEnd
        /\ u.cr3 = d /\ u.current = d
    BY <2>2, <2>3 DEF Machines
  <2>5. Structure(u, D, {}, {})
    <3>1. /\ Structure(v, D, {}, {}) /\ D \in SUBSET D /\ {KernelDirectory, u.cr3, u.current} \subseteq D
          /\ {} \in SUBSET Frame /\ u.free \cap {} = {} /\ u.free \cup {} \subseteq v.free \cup {} /\ {} \subseteq {}
      BY <2>1, <2>3, <2>4, SteadyParts
    <3> QED
      BY <2>4, <3>1, Regroup
  <2>6. Ends(u, D) /\ Aligned(u)
    BY <2>1, <2>4 DEF Steady, Ends, Aligned
  <2>7. \A e \in D : KeptPages(u, v, e)
    BY <2>4 DEF KeptPages, At, Entry
  <2>8. Fine(u, v, D)
    <3>1. /\ \A e \in D \ {KernelDirectory} : u.heapEnd[e] = v.heapEnd[e]
          /\ TimerReceives \/ \A e \in D \ {KernelDirectory} : KeptPages(u, v, e)
      BY <2>4, <2>7
    <3> QED
      BY <2>1, <2>5, <2>6, <3>1, Carried
  <2> QED
    BY <1>2, <2>4, <2>8 DEF Settled, Stopped, u
<1> QED
  BY <1>1, <1>2

\* One entry is set: the pages of e are kept when it is none of its own, or
\* was not mapped.
LEMMA SetKeeps ==
    ASSUME NEW u, NEW v, NEW D, NEW d, NEW page \in Nat, NEW word,
           Set(u, v, D, d, DirectoryIndex(page), TableIndex(page), word), NEW e \in D,
           Covers(d, DirectoryIndex(page), e, DirectoryIndex(page)) /\ page \in Own(v, e) => At(v, e, page) = NotPresent
    PROVE  KeptPages(u, v, e)
<1>1. SUFFICES ASSUME NEW other \in Own(v, e), At(v, e, other) # NotPresent
               PROVE  At(u, e, other) = At(v, e, other)
  BY DEF KeptPages
<1>2. other \in Nat /\ DirectoryIndex(other) \in Index /\ TableIndex(other) \in Index
  BY PageParts DEF Own
<1>3. ~ (Covers(d, DirectoryIndex(page), e, DirectoryIndex(other)) /\ TableIndex(other) = TableIndex(page))
  <2>1. SUFFICES ASSUME Covers(d, DirectoryIndex(page), e, DirectoryIndex(other)), TableIndex(other) = TableIndex(page)
                 PROVE  FALSE
    OBVIOUS
  <2>2. DirectoryIndex(other) = DirectoryIndex(page)
    BY <2>1 DEF Covers
  <2>3. other = page
    BY <1>2, <2>1, <2>2, SamePage
  <2> QED
    BY <1>1, <2>1, <2>2, <2>3
<1> QED
  BY <1>2, <1>3 DEF Set, At

\* Where MapMemory may make a table in a directory that is not the kernel's.
LEMMA MayMapPrivate ==
    ASSUME NEW v, NEW D, NEW page \in Nat, Private(DirectoryIndex(page)), v.cr3 # KernelDirectory
    PROVE  MayMap(v, D, page) /\ DirectoryIndex(page) # KernelIndex
BY Layout DEF MayMap, Private

\* The kernel's part has its tables.
LEMMA SharedLinks0 ==
    ASSUME NEW v, NEW D, Structure(v, D, {}, {}), NEW d \in D
    PROVE  /\ \A i \in KernelHeapIndices : v.mem[d][i] # NotPresent
           /\ v.mem[d][KernelIndex] # NotPresent /\ \A j \in Index : Entry(v, d, KernelIndex, j) # NotPresent
           /\ D # {KernelDirectory} => v.mem[d][StackIndex] # NotPresent
           /\ \A i \in SharedIndices : v.mem[d][i] = v.mem[KernelDirectory][i]
<1>1. Common(v, D)
  BY DEF Structure
<1> QED
  BY <1>1, Layout, StaticTypes DEF Common, Entry

LEMMA MayMapShared ==
    ASSUME NEW v, NEW D, Structure(v, D, {}, {}), NEW page \in Nat,
           DirectoryIndex(page) \in SharedIndices \ {KernelIndex}
    PROVE  MayMap(v, D, page)
<1>1. v.cr3 \in D
  BY Basics
<1>2. D = {KernelDirectory} \/ v.mem[v.cr3][DirectoryIndex(page)] # NotPresent
  BY <1>1, Layout, SharedLinks0
<1> QED
  BY <1>2, Layout DEF MayMap, TableOf

\* A heap grows in the directory in use.
LEMMA GrowStep ==
    ASSUME NEW v, NEW D, Steady(v, D), NEW d \in D,
           d # KernelDirectory => v.current = d /\ (TimerReceives \/ v.cr3 = d)
    PROVE  Good(Grow(v, d), v, D) /\ (~ Stopped(Grow(v, d)) => Grow(v, d).cr3 = v.cr3)
<1> DEFINE page == v.heapEnd[d]
           i == DirectoryIndex(page)
           w == PlacePage(v, page)
           r == [w EXCEPT !.heapEnd[d] = @ + 1]
<1>0. /\ Structure(v, D, {}, {}) /\ ~ Stopped(v) /\ page \in HeapStart(d) .. HeapMax(d) /\ page \in Nat
      /\ D \subseteq Frame \cup {KernelDirectory} /\ {KernelDirectory, v.cr3, v.current} \subseteq D
      /\ \A e \in D : v.heapEnd[e] \in Nat /\ v.heapEnd[e] \in HeapStart(e) .. HeapMax(e)
  BY SteadyParts
<1>1. CASE page + 1 > HeapMax(d)
  <2>1. Grow(v, d) = Lost
    BY <1>0, <1>1 DEF Grow
  <2> QED
    BY <2>1, LostIsGood
<1>2. CASE page + 1 <= HeapMax(d)
  <2>0. ~ (page + 1 > HeapMax(d)) /\ HeapMax(d) \in Nat
    BY <1>0, <1>2, LayoutAssumption DEF HeapMax
  <2>1. MayMap(v, D, page) /\ i # KernelIndex
    <3>1. CASE d = KernelDirectory
      <4>1. page \in KernelHeapStart .. KernelHeapEnd
        BY <1>0, <3>1 DEF HeapStart, HeapMax
      <4>2. i \in SharedIndices \ {KernelIndex}
        BY <4>1, KernelHeapPages, Layout
      <4> QED
        BY <1>0, <4>2, MayMapShared
    <3>2. CASE d # KernelDirectory
      <4>1. page \in UserHeapStart .. UserHeapEnd
        BY <1>0, <3>2 DEF HeapStart, HeapMax
      <4>2. v.cr3 # KernelDirectory
        BY <3>2 DEF Steady, Aligned
      <4>3. Private(i)
        BY <4>1, UserHeapPages
      <4> QED
        BY <1>0, <4>2, <4>3, MayMapPrivate
    <3> QED
      BY <3>1, <3>2
  <2>2. Result(w, v, D, {}, {}, {}, page, NextFrame(v)) /\ (~ Stopped(w) => NextFrame(v) \in Frame)
    BY <1>0, <2>1, PlaceStep
  <2>3. CASE Stopped(w)
    <3>1. Grow(v, d) = w
      BY <1>0, <2>0, <2>3 DEF Grow
    <3> QED
      BY <2>2, <2>3, <3>1, StoppedIsGood DEF Result
  <2>4. CASE ~ Stopped(w)
    <3>1. Grow(v, d) = r
      BY <1>0, <2>0, <2>4 DEF Grow
    <3> HIDE DEF w, page
    <3>2. /\ w \in Machines /\ Structure(w, D, {}, {}) /\ Kept(w, v)
          /\ Set(w, v, D, v.cr3, i, TableIndex(page), NextFrame(v)) /\ NextFrame(v) \in Frame
      BY <2>2, <2>4 DEF Result, Changed
    <3>3. w.heapEnd = v.heapEnd /\ w.cr3 = v.cr3 /\ w.current = v.current /\ w.mode = "sound" /\ page = w.heapEnd[d]
      BY <3>2, Basics DEF Kept, page
    <3>4. /\ r \in Machines /\ r.mem = w.mem /\ r.free = w.free /\ r.cr3 = w.cr3 /\ r.current = w.current
          /\ r.mode = "sound" /\ r.heapEnd = [w.heapEnd EXCEPT ![d] = page + 1]
      BY <1>0, <3>2, <3>3 DEF Machines
    <3> HIDE DEF r
    <3>5. \A e \in D : r.heapEnd[e] = IF e = d THEN page + 1 ELSE v.heapEnd[e]
      BY <1>0, <3>2, <3>3, <3>4 DEF Machines
    <3>6. Structure(r, D, {}, {})
      <4>1. D \in SUBSET D /\ {} \in SUBSET Frame /\ r.free \cap {} = {} /\ r.free \cup {} \subseteq w.free \cup {}
            /\ {KernelDirectory, r.cr3, r.current} \subseteq D /\ {} \subseteq {}
        BY <1>0, <3>3, <3>4
      <4> QED
        BY <3>2, <3>4, <4>1, Regroup
    <3>7. Ends(r, D) /\ Aligned(r)
      <4>1. \A e \in D : r.heapEnd[e] \in HeapStart(e) .. HeapMax(e)
        <5>1. page + 1 \in HeapStart(d) .. HeapMax(d)
          BY <1>0, <1>2, <2>0, LayoutAssumption DEF HeapStart, page
        <5> QED
          BY <1>0, <3>5, <5>1
      <4> QED
        BY <3>3, <3>4, <4>1 DEF Ends, Aligned, Steady
    <3>8. TimerReceives \/ \A e \in D : KeptPages(w, v, e)
      <4>1. SUFFICES ASSUME ~ TimerReceives, NEW e \in D PROVE KeptPages(w, v, e)
        OBVIOUS
      <4>2. ~ (Covers(v.cr3, i, e, i) /\ page \in Own(v, e))
        <5>1. CASE d = KernelDirectory
          <6>1. page \in KernelHeapStart .. KernelHeapEnd
            BY <1>0, <5>1 DEF HeapStart, HeapMax, page
          <6> QED
            BY <6>1, KernelHeapPages DEF Own
        <5>2. CASE d # KernelDirectory
          <6>1. page \in UserHeapStart .. UserHeapEnd /\ page + 1 <= UserHeapEnd
            BY <1>0, <1>2, <5>2 DEF HeapStart, HeapMax, page
          <6>2. Private(i)
            BY <6>1, UserHeapPages
          <6>3. Covers(v.cr3, i, e, i) => e = d
            BY <4>1, <5>2, <6>2 DEF Covers, Private
          <6>4. page \in v.heapEnd[d] .. UserHeapEnd - 1
            <7>1. page \in Nat /\ UserHeapEnd \in Nat /\ page + 1 <= UserHeapEnd /\ page = v.heapEnd[d]
              BY <1>0, <6>1, LayoutAssumption DEF page
            <7> QED
              BY <7>1
          <6> QED
            BY <6>3, <6>4 DEF Own
        <5> QED
          BY <5>1, <5>2
      <4>3. page \in Nat
        BY <1>0 DEF page
      <4> QED
        BY <3>2, <4>2, <4>3, SetKeeps
    <3>9. TimerReceives \/ Filled(r, D)
      <4>1. SUFFICES ASSUME ~ TimerReceives, NEW e \in D \ {KernelDirectory}, NEW q \in UserHeapStart .. r.heapEnd[e] - 1
                     PROVE  At(r, e, q) # NotPresent
        BY DEF Filled
      <4>2. At(r, e, q) = At(w, e, q)
        BY <3>4 DEF At, Entry
      <4>3. CASE q \in UserHeapStart .. v.heapEnd[e] - 1
        BY <3>8, <4>1, <4>2, <4>3, StillFilled
      <4>4. CASE q \notin UserHeapStart .. v.heapEnd[e] - 1
        <5>1. e = d /\ q = page
          <6>1. e = d
            BY <3>5, <4>4
          <6>2. q \in UserHeapStart .. page /\ q \notin UserHeapStart .. page - 1 /\ page \in Nat
            <7>1. page \in Nat /\ page = v.heapEnd[d] /\ r.heapEnd[e] = page + 1 /\ UserHeapStart \in Nat
              BY <1>0, <3>5, <6>1, LayoutAssumption DEF page
            <7> QED
              BY <4>1, <4>4, <6>1, <7>1
          <6>3. q = page
            BY <6>2, LayoutAssumption
          <6> QED
            BY <6>1, <6>3
        <5>2. v.cr3 = d
          BY <4>1, <5>1
        <5>3. Private(i) /\ page \in Nat
          <6>1. page \in UserHeapStart .. UserHeapEnd
            BY <1>0, <5>1 DEF HeapStart, HeapMax, page
          <6> QED
            BY <6>1, UserHeapPages
        <5>4. i \in Index /\ TableIndex(page) \in Index
          BY <5>3, PageParts DEF Private
        <5>5. At(w, e, page) = NextFrame(v)
          BY <3>2, <5>1, <5>2, <5>4 DEF Set, Covers, At
        <5> QED
          BY <3>2, <4>2, <5>1, <5>5, StaticTypes
      <4> QED
        BY <4>3, <4>4
    <3>10. Steady(r, D)
      BY <3>6, <3>7, <3>9 DEF Steady
    <3>11. TimerReceives \/ Mapped(r, v, D)
      <4>1. SUFFICES ASSUME ~ TimerReceives, NEW e \in D PROVE v.heapEnd[e] <= r.heapEnd[e] /\ KeptPages(r, v, e)
        BY DEF Mapped
      <4>2. KeptPages(w, v, e)
        BY <3>8, <4>1
      <4>3. KeptPages(r, v, e)
        BY <3>4, <4>2 DEF KeptPages, At, Entry
      <4>4. v.heapEnd[e] <= r.heapEnd[e]
        BY <1>0, <3>5 DEF page
      <4> QED
        BY <4>3, <4>4
    <3>12. Good(r, v, D)
      BY <1>0, <3>3, <3>4, <3>10, <3>11, SteadyParts DEF Good, Fine
    <3> QED
      BY <3>1, <3>3, <3>4, <3>12
  <2> QED
    BY <2>3, <2>4
<1> QED
  <2>1. page \in Nat /\ HeapMax(d) \in Nat
    BY <1>0, LayoutAssumption DEF HeapMax
  <2> QED
    BY <1>1, <1>2, <2>1

\* A read or a write finds its page, or the machine is lost.
LEMMA TouchStep ==
    ASSUME NEW v, NEW D, OK(v, D), NEW page
    PROVE  Good(Touch(v, page), v, D) /\ (Settled(v) => Settled(Touch(v, page)))
BY FineSelf, LostIsGood DEF Touch

LEMMA AllocateStopped ==
    ASSUME NEW v, Stopped(v), NEW d, NEW grows
    PROVE  Allocate(v, d, grows) = v
<1> DEFINE w == IF grows \/ v.heapEnd[d] = HeapStart(d) THEN Grow(v, d) ELSE v
<1>1. Enter(v, d) = v
  BY DEF Enter, Switch
<1>2. w = v
  BY DEF Grow
<1>3. Allocate(v, d, grows) = Leave(v, d, w)
  BY <1>1 DEF Allocate
<1> HIDE DEF w
<1> QED
  BY <1>2, <1>3 DEF Leave, Switch

\* Allocate of a process's heap needs cr3 to be what Virtual::current says; it
\* leaves it so.
LEMMA AllocateStep ==
    ASSUME NEW v, NEW D, OK(v, D), NEW d \in D, d = KernelDirectory \/ Settled(v), NEW grows
    PROVE  Good(Allocate(v, d, grows), v, D) /\ Settled(Allocate(v, d, grows))
<1> DEFINE u == Enter(v, d)
           w == IF grows \/ v.heapEnd[d] = HeapStart(d) THEN Grow(u, d) ELSE u
           r == Allocate(v, d, grows)
<1>0. r = Leave(v, d, w)
  BY DEF Allocate
<1>1. CASE Stopped(v)
  <2>3. r = v
    BY <1>1, AllocateStopped
  <2>4. v \in Machines
    BY DEF OK
  <2> QED
    BY <1>1, <2>3, <2>4, StoppedIsGood
<1>2. CASE ~ Stopped(v) /\ v.current = d
  <2>1. u = v /\ Steady(v, D)
    BY <1>2 DEF Enter, OK
  <2>2. r = w
    BY <1>0, <1>2 DEF Leave
  <2>3. d # KernelDirectory => v.current = d /\ (TimerReceives \/ v.cr3 = d)
    BY <1>2 DEF Settled
  <2>4. Good(w, v, D) /\ (~ Stopped(w) => w.cr3 = v.cr3)
    <3>1. Good(v, v, D)
      BY FineSelf
    <3>2. Good(Grow(v, d), v, D) /\ (~ Stopped(Grow(v, d)) => Grow(v, d).cr3 = v.cr3)
      BY <2>1, <2>3, GrowStep
    <3> QED
      BY <2>1, <3>1, <3>2
  <2>5. Settled(w)
    BY <1>2, <2>3, <2>4 DEF Settled, Good
  <2> QED
    BY <2>2, <2>4, <2>5
<1>3. CASE ~ Stopped(v) /\ v.current # d
  <2>1. u = Switch(v, d) /\ r = Switch(w, v.current)
    BY <1>0, <1>3 DEF Enter, Leave
  <2>2. Fine(u, v, D) /\ ~ Stopped(u) /\ u.current = d /\ u.cr3 = d
    BY <1>3, <2>1, SwitchStep
  <2>3. OK(u, D) /\ Steady(u, D)
    BY <2>2 DEF Fine, OK
  <2>4. Good(w, u, D)
    <3>1. Good(Grow(u, d), u, D)
      BY <2>2, <2>3, GrowStep
    <3>2. Good(u, u, D)
      BY <2>3, FineSelf
    <3> QED
      BY <3>1, <3>2
  <2> HIDE DEF w, u, r
  <2>5. OK(w, D) /\ Fine(w, u, D)
    BY <2>4, GoodIsOK
  <2>6. v.current \in D
    <3>1. Steady(v, D)
      BY <1>3 DEF OK
    <3>2. {v.current} \subseteq D
      BY <3>1, SteadyParts
    <3> QED
      BY <3>2
  <2>7. /\ Fine(r, w, D) /\ Settled(r)
        /\ ~ Stopped(w) => r.current = v.current
        /\ Stopped(r) <=> Stopped(w)
    BY <2>1, <2>5, <2>6, SwitchStep
  <2>8. Fine(r, v, D)
    <3>1. Fine(w, v, D)
      BY <2>2, <2>5, FineThenFine
    <3> QED
      BY <2>7, <3>1, FineThenFine
  <2> QED
    BY <2>7, <2>8 DEF Good, r
<1> QED
  BY <1>1, <1>2, <1>3

\* operator new.
LEMMA KernelNewStep ==
    ASSUME NEW v, NEW D, OK(v, D), NEW grows
    PROVE  /\ Good(KernelNew(v, grows), v, D) /\ Settled(KernelNew(v, grows))
           /\ OK(KernelNew(v, grows), D)
<1>1. CASE Stopped(v)
  <2>1. KernelNew(v, grows) = v
    BY <1>1, AllocateStopped DEF KernelNew
  <2>2. v \in Machines
    BY DEF OK
  <2> QED
    BY <1>1, <2>1, <2>2, StoppedIsGood
<1>2. CASE ~ Stopped(v)
  <2>1. KernelDirectory \in D
    <3>1. Steady(v, D)
      BY <1>2 DEF OK
    <3>2. {KernelDirectory} \subseteq D
      BY <3>1, SteadyParts
    <3> QED
      BY <3>2
  <2>2. Good(KernelNew(v, grows), v, D) /\ Settled(KernelNew(v, grows))
    BY <2>1, AllocateStep DEF KernelNew
  <2> QED
    BY <2>2, GoodIsOK
<1> QED
  BY <1>1, <1>2

LEMMA StartThreadStep ==
    ASSUME NEW v, NEW D, OK(v, D), NEW d \in D, Settled(v), NEW grows, NEW block, NEW args
    PROVE  /\ Good(StartThread(v, d, grows, block, args), v, D) /\ Settled(StartThread(v, d, grows, block, args))
           /\ OK(StartThread(v, d, grows, block, args), D)
<1> DEFINE a == Allocate(v, d, grows)
           b == Touch(a, args)
           c == Touch(b, block)
           r == KernelNew(c, FALSE)
<1>1. Good(a, v, D)
  BY AllocateStep
<1> HIDE DEF a
<1>2. OK(a, D)
  BY <1>1, GoodIsOK
<1>3. Good(b, a, D)
  BY <1>2, TouchStep
<1> HIDE DEF b
<1>4. OK(b, D)
  BY <1>3, GoodIsOK
<1>5. Good(c, b, D)
  BY <1>4, TouchStep
<1> HIDE DEF c
<1>6. OK(c, D)
  BY <1>5, GoodIsOK
<1>7. Good(r, c, D) /\ Settled(r) /\ OK(r, D)
  BY <1>6, KernelNewStep
<1> HIDE DEF r
<1>8. Good(b, v, D)
  BY <1>1, <1>2, <1>3, GoodThenGood
<1>9. Good(c, v, D)
  BY <1>4, <1>5, <1>8, GoodThenGood
<1>10. Good(r, v, D)
  BY <1>6, <1>7, <1>9, GoodThenGood
<1> QED
  BY <1>7, <1>10 DEF StartThread, r, c, b, a

\* A page that was not mapped, or is no directory's own, gets a frame.
LEMMA PlacedIsGood ==
    ASSUME NEW v, NEW D, Steady(v, D), NEW page, MayMap(v, D, page), DirectoryIndex(page) # KernelIndex,
           At(v, v.cr3, page) = NotPresent \/ DirectoryIndex(page) \in KernelHeapIndices
    PROVE  /\ Good(PlacePage(v, page), v, D)
           /\ ~ Stopped(PlacePage(v, page)) => At(PlacePage(v, page), v.cr3, page) # NotPresent
<1> DEFINE r == PlacePage(v, page)
           i == DirectoryIndex(page)
           j == TableIndex(page)
<1>0. /\ Structure(v, D, {}, {}) /\ ~ Stopped(v) /\ {KernelDirectory, v.cr3, v.current} \subseteq D
      /\ page \in Nat /\ i \in Index /\ j \in Index
  BY SteadyParts, PageParts DEF MayMap
<1>1. Result(r, v, D, {}, {}, {}, page, NextFrame(v)) /\ (~ Stopped(r) => NextFrame(v) \in Frame)
  BY <1>0, PlaceStep
<1> HIDE DEF r
<1>2. CASE Stopped(r)
  BY <1>1, <1>2, StoppedIsGood DEF Result, r
<1>3. CASE ~ Stopped(r)
  <2>1. /\ Structure(r, D, {}, {}) /\ Kept(r, v) /\ NextFrame(v) \in Frame
        /\ Set(r, v, D, v.cr3, i, j, NextFrame(v))
    BY <1>1, <1>3 DEF Result, Changed
  <2>2. \A e \in D : KeptPages(r, v, e)
    <3>1. ASSUME NEW e \in D, Covers(v.cr3, i, e, i), page \in Own(v, e) PROVE At(v, e, page) = NotPresent
      <4>1. At(v, v.cr3, page) = NotPresent
        BY <3>1 DEF Own
      <4>2. v.mem[e][i] = v.mem[v.cr3][i]
        BY <1>0, <3>1, SharedLinks0 DEF Covers
      <4> QED
        BY <4>1, <4>2 DEF At, Entry
    <3> QED
      BY <1>0, <2>1, <3>1, SetKeeps
  <2>3. Ends(r, D) /\ Aligned(r) /\ r.heapEnd = v.heapEnd /\ r.current = v.current
    BY <2>1 DEF Steady, Ends, Aligned, Kept
  <2>4. Fine(r, v, D)
    BY <2>1, <2>2, <2>3, Carried
  <2>5. At(r, v.cr3, page) = NextFrame(v)
    <3>1. v.cr3 \in D
      BY <1>0
    <3> QED
      BY <1>0, <2>1, <3>1 DEF Set, Covers, At
  <2> QED
    BY <2>1, <2>3, <2>4, <2>5, StaticTypes DEF Good, r
<1> QED
  BY <1>2, <1>3

\* A frame is taken and forgotten.
LEMMA TakeIsGood ==
    ASSUME NEW v, NEW D, OK(v, D)
    PROVE  Good(Take(v), v, D)
<1> DEFINE u == Take(v)
<1>1. CASE Stopped(v)
  BY <1>1, FineSelf DEF Take
<1>2. CASE ~ Stopped(v)
  <2>1. Steady(v, D) /\ Structure(v, D, {}, {})
    BY <1>2, SteadyParts DEF OK
  <2>2. u \in Machines /\ (~ Stopped(u) => Taken(u, v, D, {}, {}, NextFrame(v)))
    BY <2>1, TakeStep
  <2> HIDE DEF u
  <2>3. CASE Stopped(u)
    BY <2>2, <2>3, StoppedIsGood DEF u
  <2>4. CASE ~ Stopped(u)
    <3>1. Structure(u, D, {}, {} \cup {NextFrame(v)}) /\ u.mem = v.mem /\ Kept(u, v) /\ u.mode = "sound"
      BY <2>2, <2>4 DEF Taken, Stopped
    <3>2. Structure(u, D, {}, {})
      <4>1. D \in SUBSET D /\ {} \in SUBSET Frame /\ u.free \cap {} = {}
            /\ u.free \cup {} \subseteq u.free \cup ({} \cup {NextFrame(v)})
            /\ {} \subseteq {} /\ u.mem = u.mem /\ u.cr3 = u.cr3
        OBVIOUS
      <4>2. {KernelDirectory, u.cr3, u.current} \subseteq D
        BY <3>1, Basics
      <4> QED
        BY <2>2, <3>1, <4>1, <4>2, Regroup
    <3>3. Same(u, v, D)
      BY <3>1 DEF Same, Entry
    <3> QED
      BY <2>1, <3>1, <3>2, <3>3, SameIsGood DEF u
  <2> QED
    BY <2>3, <2>4
<1> QED
  BY <1>1, <1>2
----------------------------------------------------------------------------
(* Releases. *)

\* Pages were released, none of the directories in S.
Freed(u, v, D, S) ==
    /\ u \in Machines
    /\ ~ Stopped(u) =>
         /\ ~ Stopped(v) /\ Structure(u, D, {}, {}) /\ Kept(u, v)
         /\ \A e \in S : KeptPages(u, v, e)

\* The pages that may be released then.
MayRelease(v, S) ==
    {page \in Nat : /\ DirectoryIndex(page) \in Index \ {KernelIndex}
                    /\ \/ DirectoryIndex(page) \in KernelHeapIndices
                       \/ DirectoryIndex(page) \notin SharedIndices /\ v.cr3 \notin S}

LEMMA ReleaseFreed ==
    ASSUME NEW v, NEW D, NEW S \in SUBSET D, NEW u, Freed(u, v, D, S),
           NEW page \in MayRelease(v, S)
    PROVE  Freed(Release(u, page), v, D, S)
<1> DEFINE r == Release(u, page)
<1>0. page \in Nat /\ DirectoryIndex(page) \in Index /\ DirectoryIndex(page) # KernelIndex
  BY DEF MayRelease
<1>1. CASE Stopped(u)
  BY <1>1 DEF Release, Freed
<1>2. CASE ~ Stopped(u)
  <2>1. ~ Stopped(v) /\ Structure(u, D, {}, {}) /\ Kept(u, v) /\ \A e \in S : KeptPages(u, v, e)
    BY <1>2 DEF Freed
  <2>2. Result(r, u, D, {}, {}, {}, page, NotPresent)
    BY <1>0, <2>1, ReleaseStep
  <2> HIDE DEF r
  <2>3. ASSUME ~ Stopped(r) PROVE Structure(r, D, {}, {}) /\ Kept(r, v) /\ \A e \in S : KeptPages(r, v, e)
    <3>1. /\ Structure(r, D, {}, {}) /\ Kept(r, u)
          /\ Set(r, u, D, u.cr3, DirectoryIndex(page), TableIndex(page), NotPresent)
      BY <2>2, <2>3 DEF Result, Changed
    <3>2. Kept(r, v) /\ u.cr3 = v.cr3 /\ u.heapEnd = v.heapEnd
      BY <2>1, <3>1 DEF Kept
    <3>3. ASSUME NEW e \in S PROVE KeptPages(r, v, e)
      <4>1. ~ (Covers(u.cr3, DirectoryIndex(page), e, DirectoryIndex(page)) /\ page \in Own(u, e))
        BY <3>2 DEF MayRelease, Own, Covers
      <4>2. KeptPages(r, u, e)
        BY <1>0, <3>1, <4>1, SetKeeps
      <4>3. KeptPages(u, v, e) /\ Own(u, e) = Own(v, e)
        BY <2>1, <3>2 DEF Own
      <4> QED
        BY <4>2, <4>3 DEF KeptPages
    <3> QED
      BY <3>1, <3>2, <3>3
  <2> QED
    BY <2>1, <2>2, <2>3 DEF Result, Freed, r
<1> QED
  BY <1>1, <1>2

LEMMA ReleasePagesStep ==
    ASSUME NEW v \in Machines, NEW D, Stopped(v) \/ Structure(v, D, {}, {}), NEW S \in SUBSET D,
           NEW pages, Len(pages) \in Nat, \A k \in 1 .. Len(pages) : pages[k] \in MayRelease(v, S)
    PROVE  Freed(ReleasePages(v, pages), v, D, S)
<1> DEFINE n == Len(pages)
           Y == {u \in Machines : Freed(u, v, D, S)}
           op == [a \in (1 .. n) \X Y |-> Release(a[2], pages[a[1]])]
           Unfolded(f) == f = [k \in 0 .. n |-> IF k = 0 THEN v ELSE Release(f[k - 1], pages[k])]
<1>1. v \in Y
  BY DEF Freed, Kept, KeptPages
<1>2. ASSUME NEW i \in 1 .. n, NEW x \in Y PROVE Release(x, pages[i]) \in Y
  <2>1. Freed(x, v, D, S) /\ pages[i] \in MayRelease(v, S)
    OBVIOUS
  <2>2. Freed(Release(x, pages[i]), v, D, S)
    BY <2>1, ReleaseFreed
  <2> QED
    BY <2>2 DEF Freed
<1> HIDE DEF n, Y
<1>3. n \in Nat
  BY DEF n
<1>4. PICK f \in [0 .. n -> Y] : Recursive(f, n, v, op)
  <2>1. op \in [(1 .. n) \X Y -> Y]
    BY <1>2
  <2> HIDE DEF op
  <2> QED
    BY <1>1, <1>3, <2>1, RecursionExists
<1>5. Unfolded(f)
  <2>1. \A i \in 0 .. n : i # 0 => i \in 1 .. n /\ f[i - 1] \in Y
    BY <1>3, <1>4
  <2>2. \A i \in 0 .. n : i # 0 => op[<<i, f[i - 1]>>] = Release(f[i - 1], pages[i])
    BY <2>1
  <2> HIDE DEF op
  <2>3. f = [i \in 0 .. n |-> IF i = 0 THEN v ELSE op[<<i, f[i - 1]>>]]
    BY <1>4 DEF Recursive
  <2> QED
    BY <2>2, <2>3
<1> DEFINE chosen == CHOOSE g : Unfolded(g)
<1>6. Unfolded(chosen)
  <2> HIDE DEF Unfolded
  <2> QED
    BY <1>5, Zenon
<1> HIDE DEF chosen
<1>7. chosen[n] \in Y
  <2>1. \A i \in 0 .. n : chosen[i] = IF i = 0 THEN v ELSE Release(chosen[i - 1], pages[i])
    BY <1>6
  <2>2. chosen[0] \in Y
    BY <1>1, <1>3, <2>1
  <2>3. ASSUME NEW i \in 1 .. n, chosen[i - 1] \in Y PROVE chosen[i] \in Y
    <3>1. i \in 0 .. n /\ i # 0
      BY <1>3
    <3>2. chosen[i] = Release(chosen[i - 1], pages[i])
      BY <2>1, <3>1
    <3> QED
      BY <1>2, <2>3, <3>2
  <2> QED
    BY <1>3, <2>2, <2>3, LoopStays
<1>8. ReleasePages(v, pages) = chosen[n]
  BY Zenon DEF ReleasePages, chosen, n
<1> QED
  BY <1>7, <1>8 DEF Y

\* A heap shrinks.
Shrunk(r, v, D, d, page) ==
    /\ Structure(r, D, {}, {}) /\ r.mem = v.mem /\ r.cr3 = v.cr3 /\ r.current = v.current
    /\ \A e \in D : r.heapEnd[e] = IF e = d THEN page ELSE v.heapEnd[e]

LEMMA WithHeapEndStep ==
    ASSUME NEW v, NEW D, Structure(v, D, {}, {}), NEW d \in D, NEW page \in Nat
    PROVE  Shrunk(WithHeapEnd(v, d, page), v, D, d, page)
<1> DEFINE r == WithHeapEnd(v, d, page)
<1>1. /\ v \in Machines /\ ~ Stopped(v) /\ v.mode = "sound" /\ D \subseteq Frame \cup {KernelDirectory}
      /\ {KernelDirectory, v.cr3, v.current} \subseteq D
  BY Basics
<1>2. r = [v EXCEPT !.heapEnd[d] = page]
  BY <1>1 DEF WithHeapEnd
<1>3. /\ r \in Machines /\ r.mem = v.mem /\ r.free = v.free /\ r.cr3 = v.cr3 /\ r.current = v.current
      /\ r.mode = "sound" /\ \A e \in D : r.heapEnd[e] = IF e = d THEN page ELSE v.heapEnd[e]
  BY <1>1, <1>2 DEF Machines
<1> HIDE DEF r
<1>4. Structure(r, D, {}, {})
  <2>1. D \in SUBSET D /\ {} \in SUBSET Frame /\ r.free \cap {} = {} /\ r.free \cup {} \subseteq v.free \cup {}
        /\ {KernelDirectory, r.cr3, r.current} \subseteq D /\ {} \subseteq {}
    BY <1>1, <1>3
  <2> QED
    BY <1>3, <2>1, Regroup
<1> QED
  BY <1>3, <1>4 DEF r, Shrunk

\* The release of a major of the kernel heap.
LEMMA FreeMajorStep ==
    ASSUME NEW v, NEW D, OK(v, D), NEW m \in Major
    PROVE  Good(FreeMajor(v, m), v, D)
<1> DEFINE a == Touch(v, m.first)
           pages == [k \in 1 .. m.last - m.first |-> m.last - k + 1]
           u == ReleasePages(a, pages)
           r == WithHeapEnd(u, KernelDirectory, m.first)
<1>0. /\ m.first \in KernelHeapStart .. KernelHeapEnd /\ m.last \in KernelHeapStart .. KernelHeapEnd /\ m.first < m.last
      /\ KernelHeapStart \in Nat /\ KernelHeapEnd \in Nat /\ m.first \in Nat /\ m.last \in Nat
  BY LayoutAssumption DEF Major
<1>1. Good(a, v, D) /\ OK(a, D)
  BY TouchStep, GoodIsOK
<1> HIDE DEF a
<1>2. Len(pages) \in Nat /\ \A k \in 1 .. Len(pages) : pages[k] \in KernelHeapStart .. KernelHeapEnd
  BY <1>0
<1> HIDE DEF pages
<1>3. FreeMajor(v, m) = IF m.last = v.heapEnd[KernelDirectory] THEN r ELSE u
  BY DEF FreeMajor, a, pages
<1>4. Freed(u, a, D, D)
  <2>1. a \in Machines /\ (Stopped(a) \/ Structure(a, D, {}, {}))
    BY <1>1, SteadyParts DEF OK
  <2>2. \A k \in 1 .. Len(pages) : pages[k] \in MayRelease(a, D)
    BY <1>2, KernelHeapPages, Layout DEF MayRelease
  <2>3. D \in SUBSET D
    OBVIOUS
  <2> QED
    BY <1>2, <2>1, <2>2, <2>3, ReleasePagesStep
<1> HIDE DEF u
<1>5. CASE Stopped(u)
  <2>1. FreeMajor(v, m) = u
    BY <1>3, <1>5 DEF WithHeapEnd
  <2> QED
    BY <1>4, <1>5, <2>1, StoppedIsGood DEF Freed
<1>6. CASE ~ Stopped(u)
  <2>0. Steady(a, D) /\ Structure(a, D, {}, {}) /\ {KernelDirectory} \subseteq D
    BY <1>1, <1>4, <1>6, SteadyParts DEF OK, Freed
  <2>1. Structure(u, D, {}, {}) /\ Kept(u, a) /\ \A e \in D : KeptPages(u, a, e)
    BY <1>4, <1>6 DEF Freed
  <2>2. Ends(u, D) /\ Aligned(u) /\ u.heapEnd = a.heapEnd
    BY <2>0, <2>1 DEF Steady, Ends, Aligned, Kept
  <2>3. Steady(u, D) /\ Good(u, a, D)
    BY <2>0, <2>1, <2>2, Carried DEF Good, Kept
  <2>4. Good(r, u, D)
    <3>1. KernelDirectory \in D
      BY <2>0
    <3>0. Shrunk(r, u, D, KernelDirectory, m.first)
      BY <1>0, <2>1, <3>1, WithHeapEndStep
    <3> HIDE DEF r
    <3>2. /\ Structure(r, D, {}, {}) /\ r.mem = u.mem /\ r.cr3 = u.cr3 /\ r.current = u.current
          /\ \A e \in D : r.heapEnd[e] = IF e = KernelDirectory THEN m.first ELSE u.heapEnd[e]
      BY <3>0 DEF Shrunk
    <3>3. Ends(r, D) /\ Aligned(r)
      BY <1>0, <2>2, <3>2 DEF Ends, Aligned, HeapStart, HeapMax
    <3>4. \A e \in D : KeptPages(r, u, e)
      BY <3>2 DEF KeptPages, At, Entry
    <3>5. \A e \in D \ {KernelDirectory} : r.heapEnd[e] = u.heapEnd[e]
      BY <3>2
    <3>6. Fine(r, u, D)
      BY <2>3, <3>2, <3>3, <3>4, <3>5, Carried
    <3> QED
      BY <3>2, <3>6 DEF Good
  <2>5. Good(r, a, D)
    BY <1>1, <2>3, <2>4, GoodThenGood
  <2> QED
    BY <1>1, <1>3, <2>3, <2>5, GoodThenGood
<1> QED
  BY <1>5, <1>6

\* What a method of the kernel heap's does between its two switches.
LEMMA InsideKernelHeap ==
    ASSUME NEW v, NEW D, OK(v, D), NEW w, Good(w, Enter(v, KernelDirectory), D)
    PROVE  Good(Leave(v, KernelDirectory, w), v, D)
<1> DEFINE d == KernelDirectory
           u == Enter(v, d)
           r == Leave(v, d, w)
<1>1. CASE v.current = d
  <2>1. u = v /\ r = w
    BY <1>1 DEF Enter, Leave
  <2> QED
    BY <2>1
<1>2. CASE v.current # d
  <2>1. u = Switch(v, d) /\ r = Switch(w, v.current)
    BY <1>2 DEF Enter, Leave
  <2>2. OK(w, D) /\ Fine(w, u, D)
    BY GoodIsOK
  <2>3. CASE Stopped(w)
    <3>1. r = w /\ w \in Machines
      BY <2>1, <2>2, <2>3 DEF Switch, OK
    <3> QED
      BY <2>3, <3>1, StoppedIsGood
  <2>4. CASE ~ Stopped(w)
    <3>1. ~ Stopped(u)
      BY <2>2, <2>4 DEF Fine
    <3>2. ~ Stopped(v)
      BY <2>1, <3>1 DEF Switch
    <3>3. Steady(v, D)
      BY <3>2 DEF OK
    <3>4. {KernelDirectory, v.cr3, v.current} \subseteq D
      BY <3>3, SteadyParts
    <3>5. Fine(u, v, D)
      BY <2>1, <3>4, SwitchStep
    <3> HIDE DEF u, r
    <3>6. Fine(r, w, D) /\ r.current = v.current
      BY <2>1, <2>2, <2>4, <3>4, SwitchStep
    <3>7. Fine(w, v, D)
      BY <2>2, <3>5, FineThenFine
    <3>8. Fine(r, v, D)
      BY <3>6, <3>7, FineThenFine
    <3> QED
      BY <3>6, <3>8 DEF Good, r
  <2> QED
    BY <2>3, <2>4
<1> QED
  BY <1>1, <1>2

LEMMA EnterKernelHeap ==
    ASSUME NEW v, NEW D, OK(v, D)
    PROVE  OK(Enter(v, KernelDirectory), D)
<1>1. CASE Stopped(v)
  BY <1>1 DEF Enter, Switch
<1>2. CASE ~ Stopped(v)
  <2>1. Steady(v, D)
    BY <1>2 DEF OK
  <2>2. {KernelDirectory, v.cr3, v.current} \subseteq D
    BY <2>1, SteadyParts
  <2>3. OK(Switch(v, KernelDirectory), D)
    BY <2>2, SwitchStep DEF Fine
  <2> QED
    BY <2>3 DEF Enter
<1> QED
  BY <1>1, <1>2

\* operator delete.
LEMMA KernelDeleteStep ==
    ASSUME NEW v, NEW D, OK(v, D), NEW m \in Major
    PROVE  Good(KernelDelete(v, m), v, D)
<1> DEFINE u == Enter(v, KernelDirectory)
           w == FreeMajor(u, m)
<1>1. OK(u, D)
  BY EnterKernelHeap
<1>2. Good(w, u, D)
  BY <1>1, FreeMajorStep
<1>3. Good(Leave(v, KernelDirectory, w), v, D)
  BY <1>2, InsideKernelHeap
<1>4. KernelDelete(v, m) = IF m.last > v.heapEnd[KernelDirectory] THEN v ELSE Leave(v, KernelDirectory, w)
  BY DEF KernelDelete
<1> HIDE DEF w, u
<1> QED
  BY <1>3, <1>4, FineSelf

\* The deletes of a call.
LEMMA KernelDeletesStep ==
    ASSUME NEW v, NEW D, OK(v, D), NEW n \in Nat, NEW majors \in [1 .. n -> Major]
    PROVE  Good(KernelDeletes(v, majors), v, D) /\ OK(KernelDeletes(v, majors), D)
<1> DEFINE Y == {u \in Machines : Good(u, v, D)}
           op == [a \in (1 .. n) \X Y |-> KernelDelete(a[2], majors[a[1]])]
           Unfolded(f) == f = [k \in 0 .. n |-> IF k = 0 THEN v ELSE KernelDelete(f[k - 1], majors[k])]
<1>1. v \in Y
  BY FineSelf DEF OK
<1>2. ASSUME NEW i \in 1 .. n, NEW x \in Y PROVE KernelDelete(x, majors[i]) \in Y
  <2>1. Good(x, v, D) /\ OK(x, D) /\ majors[i] \in Major
    BY GoodIsOK
  <2>2. Good(KernelDelete(x, majors[i]), x, D)
    BY <2>1, KernelDeleteStep
  <2>3. Good(KernelDelete(x, majors[i]), v, D)
    BY <2>1, <2>2, GoodThenGood
  <2> QED
    BY <2>3, GoodIsOK DEF OK
<1> HIDE DEF Y
<1>4. PICK f \in [0 .. n -> Y] : Recursive(f, n, v, op)
  <2>1. op \in [(1 .. n) \X Y -> Y]
    BY <1>2
  <2> HIDE DEF op
  <2> QED
    BY <1>1, <2>1, RecursionExists
<1>5. Unfolded(f)
  <2>1. \A i \in 0 .. n : i # 0 => i \in 1 .. n /\ f[i - 1] \in Y
    BY <1>4
  <2>2. \A i \in 0 .. n : i # 0 => op[<<i, f[i - 1]>>] = KernelDelete(f[i - 1], majors[i])
    BY <2>1
  <2> HIDE DEF op
  <2>3. f = [i \in 0 .. n |-> IF i = 0 THEN v ELSE op[<<i, f[i - 1]>>]]
    BY <1>4 DEF Recursive
  <2> QED
    BY <2>2, <2>3
<1> DEFINE chosen == CHOOSE g : Unfolded(g)
<1>6. Unfolded(chosen)
  <2> HIDE DEF Unfolded
  <2> QED
    BY <1>5, Zenon
<1>8. KernelDeletes(v, majors) = chosen[n]
  <2>1. Len(majors) = n
    BY LenProperties
  <2>2. KernelDeletes(v, majors) =
          (CHOOSE g : g = [k \in 0 .. Len(majors) |-> IF k = 0 THEN v ELSE KernelDelete(g[k - 1], majors[k])])[Len(majors)]
    BY Zenon DEF KernelDeletes
  <2> QED
    BY <2>1, <2>2, Zenon
<1> HIDE DEF chosen
<1>7. chosen[n] \in Y
  <2>1. \A i \in 0 .. n : chosen[i] = IF i = 0 THEN v ELSE KernelDelete(chosen[i - 1], majors[i])
    BY <1>6
  <2>2. chosen[0] \in Y
    BY <1>1, <2>1
  <2>3. ASSUME NEW i \in 1 .. n, chosen[i - 1] \in Y PROVE chosen[i] \in Y
    <3>1. i \in 0 .. n /\ i # 0
      OBVIOUS
    <3>2. chosen[i] = KernelDelete(chosen[i - 1], majors[i])
      BY <2>1, <3>1
    <3> QED
      BY <1>2, <2>3, <3>2
  <2> QED
    BY <2>2, <2>3, LoopStays
<1> QED
  BY <1>7, <1>8, GoodIsOK DEF Y

\* Scheduler::Sleep and Wake.
LEMMA StatusChangeStep ==
    ASSUME NEW v, NEW D, OK(v, D), NEW n \in Nat, NEW majors \in [1 .. n -> Major], NEW grows
    PROVE  Good(StatusChange(v, grows, majors), v, D) /\ OK(StatusChange(v, grows, majors), D)
<1> DEFINE a == KernelNew(v, grows)
           b == KernelNew(a, FALSE)
           r == KernelDeletes(b, majors)
<1>1. Good(a, v, D) /\ OK(a, D)
  BY KernelNewStep
<1> HIDE DEF a
<1>2. Good(b, a, D) /\ OK(b, D)
  BY <1>1, KernelNewStep
<1> HIDE DEF b
<1>3. Good(r, b, D) /\ OK(r, D)
  BY <1>2, KernelDeletesStep
<1> HIDE DEF r
<1>4. Good(b, v, D)
  BY <1>1, <1>2, GoodThenGood
<1>5. Good(r, v, D)
  BY <1>2, <1>3, <1>4, GoodThenGood
<1> QED
  BY <1>3, <1>5 DEF StatusChange, r, b, a

\* u comes of v, and the pages of the directories in E are kept.
Partly(u, v, D, E) == OK(u, D) /\ (~ Stopped(u) => ~ Stopped(v) /\ (TimerReceives \/ Mapped(u, v, E)))

LEMMA PartlyThenFine ==
    ASSUME NEW v \in Machines, NEW D, NEW E \in SUBSET D, NEW u, Partly(u, v, D, E), NEW w, Fine(w, u, D)
    PROVE  Partly(w, v, D, E)
<1>1. CASE Stopped(w)
  BY <1>1 DEF Partly, Fine
<1>2. CASE ~ Stopped(w)
  <2>1. ~ Stopped(u) /\ ~ Stopped(v) /\ Steady(u, D) /\ Steady(w, D)
    BY <1>2 DEF Fine, Partly, OK
  <2>2. \A d \in E : v.heapEnd[d] \in Nat /\ u.heapEnd[d] \in Nat /\ w.heapEnd[d] \in Nat
    <3>1. D \subseteq Frame \cup {KernelDirectory} /\ \A d \in D : u.heapEnd[d] \in Nat /\ w.heapEnd[d] \in Nat
      BY <2>1, SteadyParts
    <3> QED
      BY <3>1 DEF Machines
  <2>3. TimerReceives \/ (Mapped(u, v, E) /\ Mapped(w, u, E))
    BY <1>2, <2>1 DEF Fine, Partly, Mapped
  <2>4. TimerReceives \/ Mapped(w, v, E)
    BY <2>2, <2>3, MappedThenMapped
  <2> QED
    BY <2>1, <2>4 DEF Fine, Partly
<1> QED
  BY <1>1, <1>2

\* ~Heap takes the pages of one heap away, and no other directory's.
LEMMA DestroyHeapStep ==
    ASSUME NEW v, NEW D, Steady(v, D), NEW d \in D \ {KernelDirectory}
    PROVE  /\ Partly(DestroyHeap(v, d), v, D, D \ {d})
           /\ ~ Stopped(DestroyHeap(v, d)) => DestroyHeap(v, d).current = v.current
<1> DEFINE a == Switch(v, d)
           pages == PagesOfHeap(v, d)
           b == ReleasePages(a, pages)
           c == WithHeapEnd(b, d, UserHeapStart)
           r == DestroyHeap(v, d)
           E == D \ {d}
<1>0. /\ OK(v, D) /\ ~ Stopped(v) /\ {KernelDirectory, v.cr3, v.current} \subseteq D
      /\ v.heapEnd[d] \in UserHeapStart .. UserHeapEnd /\ UserHeapStart \in Nat /\ UserHeapEnd \in Nat /\ d \in D
      /\ UserHeapStart <= UserHeapEnd /\ E \in SUBSET D
  BY SteadyParts, LayoutAssumption DEF HeapStart, HeapMax
<1>1. Fine(a, v, D) /\ ~ Stopped(a) /\ a.cr3 = d /\ a.current = d
  BY <1>0, SwitchStep
<1>2. r = Switch(c, v.current)
  BY DEF DestroyHeap
<1>3. Steady(a, D) /\ Structure(a, D, {}, {}) /\ a \in Machines
  BY <1>1, SteadyParts DEF Fine, OK
<1>4. a.mem = v.mem /\ a.heapEnd = v.heapEnd
  <2>1. v \in Machines
    BY <1>0 DEF OK
  <2> QED
    BY <1>0, <2>1 DEF Switch, Machines
<1> HIDE DEF a
<1>5. Len(pages) \in Nat /\ \A k \in 1 .. Len(pages) : pages[k] \in MayRelease(a, E)
  <2>1. Len(pages) \in Nat /\ \A k \in 1 .. Len(pages) : pages[k] \in UserHeapStart .. UserHeapEnd
    BY <1>0 DEF PagesOfHeap
  <2> HIDE DEF pages
  <2> QED
    BY <1>1, <2>1, UserHeapPages, Layout DEF MayRelease, Private
<1>6. Freed(b, a, D, E)
  <2> HIDE DEF pages, E
  <2> QED
    BY <1>0, <1>3, <1>5, ReleasePagesStep
<1> HIDE DEF b
<1>7. CASE Stopped(b)
  <2>1. r = b
    BY <1>2, <1>7 DEF WithHeapEnd, Switch
  <2> QED
    BY <1>6, <1>7, <2>1, StoppedIsGood DEF Freed, Partly
<1>8. CASE ~ Stopped(b)
  <2>1. Structure(b, D, {}, {}) /\ Kept(b, a) /\ \A e \in E : KeptPages(b, a, e)
    BY <1>6, <1>8 DEF Freed
  <2>2. Shrunk(c, b, D, d, UserHeapStart)
    BY <1>0, <2>1, WithHeapEndStep
  <2> HIDE DEF c
  <2>3. /\ Structure(c, D, {}, {}) /\ c.mem = b.mem /\ c.cr3 = d /\ c.current = d
        /\ \A e \in D : c.heapEnd[e] = IF e = d THEN UserHeapStart ELSE v.heapEnd[e]
    BY <1>1, <1>4, <2>1, <2>2 DEF Shrunk, Kept
  <2>4. Ends(c, D) /\ Aligned(c)
    <3>1. \A e \in D : c.heapEnd[e] \in HeapStart(e) .. HeapMax(e)
      <4>1. UserHeapStart \in HeapStart(d) .. HeapMax(d)
        BY <1>0 DEF HeapStart, HeapMax
      <4>2. \A e \in D : v.heapEnd[e] \in HeapStart(e) .. HeapMax(e)
        BY SteadyParts
      <4> QED
        BY <2>3, <4>1, <4>2
    <3> QED
      BY <2>3, <3>1 DEF Ends, Aligned
  <2>5. TimerReceives \/ Filled(c, D)
    <3>1. SUFFICES ASSUME ~ TimerReceives, NEW e \in D \ {KernelDirectory}, NEW page \in UserHeapStart .. c.heapEnd[e] - 1
                   PROVE  At(c, e, page) # NotPresent
      BY DEF Filled
    <3>2. e # d /\ c.heapEnd[e] = a.heapEnd[e]
      BY <1>0, <1>4, <2>3, <3>1
    <3>3. KeptPages(b, a, e)
      BY <2>1, <3>2
    <3>4. At(b, e, page) # NotPresent
      BY <1>3, <3>1, <3>2, <3>3, StillFilled
    <3> QED
      BY <2>3, <3>4 DEF At, Entry
  <2>6. Steady(c, D) /\ OK(c, D) /\ ~ Stopped(c)
    <3>1. Steady(c, D)
      BY <2>3, <2>4, <2>5 DEF Steady
    <3> QED
      BY <3>1, SteadyParts
  <2>7. Mapped(c, v, E)
    <3>1. ASSUME NEW e \in E PROVE v.heapEnd[e] <= c.heapEnd[e] /\ KeptPages(c, v, e)
      <4>1. KeptPages(b, a, e) /\ c.heapEnd[e] = v.heapEnd[e] /\ v.heapEnd[e] \in Nat
        BY <2>1, <2>3, SteadyParts
      <4>2. Own(a, e) = Own(v, e)
        BY <1>4 DEF Own
      <4>3. KeptPages(c, v, e)
        BY <1>4, <2>3, <4>1, <4>2 DEF KeptPages, At, Entry
      <4> QED
        BY <4>1, <4>3
    <3> QED
      BY <3>1 DEF Mapped
  <2>8. Partly(c, v, D, E)
    BY <1>0, <2>6, <2>7 DEF Partly
  <2>9. Fine(r, c, D) /\ r.current = v.current
    BY <1>0, <1>2, <2>6, SwitchStep
  <2>10. v \in Machines
    BY <1>0 DEF OK
  <2> HIDE DEF r, E
  <2>11. Partly(r, v, D, E)
    BY <1>0, <2>8, <2>9, <2>10, PartlyThenFine
  <2> QED
    BY <2>9, <2>11 DEF r, E
<1> QED
  BY <1>7, <1>8
----------------------------------------------------------------------------
(* Windows. *)

LEMMA WindowSame ==
    ASSUME NEW u, NEW v, NEW D, NEW d, NEW j, NEW word, Set(u, v, D, d, WindowIndex, j, word)
    PROVE  Same(u, v, D)
BY DEF Set, Same, Covers

\* u comes of v, with some windows open.
Windowed(u, v, D, K) ==
    /\ u \in Machines
    /\ ~ Stopped(u) => ~ Stopped(v) /\ Structure(u, D, K, {}) /\ Kept(u, v) /\ Same(u, v, D)

LEMMA WindowedOpen ==
    ASSUME NEW u, NEW v, NEW D, NEW K, Windowed(u, v, D, K), NEW page \in Windows, NEW word \in Word
    PROVE  Windowed(MapMemory(u, word, page), v, D, K \cup {TableIndex(page)})
<1> DEFINE r == MapMemory(u, word, page)
           L == K \cup {TableIndex(page)}
<1>1. CASE Stopped(u)
  BY <1>1 DEF MapMemory, Windowed
<1>2. CASE ~ Stopped(u)
  <2>1. ~ Stopped(v) /\ Structure(u, D, K, {}) /\ Kept(u, v) /\ Same(u, v, D)
    BY <1>2 DEF Windowed
  <2>2. Result(r, u, D, L, {}, {}, page, word)
    BY <2>1, OpenWindow
  <2>3. DirectoryIndex(page) = WindowIndex
    BY WindowPages
  <2> HIDE DEF r, L
  <2>4. ASSUME ~ Stopped(r) PROVE Structure(r, D, L, {}) /\ Kept(r, v) /\ Same(r, v, D)
    <3>1. Structure(r, D, L, {}) /\ Kept(r, u) /\ Set(r, u, D, u.cr3, WindowIndex, TableIndex(page), word)
      BY <2>2, <2>3, <2>4 DEF Result, Changed
    <3>2. Same(r, u, D)
      BY <3>1, WindowSame
    <3>3. Same(r, v, D)
      BY <2>1, <3>2, SameThenSame
    <3> QED
      BY <2>1, <3>1, <3>3 DEF Kept
  <2> QED
    BY <2>1, <2>2, <2>4 DEF Windowed, Result, r, L
<1> QED
  BY <1>1, <1>2

LEMMA WindowedClose ==
    ASSUME NEW u, NEW v, NEW D, NEW K, Windowed(u, v, D, K), NEW page \in Windows
    PROVE  Windowed(EraseMapping(u, page), v, D, K \ {TableIndex(page)})
<1> DEFINE r == EraseMapping(u, page)
           L == K \ {TableIndex(page)}
<1>1. CASE Stopped(u)
  BY <1>1 DEF EraseMapping, Windowed
<1>2. CASE ~ Stopped(u)
  <2>1. ~ Stopped(v) /\ Structure(u, D, K, {}) /\ Kept(u, v) /\ Same(u, v, D)
    BY <1>2 DEF Windowed
  <2>2. Result(r, u, D, L, {}, {}, page, NotPresent)
    BY <2>1, CloseWindow
  <2>3. DirectoryIndex(page) = WindowIndex
    BY WindowPages
  <2> HIDE DEF r, L
  <2>4. ASSUME ~ Stopped(r) PROVE Structure(r, D, L, {}) /\ Kept(r, v) /\ Same(r, v, D)
    <3>1. Structure(r, D, L, {}) /\ Kept(r, u) /\ Set(r, u, D, u.cr3, WindowIndex, TableIndex(page), NotPresent)
      BY <2>2, <2>3, <2>4 DEF Result, Changed
    <3>2. Same(r, u, D)
      BY <3>1, WindowSame
    <3>3. Same(r, v, D)
      BY <2>1, <3>2, SameThenSame
    <3> QED
      BY <2>1, <3>1, <3>3 DEF Kept
  <2> QED
    BY <2>1, <2>2, <2>4 DEF Windowed, Result, r, L
<1> QED
  BY <1>1, <1>2

LEMMA WindowedTouch ==
    ASSUME NEW u, NEW v, NEW D, NEW K, Windowed(u, v, D, K), NEW page
    PROVE  Windowed(Touch(u, page), v, D, K)
BY LostIsGood, MachineTypes DEF Touch, Windowed

LEMMA WindowedSelf ==
    ASSUME NEW v, NEW D, OK(v, D)
    PROVE  Windowed(v, v, D, {})
BY SteadyParts DEF OK, Windowed, Kept, Same

LEMMA WindowedIsGood ==
    ASSUME NEW v, NEW D, OK(v, D), NEW u, Windowed(u, v, D, {})
    PROVE  Good(u, v, D) /\ (~ Stopped(u) => u.cr3 = v.cr3)
<1>1. CASE Stopped(u)
  BY <1>1, StoppedIsGood DEF Windowed
<1>2. CASE ~ Stopped(u)
  <2>1. ~ Stopped(v) /\ Structure(u, D, {}, {}) /\ Kept(u, v) /\ Same(u, v, D)
    BY <1>2 DEF Windowed
  <2>2. Steady(v, D)
    BY <2>1 DEF OK
  <2>3. Good(u, v, D)
    BY <2>1, <2>2, SameIsGood
  <2> QED
    BY <2>1, <2>3 DEF Kept
<1> QED
  BY <1>1, <1>2

LEMMA WindowedMore ==
    ASSUME NEW u, NEW v, NEW D, NEW K, Windowed(u, v, D, K), NEW L, K \subseteq L
    PROVE  Windowed(u, v, D, L)
<1>1. SUFFICES ASSUME ~ Stopped(u) PROVE Structure(u, D, L, {})
  BY DEF Windowed
<1>2. Structure(u, D, K, {}) /\ u \in Machines
  BY <1>1 DEF Windowed
<1>3. D \in SUBSET D /\ {} \in SUBSET Frame /\ u.free \cap {} = {} /\ u.free \cup {} \subseteq u.free \cup {}
      /\ {KernelDirectory, u.cr3, u.current} \subseteq D /\ u.cr3 = u.cr3 /\ u.mode = "sound" /\ u.mem = u.mem
  BY <1>2, Basics
<1> QED
  BY <1>2, <1>3, Regroup

LEMMA CopyPageStep ==
    ASSUME NEW u, NEW v, NEW D, NEW K, Windowed(u, v, D, K), NEW d \in D, NEW source,
           NEW page \in Nat, DirectoryIndex(page) \in Index, NEW straddles \in BOOLEAN
    PROVE  Windowed(CopyPage(u, source, d, page, straddles), v, D, K)
<1> DEFINE table == u.mem[d][DirectoryIndex(page)]
           open == MapMemory(u, table, WindowTable)
           frame == open.mem[table][TableIndex(page)]
           both == MapMemory(open, frame, WindowPage)
           read == Touch(both, source)
           one == EraseMapping(read, WindowPage)
           r == CopyPage(u, source, d, page, straddles)
           L == K \cup {TableIndex(WindowTable)}
           M == L \cup {TableIndex(WindowPage)}
<1>1. CASE Stopped(u) \/ table = NotPresent
  BY <1>1 DEF CopyPage
<1>2. CASE ~ Stopped(u) /\ table # NotPresent
  <2>0. WindowTable \in Windows /\ WindowPage \in Windows
    BY DEF Windows
  <2>1. Structure(u, D, K, {})
    BY <1>2 DEF Windowed
  <2>2. table \in Frames /\ TableIndex(page) \in Index
    BY <1>2, <2>1, TableFrames, PageParts
  <2>3. table \in Word
    BY <2>2, StaticTypes
  <2>4. r = IF Stopped(open) THEN open
            ELSE IF frame = NotPresent THEN EraseMapping(open, WindowTable)
            ELSE IF straddles THEN Lost
            ELSE EraseMapping(one, WindowTable)
    BY <1>2 DEF CopyPage
  <2>5. Windowed(open, v, D, L)
    BY <2>0, <2>3, WindowedOpen
  <2>6. frame \in Word
    <3>1. open \in Machines
      BY <2>5 DEF Windowed
    <3> HIDE DEF open, table
    <3> QED
      BY <2>2, <3>1, WordTypes
  <2> HIDE DEF open, table, frame
  <2>7. Windowed(both, v, D, M)
    BY <2>0, <2>5, <2>6, WindowedOpen
  <2> HIDE DEF both
  <2>8. Windowed(read, v, D, M)
    BY <2>7, WindowedTouch
  <2> HIDE DEF read
  <2>9. Windowed(one, v, D, M \ {TableIndex(WindowPage)})
    BY <2>0, <2>8, WindowedClose
  <2> HIDE DEF one
  <2> DEFINE N == M \ {TableIndex(WindowPage)}
  <2>10. Windowed(EraseMapping(one, WindowTable), v, D, N \ {TableIndex(WindowTable)})
    <3> HIDE DEF N, M
    <3> QED
      BY <2>0, <2>9, WindowedClose DEF N
  <2>11. N \ {TableIndex(WindowTable)} \subseteq K /\ L \ {TableIndex(WindowTable)} \subseteq K
    OBVIOUS
  <2>12. Windowed(EraseMapping(open, WindowTable), v, D, L \ {TableIndex(WindowTable)})
    <3> HIDE DEF L
    <3> QED
      BY <2>0, <2>5, WindowedClose
  <2>13. Windowed(Lost, v, D, K)
    BY LostIsGood, MachineTypes DEF Windowed
  <2>14. Stopped(open) => Windowed(open, v, D, K)
    BY <2>5 DEF Windowed
  <2> HIDE DEF N, L, r
  <2> QED
    BY <2>4, <2>10, <2>11, <2>12, <2>13, <2>14, WindowedMore DEF r
<1> QED
  BY <1>1, <1>2


LEMMA CopyStep ==
    ASSUME NEW v, NEW D, OK(v, D), NEW d \in D, NEW source,
           NEW page \in Nat, DirectoryIndex(page) \in Index, NEW straddles \in BOOLEAN
    PROVE  /\ Good(CopyToAddressSpace(v, source, d, page, straddles), v, D)
           /\ ~ Stopped(CopyToAddressSpace(v, source, d, page, straddles)) =>
                CopyToAddressSpace(v, source, d, page, straddles).cr3 = v.cr3
<1> DEFINE a == MapMemory(v, d, WindowDirectory)
           b == CopyPage(a, source, d, page, straddles)
           r == EraseMapping(b, WindowDirectory)
           K == {} \cup {TableIndex(WindowDirectory)}
<1>0. WindowDirectory \in Windows
  BY DEF Windows
<1>1. CASE Stopped(v)
  <2>1. a = v
    BY <1>1 DEF MapMemory
  <2>2. b = v
    BY <1>1, <2>1 DEF CopyPage
  <2>3. r = v
    BY <1>1, <2>2 DEF EraseMapping
  <2>4. v \in Machines
    BY DEF OK
  <2> QED
    BY <1>1, <2>3, <2>4, StoppedIsGood DEF CopyToAddressSpace
<1>2. CASE ~ Stopped(v)
  <2>1. d \in Word
    <3>1. Steady(v, D)
      BY <1>2 DEF OK
    <3>2. D \subseteq Frames
      BY <3>1, SteadyParts
    <3> QED
      BY <3>2, StaticTypes
  <2>2. Windowed(v, v, D, {})
    BY WindowedSelf
  <2>3. Windowed(a, v, D, K)
    BY <1>0, <2>1, <2>2, WindowedOpen
  <2> HIDE DEF a
  <2>5. Windowed(b, v, D, K)
    BY <2>3, CopyPageStep
  <2> HIDE DEF b, K
  <2>6. Windowed(r, v, D, K \ {TableIndex(WindowDirectory)})
    BY <1>0, <2>5, WindowedClose
  <2>7. K \ {TableIndex(WindowDirectory)} = {}
    BY DEF K
  <2> HIDE DEF r
  <2>8. Good(r, v, D) /\ (~ Stopped(r) => r.cr3 = v.cr3)
    BY <2>6, <2>7, WindowedIsGood
  <2> QED
    BY <2>8 DEF CopyToAddressSpace, r, b, a
<1> QED
  BY <1>1, <1>2
----------------------------------------------------------------------------
(* Processes. *)

\* StackPage is mapped, or its table is one all directories share.
StackMapped(v, D) == D # {KernelDirectory} \/ At(v, KernelDirectory, StackPage) # NotPresent

\* r comes of v by a ClonePageDirectory that made the directory n.
Cloned(r, v, D, n) ==
    /\ r \in Machines
    /\ ~ Stopped(r) =>
         n \in Frame \ D /\ Structure(r, D \cup {n}, {}, {}) /\ Kept(r, v) /\ Same(r, v, D)

\* The windows onto the new directory and the kernel's are open.
BothOpen(u, v, D, n) ==
    \E K : /\ Structure(u, D, K, {n}) /\ Kept(u, v) /\ Same(u, v, D)
           /\ K = ({} \cup {TableIndex(WindowDirectory)}) \cup {TableIndex(WindowSource)}
           /\ \A i \in Index : u.mem[n][i] = NotPresent

LEMMA OpenBothStep ==
    ASSUME NEW v, NEW D, Structure(v, D, {}, {}), ~ Stopped(TakeClear(v)),
           NEW open, open = MapMemory(MapMemory(TakeClear(v), NextFrame(v), WindowDirectory), KernelDirectory, WindowSource)
    PROVE  /\ open \in Machines /\ NextFrame(v) \in Frame \ D
           /\ ~ Stopped(open) => BothOpen(open, v, D, NextFrame(v))
<1> DEFINE n == NextFrame(v)
           a == TakeClear(v)
           b == MapMemory(a, n, WindowDirectory)
           K == {} \cup {TableIndex(WindowDirectory)}
           L == K \cup {TableIndex(WindowSource)}
<1>0. WindowDirectory \in Windows /\ WindowSource \in Windows
  BY DEF Windows
<1>1. Taken(a, v, D, {}, {}, n) /\ \A j \in Index : v.mem[n][j] = NotPresent
  BY TakeClearStep
<1> HIDE DEF a
<1>2. /\ n \in Frame \ D /\ Structure(a, D, {}, {n}) /\ a.mem = v.mem /\ Kept(a, v)
      /\ n \in Word /\ KernelDirectory \in Word
  <2>1. n \in Frame /\ n \notin D /\ Structure(a, D, {}, {} \cup {n}) /\ a.mem = v.mem /\ Kept(a, v)
    BY <1>1 DEF Taken
  <2>2. {} \cup {n} = {n}
    OBVIOUS
  <2>3. n \in Word /\ KernelDirectory \in Word
    BY <2>1, StaticTypes
  <2> QED
    BY <2>1, <2>2, <2>3
<1> HIDE DEF n
<1>3. Result(b, a, D, K, {n}, {n}, WindowDirectory, n)
  BY <1>0, <1>2, OpenWindow
<1> HIDE DEF b, K
<1>4. open = MapMemory(b, KernelDirectory, WindowSource)
  BY DEF b, a, n
<1>5. CASE Stopped(b)
  <2>1. open = b
    BY <1>4, <1>5 DEF MapMemory
  <2> QED
    BY <1>2, <1>3, <1>5, <2>1 DEF Result, n
<1>6. CASE ~ Stopped(b)
  <2>1. Structure(b, D, K, {n}) /\ Kept(b, a) /\ Held0(b, a, {n})
        /\ Set(b, a, D, a.cr3, WindowIndex, TableIndex(WindowDirectory), n)
    BY <1>0, <1>3, <1>6, WindowPages DEF Result, Changed
  <2>2. Result(open, b, D, L, {n}, {n}, WindowSource, KernelDirectory)
    BY <1>0, <1>2, <1>4, <2>1, OpenWindow
  <2> HIDE DEF L
  <2>3. ASSUME ~ Stopped(open) PROVE BothOpen(open, v, D, n)
    <3>1. Structure(open, D, L, {n}) /\ Kept(open, b) /\ Held0(open, b, {n})
          /\ Set(open, b, D, b.cr3, WindowIndex, TableIndex(WindowSource), KernelDirectory)
      BY <1>0, <2>2, <2>3, WindowPages DEF Result, Changed
    <3>2. Same(open, v, D)
      <4>1. Same(b, a, D) /\ Same(open, b, D)
        BY <2>1, <3>1, WindowSame
      <4>2. Same(a, v, D)
        BY <1>2 DEF Same, Entry
      <4> QED
        BY <4>1, <4>2, SameThenSame
    <3>3. Kept(open, v)
      BY <1>2, <2>1, <3>1 DEF Kept
    <3>4. \A i \in Index : open.mem[n][i] = NotPresent
      BY <1>1, <1>2, <2>1, <3>1 DEF Held0, n
    <3>5. L = ({} \cup {TableIndex(WindowDirectory)}) \cup {TableIndex(WindowSource)}
      BY DEF L, K
    <3> QED
      BY <3>1, <3>2, <3>3, <3>4, <3>5 DEF BothOpen
  <2> QED
    BY <1>2, <2>2, <2>3 DEF Result, n
<1> QED
  BY <1>5, <1>6

\* ClonePageDirectory's loop.
Copied(v, n) == [v EXCEPT !.mem[n] = [i \in Index |->
    IF Inherits(i) /\ i # DirectoryIndex(WindowDirectory) THEN v.mem[KernelDirectory][i] ELSE v.mem[n][i]]]

\* The kernel's words are copied, and the frame is a directory.
LEMMA AdoptStep ==
    ASSUME NEW v, NEW D, NEW K, NEW n, n \in Frame, Structure(v, D, K, {n}), \A i \in Index : v.mem[n][i] = NotPresent,
           v.mem[KernelDirectory][StackIndex] # NotPresent
    PROVE  Structure(Copied(v, n), D \cup {n}, K, {}) /\ Same(Copied(v, n), v, D) /\ Kept(Copied(v, n), v)
<1> DEFINE u == Copied(v, n)
           word(i) == IF Inherits(i) /\ i # DirectoryIndex(WindowDirectory) THEN v.mem[KernelDirectory][i] ELSE v.mem[n][i]
           row == [i \in Index |-> word(i)]
           words == [v.mem EXCEPT ![n] = row]
           R == {n}
<1>0. /\ v \in Machines /\ v.mode = "sound" /\ n \in Frames /\ n # KernelDirectory /\ KernelDirectory \in Frames
  BY Basics, StaticTypes
<1>1. row \in [Index -> Word]
  BY <1>0, WordTypes
<1>2. \A i \in Index : row[i] = IF i \in SharedIndices THEN v.mem[KernelDirectory][i] ELSE NotPresent
  <2>1. SUFFICES ASSUME NEW i \in Index PROVE word(i) = IF i \in SharedIndices THEN v.mem[KernelDirectory][i] ELSE NotPresent
    OBVIOUS
  <2>2. v.mem[n][i] = NotPresent
    OBVIOUS
  <2>3. i \in SharedIndices => Inherits(i) /\ i # DirectoryIndex(WindowDirectory)
    BY Layout DEF WindowIndex
  <2>4. i \notin SharedIndices /\ i # DirectoryIndex(WindowDirectory) => v.mem[KernelDirectory][i] = NotPresent
    BY DEF Structure, Common, WindowIndex
  <2> QED
    BY <2>2, <2>3, <2>4
<1> HIDE DEF row
<1>3. /\ words \in [Frame \cup StaticFrames -> [Index -> Word]]
      /\ words[n] = row /\ \A f \in Frames \ {n} : words[f] = v.mem[f]
  BY <1>0, <1>1 DEF Machines, Frames
<1>4. u = [v EXCEPT !.mem = words]
  BY <1>0 DEF Machines, row, Copied
<1> HIDE DEF words, u
<1>5. /\ u \in Machines /\ u.mem = words /\ u.free = v.free /\ u.mode = "sound"
      /\ u.cr3 = v.cr3 /\ u.current = v.current /\ u.heapEnd = v.heapEnd
  BY <1>0, <1>3, <1>4 DEF Machines
<1>10. n \in R /\ Structure(v, D, K, R) /\ R \ {n} = {}
  OBVIOUS
<1> HIDE DEF R
<1>6. Structure(u, D, K, R) /\ Same(u, v, D)
  <2>1. \A f \in Frames \ {n}, i \in Index : u.mem[f][i] = v.mem[f][i]
    BY <1>3, <1>5
  <2>2. /\ u \in Machines /\ u.mode = "sound" /\ u.cr3 = v.cr3 /\ u.current = v.current /\ u.free = v.free
    BY <1>5
  <2> QED
    BY <1>10, <2>1, <2>2, FillFrame
<1>7. u.mem[KernelDirectory] = v.mem[KernelDirectory] /\ u.mem[n] = row
  BY <1>0, <1>3, <1>5
<1>8. Structure(u, D \cup {n}, K, R \ {n})
  <2>1. /\ u.mem[KernelDirectory][StackIndex] # NotPresent
        /\ \A i \in Index : u.mem[n][i] = IF i \in SharedIndices THEN u.mem[KernelDirectory][i] ELSE NotPresent
    BY <1>2, <1>7
  <2> QED
    BY <1>6, <1>10, <2>1, Adopt
<1> QED
  BY <1>5, <1>6, <1>8, <1>10 DEF Kept, u

LEMMA CloneStep ==
    ASSUME NEW v, NEW D, Structure(v, D, {}, {}), StackMapped(v, D), ~ Stopped(TakeClear(v))
    PROVE  Cloned(ClonePageDirectory(v), v, D, NextFrame(v))
<1> DEFINE n == NextFrame(v)
           open == MapMemory(MapMemory(TakeClear(v), n, WindowDirectory), KernelDirectory, WindowSource)
           copied == Copied(open, n)
           one == EraseMapping(copied, WindowDirectory)
           r == EraseMapping(one, WindowSource)
<1>0. WindowDirectory \in Windows /\ WindowSource \in Windows
  BY DEF Windows
<1>1. ClonePageDirectory(v) = IF Stopped(open) THEN open ELSE r
  BY Zenon DEF ClonePageDirectory, Copied
<1>2. open \in Machines /\ n \in Frame \ D /\ (~ Stopped(open) => BothOpen(open, v, D, n))
  BY OpenBothStep
<1> HIDE DEF open, n
<1>3. CASE Stopped(open)
  BY <1>1, <1>2, <1>3 DEF Cloned
<1>4. CASE ~ Stopped(open)
  <2>1. PICK K : /\ Structure(open, D, K, {n}) /\ Kept(open, v) /\ Same(open, v, D)
                 /\ K = ({} \cup {TableIndex(WindowDirectory)}) \cup {TableIndex(WindowSource)}
                 /\ \A i \in Index : open.mem[n][i] = NotPresent
    BY <1>2, <1>4 DEF BothOpen
  <2>2. open.mem[KernelDirectory][StackIndex] # NotPresent
    <3>1. CASE D # {KernelDirectory}
      BY <2>1, <3>1 DEF Structure, Common
    <3>2. CASE D = {KernelDirectory}
      <4>1. At(v, KernelDirectory, StackPage) # NotPresent
        BY <3>2 DEF StackMapped
      <4>2. StackIndex \in Index \ {WindowIndex} /\ TableIndex(StackPage) \in Index
        <5>1. StackPage \in Nat
          BY LayoutAssumption
        <5>2. StackIndex \in Index /\ StackIndex # WindowIndex
          BY Layout
        <5> QED
          BY <5>1, <5>2, PageParts
      <4>3. Entry(open, KernelDirectory, StackIndex, TableIndex(StackPage)) # NotPresent
        BY <2>1, <3>2, <4>1, <4>2 DEF Same, At, StackIndex
      <4> QED
        BY <4>3 DEF Entry
    <3> QED
      BY <3>1, <3>2
  <2> DEFINE E == D \cup {n}
             L == K \ {TableIndex(WindowDirectory)}
             M == L \ {TableIndex(WindowSource)}
  <2>3. Structure(copied, E, K, {}) /\ Same(copied, open, D) /\ Kept(copied, open)
    BY <1>2, <2>1, <2>2, AdoptStep
  <2> HIDE DEF copied, E
  <2>4. Windowed(copied, copied, E, K)
    <3>1. copied \in Machines
      BY <2>3, Basics
    <3> QED
      BY <2>3, <3>1 DEF Windowed, Kept, Same
  <2>5. Windowed(one, copied, E, L)
    BY <1>0, <2>4, WindowedClose
  <2> HIDE DEF one, L
  <2>6. Windowed(r, copied, E, M)
    BY <1>0, <2>5, WindowedClose
  <2>7. M = {}
    BY <2>1 DEF L
  <2> HIDE DEF r, M
  <2>8. ASSUME ~ Stopped(r) PROVE Structure(r, D \cup {n}, {}, {}) /\ Kept(r, v) /\ Same(r, v, D)
    <3>1. Structure(r, E, {}, {}) /\ Kept(r, copied) /\ Same(r, copied, E)
      BY <2>6, <2>7, <2>8 DEF Windowed
    <3>2. Same(r, copied, D)
      BY <3>1 DEF Same, E
    <3>3. Same(r, v, D)
      BY <2>1, <2>3, <3>2, SameThenSame
    <3>4. Kept(r, v)
      BY <2>1, <2>3, <3>1 DEF Kept
    <3> QED
      BY <3>1, <3>3, <3>4 DEF E
  <2> QED
    BY <1>1, <1>2, <1>4, <2>6, <2>8 DEF Cloned, Windowed, n
<1> QED
  BY <1>3, <1>4

\* new Process, in the directory that was in use or in the new one.
LEMMA NewProcessStep ==
    ASSUME NEW v, NEW D, Steady(v, D), NEW n, NEW w, w \in Machines,
           ~ Stopped(w) =>
             /\ n \in Frame \ D /\ Structure(w, D \cup {n}, {}, {}) /\ Same(w, v, D) /\ w.heapEnd = v.heapEnd
             /\ Aligned(w)
    PROVE  /\ Partly(NewProcess(w, n), v, D \cup {n}, D) /\ Settled(NewProcess(w, n))
           /\ ~ Stopped(NewProcess(w, n)) => ~ Stopped(w) /\ NewProcess(w, n).current = w.current
<1> DEFINE E == D \cup {n}
           h == [w EXCEPT !.heapEnd[n] = UserHeapStart]
           r == NewProcess(w, n)
<1>1. CASE Stopped(w)
  <2>1. r = w
    BY <1>1 DEF NewProcess
  <2> QED
    BY <1>1, <2>1, StoppedIsGood DEF Partly
<1>2. CASE ~ Stopped(w)
  <2>1. r = KernelNew(h, FALSE)
    BY <1>2 DEF NewProcess
  <2>2. n \in Frame \ D /\ Structure(w, E, {}, {}) /\ Same(w, v, D) /\ w.heapEnd = v.heapEnd /\ Aligned(w) /\ UserHeapStart \in Nat
    BY <1>2, LayoutAssumption
  <2> HIDE DEF r
  <2>3. n \in E /\ D \in SUBSET E
    OBVIOUS
  <2> HIDE DEF E
  <2>4. h = WithHeapEnd(w, n, UserHeapStart)
    BY <1>2 DEF WithHeapEnd
  <2>5. Shrunk(h, w, E, n, UserHeapStart)
    BY <2>2, <2>3, <2>4, WithHeapEndStep
  <2> HIDE DEF h
  <2>6. /\ Structure(h, E, {}, {}) /\ h.mem = w.mem /\ h.cr3 = w.cr3 /\ h.current = w.current
        /\ \A e \in E : h.heapEnd[e] = IF e = n THEN UserHeapStart ELSE w.heapEnd[e]
    BY <2>5 DEF Shrunk
  <2>7. \A e \in D : v.heapEnd[e] \in Nat /\ v.heapEnd[e] \in HeapStart(e) .. HeapMax(e) /\ h.heapEnd[e] = v.heapEnd[e]
    BY <2>2, <2>3, <2>6, SteadyParts
  <2>8. Ends(h, E) /\ Aligned(h)
    <3>1. UserHeapStart \in HeapStart(n) .. HeapMax(n)
      BY <2>2, StaticTypes, LayoutAssumption DEF HeapStart, HeapMax
    <3>2. \A e \in E : h.heapEnd[e] \in HeapStart(e) .. HeapMax(e)
      BY <2>6, <2>7, <3>1 DEF E
    <3> QED
      BY <2>2, <2>6, <3>2 DEF Ends, Aligned
  <2>9. \A e \in D : KeptPages(h, v, e)
    <3>1. ASSUME NEW e \in D, NEW page \in Own(v, e) PROVE At(h, e, page) = At(v, e, page)
      <4>1. DirectoryIndex(page) \in Index \ {WindowIndex} /\ TableIndex(page) \in Index
        BY PageParts DEF Own
      <4>2. At(w, e, page) = At(v, e, page)
        BY <2>2, <4>1 DEF Same, At
      <4> QED
        BY <2>6, <4>2 DEF At, Entry
    <3> QED
      BY <3>1 DEF KeptPages
  <2>10. TimerReceives \/ Filled(h, E)
    <3>1. SUFFICES ASSUME ~ TimerReceives, NEW e \in E \ {KernelDirectory}, NEW page \in UserHeapStart .. h.heapEnd[e] - 1
                   PROVE  At(h, e, page) # NotPresent
      BY DEF Filled
    <3>2. e # n /\ e \in D
      BY <2>2, <2>6, <3>1 DEF E
    <3>3. KeptPages(h, v, e) /\ h.heapEnd[e] = v.heapEnd[e]
      BY <2>7, <2>9, <3>2
    <3> QED
      BY <3>1, <3>2, <3>3, StillFilled
  <2>11. Steady(h, E)
    BY <2>6, <2>8, <2>10 DEF Steady
  <2>12. OK(h, E) /\ ~ Stopped(h)
    BY <2>11, SteadyParts
  <2>13. Partly(h, v, E, D)
    <3>1. Mapped(h, v, D)
      BY <2>7, <2>9 DEF Mapped
    <3>2. ~ Stopped(v)
      BY SteadyParts
    <3> QED
      BY <2>12, <3>1, <3>2 DEF Partly
  <2>14. Good(r, h, E) /\ Settled(r) /\ OK(r, E)
    BY <2>1, <2>12, KernelNewStep
  <2>15. v \in Machines /\ Fine(r, h, E)
    BY <2>14, SteadyParts, GoodIsOK
  <2>16. Partly(r, v, E, D)
    BY <2>3, <2>13, <2>15, PartlyThenFine
  <2>17. ~ Stopped(r) => r.current = w.current
    BY <2>6, <2>14 DEF Good
  <2> QED
    BY <1>2, <2>14, <2>16, <2>17 DEF E, r
<1> QED
  BY <1>1, <1>2
----------------------------------------------------------------------------
(* Boot modules. *)

\* Virtual::current is loaded.
LEMMA SwitchAgain ==
    ASSUME NEW v, NEW D, OK(v, D), NEW d, ~ Stopped(v) => d \in D /\ v.current = d
    PROVE  Good(Switch(v, d), v, D) /\ Settled(Switch(v, d)) /\ OK(Switch(v, d), D)
<1>1. CASE Stopped(v)
  <2>1. Switch(v, d) = v /\ v \in Machines
    BY <1>1 DEF Switch, OK
  <2> QED
    BY <1>1, <2>1, StoppedIsGood
<1>2. CASE ~ Stopped(v)
  <2>1. Fine(Switch(v, d), v, D) /\ Settled(Switch(v, d)) /\ Switch(v, d).current = d
    BY <1>2, SwitchStep
  <2>2. Good(Switch(v, d), v, D)
    BY <1>2, <2>1 DEF Good
  <2> QED
    BY <2>1, <2>2, GoodIsOK
<1> QED
  BY <1>1, <1>2

\* One page of a section.
LEMMA PlaceNewStep ==
    ASSUME NEW v, NEW D, OK(v, D), ~ Stopped(v) => v.current # KernelDirectory,
           NEW u, Good(u.v, v, D), u.broken \in BOOLEAN, NEW page \in ImagePages
    PROVE  Good(PlaceNew(u, page).v, v, D) /\ PlaceNew(u, page).broken \in BOOLEAN
<1> DEFINE w == u.v
           r == PlaceNew(u, page)
<1>0. OK(w, D)
  BY GoodIsOK
<1>1. CASE u.broken \/ Stopped(w)
  BY <1>1 DEF PlaceNew
<1>2. CASE ~ u.broken /\ ~ Stopped(w) /\ RetrieveMapping(w, page) # NotPresent
  <2>1. r.v = Take(w) /\ r.broken = TRUE
    BY <1>2 DEF PlaceNew
  <2>2. Good(Take(w), w, D)
    BY <1>0, TakeIsGood
  <2>3. Good(Take(w), v, D)
    BY <1>0, <2>2, GoodThenGood
  <2> QED
    BY <2>1, <2>3
<1>3. CASE ~ u.broken /\ ~ Stopped(w) /\ RetrieveMapping(w, page) = NotPresent
  <2>1. r.v = PlacePage(w, page) /\ r.broken = FALSE
    BY <1>3 DEF PlaceNew
  <2>2. Steady(w, D) /\ ~ Stopped(v) /\ w.current = v.current
    BY <1>0, <1>3 DEF OK, Good, Fine
  <2>3. w.cr3 # KernelDirectory
    BY <2>2 DEF Steady, Aligned
  <2>4. page \in Nat /\ Private(DirectoryIndex(page))
    BY ImagePagesPrivate
  <2> HIDE DEF w
  <2>5. MayMap(w, D, page) /\ DirectoryIndex(page) # KernelIndex
    BY <2>3, <2>4, MayMapPrivate
  <2>6. At(w, w.cr3, page) = NotPresent
    BY <1>3 DEF RetrieveMapping, TableOf, At, Entry
  <2>7. Good(PlacePage(w, page), w, D)
    BY <2>2, <2>5, <2>6, PlacedIsGood
  <2>8. Good(PlacePage(w, page), v, D)
    BY <1>0, <2>7, GoodThenGood DEF w
  <2> QED
    BY <2>1, <2>8
<1> QED
  BY <1>1, <1>2, <1>3

\* The machines a module's start goes through.
Loading(v, D) == {u \in Machines : Good(u, v, D)}

\* The loop over the pages of a section.
LEMMA LoadSectionStep ==
    ASSUME NEW v, NEW D, OK(v, D), ~ Stopped(v) => v.current # KernelDirectory, NEW u \in Loading(v, D),
           NEW section, section.first \in Nat, section.last \in Nat, section.first <= section.last,
           DirectoryIndex(section.last + 1) < DirectoryIndex(KernelHeapStart)
    PROVE  LoadSection(u, section) \in Loading(v, D)
<1> DEFINE n == section.last - section.first + 2
           Y == [v : Loading(v, D), broken : BOOLEAN]
           b == [v |-> u, broken |-> FALSE]
           op == [a \in (1 .. n) \X Y |-> PlaceNew(a[2], section.first + a[1] - 1)]
           Unfolded(f) == f = [k \in 0 .. n |-> IF k = 0 THEN b ELSE PlaceNew(f[k - 1], section.first + k - 1)]
<1>1. n \in Nat /\ b \in Y
  OBVIOUS
<1>2. ASSUME NEW i \in 1 .. n, NEW x \in Y PROVE PlaceNew(x, section.first + i - 1) \in Y
  <2> DEFINE page == section.first + i - 1
  <2>1. page \in Nat /\ page <= section.last + 1
    OBVIOUS
  <2> HIDE DEF page
  <2>2. page \in ImagePages
    <3> DEFINE last == section.last + 1
    <3>1. last \in Nat /\ page \in Nat /\ page <= last /\ DirectoryIndex(last) < DirectoryIndex(KernelHeapStart)
      BY <2>1
    <3> HIDE DEF last
    <3>2. DirectoryIndex(page) <= DirectoryIndex(last) /\ DirectoryIndex(page) \in Nat /\ DirectoryIndex(last) \in Nat
      BY <3>1, IndexMonotonic, PageParts
    <3>3. DirectoryIndex(KernelHeapStart) \in Nat
      BY Regions
    <3> QED
      BY <3>1, <3>2, <3>3 DEF ImagePages
  <2>3. Good(x.v, v, D) /\ x.broken \in BOOLEAN
    BY DEF Loading
  <2>4. Good(PlaceNew(x, page).v, v, D) /\ PlaceNew(x, page).broken \in BOOLEAN
    BY <2>2, <2>3, PlaceNewStep
  <2>5. PlaceNew(x, page).v \in Loading(v, D)
    BY <2>4 DEF Loading, Good, Fine, OK
  <2>6. PlaceNew(x, page) = x \/ PlaceNew(x, page) = [v |-> PlaceNew(x, page).v, broken |-> PlaceNew(x, page).broken]
    BY DEF PlaceNew
  <2> QED
    BY <2>4, <2>5, <2>6 DEF page
<1> HIDE DEF n, Y, b
<1>3. PICK f \in [0 .. n -> Y] : Recursive(f, n, b, op)
  <2>1. op \in [(1 .. n) \X Y -> Y]
    BY <1>2
  <2> HIDE DEF op
  <2> QED
    BY <1>1, <2>1, RecursionExists
<1>4. Unfolded(f)
  <2>1. \A i \in 0 .. n : i # 0 => i \in 1 .. n /\ f[i - 1] \in Y
    BY <1>1, <1>3
  <2>2. \A i \in 0 .. n : i # 0 => op[<<i, f[i - 1]>>] = PlaceNew(f[i - 1], section.first + i - 1)
    BY <2>1
  <2> HIDE DEF op
  <2>3. f = [i \in 0 .. n |-> IF i = 0 THEN b ELSE op[<<i, f[i - 1]>>]]
    BY <1>3 DEF Recursive
  <2> QED
    BY <2>2, <2>3
<1> DEFINE chosen == CHOOSE g : Unfolded(g)
<1>5. Unfolded(chosen)
  <2> HIDE DEF Unfolded
  <2> QED
    BY <1>4, Zenon
<1>6. LoadSection(u, section) =
        IF ~ Stopped(chosen[n].v) /\ \E page \in section.first .. section.last : RetrieveMapping(chosen[n].v, page) = NotPresent
        THEN Lost ELSE chosen[n].v
  BY Zenon DEF LoadSection, n, b
<1> HIDE DEF chosen
<1>7. chosen[n] \in Y
  <2>1. \A i \in 0 .. n : chosen[i] = IF i = 0 THEN b ELSE PlaceNew(chosen[i - 1], section.first + i - 1)
    BY <1>5
  <2>2. chosen[0] \in Y
    BY <1>1, <2>1
  <2>3. ASSUME NEW i \in 1 .. n, chosen[i - 1] \in Y PROVE chosen[i] \in Y
    <3>1. i \in 0 .. n /\ i # 0
      BY <1>1
    <3>2. chosen[i] = PlaceNew(chosen[i - 1], section.first + i - 1)
      BY <2>1, <3>1
    <3> QED
      BY <1>2, <2>3, <3>2
  <2> QED
    BY <1>1, <2>2, <2>3, LoopStays
<1>8. Lost \in Loading(v, D)
  BY LostIsGood, MachineTypes DEF Loading
<1>9. chosen[n].v \in Loading(v, D)
  BY <1>7 DEF Y
<1> QED
  BY <1>6, <1>8, <1>9

\* The loop over a module's sections.
LEMMA LoadSections ==
    ASSUME NEW v, NEW D, OK(v, D), ~ Stopped(v) => v.current # KernelDirectory, NEW p \in ModuleSet
    PROVE  LET sections == Sections[p]
               loaded[i \in 0 .. Len(sections)] ==
                   IF i = 0 THEN v ELSE LoadSection(loaded[i - 1], sections[i])
           IN  loaded[Len(sections)] \in Loading(v, D)
<1> DEFINE sections == Sections[p]
           n == Len(sections)
           Y == Loading(v, D)
           op == [a \in (1 .. n) \X Y |-> LoadSection(a[2], sections[a[1]])]
           Unfolded(f) == f = [i \in 0 .. n |-> IF i = 0 THEN v ELSE LoadSection(f[i - 1], sections[i])]
<1>1. /\ n \in Nat
      /\ \A i \in 1 .. n : /\ sections[i].first \in Nat /\ sections[i].last \in Nat /\ sections[i].first <= sections[i].last
                           /\ DirectoryIndex(sections[i].last + 1) < DirectoryIndex(KernelHeapStart)
  <2> DEFINE S == {s \in [first : Nat, last : Nat] :
                     s.first <= s.last /\ DirectoryIndex(s.last + 1) < DirectoryIndex(KernelHeapStart)}
  <2>1. sections \in Seq(S)
    BY LayoutAssumption
  <2>2. \A s \in S : /\ s.first \in Nat /\ s.last \in Nat /\ s.first <= s.last
                     /\ DirectoryIndex(s.last + 1) < DirectoryIndex(KernelHeapStart)
    OBVIOUS
  <2> HIDE DEF S, sections
  <2>3. n \in Nat /\ \A i \in 1 .. n : sections[i] \in S
    BY <2>1
  <2> QED
    BY <2>2, <2>3
<1>2. v \in Y
  BY FineSelf DEF Loading, OK
<1>3. ASSUME NEW i \in 1 .. n, NEW x \in Y PROVE LoadSection(x, sections[i]) \in Y
  <2> HIDE DEF n, sections
  <2> QED
    BY <1>1, <1>3, LoadSectionStep
<1> HIDE DEF sections, n, Y
<1>4. PICK f \in [0 .. n -> Y] : Recursive(f, n, v, op)
  <2>1. op \in [(1 .. n) \X Y -> Y]
    BY <1>3
  <2> HIDE DEF op
  <2> QED
    BY <1>1, <1>2, <2>1, RecursionExists
<1>5. Unfolded(f)
  <2>1. \A i \in 0 .. n : i # 0 => i \in 1 .. n /\ f[i - 1] \in Y
    BY <1>1, <1>4
  <2>2. \A i \in 0 .. n : i # 0 => op[<<i, f[i - 1]>>] = LoadSection(f[i - 1], sections[i])
    BY <2>1
  <2> HIDE DEF op
  <2>3. f = [i \in 0 .. n |-> IF i = 0 THEN v ELSE op[<<i, f[i - 1]>>]]
    BY <1>4 DEF Recursive
  <2> QED
    BY <2>2, <2>3
<1> DEFINE chosen == CHOOSE g : Unfolded(g)
<1>6. Unfolded(chosen)
  <2> HIDE DEF Unfolded
  <2> QED
    BY <1>5, Zenon
<1> HIDE DEF chosen
<1>7. chosen[n] \in Y
  <2>1. \A i \in 0 .. n : chosen[i] = IF i = 0 THEN v ELSE LoadSection(chosen[i - 1], sections[i])
    BY <1>6
  <2>2. chosen[0] \in Y
    BY <1>1, <1>2, <2>1
  <2>3. ASSUME NEW i \in 1 .. n, chosen[i - 1] \in Y PROVE chosen[i] \in Y
    <3>1. i \in 0 .. n /\ i # 0
      BY <1>1
    <3>2. chosen[i] = LoadSection(chosen[i - 1], sections[i])
      BY <2>1, <3>1
    <3> QED
      BY <1>3, <2>3, <3>2
  <2> QED
    BY <1>1, <2>2, <2>3, LoopStays
<1> QED
  BY <1>7, Zenon DEF chosen, n, sections, Y

LEMMA StartStopped ==
    ASSUME NEW v, Stopped(v), NEW d, NEW grows, NEW block, NEW args
    PROVE  StartThread(v, d, grows, block, args) = v
<1>1. Allocate(v, d, grows) = v /\ KernelNew(v, FALSE) = v
  BY AllocateStopped DEF KernelNew
<1>2. Touch(v, args) = v /\ Touch(v, block) = v
  BY DEF Touch
<1> QED
  BY <1>1, <1>2 DEF StartThread

\* ELFLoader::Start, in the new process's directory.
LEMMA ELFStartStep ==
    ASSUME NEW v, NEW D, OK(v, D), NEW d, ~ Stopped(v) => d \in D \ {KernelDirectory} /\ v.current = d, NEW p \in ModuleSet
    PROVE  Good(ELFStart(v, p, d), v, D) /\ OK(ELFStart(v, p, d), D)
<1> DEFINE a == KernelNew(v, FALSE)
           b == Switch(a, d)
           c == Allocate(b, d, FALSE)
           params == Touch(c, UserHeapStart)
           sections == Sections[p]
           loaded[i \in 0 .. Len(sections)] == IF i = 0 THEN params ELSE LoadSection(loaded[i - 1], sections[i])
           l == loaded[Len(sections)]
           s == Switch(l, v.current)
           u == StartThread(s, d, FALSE, UserHeapStart, UserHeapStart)
<1>0. u = ELFStart(v, p, d)
  BY Zenon DEF ELFStart
<1> HIDE DEF u
<1>1. Good(a, v, D) /\ OK(a, D) /\ (~ Stopped(a) => d \in D \ {KernelDirectory} /\ a.current = d)
  BY KernelNewStep DEF Good, Fine
<1> HIDE DEF a
<1>2. Good(b, a, D) /\ OK(b, D) /\ Settled(b)
  BY <1>1, SwitchAgain
<1>3. (~ Stopped(b) => d \in D \ {KernelDirectory} /\ b.current = d) /\ Good(b, v, D)
  BY <1>1, <1>2, GoodThenGood DEF Good, Fine
<1> HIDE DEF b
<1>4. Good(c, v, D) /\ (~ Stopped(c) => d \in D \ {KernelDirectory} /\ c.current = d) /\ OK(c, D)
  <2>1. CASE Stopped(b)
    <3>1. c = b
      BY <2>1, AllocateStopped
    <3> QED
      BY <1>2, <1>3, <2>1, <3>1
  <2>2. CASE ~ Stopped(b)
    <3>1. d \in D /\ d # KernelDirectory /\ b.current = d
      BY <1>3, <2>2
    <3> HIDE DEF c
    <3>2. Good(c, b, D)
      BY <1>2, <3>1, AllocateStep DEF c
    <3>3. Good(c, v, D) /\ OK(c, D)
      BY <1>3, <3>2, GoodThenGood, GoodIsOK
    <3> QED
      BY <3>1, <3>2, <3>3 DEF Good
  <2> QED
    BY <2>1, <2>2
<1> HIDE DEF c
<1>5. Good(params, c, D) /\ OK(params, D)
  BY <1>4, TouchStep, GoodIsOK
<1>6. Good(params, v, D) /\ (~ Stopped(params) => d \in D \ {KernelDirectory} /\ params.current = d)
  BY <1>4, <1>5, GoodThenGood DEF Good, Fine
<1> HIDE DEF params
<1>7. l \in Loading(params, D)
  <2>1. ~ Stopped(params) => params.current # KernelDirectory
    BY <1>6
  <2> QED
    BY <1>5, <2>1, LoadSections, Zenon
<1> HIDE DEF l
<1>8. Good(l, params, D) /\ OK(l, D)
  BY <1>7, GoodIsOK DEF Loading
<1>9. Good(l, v, D) /\ (~ Stopped(l) => v.current \in D /\ l.current = v.current /\ d \in D)
  BY <1>6, <1>8, GoodThenGood DEF Good, Fine
<1>10. Good(s, l, D) /\ Settled(s) /\ OK(s, D)
  BY <1>8, <1>9, SwitchAgain
<1>11. Good(s, v, D) /\ (~ Stopped(s) => d \in D)
  BY <1>9, <1>10, <1>8, GoodThenGood DEF Good, Fine
<1> HIDE DEF s
<1>12. CASE Stopped(s)
  <2> HIDE DEF loaded, sections
  <2>1. \A grows : StartThread(s, d, grows, UserHeapStart, UserHeapStart) = s
    BY <1>12, StartStopped
  <2>2. u = s
    BY <2>1 DEF u
  <2> QED
    BY <1>0, <1>10, <1>11, <2>2
<1>13. CASE ~ Stopped(s)
  <2>1. d \in D
    BY <1>11, <1>13
  <2>2. Good(u, s, D) /\ OK(u, D)
    BY <1>10, <2>1, StartThreadStep DEF u
  <2>3. Good(u, v, D)
    BY <1>10, <1>11, <2>2, GoodThenGood
  <2> QED
    BY <1>0, <2>2, <2>3
<1> QED
  BY <1>12, <1>13
----------------------------------------------------------------------------
(* Calls. *)

LEMMA YieldStep ==
    ASSUME NEW v, NEW D, OK(v, D), NEW from, NEW p, directory[p] \in D \ {KernelDirectory}
    PROVE  Good(YieldTo(v, from, p), v, D)
<1> DEFINE d == directory[p]
           u == YieldTo(v, from, p)
<1>1. CASE Stopped(v) \/ p = from
  <2>1. u = v
    BY <1>1 DEF YieldTo
  <2> QED
    BY <2>1, FineSelf
<1>2. CASE ~ Stopped(v) /\ p # from
  <2>1. Steady(v, D)
    BY <1>2 DEF OK
  <2>2. u = [v EXCEPT !.cr3 = d]
    BY <1>2 DEF YieldTo
  <2>3. /\ v \in Machines /\ v.mode = "sound" /\ D \subseteq Frame \cup {KernelDirectory}
        /\ {KernelDirectory, v.cr3, v.current} \subseteq D /\ Structure(v, D, {}, {})
    BY <2>1, SteadyParts
  <2> HIDE DEF u
  <2>4. /\ u \in Machines /\ u.mode = "sound" /\ u.mem = v.mem /\ u.free = v.free /\ u.heapEnd = v.heapEnd
        /\ u.cr3 = d /\ u.current = v.current
    BY <2>2, <2>3 DEF Machines
  <2>5. Structure(u, D, {}, {})
    <3>1. /\ D \in SUBSET D /\ {KernelDirectory, u.cr3, u.current} \subseteq D
          /\ {} \in SUBSET Frame /\ u.free \cap {} = {} /\ u.free \cup {} \subseteq v.free \cup {} /\ {} \subseteq {}
      BY <2>3, <2>4
    <3> QED
      BY <2>3, <2>4, <3>1, Regroup
  <2>6. Ends(u, D) /\ Aligned(u)
    BY <2>1, <2>4 DEF Steady, Ends, Aligned
  <2>7. \A e \in D : KeptPages(u, v, e)
    BY <2>4 DEF KeptPages, At, Entry
  <2>8. Fine(u, v, D)
    <3>1. /\ \A e \in D \ {KernelDirectory} : u.heapEnd[e] = v.heapEnd[e]
          /\ TimerReceives \/ \A e \in D \ {KernelDirectory} : KeptPages(u, v, e)
      BY <2>4, <2>7
    <3> QED
      BY <2>1, <2>5, <2>6, <3>1, Carried
  <2> QED
    BY <2>4, <2>8 DEF Good, u
<1> QED
  BY <1>1, <1>2

LEMMA SendMessageStep ==
    ASSUME NEW v, NEW D, OK(v, D), Settled(v), NEW q, directory[q] \in D, NEW e \in D, NEW source, NEW grows,
           NEW block \in Nat, DirectoryIndex(block) \in Index, NEW straddles \in BOOLEAN
    PROVE  /\ Good(SendMessage(v, source, e, q, grows, block, straddles), v, D)
           /\ OK(SendMessage(v, source, e, q, grows, block, straddles), D)
<1> DEFINE d == directory[q]
           a == Allocate(v, d, grows)
           thread == KernelNew(a, FALSE)
           copied == CopyToAddressSpace(thread, source, e, block, straddles)
           read == Touch(copied, block)
           r == StartThread(read, d, FALSE, block, StackPage)
<1>0. r = SendMessage(v, source, e, q, grows, block, straddles) /\ d \in D
  BY DEF SendMessage
<1> HIDE DEF r, d
<1>1. Good(a, v, D) /\ OK(a, D)
  BY <1>0, AllocateStep, GoodIsOK
<1> HIDE DEF a
<1>2. Good(thread, a, D) /\ Settled(thread) /\ OK(thread, D)
  BY <1>1, KernelNewStep
<1> HIDE DEF thread
<1>3. Good(copied, thread, D) /\ (~ Stopped(copied) => copied.cr3 = thread.cr3)
  BY <1>2, CopyStep
<1> HIDE DEF copied
<1>4. OK(copied, D) /\ Settled(copied)
  BY <1>2, <1>3 DEF Good, Fine, Settled
<1>5. Good(read, copied, D) /\ Settled(read) /\ OK(read, D)
  BY <1>4, TouchStep, GoodIsOK
<1> HIDE DEF read
<1>6. Good(r, read, D) /\ OK(r, D)
  BY <1>0, <1>5, StartThreadStep DEF r
<1>7. Good(thread, v, D)
  BY <1>1, <1>2, GoodThenGood
<1>8. Good(copied, v, D)
  BY <1>2, <1>3, <1>7, GoodThenGood
<1>9. Good(read, v, D)
  BY <1>4, <1>5, <1>8, GoodThenGood
<1>10. Good(r, v, D)
  BY <1>5, <1>6, <1>9, GoodThenGood
<1> QED
  BY <1>0, <1>6, <1>10

\* Fewer directories may come into use.
LEMMA Fewer ==
    ASSUME NEW v, NEW D, OK(v, D), NEW E \in SUBSET D, ~ Stopped(v) => {KernelDirectory, v.cr3, v.current} \subseteq E
    PROVE  OK(v, E)
<1>1. SUFFICES ASSUME ~ Stopped(v) PROVE Steady(v, E)
  BY DEF OK
<1>2. Steady(v, D)
  BY <1>1 DEF OK
<1>3. Structure(v, D, {}, {}) /\ v \in Machines /\ v.mode = "sound"
  BY <1>2, SteadyParts
<1>4. Structure(v, E, {}, {})
  <2>1. /\ {KernelDirectory, v.cr3, v.current} \subseteq E
        /\ {} \in SUBSET Frame /\ v.free \cap {} = {} /\ v.free \cup {} \subseteq v.free \cup {} /\ {} \subseteq {}
        /\ v.cr3 = v.cr3 /\ v.mem = v.mem
    BY <1>1
  <2> QED
    BY <1>3, <2>1, Regroup
<1>5. Ends(v, E) /\ Aligned(v) /\ (TimerReceives \/ Filled(v, E))
  BY <1>2 DEF Steady, Ends, Filled
<1> QED
  BY <1>4, <1>5 DEF Steady
----------------------------------------------------------------------------
(* The inductive invariant. *)

IInv ==
    /\ TypeOK
    /\ OK(vm, Directories)
    /\ phase = 0 => Stopped(vm) \/ Directories = {KernelDirectory}
    /\ phase > 0 => Stopped(vm) \/ StackMapped(vm, Directories)
    /\ \A p, q \in Alive : directory[p] = directory[q] => p = q
    /\ running # Null => running \in populated /\ phase > 0
    /\ populated # {} => Stopped(vm) \/ vm.current # KernelDirectory

\* The directories of the processes that go on.
Lasting == {directory[p] : p \in {q \in Alive : directory'[q] = directory[q]}}

\* What a step does with their pages.
LastingMapped == TimerReceives \/ Stopped(vm') \/ Mapped(vm', vm, Lasting)

Carries == IInv' /\ LastingMapped

LEMMA AliveDirectories ==
    ASSUME TypeOK, NEW p \in Alive
    PROVE  /\ directory[p] \in Frame /\ directory[p] # KernelDirectory /\ directory[p] \in Directories
           /\ directory[p] \in Directories \ {KernelDirectory}
BY StaticTypes DEF TypeOK, Alive, Directories

\* A call that makes no process and ends none.
LEMMA CallCarries ==
    ASSUME IInv, phase > 0, phase' = phase, populated # {}, Good(vm', vm, Directories), ~ Stopped(vm),
           directory' = directory, populated' \subseteq Alive, running' \in populated'
    PROVE  Carries
<1> DEFINE D == Directories
           E == Directories'
<1>1. Alive' = Alive
  BY DEF Alive
<1>2. OK(vm', D) /\ vm' \in Machines /\ (~ Stopped(vm') => vm'.current = vm.current /\ Steady(vm', D))
  BY DEF Good, Fine, OK
<1>3. ~ Stopped(vm') => {KernelDirectory, vm'.cr3, vm'.current} \subseteq D
  BY <1>2, SteadyParts
<1>4. E = {KernelDirectory, vm'.cr3, vm'.current} \cup {directory[p] : p \in Alive}
  BY <1>1 DEF Directories
<1>5. {directory[p] : p \in Alive} \subseteq D
  BY DEF Directories
<1> HIDE DEF D, E
<1>6. OK(vm', E)
  <2>1. CASE Stopped(vm')
    BY <1>2, <2>1 DEF OK
  <2>2. CASE ~ Stopped(vm')
    <3>1. E \in SUBSET D /\ {KernelDirectory, vm'.cr3, vm'.current} \subseteq E
      BY <1>3, <1>4, <1>5, <2>2
    <3> QED
      BY <1>2, <3>1, Fewer
  <2> QED
    BY <2>1, <2>2
<1>7. TypeOK'
  <2>1. running' \in Process
    BY DEF Alive
  <2> QED
    BY <1>1, <1>2, <2>1 DEF TypeOK, IInv
<1>8. Stopped(vm') \/ vm'.current # KernelDirectory
  BY <1>2 DEF IInv
<1>9. Stopped(vm') \/ StackMapped(vm', E)
  BY <1>4, <1>8 DEF StackMapped
<1>10. phase \in Nat /\ phase # 0
  BY DEF IInv, TypeOK
<1>11. IInv'
  BY <1>1, <1>6, <1>7, <1>8, <1>9, <1>10 DEF IInv, E
<1>12. LastingMapped
  <2>1. SUFFICES ASSUME ~ TimerReceives, ~ Stopped(vm') PROVE Mapped(vm', vm, Lasting)
    BY DEF LastingMapped
  <2>2. Mapped(vm', vm, D)
    BY <2>1 DEF Good, Fine, D
  <2>3. Lasting \subseteq D
    BY <1>5 DEF Lasting
  <2> QED
    BY <2>2, <2>3 DEF Mapped
<1> QED
  BY <1>11, <1>12 DEF Carries
----------------------------------------------------------------------------
(* The actions. *)

LEMMA CallFacts ==
    ASSUME IInv, Calls
    PROVE  /\ running \in populated /\ populated # {} /\ phase > 0 /\ phase' = phase /\ ~ Stopped(vm)
           /\ OK(vm, Directories) /\ Steady(vm, Directories) /\ populated \subseteq Alive
           /\ running \in Alive /\ vm.current # KernelDirectory
<1>1. running \in populated /\ phase > 0 /\ phase' = phase /\ ~ Stopped(vm) /\ OK(vm, Directories) /\ populated \subseteq Alive
  BY DEF IInv, Calls, Sound, Stopped, TypeOK
<1> QED
  BY <1>1 DEF IInv, OK

LEMMA MajorsAre ==
    ASSUME NEW n \in Nat, NEW majors \in Emptied(n)
    PROVE  \E k \in Nat : majors \in [1 .. k -> Major]
BY DEF Emptied

LEMMA BlocksFacts ==
    ASSUME IInv, ~ Stopped(vm), NEW q \in Alive, NEW grows, NEW block \in Blocks(q, grows)
    PROVE  block \in Nat /\ DirectoryIndex(block) \in Index
<1> DEFINE d == directory[q]
<1>1. d \in Directories /\ d # KernelDirectory /\ Steady(vm, Directories)
  BY AliveDirectories DEF IInv, OK
<1>2. vm.heapEnd[d] \in UserHeapStart .. UserHeapEnd
  BY <1>1, SteadyParts DEF HeapStart, HeapMax
<1>3. UserHeapStart \in Nat /\ UserHeapEnd \in Nat
  BY LayoutAssumption
<1>4. block \in UserHeapStart .. UserHeapEnd
  <2>1. block = vm.heapEnd[d] \/ block \in UserHeapStart .. vm.heapEnd[d] - 1
    BY DEF Blocks
  <2> HIDE DEF d
  <2> QED
    BY <1>2, <1>3, <2>1
<1> QED
  BY <1>4, UserHeapPages DEF Private

LEMMA YieldCarries ==
    ASSUME IInv, NEW p \in Process, Yield(p)
    PROVE  Carries
<1>1. /\ phase > Len(Modules) /\ p \in populated /\ ~ Stopped(vm) /\ OK(vm, Directories) /\ populated \subseteq Alive
      /\ phase' = phase /\ directory' = directory /\ populated' = populated /\ running' = p
  BY DEF IInv, Yield, Sound, Stopped, TypeOK
<1>2. phase > 0
  BY <1>1, AddressSpacesAssumption DEF IInv, TypeOK
<1>3. Good(vm', vm, Directories)
  <2>1. directory[p] \in Directories \ {KernelDirectory}
    BY <1>1, AliveDirectories DEF IInv
  <2>2. vm' = YieldTo(vm, running, p)
    BY DEF Yield
  <2> QED
    BY <1>1, <2>1, <2>2, YieldStep
<1> QED
  BY <1>1, <1>2, <1>3, CallCarries

LEMMA EndLastThreadCarries ==
    ASSUME IInv, NEW q \in Process, NEW first \in Process, EndLastThread(q, first)
    PROVE  Carries
<1>1. /\ running \in populated /\ populated # {} /\ phase > 0 /\ phase' = phase /\ ~ Stopped(vm)
      /\ OK(vm, Directories) /\ populated \subseteq Alive
  BY CallFacts DEF EndLastThread
<1>2. vm' = vm /\ directory' = directory /\ populated' = populated \ {q} /\ running' \in populated'
  BY <1>1 DEF EndLastThread
<1>3. Good(vm', vm, Directories)
  BY <1>1, <1>2, FineSelf
<1> QED
  BY <1>1, <1>2, <1>3, CallCarries

LEMMA SleepProcessCarries ==
    ASSUME IInv, NEW first \in Process, NEW p \in Process, NEW grows, NEW majors \in Emptied(1),
           SleepProcess(first, p, grows, majors)
    PROVE  Carries
<1>1. /\ running \in populated /\ populated # {} /\ phase > 0 /\ phase' = phase /\ ~ Stopped(vm)
      /\ OK(vm, Directories) /\ populated \subseteq Alive
  BY CallFacts DEF SleepProcess
<1>2. /\ vm' = YieldTo(StatusChange(vm, grows, majors), first, p) /\ p \in populated
      /\ directory' = directory /\ populated' = populated /\ running' = p
  BY DEF SleepProcess
<1> DEFINE u == StatusChange(vm, grows, majors)
<1>3. PICK k \in Nat : majors \in [1 .. k -> Major]
  BY MajorsAre
<1>4. Good(u, vm, Directories) /\ OK(u, Directories)
  BY <1>1, <1>3, StatusChangeStep
<1>5. directory[p] \in Directories \ {KernelDirectory}
  BY <1>1, <1>2, AliveDirectories DEF IInv
<1> HIDE DEF u
<1>6. Good(YieldTo(u, first, p), u, Directories)
  BY <1>4, <1>5, YieldStep
<1>7. Good(vm', vm, Directories)
  BY <1>1, <1>2, <1>4, <1>6, GoodThenGood DEF u
<1> QED
  BY <1>1, <1>2, <1>7, CallCarries

LEMMA WakeProcessCarries ==
    ASSUME IInv, NEW grows, NEW majors \in Emptied(1), WakeProcess(grows, majors)
    PROVE  Carries
<1>1. /\ running \in populated /\ populated # {} /\ phase > 0 /\ phase' = phase /\ ~ Stopped(vm)
      /\ OK(vm, Directories) /\ populated \subseteq Alive
  BY CallFacts DEF WakeProcess
<1>2. vm' = StatusChange(vm, grows, majors) /\ directory' = directory /\ populated' = populated /\ running' = running
  BY DEF WakeProcess
<1>3. PICK k \in Nat : majors \in [1 .. k -> Major]
  BY MajorsAre
<1>4. Good(vm', vm, Directories)
  BY <1>1, <1>2, <1>3, StatusChangeStep
<1> QED
  BY <1>1, <1>2, <1>4, CallCarries

LEMMA CreateThreadCarries ==
    ASSUME IInv, NEW growsKernel, NEW grows, CreateThread(growsKernel, grows)
    PROVE  Carries
<1>1. /\ running \in populated /\ populated # {} /\ phase > 0 /\ phase' = phase /\ ~ Stopped(vm)
      /\ OK(vm, Directories) /\ populated \subseteq Alive /\ running \in Alive
  BY CallFacts DEF CreateThread
<1>2. PICK block, args : vm' = StartThread(KernelNew(vm, growsKernel), directory[running], grows, block, args)
  BY DEF CreateThread
<1>3. directory' = directory /\ populated' = populated \cup {running} /\ running' = running
  BY DEF CreateThread
<1> DEFINE u == KernelNew(vm, growsKernel)
<1>4. Good(u, vm, Directories) /\ OK(u, Directories) /\ Settled(u)
  BY <1>1, KernelNewStep
<1>5. directory[running] \in Directories
  BY <1>1, AliveDirectories DEF IInv
<1> HIDE DEF u
<1>6. Good(StartThread(u, directory[running], grows, block, args), u, Directories)
  BY <1>4, <1>5, StartThreadStep
<1>7. Good(vm', vm, Directories)
  BY <1>1, <1>2, <1>4, <1>6, GoodThenGood DEF u
<1> QED
  BY <1>1, <1>3, <1>7, CallCarries

LEMMA SendMessageCallCarries ==
    ASSUME IInv, NEW q \in Alive, NEW grows, NEW straddles \in BOOLEAN, NEW majors \in Emptied(1),
           SendMessageCall(q, grows, straddles, majors)
    PROVE  Carries
<1> DEFINE a == KernelNew(vm, FALSE)
           e == directory[running]
<1>1. /\ running \in populated /\ populated # {} /\ phase > 0 /\ phase' = phase /\ ~ Stopped(vm)
      /\ OK(vm, Directories) /\ populated \subseteq Alive /\ running \in Alive
  BY CallFacts DEF SendMessageCall
<1>2. PICK block \in Blocks(q, grows), source \in DataPages :
          vm' = KernelDeletes(SendMessage(a, source, e, q, grows, block, straddles), majors)
  BY DEF SendMessageCall
<1>3. directory' = directory /\ populated' = populated \cup {q} /\ running' = running
  BY DEF SendMessageCall
<1>4. Good(a, vm, Directories) /\ OK(a, Directories) /\ Settled(a)
  BY <1>1, KernelNewStep
<1>5. e \in Directories /\ directory[q] \in Directories
  BY <1>1, AliveDirectories DEF IInv
<1>6. block \in Nat /\ DirectoryIndex(block) \in Index
  BY <1>1, BlocksFacts
<1>7. PICK k \in Nat : majors \in [1 .. k -> Major]
  BY MajorsAre
<1> HIDE DEF a, e
<1> DEFINE b == SendMessage(a, source, e, q, grows, block, straddles)
<1>8. Good(b, a, Directories) /\ OK(b, Directories)
  BY <1>4, <1>5, <1>6, SendMessageStep
<1> HIDE DEF b
<1>9. Good(KernelDeletes(b, majors), b, Directories)
  BY <1>7, <1>8, KernelDeletesStep
<1>10. Good(b, vm, Directories)
  BY <1>1, <1>4, <1>8, GoodThenGood
<1>11. Good(vm', vm, Directories)
  BY <1>1, <1>2, <1>8, <1>9, <1>10, GoodThenGood DEF b
<1> QED
  BY <1>1, <1>3, <1>11, CallCarries

LEMMA InterruptCarries ==
    ASSUME IInv, NEW p \in Process, NEW grows, NEW majors \in Emptied(1), Interrupt(p, grows, majors)
    PROVE  Carries
<1> DEFINE a == KernelNew(vm, grows)
<1>1. /\ running \in populated /\ populated # {} /\ phase > 0 /\ phase' = phase /\ ~ Stopped(vm)
      /\ OK(vm, Directories) /\ populated \subseteq Alive
  BY CallFacts DEF Interrupt
<1>2. /\ vm' = KernelDeletes(YieldTo(a, running, p), majors) /\ p \in populated
      /\ directory' = directory /\ populated' = populated /\ running' = p
  BY DEF Interrupt
<1>3. PICK k \in Nat : majors \in [1 .. k -> Major]
  BY MajorsAre
<1>4. Good(a, vm, Directories) /\ OK(a, Directories)
  BY <1>1, KernelNewStep
<1>5. directory[p] \in Directories \ {KernelDirectory}
  BY <1>1, <1>2, AliveDirectories DEF IInv
<1> HIDE DEF a
<1> DEFINE b == YieldTo(a, running, p)
<1>6. Good(b, a, Directories) /\ OK(b, Directories)
  BY <1>4, <1>5, YieldStep, GoodIsOK
<1> HIDE DEF b
<1>7. Good(KernelDeletes(b, majors), b, Directories)
  BY <1>3, <1>6, KernelDeletesStep
<1>8. Good(b, vm, Directories)
  BY <1>1, <1>4, <1>6, GoodThenGood
<1>9. Good(vm', vm, Directories)
  BY <1>1, <1>2, <1>6, <1>7, <1>8, GoodThenGood DEF b
<1> QED
  BY <1>1, <1>2, <1>9, CallCarries

LEMMA InterruptMessageCarries ==
    ASSUME IInv, NEW p \in Process, NEW q \in Alive, NEW grows, NEW majors \in Emptied(1),
           InterruptMessage(p, q, grows, majors)
    PROVE  Carries
<1> DEFINE a == KernelNew(vm, FALSE)
           b == YieldTo(a, running, p)
<1>1. /\ running \in populated /\ populated # {} /\ phase > 0 /\ phase' = phase /\ ~ Stopped(vm)
      /\ OK(vm, Directories) /\ Steady(vm, Directories) /\ populated \subseteq Alive /\ running \in Alive
  BY CallFacts DEF InterruptMessage
<1>2. PICK block \in Blocks(q, grows) :
          vm' = KernelDeletes(SendMessage(b, StackPage, KernelDirectory, q, grows, block, FALSE), majors)
  BY DEF InterruptMessage
<1>3. /\ directory' = directory /\ populated' = populated \cup {q} /\ running' = p
      /\ p \in populated /\ (TimerReceives \/ p = running)
  BY <1>1 DEF InterruptMessage
<1>4. Good(a, vm, Directories) /\ OK(a, Directories) /\ Settled(a)
  BY <1>1, KernelNewStep
<1>5. directory[p] \in Directories \ {KernelDirectory} /\ directory[q] \in Directories /\ KernelDirectory \in Directories
  <2>1. directory[q] \in Directories /\ directory[p] \in Directories \ {KernelDirectory}
    BY <1>1, <1>3, AliveDirectories DEF IInv
  <2>2. KernelDirectory \in Directories
    BY DEF Directories
  <2> QED
    BY <2>1, <2>2
<1>6. block \in Nat /\ DirectoryIndex(block) \in Index
  BY <1>1, BlocksFacts
<1>7. PICK k \in Nat : majors \in [1 .. k -> Major]
  BY MajorsAre
<1> HIDE DEF a
<1>8. Good(b, a, Directories) /\ OK(b, Directories)
  BY <1>4, <1>5, YieldStep, GoodIsOK
<1>9. Settled(b)
  BY <1>3, <1>4 DEF Settled, YieldTo
<1> HIDE DEF b
<1> DEFINE c == SendMessage(b, StackPage, KernelDirectory, q, grows, block, FALSE)
<1>10. Good(c, b, Directories) /\ OK(c, Directories)
  <2>1. FALSE \in BOOLEAN
    OBVIOUS
  <2> QED
    BY <1>5, <1>6, <1>8, <1>9, <2>1, SendMessageStep
<1> HIDE DEF c
<1>11. Good(KernelDeletes(c, majors), c, Directories)
  BY <1>7, <1>10, KernelDeletesStep
<1>12. Good(b, vm, Directories)
  BY <1>1, <1>4, <1>8, GoodThenGood
<1>13. Good(c, vm, Directories)
  BY <1>1, <1>8, <1>10, <1>12, GoodThenGood
<1>14. Good(vm', vm, Directories)
  BY <1>1, <1>2, <1>10, <1>11, <1>13, GoodThenGood DEF c
<1> QED
  BY <1>1, <1>3, <1>14, CallCarries

LEMMA PerformPageManagementCarries ==
    ASSUME IInv, NEW page \in ProgramPages, PerformPageManagement(page)
    PROVE  Carries
<1>1. /\ running \in populated /\ populated # {} /\ phase > 0 /\ phase' = phase /\ ~ Stopped(vm)
      /\ OK(vm, Directories) /\ Steady(vm, Directories) /\ populated \subseteq Alive /\ vm.current # KernelDirectory
  BY CallFacts DEF PerformPageManagement
<1>2. directory' = directory /\ populated' = populated /\ running' = running
  BY DEF PerformPageManagement
<1>3. CASE DirectoryIndex(page) = Entries - 1
  <2>1. vm' = Lost
    BY <1>3 DEF PerformPageManagement
  <2> QED
    BY <1>1, <1>2, <2>1, LostIsGood, CallCarries
<1>4. CASE DirectoryIndex(page) # Entries - 1
  <2> DEFINE i == DirectoryIndex(page)
             D == Directories
  <2>1. RetrieveMapping(vm, page) = NotPresent /\ vm' = PlacePage(vm, page)
    BY <1>4 DEF PerformPageManagement
  <2>2. page \in Nat /\ i \in Index /\ TableIndex(page) \in Index
    BY LayoutAssumption, PageParts
  <2>3. At(vm, vm.cr3, page) = NotPresent
    BY <2>1 DEF RetrieveMapping, TableOf, At, Entry
  <2>4. Structure(vm, D, {}, {}) /\ {KernelDirectory, vm.cr3, vm.current} \subseteq D
    BY <1>1, SteadyParts
  <2> HIDE DEF D
  <2>5. i # KernelIndex
    BY <2>2, <2>3, <2>4, SharedLinks0 DEF At
  <2>6. MayMap(vm, D, page)
    <3>1. CASE i \in SharedIndices
      BY <2>2, <2>4, <2>5, <3>1, MayMapShared
    <3>2. CASE i \notin SharedIndices
      <4>1. vm.cr3 # KernelDirectory
        BY <1>1 DEF Steady, Aligned
      <4> QED
        BY <2>2, <3>2, <4>1 DEF MayMap
    <3> QED
      BY <3>1, <3>2
  <2>7. Good(vm', vm, D)
    BY <1>1, <2>1, <2>3, <2>5, <2>6, PlacedIsGood DEF D
  <2> QED
    BY <1>1, <1>2, <2>7, CallCarries DEF D
<1> QED
  BY <1>3, <1>4

LEMMA RequestIdentityMappingCarries ==
    ASSUME IInv, NEW page, RequestIdentityMapping(page)
    PROVE  Carries
<1>1. /\ running \in populated /\ populated # {} /\ phase > 0 /\ phase' = phase /\ ~ Stopped(vm)
      /\ OK(vm, Directories) /\ populated \subseteq Alive
  BY CallFacts DEF RequestIdentityMapping
<1>2. vm' = Lost /\ directory' = directory /\ populated' = populated /\ running' = running
  BY DEF RequestIdentityMapping
<1> QED
  BY <1>1, <1>2, LostIsGood, CallCarries
\* What a step that makes or ends a process has to do.
LEMMA StepCarries ==
    ASSUME IInv, NEW D, OK(vm', D), TypeOK', LastingMapped,
           \A p \in Alive' : directory'[p] \in D,
           \A p, q \in Alive' : directory'[p] = directory'[q] => p = q,
           phase' # 0, running' # Null => running' \in populated',
           Stopped(vm') \/ vm'.current # KernelDirectory
    PROVE  Carries
<1>1. ~ Stopped(vm') => {KernelDirectory, vm'.cr3, vm'.current} \subseteq D
  <2>1. SUFFICES ASSUME ~ Stopped(vm') PROVE {KernelDirectory, vm'.cr3, vm'.current} \subseteq D
    OBVIOUS
  <2>2. Steady(vm', D)
    BY <2>1 DEF OK
  <2> QED
    BY <2>2, SteadyParts
<1> DEFINE E == Directories'
<1>2. E = {KernelDirectory, vm'.cr3, vm'.current} \cup {directory'[p] : p \in Alive'}
  BY DEF Directories
<1> HIDE DEF E
<1>3. OK(vm', E)
  <2>1. CASE Stopped(vm')
    BY <2>1 DEF OK
  <2>2. CASE ~ Stopped(vm')
    <3>1. E \in SUBSET D /\ {KernelDirectory, vm'.cr3, vm'.current} \subseteq E
      BY <1>1, <1>2, <2>2
    <3> QED
      BY <3>1, Fewer
  <2> QED
    BY <2>1, <2>2
<1>4. Stopped(vm') \/ StackMapped(vm', E)
  BY <1>2 DEF StackMapped
<1>5. phase' > 0
  BY DEF TypeOK
<1>6. IInv'
  BY <1>3, <1>4, <1>5 DEF IInv, E
<1> QED
  BY <1>6 DEF Carries

\* A call that makes the process p with the directory n.
LEMMA MadeCarries ==
    ASSUME IInv, NEW n \in Frame, n \notin Directories, NEW p \in Process,
           Partly(vm', vm, Directories \cup {n}, Directories),
           directory' = [directory EXCEPT ![p] = n], populated' = populated \cup {p}, running' = running,
           phase' \in 0 .. Len(Modules) + 1, phase' # 0,
           Stopped(vm') \/ vm'.current # KernelDirectory
    PROVE  Carries
<1> DEFINE D == Directories
           E == D \cup {n}
<1>1. n # NotPresent /\ n # KernelDirectory
  BY StaticTypes
<1>2. OK(vm', E) /\ vm' \in Machines
  BY DEF Partly, OK
<1>3. /\ \A q \in Process : directory'[q] = IF q = p THEN n ELSE directory[q]
      /\ directory' \in [Process -> Frame \cup {NotPresent}]
  BY DEF IInv, TypeOK
<1>4. Alive' = Alive \cup {p}
  BY <1>1, <1>3 DEF Alive
<1>5. \A q \in Alive : directory[q] \in D
  BY DEF Directories
<1>6. TypeOK'
  <2>1. populated' \subseteq Alive'
    BY <1>4 DEF IInv, TypeOK
  <2> QED
    BY <1>2, <1>3, <2>1 DEF IInv, TypeOK
<1>7. LastingMapped
  <2>1. Lasting \subseteq D
    BY <1>5 DEF Lasting
  <2> HIDE DEF D
  <2> QED
    BY <2>1 DEF Partly, LastingMapped, Mapped, D
<1>8. \A q \in Alive' : directory'[q] \in E
  BY <1>3, <1>4, <1>5 DEF Alive
<1>9. ASSUME NEW q \in Alive', NEW r \in Alive', directory'[q] = directory'[r] PROVE q = r
  <2>1. \A s \in Alive : s \in Process /\ directory[s] # n
    BY <1>5 DEF Alive
  <2> QED
    BY <1>3, <1>4, <1>9, <2>1 DEF IInv
<1> HIDE DEF E
<1>10. running' # Null => running' \in populated'
  BY DEF IInv
<1> QED
  BY <1>2, <1>6, <1>7, <1>8, <1>9, <1>10, StepCarries

LEMMA SetUpCarries ==
    ASSUME IInv, SetUp
    PROVE  Carries
<1> DEFINE D == Directories
           v == KernelNew(vm, FALSE)
           u == PlacePage(v, StackPage)
<1>1. /\ phase = 0 /\ phase' = 1 /\ ~ Stopped(vm) /\ OK(vm, D) /\ D = {KernelDirectory}
      /\ directory' = directory /\ populated' = populated /\ running' = running
      /\ vm' = IF ~ Stopped(v) /\ RetrieveMapping(v, StackPage) = NotPresent THEN u ELSE v
  BY DEF IInv, SetUp, Sound, Stopped
<1> HIDE DEF D
<1>2. Good(v, vm, D) /\ OK(v, D)
  BY <1>1, KernelNewStep
<1> HIDE DEF v
<1>3. StackPage \in Nat /\ DirectoryIndex(StackPage) \in SharedIndices \ {KernelIndex}
  BY LayoutAssumption, Layout DEF StackIndex
<1>4. ASSUME ~ Stopped(v)
      PROVE  /\ v.cr3 = KernelDirectory /\ Steady(v, D)
             /\ RetrieveMapping(v, StackPage) = At(v, KernelDirectory, StackPage)
  <2>1. Steady(v, D)
    BY <1>2, <1>4 DEF OK
  <2>2. v.cr3 = KernelDirectory
    BY <1>1, <2>1, SteadyParts
  <2> QED
    BY <2>1, <2>2 DEF RetrieveMapping, TableOf, At, Entry
<1>5. Good(vm', vm, D) /\ (Stopped(vm') \/ At(vm', KernelDirectory, StackPage) # NotPresent)
  <2>1. CASE ~ Stopped(v) /\ RetrieveMapping(v, StackPage) = NotPresent
    <3>0. Steady(v, D) /\ Structure(v, D, {}, {}) /\ v.cr3 = KernelDirectory /\ At(v, v.cr3, StackPage) = NotPresent
      BY <1>4, <2>1, SteadyParts
    <3>1. MayMap(v, D, StackPage)
      BY <1>3, <3>0, MayMapShared
    <3>2. Good(u, v, D) /\ (~ Stopped(u) => At(u, KernelDirectory, StackPage) # NotPresent)
      <4>1. DirectoryIndex(StackPage) # KernelIndex
        BY <1>3
      <4>2. Good(u, v, D) /\ (~ Stopped(u) => At(u, v.cr3, StackPage) # NotPresent)
        BY <3>0, <3>1, <4>1, PlacedIsGood
      <4> QED
        BY <3>0, <4>2
    <3> QED
      BY <1>1, <1>2, <2>1, <3>2, GoodThenGood
  <2>2. CASE ~ (~ Stopped(v) /\ RetrieveMapping(v, StackPage) = NotPresent)
    BY <1>1, <1>2, <1>4, <2>2
  <2> QED
    BY <2>1, <2>2
<1>6. Alive = {} /\ populated = {} /\ running = Null
  <2>1. \A p \in Alive : FALSE
    BY <1>1, AliveDirectories DEF IInv, D
  <2> QED
    BY <1>1, <2>1 DEF IInv, TypeOK
<1>7. Alive' = Alive
  BY <1>1 DEF Alive
<1>8. OK(vm', D) /\ vm' \in Machines
  BY <1>5 DEF Good, Fine, OK
<1>9. TypeOK'
  <2>1. 1 \in 0 .. Len(Modules) + 1
    BY AddressSpacesAssumption
  <2> QED
    BY <1>1, <1>7, <1>8, <2>1 DEF IInv, TypeOK
<1>10. OK(vm', Directories')
  <2>1. CASE Stopped(vm')
    BY <1>8, <2>1 DEF OK
  <2>2. CASE ~ Stopped(vm')
    <3>1. {KernelDirectory, vm'.cr3, vm'.current} \subseteq D
      BY <1>8, <2>2, SteadyParts DEF OK
    <3>2. Directories' = {KernelDirectory, vm'.cr3, vm'.current}
      BY <1>6, <1>7 DEF Directories
    <3>3. Directories' = D
      BY <1>1, <3>1, <3>2
    <3> QED
      BY <1>8, <3>3
  <2> QED
    BY <2>1, <2>2
<1>11. IInv'
  BY <1>1, <1>5, <1>6, <1>7, <1>9, <1>10 DEF IInv, StackMapped
<1>12. LastingMapped
  BY <1>6 DEF Lasting, LastingMapped, Mapped
<1> QED
  BY <1>11, <1>12 DEF Carries

\* ClonePageDirectory before the process is made, and where it leads.
LEMMA CloneFacts ==
    ASSUME IInv, phase > 0, ~ Stopped(vm), ~ Stopped(TakeClear(vm))
    PROVE  /\ Steady(vm, Directories) /\ NextFrame(vm) \in Frame /\ NextFrame(vm) \notin Directories
           /\ Cloned(ClonePageDirectory(vm), vm, Directories, NextFrame(vm))
<1>1. Steady(vm, Directories) /\ StackMapped(vm, Directories)
  BY DEF IInv, OK
<1>2. Structure(vm, Directories, {}, {})
  BY <1>1, SteadyParts
<1>3. Taken(TakeClear(vm), vm, Directories, {}, {}, NextFrame(vm))
  BY <1>2, TakeClearStep
<1>4. NextFrame(vm) \in Frame /\ NextFrame(vm) \notin Directories
  BY <1>3 DEF Taken
<1>5. Cloned(ClonePageDirectory(vm), vm, Directories, NextFrame(vm))
  BY <1>1, <1>2, CloneStep
<1> QED
  BY <1>1, <1>4, <1>5

LEMMA LoadModuleCarries ==
    ASSUME IInv, LoadModule
    PROVE  Carries
<1> DEFINE D == Directories
           n == NextFrame(vm)
           p == Modules[phase]
           E == D \cup {n}
           r == ClonePageDirectory(vm)
           w == Switch(r, n)
           made == NewProcess(w, n)
           started == ELFStart(made, p, n)
<1>1. /\ phase \in 1 .. Len(Modules) /\ ~ Stopped(vm) /\ phase' = phase + 1 /\ running' = running
      /\ phase' \in 0 .. Len(Modules) + 1 /\ phase' # 0 /\ phase > 0
  <2>1. Len(Modules) \in Nat
    BY AddressSpacesAssumption
  <2>2. phase \in 1 .. Len(Modules) /\ ~ Stopped(vm) /\ phase' = phase + 1 /\ running' = running
    BY DEF LoadModule, Sound, Stopped
  <2> QED
    BY <2>1, <2>2
<1>2. p \in Process /\ p \in ModuleSet
  <2>1. \A i \in 1 .. Len(Modules) : Modules[i] \in Process
    BY AddressSpacesAssumption, ElementOfSeq
  <2> QED
    BY <1>1, <2>1 DEF ModuleSet
<1>3. CASE Stopped(TakeClear(vm))
  <2>1. vm' = Lost /\ directory' = directory /\ populated' = populated
    BY <1>3 DEF LoadModule
  <2>2. Stopped(vm') /\ OK(vm', D) /\ vm' \in Machines
    BY <2>1, LostIsGood DEF OK
  <2>3. Alive' = Alive
    BY <2>1 DEF Alive
  <2>4. TypeOK'
    BY <1>1, <2>1, <2>2, <2>3 DEF IInv, TypeOK
  <2>5. LastingMapped
    BY <2>2 DEF LastingMapped
  <2>6. /\ \A q \in Alive' : directory'[q] \in D
        /\ \A q, s \in Alive' : directory'[q] = directory'[s] => q = s
        /\ running' # Null => running' \in populated'
    BY <1>1, <2>1, <2>3 DEF IInv, Directories
  <2> HIDE DEF D
  <2> QED
    BY <1>1, <2>2, <2>4, <2>5, <2>6, StepCarries
<1>4. CASE ~ Stopped(TakeClear(vm))
  <2>1. vm' = started /\ directory' = [directory EXCEPT ![p] = n] /\ populated' = populated \cup {p}
    BY <1>4 DEF LoadModule
  <2>2. Steady(vm, D) /\ n \in Frame /\ n \notin D /\ Cloned(r, vm, D, n)
    BY <1>1, <1>4, CloneFacts
  <2> HIDE DEF D, n, p, r
  <2>3. /\ w \in Machines
        /\ ~ Stopped(w) => /\ n \in Frame \ D /\ Structure(w, E, {}, {}) /\ Same(w, vm, D) /\ w.heapEnd = vm.heapEnd
                           /\ Aligned(w) /\ w.current = n
    <3>1. CASE Stopped(r)
      <4>1. w = r
        BY <3>1 DEF Switch
      <4> QED
        BY <2>2, <3>1, <4>1 DEF Cloned
    <3>2. CASE ~ Stopped(r)
      <4>1. /\ Structure(r, E, {}, {}) /\ Kept(r, vm) /\ Same(r, vm, D) /\ r \in Machines /\ r.mode = "sound"
            /\ KernelDirectory \in E
        <5>1. Structure(r, E, {}, {}) /\ Kept(r, vm) /\ Same(r, vm, D)
          BY <2>2, <3>2 DEF Cloned
        <5> QED
          BY <5>1, Basics
      <4>2. w = [r EXCEPT !.cr3 = n, !.current = n]
        BY <3>2 DEF Switch
      <4>3. /\ w \in Machines /\ w.mode = "sound" /\ w.mem = r.mem /\ w.free = r.free /\ w.cr3 = n /\ w.current = n
            /\ w.heapEnd = r.heapEnd
        BY <2>2, <4>1, <4>2 DEF Machines
      <4> HIDE DEF w
      <4>4. Structure(w, E, {}, {}) /\ Same(w, r, E)
        <5>1. /\ E \in SUBSET E /\ {KernelDirectory, w.cr3, w.current} \subseteq E
              /\ {} \in SUBSET Frame /\ w.free \cap {} = {} /\ w.free \cup {} \subseteq r.free \cup {} /\ {} \subseteq {}
          BY <4>1, <4>3
        <5> QED
          BY <4>1, <4>3, <5>1, Regroup
      <4>5. Same(w, vm, D)
        <5>1. Same(w, r, D)
          BY <4>4 DEF Same
        <5> QED
          BY <4>1, <5>1, SameThenSame
      <4>6. Aligned(w) /\ w.heapEnd = vm.heapEnd
        BY <4>1, <4>3 DEF Aligned, Kept
      <4> QED
        BY <2>2, <4>3, <4>4, <4>5, <4>6
    <3> QED
      BY <3>1, <3>2
  <2> HIDE DEF w
  <2>4. Partly(made, vm, E, D) /\ (~ Stopped(made) => made.current = n)
    BY <2>2, <2>3, NewProcessStep
  <2> HIDE DEF made
  <2>5. OK(made, E) /\ n \in E \ {KernelDirectory}
    BY <2>2, <2>4, StaticTypes DEF Partly
  <2>6. Good(started, made, E)
    BY <1>2, <2>4, <2>5, ELFStartStep
  <2>7. Partly(started, vm, E, D)
    <3>1. D \in SUBSET E /\ vm \in Machines /\ Fine(started, made, E)
      BY <2>2, <2>6, SteadyParts DEF Good
    <3> QED
      BY <2>4, <3>1, PartlyThenFine
  <2>8. Stopped(started) \/ started.current # KernelDirectory
    BY <2>4, <2>5, <2>6 DEF Good, Fine
  <2> HIDE DEF started
  <2>9. Partly(vm', vm, Directories \cup {n}, Directories)
    BY <2>1, <2>7 DEF D
  <2> QED
    BY <1>1, <1>2, <2>1, <2>2, <2>8, <2>9, MadeCarries DEF D
<1> QED
  BY <1>3, <1>4

LEMMA CreateProcessCarries ==
    ASSUME IInv, NEW p \in Process, CreateProcess(p)
    PROVE  Carries
<1> DEFINE D == Directories
           n == NextFrame(vm)
           E == D \cup {n}
           r == ClonePageDirectory(vm)
           made == NewProcess(r, n)
           open == MapMemory(made, 0, WindowDirectory)
           copied == EraseMapping(open, WindowDirectory)
           object == KernelNew(copied, FALSE)
           started == StartThread(object, n, FALSE, UserHeapStart, 0)
<1>1. /\ running \in populated /\ populated # {} /\ phase > 0 /\ phase' = phase /\ ~ Stopped(vm)
      /\ OK(vm, D) /\ populated \subseteq Alive /\ vm.current # KernelDirectory /\ running' = running
      /\ phase' \in 0 .. Len(Modules) + 1 /\ phase' # 0
  <2>1. /\ running \in populated /\ populated # {} /\ phase > 0 /\ phase' = phase /\ ~ Stopped(vm)
        /\ OK(vm, D) /\ populated \subseteq Alive /\ vm.current # KernelDirectory /\ running' = running
    BY CallFacts DEF CreateProcess
  <2>2. phase \in 0 .. Len(Modules) + 1
    BY DEF IInv, TypeOK
  <2> QED
    BY <2>1, <2>2
<1>2. CASE Stopped(TakeClear(vm))
  <2>1. vm' = Lost /\ directory' = directory /\ populated' = populated
    BY <1>2 DEF CreateProcess
  <2>2. Good(vm', vm, D)
    BY <2>1, LostIsGood
  <2> QED
    BY <1>1, <2>1, <2>2, CallCarries DEF D
<1>3. CASE ~ Stopped(TakeClear(vm))
  <2>1. /\ vm' = IF ~ BlocksAligned THEN Lost ELSE started
        /\ directory' = [directory EXCEPT ![p] = n] /\ populated' = populated \cup {p}
    BY <1>3 DEF CreateProcess
  <2>2. Steady(vm, D) /\ n \in Frame /\ n \notin D /\ Cloned(r, vm, D, n)
    BY <1>1, <1>3, CloneFacts
  <2> HIDE DEF D, n, r
  <2>3. /\ r \in Machines
        /\ ~ Stopped(r) => /\ n \in Frame \ D /\ Structure(r, E, {}, {}) /\ Same(r, vm, D) /\ r.heapEnd = vm.heapEnd
                           /\ Aligned(r) /\ r.current = vm.current
    <3>1. Aligned(vm)
      BY <2>2 DEF Steady
    <3> QED
      BY <2>2, <3>1 DEF Cloned, Kept, Aligned
  <2>4. Partly(made, vm, E, D) /\ Settled(made) /\ (~ Stopped(made) => made.current = vm.current)
    BY <2>2, <2>3, NewProcessStep
  <2> HIDE DEF made
  <2>5. OK(made, E) /\ n \in E
    BY <2>4 DEF Partly
  <2> HIDE DEF E
  <2>6. Good(copied, made, E) /\ (~ Stopped(copied) => copied.cr3 = made.cr3)
    <3>1. WindowDirectory \in Windows /\ 0 \in Word
      BY StaticTypes DEF Windows
    <3>2. Windowed(made, made, E, {})
      BY <2>5, WindowedSelf
    <3>3. Windowed(open, made, E, {} \cup {TableIndex(WindowDirectory)})
      BY <3>1, <3>2, WindowedOpen
    <3> HIDE DEF open
    <3>4. Windowed(copied, made, E, ({} \cup {TableIndex(WindowDirectory)}) \ {TableIndex(WindowDirectory)})
      BY <3>1, <3>3, WindowedClose
    <3>5. ({} \cup {TableIndex(WindowDirectory)}) \ {TableIndex(WindowDirectory)} = {}
      OBVIOUS
    <3>6. Windowed(copied, made, E, {})
      BY <3>4, <3>5
    <3> HIDE DEF copied
    <3> QED
      BY <2>5, <3>6, WindowedIsGood
  <2> HIDE DEF copied
  <2>7. OK(copied, E)
    BY <2>6, GoodIsOK
  <2>8. Good(object, copied, E) /\ Settled(object) /\ OK(object, E)
    BY <2>7, KernelNewStep
  <2> HIDE DEF object
  <2>9. Good(started, object, E)
    BY <2>5, <2>8, StartThreadStep
  <2> HIDE DEF started
  <2>10. Good(object, made, E)
    BY <2>5, <2>6, <2>8, GoodThenGood
  <2>11. Good(started, made, E)
    BY <2>5, <2>8, <2>9, <2>10, GoodThenGood
  <2>12. vm \in Machines /\ D \in SUBSET E
    BY <2>2, SteadyParts DEF E
  <2>13. Partly(started, vm, E, D)
    BY <2>4, <2>11, <2>12, PartlyThenFine DEF Good
  <2>14. Stopped(started) \/ started.current # KernelDirectory
    BY <1>1, <2>4, <2>11 DEF Good, Fine
  <2>15. Partly(Lost, vm, E, D) /\ Stopped(Lost)
    BY LostIsGood DEF Partly
  <2>16. Partly(vm', vm, Directories \cup {n}, Directories) /\ (Stopped(vm') \/ vm'.current # KernelDirectory)
    BY <2>1, <2>13, <2>14, <2>15 DEF D, E
  <2> QED
    BY <1>1, <2>1, <2>2, <2>16, MadeCarries DEF D
<1> QED
  BY <1>2, <1>3

LEMMA KillProcessCarries ==
    ASSUME IInv, NEW q \in Process, NEW p \in Process, NEW grows,
           NEW majors \in Emptied(KillDeletes), NEW last \in Emptied(1), KillProcess(q, p, grows, majors, last)
    PROVE  Carries
<1> DEFINE D == Directories
           d == directory[q]
           ended == DestroyHeap(vm, d)
           deleted == KernelDeletes(ended, majors)
           message == KernelNew(deleted, grows)
           sent == KernelDeletes(message, last)
           yielded == YieldTo(sent, running, p)
<1>1. /\ running \in populated /\ phase > 0 /\ phase' = phase /\ ~ Stopped(vm)
      /\ Steady(vm, D) /\ populated \subseteq Alive /\ vm.current # KernelDirectory
  BY CallFacts DEF KillProcess
<1>2. /\ q \in Alive /\ p \in populated \ {q} /\ vm' \in {Lost, yielded}
      /\ running' = p /\ directory' = [directory EXCEPT ![q] = NotPresent] /\ populated' = populated \ {q}
  BY DEF KillProcess
<1>3. d \in D \ {KernelDirectory} /\ directory[p] \in D \ {KernelDirectory}
  BY <1>1, <1>2, AliveDirectories DEF IInv
<1>4. PICK j \in Nat : majors \in [1 .. j -> Major]
  BY MajorsAre, AddressSpacesAssumption
<1>5. PICK k \in Nat : last \in [1 .. k -> Major]
  BY MajorsAre
<1>6. \A e \in Alive : directory[e] \in D
  BY DEF Directories
<1> HIDE DEF D
<1>7. Partly(yielded, vm, D, D \ {d}) /\ (~ Stopped(yielded) => yielded.current = vm.current)
  <2>1. Partly(ended, vm, D, D \ {d}) /\ (~ Stopped(ended) => ended.current = vm.current) /\ OK(ended, D)
    BY <1>1, <1>3, DestroyHeapStep DEF Partly
  <2> HIDE DEF ended
  <2>2. Good(deleted, ended, D) /\ OK(deleted, D)
    BY <1>4, <2>1, KernelDeletesStep
  <2> HIDE DEF deleted
  <2>3. Good(message, deleted, D) /\ OK(message, D)
    BY <2>2, KernelNewStep
  <2> HIDE DEF message
  <2>4. Good(sent, message, D) /\ OK(sent, D)
    BY <1>5, <2>3, KernelDeletesStep
  <2> HIDE DEF sent
  <2>5. Good(yielded, sent, D)
    BY <1>3, <2>4, YieldStep
  <2> HIDE DEF yielded
  <2>6. Good(message, ended, D)
    BY <2>1, <2>2, <2>3, GoodThenGood
  <2>7. Good(sent, ended, D)
    BY <2>1, <2>3, <2>4, <2>6, GoodThenGood
  <2>8. Good(yielded, ended, D)
    BY <2>1, <2>4, <2>5, <2>7, GoodThenGood
  <2>9. vm \in Machines /\ D \ {d} \in SUBSET D
    BY <1>1, SteadyParts
  <2>10. Partly(yielded, vm, D, D \ {d})
    BY <2>1, <2>8, <2>9, PartlyThenFine DEF Good
  <2> QED
    BY <2>1, <2>8, <2>10 DEF Good, Fine
<1> HIDE DEF yielded
<1>8. Partly(vm', vm, D, D \ {d}) /\ (Stopped(vm') \/ vm'.current # KernelDirectory)
  BY <1>1, <1>2, <1>7, LostIsGood DEF Partly
<1>9. OK(vm', D) /\ vm' \in Machines
  BY <1>8 DEF Partly, OK
<1>10. /\ \A e \in Process : directory'[e] = IF e = q THEN NotPresent ELSE directory[e]
       /\ directory' \in [Process -> Frame \cup {NotPresent}]
  BY <1>2 DEF IInv, TypeOK
<1>11. Alive' = Alive \ {q}
  BY <1>10 DEF Alive
<1>12. TypeOK'
  <2>1. populated' \subseteq Alive' /\ running' \in Process
    BY <1>2, <1>11 DEF IInv, TypeOK
  <2> QED
    BY <1>1, <1>9, <1>10, <2>1 DEF IInv, TypeOK
<1>13. LastingMapped
  <2>1. ASSUME NEW e \in Alive, directory'[e] = directory[e] PROVE directory[e] \in D \ {d}
    <3>1. directory[q] # NotPresent /\ e \in Process /\ directory'[q] = NotPresent
      BY <1>2, <1>10 DEF Alive
    <3>2. e # q
      BY <2>1, <3>1
    <3> QED
      BY <1>2, <1>6, <3>2 DEF IInv
  <2>2. Lasting \subseteq D \ {d}
    BY <2>1 DEF Lasting
  <2> HIDE DEF d
  <2> QED
    BY <1>8, <2>2 DEF Partly, LastingMapped, Mapped
<1>14. \A e \in Alive' : directory'[e] \in D
  BY <1>6, <1>10, <1>11 DEF Alive
<1>15. \A e, f \in Alive' : directory'[e] = directory'[f] => e = f
  BY <1>10, <1>11 DEF IInv, Alive
<1>16. phase' # 0 /\ (running' # Null => running' \in populated')
  <2>1. phase \in Nat
    BY DEF IInv, TypeOK
  <2> QED
    BY <1>1, <1>2, <2>1
<1> QED
  BY <1>8, <1>9, <1>12, <1>13, <1>14, <1>15, <1>16, StepCarries
----------------------------------------------------------------------------
(* The initial state. *)

BootIndex == DirectoryIndex(KernelHeapStart)

\* Machines after k turns of Initialise's loop: the k frames it took are the
\* tables of the first regions of the kernel heap.
Booted(k) == {v \in Machines : Stopped(v) \/
    /\ v.cr3 = KernelDirectory /\ v.current = KernelDirectory /\ v.heapEnd = Machine.heapEnd
    /\ \A f \in Frames \ {KernelDirectory}, j \in Index : v.mem[f][j] = Machine.mem[f][j]
    /\ \A j \in Index :
          IF j \in BootIndex .. BootIndex + k - 1 THEN v.mem[KernelDirectory][j] \in Frame \ v.free
          ELSE v.mem[KernelDirectory][j] = IF j = KernelIndex THEN KernelTable ELSE NotPresent
    /\ \A j, l \in Index : j # l /\ v.mem[KernelDirectory][j] = v.mem[KernelDirectory][l]
          => v.mem[KernelDirectory][j] = NotPresent}

LEMMA MachineWords ==
    /\ \A f \in Frame, i \in Index : Machine.mem[f][i] = NotPresent
    /\ \A i \in Index : Machine.mem[KernelTable][i] = KernelTable
    /\ \A i \in Index : Machine.mem[KernelDirectory][i] = IF i = KernelIndex THEN KernelTable ELSE NotPresent
    /\ Machine.free = Frame /\ Machine.cr3 = KernelDirectory /\ Machine.current = KernelDirectory
    /\ Machine.heapEnd[KernelDirectory] = KernelHeapStart /\ Machine \in Machines
<1>1. /\ \A f \in Frame : f \in Frame \cup StaticFrames /\ f # 0 /\ f # KernelTable /\ f # KernelDirectory
      /\ KernelDirectory \in Frame \cup StaticFrames /\ KernelDirectory # 0 /\ KernelDirectory # KernelTable
      /\ KernelTable \in Frame \cup StaticFrames /\ KernelTable # 0
  BY AddressSpacesAssumption DEF StaticFrames
<1>2. \A f \in Frame, i \in Index : Machine.mem[f][i] = NotPresent
  BY <1>1 DEF Machine, Blank
<1>3. \A i \in Index : Machine.mem[KernelDirectory][i] = IF i = KernelIndex THEN KernelTable ELSE NotPresent
  BY <1>1 DEF Machine, Blank, KernelIndex
<1>4. \A i \in Index : Machine.mem[KernelTable][i] = KernelTable
  BY <1>1 DEF Machine
<1> QED
  BY <1>2, <1>3, <1>4, MachineTypes DEF Machine, HeapStart

LEMMA AddTableStep ==
    ASSUME NEW k \in Nat, NEW v \in Booted(k), BootIndex + k \in KernelHeapIndices
    PROVE  AddTable(v, BootIndex + k) \in Booted(k + 1)
<1> DEFINE i == BootIndex + k
           n == NextFrame(v)
           w == TakeClear(v)
           u == Put(w, KernelDirectory, i, n)
<1>0. v \in Machines
  BY DEF Booted
<1>1. CASE Stopped(w)
  <2>1. w \in Machines
    BY <1>0, MachineTypes DEF TakeClear, Take, Machines
  <2>2. AddTable(v, i) = w
    BY <1>1 DEF AddTable
  <2> QED
    BY <1>1, <2>1, <2>2 DEF Booted
<1>2. CASE ~ Stopped(w)
  <2>1. AddTable(v, i) = u
    BY <1>2 DEF AddTable, Put
  <2>2. ~ Stopped(Lost)
        \/ (~ Stopped(v) /\ n \in v.free /\ w = [v EXCEPT !.free = @ \ {n}])
    BY <1>2 DEF TakeClear, Take
  <2>3. ~ Stopped(v) /\ n \in v.free /\ w = [v EXCEPT !.free = @ \ {n}]
    BY <2>2, MachineTypes DEF Stopped
  <2>4. /\ v.cr3 = KernelDirectory /\ v.current = KernelDirectory /\ v.heapEnd = Machine.heapEnd
        /\ \A f \in Frames \ {KernelDirectory}, j \in Index : v.mem[f][j] = Machine.mem[f][j]
        /\ \A j \in Index :
              IF j \in BootIndex .. BootIndex + k - 1 THEN v.mem[KernelDirectory][j] \in Frame \ v.free
              ELSE v.mem[KernelDirectory][j] = IF j = KernelIndex THEN KernelTable ELSE NotPresent
        /\ \A j, l \in Index : j # l /\ v.mem[KernelDirectory][j] = v.mem[KernelDirectory][l]
              => v.mem[KernelDirectory][j] = NotPresent
    BY <2>3 DEF Booted
  <2>5. /\ n \in v.free /\ n \in Frame /\ n # NotPresent /\ n # KernelTable /\ n \in Word /\ KernelDirectory \in Frames
    BY <1>0, <2>3, StaticTypes DEF Machines
  <2>6. BootIndex \in Nat /\ i \in Index /\ i # KernelIndex
        /\ \A j \in Index : /\ j \in BootIndex .. BootIndex + (k + 1) - 1 <=> j = i \/ j \in BootIndex .. BootIndex + k - 1
                            /\ ~ (i \in BootIndex .. BootIndex + k - 1)
    <3>1. BootIndex \in Nat
      BY Regions DEF BootIndex
    <3>2. i \in Index /\ i # KernelIndex
      BY Layout
    <3>3. \A j \in Index : j \in Int
      BY Regions DEF Index
    <3> QED
      BY <3>1, <3>2, <3>3
  <2> HIDE DEF n, i
  <2>7. /\ w \in Machines /\ w.mem = v.mem /\ w.free = v.free \ {n}
        /\ w.cr3 = v.cr3 /\ w.current = v.current /\ w.heapEnd = v.heapEnd
    BY <1>0, <2>3 DEF Machines
  <2> HIDE DEF w
  <2>8. Writes(u, w, KernelDirectory, i, n)
    BY <2>5, <2>6, <2>7, Poke
  <2> HIDE DEF u
  <2>9. \A j \in Index : u.mem[KernelDirectory][j] = IF j = i THEN n ELSE v.mem[KernelDirectory][j]
    BY <2>5, <2>7, <2>8 DEF Writes
  <2>10. \A f \in Frames \ {KernelDirectory}, j \in Index : u.mem[f][j] = Machine.mem[f][j]
    BY <2>4, <2>7, <2>8 DEF Writes
  <2>11. u \in Machines /\ u.free = v.free \ {n}
         /\ u.cr3 = KernelDirectory /\ u.current = KernelDirectory /\ u.heapEnd = Machine.heapEnd
    BY <2>4, <2>7, <2>8 DEF Writes
  <2>12. ASSUME NEW j \in Index
         PROVE  IF j \in BootIndex .. BootIndex + (k + 1) - 1 THEN u.mem[KernelDirectory][j] \in Frame \ u.free
                ELSE u.mem[KernelDirectory][j] = IF j = KernelIndex THEN KernelTable ELSE NotPresent
    <3>1. CASE j = i
      BY <2>5, <2>6, <2>9, <2>11, <3>1
    <3>2. CASE j # i
      BY <2>4, <2>6, <2>9, <2>11, <3>2
    <3> QED
      BY <3>1, <3>2
  <2>13. \A j \in Index : v.mem[KernelDirectory][j] # n
    BY <2>4, <2>5
  <2>14. \A j, l \in Index : j # l /\ u.mem[KernelDirectory][j] = u.mem[KernelDirectory][l]
              => u.mem[KernelDirectory][j] = NotPresent
    BY <2>4, <2>9, <2>13
  <2>15. u \in Booted(k + 1)
    BY <2>10, <2>11, <2>12, <2>14 DEF Booted
  <2> QED
    BY <2>1, <2>15 DEF i
<1> QED
  BY <1>1, <1>2

LEMMA BootedIsSteady ==
    ASSUME NEW k \in Nat, BootIndex + k - 1 = DirectoryIndex(KernelHeapEnd), NEW v \in Booted(k), ~ Stopped(v)
    PROVE  Steady(v, {KernelDirectory}) /\ v.cr3 = KernelDirectory /\ v.current = KernelDirectory
<1> DEFINE K == KernelDirectory
           D == {KernelDirectory}
           Table(i, f) == i \in KernelHeapIndices /\ v.mem[K][i] = f
           holder == [f \in Frames |-> IF \E i \in Index : Table(i, f) THEN K ELSE 0]
           slot == [f \in Frames |-> IF \E i \in Index : Table(i, f) THEN CHOOSE i \in Index : Table(i, f) ELSE 0]
<1>1. /\ v \in Machines /\ v.mode = "sound" /\ v.cr3 = K /\ v.current = K /\ v.heapEnd = Machine.heapEnd
      /\ \A f \in Frames \ {K}, i \in Index : v.mem[f][i] = Machine.mem[f][i]
      /\ \A i \in Index : IF i \in KernelHeapIndices THEN v.mem[K][i] \in Frame \ v.free
                          ELSE v.mem[K][i] = IF i = KernelIndex THEN KernelTable ELSE NotPresent
      /\ \A i, j \in Index : i # j /\ v.mem[K][i] = v.mem[K][j] => v.mem[K][i] = NotPresent
  <2>1. BootIndex .. BootIndex + k - 1 = KernelHeapIndices
    BY DEF BootIndex, KernelHeapIndices
  <2> QED
    BY <2>1 DEF Booted, Stopped
<1>2. \A f \in Frame, i \in Index : v.mem[f][i] = NotPresent
  BY <1>1, MachineWords, StaticTypes
<1>3. \A i \in Index : v.mem[K][i] # NotPresent /\ i # KernelIndex =>
          i \in KernelHeapIndices /\ v.mem[K][i] \in Frame \ v.free
  BY <1>1
<1>4. Sorted(v, D, {})
  BY <1>1, StaticTypes DEF Sorted, Machines
<1>5. Common(v, D)
  <2>1. KernelHeapIndices \subseteq Index /\ KernelIndex \in Index \ KernelHeapIndices
    BY Layout
  <2>2. \A i \in KernelHeapIndices : v.mem[K][i] # NotPresent
    BY <1>1, <2>1, StaticTypes
  <2>3. v.mem[K][KernelIndex] = KernelTable
    BY <1>1, <2>1
  <2>4. \A j \in Index : v.mem[KernelTable][j] # NotPresent
    BY <1>1, MachineWords, StaticTypes
  <2>5. \A i \in Index \ (SharedIndices \cup {WindowIndex}) : v.mem[K][i] = NotPresent
    BY <1>1, Layout
  <2> QED
    BY <2>2, <2>3, <2>4, <2>5 DEF Common
<1>6. holder \in [Frames -> Nat] /\ slot \in [Frames -> Nat]
  <2>1. Index \subseteq Nat /\ K \in Nat
    BY Regions, StaticTypes DEF Index
  <2>2. \A f \in Frames : (IF \E i \in Index : Table(i, f) THEN CHOOSE i \in Index : Table(i, f) ELSE 0) \in Nat
    <3> HIDE DEF Table
    <3> QED
      BY <2>1
  <2> HIDE DEF Table
  <2> QED
    BY <2>1, <2>2
<1>7. ASSUME NEW i \in Index, v.mem[K][i] # NotPresent, i # KernelIndex
      PROVE  v.mem[K][i] \in Frame /\ holder[v.mem[K][i]] = K /\ slot[v.mem[K][i]] = i
  <2> DEFINE f == v.mem[K][i]
  <2>1. f \in Frame /\ f \in Frames /\ Table(i, f) /\ f # NotPresent
    BY <1>3, <1>7, StaticTypes
  <2>2. \A j \in Index : Table(j, f) => j = i
    BY <1>1, <1>7
  <2> HIDE DEF f, Table
  <2>3. (CHOOSE j \in Index : Table(j, f)) = i
    BY <2>1, <2>2
  <2>4. holder[f] = K /\ slot[f] = i
    BY <2>1, <2>3
  <2> QED
    BY <2>1, <2>4 DEF f
<1>8. ASSUME NEW f \in v.free \cup D PROVE holder[f] = 0
  <2>1. f \in Frames /\ ~ \E i \in Index : Table(i, f)
    BY <1>1, StaticTypes DEF Machines
  <2> HIDE DEF Table
  <2> QED
    BY <2>1
<1> HIDE DEF holder, slot
<1>9. Held(v, D, {}, {}, holder, slot)
  <2>1. ASSUME NEW i \in Index, NEW j \in Index, Page(v, {}, K, i, j) PROVE FALSE
    <3>1. v.mem[K][i] # NotPresent /\ i # KernelIndex /\ v.mem[v.mem[K][i]][j] # NotPresent
      BY <2>1 DEF Page, Link
    <3> QED
      BY <1>2, <1>7, <3>1
  <2> QED
    BY <1>7, <1>8, <2>1 DEF Held, Link
<1>10. Structure(v, D, {}, {})
  BY <1>4, <1>5, <1>6, <1>9 DEF Structure
<1>11. Ends(v, D) /\ Filled(v, D) /\ Aligned(v)
  BY <1>1, MachineWords, LayoutAssumption DEF Ends, Filled, Aligned, HeapStart, HeapMax
<1> QED
  BY <1>1, <1>10, <1>11 DEF Steady

LEMMA InitialiseStep == Initialise(Machine) \in Booted(DirectoryIndex(KernelHeapEnd) - BootIndex + 1)
<1> DEFINE n == DirectoryIndex(KernelHeapEnd) - BootIndex + 1
           X == [i \in 0 .. n |-> Booted(i)]
           op == [a \in (1 .. n) \X Machines |-> AddTable(a[2], BootIndex + a[1] - 1)]
           Unfolded(f) == f = [k \in 0 .. n |-> IF k = 0 THEN Machine ELSE AddTable(f[k - 1], BootIndex + k - 1)]
<1>1. /\ n \in Nat /\ BootIndex \in Nat
      /\ \A i \in 1 .. n : /\ BootIndex + i - 1 = BootIndex + (i - 1) /\ BootIndex + (i - 1) \in KernelHeapIndices
                           /\ i - 1 \in Nat /\ (i - 1) + 1 = i
                           /\ i \in 0 .. n /\ i - 1 \in 0 .. n /\ i # 0
      /\ \A i \in 0 .. n : i # 0 => i \in 1 .. n
      /\ 0 \in 0 .. n /\ n \in 0 .. n
  <2>1. /\ DirectoryIndex(KernelHeapEnd) \in Nat /\ BootIndex \in Nat /\ BootIndex <= DirectoryIndex(KernelHeapEnd)
        /\ KernelHeapIndices = BootIndex .. DirectoryIndex(KernelHeapEnd)
    BY Regions DEF BootIndex, KernelHeapIndices
  <2>2. n \in Nat /\ n = DirectoryIndex(KernelHeapEnd) - BootIndex + 1
    BY <2>1
  <2> HIDE DEF n
  <2> QED
    BY <2>1, <2>2
<1> HIDE DEF n
<1>2. \A i \in 0 .. n : X[i] = Booted(i) /\ X[i] \subseteq Machines
  BY DEF Booted
<1>3. Machine \in X[0]
  <2>1. BootIndex .. BootIndex + 0 - 1 = {}
    BY <1>1
  <2>2. \A i, j \in Index : i # j /\ Machine.mem[KernelDirectory][i] = Machine.mem[KernelDirectory][j]
              => Machine.mem[KernelDirectory][i] = NotPresent
    BY MachineWords
  <2>3. Machine \in Booted(0)
    BY <2>1, <2>2, MachineWords DEF Booted
  <2> QED
    BY <1>1, <2>3
<1> HIDE DEF X
<1>4. ASSUME NEW i \in 1 .. n, NEW x \in X[i - 1]
      PROVE  AddTable(x, BootIndex + i - 1) \in X[i] /\ op[<<i, x>>] = AddTable(x, BootIndex + i - 1)
  <2>1. x \in Booted(i - 1) /\ x \in Machines
    BY <1>1, <1>2
  <2>2. AddTable(x, BootIndex + (i - 1)) \in Booted((i - 1) + 1)
    BY <1>1, <2>1, AddTableStep
  <2>3. AddTable(x, BootIndex + i - 1) \in Booted(i)
    BY <1>1, <2>2
  <2> QED
    BY <1>1, <1>2, <2>1, <2>3
<1> HIDE DEF op
<1>5. PICK f : Recursive(f, n, Machine, op) /\ \A i \in 0 .. n : f[i] \in X[i]
  <2>1. ASSUME NEW i \in 1 .. n, NEW x \in X[i - 1] PROVE op[<<i, x>>] \in X[i]
    BY <1>4
  <2> QED
    BY <1>1, <1>3, <2>1, LoopExists
<1>6. Unfolded(f)
  <2>1. \A i \in 1 .. n : op[<<i, f[i - 1]>>] = AddTable(f[i - 1], BootIndex + i - 1)
    BY <1>1, <1>4, <1>5
  <2>2. f = [i \in 0 .. n |-> IF i = 0 THEN Machine ELSE op[<<i, f[i - 1]>>]]
    BY <1>5 DEF Recursive
  <2> QED
    BY <1>1, <2>1, <2>2
<1> DEFINE chosen == CHOOSE g : Unfolded(g)
<1>7. Unfolded(chosen)
  <2> HIDE DEF Unfolded
  <2> QED
    BY <1>6, Zenon
<1> HIDE DEF chosen
<1>8. chosen[n] \in X[n]
  <2> DEFINE P == {i \in 0 .. n : chosen[i] \in X[i]}
  <2>1. \A i \in 0 .. n : chosen[i] = IF i = 0 THEN Machine ELSE AddTable(chosen[i - 1], BootIndex + i - 1)
    BY <1>7
  <2>2. 0 \in P
    BY <1>1, <1>3, <2>1
  <2>3. ASSUME NEW i \in 1 .. n, i - 1 \in P PROVE i \in P
    <3>1. chosen[i] = AddTable(chosen[i - 1], BootIndex + i - 1)
      BY <1>1, <2>1
    <3> QED
      BY <1>1, <1>4, <2>3, <3>1
  <2>4. 0 .. n \subseteq P
    <3> HIDE DEF P
    <3> QED
      BY <1>1, <2>2, <2>3, InductionUpTo
  <2> QED
    BY <1>1, <2>4
<1>9. Initialise(Machine) = chosen[n]
  BY Zenon DEF Initialise, chosen, n, BootIndex
<1> QED
  BY <1>1, <1>2, <1>8, <1>9 DEF n

LEMMA InitStep ==
    ASSUME Init
    PROVE  IInv
<1> DEFINE k == DirectoryIndex(KernelHeapEnd) - BootIndex + 1
<1>1. /\ vm \in Booted(k) /\ directory = [p \in Process |-> NotPresent] /\ populated = {} /\ running = Null /\ phase = 0
  BY InitialiseStep DEF Init
<1>2. k \in Nat /\ BootIndex + k - 1 = DirectoryIndex(KernelHeapEnd)
  <2>1. BootIndex \in Nat /\ DirectoryIndex(KernelHeapEnd) \in Nat /\ BootIndex <= DirectoryIndex(KernelHeapEnd)
    BY Regions DEF BootIndex
  <2> QED
    BY <2>1
<1> HIDE DEF k
<1>3. Alive = {} /\ vm \in Machines
  BY <1>1 DEF Alive, Booted
<1>4. TypeOK
  <2>1. Len(Modules) \in Nat
    BY AddressSpacesAssumption
  <2> QED
    BY <1>1, <1>3, <2>1 DEF TypeOK
<1>5. ~ Stopped(vm) => Steady(vm, {KernelDirectory}) /\ vm.cr3 = KernelDirectory /\ vm.current = KernelDirectory
  BY <1>1, <1>2, BootedIsSteady
<1> QED
  BY <1>1, <1>3, <1>4, <1>5 DEF IInv, OK, Directories
----------------------------------------------------------------------------
(* Every step. *)

LEMMA NextStep ==
    ASSUME IInv, [Next]_vars
    PROVE  IInv' /\ (LastingMapped \/ UNCHANGED vars)
<1>1. CASE UNCHANGED vars
  <2>1. UNCHANGED <<vm, directory, populated, running, phase>>
    BY <1>1 DEF vars
  <2>2. Directories' = Directories /\ Alive' = Alive
    BY <2>1 DEF Directories, Alive
  <2>3. TypeOK'
    BY <2>1, <2>2 DEF IInv, TypeOK
  <2> QED
    BY <1>1, <2>1, <2>2, <2>3 DEF IInv
<1>2. CASE Next
  <2> SUFFICES Carries
    BY DEF Carries
  <2>1. CASE SetUp
    BY <2>1, SetUpCarries
  <2>2. CASE LoadModule
    BY <2>2, LoadModuleCarries
  <2>3. CASE \E p \in Process : Yield(p)
    BY <2>3, YieldCarries
  <2>4. CASE \E q, first \in Process : EndLastThread(q, first)
    BY <2>4, EndLastThreadCarries
  <2>5. CASE \E first, p \in Process, grows \in BOOLEAN, majors \in Emptied(1) : SleepProcess(first, p, grows, majors)
    BY <2>5, SleepProcessCarries
  <2>6. CASE \E grows \in BOOLEAN, majors \in Emptied(1) : WakeProcess(grows, majors)
    BY <2>6, WakeProcessCarries
  <2>7. CASE \E growsKernel, grows \in BOOLEAN : CreateThread(growsKernel, grows)
    BY <2>7, CreateThreadCarries
  <2>8. CASE \E p \in Process : CreateProcess(p)
    BY <2>8, CreateProcessCarries
  <2>9. CASE \E q \in Alive, grows, straddles \in BOOLEAN, majors \in Emptied(1) :
                SendMessageCall(q, grows, straddles, majors)
    BY <2>9, SendMessageCallCarries
  <2>10. CASE \E p \in Process, grows \in BOOLEAN, majors \in Emptied(1) : Interrupt(p, grows, majors)
    BY <2>10, InterruptCarries
  <2>11. CASE \E p \in Process, q \in Alive, grows \in BOOLEAN, majors \in Emptied(1) :
                 InterruptMessage(p, q, grows, majors)
    BY <2>11, InterruptMessageCarries
  <2>12. CASE \E page \in ProgramPages : PerformPageManagement(page)
    BY <2>12, PerformPageManagementCarries
  <2>13. CASE \E page \in ProgramPages : RequestIdentityMapping(page)
    BY <2>13, RequestIdentityMappingCarries
  <2>14. CASE \E q, p \in Process, grows \in BOOLEAN, majors \in Emptied(KillDeletes), last \in Emptied(1) :
                 KillProcess(q, p, grows, majors, last)
    BY <2>14, KillProcessCarries
  <2> QED
    BY <1>2, <2>1, <2>2, <2>3, <2>4, <2>5, <2>6, <2>7, <2>8, <2>9, <2>10, <2>11, <2>12, <2>13, <2>14 DEF Next
<1> QED
  BY <1>1, <1>2

\* The inductive invariant holds in every state.
THEOREM StructureHolds == Spec => []IInv
<1>1. Init => IInv
  BY InitStep
<1>2. IInv /\ [Next]_vars => IInv'
  BY NextStep
<1> QED
  BY <1>1, <1>2, PTL DEF Spec
----------------------------------------------------------------------------
(* What it says of the module's own views of memory. *)

LEMMA SoundIsSteady ==
    ASSUME IInv, Sound
    PROVE  Steady(vm, Directories) /\ Structure(vm, Directories, {}, {}) /\ KernelDirectory \in Directories
<1>1. Steady(vm, Directories)
  BY DEF IInv, OK, Sound, Stopped
<1> QED
  BY <1>1, SteadyParts

LEMMA SharedView ==
    ASSUME IInv
    PROVE  KernelSharedEverywhere
BY SoundIsSteady, SharedLinks0 DEF KernelSharedEverywhere

LEMMA MappingIsAt ==
    ASSUME NEW d, NEW page
    PROVE  Mapping(d, page) = At(vm, d, page)
BY DEF Mapping, At, Entry

LEMMA HeapsView ==
    ASSUME IInv, ~ TimerReceives
    PROVE  ProcessHeapsMapped
<1>1. SUFFICES ASSUME Sound, NEW d \in Directories \ {KernelDirectory},
                      NEW page \in UserHeapStart .. vm.heapEnd[d] - 1
               PROVE  Mapping(d, page) # NotPresent
  BY DEF ProcessHeapsMapped
<1>2. At(vm, d, page) # NotPresent
  BY <1>1, SoundIsSteady DEF Steady, Filled
<1> QED
  BY <1>2, MappingIsAt

\* The places of NoFrameTwice are the links and the pages.
LEMMA PlacesAre ==
    ASSUME IInv, Sound, NEW a \in Places
    PROVE  \/ \E d \in Directories, i \in Index : Link(vm, d, i) /\ a = <<d, i>>
           \/ \E d \in Directories, i, j \in Index : Page(vm, {}, d, i, j) /\ a = <<vm.mem[d][i], j>>
<1> DEFINE links == SharedLinks \cup UNION {LinksOf(d) : d \in Directories}
<1>1. Common(vm, Directories) /\ KernelDirectory \in Directories
  BY SoundIsSteady DEF Structure
<1>2. ASSUME NEW l \in links PROVE \E d \in Directories, i \in Index : Link(vm, d, i) /\ l = <<d, i>>
  <2>1. CASE l \in SharedLinks
    <3>1. PICK i \in SharedIndices : l = <<KernelDirectory, i>> /\ vm.mem[KernelDirectory][i] # NotPresent
      BY <2>1 DEF SharedLinks
    <3> QED
      BY <1>1, <3>1, Layout DEF Link
  <2>2. CASE l \notin SharedLinks
    <3>1. PICK d \in Directories : l \in LinksOf(d)
      BY <1>2, <2>2
    <3>2. PICK i \in Index \ SharedIndices : l = <<d, i>> /\ vm.mem[d][i] # NotPresent
      BY <3>1 DEF LinksOf
    <3> QED
      BY <3>2 DEF Link
  <2> QED
    BY <2>1, <2>2
<1>3. a \in links \/ (a \in Tables(links) \X Index /\ vm.mem[a[1]][a[2]] # NotPresent)
  BY DEF Places
<1> HIDE DEF links
<1>4. CASE a \in links
  BY <1>2, <1>4
<1>5. CASE a \in Tables(links) \X Index /\ vm.mem[a[1]][a[2]] # NotPresent
  <2>1. PICK l \in links, j \in Index : a = <<vm.mem[l[1]][l[2]], j>> /\ vm.mem[l[1]][l[2]] # KernelTable
    BY <1>5 DEF Tables
  <2>2. PICK d \in Directories, i \in Index : Link(vm, d, i) /\ l = <<d, i>>
    BY <1>2
  <2>3. a = <<vm.mem[d][i], j>> /\ vm.mem[d][i] # KernelTable /\ vm.mem[vm.mem[d][i]][j] # NotPresent
    BY <1>5, <2>1, <2>2
  <2>4. i # KernelIndex
    BY <1>1, <2>2, <2>3, Layout DEF Common, Link
  <2> QED
    BY <2>2, <2>3, <2>4 DEF Page, Open
<1> QED
  BY <1>3, <1>4, <1>5

\* A place is the one the functions give for its frame.
LEMMA PlaceIsHeld ==
    ASSUME IInv, Sound, NEW holder, NEW slot, Held(vm, Directories, {}, {}, holder, slot), NEW a \in Places
    PROVE  LET f == vm.mem[a[1]][a[2]]
           IN  \/ f \in Frame /\ f \notin vm.free \cup Directories /\ a = <<holder[f], slot[f]>>
               \/ f = KernelTable /\ f \notin vm.free \cup Directories /\ a = <<KernelDirectory, KernelIndex>>
<1> DEFINE f == vm.mem[a[1]][a[2]]
<1>1. /\ Common(vm, Directories) /\ Directories \subseteq Frame \cup {KernelDirectory} /\ vm.free \subseteq Frame
  <2>1. Structure(vm, Directories, {}, {})
    BY SoundIsSteady
  <2> QED
    BY <2>1, Basics DEF Structure
<1>2. \A g \in vm.free \cup Directories : holder[g] = 0
  BY DEF Held
<1>3. ASSUME NEW d \in Directories, NEW i \in Index, Link(vm, d, i), a = <<d, i>>
      PROVE  \/ f \in Frame /\ holder[f] = d /\ slot[f] = i
             \/ f = KernelTable /\ d = KernelDirectory /\ i = KernelIndex
  <2>1. f = vm.mem[d][i]
    BY <1>3
  <2>2. CASE i = KernelIndex
    BY <1>1, <1>3, <2>1, <2>2, Layout DEF Link, Common
  <2>3. CASE i # KernelIndex
    BY <1>3, <2>1, <2>3 DEF Held
  <2> QED
    BY <2>2, <2>3
<1>4. ASSUME NEW d \in Directories, NEW i \in Index, NEW j \in Index, Page(vm, {}, d, i, j), a = <<vm.mem[d][i], j>>
      PROVE  f \in Frame /\ holder[f] = vm.mem[d][i] /\ slot[f] = j /\ vm.mem[d][i] # 0
  <2>1. f = vm.mem[vm.mem[d][i]][j]
    BY <1>4
  <2>2. vm.mem[d][i] # 0
    BY <1>4 DEF Page, Link, NotPresent
  <2> QED
    BY <1>4, <2>1, <2>2 DEF Held
<1> HIDE DEF f
<1>5. \A d \in Directories : d # 0
  BY <1>1, StaticTypes
<1>6. \/ f \in Frame /\ holder[f] # 0 /\ a = <<holder[f], slot[f]>>
      \/ f = KernelTable /\ a = <<KernelDirectory, KernelIndex>>
  BY <1>3, <1>4, <1>5, PlacesAre
<1>7. KernelTable \notin vm.free \cup Directories
  BY <1>1, StaticTypes
<1> QED
  BY <1>2, <1>6, <1>7 DEF f

LEMMA PlacesView ==
    ASSUME IInv
    PROVE  NoFrameTwice
<1> DEFINE W(a) == vm.mem[a[1]][a[2]]
<1>1. SUFFICES ASSUME Sound
               PROVE  /\ \A a, b \in Places : W(a) = W(b) => a = b
                      /\ \A a \in Places : W(a) \notin vm.free \cup Directories
                      /\ Directories \cap vm.free = {}
  BY DEF NoFrameTwice
<1>2. Structure(vm, Directories, {}, {})
  BY <1>1, SoundIsSteady
<1>3. PICK holder, slot : Held(vm, Directories, {}, {}, holder, slot)
  BY <1>2 DEF Structure
<1>4. \A a \in Places : /\ W(a) \notin vm.free \cup Directories
                        /\ \/ W(a) \in Frame /\ a = <<holder[W(a)], slot[W(a)]>>
                           \/ W(a) = KernelTable /\ a = <<KernelDirectory, KernelIndex>>
  BY <1>1, <1>3, PlaceIsHeld
<1> HIDE DEF W
<1>5. \A a, b \in Places : W(a) = W(b) => a = b
  BY <1>4, StaticTypes
<1>6. Directories \cap vm.free = {}
  BY <1>2, Basics
<1> QED
  BY <1>4, <1>5, <1>6

LEMMA KeptView ==
    ASSUME IInv, ~ TimerReceives, LastingMapped, Sound, Sound', NEW p \in Alive, directory'[p] = directory[p],
           NEW page \in Owned(directory[p]), Mapping(directory[p], page) # NotPresent
    PROVE  Mapping(directory[p], page)' = Mapping(directory[p], page)
<1> DEFINE d == directory[p]
<1>1. d \in Lasting \ {KernelDirectory}
  BY AliveDirectories DEF IInv, Lasting
<1>2. KeptPages(vm', vm, d)
  BY <1>1 DEF LastingMapped, Mapped, Sound, Stopped
<1>3. page \in Own(vm, d)
  <2>1. page \in Nat /\ page <= (Entries - 1) * Entries - 1 /\ Entries \in Nat \ {0}
    <3>1. Entries \in Nat \ {0} /\ (Entries - 1) * Entries \in Int
      BY AddressSpacesAssumption
    <3> QED
      BY <3>1 DEF Owned
  <2>2. DirectoryIndex(page) \in Index
    <3>1. /\ DirectoryIndex(page) \in Nat /\ TableIndex(page) \in 0 .. Entries - 1
          /\ page = Entries * DirectoryIndex(page) + TableIndex(page)
      BY <2>1, PageParts DEF Index
    <3>2. \A i \in Nat : Entries <= i => Entries * Entries <= Entries * i
      BY <2>1
    <3>3. DirectoryIndex(page) < Entries
      <4>1. Entries * Entries \in Nat /\ (Entries - 1) * Entries = Entries * Entries - Entries
        BY <2>1
      <4>2. Entries * DirectoryIndex(page) \in Nat
        BY <2>1, <3>1
      <4> HIDE DEF d
      <4> QED
        BY <2>1, <3>1, <3>2, <4>1, <4>2
    <3> QED
      BY <2>1, <3>1, <3>3 DEF Index
  <2> QED
    BY <2>1, <2>2 DEF Owned, Own, WindowIndex
<1>4. At(vm, d, page) # NotPresent /\ At(vm, d, page) = Mapping(d, page)
  BY MappingIsAt
<1>5. At(vm', d, page) = At(vm, d, page)
  BY <1>2, <1>3, <1>4 DEF KeptPages
<1>6. Mapping(directory[p], page)' = At(vm', d, page)
  BY DEF Mapping, At, Entry
<1> QED
  BY <1>4, <1>5, <1>6
----------------------------------------------------------------------------
(* The theorems. *)

\* Type correctness: every word is a frame, clear or junk, and every process
\* with a thread has a directory.
THEOREM TypeCorrect == Spec => []TypeOK
<1>1. IInv => TypeOK
  BY DEF IInv
<1> QED
  BY <1>1, StructureHolds, PTL

\* Initialise's tables, Heap's growth and releases, PerformPageManagement of
\* any page: as long as EraseMapping frees no shared table, all directories
\* have the kernel's.
THEOREM KernelSharedAlways == Spec => []KernelSharedEverywhere
<1>1. IInv => KernelSharedEverywhere
  BY SharedView
<1> QED
  BY <1>1, StructureHolds, PTL

\* MapMemory, EraseMapping, ClonePageDirectory, CopyToAddressSpace and Heap
\* never give a frame two uses and free none that is linked, as long as
\* AllocatePage gives them frames that are free.
THEOREM NoFrameTwiceAlways == Spec => []NoFrameTwice
<1>1. IInv => NoFrameTwice
  BY PlacesView
<1> QED
  BY <1>1, StructureHolds, PTL

\* Heap::Allocate maps the pages of a process's heap in its own directory,
\* whichever is in use when it grows, unless the timer's driver can receive
\* its interrupts.
THEOREM ProcessHeapsMappedAlways ==
    ASSUME ~ TimerReceives
    PROVE  Spec => []ProcessHeapsMapped
<1>1. IInv => ProcessHeapsMapped
  BY HeapsView
<1> QED
  BY <1>1, StructureHolds, PTL

\* No call takes from a process that goes on a page that is its own, with the
\* same exception.
THEOREM PagesAreKept ==
    ASSUME ~ TimerReceives
    PROVE  Spec => PagesKept
<1> DEFINE Undisturbed == Sound /\ Sound' =>
          \A p \in Alive : directory'[p] = directory[p] =>
            \A page \in Owned(directory[p]) :
                Mapping(directory[p], page) # NotPresent =>
                    Mapping(directory[p], page)' = Mapping(directory[p], page)
<1>1. IInv /\ [Next]_vars => [Undisturbed]_vars
  <2>1. IInv /\ LastingMapped => Undisturbed
    BY KeptView
  <2> QED
    BY <2>1, NextStep
<1> QED
  BY <1>1, StructureHolds, PTL DEF Spec, PagesKept
=============================================================================
