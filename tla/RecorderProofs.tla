--------------------------- MODULE RecorderProofs ---------------------------
(***************************************************************************)
(* RecorderInv is an invariant of Recorder, and with it its properties, for *)
(* any finite or infinite set of paths, of any length, any inodes and       *)
(* descriptors.  One lemma per call; most rest on one of five frames:       *)
(*   NamesKept   no file that stays linked loses or changes its name, so    *)
(*               the entries that are not touched stay right (EntriesKept); *)
(*   DataStep    a call that changes sizes and positions only;              *)
(*   WriteLogged a write recorded where it happened;                        *)
(*   MappingStep, RecordOnlyStep.                                           *)
(* Of rename the facts that count are MovedBack, that a path moved from one *)
(* prefix to another comes back, and RenamedNames, where a name comes from. *)
(***************************************************************************)
EXTENDS Recorder, WellFoundedInduction, SequenceTheorems, TLAPS
-----------------------------------------------------------------------------
(* Descriptors and paths *)

\* open() returns the lowest free descriptor: there is one.
LEMMA LowestFdFree == CanOpen => LowestFd \in Fd /\ ~IsOpen(LowestFd)
<1> SUFFICES ASSUME CanOpen PROVE LowestFd \in Fd /\ ~IsOpen(LowestFd)
  OBVIOUS
<1> DEFINE F == {fd \in Fd : ~IsOpen(fd)}
           R == OpToRel(<, Nat)
<1>1. F # {} /\ F \subseteq Nat
  BY RecorderAssumption DEF CanOpen
<1>2. \A m, n \in Nat : m < n => <<m, n>> \in R
  BY DEF OpToRel
<1>3. \E x \in F : \A y \in F : ~(<<y, x>> \in R)
  BY <1>1, NatLessThanWellFounded, WFMin, Zenon
<1>4. \E x \in F : \A y \in F : x <= y
  <2> HIDE DEF F, R
  <2>1. PICK x \in F : \A y \in F : ~(<<y, x>> \in R)
    BY <1>3
  <2>2. ASSUME NEW y \in F PROVE x <= y
    <3>1. x \in Nat /\ y \in Nat /\ ~(<<y, x>> \in R)
      BY <1>1, <2>1
    <3>2. ~(y < x)
      BY <3>1, <1>2
    <3>. QED
      BY <3>1, <3>2
  <2>. QED
    BY <2>2
<1>5. LowestFd \in F
  BY <1>4 DEF LowestFd, Min
<1>. QED
  BY <1>5

LEMMA ConcatFacts ==
    ASSUME NEW S, NEW s \in Seq(S), NEW t \in Seq(S)
    PROVE  /\ s \o t \in Seq(S) /\ Len(s \o t) = Len(s) + Len(t)
           /\ \A i \in 1..Len(s) : (s \o t)[i] = s[i]
           /\ \A i \in 1..Len(t) : (s \o t)[Len(s) + i] = t[i]
OBVIOUS

\* A path that begins with a, moved to b, begins with b, and comes back.
LEMMA MovedBack ==
    ASSUME NEW S, NEW a \in Seq(S), NEW b \in Seq(S), NEW p \in Seq(S), IsPrefix(a, p)
    PROVE  /\ Moved(a, b, p) \in Seq(S)
           /\ IsPrefix(b, Moved(a, b, p))
           /\ Moved(b, a, Moved(a, b, p)) = p
           /\ Len(Moved(a, b, p)) = Len(b) + (Len(p) - Len(a))
           /\ Len(p) > Len(a) => Moved(a, b, p)[Len(b) + 1] = p[Len(a) + 1]
<1> DEFINE t == SubSeq(p, Len(a) + 1, Len(p))
           q == b \o t
<1>1. /\ Len(a) \in Nat /\ Len(b) \in Nat /\ Len(p) \in Nat /\ Len(a) <= Len(p)
      /\ SubSeq(a, 1, Len(a)) = SubSeq(p, 1, Len(a))
  BY DEF IsPrefix
<1>2. /\ t \in Seq(S) /\ Len(t) = Len(p) - Len(a)
      /\ \A i \in 1..Len(t) : t[i] = p[Len(a) + i]
  BY <1>1
<1>3. \A i \in 1..Len(a) : a[i] = p[i]
  <2> SUFFICES ASSUME NEW i \in 1..Len(a) PROVE a[i] = p[i]
    OBVIOUS
  <2>1. SubSeq(a, 1, Len(a))[i] = a[i] /\ SubSeq(p, 1, Len(a))[i] = p[i]
    BY <1>1
  <2>. QED
    BY <1>1, <2>1
<1> HIDE DEF t
<1>4. /\ q \in Seq(S) /\ Len(q) = Len(b) + Len(t)
      /\ \A i \in 1..Len(b) : q[i] = b[i]
      /\ \A i \in 1..Len(t) : q[Len(b) + i] = t[i]
  <2>1. b \in Seq(S) /\ t \in Seq(S)
    BY <1>2
  <2>. QED
    BY <2>1, ConcatFacts
<1>5. q = Moved(a, b, p)
  BY DEF Moved, t
<1> HIDE DEF q
<1>6. IsPrefix(b, q)
  <2>1. SubSeq(b, 1, Len(b)) \in Seq(S) /\ Len(SubSeq(b, 1, Len(b))) = Len(b)
        /\ \A i \in 1..Len(b) : SubSeq(b, 1, Len(b))[i] = b[i]
    BY <1>1
  <2>2. SubSeq(q, 1, Len(b)) \in Seq(S) /\ Len(SubSeq(q, 1, Len(b))) = Len(b)
        /\ \A i \in 1..Len(b) : SubSeq(q, 1, Len(b))[i] = q[i]
    BY <1>1, <1>2, <1>4
  <2>3. SubSeq(b, 1, Len(b)) = SubSeq(q, 1, Len(b))
    BY <2>1, <2>2, <1>4
  <2>. QED
    BY <2>3, <1>1, <1>2, <1>4 DEF IsPrefix
<1> DEFINE u == SubSeq(q, Len(b) + 1, Len(q))
           r == a \o u
<1>7. /\ u \in Seq(S) /\ Len(u) = Len(t)
      /\ \A i \in 1..Len(u) : u[i] = t[i]
  BY <1>1, <1>2, <1>4, SMTT(30)
<1> HIDE DEF u
<1>8. r \in Seq(S) /\ Len(r) = Len(p)
      /\ (\A i \in 1..Len(a) : r[i] = a[i]) /\ (\A i \in 1..Len(u) : r[Len(a) + i] = u[i])
  <2>1. /\ r \in Seq(S) /\ Len(r) = Len(a) + Len(u)
        /\ (\A i \in 1..Len(a) : r[i] = a[i]) /\ (\A i \in 1..Len(u) : r[Len(a) + i] = u[i])
    <3>1. a \in Seq(S) /\ u \in Seq(S)
      BY <1>7
    <3>. QED
      BY <3>1, ConcatFacts
  <2>. QED
    BY <2>1, <1>1, <1>2, <1>7
<1>9. r = Moved(b, a, q)
  BY DEF Moved, u
<1> HIDE DEF r
<1>10. \A i \in 1..Len(p) : r[i] = p[i]
  <2> SUFFICES ASSUME NEW i \in 1..Len(p) PROVE r[i] = p[i]
    OBVIOUS
  <2>1. CASE i <= Len(a)
    BY <2>1, <1>1, <1>3, <1>8
  <2>2. CASE i > Len(a)
    <3> DEFINE j == i - Len(a)
    <3>1. j \in 1..Len(t) /\ i = Len(a) + j
      BY <2>2, <1>1, <1>2
    <3> HIDE DEF j
    <3>. QED
      BY <3>1, <1>2, <1>7, <1>8
  <2>. QED
    BY <2>1, <2>2, <1>1
<1>11. r = p
  BY <1>8, <1>10
<1>12. Len(p) > Len(a) => q[Len(b) + 1] = p[Len(a) + 1]
  <2>1. Len(p) > Len(a) => 1 \in 1..Len(t)
    BY <1>1, <1>2
  <2>. QED
    BY <2>1, <1>2, <1>4
<1>. QED
  BY <1>1, <1>2, <1>4, <1>5, <1>6, <1>9, <1>11, <1>12

LEMMA PathsAreSequences ==
    ASSUME NEW a \in Paths, NEW b \in Paths, NEW p \in Paths, IsPrefix(a, p)
    PROVE  /\ IsPrefix(b, Moved(a, b, p))
           /\ Moved(b, a, Moved(a, b, p)) = p
           /\ p = a => Moved(a, b, p) = b
           /\ Under(p, a) => Under(Moved(a, b, p), b)
<1> DEFINE S == UNION {Range(q) : q \in Paths}
           m == Moved(a, b, p)
<1>1. a \in Seq(S) /\ b \in Seq(S) /\ p \in Seq(S)
  BY RecorderAssumption
<1> HIDE DEF S
<1>2. /\ m \in Seq(S) /\ IsPrefix(b, m) /\ Moved(b, a, m) = p
      /\ Len(m) = Len(b) + (Len(p) - Len(a))
      /\ Len(p) > Len(a) => m[Len(b) + 1] = p[Len(a) + 1]
  BY <1>1, MovedBack
<1>3. ASSUME p = a PROVE m = b
  <2>1. Len(m) = Len(b) /\ Len(b) \in Nat
    BY <1>1, <1>2, <1>3
  <2>2. SubSeq(b, 1, Len(b)) = SubSeq(m, 1, Len(b))
    BY <1>2 DEF IsPrefix
  <2>. HIDE DEF m
  <2>3. SubSeq(b, 1, Len(b)) = b /\ SubSeq(m, 1, Len(m)) = m
    BY <1>1, <1>2, SubSeqFull
  <2>. QED
    BY <2>1, <2>2, <2>3
<1>4. ASSUME Under(p, a) PROVE Under(m, b)
  <2>1. a # p /\ p[Len(a) + 1] \in Component
    BY <1>4 DEF Under, IsStrictPrefix
  <2>2. Len(p) > Len(a)
    <3>1. Len(a) <= Len(p) /\ SubSeq(a, 1, Len(a)) = SubSeq(p, 1, Len(a))
      BY DEF IsPrefix
    <3>2. CASE Len(p) = Len(a)
      <4>1. SubSeq(a, 1, Len(a)) = a /\ SubSeq(p, 1, Len(p)) = p
        BY <1>1, SubSeqFull
      <4>. QED
        BY <3>1, <3>2, <4>1, <2>1
    <3>. QED
      BY <3>1, <3>2, <1>1
  <2>3. m # b
    BY <2>2, <1>1, <1>2
  <2>. QED
    BY <2>1, <2>2, <2>3, <1>2 DEF Under, IsStrictPrefix
<1> HIDE DEF m
<1>. QED
  BY <1>2, <1>3, <1>4 DEF m
-----------------------------------------------------------------------------
(* The maps, and the names of the tree *)

LEMMA InsertFacts ==
    ASSUME NEW map, NEW k, NEW v
    PROVE  /\ DOMAIN Insert(map, k, v) = DOMAIN map \cup {k}
           /\ \A x \in DOMAIN map : Insert(map, k, v)[x] = map[x]
           /\ k \notin DOMAIN map => Insert(map, k, v)[k] = v
BY DEF Insert

LEMMA EraseFacts ==
    ASSUME NEW map, NEW k
    PROVE  /\ DOMAIN Erase(map, k) = DOMAIN map \ {k}
           /\ \A x \in DOMAIN map \ {k} : Erase(map, k)[x] = map[x]
BY DEF Erase

LEMMA OpenFacts ==
    ASSUME TypeOK, NEW fd \in Fd, IsOpen(fd)
    PROVE  /\ files[fd] \in OpenFile /\ files[fd].ino \in Inode /\ files[fd].ino # None
           /\ files[fd].pos \in 0..MaxSize /\ files[fd].append \in BOOLEAN
           /\ node[files[fd].ino] \in FileStat
BY RecorderAssumption DEF TypeOK, IsOpen, OpenFile

LEMMA LookupFacts ==
    ASSUME TypeOK, NEW p
    PROVE  /\ Exists(p) => p \in Paths /\ tree[p] \in Inode /\ tree[p] # None
                           /\ Lookup(p) = tree[p] /\ Linked(tree[p]) /\ Stat(p) = node[tree[p]]
           /\ p \in Paths => Stat(p) \in FileStat
BY RecorderAssumption DEF TypeOK, Exists, Lookup, Stat, Linked, NoFile, FileStat

\* No name of an open file that stays linked is lost or moves.
NamesKept == \A fd \in Fd, i \in Inode : IsOpen(fd) /\ files[fd].ino = i /\ Linked(i)' =>
                 Linked(i) /\ \A q : Lookup(q) = i => Lookup(q)' = i

LEMMA EntriesKept ==
    ASSUME RecorderInv, NamesKept,
           \A fd \in Fd \ misled' : IsOpen(fd)' =>
               /\ fd \notin misled /\ IsOpen(fd)
               /\ files'[fd].ino = files[fd].ino /\ fd_map_'[fd] = fd_map_[fd]
    PROVE  FdMapAccurate'
<1> SUFFICES ASSUME NEW fd \in Fd, fd \notin misled', IsOpen(fd)', Linked(files[fd].ino)'
             PROVE  Lookup(fd_map_[fd])' = files'[fd].ino
  BY DEF FdMapAccurate
<1> DEFINE i == files[fd].ino
           q == fd_map_[fd]
<1>1. fd \notin misled /\ IsOpen(fd) /\ files'[fd].ino = i /\ fd_map_'[fd] = q
  OBVIOUS
<1>2. i \in Inode
  BY <1>1, OpenFacts DEF RecorderInv
<1>3. \E r \in Paths : tree'[r] = i
  BY <1>1 DEF Linked
<1>4. Lookup(q) = i <=> (IF q \in Paths THEN tree[q] ELSE None) = i
  BY DEF Lookup
<1>5. (Linked(i) => Lookup(q) = i)
  BY <1>1 DEF RecorderInv, FdMapAccurate
<1>6. \A j \in Inode : files[fd].ino = j /\ Linked(j)' =>
                 Linked(j) /\ \A r : Lookup(r) = j => Lookup(r)' = j
  BY <1>1 DEF NamesKept
<1>7. Lookup(fd_map_[fd])' = IF fd_map_'[fd] \in Paths THEN tree'[fd_map_'[fd]] ELSE None
  BY DEF Lookup
<1>8. \A r : Lookup(r)' = IF r \in Paths THEN tree'[r] ELSE None
  BY DEF Lookup
<1>9. \A j : Linked(j)' <=> \E r \in Paths : tree'[r] = j
  BY DEF Linked
<1> HIDE DEF q
<1>10. PICK j \in Inode : j = i
  BY <1>2
<1>11. Linked(j) /\ \A r : Lookup(r) = j => Lookup(r)' = j
  BY <1>3, <1>6, <1>9, <1>10
<1>. QED
  BY <1>1, <1>5, <1>7, <1>8, <1>10, <1>11

LEMMA SameTree ==
    ASSUME UNCHANGED tree
    PROVE  /\ NamesKept /\ (OneName => OneName')
           /\ \A p : Lookup(p)' = Lookup(p) /\ (Exists(p)' <=> Exists(p))
           /\ UNCHANGED node => \A p : Stat(p)' = Stat(p)
<1>1. OneName => OneName'
  BY DEF OneName
<1>2. \A p : Lookup(p)' = Lookup(p)
  BY DEF Lookup
<1>3. \A i : Linked(i)' <=> Linked(i)
  BY DEF Linked
<1>4. \A p : Exists(p)' <=> Exists(p)
  BY <1>2 DEF Exists
<1>5. UNCHANGED node => \A p : Stat(p)' = Stat(p)
  BY <1>2 DEF Stat
<1>6. NamesKept
  BY <1>2, <1>3, Zenon DEF NamesKept
<1>. QED
  BY <1>1, <1>2, <1>4, <1>5, <1>6

\* A new inode gets the name p, which nothing had.
LEMMA Created ==
    ASSUME TypeOK, OneName, NEW p \in Paths, NEW kind \in {"file", "dir"},
           CanCreate(p), Create(p, kind)
    PROVE  /\ tree' \in [Paths -> Inode \cup {None}] /\ node' \in [Inode -> FileStat]
           /\ OneName' /\ NamesKept
           /\ tree'[p] \in Inode
           /\ \A q \in Paths : Stat(q)' = IF q = p THEN [kind |-> kind, size |-> 0] ELSE Stat(q)
<1> DEFINE i == CHOOSE j \in FreeInodes : TRUE
<1>1. i \in FreeInodes
  BY DEF Create
<1>2. tree' = [tree EXCEPT ![p] = i] /\ node' = [node EXCEPT ![i] = [kind |-> kind, size |-> 0]]
  BY DEF Create
<1> HIDE DEF i
<1>3. /\ i \in Inode /\ i # None /\ (\A q \in Paths : tree[q] # i)
      /\ \A fd \in Fd : IsOpen(fd) => files[fd].ino # i
  BY <1>1, RecorderAssumption DEF FreeInodes, Linked
<1>4. tree[p] = None
  BY DEF CanCreate, Exists, Lookup
<1>5. tree' \in [Paths -> Inode \cup {None}] /\ node' \in [Inode -> FileStat]
  <2>1. [kind |-> kind, size |-> 0] \in FileStat
    BY RecorderAssumption DEF FileStat
  <2>. QED
    BY <1>2, <1>3, <2>1 DEF TypeOK
<1>6. tree'[p] = i /\ \A q \in Paths : q # p => tree'[q] = tree[q]
  BY <1>2 DEF TypeOK
<1>7. OneName'
  BY <1>3, <1>6 DEF OneName
<1>8. NamesKept
  <2> SUFFICES ASSUME NEW fd \in Fd, NEW j \in Inode, IsOpen(fd), files[fd].ino = j, Linked(j)'
               PROVE  Linked(j) /\ \A q : Lookup(q) = j => Lookup(q)' = j
    BY DEF NamesKept
  <2>1. j # i /\ j # None
    BY <1>3, OpenFacts
  <2>2. PICK q \in Paths : tree'[q] = j
    BY DEF Linked
  <2>3. Linked(j)
    BY <1>6, <2>1, <2>2 DEF Linked
  <2>4. ASSUME NEW r, Lookup(r) = j PROVE Lookup(r)' = j
    BY <1>4, <1>6, <2>1, <2>4 DEF Lookup
  <2>. QED
    BY <2>3, <2>4
<1>9. ASSUME NEW q \in Paths
      PROVE  Stat(q)' = IF q = p THEN [kind |-> kind, size |-> 0] ELSE Stat(q)
  <2>1. CASE q = p
    BY <2>1, <1>2, <1>3, <1>6 DEF Stat, Lookup, TypeOK
  <2>2. CASE q # p
    <3>1. tree'[q] = tree[q] /\ tree[q] # i /\ tree[q] \in Inode \cup {None}
      BY <2>2, <1>3, <1>6 DEF TypeOK
    <3>2. tree[q] # None => node'[tree[q]] = node[tree[q]]
      BY <3>1, <1>2 DEF TypeOK
    <3>. QED
      BY <2>2, <3>1, <3>2 DEF Stat, Lookup
  <2>. QED
    BY <2>1, <2>2
<1>. QED
  BY <1>3, <1>5, <1>6, <1>7, <1>8, <1>9

\* What the log makes of a DiskMod.
LEMMA DescribedFacts ==
    ASSUME NEW t \in [Paths -> FileStat], NEW m
    PROVE  /\ m.path \notin Paths => Described(t, m) = t
           /\ m.path \in Paths =>
                /\ m.type = "create" => Described(t, m) =
                       [t EXCEPT ![m.path] = [kind |-> IF m.dir THEN "dir" ELSE "file", size |-> 0]]
                /\ m.type = "remove" => Described(t, m) = [t EXCEPT ![m.path] = NoFile]
                /\ m.type = "data_meta" /\ m.opt = "truncate" =>
                       Described(t, m) = [t EXCEPT ![m.path].size = 0]
                /\ m.type = "data_meta" /\ m.opt \in {"none", "falloc"} /\ m.len > 0 =>
                       Described(t, m) = [t EXCEPT ![m.path].size = Larger(@, m.loc + m.len)]
           /\ m.type \in {"data", "fsync", "sync", "range", "checkpoint"} => Described(t, m) = t
           /\ m.type = "data_meta" /\ m.opt \notin {"truncate", "none", "falloc"} => Described(t, m) = t
           /\ m.type = "data_meta" /\ m.opt # "truncate" /\ ~(m.len > 0) => Described(t, m) = t
BY DEF Described

LEMMA SameMaps ==
    ASSUME RecorderInv, NamesKept, UNCHANGED <<mapped, fd_map_, mmap_map_, misled>>,
           \A fd \in Fd : IsOpen(fd)' <=> IsOpen(fd),
           \A fd \in Fd : IsOpen(fd) => files'[fd].ino = files[fd].ino
    PROVE  MapsComplete' /\ EntriesOpen' /\ FdMapAccurate'
<1>1. MapsComplete'
  BY DEF RecorderInv, MapsComplete
<1>2. EntriesOpen'
  BY DEF RecorderInv, EntriesOpen, TypeOK
<1>3. FdMapAccurate'
  <2>1. \A fd \in Fd \ misled' : IsOpen(fd)' =>
            /\ fd \notin misled /\ IsOpen(fd)
            /\ files'[fd].ino = files[fd].ino /\ fd_map_'[fd] = fd_map_[fd]
    OBVIOUS
  <2>. QED
    BY <2>1, EntriesKept
<1>. QED
  BY <1>1, <1>2, <1>3

LEMMA LogAsTree ==
    ASSUME mods_' \in [Paths -> FileStat], \A q \in Paths : ~missed' => mods_'[q] = Stat(q)'
    PROVE  LogRebuildsTree'
BY DEF LogRebuildsTree

LEMMA TreeAsLog ==
    ASSUME RecorderInv, ~missed, NEW q \in Paths
    PROVE  mods_[q] = Stat(q)
BY DEF RecorderInv, LogRebuildsTree

\* A step that changes neither the names and sizes nor what the log says of them.
LEMMA SameLog ==
    ASSUME RecorderInv, UNCHANGED <<tree, node, mods_, missed>>
    PROVE  LogRebuildsTree'
<1>1. \A q : Stat(q)' = Stat(q)
  BY SameTree
<1>. QED
  BY <1>1 DEF RecorderInv, LogRebuildsTree

\* Most calls leave a DiskMod that says nothing of names and sizes.
LEMMA SilentMod ==
    ASSUME TypeOK, NEW m, m.type \in {"data", "fsync", "sync", "range", "checkpoint"}, Record(m)
    PROVE  mods_' = mods_
BY DescribedFacts DEF Record, TypeOK
-----------------------------------------------------------------------------
(* Names *)

LEMMA CmMknodStep == ASSUME NEW p \in Paths, RecorderInv, CmMknod(p) PROVE RecorderInv'
<1>1. /\ tree' \in [Paths -> Inode \cup {None}] /\ node' \in [Inode -> FileStat]
      /\ OneName' /\ NamesKept
  BY Created DEF CmMknod, RecorderInv
<1>2. UNCHANGED <<files, mapped, fd_map_, mmap_map_, mods_, misled>> /\ missed' = TRUE
  BY DEF CmMknod, mapVars
<1>3. TypeOK'
  BY <1>1, <1>2 DEF RecorderInv, TypeOK
<1>4. MapsComplete' /\ EntriesOpen' /\ FdMapAccurate'
  BY <1>1, <1>2, SameMaps DEF IsOpen
<1>5. LogRebuildsTree'
  BY <1>2 DEF LogRebuildsTree
<1>. QED
  BY <1>1, <1>3, <1>4, <1>5 DEF RecorderInv

\* A create is recorded as what it does.
LEMMA CreateRecorded ==
    ASSUME RecorderInv, NEW p \in Paths, NEW dir \in BOOLEAN,
           CanCreate(p), Create(p, IF dir THEN "dir" ELSE "file"),
           Record(Mod("create", "none", p, dir, 0, 0)), missed' = missed
    PROVE  LogRebuildsTree' /\ mods_' \in [Paths -> FileStat]
<1> DEFINE kind == IF dir THEN "dir" ELSE "file"
<1>1. kind \in {"file", "dir"}
  OBVIOUS
<1>2. \A q \in Paths : Stat(q)' = IF q = p THEN [kind |-> kind, size |-> 0] ELSE Stat(q)
  <2>1. CASE dir
    <3>1. Create(p, "dir")
      BY <2>1
    <3>. QED
      BY <2>1, <3>1, Created DEF RecorderInv
  <2>2. CASE ~dir
    <3>1. Create(p, "file")
      BY <2>2
    <3>. QED
      BY <2>2, <3>1, Created DEF RecorderInv
  <2>. QED
    BY <2>1, <2>2
<1>3. mods_ \in [Paths -> FileStat] /\ [kind |-> kind, size |-> 0] \in FileStat
  BY RecorderAssumption DEF RecorderInv, TypeOK, FileStat
<1>4. mods_' = [mods_ EXCEPT ![p] = [kind |-> kind, size |-> 0]]
  <2> DEFINE m == Mod("create", "none", p, dir, 0, 0)
  <2>1. m.type = "create" /\ m.path = p /\ m.dir = dir /\ m.path \in Paths
    BY DEF Mod
  <2>2. mods_' = Described(mods_, m)
    BY DEF Record
  <2> HIDE DEF m
  <2>3. Described(mods_, m) = [mods_ EXCEPT ![m.path] = [kind |-> IF m.dir THEN "dir" ELSE "file", size |-> 0]]
    BY <2>1 DEF Described
  <2>. QED
    BY <2>1, <2>2, <2>3
<1> HIDE DEF kind
<1>5. mods_' \in [Paths -> FileStat]
  BY <1>3, <1>4
<1>6. \A q \in Paths : ~missed' => mods_'[q] = Stat(q)'
  BY <1>2, <1>3, <1>4, TreeAsLog
<1>. QED
  BY <1>5, <1>6, LogAsTree

LEMMA CmMkdirStep == ASSUME NEW p \in Paths, RecorderInv, CmMkdir(p) PROVE RecorderInv'
<1>1. /\ tree' \in [Paths -> Inode \cup {None}] /\ node' \in [Inode -> FileStat]
      /\ OneName' /\ NamesKept
  BY Created DEF CmMkdir, RecorderInv
<1>2. UNCHANGED <<files, mapped, fd_map_, mmap_map_, misled, missed>>
  BY DEF CmMkdir, mapVars
<1>3. LogRebuildsTree' /\ mods_' \in [Paths -> FileStat]
  BY <1>2, CreateRecorded DEF CmMkdir
<1>4. TypeOK'
  BY <1>1, <1>2, <1>3 DEF RecorderInv, TypeOK
<1>5. MapsComplete' /\ EntriesOpen' /\ FdMapAccurate'
  BY <1>1, <1>2, SameMaps DEF IsOpen
<1>. QED
  BY <1>1, <1>3, <1>4, <1>5 DEF RecorderInv

\* A descriptor is opened on the inode that the path p has now.
LEMMA DescriptorOpened ==
    ASSUME RecorderInv, NamesKept, NEW p \in Paths, NEW append \in BOOLEAN,
           CanOpen, tree'[p] \in Inode,
           files' = [files EXCEPT ![LowestFd] = Opened(tree'[p], append)],
           fd_map_' = Insert(fd_map_, LowestFd, p),
           UNCHANGED <<mapped, mmap_map_, misled>>
    PROVE  /\ files' \in [Fd -> {None} \cup OpenFile] /\ DOMAIN fd_map_' \subseteq Fd
           /\ MapsComplete' /\ EntriesOpen' /\ FdMapAccurate'
<1> DEFINE new == LowestFd
           f == Opened(tree'[p], append)
<1>1. new \in Fd /\ ~IsOpen(new)
  BY LowestFdFree
<1>2. f \in OpenFile /\ f # None /\ f.ino = tree'[p]
  BY RecorderAssumption DEF Opened, OpenFile
<1>3. files' = [files EXCEPT ![new] = f] /\ fd_map_' = Insert(fd_map_, new, p)
  OBVIOUS
<1>4. files \in [Fd -> {None} \cup OpenFile] /\ DOMAIN fd_map_ \subseteq Fd
  BY DEF RecorderInv, TypeOK
<1> HIDE DEF new, f
<1>5. files' \in [Fd -> {None} \cup OpenFile] /\ DOMAIN fd_map_' \subseteq Fd
  BY <1>1, <1>2, <1>3, <1>4 DEF Insert
<1>6. /\ files'[new] = f
      /\ \A fd \in Fd : fd # new => files'[fd] = files[fd]
  BY <1>1, <1>3, <1>4
<1>7. /\ DOMAIN fd_map_' = DOMAIN fd_map_ \cup {new}
      /\ \A fd \in DOMAIN fd_map_ : fd_map_'[fd] = fd_map_[fd]
      /\ new \notin DOMAIN fd_map_ => fd_map_'[new] = p
  BY <1>3 DEF Insert
<1>8. MapsComplete'
  BY <1>6, <1>7 DEF RecorderInv, MapsComplete, IsOpen
<1>9. EntriesOpen'
  <2> SUFFICES ASSUME NEW fd \in DOMAIN fd_map_', fd \notin misled' PROVE files'[fd] # None
    BY DEF EntriesOpen, IsOpen
  <2>. QED
    BY <1>2, <1>4, <1>6, <1>7 DEF RecorderInv, EntriesOpen, IsOpen
<1>10. FdMapAccurate'
  <2> SUFFICES ASSUME NEW fd \in Fd, fd \notin misled', IsOpen(fd)', Linked(files[fd].ino)'
               PROVE  Lookup(fd_map_[fd])' = files'[fd].ino
    BY DEF FdMapAccurate
  <2>1. CASE fd = new
    <3>1. new \notin DOMAIN fd_map_
      BY <1>1, <2>1 DEF RecorderInv, EntriesOpen
    <3>2. fd_map_'[fd] = p /\ files'[fd].ino = tree'[p]
      BY <1>2, <1>6, <1>7, <2>1, <3>1
    <3>. QED
      BY <3>2 DEF Lookup
  <2>2. CASE fd # new
    <3> DEFINE i == files[fd].ino
               q == fd_map_[fd]
    <3>1. IsOpen(fd) /\ files'[fd] = files[fd] /\ fd \in DOMAIN fd_map_
      BY <1>6, <2>2 DEF IsOpen, RecorderInv, MapsComplete
    <3>2. fd_map_'[fd] = q /\ i \in Inode
      BY <1>7, <3>1, OpenFacts DEF RecorderInv
    <3>3. \E r \in Paths : tree'[r] = i
      BY <3>1 DEF Linked
    <3>4. Linked(i) => Lookup(q) = i
      BY <3>1 DEF RecorderInv, FdMapAccurate
    <3> HIDE DEF q
    <3>5. PICK j \in Inode : j = i
      BY <3>2
    <3>6. Linked(j) /\ \A r : Lookup(r) = j => Lookup(r)' = j
      <4>1. Linked(j)'
        BY <3>3, <3>5 DEF Linked
      <4>. QED
        BY <3>1, <3>5, <4>1 DEF NamesKept
    <3>7. \A r : Lookup(r)' = IF r \in Paths THEN tree'[r] ELSE None
      BY DEF Lookup
    <3>8. Lookup(fd_map_[fd])' = IF fd_map_'[fd] \in Paths THEN tree'[fd_map_'[fd]] ELSE None
      BY DEF Lookup
    <3>. QED
      BY <3>1, <3>2, <3>4, <3>5, <3>6, <3>7, <3>8
  <2>. QED
    BY <2>1, <2>2
<1>. QED
  BY <1>5, <1>8, <1>9, <1>10

LEMMA CmOpenNewStep ==
    ASSUME NEW p \in Paths, NEW append \in BOOLEAN, RecorderInv, CmOpenNew(p, append)
    PROVE  RecorderInv'
<1>1. /\ tree' \in [Paths -> Inode \cup {None}] /\ node' \in [Inode -> FileStat]
      /\ OneName' /\ NamesKept /\ tree'[p] \in Inode
  BY Created DEF CmOpenNew, RecorderInv
<1>2. /\ UNCHANGED <<mapped, mmap_map_, misled, missed>> /\ CanOpen
      /\ files' = [files EXCEPT ![LowestFd] = Opened(tree'[p], append)]
      /\ fd_map_' = Insert(fd_map_, LowestFd, p)
  BY DEF CmOpenNew
<1>3. LogRebuildsTree' /\ mods_' \in [Paths -> FileStat]
  <2>1. FALSE \in BOOLEAN /\ Create(p, IF FALSE THEN "dir" ELSE "file") /\ CanCreate(p)
        /\ Record(Mod("create", "none", p, FALSE, 0, 0))
    BY DEF CmOpenNew
  <2>. QED
    BY <1>2, <2>1, CreateRecorded
<1>4. /\ files' \in [Fd -> {None} \cup OpenFile] /\ DOMAIN fd_map_' \subseteq Fd
      /\ MapsComplete' /\ EntriesOpen' /\ FdMapAccurate'
  BY <1>1, <1>2, DescriptorOpened
<1>5. TypeOK'
  BY <1>1, <1>2, <1>3, <1>4 DEF RecorderInv, TypeOK
<1>. QED
  BY <1>1, <1>3, <1>4, <1>5 DEF RecorderInv

LEMMA CmOpenExistingStep ==
    ASSUME NEW p \in Paths, NEW trunc \in BOOLEAN, NEW append \in BOOLEAN,
           RecorderInv, CmOpenExisting(p, trunc, append)
    PROVE  RecorderInv'
<1>1. /\ tree' = tree /\ NamesKept /\ OneName'
      /\ tree[p] \in Inode /\ Stat(p) = node[tree[p]] /\ tree[p] # None
  BY SameTree, LookupFacts DEF CmOpenExisting, RecorderInv
<1>2. /\ UNCHANGED <<mapped, mmap_map_, misled, missed>> /\ CanOpen
      /\ files' = [files EXCEPT ![LowestFd] = Opened(tree'[p], append)]
      /\ fd_map_' = Insert(fd_map_, LowestFd, p)
  BY <1>1 DEF CmOpenExisting
<1>3. /\ files' \in [Fd -> {None} \cup OpenFile] /\ DOMAIN fd_map_' \subseteq Fd
      /\ MapsComplete' /\ EntriesOpen' /\ FdMapAccurate'
  BY <1>1, <1>2, DescriptorOpened
<1>4. mods_ \in [Paths -> FileStat] /\ node \in [Inode -> FileStat] /\ 0 \in 0..MaxSize
  BY RecorderAssumption DEF RecorderInv, TypeOK
<1>5. CASE ~trunc
  <2>1. UNCHANGED <<tree, node, mods_, missed>>
    BY <1>1, <1>2, <1>5 DEF CmOpenExisting
  <2>2. LogRebuildsTree'
    BY <2>1, SameLog
  <2>3. TypeOK'
    BY <1>2, <1>3, <2>1 DEF RecorderInv, TypeOK
  <2>. QED
    BY <1>1, <1>3, <2>2, <2>3 DEF RecorderInv
<1>6. CASE trunc
  <2>1. node' = [node EXCEPT ![tree[p]].size = 0]
    BY <1>6 DEF CmOpenExisting
  <2>2. mods_' = [mods_ EXCEPT ![p].size = 0]
    <3> DEFINE m == Mod("data_meta", "truncate", p, FALSE, 0, 0)
    <3>1. m.type = "data_meta" /\ m.opt = "truncate" /\ m.path = p /\ m.path \in Paths
      BY DEF Mod
    <3>2. mods_' = Described(mods_, m)
      BY <1>6 DEF CmOpenExisting, Record
    <3> HIDE DEF m
    <3>3. Described(mods_, m) = [mods_ EXCEPT ![m.path].size = 0]
      BY <3>1 DEF Described
    <3>. QED
      BY <3>1, <3>2, <3>3
  <2>3. node' \in [Inode -> FileStat] /\ mods_' \in [Paths -> FileStat]
    BY <1>1, <1>4, <2>1, <2>2 DEF FileStat
  <2>4. ASSUME NEW q \in Paths, ~missed' PROVE mods_'[q] = Stat(q)'
    <3>1. mods_[q] = Stat(q)
      BY <1>2, <2>4, TreeAsLog
    <3>2. CASE q = p
      BY <3>1, <3>2, <1>1, <1>4, <2>1, <2>2 DEF Stat, Lookup
    <3>3. CASE q # p
      <4>1. tree[q] # tree[p] \/ tree[q] = None
        BY <3>3, <1>1 DEF RecorderInv, OneName
      <4>2. mods_'[q] = mods_[q]
        BY <3>3, <1>4, <2>2
      <4>3. tree[q] \in Inode \cup {None}
        BY DEF RecorderInv, TypeOK
      <4>4. Stat(q)' = Stat(q)
        BY <4>1, <4>3, <1>1, <1>4, <2>1 DEF Stat, Lookup
      <4>. QED
        BY <3>1, <4>2, <4>4
    <3>. QED
      BY <3>2, <3>3
  <2>5. LogRebuildsTree'
    BY <2>3, <2>4, LogAsTree
  <2>6. TypeOK'
    BY <1>1, <1>2, <1>3, <2>3 DEF RecorderInv, TypeOK
  <2>. QED
    BY <1>1, <1>3, <2>5, <2>6 DEF RecorderInv
<1>. QED
  BY <1>5, <1>6

\* A descriptor is closed: its entry goes, or it is marked as spoiled.
LEMMA DescriptorClosed ==
    ASSUME RecorderInv, NEW fd \in Fd, files' = [files EXCEPT ![fd] = None],
           UNCHANGED <<tree, node, mapped, mmap_map_, mods_, missed>>,
           \/ fd_map_' = Erase(fd_map_, fd) /\ misled' = misled \ {fd}
           \/ fd_map_' = fd_map_ /\ misled' = misled \cup {fd}
    PROVE  RecorderInv'
<1>1. files' \in [Fd -> {None} \cup OpenFile] /\ DOMAIN fd_map_' \subseteq Fd /\ misled' \subseteq Fd
  BY DEF RecorderInv, TypeOK, Erase
<1>2. files'[fd] = None /\ \A e \in Fd \ {fd} : files'[e] = files[e]
  BY DEF RecorderInv, TypeOK
<1>3. \A e \in Fd \ {fd} : /\ e \in DOMAIN fd_map_' <=> e \in DOMAIN fd_map_
                           /\ e \in DOMAIN fd_map_ => fd_map_'[e] = fd_map_[e]
                           /\ e \in misled' <=> e \in misled
  BY DEF Erase
<1>4. TypeOK'
  BY <1>1 DEF RecorderInv, TypeOK
<1>5. MapsComplete'
  BY <1>2, <1>3 DEF RecorderInv, MapsComplete, IsOpen
<1>6. EntriesOpen'
  <2> SUFFICES ASSUME NEW e \in DOMAIN fd_map_', e \notin misled' PROVE files'[e] # None
    BY DEF EntriesOpen, IsOpen
  <2>1. fd \notin DOMAIN fd_map_' \/ fd \in misled'
    BY DEF Erase
  <2>. QED
    BY <1>1, <1>2, <1>3, <2>1 DEF RecorderInv, EntriesOpen, IsOpen
<1>7. FdMapAccurate'
  <2>1. NamesKept
    BY SameTree
  <2>2. ASSUME NEW e \in Fd \ misled', IsOpen(e)'
        PROVE  e \notin misled /\ IsOpen(e) /\ files'[e].ino = files[e].ino /\ fd_map_'[e] = fd_map_[e]
    <3>1. e # fd
      BY <1>2, <2>2 DEF IsOpen
    <3>2. IsOpen(e) /\ files'[e] = files[e]
      BY <3>1, <1>2, <2>2 DEF IsOpen
    <3>3. e \in DOMAIN fd_map_
      BY <3>2 DEF RecorderInv, MapsComplete
    <3>. QED
      BY <3>1, <3>2, <3>3, <1>3, <2>2
  <2>. QED
    BY <2>1, <2>2, EntriesKept
<1>8. LogRebuildsTree'
  BY SameLog
<1>9. OneName'
  BY SameTree DEF RecorderInv
<1>. QED
  BY <1>4, <1>5, <1>6, <1>7, <1>8, <1>9 DEF RecorderInv

LEMMA CmCloseStep ==
    ASSUME NEW fd \in Fd, RecorderInv, CmClose(fd) \/ CmCloseError(fd) PROVE RecorderInv'
<1>1. /\ files' = [files EXCEPT ![fd] = None]
      /\ UNCHANGED <<tree, node, mapped, mmap_map_, mods_, missed>>
      /\ \/ fd_map_' = Erase(fd_map_, fd) /\ misled' = misled \ {fd}
         \/ fd_map_' = fd_map_ /\ misled' = misled \cup {fd}
  BY DEF CmClose, CmCloseError, mapVars
<1>. QED
  BY <1>1, DescriptorClosed

LEMMA CmUnlinkOrRemoveStep ==
    ASSUME NEW p \in Paths, RecorderInv, CmUnlinkOrRemove(p) PROVE RecorderInv'
<1>1. /\ tree' = [tree EXCEPT ![p] = None]
      /\ UNCHANGED <<node, files, mapped, fd_map_, mmap_map_, misled, missed>>
  BY DEF CmUnlinkOrRemove, mapVars
<1>2. tree \in [Paths -> Inode \cup {None}] /\ mods_ \in [Paths -> FileStat] /\ NoFile \in FileStat
  BY RecorderAssumption DEF RecorderInv, TypeOK, NoFile, FileStat
<1>3. tree' \in [Paths -> Inode \cup {None}] /\ tree'[p] = None
      /\ \A q \in Paths : q # p => tree'[q] = tree[q]
  BY <1>1, <1>2
<1>4. mods_' = [mods_ EXCEPT ![p] = NoFile]
  <2> DEFINE m == Mod("remove", "none", p, FALSE, 0, 0)
  <2>1. m.type = "remove" /\ m.path = p /\ m.path \in Paths
    BY DEF Mod
  <2>2. mods_' = Described(mods_, m)
    BY DEF CmUnlinkOrRemove, Record
  <2> HIDE DEF m
  <2>3. Described(mods_, m) = [mods_ EXCEPT ![m.path] = NoFile]
    BY <2>1 DEF Described
  <2>. QED
    BY <2>1, <2>2, <2>3
<1>5. mods_' \in [Paths -> FileStat]
  BY <1>2, <1>4
<1>6. TypeOK'
  BY <1>1, <1>3, <1>5 DEF RecorderInv, TypeOK
<1>7. OneName'
  BY <1>3 DEF RecorderInv, OneName
<1>8. NamesKept
  <2> SUFFICES ASSUME NEW fd \in Fd, NEW j \in Inode, Linked(j)'
               PROVE  Linked(j) /\ \A q : Lookup(q) = j => Lookup(q)' = j
    BY DEF NamesKept
  <2>1. PICK r \in Paths : tree'[r] = j
    BY DEF Linked
  <2>2. r # p /\ tree[r] = j /\ j # None
    BY <1>3, <2>1, RecorderAssumption
  <2>3. ASSUME NEW q, Lookup(q) = j PROVE Lookup(q)' = j
    <3>1. q \in Paths /\ tree[q] = j
      BY <2>2, <2>3 DEF Lookup
    <3>2. q = r
      BY <3>1, <2>2 DEF RecorderInv, OneName
    <3>. QED
      BY <3>1, <3>2, <2>1 DEF Lookup
  <2>. QED
    BY <2>2, <2>3 DEF Linked
<1>9. MapsComplete' /\ EntriesOpen' /\ FdMapAccurate'
  BY <1>1, <1>8, SameMaps DEF IsOpen
<1>10. LogRebuildsTree'
  <2>1. ASSUME NEW q \in Paths, ~missed' PROVE mods_'[q] = Stat(q)'
    <3>1. mods_[q] = Stat(q)
      BY <1>1, <2>1, TreeAsLog
    <3>2. CASE q = p
      BY <3>2, <1>2, <1>3, <1>4 DEF Stat, Lookup
    <3>3. CASE q # p
      BY <3>1, <3>3, <1>1, <1>2, <1>3, <1>4 DEF Stat, Lookup
    <3>. QED
      BY <3>2, <3>3
  <2>. QED
    BY <1>5, <2>1, LogAsTree
<1>. QED
  BY <1>6, <1>7, <1>9, <1>10 DEF RecorderInv

LEMMA PrefixOfItself == ASSUME NEW p \in Paths PROVE IsPrefix(p, p)
<1> DEFINE S == UNION {Range(q) : q \in Paths}
<1>1. p \in Seq(S)
  BY RecorderAssumption
<1> HIDE DEF S
<1>. QED
  BY <1>1 DEF IsPrefix

\* What has the name p in the renamed tree had one before: below old if p is below
\* new, the same name, apart from old, if not.
NameBefore(old, new, p, j) ==
    \/ \E q \in Paths : /\ tree[q] = j /\ IsPrefix(old, q) /\ Moved(old, new, q) = p
                        /\ q = old \/ Under(q, old)
    \/ tree[p] = j /\ ~(p = old \/ Under(p, old))

LEMMA RenamedNames ==
    ASSUME NEW old \in Paths, NEW new \in Paths, NEW p \in Paths, NEW j, j # None,
           RenamedTree(old, new)[p] = j
    PROVE  NameBefore(old, new, p, j)
<1>1. CASE p = new \/ Under(p, new)
  <2> DEFINE q == Moved(new, old, p)
  <2>1. Lookup(q) = j
    BY <1>1 DEF RenamedTree
  <2>2. IsPrefix(new, p)
    BY <1>1, PrefixOfItself DEF Under, IsStrictPrefix
  <2>3. /\ IsPrefix(old, q) /\ Moved(old, new, q) = p
        /\ q = old \/ Under(q, old)
    BY <1>1, <2>2, PathsAreSequences
  <2>4. q \in Paths /\ tree[q] = j
    BY <2>1 DEF Lookup
  <2> HIDE DEF q
  <2>. QED
    BY <2>3, <2>4 DEF NameBefore
<1>2. CASE ~(p = new \/ Under(p, new))
  <2>1. ~(p = old \/ Under(p, old)) /\ tree[p] = j
    BY <1>2 DEF RenamedTree
  <2>. QED
    BY <2>1 DEF NameBefore
<1>. QED
  BY <1>1, <1>2

\* To rename a path to itself changes nothing.
LEMMA MovedToItself ==
    ASSUME NEW S, NEW a \in Seq(S), NEW p \in Seq(S), IsPrefix(a, p)
    PROVE  Moved(a, a, p) = p
<1> DEFINE t == SubSeq(p, Len(a) + 1, Len(p))
           m == a \o t
<1>1. /\ Len(a) \in Nat /\ Len(p) \in Nat /\ Len(a) <= Len(p)
      /\ SubSeq(a, 1, Len(a)) = SubSeq(p, 1, Len(a))
  BY DEF IsPrefix
<1>2. /\ t \in Seq(S) /\ Len(t) = Len(p) - Len(a)
      /\ \A i \in 1..Len(t) : t[i] = p[Len(a) + i]
  BY <1>1
<1>3. \A i \in 1..Len(a) : a[i] = p[i]
  <2> SUFFICES ASSUME NEW i \in 1..Len(a) PROVE a[i] = p[i]
    OBVIOUS
  <2>1. SubSeq(a, 1, Len(a))[i] = a[i] /\ SubSeq(p, 1, Len(a))[i] = p[i]
    BY <1>1
  <2>. QED
    BY <1>1, <2>1
<1> HIDE DEF t
<1>4. /\ m \in Seq(S) /\ Len(m) = Len(a) + Len(t)
      /\ \A i \in 1..Len(a) : m[i] = a[i]
      /\ \A i \in 1..Len(t) : m[Len(a) + i] = t[i]
  <2>1. a \in Seq(S) /\ t \in Seq(S)
    BY <1>2
  <2>. QED
    BY <2>1, ConcatFacts
<1>5. m = Moved(a, a, p)
  BY DEF Moved, t
<1> HIDE DEF m
<1>6. \A i \in 1..Len(p) : m[i] = p[i]
  <2> SUFFICES ASSUME NEW i \in 1..Len(p) PROVE m[i] = p[i]
    OBVIOUS
  <2>1. CASE i <= Len(a)
    BY <2>1, <1>1, <1>3, <1>4
  <2>2. CASE i > Len(a)
    <3> DEFINE k == i - Len(a)
    <3>1. k \in 1..Len(t) /\ i = Len(a) + k
      BY <2>2, <1>1, <1>2
    <3> HIDE DEF k
    <3>. QED
      BY <3>1, <1>2, <1>4
  <2>. QED
    BY <2>1, <2>2, <1>1
<1>7. m = p
  BY <1>1, <1>2, <1>4, <1>6
<1>. QED
  BY <1>5, <1>7

LEMMA RenamedToItself ==
    ASSUME TypeOK, NEW path \in Paths PROVE RenamedTree(path, path) = tree
<1>1. tree \in [Paths -> Inode \cup {None}]
  BY DEF TypeOK
<1>2. ASSUME NEW q \in Paths PROVE RenamedTree(path, path)[q] = tree[q]
  <2>1. CASE q = path \/ Under(q, path)
    <3> DEFINE T == UNION {Range(r) : r \in Paths}
    <3>1. path \in Seq(T) /\ q \in Seq(T) /\ IsPrefix(path, q)
      BY <2>1, PrefixOfItself, RecorderAssumption DEF Under, IsStrictPrefix
    <3> HIDE DEF T
    <3>2. Moved(path, path, q) = q
      BY <3>1, MovedToItself
    <3>. QED
      BY <2>1, <3>2 DEF RenamedTree, Lookup
  <2>2. CASE ~(q = path \/ Under(q, path))
    BY <2>2 DEF RenamedTree
  <2>. QED
    BY <2>1, <2>2
<1>3. RenamedTree(path, path) = [q \in Paths |-> RenamedTree(path, path)[q]]
  BY DEF RenamedTree
<1>. QED
  BY <1>1, <1>2, <1>3

LEMMA CmRenameStep ==
    ASSUME NEW old \in Paths, NEW new \in Paths, RecorderInv, CmRename(old, new)
    PROVE  RecorderInv'
<1> DEFINE map == [fd \in DOMAIN fd_map_ |-> RenamedEntry(old, new, fd_map_[fd])]
<1>1. /\ fd_map_' = map
      /\ UNCHANGED <<node, files, mapped, mmap_map_, mods_>>
  BY DEF CmRename
<1>2. /\ DOMAIN fd_map_' = DOMAIN fd_map_
      /\ \A fd \in DOMAIN fd_map_ : fd_map_'[fd] = RenamedEntry(old, new, fd_map_[fd])
  BY <1>1
<1>3. MapsComplete'
  BY <1>1, <1>2 DEF RecorderInv, MapsComplete, IsOpen
<1>4. CASE /\ tree' = RenamedTree(old, new)
           /\ misled' = misled \cup {fd \in DOMAIN map :
                  /\ map[fd] # fd_map_[fd]
                  /\ ~(fd_map_[fd] = old \/ Under(fd_map_[fd], old))}
           /\ missed' = (missed \/ old # new)
  <2>1. tree' \in [Paths -> Inode \cup {None}]
    BY <1>4 DEF RecorderInv, TypeOK, RenamedTree, Lookup
  <2>2. misled \subseteq misled' /\ misled' \subseteq Fd /\ missed' \in BOOLEAN
    BY <1>4 DEF RecorderInv, TypeOK
  <2>3. TypeOK'
    BY <1>1, <1>2, <2>1, <2>2 DEF RecorderInv, TypeOK
  <2>4. OneName'
    <3> SUFFICES ASSUME NEW x \in Paths, NEW y \in Paths, tree'[x] = tree'[y], tree'[x] # None
                 PROVE  x = y
      BY DEF OneName
    <3>1. PICK i \in Inode : i = tree'[x]
      BY <2>1
    <3>2. i # None /\ RenamedTree(old, new)[x] = i /\ RenamedTree(old, new)[y] = i
      BY <1>4, <3>1
    <3>3. NameBefore(old, new, x, i) /\ NameBefore(old, new, y, i)
      BY <3>2, RenamedNames
    <3>4. /\ \/ \E r \in Paths : /\ tree[r] = i /\ Moved(old, new, r) = x
                                 /\ r = old \/ Under(r, old)
             \/ tree[x] = i /\ ~(x = old \/ Under(x, old))
          /\ \/ \E r \in Paths : /\ tree[r] = i /\ Moved(old, new, r) = y
                                 /\ r = old \/ Under(r, old)
             \/ tree[y] = i /\ ~(y = old \/ Under(y, old))
      BY <3>3 DEF NameBefore
    <3>5. \A r, s \in Paths : tree[r] = i /\ tree[s] = i => r = s
      BY <3>2 DEF RecorderInv, OneName
    <3>. QED
      BY <3>4, <3>5
  <2>5. EntriesOpen'
    BY <1>1, <1>2, <2>2 DEF RecorderInv, EntriesOpen, IsOpen
  <2>6. FdMapAccurate'
    <3> SUFFICES ASSUME NEW fd \in Fd, fd \notin misled', IsOpen(fd)', Linked(files[fd].ino)'
                 PROVE  Lookup(fd_map_[fd])' = files'[fd].ino
      BY DEF FdMapAccurate
    <3> DEFINE j == files[fd].ino
               path == fd_map_[fd]
    <3>1. /\ IsOpen(fd) /\ files'[fd].ino = j /\ j \in Inode /\ j # None /\ fd \in DOMAIN fd_map_
          /\ fd \notin misled
      BY <1>1, <2>2, OpenFacts DEF RecorderInv, MapsComplete, IsOpen
    <3>2. PICK p \in Paths : tree'[p] = j
      BY <3>1 DEF Linked
    <3>3. \/ \E q \in Paths : /\ tree[q] = j /\ IsPrefix(old, q) /\ Moved(old, new, q) = p
                              /\ q = old \/ Under(q, old)
          \/ tree[p] = j /\ ~(p = old \/ Under(p, old))
      <4>1. RenamedTree(old, new)[p] = j
        BY <1>4, <3>2
      <4>2. NameBefore(old, new, p, j)
        BY <3>1, <4>1, RenamedNames
      <4>. QED
        BY <4>2 DEF NameBefore
    <3>4. PICK q \in Paths : tree[q] = j
      BY <3>3
    <3>5. Linked(j)
      BY <3>4 DEF Linked
    <3>6. Lookup(path) = j
      BY <3>1, <3>5 DEF RecorderInv, FdMapAccurate
    <3>7. path = q
      BY <3>1, <3>4, <3>6 DEF Lookup, RecorderInv, OneName
    <3>8. fd_map_'[fd] = RenamedEntry(old, new, path)
      BY <1>2, <3>1
    <3>9. fd_map_'[fd] = p
      <4>1. \A r \in Paths : tree[r] = j => r = q
        BY <3>1, <3>4 DEF RecorderInv, OneName
      <4>2. CASE IsPrefix(old, q) /\ Moved(old, new, q) = p
        BY <4>2, <3>7, <3>8 DEF RenamedEntry
      <4>3. CASE q = p /\ ~(p = old \/ Under(p, old))
        <5>1. map[fd] = fd_map_[fd]
          BY <1>4, <3>1, <3>7, <4>3
        <5>. QED
          BY <5>1, <1>1, <3>7, <4>3
      <4>. QED
        BY <3>3, <4>1, <4>2, <4>3
    <3>10. Lookup(fd_map_[fd])' = IF fd_map_'[fd] \in Paths THEN tree'[fd_map_'[fd]] ELSE None
      BY DEF Lookup
    <3>. QED
      BY <3>1, <3>2, <3>9, <3>10
  <2>7. LogRebuildsTree'
    <3>1. CASE missed'
      BY <3>1 DEF LogRebuildsTree
    <3>2. CASE ~missed'
      <4>1. old = new /\ missed' = missed
        BY <1>4, <3>2 DEF RecorderInv, TypeOK
      <4>2. tree' = tree
        BY <1>4, <4>1, RenamedToItself DEF RecorderInv
      <4>. QED
        BY <1>1, <4>1, <4>2, SameLog
    <3>. QED
      BY <3>1, <3>2
  <2>. QED
    BY <1>3, <2>3, <2>4, <2>5, <2>6, <2>7 DEF RecorderInv
<1>5. CASE /\ tree' = tree
           /\ misled' = misled \cup {fd \in DOMAIN map : map[fd] # fd_map_[fd]}
           /\ missed' = missed
  <2>1. misled \subseteq misled' /\ misled' \subseteq Fd
    BY <1>5 DEF RecorderInv, TypeOK
  <2>2. TypeOK'
    BY <1>1, <1>2, <1>5, <2>1 DEF RecorderInv, TypeOK
  <2>3. OneName' /\ NamesKept
    BY <1>5, SameTree DEF RecorderInv
  <2>4. EntriesOpen'
    BY <1>1, <1>2, <2>1 DEF RecorderInv, EntriesOpen, IsOpen
  <2>5. FdMapAccurate'
    <3>1. ASSUME NEW fd \in Fd \ misled', IsOpen(fd)'
          PROVE  fd \notin misled /\ IsOpen(fd) /\ files'[fd].ino = files[fd].ino
                 /\ fd_map_'[fd] = fd_map_[fd]
      <4>1. IsOpen(fd) /\ fd \notin misled /\ fd \in DOMAIN fd_map_
        BY <1>1, <2>1, <3>1 DEF IsOpen, RecorderInv, MapsComplete
      <4>2. map[fd] = fd_map_[fd]
        BY <1>5, <3>1, <4>1
      <4>. QED
        BY <1>1, <4>1, <4>2
    <3>. QED
      BY <2>3, <3>1, EntriesKept
  <2>6. LogRebuildsTree'
    BY <1>1, <1>5, SameLog
  <2>. QED
    BY <1>3, <2>2, <2>3, <2>4, <2>5, <2>6 DEF RecorderInv
<1>. QED
  BY <1>4, <1>5 DEF CmRename
-----------------------------------------------------------------------------
(* Data *)

\* What is left to show of a call that changes no name, mapping or map, and no more
\* than the position of a descriptor.
LEMMA DataStep ==
    ASSUME RecorderInv, NEW fd \in Fd, IsOpen(fd),
           UNCHANGED <<tree, mapped, fd_map_, mmap_map_, misled>>,
           \/ files' = files
           \/ \E n \in 0..MaxSize : files' = [files EXCEPT ![fd].pos = n],
           node' \in [Inode -> FileStat], mods_' \in [Paths -> FileStat],
           missed' \in BOOLEAN, LogRebuildsTree'
    PROVE  RecorderInv'
<1>1. files \in [Fd -> {None} \cup OpenFile] /\ files[fd] \in OpenFile
  BY OpenFacts DEF RecorderInv, TypeOK
<1>2. /\ files' \in [Fd -> {None} \cup OpenFile]
      /\ \A e \in Fd : IsOpen(e)' <=> IsOpen(e)
      /\ \A e \in Fd : IsOpen(e) => files'[e].ino = files[e].ino
  <2>1. CASE files' = files
    BY <2>1, <1>1 DEF IsOpen
  <2>2. ASSUME NEW n \in 0..MaxSize, files' = [files EXCEPT ![fd].pos = n]
        PROVE  /\ files' \in [Fd -> {None} \cup OpenFile]
               /\ \A e \in Fd : IsOpen(e)' <=> IsOpen(e)
               /\ \A e \in Fd : IsOpen(e) => files'[e].ino = files[e].ino
    <3> DEFINE g == [files[fd] EXCEPT !.pos = n]
    <3>1. g \in OpenFile /\ g.ino = files[fd].ino
      BY <1>1 DEF OpenFile
    <3>2. files' = [files EXCEPT ![fd] = g]
      BY <2>2
    <3> HIDE DEF g
    <3>3. g # None /\ files[fd] # None
      BY <3>1, RecorderAssumption DEF IsOpen
    <3>4. files'[fd] = g /\ \A e \in Fd : e # fd => files'[e] = files[e]
      BY <3>2, <1>1
    <3>5. files' \in [Fd -> {None} \cup OpenFile]
      BY <3>1, <3>2, <1>1
    <3>. QED
      BY <3>1, <3>3, <3>4, <3>5 DEF IsOpen
  <2>. QED
    BY <2>1, <2>2
<1>3. TypeOK'
  BY <1>2 DEF RecorderInv, TypeOK
<1>4. NamesKept /\ OneName'
  BY SameTree DEF RecorderInv
<1>5. MapsComplete' /\ EntriesOpen' /\ FdMapAccurate'
  BY <1>2, <1>4, SameMaps
<1>. QED
  BY <1>3, <1>4, <1>5 DEF RecorderInv

\* Any DiskMod within the bounds leaves a log that describes a file system.
LEMMA DescribedTyped ==
    ASSUME NEW t \in [Paths -> FileStat], NEW m,
           m.type = "data_meta" /\ m.opt \in {"none", "falloc"} =>
               m.loc \in Nat /\ m.len \in Nat /\ m.loc + m.len <= MaxSize
    PROVE  Described(t, m) \in [Paths -> FileStat]
<1>1. /\ NoFile \in FileStat /\ MaxSize \in Nat
      /\ [kind |-> IF m.dir THEN "dir" ELSE "file", size |-> 0] \in FileStat
  BY RecorderAssumption DEF NoFile, FileStat
<1>2. CASE m.path \notin Paths
  BY <1>2 DEF Described
<1>3. CASE m.path \in Paths
  <2> DEFINE z == [t[m.path] EXCEPT !.size = 0]
             g == [t[m.path] EXCEPT !.size = Larger(@, m.loc + m.len)]
  <2>1. z \in FileStat
    BY <1>1, <1>3 DEF FileStat
  <2>2. CASE m.type = "create"
    BY <2>2, <1>1, <1>3 DEF Described
  <2>3. CASE m.type = "remove"
    BY <2>3, <1>1, <1>3 DEF Described
  <2>4. CASE m.type = "data_meta" /\ m.opt = "truncate"
    <3>1. Described(t, m) = [t EXCEPT ![m.path] = z]
      BY <2>4, <1>3 DEF Described
    <3>. QED
      BY <2>1, <3>1
  <2>5. CASE m.type = "data_meta" /\ m.opt \in {"none", "falloc"} /\ m.len > 0
    <3>1. g \in FileStat
      BY <2>5, <1>1, <1>3 DEF FileStat, Larger
    <3>2. Described(t, m) = [t EXCEPT ![m.path] = g]
      BY <2>5, <1>3 DEF Described
    <3> HIDE DEF g
    <3>. QED
      BY <3>1, <3>2
  <2>6. CASE /\ m.type # "create" /\ m.type # "remove"
             /\ ~(m.type = "data_meta" /\ m.opt = "truncate")
             /\ ~(m.type = "data_meta" /\ m.opt \in {"none", "falloc"} /\ m.len > 0)
    BY <2>6 DEF Described
  <2>. QED
    BY <2>2, <2>3, <2>4, <2>5, <2>6
<1>. QED
  BY <1>2, <1>3

\* Bytes land in the file behind fd.
LEMMA Extended ==
    ASSUME RecorderInv, NEW fd \in Fd, IsOpen(fd), NEW off \in Nat, NEW n \in Nat,
           off + n <= MaxSize, UNCHANGED tree, Extend(fd, off, n)
    PROVE  /\ node' \in [Inode -> FileStat]
           /\ n = 0 => node' = node
           /\ n > 0 => /\ node'[files[fd].ino] =
                              [node[files[fd].ino] EXCEPT !.size = Larger(@, off + n)]
                       /\ \A j \in Inode : j # files[fd].ino => node'[j] = node[j]
<1> DEFINE i == files[fd].ino
           g == [node[i] EXCEPT !.size = Larger(@, off + n)]
<1>1. i \in Inode /\ node \in [Inode -> FileStat] /\ node[i] \in FileStat
  BY OpenFacts DEF RecorderInv, TypeOK
<1>2. g \in FileStat
  BY <1>1, RecorderAssumption, SMTT(30) DEF FileStat, Larger
<1>3. node' = IF n = 0 THEN node ELSE [node EXCEPT ![i] = g]
  BY DEF Extend
<1> HIDE DEF i, g
<1>4. /\ node' \in [Inode -> FileStat]
      /\ n = 0 => node' = node
      /\ n > 0 => node'[i] = g /\ \A j \in Inode : j # i => node'[j] = node[j]
  BY <1>1, <1>2, <1>3
<1>. QED
  BY <1>4 DEF i, g

\* Written where and in the file the DiskMod says, and recorded if the size changed.
LEMMA WriteLogged ==
    ASSUME RecorderInv, NEW fd \in Fd, IsOpen(fd), NEW off \in Nat, NEW n \in Nat,
           off + n <= MaxSize, UNCHANGED tree, Extend(fd, off, n),
           NEW path \in Paths, tree[path] = files[fd].ino, ~missed,
           mods_' \in [Paths -> FileStat],
           \/ node' = node /\ mods_' = mods_
           \/ n > 0 /\ mods_' = [mods_ EXCEPT ![path].size = Larger(@, off + n)]
    PROVE  LogRebuildsTree'
<1> DEFINE i == files[fd].ino
<1>1. i \in Inode /\ i # None /\ mods_ \in [Paths -> FileStat] /\ tree \in [Paths -> Inode \cup {None}]
  BY OpenFacts DEF RecorderInv, TypeOK
<1>2. ASSUME NEW q \in Paths PROVE mods_'[q] = Stat(q)'
  <2>1. mods_[q] = Stat(q)
    BY TreeAsLog
  <2>2. CASE node' = node /\ mods_' = mods_
    BY <2>1, <2>2, SameTree
  <2>3. CASE n > 0 /\ mods_' = [mods_ EXCEPT ![path].size = Larger(@, off + n)]
    <3>1. /\ node'[i] = [node[i] EXCEPT !.size = Larger(@, off + n)]
          /\ \A j \in Inode : j # i => node'[j] = node[j]
      BY <2>3, Extended
    <3>2. CASE q = path
      <4>1. Stat(q) = node[i] /\ Stat(q)' = node'[i]
        BY <3>2, <1>1 DEF Stat, Lookup
      <4>2. mods_'[q] = [mods_[q] EXCEPT !.size = Larger(@, off + n)]
        BY <3>2, <2>3, <1>1
      <4>. QED
        BY <4>1, <4>2, <3>1, <2>1
    <3>3. CASE q # path
      <4>1. tree[q] # i
        BY <3>3, <1>1 DEF RecorderInv, OneName
      <4>2. Stat(q)' = Stat(q)
        <5>1. tree[q] \in Inode => node'[tree[q]] = node[tree[q]]
          BY <3>1, <4>1
        <5>2. tree[q] \in Inode \/ tree[q] = None
          BY <1>1
        <5>. QED
          BY <5>1, <5>2 DEF Stat, Lookup
      <4>3. mods_'[q] = mods_[q]
        BY <3>3, <2>3, <1>1
      <4>. QED
        BY <2>1, <4>2, <4>3
    <3>. QED
      BY <3>2, <3>3
  <2>. QED
    BY <2>2, <2>3
<1>. QED
  BY <1>2, LogAsTree

LEMMA WriteRecorded ==
    ASSUME RecorderInv, NEW fd \in Fd, IsOpen(fd), node[files[fd].ino].kind = "file",
           Exists(fd_map_[fd]), NEW loc \in Nat, NEW off \in Nat, NEW n \in Nat,
           off + n <= MaxSize, loc + n <= MaxSize,
           UNCHANGED tree, Extend(fd, off, n), Record(WriteMod(fd, loc, n)),
           missed' = (missed \/ Misplaced(fd, loc, off))
    PROVE  /\ node' \in [Inode -> FileStat] /\ mods_' \in [Paths -> FileStat]
           /\ missed' \in BOOLEAN /\ LogRebuildsTree'
<1> DEFINE m == WriteMod(fd, loc, n)
           i == files[fd].ino
           path == fd_map_[fd]
<1>1. mods_ \in [Paths -> FileStat] /\ i \in Inode /\ i # None /\ node[i] \in FileStat
  BY OpenFacts DEF RecorderInv, TypeOK
<1>2. path \in Paths /\ Lookup(path) = tree[path] /\ Stat(path) = node[tree[path]]
  BY LookupFacts DEF RecorderInv
<1>3. mods_' = Described(mods_, m)
  BY DEF Record
<1>4. \/ m.type = "create"
      \/ /\ m.type \in {"data", "data_meta"} /\ m.opt = "none" /\ m.path = path
         /\ m.loc = loc /\ m.len = n
         /\ m.type = "data_meta" <=> StatOf(fd).size # StatAfter(fd).size
         /\ StatOf(fd).kind # "dir"
  BY DEF WriteMod, ResetMod, Mod
<1>5. mods_' \in [Paths -> FileStat]
  <2>1. m.type = "data_meta" /\ m.opt \in {"none", "falloc"} =>
           m.loc \in Nat /\ m.len \in Nat /\ m.loc + m.len <= MaxSize
    BY <1>4
  <2> HIDE DEF m
  <2>. QED
    BY <1>1, <1>3, <2>1, DescribedTyped
<1>6. node' \in [Inode -> FileStat]
  BY Extended
<1>7. missed' \in BOOLEAN
  BY DEF RecorderInv, TypeOK
<1>8. LogRebuildsTree'
  <2>1. CASE missed'
    BY <2>1 DEF LogRebuildsTree
  <2>2. CASE ~missed'
    <3>1. ~missed /\ loc = off /\ tree[path] = i
      BY <2>2, <1>2, <1>7 DEF Misplaced
    <3>2. StatOf(fd) = node[i] /\ StatAfter(fd) = node'[i]
      BY <3>1, <1>2 DEF StatOf, StatAfter
    <3>3. /\ m.type \in {"data", "data_meta"} /\ m.opt = "none" /\ m.path = path
          /\ m.loc = off /\ m.len = n
          /\ m.type = "data_meta" <=> node[i].size # node'[i].size
      <4>1. StatOf(fd).kind # "dir"
        BY <3>2
      <4>2. m.type # "create"
        BY <4>1 DEF WriteMod, Mod
      <4>. QED
        BY <1>4, <3>1, <3>2, <4>2
    <3>4. \/ node' = node /\ mods_' = mods_
          \/ n > 0 /\ mods_' = [mods_ EXCEPT ![path].size = Larger(@, off + n)]
      <4> HIDE DEF m
      <4>1. CASE node[i].size # node'[i].size
        <5>1. n > 0
          <6>1. n = 0 => node' = node
            BY Extended
          <6>. QED
            BY <6>1, <4>1
        <5>2. Described(mods_, m) = [mods_ EXCEPT ![m.path].size = Larger(@, m.loc + m.len)]
          BY <5>1, <4>1, <3>3, <1>1, <1>2 DEF Described
        <5>. QED
          BY <5>1, <5>2, <3>3, <1>3
      <4>2. CASE node[i].size = node'[i].size
        <5>1. mods_' = mods_
          BY <4>2, <3>3, <1>1, <1>3, DescribedFacts
        <5>2. node' = node
          <6> USE DEF RecorderInv
          <6>1. CASE n = 0
            BY <6>1, Extended
          <6>2. CASE n > 0
            <7>1. /\ node'[i] = [node[i] EXCEPT !.size = Larger(@, off + n)]
                  /\ \A j \in Inode : j # i => node'[j] = node[j]
              BY <6>2, Extended
            <7>2. node'[i] = node[i]
              BY <7>1, <4>2, <1>1 DEF FileStat
            <7>3. \A j \in Inode : node'[j] = node[j]
              BY <7>1, <7>2
            <7>. QED
              BY <7>3, <1>6 DEF TypeOK
          <6>. QED
            BY <6>1, <6>2
        <5>. QED
          BY <5>1, <5>2
      <4>. QED
        BY <4>1, <4>2
    <3>5. path \in Paths /\ tree[path] = files[fd].ino
      BY <1>2, <3>1
    <3> HIDE DEF path, m, i
    <3>. QED
      BY <3>1, <3>4, <3>5, <1>5, WriteLogged
  <2>. QED
    BY <2>1, <2>2, <1>7
<1>. QED
  BY <1>5, <1>6, <1>7, <1>8

LEMMA CmLseekStep == ASSUME NEW fd \in Fd, RecorderInv, CmLseek(fd) PROVE RecorderInv'
<1>1. /\ IsOpen(fd) /\ \E n \in 0..MaxSize : files' = [files EXCEPT ![fd].pos = n]
      /\ UNCHANGED <<tree, node, mapped, fd_map_, mmap_map_, mods_, misled, missed>>
  BY DEF CmLseek, mapVars
<1>2. node' \in [Inode -> FileStat] /\ mods_' \in [Paths -> FileStat] /\ missed' \in BOOLEAN
  BY <1>1 DEF RecorderInv, TypeOK
<1>3. LogRebuildsTree'
  BY <1>1, SameLog
<1>. QED
  BY <1>1, <1>2, <1>3, DataStep

LEMMA CmWriteStep ==
    ASSUME NEW fd \in Fd, NEW n \in 0..1, RecorderInv, CmWrite(fd, n) PROVE RecorderInv'
<1> DEFINE loc == files[fd].pos
           off == IF files[fd].append /\ n > 0 THEN node[files[fd].ino].size ELSE loc
<1>1. /\ IsOpen(fd) /\ node[files[fd].ino].kind = "file" /\ Exists(fd_map_[fd])
      /\ off + n <= MaxSize /\ loc + n <= MaxSize
      /\ Extend(fd, off, n) /\ files' = [files EXCEPT ![fd].pos = off + n]
      /\ Record(WriteMod(fd, loc, n)) /\ missed' = (missed \/ Misplaced(fd, loc, off))
      /\ UNCHANGED <<tree, mapped, fd_map_, mmap_map_, misled>>
  BY DEF CmWrite, mapVars
<1>2. loc \in Nat /\ off \in Nat /\ n \in Nat
  BY <1>1, OpenFacts, RecorderAssumption DEF RecorderInv, FileStat
<1> HIDE DEF loc, off
<1>3. /\ node' \in [Inode -> FileStat] /\ mods_' \in [Paths -> FileStat]
      /\ missed' \in BOOLEAN /\ LogRebuildsTree'
  BY <1>1, <1>2, WriteRecorded
<1>4. off + n \in 0..MaxSize
  BY <1>1, <1>2, RecorderAssumption
<1>. QED
  BY <1>1, <1>3, <1>4, DataStep

LEMMA CmPwriteStep ==
    ASSUME NEW fd \in Fd, NEW loc \in 0..MaxSize, NEW n \in 0..1, RecorderInv,
           CmPwrite(fd, loc, n)
    PROVE  RecorderInv'
<1> DEFINE off == IF files[fd].append /\ n > 0 THEN node[files[fd].ino].size ELSE loc
<1>1. /\ IsOpen(fd) /\ node[files[fd].ino].kind = "file" /\ Exists(fd_map_[fd])
      /\ off + n <= MaxSize /\ loc + n <= MaxSize
      /\ Extend(fd, off, n)
      /\ Record(WriteMod(fd, loc, n)) /\ missed' = (missed \/ Misplaced(fd, loc, off))
      /\ UNCHANGED <<tree, files, mapped, fd_map_, mmap_map_, misled>>
  BY DEF CmPwrite, mapVars
<1>2. loc \in Nat /\ off \in Nat /\ n \in Nat
  BY <1>1, OpenFacts, RecorderAssumption DEF RecorderInv, FileStat
<1> HIDE DEF off
<1>3. /\ node' \in [Inode -> FileStat] /\ mods_' \in [Paths -> FileStat]
      /\ missed' \in BOOLEAN /\ LogRebuildsTree'
  BY <1>1, <1>2, WriteRecorded
<1>. QED
  BY <1>1, <1>3, DataStep

LEMMA CmFallocateStep ==
    ASSUME NEW fd \in Fd, NEW loc \in 0..MaxSize, NEW n \in 0..1, NEW keep \in BOOLEAN,
           RecorderInv, CmFallocate(fd, loc, n, keep)
    PROVE  RecorderInv'
<1> DEFINE e == IF keep THEN 0 ELSE n
           i == files[fd].ino
           path == fd_map_[fd]
<1>1. /\ IsOpen(fd) /\ Exists(path) /\ n > 0 /\ loc + n <= MaxSize
      /\ Extend(fd, loc, e) /\ missed' = (missed \/ Misplaced(fd, loc, loc))
      /\ UNCHANGED <<tree, files, mapped, fd_map_, mmap_map_, misled>>
  BY DEF CmFallocate, mapVars
<1>2. PICK blocks \in BOOLEAN :
         Record(Mod(IF blocks \/ StatOf(fd).size # StatAfter(fd).size
                    THEN "data_meta" ELSE "data",
                    IF keep THEN "falloc_keep" ELSE "falloc", path, FALSE, loc, n))
  BY DEF CmFallocate
<1> DEFINE m == Mod(IF blocks \/ StatOf(fd).size # StatAfter(fd).size
                    THEN "data_meta" ELSE "data",
                    IF keep THEN "falloc_keep" ELSE "falloc", path, FALSE, loc, n)
<1>3. mods_' = Described(mods_, m)
  BY <1>2 DEF Record
<1>4. /\ m.type \in {"data", "data_meta"} /\ m.path = path /\ m.loc = loc /\ m.len = n
      /\ m.opt = IF keep THEN "falloc_keep" ELSE "falloc"
      /\ m.type = "data" => StatOf(fd).size = StatAfter(fd).size
  BY DEF Mod
<1> HIDE DEF m
<1>5. loc \in Nat /\ n \in Nat /\ e \in Nat /\ loc + e <= MaxSize
  BY <1>1, RecorderAssumption
<1>6. mods_ \in [Paths -> FileStat] /\ i \in Inode /\ node[i] \in FileStat
      /\ node \in [Inode -> FileStat]
  BY <1>1, OpenFacts DEF RecorderInv, TypeOK
<1>7. path \in Paths /\ Lookup(path) = tree[path]
  BY <1>1, LookupFacts DEF RecorderInv
<1>8. mods_' \in [Paths -> FileStat]
  BY <1>1, <1>3, <1>4, <1>5, <1>6, DescribedTyped
<1> HIDE DEF e
<1>9. node' \in [Inode -> FileStat]
  BY <1>1, <1>5, Extended
<1>10. missed' \in BOOLEAN
  BY <1>1 DEF RecorderInv, TypeOK
<1>11. LogRebuildsTree'
  <2>1. CASE missed'
    BY <2>1 DEF LogRebuildsTree
  <2>2. CASE ~missed'
    <3>1. ~missed /\ tree[path] = i
      BY <2>2, <1>1, <1>7, <1>10 DEF Misplaced
    <3>2. StatOf(fd) = node[i] \/ ~Exists(path)
      BY <1>7, <3>1, <1>1 DEF StatOf, Stat, Exists
    <3>3. StatOf(fd) = node[i] /\ StatAfter(fd) = node'[i]
      BY <1>1, <1>7, <3>1, <3>2 DEF StatAfter
    <3>4. \/ node' = node /\ mods_' = mods_
          \/ e > 0 /\ mods_' = [mods_ EXCEPT ![path].size = Larger(@, loc + e)]
      <4>1. CASE keep
        <5>1. e = 0
          BY <4>1 DEF e
        <5>2. node' = node
          BY <1>1, <1>5, <5>1, Extended
        <5>3. mods_' = mods_
          BY <4>1, <1>3, <1>4, <1>6, DescribedFacts
        <5>. QED
          BY <5>2, <5>3
      <4>2. CASE ~keep /\ m.type = "data_meta"
        <5>1. e = n
          BY <4>2 DEF e
        <5>2. Described(mods_, m) = [mods_ EXCEPT ![m.path].size = Larger(@, m.loc + m.len)]
          BY <4>2, <1>1, <1>4, <1>6, <1>7 DEF Described
        <5>. QED
          BY <5>1, <5>2, <1>1, <1>3, <1>4
      <4>3. CASE ~keep /\ m.type = "data"
        <5>1. mods_' = mods_
          BY <4>3, <1>3, <1>4, <1>6, DescribedFacts
        <5>2. e > 0
          BY <4>3, <1>1 DEF e
        <5>3. /\ node'[i] = [node[i] EXCEPT !.size = Larger(@, loc + e)]
              /\ \A j \in Inode : j # i => node'[j] = node[j]
          BY <1>1, <1>5, <5>2, Extended
        <5>4. node'[i] = node[i]
          BY <5>3, <4>3, <3>3, <1>4, <1>6 DEF FileStat
        <5>5. \A j \in Inode : node'[j] = node[j]
          BY <5>3, <5>4
        <5>. QED
          BY <5>1, <5>5, <1>6, <1>9
      <4>. QED
        BY <4>1, <4>2, <4>3, <1>4
    <3>5. path \in Paths /\ tree[path] = files[fd].ino
      BY <1>7, <3>1
    <3> HIDE DEF path, i
    <3>. QED
      BY <1>1, <1>5, <1>8, <3>1, <3>4, <3>5, WriteLogged
  <2>. QED
    BY <2>1, <2>2, <1>10
<1>. QED
  BY <1>1, <1>8, <1>9, <1>10, <1>11, DataStep

LEMMA CmFallocateClosedStep ==
    ASSUME NEW fd \in Fd, RecorderInv, CmFallocateClosed(fd) PROVE RecorderInv'
<1>1. /\ ~IsOpen(fd) /\ fd \notin DOMAIN fd_map_
      /\ fd_map_' = Insert(fd_map_, fd, <<>>) /\ misled' = misled \cup {fd}
      /\ UNCHANGED <<tree, node, files, mapped, mmap_map_, mods_, missed>>
  BY DEF CmFallocateClosed, fsVars
<1>2. /\ DOMAIN fd_map_' = DOMAIN fd_map_ \cup {fd}
      /\ \A x \in DOMAIN fd_map_ : fd_map_'[x] = fd_map_[x]
  BY <1>1 DEF Insert
<1>3. TypeOK'
  BY <1>1, <1>2 DEF RecorderInv, TypeOK
<1>4. MapsComplete'
  BY <1>1, <1>2 DEF RecorderInv, MapsComplete, IsOpen
<1>5. EntriesOpen'
  BY <1>1, <1>2 DEF RecorderInv, EntriesOpen, IsOpen
<1>6. NamesKept /\ OneName'
  BY <1>1, SameTree DEF RecorderInv
<1>7. FdMapAccurate'
  <2>1. ASSUME NEW x \in Fd \ misled', IsOpen(x)'
        PROVE  x \notin misled /\ IsOpen(x) /\ files'[x].ino = files[x].ino /\ fd_map_'[x] = fd_map_[x]
    <3>1. IsOpen(x) /\ x \notin misled
      BY <1>1, <2>1 DEF IsOpen
    <3>2. x \in DOMAIN fd_map_
      BY <3>1 DEF RecorderInv, MapsComplete
    <3>. QED
      BY <3>1, <3>2, <1>1, <1>2
  <2>. QED
    BY <1>6, <2>1, EntriesKept
<1>8. LogRebuildsTree'
  BY <1>1, SameLog
<1>. QED
  BY <1>3, <1>4, <1>5, <1>6, <1>7, <1>8 DEF RecorderInv

\* A mapping is made or goes, and with it its entry.
LEMMA MappingStep ==
    ASSUME RecorderInv,
           UNCHANGED <<tree, node, files, fd_map_, mods_, misled, missed>>,
           mapped' \in [Slot -> {None} \cup Mapping], DOMAIN mmap_map_' \subseteq Slot,
           \A s \in Slot : s \in DOMAIN mmap_map_' <=> mapped'[s] # None /\ mapped'[s].shared
    PROVE  RecorderInv'
<1>1. TypeOK'
  BY DEF RecorderInv, TypeOK
<1>2. MapsComplete' /\ EntriesOpen'
  BY DEF RecorderInv, MapsComplete, EntriesOpen, IsOpen
<1>3. NamesKept /\ OneName'
  BY SameTree DEF RecorderInv
<1>4. FdMapAccurate'
  <2>1. \A fd \in Fd \ misled' : IsOpen(fd)' =>
               /\ fd \notin misled /\ IsOpen(fd)
               /\ files'[fd].ino = files[fd].ino /\ fd_map_'[fd] = fd_map_[fd]
    BY DEF IsOpen
  <2>. QED
    BY <1>3, <2>1, EntriesKept
<1>5. LogRebuildsTree'
  BY SameLog
<1>. QED
  BY <1>1, <1>2, <1>3, <1>4, <1>5 DEF RecorderInv

LEMMA CmMmapStep ==
    ASSUME NEW fd \in Fd, NEW s \in Slot, NEW shared \in BOOLEAN, NEW off, NEW len,
           RecorderInv, CmMmap(fd, s, shared, off, len)
    PROVE  RecorderInv'
<1> DEFINE g == [ino |-> files[fd].ino, shared |-> shared]
<1>1. /\ IsOpen(fd) /\ mapped[s] = None /\ mapped' = [mapped EXCEPT ![s] = g]
      /\ UNCHANGED <<tree, node, files, fd_map_, mods_, misled, missed>>
  BY DEF CmMmap
<1>2. mmap_map_' = IF shared THEN Insert(mmap_map_, s, <<fd_map_[fd], off, len>>) ELSE mmap_map_
  BY DEF CmMmap
<1>3. mapped \in [Slot -> {None} \cup Mapping] /\ DOMAIN mmap_map_ \subseteq Slot
  BY DEF RecorderInv, TypeOK
<1>4. g \in Mapping /\ g # None /\ g.shared = shared
  BY <1>1, OpenFacts, RecorderAssumption DEF RecorderInv, Mapping
<1> HIDE DEF g
<1>5. mapped' \in [Slot -> {None} \cup Mapping] /\ mapped'[s] = g
      /\ \A t \in Slot : t # s => mapped'[t] = mapped[t]
  BY <1>1, <1>3, <1>4
<1>6. DOMAIN mmap_map_' = IF shared THEN DOMAIN mmap_map_ \cup {s} ELSE DOMAIN mmap_map_
  BY <1>2, InsertFacts
<1>7. \A t \in Slot : t \in DOMAIN mmap_map_ <=> mapped[t] # None /\ mapped[t].shared
  BY DEF RecorderInv, MapsComplete
<1>8. \A t \in Slot : t \in DOMAIN mmap_map_' <=> mapped'[t] # None /\ mapped'[t].shared
  <2> SUFFICES ASSUME NEW t \in Slot
               PROVE  t \in DOMAIN mmap_map_' <=> mapped'[t] # None /\ mapped'[t].shared
    OBVIOUS
  <2>1. CASE t = s
    BY <2>1, <1>1, <1>4, <1>5, <1>6, <1>7
  <2>2. CASE t # s
    BY <2>2, <1>5, <1>6, <1>7
  <2>. QED
    BY <2>1, <2>2
<1>9. DOMAIN mmap_map_' \subseteq Slot
  BY <1>3, <1>6
<1>. QED
  BY <1>1, <1>5, <1>8, <1>9, MappingStep

LEMMA CmMunmapStep == ASSUME NEW s \in Slot, RecorderInv, CmMunmap(s) PROVE RecorderInv'
<1>1. /\ mapped' = [mapped EXCEPT ![s] = None] /\ mmap_map_' = Erase(mmap_map_, s)
      /\ UNCHANGED <<tree, node, files, fd_map_, mods_, misled, missed>>
  BY DEF CmMunmap
<1>2. mapped \in [Slot -> {None} \cup Mapping] /\ DOMAIN mmap_map_ \subseteq Slot
  BY DEF RecorderInv, TypeOK
<1>3. mapped' \in [Slot -> {None} \cup Mapping] /\ mapped'[s] = None
      /\ \A t \in Slot : t # s => mapped'[t] = mapped[t]
  BY <1>1, <1>2
<1>4. DOMAIN mmap_map_' = DOMAIN mmap_map_ \ {s}
  BY <1>1, EraseFacts
<1>5. \A t \in Slot : t \in DOMAIN mmap_map_ <=> mapped[t] # None /\ mapped[t].shared
  BY DEF RecorderInv, MapsComplete
<1>6. \A t \in Slot : t \in DOMAIN mmap_map_' <=> mapped'[t] # None /\ mapped'[t].shared
  BY <1>3, <1>4, <1>5
<1>7. DOMAIN mmap_map_' \subseteq Slot
  BY <1>2, <1>4
<1>. QED
  BY <1>1, <1>3, <1>6, <1>7, MappingStep

\* A call that leaves nothing but a DiskMod that says nothing of names and sizes, and
\* a step that does nothing at all.
LEMMA QuietStep ==
    ASSUME RecorderInv,
           UNCHANGED <<tree, node, files, mapped, fd_map_, mmap_map_, mods_, misled, missed>>
    PROVE  RecorderInv'
BY DEF RecorderInv, TypeOK, MapsComplete, OneName, EntriesOpen, FdMapAccurate,
       LogRebuildsTree, IsOpen, Linked, Lookup, Stat

LEMMA RecordOnlyStep ==
    ASSUME RecorderInv, NEW m, m.type \in {"data", "fsync", "sync", "range", "checkpoint"},
           Record(m), UNCHANGED <<fsVars, mapVars, misled, missed>>
    PROVE  RecorderInv'
<1>1. mods_' = mods_
  BY SilentMod DEF RecorderInv
<1>. QED
  BY <1>1, QuietStep DEF fsVars, mapVars
-----------------------------------------------------------------------------
LEMMA InitRecorder == Init => RecorderInv
<1> SUFFICES ASSUME Init PROVE RecorderInv
  OBVIOUS
<1>1. NoFile \in FileStat
  BY RecorderAssumption DEF NoFile, FileStat
<1>2. TypeOK
  <2>1. DOMAIN fd_map_ = {} /\ DOMAIN mmap_map_ = {}
    BY DEF Init
  <2>. QED
    BY <1>1, <2>1 DEF Init, TypeOK
<1>3. MapsComplete /\ EntriesOpen /\ FdMapAccurate
  BY DEF Init, MapsComplete, EntriesOpen, FdMapAccurate, IsOpen
<1>4. OneName
  BY DEF Init, OneName
<1>5. LogRebuildsTree
  BY DEF Init, LogRebuildsTree, Stat, Lookup
<1>. QED
  BY <1>2, <1>3, <1>4, <1>5 DEF RecorderInv

LEMMA NameStep == ASSUME NEW p \in Paths, RecorderInv, Name(p) PROVE RecorderInv'
<1>1. CASE CmMknod(p)
  BY <1>1, CmMknodStep
<1>2. CASE CmMkdir(p)
  BY <1>2, CmMkdirStep
<1>3. CASE CmUnlinkOrRemove(p)
  BY <1>3, CmUnlinkOrRemoveStep
<1>4. CASE \E append \in BOOLEAN : CmOpenNew(p, append)
  BY <1>4, CmOpenNewStep
<1>5. CASE \E trunc, append \in BOOLEAN : CmOpenExisting(p, trunc, append)
  BY <1>5, CmOpenExistingStep
<1>6. CASE \E new \in Paths : CmRename(p, new)
  BY <1>6, CmRenameStep
<1>. QED
  BY <1>1, <1>2, <1>3, <1>4, <1>5, <1>6 DEF Name

LEMMA DescriptorStep == ASSUME NEW fd \in Fd, RecorderInv, Descriptor(fd) PROVE RecorderInv'
<1>1. CASE CmClose(fd) \/ CmCloseError(fd)
  BY <1>1, CmCloseStep
<1>2. CASE CmLseek(fd)
  BY <1>2, CmLseekStep
<1>3. CASE CmFallocateClosed(fd)
  BY <1>3, CmFallocateClosedStep
<1>4. CASE CmFsyncOrFdatasync(fd)
  <2> DEFINE m == Mod("fsync", "none", fd_map_[fd], FALSE, 0, 0)
  <2>1. m.type = "fsync"
    BY DEF Mod
  <2>2. Record(m) /\ UNCHANGED <<fsVars, mapVars, misled, missed>>
    BY <1>4 DEF CmFsyncOrFdatasync
  <2> HIDE DEF m
  <2>. QED
    BY <2>1, <2>2, RecordOnlyStep
<1>5. CASE \E n \in 0..1 : CmWrite(fd, n)
  BY <1>5, CmWriteStep
<1>6. ASSUME NEW loc \in 0..MaxSize, NEW n \in 0..1, CmSyncFileRange(fd, loc, n)
      PROVE  RecorderInv'
  <2> DEFINE m == Mod("range", "none", fd_map_[fd], FALSE, loc, n)
  <2>1. m.type = "range"
    BY DEF Mod
  <2>2. Record(m) /\ UNCHANGED <<fsVars, mapVars, misled, missed>>
    BY <1>6 DEF CmSyncFileRange
  <2> HIDE DEF m
  <2>. QED
    BY <2>1, <2>2, RecordOnlyStep
<1>7. ASSUME NEW loc \in 0..MaxSize, NEW n \in 0..1,
             CmPwrite(fd, loc, n) \/ \E keep \in BOOLEAN : CmFallocate(fd, loc, n, keep)
      PROVE  RecorderInv'
  BY <1>7, CmPwriteStep, CmFallocateStep
<1>8. CASE \E s \in Slot, shared \in BOOLEAN : CmMmap(fd, s, shared, 0, 1)
  BY <1>8, CmMmapStep
<1>. QED
  BY <1>1, <1>2, <1>3, <1>4, <1>5, <1>6, <1>7, <1>8 DEF Descriptor

LEMMA NextRecorder == RecorderInv /\ [Next]_vars => RecorderInv'
<1> SUFFICES ASSUME RecorderInv, [Next]_vars PROVE RecorderInv'
  OBVIOUS
<1>1. CASE UNCHANGED vars
  BY <1>1, QuietStep DEF vars, fsVars, mapVars
<1>2. CASE \E p \in Paths : Name(p)
  BY <1>2, NameStep
<1>3. CASE \E fd \in Fd : Descriptor(fd)
  BY <1>3, DescriptorStep
<1>4. ASSUME NEW s \in Slot, CmMsync(s, 0, 1) PROVE RecorderInv'
  <2> DEFINE m == Mod("data", "msync", mmap_map_[s][1], FALSE, mmap_map_[s][2] + 0, 1)
  <2>1. m.type = "data"
    BY DEF Mod
  <2>2. Record(m) /\ UNCHANGED <<fsVars, mapVars, misled, missed>>
    BY <1>4 DEF CmMsync
  <2> HIDE DEF m
  <2>. QED
    BY <2>1, <2>2, RecordOnlyStep
<1>5. CASE \E s \in Slot : Mapped(s)
  BY <1>4, <1>5, CmMunmapStep DEF Mapped
<1>6. CASE CmSync
  <2> DEFINE m == Mod("sync", "none", <<>>, FALSE, 0, 0)
  <2>1. m.type = "sync"
    BY DEF Mod
  <2>2. Record(m) /\ UNCHANGED <<fsVars, mapVars, misled, missed>>
    BY <1>6 DEF CmSync
  <2> HIDE DEF m
  <2>. QED
    BY <2>1, <2>2, RecordOnlyStep
<1>7. CASE CmCheckpoint
  <2> DEFINE m == Mod("checkpoint", "none", <<>>, FALSE, 0, 0)
  <2>1. m.type = "checkpoint"
    BY DEF Mod
  <2>2. Record(m) /\ UNCHANGED <<fsVars, mapVars, misled, missed>>
    BY <1>7 DEF CmCheckpoint
  <2> HIDE DEF m
  <2>. QED
    BY <2>1, <2>2, RecordOnlyStep
<1>. QED
  BY <1>1, <1>2, <1>3, <1>5, <1>6, <1>7 DEF Next
-----------------------------------------------------------------------------
\* The invariant holds in every state: an inode has one name, the entries of fd_map_
\* are of open descriptors or known to be spoiled, and the three properties below.
THEOREM RecorderInvariance == Spec => []RecorderInv
BY InitRecorder, NextRecorder, PTL DEF Spec

\* Every variable of the recorder and of the file system below keeps its type.
THEOREM RecorderTypeCorrect == Spec => []TypeOK
<1>1. RecorderInv => TypeOK
  BY DEF RecorderInv
<1>. QED
  BY <1>1, RecorderInvariance, PTL

\* fd_map_.at() (wrapper.cpp) finds an entry for every open descriptor, and
\* mmap_map_ knows exactly the mappings whose stores reach a file.
THEOREM MapsStayComplete == Spec => []MapsComplete
<1>1. RecorderInv => MapsComplete
  BY DEF RecorderInv
<1>. QED
  BY <1>1, RecorderInvariance, PTL

\* Whatever is renamed, removed, closed or opened again, the entry of an open
\* descriptor names its file, if that has a name and none of the known weaknesses
\* of CmRename, CmClose and CmFallocate has hit the entry.
THEOREM FdMapStaysAccurate == Spec => []FdMapAccurate
<1>1. RecorderInv => FdMapAccurate
  BY DEF RecorderInv
<1>. QED
  BY <1>1, RecorderInvariance, PTL

\* The mods_ of any sequence of recorded calls describe the names, kinds and sizes
\* of the file system they were made on.
THEOREM LogRebuildsEveryTree == Spec => []LogRebuildsTree
<1>1. RecorderInv => LogRebuildsTree
  BY DEF RecorderInv
<1>. QED
  BY <1>1, RecorderInvariance, PTL
=============================================================================
