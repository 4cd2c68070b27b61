------------------------------ MODULE Recorder ------------------------------
(***************************************************************************)
(* RecordCmFsOps: the calls of a test on the file system, as the profiling *)
(* run makes them.  Every operation passes the call on and, if it went     *)
(* well, appends a DiskMod to mods_; fd_map_ and mmap_map_ keep the path   *)
(* behind a descriptor or a mapping.                                       *)
(*                                                                         *)
(* Below it is a small POSIX file system (external): a tree of inodes with *)
(* sizes, open descriptors and mappings.  A path, behind the mount point,  *)
(* is a sequence of tokens, the pieces its components are made of, so that *)
(* it may be a prefix of another as a string without being an ancestor.    *)
(***************************************************************************)
EXTENDS Naturals, Sequences, SequencesExt

CONSTANTS Paths,    \* the paths a test uses
          Component, \* the tokens that begin a component of a path
          Inode, Fd, Slot,  \* inodes, descriptors, addresses of mappings
          None,
          MaxSize,  \* bound on the size of a file
          MaxPath   \* bound on the tokens of an entry of fd_map_

OpenFile == [ino : Inode, pos : 0..MaxSize, append : BOOLEAN]
Mapping  == [ino : Inode, shared : BOOLEAN]

ASSUME RecorderAssumption ==
    /\ Paths \subseteq Seq(UNION {Range(p) : p \in Paths})
    /\ Fd \subseteq Nat
    /\ MaxSize \in Nat /\ MaxPath \in Nat
    /\ None \notin Inode /\ None \notin Paths
    /\ None \notin OpenFile /\ None \notin Mapping

VARIABLES
    tree,      \* the inode at a path
    node,      \* kind and size of an inode
    files,     \* open descriptors of the process: inode, position, O_APPEND
    mapped,    \* mappings: inode, and whether stores reach the file
    fd_map_,
    mmap_map_,
    mods_      \* the DiskMods recorded, as the file system they describe

\* Observations
VARIABLES
    misled,    \* descriptors whose entry in fd_map_ a known weakness spoiled
    missed     \* a change happened that the log does not hold, or holds wrongly

fsVars  == <<tree, node, files, mapped>>
mapVars == <<fd_map_, mmap_map_>>
vars    == <<fsVars, mapVars, mods_, misled, missed>>

NoFile == [kind |-> "none", size |-> 0]
Lookup(p)  == IF p \in Paths THEN tree[p] ELSE None
Stat(p)    == IF Lookup(p) = None THEN NoFile ELSE node[Lookup(p)]
Exists(p)  == Lookup(p) # None
Under(p, q) == IsStrictPrefix(q, p) /\ p[Len(q) + 1] \in Component
ParentOk(p) == \A q \in Paths : Under(p, q) => Stat(q).kind = "dir"
Empty(p)    == \A q \in Paths : Under(q, p) => ~Exists(q)
IsOpen(fd)  == files[fd] # None
Linked(i)   == \E p \in Paths : tree[p] = i
FreeInodes  == {i \in Inode : /\ ~Linked(i)
                              /\ \A fd \in Fd : IsOpen(fd) => files[fd].ino # i
                              /\ \A s \in Slot : mapped[s] # None => mapped[s].ino # i}

FileStat == [kind : {"none", "dir", "file"}, size : 0..MaxSize]

TypeOK ==
    /\ tree \in [Paths -> Inode \cup {None}]
    /\ node \in [Inode -> FileStat]
    /\ files \in [Fd -> {None} \cup OpenFile]
    /\ mapped \in [Slot -> {None} \cup Mapping]
    /\ DOMAIN fd_map_ \subseteq Fd
    /\ DOMAIN mmap_map_ \subseteq Slot
    /\ mods_ \in [Paths -> FileStat]
    /\ misled \subseteq Fd
    /\ missed \in BOOLEAN

Init ==
    /\ tree = [p \in Paths |-> None]
    /\ node = [i \in Inode |-> NoFile]
    /\ files = [fd \in Fd |-> None]
    /\ mapped = [s \in Slot |-> None]
    /\ fd_map_ = <<>> /\ mmap_map_ = <<>>
    /\ mods_ = [p \in Paths |-> NoFile]
    /\ misled = {} /\ missed = FALSE
-----------------------------------------------------------------------------
(* DiskMods *)

Mod(type, opt, path, dir, loc, len) ==
    [type |-> type, opt |-> opt, path |-> path, dir |-> dir, loc |-> loc, len |-> len]

\* What a DiskMod starts out as, before its fields are set.
ResetMod == Mod("create", "none", <<>>, FALSE, 0, 0)

Larger(a, b) == IF a > b THEN a ELSE b

\* What a DiskMod says of the names, kinds and sizes of a file system.
Described(t, m) ==
    IF m.path \notin Paths THEN t
    ELSE CASE m.type = "create" ->
                [t EXCEPT ![m.path] = [kind |-> IF m.dir THEN "dir" ELSE "file", size |-> 0]]
           [] m.type = "remove" -> [t EXCEPT ![m.path] = NoFile]
           [] m.type = "data_meta" /\ m.opt = "truncate" -> [t EXCEPT ![m.path].size = 0]
           [] m.type = "data_meta" /\ m.opt \in {"none", "falloc"} /\ m.len > 0 ->
                [t EXCEPT ![m.path].size = Larger(@, m.loc + m.len)]
           [] OTHER -> t

\* mods_.push_back
Record(m) == mods_' = Described(mods_, m)

\* unordered_map::insert leaves an entry that is there alone.
Insert(map, k, v) == [x \in DOMAIN map \cup {k} |-> IF x \in DOMAIN map THEN map[x] ELSE v]
Erase(map, k) == [x \in DOMAIN map \ {k} |-> map[x]]
-----------------------------------------------------------------------------
(* Names *)

\* The new inode of a create, and its place in the tree.
Create(p, kind) ==
    LET i == CHOOSE j \in FreeInodes : TRUE
    IN  /\ FreeInodes # {}
        /\ tree' = [tree EXCEPT ![p] = i]
        /\ node' = [node EXCEPT ![i] = [kind |-> kind, size |-> 0]]

CanCreate(p) == ~Exists(p) /\ ParentOk(p)

CmMknod(p) ==
    /\ CanCreate(p) /\ Create(p, "file")
    /\ missed' = TRUE
    /\ UNCHANGED <<files, mapped, mapVars, mods_, misled>>

CmMkdir(p) ==
    /\ CanCreate(p) /\ Create(p, "dir")
    /\ Record(Mod("create", "none", p, TRUE, 0, 0))
    /\ UNCHANGED <<files, mapped, mapVars, misled, missed>>

LowestFd == Min({fd \in Fd : ~IsOpen(fd)})
CanOpen  == \E fd \in Fd : ~IsOpen(fd)

Opened(i, append) == [ino |-> i, pos |-> 0, append |-> append]

\* CmOpen of a path that exists; a directory only for reading.
CmOpenExisting(p, trunc, append) ==
    /\ CanOpen /\ Exists(p)
    /\ Stat(p).kind = "dir" => ~trunc /\ ~append
    /\ node' = IF trunc THEN [node EXCEPT ![tree[p]].size = 0] ELSE node
    /\ files' = [files EXCEPT ![LowestFd] = Opened(tree[p], append)]
    /\ fd_map_' = Insert(fd_map_, LowestFd, p)
    /\ IF trunc THEN Record(Mod("data_meta", "truncate", p, FALSE, 0, 0))
                ELSE mods_' = mods_
    /\ UNCHANGED <<tree, mapped, mmap_map_, misled, missed>>

\* CmOpen with O_CREAT of a path that does not exist.
CmOpenNew(p, append) ==
    /\ CanOpen /\ CanCreate(p) /\ Create(p, "file")
    /\ files' = [files EXCEPT ![LowestFd] = Opened(tree'[p], append)]
    /\ fd_map_' = Insert(fd_map_, LowestFd, p)
    /\ Record(Mod("create", "none", p, FALSE, 0, 0))
    /\ UNCHANGED <<mapped, mmap_map_, misled, missed>>

CmClose(fd) ==
    /\ IsOpen(fd)
    /\ files' = [files EXCEPT ![fd] = None]
    /\ fd_map_' = Erase(fd_map_, fd)
    /\ misled' = misled \ {fd}
    /\ UNCHANGED <<tree, node, mapped, mmap_map_, mods_, missed>>

\* close reports an I/O error: Linux has released the descriptor all the same.
CmCloseError(fd) ==
    /\ IsOpen(fd)
    /\ files' = [files EXCEPT ![fd] = None]
    /\ misled' = misled \cup {fd}
    /\ UNCHANGED <<tree, node, mapped, mapVars, mods_, missed>>

\* What rename does to the tree.
Moved(old, new, p) == new \o SubSeq(p, Len(old) + 1, Len(p))
CanRename(old, new) ==
    /\ Exists(old) /\ ParentOk(new) /\ ~Under(new, old)
    /\ Exists(new) => Stat(new).kind = Stat(old).kind /\ (old = new \/ Empty(new))
    /\ \A q \in Paths : Under(q, old) /\ Exists(q) => Moved(old, new, q) \in Paths
RenamedTree(old, new) ==
    [p \in Paths |->
        IF p = new \/ Under(p, new) THEN Lookup(Moved(new, old, p))
        ELSE IF p = old \/ Under(p, old) THEN None ELSE tree[p]]

\* Bug: only the path itself is looked for, not what lies below it.
RenameExact(old, new, path) == IF path = old THEN new ELSE path

\* The old path is looked for as a string.  All paths begin with the mount point,
\* so it can only be found at the start.
RenamedEntry(old, new, path) ==
    IF IsPrefix(old, path) THEN Moved(old, new, path) ELSE path

\* fd_map_ is changed first, and whatever becomes of the rename.
CmRename(old, new) ==
    LET map == [fd \in DOMAIN fd_map_ |-> RenamedEntry(old, new, fd_map_[fd])]
        touched(fd) == map[fd] # fd_map_[fd]
        below(fd) == fd_map_[fd] = old \/ Under(fd_map_[fd], old)
    IN  /\ \A fd \in DOMAIN map : Len(map[fd]) <= MaxPath
        /\ fd_map_' = map
        /\ \/ /\ CanRename(old, new)
              /\ tree' = RenamedTree(old, new)
              /\ misled' = misled \cup {fd \in DOMAIN map : touched(fd) /\ ~below(fd)}
              /\ missed' = (missed \/ old # new)
           \/ \* rename fails
              /\ tree' = tree
              /\ misled' = misled \cup {fd \in DOMAIN map : touched(fd)}
              /\ missed' = missed
        /\ UNCHANGED <<node, files, mapped, mmap_map_, mods_>>

\* Bug: only CmUnlink records.
RemoveUnrecorded(p) ==
    /\ Exists(p) /\ Empty(p)
    /\ tree' = [tree EXCEPT ![p] = None]
    /\ UNCHANGED <<node, files, mapped, mapVars, mods_, misled, missed>>

\* CmUnlink of a file, CmRemove of a file or an empty directory.
CmUnlinkOrRemove(p) ==
    /\ Exists(p) /\ Empty(p)
    /\ tree' = [tree EXCEPT ![p] = None]
    /\ Record(Mod("remove", "none", p, FALSE, 0, 0))
    /\ UNCHANGED <<node, files, mapped, mapVars, misled, missed>>
-----------------------------------------------------------------------------
(* Data *)

CmLseek(fd) ==
    /\ IsOpen(fd)
    /\ \E n \in 0..MaxSize : files' = [files EXCEPT ![fd].pos = n]
    /\ UNCHANGED <<tree, node, mapped, mapVars, mods_, misled, missed>>

\* n bytes land at offset off of the inode behind fd.
Extend(fd, off, n) ==
    node' = IF n = 0 THEN node
            ELSE [node EXCEPT ![files[fd].ino].size = Larger(@, off + n)]

\* What stat() says of the path of fd, before and after the write.
StatOf(fd) == Stat(fd_map_[fd])
StatAfter(fd) == IF Exists(fd_map_[fd]) THEN node'[Lookup(fd_map_[fd])] ELSE NoFile

\* Bug: the position is asked for after the write.
WriteModLate(fd, loc, n) ==
    Mod(IF StatOf(fd).size # StatAfter(fd).size THEN "data_meta" ELSE "data",
        "none", fd_map_[fd], FALSE, loc + n, n)

\* The DiskMod of a write: for a directory nothing but the default is filled in.
\* (The file behind fd may be another one than the path's.)
WriteMod(fd, loc, n) ==
    IF StatOf(fd).kind = "dir" THEN [ResetMod EXCEPT !.dir = TRUE]
    ELSE Mod(IF StatOf(fd).size # StatAfter(fd).size THEN "data_meta" ELSE "data",
             "none", fd_map_[fd], FALSE, loc, n)

\* The location or the path of the DiskMod is not the one written.
Misplaced(fd, loc, off) == loc # off \/ Lookup(fd_map_[fd]) # files[fd].ino

\* CmWrite: the path must exist, or the call fails before it writes.  The
\* location is the position before the write, also with O_APPEND.
CmWrite(fd, n) ==
    /\ IsOpen(fd) /\ node[files[fd].ino].kind = "file" /\ Exists(fd_map_[fd])
    /\ LET loc == files[fd].pos
           off == IF files[fd].append /\ n > 0 THEN node[files[fd].ino].size ELSE loc
       IN  /\ off + n <= MaxSize /\ loc + n <= MaxSize
           /\ Extend(fd, off, n)
           /\ files' = [files EXCEPT ![fd].pos = off + n]
           /\ Record(WriteMod(fd, loc, n))
           /\ missed' = (missed \/ Misplaced(fd, loc, off))
    /\ UNCHANGED <<tree, mapped, mapVars, misled>>

\* CmPwrite: Linux appends whatever the offset, if the file is open for that.
CmPwrite(fd, loc, n) ==
    /\ IsOpen(fd) /\ node[files[fd].ino].kind = "file" /\ Exists(fd_map_[fd])
    /\ LET off == IF files[fd].append /\ n > 0 THEN node[files[fd].ino].size ELSE loc
       IN  /\ off + n <= MaxSize /\ loc + n <= MaxSize
           /\ Extend(fd, off, n)
           /\ Record(WriteMod(fd, loc, n))
           /\ missed' = (missed \/ Misplaced(fd, loc, off))
    /\ UNCHANGED <<tree, files, mapped, mapVars, misled>>

\* CmFallocate of a range.  The modes fall into those that may let the file grow
\* and those that keep its size (punching holes among them); collapsing a range
\* needs a file larger than MaxSize allows.  Whether the number of blocks changes
\* is up to the file system.
CmFallocate(fd, loc, n, keep) ==
    /\ IsOpen(fd) /\ node[files[fd].ino].kind = "file" /\ Exists(fd_map_[fd])
    /\ n > 0 /\ loc + n <= MaxSize
    /\ Extend(fd, loc, IF keep THEN 0 ELSE n)
    /\ \E blocks \in BOOLEAN :
         Record(Mod(IF blocks \/ StatOf(fd).size # StatAfter(fd).size
                    THEN "data_meta" ELSE "data",
                    IF keep THEN "falloc_keep" ELSE "falloc",
                    fd_map_[fd], FALSE, loc, n))
    /\ missed' = (missed \/ Misplaced(fd, loc, loc))
    /\ UNCHANGED <<tree, files, mapped, mapVars, misled>>

\* With a descriptor that is not open, fd_map_[fd] adds an empty path before
\* stat() fails.
CmFallocateClosed(fd) ==
    /\ ~IsOpen(fd) /\ fd \notin DOMAIN fd_map_
    /\ fd_map_' = Insert(fd_map_, fd, <<>>)
    /\ misled' = misled \cup {fd}
    /\ UNCHANGED <<fsVars, mmap_map_, mods_, missed>>

\* CmMmap: only a shared mapping for writing is kept.
CmMmap(fd, s, shared, off, len) ==
    /\ IsOpen(fd) /\ node[files[fd].ino].kind = "file"
    /\ mapped[s] = None
    /\ mapped' = [mapped EXCEPT ![s] = [ino |-> files[fd].ino, shared |-> shared]]
    /\ mmap_map_' = IF shared THEN Insert(mmap_map_, s, <<fd_map_[fd], off, len>>)
                              ELSE mmap_map_
    /\ UNCHANGED <<tree, node, files, fd_map_, mods_, misled, missed>>

\* CmMsync from d bytes behind the start of the mapping on.
CmMsync(s, d, len) ==
    /\ mapped[s] # None
    /\ s \in DOMAIN mmap_map_ /\ d < mmap_map_[s][3]
    /\ Record(Mod("data", "msync", mmap_map_[s][1], FALSE, mmap_map_[s][2] + d, len))
    /\ UNCHANGED <<fsVars, mapVars, misled, missed>>

\* Bug: the mapping is not forgotten.
MunmapKeepsEntry(s) ==
    /\ mapped[s] # None
    /\ mapped' = [mapped EXCEPT ![s] = None]
    /\ UNCHANGED <<tree, node, files, mapVars, mods_, misled, missed>>

\* CmMunmap of a whole mapping, as its comment assumes.
CmMunmap(s) ==
    /\ mapped[s] # None
    /\ mapped' = [mapped EXCEPT ![s] = None]
    /\ mmap_map_' = Erase(mmap_map_, s)
    /\ UNCHANGED <<tree, node, files, fd_map_, mods_, misled, missed>>
-----------------------------------------------------------------------------
(* Persistence *)

CmFsyncOrFdatasync(fd) ==
    /\ IsOpen(fd)
    /\ Record(Mod("fsync", "none", fd_map_[fd], FALSE, 0, 0))
    /\ UNCHANGED <<fsVars, mapVars, misled, missed>>

CmSync ==
    /\ Record(Mod("sync", "none", <<>>, FALSE, 0, 0))
    /\ UNCHANGED <<fsVars, mapVars, misled, missed>>

\* The call has been made when stat() of the path fails: then nothing is recorded.
CmSyncFileRange(fd, loc, n) ==
    /\ IsOpen(fd) /\ Exists(fd_map_[fd])
    /\ Record(Mod("range", "none", fd_map_[fd], FALSE, loc, n))
    /\ UNCHANGED <<fsVars, mapVars, misled, missed>>

CmCheckpoint ==
    /\ Record(Mod("checkpoint", "none", <<>>, FALSE, 0, 0))
    /\ UNCHANGED <<fsVars, mapVars, misled, missed>>
-----------------------------------------------------------------------------
Name(p) == \/ CmMknod(p) \/ CmMkdir(p) \/ CmUnlinkOrRemove(p)
           \/ \E append \in BOOLEAN : CmOpenNew(p, append)
           \/ \E trunc, append \in BOOLEAN : CmOpenExisting(p, trunc, append)
           \/ \E new \in Paths : CmRename(p, new)

Descriptor(fd) ==
    \/ CmClose(fd) \/ CmCloseError(fd) \/ CmLseek(fd)
    \/ CmFallocateClosed(fd) \/ CmFsyncOrFdatasync(fd)
    \/ \E n \in 0..1 : CmWrite(fd, n)
    \/ \E loc \in 0..MaxSize, n \in 0..1 :
         \/ CmPwrite(fd, loc, n)
         \/ CmSyncFileRange(fd, loc, n)
         \/ \E keep \in BOOLEAN : CmFallocate(fd, loc, n, keep)
    \/ \E s \in Slot, shared \in BOOLEAN : CmMmap(fd, s, shared, 0, 1)

Mapped(s) == CmMunmap(s) \/ CmMsync(s, 0, 1)

Next == \/ \E p \in Paths : Name(p)
        \/ \E fd \in Fd : Descriptor(fd)
        \/ \E s \in Slot : Mapped(s)
        \/ CmSync \/ CmCheckpoint

Spec == Init /\ [][Next]_vars
-----------------------------------------------------------------------------
(* Properties *)

\* fd_map_.at() never throws for a descriptor the test has open, and mmap_map_
\* knows exactly the mappings whose stores reach a file.
MapsComplete ==
    /\ \A fd \in Fd : IsOpen(fd) => fd \in DOMAIN fd_map_
    /\ \A s \in Slot : s \in DOMAIN mmap_map_ <=> mapped[s] # None /\ mapped[s].shared

\* fd_map_ names the file behind an open descriptor, as long as that has a name
\* -- through renames of the file and of the directories above it, and when
\* numbers are reused -- unless a weakness of CmRename, CmClose or CmFallocate
\* has hit the entry.
FdMapAccurate ==
    \A fd \in Fd \ misled :
        IsOpen(fd) /\ Linked(files[fd].ino) => Lookup(fd_map_[fd]) = files[fd].ino

\* From the log alone the file system can be rebuilt, up to contents, as long as
\* no rename, mknod, append or write through a spoiled entry has happened.
LogRebuildsTree == ~missed => mods_ = [p \in Paths |-> Stat(p)]
-----------------------------------------------------------------------------
(* The inductive invariant: an inode has one name, and what fd_map_ knows is *)
(* open, or spoiled.                                                         *)

OneName == \A p, q \in Paths : tree[p] = tree[q] /\ tree[p] # None => p = q

EntriesOpen == \A fd \in DOMAIN fd_map_ \ misled : IsOpen(fd)

RecorderInv == /\ TypeOK /\ MapsComplete /\ OneName /\ EntriesOpen
               /\ FdMapAccurate /\ LogRebuildsTree
=============================================================================
