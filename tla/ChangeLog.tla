----------------------------- MODULE ChangeLog -----------------------------
(***************************************************************************)
(* The way of the recorded DiskMods from the forked test to the check:     *)
(* RecordCmFsOps::Serialize writes them to run_changes, GetChangeData      *)
(* reads the file in the parent and cuts it at the checkpoints, and        *)
(* check_disk_and_snapshot_contents picks the DiskMod it compares.         *)
(*                                                                         *)
(* The file is a sequence of cells.  A cell is a part of the image of one  *)
(* DiskMod; the cell of a data byte stands for a block of them.            *)
(***************************************************************************)
EXTENDS Naturals, Sequences, SequencesExt

CONSTANTS Mods,      \* the DiskMods the recorder may have produced
          MaxMods,   \* bound on the length of the log
          None       \* "no DiskMod"

\* Options of fallocate: their DiskMods carry a range and no data.
RangeOpts == {"falloc"}
NoData(m) == m.type = "range" \/ m.opt \in RangeOpts

Types == {"create", "data_meta", "data", "remove", "checkpoint", "fsync",
          "sync", "range"}
DiskMod == [type : Types, opt : RangeOpts \cup {"none", "truncate", "msync"},
            path : {m.path : m \in Mods} \cup {<<>>}, loc : Nat, len : Nat]

\* A DiskMod that ends early leaves the fields behind its end at their defaults.
ASSUME ModsAssumption ==
    /\ MaxMods \in Nat
    /\ Mods \subseteq DiskMod
    /\ None \notin DiskMod
    /\ \A m \in Mods :
         /\ m.type \in {"checkpoint", "sync"} => m.path = <<>>
         /\ m.type \in {"checkpoint", "sync", "fsync", "create"} => m.loc = 0 /\ m.len = 0

VARIABLES
    phase,     \* what child and parent are at
    mods,      \* mods_ of the recorder that wrote the file, when run() returns
    sent,      \* how many of them are wholly in the file
    off,       \* cells of the next one that write() has taken
    overflow,  \* Serialize has written past its block
    file,      \* run_changes
    rpos,      \* cells of it that GetChangeData has read
    segments,  \* mods_ of the Tester
    chosen     \* the DiskMod the check compares

vars == <<phase, mods, sent, off, overflow, file, rpos, segments, chosen>>

Logs  == UNION {[1..n -> Mods] : n \in 0..MaxMods}
Parts == {"hi", "lo", "head", "path", "loc", "len", "data"}
Cell  == [part : Parts, of : Mods]

TypeOK ==
    /\ phase \in {"run", "serialize", "read", "parsed", "error", "killed",
                  "checked", "no_mod"}
    /\ mods \in Logs
    /\ sent \in 0..Len(mods)
    /\ off \in Nat
    /\ overflow \in BOOLEAN
    /\ file \in Seq(Cell)
    /\ rpos \in 0..Len(file)
    /\ segments \in Seq(Seq(DiskMod)) /\ Len(segments) <= MaxMods
    /\ \/ chosen = None
       \/ chosen \in DiskMod /\ chosen.type \in {"fsync", "sync", "data", "range"}

\* The child has opened and truncated run_changes.
Init ==
    /\ phase = "run"
    /\ mods \in Logs
    /\ sent = 0 /\ off = 0 /\ overflow = FALSE
    /\ file = <<>> /\ rpos = 0
    /\ segments = <<>>
    /\ chosen = None
-----------------------------------------------------------------------------
(* DiskMod *)

\* The size word (two cells), type and options, path and directory flag.
SizeWord == <<"hi", "lo">>
Header   == <<"head">>
ChangeHeader == <<"path">>
FileRange == <<"loc", "len">>
Data(n)  == [i \in 1..n |-> "data"]

\* The order of the tests is that of the code.
GetSerializeSize(m) ==
    IF m.type \in {"checkpoint", "sync"} THEN 3
    ELSE IF m.type \in {"fsync", "remove", "create"} THEN 4
    ELSE IF NoData(m) THEN 6
    ELSE 6 + m.len

\* What Serialize writes.  "remove" is not among the types that end after the
\* change header.
Layout(m) ==
    SizeWord \o Header \o
    IF m.type \in {"checkpoint", "sync"} THEN <<>>
    ELSE IF m.type \in {"fsync", "create"} THEN ChangeHeader
    ELSE IF NoData(m) THEN ChangeHeader \o FileRange
    ELSE ChangeHeader \o FileRange \o Data(m.len)

\* The block that goes to the file: as many cells as the size says.
Block(m) == [i \in 1..GetSerializeSize(m) |-> [part |-> Layout(m)[i], of |-> m]]

\* Deserialize: fields are taken from fixed positions behind the size word; the
\* size is not looked at again.  Where the chunk ends early the fields hold what
\* is behind it in memory.
Deserialize(chunk, junk) ==
    LET field(i) == IF i <= Len(chunk) THEN chunk[i].of ELSE junk
        type == field(3).type
        opt  == field(3).opt
    IN  IF type \in {"checkpoint", "sync"}
        THEN [type |-> type, opt |-> opt, path |-> <<>>, loc |-> 0, len |-> 0]
        ELSE IF type \in {"fsync", "create"}
        THEN [type |-> type, opt |-> opt, path |-> field(4).path, loc |-> 0, len |-> 0]
        ELSE [type |-> type, opt |-> opt, path |-> field(4).path,
              loc |-> field(5).loc, len |-> field(6).len]
-----------------------------------------------------------------------------
(* The child: BaseTestCase::Run *)

\* run() returns a negative value: nothing is serialised, and the parent does
\* not look at the exit code.
RunFails ==
    /\ phase = "run"
    /\ phase' = "read"
    /\ UNCHANGED <<mods, sent, off, overflow, file, rpos, segments, chosen>>

\* run() returns 0 or a positive errno.
RunEnds ==
    /\ phase = "run"
    /\ phase' = "serialize"
    /\ UNCHANGED <<mods, sent, off, overflow, file, rpos, segments, chosen>>

Current == mods[sent + 1]

\* Bug: a short write is taken for a whole one.
WriteOnce ==
    /\ phase = "serialize" /\ sent < Len(mods)
    /\ overflow' = (overflow \/ Len(Layout(Current)) > GetSerializeSize(Current))
    /\ \E n \in 1..GetSerializeSize(Current) :
         file' = file \o SubSeq(Block(Current), 1, n)
    /\ sent' = sent + 1
    /\ off' = 0
    /\ UNCHANGED <<phase, mods, rpos, segments, chosen>>

\* One write() of WriteWhole, which takes any number of the cells left.
WriteWhole ==
    /\ phase = "serialize" /\ sent < Len(mods)
    /\ overflow' = (overflow \/ Len(Layout(Current)) > GetSerializeSize(Current))
    /\ \E n \in 1..(GetSerializeSize(Current) - off) :
         /\ file' = file \o SubSeq(Block(Current), off + 1, off + n)
         /\ IF off + n = GetSerializeSize(Current)
            THEN sent' = sent + 1 /\ off' = 0
            ELSE sent' = sent /\ off' = off + n
    /\ UNCHANGED <<phase, mods, rpos, segments, chosen>>

\* write() fails: Run returns -1, which the parent does not look at.
WriteFails ==
    /\ phase = "serialize" /\ sent < Len(mods)
    /\ phase' = "read"
    /\ UNCHANGED <<mods, sent, off, overflow, file, rpos, segments, chosen>>

SerializeEnds ==
    /\ phase = "serialize" /\ sent = Len(mods)
    /\ phase' = "read"
    /\ UNCHANGED <<mods, sent, off, overflow, file, rpos, segments, chosen>>

\* A signal ends the child (the test itself, or the heap found corrupt after an
\* overflow): the parent cleans up and gives up.
Killed ==
    /\ phase \in {"run", "serialize"}
    /\ phase' = "killed"
    /\ UNCHANGED <<mods, sent, off, overflow, file, rpos, segments, chosen>>

\* Another run, whose child cannot open run_changes: it records nothing and leaves
\* the file as it is, whole or torn.  Its parent, which does not look at the exit
\* code, reads it all the same.
OpenFails ==
    /\ phase \notin {"run", "serialize"}
    /\ phase' = "read"
    /\ rpos' = 0 /\ segments' = <<>> /\ chosen' = None
    /\ UNCHANGED <<mods, sent, off, overflow, file>>
-----------------------------------------------------------------------------
(* The parent: Tester::GetChangeData *)

\* Bug: the first DiskMod always starts a segment of its own.
AddModAlways(segs, m) ==
    IF m.type = "checkpoint" \/ Len(segs) = 0 THEN Append(segs, <<>>)
    ELSE [segs EXCEPT ![Len(segs)] = Append(@, m)]

\* A checkpoint starts a new segment; so does the first DiskMod of all.
AddMod(segs, m) ==
    IF m.type = "checkpoint" THEN Append(segs, <<>>)
    ELSE IF segs = <<>> THEN << <<m>> >>
    ELSE [segs EXCEPT ![Len(segs)] = Append(@, m)]

Rest == SubSeq(file, rpos + 1, Len(file))

\* The size word and the rest of the chunk are there.  For a "remove" the fields
\* behind the chunk are junk: as data length they may also make the allocation
\* fail, or the copy run into unmapped memory.
ReadMod ==
    /\ phase = "read"
    /\ Len(Rest) >= 2
    /\ LET size == GetSerializeSize(Rest[1].of) IN
         /\ Len(Rest) >= size
         /\ \/ /\ \E junk \in Mods :
                    segments' = AddMod(segments, Deserialize(SubSeq(Rest, 1, size), junk))
               /\ rpos' = rpos + size
               /\ phase' = phase
            \/ /\ Rest[1].of.type = "remove"
               /\ phase' \in {"error", "killed"}
               /\ UNCHANGED <<segments, rpos>>
    /\ UNCHANGED <<mods, sent, off, overflow, file, chosen>>

\* The chunk is cut short, or read() fails.
ReadTorn ==
    /\ phase = "read"
    /\ Len(Rest) >= 1
    /\ phase' = "error"
    /\ UNCHANGED <<mods, sent, off, overflow, file, rpos, segments, chosen>>

\* The size word itself is cut short: the bytes that are missing are whatever
\* the variable held.  A size that is too small makes Deserialize read past its
\* chunk, a size that is too large ends in -1 or in a failed allocation.
ReadTornSize ==
    /\ phase = "read"
    /\ Len(Rest) = 1
    /\ \/ /\ \E m \in Mods : segments' = AddMod(segments, m)
          /\ rpos' = Len(file) /\ phase' = phase
       \/ /\ phase' \in {"error", "killed"}
          /\ UNCHANGED <<segments, rpos>>
    /\ UNCHANGED <<mods, sent, off, overflow, file, chosen>>

ReadEnds ==
    /\ phase = "read"
    /\ Rest = <<>>
    /\ phase' = "parsed"
    /\ UNCHANGED <<mods, sent, off, overflow, file, rpos, segments, chosen>>
-----------------------------------------------------------------------------
(* Tester::check_disk_and_snapshot_contents *)

\* Bug: a write that changes the size is taken for a persisting one.
PersistsSize(m) == m.type \in {"fsync", "sync", "data", "data_meta", "range"}

Persists(m) == m.type \in {"fsync", "sync", "data", "range"}

\* Bug: the last segment is taken, which is the one after the last checkpoint.
SelectLastSegment ==
    /\ phase = "parsed"
    /\ IF Len(segments) < 2
       THEN phase' = "killed" /\ chosen' = chosen
       ELSE LET seg == segments[Len(segments)]
                ks  == {k \in DOMAIN seg : Persists(seg[k])}
            IN  IF ks = {} THEN phase' = "no_mod" /\ chosen' = chosen
                           ELSE phase' = "checked" /\ chosen' = seg[Min(ks)]
    /\ UNCHANGED <<mods, sent, off, overflow, file, rpos, segments>>

\* mods_.at() throws when there is no segment before the last one; otherwise the
\* loop stops at the first DiskMod it knows how to compare.
SelectMod ==
    /\ phase = "parsed"
    /\ IF Len(segments) < 2
       THEN phase' = "killed" /\ chosen' = chosen
       ELSE LET seg == segments[Len(segments) - 1]
                ks  == {k \in DOMAIN seg : Persists(seg[k])}
            IN  IF ks = {} THEN phase' = "no_mod" /\ chosen' = chosen
                           ELSE phase' = "checked" /\ chosen' = seg[Min(ks)]
    /\ UNCHANGED <<mods, sent, off, overflow, file, rpos, segments>>

Child  == RunFails \/ RunEnds \/ WriteWhole \/ WriteFails \/ SerializeEnds \/ Killed
Parent == ReadMod \/ ReadTorn \/ ReadTornSize \/ ReadEnds \/ SelectMod
Next == Child \/ OpenFails \/ Parent

Spec == Init /\ [][Next]_vars
-----------------------------------------------------------------------------
(* Properties *)

Removes(s) == \E i \in 1..Len(s) : s[i].type = "remove"

\* The segments are the log cut at its checkpoints, which are dropped: cut[k] is
\* the place of the checkpoint in front of segment k.  A checkpoint at the very
\* start opens the first segment; otherwise this starts at place 0.
EndOf(segs, s, cut, k) == IF k = Len(segs) THEN Len(s) + 1 ELSE cut[k + 1]

CutAt(segs, s, cut) ==
    /\ cut[1] = IF s[1].type = "checkpoint" THEN 1 ELSE 0
    /\ \A k \in 1..Len(segs) :
         /\ cut[k] < EndOf(segs, s, cut, k)
         /\ k > 1 => cut[k] \in 1..Len(s) /\ s[cut[k]].type = "checkpoint"
         /\ segs[k] = SubSeq(s, cut[k] + 1, EndOf(segs, s, cut, k) - 1)
         /\ \A i \in 1..Len(segs[k]) : segs[k][i].type # "checkpoint"

Cut(segs, s) ==
    IF s = <<>> THEN segs = <<>>
    ELSE segs # <<>> /\ \E cut \in [1..Len(segs) -> 0..Len(s)] : CutAt(segs, s, cut)

WordTorn == Len(file) > 0 /\ file[Len(file)].part = "hi"

\* Whatever goes wrong with the child, the parent only ever believes DiskMods that
\* one child recorded, its own or that of an earlier run, in their order -- unless
\* the file ends inside a size word or the log holds a removal.
ReadIsPrefix ==
    ~Removes(mods) /\ ~WordTorn =>
        \E n \in 0..Len(mods) : Cut(segments, SubSeq(mods, 1, n))

\* After an undisturbed run the segments hold the whole log: nothing is lost at
\* the borders of chunks or segments, wherever write() stopped.
LogArrives ==
    (phase = "parsed" /\ sent = Len(mods) /\ ~Removes(mods)) => Cut(segments, mods)

\* The DiskMod compared was recorded directly before the last checkpoint of what
\* arrived: a checkpoint follows it and at most one does.
ChosenBeforeCheckpoint ==
    (phase = "checked" /\ sent = Len(mods) /\ ~Removes(mods)) =>
        \E i \in 1..Len(mods) :
            /\ mods[i] = chosen
            /\ \E c \in (i + 1)..Len(mods) :
                 /\ mods[c].type = "checkpoint"
                 /\ \A j \in (i + 1)..Len(mods) : mods[j].type = "checkpoint" => j = c
-----------------------------------------------------------------------------
(* The inductive invariant *)

\* pos[i] is where the block of the i-th DiskMod ends in the file; off cells of
\* the next one follow the last whole block.
Placed(pos) ==
    /\ pos[0] = 0
    /\ \A i \in 1..sent :
         /\ pos[i] = pos[i - 1] + GetSerializeSize(mods[i])
         /\ \A k \in 1..GetSerializeSize(mods[i]) :
              file[pos[i - 1] + k] = Block(mods[i])[k]
    /\ \A i, j \in 0..sent : i < j => pos[i] < pos[j]
    /\ Len(file) = pos[sent] + off
    /\ \A k \in 1..off : file[pos[sent] + k] = Block(Current)[k]

\* The parent has read up to the end of a block, and cut what it read, or it has
\* read the first byte of a size word as a DiskMod.
ReadUpTo(pos) ==
    \/ \E r \in 0..sent :
         /\ rpos = pos[r]
         /\ Len(segments) <= r
         /\ ~Removes(mods) => Cut(segments, SubSeq(mods, 1, r))
    \/ off = 1 /\ rpos = Len(file) /\ Len(segments) <= sent + 1

Torn == off > 0 => sent < Len(mods) /\ off < GetSerializeSize(Current)

Unread == /\ phase \in {"run", "serialize"} => rpos = 0 /\ segments = <<>>
          /\ phase = "parsed" => rpos = Len(file)

Followed == \E pos \in [0..sent -> 0..Len(file)] : Placed(pos) /\ ReadUpTo(pos)

LogInv == TypeOK /\ Torn /\ Unread /\ Followed /\ ChosenBeforeCheckpoint

\* DiskMod.h: GetSerializeSize "returns the number of bytes in the DiskMod in
\* serialized form".
SerializedFits == ~overflow
=============================================================================
