------------------------------ MODULE Checker ------------------------------
(***************************************************************************)
(* Tester::test_check with DiskContents: mount both devices, compare them  *)
(* as the last DiskMod before the checkpoint asks for, and if they agree,  *)
(* put a file into every directory and delete everything again.            *)
(*                                                                         *)
(* A file system is a function from paths, sequences of names, to nodes.   *)
(* Comparisons are one step; the deletion, which walks the tree while it   *)
(* changes it, is a stack of open directories.  The file system under test *)
(* may fail any call, unless it is healthy.                                *)
(***************************************************************************)
EXTENDS Integers, Sequences, SequencesExt

CONSTANTS Paths,     \* paths a file system may use
          Dummy,     \* the name "_dummy"
          None,      \* "no such path"
          Byte,      \* contents of a byte, 0 among them
          Inputs,    \* pairs of file systems with the DiskMod to check
          MaxLinks,  \* bound: symbolic links one path may cross (40 in Linux)
          IntMax     \* largest int (2^31 - 1)

AllPaths == Paths \cup {Append(p, Dummy) : p \in Paths}
AllNames == {Last(p) : p \in AllPaths}

NoNode == [kind |-> "none", attr |-> 0, data |-> <<>>, to |-> <<>>]

\* A path in a file system t, as the kernel sees it; the root is always there.
Node(t, p)   == IF p = <<>> THEN [NoNode EXCEPT !.kind = "dir"]
                ELSE IF p \in DOMAIN t THEN t[p] ELSE NoNode
Exists(t, p) == Node(t, p).kind # "none"
IsDir(t, p)  == p # None /\ Node(t, p).kind = "dir"
Rooted(t)    == \A p \in DOMAIN t : Exists(t, p) => IsDir(t, Front(p))

NodeType == [kind : {"none", "dir", "file", "link"}, attr : Nat, data : Seq(Byte),
             to : Paths \cup {<<>>}]

ASSUME CheckerAssumption ==
    /\ IsFiniteSet(Paths) /\ Paths \subseteq Seq(UNION {Range(p) : p \in Paths})
    /\ \A p \in Paths : p # <<>> /\ Dummy \notin Range(p)
    /\ None \notin AllPaths \cup {<<>>} /\ 0 \in Byte /\ MaxLinks \in Nat
    /\ IntMax \in Nat \ {0}
    /\ \A in \in Inputs : /\ {in.record, in.replay} \subseteq [Paths -> NodeType]
                          /\ Rooted(in.record)
                          /\ in.mod.type = "data" => in.mod.loc \in Nat /\ in.mod.len \in Nat

VARIABLES
    healthy,   \* the file system under test never fails a call
    record,    \* what is mounted on /mnt/pmem0
    replay,    \* what is mounted on /mnt/pmem1
    mod,       \* the DiskMod that decides on the comparison
    pc,        \* what test_check is at
    equal,     \* what the comparison returned
    path,      \* the argument of the deleteFiles call that begins
    ret,       \* the result of the call that ends
    stack,     \* the calls in their loops over a directory
    open,      \* directory streams that are open
    tally      \* how the result was counted

vars == <<healthy, record, replay, mod, pc, equal, path, ret, stack, open, tally>>

DummyFile == [NoNode EXCEPT !.kind = "file"]
-----------------------------------------------------------------------------
(* Directories and path walks *)

Entries(t, p) == {q \in DOMAIN t : Exists(t, q) /\ Front(q) = p}
Names(t, p)   == {Last(q) : q \in Entries(t, p)}

\* Path walk: where a string path leads, and how many links it has crossed.
Walk(t) == [w \in [at : AllPaths \cup {<<>>, None}, links : 0..MaxLinks], name \in AllNames |->
    LET q == Append(w.at, name)
    IN  IF ~IsDir(t, w.at) \/ ~Exists(t, q) THEN [w EXCEPT !.at = None]
        ELSE IF Node(t, q).kind # "link" THEN [w EXCEPT !.at = q]
        ELSE IF w.links = MaxLinks \/ ~Exists(t, Node(t, q).to) THEN [w EXCEPT !.at = None]
        ELSE [at |-> Node(t, q).to, links |-> w.links + 1]]
Target(t, s) ==
    IF s = <<>> THEN <<>>
    ELSE FoldLeft(LAMBDA w, name : Walk(t)[w, name], [at |-> <<>>, links |-> 0], s).at

\* The entry that unlink and rmdir work on: the last link is not followed.
Entry(t, s) == LET d == Target(t, Front(s))
               IN  IF IsDir(t, d) /\ Exists(t, Append(d, Last(s))) THEN Append(d, Last(s)) ELSE None

TypeOK ==
    /\ healthy \in BOOLEAN
    /\ DOMAIN record = AllPaths /\ DOMAIN replay = AllPaths
    /\ Rooted(record)
    /\ pc \in {"mount", "compare", "make", "call", "loop", "return", "tally", "done"}
    /\ equal \in BOOLEAN /\ ret \in BOOLEAN
    /\ open \in 0..Len(stack) + 1
    /\ tally \in {"none", "passed", "failed"}

Extend(t) == [p \in AllPaths |-> Node(t, p)]

Init ==
    /\ healthy \in BOOLEAN
    /\ \E in \in Inputs : /\ record = Extend(in.record)
                          /\ replay = Extend(in.replay)
                          /\ mod = in.mod
    /\ pc = "mount"
    /\ equal = FALSE
    /\ path = <<>> /\ ret = FALSE /\ stack = <<>>
    /\ open = 0
    /\ tally = "none"
-----------------------------------------------------------------------------
(* Comparing *)

\* get_contents: an entry whose stat fails is passed over, and links are not
\* followed.
Contents(t) ==
    [p \in {q \in AllPaths : Exists(t, q) /\ Target(t, q) # None}
        |-> [kind |-> t[p].kind, attr |-> t[p].attr,
             data |-> IF t[p].kind = "file" THEN t[p].data ELSE <<>>]]

\* Bug: the numbers of entries are not compared.
OneWay(c1, c2) == \A p \in DOMAIN c1 : p \in DOMAIN c2 /\ c1[p] = c2[p]

compare_disk_contents(c1, c2) ==
    /\ Cardinality(DOMAIN c1) = Cardinality(DOMAIN c2)
    /\ \A p \in DOMAIN c1 : p \in DOMAIN c2 /\ c1[p] = c2[p]

\* stat follows links; both must be there.
compare_entries_at_path(p) ==
    LET a == Target(record, p)
        b == Target(replay, p)
    IN  /\ a # None /\ b # None
        /\ Node(record, a).kind = Node(replay, b).kind
        /\ Node(record, a).attr = Node(replay, b).attr
        /\ Node(record, a).kind = "file" => record[a].data = replay[b].data

\* The 64-bit numbers of a DiskMod become an int: 2^32 values, half of them negative.
ToInt(n) == LET m == n % (2 * (IntMax + 1)) IN IF m > IntMax THEN m - 2 * (IntMax + 1) ELSE m

\* new char[length + 1] throws; for -1 and for the largest int, which the sum
\* overflows, the code is undefined and may also go on.
Undefined(length) == length \in {-1, IntMax}
Throws(length)    == length < 0 \/ length = IntMax

\* What read leaves in a buffer: behind the end of the file, and everywhere when
\* seekg refused a negative offset, what was there.
Buffers(data, offset, length) ==
    {b \in [1..length -> Byte] :
        \A i \in 1..length : offset >= 0 /\ offset + i <= Len(data) => b[i] = data[offset + i]}

CString(b) == LET zeros == {i \in DOMAIN b : b[i] = 0}
              IN  IF zeros = {} THEN b ELSE SubSeq(b, 1, Min(zeros) - 1)

\* The results that are possible: strcmp stops at the first zero byte.
StrcmpResults(data1, data2, offset, length) ==
    IF Throws(length) THEN {res \in BOOLEAN : Undefined(length)}
    ELSE {res \in BOOLEAN : \E b1 \in Buffers(data1, offset, length),
                                b2 \in Buffers(data2, offset, length) :
                                 res = (CString(b1) = CString(b2))}

\* Bug: the range is read from the start of the files.
CompareFromStart(p, loc, len) ==
    LET a == Target(record, p)
        b == Target(replay, p)
    IN  IF a = None \/ b = None THEN {FALSE}
        ELSE StrcmpResults(Node(record, a).data, Node(replay, b).data, 0, ToInt(len))

compare_file_contents(p, loc, len) ==
    LET a == Target(record, p)
        b == Target(replay, p)
    IN  IF a = None \/ b = None THEN {FALSE}
        ELSE StrcmpResults(Node(record, a).data, Node(replay, b).data, ToInt(loc), ToInt(len))

Dirs(t) == {p \in AllPaths : IsDir(t, p)}

Mount ==
    /\ pc = "mount"
    /\ \/ pc' = "compare"
       \/ ~healthy /\ pc' = "done"
    /\ UNCHANGED <<healthy, record, replay, mod, equal, path, ret, stack, open, tally>>

\* check_disk_and_snapshot_contents.  A call that fails counts against the file
\* system (stat), hides what it was to read (opendir, stat in get_contents, md5sum)
\* or leaves the buffers as they were (read): the result is then open.
Compare ==
    /\ pc = "compare"
    /\ \/ ~healthy /\ equal' \in BOOLEAN
       \/ CASE mod.type = "fsync" -> equal' = compare_entries_at_path(mod.path)
            [] mod.type = "sync"  -> equal' = compare_disk_contents(Contents(record), Contents(replay))
            [] mod.type = "data"  -> equal' \in compare_file_contents(mod.path, mod.loc, mod.len)
            [] OTHER -> equal' = FALSE
    /\ pc' = IF equal' THEN "make" ELSE "tally"
    /\ ret' = FALSE
    /\ UNCHANGED <<healthy, record, replay, mod, path, stack, open, tally>>

\* bad_array_new_length, which nothing catches: the harness is gone.
CompareThrows ==
    /\ pc = "compare" /\ mod.type = "data" /\ Throws(ToInt(mod.len))
    /\ Target(record, mod.path) # None /\ Target(replay, mod.path) # None
    /\ pc' = "done" /\ ret' = FALSE
    /\ UNCHANGED <<healthy, record, replay, mod, equal, path, stack, open, tally>>
-----------------------------------------------------------------------------
(* sanity_checks, on the record device *)

\* Bug: the directories get no file.
MakeNoFiles ==
    /\ pc = "make"
    /\ pc' = "call" /\ path' = <<>>
    /\ UNCHANGED <<healthy, record, replay, mod, equal, ret, stack, open, tally>>

\* makeFiles: a file in every directory, so that none is empty.
MakeFiles ==
    /\ pc = "make"
    /\ \E done \in SUBSET Dirs(record) :
         /\ record' = [p \in AllPaths |->
                IF Last(p) = Dummy /\ Front(p) \in done THEN DummyFile ELSE record[p]]
         /\ \/ done = Dirs(record) /\ pc' = "call"
            \/ ~healthy /\ pc' \in {"call", "tally"}
    /\ path' = <<>>
    /\ UNCHANGED <<healthy, replay, mod, equal, ret, stack, open, tally>>

Return(res) == pc' = "return" /\ ret' = res
Removed(p)  == record' = [record EXCEPT ![p] = NoNode]

\* isFile: stat succeeds and it is no directory.
isFile(s) == LET p == Target(record, s) IN p # None /\ ~IsDir(record, p)

\* isEmptyDirOrFile: also what cannot be opened is.
isEmptyDirOrFile(s) == \/ ~IsDir(record, Target(record, s))
                       \/ Names(record, Target(record, s)) = {}
                       \/ ~healthy

\* The root itself is never removed.
DeleteRoot ==
    /\ pc = "call" /\ path = <<>> /\ isEmptyDirOrFile(path)
    /\ Return(TRUE)
    /\ UNCHANGED <<healthy, record, replay, mod, equal, path, stack, open, tally>>

CanUnlink(s) == Exists(record, Entry(record, s)) /\ ~IsDir(record, Entry(record, s))

DeleteFile ==
    /\ pc = "call" /\ path # <<>> /\ isEmptyDirOrFile(path) /\ isFile(path)
    /\ \/ CanUnlink(path) /\ Removed(Entry(record, path)) /\ Return(TRUE)
       \/ (~CanUnlink(path) \/ ~healthy) /\ record' = record /\ Return(FALSE)
    /\ UNCHANGED <<healthy, replay, mod, equal, path, stack, open, tally>>

CanRmdir(s) == LET p == Entry(record, s) IN IsDir(record, p) /\ Entries(record, p) = {}

\* An empty directory -- or something stat cannot reach, a dangling link.
DeleteEmptyDir ==
    /\ pc = "call" /\ path # <<>> /\ isEmptyDirOrFile(path) /\ ~isFile(path)
    /\ \/ CanRmdir(path) /\ Removed(Entry(record, path)) /\ Return(TRUE)
       \/ (~CanRmdir(path) \/ ~healthy) /\ record' = record /\ Return(FALSE)
    /\ UNCHANGED <<healthy, replay, mod, equal, path, stack, open, tally>>

DeleteDir ==
    /\ pc = "call" /\ IsDir(record, Target(record, path)) /\ Names(record, Target(record, path)) # {}
    /\ \/ /\ stack' = Append(stack, [path |-> path, left |-> Names(record, Target(record, path)),
                                     sub |-> <<>>, subpathIsFile |-> FALSE])
          /\ open' = open + 1
          /\ pc' = "loop" /\ ret' = ret
       \/ /\ ~healthy
          /\ Return(FALSE)
          /\ UNCHANGED <<stack, open>>
    /\ UNCHANGED <<healthy, record, replay, mod, equal, path, tally>>

Top == stack[Len(stack)]

\* The next entry of the directory, in any order; one that is gone by now may
\* still come or not.
NextEntry ==
    /\ pc = "loop"
    /\ \E name \in Top.left, isfile \in BOOLEAN :
         LET subpath == Append(Top.path, name) IN
         /\ isfile = isFile(subpath) \/ (~healthy /\ ~isfile)
         /\ stack' = [stack EXCEPT ![Len(stack)].left = @ \ {name},
                                   ![Len(stack)].sub = subpath,
                                   ![Len(stack)].subpathIsFile = isfile]
         /\ path' = subpath
    /\ pc' = "call"
    /\ UNCHANGED <<healthy, record, replay, mod, equal, ret, open, tally>>

\* Bug: the stream is not closed at the end of a directory.
EndOfDirLeavesStream ==
    /\ pc = "loop"
    /\ ~healthy \/ \A name \in Top.left : Entry(record, Append(Top.path, name)) = None
    /\ stack' = Front(stack)
    /\ Return(TRUE)
    /\ UNCHANGED <<healthy, record, replay, mod, equal, path, open, tally>>

EndOfDir ==
    /\ pc = "loop"
    /\ ~healthy \/ \A name \in Top.left : Entry(record, Append(Top.path, name)) = None
    /\ stack' = Front(stack)
    /\ open' = open - 1
    /\ Return(TRUE)
    /\ UNCHANGED <<healthy, record, replay, mod, equal, path, tally>>

\* Bug: a call that failed does not end the loop of its caller.
SubFailedGoesOn ==
    /\ pc = "return" /\ stack # <<>> /\ ~ret
    /\ pc' = "loop"
    /\ UNCHANGED <<healthy, record, replay, mod, equal, path, ret, stack, open, tally>>

\* The call on an entry has failed: the stream is closed.
SubFailed ==
    /\ pc = "return" /\ stack # <<>> /\ ~ret
    /\ stack' = Front(stack)
    /\ open' = open - 1
    /\ UNCHANGED <<healthy, record, replay, mod, pc, equal, path, ret, tally>>

SubFileGone ==
    /\ pc = "return" /\ stack # <<>> /\ ret /\ Top.subpathIsFile
    /\ pc' = "loop"
    /\ UNCHANGED <<healthy, record, replay, mod, equal, path, ret, stack, open, tally>>

\* Bug: a directory that cannot be removed is tried again.
RemoveSubdirRetries ==
    /\ pc = "return" /\ stack # <<>> /\ ret /\ ~Top.subpathIsFile
    /\ CanRmdir(Top.sub) /\ Removed(Entry(record, Top.sub))
    /\ pc' = "loop"
    /\ UNCHANGED <<healthy, replay, mod, equal, path, ret, stack, open, tally>>

\* What is not a file is taken for a directory that is empty by now.  When its
\* rmdir fails the stream stays open.
RemoveSubdir ==
    /\ pc = "return" /\ stack # <<>> /\ ret /\ ~Top.subpathIsFile
    /\ \/ /\ CanRmdir(Top.sub) /\ Removed(Entry(record, Top.sub))
          /\ pc' = "loop" /\ UNCHANGED <<ret, stack>>
       \/ /\ ~CanRmdir(Top.sub) \/ ~healthy
          /\ record' = record /\ stack' = Front(stack)
          /\ Return(FALSE)
    /\ UNCHANGED <<healthy, replay, mod, equal, path, open, tally>>

SanityEnds ==
    /\ pc = "return" /\ stack = <<>>
    /\ pc' = "tally"
    /\ UNCHANGED <<healthy, record, replay, mod, equal, path, ret, stack, open, tally>>

\* kAutoCheckFailed, and TallyTimingResult
Tally ==
    /\ pc = "tally"
    /\ pc' = "done"
    /\ tally' = IF equal /\ ret THEN "passed" ELSE "failed"
    /\ UNCHANGED <<healthy, record, replay, mod, equal, path, ret, stack, open>>

deleteFiles == DeleteRoot \/ DeleteFile \/ DeleteEmptyDir \/ DeleteDir \/ NextEntry
               \/ EndOfDir \/ SubFailed \/ SubFileGone \/ RemoveSubdir

Next == Mount \/ Compare \/ CompareThrows \/ MakeFiles \/ deleteFiles \/ SanityEnds \/ Tally

Spec == Init /\ [][Next]_vars /\ WF_vars(Next)
-----------------------------------------------------------------------------
(* Properties *)

NoDangling(t) == [p \in {q \in AllPaths : Exists(t, q) /\ Target(t, q) # None} |-> t[p]]

Alike(n1, n2) == /\ n1.kind = n2.kind /\ n1.attr = n2.attr
                 /\ n1.kind = "file" => n1.data = n2.data

\* After a sync the comparison is exact on a healthy file system, in both
\* directions and at every depth; only where links lead, and links that lead
\* nowhere, are not compared.
SyncComparesTrees ==
    [][pc = "compare" /\ healthy /\ mod.type = "sync" =>
          (equal' <=> LET t1 == NoDangling(record)
                          t2 == NoDangling(replay)
                      IN  /\ DOMAIN t1 = DOMAIN t2
                          /\ \A p \in DOMAIN t1 : Alike(t1[p], t2[p]))]_vars

InsideFile(t) == LET p == Target(t, mod.path)
                 IN  /\ p # None
                     /\ Node(t, p).kind = "file" /\ mod.loc + mod.len <= Len(t[p].data)
                     /\ \A i \in 1..mod.len : t[p].data[mod.loc + i] # 0
Segment(t) == SubSeq(t[Target(t, mod.path)].data, mod.loc + 1, mod.loc + mod.len)

\* The offset is an int, and the size of the buffer is.
FitsInt == mod.loc <= IntMax /\ mod.len < IntMax

\* After fdatasync, on a healthy file system, exactly the bytes of the modification
\* decide, as long as both files have them, none of them is zero, and the modification
\* fits the int parameters of compare_file_contents.
DataComparesRange ==
    [][pc = "compare" /\ healthy /\ mod.type = "data" /\ FitsInt
          /\ InsideFile(record) /\ InsideFile(replay) =>
          (equal' <=> Segment(record) = Segment(replay))]_vars

\* A test passes only when everything on the record device could be deleted,
\* unless the file system hides entries from readdir.
PassedMeansEmptied == tally = "passed" /\ healthy => Entries(record, <<>>) = {}

\* A passed test has closed every directory; a failed one leaves at most one
\* open, which then keeps the record device busy.
StreamsClosed ==
    /\ tally = "passed" => open = 0
    /\ pc = "done" => open <= 1

Healthy == healthy /\ record = replay /\ \A p \in AllPaths : record[p].kind # "link"
Applies == CASE mod.type = "sync"  -> TRUE
             [] mod.type = "fsync" -> Exists(record, mod.path)
             [] mod.type = "data"  -> FitsInt /\ InsideFile(record)
             [] OTHER -> FALSE

\* No false alarm: a file system that works, holds no symbolic links and came
\* back from the crash as it was passes.
GoodSystemPasses == (pc = "mount" /\ Healthy /\ Applies) ~> tally = "passed"

\* The check is what Harness!Compare makes of it, one step with an outcome, and
\* it ends, whatever fails, also where links lead back up the tree.
Outcome == INSTANCE CheckOutcome WITH over    <- pc = "done",
                                      verdict <- tally,
                                      leaked  <- pc = "done" /\ open > 0
OutcomeSpec == Outcome!Spec
-----------------------------------------------------------------------------
(* The inductive invariant behind StreamsClosed and Outcome: one stream for *)
(* each call in its loop, and one more only when a failure is on its way    *)
(* up.                                                                      *)

Frame == [path : Seq(AllNames), left : SUBSET AllNames, sub : Seq(AllNames),
          subpathIsFile : BOOLEAN]

CallTypes ==
    /\ DOMAIN record = AllPaths
    /\ path \in Seq(AllNames) /\ stack \in Seq(Frame) /\ open \in Nat
    /\ equal \in BOOLEAN /\ ret \in BOOLEAN
    /\ pc \in {"mount", "compare", "make", "call", "loop", "return", "tally", "done"}

Streams ==
    /\ pc \in {"mount", "compare", "make", "tally", "done"} => stack = <<>>
    /\ pc = "loop" => stack # <<>>
    /\ \/ open = Len(stack)
       \/ open = Len(stack) + 1 /\ pc \in {"return", "tally", "done"} /\ ~ret

Verdict ==
    /\ tally \in {"none", "passed", "failed"}
    /\ pc # "done" => tally = "none"
    /\ tally = "passed" => ret
    /\ tally = "none" => open = Len(stack) \/ pc # "done"

CallInv == CallTypes /\ Streams /\ Verdict

\* The trees: no directory goes before what it holds.
Nested ==
    /\ healthy \in BOOLEAN
    /\ DOMAIN replay = AllPaths
    /\ Rooted(record)

\* What is compared is still what was mounted.
Compared ==
    pc \in {"mount", "compare"} =>
        /\ {record, replay} \subseteq [AllPaths -> NodeType]
        /\ mod.type = "data" => mod.loc \in Nat /\ mod.len \in Nat

\* What is left in the root has still to be read from it, or is at hand.
Root == stack[1]
AtHand(q) == /\ q = Root.sub
             /\ pc \in {"call", "return"} \/ Len(stack) > 1
             /\ ~(pc = "return" /\ Len(stack) = 1 /\ ret /\ Root.subpathIsFile)

Emptying ==
    healthy =>
        /\ pc = "call" /\ stack = <<>> => path = <<>>
        /\ pc \in {"return", "tally", "done"} /\ stack = <<>> /\ ret => Entries(record, <<>>) = {}
        /\ stack # <<>> =>
             /\ Root.path = <<>>
             /\ \A q \in Entries(record, <<>>) : Last(q) \in Root.left \/ AtHand(q)
             /\ pc \in {"call", "return"} \/ Len(stack) > 1 =>
                  \E name \in AllNames : Root.sub = <<name>>
             /\ pc = "call" /\ Len(stack) = 1 =>
                  path = Root.sub /\ (Root.subpathIsFile <=> isFile(path))
             /\ Len(stack) > 1 => ~Root.subpathIsFile

CheckInv == CallInv /\ Nested /\ Compared /\ Emptying
=============================================================================
