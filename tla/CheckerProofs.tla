--------------------------- MODULE CheckerProofs ---------------------------
(* Streams and outcomes of a check, for every pair of file systems. *)
EXTENDS Checker, FiniteSetTheorems, SequenceTheorems, TLAPS

\* The length and the type of a stack without its last frame.
LEMMA FrontOfStack ==
    ASSUME NEW S, NEW s \in Seq(S), s # <<>>
    PROVE  Front(s) \in Seq(S) /\ Len(Front(s)) = Len(s) - 1
<1>1. Len(s) \in Nat \ {0} /\ DOMAIN s = 1..Len(s) /\ \A i \in 1..Len(s) : s[i] \in S
  OBVIOUS
<1>2. \A i \in 1..(Len(s) - 1) : s[i] \in S
  BY <1>1
<1>. QED
  BY <1>1, <1>2 DEF Front

\* The paths that Extend, MakeFiles and Removed leave a file system with.
LEMMA DomainOfRecord ==
    ASSUME NEW t PROVE DOMAIN Extend(t) = AllPaths
BY DEF Extend

LEMMA NamesAreNames ==
    ASSUME NEW t, DOMAIN t = AllPaths, NEW p
    PROVE  Names(t, p) \subseteq AllNames
BY DEF Names, Entries, AllNames

LEMMA InitCallInv == Init => CallInv
<1> SUFFICES ASSUME Init PROVE CallInv
  OBVIOUS
<1>1. DOMAIN record = AllPaths
  BY DomainOfRecord DEF Init
<1>2. <<>> \in Seq(AllNames) /\ <<>> \in Seq(Frame) /\ Len(<<>>) = 0
  OBVIOUS
<1>. QED
  BY <1>1, <1>2 DEF Init, CallInv, CallTypes, Streams, Verdict
-----------------------------------------------------------------------------
(* One lemma per group of steps. *)

LEMMA MountStep == CallInv /\ Mount => CallInv'
BY DEF CallInv, CallTypes, Streams, Verdict, Mount

LEMMA CompareStep == CallInv /\ Compare => CallInv'
<1> SUFFICES ASSUME CallInv, Compare PROVE CallInv'
  OBVIOUS
<1>1. compare_entries_at_path(mod.path) \in BOOLEAN
  BY Zenon DEF compare_entries_at_path
<1>2. compare_disk_contents(Contents(record), Contents(replay)) \in BOOLEAN
  BY Zenon DEF compare_disk_contents
<1>3. compare_file_contents(mod.path, mod.loc, mod.len) \subseteq BOOLEAN
  BY Zenon DEF compare_file_contents, StrcmpResults
<1>4. equal' \in BOOLEAN
  BY <1>1, <1>2, <1>3, Zenon DEF Compare
<1>. QED
  BY <1>4 DEF CallInv, CallTypes, Streams, Verdict, Compare

LEMMA CompareThrowsStep == CallInv /\ CompareThrows => CallInv'
BY DEF CallInv, CallTypes, Streams, Verdict, CompareThrows

LEMMA MakeFilesStep == CallInv /\ MakeFiles => CallInv'
<1> SUFFICES ASSUME CallInv, MakeFiles PROVE CallInv'
  OBVIOUS
<1>1. DOMAIN record' = AllPaths
  BY DEF MakeFiles
<1>2. pc' \in {"call", "tally"} /\ path' = <<>>
  BY DEF MakeFiles
<1>3. UNCHANGED <<equal, ret, stack, open, tally>> /\ pc = "make"
  BY DEF MakeFiles
<1>. QED
  BY <1>1, <1>2, <1>3 DEF CallInv, CallTypes, Streams, Verdict

LEMMA RemovedDomain ==
    ASSUME DOMAIN record = AllPaths, NEW p, Removed(p)
    PROVE  DOMAIN record' = AllPaths
BY DEF Removed

LEMMA DeleteRootStep == CallInv /\ DeleteRoot => CallInv'
BY DEF CallInv, CallTypes, Streams, Verdict, DeleteRoot, Return

LEMMA DeleteFileStep == CallInv /\ DeleteFile => CallInv'
<1> SUFFICES ASSUME CallInv, DeleteFile PROVE CallInv'
  OBVIOUS
<1>1. DOMAIN record' = AllPaths
  BY RemovedDomain DEF DeleteFile, CallInv, CallTypes
<1>2. /\ pc = "call" /\ pc' = "return" /\ ret' \in BOOLEAN
      /\ UNCHANGED <<equal, path, stack, open, tally>>
  BY DEF DeleteFile, Return
<1>. QED
  BY <1>1, <1>2 DEF CallInv, CallTypes, Streams, Verdict

LEMMA DeleteEmptyDirStep == CallInv /\ DeleteEmptyDir => CallInv'
<1> SUFFICES ASSUME CallInv, DeleteEmptyDir PROVE CallInv'
  OBVIOUS
<1>1. DOMAIN record' = AllPaths
  BY RemovedDomain DEF DeleteEmptyDir, CallInv, CallTypes
<1>2. /\ pc = "call" /\ pc' = "return" /\ ret' \in BOOLEAN
      /\ UNCHANGED <<equal, path, stack, open, tally>>
  BY DEF DeleteEmptyDir, Return
<1>. QED
  BY <1>1, <1>2 DEF CallInv, CallTypes, Streams, Verdict

LEMMA DeleteDirStep == CallInv /\ DeleteDir => CallInv'
<1> SUFFICES ASSUME CallInv, DeleteDir PROVE CallInv'
  OBVIOUS
<1> USE DEF CallInv, CallTypes, Streams, Verdict
<1>1. pc = "call" /\ UNCHANGED <<record, equal, path, tally>>
  BY DEF DeleteDir
<1>2. CASE ~healthy /\ Return(FALSE) /\ UNCHANGED <<stack, open>>
  BY <1>1, <1>2 DEF Return
<1>3. CASE /\ stack' = Append(stack, [path |-> path, left |-> Names(record, Target(record, path)),
                                      sub |-> <<>>, subpathIsFile |-> FALSE])
           /\ open' = open + 1
           /\ pc' = "loop" /\ ret' = ret
  <2>1. [path |-> path, left |-> Names(record, Target(record, path)),
         sub |-> <<>>, subpathIsFile |-> FALSE] \in Frame
    BY NamesAreNames DEF Frame
  <2>2. stack' \in Seq(Frame) /\ Len(stack') = Len(stack) + 1 /\ stack' # <<>>
    BY <1>3, <2>1
  <2>. QED
    BY <1>1, <1>3, <2>2
<1>. QED
  BY <1>2, <1>3 DEF DeleteDir

LEMMA NextEntryStep == CallInv /\ NextEntry => CallInv'
<1> SUFFICES ASSUME CallInv, NextEntry PROVE CallInv'
  OBVIOUS
<1> USE DEF CallInv, CallTypes, Streams, Verdict
<1>1. /\ pc = "loop" /\ pc' = "call" /\ stack # <<>>
      /\ UNCHANGED <<record, equal, ret, open, tally>>
  BY DEF NextEntry
<1>2. PICK name \in Top.left, isfile \in BOOLEAN :
        /\ stack' = [stack EXCEPT ![Len(stack)].left = @ \ {name},
                                  ![Len(stack)].sub = Append(Top.path, name),
                                  ![Len(stack)].subpathIsFile = isfile]
        /\ path' = Append(Top.path, name)
  BY DEF NextEntry
<1>3. Len(stack) \in 1..Len(stack) /\ Top \in Frame
  BY <1>1 DEF Top
<1>4. path' \in Seq(AllNames)
  BY <1>2, <1>3 DEF Frame
<1>5. [Top EXCEPT !.left = @ \ {name}, !.sub = path', !.subpathIsFile = isfile] \in Frame
  BY <1>2, <1>3, <1>4 DEF Frame
<1>6. stack' = [stack EXCEPT ![Len(stack)] =
                   [Top EXCEPT !.left = @ \ {name}, !.sub = path', !.subpathIsFile = isfile]]
  BY <1>2, <1>3 DEF Top, Frame
<1>7. stack' \in Seq(Frame) /\ Len(stack') = Len(stack)
  BY <1>3, <1>5, <1>6
<1>. QED
  BY <1>1, <1>4, <1>7

LEMMA EndOfDirStep == CallInv /\ EndOfDir => CallInv'
<1> SUFFICES ASSUME CallInv, EndOfDir PROVE CallInv'
  OBVIOUS
<1> USE DEF CallInv, CallTypes, Streams, Verdict
<1>1. Front(stack) \in Seq(Frame) /\ Len(Front(stack)) = Len(stack) - 1
  BY FrontOfStack DEF EndOfDir
<1>2. /\ pc = "loop" /\ stack' = Front(stack) /\ open' = open - 1
      /\ pc' = "return" /\ ret' = TRUE
      /\ UNCHANGED <<record, equal, path, tally>>
  BY DEF EndOfDir, Return
<1>. QED
  BY <1>1, <1>2

LEMMA SubFailedStep == CallInv /\ SubFailed => CallInv'
<1> SUFFICES ASSUME CallInv, SubFailed PROVE CallInv'
  OBVIOUS
<1> USE DEF CallInv, CallTypes, Streams, Verdict
<1>1. Front(stack) \in Seq(Frame) /\ Len(Front(stack)) = Len(stack) - 1
  BY FrontOfStack DEF SubFailed
<1>2. /\ pc = "return" /\ ~ret /\ stack' = Front(stack) /\ open' = open - 1
      /\ UNCHANGED <<record, pc, equal, path, ret, tally>>
  BY DEF SubFailed
<1>. QED
  BY <1>1, <1>2

LEMMA SubFileGoneStep == CallInv /\ SubFileGone => CallInv'
BY DEF CallInv, CallTypes, Streams, Verdict, SubFileGone

LEMMA RemoveSubdirStep == CallInv /\ RemoveSubdir => CallInv'
<1> SUFFICES ASSUME CallInv, RemoveSubdir PROVE CallInv'
  OBVIOUS
<1> USE DEF CallInv, CallTypes, Streams, Verdict
<1>1. Front(stack) \in Seq(Frame) /\ Len(Front(stack)) = Len(stack) - 1
  BY FrontOfStack DEF RemoveSubdir
<1>2. DOMAIN record' = AllPaths
  BY RemovedDomain DEF RemoveSubdir
<1>3. /\ pc = "return" /\ stack # <<>> /\ ret
      /\ UNCHANGED <<equal, path, open, tally>>
  BY DEF RemoveSubdir
<1>4. \/ pc' = "loop" /\ UNCHANGED <<ret, stack>>
      \/ pc' = "return" /\ ret' = FALSE /\ stack' = Front(stack)
  BY DEF RemoveSubdir, Return
<1>5. open = Len(stack) /\ tally = "none"
  BY <1>3
<1>6. CASE pc' = "loop" /\ UNCHANGED <<ret, stack>>
  BY <1>2, <1>3, <1>5, <1>6
<1>7. CASE pc' = "return" /\ ret' = FALSE /\ stack' = Front(stack)
  <2>1. open' = Len(stack') + 1
    BY <1>1, <1>3, <1>5, <1>7
  <2>2. ~ret' /\ ret' \in BOOLEAN
    BY <1>7
  <2>. QED
    BY <1>1, <1>2, <1>3, <1>5, <1>7, <2>1, <2>2
<1>. QED
  BY <1>4, <1>6, <1>7

LEMMA SanityEndsStep == CallInv /\ SanityEnds => CallInv'
BY DEF CallInv, CallTypes, Streams, Verdict, SanityEnds

LEMMA TallyStep == CallInv /\ Tally => CallInv'
BY DEF CallInv, CallTypes, Streams, Verdict, Tally

LEMMA StutterStep == CallInv /\ UNCHANGED vars => CallInv'
BY DEF CallInv, CallTypes, Streams, Verdict, vars
-----------------------------------------------------------------------------
(* Paths, entries and what is left of them *)

\* A path is a sequence of names; one without a directory is a single name.
LEMMA PathFacts ==
    ASSUME NEW p \in AllPaths
    PROVE  /\ p # <<>> /\ p # None /\ Last(p) \in AllNames
           /\ Front(p) = <<>> => p = <<Last(p)>>
<1> DEFINE S == (UNION {Range(q) : q \in Paths}) \cup {Dummy}
<1>1. p \in Seq(S) /\ p # <<>>
  <2>1. CASE p \in Paths
    <3> DEFINE T == UNION {Range(q) : q \in Paths}
    <3>1. p \in Seq(T) /\ p # <<>> /\ S = T \cup {Dummy}
      BY <2>1, CheckerAssumption
    <3> HIDE DEF S, T
    <3>. QED
      BY <3>1
  <2>2. ASSUME NEW q \in Paths, p = Append(q, Dummy) PROVE p \in Seq(S) /\ p # <<>>
    <3> DEFINE T == UNION {Range(r) : r \in Paths}
    <3>1. q \in Seq(T) /\ S = T \cup {Dummy}
      BY CheckerAssumption
    <3> HIDE DEF S, T
    <3>2. q \in Seq(S) /\ Dummy \in S
      BY <3>1
    <3>. QED
      BY <2>2, <3>2
  <2>. QED
    BY <2>1, <2>2 DEF AllPaths
<1> HIDE DEF S
<1>2. p # None /\ Last(p) \in AllNames
  BY CheckerAssumption DEF AllNames
<1>3. ASSUME Front(p) = <<>> PROVE p = <<Last(p)>>
  <2>1. Len(p) \in Nat /\ Len(p) # 0 /\ Len(Front(p)) = Len(p) - 1
    <3>1. Len(p) \in Nat /\ Len(p) # 0
      BY <1>1
    <3>. QED
      BY <1>1, <3>1, FrontOfStack
  <2>2. Len(p) = 1
    BY <2>1, <1>3
  <2>. QED
    BY <1>1, <2>2 DEF Last
<1>. QED
  BY <1>1, <1>2, <1>3

\* Below a dummy file there is no path.
LEMMA NothingBelowDummy ==
    ASSUME NEW p \in AllPaths, NEW d \in Paths PROVE Front(p) # Append(d, Dummy)
<1> DEFINE S == UNION {Range(q) : q \in Paths}
<1> SUFFICES ASSUME Front(p) = Append(d, Dummy) PROVE FALSE
  OBVIOUS
<1>1. d \in Seq(S) /\ \A q \in Paths : q \in Seq(S) /\ Dummy \notin Range(q)
  BY CheckerAssumption
<1> HIDE DEF S
<1>2. Append(d, Dummy)[Len(d) + 1] = Dummy /\ Len(Append(d, Dummy)) = Len(d) + 1 /\ Len(d) \in Nat
  <2>1. d \in Seq(S \cup {Dummy})
    BY <1>1
  <2>. QED
    BY <2>1
<1>3. CASE p \in Paths
  <2>1. p \in Seq(S) /\ Len(p) \in Nat
    BY <1>1, <1>3
  <2>2. \A i \in 1..Len(p) - 1 : Front(p)[i] = p[i]
    BY <2>1 DEF Front
  <2>3. Len(Front(p)) = Len(p) - 1
    <3>1. Len(p) # 0
      BY <1>3, CheckerAssumption, <2>1
    <3>. QED
      BY <2>1, <3>1 DEF Front
  <2>4. p[Len(d) + 1] = Dummy /\ Len(d) + 1 \in 1..Len(p)
    BY <1>2, <2>1, <2>2, <2>3
  <2>5. Dummy \in Range(p)
    BY <2>1, <2>4 DEF Range
  <2>. QED
    BY <1>1, <1>3, <2>5
<1>4. ASSUME NEW q \in Paths, p = Append(q, Dummy) PROVE FALSE
  <2>1. q \in Seq(S) /\ Len(q) \in Nat
    BY <1>1
  <2>2. Front(p) = q
    <3>1. q \in Seq(S \cup {Dummy})
      BY <2>1
    <3> DEFINE T == S \cup {Dummy}
    <3>2. Append(q, Dummy) \in Seq(T) /\ Len(Append(q, Dummy)) = Len(q) + 1
          /\ \A i \in 1..Len(q) : Append(q, Dummy)[i] = q[i]
      BY <3>1
    <3> HIDE DEF T
    <3>3. SubSeq(p, 1, Len(q)) \in Seq(T) /\ Len(SubSeq(p, 1, Len(q))) = Len(q)
          /\ \A i \in 1..Len(q) : SubSeq(p, 1, Len(q))[i] = p[i]
      BY <3>2, <1>4, <2>1
    <3>4. Front(p) = SubSeq(p, 1, Len(q))
      BY <3>2, <1>4, <2>1 DEF Front
    <3>. QED
      BY <3>2, <3>3, <3>4, <1>4, <2>1
  <2>3. q[Len(d) + 1] = Dummy /\ Len(d) + 1 \in 1..Len(q)
    BY <1>2, <2>1, <2>2
  <2>4. Dummy \in Range(q)
    BY <2>1, <2>3 DEF Range
  <2>. QED
    BY <1>1, <2>4
<1>. QED
  BY <1>3, <1>4 DEF AllPaths

\* The entry of a name in the root is that name.
LEMMA EntryInRoot ==
    ASSUME NEW t, NEW name, Exists(t, <<name>>)
    PROVE  Entry(t, <<name>>) = <<name>>
<1>1. Front(<<name>>) = <<>> /\ Last(<<name>>) = name /\ Append(<<>>, name) = <<name>>
  BY DEF Front, Last
<1>2. IsDir(t, <<>>)
  BY CheckerAssumption DEF IsDir, Node
<1>3. Target(t, Front(<<name>>)) = <<>>
  BY <1>1 DEF Target
<1>. QED
  BY <1>1, <1>2, <1>3 DEF Entry

LEMMA RootEntries ==
    ASSUME NEW t, DOMAIN t = AllPaths
    PROVE  /\ \A q : q \in Entries(t, <<>>) <=> q \in AllPaths /\ Exists(t, q) /\ Front(q) = <<>>
           /\ \A q \in Entries(t, <<>>) : Last(q) \in Names(t, <<>>) /\ q = <<Last(q)>>
           /\ Names(t, <<>>) = {} => Entries(t, <<>>) = {}
<1>1. \A q : q \in Entries(t, <<>>) <=> q \in AllPaths /\ Exists(t, q) /\ Front(q) = <<>>
  BY DEF Entries
<1>2. \A q \in Entries(t, <<>>) : Last(q) \in Names(t, <<>>)
  BY DEF Names
<1>3. \A q \in Entries(t, <<>>) : q = <<Last(q)>>
  BY <1>1, PathFacts
<1>. QED
  BY <1>1, <1>2, <1>3

\* What unlink and rmdir do to a tree.
LEMMA RemovedFacts ==
    ASSUME DOMAIN record = AllPaths, Rooted(record), NEW q, Removed(q),
           ~IsDir(record, q) \/ Entries(record, q) = {}
    PROVE  /\ DOMAIN record' = AllPaths
           /\ Rooted(record)'
           /\ Entries(record, <<>>)' = Entries(record, <<>>) \ {q}
<1>1. record' = [record EXCEPT ![q] = NoNode]
  BY DEF Removed
<1>2. DOMAIN record' = AllPaths /\ (q \in AllPaths => record'[q] = NoNode)
      /\ \A p \in AllPaths : p # q => record'[p] = record[p]
  BY <1>1
<1>3. \A p \in AllPaths : Exists(record', p) <=> p # q /\ Exists(record, p)
  <2> TAKE p \in AllPaths
  <2>1. Node(record, p) = record[p] /\ Node(record', p) = record'[p]
    BY <1>2, PathFacts DEF Node
  <2>. QED
    BY <1>2, <2>1 DEF Exists, NoNode
<1>4. ASSUME NEW p \in AllPaths, Exists(record', p) PROVE IsDir(record', Front(p))
  <2>1. p # q /\ Exists(record, p)
    BY <1>3, <1>4
  <2>2. IsDir(record, Front(p))
    BY <2>1 DEF Rooted
  <2>3. CASE Front(p) = <<>>
    BY <2>2, <2>3 DEF IsDir, Node
  <2>4. CASE Front(p) # <<>>
    <3>1. Front(p) \in AllPaths
      BY <2>2, <2>4 DEF IsDir, Node, NoNode
    <3>2. Front(p) # q
      BY <2>1, <2>2 DEF Entries
    <3>3. Node(record', Front(p)) = Node(record, Front(p))
      BY <1>2, <2>4, <3>1, <3>2 DEF Node
    <3>. QED
      BY <2>2, <3>3 DEF IsDir
  <2>. QED
    BY <2>3, <2>4
<1>5. Rooted(record')
  BY <1>2, <1>4 DEF Rooted
<1>6. Entries(record', <<>>) = Entries(record, <<>>) \ {q}
  BY <1>2, <1>3 DEF Entries
<1>. QED
  BY <1>2, <1>5, <1>6
-----------------------------------------------------------------------------
(* The trees *)

LEMMA InitTrees == Init => Nested /\ Compared
<1> SUFFICES ASSUME Init PROVE Nested /\ Compared
  OBVIOUS
<1>1. PICK in \in Inputs : record = Extend(in.record) /\ replay = Extend(in.replay) /\ mod = in.mod
  BY DEF Init
<1>2. ASSUME NEW t \in [Paths -> NodeType]
      PROVE  /\ Extend(t) \in [AllPaths -> NodeType]
             /\ \A p \in AllPaths \cup {<<>>} : Node(Extend(t), p) = Node(t, p)
             /\ Rooted(t) => Rooted(Extend(t))
  <2>1. NoNode \in NodeType
    BY DEF NoNode, NodeType
  <2>2. \A p \in AllPaths : Node(t, p) \in NodeType
    BY <2>1, PathFacts DEF Node
  <2>3. \A p \in AllPaths \cup {<<>>} : Node(Extend(t), p) = Node(t, p)
    BY PathFacts DEF Node, Extend
  <2>4. ASSUME Rooted(t) PROVE Rooted(Extend(t))
    <3> SUFFICES ASSUME NEW p \in AllPaths, Exists(Extend(t), p) PROVE IsDir(Extend(t), Front(p))
      BY DEF Rooted, Extend
    <3>1. Exists(t, p)
      BY <2>3 DEF Exists
    <3>2. p \in Paths
      BY <3>1, PathFacts DEF Exists, Node, NoNode
    <3>3. IsDir(t, Front(p))
      BY <2>4, <3>1, <3>2 DEF Rooted
    <3>4. Front(p) \in AllPaths \cup {<<>>}
      BY <3>3 DEF IsDir, Node, NoNode, AllPaths
    <3>. QED
      BY <2>3, <3>3, <3>4 DEF IsDir
  <2>. QED
    BY <2>2, <2>3, <2>4 DEF Extend
<1>3. /\ in.record \in [Paths -> NodeType] /\ in.replay \in [Paths -> NodeType]
      /\ Rooted(in.record)
      /\ in.mod.type = "data" => in.mod.loc \in Nat /\ in.mod.len \in Nat
  BY <1>1, CheckerAssumption
<1>4. Nested
  BY <1>1, <1>2, <1>3 DEF Nested, Init
<1>5. Compared
  BY <1>1, <1>2, <1>3 DEF Compared
<1>. QED
  BY <1>4, <1>5

\* A file in every directory, or in some: no path leads below one.
LEMMA MakeFilesNested == CallInv /\ Nested /\ MakeFiles => Nested'
<1> SUFFICES ASSUME CallInv, Nested, MakeFiles PROVE Nested'
  OBVIOUS
<1>1. PICK done \in SUBSET Dirs(record) :
         record' = [p \in AllPaths |->
             IF Last(p) = Dummy /\ Front(p) \in done THEN DummyFile ELSE record[p]]
  BY DEF MakeFiles
<1>2. UNCHANGED <<healthy, replay>>
  BY DEF MakeFiles
<1>3. DOMAIN record' = AllPaths /\ DOMAIN record = AllPaths
  BY <1>1 DEF CallInv, CallTypes
<1>4. \A p \in AllPaths : Node(record, p) = record[p] /\ Node(record', p) = record'[p]
  BY <1>3, PathFacts DEF Node
<1>5. \A p \in AllPaths : ~(Last(p) = Dummy /\ Front(p) \in done) => record'[p] = record[p]
  BY <1>1
<1>6. ASSUME NEW p \in AllPaths, IsDir(record, Front(p)) PROVE IsDir(record', Front(p))
  <2>1. CASE Front(p) = <<>>
    BY <1>6, <2>1 DEF IsDir, Node
  <2>2. CASE Front(p) # <<>>
    <3> DEFINE d == Front(p)
    <3>1. d \in AllPaths
      BY <1>3, <1>6, <2>2 DEF IsDir, Node, NoNode
    <3>2. d \in Paths
      <4>1. \A q \in Paths : d # Append(q, Dummy)
        BY NothingBelowDummy
      <4>. QED
        BY <3>1, <4>1 DEF AllPaths
    <3>3. Last(d) # Dummy
      <4> DEFINE S == UNION {Range(q) : q \in Paths}
      <4>1. d \in Seq(S) /\ d # <<>> /\ Dummy \notin Range(d)
        BY <3>2, CheckerAssumption
      <4> HIDE DEF S, d
      <4>2. Len(d) \in DOMAIN d
        BY <4>1
      <4>. QED
        BY <4>1, <4>2 DEF Range, Last
    <3> HIDE DEF d
    <3>4. record'[d] = record[d]
      BY <1>5, <3>1, <3>3
    <3>5. Node(record', d) = Node(record, d)
      BY <1>4, <3>1, <3>4
    <3>6. IsDir(record, d)
      BY <1>6 DEF d
    <3>7. IsDir(record', d)
      BY <3>5, <3>6 DEF IsDir
    <3>. QED
      BY <3>7 DEF d
  <2>. QED
    BY <2>1, <2>2
<1>7. ASSUME NEW p \in AllPaths, Exists(record', p) PROVE IsDir(record, Front(p))
  <2>1. CASE Last(p) = Dummy /\ Front(p) \in done
    BY <2>1 DEF Dirs
  <2>2. CASE ~(Last(p) = Dummy /\ Front(p) \in done)
    <3>1. Exists(record, p)
      BY <1>4, <1>5, <1>7, <2>2 DEF Exists
    <3>. QED
      BY <1>3, <3>1 DEF Nested, Rooted
  <2>. QED
    BY <2>1, <2>2
<1>8. Rooted(record')
  BY <1>3, <1>6, <1>7 DEF Rooted
<1>. QED
  BY <1>2, <1>8 DEF Nested

\* What one step of the deletion removes: nothing, a file, or an empty directory.
Deleted(q) == \/ Removed(q) /\ (~IsDir(record, q) \/ Entries(record, q) = {})
              \/ record' = record

LEMMA DeletedNested ==
    ASSUME CallInv, Nested, UNCHANGED <<healthy, replay>>, NEW q, Deleted(q)
    PROVE  Nested' /\ Entries(record, <<>>)' \subseteq Entries(record, <<>>)
<1>1. CASE record' = record
  BY <1>1 DEF Nested, Rooted, Exists, IsDir, Node, Entries
<1>2. CASE Removed(q) /\ (~IsDir(record, q) \/ Entries(record, q) = {})
  <2>1. /\ Rooted(record)' /\ Entries(record, <<>>)' = Entries(record, <<>>) \ {q}
    BY <1>2, RemovedFacts DEF CallInv, CallTypes, Nested
  <2>. QED
    BY <2>1 DEF Nested
<1>. QED
  BY <1>1, <1>2 DEF Deleted

LEMMA DeletionSteps ==
    /\ DeleteFile => Deleted(Entry(record, path))
    /\ DeleteEmptyDir => Deleted(Entry(record, path))
    /\ RemoveSubdir => Deleted(Entry(record, Top.sub))
<1>1. DeleteFile => Deleted(Entry(record, path))
  BY DEF DeleteFile, CanUnlink, Deleted
<1>2. \A s : CanRmdir(s) => Entries(record, Entry(record, s)) = {}
  BY DEF CanRmdir
<1>3. DeleteEmptyDir => Deleted(Entry(record, path))
  BY <1>2 DEF DeleteEmptyDir, Deleted
<1>4. RemoveSubdir => Deleted(Entry(record, Top.sub))
  BY <1>2 DEF RemoveSubdir, Deleted
<1>. QED
  BY <1>1, <1>3, <1>4

LEMMA NestedStep == CallInv /\ Nested /\ [Next]_vars => Nested'
<1> SUFFICES ASSUME CallInv, Nested, [Next]_vars PROVE Nested'
  OBVIOUS
<1>1. CASE MakeFiles
  BY <1>1, MakeFilesNested
<1>2. CASE DeleteFile \/ DeleteEmptyDir \/ RemoveSubdir
  <2>1. UNCHANGED <<healthy, replay>>
    BY <1>2 DEF DeleteFile, DeleteEmptyDir, RemoveSubdir
  <2>2. \E q : Deleted(q)
    BY <1>2, DeletionSteps
  <2>. QED
    BY <2>1, <2>2, DeletedNested
<1>3. CASE UNCHANGED <<healthy, record, replay>>
  BY <1>3 DEF Nested, Rooted, Exists, IsDir, Node
<1>4. Mount \/ Compare \/ CompareThrows \/ SanityEnds \/ Tally \/ DeleteRoot \/ DeleteDir
      \/ NextEntry \/ EndOfDir \/ SubFailed \/ SubFileGone \/ UNCHANGED vars => UNCHANGED <<healthy, record, replay>>
  BY DEF Mount, Compare, CompareThrows, SanityEnds, Tally, DeleteRoot, DeleteDir, NextEntry, EndOfDir,
         SubFailed, SubFileGone, vars
<1>. QED
  BY <1>1, <1>2, <1>3, <1>4 DEF Next, deleteFiles

LEMMA ComparedStep == Compared /\ [Next]_vars => Compared'
<1> SUFFICES ASSUME Compared, [Next]_vars PROVE Compared'
  OBVIOUS
<1>1. CASE Mount \/ UNCHANGED vars
  <2>1. UNCHANGED <<record, replay, mod>> /\ (pc' \in {"mount", "compare"} => pc \in {"mount", "compare"})
    BY <1>1 DEF Mount, vars
  <2>. QED
    BY <2>1 DEF Compared
<1>2. CASE Compare \/ CompareThrows \/ MakeFiles \/ deleteFiles \/ SanityEnds \/ Tally
  <2>1. pc' \notin {"mount", "compare"}
    BY <1>2 DEF Compare, CompareThrows, MakeFiles, deleteFiles, SanityEnds, Tally, DeleteRoot, DeleteFile,
         DeleteEmptyDir, DeleteDir, NextEntry, EndOfDir, SubFailed, SubFileGone,
         RemoveSubdir, Return
  <2>. QED
    BY <2>1 DEF Compared
<1>. QED
  BY <1>1, <1>2 DEF Next
-----------------------------------------------------------------------------
(* The root is emptied *)

CheckBefore == CallInv /\ Nested /\ Emptying

LEMMA InitEmptying == Init => Emptying
<1> SUFFICES ASSUME Init PROVE Emptying
  OBVIOUS
<1>1. pc = "mount" /\ stack = <<>>
  BY DEF Init
<1>. QED
  BY <1>1 DEF Emptying

\* Below the root's own loop nothing can appear in it.
LEMMA BelowRoot ==
    ASSUME CheckBefore, healthy, Len(stack) > 1, stack' # <<>>, stack'[1] = stack[1],
           Entries(record, <<>>)' \subseteq Entries(record, <<>>),
           Len(stack') > 1 \/ pc' = "return", Len(stack') \in Nat
    PROVE  Emptying'
<1>1. stack # <<>> /\ pc' = pc' /\ Root' = Root
  BY DEF Root
<1>2. /\ Root.path = <<>> /\ ~Root.subpathIsFile
      /\ \A q \in Entries(record, <<>>) : Last(q) \in Root.left \/ AtHand(q)
      /\ \E name \in AllNames : Root.sub = <<name>>
  BY <1>1 DEF CheckBefore, Emptying
<1>3. \A q : AtHand(q) => AtHand(q)'
  BY <1>1, <1>2 DEF AtHand
<1>4. \A q \in Entries(record, <<>>)' : Last(q) \in Root'.left \/ AtHand(q)'
  BY <1>1, <1>2, <1>3
<1>5. Root'.path = <<>> /\ ~Root'.subpathIsFile /\ \E name \in AllNames : Root'.sub = <<name>>
  BY <1>1, <1>2
<1>6. ~(pc' = "call" /\ Len(stack') = 1)
  <2>1. ~(1 > 1) /\ "call" # "return"
    OBVIOUS
  <2>. QED
    BY <2>1, Zenon
<1>. QED
  BY <1>4, <1>5, <1>6, Zenon DEF Emptying

\* What has to be shown of a step that ends in the root's loop, or below it.
LEMMA AtRoot ==
    ASSUME stack' # <<>>, Len(stack') = 1, Root'.path = <<>>,
           \A q \in Entries(record, <<>>)' : Last(q) \in Root'.left \/ AtHand(q)',
           pc' \in {"call", "return"} => \E name \in AllNames : Root'.sub = <<name>>,
           pc' = "call" => path' = Root'.sub /\ (Root'.subpathIsFile <=> isFile(path)')
    PROVE  Emptying'
<1>1. ~(Len(stack') > 1)
  OBVIOUS
<1>. QED
  BY <1>1, Zenon DEF Emptying

\* Outside of the deletion the stack is empty.
LEMMA NoStackStep ==
    ASSUME healthy, stack' = <<>>, pc' = "call" => path' = <<>>,
           pc' \in {"return", "tally", "done"} /\ ret' => Entries(record, <<>>)' = {}
    PROVE  Emptying'
BY DEF Emptying

LEMMA BeforeAndAfter ==
    ASSUME CheckBefore, healthy, Mount \/ Compare \/ CompareThrows \/ MakeFiles \/ SanityEnds \/ Tally
    PROVE  Emptying'
<1> USE DEF CheckBefore, CallInv, Streams
<1>1. CASE Mount
  <2>1. stack' = <<>> /\ pc' = "compare"
    BY <1>1 DEF Mount
  <2>. QED
    BY <2>1, NoStackStep
<1>2. CASE Compare
  <2>1. stack' = <<>> /\ pc' \in {"make", "tally"} /\ ret' = FALSE
    BY <1>2 DEF Compare
  <2>. QED
    BY <2>1, NoStackStep
<1>3. CASE MakeFiles
  <2>1. stack' = <<>> /\ pc' = "call" /\ path' = <<>>
    BY <1>3 DEF MakeFiles
  <2>. QED
    BY <2>1, NoStackStep
<1>4. CASE SanityEnds \/ Tally
  <2>1. /\ stack' = <<>> /\ stack = <<>> /\ pc \in {"return", "tally"} /\ pc' # "call"
        /\ UNCHANGED <<record, ret>>
    BY <1>4 DEF SanityEnds, Tally
  <2>2. ret => Entries(record, <<>>) = {}
    BY <2>1 DEF Emptying
  <2>3. Entries(record, <<>>)' = Entries(record, <<>>)
    BY <2>1
  <2>. QED
    BY <2>1, <2>2, <2>3, NoStackStep
<1>5. CASE CompareThrows
  <2>1. stack' = <<>> /\ pc' = "done" /\ ret' = FALSE
    BY <1>5 DEF CompareThrows
  <2>. QED
    BY <2>1, NoStackStep
<1>. QED
  BY <1>1, <1>2, <1>3, <1>4, <1>5

\* What the invariant says of a step in the root's loop, or of the call below it.
LEMMA InRoot ==
    ASSUME CheckBefore, healthy, Len(stack) = 1
    PROVE  /\ Root = Top /\ Root.path = <<>> /\ stack # <<>>
           /\ \A q \in Entries(record, <<>>) : Last(q) \in Root.left \/ AtHand(q)
           /\ pc \in {"call", "return"} => \E name \in AllNames : Root.sub = <<name>>
           /\ pc = "call" => path = Root.sub /\ path # <<>> /\ (Root.subpathIsFile <=> isFile(path))
<1>1. stack # <<>>
  OBVIOUS
<1>2. Root = Top
  BY DEF Root, Top
<1>. QED
  BY <1>1, <1>2 DEF CheckBefore, Emptying

LEMMA StackSizes ==
    ASSUME CallInv
    PROVE  /\ stack = <<>> \/ Len(stack) = 1 \/ Len(stack) > 1
           /\ stack = <<>> <=> Len(stack) = 0
           /\ Len(stack) \in Nat /\ stack \in Seq(Frame)
<1>1. stack \in Seq(Frame)
  BY DEF CallInv, CallTypes
<1>2. Len(stack) \in Nat /\ (stack = <<>> <=> Len(stack) = 0)
  BY <1>1
<1>3. Len(stack) = 0 \/ Len(stack) = 1 \/ Len(stack) > 1
  <2>1. \A n \in Nat : n = 0 \/ n = 1 \/ n > 1
    OBVIOUS
  <2>. QED
    BY <1>2, <2>1, Zenon
<1>. QED
  BY <1>1, <1>2, <1>3, Zenon

LEMMA DeleteRootEmptying == CheckBefore /\ healthy /\ DeleteRoot => Emptying'
<1> SUFFICES ASSUME CheckBefore, healthy, DeleteRoot PROVE Emptying'
  OBVIOUS
<1>1. /\ pc = "call" /\ path = <<>> /\ isEmptyDirOrFile(path) /\ pc' = "return"
      /\ UNCHANGED <<record, stack>>
  BY DEF DeleteRoot, Return
<1>2. Entries(record, <<>>)' = Entries(record, <<>>)
  BY <1>1
<1>3. CASE stack = <<>>
  <2>1. Target(record, path) = <<>> /\ IsDir(record, <<>>)
    BY <1>1, CheckerAssumption DEF Target, IsDir, Node
  <2>2. Names(record, <<>>) = {}
    BY <1>1, <2>1 DEF isEmptyDirOrFile
  <2>3. Entries(record, <<>>) = {}
    BY <2>2, RootEntries DEF CheckBefore, CallInv, CallTypes
  <2>. QED
    BY <1>1, <1>2, <1>3, <2>3, NoStackStep
<1>4. CASE Len(stack) = 1
  BY <1>1, <1>4, InRoot
<1>5. CASE Len(stack) > 1
  BY <1>1, <1>2, <1>5, StackSizes, BelowRoot DEF CheckBefore
<1>. QED
  BY <1>3, <1>4, <1>5, StackSizes DEF CheckBefore

\* The entry of a name of the root is gone after it has been removed.
LEMMA RemovedFromRoot ==
    ASSUME CheckBefore, NEW name, Removed(Entry(record, <<name>>)),
           ~IsDir(record, Entry(record, <<name>>)) \/ Entries(record, Entry(record, <<name>>)) = {}
    PROVE  /\ Entries(record, <<>>)' \subseteq Entries(record, <<>>)
           /\ <<name>> \notin Entries(record, <<>>)'
<1>1. Entries(record, <<>>)' = Entries(record, <<>>) \ {Entry(record, <<name>>)}
  BY RemovedFacts DEF CheckBefore, Nested, CallInv, CallTypes
<1>2. CASE Exists(record, <<name>>)
  BY <1>1, <1>2, EntryInRoot
<1>3. CASE ~Exists(record, <<name>>)
  <2>1. <<name>> \notin Entries(record, <<>>)
    BY <1>3 DEF Entries
  <2>. QED
    BY <1>1, <2>1
<1>. QED
  BY <1>2, <1>3

LEMMA DeleteFileEmptying == CheckBefore /\ healthy /\ DeleteFile => Emptying'
<1> SUFFICES ASSUME CheckBefore, healthy, DeleteFile PROVE Emptying'
  OBVIOUS
<1>1. /\ pc = "call" /\ path # <<>> /\ isFile(path) /\ pc' = "return"
      /\ UNCHANGED <<healthy, replay, stack>>
  BY DEF DeleteFile, Return
<1>2. Entries(record, <<>>)' \subseteq Entries(record, <<>>)
  <2>1. Deleted(Entry(record, path))
    BY DeletionSteps
  <2>. QED
    BY <1>1, <2>1, DeletedNested DEF CheckBefore
<1>3. stack # <<>>
  BY <1>1 DEF CheckBefore, Emptying
<1>4. CASE Len(stack) = 1
  <2>1. /\ Root.path = <<>> /\ path = Root.sub /\ Root.subpathIsFile
        /\ \A q \in Entries(record, <<>>) : Last(q) \in Root.left \/ AtHand(q)
    BY <1>1, <1>4, InRoot
  <2>2. PICK name \in AllNames : path = <<name>>
    BY <1>1, <1>4, InRoot
  <2>3. Root' = Root
    BY <1>1 DEF Root
  <2>4. \A q \in Entries(record, <<>>)' : Last(q) \in Root'.left \/ AtHand(q)'
    <3>1. CASE ret' = FALSE
      <4>1. \A q : AtHand(q) => AtHand(q)'
        BY <1>1, <1>4, <2>3, <3>1 DEF AtHand
      <4>. QED
        BY <1>2, <2>1, <2>3, <4>1
    <3>2. CASE CanUnlink(path) /\ Removed(Entry(record, path))
      <4>1. <<name>> \notin Entries(record, <<>>)'
        BY <2>2, <3>2, RemovedFromRoot DEF CanUnlink
      <4>2. \A q : AtHand(q) => q = <<name>>
        BY <2>1, <2>2 DEF AtHand
      <4>. QED
        BY <1>2, <2>1, <2>3, <4>1, <4>2
    <3>. QED
      BY <3>1, <3>2 DEF DeleteFile, Return
  <2>. QED
    BY <1>1, <1>3, <1>4, <2>1, <2>2, <2>3, <2>4, AtRoot
<1>5. CASE Len(stack) > 1
  BY <1>1, <1>2, <1>5, StackSizes, BelowRoot DEF CheckBefore
<1>. QED
  BY <1>3, <1>4, <1>5, StackSizes DEF CheckBefore

LEMMA DeleteEmptyDirEmptying == CheckBefore /\ healthy /\ DeleteEmptyDir => Emptying'
<1> SUFFICES ASSUME CheckBefore, healthy, DeleteEmptyDir PROVE Emptying'
  OBVIOUS
<1>1. /\ pc = "call" /\ path # <<>> /\ ~isFile(path) /\ pc' = "return"
      /\ UNCHANGED <<healthy, replay, stack>>
  BY DEF DeleteEmptyDir, Return
<1>2. Entries(record, <<>>)' \subseteq Entries(record, <<>>)
  <2>1. Deleted(Entry(record, path))
    BY DeletionSteps
  <2>. QED
    BY <1>1, <2>1, DeletedNested DEF CheckBefore
<1>3. stack # <<>>
  BY <1>1 DEF CheckBefore, Emptying
<1>4. CASE Len(stack) = 1
  <2>1. /\ Root.path = <<>> /\ path = Root.sub /\ ~Root.subpathIsFile
        /\ \A q \in Entries(record, <<>>) : Last(q) \in Root.left \/ AtHand(q)
        /\ \E name \in AllNames : Root.sub = <<name>>
    BY <1>1, <1>4, InRoot
  <2>2. Root' = Root
    BY <1>1 DEF Root
  <2>3. \A q : AtHand(q) => AtHand(q)'
    BY <1>1, <2>1, <2>2 DEF AtHand
  <2>4. \A q \in Entries(record, <<>>)' : Last(q) \in Root'.left \/ AtHand(q)'
    BY <1>2, <2>1, <2>2, <2>3
  <2>. QED
    BY <1>1, <1>3, <1>4, <2>1, <2>2, <2>4, AtRoot
<1>5. CASE Len(stack) > 1
  BY <1>1, <1>2, <1>5, StackSizes, BelowRoot DEF CheckBefore
<1>. QED
  BY <1>3, <1>4, <1>5, StackSizes DEF CheckBefore

LEMMA FirstFrame ==
    ASSUME NEW S, NEW s \in Seq(S), s # <<>>, NEW f \in S
    PROVE  /\ Append(s, f)[1] = s[1] /\ Len(Append(s, f)) = Len(s) + 1
           /\ Len(s) > 1 => Front(s)[1] = s[1] /\ [s EXCEPT ![Len(s)] = f][1] = s[1]
           /\ Len([s EXCEPT ![Len(s)] = f]) = Len(s)
           /\ Len(s) = 1 => [s EXCEPT ![Len(s)] = f][1] = f
<1>1. Len(s) \in Nat \ {0}
  OBVIOUS
<1>2. Append(s, f)[1] = s[1] /\ Len(Append(s, f)) = Len(s) + 1
  BY <1>1
<1>3. ASSUME Len(s) > 1 PROVE Front(s)[1] = s[1]
  BY <1>1, <1>3 DEF Front
<1>4. ASSUME Len(s) > 1 PROVE [s EXCEPT ![Len(s)] = f][1] = s[1]
  <2>1. PICK n \in Nat : n = Len(s) /\ DOMAIN s = 1..n
    BY <1>1
  <2>2. n > 1
    BY <1>4, <2>1, Zenon
  <2>3. 1 \in 1..n /\ 1 # n
    BY <2>2
  <2>. QED
    BY <2>1, <2>3
<1>5. Len(s) = 1 => [s EXCEPT ![Len(s)] = f][1] = f
  BY <1>1
<1>6. Len([s EXCEPT ![Len(s)] = f]) = Len(s)
  BY <1>1
<1>. QED
  BY <1>2, <1>3, <1>4, <1>5, <1>6

LEMMA DeleteDirEmptying == CheckBefore /\ healthy /\ DeleteDir => Emptying'
<1> SUFFICES ASSUME CheckBefore, healthy, DeleteDir PROVE Emptying'
  OBVIOUS
<1> DEFINE f == [path |-> path, left |-> Names(record, Target(record, path)),
                 sub |-> <<>>, subpathIsFile |-> FALSE]
<1>1. /\ pc = "call" /\ IsDir(record, Target(record, path)) /\ pc' = "loop"
      /\ stack' = Append(stack, f) /\ UNCHANGED <<healthy, record>>
  BY DEF DeleteDir
<1>2. f \in Frame /\ stack \in Seq(Frame)
  BY NamesAreNames DEF Frame, CheckBefore, CallInv, CallTypes
<1>3. f.path = path /\ f.left = Names(record, Target(record, path)) /\ f.sub = <<>>
  OBVIOUS
<1> HIDE DEF f
<1>4. Entries(record, <<>>)' = Entries(record, <<>>)
  BY <1>1
<1>5. stack' # <<>> /\ Len(stack') = Len(stack) + 1 /\ Len(stack) \in Nat
  BY <1>1, <1>2
<1>6. CASE stack = <<>>
  <2>1. stack' = <<f>> /\ Len(stack') = 1 /\ Root' = f
    BY <1>1, <1>2, <1>6 DEF Root
  <2>2. path = <<>> /\ Target(record, path) = <<>>
    BY <1>1, <1>6 DEF CheckBefore, Emptying, Target
  <2>3. \A q \in Entries(record, <<>>) : Last(q) \in Names(record, <<>>)
    BY RootEntries DEF CheckBefore, CallInv, CallTypes
  <2>. QED
    BY <1>1, <1>3, <1>4, <1>5, <2>1, <2>2, <2>3, AtRoot
<1>7. CASE stack # <<>>
  <2>1. stack'[1] = stack[1] /\ Root' = Root /\ Len(stack) # 0
    BY <1>1, <1>2, <1>7, FirstFrame DEF Root
  <2>2. Len(stack') > 1
    BY <1>5, <2>1
  <2>3. ~isFile(path)
    BY <1>1 DEF isFile
  <2>4. /\ Root.path = <<>> /\ \E name \in AllNames : Root.sub = <<name>>
        /\ \A q \in Entries(record, <<>>) : Last(q) \in Root.left \/ AtHand(q)
        /\ ~Root.subpathIsFile
    <3>1. CASE Len(stack) = 1
      BY <3>1, <1>1, <2>3, InRoot
    <3>2. CASE Len(stack) > 1
      BY <3>2, <1>7, Zenon DEF CheckBefore, Emptying
    <3>. QED
      BY <3>1, <3>2, <1>7, StackSizes DEF CheckBefore
  <2>5. \A q : AtHand(q) => AtHand(q)'
    BY <1>1, <2>1, <2>2 DEF AtHand
  <2>6. \A q \in Entries(record, <<>>)' : Last(q) \in Root'.left \/ AtHand(q)'
    BY <1>4, <2>1, <2>4, <2>5
  <2>. QED
    BY <1>1, <2>1, <2>2, <2>4, <2>6 DEF Emptying
<1>. QED
  BY <1>6, <1>7

LEMMA NextEntryEmptying == CheckBefore /\ healthy /\ NextEntry => Emptying'
<1> SUFFICES ASSUME CheckBefore, healthy, NextEntry PROVE Emptying'
  OBVIOUS
<1>1. pc = "loop" /\ pc' = "call" /\ stack # <<>> /\ UNCHANGED <<healthy, record>>
  BY DEF NextEntry, CheckBefore, CallInv, Streams
<1>2. PICK name \in Top.left, isfile \in BOOLEAN :
        /\ isfile = isFile(Append(Top.path, name)) \/ (~healthy /\ ~isfile)
        /\ stack' = [stack EXCEPT ![Len(stack)].left = @ \ {name},
                                  ![Len(stack)].sub = Append(Top.path, name),
                                  ![Len(stack)].subpathIsFile = isfile]
        /\ path' = Append(Top.path, name)
  BY DEF NextEntry
<1> DEFINE f == [Top EXCEPT !.left = @ \ {name}, !.sub = path', !.subpathIsFile = isfile]
<1>3. stack \in Seq(Frame) /\ Len(stack) \in 1..Len(stack) /\ Top \in Frame
  BY <1>1 DEF Top, CheckBefore, CallInv, CallTypes
<1>4. name \in AllNames /\ path' \in Seq(AllNames)
  BY <1>2, <1>3 DEF Frame
<1>5. /\ f \in Frame /\ f.path = Top.path /\ f.left = Top.left \ {name} /\ f.sub = path'
      /\ f.subpathIsFile = isfile
  BY <1>2, <1>3, <1>4 DEF Frame
<1>6. stack' = [stack EXCEPT ![Len(stack)] = f]
  BY <1>2, <1>3 DEF Top, Frame
<1> HIDE DEF f
<1>7. stack' # <<>> /\ Len(stack') = Len(stack) /\ Len(stack) \in Nat
  BY <1>1, <1>3, <1>5, <1>6, FirstFrame
<1>8. Entries(record, <<>>)' = Entries(record, <<>>)
  BY <1>1
<1>9. CASE Len(stack) = 1
  <2>1. /\ Root = Top /\ Root.path = <<>>
        /\ \A q \in Entries(record, <<>>) : Last(q) \in Root.left
    BY <1>1, <1>9, InRoot DEF AtHand
  <2>2. path' = <<name>>
    BY <1>2, <2>1
  <2>3. Root' = f
    BY <1>1, <1>3, <1>5, <1>6, <1>9, FirstFrame DEF Root
  <2>4. isfile <=> isFile(path)'
    <3>1. isfile = isFile(path')
      BY <1>2
    <3>. QED
      BY <1>1, <3>1 DEF isFile
  <2>5. ASSUME NEW q \in Entries(record, <<>>)' PROVE Last(q) \in Root'.left \/ AtHand(q)'
    <3>1. q = <<Last(q)>> /\ Last(q) \in Top.left
      BY <1>8, <2>1, RootEntries DEF CheckBefore, CallInv, CallTypes
    <3>2. CASE Last(q) # name
      BY <3>1, <3>2, <1>5, <2>3
    <3>3. CASE Last(q) = name
      BY <3>1, <3>3, <1>1, <1>5, <2>2, <2>3 DEF AtHand
    <3>. QED
      BY <3>2, <3>3
  <2>. QED
    BY <1>1, <1>4, <1>5, <1>7, <1>9, <2>1, <2>2, <2>3, <2>4, <2>5, AtRoot
<1>10. CASE Len(stack) > 1
  <2>1. stack'[1] = stack[1]
    BY <1>1, <1>3, <1>5, <1>6, <1>10, FirstFrame
  <2>. QED
    BY <1>7, <1>8, <1>10, <2>1, BelowRoot
<1>. QED
  BY <1>1, <1>9, <1>10, StackSizes DEF CheckBefore

\* A loop ends: the one in the root when nothing is left there, or with a failure.
LEMMA LoopEnds ==
    ASSUME CheckBefore, healthy, stack # <<>>, stack' = Front(stack), pc' = "return",
           Entries(record, <<>>)' \subseteq Entries(record, <<>>),
           Len(stack) = 1 => ~ret' \/ Entries(record, <<>>)' = {}
    PROVE  Emptying'
<1>1. stack \in Seq(Frame) /\ Len(stack) \in Nat /\ Len(stack) # 0
  BY DEF CheckBefore, CallInv, CallTypes
<1>2. Front(stack) \in Seq(Frame) /\ Len(Front(stack)) = Len(stack) - 1
  BY <1>1, FrontOfStack
<1>3. CASE Len(stack) = 1
  <2>1. stack' = <<>>
    BY <1>2, <1>3
  <2>. QED
    BY <1>3, <2>1, NoStackStep
<1>4. CASE Len(stack) > 1
  <2>1. stack' # <<>> /\ Len(stack') \in Nat
    BY <1>1, <1>2, <1>4
  <2>2. stack[1] \in Frame
    BY <1>1
  <2>3. stack'[1] = stack[1]
    BY <1>1, <1>4, <2>2, FirstFrame
  <2>. QED
    BY <1>4, <2>1, <2>3, BelowRoot
<1>. QED
  BY <1>3, <1>4, StackSizes DEF CheckBefore

LEMMA EndOfDirEmptying == CheckBefore /\ healthy /\ EndOfDir => Emptying'
<1> SUFFICES ASSUME CheckBefore, healthy, EndOfDir PROVE Emptying'
  OBVIOUS
<1>1. /\ pc = "loop" /\ stack # <<>> /\ stack' = Front(stack) /\ pc' = "return"
      /\ UNCHANGED <<healthy, record>>
      /\ \A name \in Top.left : Entry(record, Append(Top.path, name)) = None
  BY DEF EndOfDir, Return, CheckBefore, CallInv, Streams
<1>2. Entries(record, <<>>)' = Entries(record, <<>>)
  BY <1>1
<1>3. ASSUME Len(stack) = 1 PROVE Entries(record, <<>>) = {}
  <2> SUFFICES ASSUME NEW q \in Entries(record, <<>>) PROVE FALSE
    OBVIOUS
  <2>1. Root = Top /\ Root.path = <<>> /\ Last(q) \in Root.left
    BY <1>1, <1>3, InRoot DEF AtHand
  <2>2. q = <<Last(q)>> /\ Exists(record, q) /\ q # None
    BY RootEntries, PathFacts DEF CheckBefore, CallInv, CallTypes
  <2>3. Entry(record, <<Last(q)>>) = <<Last(q)>>
    BY <2>2, EntryInRoot
  <2>4. Append(Top.path, Last(q)) = <<Last(q)>>
    BY <2>1
  <2>. QED
    BY <1>1, <2>1, <2>2, <2>3, <2>4
<1>. QED
  BY <1>1, <1>2, <1>3, LoopEnds

LEMMA SubFailedEmptying == CheckBefore /\ healthy /\ SubFailed => Emptying'
<1> SUFFICES ASSUME CheckBefore, healthy, SubFailed PROVE Emptying'
  OBVIOUS
<1>1. /\ stack # <<>> /\ stack' = Front(stack) /\ pc' = "return" /\ ~ret'
      /\ UNCHANGED <<healthy, record>>
  BY DEF SubFailed
<1>2. Entries(record, <<>>)' = Entries(record, <<>>)
  BY <1>1
<1>. QED
  BY <1>1, <1>2, LoopEnds

LEMMA SubFileGoneEmptying == CheckBefore /\ healthy /\ SubFileGone => Emptying'
<1> SUFFICES ASSUME CheckBefore, healthy, SubFileGone PROVE Emptying'
  OBVIOUS
<1>1. /\ pc = "return" /\ stack # <<>> /\ ret /\ Top.subpathIsFile /\ pc' = "loop"
      /\ UNCHANGED <<healthy, record, stack>>
  BY DEF SubFileGone
<1>2. Entries(record, <<>>)' = Entries(record, <<>>)
  BY <1>1
<1>3. CASE Len(stack) = 1
  <2>1. /\ Root = Top /\ Root.path = <<>>
        /\ \A q \in Entries(record, <<>>) : Last(q) \in Root.left \/ AtHand(q)
    BY <1>3, InRoot
  <2>2. \A q : ~AtHand(q)
    BY <1>1, <1>3, <2>1 DEF AtHand
  <2>3. Root' = Root
    BY <1>1 DEF Root
  <2>4. \A q \in Entries(record, <<>>)' : Last(q) \in Root'.left \/ AtHand(q)'
    BY <1>2, <2>1, <2>2, <2>3
  <2>. QED
    BY <1>1, <1>3, <2>1, <2>3, <2>4, AtRoot
<1>4. CASE Len(stack) > 1
  BY <1>1, <1>2, <1>4, StackSizes, BelowRoot DEF CheckBefore
<1>. QED
  BY <1>1, <1>3, <1>4, StackSizes DEF CheckBefore

LEMMA RemoveSubdirEmptying == CheckBefore /\ healthy /\ RemoveSubdir => Emptying'
<1> SUFFICES ASSUME CheckBefore, healthy, RemoveSubdir PROVE Emptying'
  OBVIOUS
<1>1. pc = "return" /\ stack # <<>> /\ ret /\ UNCHANGED <<healthy, replay>>
  BY DEF RemoveSubdir
<1>2. Entries(record, <<>>)' \subseteq Entries(record, <<>>)
  <2>1. Deleted(Entry(record, Top.sub))
    BY DeletionSteps
  <2>. QED
    BY <1>1, <2>1, DeletedNested DEF CheckBefore
<1>3. CASE stack' = Front(stack) /\ Return(FALSE)
  BY <1>1, <1>2, <1>3, LoopEnds DEF Return
<1>4. CASE /\ CanRmdir(Top.sub) /\ Removed(Entry(record, Top.sub))
           /\ pc' = "loop" /\ UNCHANGED <<ret, stack>>
  <2>1. CASE Len(stack) = 1
    <3>1. /\ Root = Top /\ Root.path = <<>> /\ Root' = Root
          /\ \A q \in Entries(record, <<>>) : Last(q) \in Root.left \/ AtHand(q)
      BY <1>4, <2>1, InRoot DEF Root
    <3>2. PICK name \in AllNames : Top.sub = <<name>>
      BY <1>1, <2>1, <3>1, InRoot
    <3>3. <<name>> \notin Entries(record, <<>>)'
      BY <1>4, <3>2, RemovedFromRoot DEF CanRmdir
    <3>4. \A q : AtHand(q) => q = <<name>>
      BY <3>1, <3>2 DEF AtHand
    <3>5. \A q \in Entries(record, <<>>)' : Last(q) \in Root'.left \/ AtHand(q)'
      BY <1>2, <3>1, <3>3, <3>4
    <3>. QED
      BY <1>1, <1>4, <2>1, <3>1, <3>5, AtRoot
  <2>2. CASE Len(stack) > 1
    BY <1>1, <1>2, <1>4, <2>2, StackSizes, BelowRoot DEF CheckBefore
  <2>. QED
    BY <1>1, <2>1, <2>2, StackSizes DEF CheckBefore
<1>. QED
  BY <1>3, <1>4 DEF RemoveSubdir

LEMMA EmptyingStep == CheckBefore /\ [Next]_vars => Emptying'
<1> SUFFICES ASSUME CheckBefore, [Next]_vars PROVE Emptying'
  OBVIOUS
<1>1. healthy' = healthy
  BY DEF Next, deleteFiles, Mount, Compare, CompareThrows, MakeFiles, SanityEnds, Tally, DeleteRoot, DeleteFile,
         DeleteEmptyDir, DeleteDir, NextEntry, EndOfDir, SubFailed, SubFileGone,
         RemoveSubdir, vars
<1>2. CASE ~healthy
  BY <1>1, <1>2 DEF Emptying
<1>3. CASE healthy /\ UNCHANGED vars
  BY <1>3 DEF vars, CheckBefore, Emptying, Root, AtHand, isFile
<1>4. CASE healthy /\ Next
  BY <1>4, BeforeAndAfter, DeleteRootEmptying, DeleteFileEmptying, DeleteEmptyDirEmptying,
     DeleteDirEmptying, NextEntryEmptying, EndOfDirEmptying, SubFailedEmptying,
     SubFileGoneEmptying, RemoveSubdirEmptying, Zenon DEF Next, deleteFiles
<1>. QED
  BY <1>2, <1>3, <1>4
-----------------------------------------------------------------------------
(* What is compared *)

LEMMA AllPathsFinite == IsFiniteSet(AllPaths)
<1> DEFINE Dummies == {Append(p, Dummy) : p \in Paths}
<1>1. IsFiniteSet(Paths)
  BY CheckerAssumption
<1>2. IsFiniteSet(Dummies)
  <2> DEFINE f == [p \in Paths |-> Append(p, Dummy)]
  <2>1. f \in Surjection(Paths, Dummies)
    BY DEF Surjection
  <2> HIDE DEF Dummies, f
  <2>. QED
    BY <1>1, <2>1, FS_Surjection
<1>. QED
  BY <1>1, <1>2, FS_Union DEF AllPaths

\* check_disk_and_snapshot_contents counts the entries and looks each of one map up in
\* the other: that is enough.
LEMMA CompareExact ==
    ASSUME NEW t1, NEW t2
    PROVE  compare_disk_contents(Contents(t1), Contents(t2)) <=>
               /\ DOMAIN NoDangling(t1) = DOMAIN NoDangling(t2)
               /\ \A p \in DOMAIN NoDangling(t1) : Alike(NoDangling(t1)[p], NoDangling(t2)[p])
<1> DEFINE D1 == {q \in AllPaths : Exists(t1, q) /\ Target(t1, q) # None}
           D2 == {q \in AllPaths : Exists(t2, q) /\ Target(t2, q) # None}
<1>1. /\ DOMAIN Contents(t1) = D1 /\ DOMAIN Contents(t2) = D2
      /\ DOMAIN NoDangling(t1) = D1 /\ DOMAIN NoDangling(t2) = D2
      /\ D1 \subseteq AllPaths /\ D2 \subseteq AllPaths
  BY DEF Contents, NoDangling
<1>2. \A p \in D1 : NoDangling(t1)[p] = t1[p]
  BY DEF NoDangling
<1>3. \A p \in D2 : NoDangling(t2)[p] = t2[p]
  BY DEF NoDangling
<1>4. \A p \in D1 : Contents(t1)[p] = [kind |-> t1[p].kind, attr |-> t1[p].attr,
                                       data |-> IF t1[p].kind = "file" THEN t1[p].data ELSE <<>>]
  BY DEF Contents
<1>5. \A p \in D2 : Contents(t2)[p] = [kind |-> t2[p].kind, attr |-> t2[p].attr,
                                       data |-> IF t2[p].kind = "file" THEN t2[p].data ELSE <<>>]
  BY DEF Contents
<1> HIDE DEF D1, D2
<1>6. \A p \in D1 \cap D2 : Contents(t1)[p] = Contents(t2)[p] <=>
                            Alike(NoDangling(t1)[p], NoDangling(t2)[p])
  <2> TAKE p \in D1 \cap D2
  <2>1. Alike(NoDangling(t1)[p], NoDangling(t2)[p]) <=>
            /\ t1[p].kind = t2[p].kind /\ t1[p].attr = t2[p].attr
            /\ t1[p].kind = "file" => t1[p].data = t2[p].data
    BY <1>2, <1>3 DEF Alike
  <2>2. /\ Contents(t1)[p] = [kind |-> t1[p].kind, attr |-> t1[p].attr,
                              data |-> IF t1[p].kind = "file" THEN t1[p].data ELSE <<>>]
        /\ Contents(t2)[p] = [kind |-> t2[p].kind, attr |-> t2[p].attr,
                              data |-> IF t2[p].kind = "file" THEN t2[p].data ELSE <<>>]
    BY <1>4, <1>5
  <2>. QED
    BY <2>1, <2>2
<1>7. IsFiniteSet(D1) /\ IsFiniteSet(D2)
  BY <1>1, AllPathsFinite, FS_Subset
<1>8. D1 \subseteq D2 /\ Cardinality(D1) = Cardinality(D2) <=> D1 = D2
  BY <1>7, FS_Subset
<1>9. compare_disk_contents(Contents(t1), Contents(t2)) <=>
          /\ Cardinality(D1) = Cardinality(D2)
          /\ \A p \in D1 : p \in D2 /\ Contents(t1)[p] = Contents(t2)[p]
  BY <1>1 DEF compare_disk_contents
<1>. QED
  BY <1>1, <1>6, <1>8, <1>9

\* The walk leads to a file: the node is the one that is stored there.
LEMMA InsideFileFacts ==
    ASSUME NEW t \in [AllPaths -> NodeType], mod.loc \in Nat, mod.len \in Nat, InsideFile(t)
    PROVE  LET p == Target(t, mod.path)
           IN  /\ p # None /\ Node(t, p) = t[p] /\ t[p].data \in Seq(Byte)
               /\ mod.loc + mod.len <= Len(t[p].data)
               /\ \A i \in 1..mod.len : t[p].data[mod.loc + i] # 0
<1> DEFINE p == Target(t, mod.path)
<1>1. /\ p # None /\ Node(t, p).kind = "file"
      /\ mod.loc + mod.len <= Len(t[p].data) /\ \A i \in 1..mod.len : t[p].data[mod.loc + i] # 0
  BY DEF InsideFile
<1> HIDE DEF p
<1>2. p \in AllPaths /\ Node(t, p) = t[p]
  BY <1>1 DEF Node, NoNode
<1>3. t[p].data \in Seq(Byte)
  BY <1>2 DEF NodeType
<1>. QED
  BY <1>1, <1>2, <1>3 DEF p

\* A number that fits is not changed by becoming an int.
LEMMA IntUnchanged ==
    ASSUME NEW n \in Nat, n <= IntMax PROVE ToInt(n) = n
<1>1. IntMax \in Nat \ {0}
  BY CheckerAssumption
<1>2. n % (2 * (IntMax + 1)) = n
  <2>1. PICK w \in Nat : w = 2 * (IntMax + 1) /\ n < w /\ w > 0
    BY <1>1
  <2>2. n % w = n
    BY <2>1
  <2>. QED
    BY <2>1, <2>2
<1>. QED
  BY <1>1, <1>2 DEF ToInt

\* The bytes of the file in the range.
LEMMA SegmentBytes ==
    ASSUME NEW d \in Seq(Byte), NEW loc \in Nat, NEW len \in Nat, loc + len <= Len(d)
    PROVE  LET s == SubSeq(d, loc + 1, loc + len)
           IN  s \in [1..len -> Byte] /\ DOMAIN s = 1..len /\ \A i \in 1..len : s[i] = d[loc + i]
<1> DEFINE s == SubSeq(d, loc + 1, loc + len)
<1>1. \A i \in 1..len : loc + i \in 1..Len(d)
  OBVIOUS
<1>2. s \in Seq(Byte) /\ Len(s) = len /\ \A i \in 1..len : s[i] = d[loc + i]
  OBVIOUS
<1> HIDE DEF s
<1>3. DOMAIN s = 1..len /\ s \in [1..len -> Byte]
  BY <1>2
<1> USE DEF s
<1>. QED
  BY ONLY <1>2, <1>3, Zenon

\* A buffer that lies within the file holds its bytes.
LEMMA BufferIsSegment ==
    ASSUME NEW d \in Seq(Byte), NEW loc \in Nat, NEW len \in Nat, loc + len <= Len(d)
    PROVE  \A b : b \in Buffers(d, loc, len) <=> b = SubSeq(d, loc + 1, loc + len)
<1> DEFINE s == SubSeq(d, loc + 1, loc + len)
<1>1. s \in [1..len -> Byte] /\ \A i \in 1..len : s[i] = d[loc + i]
  BY SegmentBytes
<1> HIDE DEF s
<1>2. \A i \in 1..len : loc >= 0 /\ loc + i <= Len(d)
  OBVIOUS
<1>3. ASSUME NEW b \in Buffers(d, loc, len) PROVE b = s
  BY <1>1, <1>2, <1>3, SMTT(30) DEF Buffers
<1>4. s \in Buffers(d, loc, len)
  BY <1>1 DEF Buffers
<1>. QED
  BY <1>3, <1>4 DEF s

\* Without a zero byte in the range, strcmp sees all of it.
LEMMA SegmentIsWhole ==
    ASSUME NEW d \in Seq(Byte), NEW loc \in Nat, NEW len \in Nat, loc + len <= Len(d),
           \A i \in 1..len : d[loc + i] # 0
    PROVE  CString(SubSeq(d, loc + 1, loc + len)) = SubSeq(d, loc + 1, loc + len)
<1> DEFINE s == SubSeq(d, loc + 1, loc + len)
<1>1. DOMAIN s = 1..len /\ \A i \in 1..len : s[i] = d[loc + i]
  BY SegmentBytes
<1> HIDE DEF s
<1>2. \A i \in DOMAIN s : s[i] # 0
  BY <1>1
<1>3. CString(s) = s
  BY <1>2 DEF CString
<1>. QED
  BY <1>3 DEF s

LEMMA InitCheckInv == Init => CheckInv
BY InitCallInv, InitTrees, InitEmptying DEF CheckInv

LEMMA CallStep == CallInv /\ [Next]_vars => CallInv'
BY MountStep, CompareStep, CompareThrowsStep, MakeFilesStep, DeleteRootStep, DeleteFileStep,
   DeleteEmptyDirStep, DeleteDirStep, NextEntryStep, EndOfDirStep, SubFailedStep,
   SubFileGoneStep, RemoveSubdirStep, SanityEndsStep, TallyStep, StutterStep
   DEF Next, deleteFiles

LEMMA CheckStep == CheckInv /\ [Next]_vars => CheckInv'
BY CallStep, NestedStep, ComparedStep, EmptyingStep DEF CheckInv, CheckBefore

\* A comparison is the one step that leaves "compare", unless it throws.
LEMMA ComparingStep ==
    ASSUME [Next]_vars, ~UNCHANGED vars, pc = "compare", healthy,
           mod.type # "data" \/ ~Throws(ToInt(mod.len))
    PROVE  /\ mod.type = "sync" =>
                  equal' = compare_disk_contents(Contents(record), Contents(replay))
           /\ mod.type = "data" =>
                  equal' \in compare_file_contents(mod.path, mod.loc, mod.len)
<1>1. Compare
  BY DEF Next, deleteFiles, Mount, MakeFiles, SanityEnds, Tally, DeleteRoot, DeleteFile,
         DeleteEmptyDir, DeleteDir, NextEntry, EndOfDir, SubFailed, SubFileGone, RemoveSubdir, CompareThrows
<1>. QED
  BY <1>1 DEF Compare

\* A modification that fits is read as it is.
LEMMA FitsFacts ==
    ASSUME FitsInt, mod.loc \in Nat, mod.len \in Nat
    PROVE  ToInt(mod.loc) = mod.loc /\ ToInt(mod.len) = mod.len /\ ~Throws(mod.len)
<1>1. mod.loc <= IntMax /\ mod.len < IntMax /\ IntMax \in Nat
  BY CheckerAssumption DEF FitsInt
<1>. QED
  BY <1>1, IntUnchanged DEF Throws

\* Read and compared with strcmp, the range says what its bytes say.
LEMMA RangeExact ==
    ASSUME CheckInv, pc = "compare", mod.type = "data", FitsInt,
           InsideFile(record), InsideFile(replay),
           NEW res \in compare_file_contents(mod.path, mod.loc, mod.len)
    PROVE  res <=> Segment(record) = Segment(replay)
<1> DEFINE a == Target(record, mod.path)
           b == Target(replay, mod.path)
           d == record[a].data
           e == replay[b].data
           s == SubSeq(d, mod.loc + 1, mod.loc + mod.len)
           t == SubSeq(e, mod.loc + 1, mod.loc + mod.len)
<1>1. /\ record \in [AllPaths -> NodeType] /\ replay \in [AllPaths -> NodeType]
      /\ mod.loc \in Nat /\ mod.len \in Nat
  BY DEF CheckInv, Compared
<1>2. /\ a # None /\ Node(record, a) = record[a] /\ d \in Seq(Byte)
      /\ mod.loc + mod.len <= Len(d) /\ \A i \in 1..mod.len : d[mod.loc + i] # 0
  BY <1>1, InsideFileFacts
<1>3. /\ b # None /\ Node(replay, b) = replay[b] /\ e \in Seq(Byte)
      /\ mod.loc + mod.len <= Len(e) /\ \A i \in 1..mod.len : e[mod.loc + i] # 0
  BY <1>1, InsideFileFacts
<1>ints. ToInt(mod.loc) = mod.loc /\ ToInt(mod.len) = mod.len /\ ~Throws(mod.len)
  BY <1>1, FitsFacts
<1>4. \E b1 \in Buffers(d, mod.loc, mod.len), b2 \in Buffers(e, mod.loc, mod.len) :
          res = (CString(b1) = CString(b2))
  <2>1. compare_file_contents(mod.path, mod.loc, mod.len) =
          IF a = None \/ b = None THEN {FALSE}
          ELSE StrcmpResults(Node(record, a).data, Node(replay, b).data,
                             ToInt(mod.loc), ToInt(mod.len))
    BY Zenon DEF compare_file_contents
  <2>2. a # None /\ b # None /\ Node(record, a).data = d /\ Node(replay, b).data = e
    BY <1>2, <1>3
  <2> HIDE DEF a, b, d, e, s, t
  <2>3. res \in StrcmpResults(d, e, mod.loc, mod.len)
    BY <2>1, <2>2, <1>ints, Zenon
  <2>. QED
    BY <2>3, <1>ints, Zenon DEF StrcmpResults
<1>5. Segment(record) = s /\ Segment(replay) = t
  BY DEF Segment
<1> HIDE DEF a, b, d, e
<1>6. PICK l \in Nat, n \in Nat : l = mod.loc /\ n = mod.len
  BY <1>1
<1>7. s = SubSeq(d, l + 1, l + n) /\ t = SubSeq(e, l + 1, l + n)
  BY <1>6
<1> HIDE DEF s, t
<1>8. /\ d \in Seq(Byte) /\ l + n <= Len(d) /\ \A i \in 1..n : d[l + i] # 0
      /\ e \in Seq(Byte) /\ l + n <= Len(e) /\ \A i \in 1..n : e[l + i] # 0
  BY <1>2, <1>3, <1>6
<1>9. /\ \A c : c \in Buffers(d, mod.loc, mod.len) <=> c = s
      /\ \A c : c \in Buffers(e, mod.loc, mod.len) <=> c = t
      /\ CString(s) = s /\ CString(t) = t
  <2>1. /\ \A c : c \in Buffers(d, l, n) <=> c = SubSeq(d, l + 1, l + n)
        /\ CString(SubSeq(d, l + 1, l + n)) = SubSeq(d, l + 1, l + n)
    BY <1>8, BufferIsSegment, SegmentIsWhole, ZenonT(60)
  <2>2. /\ \A c : c \in Buffers(e, l, n) <=> c = SubSeq(e, l + 1, l + n)
        /\ CString(SubSeq(e, l + 1, l + n)) = SubSeq(e, l + 1, l + n)
    BY <1>8, BufferIsSegment, SegmentIsWhole
  <2>. QED
    BY <2>1, <2>2, <1>6, <1>7
<1>10. res = (s = t)
  BY <1>4, <1>9
<1>. QED
  BY <1>5, <1>10
-----------------------------------------------------------------------------
(* Theorems *)

\* Each open stream belongs to a call of deleteFiles in its loop, and a failure
\* adds at most one, for any trees and whichever calls fail.
THEOREM StreamsInvariance == Spec => []CallInv
BY CallStep, InitCallInv, PTL DEF Spec

\* A passed test has closed every directory, a failed one leaves at most one
\* open.
THEOREM StreamsClosedHolds == Spec => []StreamsClosed
<1>1. CallInv => StreamsClosed
  BY DEF CallInv, CallTypes, Streams, Verdict, StreamsClosed
<1>. QED
  BY <1>1, StreamsInvariance, PTL

\* A check takes the one step that Harness makes of it: every step but the last
\* is a stutter of CheckOutcome, the last an outcome.
THEOREM RefinesOutcome ==
    Spec => Outcome!Init /\ [][Outcome!Outcome]_(Outcome!vars)
<1> USE DEF Outcome!Init, Outcome!Outcome, Outcome!vars
<1>1. Init => Outcome!Init
  BY DEF Init
<1>2. CallInv /\ [Next]_vars => [Outcome!Outcome]_(Outcome!vars)
  <2> SUFFICES ASSUME CallInv, [Next]_vars
               PROVE  [Outcome!Outcome]_(Outcome!vars)
    OBVIOUS
  <2> USE DEF CallInv, CallTypes, Streams, Verdict
  <2>1. CASE Mount
    BY <2>1 DEF Mount
  <2>2. CASE Tally
    <3>1. /\ pc = "tally" /\ pc' = "done" /\ tally = "none" /\ open' = open
          /\ tally' = IF equal /\ ret THEN "passed" ELSE "failed"
      BY <2>2 DEF Tally
    <3>2. tally' = "passed" => ~(open' > 0)
      BY <3>1
    <3>. QED
      BY <3>1, <3>2
  <2>5. CASE CompareThrows
    <3>1. pc = "compare" /\ pc' = "done" /\ tally' = "none" /\ open' = 0
      BY <2>5 DEF CompareThrows
    <3>. QED
      BY <3>1
  <2>3. CASE Compare \/ MakeFiles \/ deleteFiles \/ SanityEnds
    <3>1. pc # "done" /\ pc' # "done" /\ tally' = tally
      BY <2>3 DEF Compare, MakeFiles, deleteFiles, SanityEnds, DeleteRoot, DeleteFile,
         DeleteEmptyDir, DeleteDir, NextEntry, EndOfDir, SubFailed, SubFileGone,
         RemoveSubdir, Return
    <3>. QED
      BY <3>1
  <2>4. CASE UNCHANGED vars
    BY <2>4 DEF vars
  <2>. QED
    BY <2>1, <2>2, <2>3, <2>4, <2>5 DEF Next
<1>. QED
  BY <1>1, <1>2, StreamsInvariance, PTL DEF Spec

\* The invariant of a whole check: the calls and their streams, the trees, which stay
\* trees, and what is left in the root while it is emptied.
THEOREM CheckInvariance == Spec => []CheckInv
BY InitCheckInv, CheckStep, PTL DEF Spec

\* Every variable of the check keeps its type, and whatever fails, makeFiles and
\* deleteFiles leave no entry without the directory above it.
THEOREM CheckTypeCorrect == Spec => []TypeOK
<1>1. CheckInv => TypeOK
  <2> SUFFICES ASSUME CheckInv PROVE TypeOK
    OBVIOUS
  <2>1. Len(stack) \in Nat
    BY StackSizes DEF CheckInv
  <2>2. open \in 0..Len(stack) + 1
    BY <2>1 DEF CheckInv, CallInv, CallTypes, Streams
  <2>. QED
    BY <2>2 DEF CheckInv, CallInv, CallTypes, Verdict, Nested, TypeOK
<1>. QED
  BY <1>1, CheckInvariance, PTL

\* Where no call fails, a test only passes when deleteFiles has emptied the record
\* device, for any tree, also with symbolic links.
THEOREM PassedHasEmptied == Spec => []PassedMeansEmptied
<1>1. CheckInv => PassedMeansEmptied
  <2> SUFFICES ASSUME CheckInv, tally = "passed", healthy PROVE Entries(record, <<>>) = {}
    BY DEF PassedMeansEmptied
  <2>1. pc = "done" /\ ret /\ stack = <<>>
    BY DEF CheckInv, CallInv, Verdict, Streams
  <2>. QED
    BY <2>1 DEF CheckInv, Emptying
<1>. QED
  BY <1>1, CheckInvariance, PTL

\* The comparison after a sync is exact, for trees of any size: counting the entries
\* and looking up one side's in the other's leaves nothing out.
THEOREM SyncIsExact == Spec => SyncComparesTrees
<1> DEFINE Exact == pc = "compare" /\ healthy /\ mod.type = "sync" =>
                       (equal' <=> LET t1 == NoDangling(record)
                                       t2 == NoDangling(replay)
                                   IN  /\ DOMAIN t1 = DOMAIN t2
                                       /\ \A p \in DOMAIN t1 : Alike(t1[p], t2[p]))
<1>1. [Next]_vars => [Exact]_vars
  <2> SUFFICES ASSUME [Next]_vars, ~UNCHANGED vars, pc = "compare", healthy, mod.type = "sync"
               PROVE  equal' <=> /\ DOMAIN NoDangling(record) = DOMAIN NoDangling(replay)
                                 /\ \A p \in DOMAIN NoDangling(record) :
                                       Alike(NoDangling(record)[p], NoDangling(replay)[p])
    OBVIOUS
  <2>1. equal' = compare_disk_contents(Contents(record), Contents(replay))
    BY ComparingStep
  <2>. QED
    BY <2>1, CompareExact
<1>. QED
  BY <1>1, PTL DEF Spec, SyncComparesTrees

\* The comparison after fdatasync is that of the bytes of the modification, for files
\* of any length that have them and hold no zero byte among them, when the
\* modification fits an int.
THEOREM FdatasyncIsExact == Spec => DataComparesRange
<1> DEFINE Exact == pc = "compare" /\ healthy /\ mod.type = "data" /\ FitsInt
                    /\ InsideFile(record) /\ InsideFile(replay) =>
                       (equal' <=> Segment(record) = Segment(replay))
<1>1. CheckInv /\ [Next]_vars => [Exact]_vars
  <2> SUFFICES ASSUME CheckInv, [Next]_vars, ~UNCHANGED vars, pc = "compare", healthy,
                      mod.type = "data", FitsInt, InsideFile(record), InsideFile(replay)
               PROVE  equal' <=> Segment(record) = Segment(replay)
    OBVIOUS
  <2>1. ~Throws(ToInt(mod.len))
    BY FitsFacts DEF CheckInv, Compared
  <2>2. equal' \in compare_file_contents(mod.path, mod.loc, mod.len)
    BY <2>1, ComparingStep
  <2>. QED
    BY <2>2, RangeExact
<1>. QED
  BY <1>1, CheckInvariance, PTL DEF Spec, DataComparesRange
=============================================================================
