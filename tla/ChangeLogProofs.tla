-------------------------- MODULE ChangeLogProofs --------------------------
(***************************************************************************)
(* LogInv is an invariant of ChangeLog, and with it its properties, for    *)
(* any set of DiskMods and logs of any length.  The argument has two parts *)
(* that do not meet: where the blocks of the log lie in the file (Placed), *)
(* so that the parent's next chunk is the next block or is cut short, and  *)
(* what adding one DiskMod does to the segments (AddModCuts).              *)
(***************************************************************************)
EXTENDS ChangeLog, WellFoundedInduction, SequenceTheorems, TLAPS
-----------------------------------------------------------------------------
(* DiskMods and their blocks *)

\* A set of numbers that is not empty holds its minimum.
LEMMA MinIsIn ==
    ASSUME NEW S, S \subseteq Nat, S # {}
    PROVE  Min(S) \in S
<1> DEFINE R == OpToRel(<, Nat)
<1>1. \A m, n \in Nat : m < n => <<m, n>> \in R
  BY DEF OpToRel
<1>2. \E x \in S : \A y \in S : ~(<<y, x>> \in R)
  BY NatLessThanWellFounded, WFMin, Zenon
<1>3. \E x \in S : \A y \in S : x <= y
  <2> HIDE DEF R
  <2>1. PICK x \in S : \A y \in S : ~(<<y, x>> \in R)
    BY <1>2
  <2>2. ASSUME NEW y \in S PROVE x <= y
    <3>1. x \in Nat /\ y \in Nat /\ ~(<<y, x>> \in R)
      BY <2>1
    <3>2. ~(y < x)
      BY <3>1, <1>1
    <3>. QED
      BY <3>1, <3>2
  <2>. QED
    BY <2>2
<1>. QED
  BY <1>3 DEF Min

LEMMA ConcatFacts ==
    ASSUME NEW S, NEW s \in Seq(S), NEW t \in Seq(S)
    PROVE  /\ s \o t \in Seq(S) /\ Len(s \o t) = Len(s) + Len(t)
           /\ \A i \in 1..Len(s) : (s \o t)[i] = s[i]
           /\ \A i \in 1..Len(t) : (s \o t)[Len(s) + i] = t[i]
OBVIOUS

\* The parts of a block: it fits the layout, and begins with the size word.
LEMMA LayoutFacts ==
    ASSUME NEW m \in Mods
    PROVE  /\ GetSerializeSize(m) \in Nat /\ GetSerializeSize(m) >= 3
           /\ Layout(m) \in Seq(Parts) /\ Len(Layout(m)) >= GetSerializeSize(m)
           /\ Layout(m)[1] = "hi"
<1>1. m.len \in Nat /\ m.type \in Types
  BY ModsAssumption DEF DiskMod
<1>2. GetSerializeSize(m) \in Nat /\ GetSerializeSize(m) >= 3
  BY <1>1 DEF GetSerializeSize, Types
<1> DEFINE tail == IF m.type \in {"checkpoint", "sync"} THEN <<>>
                   ELSE IF m.type \in {"fsync", "create"} THEN ChangeHeader
                   ELSE IF NoData(m) THEN ChangeHeader \o FileRange
                   ELSE ChangeHeader \o FileRange \o Data(m.len)
<1>3. Data(m.len) \in Seq(Parts) /\ Len(Data(m.len)) = m.len
  BY <1>1 DEF Data, Parts
<1>4. ChangeHeader \in Seq(Parts) /\ Len(ChangeHeader) = 1
  BY DEF ChangeHeader, Parts
<1>5. /\ ChangeHeader \o FileRange \in Seq(Parts)
      /\ Len(ChangeHeader \o FileRange) = 3
  BY DEF ChangeHeader, FileRange, Parts
<1>6. /\ ChangeHeader \o FileRange \o Data(m.len) \in Seq(Parts)
      /\ Len(ChangeHeader \o FileRange \o Data(m.len)) = 3 + m.len
  <2> DEFINE front == ChangeHeader \o FileRange
             back  == Data(m.len)
  <2> HIDE DEF tail, front, back
  <2>1. front \in Seq(Parts) /\ Len(front) = 3
    BY <1>5 DEF front
  <2>2. back \in Seq(Parts) /\ Len(back) = m.len
    BY <1>3 DEF back
  <2>3. front \o back \in Seq(Parts) /\ Len(front \o back) = Len(front) + Len(back)
    BY <2>1, <2>2, ConcatFacts, Zenon
  <2>4. front \o back \in Seq(Parts) /\ Len(front \o back) = 3 + m.len
    BY <2>1, <2>2, <2>3
  <2>. QED
    BY <2>4 DEF front, back
<1>7. tail \in Seq(Parts) /\ Len(tail) + 3 >= GetSerializeSize(m)
  <2>1. CASE m.type \in {"checkpoint", "sync"}
    BY <2>1 DEF GetSerializeSize
  <2>2. CASE m.type \in {"fsync", "create"}
    <3>1. tail = ChangeHeader
      BY <2>2
    <3>2. GetSerializeSize(m) = 4
      BY <2>2 DEF GetSerializeSize
    <3> HIDE DEF tail
    <3>. QED
      BY <3>1, <3>2, <1>4
  <2>3. CASE NoData(m) /\ m.type \notin {"checkpoint", "sync", "fsync", "create"}
    <3>1. tail = ChangeHeader \o FileRange
      BY <2>3
    <3>2. GetSerializeSize(m) <= 6
      BY <2>3 DEF GetSerializeSize
    <3> HIDE DEF tail
    <3>. QED
      BY <3>1, <3>2, <1>2, <1>5
  <2>4. CASE ~NoData(m) /\ m.type \notin {"checkpoint", "sync", "fsync", "create"}
    <3>1. tail = ChangeHeader \o FileRange \o Data(m.len)
      BY <2>4
    <3>2. GetSerializeSize(m) <= 6 + m.len
      BY <2>4, <1>1 DEF GetSerializeSize
    <3> HIDE DEF tail
    <3>. QED
      BY <3>1, <3>2, <1>2, <1>6, <1>1
  <2>. QED
    BY <2>1, <2>2, <2>3, <2>4
<1>8. Layout(m) = (SizeWord \o Header) \o tail
  BY DEF Layout
<1>9. /\ SizeWord \o Header \in Seq(Parts) /\ Len(SizeWord \o Header) = 3
      /\ (SizeWord \o Header)[1] = "hi"
  BY DEF SizeWord, Header, Parts
<1>10. /\ Layout(m) \in Seq(Parts) /\ Len(Layout(m)) = 3 + Len(tail)
       /\ Layout(m)[1] = "hi"
  <2> DEFINE front == SizeWord \o Header
  <2> HIDE DEF tail, front
  <2>1. front \in Seq(Parts) /\ Len(front) = 3 /\ front[1] = "hi"
    BY <1>9 DEF front
  <2>2. tail \in Seq(Parts)
    BY <1>7
  <2>3. /\ front \o tail \in Seq(Parts) /\ Len(front \o tail) = Len(front) + Len(tail)
        /\ \A i \in 1..Len(front) : (front \o tail)[i] = front[i]
    BY <2>1, <2>2, ConcatFacts, ZenonT(60)
  <2>4. 1 \in 1..Len(front)
    BY <2>1
  <2>. QED
    BY <1>8, <2>1, <2>3, <2>4 DEF front
<1>11. Len(tail) \in Nat
  BY <1>7 DEF tail
<1>. QED
  BY <1>2, <1>7, <1>10, <1>11

\* Every cell of a block knows its DiskMod.
LEMMA BlockFacts ==
    ASSUME NEW m \in Mods
    PROVE  /\ Block(m) \in Seq(Cell) /\ Len(Block(m)) = GetSerializeSize(m)
           /\ \A k \in 1..GetSerializeSize(m) : Block(m)[k].of = m
           /\ Block(m)[1].part = "hi"
<1>1. \A k \in 1..GetSerializeSize(m) : Layout(m)[k] \in Parts
  BY LayoutFacts
<1>2. GetSerializeSize(m) \in Nat /\ GetSerializeSize(m) >= 3 /\ Layout(m)[1] = "hi"
  BY LayoutFacts
<1>3. \A f : \A n \in Nat : (\A k \in 1..n : f[k] \in Parts) =>
        [k \in 1..n |-> [part |-> f[k], of |-> m]] \in Seq(Cell)
  BY DEF Cell
<1>4. Block(m) \in Seq(Cell)
  BY <1>1, <1>2, <1>3 DEF Block
<1>5. Len(Block(m)) = GetSerializeSize(m)
  BY <1>2 DEF Block
<1>6. \A k \in 1..GetSerializeSize(m) : Block(m)[k].of = m
  BY DEF Block
<1>7. Block(m)[1].part = "hi"
  BY <1>2 DEF Block
<1>. QED
  BY <1>4, <1>5, <1>6, <1>7

\* A block read as a DiskMod is the DiskMod it was made of, unless that is a
\* removal: then its length is that of whatever lies behind the block.
LEMMA DeserializeFacts ==
    ASSUME NEW m \in Mods, NEW junk \in Mods, NEW chunk \in Seq(Cell),
           Len(chunk) = GetSerializeSize(m),
           \A k \in 1..GetSerializeSize(m) : chunk[k].of = m
    PROVE  /\ Deserialize(chunk, junk) \in DiskMod
           /\ m.type # "remove" => Deserialize(chunk, junk) = m
<1> DEFINE field(i) == IF i <= Len(chunk) THEN chunk[i].of ELSE junk
<1>1. m \in DiskMod /\ junk \in DiskMod
  BY ModsAssumption
<1>2. GetSerializeSize(m) \in Nat /\ GetSerializeSize(m) >= 3
  BY LayoutFacts
<1>3. field(3) = m
  BY <1>2
<1>4. \A i \in 1..6 : field(i) \in {m, junk} /\ (i <= GetSerializeSize(m) => field(i) = m)
  BY <1>2
<1>5. m.path \in {x.path : x \in Mods} \cup {<<>>}
  BY <1>1 DEF DiskMod
<1>6. CASE m.type \in {"checkpoint", "sync"}
  <2>1. Deserialize(chunk, junk)
         = [type |-> m.type, opt |-> m.opt, path |-> <<>>, loc |-> 0, len |-> 0]
    BY <1>3, <1>6 DEF Deserialize
  <2>. QED
    BY <2>1, <1>1, <1>6, ModsAssumption DEF DiskMod
<1>7. CASE m.type \in {"fsync", "create"}
  <2>1. GetSerializeSize(m) = 4
    BY <1>7 DEF GetSerializeSize
  <2>2. field(4) = m
    BY <2>1, <1>4
  <2>3. Deserialize(chunk, junk)
         = [type |-> m.type, opt |-> m.opt, path |-> m.path, loc |-> 0, len |-> 0]
    BY <1>3, <1>7, <2>2 DEF Deserialize
  <2>. QED
    BY <2>3, <1>1, <1>7, ModsAssumption DEF DiskMod
<1>8. CASE m.type \notin {"checkpoint", "sync", "fsync", "create"}
  <2>1. GetSerializeSize(m) >= 4 /\ (m.type # "remove" => GetSerializeSize(m) >= 6)
    BY <1>8, <1>1 DEF GetSerializeSize, DiskMod
  <2>2. field(4) = m
    BY <2>1, <1>2, <1>4
  <2>3. field(5) \in DiskMod /\ field(6) \in DiskMod
    BY <1>1, <1>4
  <2>4. m.type # "remove" => field(5) = m /\ field(6) = m
    BY <2>1, <1>2, <1>4
  <2>5. Deserialize(chunk, junk)
         = [type |-> m.type, opt |-> m.opt, path |-> m.path,
            loc |-> field(5).loc, len |-> field(6).len]
    BY <1>3, <1>8, <2>2 DEF Deserialize
  <2> HIDE DEF field
  <2>. QED
    BY <2>3, <2>4, <2>5, <1>1 DEF DiskMod
<1>. QED
  BY <1>6, <1>7, <1>8
-----------------------------------------------------------------------------
(* Segments *)

Grown(s, x, t) ==
    /\ t # <<>> /\ Len(t) = Len(s) + 1 /\ t[Len(s) + 1] = x
    /\ \A i \in 1..Len(s) : t[i] = s[i]

LEMMA AppendFacts ==
    ASSUME NEW T, NEW s \in Seq(T), NEW x \in T
    PROVE  Append(s, x) \in Seq(T) /\ Grown(s, x, Append(s, x))
BY DEF Grown

LEMMA ReplaceFacts ==
    ASSUME NEW T, NEW s \in Seq(T), NEW x \in T, NEW n \in 1..Len(s)
    PROVE  /\ [s EXCEPT ![n] = x] \in Seq(T)
           /\ Len([s EXCEPT ![n] = x]) = Len(s) /\ [s EXCEPT ![n] = x][n] = x
           /\ \A i \in 1..Len(s) : i # n => [s EXCEPT ![n] = x][i] = s[i]
OBVIOUS

LEMMA SingleFacts ==
    ASSUME NEW T, NEW x \in T
    PROVE  <<x>> \in Seq(T) /\ <<x>> # <<>> /\ Len(<<x>>) = 1 /\ <<x>>[1] = x
OBVIOUS

LEMMA EmptyIsSeq == \A T : <<>> \in Seq(T)
OBVIOUS

LEMMA SubSeqFacts ==
    ASSUME NEW T, NEW s \in Seq(T), NEW m \in T, NEW a \in 1..(Len(s) + 1)
    PROVE  /\ \A b \in 0..Len(s) : SubSeq(Append(s, m), a, b) = SubSeq(s, a, b)
           /\ SubSeq(Append(s, m), a, Len(s) + 1) = Append(SubSeq(s, a, Len(s)), m)
<1>1. ASSUME NEW b \in 0..Len(s)
      PROVE  SubSeq(Append(s, m), a, b) = SubSeq(s, a, b)
  OBVIOUS
<1>2. SubSeq(Append(s, m), a, Len(s) + 1) = Append(SubSeq(s, a, Len(s)), m)
  OBVIOUS
<1>. QED
  BY <1>1, <1>2

LEMMA AddModFacts ==
    ASSUME NEW segs \in Seq(Seq(DiskMod)), NEW m \in DiskMod
    PROVE  /\ AddMod(segs, m) \in Seq(Seq(DiskMod))
           /\ Len(AddMod(segs, m)) <= Len(segs) + 1
<1>1. CASE m.type = "checkpoint"
  <2>1. AddMod(segs, m) = Append(segs, <<>>) /\ <<>> \in Seq(DiskMod)
    BY <1>1 DEF AddMod
  <2>. QED
    BY <2>1
<1>2. CASE m.type # "checkpoint" /\ segs = <<>>
  <2>1. AddMod(segs, m) = << <<m>> >> /\ <<m>> \in Seq(DiskMod)
    BY <1>2 DEF AddMod
  <2>. QED
    BY <2>1
<1>3. CASE m.type # "checkpoint" /\ segs # <<>>
  <2>1. AddMod(segs, m) = [segs EXCEPT ![Len(segs)] = Append(segs[Len(segs)], m)]
    BY <1>3 DEF AddMod
  <2>2. PICK n \in Nat : n = Len(segs)
    OBVIOUS
  <2>3. n \in 1..n
    BY <1>3, <2>2
  <2>4. segs[n] \in Seq(DiskMod)
    BY <2>2, <2>3
  <2>5. PICK last \in Seq(DiskMod) : last = Append(segs[n], m)
    BY <2>4, AppendFacts, Zenon
  <2>6. AddMod(segs, m) = [segs EXCEPT ![n] = last]
    BY <2>1, <2>2, <2>5
  <2>. QED
    BY <2>2, <2>3, <2>6
<1>. QED
  BY <1>1, <1>2, <1>3

\* The segments of a log are still its cut when the next DiskMod has been added
\* to both: the first DiskMod, and a later one.
LEMMA FirstModCuts ==
    ASSUME NEW m \in DiskMod
    PROVE  Cut(AddMod(<<>>, m), <<m>>)
<1>1. PICK t \in Seq(DiskMod) : t = <<m>>
  BY SingleFacts, Zenon
<1>2. Len(t) = 1 /\ t # <<>> /\ t[1] = m
  BY <1>1
<1>3. CASE m.type = "checkpoint"
  <2>1. PICK one \in Seq(Seq(DiskMod)) : one = << <<>> >>
    BY EmptyIsSeq, SingleFacts, Zenon
  <2>2. Len(one) = 1 /\ one # <<>> /\ one[1] = <<>> /\ Len(one[1]) = 0
    BY <2>1
  <2>3. AddMod(<<>>, m) = one
    BY <1>3, <2>1 DEF AddMod
  <2>4. PICK cut \in [1..1 -> 0..1] : cut[1] = 1
    <3>1. [k \in 1..1 |-> 1] \in [1..1 -> 0..1] /\ [k \in 1..1 |-> 1][1] = 1
      OBVIOUS
    <3>. QED
      BY <3>1, Zenon
  <2>5. EndOf(one, t, cut, 1) = 2
    BY <1>2, <2>2 DEF EndOf
  <2>6. SubSeq(t, 2, 1) = <<>>
    BY <1>2
  <2>7. \A k \in 1..1 : k = 1
    OBVIOUS
  <2>8. CutAt(one, t, cut)
    <3>1. \A i \in 1..Len(one[1]) : FALSE
      BY <2>2
    <3>2. one[1] = SubSeq(t, cut[1] + 1, EndOf(one, t, cut, 1) - 1)
      BY <2>2, <2>4, <2>5, <2>6
    <3>3. cut[1] < EndOf(one, t, cut, 1) /\ ~(1 > 1)
      BY <2>4, <2>5
    <3>. QED
      BY <1>2, <1>3, <2>2, <2>4, <2>7, <3>1, <3>2, <3>3 DEF CutAt
  <2>. QED
    BY <1>1, <1>2, <2>2, <2>3, <2>4, <2>8 DEF Cut
<1>4. CASE m.type # "checkpoint"
  <2>1. PICK one \in Seq(Seq(DiskMod)) : one = << <<m>> >>
    BY SingleFacts, Zenon
  <2>2. Len(one) = 1 /\ one # <<>> /\ one[1] = <<m>> /\ Len(one[1]) = 1 /\ one[1][1] = m
    BY <2>1
  <2>3. AddMod(<<>>, m) = one
    BY <1>4, <2>1 DEF AddMod
  <2>4. PICK cut \in [1..1 -> 0..1] : cut[1] = 0
    <3>1. [k \in 1..1 |-> 0] \in [1..1 -> 0..1] /\ [k \in 1..1 |-> 0][1] = 0
      OBVIOUS
    <3>. QED
      BY <3>1, Zenon
  <2>5. EndOf(one, t, cut, 1) = 2
    BY <1>2, <2>2 DEF EndOf
  <2>6. SubSeq(t, 1, 1) = <<m>>
    BY <1>1, <1>2, SubSeqFull
  <2>7. \A k \in 1..1 : k = 1
    OBVIOUS
  <2>8. CutAt(one, t, cut)
    <3>1. \A i \in 1..Len(one[1]) : one[1][i].type # "checkpoint"
      BY <1>4, <2>2
    <3>2. one[1] = SubSeq(t, cut[1] + 1, EndOf(one, t, cut, 1) - 1)
      <4>1. cut[1] + 1 = 1 /\ EndOf(one, t, cut, 1) - 1 = 1
        BY <2>4, <2>5
      <4>. QED
        BY <4>1, <2>2, <2>6, Zenon
    <3>3. cut[1] < EndOf(one, t, cut, 1) /\ ~(1 > 1)
      BY <2>4, <2>5
    <3>. QED
      BY <1>2, <1>4, <2>2, <2>4, <2>7, <3>1, <3>2, <3>3 DEF CutAt
  <2>. QED
    BY <1>1, <1>2, <2>2, <2>3, <2>4, <2>8 DEF Cut
<1>. QED
  BY <1>3, <1>4

LEMMA NextModCuts ==
    ASSUME NEW segs \in Seq(Seq(DiskMod)), NEW s \in Seq(DiskMod), NEW m \in DiskMod,
           NEW n \in Nat \ {0}, Len(segs) = n, NEW l \in Nat \ {0}, Len(s) = l,
           NEW cut \in [1..n -> 0..l], CutAt(segs, s, cut)
    PROVE  Cut(AddMod(segs, m), Append(s, m))
<1>1. PICK t \in Seq(DiskMod) : t = Append(s, m)
  BY AppendFacts, Zenon
<1>2. /\ Len(t) = l + 1 /\ t # <<>> /\ t[l + 1] = m
      /\ \A i \in 1..l : t[i] = s[i]
      /\ t[1] = s[1]
  <2>1. \A i \in 1..l : t[i] = s[i]
    BY <1>1, AppendFacts DEF Grown
  <2>2. Len(t) = l + 1 /\ t # <<>> /\ t[l + 1] = m
    BY <1>1, AppendFacts DEF Grown
  <2>3. 1 \in 1..l
    OBVIOUS
  <2>. QED
    BY <2>1, <2>2, <2>3
<1>3. \A k \in 1..n : cut[k] \in 0..l
  OBVIOUS
<1>4. /\ cut[1] = IF s[1].type = "checkpoint" THEN 1 ELSE 0
      /\ \A k \in 1..n : cut[k] < EndOf(segs, s, cut, k)
  BY DEF CutAt
<1>a. \A k \in 1..n : k > 1 => cut[k] \in 1..l /\ s[cut[k]].type = "checkpoint"
  BY DEF CutAt
<1>b. \A k \in 1..n : segs[k] = SubSeq(s, cut[k] + 1, EndOf(segs, s, cut, k) - 1)
  BY DEF CutAt
<1>c. \A k \in 1..n : \A i \in 1..Len(segs[k]) : segs[k][i].type # "checkpoint"
  BY DEF CutAt
<1>d. \A k \in 1..n : k > 1 => cut[k] \in 1..(l + 1) /\ t[cut[k]].type = "checkpoint"
  <2>1. ASSUME NEW k \in 1..n, k > 1
        PROVE  cut[k] \in 1..(l + 1) /\ t[cut[k]].type = "checkpoint"
    <3>1. PICK i \in 1..l : i = cut[k] /\ s[i].type = "checkpoint"
      BY <1>a, <2>1
    <3>2. t[i] = s[i] /\ i \in 1..(l + 1)
      BY <1>2
    <3>. QED
      BY <3>1, <3>2
  <2>. QED
    BY <2>1
<1>5. /\ EndOf(segs, s, cut, n) = l + 1
      /\ \A k \in 1..(n - 1) : EndOf(segs, s, cut, k) = cut[k + 1] /\ cut[k + 1] \in 0..l
  BY DEF EndOf
<1>6. \A k \in 1..n : EndOf(segs, s, cut, k) \in 1..(l + 1)
  <2>1. ASSUME NEW k \in 1..n PROVE EndOf(segs, s, cut, k) \in 0..(l + 1)
    BY <1>5
  <2>2. ASSUME NEW k \in 1..n PROVE EndOf(segs, s, cut, k) > 0
    BY <1>3, <1>4, <2>1
  <2>. QED
    BY <2>1, <2>2
<1>7. ASSUME NEW k \in 1..n
      PROVE  SubSeq(t, cut[k] + 1, EndOf(segs, s, cut, k) - 1) = segs[k]
  <2>1. PICK e \in 1..(l + 1) : e = EndOf(segs, s, cut, k)
    BY <1>6
  <2>2. cut[k] + 1 \in 1..(Len(s) + 1) /\ e - 1 \in 0..Len(s)
    BY <1>3
  <2>3. SubSeq(t, cut[k] + 1, e - 1) = SubSeq(s, cut[k] + 1, e - 1)
    BY <2>2, <1>1, SubSeqFacts, SMTT(30)
  <2>. QED
    BY <2>1, <2>3, <1>b
<1>8. CASE m.type = "checkpoint"
  <2>0. PICK none \in Seq(DiskMod) : none = <<>>
    BY EmptyIsSeq, Zenon
  <2>1. PICK more \in Seq(Seq(DiskMod)) : more = Append(segs, none)
    BY AppendFacts, Zenon
  <2>2. AddMod(segs, m) = more
    BY <1>8, <2>0, <2>1 DEF AddMod
  <2>3. /\ Len(more) = n + 1 /\ more # <<>> /\ more[n + 1] = <<>>
        /\ \A k \in 1..n : more[k] = segs[k]
    <3>1. Grown(segs, none, more)
      BY <2>1, AppendFacts, Zenon
    <3>. QED
      BY <2>0, <3>1 DEF Grown
  <2>4. PICK c \in [1..(n + 1) -> 0..(l + 1)] :
          c[n + 1] = l + 1 /\ \A k \in 1..n : c[k] = cut[k]
    <3>1. PICK f : f = [k \in 1..(n + 1) |-> IF k <= n THEN cut[k] ELSE l + 1]
      OBVIOUS
    <3>2. f[n + 1] = l + 1 /\ \A k \in 1..n : f[k] = cut[k]
      BY <3>1
    <3>3. f \in [1..(n + 1) -> 0..(l + 1)]
      BY <3>1, <1>3
    <3>. QED
      BY <3>2, <3>3
  <2>5. EndOf(more, t, c, n + 1) = l + 2
    BY <2>3, <1>2 DEF EndOf
  <2>6. \A k \in 1..n : EndOf(more, t, c, k) = EndOf(segs, s, cut, k)
    <3>1. ASSUME NEW k \in 1..n PROVE EndOf(more, t, c, k) = c[k + 1]
      BY <2>3 DEF EndOf
    <3>2. ASSUME NEW k \in 1..n PROVE c[k + 1] = EndOf(segs, s, cut, k)
      <4>1. CASE k = n
        BY <4>1, <2>4, <1>5
      <4>2. CASE k # n
        <5>1. k \in 1..(n - 1) /\ k + 1 \in 1..n
          BY <4>2
        <5>. QED
          BY <5>1, <2>4, <1>5
      <4>. QED
        BY <4>1, <4>2
    <3>. QED
      BY <3>1, <3>2
  <2>7. ASSUME NEW k \in 1..n
        PROVE  /\ c[k] < EndOf(more, t, c, k)
               /\ k > 1 => c[k] \in 1..(l + 1) /\ t[c[k]].type = "checkpoint"
               /\ more[k] = SubSeq(t, c[k] + 1, EndOf(more, t, c, k) - 1)
               /\ \A i \in 1..Len(more[k]) : more[k][i].type # "checkpoint"
    <3>1. c[k] = cut[k] /\ more[k] = segs[k] /\ EndOf(more, t, c, k) = EndOf(segs, s, cut, k)
      BY <2>3, <2>4, <2>6
    <3>2. k > 1 => c[k] \in 1..(l + 1) /\ t[c[k]].type = "checkpoint"
      BY <3>1, <1>d
    <3>3. \A i \in 1..Len(more[k]) : more[k][i].type # "checkpoint"
      BY <3>1, <1>c
    <3>4. c[k] < EndOf(more, t, c, k)
      BY <3>1, <1>4
    <3>5. more[k] = SubSeq(t, c[k] + 1, EndOf(more, t, c, k) - 1)
      BY <3>1, <1>7
    <3>. QED
      BY <3>2, <3>3, <3>4, <3>5
  <2>8. /\ c[n + 1] < EndOf(more, t, c, n + 1)
        /\ c[n + 1] \in 1..(l + 1) /\ t[c[n + 1]].type = "checkpoint"
        /\ more[n + 1] = SubSeq(t, c[n + 1] + 1, EndOf(more, t, c, n + 1) - 1)
        /\ \A i \in 1..Len(more[n + 1]) : more[n + 1][i].type # "checkpoint"
    <3>1. SubSeq(t, l + 2, l + 1) = <<>> /\ \A i \in 1..Len(<<>>) : FALSE
      BY <1>2
    <3>2. more[n + 1] = SubSeq(t, c[n + 1] + 1, EndOf(more, t, c, n + 1) - 1)
      <4>1. c[n + 1] + 1 = l + 2 /\ EndOf(more, t, c, n + 1) - 1 = l + 1
        BY <2>4, <2>5
      <4>. QED
        BY <4>1, <3>1, <2>3, Zenon
    <3>3. \A i \in 1..Len(more[n + 1]) : more[n + 1][i].type # "checkpoint"
      BY <3>1, <2>3
    <3>. QED
      <4>1. c[n + 1] = l + 1 /\ t[l + 1].type = "checkpoint" /\ l + 1 \in 1..(l + 1)
        BY <1>2, <1>8, <2>4
      <4>2. l + 1 < l + 2
        OBVIOUS
      <4>. QED
        BY <4>1, <4>2, <3>2, <3>3, <2>5
  <2>9. CutAt(more, t, c)
    <3>1. c[1] = IF t[1].type = "checkpoint" THEN 1 ELSE 0
      BY <1>2, <1>4, <2>4
    <3>2. \A k \in 1..(n + 1) : k \in 1..n \/ k = n + 1
      OBVIOUS
    <3>. QED
      BY <1>2, <2>3, <2>7, <2>8, <3>1, <3>2 DEF CutAt
  <2>. QED
    BY <1>1, <1>2, <2>2, <2>3, <2>4, <2>9 DEF Cut
<1>9. CASE m.type # "checkpoint"
  <2>0. segs[n] \in Seq(DiskMod) /\ n \in 1..Len(segs)
    OBVIOUS
  <2>1. PICK last \in Seq(DiskMod) : last = Append(segs[n], m)
    BY <2>0, AppendFacts, Zenon
  <2>2. PICK more \in Seq(Seq(DiskMod)) : more = [segs EXCEPT ![n] = last]
    BY <2>0, ReplaceFacts, Zenon
  <2>3. AddMod(segs, m) = more
    <3>1. segs # <<>>
      OBVIOUS
    <3>. QED
      BY <1>9, <2>1, <2>2, <3>1 DEF AddMod
  <2>4. /\ Len(more) = n /\ more # <<>> /\ more[n] = last
        /\ \A k \in 1..(n - 1) : more[k] = segs[k]
    <3>1. /\ Len(more) = Len(segs) /\ more[n] = last
          /\ \A k \in 1..Len(segs) : k # n => more[k] = segs[k]
      BY <2>0, <2>2, ReplaceFacts
    <3>. QED
      BY <3>1
  <2>5. EndOf(more, t, cut, n) = l + 2
    BY <2>4, <1>2 DEF EndOf
  <2>6. \A k \in 1..(n - 1) : EndOf(more, t, cut, k) = EndOf(segs, s, cut, k)
    BY <2>4, <1>5 DEF EndOf
  <2>7. ASSUME NEW k \in 1..n
        PROVE  k > 1 => cut[k] \in 1..(l + 1) /\ t[cut[k]].type = "checkpoint"
    BY <1>d
  <2>8. ASSUME NEW k \in 1..(n - 1)
        PROVE  /\ cut[k] < EndOf(more, t, cut, k)
               /\ more[k] = SubSeq(t, cut[k] + 1, EndOf(more, t, cut, k) - 1)
               /\ \A i \in 1..Len(more[k]) : more[k][i].type # "checkpoint"
    <3>1. k \in 1..n
      OBVIOUS
    <3>2. more[k] = segs[k] /\ EndOf(more, t, cut, k) = EndOf(segs, s, cut, k)
      BY <2>4, <2>6
    <3>3. \A i \in 1..Len(more[k]) : more[k][i].type # "checkpoint"
      BY <3>1, <3>2, <1>c
    <3>4. cut[k] < EndOf(more, t, cut, k)
      BY <3>1, <3>2, <1>4
    <3>5. more[k] = SubSeq(t, cut[k] + 1, EndOf(more, t, cut, k) - 1)
      BY <3>1, <3>2, <1>7
    <3>. QED
      BY <3>3, <3>4, <3>5
  <2>9. /\ cut[n] < EndOf(more, t, cut, n)
        /\ more[n] = SubSeq(t, cut[n] + 1, EndOf(more, t, cut, n) - 1)
        /\ \A i \in 1..Len(more[n]) : more[n][i].type # "checkpoint"
    <3>1. n \in 1..n /\ cut[n] \in 0..l /\ l + 1 - 1 = l /\ l + 2 - 1 = l + 1
      OBVIOUS
    <3>2. /\ segs[n] = SubSeq(s, cut[n] + 1, l) /\ segs[n] \in Seq(DiskMod)
          /\ \A i \in 1..Len(segs[n]) : segs[n][i].type # "checkpoint"
      <4>1. segs[n] = SubSeq(s, cut[n] + 1, EndOf(segs, s, cut, n) - 1)
        BY <3>1, <1>b
      <4>2. EndOf(segs, s, cut, n) - 1 = l
        BY <1>5
      <4>3. segs[n] = SubSeq(s, cut[n] + 1, l)
        BY <4>1, <4>2
      <4>. QED
        BY <4>3, <2>0, <3>1, <1>c
    <3>3. cut[n] + 1 \in 1..(Len(s) + 1)
      BY <3>1
    <3>4. SubSeq(t, cut[n] + 1, l + 1) = Append(SubSeq(s, cut[n] + 1, l), m)
      BY <3>3, <1>1, SubSeqFacts, ZenonT(60)
    <3>5. /\ Len(last) = Len(segs[n]) + 1 /\ last[Len(segs[n]) + 1] = m
          /\ \A i \in 1..Len(segs[n]) : last[i] = segs[n][i]
          /\ Len(segs[n]) \in Nat
      BY <2>1, <3>2, AppendFacts, SMTT(30) DEF Grown
    <3>6. \A i \in 1..Len(last) : last[i].type # "checkpoint"
      <4>1. PICK q \in Nat : q = Len(segs[n])
        BY <3>5
      <4>2. \A i \in 1..(q + 1) : i \in 1..q \/ i = q + 1
        OBVIOUS
      <4>. QED
        BY <3>2, <3>5, <4>1, <4>2, <1>9
    <3>7. cut[n] < EndOf(more, t, cut, n)
      BY <3>1, <2>5
    <3>8. SubSeq(t, cut[n] + 1, EndOf(more, t, cut, n) - 1) = Append(segs[n], m)
      <4>1. EndOf(more, t, cut, n) - 1 = l + 1
        BY <2>5
      <4>. QED
        BY <4>1, <3>2, <3>4
    <3>. QED
      BY <3>6, <3>7, <3>8, <2>1, <2>4
  <2>10. CutAt(more, t, cut)
    <3>1. cut[1] = IF t[1].type = "checkpoint" THEN 1 ELSE 0
      BY <1>2, <1>4
    <3>2. \A k \in 1..n : k \in 1..(n - 1) \/ k = n
      OBVIOUS
    <3>. QED
      BY <1>2, <2>4, <2>7, <2>8, <2>9, <3>1, <3>2 DEF CutAt
  <2>11. cut \in [1..n -> 0..(l + 1)]
    BY <1>3
  <2>. QED
    BY <1>1, <1>2, <2>3, <2>4, <2>10, <2>11 DEF Cut
<1>. QED
  BY <1>8, <1>9

LEMMA AddModCuts ==
    ASSUME NEW segs \in Seq(Seq(DiskMod)), NEW s \in Seq(DiskMod), NEW m \in DiskMod,
           Cut(segs, s)
    PROVE  Cut(AddMod(segs, m), Append(s, m))
<1>1. CASE s = <<>>
  <2>1. segs = <<>> /\ Append(s, m) = <<m>>
    BY <1>1 DEF Cut
  <2>. QED
    BY <2>1, FirstModCuts
<1>2. CASE s # <<>>
  <2>1. PICK n \in Nat, l \in Nat : n = Len(segs) /\ l = Len(s)
    OBVIOUS
  <2>2. segs # <<>> /\ \E cut \in [1..Len(segs) -> 0..Len(s)] : CutAt(segs, s, cut)
    BY <1>2 DEF Cut
  <2>3. n # 0 /\ l # 0
    BY <1>2, <2>1, <2>2
  <2>4. PICK cut \in [1..n -> 0..l] : CutAt(segs, s, cut)
    BY <2>1, <2>2
  <2>. QED
    BY <2>1, <2>3, <2>4, NextModCuts
<1>. QED
  BY <1>1, <1>2

\* What the check takes from the last segment but one lies before a checkpoint,
\* and before the last one.
LEMMA CutChooses ==
    ASSUME NEW s \in Seq(DiskMod), NEW segs \in Seq(Seq(DiskMod)), Cut(segs, s),
           Len(segs) >= 2, NEW k \in 1..Len(segs[Len(segs) - 1])
    PROVE  \E i \in 1..Len(s) :
              /\ s[i] = segs[Len(segs) - 1][k]
              /\ \E c \in (i + 1)..Len(s) :
                   /\ s[c].type = "checkpoint"
                   /\ \A j \in (i + 1)..Len(s) : s[j].type = "checkpoint" => j = c
<1>1. PICK n \in Nat, l \in Nat : n = Len(segs) /\ l = Len(s)
  OBVIOUS
<1>2. n >= 2 /\ n - 1 \in 1..n /\ n \in 1..n /\ n - 1 # n /\ (n - 1) + 1 = n
  BY <1>1
<1>3. PICK cut \in [1..n -> 0..l] : CutAt(segs, s, cut)
  <2>1. segs # <<>>
    BY <1>1, <1>2
  <2>. QED
    BY <1>1, <2>1 DEF Cut
<1>4. PICK a \in 0..l, c \in 0..l : a = cut[n - 1] /\ c = cut[n]
  BY <1>2
<1>5. EndOf(segs, s, cut, n - 1) = c /\ EndOf(segs, s, cut, n) = l + 1
  BY <1>1, <1>2, <1>4 DEF EndOf
<1>6. /\ a < c /\ segs[n - 1] = SubSeq(s, a + 1, c - 1)
      /\ \A i \in 1..Len(segs[n - 1]) : segs[n - 1][i].type # "checkpoint"
  BY <1>1, <1>2, <1>3, <1>4, <1>5 DEF CutAt
<1>7. /\ c \in 1..l /\ s[c].type = "checkpoint"
      /\ segs[n] = SubSeq(s, c + 1, l + 1 - 1)
      /\ \A i \in 1..Len(segs[n]) : segs[n][i].type # "checkpoint"
  <2>1. n > 1
    BY <1>2
  <2>. QED
    <3>1. \A i \in 1..Len(segs[n]) : segs[n][i].type # "checkpoint"
      BY <1>1, <1>2, <1>3 DEF CutAt
    <3>2. segs[n] = SubSeq(s, c + 1, l + 1 - 1)
      <4>1. segs[n] = SubSeq(s, cut[n] + 1, EndOf(segs, s, cut, n) - 1)
        BY <1>1, <1>2, <1>3 DEF CutAt
      <4>2. EndOf(segs, s, cut, n) - 1 = l + 1 - 1 /\ cut[n] = c
        BY <1>4, <1>5
      <4>. QED
        BY <4>1, <4>2, Zenon
    <3>3. c \in 1..l /\ s[c].type = "checkpoint"
      BY <1>1, <1>2, <1>3, <1>4, <2>1 DEF CutAt
    <3>. QED
      BY <3>1, <3>2, <3>3
<1>8. /\ Len(segs[n - 1]) = c - 1 - a
      /\ \A i \in 1..(c - 1 - a) : segs[n - 1][i] = s[a + i]
  <2>1. PICK u \in 1..l, v \in 0..l : u = a + 1 /\ v = c - 1
    BY <1>6, <1>7
  <2>2. u <= v + 1 /\ v <= Len(s)
    BY <2>1, <1>1, <1>6
  <2>3. Len(SubSeq(s, u, v)) = v - u + 1 /\ \A i \in 1..(v - u + 1) : SubSeq(s, u, v)[i] = s[u + i - 1]
    BY <2>2
  <2>. QED
    BY <2>1, <2>3, <1>6
<1>9. /\ Len(segs[n]) = l - c
      /\ \A i \in 1..(l - c) : segs[n][i] = s[c + i]
  <2>1. PICK u \in 1..(l + 1) : u = c + 1
    BY <1>7
  <2>2. /\ Len(SubSeq(s, u, l)) = l - u + 1
        /\ \A i \in 1..(l - u + 1) : SubSeq(s, u, l)[i] = s[u + i - 1]
    BY <1>1, SMTT(30)
  <2>3. segs[n] = SubSeq(s, u, l)
    BY <1>7, <2>1
  <2>4. l - u + 1 = l - c /\ \A i \in 1..(l - c) : u + i - 1 = c + i
    BY <2>1, <1>7
  <2>5. /\ Len(SubSeq(s, u, l)) = l - c
        /\ \A i \in 1..(l - c) : SubSeq(s, u, l)[i] = s[c + i]
    BY <2>2, <2>4
  <2>. QED
    BY <2>3, <2>5, Zenon
<1>10. k \in 1..(c - 1 - a)
  BY <1>1, <1>8
<1>11. /\ a + k \in 1..l /\ s[a + k] = segs[n - 1][k] /\ c \in (a + k + 1)..l
  <2>1. s[a + k] = segs[n - 1][k]
    BY <1>8, <1>10
  <2>2. a + k \in 1..l /\ c \in (a + k + 1)..l
    BY <1>7, <1>10
  <2>. QED
    BY <2>1, <2>2
<1>12. ASSUME NEW j \in (a + k + 1)..l, s[j].type = "checkpoint"
       PROVE  j = c
  <2>1. CASE j < c
    <3>1. PICK i \in 1..(c - 1 - a) : a + i = j
      <4>1. j - a \in 1..(c - 1 - a) /\ a + (j - a) = j
        BY <2>1, <1>10
      <4>. QED
        BY <4>1
    <3>. QED
      BY <3>1, <1>6, <1>8, <1>12
  <2>2. CASE j > c
    <3>1. PICK i \in 1..(l - c) : c + i = j
      <4>1. j - c \in 1..(l - c) /\ c + (j - c) = j
        BY <2>2, <1>10
      <4>. QED
        BY <4>1
    <3>. QED
      BY <3>1, <1>7, <1>9, <1>12
  <2>. QED
    BY <2>1, <2>2, <1>10
<1>. QED
  BY <1>1, <1>7, <1>11, <1>12
-----------------------------------------------------------------------------
(* The steps *)

LEMMA LogFacts ==
    ASSUME TypeOK
    PROVE  /\ mods \in Seq(Mods) /\ mods \in Seq(DiskMod)
           /\ Len(mods) \in Nat /\ Len(mods) <= MaxMods
           /\ \A i \in 1..Len(mods) : mods[i] \in Mods /\ mods[i] \in DiskMod
           /\ sent < Len(mods) => Current \in Mods
<1>1. PICK n \in 0..MaxMods : mods \in [1..n -> Mods]
  BY DEF TypeOK, Logs
<1>2. n \in Nat /\ n <= MaxMods
  BY ModsAssumption
<1>3. mods \in Seq(Mods) /\ Len(mods) = n
  BY <1>1, <1>2
<1>4. Mods \subseteq DiskMod
  BY ModsAssumption
<1>5. \A i \in 1..n : mods[i] \in Mods /\ mods[i] \in DiskMod
  BY <1>1, <1>4
<1>6. mods \in Seq(DiskMod)
  BY <1>3, <1>4, SeqMonotonic
<1>7. sent < n => sent + 1 \in 1..n
  BY <1>2, <1>3 DEF TypeOK
<1>. QED
  BY <1>2, <1>3, <1>5, <1>6, <1>7 DEF Current

\* A step that moves one side on and does nothing else.
LEMMA PhaseStep ==
    ASSUME LogInv, UNCHANGED <<mods, sent, off, file, rpos, segments, chosen>>,
           overflow' = overflow,
           phase' \in {"serialize", "read", "parsed", "error", "killed", "no_mod"},
           phase' = "serialize" => phase = "run",
           phase' = "parsed" => rpos = Len(file)
    PROVE  LogInv'
<1>1. TypeOK'
  BY DEF LogInv, TypeOK
<1>2. Torn'
  BY DEF LogInv, Torn, Current
<1>3. Unread'
  BY DEF LogInv, Unread
<1>4. Followed'
  <2>1. PICK pos \in [0..sent -> 0..Len(file)] : Placed(pos) /\ ReadUpTo(pos)
    BY DEF LogInv, Followed
  <2>2. Placed(pos)'
    BY <2>1 DEF Placed, Current
  <2>3. ReadUpTo(pos)'
    BY <2>1 DEF ReadUpTo
  <2>. QED
    BY <2>1, <2>2, <2>3 DEF Followed
<1>5. ChosenBeforeCheckpoint'
  BY DEF ChosenBeforeCheckpoint
<1>. QED
  BY <1>1, <1>2, <1>3, <1>4, <1>5 DEF LogInv

LEMMA InitEstablishes == Init => LogInv
<1> SUFFICES ASSUME Init PROVE LogInv
  OBVIOUS
<1>1. TypeOK
  <2>1. Len(mods) \in Nat
    <3>1. PICK n \in 0..MaxMods : mods \in [1..n -> Mods]
      BY DEF Init, Logs
    <3>. QED
      BY <3>1, ModsAssumption
  <2>2. file \in Seq(Cell) /\ segments \in Seq(Seq(DiskMod)) /\ Len(file) = 0 /\ Len(segments) = 0
    BY EmptySeq DEF Init
  <2>. QED
    <3>1. MaxMods \in Nat
      BY ModsAssumption
    <3>2. sent \in 0..Len(mods) /\ rpos \in 0..Len(file) /\ Len(segments) <= MaxMods
      BY <2>1, <2>2, <3>1 DEF Init
    <3>. QED
      BY <2>2, <3>2 DEF Init, TypeOK
<1>2. Torn /\ Unread /\ ChosenBeforeCheckpoint
  BY DEF Init, Torn, Unread, ChosenBeforeCheckpoint
<1>3. Followed
  <2>1. PICK pos \in [0..0 -> 0..0] : pos[0] = 0
    <3>1. [i \in 0..0 |-> 0] \in [0..0 -> 0..0] /\ [i \in 0..0 |-> 0][0] = 0
      OBVIOUS
    <3>. QED
      BY <3>1, Zenon
  <2>2. sent = 0 /\ off = 0 /\ Len(file) = 0 /\ rpos = 0 /\ segments = <<>>
    BY DEF Init
  <2>3. Placed(pos)
    BY <2>1, <2>2 DEF Placed
  <2>4. SubSeq(mods, 1, 0) = <<>>
    BY <1>1, LogFacts
  <2>5. ReadUpTo(pos)
    <3>1. Cut(segments, SubSeq(mods, 1, 0)) /\ Len(segments) <= 0 /\ 0 \in 0..sent
      BY <2>2, <2>4 DEF Cut
    <3>. QED
      BY <3>1, <2>1, <2>2 DEF ReadUpTo
  <2>. QED
    BY <2>1, <2>2, <2>3, <2>5 DEF Followed
<1>. QED
  BY <1>1, <1>2, <1>3 DEF LogInv

\* One write(): the new cells are the next of the block, and the block is whole
\* when the last of them is there.
LEMMA WriteWholeKeeps == LogInv /\ WriteWhole => LogInv'
<1> SUFFICES ASSUME LogInv, WriteWhole PROVE LogInv'
  OBVIOUS
<1>1. PICK z \in Nat : z = GetSerializeSize(Current) /\ z >= 3
  BY LogFacts, LayoutFacts DEF LogInv, WriteWhole
<1>2. PICK b \in Seq(Cell) : b = Block(Current) /\ Len(b) = z
  BY <1>1, LogFacts, BlockFacts DEF LogInv, WriteWhole
<1>3. PICK n \in 1..(z - off) :
        /\ file' = file \o SubSeq(b, off + 1, off + n)
        /\ IF off + n = z
           THEN sent' = sent + 1 /\ off' = 0
           ELSE sent' = sent /\ off' = off + n
  BY <1>1, <1>2 DEF WriteWhole
<1>4. /\ phase = "serialize" /\ sent < Len(mods) /\ rpos = 0 /\ segments = <<>>
      /\ phase' = phase /\ mods' = mods /\ rpos' = rpos /\ segments' = segments
      /\ chosen' = chosen
  BY DEF LogInv, WriteWhole, Unread
<1>5. /\ sent \in Nat /\ off \in Nat /\ off < z /\ n \in Nat /\ n >= 1 /\ off + n <= z
      /\ file \in Seq(Cell) /\ Len(mods) \in Nat /\ sent \in 0..Len(mods)
  BY <1>1, <1>3, LogFacts DEF LogInv, TypeOK, Torn
<1>6. PICK more \in Seq(Cell) :
        /\ more = SubSeq(b, off + 1, off + n) /\ Len(more) = n
        /\ \A k \in 1..n : more[k] = b[off + k]
  <2>1. /\ SubSeq(b, off + 1, off + n) \in Seq(Cell)
        /\ Len(SubSeq(b, off + 1, off + n)) = n
        /\ \A k \in 1..n : SubSeq(b, off + 1, off + n)[k] = b[off + k]
    BY <1>2, <1>5
  <2>. QED
    BY <2>1
<1>7. /\ file' \in Seq(Cell) /\ Len(file') = Len(file) + n
      /\ \A i \in 1..Len(file) : file'[i] = file[i]
      /\ \A i \in 1..n : file'[Len(file) + i] = b[off + i]
  <2>1. PICK f : f = file'
    OBVIOUS
  <2>2. f = file \o more
    BY <1>3, <1>6, <2>1
  <2>3. /\ f \in Seq(Cell) /\ Len(f) = Len(file) + Len(more)
        /\ \A i \in 1..Len(file) : f[i] = file[i]
        /\ \A i \in 1..Len(more) : f[Len(file) + i] = more[i]
    BY <2>2, <1>5, <1>6, ConcatFacts
  <2>. QED
    BY <2>1, <2>3, <1>6
<1>8. Len(file) \in Nat
  BY <1>5
<1>9. /\ sent' \in 0..Len(mods) /\ off' \in Nat
      /\ \/ sent' = sent + 1 /\ off' = 0 /\ off + n = z
         \/ sent' = sent /\ off' = off + n /\ off + n < z
  <2>1. CASE off + n = z
    BY <2>1, <1>3, <1>4, <1>5
  <2>2. CASE off + n # z
    <3>1. sent' = sent /\ off' = off + n /\ off + n < z
      BY <2>2, <1>1, <1>3, <1>5
    <3>. QED
      BY <3>1, <1>5
  <2>. QED
    BY <2>1, <2>2
<1>10. TypeOK'
  <2>1. overflow' \in BOOLEAN
    BY DEF LogInv, TypeOK, WriteWhole
  <2>2. rpos' \in 0..Len(file')
    BY <1>4, <1>7, <1>8
  <2>3. /\ phase' \in {"run", "serialize", "read", "parsed", "error", "killed",
                       "checked", "no_mod"}
        /\ mods' \in Logs /\ segments' \in Seq(Seq(DiskMod)) /\ Len(segments') <= MaxMods
        /\ \/ chosen' = None
           \/ chosen' \in DiskMod /\ chosen'.type \in {"fsync", "sync", "data", "range"}
    BY <1>4 DEF LogInv, TypeOK, WriteWhole
  <2>4. sent' \in 0..Len(mods')
    BY <1>4, <1>9
  <2>. QED
    BY <1>7, <1>9, <2>1, <2>2, <2>3, <2>4 DEF TypeOK
<1>11. Torn'
  <2>1. CASE sent' = sent /\ off' = off + n /\ off + n < z
    <3>1. Current' = Current
      BY <1>4, <2>1 DEF Current
    <3>. QED
      BY <3>1, <2>1, <1>1, <1>4 DEF Torn
  <2>2. CASE off' = 0
    BY <2>2 DEF Torn
  <2>. QED
    BY <2>1, <2>2, <1>9
<1>12. Unread'
  BY <1>4 DEF Unread
<1>13. ChosenBeforeCheckpoint'
  BY <1>4 DEF ChosenBeforeCheckpoint
<1>14. PICK pos \in [0..sent -> 0..Len(file)] : Placed(pos)
  BY DEF LogInv, Followed
<1>15. /\ pos[0] = 0 /\ Len(file) = pos[sent] + off
       /\ \A i \in 0..sent : pos[i] \in Nat /\ pos[i] <= Len(file)
  BY <1>8, <1>14, <1>5 DEF Placed
<1>16. ASSUME NEW i \in 1..sent
       PROVE  /\ mods[i] \in Mods
              /\ GetSerializeSize(mods[i]) \in Nat
              /\ pos[i] = pos[i - 1] + GetSerializeSize(mods[i])
              /\ pos[i - 1] \in Nat /\ pos[i] \in Nat /\ pos[i] <= Len(file)
              /\ \A k \in 1..GetSerializeSize(mods[i]) :
                   file'[pos[i - 1] + k] = Block(mods[i])[k]
  <2>1. mods[i] \in Mods
    BY <1>5, LogFacts DEF LogInv
  <2>2. PICK y \in Nat : y = GetSerializeSize(mods[i])
    BY <2>1, LayoutFacts
  <2>3. i - 1 \in 0..sent /\ i \in 0..sent
    BY <1>5
  <2>4. pos[i] = pos[i - 1] + y /\ \A k \in 1..y : file[pos[i - 1] + k] = Block(mods[i])[k]
    BY <1>14, <2>2 DEF Placed
  <2>5. PICK p \in Nat : p = pos[i - 1] /\ p + y <= Len(file)
    BY <1>15, <2>3, <2>4
  <2>6. \A k \in 1..y : p + k \in 1..Len(file)
    BY <2>5, <1>8, SMTT(30)
  <2>7. \A k \in 1..y : file'[p + k] = Block(mods[i])[k]
    BY <1>7, <2>4, <2>5, <2>6
  <2>. QED
    BY <2>1, <2>2, <2>3, <2>4, <2>5, <2>7, <1>15
<1>17. \A k \in 1..(off + n) : file'[pos[sent] + k] = b[k]
  <2>1. ASSUME NEW k \in 1..(off + n) PROVE file'[pos[sent] + k] = b[k]
    <3>1. PICK p \in Nat : p = pos[sent] /\ Len(file) = p + off
      BY <1>5, <1>15
    <3>2. CASE k <= off
      <4>1. k \in 1..off /\ p + k \in 1..Len(file)
        BY <3>1, <3>2, <1>5
      <4>2. file[p + k] = b[k]
        BY <4>1, <3>1, <1>2, <1>14 DEF Placed
      <4>. QED
        BY <4>1, <4>2, <3>1, <1>7
    <3>3. CASE k > off
      <4>1. PICK j \in 1..n : k = off + j
        <5>1. k - off \in 1..n /\ k = off + (k - off)
          BY <3>3, <1>5
        <5>. QED
          BY <5>1
      <4>2. file'[Len(file) + j] = b[off + j]
        BY <1>7
      <4>3. Len(file) + j = p + k
        BY <4>1, <3>1, <1>5
      <4>. QED
        BY <4>1, <4>2, <4>3, <3>1
    <3>. QED
      BY <3>2, <3>3, <1>5
  <2>. QED
    BY <2>1
<1>18. \A i, j \in 0..sent : i < j => pos[i] < pos[j]
  BY <1>14 DEF Placed
<1>19. \E q \in [0..sent' -> 0..Len(file')] : Placed(q)' /\ q[0] = 0
  <2>1. CASE sent' = sent /\ off' = off + n /\ off + n < z
    <3>1. pos \in [0..sent -> 0..Len(file')]
      BY <1>7, <1>8, <1>15
    <3>2. Current' = Current
      BY <1>4, <2>1 DEF Current
    <3>3. Len(file') = pos[sent] + off'
      BY <1>5, <1>7, <1>15, <2>1
    <3>4. Placed(pos)'
      BY <1>2, <1>4, <1>15, <1>16, <1>17, <1>18, <2>1, <3>2, <3>3 DEF Placed
    <3>. QED
      BY <2>1, <3>1, <3>4, <1>15
  <2>2. CASE sent' = sent + 1 /\ off' = 0 /\ off + n = z
    <3>1. PICK q \in [0..(sent + 1) -> 0..Len(file')] :
            (\A i \in 0..sent : q[i] = pos[i]) /\ q[sent + 1] = Len(file')
      <4>1. PICK f : f = [i \in 0..(sent + 1) |-> IF i <= sent THEN pos[i] ELSE Len(file')]
        OBVIOUS
      <4>2. (\A i \in 0..sent : f[i] = pos[i]) /\ f[sent + 1] = Len(file')
        BY <4>1, <1>5
      <4>3. f \in [0..(sent + 1) -> 0..Len(file')]
        BY <4>1, <1>5, <1>7, <1>8, <1>15, SMTT(30)
      <4>. QED
        BY <4>2, <4>3
    <3>2. q[0] = 0 /\ q[sent] = pos[sent] /\ q[sent + 1] = pos[sent] + z
      <4>1. 0 \in 0..sent /\ sent \in 0..sent
        BY <1>5
      <4>2. PICK p \in Nat : p = pos[sent] /\ Len(file) = p + off
        BY <1>5, <1>15
      <4>3. Len(file') = p + z
        BY <4>2, <1>1, <1>5, <1>7, <2>2
      <4>. QED
        BY <4>1, <4>2, <4>3, <3>1, <1>15
    <3>3. Current = mods[sent + 1]
      BY DEF Current
    <3>4. ASSUME NEW i \in 1..(sent + 1)
          PROVE  /\ q[i] = q[i - 1] + GetSerializeSize(mods[i])
                 /\ \A k \in 1..GetSerializeSize(mods[i]) :
                      file'[q[i - 1] + k] = Block(mods[i])[k]
      <4>1. CASE i = sent + 1
        <5>1. i - 1 = sent /\ mods[i] = Current
          BY <4>1, <3>3, <1>5
        <5>. QED
          BY <4>1, <5>1, <3>2, <1>1, <1>2, <1>17, <2>2
      <4>2. CASE i \in 1..sent
        <5>1. q[i] = pos[i] /\ q[i - 1] = pos[i - 1]
          BY <4>2, <3>1, <1>5
        <5>. QED
          BY <5>1, <4>2, <1>16
      <4>. QED
        BY <4>1, <4>2, <1>5
    <3>5. ASSUME NEW i \in 0..(sent + 1), NEW j \in 0..(sent + 1), i < j
          PROVE  q[i] < q[j]
      <4>1. i \in 0..sent /\ q[i] = pos[i] /\ pos[i] \in Nat /\ pos[i] <= Len(file)
        BY <3>5, <3>1, <1>5, <1>15
      <4>2. CASE j = sent + 1
        BY <4>1, <4>2, <3>1, <1>5, <1>7, <1>8
      <4>3. CASE j \in 0..sent
        BY <4>1, <4>3, <3>1, <3>5, <1>18
      <4>. QED
        BY <4>2, <4>3, <1>5
    <3>6. Len(file') = q[sent + 1] + 0
      BY <3>1, <1>7, <1>8
    <3>7. Placed(q)'
      BY <3>2, <3>4, <3>5, <3>6, <2>2, <1>4 DEF Placed
    <3>. QED
      BY <3>1, <3>2, <3>7, <2>2
  <2>. QED
    BY <2>1, <2>2, <1>9
<1>20. Followed'
  <2>1. PICK q \in [0..sent' -> 0..Len(file')] : Placed(q)' /\ q[0] = 0
    BY <1>19
  <2>2. SubSeq(mods', 1, 0) = <<>>
    BY <1>4, LogFacts DEF LogInv
  <2>3. ReadUpTo(q)'
    <3>1. 0 \in 0..sent' /\ Len(segments') <= 0 /\ rpos' = q[0]
      BY <1>4, <1>9, <2>1, <1>5
    <3>2. Cut(segments', SubSeq(mods', 1, 0))
      BY <1>4, <2>2 DEF Cut
    <3>. QED
      BY <3>1, <3>2 DEF ReadUpTo
  <2>. QED
    BY <2>1, <2>3 DEF Followed
<1>. QED
  BY <1>10, <1>11, <1>12, <1>13, <1>20 DEF LogInv

\* What the parent has not read yet.
LEMMA RestFacts ==
    ASSUME TypeOK
    PROVE  /\ Rest \in Seq(Cell) /\ Len(file) \in Nat /\ rpos \in Nat /\ rpos <= Len(file)
           /\ Len(Rest) = Len(file) - rpos
           /\ \A k \in 1..Len(Rest) : Rest[k] = file[rpos + k]
<1>1. PICK n \in Nat, r \in Nat : n = Len(file) /\ r = rpos /\ r <= n /\ file \in Seq(Cell)
  BY DEF TypeOK
<1>2. /\ SubSeq(file, r + 1, n) \in Seq(Cell) /\ Len(SubSeq(file, r + 1, n)) = n - r
      /\ \A k \in 1..(n - r) : SubSeq(file, r + 1, n)[k] = file[r + k]
  BY <1>1
<1>3. Rest = SubSeq(file, r + 1, n)
  BY <1>1 DEF Rest
<1>. QED
  BY <1>1, <1>2, <1>3

\* The next chunk is the whole block of the next DiskMod, or what a torn write
\* left of it.
LEMMA NextChunk ==
    ASSUME LogInv, NEW pos \in [0..sent -> 0..Len(file)], Placed(pos),
           NEW r \in 0..sent, rpos = pos[r]
    PROVE  /\ r < sent => /\ mods[r + 1] \in Mods
                          /\ pos[r + 1] = rpos + GetSerializeSize(mods[r + 1])
                          /\ GetSerializeSize(mods[r + 1]) <= Len(Rest)
                          /\ \A k \in 1..GetSerializeSize(mods[r + 1]) :
                               Rest[k].of = mods[r + 1]
           /\ r = sent => /\ Len(Rest) = off
                          /\ off > 0 => /\ Current \in Mods
                                        /\ off < GetSerializeSize(Current)
                                        /\ Rest[1] = Block(Current)[1]
                                        /\ Rest[1].of = Current
<1>1. TypeOK /\ Torn
  BY DEF LogInv
<1>2. /\ sent \in Nat /\ sent \in 0..Len(mods) /\ off \in Nat /\ Len(mods) \in Nat
  BY <1>1, LogFacts DEF TypeOK
<1>3. PICK n \in Nat, p \in Nat : n = Len(file) /\ p = rpos /\ p <= n /\ p = pos[r]
  BY <1>1, RestFacts
<1>4. Len(Rest) = n - p /\ \A k \in 1..(n - p) : Rest[k] = file[p + k]
  BY <1>1, <1>3, RestFacts
<1>5. ASSUME r < sent
      PROVE  /\ mods[r + 1] \in Mods
             /\ pos[r + 1] = rpos + GetSerializeSize(mods[r + 1])
             /\ GetSerializeSize(mods[r + 1]) <= Len(Rest)
             /\ \A k \in 1..GetSerializeSize(mods[r + 1]) : Rest[k].of = mods[r + 1]
  <2>1. PICK i \in 1..sent : i = r + 1 /\ i - 1 = r
    <3>1. r + 1 \in 1..sent /\ (r + 1) - 1 = r
      BY <1>2, <1>5
    <3>. QED
      BY <3>1
  <2>2. mods[i] \in Mods
    BY <1>1, <1>2, LogFacts
  <2>3. PICK y \in Nat : y = GetSerializeSize(mods[i])
    BY <2>2, LayoutFacts
  <2>4. /\ pos[i] = pos[i - 1] + y
        /\ \A k \in 1..y : file[pos[i - 1] + k] = Block(mods[i])[k]
    BY <2>3 DEF Placed
  <2>5. p + y <= n
    <3>1. pos[i] \in 0..n
      BY <1>2, <1>3
    <3>. QED
      BY <3>1, <2>1, <2>4, <1>3
  <2>6. ASSUME NEW k \in 1..y PROVE Rest[k].of = mods[i]
    <3>1. k \in 1..(n - p) /\ file[p + k] = Block(mods[i])[k]
      BY <2>1, <2>4, <2>5, <1>3
    <3>2. Block(mods[i])[k].of = mods[i]
      BY <2>2, <2>3, BlockFacts
    <3>. QED
      BY <3>1, <3>2, <1>4
  <2>7. y <= n - p /\ pos[i] = p + y
    BY <2>1, <2>4, <2>5, <1>3
  <2>. QED
    BY <2>1, <2>2, <2>3, <2>6, <2>7, <1>3, <1>4
<1>6. ASSUME r = sent
      PROVE  /\ Len(Rest) = off
             /\ off > 0 => /\ Current \in Mods
                           /\ off < GetSerializeSize(Current)
                           /\ Rest[1] = Block(Current)[1]
                           /\ Rest[1].of = Current
  <2>1. n = p + off /\ \A k \in 1..off : file[p + k] = Block(Current)[k]
    BY <1>3, <1>6 DEF Placed
  <2>2. Len(Rest) = off
    BY <2>1, <1>2, <1>3, <1>4
  <2>3. ASSUME off > 0
        PROVE  /\ Current \in Mods /\ off < GetSerializeSize(Current)
               /\ Rest[1] = Block(Current)[1] /\ Rest[1].of = Current
    <3>1. Current \in Mods /\ off < GetSerializeSize(Current)
      BY <2>3, <1>1, LogFacts DEF Torn
    <3>2. 1 \in 1..off /\ 1 \in 1..(n - p)
      BY <2>1, <2>3, <1>2, <1>3
    <3>3. Rest[1] = Block(Current)[1]
      BY <3>2, <2>1, <1>4
    <3>4. Block(Current)[1].of = Current
      <4>1. 1 \in 1..GetSerializeSize(Current)
        BY <3>1, LayoutFacts
      <4>. QED
        BY <4>1, <3>1, BlockFacts
    <3>. QED
      BY <3>1, <3>3, <3>4
  <2>. QED
    BY <2>2, <2>3
<1>. QED
  BY <1>5, <1>6

\* A step of the parent that leaves the file alone.
LEMMA ReadStep ==
    ASSUME LogInv, UNCHANGED <<phase, mods, sent, off, overflow, file, chosen>>,
           phase = "read", rpos' \in 0..Len(file),
           segments' \in Seq(Seq(DiskMod)), Len(segments') <= MaxMods,
           NEW pos \in [0..sent -> 0..Len(file)], Placed(pos), ReadUpTo(pos)'
    PROVE  LogInv'
<1>1. TypeOK'
  BY DEF LogInv, TypeOK
<1>2. Torn'
  BY DEF LogInv, Torn, Current
<1>3. Unread'
  BY DEF Unread
<1>4. Placed(pos)'
  BY DEF Placed, Current
<1>5. Followed'
  BY <1>4 DEF Followed
<1>6. ChosenBeforeCheckpoint'
  BY DEF ChosenBeforeCheckpoint
<1>. QED
  BY <1>1, <1>2, <1>3, <1>5, <1>6 DEF LogInv

LEMMA ReadModKeeps == LogInv /\ ReadMod => LogInv'
<1> SUFFICES ASSUME LogInv, ReadMod PROVE LogInv'
  OBVIOUS
<1>1. TypeOK
  BY DEF LogInv
<1>2. PICK z : z = GetSerializeSize(Rest[1].of)
  OBVIOUS
<1>3. /\ phase = "read" /\ Len(Rest) >= 2 /\ Len(Rest) >= z
      /\ UNCHANGED <<mods, sent, off, overflow, file, chosen>>
      /\ \/ /\ \E junk \in Mods :
                  segments' = AddMod(segments, Deserialize(SubSeq(Rest, 1, z), junk))
            /\ rpos' = rpos + z /\ phase' = phase
         \/ /\ phase' \in {"error", "killed"} /\ UNCHANGED <<segments, rpos>>
  BY <1>2 DEF ReadMod
<1>4. CASE phase' \in {"error", "killed"} /\ UNCHANGED <<segments, rpos>>
  BY <1>3, <1>4, PhaseStep
<1>5. ASSUME NEW junk \in Mods,
             segments' = AddMod(segments, Deserialize(SubSeq(Rest, 1, z), junk)),
             rpos' = rpos + z, phase' = phase
      PROVE  LogInv'
  <2>1. PICK pos \in [0..sent -> 0..Len(file)] : Placed(pos) /\ ReadUpTo(pos)
    BY DEF LogInv, Followed
  <2>2. /\ sent \in Nat /\ sent \in 0..Len(mods) /\ off \in Nat /\ Len(mods) \in Nat
        /\ Len(mods) <= MaxMods /\ MaxMods \in Nat /\ segments \in Seq(Seq(DiskMod))
        /\ Len(file) \in Nat
    BY <1>1, LogFacts, RestFacts, ModsAssumption DEF TypeOK
  <2>3. PICK r \in 0..sent :
          /\ rpos = pos[r] /\ Len(segments) <= r
          /\ ~Removes(mods) => Cut(segments, SubSeq(mods, 1, r))
    <3>1. rpos # Len(file)
      BY <1>1, <1>3, RestFacts
    <3>. QED
      BY <2>1, <3>1 DEF ReadUpTo
  <2>4. r < sent
    <3>1. ASSUME r = sent PROVE FALSE
      <4>1. Len(Rest) = off /\ off > 0
        <5>1. Len(Rest) = off
          BY <3>1, <2>1, <2>3, NextChunk
        <5>. QED
          BY <5>1, <1>3
      <4>2. off < GetSerializeSize(Current) /\ Rest[1].of = Current /\ Current \in Mods
        BY <3>1, <4>1, <2>1, <2>3, NextChunk
      <4>3. z \in Nat /\ off < z
        BY <4>2, <1>2, LayoutFacts
      <4>. QED
        BY <4>1, <4>3, <2>2, <1>3
    <3>. QED
      BY <3>1, <2>2
  <2>5. PICK m \in Mods : m = mods[r + 1]
    BY <2>1, <2>3, <2>4, NextChunk
  <2>6. /\ pos[r + 1] = rpos + GetSerializeSize(m)
        /\ GetSerializeSize(m) <= Len(Rest)
        /\ \A k \in 1..GetSerializeSize(m) : Rest[k].of = m
    BY <2>1, <2>3, <2>4, <2>5, NextChunk
  <2>7. z = GetSerializeSize(m) /\ z \in Nat /\ z >= 3
    BY <2>5, <2>6, <1>2, LayoutFacts
  <2>8. PICK chunk \in Seq(Cell) :
          /\ chunk = SubSeq(Rest, 1, z) /\ Len(chunk) = z
          /\ \A k \in 1..z : chunk[k] = Rest[k]
    <3>1. Rest \in Seq(Cell)
      BY <1>1, RestFacts
    <3>2. /\ SubSeq(Rest, 1, z) \in Seq(Cell) /\ Len(SubSeq(Rest, 1, z)) = z
          /\ \A k \in 1..z : SubSeq(Rest, 1, z)[k] = Rest[k]
      BY <3>1, <2>7, <1>3
    <3>. QED
      BY <3>2
  <2>9. PICK d : d = Deserialize(chunk, junk)
    OBVIOUS
  <2>10. d \in DiskMod /\ (m.type # "remove" => d = m)
    <3>1. Len(chunk) = GetSerializeSize(m)
      BY <2>7, <2>8
    <3>2. \A k \in 1..GetSerializeSize(m) : chunk[k].of = m
      BY <2>6, <2>7, <2>8
    <3>. QED
      BY <3>1, <3>2, <2>9, DeserializeFacts
  <2>11. segments' = AddMod(segments, d)
    BY <1>5, <2>8, <2>9
  <2>12. /\ segments' \in Seq(Seq(DiskMod)) /\ Len(segments') <= Len(segments) + 1
    BY <2>2, <2>10, <2>11, AddModFacts
  <2>13. r + 1 \in 0..sent /\ r + 1 \in 1..Len(mods) /\ rpos' = pos[r + 1]
    BY <1>5, <2>2, <2>4, <2>6, <2>7
  <2>14. Len(segments') <= r + 1
    BY <2>2, <2>3, <2>12
  <2>15. ~Removes(mods) => Cut(segments', SubSeq(mods, 1, r + 1))
    <3>1. ASSUME ~Removes(mods) PROVE Cut(segments', SubSeq(mods, 1, r + 1))
      <4>1. m.type # "remove"
        BY <3>1, <2>5, <2>13 DEF Removes
      <4>2. d = m /\ m \in DiskMod
        BY <4>1, <2>10
      <4>3. PICK s \in Seq(DiskMod) : s = SubSeq(mods, 1, r)
        <5>1. SubSeq(mods, 1, r) \in Seq(DiskMod)
          <6>1. mods \in Seq(DiskMod) /\ r \in 0..Len(mods)
            BY <1>1, <2>2, <2>4, LogFacts
          <6>. QED
            BY <6>1
        <5>. QED
          BY <5>1
      <4>4. SubSeq(mods, 1, r + 1) = Append(s, m)
        <5>1. mods \in Seq(DiskMod)
          BY <1>1, LogFacts
        <5>2. SubSeq(mods, 1, r + 1) = Append(SubSeq(mods, 1, r), mods[r + 1])
          BY <5>1, <2>13
        <5>. QED
          BY <5>2, <4>3, <2>5
      <4>5. Cut(segments, s)
        BY <3>1, <4>3, <2>3
      <4>6. Cut(AddMod(segments, d), Append(s, m))
        BY <4>2, <4>5, <2>2, AddModCuts
      <4>. QED
        BY <4>4, <4>6, <2>11
    <3>. QED
      BY <3>1
  <2>16. ReadUpTo(pos)'
    BY <1>3, <2>13, <2>14, <2>15 DEF ReadUpTo
  <2>17. rpos' \in 0..Len(file) /\ Len(segments') <= MaxMods
    <3>1. pos[r + 1] \in 0..Len(file)
      BY <2>13
    <3>. QED
      BY <3>1, <2>2, <2>12, <2>13, <2>14
  <2>. QED
    BY <1>3, <1>5, <2>1, <2>12, <2>16, <2>17, ReadStep
<1>. QED
  BY <1>3, <1>4, <1>5

LEMMA ReadTornSizeKeeps == LogInv /\ ReadTornSize => LogInv'
<1> SUFFICES ASSUME LogInv, ReadTornSize PROVE LogInv'
  OBVIOUS
<1>1. TypeOK /\ Torn
  BY DEF LogInv
<1>2. /\ phase = "read" /\ Len(Rest) = 1
      /\ UNCHANGED <<mods, sent, off, overflow, file, chosen>>
      /\ \/ /\ \E m \in Mods : segments' = AddMod(segments, m)
            /\ rpos' = Len(file) /\ phase' = phase
         \/ /\ phase' \in {"error", "killed"} /\ UNCHANGED <<segments, rpos>>
  BY DEF ReadTornSize
<1>3. CASE phase' \in {"error", "killed"} /\ UNCHANGED <<segments, rpos>>
  BY <1>2, <1>3, PhaseStep
<1>4. ASSUME NEW m \in Mods, segments' = AddMod(segments, m),
             rpos' = Len(file), phase' = phase
      PROVE  LogInv'
  <2>1. PICK pos \in [0..sent -> 0..Len(file)] : Placed(pos) /\ ReadUpTo(pos)
    BY DEF LogInv, Followed
  <2>2. /\ sent \in Nat /\ sent \in 0..Len(mods) /\ off \in Nat /\ Len(mods) \in Nat
        /\ Len(mods) <= MaxMods /\ MaxMods \in Nat /\ segments \in Seq(Seq(DiskMod))
        /\ Len(file) \in Nat
    BY <1>1, LogFacts, RestFacts, ModsAssumption DEF TypeOK
  <2>3. PICK r \in 0..sent : rpos = pos[r] /\ Len(segments) <= r
    <3>1. rpos # Len(file)
      BY <1>1, <1>2, RestFacts
    <3>. QED
      BY <2>1, <3>1 DEF ReadUpTo
  <2>4. r = sent
    <3>1. ASSUME r < sent PROVE FALSE
      <4>1. GetSerializeSize(mods[r + 1]) <= 1 /\ mods[r + 1] \in Mods
        BY <3>1, <2>1, <2>3, <1>2, NextChunk
      <4>. QED
        BY <4>1, LayoutFacts
    <3>. QED
      BY <3>1, <2>2
  <2>5. off = 1 /\ sent < Len(mods)
    <3>1. Len(Rest) = off
      BY <2>1, <2>3, <2>4, NextChunk
    <3>. QED
      BY <3>1, <1>1, <1>2 DEF Torn
  <2>6. m \in DiskMod
    BY ModsAssumption
  <2>7. /\ segments' \in Seq(Seq(DiskMod)) /\ Len(segments') <= Len(segments) + 1
    BY <1>4, <2>2, <2>6, AddModFacts
  <2>8. Len(segments') <= sent + 1 /\ Len(segments') <= MaxMods
    BY <2>2, <2>3, <2>4, <2>5, <2>7
  <2>9. ReadUpTo(pos)'
    BY <1>2, <1>4, <2>5, <2>8 DEF ReadUpTo
  <2>10. rpos' \in 0..Len(file)
    BY <1>4, <2>2
  <2>. QED
    BY <1>2, <1>4, <2>1, <2>7, <2>8, <2>9, <2>10, ReadStep
<1>. QED
  BY <1>2, <1>3, <1>4

\* When everything is written and read, the segments are the cut of the log.
LEMMA WholeLogArrives ==
    ASSUME LogInv, phase = "parsed", sent = Len(mods), ~Removes(mods)
    PROVE  Cut(segments, mods)
<1>1. TypeOK /\ Torn /\ rpos = Len(file)
  BY DEF LogInv, Unread
<1>2. off = 0 /\ sent \in Nat /\ Len(file) \in Nat
  BY <1>1, LogFacts DEF Torn, TypeOK
<1>3. PICK pos \in [0..sent -> 0..Len(file)] : Placed(pos) /\ ReadUpTo(pos)
  BY DEF LogInv, Followed
<1>4. PICK r \in 0..sent : rpos = pos[r] /\ Cut(segments, SubSeq(mods, 1, r))
  BY <1>2, <1>3 DEF ReadUpTo
<1>5. pos[sent] = Len(file)
  BY <1>2, <1>3 DEF Placed
<1>6. r = sent
  <2>1. ASSUME r < sent PROVE FALSE
    <3>1. pos[r] < pos[sent]
      BY <2>1, <1>2, <1>3 DEF Placed
    <3>. QED
      BY <3>1, <1>1, <1>2, <1>4, <1>5, SMTT(30)
  <2>. QED
    BY <2>1, <1>2
<1>7. SubSeq(mods, 1, Len(mods)) = mods
  BY <1>1, LogFacts, SubSeqFull
<1>. QED
  BY <1>4, <1>6, <1>7

LEMMA SelectModKeeps == LogInv /\ SelectMod => LogInv'
<1> SUFFICES ASSUME LogInv, SelectMod PROVE LogInv'
  OBVIOUS
<1>1. PICK seg : seg = segments[Len(segments) - 1]
  OBVIOUS
<1>2. PICK ks : ks = {k \in DOMAIN seg : Persists(seg[k])}
  OBVIOUS
<1>3. /\ phase = "parsed" /\ UNCHANGED <<mods, sent, off, overflow, file, rpos, segments>>
      /\ \/ phase' = "killed" /\ chosen' = chosen
         \/ phase' = "no_mod" /\ chosen' = chosen
         \/ /\ ~(Len(segments) < 2) /\ ks # {}
            /\ phase' = "checked" /\ chosen' = seg[Min(ks)]
  BY <1>1, <1>2 DEF SelectMod
<1>4. CASE phase' \in {"killed", "no_mod"} /\ chosen' = chosen
  BY <1>3, <1>4, PhaseStep
<1>5. CASE /\ ~(Len(segments) < 2) /\ ks # {}
           /\ phase' = "checked" /\ chosen' = seg[Min(ks)]
  <2>1. TypeOK
    BY DEF LogInv
  <2>2. PICK n \in Nat : n = Len(segments) /\ n >= 2 /\ n - 1 \in 1..n
    <3>1. Len(segments) \in Nat
      BY <2>1 DEF TypeOK
    <3>. QED
      BY <3>1, <1>5
  <2>3. seg \in Seq(DiskMod)
    <3>1. segments \in Seq(Seq(DiskMod))
      BY <2>1 DEF TypeOK
    <3>. QED
      BY <3>1, <2>2, <1>1, ElementOfSeq
  <2>4. PICK k \in 1..Len(seg) : k = Min(ks) /\ Persists(seg[k])
    <3>1. DOMAIN seg = 1..Len(seg) /\ ks \subseteq Nat
      BY <2>3, <1>2
    <3>2. Min(ks) \in ks
      BY <3>1, <1>5, MinIsIn
    <3>. QED
      BY <3>1, <3>2, <1>2
  <2>5. chosen' = seg[k] /\ seg[k] \in DiskMod /\ seg[k].type \in {"fsync", "sync", "data", "range"}
    BY <2>3, <2>4, <1>5 DEF Persists
  <2>6. TypeOK'
    BY <2>1, <2>5, <1>3, <1>5 DEF TypeOK
  <2>7. Torn' /\ Unread'
    BY <1>3, <1>5 DEF LogInv, Torn, Unread, Current
  <2>8. Followed'
    <3>1. PICK pos \in [0..sent -> 0..Len(file)] : Placed(pos) /\ ReadUpTo(pos)
      BY DEF LogInv, Followed
    <3>2. Placed(pos)' /\ ReadUpTo(pos)'
      BY <3>1, <1>3 DEF Placed, ReadUpTo, Current
    <3>. QED
      BY <3>1, <3>2, <1>3 DEF Followed
  <2>9. ChosenBeforeCheckpoint'
    <3>1. ASSUME sent = Len(mods), ~Removes(mods)
          PROVE  \E i \in 1..Len(mods) :
                    /\ mods[i] = seg[k]
                    /\ \E c \in (i + 1)..Len(mods) :
                         /\ mods[c].type = "checkpoint"
                         /\ \A j \in (i + 1)..Len(mods) : mods[j].type = "checkpoint" => j = c
      <4>1. Cut(segments, mods)
        BY <3>1, <1>3, WholeLogArrives
      <4>2. mods \in Seq(DiskMod) /\ segments \in Seq(Seq(DiskMod)) /\ Len(segments) >= 2
        BY <2>1, <2>2, LogFacts DEF TypeOK
      <4>3. k \in 1..Len(segments[Len(segments) - 1]) /\ seg[k] = segments[Len(segments) - 1][k]
        BY <1>1, <2>4
      <4>4. \E i \in 1..Len(mods) :
              /\ mods[i] = segments[Len(segments) - 1][k]
              /\ \E c \in (i + 1)..Len(mods) :
                   /\ mods[c].type = "checkpoint"
                   /\ \A j \in (i + 1)..Len(mods) : mods[j].type = "checkpoint" => j = c
        BY <4>1, <4>2, <4>3, CutChooses
      <4>. QED
        BY <4>3, <4>4, Zenon
    <3>. QED
      BY <3>1, <2>5, <1>3 DEF ChosenBeforeCheckpoint
  <2>. QED
    BY <2>6, <2>7, <2>8, <2>9 DEF LogInv
<1>. QED
  BY <1>3, <1>4, <1>5

\* A new run that finds the file of an earlier one has read nothing of it.
LEMMA OpenFailsKeeps == LogInv /\ OpenFails => LogInv'
<1> SUFFICES ASSUME LogInv, OpenFails PROVE LogInv'
  OBVIOUS
<1>1. /\ phase' = "read" /\ rpos' = 0 /\ segments' = <<>> /\ chosen' = None
      /\ UNCHANGED <<mods, sent, off, overflow, file>>
  BY DEF OpenFails
<1>2. TypeOK'
  <2>1. segments' \in Seq(Seq(DiskMod)) /\ Len(segments') = 0 /\ MaxMods \in Nat
    BY <1>1, EmptySeq, ModsAssumption
  <2>2. rpos' \in 0..Len(file)
    BY <1>1 DEF LogInv, TypeOK
  <2>. QED
    BY <1>1, <2>1, <2>2 DEF LogInv, TypeOK
<1>3. Torn' /\ Unread' /\ ChosenBeforeCheckpoint'
  BY <1>1 DEF LogInv, Torn, Unread, ChosenBeforeCheckpoint, Current
<1>4. Followed'
  <2>1. PICK pos \in [0..sent -> 0..Len(file)] : Placed(pos) /\ ReadUpTo(pos)
    BY DEF LogInv, Followed
  <2>2. Placed(pos)'
    BY <1>1, <2>1 DEF Placed, Current
  <2>3. ReadUpTo(pos)'
    <3>1. SubSeq(mods, 1, 0) = <<>>
      BY LogFacts DEF LogInv
    <3>2. Cut(segments', SubSeq(mods', 1, 0)) /\ Len(segments') <= 0
      BY <1>1, <3>1 DEF Cut
    <3>3. pos[0] = 0 /\ 0 \in 0..sent
      BY <2>1 DEF Placed, LogInv, TypeOK
    <3>. QED
      BY <1>1, <3>2, <3>3 DEF ReadUpTo
  <2>. QED
    BY <1>1, <2>1, <2>2, <2>3 DEF Followed
<1>. QED
  BY <1>2, <1>3, <1>4 DEF LogInv

LEMMA StepKeeps == LogInv /\ [Next]_vars => LogInv'
<1> SUFFICES ASSUME LogInv, [Next]_vars PROVE LogInv'
  OBVIOUS
<1>1. CASE RunFails
  BY <1>1, PhaseStep DEF RunFails
<1>2. CASE RunEnds
  BY <1>2, PhaseStep DEF RunEnds
<1>3. CASE WriteWhole
  BY <1>3, WriteWholeKeeps
<1>4. CASE WriteFails
  BY <1>4, PhaseStep DEF WriteFails
<1>5. CASE SerializeEnds
  BY <1>5, PhaseStep DEF SerializeEnds
<1>6. CASE Killed
  BY <1>6, PhaseStep DEF Killed
<1>7. CASE ReadMod
  BY <1>7, ReadModKeeps
<1>8. CASE ReadTorn
  BY <1>8, PhaseStep DEF ReadTorn
<1>9. CASE ReadTornSize
  BY <1>9, ReadTornSizeKeeps
<1>10. CASE ReadEnds
  <2>1. rpos = Len(file)
    <3>1. Rest = <<>> /\ TypeOK
      BY <1>10 DEF ReadEnds, LogInv
    <3>2. Len(Rest) = 0
      BY <3>1
    <3>. QED
      BY <3>1, <3>2, RestFacts
  <2>. QED
    BY <2>1, <1>10, PhaseStep DEF ReadEnds
<1>11. CASE SelectMod
  BY <1>11, SelectModKeeps
<1>12. CASE UNCHANGED vars
  <2>1. /\ UNCHANGED <<phase, mods, sent, off, overflow, file, rpos, segments, chosen>>
    BY <1>12 DEF vars
  <2>2. TypeOK' /\ Torn' /\ Unread' /\ ChosenBeforeCheckpoint'
    BY <2>1 DEF LogInv, TypeOK, Torn, Unread, ChosenBeforeCheckpoint, Current
  <2>3. Followed'
    <3>1. PICK pos \in [0..sent -> 0..Len(file)] : Placed(pos) /\ ReadUpTo(pos)
      BY DEF LogInv, Followed
    <3>2. Placed(pos)' /\ ReadUpTo(pos)'
      BY <3>1, <2>1 DEF Placed, ReadUpTo, Current
    <3>. QED
      BY <3>1, <3>2, <2>1 DEF Followed
  <2>. QED
    BY <2>2, <2>3 DEF LogInv
<1>13. CASE OpenFails
  BY <1>13, OpenFailsKeeps
<1>. QED
  BY <1>1, <1>2, <1>3, <1>4, <1>5, <1>6, <1>7, <1>8, <1>9, <1>10, <1>11, <1>12, <1>13
     DEF Next, Child, Parent
-----------------------------------------------------------------------------
(* The theorems *)

\* The inductive invariant: the file is the blocks of the recorded DiskMods, one
\* after the other, and the segments are the cut of those that have been read.
THEOREM LogInvariance == Spec => []LogInv
<1>1. Init => LogInv
  BY InitEstablishes
<1>2. LogInv /\ [Next]_vars => LogInv'
  BY StepKeeps
<1>. QED
  BY <1>1, <1>2, PTL DEF Spec

\* Serialisation, parsing and selection keep to their types; what the check
\* compares has a type that persists something.
THEOREM LogTypeCorrect == Spec => []TypeOK
<1>1. LogInv => TypeOK
  BY DEF LogInv
<1>. QED
  BY <1>1, LogInvariance, PTL

\* Wherever the child stops, and whatever write() took, the parent believes the
\* first of the DiskMods that one child recorded and no other -- unless the file ends inside a
\* size word or the log holds a removal.
THEOREM ReadIsAlwaysPrefix == Spec => []ReadIsPrefix
<1>1. LogInv => ReadIsPrefix
  <2> SUFFICES ASSUME LogInv, ~Removes(mods), ~WordTorn
               PROVE  \E n \in 0..Len(mods) : Cut(segments, SubSeq(mods, 1, n))
    BY DEF ReadIsPrefix
  <2>1. TypeOK /\ Torn
    BY DEF LogInv
  <2>2. PICK pos \in [0..sent -> 0..Len(file)] : Placed(pos) /\ ReadUpTo(pos)
    BY DEF LogInv, Followed
  <2>3. ~(off = 1)
    <3>1. ASSUME off = 1 PROVE FALSE
      <4>1. Current \in Mods
        BY <3>1, <2>1, LogFacts DEF Torn
      <4>2. /\ Len(file) = pos[sent] + 1
            /\ file[pos[sent] + 1] = Block(Current)[1]
        BY <3>1, <2>2 DEF Placed
      <4>3. file[Len(file)].part = "hi"
        BY <4>1, <4>2, BlockFacts
      <4>4. Len(file) > 0
        <5>1. sent \in 0..sent
          BY <2>1 DEF TypeOK
        <5>2. pos[sent] \in Nat
          BY <5>1
        <5>. QED
          BY <4>2, <5>2
      <4>. QED
        BY <4>3, <4>4 DEF WordTorn
    <3>. QED
      BY <3>1
  <2>4. PICK r \in 0..sent : Cut(segments, SubSeq(mods, 1, r))
    BY <2>2, <2>3 DEF ReadUpTo
  <2>5. r \in 0..Len(mods)
    BY <2>1, LogFacts DEF TypeOK
  <2>. QED
    BY <2>4, <2>5
<1>. QED
  BY <1>1, LogInvariance, PTL

\* After an undisturbed run the segments hold the whole log.
THEOREM LogAlwaysArrives == Spec => []LogArrives
<1>1. LogInv => LogArrives
  BY WholeLogArrives DEF LogArrives
<1>. QED
  BY <1>1, LogInvariance, PTL

\* The DiskMod compared was recorded before the last checkpoint, and after the
\* last but one.
THEOREM ChoiceIsBeforeCheckpoint == Spec => []ChosenBeforeCheckpoint
<1>1. LogInv => ChosenBeforeCheckpoint
  BY DEF LogInv
<1>. QED
  BY <1>1, LogInvariance, PTL
=============================================================================
