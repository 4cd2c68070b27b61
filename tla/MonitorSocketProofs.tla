------------------------ MODULE MonitorSocketProofs ------------------------
(* The connection to the monitor, for any number of commands, any length of *)
(* their output, any buffer and whatever the stack holds when it is read.   *)
EXTENDS MonitorSocket, TLAPS

\* What the operations on the stream leave of it.
LEMMA StreamAppend ==
    ASSUME NEW s \in Seq(Cell \ {"NUL"}), NEW n \in Nat
    PROVE  /\ s \o Text(n) \in Seq(Cell \ {"NUL"})
           /\ Len(s \o Text(n)) = Len(s) + n
           /\ \A i \in 1..Len(s) : (s \o Text(n))[i] = s[i]
           /\ \A i \in (Len(s) + 1)..(Len(s) + n) : (s \o Text(n))[i] = "text"
<1>1. Text(n) \in Seq(Cell \ {"NUL"}) /\ Len(Text(n)) = n
  BY DEF Text, Cell
<1>2. \A i \in 1..n : Text(n)[i] = "text"
  BY DEF Text
<1>. QED
  BY <1>1, <1>2

LEMMA StreamMark ==
    ASSUME NEW s \in Seq(Cell \ {"NUL"})
    PROVE  /\ s \o Mark \in Seq(Cell \ {"NUL"})
           /\ Len(s \o Mark) = Len(s) + 2
           /\ \A i \in 1..Len(s) : (s \o Mark)[i] = s[i]
           /\ (s \o Mark)[Len(s) + 1] = "cm"
           /\ (s \o Mark)[Len(s) + 2] = "EOF"
<1>1. Mark \in Seq(Cell \ {"NUL"}) /\ Len(Mark) = 2 /\ Mark[1] = "cm" /\ Mark[2] = "EOF"
  BY DEF Mark, Cell
<1>2. /\ s \o Mark \in Seq(Cell \ {"NUL"})
      /\ Len(s \o Mark) = Len(s) + Len(Mark)
      /\ \A i \in 1..Len(s) : (s \o Mark)[i] = s[i]
      /\ \A i \in 1..Len(Mark) : (s \o Mark)[Len(s) + i] = Mark[i]
  <2> DEFINE S == Cell \ {"NUL"}
  <2>1. s \in Seq(S) /\ Mark \in Seq(S)
    BY <1>1
  <2> HIDE DEF S
  <2>2. /\ s \o Mark \in Seq(S)
        /\ Len(s \o Mark) = Len(s) + Len(Mark)
        /\ \A i \in 1..Len(s) : (s \o Mark)[i] = s[i]
        /\ \A i \in 1..Len(Mark) : (s \o Mark)[Len(s) + i] = Mark[i]
    BY <2>1
  <2>. QED
    BY <2>2 DEF S
<1>3. (s \o Mark)[Len(s) + 1] = Mark[1] /\ (s \o Mark)[Len(s) + 2] = Mark[2]
  BY <1>1, <1>2
<1>4. Len(s \o Mark) = Len(s) + 2
  BY <1>1, <1>2
<1>. QED
  BY <1>1, <1>2, <1>3, <1>4

LEMMA StreamPart ==
    ASSUME NEW s \in Seq(Cell \ {"NUL"}), NEW m \in 1..(Len(s) + 1), NEW n \in (m - 1)..Len(s)
    PROVE  /\ SubSeq(s, m, n) \in Seq(Cell \ {"NUL"})
           /\ Len(SubSeq(s, m, n)) = n - m + 1
           /\ \A i \in 1..(n - m + 1) : SubSeq(s, m, n)[i] = s[m + i - 1]
OBVIOUS

LEMMA InitSynced == Init => Synced
<1> SUFFICES ASSUME Init PROVE Synced
  OBVIOUS
<1>1. Blank \in [1..BufLen -> Cell]
  BY DEF Blank, Cell
<1>2. <<>> \in Seq(Cell \ {"NUL"}) /\ Len(<<>>) = 0
  OBVIOUS
<1>3. TypeOK
  <2>1. 0 \in 0..MaxCmds
    BY SocketAssumption
  <2>2. stream \in Seq(Cell \ {"NUL"}) /\ buffer \in [1..BufLen -> Cell]
    BY <1>1, <1>2, Zenon DEF Init
  <2>. QED
    BY <2>1, <2>2 DEF Init, TypeOK
<1>4. Requests /\ Buffered
  BY DEF Init, Requests, Buffered
<1>5. Marks
  BY <1>2 DEF Init, Marks
<1>. QED
  BY <1>3, <1>4, <1>5 DEF Synced
-----------------------------------------------------------------------------
(* The client's steps *)

LEMMA ConnectStep == Synced /\ Connect => Synced'
<1> SUFFICES ASSUME Synced, Connect PROVE Synced'
  OBVIOUS
<1> USE SocketAssumption DEF Synced, TypeOK, Requests, Marks, Buffered
<1>1. CASE client' = "idle" /\ connected' = TRUE /\ \E n \in 0..MaxText : stream' = Text(n)
  <2>1. PICK n \in 0..MaxText : stream' = Text(n)
    BY <1>1
  <2>2. stream' \in Seq(Cell \ {"NUL"}) /\ \A i \in 1..Len(stream') : stream'[i] = "text"
    BY <2>1 DEF Text, Cell
  <2>3. UNCHANGED <<sent, executed, returned, echoed, buffer, cut, stale>> /\ client = "start"
    BY DEF Connect
  <2>. QED
    BY <1>1, <2>2, <2>3
<1>2. CASE client' = "stopped" /\ UNCHANGED <<connected, stream>>
  BY <1>2 DEF Connect
<1>. QED
  BY <1>1, <1>2 DEF Connect

LEMMA SendCommandStep == Synced /\ SendCommand => Synced'
<1> SUFFICES ASSUME Synced, SendCommand PROVE Synced'
  OBVIOUS
<1> USE SocketAssumption DEF Synced, TypeOK, Requests, Marks, Buffered
<1>1. UNCHANGED <<connected, executed, returned, echoed, stream, buffer, cut, stale>>
  BY DEF SendCommand
<1>2. TypeOK' /\ Requests'
  BY <1>1 DEF SendCommand
<1>3. Marks'
  BY <1>1 DEF SendCommand
<1>. QED
  BY <1>1, <1>2, <1>3 DEF SendCommand

\* A call that finds no old mark begins in step.
LEMMA CallReceiveReplyStep == Synced /\ CallReceiveReply /\ ~stale' => Synced'
<1> SUFFICES ASSUME Synced, CallReceiveReply, ~stale' PROVE Synced'
  OBVIOUS
<1> USE SocketAssumption DEF Synced, TypeOK, Requests, Marks, Buffered
<1>1. PICK kept \in SUBSET (1..BufLen) :
        buffer' = [i \in 1..BufLen |-> IF i \in kept THEN buffer[i] ELSE "NUL"]
  BY DEF CallReceiveReply
<1>2. buffer' \in [1..BufLen -> Cell]
  BY <1>1 DEF Cell
<1>3. \A i \in 2..BufLen : buffer'[i] # "EOF"
  BY DEF CallReceiveReply, HoldsOldMark
<1>4. Buffered'
  BY <1>3
<1>5. /\ client = "sent" /\ client' = "receiving" /\ stale' \in BOOLEAN
      /\ UNCHANGED <<connected, sent, executed, returned, echoed, stream, cut>>
  BY DEF CallReceiveReply
<1>6. TypeOK'
  BY <1>2, <1>5
<1>7. Requests' /\ Marks'
  BY <1>5
<1>. QED
  BY <1>4, <1>6, <1>7

\* A mark that is found was whole in this chunk, which therefore was the rest of
\* the stream; a chunk without one leaves the second half at its start at most.
LEMMA RecvMarks ==
    ASSUME Synced, client = "receiving", NEW n \in 1..Len(stream), n <= BufLen,
           NEW b, b = Overlay(buffer, SubSeq(stream, 1, n))
    PROVE  /\ b \in [1..BufLen -> Cell]
           /\ HasMark(b) => n = Len(stream) /\ n >= 2 /\ executed = returned + 1
           /\ ~HasMark(b) => \A i \in 1..BufLen : b[i] = "EOF" => i = 1
<1> USE SocketAssumption DEF Synced, TypeOK
<1> DEFINE chunk == SubSeq(stream, 1, n)
<1>1. Len(chunk) = n /\ \A i \in 1..n : chunk[i] = stream[i]
  BY StreamPart
<1>2. \A i \in 1..BufLen : b[i] = IF i <= n THEN stream[i] ELSE buffer[i]
  BY <1>1 DEF Overlay
<1>3. \A i \in 1..Len(stream) : stream[i] \in Cell /\ stream[i] # "NUL"
  OBVIOUS
<1>4. b \in [1..BufLen -> Cell]
  BY <1>1, <1>3 DEF Overlay
<1>5. ASSUME HasMark(b) PROVE n = Len(stream) /\ n >= 2 /\ executed = returned + 1
  <2>1. PICK i \in 1..(BufLen - 1) : b[i] = "cm" /\ b[i + 1] = "EOF"
    BY <1>5 DEF HasMark
  <2>2. i + 1 \in 1..BufLen /\ i + 1 # 1
    OBVIOUS
  <2>3. i + 1 <= n
    BY <1>2, <2>1, <2>2 DEF Buffered
  <2>4. stream[i + 1] = "EOF" /\ i + 1 \in 1..Len(stream)
    BY <1>2, <2>1, <2>2, <2>3
  <2>. QED
    BY <2>3, <2>4 DEF Marks
<1>6. ASSUME ~HasMark(b), NEW i \in 1..BufLen, b[i] = "EOF" PROVE i = 1
  <2>1. CASE i > n
    BY <1>2, <1>6, <2>1 DEF Buffered
  <2>2. CASE i <= n /\ i # 1
    <3>1. i \in 1..Len(stream) /\ i > 1 /\ stream[i] = "EOF"
      BY <1>2, <1>6, <2>2
    <3>2. stream[i - 1] = "cm"
      BY <3>1 DEF Marks
    <3>3. i - 1 \in 1..(BufLen - 1) /\ (i - 1) + 1 = i /\ b[i - 1] = "cm"
      BY <1>2, <2>2, <3>2
    <3>4. \A j \in 1..(i - 1) : b[j] # "NUL"
      BY <1>2, <1>3, <2>2
    <3>. QED
      BY <1>6, <3>3, <3>4 DEF HasMark
  <2>. QED
    BY <2>1, <2>2
<1>. QED
  BY <1>4, <1>5, <1>6

LEMMA RecvStep == Synced /\ Recv => Synced'
<1> SUFFICES ASSUME Synced, Recv PROVE Synced'
  OBVIOUS
<1>1. PICK n \in 1..Len(stream) :
         /\ n <= BufLen
         /\ cut' = (cut \/ CutsMark(n))
         /\ buffer' = Overlay(buffer, SubSeq(stream, 1, n))
         /\ stream' = SubSeq(stream, n + 1, Len(stream))
         /\ IF HasMark(buffer') THEN client' = "idle" /\ returned' = returned + 1
                                ELSE UNCHANGED <<client, returned>>
  BY DEF Recv
<1>2. client = "receiving" /\ UNCHANGED <<connected, sent, executed, echoed, stale>>
  BY DEF Recv
<1>3. /\ buffer' \in [1..BufLen -> Cell]
      /\ HasMark(buffer') => n = Len(stream) /\ n >= 2 /\ executed = returned + 1
      /\ ~HasMark(buffer') => \A i \in 1..BufLen : buffer'[i] = "EOF" => i = 1
  BY <1>1, <1>2, RecvMarks
<1> USE SocketAssumption DEF Synced, TypeOK
<1>4. /\ stream' \in Seq(Cell \ {"NUL"})
      /\ Len(stream') = Len(stream) - n
      /\ \A i \in 1..(Len(stream) - n) : stream'[i] = stream[n + i]
  <2>1. n + 1 \in 1..(Len(stream) + 1) /\ Len(stream) \in ((n + 1) - 1)..Len(stream)
    OBVIOUS
  <2>. QED
    BY <1>1, <2>1, StreamPart
<1>5. CASE HasMark(buffer')
  <2>1. ~cut /\ ~CutsMark(n) /\ Len(stream') = 0
    BY <1>3, <1>4, <1>5 DEF Marks, CutsMark
  <2>2. client' = "idle" /\ returned' = returned + 1 /\ cut' = FALSE
    BY <1>1, <1>5, <2>1
  <2>3. returned' \in 0..MaxCmds /\ sent = returned' /\ executed = returned'
    BY <1>3, <1>5, <2>2 DEF Requests
  <2>4. TypeOK'
    <3>1. returned' \in Nat
      BY <2>2
    <3>. QED
      BY <1>2, <1>3, <1>4, <2>2, <3>1
  <2>5. Requests'
    BY <1>2, <2>2, <2>3 DEF Requests
  <2>. QED
    BY <1>2, <2>1, <2>2, <2>4, <2>5 DEF Marks, Buffered
<1>6. CASE ~HasMark(buffer')
  <2>1. UNCHANGED <<client, returned>>
    BY <1>1, <1>6
  <2>2. TypeOK' /\ Requests'
    BY <1>1, <1>2, <1>3, <1>4, <2>1 DEF Requests
  <2>3. Buffered'
    BY <1>3, <1>6 DEF Buffered
  <2>4. CutsMark(n) => Len(stream') = 1 /\ executed = returned + 1
    BY <1>4 DEF CutsMark, Marks
  <2>5. Marks'
    BY <1>1, <1>2, <1>4, <2>1, <2>4 DEF Marks
  <2>. QED
    BY <2>2, <2>3, <2>5
<1>. QED
  BY <1>5, <1>6

LEMMA RecvFailsStep == Synced /\ RecvFails => Synced'
BY DEF Synced, TypeOK, Requests, Marks, Buffered, RecvFails
-----------------------------------------------------------------------------
(* The monitor's steps, and the network's *)

LEMMA MonitorEchoesStep == Synced /\ MonitorEchoes => Synced'
<1> SUFFICES ASSUME Synced, MonitorEchoes PROVE Synced'
  OBVIOUS
<1> USE SocketAssumption DEF Synced, TypeOK
<1>1. PICK n \in 0..MaxText : stream' = stream \o Text(n)
  BY DEF MonitorEchoes
<1>2. n \in Nat /\ stream \in Seq(Cell \ {"NUL"})
  OBVIOUS
<1>3. /\ stream' \in Seq(Cell \ {"NUL"})
      /\ Len(stream') = Len(stream) + n
      /\ \A i \in 1..Len(stream) : stream'[i] = stream[i]
      /\ \A i \in (Len(stream) + 1)..(Len(stream) + n) : stream'[i] = "text"
  BY <1>2, <1>1, StreamAppend, ZenonT(60)
<1>4. /\ UNCHANGED <<client, connected, sent, executed, returned, buffer, cut, stale>>
      /\ executed < sent /\ echoed' = TRUE
  BY DEF MonitorEchoes
<1>5. executed = returned
  BY <1>4 DEF Requests
<1>6. \A i \in 1..Len(stream) : stream[i] \notin {"cm", "EOF"}
  BY <1>5 DEF Marks
<1>7. \A i \in 1..Len(stream') : stream'[i] \notin {"cm", "EOF"}
  BY <1>3, <1>6
<1>8. Marks'
  BY <1>4, <1>5, <1>7 DEF Marks
<1>. QED
  BY <1>3, <1>4, <1>8 DEF Requests, Buffered

LEMMA MonitorExecutesStep == Synced /\ MonitorExecutes => Synced'
<1> SUFFICES ASSUME Synced, MonitorExecutes PROVE Synced'
  OBVIOUS
<1> USE SocketAssumption DEF Synced, TypeOK
<1>1. /\ UNCHANGED <<client, connected, sent, returned, buffer, cut, stale>>
      /\ executed < sent /\ executed' = executed + 1 /\ echoed' = FALSE
  BY DEF MonitorExecutes
<1>2. executed = returned /\ sent = returned + 1 /\ ~cut
  BY <1>1 DEF Requests, Marks
<1>3. \A i \in 1..Len(stream) : stream[i] \notin {"cm", "EOF"}
  BY <1>2 DEF Marks
<1>4. Requests' /\ Buffered'
  BY <1>1, <1>2 DEF Requests, Buffered
<1>5. CASE ~connected
  <2>1. stream' = stream
    BY <1>5 DEF MonitorExecutes
  <2>. QED
    BY <1>1, <1>2, <1>3, <1>4, <2>1 DEF Marks
<1>6. CASE connected
  <2>1. PICK n \in 0..MaxText : stream' = stream \o Text(n) \o Mark
    BY <1>6 DEF MonitorExecutes
  <2> DEFINE s == stream \o Text(n)
  <2>2. /\ s \in Seq(Cell \ {"NUL"})
        /\ Len(s) = Len(stream) + n
        /\ \A i \in 1..Len(s) : s[i] \notin {"cm", "EOF"}
    <3>1. n \in Nat /\ stream \in Seq(Cell \ {"NUL"})
      OBVIOUS
    <3>2. /\ s \in Seq(Cell \ {"NUL"})
          /\ Len(s) = Len(stream) + n
          /\ \A i \in 1..Len(stream) : s[i] = stream[i]
          /\ \A i \in (Len(stream) + 1)..(Len(stream) + n) : s[i] = "text"
      BY <3>1, StreamAppend
    <3>. QED
      BY <1>3, <3>1, <3>2
  <2>3. stream' = s \o Mark
    BY <2>1
  <2> HIDE DEF s
  <2>4. /\ stream' \in Seq(Cell \ {"NUL"})
        /\ Len(stream') = Len(s) + 2
        /\ \A i \in 1..Len(s) : stream'[i] \notin {"cm", "EOF"}
        /\ stream'[Len(s) + 1] = "cm"
        /\ stream'[Len(s) + 2] = "EOF"
    BY <2>2, <2>3, StreamMark
  <2>5. client # "idle"
    BY <1>2, <1>6 DEF Requests
  <2>6. Marks'
    <3>2. Len(s) \in Nat /\ Len(stream') = Len(s) + 2
      BY <2>2, <2>4
    <3>1. \A i \in 1..Len(stream') : i \in 1..Len(s) \/ i = Len(s) + 1 \/ i = Len(s) + 2
      BY <3>2
    <3>. QED
      BY <1>1, <1>2, <2>4, <2>5, <3>1, <3>2 DEF Marks
  <2>7. TypeOK'
    <3>1. executed' \in 0..MaxCmds
      BY <1>1
    <3>. QED
      BY <1>1, <2>4, <3>1
  <2>. QED
    BY <1>4, <2>6, <2>7
<1>. QED
  BY <1>5, <1>6

LEMMA LoseConnectionStep == Synced /\ LoseConnection => Synced'
<1> SUFFICES ASSUME Synced, LoseConnection PROVE Synced'
  OBVIOUS
<1> USE SocketAssumption DEF Synced, TypeOK
<1>1. PICK n \in 0..Len(stream) : stream' = SubSeq(stream, 1, n)
  BY DEF LoseConnection
<1>2. /\ stream' \in Seq(Cell \ {"NUL"})
      /\ Len(stream') = n
      /\ \A i \in 1..n : stream'[i] = stream[i]
  BY <1>1, StreamPart
<1>3. UNCHANGED <<client, sent, executed, returned, echoed, buffer, cut, stale>> /\ connected' = FALSE
  BY DEF LoseConnection
<1>4. Marks'
  BY <1>2, <1>3 DEF Marks
<1>5. TypeOK'
  BY <1>2, <1>3
<1>. QED
  BY <1>2, <1>3, <1>4, <1>5 DEF Requests, Buffered, LoseConnection

LEMMA SocketStutter == Synced /\ UNCHANGED vars => Synced'
BY DEF Synced, TypeOK, Requests, Marks, Buffered, vars
-----------------------------------------------------------------------------
(* What holds whatever the buffer held *)

\* The client's steps keep the types also when its buffer is stale.
LEMMA ClientTypeOK == TypeOK /\ Client => TypeOK'
<1> SUFFICES ASSUME TypeOK, Client PROVE TypeOK'
  OBVIOUS
<1> USE SocketAssumption DEF TypeOK
<1>1. CASE Connect
  <2>1. \A n \in 0..MaxText : Text(n) \in Seq(Cell \ {"NUL"})
    BY DEF Text, Cell
  <2>2. stream' \in Seq(Cell \ {"NUL"})
    BY <1>1, <2>1 DEF Connect
  <2>. QED
    BY <1>1, <2>2 DEF Connect
<1>2. CASE SendCommand
  BY <1>2 DEF SendCommand
<1>3. CASE CallReceiveReply
  <2>1. buffer' \in [1..BufLen -> Cell]
    BY <1>3 DEF CallReceiveReply, Cell
  <2>. QED
    BY <1>3, <2>1 DEF CallReceiveReply
<1>4. CASE Recv
  <2>1. PICK n \in 1..Len(stream) :
           /\ cut' = (cut \/ CutsMark(n))
           /\ buffer' = Overlay(buffer, SubSeq(stream, 1, n))
           /\ stream' = SubSeq(stream, n + 1, Len(stream))
           /\ IF HasMark(buffer') THEN client' = "idle" /\ returned' = returned + 1
                                  ELSE UNCHANGED <<client, returned>>
    BY <1>4 DEF Recv
  <2>2. /\ SubSeq(stream, 1, n) \in Seq(Cell \ {"NUL"})
        /\ \A i \in 1..Len(SubSeq(stream, 1, n)) : SubSeq(stream, 1, n)[i] \in Cell
    BY StreamPart
  <2>3. buffer' \in [1..BufLen -> Cell]
    BY <2>1, <2>2 DEF Overlay
  <2>4. stream' \in Seq(Cell \ {"NUL"})
    <3>1. n + 1 \in 1..(Len(stream) + 1) /\ Len(stream) \in ((n + 1) - 1)..Len(stream)
      OBVIOUS
    <3>. QED
      BY <2>1, <3>1, StreamPart
  <2>5. cut' \in BOOLEAN
    BY <2>1
  <2>6. client' \in {"idle", client} /\ returned' \in Nat
    BY <2>1
  <2>. QED
    BY <1>4, <2>3, <2>4, <2>5, <2>6 DEF Recv
<1>5. CASE RecvFails
  BY <1>5 DEF RecvFails
<1>. QED
  BY <1>1, <1>2, <1>3, <1>4, <1>5 DEF Client

\* So do those of the monitor and of the network.
LEMMA MonitorTypeOK == TypeOK /\ (Monitor \/ LoseConnection) => TypeOK'
<1> SUFFICES ASSUME TypeOK, Monitor \/ LoseConnection PROVE TypeOK'
  OBVIOUS
<1> USE SocketAssumption DEF TypeOK
<1>1. stream \in Seq(Cell \ {"NUL"})
  OBVIOUS
<1>2. \A n \in 0..MaxText : stream \o Text(n) \in Seq(Cell \ {"NUL"})
  <2> TAKE n \in 0..MaxText
  <2>1. n \in Nat
    OBVIOUS
  <2>. QED
    BY <1>1, <2>1, StreamAppend
<1>3. CASE MonitorEchoes
  BY <1>2, <1>3 DEF MonitorEchoes
<1>4. CASE MonitorExecutes
  <2>1. executed' \in 0..MaxCmds
    BY <1>4 DEF MonitorExecutes
  <2>2. stream' \in Seq(Cell \ {"NUL"})
    <3>1. CASE ~connected
      BY <1>4, <3>1 DEF MonitorExecutes
    <3>2. CASE connected
      <4>1. PICK n \in 0..MaxText : stream' = stream \o Text(n) \o Mark
        BY <1>4, <3>2 DEF MonitorExecutes
      <4> DEFINE s == stream \o Text(n)
      <4>2. s \in Seq(Cell \ {"NUL"})
        BY <1>2
      <4> HIDE DEF s
      <4>3. s \o Mark \in Seq(Cell \ {"NUL"})
        BY <4>2, StreamMark
      <4>. QED
        BY <4>1, <4>3 DEF s
    <3>. QED
      BY <3>1, <3>2
  <2>. QED
    BY <1>4, <2>1, <2>2 DEF MonitorExecutes
<1>5. CASE LoseConnection
  <2>1. PICK n \in 0..Len(stream) : stream' = SubSeq(stream, 1, n)
    BY <1>5 DEF LoseConnection
  <2>2. stream' \in Seq(Cell \ {"NUL"})
    BY <1>1, <2>1, StreamPart
  <2>. QED
    BY <1>5, <2>2 DEF LoseConnection
<1>. QED
  BY <1>3, <1>4, <1>5 DEF Monitor

\* A stale buffer is never forgotten.
LEMMA StaleStays == TypeOK /\ [Next]_vars /\ ~stale' => ~stale
BY DEF Next, Client, Monitor, Connect, SendCommand, CallReceiveReply, Recv, RecvFails,
   MonitorEchoes, MonitorExecutes, LoseConnection, vars
-----------------------------------------------------------------------------
(* Theorems *)

\* One command is on its way at a time, and what is left of a mark belongs to the
\* reply that is awaited, however the stream is chopped and whenever it breaks --
\* up to the first call that finds an old mark in its buffer.
THEOREM SocketInvariance == Spec => []SocketInv
<1>1. Init => SocketInv
  BY InitSynced DEF SocketInv, Synced
<1>2. SocketInv /\ [Next]_vars => SocketInv'
  <2> SUFFICES ASSUME SocketInv, [Next]_vars PROVE SocketInv'
    OBVIOUS
  <2>1. TypeOK'
    <3>1. CASE UNCHANGED vars
      BY <3>1 DEF SocketInv, TypeOK, vars
    <3>. QED
      BY <3>1, ClientTypeOK, MonitorTypeOK DEF SocketInv, Next
  <2>2. ASSUME ~stale' PROVE Synced'
    <3>1. Synced
      BY <2>2, StaleStays DEF SocketInv
    <3>. QED
      BY <2>2, <3>1, ConnectStep, SendCommandStep, CallReceiveReplyStep, RecvStep,
         RecvFailsStep, MonitorEchoesStep, MonitorExecutesStep, LoseConnectionStep,
         SocketStutter
         DEF Next, Client, Monitor
  <2>. QED
    BY <2>1, <2>2 DEF SocketInv
<1>. QED
  BY <1>1, <1>2, PTL DEF Spec

\* Stream, buffer and counters keep their types; the buffer never outgrows BUFLEN,
\* however much each recv delivers and whatever the buffer held.
THEOREM SocketTypeCorrect == Spec => []TypeOK
<1>1. SocketInv => TypeOK
  BY DEF SocketInv
<1>. QED
  BY <1>1, SocketInvariance, PTL

\* As long as no call found an old mark in its buffer, ReceiveReply never reports
\* the end of a reply to a command that the monitor has not executed.
THEOREM EOFMeansDoneHolds == Spec => []EOFMeansDoneUnlessStale
<1>1. SocketInv => EOFMeansDoneUnlessStale
  BY DEF SocketInv, Synced, TypeOK, Requests, EOFMeansDone, EOFMeansDoneUnlessStale
<1>. QED
  BY <1>1, SocketInvariance, PTL

\* Between two commands no end of an old reply is left in the stream, with the
\* same proviso.
THEOREM RepliesInSyncHolds == Spec => []RepliesInSync
<1>1. SocketInv => RepliesInSync
  BY DEF SocketInv, Synced, Marks, RepliesInSync, Contains
<1>. QED
  BY <1>1, SocketInvariance, PTL

\* Every step of the socket, the monitor and the network is a step of the request
\* and reply protocol that main() relies on, or a stutter, up to the call that finds
\* an old mark: only that one, and what follows it, are MixUp.
THEOREM RefinesRpc == Spec => Rpc!Init /\ [][Rpc!Next]_(Rpc!vars)
<1> USE DEF Rpc!vars
<1>1. Init => Rpc!Init
  BY DEF Init, Rpc!Init
<1>2. SocketInv /\ SocketInv' /\ [Next]_vars => [Rpc!Next]_(Rpc!vars)
  <2> SUFFICES ASSUME SocketInv, SocketInv', [Next]_vars PROVE [Rpc!Next]_(Rpc!vars)
    OBVIOUS
  <2>1. CASE stale'
    <3>1. sent' \in Nat /\ executed' \in Nat /\ returned' \in Nat
      BY SocketAssumption DEF SocketInv, TypeOK
    <3>2. (connected /\ ~cut)' \in BOOLEAN
      BY DEF SocketInv, TypeOK
    <3>3. stale' = TRUE
      BY <2>1 DEF SocketInv, TypeOK
    <3>. QED
      BY <3>1, <3>2, <3>3 DEF Rpc!Next, Rpc!MixUp
  <2>2. CASE ~stale'
    <3>1. Synced /\ stale' = stale
      BY <2>2, StaleStays DEF SocketInv, TypeOK
    <3> USE DEF Synced, TypeOK, Rpc!Next, Rpc!Request, Rpc!Execute, Rpc!Return,
        Rpc!GoDown, Rpc!ComeUp
    <3>2. CASE Connect
      BY <3>1, <3>2 DEF Connect, Requests
    <3>3. CASE SendCommand
      BY <3>1, <3>3 DEF SendCommand, Requests, Marks
    <3>4. CASE CallReceiveReply \/ RecvFails \/ MonitorEchoes
      BY <3>1, <3>4 DEF CallReceiveReply, RecvFails, MonitorEchoes
    <3>5. CASE Recv
      <4>1. PICK n \in 1..Len(stream) :
               /\ n <= BufLen
               /\ cut' = (cut \/ CutsMark(n))
               /\ buffer' = Overlay(buffer, SubSeq(stream, 1, n))
               /\ IF HasMark(buffer') THEN returned' = returned + 1 ELSE UNCHANGED returned
        BY <3>5 DEF Recv
      <4>2. client = "receiving" /\ UNCHANGED <<connected, sent, executed>>
        BY <3>5 DEF Recv
      <4>3. HasMark(buffer') => n = Len(stream) /\ executed = returned + 1
        BY <3>1, <4>1, <4>2, RecvMarks
      <4>4. HasMark(buffer') => cut' = cut
        BY <3>1, <4>1, <4>3 DEF CutsMark
      <4>. QED
        BY <3>1, <4>1, <4>2, <4>3, <4>4
    <3>6. CASE MonitorExecutes
      BY <3>1, <3>6 DEF MonitorExecutes
    <3>7. CASE LoseConnection
      BY <3>1, <3>7 DEF LoseConnection
    <3>8. CASE UNCHANGED vars
      BY <3>8 DEF vars
    <3>. QED
      BY <3>2, <3>3, <3>4, <3>5, <3>6, <3>7, <3>8 DEF Next, Client, Monitor
  <2>. QED
    BY <2>1, <2>2
<1>. QED
  BY <1>1, <1>2, SocketInvariance, PTL DEF Spec
=============================================================================
