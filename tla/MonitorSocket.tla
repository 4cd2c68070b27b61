--------------------------- MODULE MonitorSocket ---------------------------
(***************************************************************************)
(* ClientSocket: the harness's side of the TCP connection to the QEMU      *)
(* monitor, byte for byte as far as finding the end of a reply goes.       *)
(*                                                                         *)
(* The monitor echoes a command while it reads it, executes it, and ends   *)
(* its output with the mark "cmEOF".  The stream carries cells: text, and  *)
(* the two halves of a mark.  recv hands out any non-empty prefix of what  *)
(* has arrived.  ReceiveReply looks for the mark in a buffer on its stack  *)
(* that it neither initialises nor terminates: an earlier call's reply may *)
(* still be there.                                                         *)
(***************************************************************************)
EXTENDS Naturals, Sequences, SequencesExt

CONSTANTS MaxCmds,     \* bound on the number of commands of one run
          MaxText,     \* bound on the text cells of an echo or an output
          BufLen       \* cells of the buffer (BUFLEN)

ASSUME SocketAssumption ==
    MaxCmds \in Nat /\ MaxText \in Nat /\ BufLen \in Nat \ {0}

VARIABLES
    client,     \* what main() is at
    connected,  \* the TCP connection stands
    sent,       \* commands sent over a standing connection
    executed,   \* commands the monitor has executed
    returned,   \* ReceiveReply calls that returned eNone
    echoed,     \* the monitor has echoed the command it is about to execute
    stream,     \* cells on their way to the client
    buffer,     \* ReceiveReply's stack buffer
    cut,        \* observation: recv has handed out a mark in two pieces
    stale       \* observation: a call found an old mark in its buffer

vars == <<client, connected, sent, executed, returned, echoed, stream, buffer, cut, stale>>

Cell == {"text", "cm", "EOF", "NUL"}
Mark == <<"cm", "EOF">>
Text(n) == [i \in 1..n |-> "text"]
Blank   == [i \in 1..BufLen |-> "NUL"]

TypeOK ==
    /\ client \in {"start", "idle", "sent", "receiving", "stopped"}
    /\ connected \in BOOLEAN
    /\ sent \in 0..MaxCmds /\ executed \in 0..MaxCmds /\ returned \in Nat
    /\ echoed \in BOOLEAN
    /\ stream \in Seq(Cell \ {"NUL"})
    /\ buffer \in [1..BufLen -> Cell]
    /\ cut \in BOOLEAN /\ stale \in BOOLEAN

Init ==
    /\ client = "start"
    /\ connected = FALSE
    /\ sent = 0 /\ executed = 0 /\ returned = 0
    /\ echoed = FALSE
    /\ stream = <<>>
    /\ buffer = Blank
    /\ cut = FALSE /\ stale = FALSE
-----------------------------------------------------------------------------
(* The client *)

\* ClientSocket::Init; the monitor greets a new connection.
Connect ==
    /\ client = "start"
    /\ \/ /\ client' = "idle" /\ connected' = TRUE
          /\ \E n \in 0..MaxText : stream' = Text(n)
       \/ client' = "stopped" /\ UNCHANGED <<connected, stream>>
    /\ UNCHANGED <<sent, executed, returned, echoed, buffer, cut, stale>>

\* On a lost connection send may fail, and main stops, or still report success.
SendCommand ==
    /\ client = "idle"
    /\ sent < MaxCmds
    /\ \/ client' = "sent" /\ sent' = IF connected THEN sent + 1 ELSE sent
       \/ client' = "stopped" /\ sent' = sent
    /\ UNCHANGED <<connected, executed, returned, echoed, stream, buffer, cut, stale>>

\* The end of a mark where no first chunk is sure to cover it.
HoldsOldMark(b) == \E i \in 2..BufLen : b[i] = "EOF"

\* ReceiveReply is called.  Its buffer is uninitialised: each cell is as an earlier
\* call left it at the same place of the stack, or something else was there since.
CallReceiveReply ==
    /\ client = "sent"
    /\ client' = "receiving"
    /\ \E kept \in SUBSET (1..BufLen) :
         buffer' = [i \in 1..BufLen |-> IF i \in kept THEN buffer[i] ELSE "NUL"]
    /\ stale' = (stale \/ HoldsOldMark(buffer'))
    /\ UNCHANGED <<connected, sent, executed, returned, echoed, stream, cut>>

\* Bug: the search is for the first half of the mark.
HasMarkHead(b) == \E i \in 1..BufLen : b[i] = "cm" /\ \A j \in 1..i : b[j] # "NUL"

\* Bug: the result of find is tested as if 0 meant "not found".
HasMarkLater(b) == \E i \in 2..(BufLen - 1) :
                      /\ b[i] = "cm" /\ b[i + 1] = "EOF"
                      /\ \A j \in 1..i : b[j] # "NUL"

\* string compare(buffer); compare.find("cmEOF"): the string ends at a NUL.
HasMark(b) == \E i \in 1..(BufLen - 1) :
                 /\ b[i] = "cm" /\ b[i + 1] = "EOF"
                 /\ \A j \in 1..i : b[j] # "NUL"

CutsMark(n) == n < Len(stream) /\ stream[n] = "cm"

\* Bug: a chunk is stored whatever room there is.
OverlayUnbounded(b, chunk) == chunk \o b

Overlay(b, chunk) == [i \in 1..BufLen |-> IF i <= Len(chunk) THEN chunk[i] ELSE b[i]]

\* Bug: one recv is taken for the whole reply.
RecvOneChunk ==
    /\ client = "receiving"
    /\ \E n \in 1..Len(stream) :
         /\ n <= BufLen
         /\ cut' = (cut \/ CutsMark(n))
         /\ buffer' = Overlay(buffer, SubSeq(stream, 1, n))
         /\ stream' = SubSeq(stream, n + 1, Len(stream))
    /\ client' = "idle" /\ returned' = returned + 1
    /\ UNCHANGED <<connected, sent, executed, echoed, stale>>

\* One iteration of the loop: every chunk lands at the start of the buffer, over
\* the one before it.
Recv ==
    /\ client = "receiving"
    /\ \E n \in 1..Len(stream) :
         /\ n <= BufLen
         /\ cut' = (cut \/ CutsMark(n))
         /\ buffer' = Overlay(buffer, SubSeq(stream, 1, n))
         /\ stream' = SubSeq(stream, n + 1, Len(stream))
         /\ IF HasMark(buffer') THEN client' = "idle" /\ returned' = returned + 1
                                ELSE UNCHANGED <<client, returned>>
    /\ UNCHANGED <<connected, sent, executed, echoed, stale>>

\* Bug: recv's failure is taken for the end of the reply.
RecvFailureIsReply ==
    /\ client = "receiving"
    /\ ~connected /\ stream = <<>>
    /\ client' = "idle" /\ returned' = returned + 1
    /\ UNCHANGED <<connected, sent, executed, echoed, stream, buffer, cut, stale>>

\* recv returns 0 or -1: ReceiveReply returns eOther, which main ignores.
RecvFails ==
    /\ client = "receiving"
    /\ ~connected /\ stream = <<>>
    /\ client' = "idle"
    /\ UNCHANGED <<connected, sent, executed, returned, echoed, stream, buffer, cut, stale>>
-----------------------------------------------------------------------------
(* The monitor, and the network *)

MonitorEchoes ==
    /\ connected
    /\ executed < sent /\ ~echoed
    /\ \E n \in 0..MaxText : stream' = stream \o Text(n)
    /\ echoed' = TRUE
    /\ UNCHANGED <<client, connected, sent, executed, returned, buffer, cut, stale>>

MonitorExecutes ==
    /\ executed < sent /\ echoed
    /\ executed' = executed + 1
    /\ echoed' = FALSE
    /\ IF connected THEN \E n \in 0..MaxText : stream' = stream \o Text(n) \o Mark
                    ELSE stream' = stream
    /\ UNCHANGED <<client, connected, sent, returned, buffer, cut, stale>>

\* The connection breaks; cells that have not arrived are lost.
LoseConnection ==
    /\ connected
    /\ connected' = FALSE
    /\ \E n \in 0..Len(stream) : stream' = SubSeq(stream, 1, n)
    /\ UNCHANGED <<client, sent, executed, returned, echoed, buffer, cut, stale>>

Client  == Connect \/ SendCommand \/ CallReceiveReply \/ Recv \/ RecvFails
Monitor == MonitorEchoes \/ MonitorExecutes

Next == Client \/ Monitor \/ LoseConnection

\* The process runs, QEMU serves the monitor, and what was sent arrives.
Spec == Init /\ [][Next]_vars /\ WF_vars(Client) /\ WF_vars(Monitor)
-----------------------------------------------------------------------------
(* Properties *)

\* main.cpp, step 5: "the replay is complete, when we receive EOF".  ReceiveReply
\* never returns eNone for a command that has not been executed.
EOFMeansDone == returned <= executed

\* So it is for as long as no call found an old mark in its buffer.
EOFMeansDoneUnlessStale == ~stale => EOFMeansDone

\* Between two commands nothing of the previous reply is left in the stream that
\* could be taken for the end of the next one, with the same proviso.
RepliesInSync == client = "idle" /\ ~stale => ~Contains(stream, "EOF")

\* Each call of ReceiveReply returns (README: the terminating string is there
\* "to detect end of communication").
ReplyReturns == [](client = "receiving" => <>(client # "receiving"))

\* Each call of ReceiveReply returns, also when the connection is lost before or
\* during it, as long as no recv cuts a mark in two.
ReplyReturnsUnlessCut == [](client = "receiving" => <>(client # "receiving" \/ cut))

\* The connection implements what main expects of it: requests are executed and
\* answered one after the other.  A mark cut in two looks to main like a
\* connection that went down; with a stale buffer main takes any reply for its own.
Rpc == INSTANCE MonitorRpc WITH up <- connected /\ ~cut, mixed <- stale
RpcSpec == Rpc!Spec
-----------------------------------------------------------------------------
(* The inductive invariant: one command at a time, and at most one mark, the *)
(* last of what is in the stream.                                            *)

\* main sends a command when it has taken the reply to the one before.
Requests ==
    /\ sent \in {returned, returned + 1}
    /\ executed \in {returned, sent}
    /\ echoed => executed < sent
    /\ client = "start" => ~connected /\ sent = 0 /\ stream = <<>> /\ ~cut
    /\ connected /\ client = "idle" => sent = returned
    /\ connected /\ client \in {"sent", "receiving"} => sent = returned + 1

\* A mark, or what is left of one, is there only while its reply is awaited.
Marks ==
    /\ \A i \in 1..Len(stream) :
          /\ stream[i] = "EOF" => i = Len(stream) /\ client # "idle"
          /\ stream[i] = "EOF" /\ i > 1 => stream[i - 1] = "cm"
          /\ stream[i] = "cm" => i + 1 >= Len(stream)
          /\ stream[i] \in {"cm", "EOF"} => executed = returned + 1
          /\ stream[i] = "cm" /\ i + 1 = Len(stream) => stream[i + 1] = "EOF"
    /\ cut => executed = returned + 1 /\ Len(stream) <= 1
    /\ cut /\ connected => client = "receiving"

\* The second half of a mark stays in the buffer only where the next chunk will
\* cover it.
Buffered == client = "receiving" => \A i \in 1..BufLen : buffer[i] = "EOF" => i = 1

Synced == TypeOK /\ Requests /\ Marks /\ Buffered

\* After a stale buffer only the types are known.
SocketInv == TypeOK /\ (~stale => Synced)
=============================================================================
