--------------------------- MODULE HarnessProofs ---------------------------
(***************************************************************************)
(* Proofs about Harness, for all constants: type correctness, the          *)
(* inductive invariant, and from it the safety properties.                 *)
(***************************************************************************)
EXTENDS HarnessInv, TLAPS

(* Lemmas about traces and images *)

\* An entry of type WRITE names an offset and a value.
LEMMA WriteEntry ==
    ASSUME NEW e \in Entry
    PROVE  /\ e.type \in {"WRITE", "FLUSH", "FENCE"}
           /\ e.type = "WRITE" => e.addr \in Addr /\ e.val \in Val
  BY DEF Entry, WriteOf, FlushOf, Fence

\* The three kinds of entries that log_output appends.
LEMMA LoggedEntry ==
    /\ \A a \in Addr, v \in Val : WriteOf(a, v) \in Entry
    /\ \A a \in Addr : FlushOf(a) \in Entry
    /\ Fence \in Entry
  BY DEF Entry

\* One iteration of the replayer turns a device into a device.
LEMMA ApplyDevice ==
    ASSUME NEW image \in Device, NEW e \in Entry
    PROVE  Apply(image, e) \in Device
  BY WriteEntry DEF Apply, Device

\* A trace determines the image: two images that agree with it at an offset are
\* the same there.
LEMMA AgreesUnique ==
    ASSUME NEW t \in Seq(Entry), NEW n \in 0..Len(t), NEW a, NEW base,
           NEW x, NEW y,
           Agrees(x, base, t, n, a), Agrees(y, base, t, n, a)
    PROVE  x[a] = y[a]
<1> DEFINE Last(i) == /\ i \in 1..n /\ Writes(t, i, a)
                      /\ \A j \in (i + 1)..n : ~Writes(t, j, a)
<1>1. ASSUME NEW i, NEW j, Last(i), Last(j) PROVE i = j
  BY <1>1
<1>2. CASE \A i \in 1..n : ~Writes(t, i, a)
  BY <1>2 DEF Agrees
<1>3. CASE \E i \in 1..n : Writes(t, i, a)
  <2>1. PICK i : Last(i) /\ x[a] = t[i].val
    BY <1>3 DEF Agrees
  <2>2. PICK j : Last(j) /\ y[a] = t[j].val
    BY <1>3 DEF Agrees
  <2> QED BY <1>1, <2>1, <2>2
<1> QED BY <1>2, <1>3

\* Consuming the next entry keeps an image in step with the trace.
LEMMA AgreesApply ==
    ASSUME NEW t \in Seq(Entry), NEW n \in 0..Len(t), n < Len(t), NEW a \in Addr,
           NEW base, NEW x \in Device, Agrees(x, base, t, n, a)
    PROVE  Agrees(Apply(x, t[n + 1]), base, t, n + 1, a)
<1> DEFINE m == n + 1
           y == Apply(x, t[m])
<1>1. m \in 1..Len(t) /\ t[m] \in Entry
  OBVIOUS
<1>2. CASE Writes(t, m, a)
  <2>1. y[a] = t[m].val
    BY <1>2 DEF Writes, Apply, Device
  <2>2. m \in 1..m /\ \A j \in (m + 1)..m : ~Writes(t, j, a)
    BY <1>1
  <2> QED BY <1>2, <2>1, <2>2 DEF Agrees
<1>3. CASE ~Writes(t, m, a)
  <2>1. y[a] = x[a]
    BY <1>1, <1>3, WriteEntry DEF Writes, Apply, Device
  <2>2. CASE \A i \in 1..n : ~Writes(t, i, a)
    <3>1. \A i \in 1..m : ~Writes(t, i, a)
      BY <1>3, <2>2
    <3> QED BY <2>1, <2>2, <3>1 DEF Agrees
  <2>3. CASE \E i \in 1..n : Writes(t, i, a)
    <3>1. PICK i \in 1..n : /\ Writes(t, i, a)
                            /\ \A j \in (i + 1)..n : ~Writes(t, j, a)
                            /\ x[a] = t[i].val
      BY <2>3 DEF Agrees
    <3>2. i \in 1..m /\ \A j \in (i + 1)..m : ~Writes(t, j, a)
      BY <1>3, <3>1
    <3> QED BY <2>1, <3>1, <3>2 DEF Agrees
  <2> QED BY <2>2, <2>3
<1> QED BY <1>2, <1>3

\* Consuming an entry a second time changes nothing.
LEMMA AgreesReapply ==
    ASSUME NEW t \in Seq(Entry), NEW n \in 1..Len(t), NEW a \in Addr,
           NEW base, NEW x \in Device, Agrees(x, base, t, n, a)
    PROVE  Agrees(Apply(x, t[n]), base, t, n, a)
<1> DEFINE y == Apply(x, t[n])
<1>1. t[n] \in Entry
  OBVIOUS
<1>2. CASE Writes(t, n, a)
  <2>1. y[a] = t[n].val
    BY <1>2 DEF Writes, Apply, Device
  <2>2. n \in 1..n /\ \A j \in (n + 1)..n : ~Writes(t, j, a)
    OBVIOUS
  <2> QED BY <1>2, <2>1, <2>2 DEF Agrees
<1>3. CASE ~Writes(t, n, a)
  <2>1. y[a] = x[a]
    BY <1>1, <1>3, WriteEntry DEF Writes, Apply, Device
  <2> QED BY <2>1 DEF Agrees
<1> QED BY <1>2, <1>3

\* What a trace says does not change when entries are added behind it.
LEMMA AgreesPrefix ==
    ASSUME NEW t \in Seq(Entry), NEW e \in Entry, NEW n \in 0..Len(t), NEW a,
           NEW base, NEW x
    PROVE  Agrees(x, base, Append(t, e), n, a) <=> Agrees(x, base, t, n, a)
<1>1. \A i \in 1..n : Append(t, e)[i] = t[i]
  OBVIOUS
<1>2. \A i \in 1..n : Writes(Append(t, e), i, a) <=> Writes(t, i, a)
  BY <1>1 DEF Writes
<1>3. \A i \in 1..n : \A j \in (i + 1)..n : j \in 1..n
  OBVIOUS
<1> QED BY <1>1, <1>2, <1>3 DEF Agrees

\* The tracker logs an entry when the device has taken it: the image and the
\* trace stay in step.
LEMMA AgreesAppend ==
    ASSUME NEW t \in Seq(Entry), NEW e \in Entry, NEW a \in Addr,
           NEW base, NEW x \in Device, Agrees(x, base, t, Len(t), a)
    PROVE  Agrees(Apply(x, e), base, Append(t, e), Len(Append(t, e)), a)
<1> DEFINE u == Append(t, e)
<1>1. u \in Seq(Entry) /\ Len(u) = Len(t) + 1 /\ u[Len(t) + 1] = e
  OBVIOUS
<1>2. Len(t) \in 0..Len(t) /\ Len(t) \in 0..Len(u) /\ Len(t) < Len(u)
  BY <1>1
<1>3. Agrees(x, base, u, Len(t), a)
  BY <1>2, AgreesPrefix
<1>4. Agrees(Apply(x, u[Len(t) + 1]), base, u, Len(t) + 1, a)
  BY <1>1, <1>2, <1>3, AgreesApply
<1> QED BY <1>1, <1>4
-----------------------------------------------------------------------------
(* Type correctness *)

\* The frames of the actions, and the definitions that name types.
USE DEF Goto, FailTo, Quit, hostVars, harnessVars, obsVars, vars,
        KeepHost, KeepRun, KeepMount, KeepObs, Local, LeaveCleanup, Busy

\* Steps that leave the host alone keep its types.
LEMMA HostKept == PandaTypeOK /\ KeepHost => PandaTypeOK'
  BY DEF PandaTypeOK

\* So does a command put on its way.
LEMMA HostSent ==
    ASSUME PandaTypeOK, NEW c \in Command, cmds' \in {cmds, Append(cmds, c)},
           UNCHANGED <<record, replay, plugins, trace, written, replaying, rpos>>
    PROVE  PandaTypeOK'
<1>1. cmds \in Seq(Command)
  BY DEF PandaTypeOK
<1>2. cmds' \in Seq(Command)
  BY <1>1
<1> QED BY <1>2 DEF PandaTypeOK

\* The first state is well typed.
LEMMA InitTypeOK == Init => TypeOK
<1> SUFFICES ASSUME Init PROVE TypeOK
  OBVIOUS
<1>1. trace \in Seq(Entry) /\ plugins \in Seq({"writetracker", "replayer", "other"})
  BY ConfigAssumption DEF Init
<1>2. Len(trace) \in 0..Len(trace) /\ 0 \in 0..Len(trace) /\ <<>> \in Seq(Command)
  BY <1>1
<1>3. PandaTypeOK
  BY <1>1, <1>2 DEF Init, PandaTypeOK
<1>4. crash \in Device /\ snap \in [Addr -> Val \cup {None}] /\ lost \in SUBSET Addr
  BY DEF Init
<1> QED BY <1>3, <1>4 DEF Init, TypeOK, PCs

\* Every step of main() keeps the types; that the restored snapshot is complete is
\* needed for what dd writes to the replay device.
LEMMA MainTypeOK == TypeOK /\ SnapshotComplete /\ Main => TypeOK'
<1> SUFFICES ASSUME TypeOK, SnapshotComplete, Main PROVE TypeOK'
  OBVIOUS
<1> USE HostKept DEF TypeOK
<1>0. pc' \in PCs
  BY DEF PCs, Main, LoadTest, Connect, Format, UmountInit, SnapshotCopy, SnapshotEnds,
     RestoreSnapshot, MountInit, SendLoadTracker, AwaitLoadTracker, RunWorkload, ForkTest,
     GetChanges, SendUnloadTracker, AwaitUnloadTracker, Umount, SendLoadReplayer,
     AwaitLoadReplayer, SendUnloadReplayer, AwaitUnloadReplayer, Send, Await,
     MountReplay, MountRecord, Compare, Cleanup, UmountReplay
<1>1. CASE LoadTest
  BY <1>0, <1>1 DEF LoadTest
<1>2. CASE Connect
  BY <1>0, <1>2 DEF Connect
<1>3. CASE Format
  BY <1>0, <1>3 DEF Format
<1>4. CASE UmountInit
  BY <1>0, <1>4 DEF UmountInit
<1>5. CASE \E a \in Addr : SnapshotCopy(a)
  BY <1>0, <1>5 DEF SnapshotCopy, PandaTypeOK, Device
<1>6. CASE SnapshotEnds
  BY <1>0, <1>6 DEF SnapshotEnds
<1>7. CASE RestoreSnapshot
  BY <1>0, <1>7 DEF RestoreSnapshot, SnapshotComplete, PandaTypeOK, Device
<1>8. CASE MountInit
  BY <1>0, <1>8 DEF MountInit
<1>9. CASE SendLoadTracker
  BY <1>0, <1>9, HostSent DEF SendLoadTracker, Send, Command
<1>10. CASE AwaitLoadTracker
  BY <1>0, <1>10 DEF AwaitLoadTracker, Await
<1>11. CASE RunWorkload
  BY <1>0, <1>11 DEF RunWorkload
<1>12. CASE ForkTest
  BY <1>0, <1>12 DEF ForkTest, ChangeFile
<1>13. CASE GetChanges
  BY <1>0, <1>13 DEF GetChanges
<1>14. CASE SendUnloadTracker
  BY <1>0, <1>14, HostSent DEF SendUnloadTracker, Send, Command
<1>15. CASE AwaitUnloadTracker
  BY <1>0, <1>15 DEF AwaitUnloadTracker, Await
<1>16. CASE Umount
  BY <1>0, <1>16 DEF Umount
<1>17. CASE SendLoadReplayer
  BY <1>0, <1>17, HostSent DEF SendLoadReplayer, Send, Command
<1>18. CASE AwaitLoadReplayer
  BY <1>0, <1>18 DEF AwaitLoadReplayer, Await
<1>19. CASE SendUnloadReplayer
  BY <1>0, <1>19, HostSent DEF SendUnloadReplayer, Send, Command
<1>20. CASE AwaitUnloadReplayer
  BY <1>0, <1>20 DEF AwaitUnloadReplayer, Await
<1>21. CASE MountReplay
  BY <1>0, <1>21 DEF MountReplay
<1>22. CASE MountRecord
  BY <1>0, <1>22 DEF MountRecord
<1>23. CASE Compare
  BY <1>0, <1>23 DEF Compare
<1>24. CASE Cleanup
  BY <1>0, <1>24 DEF Cleanup
<1>25. CASE UmountReplay
  BY <1>0, <1>25 DEF UmountReplay
<1> QED BY <1>1, <1>2, <1>3, <1>4, <1>5, <1>6, <1>7, <1>8, <1>9, <1>10, <1>11, <1>12, <1>13, <1>14, <1>15, <1>16, <1>17, <1>18, <1>19, <1>20, <1>21, <1>22, <1>23, <1>24, <1>25 DEF Main

\* The steps of the guest and of the host: a store of the guest.
LEMMA StoreType ==
    ASSUME PandaTypeOK, NEW a \in Addr, NEW v \in Val, Store(a, v)
    PROVE  PandaTypeOK'
<1> USE DEF PandaTypeOK
<1>1. record' \in Device
  BY DEF Store, Device
<1>2. CASE ~Tracking
  BY <1>1, <1>2 DEF Store
<1>3. CASE Tracking
  <2>1. WriteOf(a, v) \in Entry /\ trace' = Append(trace, WriteOf(a, v))
    BY <1>3, LoggedEntry DEF Store, log_output
  <2>2. trace' \in Seq(Entry) /\ Len(trace') = Len(trace) + 1
    BY <2>1
  <2> QED BY <1>1, <2>2 DEF Store
<1> QED BY <1>2, <1>3

\* A flush or a fence keeps the types of the host.
LEMMA FlushType == PandaTypeOK /\ FlushOrFence => PandaTypeOK'
<1> SUFFICES ASSUME PandaTypeOK, FlushOrFence PROVE PandaTypeOK'
  OBVIOUS
<1>1. PICK e \in Entry : trace' = Append(trace, e)
  BY LoggedEntry DEF FlushOrFence, log_output
<1>2. trace' \in Seq(Entry) /\ Len(trace') = Len(trace) + 1
  BY <1>1 DEF PandaTypeOK
<1> QED BY <1>2 DEF FlushOrFence, PandaTypeOK

\* Every command the monitor carries out keeps the types of the host.
LEMMA HostType ==
    PandaTypeOK /\ MonitorBusy /\
      (LoadRefused \/ UnloadFirst \/ LoadWritetracker \/ LoadReplayer
                      \/ ReplayEntry \/ ReplayAtEnd \/ SpillTrace) => PandaTypeOK'
<1> SUFFICES ASSUME PandaTypeOK, MonitorBusy PROVE
      LoadRefused \/ UnloadFirst \/ LoadWritetracker \/ LoadReplayer
        \/ ReplayEntry \/ ReplayAtEnd \/ SpillTrace => PandaTypeOK'
  OBVIOUS
<1> USE DEF PandaTypeOK
<1>1. CASE LoadRefused
  BY <1>1 DEF LoadRefused
<1>2. CASE UnloadFirst
  BY <1>2 DEF UnloadFirst
<1>3. CASE LoadWritetracker
  <2>1. trace' \in Seq(Entry) /\ Len(trace') = 0 /\ cmds' \in Seq(Command)
    BY <1>3 DEF LoadWritetracker
  <2>2. plugins' \in Seq({"writetracker", "replayer", "other"})
    BY <1>3 DEF LoadWritetracker
  <2> QED BY <1>3, <2>1, <2>2 DEF LoadWritetracker
<1>4. CASE LoadReplayer
  BY <1>4 DEF LoadReplayer
<1>5. CASE ReplayEntry
  <2>1. rpos + 1 \in 1..Len(trace)
    BY <1>5 DEF ReplayEntry
  <2>2. trace[rpos + 1] \in Entry
    BY <2>1
  <2>3. replay' \in Device
    BY <1>5, <2>2, ApplyDevice DEF ReplayEntry
  <2> QED BY <1>5, <2>1, <2>3 DEF ReplayEntry
<1>6. CASE ReplayAtEnd
  <2>1. ASSUME rpos > 0 PROVE trace[rpos] \in Entry
    BY <2>1
  <2>2. replay' \in Device
    <3>1. CASE rpos > 0 /\ written = Len(trace)
      BY <1>6, <2>1, <3>1, ApplyDevice DEF ReplayAtEnd, StaleIteration
    <3>2. CASE ~(rpos > 0 /\ written = Len(trace))
      BY <1>6, <3>2 DEF ReplayAtEnd, GarbageIteration, Device
    <3> QED BY <3>1, <3>2
  <2>3. cmds' \in Seq(Command) /\ plugins' \in Seq({"writetracker", "replayer", "other"})
    BY <1>6 DEF ReplayAtEnd, MonitorBusy
  <2> QED BY <1>6, <2>2, <2>3 DEF ReplayAtEnd
<1>7. CASE SpillTrace
  BY <1>7 DEF SpillTrace
<1> QED BY <1>1, <1>2, <1>3, <1>4, <1>5, <1>6, <1>7

\* The two facts that type correctness rests on hold at the start.
LEMMA WellformedInit == Init => SnapshotComplete /\ MonitorBusy
  BY DEF Init, SnapshotComplete, MonitorBusy

\* A snapshot is complete when it is restored: dd leaves only with all copied.
LEMMA SnapshotCompleteStep ==
    ASSUME TypeOK, SnapshotComplete, [Next]_vars
    PROVE  SnapshotComplete'
<1> USE DEF SnapshotComplete
<1>1. CASE Main
  <2>1. CASE \E a \in Addr : SnapshotCopy(a)
    BY <2>1 DEF SnapshotCopy
  <2>2. CASE SnapshotEnds
    BY <2>2 DEF SnapshotEnds
  <2>4. CASE ~(\E a \in Addr : SnapshotCopy(a)) /\ ~SnapshotEnds
    BY <1>1, <2>4 DEF Main, LoadTest, Connect, Format, UmountInit, RestoreSnapshot,
       MountInit, SendLoadTracker, AwaitLoadTracker, RunWorkload, ForkTest, GetChanges,
       SendUnloadTracker, AwaitUnloadTracker, Umount, SendLoadReplayer,
       AwaitLoadReplayer, SendUnloadReplayer, AwaitUnloadReplayer, Send, Await,
       MountReplay, MountRecord, Compare, Cleanup, UmountReplay
  <2> QED BY <2>1, <2>2, <2>4
<1>2. CASE UNCHANGED harnessVars
  BY <1>2
<1> QED BY <1>1, <1>2 DEF Next, Guest, Host, HostSpills, Terminated, GuestStore,
           GuestStoreReplay, GuestFlush, HostRefuses, HostUnloads, HostWorks

\* The replayer runs only under the load command that started it.
LEMMA MonitorBusyStep ==
    ASSUME TypeOK, MonitorBusy, [Next]_vars
    PROVE  MonitorBusy'
<1> USE DEF MonitorBusy
<1>1. cmds \in Seq(Command)
  BY DEF TypeOK, PandaTypeOK
<1>2. CASE Main
  <2>1. CASE SendLoadTracker \/ SendUnloadTracker \/ SendLoadReplayer \/ SendUnloadReplayer
    <3>1. \A c \in Command : Append(cmds, c) # <<>>
      BY <1>1
    <3> QED BY <2>1, <3>1 DEF Command, SendLoadTracker, SendUnloadTracker, SendLoadReplayer,
                      SendUnloadReplayer, Send
  <2>2. CASE UNCHANGED <<cmds, replaying>>
    BY <2>2
  <2> QED BY <1>2, <2>1, <2>2 DEF Main, LoadTest, Connect, Format, UmountInit,
       SnapshotCopy, SnapshotEnds, RestoreSnapshot, MountInit, AwaitLoadTracker,
       RunWorkload, ForkTest, GetChanges, AwaitUnloadTracker, Umount,
       AwaitLoadReplayer, AwaitUnloadReplayer, Await,
       MountReplay, MountRecord, Compare, Cleanup, UmountReplay
<1>3. CASE Host
  BY <1>3 DEF Host, HostRefuses, HostUnloads, HostWorks, LoadRefused, UnloadFirst,
       LoadWritetracker, LoadReplayer, ReplayEntry, ReplayAtEnd
<1>4. CASE UNCHANGED <<cmds, replaying>>
  BY <1>4
<1> QED BY <1>2, <1>3, <1>4 DEF Next, Guest, HostSpills, Terminated, GuestStore,
       GuestStoreReplay, GuestFlush, Store, FlushOrFence, SpillTrace

\* Every step keeps the types.
LEMMA NextTypeOK ==
    ASSUME TypeInv, [Next]_vars
    PROVE  TypeOK'
<1> USE DEF TypeInv
<1>1. CASE Main
  BY <1>1, MainTypeOK
<1>2. ASSUME PandaTypeOK', UNCHANGED harnessVars, UNCHANGED <<crash, crashed, monitorOk, refused>>,
             lost' \in SUBSET Addr
      PROVE  TypeOK'
  BY <1>2 DEF TypeOK
<1>3. ASSUME NEW a \in Addr, NEW v \in Val, GuestStore(a, v)
      PROVE  TypeOK'
  BY <1>2, <1>3, StoreType DEF GuestStore, TypeOK
<1>4. ASSUME NEW a \in Addr, NEW v \in Val, GuestStoreReplay(a, v)
      PROVE  TypeOK'
  BY <1>4 DEF GuestStoreReplay, TypeOK, PandaTypeOK, Device
<1>5. CASE GuestFlush
  BY <1>2, <1>5, FlushType DEF GuestFlush, TypeOK
<1>6. CASE HostRefuses
  BY <1>6, HostType DEF HostRefuses, TypeOK
<1>7. CASE HostUnloads
  <2>1. crash' \in Device /\ crashed' \in BOOLEAN
    BY <1>7 DEF HostUnloads, TypeOK, PandaTypeOK
  <2> QED BY <1>7, <2>1, HostType DEF HostUnloads, TypeOK
<1>8. CASE HostWorks
  BY <1>2, <1>8, HostType DEF HostWorks, TypeOK
<1>9. CASE HostSpills
  BY <1>2, <1>9, HostType DEF HostSpills, TypeOK
<1>10. CASE UNCHANGED vars
  BY <1>2, <1>10 DEF TypeOK, PandaTypeOK
<1> QED BY <1>1, <1>3, <1>4, <1>5, <1>6, <1>7, <1>8, <1>9, <1>10
           DEF Next, Guest, Host, Terminated

\* The inductive form of type correctness holds in every reachable state.
LEMMA TypeInvariance == Spec => []TypeInv
<1>1. Init => TypeInv
  BY InitTypeOK, WellformedInit DEF TypeInv
<1>2. TypeInv /\ [Next]_vars => TypeInv'
  BY NextTypeOK, SnapshotCompleteStep, MonitorBusyStep DEF TypeInv
<1> QED BY <1>1, <1>2, PTL DEF Spec

\* Type correctness: every variable of the harness, the host and the
\* observations keeps its type for every device, file system and old trace.
THEOREM TypeCorrect == Spec => []TypeOK
<1>1. TypeInv => TypeOK
  BY DEF TypeInv
<1> QED BY <1>1, TypeInvariance, PTL
-----------------------------------------------------------------------------
(* The inductive invariant: control *)

\* The queue holds at most one command and the list at most one plugin, so the
\* sequence operators meet these sequences only.
LEMMA ShortSequences ==
    /\ \A c : /\ Append(<<>>, c) = <<c>>
             /\ Tail(<<c>>) = <<>>
             /\ Head(<<c>>) = c
             /\ <<c>> # <<>>
    /\ \A c, d : <<c>> = <<d>> => c = d
  OBVIOUS

\* The tracker logs exactly when it is in the list.
LEMMA TrackingLists ==
    /\ plugins = <<>> => ~Tracking
    /\ plugins = <<"replayer">> => ~Tracking
    /\ plugins = <<"writetracker">> => Tracking
  BY DEF Tracking, Loaded

\* Once the monitor failed to do its part, that is never forgotten.
LEMMA MonitorOkMonotone == [Next]_vars /\ monitorOk' => monitorOk
<1> SUFFICES ASSUME [Next]_vars, monitorOk' PROVE monitorOk
  OBVIOUS
<1>1. CASE Main
  BY <1>1 DEF Main, LoadTest, Connect, Format, UmountInit, SnapshotCopy,
     SnapshotEnds, RestoreSnapshot, MountInit, SendLoadTracker, AwaitLoadTracker,
     RunWorkload, ForkTest, GetChanges, SendUnloadTracker, AwaitUnloadTracker, Umount,
     SendLoadReplayer, AwaitLoadReplayer, SendUnloadReplayer, AwaitUnloadReplayer,
     Send, Await, MountReplay, MountRecord, Compare, Cleanup, UmountReplay
<1>2. CASE ~Main
  BY <1>2 DEF Next, Guest, GuestStore, GuestStoreReplay, GuestFlush, Host,
     HostRefuses, HostUnloads, HostWorks, HostSpills, Terminated
<1> QED BY <1>1, <1>2

\* At the start PANDA is idle and has no plugin, if the monitor is to do its part.
LEMMA ControlInit == Init /\ monitorOk => Control
  BY DEF Init, Control, BeforeTracking, HostIdle

\* Every step of main() finds and leaves the host as Control says.
LEMMA MainControl ==
    ASSUME TypeInv, Mounts, Control, Main, monitorOk'
    PROVE  Control'
<1> USE ShortSequences DEF Control, HostIdle, BeforeTracking, WhileTracking,
        AfterReplay, Leaving, Mounts
<1>1. CASE \E a \in Addr : SnapshotCopy(a)
  BY <1>1 DEF SnapshotCopy
<1>2. CASE LoadTest
  BY <1>2 DEF LoadTest
<1>3. CASE Connect
  BY <1>3 DEF Connect
<1>4. CASE Format
  BY <1>4 DEF Format
<1>5. CASE UmountInit
  BY <1>5 DEF UmountInit
<1>6. CASE SnapshotEnds
  BY <1>6 DEF SnapshotEnds
<1>7. CASE RestoreSnapshot
  BY <1>7 DEF RestoreSnapshot
<1>8. CASE MountInit
  BY <1>8 DEF MountInit
<1>9. CASE SendLoadTracker
  BY <1>9 DEF SendLoadTracker, Send
<1>10. CASE AwaitLoadTracker
  BY <1>10 DEF AwaitLoadTracker, Await
<1>11. CASE RunWorkload
  BY <1>11 DEF RunWorkload
<1>12. CASE ForkTest
  BY <1>12 DEF ForkTest
<1>13. CASE GetChanges
  BY <1>13 DEF GetChanges
<1>14. CASE SendUnloadTracker
  BY <1>14 DEF SendUnloadTracker, Send
<1>15. CASE AwaitUnloadTracker
  BY <1>15 DEF AwaitUnloadTracker, Await
<1>16. CASE Umount
  BY <1>16 DEF Umount
<1>17. CASE SendLoadReplayer
  BY <1>17 DEF SendLoadReplayer, Send
<1>18. CASE AwaitLoadReplayer
  BY <1>18 DEF AwaitLoadReplayer, Await
<1>19. CASE SendUnloadReplayer
  BY <1>19 DEF SendUnloadReplayer, Send
<1>20. CASE AwaitUnloadReplayer
  BY <1>20 DEF AwaitUnloadReplayer, Await
<1>21. CASE MountReplay
  BY <1>21 DEF MountReplay
<1>22. CASE MountRecord
  BY <1>22 DEF MountRecord
<1>23. CASE Compare
  BY <1>23 DEF Compare
<1>24. CASE Cleanup
  BY <1>24 DEF Cleanup
<1>25. CASE UmountReplay
  BY <1>25 DEF UmountReplay
<1> QED BY <1>1, <1>2, <1>3, <1>4, <1>5, <1>6, <1>7, <1>8, <1>9, <1>10, <1>11, <1>12, <1>13, <1>14, <1>15, <1>16, <1>17, <1>18, <1>19, <1>20, <1>21, <1>22, <1>23, <1>24, <1>25 DEF Main

\* So does every command the monitor carries out.
LEMMA HostControl ==
    ASSUME TypeInv, Control, Host, monitorOk'
    PROVE  Control'
<1> USE ShortSequences, TrackingLists DEF Control, HostIdle, BeforeTracking,
        WhileTracking, AfterReplay, Leaving
<1>1. CASE HostRefuses
  BY <1>1 DEF HostRefuses
<1>2. CASE HostUnloads
  <2>1. cmds = <<"unload_0">> /\ cmds' = <<>> /\ ~replaying /\ ~replaying' /\ pc' = pc
    BY <1>2 DEF HostUnloads, UnloadFirst
  <2>2. CASE pc = "wait_unload_wt"
    <3>1. plugins = <<"writetracker">>
      BY <2>1, <2>2
    <3>2. plugins' = <<>> /\ crashed'
      BY <1>2, <3>1 DEF HostUnloads, UnloadFirst
    <3> QED BY <2>1, <2>2, <3>2
  <2>3. CASE pc = "wait_unload_rp"
    <3>1. plugins = <<"replayer">> /\ crashed
      BY <2>1, <2>3
    <3>2. plugins' = <<>> /\ crashed'
      BY <1>2, <3>1 DEF HostUnloads, UnloadFirst
    <3> QED BY <2>1, <2>3, <3>2
  <2> QED BY <2>1, <2>2, <2>3
<1>3. CASE LoadWritetracker /\ UNCHANGED <<harnessVars, obsVars>>
  <2>1. cmds = <<"load_writetracker">> /\ cmds' = <<>> /\ pc' = pc
    BY <1>3 DEF LoadWritetracker
  <2>2. pc = "wait_load_wt" /\ plugins = <<>> /\ ~crashed /\ ~replaying
    BY <2>1
  <2>3. plugins' = <<"writetracker">> /\ ~crashed' /\ ~replaying'
    BY <1>3, <2>2 DEF LoadWritetracker
  <2> QED BY <2>1, <2>2, <2>3
<1>4. CASE LoadReplayer /\ UNCHANGED <<harnessVars, obsVars>>
  BY <1>4 DEF LoadReplayer
<1>5. CASE ReplayEntry /\ UNCHANGED <<harnessVars, obsVars>>
  BY <1>5 DEF ReplayEntry
<1>6. CASE ReplayAtEnd /\ UNCHANGED <<harnessVars, obsVars>>
  BY <1>6 DEF ReplayAtEnd
<1> QED BY <1>1, <1>2, <1>3, <1>4, <1>5, <1>6 DEF Host, HostWorks

\* Control is kept by every step that leaves the monitor blameless.
LEMMA ControlStep ==
    ASSUME TypeInv, Mounts, monitorOk => Control, [Next]_vars, monitorOk'
    PROVE  Control'
<1>1. monitorOk /\ Control
  BY MonitorOkMonotone
<1>2. CASE Main
  BY <1>1, <1>2, MainControl
<1>3. CASE Host
  BY <1>1, <1>3, HostControl
<1>4. CASE UNCHANGED <<pc, exitCode, cmds, plugins, replaying, crashed>>
  BY <1>1, <1>4 DEF Control, HostIdle
<1> QED BY <1>2, <1>3, <1>4 DEF Next, Guest, GuestStore, GuestStoreReplay, GuestFlush,
           HostSpills, Terminated, Store, FlushOrFence, SpillTrace
-----------------------------------------------------------------------------
(* The inductive invariant: mounts *)

\* Nothing is mounted or copied at the start.
LEMMA MountsInit == Init => Mounts
  BY DEF Init, Mounts, Leaving

\* Every step of main() keeps what Mounts says of devices, exit code and snapshot.
LEMMA MainMounts ==
    ASSUME TypeInv, Mounts, Main
    PROVE  Mounts'
<1> USE DEF Mounts, Leaving
<1>1. CASE \E a \in Addr : SnapshotCopy(a)
  BY <1>1 DEF SnapshotCopy, TypeInv, TypeOK
<1>2. CASE LoadTest
  BY <1>2 DEF LoadTest
<1>3. CASE Connect
  BY <1>3 DEF Connect
<1>4. CASE Format
  BY <1>4 DEF Format
<1>5. CASE UmountInit
  BY <1>5 DEF UmountInit
<1>6. CASE SnapshotEnds
  BY <1>6 DEF SnapshotEnds
<1>7. CASE RestoreSnapshot
  BY <1>7 DEF RestoreSnapshot
<1>8. CASE MountInit
  BY <1>8 DEF MountInit
<1>9. CASE RunWorkload
  BY <1>9 DEF RunWorkload
<1>10. CASE ForkTest
  BY <1>10 DEF ForkTest
<1>11. CASE GetChanges
  BY <1>11 DEF GetChanges
<1>12. CASE Umount
  BY <1>12 DEF Umount
<1>13. CASE MountReplay
  BY <1>13 DEF MountReplay
<1>14. CASE MountRecord
  BY <1>14 DEF MountRecord
<1>15. CASE Compare
  BY <1>15 DEF Compare
<1>16. CASE Cleanup
  BY <1>16 DEF Cleanup
<1>17. CASE UmountReplay
  BY <1>17 DEF UmountReplay
<1>18. CASE SendLoadTracker \/ SendUnloadTracker \/ SendLoadReplayer \/ SendUnloadReplayer
  BY <1>18 DEF SendLoadTracker, SendUnloadTracker, SendLoadReplayer,
              SendUnloadReplayer, Send
<1>19. CASE AwaitLoadTracker \/ AwaitUnloadTracker \/ AwaitLoadReplayer \/ AwaitUnloadReplayer
  BY <1>19 DEF AwaitLoadTracker, AwaitUnloadTracker, AwaitLoadReplayer,
              AwaitUnloadReplayer, Await
<1> QED BY <1>1, <1>2, <1>3, <1>4, <1>5, <1>6, <1>7, <1>8, <1>9, <1>10, <1>11, <1>12, <1>13, <1>14, <1>15, <1>16, <1>17, <1>18, <1>19 DEF Main

\* The guest and the host keep it too: nothing stores to an unmounted NOVA.
LEMMA MountsStep ==
    ASSUME TypeInv, Mounts, [Next]_vars
    PROVE  Mounts'
<1>1. CASE Main
  BY <1>1, MainMounts
<1>2. CASE UNCHANGED <<harnessVars, record, refused>>
  BY <1>2 DEF Mounts
<1>3. ASSUME NEW a \in Addr, NEW v \in Val, GuestStore(a, v)
      PROVE  Mounts'
  BY <1>3 DEF GuestStore, RecordBusy, Mounts, Leaving
<1> QED BY <1>1, <1>2, <1>3 DEF Next, Guest, GuestStoreReplay, GuestFlush, FlushOrFence,
           Host, HostRefuses, HostUnloads, HostWorks, HostSpills, Terminated,
           LoadRefused, UnloadFirst, LoadWritetracker, LoadReplayer, ReplayEntry,
           ReplayAtEnd, SpillTrace
-----------------------------------------------------------------------------
(* The inductive invariant: the record device and the trace *)

\* A store that is logged brings its offset in step, whatever was lost before.
LEMMA AgreesStored ==
    ASSUME NEW t \in Seq(Entry), NEW a \in Addr, NEW v \in Val,
           NEW base, NEW x \in Device
    PROVE  Agrees([x EXCEPT ![a] = v], base, Append(t, WriteOf(a, v)),
                  Len(Append(t, WriteOf(a, v))), a)
<1> DEFINE u == Append(t, WriteOf(a, v))
           m == Len(u)
<1>1. m = Len(t) + 1 /\ m \in 1..m /\ u[m] = WriteOf(a, v)
  BY LoggedEntry
<1>2. Writes(u, m, a) /\ u[m].val = v
  BY <1>1 DEF Writes, WriteOf
<1>3. \A j \in (m + 1)..m : ~Writes(u, j, a)
  BY <1>1
<1>4. [x EXCEPT ![a] = v][a] = v
  BY DEF Device
<1> QED BY <1>1, <1>2, <1>3, <1>4 DEF Agrees

\* An empty trace says that the image is the base.
LEMMA AgreesEmpty ==
    ASSUME NEW t, NEW a, NEW base, NEW x, x[a] = base[a]
    PROVE  Agrees(x, base, t, 0, a)
  BY DEF Agrees

\* No step logs for a tracker that has been unloaded.
LEMMA TrackingNotCrashed == Control => ~(Tracking /\ crashed)
  BY ShortSequences, TrackingLists DEF Control, HostIdle

\* A store keeps snapshot, trace and record device in step, or counts as lost.
LEMMA StoreRecordImage ==
    ASSUME TypeInv, Control, RecordImage,
           NEW b \in Addr, NEW v \in Val, GuestStore(b, v)
    PROVE  RecordImage'
<1>1. record \in Device /\ trace \in Seq(Entry)
  BY DEF TypeInv, TypeOK, PandaTypeOK
<1>2. record' = [record EXCEPT ![b] = v] /\ Tracking' = Tracking
  BY DEF GuestStore, Store, Tracking, Loaded
<1>3. UNCHANGED <<snap, crash, crashed, written>>
  BY DEF GuestStore, Store
<1>4. CASE Tracking
  <2>1. trace' = Append(trace, WriteOf(b, v)) /\ lost' = lost \ {b} /\ ~crashed
    BY <1>4, TrackingNotCrashed DEF GuestStore, Store, log_output
  <2>2. ASSUME NEW a \in Addr \ lost'
        PROVE  Agrees(record', snap, trace', Len(trace'), a)
    <3>1. CASE a = b
      BY <1>1, <1>2, <2>1, <3>1, AgreesStored
    <3>2. CASE a # b
      <4>1. Agrees(record, snap, trace, Len(trace), a)
        BY <1>4, <2>1, <2>2, <3>2 DEF RecordImage
      <4>2. record' = Apply(record, WriteOf(b, v)) /\ WriteOf(b, v) \in Entry
        BY <1>2, LoggedEntry DEF Apply, WriteOf
      <4> QED BY <1>1, <2>1, <4>1, <4>2, AgreesAppend
    <3> QED BY <3>1, <3>2
  <2> QED BY <1>2, <1>3, <1>4, <2>1, <2>2 DEF RecordImage
<1>5. CASE ~Tracking
  <2>1. trace' = trace
    BY <1>5 DEF GuestStore, Store
  <2>2. lost' = IF snap[b] # None /\ ~crashed THEN lost \cup {b} ELSE lost
    BY <1>5 DEF GuestStore
  <2>3. CASE crashed
    BY <1>2, <1>3, <1>5, <2>1, <2>2, <2>3 DEF RecordImage
  <2>4. CASE ~crashed
    <3>1. \A a \in Addr \ lost' : snap[a] # None => record'[a] = snap[a]
      BY <1>1, <1>2, <1>5, <2>2, <2>4 DEF RecordImage, Device
    <3> QED BY <1>2, <1>3, <1>5, <2>4, <3>1 DEF RecordImage
  <2> QED BY <2>3, <2>4
<1> QED BY <1>4, <1>5

\* Flushes and fences add entries that change no image.
LEMMA FlushRecordImage ==
    ASSUME TypeInv, Control, RecordImage, GuestFlush
    PROVE  RecordImage'
<1>1. record \in Device /\ trace \in Seq(Entry)
  BY DEF TypeInv, TypeOK, PandaTypeOK
<1>2. UNCHANGED <<record, plugins, snap, crash, crashed, written, lost>> /\ Tracking
  BY DEF GuestFlush, FlushOrFence
<1>3. PICK e \in Entry : trace' = Append(trace, e) /\ e.type # "WRITE"
  BY LoggedEntry DEF GuestFlush, FlushOrFence, log_output, FlushOf, Fence
<1>4. Apply(record, e) = record
  BY <1>3 DEF Apply
<1>5. \A a \in Addr \ lost : Agrees(record, snap, trace', Len(trace'), a)
  <2> TAKE a \in Addr \ lost
  <2>1. Agrees(record, snap, trace, Len(trace), a)
    BY <1>2 DEF RecordImage
  <2> QED BY <1>1, <1>3, <1>4, <2>1, AgreesAppend
<1> QED BY <1>2, <1>5, TrackingNotCrashed DEF RecordImage, Tracking, Loaded

\* Loading the tracker starts with an empty trace on the snapshot; unloading it
\* fixes the crash image and the whole trace.
LEMMA HostRecordImage ==
    ASSUME TypeInv, Control, RecordImage, ReplayImage, Host, monitorOk'
    PROVE  RecordImage'
<1> USE ShortSequences, TrackingLists
<1>1. CASE HostRefuses
  BY <1>1 DEF HostRefuses
<1>2. CASE HostUnloads
  <2>1. cmds = <<"unload_0">> /\ plugins' = <<>> /\ UNCHANGED <<record, trace, snap, lost>>
    BY <1>2 DEF HostUnloads, UnloadFirst, Control, HostIdle
  <2>2. ~Tracking'
    BY <2>1 DEF Tracking, Loaded
  <2>3. CASE plugins = <<"writetracker">>
    <3>1. crash' = record /\ crashed' /\ written' = Len(trace)
      BY <1>2, <2>3 DEF HostUnloads, UnloadFirst
    <3> QED BY <2>1, <2>2, <2>3, <3>1 DEF RecordImage
  <2>4. CASE plugins = <<"replayer">>
    <3>1. UNCHANGED <<crash, crashed, written>> /\ crashed
      BY <1>2, <2>1, <2>4 DEF HostUnloads, UnloadFirst, Control, HostIdle
    <3> QED BY <2>1, <2>2, <3>1 DEF RecordImage
  <2> QED BY <2>1, <2>3, <2>4 DEF Control, HostIdle
<1>3. CASE LoadWritetracker /\ UNCHANGED <<harnessVars, obsVars>>
  <2>1. pc = "wait_load_wt" /\ plugins = <<>> /\ ~crashed
    BY <1>3 DEF LoadWritetracker, Control, HostIdle
  <2>2. \A a \in Addr : snap[a] # None
    BY <2>1, NoneAssumption DEF ReplayImage, Restored, TypeInv, TypeOK, PandaTypeOK, Device
  <2>3. trace' = <<>> /\ Len(trace') = 0 /\ UNCHANGED <<record, snap, lost, crashed>>
    BY <1>3 DEF LoadWritetracker
  <2>4. \A a \in Addr \ lost : Agrees(record, snap, trace', 0, a)
    BY <2>1, <2>2, AgreesEmpty DEF RecordImage
  <2>5. Tracking'
    BY <1>3, <2>1 DEF LoadWritetracker, Tracking, Loaded
  <2> QED BY <2>1, <2>3, <2>4, <2>5 DEF RecordImage
<1>4. CASE (LoadReplayer \/ ReplayEntry) /\ UNCHANGED <<harnessVars, obsVars>>
  BY <1>4 DEF LoadReplayer, ReplayEntry, RecordImage, Tracking, Loaded
<1>5. CASE ReplayAtEnd /\ UNCHANGED <<harnessVars, obsVars>>
  <2>1. plugins = <<>> /\ crashed
    BY <1>5 DEF ReplayAtEnd, Control, HostIdle
  <2>2. ~Tracking'
    BY <1>5, <2>1 DEF ReplayAtEnd, Tracking, Loaded
  <2> QED BY <1>5, <2>1, <2>2 DEF ReplayAtEnd, RecordImage
<1> QED BY <1>1, <1>2, <1>3, <1>4, <1>5 DEF Host, HostWorks

\* No step of main() disturbs the record image: copying a location starts it in step.
LEMMA MainRecordImage ==
    ASSUME TypeInv, Control, RecordImage, Main
    PROVE  RecordImage'
<1>1. CASE \E a \in Addr : SnapshotCopy(a)
  <2>1. ~crashed /\ ~Tracking
    BY <1>1, TrackingLists DEF SnapshotCopy, Control, BeforeTracking, WhileTracking,
       AfterReplay, Leaving
  <2>2. UNCHANGED <<plugins, crashed, lost, record>>
    BY <1>1 DEF SnapshotCopy
  <2>3. \A a \in Addr \ lost : snap'[a] # None => record[a] = snap'[a]
    BY <1>1, <2>1 DEF SnapshotCopy, RecordImage, TypeInv, TypeOK
  <2> QED BY <2>1, <2>2, <2>3 DEF RecordImage, Tracking, Loaded
<1>2. CASE UNCHANGED <<record, plugins, trace, written, snap, crash, crashed, lost>>
  BY <1>2 DEF RecordImage, Tracking, Loaded
<1> QED BY <1>1, <1>2 DEF Main, LoadTest, Connect, Format, UmountInit,
     SnapshotEnds, RestoreSnapshot, MountInit, SendLoadTracker, AwaitLoadTracker,
     RunWorkload, ForkTest, GetChanges, SendUnloadTracker, AwaitUnloadTracker, Umount,
     SendLoadReplayer, AwaitLoadReplayer, SendUnloadReplayer, AwaitUnloadReplayer,
     Send, Await, MountReplay, MountRecord, Compare, Cleanup, UmountReplay

\* RecordImage is kept by every step.
LEMMA RecordImageStep ==
    ASSUME TypeInv, Control, RecordImage, ReplayImage, [Next]_vars, monitorOk'
    PROVE  RecordImage'
<1>1. CASE HostSpills
  BY <1>1, TrackingNotCrashed DEF HostSpills, SpillTrace, RecordImage, Tracking, Loaded
<1>2. CASE UNCHANGED <<record, plugins, trace, written, snap, crash, crashed, lost>>
  BY <1>2 DEF RecordImage, Tracking, Loaded
<1> QED BY <1>1, <1>2, MainRecordImage, StoreRecordImage, FlushRecordImage, HostRecordImage
        DEF Next, Guest, GuestStoreReplay, Terminated
-----------------------------------------------------------------------------
(* The inductive invariant: the replay device *)

\* main() restores the snapshot and then leaves the replay device to the replayer.
LEMMA MainReplayImage ==
    ASSUME TypeInv, Control, ReplayImage, Main, monitorOk'
    PROVE  ReplayImage'
<1> USE DEF ReplayImage, Restored, WhileTracking
<1>1. CASE \E a \in Addr : SnapshotCopy(a)
  BY <1>1 DEF SnapshotCopy
<1>2. CASE RestoreSnapshot
  BY <1>2 DEF RestoreSnapshot
<1>3. CASE SendLoadReplayer
  BY <1>3 DEF SendLoadReplayer, Send, Control, HostIdle, BeforeTracking, AfterReplay, Leaving
<1>4. CASE AwaitLoadReplayer
  BY <1>4 DEF AwaitLoadReplayer, Await
<1>5. CASE LoadTest \/ Connect \/ Format \/ UmountInit \/ SnapshotEnds \/ MountInit
  BY <1>5 DEF LoadTest, Connect, Format, UmountInit, SnapshotEnds, MountInit
<1>6. CASE RunWorkload \/ ForkTest \/ GetChanges \/ Umount
  BY <1>6 DEF RunWorkload, ForkTest, GetChanges, Umount
<1>7. CASE SendLoadTracker \/ SendUnloadTracker \/ SendUnloadReplayer
  BY <1>7 DEF SendLoadTracker, SendUnloadTracker, SendUnloadReplayer, Send
<1>8. CASE AwaitLoadTracker \/ AwaitUnloadTracker \/ AwaitUnloadReplayer
  BY <1>8 DEF AwaitLoadTracker, AwaitUnloadTracker, AwaitUnloadReplayer, Await
<1>9. CASE MountReplay \/ MountRecord \/ Compare \/ Cleanup \/ UmountReplay
  BY <1>9 DEF MountReplay, MountRecord, Compare, Cleanup, UmountReplay
<1> QED BY <1>1, <1>2, <1>3, <1>4, <1>5, <1>6, <1>7, <1>8, <1>9 DEF Main

\* The guest does not store to the replay device before the check mounts it.
LEMMA GuestReplayImage ==
    ASSUME TypeInv, Mounts, Control, ReplayImage, Guest
    PROVE  ReplayImage'
<1>1. CASE UNCHANGED <<pc, cmds, replay, replaying, rpos, snap, trace>>
  BY <1>1 DEF ReplayImage
<1>2. CASE Tracking /\ UNCHANGED <<pc, cmds, replay, replaying, rpos, snap>>
  <2>1. pc \notin {"wait_load_rp", "unload_rp", "wait_unload_rp", "check"}
    BY <1>2, TrackingLists DEF Control, HostIdle, BeforeTracking, WhileTracking,
       AfterReplay, Leaving
  <2> QED BY <1>2, <2>1 DEF ReplayImage
<1>3. CASE repMounted /\ pc' = pc
  BY <1>3 DEF Mounts, ReplayImage, Restored, WhileTracking
<1> QED BY <1>1, <1>2, <1>3 DEF Guest, GuestStore, GuestStoreReplay, GuestFlush,
           Store, FlushOrFence

\* The loop of the replayer keeps the replay device in step with what it consumed,
\* also when its last iteration runs on stale variables.
LEMMA HostReplayImage ==
    ASSUME TypeInv, Control, RecordImage, ReplayImage, Host, monitorOk'
    PROVE  ReplayImage'
<1> USE ShortSequences
<1>1. replay \in Device /\ trace \in Seq(Entry) /\ rpos \in 0..Len(trace)
  BY DEF TypeInv, TypeOK, PandaTypeOK
<1>2. CASE HostRefuses
  BY <1>2 DEF HostRefuses
<1>3. CASE HostUnloads
  <2>1. pc # "wait_load_rp"
    BY <1>3 DEF HostUnloads, UnloadFirst, Control, HostIdle
  <2> QED BY <1>3, <2>1 DEF HostUnloads, UnloadFirst, ReplayImage
<1>4. CASE LoadWritetracker /\ UNCHANGED <<harnessVars, obsVars>>
  <2>1. pc = "wait_load_wt"
    BY <1>4 DEF LoadWritetracker, Control, HostIdle
  <2> QED BY <1>4, <2>1 DEF LoadWritetracker, ReplayImage
<1>5. CASE LoadReplayer /\ UNCHANGED <<harnessVars, obsVars>>
  <2>1. pc = "wait_load_rp" /\ replay = snap
    BY <1>5 DEF LoadReplayer, Control, HostIdle, ReplayImage
  <2>2. \A a \in Addr : Agrees(replay, snap, trace, 0, a)
    BY <2>1, AgreesEmpty
  <2> QED BY <1>5, <2>1, <2>2 DEF LoadReplayer, ReplayImage, Restored, WhileTracking
<1>6. ASSUME replaying PROVE pc = "wait_load_rp" /\ cmds = <<"load_replayer">> /\ crashed
  BY <1>6 DEF Control, HostIdle
<1>7. CASE ReplayEntry /\ UNCHANGED <<harnessVars, obsVars>>
  <2>1. rpos < Len(trace) /\ replay' = Apply(replay, trace[rpos + 1]) /\ rpos' = rpos + 1
    BY <1>1, <1>7 DEF ReplayEntry, TypeInv, TypeOK, PandaTypeOK
  <2>2. ASSUME NEW a \in Addr PROVE Agrees(replay', snap, trace, rpos + 1, a)
    <3>1. Agrees(replay, snap, trace, rpos, a)
      BY <1>6, <1>7 DEF ReplayEntry, ReplayImage
    <3> QED BY <1>1, <2>1, <3>1, AgreesApply
  <2> QED BY <1>6, <1>7, <2>1, <2>2 DEF ReplayEntry, ReplayImage, Restored, WhileTracking
<1>8. CASE ReplayAtEnd /\ UNCHANGED <<harnessVars, obsVars>>
  <2>1. pc = "wait_load_rp" /\ crashed /\ replaying /\ ~replaying'
    BY <1>6, <1>8 DEF ReplayAtEnd
  <2>2. ASSUME trace # <<>>, NEW a \in Addr
        PROVE  Agrees(replay', snap, trace, Len(trace), a)
    <3>1. rpos = Len(trace) /\ written = Len(trace) /\ Len(trace) \in 1..Len(trace)
      BY <1>1, <1>8, <2>1, <2>2 DEF ReplayAtEnd, RecordImage
    <3>2. replay' = Apply(replay, trace[Len(trace)])
      BY <1>8, <3>1 DEF ReplayAtEnd, StaleIteration
    <3>3. Agrees(replay, snap, trace, Len(trace), a)
      BY <2>1, <3>1 DEF ReplayImage
    <3> QED BY <1>1, <3>1, <3>2, <3>3, AgreesReapply
  <2>3. cmds' = <<>>
    BY <1>6, <1>8, <2>1 DEF ReplayAtEnd
  <2> QED BY <1>8, <2>1, <2>2, <2>3 DEF ReplayAtEnd, ReplayImage, Restored, WhileTracking
<1> QED BY <1>2, <1>3, <1>4, <1>5, <1>7, <1>8 DEF Host, HostWorks

\* ReplayImage is kept by every step.
LEMMA ReplayImageStep ==
    ASSUME TypeInv, Mounts, Control, RecordImage, ReplayImage, [Next]_vars, monitorOk'
    PROVE  ReplayImage'
<1>1. CASE HostSpills \/ UNCHANGED vars
  <2>1. UNCHANGED <<pc, cmds, replay, replaying, rpos, snap, trace>>
    BY <1>1 DEF HostSpills, SpillTrace
  <2> QED BY <2>1 DEF ReplayImage
<1> QED BY <1>1, MainReplayImage, GuestReplayImage, HostReplayImage DEF Next, Terminated
-----------------------------------------------------------------------------
(* The theorems *)

\* The inductive invariant holds at the start.
LEMMA IInvInit == Init => IInv
<1> SUFFICES ASSUME Init PROVE IInv
  OBVIOUS
<1>1. TypeInv
  BY InitTypeOK, WellformedInit DEF TypeInv
<1>2. ASSUME monitorOk PROVE RecordImage
  BY <1>2, TrackingLists DEF Init, RecordImage
<1>3. ReplayImage
  BY DEF Init, ReplayImage, Restored, WhileTracking
<1> QED BY <1>1, <1>2, <1>3, MountsInit, ControlInit DEF IInv

\* The inductive invariant is kept by every step.
LEMMA IInvStep == IInv /\ [Next]_vars => IInv'
<1> SUFFICES ASSUME IInv, [Next]_vars PROVE IInv'
  OBVIOUS
<1>1. TypeInv'
  BY NextTypeOK, SnapshotCompleteStep, MonitorBusyStep DEF IInv, TypeInv
<1>2. Mounts'
  BY MountsStep DEF IInv
<1>3. ASSUME monitorOk' PROVE (Control /\ RecordImage /\ ReplayImage)'
  <2>1. monitorOk
    BY <1>3, MonitorOkMonotone
  <2> QED BY <1>3, <2>1, ControlStep, RecordImageStep, ReplayImageStep DEF IInv
<1> QED BY <1>1, <1>2, <1>3 DEF IInv

\* The inductive invariant holds in every reachable state.
THEOREM Invariance == Spec => []IInv
  BY IInvInit, IInvStep, PTL DEF Spec

\* At the check both images agree with the snapshot overlaid with the trace.
LEMMA FaithfulImageNow == IInv => FaithfulImage
<1> SUFFICES ASSUME IInv, pc = "check", monitorOk, trace # <<>>, NEW a \in Addr \ lost
             PROVE  replay[a] = crash[a]
  BY DEF FaithfulImage
<1>1. trace \in Seq(Entry) /\ Len(trace) \in 0..Len(trace)
  BY DEF IInv, TypeInv, TypeOK, PandaTypeOK
<1>2. crashed
  BY DEF IInv, Control, BeforeTracking, WhileTracking, AfterReplay, Leaving
<1>3. Agrees(replay, snap, trace, Len(trace), a)
  BY DEF IInv, ReplayImage
<1>4. Agrees(crash, snap, trace, Len(trace), a)
  BY <1>2 DEF IInv, RecordImage
<1> QED BY <1>1, <1>3, <1>4, AgreesUnique

\* The replay device is the crash image of the record device when the check
\* begins, for every trace, every device content and every interleaving of the
\* guest, the harness and the monitor -- off the offsets nobody tracked.
THEOREM FaithfulImageHolds == Spec => []FaithfulImage
  BY FaithfulImageNow, Invariance, PTL

\* The snapshot that NOVA is restored from is one image of the device.
THEOREM SnapshotIsAnImageHolds == Spec => []SnapshotIsAnImage
<1>1. IInv => SnapshotIsAnImage
  <2> SUFFICES ASSUME IInv, pc = "restore", fs = "NOVA" PROVE snap = record
    BY DEF SnapshotIsAnImage
  <2>1. \A a \in Addr : snap[a] = record[a]
    BY DEF IInv, TypeInv, SnapshotComplete, Mounts
  <2>2. snap \in [Addr -> Val \cup {None}] /\ record \in [Addr -> Val]
    BY DEF IInv, TypeInv, TypeOK, PandaTypeOK, Device
  <2> QED BY <2>1, <2>2
<1> QED BY <1>1, Invariance, PTL

\* The replayer never writes under a mounted replay file system.
THEOREM NoReplayUnderMountHolds == Spec => []NoReplayUnderMount
<1>1. IInv => NoReplayUnderMount
  BY DEF IInv, NoReplayUnderMount, Mounts, Control, HostIdle
<1> QED BY <1>1, Invariance, PTL

\* A run that exits with 0 has undone its mounts and its plugins.
THEOREM CleanExitHolds == Spec => []CleanExit
<1>1. IInv => CleanExit
  BY DEF IInv, CleanExit, Mounts, Control, BeforeTracking, WhileTracking, AfterReplay,
         Leaving
<1> QED BY <1>1, Invariance, PTL

\* The trace ends with the simulated crash.
THEOREM TraceEndsAtCrashHolds == Spec => TraceEndsAtCrash
<1>1. IInv /\ [Next]_vars => [(monitorOk /\ crashed) => trace' = trace]_vars
  <2> SUFFICES ASSUME IInv, Next, monitorOk, crashed PROVE trace' = trace
    OBVIOUS
  <2>1. ~Tracking
    BY TrackingNotCrashed DEF IInv
  <2>2. CASE LoadWritetracker
    BY <2>2, ShortSequences DEF LoadWritetracker, IInv, Control, HostIdle
  <2>3. CASE ~LoadWritetracker
    BY <2>1, <2>3 DEF Next, Main, LoadTest, Connect, Format, UmountInit, SnapshotCopy,
       SnapshotEnds, RestoreSnapshot, MountInit, SendLoadTracker, AwaitLoadTracker,
       RunWorkload, ForkTest, GetChanges, SendUnloadTracker, AwaitUnloadTracker, Umount,
       SendLoadReplayer, AwaitLoadReplayer, SendUnloadReplayer, AwaitUnloadReplayer,
       Send, Await, MountReplay, MountRecord, Compare, Cleanup, UmountReplay,
       Guest, GuestStore, GuestStoreReplay, GuestFlush, Store, FlushOrFence,
       Host, HostRefuses, HostUnloads, HostWorks, HostSpills, Terminated,
       LoadRefused, UnloadFirst, LoadReplayer, ReplayEntry, ReplayAtEnd, SpillTrace
  <2> QED BY <2>2, <2>3
<1> QED BY <1>1, Invariance, PTL DEF Spec, TraceEndsAtCrash
=============================================================================
