------------------------- MODULE HarnessRunsProofs -------------------------
(***************************************************************************)
(* Proofs about HarnessRuns, for all constants: what an earlier run left   *)
(* behind does not reach a run that began with nothing mounted, and a run  *)
(* that began with the record device mounted tests nothing.                *)
(***************************************************************************)
EXTENDS HarnessRuns, HarnessProofs

\* The frames of the actions.
USE DEF Goto, FailTo, Quit, hostVars, harnessVars, obsVars, vars,
        KeepHost, KeepRun, KeepMount, KeepObs, Local, LeaveCleanup, Busy

\* A step of Harness keeps its inductive form of type correctness.
LEMMA TypeInvStep == TypeInv /\ [Next]_vars => TypeInv'
  BY NextTypeOK, SnapshotCompleteStep, MonitorBusyStep DEF TypeInv

\* A restart leaves the host as it is and types the rest anew.
LEMMA RestartType == TypeInv /\ Restart => TypeInv'
<1> SUFFICES ASSUME TypeInv, Restart PROVE TypeInv'
  OBVIOUS
<1>1. PandaTypeOK'
  BY HostKept DEF TypeInv, TypeOK, Restart
<1>2. crash' \in Device
  BY DEF TypeInv, TypeOK, PandaTypeOK, Restart
<1>3. TypeOK'
  BY <1>1, <1>2 DEF TypeInv, TypeOK, Restart, PCs
<1> QED BY <1>3 DEF TypeInv, SnapshotComplete, MonitorBusy, Restart

\* An interruption only moves main() to its end.
LEMMA InterruptType == TypeInv /\ Interrupt => TypeInv'
<1> SUFFICES ASSUME TypeInv, Interrupt PROVE TypeInv'
  OBVIOUS
<1>1. PandaTypeOK'
  BY HostKept DEF TypeInv, TypeOK, Interrupt
<1>2. TypeOK'
  BY <1>1 DEF TypeInv, TypeOK, Interrupt, PCs
<1> QED BY <1>2 DEF TypeInv, SnapshotComplete, MonitorBusy, Interrupt

\* An orphan touches run_changes and the files it holds open, nothing else.
LEMMA OrphanType == TypeInv /\ (OrphanWorks \/ OrphanEnds) => TypeInv'
<1> SUFFICES ASSUME TypeInv, OrphanWorks \/ OrphanEnds PROVE TypeInv'
  OBVIOUS
<1>1. PandaTypeOK'
  BY HostKept DEF TypeInv, TypeOK, OrphanWorks, OrphanEnds
<1>2. changes' \in ChangeFile /\ leaked' \in SUBSET {"check", "test"}
  BY DEF TypeInv, TypeOK, OrphanWorks, OrphanEnds, ChangeFile
<1>3. TypeOK'
  BY <1>1, <1>2 DEF TypeInv, TypeOK, OrphanWorks, OrphanEnds
<1> QED BY <1>3 DEF TypeInv, SnapshotComplete, MonitorBusy, OrphanWorks, OrphanEnds
-----------------------------------------------------------------------------
(* Runs with a clean start *)

\* A run that starts with nothing mounted starts like the first one: whatever
\* the devices and wt.out hold, the inductive invariant holds again.
LEMMA RestartIInv == TypeInv /\ Restart /\ ~recMounted /\ ~repMounted => IInv'
<1> SUFFICES ASSUME TypeInv, Restart, ~recMounted, ~repMounted PROVE IInv'
  OBVIOUS
<1>1. TypeInv'
  BY RestartType
<1>2. Mounts'
  BY DEF Restart, Mounts, Leaving
<1>3. ASSUME monitorOk' PROVE (Control /\ RecordImage /\ ReplayImage)'
  <2>1. plugins = <<>> /\ cmds = <<>> /\ ~replaying
    BY <1>3 DEF Restart, TypeInv, MonitorBusy
  <2>2. plugins' = <<>> /\ cmds' = <<>> /\ ~replaying'
    BY <2>1 DEF Restart
  <2>3. Control'
    BY <2>2 DEF Restart, Control, BeforeTracking, HostIdle
  <2>4. Tracking' = FALSE
    BY <2>2 DEF Tracking, Loaded
  <2>5. RecordImage'
    BY <2>4 DEF Restart, RecordImage
  <2>6. ReplayImage'
    BY DEF Restart, ReplayImage, Restored, WhileTracking
  <2> QED BY <2>3, <2>5, <2>6
<1> QED BY <1>1, <1>2, <1>3 DEF IInv

\* An interrupted run claims nothing any more; what is known of the host stays.
LEMMA InterruptIInv == IInv /\ Interrupt => IInv'
<1> SUFFICES ASSUME IInv, Interrupt PROVE IInv'
  OBVIOUS
<1>1. TypeInv'
  BY InterruptType DEF IInv
<1>2. Mounts'
  BY DEF IInv, Interrupt, Mounts, Leaving
<1>3. ASSUME monitorOk' PROVE (Control /\ RecordImage /\ ReplayImage)'
  <2>1. monitorOk /\ cmds = <<>> /\ Control /\ RecordImage
    BY <1>3 DEF Interrupt, IInv
  <2>2. ~replaying
    BY <2>1 DEF IInv, TypeInv, MonitorBusy
  <2>3. Control'
    BY <2>1, <2>2, ShortSequences
       DEF Interrupt, Control, HostIdle, Leaving, BeforeTracking, WhileTracking,
           AfterReplay
  <2>4. Tracking' = Tracking
    BY DEF Interrupt, Tracking, Loaded
  <2>5. RecordImage'
    BY <2>1, <2>4 DEF Interrupt, RecordImage, Agrees, Writes
  <2>6. ReplayImage'
    BY DEF Interrupt, ReplayImage, Restored, WhileTracking
  <2> QED BY <2>3, <2>5, <2>6
<1> QED BY <1>1, <1>2, <1>3 DEF IInv
\* The invariant of a run with a clean start reads nothing that an orphan writes.
LEMMA OrphanIInv == IInv /\ (OrphanWorks \/ OrphanEnds) => IInv'
<1> SUFFICES ASSUME IInv, OrphanWorks \/ OrphanEnds PROVE IInv'
  OBVIOUS
<1>1. TypeInv'
  BY OrphanType DEF IInv
<1>2. /\ UNCHANGED <<record, replay, plugins, cmds, trace, written, replaying, rpos>>
      /\ UNCHANGED <<pc, exitCode, fs, recMounted, repMounted, snap, monitorOk>>
      /\ UNCHANGED <<crash, crashed, lost, refused>>
  BY DEF OrphanWorks, OrphanEnds
<1>3. Mounts' /\ (Control => Control')
  BY <1>2 DEF IInv, Mounts, Control, HostIdle
<1>4. (RecordImage => RecordImage') /\ (ReplayImage => ReplayImage')
  BY <1>2 DEF RecordImage, ReplayImage, Agrees, Writes, Tracking, Loaded
<1> QED BY <1>1, <1>2, <1>3, <1>4 DEF IInv
-----------------------------------------------------------------------------
(* Runs with any start *)

\* Every step of main() keeps what is known of its exits, and a run stuck at the
\* format.
LEMMA MainExits ==
    ASSUME TypeInv, Exits, StuckAtFormat, Main, UNCHANGED found
    PROVE  Exits' /\ StuckAtFormat'
<1> USE DEF Exits, AfterUmount, StuckAtFormat, MountedStartFails, Leaving
<1>1. CASE \E a \in Addr : SnapshotCopy(a)
  BY <1>1 DEF SnapshotCopy
<1>2. CASE LoadTest
  BY <1>2 DEF LoadTest
<1>3. CASE Connect
  BY <1>3 DEF Connect
<1>4. CASE Format
  BY <1>4 DEF Format
<1>5. CASE UmountInit
  BY <1>5 DEF UmountInit
<1>6. CASE SnapshotEnds
  BY <1>6 DEF SnapshotEnds
<1>7. CASE RestoreSnapshot
  BY <1>7 DEF RestoreSnapshot
<1>8. CASE MountInit
  BY <1>8 DEF MountInit
<1>9. CASE RunWorkload
  BY <1>9 DEF RunWorkload
<1>10. CASE ForkTest
  BY <1>10 DEF ForkTest
<1>11. CASE GetChanges
  BY <1>11 DEF GetChanges
<1>12. CASE Umount
  BY <1>12 DEF Umount
<1>13. CASE MountReplay
  BY <1>13 DEF MountReplay
<1>14. CASE MountRecord
  BY <1>14 DEF MountRecord
<1>15. CASE Compare
  BY <1>15 DEF Compare
<1>16. CASE Cleanup
  BY <1>16 DEF Cleanup
<1>17. CASE UmountReplay
  BY <1>17 DEF UmountReplay
<1>18. CASE SendLoadTracker \/ SendUnloadTracker \/ SendLoadReplayer \/ SendUnloadReplayer
  BY <1>18 DEF SendLoadTracker, SendUnloadTracker, SendLoadReplayer,
              SendUnloadReplayer, Send
<1>19. CASE AwaitLoadTracker \/ AwaitUnloadTracker \/ AwaitLoadReplayer \/ AwaitUnloadReplayer
  BY <1>19 DEF AwaitLoadTracker, AwaitUnloadTracker, AwaitLoadReplayer,
              AwaitUnloadReplayer, Await
<1> QED BY <1>1, <1>2, <1>3, <1>4, <1>5, <1>6, <1>7, <1>8, <1>9, <1>10, <1>11, <1>12, <1>13, <1>14, <1>15, <1>16, <1>17, <1>18, <1>19 DEF Main

\* The guest and the host touch neither main() nor the mounts.
LEMMA ExitsStep ==
    ASSUME TypeInv, Exits, StuckAtFormat, InRun(Next)
    PROVE  Exits' /\ StuckAtFormat'
<1>1. CASE Main
  BY <1>1, MainExits DEF InRun
<1>2. CASE UNCHANGED <<harnessVars, refused>>
  BY <1>2 DEF InRun, Exits, StuckAtFormat, MountedStartFails
<1> QED BY <1>1, <1>2 DEF InRun, Next, Guest, GuestStore, GuestStoreReplay, GuestFlush,
           Host, HostRefuses, HostUnloads, HostWorks, HostSpills, Terminated

\* The invariant of all runs is kept.
LEMMA RunInvStep == RunInv /\ [RunsNext]_runVars => RunInv'
<1> SUFFICES ASSUME RunInv, [RunsNext]_runVars PROVE RunInv'
  OBVIOUS
<1>1. CASE InRun(Next)
  <2>1. TypeInv' /\ found' = found /\ orphan' = orphan
    BY <1>1, TypeInvStep DEF RunInv, InRun
  <2>2. Exits' /\ StuckAtFormat'
    BY <1>1, ExitsStep DEF RunInv
  <2>3. Clean' => IInv'
    BY <1>1, <2>1, IInvStep DEF RunInv, InRun, Clean
  <2> QED BY <2>1, <2>2, <2>3 DEF RunInv
<1>2. CASE Interrupt
  <2>1. TypeInv' /\ found' = found /\ orphan' \in BOOLEAN
    BY <1>2, InterruptType DEF RunInv, Interrupt
  <2>2. Exits' /\ StuckAtFormat'
    BY <1>2 DEF Interrupt, RunInv, Exits, AfterUmount, StuckAtFormat, MountedStartFails, Leaving
  <2>3. Clean' => IInv'
    BY <1>2, <2>1, InterruptIInv DEF RunInv, Clean
  <2> QED BY <2>1, <2>2, <2>3 DEF RunInv
<1>3. CASE Restart
  <2>1. TypeInv' /\ orphan' = orphan
    BY <1>3, RestartType DEF RunInv, Restart
  <2>2. found' = [rec |-> recMounted, rep |-> repMounted] /\ recMounted \in BOOLEAN /\ repMounted \in BOOLEAN
    BY <1>3 DEF Restart, MountsNow, RunInv, TypeInv, TypeOK
  <2>3. Exits' /\ StuckAtFormat'
    BY <1>3, <2>2 DEF Restart, Exits, AfterUmount, StuckAtFormat, MountedStartFails, Leaving
  <2>4. Clean' => IInv'
    BY <1>3, <2>2, RestartIInv DEF RunInv, Clean
  <2> QED BY <2>1, <2>2, <2>3, <2>4 DEF RunInv
<1>4. CASE OrphanWorks \/ OrphanEnds
  <2>1. TypeInv' /\ found' = found /\ orphan' \in BOOLEAN
    BY <1>4, OrphanType DEF RunInv, OrphanWorks, OrphanEnds
  <2>2. Exits' /\ StuckAtFormat'
    BY <1>4 DEF OrphanWorks, OrphanEnds, RunInv, Exits, StuckAtFormat, MountedStartFails
  <2>3. Clean' => IInv'
    BY <1>4, <2>1, OrphanIInv DEF RunInv, Clean
  <2> QED BY <2>1, <2>2, <2>3 DEF RunInv
<1>5. CASE UNCHANGED runVars
  <2>1. UNCHANGED vars /\ found' = found /\ orphan' = orphan
    BY <1>5 DEF runVars
  <2>2. TypeInv' /\ (Clean' => IInv')
    BY <2>1, TypeInvStep, IInvStep DEF RunInv, Clean
  <2>3. Exits' /\ StuckAtFormat'
    BY <2>1 DEF RunInv, Exits, StuckAtFormat, MountedStartFails
  <2> QED BY <2>1, <2>2, <2>3 DEF RunInv
<1> QED BY <1>1, <1>2, <1>3, <1>4, <1>5 DEF RunsNext

\* It holds at the start of the first run.
LEMMA RunInvInit == RunsInit => RunInv
<1> SUFFICES ASSUME RunsInit PROVE RunInv
  OBVIOUS
<1>1. IInv
  BY IInvInit DEF RunsInit
<1> QED BY <1>1 DEF IInv, RunsInit, Init, RunInv, MountsNow, Exits, AfterUmount, StuckAtFormat, Leaving
-----------------------------------------------------------------------------
(* The theorems *)

\* The invariant holds in every state of every sequence of runs.
THEOREM RunInvariance == RunsSpec => []RunInv
  BY RunInvInit, RunInvStep, PTL DEF RunsSpec

\* Type correctness over any number of runs, interruptions and restarts.
THEOREM RunsTypeCorrect == RunsSpec => []RunsTypeOK
<1>1. RunInv => RunsTypeOK
  BY DEF RunInv, RunsTypeOK, TypeInv
<1> QED BY <1>1, RunInvariance, PTL

\* In every run that begins with both devices unmounted the replay device shows
\* the crash image, however earlier runs ended and whatever they left in wt.out,
\* in run_changes, in the snapshot, on the devices and in the monitor's queue.
THEOREM RunFaithfulHolds == RunsSpec => []RunFaithful
<1>1. RunInv => RunFaithful
  BY FaithfulImageNow DEF RunInv, RunFaithful
<1> QED BY <1>1, RunInvariance, PTL

\* A run that finds the record device mounted never gets past the format.
THEOREM MountedStartFailsHolds == RunsSpec => []MountedStartFails
<1>1. RunInv => MountedStartFails
  BY DEF RunInv, StuckAtFormat, MountedStartFails
<1> QED BY <1>1, RunInvariance, PTL

\* Before the check of any run the record device is unmounted, and so is the replay
\* device unless the run began with it mounted.
THEOREM UnmountedAtCheckHolds == RunsSpec => []UnmountedAtCheck
<1>1. RunInv => UnmountedAtCheck
  <2> SUFFICES ASSUME RunInv, pc = "check" PROVE ~recMounted /\ (repMounted => found.rep)
    BY DEF UnmountedAtCheck
  <2>1. ~recMounted
    BY DEF RunInv, Exits, AfterUmount
  <2>2. ~found.rec
    BY DEF RunInv, StuckAtFormat, MountedStartFails
  <2>3. repMounted => found.rep
    BY <2>2 DEF RunInv, Clean, IInv, Mounts
  <2> QED BY <2>1, <2>3
<1> QED BY <1>1, RunInvariance, PTL

\* Exit code 0 hands over both devices unmounted, whatever the run began with,
\* unless an umount of that run failed on its way out.
THEOREM HandsOverUnmountedHolds == RunsSpec => HandsOverUnmounted
<1>1. RunInv /\ [RunsNext]_runVars =>
        [(pc = "done" /\ pc' = "load_test" /\ exitCode = "ok") =>
             /\ found'.rec => "record" \in refused
             /\ found'.rep => "replay" \in refused]_runVars
  <2> SUFFICES ASSUME RunInv, RunsNext, pc = "done", pc' = "load_test", exitCode = "ok"
               PROVE  /\ found'.rec => "record" \in refused
                      /\ found'.rep => "replay" \in refused
    OBVIOUS
  <2>1. CASE Restart
    BY <2>1 DEF Restart, MountsNow, RunInv, Exits
  <2>2. ~Interrupt /\ ~OrphanWorks /\ ~OrphanEnds
    BY DEF Interrupt, OrphanWorks, OrphanEnds
  <2>3. CASE Next
    <3>1. ~Main
      BY DEF Main, LoadTest, Connect, Format, UmountInit, SnapshotCopy, SnapshotEnds,
         RestoreSnapshot, MountInit, SendLoadTracker, AwaitLoadTracker, RunWorkload,
         ForkTest, GetChanges, SendUnloadTracker, AwaitUnloadTracker, Umount,
         SendLoadReplayer, AwaitLoadReplayer, SendUnloadReplayer, AwaitUnloadReplayer,
         Send, Await, MountReplay, MountRecord, Compare, Cleanup, UmountReplay
    <3>2. pc' = pc
      BY <2>3, <3>1 DEF Next, Guest, GuestStore, GuestStoreReplay, GuestFlush,
         Host, HostRefuses, HostUnloads, HostWorks, HostSpills, Terminated
    <3> QED BY <3>2
  <2> QED BY <2>1, <2>2, <2>3 DEF RunsNext, InRun
<1> QED BY <1>1, RunInvariance, PTL DEF RunsSpec, HandsOverUnmounted
=============================================================================
