------------------------------ MODULE Harness ------------------------------
(***************************************************************************)
(* The harness in the guest (main.cpp with Tester) driving the host of     *)
(* module Panda: format and snapshot the record device, load the           *)
(* writetracker, run the workload and the forked test, unload the tracker  *)
(* (the simulated crash), load the replayer onto the restored replay       *)
(* device, and compare the two file systems.                               *)
(*                                                                         *)
(* The harness and the host run concurrently: SendCommand queues a         *)
(* command, the host executes it some time later, and ReceiveReply returns *)
(* once it is done -- or earlier, when recv fails or a stale end mark      *)
(* matches.  The guest stores to the record device whenever its file       *)
(* system is at work.                                                      *)
(***************************************************************************)
EXTENDS Panda

CONSTANTS FileSystems, \* the -f option: a subset of {"NOVA", "pmfs", "dax"}
          InitPlugins, \* plugin lists PANDA may have before the run
          OldTraces    \* contents of a wt.out that an earlier run left

ASSUME ConfigAssumption ==
    /\ FileSystems \subseteq {"NOVA", "pmfs", "dax"}
    /\ InitPlugins \subseteq Seq({"writetracker", "replayer", "other"})
    /\ OldTraces \subseteq Seq(Entry)

VARIABLES
    pc,          \* the step of main() about to be taken
    exitCode,    \* "none" while running, then "ok", "err" or "abort"
    fs,          \* the file system under test
    recMounted,  \* the record device is mounted on /mnt/pmem0
    repMounted,  \* the replay device is mounted on /mnt/pmem1
    leaked,      \* who keeps a directory or file of /mnt/pmem0 open
    snap,        \* snapshot.snap, None where dd has not copied yet
    changes,     \* what the file run_changes holds
    diff,        \* this run has opened the file "diff"
    verdict      \* what test_check tallied

harnessVars == <<pc, exitCode, fs, recMounted, repMounted, leaked, snap,
                 changes, diff, verdict>>

\* Observations: they record what happened and guide no step of the program.
VARIABLES
    crash,       \* the record image when the tracker was unloaded
    crashed,     \* the tracker has been unloaded
    lost,        \* offsets stored after their snapshot and not tracked since
    monitorOk,   \* so far the monitor did all it was asked, before the reply
    refused      \* devices whose last umount on the way out failed

obsVars == <<crash, crashed, lost, monitorOk, refused>>

vars == <<record, replay, hostVars, harnessVars, obsVars>>

PCs == {"load_test", "connect", "format", "umount_init", "snapshot", "restore",
        "mount_init", "load_wt", "wait_load_wt", "workload", "fork", "get_changes",
        "unload_wt", "wait_unload_wt", "umount", "load_rp", "wait_load_rp",
        "unload_rp", "wait_unload_rp", "check", "check_record", "compare",
        "cleanup", "umount_replay", "done", "no_reply", "no_exit"}

\* main() waits for ever: for a reply, or for the test it forked.
Hung == pc \in {"no_reply", "no_exit"}

\* run_changes: absent, cut inside a DiskMod, at most one segment of DiskMods,
\* or at least two (a checkpoint with something before or after it).
ChangeFile == {"absent", "torn", "one_segment", "segments"}

TypeOK ==
    /\ PandaTypeOK
    /\ pc \in PCs
    /\ exitCode \in {"none", "ok", "err", "abort"}
    /\ fs \in FileSystems
    /\ recMounted \in BOOLEAN /\ repMounted \in BOOLEAN
    /\ leaked \in SUBSET {"check", "test"}
    /\ snap \in [Addr -> Val \cup {None}]
    /\ changes \in ChangeFile
    /\ diff \in BOOLEAN
    /\ verdict \in {"none", "pass", "fail"}
    /\ crash \in Device
    /\ crashed \in BOOLEAN
    /\ lost \in SUBSET Addr
    /\ monitorOk \in BOOLEAN
    /\ refused \in SUBSET {"record", "replay"}

Init ==
    /\ record \in Device
    /\ replay \in Device
    /\ plugins \in InitPlugins
    /\ cmds = <<>>
    /\ trace \in OldTraces
    /\ written = Len(trace)
    /\ replaying = FALSE
    /\ rpos = 0
    /\ pc = "load_test"
    /\ exitCode = "none"
    /\ fs \in FileSystems
    /\ recMounted = FALSE /\ repMounted = FALSE /\ leaked = {}
    /\ snap = [a \in Addr |-> None]
    /\ changes \in ChangeFile
    /\ diff = FALSE
    /\ verdict = "none"
    /\ crash = record
    /\ crashed = FALSE
    /\ lost = {}
    /\ monitorOk = (plugins = <<>>)
    /\ refused = {}
-----------------------------------------------------------------------------
(* The steps of main() *)

\* Frames for the steps that leave the host, the mounts or the files alone.
KeepHost  == UNCHANGED <<record, replay, hostVars>>
KeepRun   == UNCHANGED <<fs, changes, diff, verdict>>
KeepMount == UNCHANGED <<recMounted, repMounted, leaked>>
KeepObs   == UNCHANGED <<crash, crashed, lost, refused>>

Goto(from, to) == pc = from /\ pc' = to

\* "cleanup_harness(); return -1"
FailTo(from) == Goto(from, "cleanup") /\ exitCode' = "err"
\* A plain "return -1", which leaves everything as it is.
Quit(from)   == Goto(from, "done") /\ exitCode' = "err"

\* A step of the harness alone.
Local == KeepHost /\ KeepRun /\ KeepObs /\ UNCHANGED <<snap, monitorOk>>

LoadTest ==
    /\ \/ Goto("load_test", "connect") /\ exitCode' = exitCode
       \/ FailTo("load_test")
    /\ Local /\ KeepMount

Connect ==
    /\ \/ Goto("connect", "format") /\ exitCode' = exitCode
       \/ Quit("connect")
    /\ Local /\ KeepMount

\* Bug: the snapshot is taken of the mounted NOVA.
FormatThenSnapshot ==
    /\ \/ Goto("format", "snapshot") /\ recMounted' = TRUE /\ exitCode' = exitCode
       \/ FailTo("format") /\ recMounted' = recMounted
    /\ Local /\ UNCHANGED <<repMounted, leaked>>

\* Bug: the status of the mkfs command is not looked at.
FormatUnchecked ==
    /\ Goto("format", IF fs = "NOVA" THEN "umount_init" ELSE "snapshot")
    /\ recMounted' = TRUE /\ exitCode' = exitCode
    /\ Local /\ UNCHANGED <<repMounted, leaked>>

\* For every supported file system the mkfs command also mounts, which fails on
\* a device that is mounted.  Only NOVA is unmounted for the snapshot.
Format ==
    /\ \/ /\ ~recMounted
          /\ Goto("format", IF fs = "NOVA" THEN "umount_init" ELSE "snapshot")
          /\ recMounted' = TRUE /\ exitCode' = exitCode
       \/ FailTo("format") /\ recMounted' = recMounted
    /\ Local /\ UNCHANGED <<repMounted, leaked>>

UmountInit ==
    /\ \/ /\ recMounted /\ leaked = {}
          /\ Goto("umount_init", "snapshot") /\ recMounted' = FALSE /\ exitCode' = exitCode
       \/ FailTo("umount_init") /\ recMounted' = recMounted
    /\ Local /\ UNCHANGED <<repMounted, leaked>>

\* dd copies the device location by location, in no order the model fixes.
SnapshotCopy(a) ==
    /\ pc = "snapshot"
    /\ snap[a] = None
    /\ snap' = [snap EXCEPT ![a] = record[a]]
    /\ KeepHost /\ KeepRun /\ KeepMount /\ KeepObs
    /\ UNCHANGED <<pc, exitCode, monitorOk>>

\* Bug: dd is given too small a count and copies a part of the device.
SnapshotEndsEarly ==
    /\ Goto("snapshot", "restore") /\ exitCode' = exitCode
    /\ Local /\ KeepMount

SnapshotEnds ==
    /\ \/ /\ \A a \in Addr : snap[a] # None
          /\ Goto("snapshot", "restore") /\ exitCode' = exitCode
       \/ FailTo("snapshot")
    /\ Local /\ KeepMount

\* Bug: the snapshot is not restored.
RestoreNothing ==
    /\ Goto("restore", IF fs = "NOVA" THEN "mount_init" ELSE "load_wt")
    /\ exitCode' = exitCode
    /\ Local /\ KeepMount

RestoreSnapshot ==
    /\ \/ /\ Goto("restore", IF fs = "NOVA" THEN "mount_init" ELSE "load_wt")
          /\ replay' = snap /\ exitCode' = exitCode
       \/ FailTo("restore") /\ replay' \in {replay, snap}
    /\ UNCHANGED <<record, hostVars, snap, monitorOk>>
    /\ KeepRun /\ KeepMount /\ KeepObs

MountInit ==
    /\ \/ ~recMounted /\ Goto("mount_init", "load_wt") /\ recMounted' = TRUE /\ exitCode' = exitCode
       \/ FailTo("mount_init") /\ recMounted' = recMounted
    /\ Local /\ UNCHANGED <<repMounted, leaked>>

\* SendCommand: the command is on its way, or the send failed and main returns
\* without any cleanup.
Send(from, cmd, to) ==
    /\ \/ Goto(from, to) /\ cmds' = Append(cmds, cmd) /\ exitCode' = exitCode
       \/ Quit(from) /\ cmds' = cmds
    /\ UNCHANGED <<record, replay, plugins, trace, written, replaying, rpos>>
    /\ KeepRun /\ KeepMount /\ KeepObs /\ UNCHANGED <<snap, monitorOk>>

\* Bug: the reply is not waited for (the "TODO: Is it worth waiting").
AwaitNothing(from, to) ==
    /\ Goto(from, to) /\ exitCode' = exitCode
    /\ KeepHost /\ KeepRun /\ KeepMount /\ KeepObs /\ UNCHANGED <<snap, monitorOk>>

\* ReceiveReply, whose result main ignores: it returns when the monitor has
\* answered, or before that, or it never does: a mark that is split between two
\* chunks is not found (module MonitorSocket).
Await(from, to) ==
    /\ \/ Goto(from, to) /\ monitorOk' = (monitorOk /\ cmds = <<>>)
       \/ Goto(from, "no_reply") /\ monitorOk' = FALSE
    /\ exitCode' = exitCode
    /\ KeepHost /\ KeepRun /\ KeepMount /\ KeepObs /\ UNCHANGED snap

SendLoadTracker    == Send("load_wt", "load_writetracker", "wait_load_wt")
AwaitLoadTracker   == Await("wait_load_wt", "workload")
SendUnloadTracker  == Send("unload_wt", "unload_0", "wait_unload_wt")
AwaitUnloadTracker == Await("wait_unload_wt", "umount")
SendLoadReplayer   == Send("load_rp", "load_replayer", "wait_load_rp")
AwaitLoadReplayer  == Await("wait_load_rp", "unload_rp")
SendUnloadReplayer == Send("unload_rp", "unload_0", "wait_unload_rp")
AwaitUnloadReplayer == Await("wait_unload_rp", "check")

\* system("./workload"); its stores are steps of the guest.
RunWorkload ==
    /\ Goto("workload", "fork") /\ exitCode' = exitCode
    /\ Local /\ KeepMount

\* The forked child truncates run_changes, unless it cannot open it and leaves
\* an old file, and runs the test, which writes the DiskMods, possibly after a
\* failed step.  The parent polls waitpid until the child is gone and looks at
\* its status only for death by a signal.
ForkTest ==
    /\ \/ Goto("fork", "get_changes") /\ exitCode' = exitCode
       \/ FailTo("fork")     \* fork failed, or a signal killed the child
       \/ Goto("fork", "no_exit") /\ exitCode' = exitCode
    /\ changes' \in {changes} \cup (ChangeFile \ {"absent"})
    /\ KeepHost /\ KeepMount /\ KeepObs /\ UNCHANGED <<snap, monitorOk, fs, diff, verdict>>

\* GetChangeData opens, reads and splits run_changes (module ChangeLog).  Reading
\* may fail, and Deserialize may run out of its buffer and crash the harness.
GetChanges ==
    /\ \/ /\ changes \notin {"absent", "torn"}
          /\ Goto("get_changes", "unload_wt") /\ exitCode' = exitCode
       \/ FailTo("get_changes")
       \/ /\ changes # "absent"
          /\ Goto("get_changes", "done") /\ exitCode' = "abort"
    /\ Local /\ KeepMount

\* Bug: the result of the umount is not looked at.
UmountUnchecked ==
    /\ Goto("umount", "load_rp") /\ exitCode' = exitCode
    /\ recMounted' \in {recMounted, FALSE}
    /\ Local /\ UNCHANGED <<repMounted, leaked>>

Umount ==
    /\ \/ /\ recMounted /\ leaked = {}
          /\ Goto("umount", "load_rp") /\ recMounted' = FALSE /\ exitCode' = exitCode
       \/ FailTo("umount") /\ recMounted' = recMounted
    /\ Local /\ UNCHANGED <<repMounted, leaked>>
-----------------------------------------------------------------------------
(* Tester::test_check and the way out *)

\* A mount that fails makes test_check return, and main goes on to its cleanup.
MountReplay ==
    /\ \/ ~repMounted /\ Goto("check", "check_record") /\ repMounted' = TRUE
       \/ Goto("check", "cleanup") /\ repMounted' = repMounted
    /\ exitCode' = exitCode
    /\ Local /\ UNCHANGED <<recMounted, leaked>>

MountRecord ==
    /\ \/ ~recMounted /\ Goto("check_record", "compare") /\ recMounted' = TRUE
       \/ Goto("check_record", "cleanup") /\ recMounted' = recMounted
    /\ exitCode' = exitCode
    /\ Local /\ UNCHANGED <<repMounted, leaked>>

\* check_disk_and_snapshot_contents opens "diff" and then asks mods_.at() for
\* the segment before the last one, which throws when there is none; the buffers
\* for a range may be too much for new.  Deleting all files as a sanity check may
\* fail and leave a directory open.
Compare ==
    /\ diff' = TRUE
    /\ \/ /\ changes = "segments"
          /\ Goto("compare", "cleanup") /\ exitCode' = exitCode
          /\ \/ verdict' = "pass" /\ leaked' = leaked
             \/ verdict' = "fail" /\ leaked' \in {leaked, leaked \cup {"check"}}
       \/ /\ Goto("compare", "done") /\ exitCode' = "abort"
          /\ UNCHANGED <<verdict, leaked>>
    /\ KeepHost /\ KeepObs
    /\ UNCHANGED <<fs, changes, recMounted, repMounted, snap, monitorOk>>

\* umount fails with EBUSY.
Busy == recMounted /\ leaked # {}

\* The way out of cleanup_harness: an error path of main() returns there.
LeaveCleanup == Goto("cleanup", IF exitCode = "err" THEN "done" ELSE "umount_replay")

\* cleanup_harness repeats umount while it says EBUSY.  Any other failure ends
\* the loop, with a device that was mounted still mounted.
Cleanup ==
    /\ \/ Busy /\ Goto("cleanup", "cleanup") /\ UNCHANGED <<recMounted, refused>>
       \/ ~Busy /\ LeaveCleanup /\ recMounted' = FALSE /\ refused' = refused
       \/ recMounted /\ ~Busy /\ LeaveCleanup /\ recMounted' = TRUE
          /\ refused' = refused \cup {"record"}
    /\ exitCode' = exitCode
    /\ KeepHost /\ KeepRun
    /\ UNCHANGED <<snap, monitorOk, crash, crashed, lost, repMounted, leaked>>

\* Bug: the replay device stays mounted.
LeaveReplayMounted ==
    /\ Goto("umount_replay", "done") /\ exitCode' = "ok"
    /\ Local /\ KeepMount

\* system("umount /mnt/pmem1"), whose result main() ignores.
UmountReplay ==
    /\ Goto("umount_replay", "done") /\ exitCode' = "ok"
    /\ \/ repMounted' = FALSE /\ refused' = refused
       \/ repMounted /\ repMounted' = TRUE /\ refused' = refused \cup {"replay"}
    /\ KeepHost /\ KeepRun
    /\ UNCHANGED <<snap, monitorOk, crash, crashed, lost, recMounted, leaked>>

Main ==
    \/ LoadTest \/ Connect \/ Format \/ UmountInit
    \/ \E a \in Addr : SnapshotCopy(a)
    \/ SnapshotEnds \/ RestoreSnapshot \/ MountInit
    \/ SendLoadTracker \/ AwaitLoadTracker \/ RunWorkload \/ ForkTest \/ GetChanges
    \/ SendUnloadTracker \/ AwaitUnloadTracker \/ Umount
    \/ SendLoadReplayer \/ AwaitLoadReplayer
    \/ SendUnloadReplayer \/ AwaitUnloadReplayer
    \/ MountReplay \/ MountRecord \/ Compare \/ Cleanup \/ UmountReplay
-----------------------------------------------------------------------------
(* The guest's stores and the host *)

\* The file system stores while it is mounted and while a mkfs, mount or
\* umount is in progress.
RecordBusy == recMounted \/ pc \in {"format", "mount_init", "check_record"}

GuestStore(a, v) ==
    /\ RecordBusy
    /\ Store(a, v)
    /\ lost' = IF Tracking THEN lost \ {a}
               ELSE IF snap[a] # None /\ ~crashed THEN lost \cup {a} ELSE lost
    /\ UNCHANGED <<harnessVars, crash, crashed, monitorOk, refused>>

\* Recovery and the comparison may store to the mounted replay device, which is
\* outside the tracked range.
GuestStoreReplay(a, v) ==
    /\ repMounted
    /\ replay' = [replay EXCEPT ![a] = v]
    /\ UNCHANGED <<record, hostVars, harnessVars, obsVars>>

GuestFlush == FlushOrFence /\ RecordBusy /\ UNCHANGED <<harnessVars, obsVars>>

HostRefuses == LoadRefused /\ monitorOk' = FALSE
               /\ UNCHANGED <<harnessVars, crash, crashed, lost, refused>>

HostUnloads ==
    /\ UnloadFirst
    /\ IF plugins # <<>> /\ Head(plugins) = "writetracker"
       THEN crash' = record /\ crashed' = TRUE
       ELSE UNCHANGED <<crash, crashed>>
    /\ UNCHANGED <<harnessVars, lost, monitorOk, refused>>

HostWorks == (LoadWritetracker \/ LoadReplayer \/ ReplayEntry \/ ReplayAtEnd)
             /\ UNCHANGED <<harnessVars, obsVars>>

HostSpills == SpillTrace /\ UNCHANGED <<harnessVars, obsVars>>

Host  == HostRefuses \/ HostUnloads \/ HostWorks
Guest == \/ \E a \in Addr, v \in Val : GuestStore(a, v) \/ GuestStoreReplay(a, v)
         \/ GuestFlush

Terminated == (pc = "done" \/ Hung) /\ cmds = <<>> /\ UNCHANGED vars

Next == Main \/ Guest \/ Host \/ HostSpills \/ Terminated

Spec == Init /\ [][Next]_vars

\* The harness is a running process and QEMU keeps serving its monitor, so
\* neither stops while it has a step to take.
FairSpec == Spec /\ WF_vars(Main) /\ WF_vars(Host)
-----------------------------------------------------------------------------
(* What the run promises *)

\* The replay device, as the check finds it, is the record device as it was
\* when the tracker was unloaded -- except for offsets that were stored between
\* their snapshot and the start of the tracking and never again (main.cpp
\* leaves the mount traffic of NOVA, and whatever a mounted pmfs or ext4 stores,
\* untracked).  An empty trace is excluded, see GarbageIteration of
\* Panda.
FaithfulImage ==
    (pc = "check" /\ monitorOk /\ trace # <<>>) =>
        \A a \in Addr \ lost : replay[a] = crash[a]

\* NOVA is snapshotted while unmounted, so the copy that dd makes location by
\* location is one image of the device, not a mixture of several.
SnapshotIsAnImage == (pc = "restore" /\ fs = "NOVA") => snap = record

\* Nothing is logged once the tracker was unloaded: the trace ends with the
\* simulated crash, whatever the umount and the later mounts store.
TraceEndsAtCrash == [][(monitorOk /\ crashed) => trace' = trace]_vars

\* The replayer never writes under a mounted replay file system: main waits for
\* the reply to load_plugin before it mounts the device.
NoReplayUnderMount == monitorOk => ~(replaying /\ repMounted)

\* A run that exits with 0 leaves a device mounted only where its umount failed,
\* with another error than EBUSY for the record device, and, if the monitor did
\* its part, leaves no plugin behind in PANDA.
CleanExit == (pc = "done" /\ exitCode = "ok") =>
                 /\ recMounted => "record" \in refused
                 /\ repMounted => "replay" \in refused
                 /\ monitorOk => plugins = <<>>

\* main.cpp says of the call of cleanup_harness that it "will unmount the record
\* device": a harness whose replies come and whose test ends gets past it.
Terminates == <>(pc = "done" \/ Hung)
=============================================================================
