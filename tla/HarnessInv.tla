----------------------------- MODULE HarnessInv -----------------------------
(***************************************************************************)
(* The inductive strengthening of the safety properties of Harness.        *)
(***************************************************************************)
EXTENDS Harness

\* Entry i of trace t stores to offset a.
Writes(t, i, a) == t[i].type = "WRITE" /\ t[i].addr = a

\* Offset a of an image is what the first n entries of trace t make of the
\* image base: the last value stored there or, without one, that of base.
Agrees(image, base, t, n, a) ==
    \/ \E i \in 1..n :
         /\ Writes(t, i, a)
         /\ \A j \in (i + 1)..n : ~Writes(t, j, a)
         /\ image[a] = t[i].val
    \/ /\ \A i \in 1..n : ~Writes(t, i, a)
       /\ image[a] = base[a]

BeforeTracking == {"load_test", "connect", "format", "umount_init", "snapshot",
                   "restore", "mount_init", "load_wt"}
WhileTracking  == {"workload", "fork", "no_exit", "get_changes", "unload_wt"}
AfterReplay    == {"check", "check_record", "compare", "umount_replay"}
Leaving        == {"cleanup", "done"}
\* From the restored snapshot to the start of the replayer.
Restored       == {"mount_init", "load_wt", "wait_load_wt", "wait_unload_wt",
                   "umount", "load_rp"} \cup WhileTracking

HostIdle == cmds = <<>> /\ ~replaying

\* What the host holds at each step of main(), as long as it does its part: at
\* most one command is on its way and at most one plugin is loaded.
Control ==
    \/ pc \in BeforeTracking /\ HostIdle /\ plugins = <<>> /\ ~crashed
    \/ /\ pc = "wait_load_wt" /\ ~replaying /\ ~crashed
       /\ \/ cmds = <<"load_writetracker">> /\ plugins = <<>>
          \/ cmds = <<>> /\ plugins = <<"writetracker">>
    \/ pc \in WhileTracking /\ HostIdle /\ plugins = <<"writetracker">> /\ ~crashed
    \/ /\ pc = "wait_unload_wt" /\ ~replaying
       /\ \/ cmds = <<"unload_0">> /\ plugins = <<"writetracker">> /\ ~crashed
          \/ cmds = <<>> /\ plugins = <<>> /\ crashed
    \/ pc \in {"umount", "load_rp"} /\ HostIdle /\ plugins = <<>> /\ crashed
    \/ /\ pc = "wait_load_rp" /\ crashed
       /\ \/ cmds = <<"load_replayer">> /\ plugins = <<>>
          \/ cmds = <<>> /\ plugins = <<"replayer">> /\ ~replaying
    \/ pc = "unload_rp" /\ HostIdle /\ plugins = <<"replayer">> /\ crashed
    \/ /\ pc = "wait_unload_rp" /\ ~replaying /\ crashed
       /\ \/ cmds = <<"unload_0">> /\ plugins = <<"replayer">>
          \/ cmds = <<>> /\ plugins = <<>>
    \/ pc \in AfterReplay /\ HostIdle /\ plugins = <<>> /\ crashed
    \/ /\ pc \in Leaving /\ HostIdle
       /\ plugins \in {<<>>, <<"writetracker">>, <<"replayer">>}
       /\ plugins = <<"writetracker">> => ~crashed
       /\ exitCode \in {"none", "ok"} => plugins = <<>> /\ crashed

\* The record device, off the lost offsets, is the snapshot until tracking
\* starts and the snapshot overlaid with the trace while it lasts; at the crash
\* that image is kept, and so is the whole trace.
RecordImage ==
    /\ ~Tracking /\ ~crashed =>
         \A a \in Addr \ lost : snap[a] # None => record[a] = snap[a]
    /\ Tracking => \A a \in Addr \ lost : Agrees(record, snap, trace, Len(trace), a)
    /\ crashed => /\ written = Len(trace)
                  /\ \A a \in Addr \ lost : Agrees(crash, snap, trace, Len(trace), a)

\* The replay device is the snapshot until the replayer starts, and the
\* snapshot overlaid with the entries it has consumed from then on.
ReplayImage ==
    /\ pc \in Restored => replay = snap
    /\ pc = "wait_load_rp" =>
         /\ cmds # <<>> /\ ~replaying => replay = snap
         /\ replaying => \A a \in Addr : Agrees(replay, snap, trace, rpos, a)
         /\ cmds = <<>> /\ trace # <<>> =>
              \A a \in Addr : Agrees(replay, snap, trace, Len(trace), a)
    /\ pc \in {"unload_rp", "wait_unload_rp", "check"} /\ trace # <<>> =>
         \A a \in Addr : Agrees(replay, snap, trace, Len(trace), a)

\* Where the devices may be mounted, and NOVA's quiet snapshot.
Mounts ==
    /\ repMounted => pc \in {"check_record", "compare", "cleanup", "umount_replay", "done"}
    /\ recMounted /\ (pc = "umount_replay" \/ (pc = "done" /\ exitCode = "ok"))
         => "record" \in refused
    /\ repMounted /\ pc = "done" /\ exitCode = "ok" => "replay" \in refused
    /\ pc \notin Leaving => exitCode = "none"
    /\ pc = "cleanup" => exitCode \in {"none", "err"}
    /\ pc \in {"load_test", "connect", "format", "umount_init"} =>
         \A a \in Addr : snap[a] = None
    /\ fs = "NOVA" /\ pc \in {"snapshot", "restore"} =>
         /\ ~recMounted
         /\ \A a \in Addr : snap[a] # None => snap[a] = record[a]

\* A snapshot that is restored is complete: without this, what dd writes to the
\* replay device would have no type.
SnapshotComplete == pc = "restore" => \A a \in Addr : snap[a] # None

\* The replayer runs while its load command is being carried out.
MonitorBusy == replaying => cmds # <<>>

\* Type correctness as it is inductive.
TypeInv == TypeOK /\ SnapshotComplete /\ MonitorBusy

\* The inductive invariant: what the proofs of FaithfulImage and of the other
\* safety properties carry from step to step.
IInv == /\ TypeInv
        /\ Mounts
        /\ monitorOk => Control /\ RecordImage /\ ReplayImage
=============================================================================
