---------------------------- MODULE HarnessRuns ----------------------------
(***************************************************************************)
(* Run after run of the harness in one guest, against one QEMU.  A run may *)
(* return early, be aborted, or be killed at any step; the next one finds  *)
(* the devices, the mounts, run_changes, PANDA's plugins, wt.out and the   *)
(* commands that are still on their way as the earlier ones left them, and *)
(* possibly a forked test that outlived its parent.                        *)
(***************************************************************************)
EXTENDS HarnessInv

CONSTANT MaxPending   \* bound: commands on their way when a run begins

ASSUME PendingAssumption == MaxPending \in Nat

\* Observation: which devices were mounted when this run began.
VARIABLE found

VARIABLE orphan       \* the test of a killed run is still running

runVars == <<vars, found, orphan>>

MountsNow == [rec |-> recMounted, rep |-> repMounted]
Clean     == ~found.rec /\ ~found.rep

RunsTypeOK == TypeOK /\ found \in [rec : BOOLEAN, rep : BOOLEAN]
              /\ orphan \in BOOLEAN

RunsInit == Init /\ found = MountsNow /\ orphan = FALSE

\* The process ends and takes its open directory with it.  What it asked of the
\* monitor goes on, and so may the test that it forked.
Interrupt ==
    /\ pc # "done"
    /\ orphan' \in {orphan} \cup (IF pc \in {"fork", "no_exit"} THEN {TRUE} ELSE {})
    /\ pc' = "done"
    /\ exitCode' = "abort"
    /\ leaked' = leaked \ {"check"}
    /\ monitorOk' = (monitorOk /\ cmds = <<>>)
    /\ KeepHost /\ KeepRun /\ KeepObs
    /\ UNCHANGED <<recMounted, repMounted, snap, found>>

\* Nobody waits for the orphan.  It goes on writing run_changes and opening and
\* closing files of the record device; its stores are steps of the guest.
OrphanWorks ==
    /\ orphan
    /\ changes' \in {changes} \cup (ChangeFile \ {"absent"})
    /\ \/ leaked' = leaked \ {"test"}
       \/ recMounted /\ leaked' = leaked \cup {"test"}
    /\ KeepHost /\ KeepObs
    /\ UNCHANGED <<pc, exitCode, fs, recMounted, repMounted, snap, diff, verdict,
                   monitorOk, found, orphan>>

OrphanEnds ==
    /\ orphan /\ orphan' = FALSE
    /\ leaked' = leaked \ {"test"}
    /\ KeepHost /\ KeepRun /\ KeepObs
    /\ UNCHANGED <<pc, exitCode, recMounted, repMounted, snap, monitorOk, found>>

\* A new process enters main(), with a file system of its choice.  The dd of its
\* snapshot begins the file anew.
Restart ==
    /\ pc = "done" /\ Len(cmds) <= MaxPending
    /\ pc' = "load_test"
    /\ exitCode' = "none"
    /\ fs' \in FileSystems
    /\ snap' = [a \in Addr |-> None]
    /\ diff' = FALSE
    /\ verdict' = "none"
    /\ crash' = record /\ crashed' = FALSE /\ lost' = {} /\ refused' = {}
    /\ monitorOk' = (plugins = <<>> /\ cmds = <<>>)
    /\ found' = MountsNow
    /\ KeepHost
    /\ UNCHANGED <<recMounted, repMounted, leaked, changes, orphan>>

InRun(A) == A /\ UNCHANGED <<found, orphan>>

RunsNext == InRun(Next) \/ Interrupt \/ Restart \/ OrphanWorks \/ OrphanEnds

RunsSpec == RunsInit /\ [][RunsNext]_runVars
-----------------------------------------------------------------------------
(* What holds from run to run *)

\* What an earlier run left in wt.out, run_changes, snapshot.snap and on the
\* devices does not reach this one: if it began with nothing mounted, the replay
\* device shows its crash image.
RunFaithful == Clean => FaithfulImage

\* A run that finds the record device mounted tests nothing: the format fails,
\* and it does not report success.
MountedStartFails ==
    found.rec => /\ pc \in {"load_test", "connect", "format", "cleanup", "done"}
                 /\ exitCode # "ok"

\* A run that ends with exit code 0 hands the devices unmounted to the next, also
\* when it began with a device that a killed run had left mounted -- unless one of
\* its own umounts on the way out failed, which does not show in the exit code.
HandsOverUnmounted ==
    [][(pc = "done" /\ pc' = "load_test" /\ exitCode = "ok") =>
           /\ found'.rec => "record" \in refused
           /\ found'.rep => "replay" \in refused]_runVars

\* main.cpp says before the call of test_check that "both record and replay
\* devices are not mounted".  The record device is not, whatever became of earlier
\* runs; the replay device is only if this run began with it mounted: no step of
\* main() looks whether it is.
UnmountedAtCheck == pc = "check" => ~recMounted /\ (repMounted => found.rep)
-----------------------------------------------------------------------------
(* The inductive invariant: types and exits always, IInv in a run with a    *)
(* clean start.                                                             *)

\* From the second umount to the second mount of the record device.
AfterUmount == {"load_rp", "wait_load_rp", "unload_rp", "wait_unload_rp", "check",
                "check_record"}

\* What main() has unmounted for the replay and on its way out.
Exits ==
    /\ pc \in AfterUmount => ~recMounted
    /\ recMounted /\ (pc = "umount_replay" \/ (pc = "done" /\ exitCode = "ok"))
         => "record" \in refused
    /\ repMounted /\ pc = "done" /\ exitCode = "ok" => "replay" \in refused
    /\ pc \notin Leaving => exitCode = "none"
    /\ pc = "cleanup" => exitCode \in {"none", "err"}

\* Nothing before the format unmounts the record device.
StuckAtFormat ==
    found.rec => /\ MountedStartFails
                 /\ pc \in {"load_test", "connect", "format"} => recMounted
                 /\ pc = "cleanup" => exitCode = "err"

RunInv ==
    /\ TypeInv /\ found \in [rec : BOOLEAN, rep : BOOLEAN] /\ orphan \in BOOLEAN
    /\ Exits
    /\ StuckAtFormat
    /\ Clean => IInv
=============================================================================
