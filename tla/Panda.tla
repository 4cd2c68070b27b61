------------------------------- MODULE Panda -------------------------------
(***************************************************************************)
(* The host side: PANDA (QEMU) with its plugin list, the monitor that      *)
(* executes the commands of the harness in order, the writetracker plugin  *)
(* that logs the guest's persistent-memory traffic to wt.out, and the      *)
(* replayer plugin that applies wt.out to the replay device from its       *)
(* init_plugin.                                                            *)
(*                                                                         *)
(* An address is an offset into the tracked range; the record and replay   *)
(* devices are functions from offsets to values.  A trace entry is what    *)
(* log_output writes; its program counter is left out.                     *)
(***************************************************************************)
EXTENDS Naturals, Sequences

CONSTANTS Addr,      \* offsets of the tracked range
          Val,       \* contents of one location
          None,      \* "no value"
          MaxTrace   \* bound on the number of entries of wt.out

ASSUME NoneAssumption == None \notin Val /\ None \notin Addr
ASSUME BoundAssumption == MaxTrace \in Nat

VARIABLES
    record,     \* the record device, /dev/pmem0
    replay,     \* the replay device, /dev/pmem1
    plugins,    \* the plugins PANDA has loaded, in list order
    cmds,       \* monitor commands sent and not yet carried out
    trace,      \* the entries written to the ofstream of wt.out
    written,    \* how many of them have reached the file
    replaying,  \* the replayer is inside its init_plugin
    rpos        \* entries of wt.out it has consumed

hostVars == <<plugins, cmds, trace, written, replaying, rpos>>

Device  == [Addr -> Val]
Command == {"load_writetracker", "load_replayer", "unload_0"}

WriteOf(a, v) == [type |-> "WRITE", addr |-> a, val |-> v]
FlushOf(a)    == [type |-> "FLUSH", addr |-> a, val |-> None]
Fence         == [type |-> "FENCE", addr |-> None, val |-> None]
Entry == {WriteOf(a, v) : a \in Addr, v \in Val}
            \cup {FlushOf(a) : a \in Addr} \cup {Fence}

PandaTypeOK ==
    /\ record \in Device
    /\ replay \in Device
    /\ plugins \in Seq({"writetracker", "replayer", "other"})
    /\ cmds \in Seq(Command)
    /\ trace \in Seq(Entry)
    /\ written \in 0..Len(trace)
    /\ replaying \in BOOLEAN
    /\ rpos \in 0..Len(trace)

Loaded(p) == \E i \in 1..Len(plugins) : plugins[i] = p
Tracking  == Loaded("writetracker")

\* What one iteration of the replayer does to an image.
Apply(image, e) == IF e.type = "WRITE" THEN [image EXCEPT ![e.addr] = e.val]
                                       ELSE image
-----------------------------------------------------------------------------
(* writetracker: the callbacks that log *)

log_output(e) == /\ Len(trace) < MaxTrace
                 /\ trace' = Append(trace, e)

\* Bug: the callbacks stay registered when the plugin is gone.
StoreAlwaysLogged(a, v) ==
    /\ record' = [record EXCEPT ![a] = v]
    /\ log_output(WriteOf(a, v))
    /\ UNCHANGED <<replay, plugins, cmds, written, replaying, rpos>>

\* A store of the guest to the record device.  The write callback runs after
\* the store and logs it; without the plugin nothing is logged.
Store(a, v) ==
    /\ record' = [record EXCEPT ![a] = v]
    /\ IF Tracking THEN log_output(WriteOf(a, v)) ELSE trace' = trace
    /\ UNCHANGED <<replay, plugins, cmds, written, replaying, rpos>>

\* A clflush, clwb or clflushopt of a tracked line, or an mfence or sfence.
FlushOrFence ==
    /\ Tracking
    /\ \/ \E a \in Addr : log_output(FlushOf(a))
       \/ log_output(Fence)
    /\ UNCHANGED <<record, replay, plugins, cmds, written, replaying, rpos>>

\* The ofstream's buffer spills to the file whenever it is full.
SpillTrace ==
    /\ Tracking
    /\ written < Len(trace)
    /\ \E n \in (written + 1)..Len(trace) : written' = n
    /\ UNCHANGED <<record, replay, plugins, cmds, trace, replaying, rpos>>
-----------------------------------------------------------------------------
(* The monitor executes the command at the head of the queue. *)

\* Bug: wt.out is opened to append.
LoadAppending ==
    /\ cmds # <<>> /\ Head(cmds) = "load_writetracker"
    /\ ~replaying
    /\ ~Tracking
    /\ cmds' = Tail(cmds)
    /\ plugins' = Append(plugins, "writetracker")
    /\ UNCHANGED <<record, replay, trace, written, replaying, rpos>>

\* init_plugin of writetracker: wt.out is truncated and logging starts.
LoadWritetracker ==
    /\ cmds # <<>> /\ Head(cmds) = "load_writetracker"
    /\ ~replaying
    /\ ~Tracking
    /\ cmds' = Tail(cmds)
    /\ plugins' = Append(plugins, "writetracker")
    /\ trace' = <<>>
    /\ written' = 0
    /\ rpos' = 0
    /\ UNCHANGED <<record, replay, replaying>>

\* PANDA does not load the plugin: no such file, loaded already, or its
\* init_plugin returned false (replayer: wt.out cannot be opened).
LoadRefused ==
    /\ cmds # <<>> /\ Head(cmds) \in {"load_writetracker", "load_replayer"}
    /\ ~replaying
    /\ cmds' = Tail(cmds)
    /\ UNCHANGED <<record, replay, plugins, trace, written, replaying, rpos>>

\* Bug: uninit_plugin does not close wt.out.
UnloadWithoutClose ==
    /\ cmds # <<>> /\ Head(cmds) = "unload_0"
    /\ ~replaying
    /\ cmds' = Tail(cmds)
    /\ plugins' = IF plugins = <<>> THEN <<>> ELSE Tail(plugins)
    /\ UNCHANGED <<record, replay, trace, written, replaying, rpos>>

\* unload_plugin 0 removes whatever is first in the list.  uninit_plugin of
\* writetracker closes wt.out, which writes out the rest of the buffer.
UnloadFirst ==
    /\ cmds # <<>> /\ Head(cmds) = "unload_0"
    /\ ~replaying
    /\ cmds' = Tail(cmds)
    /\ plugins' = IF plugins = <<>> THEN <<>> ELSE Tail(plugins)
    /\ written' = IF plugins # <<>> /\ Head(plugins) = "writetracker"
                  THEN Len(trace) ELSE written
    /\ UNCHANGED <<record, replay, trace, replaying, rpos>>

\* init_plugin of replayer opens wt.out and starts its loop.
LoadReplayer ==
    /\ cmds # <<>> /\ Head(cmds) = "load_replayer"
    /\ ~replaying
    /\ ~Loaded("replayer")
    /\ replaying' = TRUE
    /\ rpos' = 0
    /\ UNCHANGED <<record, replay, plugins, cmds, trace, written>>

\* One iteration of the loop: a WRITE is applied to the replay device, a FLUSH
\* or FENCE is only printed.
ReplayEntry ==
    /\ replaying
    /\ rpos < written
    /\ rpos' = rpos + 1
    /\ replay' = Apply(replay, trace[rpos + 1])
    /\ UNCHANGED <<record, plugins, cmds, trace, written, replaying>>

\* The loop runs once more at the end of the file, because the stream fails
\* only when a read comes up short, and the switch then sees the values of the
\* iteration before: the last entry, if it is a WRITE, is applied again.
StaleIteration == replay' = Apply(replay, trace[rpos])

\* With no entry before it, or with a record cut short by a tracker that is
\* still writing, it sees uninitialised or partly read variables and may write
\* anything.  (If the garbage size makes the host run out of memory, QEMU, the
\* guest and the harness die together and there is no state left to describe.)
GarbageIteration == \/ replay' = replay
                    \/ \E a \in Addr, v \in Val : replay' = [replay EXCEPT ![a] = v]

ReplayAtEnd ==
    /\ replaying
    /\ rpos = written
    /\ IF rpos > 0 /\ written = Len(trace) THEN StaleIteration ELSE GarbageIteration
    /\ replaying' = FALSE
    /\ cmds' = Tail(cmds)
    /\ plugins' = Append(plugins, "replayer")
    /\ UNCHANGED <<record, trace, written, rpos>>
=============================================================================
