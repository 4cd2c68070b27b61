# PMTester in TLA+

PMTester tests the crash consistency of persistent-memory file systems. A
virtual machine runs under PANDA (QEMU); inside it the *harness* mounts a file
system on the *record* device, lets a test work on it while a PANDA plugin
traces every store to the device, replays the trace onto a *replay* device that
starts from a snapshot, mounts the result and compares the two. A wrong verdict
of such a tool is silent, so the specifications here ask one question in several
forms: **when the harness compares two devices, has it compared the right
things?**

## 1. The system

| Component | State | Operations | Talks to |
|---|---|---|---|
| `main()` (`src/main.cpp`) | the step it is at, its exit code | the twenty-odd steps of a run | everything below |
| `Tester` (`src/utils/Tester.cpp`) | `mods_` (segments of DiskMods), the loaded test, mounts | snapshot, restore, format, mount, umount, `GetChangeData`, `test_check`, `cleanup_harness` | shell commands, `DiskContents`, results |
| `FSCommands` (`src/utils/FSCommands.cpp`) | none | the mkfs, mount and umount commands of NOVA, pmfs, ext4-dax | `Tester` |
| `ClientSocket` (`src/communication/`) | a socket; a stack buffer per call | `Init`, `SendCommand`, `ReceiveReply` | QEMU monitor over TCP |
| writetracker (`personal_plugins/.../writetracker.cpp`) | the stream of `wt.out`, the range, registered callbacks | load, unload, log a store, a flush, a fence | guest's CPU, `wt.out` |
| replayer (`personal_plugins/.../replayer.cpp`) | its position in `wt.out` | load (which does all the work), unload | `wt.out`, replay device |
| `RecordCmFsOps` (`src/wrapper/wrapper.cpp`) | `mods_`, `fd_map_`, `mmap_map_` | one `Cm…` per file-system call, `CmCheckpoint`, `Serialize` | kernel, `run_changes` |
| `DiskMod` (`src/wrapper/DiskMod.cpp`) | one recorded change | `GetSerializeSize`, `Serialize`, `Deserialize`, `Reset` | recorder, `Tester` |
| `BaseTestCase` and tests (`src/tests/`) | the recorder of the run | `Run`: `run()`, then `Serialize` | forked by `main()` |
| `DiskContents` (`src/checker/`) | tree of attributes of a mount point | `compare_disk_contents`, `compare_entries_at_path`, `compare_file_contents`, `sanity_checks` (creates, then deletes everything) | both mounts, `diff` file |
| `WriteData`, `WriteDataMmap` (`src/wrapper/workload.cpp`) | none | write a pattern over a range, through `write` or a mapping | recorder or kernel |
| results (`src/results/`) | counters and error sets | tally, print | `Tester` |
| `ClassLoader` (`src/utils/ClassLoader.h`) | a `dlopen` handle | load, unload a test | `Tester` |
| scripts, launch files, workloads | – | stand-alone helpers | – |

How they interact: `main()` is sequential, but next to it run the guest's file
system (stores while a device is mounted, and while mkfs, mount or umount work),
the host's monitor (commands are carried out some time after they were sent),
the stream buffer of `wt.out` (which reaches the file some time after an entry
was logged) and a forked child (which writes `run_changes` and may be killed at
any point of that).

What is hard:

* *Interleaving.* Is a store in the snapshot, in the trace, in both, in neither?
  `dd` copies a device location by location.
* *Ordering across the host boundary.* `main()` may mount the replay device only
  after the replayer is done, and knows so only by the reply. It ignores the
  result of `ReceiveReply` at all four places.
* *Framing.* The end of a reply is the text `cmEOF`, searched for in single
  chunks of a stream in an uninitialised buffer.
* *Partial failure.* A child that fails, is killed, or whose `write` is short; a
  step that fails with devices mounted and plugins loaded; a directory stream
  that stays open.
* *Shadow state.* `fd_map_` and `mmap_map_` follow the kernel's descriptors,
  renames and mappings from outside.
* *What a run leaves behind.* The harness is started again and again in one guest
  against one QEMU. A run that was killed, aborted by an exception, or left by a
  plain `return -1`, leaves mounts, a loaded plugin, commands on their way, an old
  `wt.out`, an old `run_changes`, and perhaps the test it forked, still running. Even
  a run that exits with 0 may leave a mount: nobody acts on a `umount` that fails.
* *A tree that is deleted while it is walked*, with symbolic links in it, on a file
  system that is on trial and may fail any call.
* *Unsigned differences that wrap*, short writes in three loops that share their
  counters, in the helpers that tests write their data with.

What makes each component correct: for the whole run, that the replayed device
is the crash image; for the socket, that an "end of reply" is one; for the log,
that what arrives is what was recorded; for the recorder, that its maps name the
right files and its log describes the right file system; for the checker, that
it reports a difference exactly when there is one, and hands the device back; for
the workload helpers, that 0 means the range holds the data and nothing else was
touched.

## 2. The modules

| Module | Models |
|---|---|
| `Panda` | the host: monitor queue, plugin list, writetracker, replayer, both devices (operators, no `Spec`) |
| `Harness` (EXTENDS `Panda`) | `main()` with `Tester` and `FSCommands`, the guest's stores; the composition; `Spec`, `FairSpec` |
| `HarnessInv` (EXTENDS `Harness`) | the inductive invariant `IInv` |
| `HarnessProofs` | its theorems |
| `HarnessRuns` (EXTENDS `HarnessInv`) | run after run of the harness, each of which may be killed; `RunsSpec`, `RunInv` |
| `HarnessRunsProofs` | its theorems |
| `MonitorSocket` | `ClientSocket` against the monitor |
| `MonitorRpc` | abstract: requests are executed and answered one by one |
| `MonitorSocketProofs` | its theorems |
| `ChangeLog` | `Serialize`/`WriteWhole` in the child, `GetChangeData` and the choice of the DiskMod in the parent |
| `ChangeLogProofs` | its theorems |
| `Recorder` | `RecordCmFsOps` over a small POSIX file system |
| `RecorderProofs` | its theorems |
| `Checker` | `test_check` with `DiskContents`: comparison, dummy files, deletion |
| `CheckOutcome` | abstract: what `main()` knows of a check |
| `CheckerProofs` | its theorems |
| `Workload` | `WriteData`, `WriteDataMmap` |
| `WorkloadProofs` | its theorems |
| `MC…` | definitions for the configurations |

`Harness` uses the connection at the level of `MonitorRpc` (a queue of commands;
a reply may only be taken when the queue is empty, and a connection problem is
the loss of `monitorOk`); `MonitorSocket` shows when the socket provides that.
Likewise `Harness` knows of `run_changes` only what `ChangeLog` shows it can be:
absent, torn, with one segment, or with several. And `Harness!Compare` makes one
step of the whole check, which passes, fails, fails and leaves a directory open, or
throws and ends the harness (`MountReplay` and `MountRecord` are its failing mounts): that this is all a check
can do is `CheckOutcome`, which `Checker` refines.

### Harness and Panda

`pc` is the step of `main()`; there is one action per step, each with its success
and each of its early exits: `FailTo` is "`cleanup_harness(); return -1`", `Quit`
a plain `return -1`. `record` and `replay` are functions from the offsets of the
tracked range to values. `trace` is what the plugin has put into its `ofstream`,
`written` how much of that has reached the file: the stream spills at any time
(`SpillTrace`) and wholly when it is closed by `uninit_plugin`. The replayer
consumes one entry per step, makes one iteration too many at the end of the file
(`while (!in.eof())`), which repeats the last entry or, without a complete
entry before it, acts on uninitialised variables (`GarbageIteration`).
`GuestStore` interleaves with everything while the record device is mounted or
an external command is at work.

Both umounts on the way out may fail. `Cleanup` repeats the one of the record device
while it is busy (`leaked`: who keeps a file or directory of it open) and goes on
after any other error; `UmountReplay` ignores the result of its `system` call. Either
way `main()` exits with 0. Two waits may have no end: `Await` may go to `no_reply`,
for a mark that `ReceiveReply` misses, and `ForkTest` to `no_exit`, for a test that
hangs (`Hung`).

Observation variables, which guide no step of the program: `crash` (the device when
the tracker was unloaded), `crashed`, `lost` (offsets stored between their snapshot
and the start of tracking, and not since), `monitorOk` (the monitor was empty at
the start, has refused nothing, and no reply was believed before its command was
done), `refused` (the devices whose umount on the way out failed).

### HarnessRuns

`RunsNext` is `Next` of `Harness`, `Interrupt` (the process dies at any step, by a
signal or an uncaught exception; what it asked of the monitor goes on) and
`Restart` (a new process enters `main()` and finds everything outside of it as it
is, its own observations and the snapshot file reset). The test that a killed run
has forked may live on as an `orphan`: it writes `run_changes` and keeps files of the
record device open (`OrphanWorks`) under the next runs, until it ends or for ever.
`found` observes which devices were mounted when the run began; `Clean` is "none".
`monitorOk` is lost for a run that finds plugins loaded or commands pending.

### MonitorSocket

The stream is a sequence of cells: text, and the two halves of `cmEOF`. `Recv`
takes any non-empty prefix that fits the buffer, lays it over the start of the
buffer and searches. `cut` observes that a mark was handed out in two pieces.
The buffer is uninitialised: when `ReceiveReply` is called, each cell of it is what an
earlier call left at the same place of the stack, or something else (`NUL` stands for
all that is no part of a mark). `stale` observes that the end of an old mark was among
it, where no first chunk is sure to cover it. From then on nothing is promised, which
`MonitorRpc` says with `MixUp`: the old mark may end the next wait at once. What lies
behind a buffer that `recv` has filled to the last byte, and is read as a part of the
string, is taken to be its end.

### ChangeLog

The file is a sequence of cells, each a named part of one DiskMod: two cells of
the size word, header, path, location, length, data blocks. `WriteWhole` takes
any part of what is left in each `write`, may fail, and the child may be killed
at any time. `GetSerializeSize` and `Layout` are separate, as in the code; where
they disagree (removals) the block overflows and the parent reads junk. The
child may also fail to open the file and return at once (`OpenFails`): the parent,
which asks only whether the child exited, then reads what an earlier run left, a
file as any run leaves one. The properties speak of the log as a whole: `Cut` says that
segments are the log cut at its checkpoints, by the places of the cuts and without
recursion over the log.

### Recorder

Below the recorder is an external file system of inodes with sizes, descriptors
and mappings. Paths, behind the mount point, are sequences of tokens, so that
`/a` is a string prefix of `/ab` and not its parent: `CmRename` rewrites
`fd_map_` with string operations. All paths begin with the mount point, so the
search for the old path can only succeed at the start. `mods_` is kept as the
file system its DiskMods describe (names, kinds, sizes): that is what the log is
good for, and it keeps the state space finite without a bound on its length.
`misled` and `missed` observe that a weakness that is known (below) has struck a
descriptor or the log. Calls that fail and change nothing are left out; so is
the difference between read-only and writable descriptors. `CmMunmap` is of a
whole mapping, as its comment assumes.

### Checker

A file system is a function from paths to nodes (directory, file, link; attributes;
data). `Walk` is the kernel's path lookup, which follows links and gives up after
`MaxLinks` of them, so that a link to a directory above makes the longer and longer
path strings of `deleteFiles` end as they do in the kernel. `healthy` decides once
whether the file system under test may fail calls; an unhealthy one may fail any
of them, and make the comparison come out either way. `unlink` refuses a directory
(`CanUnlink`), also on a healthy one. Each comparison is one step
(nothing else runs); `compare_file_contents` gives a set of results, because
`read` leaves what is behind the end of a file in the buffers as it was. Its two
parameters are `int`, so the location and length of the DiskMod go through `ToInt`
first: a negative location makes the reads fail, for a length of -1 or of the largest
int the buffer's end is undefined (`Undefined`), and a negative one makes `new` throw,
which ends the harness (`CompareThrows`).

`deleteFiles` is a stack of frames (path, entries still to come in any order, the
subpath of the iteration, and `subpathIsFile`, which the code reads again after the
recursive call). `open` counts directory streams. The code's asymmetry is kept: a
failing recursive call closes the stream, a failing `rmdir` of the subpath does
not. A name that was removed through a link before `readdir` came to it may come
or not.

### Workload

`file` maps each byte position to what it holds: untouched, the place of a page it
belongs to, or junk from behind the known data. Numbers are taken modulo `Word`
where the code's `unsigned int` wraps; all ranges that end within the numbers are
initial states. A `pwrite` takes any part of what it is given, or fails. The known
data of the code repeats within the page; the model tells all places apart, so a
byte at a wrong place is seen. A `memcpy` that leaves the mapping ends in
`crashed`.

## 3. The runs

| Run | Question | Bounds |
|---|---|---|
| `harness` | Does every interleaving of `main()`, guest and host end in a replay device that shows the crash image? Also `IInv`, as the premise of the proofs | 2 offsets, 2 values, traces of at most 2 entries (`MaxTrace`), symmetric; NOVA (unmounted for the snapshot) and pmfs (not) |
| `harness_runs` | Does that hold from run to run, whatever the earlier ones left? | any number of runs; 1 offset, 2 values, `MaxTrace` 1, one command on its way at a restart (`MaxPending`); NOVA |
| `socket` | Does the socket implement `MonitorRpc`, does each wait end, whatever the buffer held? | 3 commands (`MaxCmds`), 2 text cells per echo and output (`MaxText`), a buffer of 6 cells (`BufLen`) |
| `changelog` | Does the log arrive, and is the right DiskMod chosen? | all logs of up to 3 of 10 DiskMods (`MaxMods`) |
| `recorder` | Do the maps follow the kernel, does the log describe the file system? | scene "names": two directories `/a`, `/ab` with one entry each, 2 inodes, 1 descriptor, no sizes, entries of `fd_map_` of at most 3 tokens (`MaxPath`); scene "data": one name, 2 inodes, 2 descriptors, 1 mapping, sizes up to 1 (`MaxSize`) |
| `checker` | Does the comparison see exactly the differences, does the deletion empty the device and close its directories? | all trees over `/foo`, `/bar`, `/foo/bar` with links to the root, to a directory, to nothing; the recovered tree differs in at most one entry; paths cross 2 links (`MaxLinks`); for data, files of up to 2 bytes out of 0..2, and files of 5 bytes where the largest int is 3 (`IntMax`) and locations and lengths go up to 8, past its width |
| `workload` | Does the range hold the known data, and nothing else? | pages of 4 bytes, numbers up to 16: every offset and size |

Why the bounds are enough: two offsets are what it takes for one to be in the
snapshot and the other in the trace, two values to tell images apart, two
entries for a later one to cover an earlier one and for the replayer's extra
iteration to be able to repeat the wrong one (the theorems remove all three
bounds, for one run and for many). For many runs one offset is enough to tell a
store of this run from one of an earlier run. The socket needs a buffer that a
reply overflows, two replies so that one can be left over, and a third to be out
of step. A log of three DiskMods has a segment before and after a checkpoint. The
recorder needs a rename of an open file's directory, of a sibling whose name is a
prefix, and a descriptor number used twice; for data, two descriptors on one name,
one of them on a file that was removed and made anew. The checker needs a
directory in a directory and a link that leads to each kind of place; for the
conversion to int, numbers that become negative, -1, the largest int, and small again.
Four pages hold a range with a beginning, whole pages and an end, and the wrap at the last
number.

`CHECK_DEADLOCK FALSE` stands where the system stops: `socket` (all commands are
answered or the client gave up), `changelog` (the check has picked its DiskMod),
`checker` (the result is tallied) and `workload` (the call has returned). `Harness`
has a `Terminated` step instead.

What they show:

* **FaithfulImage.** When the check begins, and the monitor has done its part,
  the replay device equals the record device at the moment the tracker was
  unloaded, except at `lost` offsets: those that a mount stored after the
  snapshot and before tracking. The exception is real: `main()` mounts NOVA
  again after the snapshot and before it loads the tracker, and leaves pmfs and
  ext4 mounted throughout.
* **SnapshotIsAnImage.** For NOVA, what `dd` copies is one image. (For the other
  file systems it need not be, and there is no such property.)
* **NoReplayUnderMount**, **TraceEndsAtCrash**, **CleanExit**: the replayer never
  writes under a mount; no store after the unload is logged, although the umount
  and the second mount store a lot; after exit code 0 a device is mounted only if
  its umount on the way out failed, and no plugin is loaded.
* **RunFaithful**: a run that starts with nothing mounted is as good as the first,
  whatever is in `wt.out`, `run_changes`, the snapshot and the devices.
  **MountedStartFails**: one that finds the record device mounted gets no further
  than the format (mkfs of a mounted device is refused) and does not exit with 0.
  **UnmountedAtCheck**: at the check of any run the record device is unmounted, and the
  replay device too, unless the run found it mounted, which no step of `main()` looks at.
  **HandsOverUnmounted**: one that exits with 0 leaves to the next no mount that its
  umounts could have released, also one that a killed run had left.
* **EOFMeansDoneUnlessStale**, **RepliesInSync**, **RpcSpec**: up to the first call
  that finds an old mark in its uninitialised buffer, the framing is right for every
  way to chop the stream, every break of the connection and everything else the buffer
  may hold; without that proviso it is wrong (`socket_stale`).
  **ReplyReturnsUnlessCut**: whatever the buffer held, a wait ends unless a mark was
  cut in two, which looks to `main()` like a lost connection.
* **ReadIsPrefix**, **LogArrives**, **ChosenBeforeCheckpoint**: a short or failed
  write never makes the parent believe a DiskMod that was not recorded; cutting
  at checkpoints loses nothing; the DiskMod compared lies in the segment before
  the last checkpoint. All three are about the log that the file holds, which need not
  be this run's.
* **FdMapAccurate**, **MapsComplete**, **LogRebuildsTree**: the maps follow the
  kernel, and the log alone rebuilds names, kinds and sizes, outside of the
  weaknesses that `misled` and `missed` name: `CmRename` rewrites before it
  renames and also rewrites string prefixes, `CmClose` keeps the entry when
  `close` reports an error, `insert` and `operator[]` leave or make stale
  entries, `mknod` and `rename` are not recorded, `O_APPEND` locations are wrong,
  the size is taken from the path.
* **SyncComparesTrees**, **DataComparesRange**: after a `sync` the comparison is
  exact in both directions, although it looks up the entries of one side only;
  after an `fdatasync` exactly the range of the modification decides, for ranges
  inside both files, without a zero byte in them, whose numbers an int holds
  (`FitsInt`). **GoodSystemPasses**: a file system that
  works and has no links passes (only because of the dummy files: `deleteFiles`
  removes an empty directory twice). **PassedMeansEmptied**: and passing means that
  the deletion went through. **StreamsClosed**, **OutcomeSpec**: at most one
  directory stays open, only after a failure, and every check ends, also where
  links lead back up the tree.
* **KnownDataWritten**, **NothingElseWritten**, **CallReturns**: `WriteData` is right
  for every range and every way in which `pwrite` falls short; `WriteDataMmap` at
  the beginning of a page, up to a page before the largest number.

### Fairness

`FairSpec` of `Harness` has weak fairness of `Main` (the harness is a running process,
each of its system calls returns) and of `Host` (QEMU serves its monitor). It does not
make a reply or the end of the forked test come: from both waits there is a step into
`Hung`, which no fairness excludes, so that `Terminates` (of `harness_leak`) accepts
both. The guest's stores and the stream's spilling get none. `RunsSpec` is checked for
safety only.
`MonitorSocket` has weak fairness of `Client` and of `Monitor`; the network may
break at any time and need not. `Checker` and `Workload` are sequential code whose
calls return: weak fairness of `Next`; `pwrite` takes at least a byte.

### Disagreements found

| Run | What the code does |
|---|---|
| `harness_leak` | `deleteFiles` returns without `closedir` when the `rmdir` of a subdirectory it has emptied fails (for example because it is a symbolic link); the open directory makes `umount` busy for ever and `cleanup_harness` repeats it without end |
| `socket_stale` | the buffer of `ReceiveReply` is never initialised: the mark of an earlier reply, behind the echo of the next command, ends the wait before the command is executed |
| `socket_hang` | each `recv` lands at the start of the buffer and only that chunk is searched: a mark cut in two is never found |
| `changelog_overflow` | `GetSerializeSize` leaves 16 bytes of a `kRemoveMod` out that `Serialize` writes, behind the end of the allocated block |
| `workload_mmap` | `WriteDataMmap` at an offset inside a page puts the pages after the first at the wrong place, leaves the end of the range unwritten, and returns 0 |

Met on the way and not made runs of their own:

* A run that is killed between the two mounts of its check leaves the replay device
  mounted; the next formats the record device, runs `dd` and the replayer over the
  mounted replay device, and checks it as it is. `main.cpp:457` says that both are
  unmounted there (the exception of `UnmountedAtCheck`).
* A `umount` of the record device that fails with anything but EBUSY makes
  `cleanup_harness` give up (`Tester.cpp:349`), that of the replay device is not looked
  at (`main.cpp:471`), and `main()` exits with 0 (the exceptions of `CleanExit`).
* A child that cannot open `run_changes` returns at once; `main()` takes any exit for a
  good one, and the check compares what an earlier run recorded (`main.cpp:351`).
* A replay file system that does not mount, the gravest outcome there is, leaves no
  `diff` file and is not tallied, and `main()` exits with 0 (`Tester.cpp:176`); the
  README promises the file.
* With another plugin loaded first, for example the replayer of a killed run,
  `unload_plugin 0` unloads that one and tracing goes on (`main.cpp:396`).
* An empty `wt.out` makes the replayer act on uninitialised variables
  (`replayer.cpp:33`).
* The DiskMod compared is the first persisting one of its segment, not the last
  operation before the checkpoint, and `mods_.at(size - 2)` throws for a log with
  fewer than two segments, with both devices mounted (`Tester.cpp:226`). The next run
  then fails at the format.
* A location or length of 2 GiB or more changes its value on the way into
  `compare_file_contents` (`DiskContents.cpp:367`).
* A rename that fails leaves `fd_map_` with the new path (`wrapper.cpp:500`).
* `sanity_checks` work on the record device; `Tester.cpp:237` says "on
  replay_device_path".
* A dangling link makes a good file system fail, and what a link on the device leads
  to is emptied through it (`DiskContents.cpp:473`); `strcmp` ends the comparison of
  data at the first zero byte (`DiskContents.cpp:422`).
* `WriteDataMmap` may also loop near 2^32, copy behind its mapping, fail for size 0,
  and calls `msync` with a length that may reach behind the mapping
  (`workload.cpp:121-152`).
* writetracker logs flushes when they are translated, with the registers of that
  moment: the flag of `check_flush` is the wrong way round in its two callers
  (`writetracker.cpp:157`). The replayer ignores flushes, so nothing follows.

## 4. The proofs

### HarnessProofs

For every set of offsets and values, every trace length, every set of file
systems, initial plugins and old traces:

| Theorem | Statement |
|---|---|
| `TypeCorrect` | `Spec => []TypeOK` |
| `Invariance` | `Spec => []IInv` |
| `FaithfulImageHolds` | `Spec => []FaithfulImage` |
| `SnapshotIsAnImageHolds` | `Spec => []SnapshotIsAnImage` |
| `NoReplayUnderMountHolds` | `Spec => []NoReplayUnderMount` |
| `CleanExitHolds` | `Spec => []CleanExit` |
| `TraceEndsAtCrashHolds` | `Spec => TraceEndsAtCrash` |

Assumptions: `NoneAssumption` (the null value is no offset and no content),
`BoundAssumption` (`MaxTrace` is a natural number), `ConfigAssumption` (the
configured file systems, plugins and old traces have their types). Nothing else.

The argument. None of the properties is inductive: `FaithfulImage` speaks of one
step of `main()` and its truth was decided many steps, and several actors,
earlier. `IInv` carries it along:

* `TypeInv`: types, that a snapshot is complete before it is restored, and that
  the replayer only runs inside its load command;
* `Mounts`: which steps may hold which mount, and that NOVA's snapshot, while it
  is being taken, agrees with the device wherever it has been copied;
* and, as long as `monitorOk`:
  * `Control`: at each `pc`, exactly which command is on its way, which plugin is
    loaded, and whether the crash has happened;
  * `RecordImage`: off the lost offsets, the record device is the snapshot until
    tracking starts, the snapshot *overlaid with the trace* while it lasts, and
    the crash image is that at the end, when the whole trace is in the file;
  * `ReplayImage`: the replay device is the snapshot until the replayer starts,
    then the snapshot overlaid with the entries consumed so far.

"Overlaid with" is `Agrees`: the last entry of the trace prefix that stores to
the offset, or the base image without one. It is stated by quantifiers, not by
recursion over the trace, so that the lemmas about it (appending an entry,
another image that agrees is equal, a trace prefix extended by one step of the
replayer) need no induction. At `check` both `crash` and `replay` agree with the
snapshot overlaid with the whole trace, hence with each other.

The proof that `Next` preserves the invariant has one step per action, grouped by
conjunct: type correctness, then mounts, then control with the two images.

### HarnessRunsProofs

The same for any number of runs, each of which may be killed at any step; one more
assumption, `PendingAssumption` (`MaxPending` is a natural number).

| Theorem | Statement |
|---|---|
| `RunInvariance` | `RunsSpec => []RunInv` |
| `RunsTypeCorrect` | `RunsSpec => []RunsTypeOK` |
| `RunFaithfulHolds` | `RunsSpec => []RunFaithful` |
| `MountedStartFailsHolds` | `RunsSpec => []MountedStartFails` |
| `UnmountedAtCheckHolds` | `RunsSpec => []UnmountedAtCheck` |
| `HandsOverUnmountedHolds` | `RunsSpec => HandsOverUnmounted` |

`IInv` does not survive a run that starts with a device mounted, so `RunInv` has it
only under `Clean`; always, it has `TypeInv`, what `main()` has unmounted on its way
out and before the replay (`Exits`), and that a run that found the record device mounted sticks at the
format (`StuckAtFormat`). A `Restart` that finds nothing mounted establishes `IInv`
from `TypeInv` alone: everything else it speaks of is reset, or speaks of later
steps. The steps inside a run are the lemmas of `HarnessProofs`.

### MonitorSocketProofs

For any number of commands, length of output and size of the buffer
(`SocketAssumption`), and for everything the uninitialised buffer may hold.

| Theorem | Statement |
|---|---|
| `SocketInvariance` | `Spec => []SocketInv` |
| `SocketTypeCorrect` | `Spec => []TypeOK` |
| `EOFMeansDoneHolds` | `Spec => []EOFMeansDoneUnlessStale` |
| `RepliesInSyncHolds` | `Spec => []RepliesInSync` |
| `RefinesRpc` | `Spec => Rpc!Init /\ [][Rpc!Next]_(Rpc!vars)` |

`SocketInv` is the types, always, and `Synced` until a call finds an old mark. `Synced`:
at most one command is unanswered (`Requests`), so that at most one
mark is in the stream, it is the last thing there, and it belongs to that command
(`Marks`); the second half of a mark that was cut stays in the buffer only at its
first cell, which the next chunk covers (`Buffered`). Hence a mark that is found
lay whole in the chunk that has just come (`RecvMarks`), which took the rest of the
stream with it. A call may find its buffer as it likes, as long as it finds no end of
a mark behind the first cell: that is `Buffered`. The types do not depend on `stale`,
and the steps after it are `MixUp` of `MonitorRpc`.

### CheckerProofs

For every pair of file systems and every pattern of failures, given
`CheckerAssumption`: the paths are a finite set of non-empty sequences without the
dummy name, 0 is a byte, and every input is a tree whose entries lie in directories
(`Rooted`), with a range of natural numbers if its DiskMod is about data. The
links, the data and the depth of the tree are arbitrary.

| Theorem | Statement |
|---|---|
| `StreamsInvariance` | `Spec => []CallInv` |
| `StreamsClosedHolds` | `Spec => []StreamsClosed` |
| `RefinesOutcome` | `Spec => Outcome!Init /\ [][Outcome!Outcome]_(Outcome!vars)` |
| `CheckInvariance` | `Spec => []CheckInv` |
| `CheckTypeCorrect` | `Spec => []TypeOK` |
| `PassedHasEmptied` | `Spec => []PassedMeansEmptied` |
| `SyncIsExact` | `Spec => SyncComparesTrees` |
| `FdatasyncIsExact` | `Spec => DataComparesRange` |

`CallInv`: there are as many open streams as frames on the stack, or one more while
a failure is on its way up. The one more comes only from `RemoveSubdir`, and since a
failure never turns into a success and never starts another directory, it stays the
only one.

`CheckInv` adds what the deletion does to the tree. `Nested`: it stays a tree,
because `unlink` and `rmdir` only take what has nothing below it. `Compared`: what is
compared is still what was mounted. `Emptying`: every entry that is left in the root
has still to be read from the root's stream, or is the one at hand (`AtHand`), in
the frame of the root or in the recursive calls below it. So a root whose stream
has come to its end without a failure is empty. Entries of deeper directories need no
such invariant, because the `rmdir` of the parent fails as long as there are any. A
link may lead the recursion back above itself, which takes entries away under a
frame that has read them: the invariant says "what is left", and so survives that.

### ChangeLogProofs

For every log, every way to cut the writes and every point at which the child may
fail or be killed, given `ModsAssumption`: the DiskMods have their types, and those
whose layout ends early have the fields behind the end at their defaults, as the
recorder leaves them.

| Theorem | Statement |
|---|---|
| `LogInvariance` | `Spec => []LogInv` |
| `LogTypeCorrect` | `Spec => []TypeOK` |
| `ReadIsAlwaysPrefix` | `Spec => []ReadIsPrefix` |
| `LogAlwaysArrives` | `Spec => []LogArrives` |
| `ChoiceIsBeforeCheckpoint` | `Spec => []ChosenBeforeCheckpoint` |

`Followed` of `LogInv` names, for every DiskMod that is wholly in the file, the
place where its block ends (`Placed`), and says that the parent stands at one of
these places, and has cut what lies before it (`ReadUpTo`); or the file ends inside a
size word, and the parent has taken the first byte for a DiskMod. Two lemmas carry
it. `NextChunk`: what `GetChangeData` finds at such a place is the next block, whole,
or the torn end of the file. `AddModCuts`: a DiskMod appended to the log and put into
the segments as the code does keeps them `Cut`; its cases are the first DiskMod, a
checkpoint after other DiskMods, and the rest. The choice then needs only `Cut`
(`CutChooses`). TLC has checked `LogInv` with `MaxMods` = 2; it is not a part of the
run, because the places and the cuts that it quantifies over are found by enumeration.

### RecorderProofs

For every set of paths, any number of inodes, descriptors and mappings, any size,
given `RecorderAssumption`: paths are sequences, descriptors natural numbers, the
null value is none of them, and the bounds are numbers.

| Theorem | Statement |
|---|---|
| `RecorderInvariance` | `Spec => []RecorderInv` |
| `RecorderTypeCorrect` | `Spec => []TypeOK` |
| `MapsStayComplete` | `Spec => []MapsComplete` |
| `FdMapStaysAccurate` | `Spec => []FdMapAccurate` |
| `LogRebuildsEveryTree` | `Spec => []LogRebuildsTree` |

`RecorderInv` is the run's invariants, with two facts they need: an inode has one
name (`OneName`: there is no `link`), and what `fd_map_` holds of a descriptor that is
not `misled` is open (`EntriesOpen`). The actions fall into those that only move
names, those that open and close, and those that write; for each kind one lemma says
what it leaves alone (`EntriesKept`, `DataStep`, `MappingStep`, `RecordOnlyStep`), and
the step of a call has only to say what it adds (`WriteLogged`). The long one is
`CmRename`, whose string replacement has to agree with the rename of the tree for
everything below the path: `MovedBack`, `RenamedNames`.

What is outside of `misled` and `missed` is what the theorems are about; that these
sets do not hold more than the weaknesses listed is the business of `Recorder`
itself, where each is written next to the action that causes it.

### WorkloadProofs

For every page size, every width of the numbers that is a multiple of it, every
offset, every size that ends within the numbers, and every way in which `pwrite`
falls short (`WorkloadAssumption`; what marks untouched bytes and junk is no place of
a page).

| Theorem | Statement |
|---|---|
| `WorkloadInvariance` | `Spec => []WorkloadInv` |
| `WorkloadTypeCorrect` | `Spec => []TypeOK` |
| `NothingElseIsWritten` | `Spec => []NothingElseWritten` |
| `KnownDataIsWritten` | `Spec => []KnownDataWritten` |
| `CopiesStayMapped` | `Spec => [](Sound => pc # "crashed")` |

`Loops`, for `WriteData`: the first `num_written` bytes of the range, and nothing else,
hold their data (`Written`), and in each loop `num_written` is the parts before it
plus `block_written`. That is why the three loops may share their counters, and why
the unsigned differences are right also where they wrap (`Wrap`, `HeadLenFacts`). `Copies`, for
`WriteDataMmap`: what is written is whole pages, or everything. Below them are
lemmas on rounding to pages, from the division theorem (`DivMod` to `HeadLenFacts`).

### What is only model-checked

* Liveness: `ReplyReturnsUnlessCut`, `GoodSystemPasses`,
  `CallReturns`, and the fairness of `RpcSpec` and `OutcomeSpec`. Its proof needs
  `ENABLED`, with which TLAPS 1.4 cannot reason.
* What folds over data compute: where the kernel's lookup (`Walk`, in `Checker`) ends.
  The proofs hold wherever it leads: they use that it leads to a path or to none.
* The runs that find a violation: a counterexample needs no proof.

## 5. What is not modelled

* Option parsing and messages of `main()`; the shell text of `FSCommands`.
* Addresses: offsets stand for addresses of the tracked range. `-b` and `-e` change
  the tracked range, but not the address the replayer writes at nor the number of
  blocks that `dd` copies, which stay at their defaults (`main.cpp:73`): with other
  ranges than the default the tool replays to the wrong place. A model of it would
  say just that.
* The translation cache of the emulator, and instructions that writetracker does
  not decode. The callbacks are registered before the streams are opened; the
  monitor holds the emulator's lock meanwhile, so no guest instruction comes between.
* Sizes of stores and their alignment: one offset is one store. Flushes and
  fences are in the trace and the replayer ignores them, as in the code.
* `PassthroughCmFsOps`: `main()` never uses it. Stores of a test that bypass the
  recorder (`WriteData` with plain calls, `mkdir` of a test's setup).
* Data in `Recorder` (what a DiskMod carries besides its range) and in `Harness`
  (which has devices, not files).
* `FALLOC_FL_COLLAPSE_RANGE`, which needs a range strictly inside a file and so
  larger sizes than `recorder` can have, and the path a mapping keeps after its file has been
  renamed (`CmRename` does not touch `mmap_map_`; only the data of a DiskMod
  would show it).
* Mappings of 4 GiB and more, whose offset and length `CmMmap` cuts to 32 bits.
* `DiskContents::mount_disk` and `unmount_and_delete_mount_point`: their calls are
  commented out.
* The results classes beyond the outcome tallied, `ClassLoader`, scripts and
  stand-alone workloads, whose stores are any stores of the guest.

## 6. Plan

1. `Harness`, `Panda`, the inductive invariant and its theorems; `MonitorSocket`
   against `MonitorRpc`; `ChangeLog`; `Recorder`. *(done)*
2. `Checker` with `CheckOutcome`; `Workload`; `HarnessRuns`; proofs about the runs,
   the socket and the checker. *(done)*
3. Proofs of every invariant and action property that the runs check: the change
   log, the recorder, the comparison and the deletion, the workload helpers. *(done)*
4. The tracked range as constants: where a store goes against where the replayer
   puts it, for every `-b` and `-e`.
5. Mappings with a width (`CmMmap` cuts to 32 bits), `FALLOC_FL_COLLAPSE_RANGE`.
