# A verification of fbpml (FunctionBench on persistent memory, locally)

The repository measures how fast serverless functions start when their
Firecracker MicroVMs are restored from snapshots on persistent memory, NVMe or
SSD. This directory holds TLA+ models of the parts of it that have state and
concurrency, TLC runs that check them on small instances, and proofs, checked by
TLAPS, for every value of the constants. `PROJECT.json` says which definition models
which lines.

## 1. The system

    make multi-rootfs ──> rootfs/<bench>/*.ext4
    host_net.sh <id>  ──> tap interface fcpmem01.<ID>, iptables rules
    make multi-snapshot ─> build-snapshots ─> N Firecrackers ─> snapshot/<bench>/
    run_multi.sh      ──> copies snapshots to a device (cp_2M or rsync)
                          for each run: evict caches, spawn N Firecrackers,
                          fbpml-multiclient restore ... >> runNN.csv, killall

| component | state it keeps | operations | interacts by | what is hard |
|---|---|---|---|---|
| fbpml-multiclient (`fbpml-rs/fbpml-multiclient`, `fbpml`) | tasks, one barrier, result slots | validate, restore, resume, cold, pre-warm, warm, join, print | barrier between tasks; HTTP to N Firecrackers, gRPC to N guests | lock step of N tasks, a task that fails, uninitialised slots |
| build-snapshots (`scripts/build-snapshots-rs`) | tasks, child processes, sockets, files | boot, wait_port, pause, snapshot, resume, kill | child processes, HTTP, tap interfaces | processes left by a failed task, who answers on a port, bounded retries |
| host_net.sh, host_net_cleanup.sh, taps_check | interfaces, addresses, iptables rules in the kernel | set up, take down, count | shared kernel tables | `set -e` half way, scripts at the same time, rules common to all |
| run_multi.sh, quick_run.sh | files on devices, page cache, processes, CSV files | copy, evict, spawn, measure, kill | all of the above | `set -e` leaves processes and files to the next invocation |
| cp_2M | one file being written | copy | file system | interrupted copies that are run again |
| fbpml-client | four timers | validate, restore, resume, cold, warm for one MicroVM, or the last two only | HTTP, gRPC | what a duration includes, clocks of two machines, an answer that never comes |
| run_single.sh | - | boot one MicroVM, wait; deprecated | child process | - |
| rootfs scripts | loop mounts | mkfs, mount, populate, umount | file system | mounts left by a failure |
| server.py of each benchmark | - | compute, report a duration | gRPC | one worker, argument handling |

## 2. The modules

| module | models | state and actions |
|---|---|---|
| `LockStep` | what fbpml-multiclient promises: parties go through rounds together | a round and a standing per party; `Finish`, `Drop`, `Proceed` |
| `MultiClient` | `fbpml-multiclient/src/main.rs`: `main`, `task_issue`, `task_restore`, `RestoreCmd`, `BenchCmd::issue`, and `tokio::sync::Barrier` as it uses it | `main` and its loop index `k`; per task `pc`, `stage`, `round`, `taken`; the barrier's `arrived`, `generation`, `seen`; per MicroVM `vm`, `served`; the slots `measurements` |
| `BuildSnapshots` | `build-snapshots-rs/src/main.rs` and the make rule that runs it | per task `pc`, `retries`; `fc[i][w]`, the Firecracker invocation i spawned for MicroVM w; who holds the API socket and the tap; the snapshot files |
| `SnapshotBuild` | what the operator may expect of a build | a status, and per MicroVM whether it was booted and its snapshot made |
| `FbpmlClient` | `fbpml-client/src/main.rs`, `Delays` of `fbpml/src/lib.rs`, the server around `Bench()` | the clock `now`; every `Instant` that is kept (`timer`, `sent`, `begun`) and every duration (`client`, `server`, `global`); one action per request sent or answered, `Tick` for time |
| `HostNet` | `host_net.sh`, `host_net_cleanup.sh`, `taps_check` | interfaces, addresses, rules; one action per command |
| `Cp2M` | `cp_2M.c`, run again and again by its caller | one action per system call; the destination as a sequence of chunks, the negative of a chunk for a part of it |
| `RunMulti` | `run_multi.sh` from line 281 on | loop variables; files in `snapshot/<bench>` and on devices by the build they come from; what is in the page cache; Firecrackers of this run and left over; lines of the CSV files |
| `MC*` | - | values of the constants for TLC |
| `LockStepProofs`, `MultiClientProofs`, `FbpmlClientProofs`, `BuildSnapshotsProofs`, `HostNetProofs`, `Cp2MProofs`, `RunMultiProofs` | - | theorems and their proofs |

How they compose. `MultiClient` INSTANCEs `LockStep` under a refinement mapping
(`stage` is the round; a task that is at or in the barrier has "finished", one
that failed or panicked is "out"). `RunMulti` uses the client as one step whose
outcomes are those `MultiClient` shows: all tasks succeed and a line for each
is printed; all fail in one stage and the error is returned; some fail and the
client hangs. `BuildSnapshots` INSTANCEs `SnapshotBuild` (a MicroVM is running
while the Firecracker that this invocation spawned for it is alive; its snapshot
is made when this invocation has written both files of a serving guest), and
`RunMulti`'s `Rebuild` is such a build as one step, its `CopyFails` what `Cp2M`
leaves behind.

Abstractions. A request is a step when it is sent and one when it is answered
(`MultiClient`), or one step in all (`BuildSnapshots`). Durations, names, file
contents, CPU pinning and the text of messages are left out, but for the
durations of `FbpmlClient`. In `MultiClient` a cold or warm
result is the *number* of the request it measured, so that "the cold column is
the first request" can be said. A snapshot file is the number of the build it
is from, with its sign telling whole from partial.

### fbpml-multiclient

`main` spawns one task per MicroVM; tasks run as soon as they are spawned. Each
goes through `Stages` with a `barrier.wait()` after each one: `Arrive` (not the
last: wait), `Release` (the last: next generation, reset the count), `Wake` (a
waiting task is scheduled, possibly after others have gone on and arrived at
the next barrier). A failing request returns from the task (`failed`), a panic
ends it (`panicked`). `try_join_all` ends when all tasks have returned, or when
one has panicked. `Collect` fills slot k or returns task k's error.

Correct means: no request of one stage overlaps one of another
(`PhaseIsolation`), the tasks implement the rounds (`RefinesLockStep`), what is
printed was measured on that MicroVM by its first and last request
(`PrintedRight`), a run is never half a success (`FailTogether`: when main goes
through the results, all tasks succeeded or all failed in one stage; an error
leaves every slot of the uninitialised `Vec` empty), and the client ends
(`Completes`, `EndsOrStuck`).

### fbpml-client

The durations are differences of `Instant`s read at certain lines, so the model
reads its clock in the actions that contain those lines: `StartTimer`, `Send`,
`Answered`, `Served`, `StopTimer`; time passes in `Tick`, anywhere. The guest
reads a clock of its own (`time.time()`), which may be set back while it
computes ("back": boot runs `hwclock --hctosys`, and the client is written for
it: what does not convert to a Duration becomes zero, `Converted`). A clock that
is set *forward* meanwhile makes the server's part longer than the client's;
nothing in the client can tell, and the model leaves it out.

A guest that dies under a gRPC request sends nothing, its persistent tap stays,
and the client sets neither a timeout nor keep-alive (`lib.rs:93-98`): `Lost`
requests have no fairness, here as in `MultiClient`. A Firecracker that dies
under an API request closes its Unix socket, which the client does notice.

Correct means: `global` is the time for the first three requests and what is
between them, neither validation nor the warm request (`GlobalRight`; `idle`, a
history variable, sums what is between); the client's delay of a request
includes the server's, as `lib.rs:73` says it should (`ServerWithin`); and the
client ends, unless its request is lost (`EndsOrLost`).

### build-snapshots

A Firecracker binds its API socket (it fails if the file exists), attaches its
tap (it fails if another process has it), boots, serves. A task unlinks the
socket, writes the configuration, spawns its Firecracker, polls the guest's port
with a bounded number of attempts, and so on; at the end it removes socket and
configuration, and fails if one of them cannot be removed (`Tidy`). If it fails after the spawn its
Firecracker lives on; `Invoke` runs the program again with those still there.
`main` ends when all tasks have, or one panics.

Correct means: Ok is returned only with a complete snapshot of a *serving* guest
for every MicroVM, made by this invocation (`SnapshotsGood`), and with no
Firecracker of this invocation alive (`Reaped`); every invocation ends. Seen
from outside each is a build of `SnapshotBuild` (`RefinesSnapshotBuild`): what one
task has made another's failure does not take away, and no task boots twice.

### The host's network

`addr`, `up` and rules are those of existing interfaces; `ip -o a s` prints a
line per address, so an interface without one does not count in
`CheckOthers`, while `taps_check` greps `ip a s`, where an interface has two.

Correct means: from the success of host_net.sh until the cleanup of the same
ID the MicroVM's traffic passes, whatever other scripts do (`Undisturbed`),
and the cleanup script removes every interface (`CleansUp`), but for the torn
ones: those whose host_net.sh ended between adding the interface and its FORWARD
rule, or whose cleanup was killed between its two commands. Such an interface can
be neither set up (`ip tuntap add` fails) nor taken down (`iptables -D` fails
first) however often the scripts are run: `StaysTorn`.

### run_multi.sh and cp_2M

`Abort` is `set -e`: the script is gone, its background processes are not
(`left`; those that have loaded a snapshot hold their tap). `killall` ends all of
them at the end of a run, and fails when there is none. Each invocation has a number
of MicroVMs of its own (`many`, between 1 and `Many`, the snapshots there are):
quick_run.sh invokes the script with more and more. Between two invocations
the snapshots may be built anew. Any of the build's tasks may fail (main.rs:375-390
waits for all of them); one that does leaves its MicroVM's files missing, torn or new,
in any combination, and perhaps its Firecracker; one whose tap interface a Firecracker
still holds writes nothing. The eviction drops only what no Firecracker has mapped
(`Mapped`), one that was left or one of the run: it relies on `killall --wait`.

Correct means: exit status 0 comes with every result, appended to what the files
held (`ResultsComplete`), and no Firecracker (`NoneLeft`; the sockets' files stay); block devices get the
current snapshots, also when their build failed (`BlockDevicesCurrent`); nothing
is measured whose state is of one build and whose memory of another
(`NeverMixed`); every run measures cold files, unless Firecrackers were left before
the script began, which may have them mapped when it evicts and be gone when it
measures (`EveryRunCold`); and an invocation that finds nothing amiss, and in which
nothing goes wrong, succeeds (`Finishes`; the history variable `clean` keeps
track, `Mishap` says what goes wrong without an action of its own). For cp_2M: exit
status 0 means a whole copy, however many tries failed before and wherever
(`OkIsCopy`); and once a try has failed with the destination created none
succeeds any more (`StaysFailed`), as the program refuses a file that exists.

Simplifications. The client is one step of the script, so that a Firecracker that
dies while the client runs is one of its failing tasks ("request"), or makes it
hang ("crash"). Of two Firecrackers of one MicroVM that have not bound their API
socket yet, one of them left over, either may bind it and the other dies; they are
alike, and the one that lives is counted as this run's. `cached` is what *may* be in
the page cache: all that was copied, found on PMEM, or measured. `ssd` is treated
as `nvme` is.

## 3. The runs

Passing runs:

| run | instance | checks |
|---|---|---|
| `client_faults` | `restore`, 3 MicroVMs, 1 pre-warming round, every fault | `TypeOK`, `IInv`, `PhaseIsolation`, `PrintedRight`, `FailTogether`, `RefinesLockStep`, `Completes`, `EndsOrStuck` |
| `client_rnn` | `issue` of RNNServing, whose requests bail | `FailureReported` |
| `single_client` | both commands, implemented or not, 6 moments, every fault | `IInv`, `GlobalRight`, `ServerWithin`, `EndsOrLost` |
| `snap_build` | 2 MicroVMs, 2 attempts, 2 invocations, every fault but "leave" | `TypeOK`, `IInv`, `SnapshotsGood`, `Reaped`, `Terminates`, `RefinesSnapshotBuild` |
| `net_parallel` | 3 IDs, 4 scripts at once, 2 failing commands | `TypeOK`, `IInv`, `Undisturbed`, `CleansUp`, `StaysTorn` |
| `cp_one` | 6 chunks, 6 tries, every fault | `OkIsCopy`, `IInv`, `StaysFailed` |
| `multi_faults` | 1 or 2 MicroVMs for each invocation, 2 runs, PMEM and NVMe, 2 invocations, 2 builds, every fault, with and without -q | `TypeOK`, `IInv`, `NoneLeft`, `ResultsComplete`, `BlockDevicesCurrent`, `NeverMixed`, `EveryRunCold`, `Finishes` |

Runs that end in a violation, each a disagreement between the code and what
it says of itself (quoted under `findings` in `PROJECT.json`):

| run | property | what TLC shows |
|---|---|---|
| `client_failure` | `FailureReported` | one task's request fails; the others wait at the barrier for ever, `try_join_all` never yields, the error is never printed |
| `snap_stale` | `SnapshotsGood` | a Firecracker of a failed invocation answers `wait_port`, then goes away ("leave"); the new, booting guest is snapshotted |
| `net_taps` | `TapsChecked` | one interface passes for two |
| `multi_stale` | `SnapshotsHere` | after a rebuild the PMEM device still has the old snapshot |
| `multi_quiet` | `QuietRuns` | with `-q` `log_progress` returns 1, and `set -e` ends the script with its Firecrackers spawned; so it is when stderr is no terminal |

Further observations, in the models but without a run of their own:

- the one-time rules outlive the last interface, as their removal is commented
  out (host_net_cleanup.sh:32-36), and the next first interface adds them again;
  `Undisturbed` would be false with it: that is its mutant;
- a copy to the PMEM device that failed half way is taken for a snapshot by every
  later invocation (`Skip`), and cp_2M never repairs it (`StaysFailed`);
- the stat and the open without O_EXCL of cp_2M.c:31 and 44 are two steps: two
  processes that copy to one destination can both get past the check. The script
  never runs two, so the model has one;
- the outline at run_multi.sh:17-33 begins the result files with `run00.csv` (`run0.csv`
  for ssd); the loop at line 315 counts from 1, and the first is `run01.csv`;
- with a Firecracker left over that has the files mapped, the eviction of
  run_multi.sh:318-331 does not evict them: `EveryRunCold` is false without `alone`;
- the images of build_rootfs_multi.sh stay mounted when a step fails, and
  populate_multi.sh:33 has `tar c | tar x` under `set -eu` without pipefail: an
  archive that is cut short fills the image partly, and the script succeeds. The
  snapshots refer to the images by path: images that are rebuilt without the
  snapshots are not those the restored guests have cached.

Bounds, and why they are enough. Three tasks are the smallest number with a
task that is neither first nor last at the barrier, and with one that waits for
a failure of a second while a third goes on; all that is about the barrier is
also proved for every N. `PreWarm` is 1 in the runs and arbitrary in the proofs.
Two attempts of `wait_port` have a first that fails, a last and one after a resume.
Two invocations have one that fails and one that meets what it left. Two devices have
one of each kind (PMEM skips, block devices do not). Two MicroVMs, or one in one
invocation and two in the other, have one that is new to the devices and one that is
not. `MaxFailed` bounds how many tasks of a build fail of their own accord, besides
those whose tap is busy: one in `multi_faults`, any number in the proofs; each task's
files are handled alone. Snapshots are built, and Firecrackers killed, only before an
invocation that is still to come (`Operator`). For cp_2M a file of six chunks has
first, inner and last ones, and all is proved for every size. The clock
of `single_client` has six moments: enough for each of the four requests to take
time, with a moment between two of them or before the first, and the proofs are for every
length of time. The counters that
would grow (`commands`, `faults`, `tries`, `invocation`, `built`) are bounded by a
constant each, in the guards; the `Rest` actions let a bounded system stand
still, so that TLC still reports real deadlocks. `CHECK_DEADLOCK FALSE` is only in
`client_faults` and `client_failure`, where the client does get stuck.

Fairness. `MultiClient`: weak fairness of `main`, of every task (tokio's
multi-threaded runtime runs what is ready) and of answers, those to lost requests
excepted. `FbpmlClient`: the same for its one task, and of the guest's server; not
of `Rejected`, so that the client does not end by errors that need not come.
`BuildSnapshots`: weak fairness of `main` and of the
tasks; none of Firecracker or the guest, as `wait_port` gives up on its own.
`RunMulti`: weak fairness of the script and of a spawned Firecracker's start.
`HostNet` and `Cp2M` claim safety only.

Each property of a passing run has a mutant: a definition with a plausible bug
("Seeded fault" in the modules) under which TLC finds it violated.

## 4. The proofs

For every `N`, `PreWarm`, `Restoring`, `Implemented` and `Faults` within the
assumptions named in `MultiClient` (N and PreWarm are natural numbers, the
others of their types):

| theorem | says |
|---|---|
| `MultiClientProofs!TypeCorrect` | `Spec => []TypeOK` |
| `MultiClientProofs!Invariant` | `Spec => []IInv` |
| `MultiClientProofs!Isolation` | `Spec => []PhaseIsolation` |
| `MultiClientProofs!Printed` | `Spec => []PrintedRight` |
| `MultiClientProofs!Together` | `Spec => []FailTogether` |
| `MultiClientProofs!Refinement` | `Spec => RefinesLockStep` |
| `LockStepProofs!LockStepAligned` | `LSSpec => []Aligned` |

For every `MaxTime` (a natural number) and `Faults` of `FbpmlClient`:

| theorem | says |
|---|---|
| `FbpmlClientProofs!TypeCorrect` | `Spec => []TypeOK` |
| `FbpmlClientProofs!Invariant` | `Spec => []IInv` |
| `FbpmlClientProofs!GlobalCovers` | `Spec => []GlobalRight` |
| `FbpmlClientProofs!ServerPart` | `Spec => []ServerWithin` |

For every `Chunks`, `MaxTries` and `Faults` within the assumptions of `Cp2M`:

| theorem | says |
|---|---|
| `Cp2MProofs!Invariant` | `Spec => []IInv` |
| `Cp2MProofs!Copied` | `Spec => []OkIsCopy` |
| `Cp2MProofs!NeverRepaired` | `Spec => StaysFailed` |

For every `NumUvms`, `Retries`, `MaxInvocations` and `Faults` within the assumptions
of `BuildSnapshots`; those marked * with "leave" not among the faults:

| theorem | says |
|---|---|
| `BuildSnapshotsProofs!TypeCorrect` | `Spec => []TypeOK` |
| `BuildSnapshotsProofs!Invariant` | `Spec => []IInv` |
| `BuildSnapshotsProofs!NoneOutlives` | `Spec => []Reaped` |
| `BuildSnapshotsProofs!BuiltWhole` | `Spec => []SnapshotsWhole` |
| `BuildSnapshotsProofs!Built` * | `Spec => []SnapshotsGood` |
| `BuildSnapshotsProofs!Refinement` * | `Spec => RefinesSnapshotBuild` |

For every finite set of `Ids`, and the bounds on commands and faults of `HostNet`:

| theorem | says |
|---|---|
| `HostNetProofs!TypeCorrect` | `Spec => []TypeOK` |
| `HostNetProofs!Invariant` | `Spec => []IInv` |
| `HostNetProofs!StaysRouted` | `Spec => []Undisturbed` |
| `HostNetProofs!Cleaned` | `Spec => []CleansUp` |
| `HostNetProofs!NeverMended` | `Spec => StaysTorn` |

For every `Many`, `Runs`, sequence of different `DEVICES`, `MaxInvocations`,
`MaxBuilds`, `MaxFailed`, `Quiet` and `Faults` of `RunMulti`:

| theorem | says |
|---|---|
| `RunMultiProofs!TypeCorrect` | `Spec => []TypeOK` |
| `RunMultiProofs!Invariant` | `Spec => []IInv` |
| `RunMultiProofs!NobodyLeft` | `Spec => []NoneLeft` |
| `RunMultiProofs!AllAppended` | `Spec => []ResultsComplete` |
| `RunMultiProofs!Current` | `Spec => []BlockDevicesCurrent` |
| `RunMultiProofs!Unmixed` | `Spec => []NeverMixed` |
| `RunMultiProofs!Cold` | `Spec => []EveryRunCold` |

None of the client's properties is inductive. `PhaseIsolation` holds because a barrier
generation ends only when all N tasks have arrived, so the proof has to know
that `arrived` *is* the number of tasks waiting in the current generation
(`BarrierCount`), and how a task's stage follows from the generation
(`StageInv`: generation + 1, or generation for a task that was released and
not yet woken). That `Release` then finds all other tasks waiting is a
cardinality argument (`LastArrival`: a set of N-1 workers without w is all but
w). `PrintedRight` also needs how many requests a MicroVM has served and what
was taken at each stage (`DataInv`), that the spawning loop has not touched
later tasks (`SpawnInv`), and what main's result loop has copied (`ResultInv`).
`FailTogether` follows from `StageInv` at the step of `JoinAll`: tasks that have all
returned leave nobody in the barrier, so all are in one stage, the last (done) or an
earlier one (`SameStage`); from there to the exit it needs which slots are still
empty (`SlotsInv`), since a result loop that has passed one task cannot meet a
failed one.
`IInv` is the conjunction of these; `client_faults` checks it with TLC, and
`MultiClientProofs` proves initiation, one lemma per part for the step, and the
consequences. `Refinement` maps each action: arriving (and the failing ones) to
`Finish` and `Drop`, `Release` and `Wake` to `Proceed`, the rest to stuttering;
that all parties are `Cleared` at a `Release` is again `LastArrival`.

`GlobalRight` speaks of the end; the invariant says the same of every moment
before: while the timer runs, `now - timer` is what was measured, what the request
in flight has taken so far, and `idle` (`GlobalInv`). For that a request must count
nothing before it is sent (`FreshInv`). `ServerInv` keeps the guest's timer within
the client's: it is started after the request was sent and read before the answer is
there.

`OkIsCopy` needs what the loop has done so far (`CopyInv`: in the loop the
destination is the first `pos` chunks, and `size` is what is left of `Chunks`),
and that no try gets past the check while a file of an earlier one is there.
`NeverRepaired` proves that "failed or at the check, with the destination there"
is a condition no step leaves, and that it excludes exit status 0.

`SnapshotsGood` speaks of the end of an invocation; what a task knows on the way is
`TaskInv` (how far it has come tells whether its Firecracker was spawned, is dead,
and whether its snapshot was made), `FcInv` (a guest runs behind the tap of its
MicroVM only, so that there is one at most, and later invocations have spawned
nothing) and `GuestInv`: the guest that answered `wait_port` is the one that the
requests to the API socket reach. `GuestInv` is where "leave" matters. A Firecracker
of an earlier invocation may hold the tap and answer; then the task's own one
cannot have a guest, so that the pause is refused, *as long as the old one stays*.
When it may go away between the poll and the pause, the new guest can take the tap
and be paused while it boots: `snap_stale` shows that `SnapshotsGood` is then false,
so the theorem has the hypothesis `"leave" \notin Faults`, and `IInv` claims
`GuestInv` only under it. What holds without it is `BuiltWhole`: the files are of
this invocation, and complete. `Refinement` maps `SpawnFc` to `Boot`, `KillFc` and
the end of a Firecracker of this invocation to `End`, a `CreateSnapshot` of a serving
guest to `Make`, the exit of `main` to `Succeed` or `GiveUp`, `Invoke` to `Again`, the
rest, and all that earlier Firecrackers do, to stuttering.

`Undisturbed` is about the common rules as much as about the MicroVM's own. Who adds
them is decided by `CheckOthers`, before they are there; `CommonInv` says that whoever
may rely on them (an interface that has its address, a script past its check) finds
them, `RuleInv` that an interface has its FORWARD rule exactly when neither torn
nor between two commands of its script, `ScriptInv` what a script at each command
has done. `CountInv` bounds the common rules by the commands that were given, for the
types: it needs that a script that is yet to add one is counted before it has.
`StaysTorn` follows from the same invariant, as an action property.

In `RunMulti`, `FcInv` says where the script has no Firecracker of its own, and that
behind the last `killall` there is none at all. `LineInv` is the loop invariant of the
two outer loops: `Done` says which runs are behind, and a result file has `many` lines
more than this invocation found exactly if its run is; that is why no device may be in
`DEVICES` twice (the script appends each name once, run_multi.sh:251-268, and
`DevicesAssumption` says so). It bounds the files too, for the types. `FileInv` is the
invariant of the copying: on a block device all that the loop has passed is of the
last build; on the PMEM device, where nothing is replaced, a memory file is there only
next to a state file of its build, which is enough for `NeverMixed` although old and
partial files stay. `CacheInv` says that with no Firecracker left by others nothing is
cached from the eviction to the measurement; that nothing is mapped at the eviction
it gets from `FcInv`.

The three invariants were checked with TLC first, each in the run of its module.

Only model-checked: liveness (`Completes`, `EndsOrStuck`, `EndsOrLost`,
`FailureReported`, `Terminates`, `Finishes`), which is out of the provers' reach.
Every invariant and every action property of a passing run, and both refinements, are
proved.

## 5. Not modelled, and the plan

Not modelled at all: the kernel's configuration, the patches, the benchmarks'
inputs and models, Dockerfiles, the .proto and the code generated from it,
argument parsing, CPU pinning, the progress bar, the text of the Firecracker
configuration. The MinIO server is external. The scripts that are run once and by
hand (build_rootfs_multi.sh, populate_multi.sh, setup_minio.sh) and the deprecated
run_single.sh are straight lines without concurrency; what can go wrong in them is
listed above. How long the `wait_port` loops wait is not modelled, only that the one
of build-snapshots gives up after its attempts, each of which ends by itself.

Next, in this order:

1. The composition of `MultiClient` and `RunMulti`: what the script may expect of one
   execution of the client, as an abstract specification that `MultiClient` is
   proved to implement.
2. Clocks for the tasks of `MultiClient`, as in `FbpmlClient`.
3. `Rootfs` (mounts of the image build).
