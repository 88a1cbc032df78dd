------------------------------ MODULE RunMulti ------------------------------
(***************************************************************************)
(* run_multi.sh: for every device, copy the snapshots there; for every     *)
(* run, evict them from the page cache, spawn a Firecracker per MicroVM,   *)
(* let fbpml-multiclient restore and measure them, kill every Firecracker. *)
(* The script runs under `set -e`: what fails ends it there, and what it   *)
(* has spawned lives on.  The operator invokes it again, and builds new    *)
(* snapshots (module BuildSnapshots) between two invocations.              *)
(*                                                                         *)
(* A file is the number of the build it is of, negative when only a part   *)
(* of it was written, 0 when there is none; a snapshot is a pair of files, *)
(* the MicroVM's state and its memory.  The client is one step: module     *)
(* MultiClient tells what becomes of it when tasks fail.                   *)
(***************************************************************************)
EXTENDS Integers, Sequences, FiniteSets

CONSTANTS
  Many,            \* the MicroVMs there are snapshots of; bound of --num-uvms
  Runs,            \* --runs
  DEVICES,         \* the devices, in their order: a sequence
  Quiet,           \* the values of QUIET; TRUE also stands for a stderr that is no terminal
  MaxInvocations,  \* bound: how often the script is invoked
  MaxBuilds,       \* bound: how often snapshots are built
  MaxFailed,       \* bound: how many tasks of a build fail of their own accord
  Faults           \* what may go wrong

FaultKinds ==
  { "build",      \* a build of new snapshots fails half way
    "copy",       \* a copy fails half way
    "io",         \* mkdir, fforget, chown, ... fail
    "slow",       \* a Firecracker needs more than the script's .2 s to listen
    "crash",      \* a Firecracker dies
    "request",    \* a request of the client is not served
    "interrupt" } \* the script is killed

ASSUME ManyAssumption == Many \in Nat \ {0}
ASSUME RunsAssumption == Runs \in Nat \ {0}
ASSUME DevicesAssumption ==
  /\ DEVICES \in Seq({"dcpm", "nvme", "ssd"}) /\ Len(DEVICES) > 0
  /\ \A j, k \in 1..Len(DEVICES) : DEVICES[j] = DEVICES[k] => j = k
ASSUME QuietAssumption == Quiet \subseteq BOOLEAN
ASSUME MaxAssumption == MaxInvocations \in Nat \ {0} /\ MaxBuilds \in Nat \ {0} /\ MaxFailed \in Nat
ASSUME RunFaultsAssumption == Faults \subseteq FaultKinds

Ids == 0..(Many - 1)
Device == {DEVICES[d] : d \in 1..Len(DEVICES)}
RunNumber == 1..Runs
File == (-MaxBuilds)..MaxBuilds
Snapshot == File \X File
Build(file) == IF file < 0 THEN -file ELSE file

VARIABLES
  invocation,  \* how often the script has been invoked
  many,        \* its --num-uvms (quick_run.sh invokes it with more and more)
  pc,          \* its next command; "ok" and "failed": it has exited; "rebuilt":
               \* and a build has run since
  d,           \* the index of the current device
  run,         \* the current run
  id,          \* the MicroVM of the inner loops
  built,       \* the number of the last build
  source,      \* source[i]: MicroVM i's snapshot in snapshot/<bench>
  files,       \* files[dev][i]: its snapshot on a device
  cached,      \* the MicroVMs whose files on this device may be in the page cache
  fc,          \* fc[i]: the Firecracker of this run
  left,        \* those of earlier programs: <<i, whether it holds tap i>>
  sock,        \* the MicroVMs whose API socket exists
  lines,       \* lines[dev][r]: results in run<r>.csv
  base,        \* history: `lines` as this invocation found them
  used,        \* history: used[dev]: what was measured in this invocation
  alone,       \* history: it found no Firecracker that was left
  clean        \* history: it found nothing amiss, and nothing has gone wrong since

loopVars == <<d, run, id>>
fileVars == <<built, source, files>>
fcVars == <<fc, left, sock>>
outVars == <<lines, base, used, alone>>
vars == <<invocation, many, pc, loopVars, fileVars, cached, fcVars, outVars, clean>>

Mine == 0..(many - 1)
Exited == {"ok", "failed", "rebuilt"}
Alive == {"starting", "listening", "loaded"}

TypeOK ==
  /\ invocation \in 1..MaxInvocations /\ many \in 1..Many
  /\ pc \in {"copyState", "copyMem", "evict", "spawn", "log", "client", "hung",
             "killall", "chown"} \cup Exited
  /\ d \in 1..Len(DEVICES) /\ run \in RunNumber /\ id \in Mine
  /\ built \in 1..MaxBuilds
  /\ source \in [Ids -> Snapshot]
  /\ files \in [Device -> [Ids -> Snapshot]]
  /\ cached \subseteq Ids
  /\ fc \in [Ids -> Alive \cup {"none", "dead"}]
  /\ left \subseteq Ids \X BOOLEAN
  /\ sock \subseteq Ids
  /\ lines \in [Device -> [RunNumber -> 0..(Many * MaxInvocations)]]
  /\ base \in [Device -> [RunNumber -> 0..(Many * MaxInvocations)]]
  /\ used \in [Device -> SUBSET [from : Snapshot, warm : BOOLEAN]]
  /\ alone \in BOOLEAN /\ clean \in BOOLEAN

NoLines == [dev \in Device |-> [r \in RunNumber |-> 0]]
NoneUsed == [dev \in Device |-> {}]

Init ==
  /\ invocation = 1 /\ many \in 1..Many /\ pc = "copyState"
  /\ d = 1 /\ run = 1 /\ id = 0
  /\ built = 1
  /\ source = [i \in Ids |-> <<1, 1>>]
  /\ files = [dev \in Device |-> [i \in Ids |-> <<0, 0>>]]
  /\ cached = {}
  /\ fc = [i \in Ids |-> "none"]
  /\ left = {} /\ sock = {}
  /\ lines = NoLines /\ base = NoLines /\ used = NoneUsed
  /\ alone = TRUE /\ clean = TRUE

-----------------------------------------------------------------------------
device == DEVICES[d]
LastId == id = many - 1
Here == device = "dcpm" /\ files[device][id][1] # 0

\* The Firecrackers of the current run, with the states `now`, outlive the script.
Leftovers(now) == left \cup {<<i, now[i] = "loaded">> : i \in {j \in Ids : now[j] \in Alive}}

\* The script exits with an error, or is killed.
Abort ==
  /\ pc' = "failed"
  /\ left' = Leftovers(fc)
  /\ fc' = [i \in Ids |-> "none"]
  /\ UNCHANGED <<invocation, many, loopVars, cached, sock, outVars>>

IOError ==
  /\ "io" \in Faults
  /\ pc \in {"copyState", "evict", "chown"}
  /\ Abort /\ UNCHANGED fileVars

Interrupt ==
  /\ pc \notin Exited
  /\ "interrupt" \in Faults \/ pc = "hung"
  /\ Abort /\ UNCHANGED fileVars

(***************************************************************************)
(* Copying the snapshots: the state file, then the memory file.            *)
(***************************************************************************)
Copying == pc \in {"copyState", "copyMem"}
which == IF pc = "copyState" THEN 1 ELSE 2

\* On to the memory file, the next MicroVM, or the runs.
CopyDone ==
  IF pc = "copyState" /\ ~Here THEN pc' = "copyMem" /\ UNCHANGED loopVars
  ELSE IF LastId THEN pc' = "evict" /\ id' = 0 /\ run' = 1 /\ UNCHANGED d
  ELSE pc' = "copyState" /\ id' = id + 1 /\ UNCHANGED <<d, run>>

\* Seeded fault: each of the two files is looked for on its own.
SkipEach ==
  /\ Copying /\ device = "dcpm" /\ files[device][id][which] # 0
  /\ IF pc = "copyState" THEN pc' = "copyMem" /\ UNCHANGED loopVars ELSE CopyDone
  /\ cached' = cached \cup {id}
  /\ UNCHANGED <<invocation, many, fileVars, fcVars, outVars>>

\* On the PMEM device a snapshot that is already there is not copied again.
Skip ==
  /\ pc = "copyState" /\ Here
  /\ CopyDone
  /\ cached' = cached \cup {id}
  /\ UNCHANGED <<invocation, many, fileVars, fcVars, outVars>>

\* To PMEM with cp_2M, which refuses to copy to a file that is there.
Wanted == Copying /\ (device = "dcpm" => files[device][id][which] = 0)

\* Seeded fault: no device is ever updated.
CopyOnce ==
  /\ Wanted /\ source[id][which] # 0
  /\ files' = [files EXCEPT ![device][id][which] = IF @ = 0 THEN source[id][which] ELSE @]
  /\ CopyDone
  /\ cached' = cached \cup {id}
  /\ UNCHANGED <<invocation, many, built, source, fcVars, outVars>>

Copy ==
  /\ Wanted /\ source[id][which] # 0
  /\ files' = [files EXCEPT ![device][id][which] = source[id][which]]
  /\ CopyDone
  /\ cached' = cached \cup {id}
  /\ UNCHANGED <<invocation, many, built, source, fcVars, outVars>>

\* What a copy that fails leaves behind.  Without a source there is nothing.  Half
\* way, cp_2M has created its destination; rsync writes to a temporary file.
Remains ==
  \/ source[id][which] = 0 /\ UNCHANGED files
  \/ /\ "copy" \in Faults /\ source[id][which] # 0
     /\ files' = IF device = "dcpm"
                 THEN [files EXCEPT ![device][id][which] = -Build(source[id][which])]
                 ELSE files

CopyFails ==
  /\ Wanted /\ Remains
  /\ Abort /\ UNCHANGED <<built, source>>

(***************************************************************************)
(* A run.                                                                  *)
(***************************************************************************)
\* What a Firecracker that lives has mapped, of this run or one that is left.
Mapped(i) == fc[i] = "loaded" \/ <<i, TRUE>> \in left

\* Seeded fault: only before a device's first run.
EvictOnce ==
  /\ pc = "evict"
  /\ pc' = "spawn"
  /\ cached' = {i \in cached : run > 1 \/ Mapped(i)}
  /\ UNCHANGED <<invocation, many, loopVars, fileVars, fcVars, outVars>>

\* sync, and drop the files from the page cache: what is mapped stays there.
Evict ==
  /\ pc = "evict"
  /\ pc' = "spawn"
  /\ cached' = {i \in cached : Mapped(i)}
  /\ UNCHANGED <<invocation, many, loopVars, fileVars, fcVars, outVars>>

\* Seeded fault: the old API socket is not unlinked.
SpawnOverSocket ==
  /\ pc = "spawn"
  /\ fc' = [fc EXCEPT ![id] = "starting"]
  /\ IF LastId THEN pc' = "log" /\ id' = 0 ELSE id' = id + 1 /\ UNCHANGED pc
  /\ UNCHANGED <<invocation, many, d, run, fileVars, cached, left, sock, outVars>>

\* Unlink the old API socket, spawn a Firecracker in the background.
Spawn ==
  /\ pc = "spawn"
  /\ sock' = sock \ {id}
  /\ fc' = [fc EXCEPT ![id] = "starting"]
  /\ IF LastId THEN pc' = "log" /\ id' = 0 ELSE id' = id + 1 /\ UNCHANGED pc
  /\ UNCHANGED <<invocation, many, d, run, fileVars, cached, left, outVars>>

\* log_progress returns the status of its last `&&` list: 1 when it is not to log.
LogProgress ==
  /\ pc = "log"
  /\ \/ /\ FALSE \in Quiet
        /\ pc' = "client"
        /\ UNCHANGED <<invocation, many, loopVars, cached, fcVars, outVars>>
     \/ TRUE \in Quiet /\ Abort
  /\ UNCHANGED fileVars

\* The MicroVMs whose task must fail: nobody listens, a file is missing, the tap
\* interface is busy; and those whose task may: a part of a file is missing.
Missing(i) == files[device][i][1] = 0 \/ files[device][i][2] = 0
Doomed == {i \in Mine : fc[i] # "listening" \/ Missing(i) \/ <<i, TRUE>> \in left}
Risky == {i \in Mine : files[device][i] \notin {<<b, b>> : b \in 1..MaxBuilds}}

\* The tasks that fail in an execution of the client.
Failing == {f \in SUBSET Mine : /\ Doomed \subseteq f
                                /\ "request" \notin Faults => f \subseteq Doomed \cup Risky}

\* The API requests go out .2 s after the Firecrackers were spawned.
SleptEnough == "slow" \notin Faults => \A i \in Ids : fc[i] # "starting"

\* The MicroVMs whose snapshot is loaded when the tasks in f have failed and the
\* others have passed that stage, or wait in it: a task may fail after its load.
Loads(f) == {l \in SUBSET Mine : Mine \ f \subseteq l /\ l \cap Doomed = {}}
Loaded(l) == [i \in Ids |-> IF i \in l THEN "loaded" ELSE fc[i]]

\* All tasks succeed: a line for each MicroVM is appended.
ClientOk ==
  /\ pc = "client" /\ SleptEnough
  /\ {} \in Failing
  /\ fc' = Loaded(Mine)
  /\ lines' = [lines EXCEPT ![device][run] = @ + many]
  /\ used' = [used EXCEPT ![device] =
               @ \cup {[from |-> files[device][i], warm |-> i \in cached] : i \in Mine}]
  /\ cached' = cached \cup Mine
  /\ pc' = "killall"
  /\ UNCHANGED <<invocation, many, loopVars, fileVars, left, sock, base, alone>>

\* It is killed while it prints them.
ClientKilled ==
  /\ "interrupt" \in Faults
  /\ pc = "client" /\ SleptEnough
  /\ {} \in Failing
  /\ \E n \in 1..(many - 1) : lines' = [lines EXCEPT ![device][run] = @ + n]
  /\ left' = Leftovers(Loaded(Mine))
  /\ pc' = "failed"
  /\ fc' = [i \in Ids |-> "none"]
  /\ UNCHANGED <<invocation, many, loopVars, fileVars, cached, sock, base, used, alone>>

\* Seeded fault: the client's exit status is ignored.
ClientFailsUnseen ==
  /\ pc = "client" /\ SleptEnough
  /\ Mine \in Failing
  /\ \E l \in Loads(Mine) : fc' = Loaded(l)
  /\ pc' = "killall"
  /\ UNCHANGED <<invocation, many, loopVars, fileVars, cached, left, sock, outVars>>

\* All tasks fail, in the same stage (FailTogether of MultiClient).
ClientFails ==
  /\ pc = "client" /\ SleptEnough
  /\ Mine \in Failing
  /\ \E l \in Loads(Mine) : left' = Leftovers(Loaded(l))
  /\ pc' = "failed"
  /\ fc' = [i \in Ids |-> "none"]
  /\ UNCHANGED <<invocation, many, loopVars, fileVars, cached, sock, outVars>>

\* Some task fails, and others wait for it at the barrier; or a MicroVM dies with a
\* gRPC request in flight.
ClientHangs ==
  /\ pc = "client" /\ SleptEnough
  /\ \E f \in Failing \ {{}} : /\ f = Mine => "crash" \in Faults
                               /\ \E l \in Loads(f) : fc' = Loaded(l)
  /\ pc' = "hung"
  /\ UNCHANGED <<invocation, many, loopVars, fileVars, cached, left, sock, outVars>>

\* Seeded fault: the loop's end is the number of runs, counted from 0.
NextRunFromZero ==
  IF run <= Runs THEN pc' = "evict" /\ run' = run + 1 /\ UNCHANGED <<d, id>>
  ELSE IF d < Len(DEVICES) THEN pc' = "copyState" /\ d' = d + 1 /\ run' = 1 /\ id' = 0
  ELSE pc' = "chown" /\ UNCHANGED loopVars

\* On to the next run, the next device, the end.
NextRun ==
  IF run < Runs THEN pc' = "evict" /\ run' = run + 1 /\ UNCHANGED <<d, id>>
  ELSE IF d < Len(DEVICES) THEN pc' = "copyState" /\ d' = d + 1 /\ run' = 1 /\ id' = 0
  ELSE pc' = "chown" /\ UNCHANGED loopVars

\* Seeded fault: only the Firecrackers of this run are killed.
KillJobs ==
  /\ pc = "killall"
  /\ \E i \in Ids : fc[i] \in Alive
  /\ fc' = [i \in Ids |-> "none"]
  /\ NextRun
  /\ UNCHANGED <<invocation, many, fileVars, cached, left, sock, outVars>>

\* Seeded fault: killall does not wait until they are gone.
KillNoWait ==
  /\ pc = "killall"
  /\ left # {} \/ \E i \in Ids : fc[i] \in Alive
  /\ left' = {}
  /\ NextRun
  /\ UNCHANGED <<invocation, many, fileVars, cached, fc, sock, outVars>>

\* killall --wait: every process named firecracker.  It fails when there is none.
Killall ==
  /\ pc = "killall"
  /\ \/ /\ left # {} \/ \E i \in Ids : fc[i] \in Alive
        /\ fc' = [i \in Ids |-> "none"]
        /\ left' = {}
        /\ NextRun
        /\ UNCHANGED <<invocation, many, cached, sock, outVars>>
     \/ /\ left = {} /\ \A i \in Ids : fc[i] \notin Alive
        /\ Abort
  /\ UNCHANGED fileVars

Chown ==
  /\ pc = "chown"
  /\ pc' = "ok"
  /\ UNCHANGED <<invocation, many, loopVars, fileVars, cached, fcVars, outVars>>

(***************************************************************************)
(* Firecracker, and the operator.                                          *)
(***************************************************************************)
FcListen(i) ==
  /\ fc[i] = "starting"
  /\ fc' = [fc EXCEPT ![i] = IF i \in sock THEN "dead" ELSE "listening"]
  /\ sock' = sock \cup {i}
  /\ UNCHANGED <<invocation, many, pc, loopVars, fileVars, cached, left, outVars>>

FcCrash(i) ==
  /\ "crash" \in Faults
  /\ fc[i] \in Alive
  /\ fc' = [fc EXCEPT ![i] = "dead"]
  /\ UNCHANGED <<invocation, many, pc, loopVars, fileVars, cached, left, sock, outVars>>

\* A Firecracker that was left dies.
LeftDies ==
  /\ "crash" \in Faults
  /\ \E l \in left : left' = left \ {l}
  /\ UNCHANGED <<invocation, many, pc, loopVars, fileVars, cached, fc, sock, outVars>>

\* Nothing that the invocation to come finds is amiss.
NothingAmiss ==
  /\ left = {}
  /\ \A i \in Mine' :
       /\ source[i] = <<built, built>>
       /\ \A dev \in Device \cap {"dcpm"} :
            files[dev][i] \in {<<b, b>> : b \in 0..MaxBuilds}

\* The script is invoked again, with a new --outdir or with the same, for as many
\* MicroVMs or for more or fewer.
Invoke ==
  /\ pc \in Exited
  /\ invocation < MaxInvocations
  /\ invocation' = invocation + 1
  /\ many' \in 1..Many
  /\ pc' = "copyState"
  /\ d' = 1 /\ run' = 1 /\ id' = 0
  /\ base' \in {lines, NoLines} /\ lines' = base'
  /\ used' = NoneUsed /\ cached' = {}
  /\ alone' = (left = {})
  /\ UNCHANGED <<fileVars, fcVars>>

\* `make multi-snapshot/<bench>` removes the old snapshots and makes new ones.  Any of
\* its tasks may fail, with what it has written there and its Firecracker left; one
\* whose tap interface is busy does, with nothing written.
Rebuild ==
  /\ pc \in Exited
  /\ built < MaxBuilds
  /\ built' = built + 1
  /\ LET busy == {i \in Ids : <<i, TRUE>> \in left}
         part == {0, -built', built'}
     IN \E failed \in SUBSET Ids :
          /\ busy \subseteq failed
          /\ "build" \notin Faults => failed = busy
          /\ Cardinality(failed \ busy) <= MaxFailed
          /\ source' \in [Ids -> part \X part]
          /\ \A i \in busy : source'[i] = <<0, 0>>
          /\ \A i \in Ids \ failed : source'[i] = <<built', built'>>
          /\ \E l \in SUBSET (failed \ busy) : left' = left \cup (l \X {TRUE})
  /\ pc' = "rebuilt"
  /\ UNCHANGED <<invocation, many, loopVars, files, cached, fc, sock, outVars>>

\* The operator kills what an aborted script has left.
KillLeftovers ==
  /\ pc \in Exited
  /\ left # {}
  /\ left' = {}
  /\ UNCHANGED <<invocation, many, pc, loopVars, fileVars, cached, fc, sock, outVars>>

-----------------------------------------------------------------------------
Script ==
  \/ Skip \/ Copy
  \/ Evict \/ Spawn \/ LogProgress
  \/ ClientOk \/ ClientFails \/ ClientHangs
  \/ Killall \/ Chown
Fault == \/ CopyFails \/ IOError \/ Interrupt \/ ClientKilled \/ LeftDies
         \/ \E i \in Ids : FcCrash(i)
\* What follows the last invocation is of no interest.
Operator == invocation < MaxInvocations /\ (Rebuild \/ KillLeftovers)

\* What Finishes does not promise anything under: log_progress fails (QuietRuns is
\* about that), a Firecracker is slow, a request is not served.
Mishap == \/ pc = "log" /\ pc' = "failed"
          \/ pc = "client" /\ \E i \in Ids : fc[i] = "starting"
          \/ pc = "client" /\ pc' # "killall" /\ Doomed \cup Risky = {}

ScriptStep == Script /\ clean' = (clean /\ ~Mishap)
Listen(i) == FcListen(i) /\ UNCHANGED clean
Rest == pc \in Exited /\ UNCHANGED vars

Next ==
  \/ ScriptStep
  \/ \E i \in Ids : Listen(i)
  \/ Fault /\ clean' = FALSE
  \/ Invoke /\ clean' = NothingAmiss
  \/ Operator /\ UNCHANGED clean
  \/ Rest

Spec == Init /\ [][Next]_vars

\* The script runs its commands, and a Firecracker that was spawned gets to run.
Fairness == WF_vars(ScriptStep) /\ \A i \in Ids : WF_vars(Listen(i))
FairSpec == Spec /\ Fairness

-----------------------------------------------------------------------------
\* A script that exits with success leaves no Firecracker behind, neither one of
\* its own nor one of an earlier invocation that failed: the tap interfaces are
\* released (the API sockets' files stay, until the next run unlinks them).
NoneLeft == pc = "ok" => left = {} /\ \A i \in Ids : fc[i] \notin Alive

\* A script that exits with success has appended every run's result for every
\* MicroVM on every device to what it found in the files: no run was skipped, cut
\* short, or measured twice.
ResultsComplete ==
  pc = "ok" => \A dev \in Device, r \in RunNumber : lines[dev][r] = base[dev][r] + many

\* What is measured on the block devices is of the last build, also when that
\* build failed.
BlockDevicesCurrent ==
  pc \in Exited \/ \A dev \in Device \ {"dcpm"} : \A u \in used[dev] :
                    Build(u.from[1]) = built /\ Build(u.from[2]) = built

\* No MicroVM is measured from the state of one build with the memory of another,
\* whatever copies and builds failed on the way.
NeverMixed ==
  \A dev \in Device : \A u \in used[dev] : Build(u.from[1]) = Build(u.from[2])

\* "Remove snapshot and rootfs files from the cache": with no Firecracker left at
\* the start, every run measures cold files.
EveryRunCold == alone => \A dev \in Device : \A u \in used[dev] : ~u.warm

(***************************************************************************)
(* Why they hold: what each point of the script knows of its Firecrackers, *)
(* its result files, the copies on the devices and the page cache.         *)
(***************************************************************************)
FcInv ==
  /\ pc \in {"copyState", "copyMem", "evict", "chown"} \cup Exited =>
       \A i \in Ids : fc[i] = "none"
  /\ pc \in {"chown", "ok"} => left = {}

\* Run r on the j-th device has been measured.
Done(j, r) ==
  j < d \/ (j = d /\ (r < run \/ (r = run /\ pc \in {"killall", "chown", "ok"})))

LineInv ==
  /\ Copying => run = 1
  /\ pc \in {"chown", "ok"} => d = Len(DEVICES) /\ run = Runs
  /\ \A j \in 1..Len(DEVICES), r \in RunNumber :
       LET found == base[DEVICES[j]][r]
           now == lines[DEVICES[j]][r]
       IN /\ found + Many <= Many * invocation
          /\ IF pc \in {"failed", "rebuilt"} THEN now \in found..(found + many)
             ELSE now = found + (IF Done(j, r) THEN many ELSE 0)

\* File k of MicroVM i has been copied to the current device.
Copied(i, k) == ~Copying \/ i < id \/ (i = id /\ k < which)

FileInv ==
  /\ \A i \in Ids, k \in {1, 2} : source[i][k] # 0 => Build(source[i][k]) = built
  /\ pc \notin Exited /\ device # "dcpm" =>
       \A i \in Mine, k \in {1, 2} : Copied(i, k) => Build(files[device][i][k]) = built
  /\ pc = "copyMem" /\ device = "dcpm" =>
       files[device][id][2] = 0 /\ Build(files[device][id][1]) = built
  /\ \A dev \in Device \cap {"dcpm"}, i \in Ids :
       files[dev][i][2] # 0 => Build(files[dev][i][1]) = Build(files[dev][i][2])

CacheInv ==
  alone => /\ pc \notin Exited => left = {}
           /\ pc \in {"spawn", "log", "client"} => cached = {}

UsedInv == BlockDevicesCurrent /\ NeverMixed /\ EveryRunCold

IInv == TypeOK /\ FcInv /\ LineInv /\ FileInv /\ CacheInv /\ UsedInv

\* An invocation that finds nothing amiss, and in which nothing goes wrong, succeeds,
\* whatever earlier ones left on the devices, in the file system and in /tmp.  (One
\* that failed may be the last: the operator need not invoke the script again.)
Finishes == (pc \notin Exited) ~> (pc = "ok" \/ ~clean)

\* "Do not log progress to stderr at all": an invocation that is quiet succeeds as
\* any other does.
QuietRuns == [](invocation = 1 => <>(pc = "ok"))

\* When the copying is over, both files of every MicroVM are on the device, whole
\* and as they were built last.
SnapshotsHere ==
  pc = "evict" => \A i \in Mine : files[device][i] = <<built, built>>

=============================================================================
