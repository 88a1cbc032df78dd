--------------------------- MODULE BuildSnapshots ---------------------------
(***************************************************************************)
(* `make multi-snapshot/<bench>` (GNUmakefile) and the program it runs,    *)
(* build-snapshots (scripts/build-snapshots-rs/src/main.rs): one tokio     *)
(* task per MicroVM boots a Firecracker, waits for the gRPC server in the  *)
(* guest, pauses the guest, snapshots it, resumes it, waits again, kills   *)
(* it.  The operator may invoke make again after a failure; a Firecracker  *)
(* a failed task left behind is then still there, with its tap interface.  *)
(*                                                                         *)
(* Requests to Firecracker's API are one step each.  Firecracker and the   *)
(* guest are external.                                                     *)
(***************************************************************************)
EXTENDS Integers, FiniteSets

CONSTANTS
  NumUvms,         \* --num-uvms
  Retries,         \* connection attempts of wait_port (240)
  MaxInvocations,  \* bound: how often make is invoked
  Faults           \* what may go wrong

FaultKinds ==
  { "io",       \* a file operation fails
    "fork",     \* Firecracker cannot be spawned
    "reject",   \* the API answers with something else than 204
    "crash",    \* a Firecracker dies under its task
    "leave",    \* one that an earlier invocation left behind goes away
    "panic" }   \* a task panics (an .expect() on a path)

ASSUME NumUvmsAssumption == NumUvms \in Nat
ASSUME RetriesAssumption == Retries \in Nat \ {0}
ASSUME MaxInvocationsAssumption == MaxInvocations \in Nat \ {0}
ASSUME BuildFaultsAssumption == Faults \subseteq FaultKinds

Ids == 0..(NumUvms - 1)
Invocations == 1..MaxInvocations

VARIABLES
  invocation, \* how many times make has been invoked
  main,       \* where `main` of the current invocation is
  pc,         \* pc[w]: the next thing task w does
  retries,    \* retries[w]: what is left of wait_port's attempts
  config,     \* the MicroVMs whose /tmp/<bench>-<id>.json exists
  sock,       \* sock[w]: whose Firecracker bound the API socket, 0: no file
  fc,         \* fc[i][w]: the Firecracker that invocation i spawned for w
  tap,        \* tap[w]: whose Firecracker holds the tap interface, 0: nobody's
  snap        \* snap[w]: the snapshot and memory files of MicroVM w

fcVars == <<fc, tap, sock>>
taskVars == <<pc, retries, config, snap>>
vars == <<invocation, main, taskVars, fcVars>>

Exited == {"ok", "error"}
NoSnap == [by |-> 0, guest |-> "none"]

\* Paused guests are told apart by whether their gRPC server had come up.
Alive == {"starting", "bound", "booting", "serving", "pausedEarly", "paused"}

TypeOK ==
  /\ invocation \in Invocations
  /\ main \in {"setup", "running", "cleaning"} \cup Exited
  /\ pc \in [Ids -> {"idle", "clear", "render", "spawn", "poll", "pause", "snapshot",
                     "resume", "repoll", "kill", "tidy", "done", "failed", "panicked"}]
  /\ retries \in [Ids -> 0..Retries]
  /\ config \subseteq Ids
  /\ sock \in [Ids -> 0..MaxInvocations]
  /\ fc \in [Invocations -> [Ids -> Alive \cup {"none", "dead"}]]
  /\ tap \in [Ids -> 0..MaxInvocations]
  /\ snap \in [Ids -> [by : 0..MaxInvocations,
                       guest : {"none", "torn", "unserved", "served"}]]

Init ==
  /\ invocation = 1
  /\ main = "setup"
  /\ pc = [w \in Ids |-> "idle"]
  /\ retries = [w \in Ids |-> 0]
  /\ config = {}
  /\ sock = [w \in Ids |-> 0]
  /\ fc = [i \in Invocations |-> [w \in Ids |-> "none"]]
  /\ tap = [w \in Ids |-> 0]
  /\ snap = [w \in Ids |-> NoSnap]

-----------------------------------------------------------------------------
(***************************************************************************)
(* snapshot_task.                                                          *)
(***************************************************************************)
At(w, p) == main = "running" /\ pc[w] = p
Goto(w, p) == pc' = [pc EXCEPT ![w] = p]

\* Any step of the task may fail; `?` ends the task and leaves all as it is.
Fail(w, kind) ==
  /\ kind \in Faults
  /\ Goto(w, "failed")
  /\ UNCHANGED <<invocation, main, retries, config, snap, fcVars>>

ClearSocket(w) ==
  /\ At(w, "clear")
  /\ \/ /\ sock' = [sock EXCEPT ![w] = 0]
        /\ Goto(w, "render")
        /\ UNCHANGED <<invocation, main, retries, config, snap, fc, tap>>
     \/ sock[w] # 0 /\ Fail(w, "io")

\* render_config: truncate the logs and metrics, write the configuration.
RenderConfig(w) ==
  /\ At(w, "render")
  /\ \/ /\ config' = config \cup {w}
        /\ Goto(w, "spawn")
        /\ UNCHANGED <<invocation, main, retries, snap, fcVars>>
     \/ Fail(w, "io")

SpawnFc(w) ==
  /\ At(w, "spawn")
  /\ \/ /\ fc' = [fc EXCEPT ![invocation][w] = "starting"]
        /\ retries' = [retries EXCEPT ![w] = Retries]
        /\ Goto(w, "poll")
        /\ UNCHANGED <<invocation, main, config, snap, tap, sock>>
     \/ Fail(w, "fork")

\* 10.0.w.2:50051 accepts connections: it is the guest behind the tap interface
\* that does, whoever started it.
Responsive(w) == tap[w] # 0 /\ fc[tap[w]][w] = "serving"

\* Seeded fault: giving up counts as success.
WaitPortLax(w, here, next) ==
  /\ At(w, here)
  /\ IF Responsive(w)
       THEN Goto(w, next) /\ UNCHANGED retries
       ELSE /\ retries' = [retries EXCEPT ![w] = @ - 1]
            /\ Goto(w, IF retries[w] = 1 THEN next ELSE here)
  /\ UNCHANGED <<invocation, main, config, snap, fcVars>>

\* Seeded fault: one attempt too many.
WaitPortOnce(w, here, next) ==
  /\ At(w, here)
  /\ IF Responsive(w)
       THEN Goto(w, next) /\ UNCHANGED retries
       ELSE /\ retries' = [retries EXCEPT ![w] = @ - 1]
            /\ Goto(w, IF retries[w] < 1 THEN "failed" ELSE here)
  /\ UNCHANGED <<invocation, main, config, snap, fcVars>>

\* Seeded fault: attempts are not counted.
WaitPortForever(w, here, next) ==
  /\ At(w, here)
  /\ Goto(w, IF Responsive(w) THEN next ELSE here)
  /\ UNCHANGED <<invocation, main, retries, config, snap, fcVars>>

\* One attempt of wait_port.
WaitPort(w, here, next) ==
  /\ At(w, here)
  /\ IF Responsive(w)
       THEN Goto(w, next) /\ UNCHANGED retries
       ELSE /\ retries' = [retries EXCEPT ![w] = @ - 1]
            /\ Goto(w, IF retries[w] = 1 THEN "failed" ELSE here)
  /\ UNCHANGED <<invocation, main, config, snap, fcVars>>

\* A request to the Firecracker that listens on the socket of MicroVM w: it
\* changes the guest from a state in `effect` to that state's image and is
\* answered 204, or it fails and changes nothing.
Answered(w, effect, next) ==
  LET i == sock[w] IN
  /\ i # 0
  /\ fc[i][w] \in DOMAIN effect
  /\ fc' = [fc EXCEPT ![i][w] = effect[@]]
  /\ Goto(w, next)
  /\ UNCHANGED <<invocation, main, config, tap, sock>>

Refused(w, effect) ==
  /\ sock[w] # 0 /\ "reject" \notin Faults =>
       fc[sock[w]][w] \notin DOMAIN effect
  /\ Goto(w, "failed")
  /\ UNCHANGED <<invocation, main, retries, config, fcVars>>

\* What each request does to the guest.
Pausing == [s \in {"booting", "serving"} |->
              IF s = "serving" THEN "paused" ELSE "pausedEarly"]
Resuming == [s \in {"pausedEarly", "paused"} |->
               IF s = "paused" THEN "serving" ELSE "booting"]
Snapshotting == [s \in {"pausedEarly", "paused"} |-> s]

PauseUvm(w) ==
  /\ At(w, "pause")
  /\ \/ Answered(w, Pausing, "snapshot") /\ UNCHANGED retries
     \/ Refused(w, Pausing)
  /\ UNCHANGED snap

\* PUT /snapshot/create writes the two files; a failed one may leave them torn.
CreateSnapshot(w) ==
  /\ At(w, "snapshot")
  /\ \E guest \in {"torn", "unserved", "served"} :
       \/ /\ Answered(w, Snapshotting, "resume") /\ UNCHANGED retries
          /\ guest = IF fc[sock[w]][w] = "paused" THEN "served" ELSE "unserved"
          /\ snap' = [snap EXCEPT ![w] = [by |-> invocation, guest |-> guest]]
       \/ /\ Refused(w, Snapshotting)
          /\ guest = "torn"
          /\ snap' \in {snap, [snap EXCEPT ![w] = [by |-> invocation, guest |-> guest]]}

ResumeUvm(w) ==
  /\ At(w, "resume")
  /\ \/ /\ Answered(w, Resuming, "repoll")
        /\ retries' = [retries EXCEPT ![w] = Retries]
     \/ Refused(w, Resuming)
  /\ UNCHANGED snap

\* Seeded fault: the Child is dropped; without kill_on_drop it lives on.
KillFcDropped(w) ==
  /\ At(w, "kill")
  /\ Goto(w, "tidy")
  /\ UNCHANGED <<invocation, main, retries, config, snap, fcVars>>

\* Kill & reap it; SIGKILL leaves the socket file behind.
KillFc(w) ==
  /\ At(w, "kill")
  /\ fc' = [fc EXCEPT ![invocation][w] = "dead"]
  /\ tap' = [tap EXCEPT ![w] = IF @ = invocation THEN 0 ELSE @]
  /\ Goto(w, "tidy")
  /\ UNCHANGED <<invocation, main, retries, config, snap, sock>>

\* make passes --cleanup: remove the socket and the configuration, side by side.  One
\* that is not there, or cannot be removed, fails the task and stays; the other may.
Tidy(w) ==
  /\ At(w, "tidy")
  /\ \/ /\ sock[w] # 0
        /\ config' = config \ {w}
        /\ sock' = [sock EXCEPT ![w] = 0]
        /\ Goto(w, "done")
     \/ /\ sock[w] = 0 \/ "io" \in Faults
        /\ config' \in {config, config \ {w}}
        /\ sock' \in {sock, [sock EXCEPT ![w] = 0]}
        /\ config' = config \/ sock' = sock
        /\ Goto(w, "failed")
  /\ UNCHANGED <<invocation, main, retries, snap, fc, tap>>

Panic(w) ==
  /\ "panic" \in Faults
  /\ At(w, "render")
  /\ Goto(w, "panicked")
  /\ UNCHANGED <<invocation, main, retries, config, snap, fcVars>>

(***************************************************************************)
(* main, and make around it.                                               *)
(***************************************************************************)
\* create_dirs, then spawn all the tasks.
Setup ==
  /\ main = "setup"
  /\ \/ /\ main' = "running"
        /\ pc' = [w \in Ids |-> "clear"]
     \/ /\ "io" \in Faults
        /\ main' = "error"
        /\ UNCHANGED pc
  /\ UNCHANGED <<invocation, retries, config, snap, fcVars>>

\* try_join_all, then collect the tasks' results.
JoinAll ==
  /\ main = "running"
  /\ \A w \in Ids : pc[w] \in {"done", "failed"}
  /\ main' = IF \E w \in Ids : pc[w] = "failed" THEN "error"
             ELSE "cleaning"
  /\ UNCHANGED <<invocation, taskVars, fcVars>>

JoinError ==
  /\ main = "running"
  /\ \E w \in Ids : pc[w] = "panicked"
  /\ main' = "error"
  /\ UNCHANGED <<invocation, taskVars, fcVars>>

\* cleanup_dirs: remove the logs and the metrics.
CleanupDirs ==
  /\ main = "cleaning"
  /\ main' \in {"ok"} \cup IF "io" \in Faults THEN {"error"} ELSE {}
  /\ UNCHANGED <<invocation, taskVars, fcVars>>

\* make again: it removes snapshot/<bench> and runs the program anew.
Invoke ==
  /\ main \in Exited
  /\ invocation < MaxInvocations
  /\ invocation' = invocation + 1
  /\ main' = "setup"
  /\ pc' = [w \in Ids |-> "idle"]
  /\ snap' = [w \in Ids |-> NoSnap]
  /\ UNCHANGED <<retries, config, fcVars>>

(***************************************************************************)
(* Firecracker and the guest.  They go on whether or not the program that  *)
(* spawned them still runs.                                                *)
(***************************************************************************)
FcBind(i, w) ==
  /\ fc[i][w] = "starting"
  /\ IF sock[w] = 0
       THEN /\ sock' = [sock EXCEPT ![w] = i]
            /\ fc' = [fc EXCEPT ![i][w] = "bound"]
       ELSE /\ fc' = [fc EXCEPT ![i][w] = "dead"]
            /\ UNCHANGED sock
  /\ UNCHANGED <<invocation, main, taskVars, tap>>

\* The tap interface can be attached to one process only.
FcTap(i, w) ==
  /\ fc[i][w] = "bound"
  /\ IF tap[w] = 0
       THEN /\ tap' = [tap EXCEPT ![w] = i]
            /\ fc' = [fc EXCEPT ![i][w] = "booting"]
       ELSE /\ fc' = [fc EXCEPT ![i][w] = "dead"]
            /\ UNCHANGED tap
  /\ UNCHANGED <<invocation, main, taskVars, sock>>

\* The guest has booted and server.py listens.
GuestUp(i, w) ==
  /\ fc[i][w] = "booting"
  /\ fc' = [fc EXCEPT ![i][w] = "serving"]
  /\ UNCHANGED <<invocation, main, taskVars, tap, sock>>

FcCrash(i, w) ==
  /\ (IF i = invocation THEN "crash" ELSE "leave") \in Faults
  /\ fc[i][w] \in Alive
  /\ fc' = [fc EXCEPT ![i][w] = "dead"]
  /\ tap' = [tap EXCEPT ![w] = IF @ = i THEN 0 ELSE @]
  /\ UNCHANGED <<invocation, main, taskVars, sock>>

-----------------------------------------------------------------------------
TaskStep(w) ==
  \/ ClearSocket(w) \/ RenderConfig(w) \/ SpawnFc(w)
  \/ WaitPort(w, "poll", "pause")
  \/ PauseUvm(w) \/ CreateSnapshot(w) \/ ResumeUvm(w)
  \/ WaitPort(w, "repoll", "kill")
  \/ KillFc(w) \/ Tidy(w)
MainStep == Setup \/ JoinAll \/ JoinError \/ CleanupDirs
FcStep(i, w) == FcBind(i, w) \/ FcTap(i, w) \/ GuestUp(i, w)
\* Nobody invokes make any more.
Rest == main \in Exited /\ UNCHANGED vars

Next ==
  \/ MainStep
  \/ Invoke
  \/ \E w \in Ids : TaskStep(w) \/ Panic(w)
  \/ \E i \in Invocations, w \in Ids : FcStep(i, w) \/ FcCrash(i, w)
  \/ Rest

Spec == Init /\ [][Next]_vars

\* The runtime runs every task that is ready, every request is answered.
\* Nothing is assumed of Firecracker: wait_port gives up on its own.
Fairness == WF_vars(MainStep) /\ \A w \in Ids : WF_vars(TaskStep(w))
FairSpec == Spec /\ Fairness

-----------------------------------------------------------------------------
\* When the program returns Ok, every MicroVM has a complete snapshot, made by
\* this very invocation of a guest whose gRPC server was up: this is what
\* run_multi.sh restores and sends its first, "cold", request to.
SnapshotsGood ==
  main = "ok" => \A w \in Ids : snap[w] = [by |-> invocation, guest |-> "served"]

\* Whatever earlier invocations have left and whatever becomes of it, these are this
\* invocation's snapshots, and complete.
SnapshotsWhole ==
  main = "ok" => \A w \in Ids : /\ snap[w].by = invocation
                                /\ snap[w].guest \in {"unserved", "served"}

\* No Firecracker that this invocation spawned outlives its success; an error
\* leaves those of the failed tasks running, on their tap interfaces.
Reaped ==
  main = "ok" => \A w \in Ids : fc[invocation][w] \notin Alive

(***************************************************************************)
(* Why they hold: how far a task has come tells what became of the         *)
(* Firecracker it spawned and of its snapshot.                             *)
(***************************************************************************)
Unspawned == {"idle", "clear", "render", "spawn"}
Snapped == {"resume", "repoll", "kill", "tidy", "done"}
Spawned == {"poll", "pause", "snapshot"} \cup Snapped
WithTap == {"booting", "serving", "pausedEarly", "paused"}

MainInv ==
  /\ main = "setup" => \A w \in Ids : pc[w] = "idle"
  /\ main \in {"cleaning", "ok"} => \A w \in Ids : pc[w] = "done"

TaskInv ==
  \A w \in Ids :
    /\ pc[w] \in {"poll", "repoll"} => retries[w] > 0
    /\ pc[w] \in Unspawned => fc[invocation][w] = "none"
    /\ pc[w] \in Spawned => fc[invocation][w] # "none"
    /\ pc[w] \in {"tidy", "done"} => fc[invocation][w] = "dead"
    /\ pc[w] \in Unspawned \cup (Spawned \ Snapped) => snap[w] = NoSnap
    /\ pc[w] \in Snapped =>
         snap[w].by = invocation /\ snap[w].guest \in {"unserved", "served"}

\* A guest runs behind the tap interface of its MicroVM, so that there is one at most.
FcInv ==
  \A i \in Invocations, w \in Ids :
    /\ i > invocation => fc[i][w] = "none"
    /\ fc[i][w] \in WithTap => tap[w] = i

\* The guest that answered wait_port is the one that the API requests go to.
GuestInv ==
  \A w \in Ids :
    /\ pc[w] \in Spawned /\ fc[invocation][w] \in WithTap \cup {"bound"} =>
         sock[w] = invocation
    /\ pc[w] = "pause" =>
         \/ tap[w] \notin {0, invocation} /\ fc[tap[w]][w] = "serving"
         \/ sock[w] = invocation /\ fc[invocation][w] \in {"serving", "dead"}
    /\ pc[w] = "snapshot" => sock[w] # 0 /\ fc[sock[w]][w] \in {"paused", "dead"}
    /\ pc[w] \in Snapped => snap[w] = [by |-> invocation, guest |-> "served"]

IInv == /\ TypeOK /\ MainInv /\ TaskInv /\ FcInv
        /\ "leave" \notin Faults => GuestInv

\* An invocation does what module SnapshotBuild promises of a build.
Standing(w) == CASE fc[invocation][w] = "none" -> "absent"
                 [] fc[invocation][w] = "dead" -> "gone"
                 [] OTHER -> "running"
Good(w) == snap[w] = [by |-> invocation, guest |-> "served"]

SB == INSTANCE SnapshotBuild
        WITH Uvms <- Ids,
             status <- IF main \in Exited THEN main ELSE "building",
             uvm <- [w \in Ids |-> Standing(w)],
             made <- {w \in Ids : Good(w)}

RefinesSnapshotBuild == SB!SBSpec

\* An invocation always comes to an end: its retries are bounded.
Terminates == (main = "setup") ~> (main \in Exited)

=============================================================================
