----------------------------- MODULE MultiClient -----------------------------
(***************************************************************************)
(* fbpml-multiclient (fbpml-rs/fbpml-multiclient/src/main.rs): `main`      *)
(* spawns one tokio task per MicroVM and joins them; every task runs the   *)
(* stages of task_restore (or of task_issue), and the tasks meet at one    *)
(* shared tokio::sync::Barrier after each stage.                           *)
(*                                                                         *)
(* A stage's request is two steps (sent, answered), so that requests of    *)
(* several tasks interleave; reaching the barrier, being released from it  *)
(* and running again are separate steps too, as they are in tokio.         *)
(* Firecracker and the gRPC server in the guest are external: vm[w] keeps  *)
(* what the requests depend on.                                            *)
(***************************************************************************)
EXTENDS Integers, Sequences, FiniteSets

CONSTANTS
  N,           \* --num-uvms
  PreWarm,     \* --pre-warm
  Restoring,   \* the subcommand: TRUE for `restore`, FALSE for `issue`
  Implemented, \* FALSE for the RNNServing benchmark, whose requests bail
  Faults       \* what the environment may do wrong in a run

FaultKinds ==
  { "addr",    \* an address does not parse
    "late",    \* a socket or snapshot file is not there (yet) at validation
    "reject",  \* a request is answered with an error
    "crash",   \* a MicroVM dies
    "panic" }  \* a task panics instead of returning

ASSUME NAssumption == N \in Nat
ASSUME PreWarmAssumption == PreWarm \in Nat
ASSUME ModeAssumption == Restoring \in BOOLEAN /\ Implemented \in BOOLEAN
ASSUME FaultsAssumption == Faults \subseteq FaultKinds

Workers == 0..(N - 1)

\* What a task does between two of its barrier.wait() calls.
Stages ==
  IF Restoring
    THEN <<"validate", "restore", "resume", "cold", "prewarm", "warm">>
    ELSE <<"prepare", "cold", "prewarm", "warm">>
NStages == Len(Stages)

Rpcs == {"cold", "prewarm", "warm"}        \* BenchCmd::issue
Requests == {"restore", "resume"} \cup Rpcs

NoMeasurement == [uvm |-> -1, cold |-> 0, warm |-> 0]

VARIABLES
  main,        \* where `main` is
  k,           \* the index of main's spawning loop, then of its result loop
  pc,          \* pc[w]: where task w is within its stage
  stage,       \* stage[w]: the stage task w is in, NStages+1 after the last
  round,       \* round[w]: pre-warming requests task w has completed
  arrived,     \* barrier: how many tasks wait in the current generation
  generation,  \* barrier: how many times it has released the tasks
  seen,        \* barrier: seen[w] is the generation task w waits in
  vm,          \* vm[w]: the state of MicroVM w
  served,      \* served[w]: requests the gRPC server in MicroVM w answered
  taken,       \* taken[w]: the measurement task w is putting together
  measurements \* main's Vec<MaybeUninit<Measurement>>

barrierVars == <<arrived, generation, seen>>
vmVars == <<vm, served>>
mainVars == <<main, k, measurements>>
vars == <<main, k, pc, stage, round, arrived, generation, seen,
          vm, served, taken, measurements>>

Exited == {"ok", "error"}
Gone == {"failed", "panicked"}

Measurement == [uvm : -1..(N - 1), cold : Nat, warm : Nat]

TypeOK ==
  /\ main \in {"parsing", "spawning", "joining", "collecting"} \cup Exited
  /\ k \in 0..N
  /\ pc \in [Workers -> {"idle", "run", "inflight", "arriving", "waiting",
                         "done"} \cup Gone]
  /\ stage \in [Workers -> 1..(NStages + 1)]
  /\ round \in [Workers -> 0..PreWarm]
  /\ arrived \in 0..N
  /\ generation \in 0..NStages
  /\ seen \in [Workers -> 0..NStages]
  /\ vm \in [Workers -> {"absent", "fresh", "paused", "running", "dead"}]
  /\ served \in [Workers -> Nat]
  /\ taken \in [Workers -> Measurement]
  /\ measurements \in [Workers -> Measurement]

-----------------------------------------------------------------------------
Init ==
  /\ main = "parsing"
  /\ k = 0
  /\ pc = [w \in Workers |-> "idle"]
  /\ stage = [w \in Workers |-> 1]
  /\ round = [w \in Workers |-> 0]
  /\ arrived = 0
  /\ generation = 0
  /\ seen = [w \in Workers |-> 0]
  /\ vm \in [Workers -> IF ~Restoring THEN {"running"}
                        ELSE IF "late" \in Faults THEN {"absent", "fresh"}
                        ELSE {"fresh"}]
  /\ served = [w \in Workers |-> 0]
  /\ taken = [w \in Workers |-> NoMeasurement]
  /\ measurements = [w \in Workers |-> NoMeasurement]

(***************************************************************************)
(* The worker tasks.  They run as soon as they are spawned, while main may *)
(* still be spawning others, and are dropped when main returns.            *)
(***************************************************************************)
At(w, p, names) ==
  /\ main \notin Exited
  /\ pc[w] = p
  /\ stage[w] <= NStages
  /\ Stages[stage[w]] \in names

Goto(w, p) == pc' = [pc EXCEPT ![w] = p]

\* RestoreCmd::validate: stat the API socket and the two snapshot files.
Validate(w) ==
  /\ At(w, "run", {"validate"})
  /\ Goto(w, IF vm[w] = "absent" THEN "failed" ELSE "arriving")
  /\ UNCHANGED <<mainVars, stage, round, barrierVars, vmVars, taken>>

\* task_issue only allocates before its first barrier.
Prepare(w) ==
  /\ At(w, "run", {"prepare"})
  /\ Goto(w, "arriving")
  /\ UNCHANGED <<mainVars, stage, round, barrierVars, vmVars, taken>>

\* Seeded fault: the pre-warming loop runs one round short.
PrewarmedShort(w) ==
  /\ At(w, "run", {"prewarm"})
  /\ round[w] + 1 >= PreWarm
  /\ Goto(w, "arriving")
  /\ UNCHANGED <<mainVars, stage, round, barrierVars, vmVars, taken>>

\* The pre-warming loop is over (at once when --pre-warm is 0).
Prewarmed(w) ==
  /\ At(w, "run", {"prewarm"})
  /\ round[w] = PreWarm
  /\ Goto(w, "arriving")
  /\ UNCHANGED <<mainVars, stage, round, barrierVars, vmVars, taken>>

\* Seeded fault: the pre-warming loop has no end.
SendEndless(w) ==
  /\ At(w, "run", IF Implemented THEN Requests ELSE Requests \ Rpcs)
  /\ Goto(w, "inflight")
  /\ UNCHANGED <<mainVars, stage, round, barrierVars, vmVars, taken>>

\* Issue the request of the stage and wait for its answer.
Send(w) ==
  /\ At(w, "run", IF Implemented THEN Requests ELSE Requests \ Rpcs)
  /\ Stages[stage[w]] = "prewarm" => round[w] < PreWarm
  /\ Goto(w, "inflight")
  /\ UNCHANGED <<mainVars, stage, round, barrierVars, vmVars, taken>>

\* BenchCmd::issue for RNNServing: bail without sending anything.
Bail(w) ==
  /\ ~Implemented
  /\ At(w, "run", Rpcs)
  /\ Goto(w, "failed")
  /\ UNCHANGED <<mainVars, stage, round, barrierVars, vmVars, taken>>

\* PUT /snapshot/load was answered 204: the MicroVM is loaded, paused.
Restored(w) ==
  /\ At(w, "inflight", {"restore"})
  /\ vm[w] = "fresh"
  /\ vm' = [vm EXCEPT ![w] = "paused"]
  /\ Goto(w, "arriving")
  /\ UNCHANGED <<mainVars, stage, round, barrierVars, served, taken>>

\* PATCH /vm was answered 204: the MicroVM runs.
Resumed(w) ==
  /\ At(w, "inflight", {"resume"})
  /\ vm[w] = "paused"
  /\ vm' = [vm EXCEPT ![w] = "running"]
  /\ Goto(w, "arriving")
  /\ UNCHANGED <<mainVars, stage, round, barrierVars, served, taken>>

\* The gRPC server in the guest answered the request.  A cold or warm answer
\* is what the task measures; after a pre-warming one it goes around.
Served(w) ==
  /\ At(w, "inflight", Rpcs)
  /\ vm[w] = "running"
  /\ served' = [served EXCEPT ![w] = @ + 1]
  /\ LET name == Stages[stage[w]] IN
       /\ taken' = [taken EXCEPT ![w] =
            [uvm  |-> w,
             cold |-> IF name = "cold" THEN served[w] + 1 ELSE @.cold,
             warm |-> IF name = "warm" THEN served[w] + 1 ELSE @.warm]]
       /\ round' = [round EXCEPT ![w] = IF name = "prewarm" THEN @ + 1 ELSE @]
       /\ Goto(w, IF name = "prewarm" THEN "run" ELSE "arriving")
  /\ UNCHANGED <<mainVars, stage, barrierVars, vm>>

\* A request failed: connection error, a status other than 204, a gRPC error.
\* `?` returns from the task, and no barrier is reached any more.
RequestFailed(w) ==
  /\ At(w, "inflight", Requests)
  /\ "reject" \in Faults \/ vm[w] = "dead"
  /\ Goto(w, "failed")
  /\ UNCHANGED <<mainVars, stage, round, barrierVars, vmVars, taken>>

\* A panic unwinds the task; its JoinHandle will yield a JoinError.
Panic(w) ==
  /\ "panic" \in Faults
  /\ At(w, "run", Requests) \/ At(w, "inflight", Requests)
  /\ Goto(w, "panicked")
  /\ UNCHANGED <<mainVars, stage, round, barrierVars, vmVars, taken>>

(***************************************************************************)
(* tokio::sync::Barrier::wait, shared by the tasks.  The task whose        *)
(* arrival completes the generation releases it and goes on at once; the   *)
(* others are woken later, each when it is scheduled.                      *)
(***************************************************************************)
NextStage(w) ==
  /\ stage' = [stage EXCEPT ![w] = @ + 1]
  /\ Goto(w, IF stage[w] = NStages THEN "done" ELSE "run")

\* Seeded fault: a task waits without noting the generation it waits in.
ArriveUnseen(w) ==
  /\ At(w, "arriving", {Stages[s] : s \in 1..NStages})
  /\ arrived + 1 < N
  /\ arrived' = arrived + 1
  /\ Goto(w, "waiting")
  /\ UNCHANGED <<mainVars, stage, round, generation, seen, vmVars, taken>>

Arrive(w) ==
  /\ At(w, "arriving", {Stages[s] : s \in 1..NStages})
  /\ arrived + 1 < N
  /\ arrived' = arrived + 1
  /\ seen' = [seen EXCEPT ![w] = generation]
  /\ Goto(w, "waiting")
  /\ UNCHANGED <<mainVars, stage, round, generation, vmVars, taken>>

\* Seeded fault: the barrier is made for one task less.
ReleaseEarly(w) ==
  /\ At(w, "arriving", {Stages[s] : s \in 1..NStages})
  /\ arrived + 1 >= N - 1
  /\ arrived' = 0
  /\ generation' = generation + 1
  /\ NextStage(w)
  /\ UNCHANGED <<mainVars, round, seen, vmVars, taken>>

Release(w) ==
  /\ At(w, "arriving", {Stages[s] : s \in 1..NStages})
  /\ arrived + 1 = N
  /\ arrived' = 0
  /\ generation' = generation + 1
  /\ NextStage(w)
  /\ UNCHANGED <<mainVars, round, seen, vmVars, taken>>

Wake(w) ==
  /\ At(w, "waiting", {Stages[s] : s \in 1..NStages})
  /\ generation > seen[w]
  /\ NextStage(w)
  /\ UNCHANGED <<mainVars, round, barrierVars, vmVars, taken>>

(***************************************************************************)
(* main.                                                                   *)
(***************************************************************************)
MainUnchanged == UNCHANGED <<stage, round, barrierVars, vmVars, taken>>

\* validate_addrs, before anything is spawned.
ValidateAddrs ==
  /\ main = "parsing"
  /\ main' \in {"spawning"} \cup IF "addr" \in Faults THEN {"error"} ELSE {}
  /\ UNCHANGED <<k, pc, measurements>>
  /\ MainUnchanged

Spawn ==
  /\ main = "spawning"
  /\ k < N
  /\ Goto(k, "run")
  /\ k' = k + 1
  /\ UNCHANGED <<main, measurements>>
  /\ MainUnchanged

SpawnedAll ==
  /\ main = "spawning"
  /\ k = N
  /\ main' = "joining"
  /\ k' = 0
  /\ UNCHANGED <<pc, measurements>>
  /\ MainUnchanged

\* Seeded fault: only tasks that succeed are joined.
JoinAllDone ==
  /\ main = "joining"
  /\ \A w \in Workers : pc[w] = "done"
  /\ main' = "collecting"
  /\ UNCHANGED <<k, pc, measurements>>
  /\ MainUnchanged

\* Seeded fault: the first task to fail ends the join.
JoinUntilFailure ==
  /\ main = "joining"
  /\ \/ \A w \in Workers : pc[w] = "done"
     \/ \E w \in Workers : pc[w] = "failed"
  /\ main' = "collecting"
  /\ UNCHANGED <<k, pc, measurements>>
  /\ MainUnchanged

\* try_join_all yields once every task has returned, with Ok or with Err ...
JoinAll ==
  /\ main = "joining"
  /\ \A w \in Workers : pc[w] \in {"done", "failed"}
  /\ main' = "collecting"
  /\ UNCHANGED <<k, pc, measurements>>
  /\ MainUnchanged

\* Seeded fault: a task that has not returned yet counts as not joinable.
JoinErrorEarly ==
  /\ main = "joining"
  /\ \E w \in Workers : pc[w] # "done"
  /\ main' = "error"
  /\ UNCHANGED <<k, pc, measurements>>
  /\ MainUnchanged

\* ... and as soon as one handle yields a JoinError.
JoinError ==
  /\ main = "joining"
  /\ \E w \in Workers : pc[w] = "panicked"
  /\ main' = "error"
  /\ UNCHANGED <<k, pc, measurements>>
  /\ MainUnchanged

\* One pass of the result loop: `?` on a task's Err, or fill its slot.
Collect ==
  /\ main = "collecting"
  /\ k < N
  /\ \/ /\ pc[k] = "failed"
        /\ main' = "error"
        /\ UNCHANGED <<k, measurements>>
     \/ /\ pc[k] = "done"
        /\ measurements' = [measurements EXCEPT ![k] = taken[k]]
        /\ k' = k + 1
        /\ UNCHANGED main
  /\ UNCHANGED pc
  /\ MainUnchanged

\* Transmute the slots to measurements, print them all, return Ok.
PrintAll ==
  /\ main = "collecting"
  /\ k = N
  /\ main' = "ok"
  /\ UNCHANGED <<k, pc, measurements>>
  /\ MainUnchanged

(***************************************************************************)
(* Firecracker, external.                                                  *)
(***************************************************************************)
\* A Firecracker started in the background begins to listen on its socket.
FcListen(w) ==
  /\ main \notin Exited
  /\ vm[w] = "absent"
  /\ vm' = [vm EXCEPT ![w] = "fresh"]
  /\ UNCHANGED <<mainVars, pc, stage, round, barrierVars, served, taken>>

Crash(w) ==
  /\ "crash" \in Faults
  /\ main \notin Exited
  /\ vm[w] \in {"fresh", "paused", "running"}
  /\ vm' = [vm EXCEPT ![w] = "dead"]
  /\ UNCHANGED <<mainVars, pc, stage, round, barrierVars, served, taken>>

-----------------------------------------------------------------------------
Answered(w) == Restored(w) \/ Resumed(w) \/ Served(w) \/ RequestFailed(w)
Synchronise(w) == Arrive(w) \/ Release(w) \/ Wake(w)
TaskStep(w) == \/ Validate(w) \/ Prepare(w) \/ Prewarmed(w)
               \/ Send(w) \/ Bail(w) \/ Synchronise(w)
MainStep == \/ ValidateAddrs \/ Spawn \/ SpawnedAll
            \/ JoinAll \/ JoinError \/ Collect \/ PrintAll
\* The process has exited: nothing happens any more.
Exit == main \in Exited /\ UNCHANGED vars

Next ==
  \/ MainStep
  \/ \E w \in Workers : \/ TaskStep(w) \/ Answered(w) \/ Panic(w)
                        \/ FcListen(w) \/ Crash(w)
  \/ Exit

Spec == Init /\ [][Next]_vars

\* The guest died with a gRPC request in flight.  No packet tells the client, and
\* it sets neither a timeout nor keep-alive: it may, or may not, get an error.
Lost(w) == At(w, "inflight", Rpcs) /\ vm[w] = "dead"

\* The multi-threaded runtime runs every task that is ready, and main; any other
\* request is eventually answered or fails.
Fairness ==
  /\ WF_vars(MainStep)
  /\ \A w \in Workers : WF_vars(TaskStep(w)) /\ WF_vars(Answered(w) /\ ~Lost(w))

FairSpec == Spec /\ Fairness

-----------------------------------------------------------------------------
(***************************************************************************)
(* Properties.                                                             *)
(***************************************************************************)

\* The reason the barriers are there: while a MicroVM is being measured in a
\* stage, every other request in flight belongs to the same stage, every task
\* still behind has finished its part and is about to be woken, and no task is
\* ahead.  In particular no restore, pre-warming or warm request disturbs
\* another MicroVM's cold one.
PhaseIsolation ==
  \A v, w \in Workers :
    pc[w] = "inflight" =>
      /\ stage[v] <= stage[w]
      /\ stage[v] < stage[w] => pc[v] = "waiting"

\* What is printed was measured, on the right MicroVM, by the right requests:
\* row w holds MicroVM w's first answered request as "cold" and its last one,
\* after the pre-warming ones, as "warm"; every slot of the uninitialised Vec
\* has been written by then (the SAFETY comments of main).
PrintedRight ==
  main = "ok" =>
    \A w \in Workers :
      /\ measurements[w] = [uvm |-> w, cold |-> 1, warm |-> PreWarm + 2]
      /\ served[w] = PreWarm + 2

\* A run is never half a success.  When main goes through the results, all tasks
\* succeeded or all failed, and in one stage: a task that fails alone keeps the
\* others, and main, waiting.  When main returns an error no task was spawned, or
\* one panicked, or all failed in one stage, and no slot of the Vec was filled.
AllDone == \A w \in Workers : pc[w] = "done"
AllFailed == \A v, w \in Workers : pc[v] = "failed" /\ stage[v] = stage[w]
NoneFilled == \A w \in Workers : measurements[w] = NoMeasurement
FailTogether ==
  /\ main = "collecting" => AllDone \/ AllFailed
  /\ main = "error" => /\ \/ \A w \in Workers : pc[w] = "idle"
                          \/ \E w \in Workers : pc[w] = "panicked"
                          \/ AllFailed
                       /\ NoneFilled

\* The tasks implement the lock-step rounds: a task that is at, or inside, the
\* barrier has finished its round, a failed or panicked one has dropped out.
Standing(w) ==
  IF pc[w] \in {"arriving", "waiting"} THEN "finished"
  ELSE IF pc[w] \in Gone THEN "out" ELSE "busy"

LS == INSTANCE LockStep
        WITH Party <- Workers, Rounds <- NStages,
             round <- stage, state <- [w \in Workers |-> Standing(w)]

RefinesLockStep == LS!LSSpec

\* It ends well, unless a task fails or panics, its request is lost, or the addresses
\* did not parse and no task was spawned.
Completes ==
  <>(\/ main = "ok"
     \/ \E w \in Workers : pc[w] \in Gone \/ Lost(w)
     \/ main = "error" /\ \A w \in Workers : pc[w] = "idle")

\* The only ways not to come to an end: a task failed, and others wait for it at
\* the barrier of the stage it failed in, for ever; or a MicroVM died with a gRPC
\* request in flight.
Stuck == \/ \E v, w \in Workers : /\ pc[v] = "failed"
                                 /\ pc[w] = "waiting"
                                 /\ stage[w] = stage[v]
                                 /\ seen[w] = generation
         \/ \E w \in Workers : Lost(w)
EndsOrStuck == <>(main \in Exited \/ []Stuck)

\* A task's error is reported: main returns an error (the `?` with the context
\* "failed to retrieve workers' results after joining").
FailureReported == (\E w \in Workers : pc[w] = "failed") ~> (main = "error")

-----------------------------------------------------------------------------
(***************************************************************************)
(* The inductive invariant behind PhaseIsolation, RefinesLockStep,         *)
(* PrintedRight and FailTogether, in parts.                                *)
(***************************************************************************)

\* main spawns the tasks in order and counts the results from 0 again.
SpawnInv ==
  /\ main \in {"parsing", "joining"} => k = 0
  /\ main \in {"parsing", "spawning"} => \A w \in k..(N - 1) : pc[w] = "idle"

\* The barrier's count is the number of tasks waiting in its generation.
InBarrier == {w \in Workers : pc[w] = "waiting" /\ seen[w] = generation}
BarrierCount == arrived = Cardinality(InBarrier)

\* The barrier's generation is the number of stages all tasks have finished.
Released(w) == pc[w] = "waiting" /\ generation > seen[w]
StageInv ==
  \A w \in Workers :
    /\ stage[w] = IF Released(w) THEN generation ELSE generation + 1
    /\ pc[w] = "waiting" => seen[w] = stage[w] - 1
    /\ pc[w] = "done" <=> stage[w] = NStages + 1

\* What a task has measured so far follows from the stages it has finished.
Warm == NStages
Cold == NStages - 2
Finished(w, s) == \/ stage[w] > s
                  \/ stage[w] = s /\ pc[w] \in {"arriving", "waiting"}
One(b) == IF b THEN 1 ELSE 0
DataOf(w) ==
  /\ served[w] = One(Finished(w, Cold)) + round[w] + One(Finished(w, Warm))
  /\ stage[w] < NStages - 1 => round[w] = 0
  /\ stage[w] = NStages - 1 /\ pc[w] = "inflight" => round[w] < PreWarm
  /\ Finished(w, NStages - 1) => round[w] = PreWarm
  /\ Finished(w, Cold) => taken[w].uvm = w /\ taken[w].cold = 1
  /\ Finished(w, Warm) => taken[w].warm = PreWarm + 2
DataInv == \A w \in Workers : DataOf(w)

\* The slots main has filled hold what the tasks measured.
ResultInv ==
  main \in {"collecting", "ok"} =>
    /\ \A w \in 0..(k - 1) : pc[w] = "done" /\ measurements[w] = taken[w]
    /\ main = "ok" => k = N

\* The slots main has not come to are empty.
SlotsInv ==
  /\ main \notin {"collecting", "ok"} => NoneFilled
  /\ main = "collecting" => \A w \in k..(N - 1) : measurements[w] = NoMeasurement

IInv == /\ TypeOK /\ SpawnInv /\ BarrierCount /\ StageInv /\ DataInv /\ ResultInv
        /\ FailTogether /\ SlotsInv

=============================================================================
