-------------------------- MODULE MultiClientProofs --------------------------
(* The invariants of fbpml-multiclient for every number of MicroVMs and     *)
(* every number of pre-warming requests, under every fault of FaultKinds,   *)
(* and that it implements the lock-step rounds of LockStep.                 *)
EXTENDS MultiClient, FiniteSetTheorems, TLAPS

USE NAssumption, PreWarmAssumption

\* The last three stages of either subcommand are the requests that are
\* measured or warm the MicroVM up.
LEMMA StageNames ==
  /\ NStages \in {4, 6}
  /\ \A s \in 1..NStages :
       /\ Stages[s] = "cold" <=> s = NStages - 2
       /\ Stages[s] = "prewarm" <=> s = NStages - 1
       /\ Stages[s] = "warm" <=> s = NStages
       /\ Stages[s] \in Rpcs <=> s >= NStages - 2
<1>1. CASE Restoring
  <2>1. Stages = <<"validate", "restore", "resume", "cold", "prewarm", "warm">>
    BY <1>1 DEF Stages
  <2>2. NStages = 6
    BY <2>1 DEF NStages
  <2>3. 1..NStages = {1, 2, 3, 4, 5, 6}
    BY <2>2
  <2> QED
    BY <2>1, <2>2, <2>3 DEF Rpcs
<1>2. CASE ~Restoring
  <2>1. Stages = <<"prepare", "cold", "prewarm", "warm">>
    BY <1>2 DEF Stages
  <2>2. NStages = 4
    BY <2>1 DEF NStages
  <2>3. 1..NStages = {1, 2, 3, 4}
    BY <2>2
  <2> QED
    BY <2>1, <2>2, <2>3 DEF Rpcs
<1> QED
  BY <1>1, <1>2

LEMMA NStagesNat == NStages \in Nat /\ NStages >= 4
BY StageNames

LEMMA WorkersFinite == IsFiniteSet(Workers) /\ Cardinality(Workers) = N
<1>1. N \in Int /\ N - 1 \in Int /\ 0 \in Int
  BY NAssumption
<1>2. /\ IsFiniteSet(0..(N - 1))
      /\ Cardinality(0..(N - 1)) = IF 0 > N - 1 THEN 0 ELSE (N - 1) - 0 + 1
  BY <1>1, FS_Interval
<1> QED
  BY <1>2, NAssumption DEF Workers

\* A task that completes the barrier's generation finds every other task in it.
LEMMA LastArrival ==
  ASSUME TypeOK, BarrierCount, arrived + 1 = N,
         NEW w \in Workers, pc[w] = "arriving"
  PROVE  \A v \in Workers \ {w} : pc[v] = "waiting" /\ seen[v] = generation
<1>2. InBarrier \subseteq Workers /\ w \notin InBarrier
  BY DEF InBarrier
<1>3. IsFiniteSet(InBarrier)
  BY <1>2, WorkersFinite, FS_Subset
<1>4. /\ IsFiniteSet(InBarrier \cup {w})
      /\ Cardinality(InBarrier \cup {w}) = Cardinality(InBarrier) + 1
  BY <1>2, <1>3, FS_AddElement
<1>5. Cardinality(InBarrier \cup {w}) = Cardinality(Workers)
  BY <1>4, WorkersFinite DEF BarrierCount
<1>6. InBarrier \cup {w} = Workers
  <2> DEFINE S == InBarrier \cup {w}
  <2>1. S \subseteq Workers
    BY <1>2
  <2> HIDE DEF S
  <2>2. Cardinality(S) = Cardinality(Workers)
    BY <1>5 DEF S
  <2>3. S = Workers
    BY <2>1, <2>2, WorkersFinite, FS_Subset
  <2> QED
    BY <2>3 DEF S
<1> QED
  BY <1>6 DEF InBarrier

-----------------------------------------------------------------------------
(* The steps, by what they do.  A private step of task w only moves its pc, *)
(* from inside a stage to somewhere else inside it.                         *)
Private(w) ==
  \/ Validate(w) \/ Prepare(w) \/ Prewarmed(w) \/ Send(w) \/ Bail(w)
  \/ Restored(w) \/ Resumed(w) \/ RequestFailed(w) \/ Panic(w)
Environment(w) == FcListen(w) \/ Crash(w)

LEMMA NextCases ==
  ASSUME [Next]_vars, NEW P,
         ASSUME NEW w \in Workers, Private(w) PROVE P,
         ASSUME NEW w \in Workers, Served(w) PROVE P,
         ASSUME NEW w \in Workers, Arrive(w) PROVE P,
         ASSUME NEW w \in Workers, Release(w) PROVE P,
         ASSUME NEW w \in Workers, Wake(w) PROVE P,
         ASSUME NEW w \in Workers, Environment(w) PROVE P,
         ValidateAddrs => P, Spawn => P, SpawnedAll => P, JoinAll => P,
         JoinError => P, Collect => P, PrintAll => P, UNCHANGED vars => P
  PROVE  P
BY DEF Next, MainStep, TaskStep, Synchronise, Answered, Private, Environment,
       Exit

\* What a private step leaves alone, and where it goes.
LEMMA PrivateStep ==
  ASSUME TypeOK, NEW w \in Workers, Private(w)
  PROVE  /\ pc[w] \in {"run", "inflight"}
         /\ stage[w] <= NStages
         /\ main \notin Exited
         /\ \E p \in {"arriving", "inflight", "failed", "panicked"} :
              /\ pc' = [pc EXCEPT ![w] = p]
              /\ p = "inflight" => (Stages[stage[w]] = "prewarm" => round[w] < PreWarm)
              /\ p = "arriving" => /\ Stages[stage[w]] \notin {"cold", "warm"}
                                   /\ Stages[stage[w]] = "prewarm" => round[w] = PreWarm
         /\ UNCHANGED <<mainVars, stage, round, barrierVars, served, taken>>
         /\ vm' \in [Workers -> {"absent", "fresh", "paused", "running", "dead"}]
<1>1. CASE Validate(w)
  BY <1>1 DEF TypeOK, Validate, At, Goto, vmVars
<1>2. CASE Prepare(w)
  BY <1>2 DEF TypeOK, Prepare, At, Goto, vmVars
<1>3. CASE Prewarmed(w)
  BY <1>3 DEF TypeOK, Prewarmed, At, Goto, vmVars
<1>4. CASE Send(w)
  BY <1>4 DEF TypeOK, Send, At, Goto, vmVars
<1>5. CASE Bail(w)
  BY <1>5 DEF TypeOK, Bail, At, Goto, vmVars
<1>6. CASE Restored(w)
  BY <1>6 DEF TypeOK, Restored, At, Goto, vmVars
<1>7. CASE Resumed(w)
  BY <1>7 DEF TypeOK, Resumed, At, Goto, vmVars
<1>8. CASE RequestFailed(w)
  BY <1>8 DEF TypeOK, RequestFailed, At, Goto, vmVars
<1>9. CASE Panic(w)
  BY <1>9 DEF TypeOK, Panic, At, Goto, vmVars
<1> QED
  BY <1>1, <1>2, <1>3, <1>4, <1>5, <1>6, <1>7, <1>8, <1>9 DEF Private

\* What an answered request changes, by the stage it belongs to.
LEMMA ServedStep ==
  ASSUME TypeOK, DataInv, NEW w \in Workers, Served(w)
  PROVE  /\ pc[w] = "inflight"
         /\ served' = [served EXCEPT ![w] = served[w] + 1]
         /\ \E t \in Measurement :
              /\ taken' = [taken EXCEPT ![w] = t]
              /\ t.uvm = w
              /\ t.cold = IF stage[w] = Cold THEN served[w] + 1 ELSE taken[w].cold
              /\ t.warm = IF stage[w] = Warm THEN served[w] + 1 ELSE taken[w].warm
         /\ \/ /\ stage[w] = NStages - 1
               /\ round[w] < PreWarm
               /\ round' = [round EXCEPT ![w] = round[w] + 1]
               /\ pc' = [pc EXCEPT ![w] = "run"]
            \/ /\ stage[w] \in {Cold, Warm}
               /\ round' = round
               /\ pc' = [pc EXCEPT ![w] = "arriving"]
         /\ main \notin Exited
         /\ UNCHANGED <<mainVars, stage, barrierVars, vm>>
<1> DEFINE name == Stages[stage[w]]
           t == [uvm  |-> w,
                 cold |-> IF name = "cold" THEN served[w] + 1 ELSE taken[w].cold,
                 warm |-> IF name = "warm" THEN served[w] + 1 ELSE taken[w].warm]
<1>1. /\ main \notin Exited /\ pc[w] = "inflight"
      /\ stage[w] \in 1..NStages
      /\ name \in Rpcs
      /\ served' = [served EXCEPT ![w] = served[w] + 1]
      /\ taken' = [taken EXCEPT ![w] = t]
      /\ round' = [round EXCEPT ![w] = IF name = "prewarm" THEN round[w] + 1
                                                          ELSE round[w]]
      /\ pc' = [pc EXCEPT ![w] = IF name = "prewarm" THEN "run" ELSE "arriving"]
      /\ UNCHANGED <<mainVars, stage, barrierVars, vm>>
  BY NStagesNat DEF Served, At, Goto, TypeOK
<1>2. /\ name = "cold" <=> stage[w] = Cold
      /\ name = "prewarm" <=> stage[w] = NStages - 1
      /\ name = "warm" <=> stage[w] = Warm
      /\ stage[w] \in {Cold, NStages - 1, Warm}
  BY <1>1, StageNames DEF Cold, Warm
<1> HIDE DEF name
<1>3. t \in Measurement
  BY DEF TypeOK, Measurement, Workers
<1>4. /\ t.uvm = w
      /\ t.cold = IF stage[w] = Cold THEN served[w] + 1 ELSE taken[w].cold
      /\ t.warm = IF stage[w] = Warm THEN served[w] + 1 ELSE taken[w].warm
  BY <1>2
<1>5. stage[w] = NStages - 1 => round[w] < PreWarm
  BY <1>1 DEF DataInv, DataOf
<1>6. stage[w] # NStages - 1 => round' = round
  BY <1>1, <1>2 DEF TypeOK
<1> HIDE DEF t
<1> QED
  BY <1>1, <1>2, <1>3, <1>4, <1>5, <1>6

-----------------------------------------------------------------------------
(* The inductive invariant, part by part.                                   *)
LEMMA InitIInv == Init => IInv
<1> SUFFICES ASSUME Init PROVE IInv
  OBVIOUS
<1>1. TypeOK
  <2>1. NoMeasurement \in Measurement
    BY DEF NoMeasurement, Measurement
  <2> QED
    BY <2>1, NStagesNat, ModeAssumption DEF Init, TypeOK
<1>2. SpawnInv
  BY DEF Init, SpawnInv, Workers
<1>3. BarrierCount
  <2>1. InBarrier = {}
    BY DEF Init, InBarrier
  <2> QED
    BY <2>1, FS_EmptySet DEF Init, BarrierCount
<1>4. StageInv
  BY NStagesNat DEF Init, StageInv, Released
<1>5. DataInv
  BY NStagesNat DEF Init, DataInv, DataOf, Finished, One, Warm, Cold
<1>6. ResultInv
  BY DEF Init, ResultInv
<1>7. FailTogether /\ SlotsInv
  BY DEF Init, FailTogether, SlotsInv, NoneFilled
<1> QED
  BY <1>1, <1>2, <1>3, <1>4, <1>5, <1>6, <1>7 DEF IInv

LEMMA TypeStep == IInv /\ [Next]_vars => TypeOK'
<1> SUFFICES ASSUME IInv, [Next]_vars PROVE TypeOK'
  OBVIOUS
<1> USE NStagesNat DEF mainVars, barrierVars, vmVars
<1>0. TypeOK /\ StageInv /\ DataInv
  BY DEF IInv
<1>1. ASSUME NEW w \in Workers, Private(w) PROVE TypeOK'
  BY <1>0, <1>1, PrivateStep DEF TypeOK, Gone
<1>2. ASSUME NEW w \in Workers, Served(w) PROVE TypeOK'
  <2>1. /\ round' \in [Workers -> 0..PreWarm]
        /\ taken' \in [Workers -> Measurement]
        /\ served' \in [Workers -> Nat]
        /\ pc' \in [Workers -> {"idle", "run", "inflight", "arriving", "waiting",
                                "done"} \cup Gone]
    BY <1>0, <1>2, ServedStep DEF TypeOK
  <2> QED
    BY <1>0, <1>2, <2>1, ServedStep DEF TypeOK
<1>3. ASSUME NEW w \in Workers, Arrive(w) PROVE TypeOK'
  BY <1>0, <1>3 DEF TypeOK, Arrive, At, Goto
<1>4. ASSUME NEW w \in Workers, Release(w) PROVE TypeOK'
  BY <1>0, <1>4 DEF TypeOK, StageInv, Released, Release, At, NextStage, Goto
<1>5. ASSUME NEW w \in Workers, Wake(w) PROVE TypeOK'
  BY <1>0, <1>5 DEF TypeOK, Wake, At, NextStage, Goto
<1>6. ASSUME NEW w \in Workers, Environment(w) PROVE TypeOK'
  BY <1>0, <1>6 DEF TypeOK, Environment, FcListen, Crash
<1>7. ValidateAddrs => TypeOK'
  BY <1>0 DEF TypeOK, ValidateAddrs, MainUnchanged, Exited
<1>8. Spawn => TypeOK'
  <2> SUFFICES ASSUME Spawn PROVE TypeOK'
    OBVIOUS
  <2>1. k' \in 0..N /\ pc' = [pc EXCEPT ![k] = "run"] /\ main' = main
    BY <1>0 DEF TypeOK, Spawn, Goto
  <2> QED
    BY <1>0, <2>1 DEF TypeOK, Spawn, MainUnchanged
<1>9. SpawnedAll => TypeOK'
  BY <1>0 DEF TypeOK, SpawnedAll, MainUnchanged
<1>10. JoinAll => TypeOK'
  BY <1>0 DEF TypeOK, JoinAll, MainUnchanged
<1>11. JoinError => TypeOK'
  BY <1>0 DEF TypeOK, JoinError, MainUnchanged, Exited
<1>12. Collect => TypeOK'
  <2> SUFFICES ASSUME Collect PROVE TypeOK'
    OBVIOUS
  <2>1. k \in Workers /\ k + 1 \in 0..N /\ taken[k] \in Measurement
    BY <1>0 DEF TypeOK, Collect, Workers
  <2>2. /\ main' \in {"collecting", "error"}
        /\ k' \in {k, k + 1}
        /\ measurements' \in [Workers -> Measurement]
        /\ pc' = pc
    BY <1>0, <2>1 DEF TypeOK, Collect
  <2> QED
    BY <1>0, <2>1, <2>2 DEF TypeOK, Collect, MainUnchanged, Exited
<1>13. PrintAll => TypeOK'
  BY <1>0 DEF TypeOK, PrintAll, MainUnchanged, Exited
<1>14. UNCHANGED vars => TypeOK'
  BY <1>0 DEF TypeOK, vars
<1> QED
  <2> HIDE DEF mainVars, barrierVars, vmVars
  <2> QED
    BY <1>1, <1>2, <1>3, <1>4, <1>5, <1>6, <1>7, <1>8, <1>9, <1>10, <1>11,
       <1>12, <1>13, <1>14, NextCases

LEMMA SpawnKept ==
  ASSUME TypeOK, SpawnInv, NEW w \in Workers, pc[w] # "idle",
         NEW p, pc' = [pc EXCEPT ![w] = p], UNCHANGED <<main, k>>
  PROVE  SpawnInv'
<1> SUFFICES ASSUME main \in {"parsing", "spawning"}, NEW v \in k..(N - 1)
             PROVE  pc'[v] = "idle"
  BY DEF SpawnInv
<1>1. v \in Workers
  BY DEF TypeOK, Workers
<1> QED
  BY <1>1 DEF TypeOK, SpawnInv

LEMMA SpawnStep == IInv /\ [Next]_vars => SpawnInv'
<1> SUFFICES ASSUME IInv, [Next]_vars PROVE SpawnInv'
  OBVIOUS
<1> USE DEF mainVars, barrierVars, vmVars
<1>0. TypeOK /\ SpawnInv /\ DataInv
  BY DEF IInv
<1>1. ASSUME NEW w \in Workers, Private(w) PROVE SpawnInv'
  BY <1>0, <1>1, PrivateStep, SpawnKept
<1>2. ASSUME NEW w \in Workers, Served(w) PROVE SpawnInv'
  BY <1>0, <1>2, ServedStep, SpawnKept
<1>3. ASSUME NEW w \in Workers, Arrive(w) PROVE SpawnInv'
  BY <1>0, <1>3, SpawnKept DEF Arrive, At, Goto
<1>4. ASSUME NEW w \in Workers, Release(w) PROVE SpawnInv'
  BY <1>0, <1>4, SpawnKept DEF Release, At, NextStage, Goto
<1>5. ASSUME NEW w \in Workers, Wake(w) PROVE SpawnInv'
  BY <1>0, <1>5, SpawnKept DEF Wake, At, NextStage, Goto
<1>6. ASSUME NEW w \in Workers, Environment(w) PROVE SpawnInv'
  BY <1>0, <1>6 DEF SpawnInv, Environment, FcListen, Crash
<1>7. ValidateAddrs => SpawnInv'
  BY <1>0 DEF SpawnInv, ValidateAddrs
<1>8. Spawn => SpawnInv'
  BY <1>0 DEF TypeOK, SpawnInv, Spawn, Goto, Workers
<1>9. SpawnedAll => SpawnInv'
  BY <1>0 DEF SpawnInv, SpawnedAll
<1>10. JoinAll => SpawnInv'
  BY <1>0 DEF SpawnInv, JoinAll
<1>11. JoinError => SpawnInv'
  BY <1>0 DEF SpawnInv, JoinError
<1>12. Collect => SpawnInv'
  BY <1>0 DEF SpawnInv, Collect
<1>13. PrintAll => SpawnInv'
  BY <1>0 DEF SpawnInv, PrintAll
<1>14. UNCHANGED vars => SpawnInv'
  BY <1>0 DEF SpawnInv, vars
<1> QED
  <2> HIDE DEF mainVars, barrierVars, vmVars
  <2> QED
    BY <1>1, <1>2, <1>3, <1>4, <1>5, <1>6, <1>7, <1>8, <1>9, <1>10, <1>11,
       <1>12, <1>13, <1>14, NextCases

\* A step that moves one task, from outside the barrier to somewhere else
\* outside it and inside the same stage, disturbs neither part.
LEMMA OutsideBarrier ==
  ASSUME TypeOK, BarrierCount, StageInv,
         NEW w \in Workers, pc[w] \notin {"waiting", "done"},
         NEW p, p \notin {"waiting", "done"},
         pc' = [pc EXCEPT ![w] = p],
         UNCHANGED <<stage, arrived, generation, seen>>
  PROVE  BarrierCount' /\ StageInv'
<1>1. InBarrier' = InBarrier
  BY DEF TypeOK, InBarrier
<1>2. BarrierCount'
  BY <1>1 DEF BarrierCount
<1>3. StageInv'
  BY DEF TypeOK, StageInv, Released
<1> QED
  BY <1>2, <1>3

LEMMA SameBarrier ==
  ASSUME BarrierCount, StageInv, UNCHANGED <<pc, stage, arrived, generation, seen>>
  PROVE  BarrierCount' /\ StageInv'
<1>1. InBarrier' = InBarrier
  BY DEF InBarrier
<1> QED
  BY <1>1 DEF BarrierCount, StageInv, Released

LEMMA BarrierStep == IInv /\ [Next]_vars => BarrierCount' /\ StageInv'
<1> SUFFICES ASSUME IInv, [Next]_vars PROVE BarrierCount' /\ StageInv'
  OBVIOUS
<1> USE NStagesNat DEF mainVars, barrierVars, vmVars
<1>0. TypeOK /\ SpawnInv /\ BarrierCount /\ StageInv /\ DataInv
  BY DEF IInv
<1>1. ASSUME NEW w \in Workers, Private(w) PROVE BarrierCount' /\ StageInv'
  BY <1>0, <1>1, PrivateStep, OutsideBarrier
<1>2. ASSUME NEW w \in Workers, Served(w) PROVE BarrierCount' /\ StageInv'
  <2>1. /\ pc[w] = "inflight"
        /\ \E p \in {"run", "arriving"} : pc' = [pc EXCEPT ![w] = p]
        /\ UNCHANGED <<stage, arrived, generation, seen>>
    BY <1>0, <1>2, ServedStep
  <2> QED
    BY <1>0, <2>1, OutsideBarrier
<1>3. ASSUME NEW w \in Workers, Arrive(w) PROVE BarrierCount' /\ StageInv'
  <2>1. /\ pc[w] = "arriving"
        /\ stage[w] <= NStages
        /\ pc' = [pc EXCEPT ![w] = "waiting"]
        /\ seen' = [seen EXCEPT ![w] = generation]
        /\ arrived' = arrived + 1
        /\ UNCHANGED <<stage, generation>>
    BY <1>3 DEF Arrive, At, Goto
  <2>2. InBarrier' = InBarrier \cup {w} /\ w \notin InBarrier
    BY <1>0, <2>1 DEF TypeOK, InBarrier
  <2>3. IsFiniteSet(InBarrier)
    <3>1. InBarrier \subseteq Workers
      BY DEF InBarrier
    <3> QED
      BY <3>1, WorkersFinite, FS_Subset
  <2>4. Cardinality(InBarrier \cup {w}) = Cardinality(InBarrier) + 1
    BY <2>2, <2>3, FS_AddElement
  <2>5. BarrierCount'
    BY <1>0, <2>1, <2>2, <2>4 DEF BarrierCount
  <2>6. StageInv'
    BY <1>0, <2>1 DEF TypeOK, StageInv, Released
  <2> QED
    BY <2>5, <2>6
<1>4. ASSUME NEW w \in Workers, Release(w) PROVE BarrierCount' /\ StageInv'
  <2>1. /\ pc[w] = "arriving"
        /\ arrived + 1 = N
        /\ stage[w] <= NStages
        /\ arrived' = 0
        /\ generation' = generation + 1
        /\ stage' = [stage EXCEPT ![w] = stage[w] + 1]
        /\ pc' = [pc EXCEPT ![w] = IF stage[w] = NStages THEN "done" ELSE "run"]
        /\ UNCHANGED seen
    BY <1>4 DEF Release, At, NextStage, Goto
  <2>2. \A v \in Workers \ {w} : pc[v] = "waiting" /\ seen[v] = generation
    BY <1>0, <2>1, LastArrival
  <2>3. InBarrier' = {}
    BY <1>0, <2>1, <2>2 DEF TypeOK, InBarrier
  <2>4. BarrierCount'
    BY <2>1, <2>3, FS_EmptySet DEF BarrierCount
  <2>5. StageInv'
    BY <1>0, <2>1, <2>2 DEF TypeOK, StageInv, Released
  <2> QED
    BY <2>4, <2>5
<1>5. ASSUME NEW w \in Workers, Wake(w) PROVE BarrierCount' /\ StageInv'
  <2>1. /\ pc[w] = "waiting"
        /\ generation > seen[w]
        /\ stage[w] <= NStages
        /\ stage' = [stage EXCEPT ![w] = stage[w] + 1]
        /\ pc' = [pc EXCEPT ![w] = IF stage[w] = NStages THEN "done" ELSE "run"]
        /\ UNCHANGED <<arrived, generation, seen>>
    BY <1>5 DEF Wake, At, NextStage, Goto
  <2>2. InBarrier' = InBarrier
    BY <1>0, <2>1 DEF TypeOK, InBarrier
  <2>3. BarrierCount'
    BY <1>0, <2>1, <2>2 DEF BarrierCount
  <2>4. StageInv'
    BY <1>0, <2>1 DEF TypeOK, StageInv, Released
  <2> QED
    BY <2>3, <2>4
<1>6. ASSUME NEW w \in Workers, Environment(w) PROVE BarrierCount' /\ StageInv'
  BY <1>0, <1>6, SameBarrier DEF Environment, FcListen, Crash
<1>7. ValidateAddrs => BarrierCount' /\ StageInv'
  BY <1>0, SameBarrier DEF ValidateAddrs, MainUnchanged
<1>8. Spawn => BarrierCount' /\ StageInv'
  <2> SUFFICES ASSUME Spawn PROVE BarrierCount' /\ StageInv'
    OBVIOUS
  <2>1. PICK w \in Workers : w = k
    BY <1>0 DEF TypeOK, Spawn, Workers
  <2>2. /\ pc[w] = "idle"
        /\ pc' = [pc EXCEPT ![w] = "run"]
        /\ UNCHANGED <<stage, arrived, generation, seen>>
    BY <1>0, <2>1 DEF TypeOK, Spawn, Goto, MainUnchanged, SpawnInv, Workers
  <2> QED
    BY <1>0, <2>2, OutsideBarrier
<1>9. SpawnedAll => BarrierCount' /\ StageInv'
  BY <1>0, SameBarrier DEF SpawnedAll, MainUnchanged
<1>10. JoinAll => BarrierCount' /\ StageInv'
  BY <1>0, SameBarrier DEF JoinAll, MainUnchanged
<1>11. JoinError => BarrierCount' /\ StageInv'
  BY <1>0, SameBarrier DEF JoinError, MainUnchanged
<1>12. Collect => BarrierCount' /\ StageInv'
  BY <1>0, SameBarrier DEF Collect, MainUnchanged
<1>13. PrintAll => BarrierCount' /\ StageInv'
  BY <1>0, SameBarrier DEF PrintAll, MainUnchanged
<1>14. UNCHANGED vars => BarrierCount' /\ StageInv'
  BY <1>0, SameBarrier DEF vars
<1> QED
  <2> HIDE DEF mainVars, barrierVars, vmVars
  <2> QED
    BY <1>1, <1>2, <1>3, <1>4, <1>5, <1>6, <1>7, <1>8, <1>9, <1>10, <1>11,
       <1>12, <1>13, <1>14, NextCases

\* Moving through the barrier, or around in it, measures nothing: what counts
\* is which stages task w has finished, and that changes only when it finishes
\* one.
LEMMA SameData ==
  ASSUME TypeOK, DataInv, NEW w \in Workers, NEW p, NEW s,
         pc' = [pc EXCEPT ![w] = p], stage' = [stage EXCEPT ![w] = s],
         \/ /\ pc[w] \in {"idle", "run", "inflight"} /\ s = stage[w]
            /\ p \in {"run", "inflight", "failed", "panicked"}
            /\ p = "inflight" /\ stage[w] = NStages - 1 => round[w] < PreWarm
         \/ /\ pc[w] \in {"run", "inflight"} /\ p = "arriving" /\ s = stage[w]
            /\ stage[w] \notin {Cold, Warm}
            /\ stage[w] = NStages - 1 => round[w] = PreWarm
         \/ /\ pc[w] = "arriving" /\ p = "waiting" /\ s = stage[w]
         \/ /\ pc[w] \in {"arriving", "waiting"} /\ p \in {"run", "done"}
            /\ s = stage[w] + 1,
         UNCHANGED <<round, served, taken>>
  PROVE  DataInv'
<1>1. \A v \in Workers : v # w => pc'[v] = pc[v] /\ stage'[v] = stage[v]
  BY DEF TypeOK
<1>2. /\ pc'[w] = p /\ stage'[w] = s
      /\ stage[w] \in Nat /\ round[w] \in Nat /\ served[w] \in Nat
  BY NStagesNat DEF TypeOK
<1>3. /\ NStages \in Nat /\ NStages >= 4
      /\ Cold = NStages - 2 /\ Warm = NStages
  BY NStagesNat DEF Cold, Warm
<1>4. ASSUME NEW v \in Workers, v # w PROVE DataOf(v)'
  BY <1>1, <1>4 DEF DataInv, DataOf, Finished
<1>5. /\ stage'[w] = s /\ pc'[w] = p
      /\ round'[w] = round[w] /\ served'[w] = served[w] /\ taken'[w] = taken[w]
  BY <1>2
<1>6. DataOf(w)
  BY DEF DataInv
<1>7. DataOf(w)'
  <2>1. CASE s = stage[w] /\ pc[w] \notin {"arriving", "waiting"}
                          /\ p \notin {"arriving", "waiting"}
    BY <1>2, <1>3, <1>5, <1>6, <2>1 DEF DataOf, Finished, One
  <2>2. CASE s = stage[w] /\ pc[w] \in {"run", "inflight"} /\ p = "arriving"
    <3>1. /\ stage[w] \notin {Cold, Warm}
          /\ stage[w] = NStages - 1 => round[w] = PreWarm
      BY <2>2
    <3> QED
      BY <1>2, <1>3, <1>5, <1>6, <2>2, <3>1 DEF DataOf, Finished, One
  <2>3. CASE s = stage[w] /\ pc[w] = "arriving" /\ p = "waiting"
    BY <1>2, <1>3, <1>5, <1>6, <2>3 DEF DataOf, Finished, One
  <2>4. CASE s = stage[w] + 1 /\ pc[w] \in {"arriving", "waiting"}
                              /\ p \in {"run", "done"}
    <3>1. \A n \in Nat : Finished(w, n)' <=> Finished(w, n)
      BY <1>2, <1>5, <2>4 DEF Finished
    <3>2. /\ Finished(w, Cold)' <=> Finished(w, Cold)
          /\ Finished(w, Warm)' <=> Finished(w, Warm)
          /\ Finished(w, NStages - 1)' <=> Finished(w, NStages - 1)
      BY <1>3, <3>1
    <3>3. stage'[w] < NStages - 1 => stage[w] < NStages - 1
      BY <1>2, <1>3, <1>5, <2>4
    <3>4. pc'[w] # "inflight"
      BY <1>5, <2>4
    <3> QED
      BY <1>5, <1>6, <3>2, <3>3, <3>4 DEF DataOf, One
  <2> QED
    BY <2>1, <2>2, <2>3, <2>4
<1> QED
  BY <1>4, <1>7 DEF DataInv

LEMMA DataKept ==
  ASSUME DataInv, UNCHANGED <<pc, stage, round, served, taken>>
  PROVE  DataInv'
BY DEF DataInv, DataOf, Finished

\* An answer counts in the stage it was asked in: the first one is "cold", the
\* next PreWarm ones are pre-warming, and the last is "warm".
LEMMA DataServed ==
  ASSUME TypeOK, DataInv, NEW w \in Workers, Served(w)
  PROVE  DataInv'
<1>1. PICK t \in Measurement :
        /\ taken' = [taken EXCEPT ![w] = t]
        /\ t.uvm = w
        /\ t.cold = IF stage[w] = Cold THEN served[w] + 1 ELSE taken[w].cold
        /\ t.warm = IF stage[w] = Warm THEN served[w] + 1 ELSE taken[w].warm
  BY ServedStep
<1>2. /\ pc[w] = "inflight"
      /\ served' = [served EXCEPT ![w] = served[w] + 1]
      /\ stage' = stage
      /\ \/ /\ stage[w] = NStages - 1
            /\ round[w] < PreWarm
            /\ round' = [round EXCEPT ![w] = round[w] + 1]
            /\ pc' = [pc EXCEPT ![w] = "run"]
         \/ /\ stage[w] \in {Cold, Warm}
            /\ round' = round
            /\ pc' = [pc EXCEPT ![w] = "arriving"]
  BY ServedStep
<1>3. /\ NStages \in Nat /\ NStages >= 4
      /\ Cold = NStages - 2 /\ Warm = NStages
  BY NStagesNat DEF Cold, Warm
<1>4. ASSUME NEW v \in Workers, v # w PROVE DataOf(v)'
  <2>1. /\ pc'[v] = pc[v] /\ stage'[v] = stage[v] /\ round'[v] = round[v]
        /\ served'[v] = served[v] /\ taken'[v] = taken[v]
    BY <1>1, <1>2, <1>4 DEF TypeOK
  <2> QED
    BY <2>1 DEF DataInv, DataOf, Finished
<1>5. /\ DataOf(w)
      /\ stage[w] \in Nat /\ round[w] \in Nat /\ served[w] \in Nat
      /\ served'[w] = served[w] + 1 /\ stage'[w] = stage[w] /\ taken'[w] = t
  BY <1>1, <1>2, NStagesNat DEF TypeOK, DataInv
<1>6. CASE stage[w] = Cold
  <2>1. pc'[w] = "arriving" /\ round'[w] = round[w]
    BY <1>2, <1>3, <1>6 DEF TypeOK
  <2>2. /\ ~Finished(w, Cold) /\ ~Finished(w, Warm) /\ ~Finished(w, NStages - 1)
        /\ Finished(w, Cold)' /\ ~Finished(w, Warm)' /\ ~Finished(w, NStages - 1)'
    BY <1>2, <1>3, <1>5, <1>6, <2>1 DEF Finished
  <2> QED
    BY <1>1, <1>3, <1>4, <1>5, <1>6, <2>1, <2>2 DEF DataInv, DataOf, One
<1>7. CASE stage[w] = NStages - 1
  <2>1. pc'[w] = "run" /\ round'[w] = round[w] + 1 /\ round[w] < PreWarm
    BY <1>2, <1>3, <1>7 DEF TypeOK
  <2>2. /\ Finished(w, Cold) /\ ~Finished(w, Warm) /\ ~Finished(w, NStages - 1)
        /\ Finished(w, Cold)' /\ ~Finished(w, Warm)' /\ ~Finished(w, NStages - 1)'
    BY <1>2, <1>3, <1>5, <1>7, <2>1 DEF Finished
  <2> QED
    BY <1>1, <1>3, <1>4, <1>5, <1>7, <2>1, <2>2 DEF DataInv, DataOf, One
<1>8. CASE stage[w] = Warm
  <2>1. pc'[w] = "arriving" /\ round'[w] = round[w]
    BY <1>2, <1>3, <1>8 DEF TypeOK
  <2>2. /\ Finished(w, Cold) /\ ~Finished(w, Warm) /\ Finished(w, NStages - 1)
        /\ Finished(w, Cold)' /\ Finished(w, Warm)' /\ Finished(w, NStages - 1)'
    BY <1>2, <1>3, <1>5, <1>8, <2>1 DEF Finished
  <2> QED
    BY <1>1, <1>3, <1>4, <1>5, <1>8, <2>1, <2>2 DEF DataInv, DataOf, One
<1> QED
  BY <1>2, <1>6, <1>7, <1>8

LEMMA DataStep == IInv /\ [Next]_vars => DataInv'
<1> SUFFICES ASSUME IInv, [Next]_vars PROVE DataInv'
  OBVIOUS
<1>0. TypeOK /\ SpawnInv /\ DataInv
  BY DEF IInv
<1>1. ASSUME NEW w \in Workers, Private(w) PROVE DataInv'
  <2>1. PICK p \in {"arriving", "inflight", "failed", "panicked"} :
          /\ pc' = [pc EXCEPT ![w] = p]
          /\ p = "inflight" => (Stages[stage[w]] = "prewarm" => round[w] < PreWarm)
          /\ p = "arriving" => /\ Stages[stage[w]] \notin {"cold", "warm"}
                               /\ Stages[stage[w]] = "prewarm" => round[w] = PreWarm
    BY <1>0, <1>1, PrivateStep
  <2>2. /\ pc[w] \in {"run", "inflight"} /\ stage[w] \in 1..NStages
        /\ stage' = [stage EXCEPT ![w] = stage[w]]
        /\ UNCHANGED <<round, served, taken>>
    BY <1>0, <1>1, PrivateStep, NStagesNat DEF TypeOK
  <2>3. /\ Stages[stage[w]] = "cold" <=> stage[w] = Cold
        /\ Stages[stage[w]] = "prewarm" <=> stage[w] = NStages - 1
        /\ Stages[stage[w]] = "warm" <=> stage[w] = Warm
    BY <2>2, StageNames DEF Cold, Warm
  <2>4. CASE p = "arriving"
    BY <1>0, <2>1, <2>2, <2>3, <2>4, SameData
  <2>5. CASE p # "arriving"
    BY <1>0, <2>1, <2>2, <2>3, <2>5, SameData
  <2> QED
    BY <2>4, <2>5
<1>2. ASSUME NEW w \in Workers, Served(w) PROVE DataInv'
  BY <1>0, <1>2, DataServed
<1>3. ASSUME NEW w \in Workers, Arrive(w) PROVE DataInv'
  <2>1. /\ pc[w] = "arriving" /\ pc' = [pc EXCEPT ![w] = "waiting"]
        /\ stage' = [stage EXCEPT ![w] = stage[w]]
        /\ UNCHANGED <<round, served, taken>>
    BY <1>0, <1>3 DEF TypeOK, Arrive, At, Goto, vmVars
  <2> QED
    BY <1>0, <2>1, SameData
<1>4. ASSUME NEW w \in Workers, Release(w) \/ Wake(w) PROVE DataInv'
  <2>1. /\ pc[w] \in {"arriving", "waiting"}
        /\ \E p \in {"run", "done"} : pc' = [pc EXCEPT ![w] = p]
        /\ stage' = [stage EXCEPT ![w] = stage[w] + 1]
        /\ UNCHANGED <<round, served, taken>>
    BY <1>4 DEF Release, Wake, At, NextStage, Goto, vmVars
  <2> QED
    BY <1>0, <2>1, SameData
<1>5. ASSUME NEW w \in Workers, Environment(w) PROVE DataInv'
  BY <1>0, <1>5, DataKept DEF Environment, FcListen, Crash
<1>6. Spawn => DataInv'
  <2> SUFFICES ASSUME Spawn PROVE DataInv'
    OBVIOUS
  <2>1. PICK w \in Workers : w = k
    BY <1>0 DEF TypeOK, Spawn, Workers
  <2>2. /\ pc[w] = "idle" /\ pc' = [pc EXCEPT ![w] = "run"]
        /\ stage' = [stage EXCEPT ![w] = stage[w]]
        /\ UNCHANGED <<round, served, taken>>
    BY <1>0, <2>1 DEF TypeOK, Spawn, Goto, MainUnchanged, vmVars, SpawnInv, Workers
  <2> QED
    BY <1>0, <2>2, SameData
<1>7. ValidateAddrs \/ SpawnedAll \/ JoinAll \/ JoinError \/ Collect \/ PrintAll
        => DataInv'
  BY <1>0, DataKept DEF ValidateAddrs, SpawnedAll, JoinAll, JoinError, Collect,
     PrintAll, MainUnchanged, vmVars
<1>8. UNCHANGED vars => DataInv'
  BY <1>0, DataKept DEF vars
<1> QED
  BY <1>1, <1>2, <1>3, <1>4, <1>5, <1>6, <1>7, <1>8, NextCases

\* Once main collects, every task whose slot is filled is done for good.
LEMMA ResultTask ==
  ASSUME TypeOK, ResultInv, NEW w \in Workers, pc[w] # "done",
         main \notin Exited, NEW p, pc' = [pc EXCEPT ![w] = p],
         \A v \in Workers : v # w => taken'[v] = taken[v],
         UNCHANGED <<main, k, measurements>>
  PROVE  ResultInv'
<1>1. \A v \in 0..(k - 1) : v \in Workers
  BY DEF TypeOK, Workers
<1> QED
  BY <1>1 DEF TypeOK, ResultInv, Exited

LEMMA ResultStep == IInv /\ [Next]_vars => ResultInv'
<1> SUFFICES ASSUME IInv, [Next]_vars PROVE ResultInv'
  OBVIOUS
<1>0. TypeOK /\ SpawnInv /\ DataInv /\ ResultInv
  BY DEF IInv
<1>1. ASSUME NEW w \in Workers, Private(w) PROVE ResultInv'
  BY <1>0, <1>1, PrivateStep, ResultTask DEF mainVars
<1>2. ASSUME NEW w \in Workers, Served(w) PROVE ResultInv'
  <2>1. /\ pc[w] = "inflight"
        /\ main \notin Exited
        /\ \E p \in {"run", "arriving"} : pc' = [pc EXCEPT ![w] = p]
        /\ \A v \in Workers : v # w => taken'[v] = taken[v]
        /\ UNCHANGED <<main, k, measurements>>
    BY <1>0, <1>2, ServedStep DEF TypeOK, mainVars
  <2> QED
    BY <1>0, <2>1, ResultTask
<1>3. ASSUME NEW w \in Workers, Arrive(w) PROVE ResultInv'
  BY <1>0, <1>3, ResultTask DEF Arrive, At, Goto, mainVars
<1>4. ASSUME NEW w \in Workers, Release(w) PROVE ResultInv'
  BY <1>0, <1>4, ResultTask DEF Release, At, NextStage, Goto, mainVars
<1>5. ASSUME NEW w \in Workers, Wake(w) PROVE ResultInv'
  BY <1>0, <1>5, ResultTask DEF Wake, At, NextStage, Goto, mainVars
<1>6. ASSUME NEW w \in Workers, Environment(w) PROVE ResultInv'
  BY <1>0, <1>6 DEF ResultInv, Environment, FcListen, Crash, mainVars
<1>7. ValidateAddrs \/ Spawn \/ SpawnedAll \/ JoinError => ResultInv'
  BY <1>0 DEF ResultInv, ValidateAddrs, Spawn, SpawnedAll, JoinError
<1>8. JoinAll => ResultInv'
  BY <1>0 DEF ResultInv, SpawnInv, JoinAll
<1>9. Collect => ResultInv'
  <2> SUFFICES ASSUME Collect PROVE ResultInv'
    OBVIOUS
  <2>1. /\ k \in Nat /\ k < N /\ k \in Workers
        /\ \A v \in 0..(k - 1) : v \in Workers /\ v # k
        /\ main = "collecting"
        /\ UNCHANGED <<pc, taken>>
    BY <1>0 DEF TypeOK, Collect, MainUnchanged, Workers
  <2>2. CASE main' = "error"
    BY <2>2 DEF ResultInv
  <2>3. CASE main' # "error"
    <3>1. /\ pc[k] = "done" /\ main' = main /\ k' = k + 1
          /\ measurements' = [measurements EXCEPT ![k] = taken[k]]
      BY <2>3 DEF Collect
    <3>2. \A v \in 0..(k' - 1) : v = k \/ v \in 0..(k - 1)
      BY <2>1, <3>1
    <3> QED
      BY <1>0, <2>1, <3>1, <3>2 DEF TypeOK, ResultInv
  <2> QED
    BY <2>2, <2>3
<1>10. PrintAll => ResultInv'
  BY <1>0 DEF ResultInv, PrintAll, MainUnchanged
<1>11. UNCHANGED vars => ResultInv'
  BY <1>0 DEF ResultInv, vars
<1> QED
  BY <1>1, <1>2, <1>3, <1>4, <1>5, <1>6, <1>7, <1>8, <1>9, <1>10, <1>11,
     NextCases

\* Once main collects, or has exited, no task moves any more.
LEMMA FateTask ==
  ASSUME FailTogether, SlotsInv, main \notin Exited,
         NEW w \in Workers, pc[w] \notin {"done", "failed"},
         UNCHANGED <<main, k, measurements>>
  PROVE  FailTogether' /\ SlotsInv'
<1>1. main # "collecting"
  BY DEF FailTogether, AllDone, AllFailed
<1> QED
  BY <1>1 DEF FailTogether, SlotsInv, NoneFilled, Exited

\* Tasks that have all returned have all returned from the same stage: one that
\* is a stage behind waits at the barrier.
LEMMA SameStage ==
  ASSUME TypeOK, StageInv, \A w \in Workers : pc[w] \in {"done", "failed"}
  PROVE  AllDone \/ AllFailed
<1>1. \A w \in Workers : stage[w] = generation + 1
  BY DEF StageInv, Released
<1>2. \A w \in Workers : pc[w] = "done" <=> generation + 1 = NStages + 1
  BY <1>1 DEF StageInv
<1> QED
  BY <1>1, <1>2 DEF AllDone, AllFailed

LEMMA FateStep == IInv /\ [Next]_vars => FailTogether' /\ SlotsInv'
<1> SUFFICES ASSUME IInv, [Next]_vars PROVE FailTogether' /\ SlotsInv'
  OBVIOUS
<1>0. /\ TypeOK /\ SpawnInv /\ StageInv /\ DataInv /\ ResultInv
      /\ FailTogether /\ SlotsInv
  BY DEF IInv
<1>1. ASSUME NEW w \in Workers, Private(w) PROVE FailTogether' /\ SlotsInv'
  BY <1>0, <1>1, PrivateStep, FateTask DEF mainVars
<1>2. ASSUME NEW w \in Workers, Served(w) PROVE FailTogether' /\ SlotsInv'
  BY <1>0, <1>2, FateTask DEF Served, At, mainVars
<1>3. ASSUME NEW w \in Workers, Arrive(w) PROVE FailTogether' /\ SlotsInv'
  BY <1>0, <1>3, FateTask DEF Arrive, At, mainVars
<1>4. ASSUME NEW w \in Workers, Release(w) \/ Wake(w)
      PROVE  FailTogether' /\ SlotsInv'
  BY <1>0, <1>4, FateTask DEF Release, Wake, At, mainVars
<1>5. ASSUME NEW w \in Workers, Environment(w) PROVE FailTogether' /\ SlotsInv'
  BY <1>0, <1>5 DEF Environment, FcListen, Crash, mainVars, FailTogether, SlotsInv,
     AllDone, AllFailed, NoneFilled
<1>6. ValidateAddrs => FailTogether' /\ SlotsInv'
  BY <1>0 DEF ValidateAddrs, MainUnchanged, SpawnInv, FailTogether, SlotsInv,
     NoneFilled, Workers
<1>7. Spawn \/ SpawnedAll => FailTogether' /\ SlotsInv'
  BY <1>0 DEF Spawn, SpawnedAll, FailTogether, SlotsInv, NoneFilled
<1>8. JoinAll => FailTogether' /\ SlotsInv'
  <2> SUFFICES ASSUME JoinAll PROVE FailTogether' /\ SlotsInv'
    OBVIOUS
  <2>1. AllDone \/ AllFailed
    BY <1>0, SameStage DEF JoinAll
  <2>2. k = 0 /\ NoneFilled
    BY <1>0 DEF JoinAll, SpawnInv, SlotsInv
  <2> QED
    BY <2>1, <2>2 DEF JoinAll, MainUnchanged, FailTogether, SlotsInv, AllDone,
       AllFailed, NoneFilled, Workers
<1>9. JoinError => FailTogether' /\ SlotsInv'
  BY <1>0 DEF JoinError, FailTogether, SlotsInv, NoneFilled
<1>10. Collect => FailTogether' /\ SlotsInv'
  <2> SUFFICES ASSUME Collect PROVE FailTogether' /\ SlotsInv'
    OBVIOUS
  <2>1. /\ main = "collecting" /\ k \in Nat /\ k < N /\ k \in Workers
        /\ UNCHANGED <<pc, stage>>
        /\ AllDone \/ AllFailed
    BY <1>0 DEF TypeOK, Collect, MainUnchanged, Workers, FailTogether
  <2>2. CASE pc[k] = "failed"
    <3>1. AllFailed /\ main' = "error" /\ UNCHANGED measurements
      BY <2>1, <2>2 DEF Collect, AllDone
    <3>2. ~ 0 < k
      <4> SUFFICES ASSUME 0 < k PROVE FALSE
        OBVIOUS
      <4>1. 0 \in 0..(k - 1) /\ 0 \in Workers
        BY <2>1 DEF Workers
      <4> QED
        BY <1>0, <2>1, <3>1, <4>1 DEF ResultInv, AllFailed
    <3>3. NoneFilled
      BY <1>0, <2>1, <3>2 DEF SlotsInv, NoneFilled, Workers
    <3> QED
      BY <2>1, <3>1, <3>3 DEF FailTogether, SlotsInv, AllFailed, NoneFilled
  <2>3. CASE pc[k] = "done"
    <3>1. /\ main' = main /\ k' = k + 1
          /\ measurements' = [measurements EXCEPT ![k] = taken[k]]
      BY <2>3 DEF Collect
    <3>2. \A w \in k'..(N - 1) : w \in k..(N - 1) /\ w # k
      BY <2>1, <3>1
    <3>3. \A w \in k'..(N - 1) : measurements'[w] = NoMeasurement
      BY <1>0, <2>1, <3>1, <3>2 DEF TypeOK, SlotsInv
    <3> QED
      BY <2>1, <3>1, <3>3 DEF FailTogether, SlotsInv, AllDone, AllFailed
  <2> QED
    BY <2>2, <2>3 DEF Collect
<1>11. PrintAll => FailTogether' /\ SlotsInv'
  BY DEF PrintAll, FailTogether, SlotsInv
<1>12. UNCHANGED vars => FailTogether' /\ SlotsInv'
  BY <1>0 DEF vars, FailTogether, SlotsInv, AllDone, AllFailed, NoneFilled
<1> QED
  BY <1>1, <1>2, <1>3, <1>4, <1>5, <1>6, <1>7, <1>8, <1>9, <1>10, <1>11, <1>12,
     NextCases

-----------------------------------------------------------------------------
\* The inductive invariant holds, and with it the types.
THEOREM Invariant == Spec => []IInv
<1>1. IInv /\ [Next]_vars => IInv'
  BY TypeStep, SpawnStep, BarrierStep, DataStep, ResultStep, FateStep DEF IInv
<1> QED
  BY InitIInv, <1>1, PTL DEF Spec

THEOREM TypeCorrect == Spec => []TypeOK
<1>1. IInv => TypeOK
  BY DEF IInv
<1> QED
  BY Invariant, <1>1, PTL

\* A run that fails prints nothing and has nothing collected: short of a panic or
\* a bad address, all its tasks failed, in one stage.
THEOREM Together == Spec => []FailTogether
<1>1. IInv => FailTogether
  BY DEF IInv
<1> QED
  BY Invariant, <1>1, PTL

\* No request in flight ever overlaps one of another stage, whatever fails.
THEOREM Isolation == Spec => []PhaseIsolation
<1>1. IInv => PhaseIsolation
  <2> SUFFICES ASSUME IInv, NEW v \in Workers, NEW w \in Workers,
                      pc[w] = "inflight"
               PROVE  /\ stage[v] <= stage[w]
                      /\ stage[v] < stage[w] => pc[v] = "waiting"
    BY DEF PhaseIsolation
  <2>1. generation \in Nat
    BY NStagesNat DEF IInv, TypeOK
  <2>2. stage[w] = generation + 1
    BY DEF IInv, StageInv, Released
  <2>3. /\ stage[v] \in {generation, generation + 1}
        /\ stage[v] = generation => Released(v)
    BY <2>1 DEF IInv, StageInv
  <2> QED
    BY <2>1, <2>2, <2>3 DEF Released
<1> QED
  BY Invariant, <1>1, PTL

\* When main returns Ok it has printed, for every MicroVM, what was measured on
\* it: the first request it served and the last one.
THEOREM Printed == Spec => []PrintedRight
<1>1. IInv => PrintedRight
  <2> SUFFICES ASSUME IInv, main = "ok", NEW w \in Workers
               PROVE  /\ measurements[w] =
                           [uvm |-> w, cold |-> 1, warm |-> PreWarm + 2]
                      /\ served[w] = PreWarm + 2
    BY DEF PrintedRight
  <2>1. pc[w] = "done" /\ measurements[w] = taken[w]
    BY DEF IInv, ResultInv, Workers
  <2>2. stage[w] = NStages + 1
    BY <2>1 DEF IInv, StageInv
  <2>3. /\ Finished(w, Cold) /\ Finished(w, NStages - 1) /\ Finished(w, Warm)
        /\ DataOf(w)
    BY <2>2, NStagesNat DEF IInv, DataInv, Finished, Cold, Warm
  <2>4. /\ taken[w].uvm = w /\ taken[w].cold = 1 /\ taken[w].warm = PreWarm + 2
        /\ served[w] = PreWarm + 2
    BY <2>3 DEF DataOf, One
  <2>5. taken[w] \in Measurement
    BY DEF IInv, TypeOK
  <2> QED
    BY <2>1, <2>4, <2>5 DEF Measurement
<1> QED
  BY Invariant, <1>1, PTL

-----------------------------------------------------------------------------
(* The tasks implement the rounds: a released or woken task proceeds, the   *)
(* end of its part of a stage finishes the round, a failure drops out.      *)
LEMMA SameStanding ==
  ASSUME TypeOK, NEW w \in Workers, NEW p, pc' = [pc EXCEPT ![w] = p],
         stage' = stage,
         Standing(w)' = Standing(w)
  PROVE  UNCHANGED LS!lsVars
<1>1. ASSUME NEW v \in Workers PROVE Standing(v)' = Standing(v)
  <2>1. CASE v = w
    BY <2>1
  <2>2. CASE v # w
    BY <2>2 DEF TypeOK, Standing
  <2> QED
    BY <2>1, <2>2
<1> QED
  BY <1>1 DEF LS!lsVars

LEMMA NewStanding ==
  ASSUME TypeOK, NEW w \in Workers, NEW p, pc' = [pc EXCEPT ![w] = p]
  PROVE  [v \in Workers |-> Standing(v)]' =
           [[v \in Workers |-> Standing(v)] EXCEPT ![w] = Standing(w)']
<1>1. ASSUME NEW v \in Workers, v # w PROVE Standing(v)' = Standing(v)
  BY <1>1 DEF TypeOK, Standing
<1> QED
  BY <1>1

LEMMA RefinementStep == IInv /\ [Next]_vars => [LS!LSNext]_LS!lsVars
<1> SUFFICES ASSUME IInv, [Next]_vars PROVE LS!LSNext \/ UNCHANGED LS!lsVars
  OBVIOUS
<1> DEFINE Step == LS!LSNext \/ UNCHANGED LS!lsVars
<1>0. TypeOK /\ SpawnInv /\ BarrierCount /\ StageInv /\ DataInv
  BY DEF IInv
<1>1. ASSUME NEW w \in Workers, Private(w) PROVE Step
  <2>1. /\ pc[w] \in {"run", "inflight"} /\ stage[w] <= NStages /\ stage' = stage
        /\ \E p \in {"arriving", "inflight", "failed", "panicked"} :
             pc' = [pc EXCEPT ![w] = p]
    BY <1>0, <1>1, PrivateStep
  <2>2. Standing(w) = "busy"
    BY <2>1 DEF Standing, Gone
  <2>3. CASE pc' = [pc EXCEPT ![w] = "arriving"]
    <3>1. Standing(w)' = "finished"
      BY <1>0, <2>3 DEF TypeOK, Standing
    <3>2. LS!Finish(w)
      BY <1>0, <2>1, <2>2, <2>3, <3>1, NewStanding DEF LS!Finish
    <3> QED
      BY <3>2 DEF LS!LSNext
  <2>4. CASE pc' = [pc EXCEPT ![w] = "inflight"]
    <3>1. Standing(w)' = "busy"
      BY <1>0, <2>4 DEF TypeOK, Standing, Gone
    <3> QED
      BY <1>0, <2>1, <2>2, <2>4, <3>1, SameStanding
  <2>5. CASE \E p \in Gone : pc' = [pc EXCEPT ![w] = p]
    <3>1. Standing(w)' = "out"
      BY <1>0, <2>5 DEF TypeOK, Standing, Gone
    <3>2. LS!Drop(w)
      BY <1>0, <2>1, <2>2, <2>5, <3>1, NewStanding DEF LS!Drop
    <3> QED
      BY <3>2 DEF LS!LSNext
  <2> QED
    BY <2>1, <2>3, <2>4, <2>5 DEF Gone
<1>2. ASSUME NEW w \in Workers, Served(w) PROVE Step
  <2>1. /\ pc[w] = "inflight" /\ stage[w] <= NStages /\ stage' = stage
        /\ \E p \in {"run", "arriving"} : pc' = [pc EXCEPT ![w] = p]
    BY <1>0, <1>2, ServedStep DEF Served, At
  <2>2. Standing(w) = "busy"
    BY <2>1 DEF Standing, Gone
  <2>3. CASE pc' = [pc EXCEPT ![w] = "arriving"]
    <3>1. Standing(w)' = "finished"
      BY <1>0, <2>3 DEF TypeOK, Standing
    <3>2. LS!Finish(w)
      BY <1>0, <2>1, <2>2, <2>3, <3>1, NewStanding DEF LS!Finish
    <3> QED
      BY <3>2 DEF LS!LSNext
  <2>4. CASE pc' = [pc EXCEPT ![w] = "run"]
    <3>1. Standing(w)' = "busy"
      BY <1>0, <2>4 DEF TypeOK, Standing, Gone
    <3> QED
      BY <1>0, <2>1, <2>2, <2>4, <3>1, SameStanding
  <2> QED
    BY <2>1, <2>3, <2>4
<1>3. ASSUME NEW w \in Workers, Arrive(w) PROVE Step
  <2>1. /\ pc[w] = "arriving" /\ pc' = [pc EXCEPT ![w] = "waiting"]
        /\ stage' = stage
    BY <1>3 DEF Arrive, At, Goto
  <2>2. Standing(w)' = Standing(w)
    BY <1>0, <2>1 DEF TypeOK, Standing
  <2> QED
    BY <1>0, <2>1, <2>2, SameStanding
<1>4. ASSUME NEW w \in Workers, Release(w) \/ Wake(w) PROVE Step
  <2>1. /\ pc[w] \in {"arriving", "waiting"}
        /\ stage[w] <= NStages
        /\ stage' = [stage EXCEPT ![w] = stage[w] + 1]
        /\ \E p \in {"run", "done"} : pc' = [pc EXCEPT ![w] = p]
    BY <1>4 DEF Release, Wake, At, NextStage, Goto
  <2>2. ASSUME NEW q \in Workers
        PROVE  \/ stage[q] > stage[w]
               \/ stage[q] = stage[w] /\ Standing(q) = "finished"
    <3>1. generation \in Nat
      BY <1>0 DEF TypeOK
    <3>2. CASE Release(w)
      <4>1. pc[w] = "arriving" /\ arrived + 1 = N
        BY <3>2 DEF Release, At
      <4>2. \A v \in Workers \ {w} : pc[v] = "waiting" /\ seen[v] = generation
        BY <1>0, <4>1, LastArrival
      <4> QED
        BY <1>0, <3>1, <4>1, <4>2 DEF StageInv, Released, Standing
    <3>3. CASE Wake(w)
      <4>1. Released(w)
        BY <3>3 DEF Wake, At, Released
      <4> QED
        BY <1>0, <3>1, <4>1 DEF StageInv, Released, Standing
    <3> QED
      BY <1>4, <3>2, <3>3
  <2>3. LS!Cleared(w)
    BY <2>2 DEF LS!Cleared
  <2>4. Standing(w)' = "busy"
    BY <1>0, <2>1 DEF TypeOK, Standing, Gone
  <2>5. LS!Proceed(w)
    BY <1>0, <2>1, <2>3, <2>4, NewStanding DEF LS!Proceed
  <2> QED
    BY <2>5 DEF LS!LSNext
<1>5. ASSUME NEW w \in Workers, Environment(w) PROVE Step
  BY <1>5 DEF Environment, FcListen, Crash, LS!lsVars, Standing
<1>6. Spawn => Step
  <2> SUFFICES ASSUME Spawn PROVE Step
    OBVIOUS
  <2>1. PICK w \in Workers : w = k
    BY <1>0 DEF TypeOK, Spawn, Workers
  <2>2. /\ pc[w] = "idle" /\ pc' = [pc EXCEPT ![w] = "run"]
        /\ stage' = stage
    BY <1>0, <2>1 DEF TypeOK, Spawn, Goto, MainUnchanged, SpawnInv, Workers
  <2>3. Standing(w)' = Standing(w)
    BY <1>0, <2>2 DEF TypeOK, Standing, Gone
  <2> QED
    BY <1>0, <2>2, <2>3, SameStanding
<1>7. ValidateAddrs \/ SpawnedAll \/ JoinAll \/ JoinError \/ Collect \/ PrintAll
        => Step
  BY DEF ValidateAddrs, SpawnedAll, JoinAll, JoinError, Collect, PrintAll,
     MainUnchanged, LS!lsVars, Standing
<1>8. UNCHANGED vars => Step
  BY DEF vars, LS!lsVars, Standing
<1> QED
  <2> HIDE DEF Step
  <2>1. Step
    BY <1>1, <1>2, <1>3, <1>4, <1>5, <1>6, <1>7, <1>8, NextCases
  <2> QED
    BY <2>1 DEF Step

\* fbpml-multiclient keeps its MicroVMs in lock step, whatever their number.
THEOREM Refinement == Spec => RefinesLockStep
<1>1. Init => LS!LSInit
  BY NStagesNat DEF Init, LS!LSInit, Standing, Gone
<1> QED
  BY Invariant, <1>1, RefinementStep, PTL DEF Spec, RefinesLockStep, LS!LSSpec
=============================================================================
