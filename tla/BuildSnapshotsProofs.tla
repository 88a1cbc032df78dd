------------------------- MODULE BuildSnapshotsProofs -------------------------
(***************************************************************************)
(* BuildSnapshots for every number of MicroVMs, of attempts and of         *)
(* invocations: success means good snapshots and no Firecracker, and an    *)
(* invocation is a build of SnapshotBuild.                                 *)
(***************************************************************************)
EXTENDS BuildSnapshots, TLAPS

States == Alive \cup {"none", "dead"}
Parts == MainInv /\ TaskInv /\ FcInv /\ ("leave" \notin Faults => GuestInv)

\* The invariant holds at the start.
LEMMA InitInv == Init => IInv
<1> SUFFICES ASSUME Init PROVE IInv
  OBVIOUS
<1>1. 0 \in 0..MaxInvocations /\ 1 \in Invocations /\ 0 \in 0..Retries
  BY MaxInvocationsAssumption, RetriesAssumption DEF Invocations
<1>2. TypeOK
  BY <1>1 DEF Init, TypeOK, NoSnap
<1>3. MainInv /\ TaskInv /\ FcInv
  BY <1>1 DEF Init, MainInv, TaskInv, FcInv, Unspawned, Spawned, Snapped, WithTap
<1>4. GuestInv
  BY DEF Init, GuestInv, Spawned, Snapped
<1>5. QED
  BY <1>2, <1>3, <1>4 DEF IInv

\* One Firecracker changes its state.
LEMMA FcMoves ==
  ASSUME TypeOK, NEW i \in Invocations, NEW w \in Ids, NEW s \in States,
         fc' = [fc EXCEPT ![i][w] = s]
  PROVE  /\ fc' \in [Invocations -> [Ids -> States]]
         /\ \A j \in Invocations, v \in Ids :
              fc'[j][v] = IF j = i /\ v = w THEN s ELSE fc[j][v]
BY DEF TypeOK, States

\* What is bound to a socket or a tap interface is an invocation's, or nobody.
LEMMA Owners ==
  ASSUME TypeOK, NEW w \in Ids
  PROVE  /\ sock[w] # 0 => sock[w] \in Invocations
         /\ tap[w] # 0 => tap[w] \in Invocations
         /\ invocation \in Invocations
         /\ invocation \in 0..MaxInvocations /\ 0 \in 0..MaxInvocations
         /\ 0 \notin Invocations
<1>1. /\ sock[w] \in 0..MaxInvocations /\ tap[w] \in 0..MaxInvocations
      /\ invocation \in Invocations
  BY DEF TypeOK
<1>2. QED
  BY <1>1, MaxInvocationsAssumption DEF Invocations

(***************************************************************************)
(* The task of one MicroVM moves on and leaves the Firecrackers alone.     *)
(***************************************************************************)
\* It fails: whatever it had started stays as it is.
LEMMA FailMove ==
  ASSUME IInv, NEW w \in Ids, main = "running", NEW p \in {"failed", "panicked"},
         pc' = [pc EXCEPT ![w] = p], UNCHANGED <<invocation, main, fcVars>>,
         \A v \in Ids \ {w} : retries'[v] = retries[v] /\ snap'[v] = snap[v]
  PROVE  Parts'
<1>1. \A v \in Ids : pc'[v] = IF v = w THEN p ELSE pc[v]
  BY DEF IInv, TypeOK
<1>2. MainInv'
  BY <1>1 DEF IInv, MainInv
<1>3. TaskInv'
  BY <1>1 DEF IInv, TaskInv, fcVars, Unspawned, Spawned, Snapped
<1>4. FcInv'
  BY DEF IInv, FcInv, fcVars
<1>5. "leave" \notin Faults => GuestInv'
  BY <1>1 DEF IInv, GuestInv, fcVars, Spawned, Snapped
<1>6. QED
  BY <1>2, <1>3, <1>4, <1>5 DEF Parts

\* It goes on, before the spawn or from one wait_port attempt to the next.
LEMMA QuietMove ==
  ASSUME IInv, NEW w \in Ids, main = "running", NEW p,
         \/ pc[w] \in Unspawned /\ p \in Unspawned
         \/ pc[w] \in {"poll", "repoll"} /\ p = pc[w] /\ retries'[w] > 0
         \/ pc[w] = "repoll" /\ p = "kill"
         \/ pc[w] = "poll" /\ p = "pause" /\ Responsive(w),
         pc' = [pc EXCEPT ![w] = p], UNCHANGED <<invocation, main, fc, tap, snap>>,
         UNCHANGED sock \/ (pc[w] \in Unspawned /\ sock' = [sock EXCEPT ![w] = 0]),
         \A v \in Ids \ {w} : retries'[v] = retries[v]
  PROVE  Parts'
<1>1. \A v \in Ids : pc'[v] = IF v = w THEN p ELSE pc[v]
  BY DEF IInv, TypeOK
<1>2. \A v \in Ids : sock'[v] = sock[v] \/ (v = w /\ pc[w] \in Unspawned)
  BY DEF IInv, TypeOK
<1>3. MainInv'
  BY <1>1 DEF IInv, MainInv
<1>4. TaskInv'
  BY <1>1 DEF IInv, TaskInv, Unspawned, Spawned, Snapped
<1>5. FcInv'
  BY DEF IInv, FcInv
<1>6. ASSUME "leave" \notin Faults PROVE GuestInv'
  <2> SUFFICES ASSUME NEW v \in Ids
               PROVE  /\ pc'[v] \in Spawned /\ fc[invocation][v] \in WithTap \cup {"bound"} =>
                           sock'[v] = invocation
                      /\ pc'[v] = "pause" =>
                           \/ tap[v] \notin {0, invocation} /\ fc[tap[v]][v] = "serving"
                           \/ /\ sock'[v] = invocation
                              /\ fc[invocation][v] \in {"serving", "dead"}
                      /\ pc'[v] = "snapshot" =>
                           sock'[v] # 0 /\ fc[sock'[v]][v] \in {"paused", "dead"}
                      /\ pc'[v] \in Snapped =>
                           snap[v] = [by |-> invocation, guest |-> "served"]
    BY DEF GuestInv
  <2>1. CASE v # w
    BY <1>1, <1>2, <1>6, <2>1 DEF IInv, GuestInv
  <2>2. CASE v = w
    <3>1. CASE p \in Unspawned
      BY <1>1, <2>2, <3>1 DEF Unspawned, Spawned, Snapped
    <3>2. CASE pc[w] \in {"poll", "repoll"} /\ p = pc[w]
      BY <1>1, <1>2, <1>6, <2>2, <3>2 DEF IInv, GuestInv, Unspawned, Spawned, Snapped
    <3>3. CASE pc[w] = "repoll" /\ p = "kill"
      BY <1>1, <1>2, <1>6, <2>2, <3>3 DEF IInv, GuestInv, Unspawned, Spawned, Snapped
    <3>4. CASE pc[w] = "poll" /\ p = "pause" /\ Responsive(w)
      <4>1. tap[w] = invocation => sock[w] = invocation
        BY <1>6, <3>4 DEF IInv, GuestInv, Responsive, WithTap, Spawned
      <4>2. sock'[w] = sock[w]
        BY <1>2, <3>4 DEF Unspawned
      <4>3. QED
        BY <1>1, <1>6, <2>2, <3>4, <4>1, <4>2
           DEF IInv, GuestInv, Responsive, Spawned, Snapped
    <3>5. QED
      BY <3>1, <3>2, <3>3, <3>4
  <2>3. QED
    BY <2>1, <2>2
<1>7. QED
  BY <1>3, <1>4, <1>5, <1>6 DEF Parts

(***************************************************************************)
(* The steps of a task that change a Firecracker or a snapshot.            *)
(***************************************************************************)
\* A Firecracker that is spawned is new to this invocation.
LEMMA SpawnMove ==
  ASSUME IInv, NEW w \in Ids, At(w, "spawn"), Goto(w, "poll"),
         fc' = [fc EXCEPT ![invocation][w] = "starting"],
         retries' = [retries EXCEPT ![w] = Retries],
         UNCHANGED <<invocation, main, config, snap, tap, sock>>
  PROVE  Parts'
<1>1. \A v \in Ids : pc'[v] = IF v = w THEN "poll" ELSE pc[v]
  BY DEF IInv, TypeOK, Goto
<1>2. \A j \in Invocations, v \in Ids :
        fc'[j][v] = IF j = invocation /\ v = w THEN "starting" ELSE fc[j][v]
  BY FcMoves, Owners DEF IInv, States, Alive
<1>3. \A v \in Ids : retries'[v] = IF v = w THEN Retries ELSE retries[v]
  BY DEF IInv, TypeOK
<1>4. invocation \in Invocations /\ ~(invocation > invocation)
  BY DEF IInv, TypeOK, Invocations
<1>5. MainInv'
  BY <1>1 DEF IInv, MainInv, At
<1>6. TaskInv'
  BY <1>1, <1>2, <1>3, <1>4, RetriesAssumption
     DEF IInv, TaskInv, At, Unspawned, Spawned, Snapped
<1>7. FcInv'
  BY <1>2, <1>4 DEF IInv, FcInv, WithTap
<1>8. ASSUME "leave" \notin Faults PROVE GuestInv'
  <2>1. \A v \in Ids : tap[v] \notin {0, invocation} => fc'[tap[v]][v] = fc[tap[v]][v]
    BY <1>2, Owners DEF IInv
  <2>2. \A v \in Ids : sock[v] # 0 /\ v # w => fc'[sock[v]][v] = fc[sock[v]][v]
    BY <1>2, Owners DEF IInv
  <2>3. QED
    BY <1>1, <1>2, <1>4, <1>8, <2>1, <2>2
       DEF IInv, GuestInv, At, Spawned, Snapped, WithTap
<1>9. QED
  BY <1>5, <1>6, <1>7, <1>8 DEF Parts

\* A guest behind a socket that is asked to pause is the one that has answered.
LEMMA PauseMove ==
  ASSUME IInv, NEW w \in Ids, At(w, "pause"), Answered(w, Pausing, "snapshot"),
         UNCHANGED <<retries, snap>>
  PROVE  Parts'
<1> DEFINE i == sock[w]
           s == Pausing[fc[i][w]]
<1>1. i \in Invocations /\ i # 0 /\ fc[i][w] \in {"booting", "serving"}
  BY Owners DEF IInv, Answered, Pausing
<1>2. s = IF fc[i][w] = "serving" THEN "paused" ELSE "pausedEarly"
  BY <1>1 DEF Pausing
<1>3. fc' = [fc EXCEPT ![i][w] = s] /\ Goto(w, "snapshot")
      /\ UNCHANGED <<invocation, main, config, tap, sock>>
  BY DEF Answered, IInv, TypeOK
<1> HIDE DEF i, s
<1>4. \A v \in Ids : pc'[v] = IF v = w THEN "snapshot" ELSE pc[v]
  BY <1>3 DEF IInv, TypeOK, Goto
<1>5. \A j \in Invocations, v \in Ids : fc'[j][v] = IF j = i /\ v = w THEN s ELSE fc[j][v]
  BY <1>1, <1>2, <1>3, FcMoves DEF IInv, States, Alive
<1>6. MainInv'
  BY <1>3, <1>4 DEF IInv, MainInv, At
<1>7. TaskInv'
  BY <1>1, <1>2, <1>3, <1>4, <1>5, Owners
     DEF IInv, TaskInv, At, Unspawned, Spawned, Snapped
<1>8. FcInv'
  BY <1>1, <1>2, <1>3, <1>5 DEF IInv, FcInv, WithTap
<1>9. ASSUME "leave" \notin Faults PROVE GuestInv'
  <2>1. tap[w] = i
    BY <1>1 DEF IInv, FcInv, WithTap
  <2>2. fc[i][w] = "serving"
    BY <1>1, <1>9, <2>1 DEF IInv, GuestInv, At, i
  <2>3. \A v \in Ids : tap[v] \notin {0, invocation} /\ v # w =>
          fc'[tap[v]][v] = fc[tap[v]][v]
    BY <1>5, Owners DEF IInv
  <2>4. \A v \in Ids : sock[v] # 0 /\ v # w => fc'[sock[v]][v] = fc[sock[v]][v]
    BY <1>5, Owners DEF IInv
  <2>5. fc'[sock[w]][w] = "paused"
    BY <1>1, <1>2, <1>5, <2>2 DEF i
  <2>6. fc'[invocation][w] \in WithTap \cup {"bound"} => sock[w] = invocation
    BY <1>2, <1>5, <1>9, Owners DEF IInv, GuestInv, At, Spawned, i
  <2>7. QED
    BY <1>1, <1>3, <1>4, <1>5, <1>9, <2>3, <2>4, <2>5, <2>6, Owners
       DEF IInv, GuestInv, At, Spawned, Snapped, i
<1>10. QED
  BY <1>6, <1>7, <1>8, <1>9 DEF Parts

\* The snapshot is of a paused guest, which had answered before.
LEMMA SnapshotMove ==
  ASSUME IInv, NEW w \in Ids, At(w, "snapshot"), Answered(w, Snapshotting, "resume"),
         NEW guest, guest = IF fc[sock[w]][w] = "paused" THEN "served" ELSE "unserved",
         snap' = [snap EXCEPT ![w] = [by |-> invocation, guest |-> guest]],
         UNCHANGED retries
  PROVE  Parts'
<1>1. sock[w] \in Invocations /\ fc[sock[w]][w] \in {"pausedEarly", "paused"}
  BY Owners DEF IInv, Answered, Snapshotting
<1>2. Snapshotting[fc[sock[w]][w]] = fc[sock[w]][w]
  BY <1>1 DEF Snapshotting
<1>3. fc' = fc /\ Goto(w, "resume") /\ UNCHANGED <<invocation, main, config, tap, sock>>
  BY <1>1, <1>2 DEF Answered, IInv, TypeOK
<1>4. \A v \in Ids : pc'[v] = IF v = w THEN "resume" ELSE pc[v]
  BY <1>3 DEF IInv, TypeOK, Goto
<1>5. \A v \in Ids :
        snap'[v] = IF v = w THEN [by |-> invocation, guest |-> guest] ELSE snap[v]
  BY DEF IInv, TypeOK
<1>6. MainInv'
  BY <1>3, <1>4 DEF IInv, MainInv, At
<1>7. TaskInv'
  BY <1>3, <1>4, <1>5 DEF IInv, TaskInv, At, Unspawned, Spawned, Snapped
<1>8. FcInv'
  BY <1>3 DEF IInv, FcInv
<1>9. ASSUME "leave" \notin Faults PROVE GuestInv'
  <2>1. guest = "served"
    BY <1>1, <1>9 DEF IInv, GuestInv, At
  <2>2. QED
    BY <1>3, <1>4, <1>5, <1>9, <2>1 DEF IInv, GuestInv, At, Spawned, Snapped
<1>10. QED
  BY <1>6, <1>7, <1>8, <1>9 DEF Parts

\* Resuming it concerns nobody else's guest.
LEMMA ResumeMove ==
  ASSUME IInv, NEW w \in Ids, At(w, "resume"), Answered(w, Resuming, "repoll"),
         retries' = [retries EXCEPT ![w] = Retries], UNCHANGED snap
  PROVE  Parts'
<1> DEFINE i == sock[w]
           s == Resuming[fc[i][w]]
<1>1. i \in Invocations /\ i # 0 /\ fc[i][w] \in {"pausedEarly", "paused"}
  BY Owners DEF IInv, Answered, Resuming
<1>2. s \in {"booting", "serving"}
  BY <1>1 DEF Resuming
<1>3. fc' = [fc EXCEPT ![i][w] = s] /\ Goto(w, "repoll")
      /\ UNCHANGED <<invocation, main, config, tap, sock>>
  BY DEF Answered, IInv, TypeOK
<1> HIDE DEF i, s
<1>4. \A v \in Ids : pc'[v] = IF v = w THEN "repoll" ELSE pc[v]
  BY <1>3 DEF IInv, TypeOK, Goto
<1>5. \A j \in Invocations, v \in Ids : fc'[j][v] = IF j = i /\ v = w THEN s ELSE fc[j][v]
  BY <1>1, <1>2, <1>3, FcMoves DEF IInv, States, Alive
<1>6. \A v \in Ids : retries'[v] = IF v = w THEN Retries ELSE retries[v]
  BY DEF IInv, TypeOK
<1>7. MainInv'
  BY <1>3, <1>4 DEF IInv, MainInv, At
<1>8. TaskInv'
  BY <1>1, <1>2, <1>3, <1>4, <1>5, <1>6, RetriesAssumption, Owners
     DEF IInv, TaskInv, At, Unspawned, Spawned, Snapped
<1>9. FcInv'
  BY <1>1, <1>2, <1>3, <1>5 DEF IInv, FcInv, WithTap
<1>10. ASSUME "leave" \notin Faults PROVE GuestInv'
  <2>1. \A v \in Ids : tap[v] \notin {0, invocation} /\ v # w =>
          fc'[tap[v]][v] = fc[tap[v]][v]
    BY <1>5, Owners DEF IInv
  <2>2. \A v \in Ids : sock[v] # 0 /\ v # w => fc'[sock[v]][v] = fc[sock[v]][v]
    BY <1>5, Owners DEF IInv
  <2>3. fc'[invocation][w] \in WithTap \cup {"bound"} => sock[w] = invocation
    BY <1>2, <1>5, <1>10, Owners DEF IInv, GuestInv, At, Spawned, Snapped, i
  <2>4. QED
    BY <1>3, <1>4, <1>5, <1>10, <2>1, <2>2, <2>3, Owners
       DEF IInv, GuestInv, At, Spawned, Snapped
<1>11. QED
  BY <1>7, <1>8, <1>9, <1>10 DEF Parts

\* The Firecracker of this invocation ends at the latest here.
LEMMA KillMove ==
  ASSUME IInv, NEW w \in Ids, KillFc(w)
  PROVE  Parts'
<1>1. \A v \in Ids : pc'[v] = IF v = w THEN "tidy" ELSE pc[v]
  BY DEF IInv, TypeOK, KillFc, Goto
<1>2. \A j \in Invocations, v \in Ids :
        fc'[j][v] = IF j = invocation /\ v = w THEN "dead" ELSE fc[j][v]
  BY FcMoves, Owners DEF IInv, States, Alive, KillFc
<1>3. \A v \in Ids : tap'[v] = IF v = w /\ tap[v] = invocation THEN 0 ELSE tap[v]
  BY DEF IInv, TypeOK, KillFc
<1>4. At(w, "kill") /\ UNCHANGED <<invocation, main, retries, config, snap, sock>>
  BY DEF KillFc
<1>5. invocation \in Invocations /\ ~(invocation > invocation)
  BY DEF IInv, TypeOK, Invocations
<1>6. MainInv'
  BY <1>1, <1>4 DEF IInv, MainInv, At
<1>7. TaskInv'
  BY <1>1, <1>2, <1>4, <1>5 DEF IInv, TaskInv, At, Unspawned, Spawned, Snapped
<1>8. FcInv'
  BY <1>2, <1>3, <1>4, <1>5 DEF IInv, FcInv, WithTap
<1>9. ASSUME "leave" \notin Faults PROVE GuestInv'
  <2>1. \A v \in Ids : tap[v] \notin {0, invocation} => fc'[tap[v]][v] = fc[tap[v]][v]
    BY <1>2, Owners DEF IInv
  <2>2. \A v \in Ids : sock[v] # 0 /\ v # w => fc'[sock[v]][v] = fc[sock[v]][v]
    BY <1>2, Owners DEF IInv
  <2>3. QED
    BY <1>1, <1>2, <1>3, <1>4, <1>5, <1>9, <2>1, <2>2
       DEF IInv, GuestInv, At, Spawned, Snapped, WithTap
<1>10. QED
  BY <1>6, <1>7, <1>8, <1>9 DEF Parts

\* Whether or not the socket is found, what counts has been done.
LEMMA TidyMove ==
  ASSUME IInv, NEW w \in Ids, Tidy(w)
  PROVE  Parts'
<1>1. PICK p \in {"done", "failed"} :
        \A v \in Ids : pc'[v] = IF v = w THEN p ELSE pc[v]
  BY DEF IInv, TypeOK, Tidy, Goto
<1>2. \A v \in Ids \ {w} : sock'[v] = sock[v]
  BY DEF IInv, TypeOK, Tidy
<1>3. At(w, "tidy") /\ UNCHANGED <<invocation, main, retries, snap, fc, tap>>
  BY DEF Tidy
<1>4. MainInv'
  BY <1>1, <1>3 DEF IInv, MainInv, At
<1>5. TaskInv'
  BY <1>1, <1>3 DEF IInv, TaskInv, At, Unspawned, Spawned, Snapped
<1>6. FcInv'
  BY <1>3 DEF IInv, FcInv
<1>7. ASSUME "leave" \notin Faults PROVE GuestInv'
  BY <1>1, <1>2, <1>3, <1>7 DEF IInv, TaskInv, GuestInv, At, Spawned, Snapped, WithTap
<1>8. QED
  BY <1>4, <1>5, <1>6, <1>7 DEF Parts

(***************************************************************************)
(* Firecracker's own steps.                                                *)
(***************************************************************************)
\* Nothing that is spent comes back, and nothing else of the task's changes.
LEMMA FcTaskInv ==
  ASSUME IInv, NEW i \in Invocations, NEW w \in Ids, NEW s \in States \ {"none"},
         fc[i][w] \notin {"none", "dead"}, fc' = [fc EXCEPT ![i][w] = s],
         UNCHANGED <<invocation, main, taskVars>>
  PROVE  /\ MainInv' /\ TaskInv'
         /\ \A j \in Invocations : j > invocation => \A v \in Ids : fc'[j][v] = "none"
<1>1. \A j \in Invocations, v \in Ids : fc'[j][v] = IF j = i /\ v = w THEN s ELSE fc[j][v]
  BY FcMoves DEF IInv
<1>2. MainInv'
  BY DEF IInv, MainInv, taskVars
<1>3. TaskInv'
  BY <1>1, Owners DEF IInv, TaskInv, taskVars, Unspawned, Spawned, Snapped
<1>4. \A j \in Invocations : j > invocation => \A v \in Ids : fc'[j][v] = "none"
  BY <1>1 DEF IInv, FcInv
<1>5. QED
  BY <1>2, <1>3, <1>4

\* A socket that was free is bound by a Firecracker that has no tap yet.
LEMMA FcBindMove ==
  ASSUME IInv, NEW i \in Invocations, NEW w \in Ids, FcBind(i, w)
  PROVE  Parts'
<1>1. UNCHANGED <<invocation, main, taskVars, tap>> /\ fc[i][w] = "starting"
  BY DEF FcBind
<1>2. PICK s \in {"bound", "dead"} :
        /\ fc' = [fc EXCEPT ![i][w] = s]
        /\ s = "bound" => sock[w] = 0 /\ sock' = [sock EXCEPT ![w] = i]
        /\ s = "dead" => UNCHANGED sock
  BY DEF FcBind
<1>3. \A j \in Invocations, v \in Ids : fc'[j][v] = IF j = i /\ v = w THEN s ELSE fc[j][v]
  BY <1>2, FcMoves DEF IInv, States, Alive
<1>4. \A v \in Ids : sock'[v] = IF v = w /\ s = "bound" THEN i ELSE sock[v]
  BY <1>2 DEF IInv, TypeOK
<1>5. MainInv' /\ TaskInv' /\ FcInv'
  <2>1. s \in States \ {"none"}
    BY <1>2 DEF States, Alive
  <2>2. /\ MainInv' /\ TaskInv'
        /\ \A j \in Invocations : j > invocation => \A v \in Ids : fc'[j][v] = "none"
    BY <1>1, <1>2, <2>1, FcTaskInv
  <2>3. QED
    BY <1>1, <1>3, <2>2 DEF IInv, FcInv, WithTap
<1>6. ASSUME "leave" \notin Faults PROVE GuestInv'
  <2>1. \A v \in Ids : tap[v] # 0 /\ fc[tap[v]][v] = "serving" =>
          fc'[tap[v]][v] = "serving"
    BY <1>1, <1>3, Owners DEF IInv
  <2>2. \A v \in Ids : sock[v] # 0 /\ fc[sock[v]][v] \in {"paused", "dead"} =>
          sock'[v] = sock[v] /\ fc'[sock'[v]][v] = fc[sock[v]][v]
    BY <1>1, <1>2, <1>3, <1>4, Owners DEF IInv
  <2>3. QED
    BY <1>1, <1>2, <1>3, <1>4, <1>6, <2>1, <2>2, Owners
       DEF IInv, GuestInv, WithTap, taskVars
<1>7. QED
  BY <1>5, <1>6 DEF Parts

\* A guest boots only behind a tap interface that was free.
LEMMA FcTapMove ==
  ASSUME IInv, NEW i \in Invocations, NEW w \in Ids, FcTap(i, w)
  PROVE  Parts'
<1>1. UNCHANGED <<invocation, main, taskVars, sock>> /\ fc[i][w] = "bound"
  BY DEF FcTap
<1>2. PICK s \in {"booting", "dead"} :
        /\ fc' = [fc EXCEPT ![i][w] = s]
        /\ s = "booting" => tap[w] = 0 /\ tap' = [tap EXCEPT ![w] = i]
        /\ s = "dead" => UNCHANGED tap
  BY DEF FcTap
<1>3. \A j \in Invocations, v \in Ids : fc'[j][v] = IF j = i /\ v = w THEN s ELSE fc[j][v]
  BY <1>2, FcMoves DEF IInv, States, Alive
<1>4. \A v \in Ids : tap'[v] = IF v = w /\ s = "booting" THEN i ELSE tap[v]
  BY <1>2 DEF IInv, TypeOK
<1>5. MainInv' /\ TaskInv' /\ FcInv'
  <2>1. s \in States \ {"none"}
    BY <1>2 DEF States, Alive
  <2>2. /\ MainInv' /\ TaskInv'
        /\ \A j \in Invocations : j > invocation => \A v \in Ids : fc'[j][v] = "none"
    BY <1>1, <1>2, <2>1, FcTaskInv
  <2>3. QED
    BY <1>1, <1>2, <1>3, <1>4, <2>2, Owners DEF IInv, FcInv, WithTap
<1>6. ASSUME "leave" \notin Faults PROVE GuestInv'
  <2>1. \A v \in Ids : tap[v] # 0 /\ fc[tap[v]][v] = "serving" =>
          tap'[v] = tap[v] /\ fc'[tap'[v]][v] = "serving"
    BY <1>1, <1>2, <1>3, <1>4, Owners DEF IInv
  <2>2. \A v \in Ids : sock[v] # 0 /\ fc[sock[v]][v] \in {"paused", "dead"} =>
          fc'[sock[v]][v] = fc[sock[v]][v]
    BY <1>1, <1>3, Owners DEF IInv
  <2>3. QED
    BY <1>1, <1>2, <1>3, <1>6, <2>1, <2>2, Owners
       DEF IInv, GuestInv, WithTap, taskVars
<1>7. QED
  BY <1>5, <1>6 DEF Parts

\* A guest that comes up is none that has answered before.
LEMMA GuestUpMove ==
  ASSUME IInv, NEW i \in Invocations, NEW w \in Ids, GuestUp(i, w)
  PROVE  Parts'
<1>1. /\ UNCHANGED <<invocation, main, taskVars, tap, sock>>
      /\ fc[i][w] = "booting" /\ fc' = [fc EXCEPT ![i][w] = "serving"]
  BY DEF GuestUp
<1>2. \A j \in Invocations, v \in Ids :
        fc'[j][v] = IF j = i /\ v = w THEN "serving" ELSE fc[j][v]
  BY <1>1, FcMoves DEF IInv, States, Alive
<1>3. MainInv' /\ TaskInv' /\ FcInv'
  <2>1. "serving" \in States \ {"none"}
    BY DEF States, Alive
  <2>2. /\ MainInv' /\ TaskInv'
        /\ \A j \in Invocations : j > invocation => \A v \in Ids : fc'[j][v] = "none"
    BY <1>1, <2>1, FcTaskInv
  <2>3. QED
    BY <1>1, <1>2, <2>2 DEF IInv, FcInv, WithTap
<1>4. ASSUME "leave" \notin Faults PROVE GuestInv'
  <2>1. \A v \in Ids : tap[v] # 0 /\ fc[tap[v]][v] = "serving" =>
          fc'[tap[v]][v] = "serving"
    BY <1>2, Owners DEF IInv
  <2>2. \A v \in Ids : sock[v] # 0 /\ fc[sock[v]][v] \in {"paused", "dead"} =>
          fc'[sock[v]][v] = fc[sock[v]][v]
    BY <1>1, <1>2, Owners DEF IInv
  <2>3. QED
    BY <1>1, <1>2, <1>4, <2>1, <2>2, Owners DEF IInv, GuestInv, WithTap, taskVars
<1>5. QED
  BY <1>3, <1>4 DEF Parts

\* One that dies may be the one that has answered; but no other takes its place.
LEMMA FcCrashMove ==
  ASSUME IInv, NEW i \in Invocations, NEW w \in Ids, FcCrash(i, w)
  PROVE  Parts'
<1>1. /\ UNCHANGED <<invocation, main, taskVars, sock>>
      /\ fc[i][w] \notin {"none", "dead"} /\ fc' = [fc EXCEPT ![i][w] = "dead"]
      /\ i # invocation => "leave" \in Faults
  BY DEF FcCrash, Alive
<1>2. \A j \in Invocations, v \in Ids :
        fc'[j][v] = IF j = i /\ v = w THEN "dead" ELSE fc[j][v]
  BY <1>1, FcMoves DEF IInv, States, Alive
<1>3. \A v \in Ids : tap'[v] = IF v = w /\ tap[v] = i THEN 0 ELSE tap[v]
  BY DEF IInv, TypeOK, FcCrash
<1>4. MainInv' /\ TaskInv' /\ FcInv'
  <2>1. "dead" \in States \ {"none"}
    BY DEF States, Alive
  <2>2. /\ MainInv' /\ TaskInv'
        /\ \A j \in Invocations : j > invocation => \A v \in Ids : fc'[j][v] = "none"
    BY <1>1, <2>1, FcTaskInv
  <2>3. QED
    BY <1>1, <1>2, <1>3, <2>2 DEF IInv, FcInv, WithTap
<1>5. ASSUME "leave" \notin Faults PROVE GuestInv'
  <2>1. i = invocation
    BY <1>1, <1>5
  <2>2. \A v \in Ids : tap[v] \notin {0, invocation} =>
          tap'[v] = tap[v] /\ fc'[tap'[v]][v] = fc[tap[v]][v]
    BY <1>2, <1>3, <2>1, Owners DEF IInv
  <2>3. \A v \in Ids : sock[v] # 0 /\ fc[sock[v]][v] \in {"paused", "dead"} =>
          fc'[sock[v]][v] \in {"paused", "dead"}
    BY <1>2, Owners DEF IInv
  <2>4. QED
    BY <1>1, <1>2, <1>5, <2>1, <2>2, <2>3, Owners DEF IInv, GuestInv, WithTap, taskVars
<1>6. QED
  BY <1>4, <1>5 DEF Parts

(***************************************************************************)
(* The types, step by step.                                                *)
(***************************************************************************)
\* What a request makes of a guest is a state that guests can be in.
LEMMA AnsweredType ==
  ASSUME TypeOK, NEW w \in Ids, NEW effect, NEW next, Answered(w, effect, next),
         \A s \in DOMAIN effect : effect[s] \in States
  PROVE  /\ fc' \in [Invocations -> [Ids -> States]]
         /\ UNCHANGED <<invocation, main, config, tap, sock>>
         /\ pc' = [pc EXCEPT ![w] = next]
<1>1. sock[w] \in Invocations /\ fc[sock[w]][w] \in DOMAIN effect
  BY Owners DEF Answered
<1>2. fc' = [fc EXCEPT ![sock[w]][w] = effect[fc[sock[w]][w]]]
  BY <1>1 DEF Answered, TypeOK
<1>3. fc' \in [Invocations -> [Ids -> States]]
  BY <1>1, <1>2, FcMoves
<1>4. QED
  BY <1>3 DEF Answered, Goto

\* A task's step.
LEMMA TaskType == ASSUME IInv, NEW w \in Ids, TaskStep(w) \/ Panic(w) PROVE TypeOK'
<1> USE DEF IInv
<1>1. CASE ClearSocket(w)
  BY <1>1, Owners DEF TypeOK, Goto, fcVars, ClearSocket, Fail
<1>2. CASE RenderConfig(w)
  BY <1>2 DEF TypeOK, Goto, fcVars, RenderConfig, Fail
<1>3. CASE SpawnFc(w)
  <2>1. Retries \in 0..Retries
    BY RetriesAssumption
  <2>2. fc' \in [Invocations -> [Ids -> States]]
    BY <1>3, Owners, FcMoves DEF SpawnFc, Fail, fcVars, TypeOK, States, Alive
  <2>3. /\ UNCHANGED <<invocation, main, config, snap, tap, sock>>
        /\ \E p \in {"poll", "failed"} : pc' = [pc EXCEPT ![w] = p]
        /\ UNCHANGED retries \/ retries' = [retries EXCEPT ![w] = Retries]
    BY <1>3 DEF SpawnFc, Fail, fcVars, Goto
  <2>4. QED
    BY <2>1, <2>2, <2>3 DEF TypeOK, States
<1>4. ASSUME NEW here \in {"poll", "repoll"}, NEW next \in {"pause", "kill"},
             WaitPort(w, here, next)
      PROVE  TypeOK'
  <2>1. retries[w] \in 0..Retries /\ retries[w] > 0
    BY <1>4 DEF TypeOK, At, WaitPort, TaskInv
  <2>2. retries[w] - 1 \in 0..Retries
    BY <2>1, RetriesAssumption
  <2>3. QED
    BY <1>4, <2>2 DEF TypeOK, Goto, fcVars, WaitPort
<1>5. CASE PauseUvm(w)
  <2>1. CASE Answered(w, Pausing, "snapshot") /\ UNCHANGED <<retries, snap>>
    <3>1. \A s \in DOMAIN Pausing : Pausing[s] \in States
      BY DEF Pausing, States, Alive
    <3>2. /\ fc' \in [Invocations -> [Ids -> States]]
          /\ UNCHANGED <<invocation, main, config, tap, sock>>
          /\ pc' = [pc EXCEPT ![w] = "snapshot"]
      BY <2>1, <3>1, AnsweredType
    <3>3. QED
      BY <2>1, <3>2 DEF TypeOK, States
  <2>2. CASE Refused(w, Pausing) /\ UNCHANGED snap
    BY <2>2 DEF TypeOK, Refused, fcVars, Goto
  <2>3. QED
    BY <1>5, <2>1, <2>2 DEF PauseUvm
<1>6. CASE CreateSnapshot(w)
  <2>1. PICK guest \in {"torn", "unserved", "served"} :
          \/ /\ Answered(w, Snapshotting, "resume") /\ UNCHANGED retries
             /\ snap' = [snap EXCEPT ![w] = [by |-> invocation, guest |-> guest]]
          \/ /\ Refused(w, Snapshotting)
             /\ snap' \in {snap, [snap EXCEPT ![w] = [by |-> invocation, guest |-> guest]]}
    BY <1>6 DEF CreateSnapshot
  <2>2. snap' \in [Ids -> [by : 0..MaxInvocations,
                          guest : {"none", "torn", "unserved", "served"}]]
    BY <2>1, Owners DEF TypeOK
  <2>3. CASE Answered(w, Snapshotting, "resume") /\ UNCHANGED retries
    <3>1. \A s \in DOMAIN Snapshotting : Snapshotting[s] \in States
      BY DEF Snapshotting, States, Alive
    <3>2. /\ fc' \in [Invocations -> [Ids -> States]]
          /\ UNCHANGED <<invocation, main, config, tap, sock>>
          /\ pc' = [pc EXCEPT ![w] = "resume"]
      BY <2>3, <3>1, AnsweredType
    <3>3. QED
      BY <2>2, <2>3, <3>2 DEF TypeOK, States
  <2>4. CASE Refused(w, Snapshotting)
    BY <2>2, <2>4 DEF TypeOK, Refused, fcVars, Goto
  <2>5. QED
    BY <2>1, <2>3, <2>4
<1>7. CASE ResumeUvm(w)
  <2>1. CASE /\ Answered(w, Resuming, "repoll") /\ UNCHANGED snap
             /\ retries' = [retries EXCEPT ![w] = Retries]
    <3>1. \A s \in DOMAIN Resuming : Resuming[s] \in States
      BY DEF Resuming, States, Alive
    <3>2. /\ fc' \in [Invocations -> [Ids -> States]]
          /\ UNCHANGED <<invocation, main, config, tap, sock>>
          /\ pc' = [pc EXCEPT ![w] = "repoll"]
      BY <2>1, <3>1, AnsweredType
    <3>3. Retries \in 0..Retries
      BY RetriesAssumption
    <3>4. QED
      BY <2>1, <3>2, <3>3 DEF TypeOK, States
  <2>2. CASE Refused(w, Resuming) /\ UNCHANGED snap
    BY <2>2 DEF TypeOK, Refused, fcVars, Goto
  <2>3. QED
    BY <1>7, <2>1, <2>2 DEF ResumeUvm
<1>8. CASE KillFc(w)
  <2>1. fc' \in [Invocations -> [Ids -> States]]
    BY <1>8, Owners, FcMoves DEF KillFc, States
  <2>2. QED
    BY <1>8, <2>1, Owners DEF KillFc, TypeOK, States, Goto
<1>9. CASE Tidy(w)
  <2>1. pc' = [pc EXCEPT ![w] = "done"] \/ pc' = [pc EXCEPT ![w] = "failed"]
    BY <1>9 DEF Tidy, Goto
  <2>2. config' \subseteq Ids /\ UNCHANGED <<invocation, main, retries, snap, fc, tap>>
    BY <1>9 DEF Tidy, TypeOK
  <2>3. sock' \in [Ids -> 0..MaxInvocations]
    BY <1>9, Owners DEF Tidy, TypeOK
  <2>4. QED
    BY <2>1, <2>2, <2>3 DEF TypeOK
<1>10. CASE Panic(w)
  BY <1>10 DEF TypeOK, Goto, fcVars, Panic
<1>11. QED
  BY <1>1, <1>2, <1>3, <1>4, <1>5, <1>6, <1>7, <1>8, <1>9, <1>10 DEF TaskStep

\* A Firecracker's step.
LEMMA FcType ==
  ASSUME IInv, NEW i \in Invocations, NEW w \in Ids, FcStep(i, w) \/ FcCrash(i, w)
  PROVE  TypeOK'
<1>1. i \in 0..MaxInvocations
  BY DEF Invocations
<1>2. PICK s \in States : fc' = [fc EXCEPT ![i][w] = s]
  BY DEF FcStep, FcBind, FcTap, GuestUp, FcCrash, States, Alive
<1>3. fc' \in [Invocations -> [Ids -> States]]
  BY <1>2, FcMoves DEF IInv
<1>4. /\ UNCHANGED sock \/ sock' = [sock EXCEPT ![w] = i]
      /\ \/ UNCHANGED tap
         \/ tap' = [tap EXCEPT ![w] = i]
         \/ tap' = [tap EXCEPT ![w] = IF @ = i THEN 0 ELSE @]
      /\ UNCHANGED <<invocation, main, taskVars>>
  BY DEF FcStep, FcBind, FcTap, GuestUp, FcCrash
<1>5. sock' \in [Ids -> 0..MaxInvocations] /\ tap' \in [Ids -> 0..MaxInvocations]
  <2>1. /\ sock \in [Ids -> 0..MaxInvocations]
        /\ tap \in [Ids -> 0..MaxInvocations]
    BY DEF IInv, TypeOK
  <2>2. 0 \in 0..MaxInvocations
    BY MaxInvocationsAssumption
  <2>3. sock' \in [Ids -> 0..MaxInvocations]
    BY <1>1, <1>4, <2>1
  <2>4. ASSUME tap' = [tap EXCEPT ![w] = IF @ = i THEN 0 ELSE @]
        PROVE  tap' \in [Ids -> 0..MaxInvocations]
    BY <2>1, <2>2, <2>4
  <2>5. tap' \in [Ids -> 0..MaxInvocations]
    BY <1>1, <1>4, <2>1, <2>4
  <2>6. QED
    BY <2>3, <2>5
<1>6. QED
  BY <1>3, <1>4, <1>5 DEF IInv, TypeOK, States, taskVars

(***************************************************************************)
(* main, and all steps together.                                           *)
(***************************************************************************)
\* A task is set off with nothing spawned, and main goes on when all are done.
LEMMA MainStepInv == ASSUME IInv, MainStep PROVE IInv'
<1>1. CASE Setup
  <2>1. /\ UNCHANGED <<invocation, retries, config, snap, fcVars>>
        /\ \/ main' = "running" /\ pc' = [w \in Ids |-> "clear"]
           \/ main' = "error" /\ UNCHANGED pc
        /\ \A w \in Ids : pc[w] = "idle"
    BY <1>1 DEF Setup, IInv, MainInv
  <2>2. TypeOK'
    BY <2>1 DEF IInv, TypeOK, fcVars, Exited
  <2>3. \A w \in Ids : pc'[w] \in {"idle", "clear"}
    BY <2>1
  <2>4. MainInv' /\ TaskInv' /\ FcInv'
    BY <2>1, <2>3 DEF IInv, MainInv, TaskInv, FcInv, fcVars, Unspawned, Spawned, Snapped
  <2>5. GuestInv'
    BY <2>3 DEF GuestInv, Spawned, Snapped
  <2>6. QED
    BY <2>2, <2>4, <2>5 DEF IInv
<1>2. CASE JoinAll \/ JoinError \/ CleanupDirs
  <2>1. /\ UNCHANGED <<invocation, taskVars, fcVars>>
        /\ main' \in {"cleaning"} \cup Exited
        /\ main' \in {"cleaning", "ok"} => \A w \in Ids : pc[w] = "done"
    BY <1>2 DEF JoinAll, JoinError, CleanupDirs, Exited, IInv, MainInv
  <2>2. QED
    BY <2>1 DEF IInv, TypeOK, MainInv, TaskInv, FcInv, GuestInv, taskVars, fcVars, Exited
<1>3. QED
  BY <1>1, <1>2 DEF MainStep

\* A new invocation finds no snapshot, and nothing of its own.
LEMMA InvokeInv == ASSUME IInv, Invoke PROVE IInv'
<1>1. /\ invocation' = invocation + 1 /\ invocation' \in Invocations
      /\ main' = "setup" /\ pc' = [w \in Ids |-> "idle"]
      /\ snap' = [w \in Ids |-> NoSnap] /\ UNCHANGED <<retries, config, fcVars>>
  BY MaxInvocationsAssumption DEF Invoke, IInv, TypeOK, Invocations
<1>2. TypeOK'
  <2>1. 0 \in 0..MaxInvocations
    BY MaxInvocationsAssumption
  <2>2. QED
    BY <1>1, <2>1 DEF IInv, TypeOK, fcVars, NoSnap
<1>3. \A i \in Invocations, w \in Ids : i >= invocation' => fc'[i][w] = "none"
  <2>1. invocation \in Int /\ Invocations \subseteq Int
    BY DEF IInv, TypeOK, Invocations
  <2>2. \A i \in Invocations : i >= invocation' => i > invocation
    BY <1>1, <2>1
  <2>3. QED
    BY <1>1, <2>2 DEF IInv, FcInv, fcVars
<1>4. \A i \in Invocations : i > invocation' => i >= invocation'
  BY <1>1 DEF Invocations
<1>5. invocation' >= invocation'
  BY <1>1 DEF Invocations
<1>6. MainInv' /\ TaskInv'
  BY <1>1, <1>3, <1>5 DEF MainInv, TaskInv, Unspawned, Spawned, Snapped
<1>7. FcInv'
  BY <1>1, <1>3, <1>4 DEF IInv, FcInv, fcVars
<1>8. GuestInv'
  BY <1>1 DEF GuestInv, Spawned, Snapped
<1>9. QED
  BY <1>2, <1>6, <1>7, <1>8 DEF IInv

\* A task's step is one of the moves above.
LEMMA TaskParts == ASSUME IInv, NEW w \in Ids, TaskStep(w) \/ Panic(w) PROVE Parts'
<1>1. ASSUME NEW kind, At(w, pc[w]), Fail(w, kind) PROVE Parts'
  BY <1>1, FailMove DEF Fail, At, Goto
<1>2. CASE ClearSocket(w)
  <2>1. CASE sock' = [sock EXCEPT ![w] = 0] /\ Goto(w, "render")
             /\ UNCHANGED <<invocation, main, retries, config, snap, fc, tap>>
    BY <1>2, <2>1, QuietMove DEF ClearSocket, At, Goto, Unspawned
  <2>2. QED
    BY <1>1, <1>2, <2>1 DEF ClearSocket, At
<1>3. CASE RenderConfig(w)
  <2>1. CASE Goto(w, "spawn") /\ UNCHANGED <<invocation, main, retries, snap, fcVars>>
    BY <1>3, <2>1, QuietMove DEF RenderConfig, At, Goto, Unspawned, fcVars
  <2>2. QED
    BY <1>1, <1>3, <2>1 DEF RenderConfig, At
<1>4. CASE SpawnFc(w)
  BY <1>1, <1>4, SpawnMove DEF SpawnFc, At
<1>5. ASSUME NEW here \in {"poll", "repoll"}, NEW next \in {"pause", "kill"},
             here = "poll" <=> next = "pause", WaitPort(w, here, next)
      PROVE  Parts'
  <2>1. /\ main = "running" /\ pc[w] = here
        /\ UNCHANGED <<invocation, main, config, snap, fcVars>>
    BY <1>5 DEF WaitPort, At
  <2>2. CASE Responsive(w)
    BY <1>5, <2>1, <2>2, QuietMove DEF WaitPort, Goto, fcVars
  <2>3. CASE ~Responsive(w)
    <3>1. retries' = [retries EXCEPT ![w] = retries[w] - 1]
      BY <1>5, <2>3 DEF WaitPort
    <3>2. /\ \A v \in Ids \ {w} : retries'[v] = retries[v]
          /\ retries'[w] = retries[w] - 1
          /\ retries[w] \in Nat /\ retries[w] > 0
      <4>1. retries[w] \in 0..Retries
        BY DEF IInv, TypeOK
      <4>2. retries[w] \in Nat
        BY <4>1, RetriesAssumption
      <4>3. QED
        BY <2>1, <3>1, <4>2 DEF IInv, TypeOK, TaskInv
    <3>3. CASE retries[w] = 1
      BY <1>5, <2>1, <2>3, <3>2, <3>3, FailMove DEF WaitPort, Goto
    <3>4. CASE retries[w] # 1
      <4>1. retries'[w] > 0
        BY <3>2, <3>4
      <4>2. QED
        BY <1>5, <2>1, <2>3, <3>2, <3>4, <4>1, QuietMove DEF WaitPort, Goto, fcVars
    <3>5. QED
      BY <3>3, <3>4
  <2>4. QED
    BY <2>2, <2>3
<1>6. ASSUME NEW effect, At(w, pc[w]), Refused(w, effect),
             \A v \in Ids \ {w} : snap'[v] = snap[v]
      PROVE  Parts'
  BY <1>6, FailMove DEF Refused, At, Goto
<1>7. CASE PauseUvm(w)
  BY <1>6, <1>7, PauseMove DEF PauseUvm, At
<1>8. CASE CreateSnapshot(w)
  <2>1. PICK guest :
          \/ /\ Answered(w, Snapshotting, "resume") /\ UNCHANGED retries
             /\ guest = IF fc[sock[w]][w] = "paused" THEN "served" ELSE "unserved"
             /\ snap' = [snap EXCEPT ![w] = [by |-> invocation, guest |-> guest]]
          \/ /\ Refused(w, Snapshotting)
             /\ snap' \in {snap, [snap EXCEPT ![w] = [by |-> invocation, guest |-> guest]]}
    BY <1>8 DEF CreateSnapshot
  <2>2. \A v \in Ids \ {w} : snap'[v] = snap[v]
    BY <2>1 DEF IInv, TypeOK
  <2>3. At(w, "snapshot") /\ At(w, pc[w])
    BY <1>8 DEF CreateSnapshot, At
  <2>4. QED
    BY <1>6, <2>1, <2>2, <2>3, SnapshotMove
<1>9. CASE ResumeUvm(w)
  BY <1>6, <1>9, ResumeMove DEF ResumeUvm, At
<1>10. CASE Panic(w)
  BY <1>10, FailMove DEF Panic, At, Goto
<1>11. QED
  BY <1>2, <1>3, <1>4, <1>5, <1>7, <1>8, <1>9, <1>10, KillMove, TidyMove DEF TaskStep

\* Every step keeps the invariant.
LEMMA NextInv == IInv /\ [Next]_vars => IInv'
<1> SUFFICES ASSUME IInv, [Next]_vars PROVE IInv'
  OBVIOUS
<1>1. CASE MainStep
  BY <1>1, MainStepInv
<1>2. CASE Invoke
  BY <1>2, InvokeInv
<1>3. ASSUME NEW w \in Ids, TaskStep(w) \/ Panic(w) PROVE IInv'
  BY <1>3, TaskType, TaskParts DEF IInv, Parts
<1>4. ASSUME NEW i \in Invocations, NEW w \in Ids, FcStep(i, w) \/ FcCrash(i, w)
      PROVE  IInv'
  <2>1. Parts'
    BY <1>4, FcBindMove, FcTapMove, GuestUpMove, FcCrashMove DEF FcStep
  <2>2. QED
    BY <1>4, <2>1, FcType DEF IInv, Parts
<1>5. CASE UNCHANGED vars
  BY <1>5 DEF vars, taskVars, fcVars, IInv, TypeOK, MainInv, TaskInv, FcInv, GuestInv
<1>6. QED
  BY <1>1, <1>2, <1>3, <1>4, <1>5 DEF Next, Rest

\* How far a task has come tells what became of its Firecracker and its snapshot.
THEOREM Invariant == Spec => []IInv
<1>1. QED
  BY InitInv, NextInv, PTL DEF Spec

\* The types hold; wait_port never makes more attempts than it may.
THEOREM TypeCorrect == Spec => []TypeOK
<1>1. IInv => TypeOK
  BY DEF IInv
<1>2. QED
  BY <1>1, Invariant, PTL

\* Success leaves no Firecracker of this invocation, whatever went wrong.
THEOREM NoneOutlives == Spec => []Reaped
<1>1. IInv => Reaped
  BY DEF IInv, MainInv, TaskInv, Reaped, Alive
<1>2. QED
  BY <1>1, Invariant, PTL

\* Success means a whole snapshot of every MicroVM made by this invocation, also when
\* what an earlier one has left goes away.
THEOREM BuiltWhole == Spec => []SnapshotsWhole
<1>1. IInv => SnapshotsWhole
  BY DEF IInv, MainInv, TaskInv, SnapshotsWhole, Snapped
<1>2. QED
  BY <1>1, Invariant, PTL

\* As long as what an earlier invocation has left stays, success means a snapshot of
\* every MicroVM, made by this invocation of a guest that was serving.
THEOREM Built == ASSUME "leave" \notin Faults PROVE Spec => []SnapshotsGood
<1>1. IInv => SnapshotsGood
  BY DEF IInv, MainInv, GuestInv, SnapshotsGood, Snapped
<1>2. QED
  BY <1>1, Invariant, PTL

(***************************************************************************)
(* An invocation is a build of SnapshotBuild.                              *)
(***************************************************************************)
\* What nobody sees: no MicroVM comes or goes and no snapshot is made.
LEMMA SameBuild ==
  ASSUME main' = main \/ {main, main'} \cap Exited = {},
         \A w \in Ids : Standing(w)' = Standing(w) /\ Good(w)' = Good(w)
  PROVE  UNCHANGED SB!sbVars
<1>1. UNCHANGED <<IF main \in Exited THEN main ELSE "building",
                  [w \in Ids |-> Standing(w)], {w \in Ids : Good(w)}>>
  OBVIOUS
<1>2. QED
  BY <1>1 DEF SB!sbVars

\* One Firecracker moves: only that of the current invocation counts.
LEMMA NewStanding ==
  ASSUME TypeOK, NEW i \in Invocations, NEW w \in Ids, NEW s \in States,
         fc' = [fc EXCEPT ![i][w] = s], UNCHANGED invocation
  PROVE  /\ \A v \in Ids : (i # invocation \/ v # w) => Standing(v)' = Standing(v)
         /\ i = invocation =>
              Standing(w)' = CASE s = "none" -> "absent" [] s = "dead" -> "gone"
                               [] OTHER -> "running"
<1>1. invocation \in Invocations
  BY DEF TypeOK
<1>2. \A v \in Ids : fc'[invocation][v] =
                        IF invocation = i /\ v = w THEN s ELSE fc[invocation][v]
  BY <1>1, FcMoves
<1>3. QED
  BY <1>2 DEF Standing

\* A MicroVM's step in a build is a step of the build.
LEMMA OneStands ==
  ASSUME NEW w \in Ids, UNCHANGED <<main, invocation, snap>>,
         \A v \in Ids \ {w} : Standing(v)' = Standing(v),
         \/ Standing(w)' = Standing(w)
         \/ Standing(w) = "absent" /\ Standing(w)' = "running" /\ main \notin Exited
         \/ Standing(w) = "running" /\ Standing(w)' = "gone"
  PROVE  [SB!SBNext]_SB!sbVars
<1>1. \A v \in Ids : Good(v)' = Good(v)
  BY DEF Good
<1>2. UNCHANGED <<IF main \in Exited THEN main ELSE "building", {v \in Ids : Good(v)}>>
  BY <1>1
<1>3. [v \in Ids |-> Standing(v)]' = [[v \in Ids |-> Standing(v)] EXCEPT ![w] = Standing(w)']
  OBVIOUS
<1>4. CASE Standing(w)' = Standing(w)
  BY <1>1, <1>4, SameBuild
<1>5. CASE Standing(w) = "absent" /\ Standing(w)' = "running" /\ main \notin Exited
  BY <1>2, <1>3, <1>5 DEF SB!SBNext, SB!Boot
<1>6. CASE Standing(w) = "running" /\ Standing(w)' = "gone"
  BY <1>2, <1>3, <1>6 DEF SB!SBNext, SB!End
<1>7. QED
  BY <1>4, <1>5, <1>6

\* A request that is answered moves a guest that runs, and leaves it running.
LEMMA AnsweredStands ==
  ASSUME IInv, NEW w \in Ids, NEW effect, NEW next, Answered(w, effect, next),
         DOMAIN effect \subseteq Alive, \A s \in DOMAIN effect : effect[s] \in Alive
  PROVE  \A v \in Ids : Standing(v)' = Standing(v)
<1>1. /\ sock[w] \in Invocations /\ fc[sock[w]][w] \in Alive
      /\ effect[fc[sock[w]][w]] \in Alive /\ UNCHANGED invocation
      /\ fc' = [fc EXCEPT ![sock[w]][w] = effect[fc[sock[w]][w]]]
  BY Owners DEF Answered, IInv, TypeOK
<1>2. effect[fc[sock[w]][w]] \in States
  BY <1>1 DEF States
<1>3. \A v \in Ids : fc'[invocation][v] =
        IF invocation = sock[w] /\ v = w THEN effect[fc[sock[w]][w]] ELSE fc[invocation][v]
  <2>1. TypeOK /\ invocation \in Invocations
    BY Owners DEF IInv
  <2>2. ASSUME NEW i \in Invocations, NEW s \in States, fc' = [fc EXCEPT ![i][w] = s]
        PROVE  \A v \in Ids : fc'[invocation][v] =
                 IF invocation = i /\ v = w THEN s ELSE fc[invocation][v]
    <3>1. fc \in [Invocations -> [Ids -> States]]
      BY <2>1 DEF TypeOK, States
    <3>2. QED
      BY <2>1, <2>2, <3>1
  <2>3. QED
    BY <1>1, <1>2, <2>2
<1>4. \A s \in Alive : s # "none" /\ s # "dead"
  BY DEF Alive
<1>5. QED
  BY <1>1, <1>3, <1>4 DEF Standing

\* The step of a task.
LEMMA TaskRefines ==
  ASSUME IInv, NEW w \in Ids, TaskStep(w) \/ Panic(w)
  PROVE  [SB!SBNext]_SB!sbVars
<1>1. main = "running" /\ main \notin Exited /\ UNCHANGED <<invocation, main>>
  BY DEF TaskStep, ClearSocket, RenderConfig, SpawnFc, WaitPort, PauseUvm, CreateSnapshot,
     ResumeUvm, KillFc, Tidy, Panic, At, Fail, Answered, Refused, Exited
<1>2. CASE UNCHANGED <<fc, snap>>
  BY <1>1, <1>2, SameBuild DEF Standing, Good
<1>3. CASE SpawnFc(w)
  <2>1. CASE /\ fc' = [fc EXCEPT ![invocation][w] = "starting"]
             /\ UNCHANGED <<invocation, main, snap>>
    <3>1. fc[invocation][w] = "none"
      BY <1>3 DEF IInv, TaskInv, SpawnFc, At, Unspawned
    <3>2. Standing(w) = "absent"
      BY <3>1 DEF Standing
    <3>3. Standing(w)' = "running" /\ \A v \in Ids \ {w} : Standing(v)' = Standing(v)
      BY <2>1, Owners, NewStanding DEF IInv, States, Alive
    <3>4. QED
      BY <1>1, <2>1, <3>2, <3>3, OneStands
  <2>2. QED
    BY <1>2, <1>3, <2>1 DEF SpawnFc, Fail, fcVars
<1>4. CASE PauseUvm(w)
  <2>1. DOMAIN Pausing \subseteq Alive /\ \A s \in DOMAIN Pausing : Pausing[s] \in Alive
    BY DEF Pausing, Alive
  <2>2. CASE Answered(w, Pausing, "snapshot") /\ UNCHANGED snap
    BY <1>1, <2>1, <2>2, AnsweredStands, SameBuild DEF Good
  <2>3. QED
    BY <1>2, <1>4, <2>2 DEF PauseUvm, Refused, fcVars
<1>5. CASE ResumeUvm(w)
  <2>1. DOMAIN Resuming \subseteq Alive /\ \A s \in DOMAIN Resuming : Resuming[s] \in Alive
    BY DEF Resuming, Alive
  <2>2. CASE Answered(w, Resuming, "repoll") /\ UNCHANGED snap
    BY <1>1, <2>1, <2>2, AnsweredStands, SameBuild DEF Good
  <2>3. QED
    BY <1>2, <1>5, <2>2 DEF ResumeUvm, Refused, fcVars
<1>6. CASE CreateSnapshot(w)
  <2>1. DOMAIN Snapshotting \subseteq Alive
        /\ \A s \in DOMAIN Snapshotting : Snapshotting[s] \in Alive
    BY DEF Snapshotting, Alive
  <2>2. \A v \in Ids : Standing(v)' = Standing(v)
    BY <1>6, <2>1, AnsweredStands DEF CreateSnapshot, Refused, fcVars, Standing
  <2>3. fc[invocation][w] # "none" /\ snap[w] = NoSnap
    BY <1>6 DEF IInv, TaskInv, CreateSnapshot, At, Spawned, Snapped
  <2>4. ~Good(w) /\ Standing(w) # "absent"
    BY <2>3, Owners DEF Good, Standing, NoSnap, IInv
  <2>5. \A v \in Ids \ {w} : Good(v)' = Good(v)
    BY <1>1, <1>6 DEF CreateSnapshot, Good, IInv, TypeOK
  <2>6. CASE ~Good(w)'
    <3>1. \A v \in Ids : Good(v)' = Good(v)
      BY <2>4, <2>5, <2>6 DEF Good
    <3>2. QED
      BY <1>1, <2>2, <3>1, SameBuild
  <2>7. CASE Good(w)'
    <3>1. {v \in Ids : Good(v)}' = {v \in Ids : Good(v)} \cup {w}
      BY <2>5, <2>7
    <3>2. SB!Make(w)
      BY <1>1, <2>2, <2>4, <3>1 DEF SB!Make
    <3>3. QED
      BY <3>2 DEF SB!SBNext
  <2>8. QED
    BY <2>6, <2>7
<1>7. CASE KillFc(w)
  <2>1. /\ fc' = [fc EXCEPT ![invocation][w] = "dead"] /\ UNCHANGED snap
        /\ fc[invocation][w] # "none"
    BY <1>7 DEF IInv, TaskInv, KillFc, At, Spawned, Snapped
  <2>2. Standing(w)' = "gone" /\ \A v \in Ids \ {w} : Standing(v)' = Standing(v)
    <3>1. "dead" \in States /\ invocation \in Invocations
      BY Owners DEF IInv, States
    <3>2. QED
      BY <1>1, <2>1, <3>1, NewStanding DEF IInv
  <2>3. Standing(w) \in {"gone", "running"}
    BY <2>1 DEF Standing
  <2>4. QED
    BY <1>1, <2>1, <2>2, <2>3, OneStands
<1>8. QED
  BY <1>2, <1>3, <1>4, <1>5, <1>6, <1>7
     DEF TaskStep, ClearSocket, RenderConfig, WaitPort, Tidy, Panic, Fail, fcVars

\* The step of a Firecracker, of this invocation or of an earlier one.
LEMMA FcRefines ==
  ASSUME IInv, NEW i \in Invocations, NEW w \in Ids, FcStep(i, w) \/ FcCrash(i, w)
  PROVE  [SB!SBNext]_SB!sbVars
<1>1. PICK s \in Alive \cup {"dead"} : fc' = [fc EXCEPT ![i][w] = s]
  BY DEF FcStep, FcBind, FcTap, GuestUp, FcCrash, Alive
<1>2. UNCHANGED <<invocation, main, snap>> /\ fc[i][w] \in Alive
  BY DEF FcStep, FcBind, FcTap, GuestUp, FcCrash, taskVars, Alive
<1>3. /\ \A v \in Ids : (i # invocation \/ v # w) => Standing(v)' = Standing(v)
      /\ i = invocation => Standing(w)' \in {"gone", "running"}
  BY <1>1, <1>2, NewStanding DEF IInv, States, Alive
<1>4. i = invocation => Standing(w) = "running"
  BY <1>2 DEF Standing, Alive
<1>5. QED
  BY <1>2, <1>3, <1>4, OneStands

\* The step of main, or a new invocation.
LEMMA MainRefines ==
  ASSUME IInv, "leave" \notin Faults, MainStep \/ Invoke
  PROVE  [SB!SBNext]_SB!sbVars
<1>1. CASE MainStep
  <2>1. /\ main \notin Exited /\ UNCHANGED <<invocation, fc, snap>>
        /\ main' \in {"running", "cleaning"} \cup Exited
    BY <1>1 DEF MainStep, Setup, JoinAll, JoinError, CleanupDirs, Exited, taskVars, fcVars
  <2>2. \A w \in Ids : Standing(w)' = Standing(w) /\ Good(w)' = Good(w)
    BY <2>1 DEF Standing, Good
  <2>3. UNCHANGED <<[w \in Ids |-> Standing(w)], {w \in Ids : Good(w)}>>
    BY <2>2
  <2>4. CASE main' \notin Exited
    BY <2>1, <2>2, <2>4, SameBuild
  <2>5. CASE main' = "error"
    <3>1. SB!GiveUp
      BY <2>1, <2>3, <2>5 DEF SB!GiveUp, Exited
    <3>2. QED
      BY <3>1 DEF SB!SBNext
  <2>6. CASE main' = "ok"
    <3>1. main = "cleaning"
      BY <1>1, <2>6 DEF MainStep, Setup, JoinAll, JoinError, CleanupDirs
    <3>2. \A w \in Ids : Good(w) /\ Standing(w) = "gone"
      BY <3>1 DEF IInv, MainInv, TaskInv, GuestInv, Good, Standing, Snapped
    <3>3. SB!Succeed
      BY <2>1, <2>3, <2>6, <3>2 DEF SB!Succeed, Exited
    <3>4. QED
      BY <3>3 DEF SB!SBNext
  <2>7. QED
    BY <2>1, <2>4, <2>5, <2>6 DEF Exited
<1>2. CASE Invoke
  <2>1. /\ main \in Exited /\ main' = "setup"
        /\ snap' = [w \in Ids |-> NoSnap] /\ UNCHANGED fc
        /\ invocation' \in Invocations /\ invocation' > invocation
    BY <1>2, MaxInvocationsAssumption DEF Invoke, fcVars, IInv, TypeOK, Invocations
  <2>2. \A w \in Ids : Standing(w)' = "absent"
    BY <2>1 DEF IInv, FcInv, Standing
  <2>3. \A w \in Ids : ~Good(w)'
    BY <2>1, MaxInvocationsAssumption DEF Good, NoSnap, Invocations
  <2>4. SB!Again
    BY <2>1, <2>2, <2>3 DEF SB!Again, SB!Absent, Exited
  <2>5. QED
    BY <2>4 DEF SB!SBNext
<1>3. QED
  BY <1>1, <1>2

\* As long as what an earlier invocation has left stays, build-snapshots keeps what
\* SnapshotBuild promises of a build.
THEOREM Refinement == ASSUME "leave" \notin Faults PROVE Spec => RefinesSnapshotBuild
<1>1. Init => SB!SBInit
  <2>1. ASSUME Init PROVE SB!SBInit
    <3>1. \A w \in Ids : Standing(w) = "absent" /\ ~Good(w) /\ main \notin Exited
      BY <2>1, MaxInvocationsAssumption DEF Init, Standing, Good, NoSnap, Exited, Invocations
    <3>2. main \notin Exited
      BY <2>1 DEF Init, Exited
    <3>3. QED
      BY <3>1, <3>2 DEF SB!SBInit, SB!Absent
  <2>2. QED
    BY <2>1
<1>2. IInv /\ [Next]_vars => [SB!SBNext]_SB!sbVars
  <2>1. ASSUME IInv, UNCHANGED vars PROVE [SB!SBNext]_SB!sbVars
    BY <2>1, SameBuild DEF vars, taskVars, fcVars, Standing, Good
  <2>2. QED
    BY <2>1, MainRefines, TaskRefines, FcRefines DEF Next, Rest
<1>3. QED
  BY Invariant, <1>1, <1>2, PTL DEF Spec, RefinesSnapshotBuild, SB!SBSpec

=============================================================================
