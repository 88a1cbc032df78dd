---------------------------- MODULE RunMultiProofs ----------------------------
(***************************************************************************)
(* RunMulti for every number of MicroVMs, runs, devices, invocations and   *)
(* builds, and whatever goes wrong: what exit status 0 means, and what has *)
(* been measured.                                                          *)
(***************************************************************************)
EXTENDS RunMulti, TLAPS

\* The current device is one, and no two of the sequence are the same.
LEMMA Devices ==
  ASSUME TypeOK
  PROVE  /\ device \in Device /\ device = DEVICES[d] /\ d \in 1..Len(DEVICES)
         /\ Len(DEVICES) \in Nat
         /\ \A j \in 1..Len(DEVICES) : DEVICES[j] \in Device
         /\ \A dev \in Device : \E j \in 1..Len(DEVICES) : dev = DEVICES[j]
         /\ \A j, k \in 1..Len(DEVICES) : DEVICES[j] = DEVICES[k] => j = k
<1>1. Len(DEVICES) \in Nat
  BY DevicesAssumption
<1>2. d \in 1..Len(DEVICES)
  BY DEF TypeOK
<1>3. QED
  BY <1>1, <1>2, DevicesAssumption DEF Device, device

\* The MicroVMs of an invocation are some of those there are snapshots of.
LEMMA Some ==
  ASSUME TypeOK
  PROVE  /\ Many \in Nat /\ many \in Nat /\ 1 <= many /\ many <= Many
         /\ Mine \subseteq Ids /\ 0 \in Mine
         /\ \A i \in Ids : i \in Nat
         /\ \A i \in Ids : i \in Mine <=> i <= many - 1
<1>1. Many \in Nat /\ many \in 1..Many
  BY ManyAssumption DEF TypeOK
<1>2. QED
  BY <1>1 DEF Mine, Ids

\* A file and its part are of the same build.
LEMMA Builds ==
  /\ Build(0) = 0 /\ 0 \in File
  /\ \A b \in 1..MaxBuilds : b \in File /\ -b \in File /\ Build(b) = b /\ Build(-b) = b
  /\ \A file \in File : /\ Build(file) \in 0..MaxBuilds /\ (Build(file) = 0 => file = 0)
                        /\ -Build(file) \in File /\ Build(-Build(file)) = Build(file)
BY MaxAssumption DEF Build, File

\* One file of a snapshot is replaced.
LEMMA PairUpdate ==
  ASSUME NEW s \in Snapshot, NEW k \in {1, 2}, NEW file \in File
  PROVE  /\ [s EXCEPT ![k] = file] \in Snapshot
         /\ \A m \in {1, 2} : [s EXCEPT ![k] = file][m] = IF m = k THEN file ELSE s[m]
BY DEF Snapshot

\* Both files of a snapshot are files.
LEMMA PairOf == ASSUME NEW s \in Snapshot PROVE s[1] \in File /\ s[2] \in File
BY DEF Snapshot

\* One file of one MicroVM on one device is replaced.
Put(dev, i, k, file) == [files EXCEPT ![dev][i][k] = file]

LEMMA FileUpdate ==
  ASSUME TypeOK, NEW dev \in Device, NEW i \in Ids, NEW k \in {1, 2}, NEW file \in File
  PROVE  /\ Put(dev, i, k, file) \in [Device -> [Ids -> Snapshot]]
         /\ \A e \in Device, j \in Ids, m \in {1, 2} :
              Put(dev, i, k, file)[e][j][m] =
                IF e = dev /\ j = i /\ m = k THEN file ELSE files[e][j][m]
<1> SUFFICES ASSUME NEW put, put = Put(dev, i, k, file)
             PROVE  /\ put \in [Device -> [Ids -> Snapshot]]
                    /\ \A e \in Device, j \in Ids, m \in {1, 2} :
                         put[e][j][m] = IF e = dev /\ j = i /\ m = k THEN file
                                        ELSE files[e][j][m]
  OBVIOUS
<1>1. /\ files \in [Device -> [Ids -> Snapshot]]
      /\ put = [files EXCEPT ![dev][i][k] = file]
  BY DEF TypeOK, Put
<1>2. \A e \in Device, j \in Ids :
        put[e][j] = IF e = dev /\ j = i THEN [files[e][j] EXCEPT ![k] = file]
                    ELSE files[e][j]
  BY <1>1
<1>3. \A e \in Device, j \in Ids : put[e][j] \in Snapshot
  BY <1>1, <1>2, PairUpdate
<1>4. put = [e \in Device |-> put[e]] /\ \A e \in Device : put[e] = [j \in Ids |-> put[e][j]]
  BY <1>1
<1>5. QED
  BY <1>1, <1>2, <1>3, <1>4, PairUpdate

\* What outlives the script are Firecrackers of its MicroVMs.
LEMMA LeftoversType ==
  ASSUME TypeOK, NEW now \in [Ids -> Alive \cup {"none", "dead"}]
  PROVE  Leftovers(now) \subseteq Ids \X BOOLEAN
<1>1. \A i \in Ids : (now[i] = "loaded") \in BOOLEAN
  BY Zenon
<1>2. \A i \in Ids : <<i, now[i] = "loaded">> \in Ids \X BOOLEAN
  BY <1>1, Zenon
<1>3. {<<i, now[i] = "loaded">> : i \in {j \in Ids : now[j] \in Alive}} \subseteq Ids \X BOOLEAN
  BY <1>2, Zenon
<1>4. left \subseteq Ids \X BOOLEAN
  BY DEF TypeOK
<1>5. QED
  BY <1>3, <1>4, Zenon DEF Leftovers

\* The result files never get longer than the type says.
LEMMA LinesType ==
  ASSUME LineInv, TypeOK
  PROVE  /\ \A j \in 1..Len(DEVICES), r \in RunNumber :
              /\ base[DEVICES[j]][r] \in Nat /\ lines[DEVICES[j]][r] \in Nat
              /\ lines[DEVICES[j]][r] \in
                   base[DEVICES[j]][r]..(base[DEVICES[j]][r] + many)
         /\ Many * invocation \in 0..(Many * MaxInvocations)
         /\ invocation \in Nat /\ Many \in Nat /\ many \in Nat /\ many <= Many
<1>1. \A j \in 1..Len(DEVICES), r \in RunNumber :
        base[DEVICES[j]][r] \in Nat /\ lines[DEVICES[j]][r] \in Nat
  <2>1. Many * MaxInvocations \in Nat
    BY ManyAssumption, MaxAssumption
  <2>2. \A n \in 0..(Many * MaxInvocations) : n \in Nat
    BY <2>1
  <2>3. QED
    BY <2>2, Devices DEF TypeOK
<1>2. Many * invocation \in 0..(Many * MaxInvocations) /\ invocation \in Nat
  BY ManyAssumption, MaxAssumption DEF TypeOK
<1>3. Many \in Nat /\ many \in Nat /\ many <= Many
  BY Some
<1>4. ASSUME NEW j \in 1..Len(DEVICES), NEW r \in RunNumber
      PROVE  lines[DEVICES[j]][r] \in base[DEVICES[j]][r]..(base[DEVICES[j]][r] + many)
  BY <1>1, <1>3 DEF LineInv
<1>5. QED
  BY <1>1, <1>2, <1>3, <1>4

\* A step that appends the results of a run at most stays within the bound.
LEMMA LinesBounded ==
  ASSUME IInv, NEW dev \in Device, NEW r \in RunNumber,
         \A j \in 1..Len(DEVICES) :
           lines'[DEVICES[j]][r] \in base[DEVICES[j]][r]..(base[DEVICES[j]][r] + many)
  PROVE  lines'[dev][r] \in 0..(Many * MaxInvocations)
<1>1. PICK j \in 1..Len(DEVICES) : dev = DEVICES[j]
  BY Devices DEF IInv
<1>2. lines'[dev][r] \in base[DEVICES[j]][r]..(base[DEVICES[j]][r] + many)
  BY <1>1
<1>3. base[DEVICES[j]][r] + Many <= Many * invocation
  BY DEF IInv, LineInv
<1>4. /\ Many \in Nat /\ many \in Nat /\ many <= Many /\ base[DEVICES[j]][r] \in Nat
      /\ Many * invocation \in 0..(Many * MaxInvocations)
  BY LinesType DEF IInv
<1>5. \A most, all : most \in 0..all /\ all \in Int =>
        \A n \in base[DEVICES[j]][r]..(base[DEVICES[j]][r] + many) :
          base[DEVICES[j]][r] + Many <= most => n \in 0..all
  BY <1>4
<1>6. Many * MaxInvocations \in Int
  BY ManyAssumption, MaxAssumption
<1>7. QED
  BY <1>2, <1>3, <1>4, <1>5, <1>6

\* The invariant holds at the start.
LEMMA InitInv == Init => IInv
<1> SUFFICES ASSUME Init PROVE IInv
  OBVIOUS
<1>1. /\ 1 \in 1..MaxInvocations /\ 1 \in 1..MaxBuilds /\ 1 \in 1..Len(DEVICES)
      /\ 1 \in RunNumber /\ 0 \in Mine /\ <<1, 1>> \in Snapshot /\ <<0, 0>> \in Snapshot
  BY MaxAssumption, DevicesAssumption, RunsAssumption, ManyAssumption
     DEF Init, RunNumber, Mine, Snapshot, File
<1>2. 0 \in 0..(Many * MaxInvocations) /\ Many * 1 = Many /\ Many \in Nat
  BY ManyAssumption, MaxAssumption
<1>3. TypeOK
  BY <1>1, <1>2 DEF Init, TypeOK, NoLines, NoneUsed
<1>4. FcInv
  BY DEF Init, FcInv
<1>5. LineInv
  <2>1. \A j \in 1..Len(DEVICES), r \in RunNumber : ~Done(j, r)
    BY DevicesAssumption DEF Init, Done, RunNumber
  <2>2. \A j \in 1..Len(DEVICES), r \in RunNumber :
          base[DEVICES[j]][r] = 0 /\ lines[DEVICES[j]][r] = 0
    BY <1>3, Devices DEF Init, NoLines
  <2>3. QED
    BY <1>2, <2>1, <2>2 DEF Init, LineInv
<1>6. FileInv
  <2>1. \A i \in Mine, k \in {1, 2} : ~Copied(i, k)
    BY DEF Init, Copied, Copying, which, Mine
  <2>2. QED
    BY <1>1, <1>3, <2>1, Devices, Builds DEF Init, FileInv
<1>7. CacheInv /\ UsedInv
  BY DEF Init, CacheInv, UsedInv, BlockDevicesCurrent, NeverMixed, EveryRunCold, NoneUsed
<1>8. QED
  BY <1>3, <1>4, <1>5, <1>6, <1>7 DEF IInv

(***************************************************************************)
(* The script ends.                                                        *)
(***************************************************************************)
\* It exits with an error or is killed, maybe with a copy half done or with some of
\* the results of the run appended.
LEMMA AbortMove ==
  ASSUME IInv, clean' \in BOOLEAN, pc \notin Exited, pc' = "failed",
         fc' = [i \in Ids |-> "none"], left' \subseteq Ids \X BOOLEAN,
         UNCHANGED <<invocation, many, loopVars, built, source, cached, sock, base, used, alone>>,
         files' \in [Device -> [Ids -> Snapshot]],
         \A dev \in Device \cap {"dcpm"}, i \in Ids :
           files'[dev][i][2] # 0 => Build(files'[dev][i][1]) = Build(files'[dev][i][2]),
         \/ lines' = lines
         \/ pc = "client" /\ \E n \in 0..many : lines' = [lines EXCEPT ![device][run] = @ + n]
  PROVE  IInv'
<1>1. FcInv'
  BY DEF FcInv, Exited
<1>2. ASSUME NEW j \in 1..Len(DEVICES), NEW r \in RunNumber
      PROVE  lines'[DEVICES[j]][r] \in base[DEVICES[j]][r]..(base[DEVICES[j]][r] + many)
  <2>1. CASE lines' = lines
    BY <1>2, <2>1, LinesType DEF IInv
  <2>2. ASSUME pc = "client", NEW n \in 0..many,
               lines' = [lines EXCEPT ![device][run] = @ + n]
        PROVE  lines'[DEVICES[j]][r] \in base[DEVICES[j]][r]..(base[DEVICES[j]][r] + many)
    <3>1. lines'[DEVICES[j]][r] =
            IF DEVICES[j] = device /\ r = run THEN lines[DEVICES[j]][r] + n
            ELSE lines[DEVICES[j]][r]
      <4>1. lines \in [Device -> [RunNumber -> 0..(Many * MaxInvocations)]]
        BY DEF IInv, TypeOK
      <4>2. DEVICES[j] \in Device /\ device \in Device
        BY <1>2, Devices DEF IInv
      <4>3. QED
        BY <1>2, <2>2, <4>1, <4>2
    <3>2. CASE DEVICES[j] = device /\ r = run
      <4>1. j = d
        BY <1>2, <3>2, Devices DEF IInv
      <4>2. ~Done(j, r)
        BY <2>2, <3>2, <4>1 DEF Done, IInv, TypeOK, RunNumber
      <4>3. lines[DEVICES[j]][r] = base[DEVICES[j]][r]
        BY <1>2, <2>2, <4>2, LinesType DEF IInv, LineInv
      <4>4. many \in Nat /\ base[DEVICES[j]][r] \in Nat
        BY <1>2, LinesType DEF IInv
      <4>5. lines'[DEVICES[j]][r] = base[DEVICES[j]][r] + n
        BY <3>1, <3>2, <4>3
      <4>6. QED
        BY <2>2, <4>4, <4>5
    <3>3. QED
      BY <1>2, <3>1, <3>2, LinesType DEF IInv
  <2>3. QED
    BY <2>1, <2>2
<1>3. LineInv'
  BY <1>2 DEF IInv, LineInv, Copying
<1>4. FileInv'
  BY DEF IInv, FileInv, Exited
<1>5. CacheInv' /\ UsedInv'
  BY DEF IInv, CacheInv, UsedInv, BlockDevicesCurrent, NeverMixed, EveryRunCold, Exited
<1>6. lines' \in [Device -> [RunNumber -> 0..(Many * MaxInvocations)]]
  <2>1. DOMAIN lines' = Device /\ \A dev \in Device : DOMAIN lines'[dev] = RunNumber
    BY DEF IInv, TypeOK
  <2>2. ASSUME NEW dev \in Device, NEW r \in RunNumber
        PROVE  lines'[dev][r] \in 0..(Many * MaxInvocations)
    BY <1>2, LinesBounded
  <2>3. lines' = [dev \in Device |-> [r \in RunNumber |-> lines'[dev][r]]]
    BY <2>1 DEF IInv, TypeOK
  <2>4. QED
    BY <2>2, <2>3
<1>7. TypeOK'
  BY <1>6 DEF IInv, TypeOK, Exited, loopVars, Mine
<1>8. QED
  BY <1>1, <1>3, <1>4, <1>5, <1>7 DEF IInv

\* The same, when no file is touched.
LEMMA AbortStep ==
  ASSUME IInv, clean' \in BOOLEAN, pc \notin Exited, Abort, UNCHANGED fileVars
  PROVE  IInv'
<1>1. left' \subseteq Ids \X BOOLEAN
  BY LeftoversType DEF Abort, IInv, TypeOK
<1>2. QED
  BY <1>1, AbortMove DEF Abort, fileVars, outVars, IInv, TypeOK, FileInv

(***************************************************************************)
(* A run.                                                                  *)
(***************************************************************************)
\* As long as it has not been measured the result files are as they were.
LEMMA LinesKept ==
  ASSUME IInv, UNCHANGED <<lines, base, invocation, many>>, pc \notin {"failed", "rebuilt"},
         pc' \notin {"failed", "rebuilt"}, Copying' => run' = 1,
         pc' \in {"chown", "ok"} => d' = Len(DEVICES) /\ run' = Runs,
         \A j \in 1..Len(DEVICES), r \in RunNumber : Done(j, r)' <=> Done(j, r)
  PROVE  LineInv'
BY DEF IInv, LineInv

\* Between the copying and killall: no file is touched, nothing is measured.
LEMMA Onwards ==
  ASSUME IInv, clean' \in BOOLEAN, pc \in {"evict", "spawn", "log", "client"},
         pc' \in {"evict", "spawn", "log", "client", "hung"}, id' \in Mine,
         UNCHANGED <<invocation, many, d, run, fileVars, left, outVars>>,
         cached' \subseteq Ids, sock' \subseteq Ids,
         fc' \in [Ids -> Alive \cup {"none", "dead"}],
         pc' = "evict" => \A i \in Ids : fc'[i] = "none",
         alone /\ pc' \in {"spawn", "log", "client"} => cached' = {}
  PROVE  IInv'
<1>1. TypeOK'
  BY DEF IInv, TypeOK, fileVars, outVars, Mine
<1>2. FcInv'
  BY DEF FcInv, Exited
<1>3. LineInv'
  BY LinesKept DEF outVars, Done, Copying
<1>4. FileInv'
  BY DEF IInv, FileInv, fileVars, device, Copied, Copying, Exited, Mine
<1>5. CacheInv' /\ UsedInv'
  BY DEF IInv, CacheInv, UsedInv, BlockDevicesCurrent, NeverMixed, EveryRunCold, Exited,
     fileVars, outVars
<1>6. QED
  BY <1>1, <1>2, <1>3, <1>4, <1>5 DEF IInv

\* With no Firecracker left the eviction leaves nothing in the page cache.
LEMMA EvictInv == ASSUME IInv, clean' \in BOOLEAN, Evict PROVE IInv'
<1>1. alone => cached' = {}
  <2>1. pc = "evict" /\ cached' = {i \in cached : Mapped(i)} /\ cached \subseteq Ids
    BY DEF Evict, IInv, TypeOK
  <2>2. alone => left = {}
    BY <2>1 DEF IInv, CacheInv, Exited
  <2>3. \A i \in Ids : fc[i] = "none"
    BY <2>1 DEF IInv, FcInv
  <2>4. QED
    BY <2>1, <2>2, <2>3 DEF Mapped
<1>2. cached' \subseteq Ids
  BY DEF Evict, IInv, TypeOK
<1>3. QED
  BY <1>1, <1>2, Onwards DEF Evict, loopVars, fcVars, IInv, TypeOK

\* The Firecrackers are spawned one by one.
LEMMA SpawnInv == ASSUME IInv, clean' \in BOOLEAN, Spawn PROVE IInv'
<1>1. /\ fc' \in [Ids -> Alive \cup {"none", "dead"}]
      /\ sock' \subseteq Ids
  BY DEF Spawn, IInv, TypeOK, Alive
<1>2. id' \in Mine
  <2>1. id \in Mine /\ 0 \in Mine /\ many \in Nat
    BY Some DEF IInv, TypeOK
  <2>2. id' = 0 \/ (id' = id + 1 /\ id # many - 1)
    BY DEF Spawn, LastId
  <2>3. QED
    BY <2>1, <2>2 DEF Mine
<1>3. QED
  BY <1>1, <1>2, Onwards DEF Spawn, fileVars, outVars, IInv, CacheInv, TypeOK

\* log_progress lets the script go on or ends it.
LEMMA LogInv == ASSUME IInv, clean' \in BOOLEAN, LogProgress PROVE IInv'
<1>1. CASE pc' = "client" /\ UNCHANGED <<invocation, many, loopVars, cached, fcVars, outVars>>
  BY <1>1, Onwards DEF LogProgress, loopVars, fcVars, IInv, CacheInv, TypeOK
<1>2. CASE Abort
  BY <1>2, AbortStep DEF LogProgress, Exited
<1>3. QED
  BY <1>1, <1>2 DEF LogProgress

\* Firecrackers in which a snapshot was loaded are Firecrackers.
LEMMA LoadedType ==
  ASSUME TypeOK, NEW l PROVE Loaded(l) \in [Ids -> Alive \cup {"none", "dead"}]
BY DEF TypeOK, Loaded, Alive

\* The client fails, hangs or is killed.
LEMMA ClientBadInv ==
  ASSUME IInv, clean' \in BOOLEAN, ClientFails \/ ClientHangs \/ ClientKilled
  PROVE  IInv'
<1>1. CASE ClientFails
  <2>1. left' \subseteq Ids \X BOOLEAN
    BY <1>1, LoadedType, LeftoversType DEF ClientFails, IInv
  <2>2. QED
    BY <1>1, <2>1, AbortMove DEF ClientFails, fileVars, outVars, IInv, TypeOK, FileInv, Exited
<1>2. CASE ClientHangs
  <2>1. fc' \in [Ids -> Alive \cup {"none", "dead"}]
    BY <1>2, LoadedType DEF ClientHangs, IInv
  <2>2. QED
    BY <1>2, <2>1, Onwards DEF ClientHangs, loopVars, IInv, TypeOK
<1>3. CASE ClientKilled
  <2>1. left' \subseteq Ids \X BOOLEAN
    BY <1>3, LoadedType, LeftoversType DEF ClientKilled, IInv
  <2>2. \E n \in 0..many : lines' = [lines EXCEPT ![device][run] = @ + n]
    <3>1. PICK n \in 1..(many - 1) : lines' = [lines EXCEPT ![device][run] = @ + n]
      BY <1>3 DEF ClientKilled
    <3>2. n \in 0..many
      BY Some DEF IInv
    <3>3. QED
      BY <3>1, <3>2
  <2>3. /\ pc = "client" /\ pc \notin Exited /\ pc' = "failed"
        /\ fc' = [i \in Ids |-> "none"] /\ UNCHANGED files
        /\ UNCHANGED <<invocation, many, loopVars, built, source, cached, sock, base, used, alone>>
    BY <1>3 DEF ClientKilled, fileVars, Exited
  <2>4. /\ files' \in [Device -> [Ids -> Snapshot]]
        /\ \A dev \in Device \cap {"dcpm"}, i \in Ids :
             files'[dev][i][2] # 0 => Build(files'[dev][i][1]) = Build(files'[dev][i][2])
    BY <2>3 DEF IInv, TypeOK, FileInv
  <2>5. QED
    BY <2>1, <2>2, <2>3, <2>4, AbortMove
<1>4. QED
  BY <1>1, <1>2, <1>3

\* All tasks succeed: every MicroVM had both its files, on a block device as they
\* were last built.
LEMMA ClientOkInv == ASSUME IInv, clean' \in BOOLEAN, ClientOk PROVE IInv'
<1>1. /\ pc = "client" /\ pc' = "killall" /\ cached' = cached \cup Mine /\ ~Copying /\ pc \notin Exited
      /\ fc' = Loaded(Mine)
      /\ lines' = [lines EXCEPT ![device][run] = @ + many]
      /\ used' = [used EXCEPT ![device] =
            @ \cup {[from |-> files[device][i], warm |-> i \in cached] : i \in Mine}]
      /\ UNCHANGED <<invocation, many, loopVars, fileVars, left, sock, base, alone>>
  BY DEF ClientOk, Copying, Exited
<1>2. \A i \in Mine : ~Missing(i) /\ i \in Ids
  BY Some DEF ClientOk, Failing, Doomed, IInv
<1>3. FcInv'
  BY <1>1 DEF FcInv, Exited
<1>4. \A j \in 1..Len(DEVICES), r \in RunNumber :
        lines'[DEVICES[j]][r] = lines[DEVICES[j]][r] + (IF j = d /\ r = run THEN many ELSE 0)
  <2>1. \A j \in 1..Len(DEVICES) : DEVICES[j] \in Device /\ (DEVICES[j] = device <=> j = d)
    BY Devices DEF IInv
  <2>2. \A j \in 1..Len(DEVICES), r \in RunNumber : lines[DEVICES[j]][r] \in Nat
    BY LinesType DEF IInv
  <2>3. \A j \in 1..Len(DEVICES), r \in RunNumber :
          lines'[DEVICES[j]][r] = IF DEVICES[j] = device /\ r = run
                                  THEN lines[DEVICES[j]][r] + many ELSE lines[DEVICES[j]][r]
    BY <1>1, <2>1 DEF IInv, TypeOK
  <2>4. QED
    BY <2>1, <2>2, <2>3
<1>5. LineInv'
  <2>1. ASSUME NEW j \in 1..Len(DEVICES), NEW r \in RunNumber
        PROVE  /\ Done(j, r)' <=> Done(j, r) \/ (j = d /\ r = run)
               /\ ~(Done(j, r) /\ j = d /\ r = run)
    BY <1>1, Devices DEF Done, loopVars, IInv, TypeOK, RunNumber
  <2>2. ASSUME NEW j \in 1..Len(DEVICES), NEW r \in RunNumber
        PROVE  lines'[DEVICES[j]][r] = base[DEVICES[j]][r] + (IF Done(j, r)' THEN many ELSE 0)
    <3>1. lines[DEVICES[j]][r] = base[DEVICES[j]][r] + (IF Done(j, r) THEN many ELSE 0)
      BY <1>1 DEF IInv, LineInv
    <3>2. base[DEVICES[j]][r] \in Nat /\ many \in Nat
      BY LinesType DEF IInv
    <3>3. QED
      BY <1>4, <2>1, <3>1, <3>2
  <2>3. QED
    BY <1>1, <2>2 DEF IInv, LineInv, Copying
<1>6. FileInv'
  BY <1>1 DEF IInv, FileInv, fileVars, loopVars, device, Copied, Copying, Exited, Mine
<1>7. CacheInv'
  BY <1>1 DEF IInv, CacheInv, Exited
<1>8. ASSUME NEW dev \in Device, NEW u \in used'[dev]
      PROVE  \/ u \in used[dev]
             \/ dev = device /\ \E i \in Mine : u.from = files[device][i]
                                                /\ u.warm = (i \in cached)
  <2>1. used'[dev] = IF dev = device
                     THEN used[dev] \cup {[from |-> files[device][i], warm |-> i \in cached]
                                          : i \in Mine}
                     ELSE used[dev]
    BY <1>1 DEF IInv, TypeOK
  <2>2. CASE u \in {[from |-> files[device][i], warm |-> i \in cached] : i \in Mine}
             /\ dev = device
    <3>1. PICK i \in Mine : u = [from |-> files[device][i], warm |-> i \in cached]
      BY <2>2
    <3>2. u.from = files[device][i] /\ u.warm = (i \in cached)
      BY <3>1
    <3>3. QED
      BY <2>2, <3>2
  <2>3. QED
    BY <1>8, <2>1, <2>2
<1>9. ASSUME NEW i \in Mine
      PROVE  /\ Build(files[device][i][1]) = Build(files[device][i][2])
             /\ device # "dcpm" => Build(files[device][i][1]) = built
  <2>1. CASE device = "dcpm"
    BY <1>2, <2>1, Devices DEF IInv, FileInv, Missing
  <2>2. CASE device # "dcpm"
    BY <1>1, <2>2 DEF IInv, FileInv, Copied
  <2>3. QED
    BY <2>1, <2>2
<1>10. UsedInv'
  <2>1. NeverMixed'
    BY <1>8, <1>9 DEF IInv, UsedInv, NeverMixed
  <2>2. BlockDevicesCurrent'
    BY <1>1, <1>8, <1>9 DEF IInv, UsedInv, BlockDevicesCurrent, fileVars
  <2>3. EveryRunCold'
    BY <1>1, <1>8 DEF IInv, UsedInv, EveryRunCold, CacheInv
  <2>4. QED
    BY <2>1, <2>2, <2>3 DEF UsedInv
<1>11. used' \in [Device -> SUBSET [from : Snapshot, warm : BOOLEAN]]
  <2>1. \A i \in Mine : (i \in cached) \in BOOLEAN
    OBVIOUS
  <2>2. \A i \in Mine : files[device][i] \in Snapshot
    BY <1>2, Devices DEF IInv, TypeOK
  <2>3. {[from |-> files[device][i], warm |-> i \in cached] : i \in Mine}
          \subseteq [from : Snapshot, warm : BOOLEAN]
    <3>1. \A i \in Mine : [from |-> files[device][i], warm |-> i \in cached]
                            \in [from : Snapshot, warm : BOOLEAN]
      BY <2>1, <2>2
    <3>2. QED
      BY <3>1, Zenon
  <2>4. QED
    BY <1>1, <2>3 DEF IInv, TypeOK
<1>12. lines' \in [Device -> [RunNumber -> 0..(Many * MaxInvocations)]]
  <2>1. \A dev \in Device, r \in RunNumber : lines'[dev][r] \in 0..(Many * MaxInvocations)
    <3>1. \A j \in 1..Len(DEVICES), r \in RunNumber :
            lines'[DEVICES[j]][r] \in base[DEVICES[j]][r]..(base[DEVICES[j]][r] + many)
      <4>1. \A j \in 1..Len(DEVICES), r \in RunNumber :
              base[DEVICES[j]][r] \in Nat /\ many \in Nat
        BY LinesType DEF IInv
      <4>2. QED
        BY <1>1, <1>5, <4>1 DEF LineInv
    <3>2. QED
      BY <3>1, LinesBounded
  <2>2. lines' = [dev \in Device |-> [r \in RunNumber |-> lines'[dev][r]]]
    BY <1>1 DEF IInv, TypeOK
  <2>3. QED
    BY <2>1, <2>2
<1>13. TypeOK'
  <2>1. fc' \in [Ids -> Alive \cup {"none", "dead"}] /\ cached' \subseteq Ids
    BY <1>1, LoadedType, Some DEF IInv, TypeOK
  <2>2. QED
    BY <1>1, <1>11, <1>12, <2>1 DEF IInv, TypeOK, fileVars, loopVars, Mine
<1>14. QED
  BY <1>3, <1>5, <1>6, <1>7, <1>10, <1>13 DEF IInv

\* killall leaves no Firecracker, whoever spawned it; then comes the next run, on the
\* next device if this was the last one, or the end.
LEMMA KillallInv == ASSUME IInv, clean' \in BOOLEAN, Killall PROVE IInv'
<1>1. CASE Abort
  BY <1>1, AbortStep DEF Killall, Exited
<1>2. CASE /\ fc' = [i \in Ids |-> "none"] /\ left' = {} /\ NextRun
           /\ UNCHANGED <<invocation, many, cached, sock, outVars>>
  <2>1. pc = "killall" /\ ~Copying /\ pc \notin Exited /\ UNCHANGED fileVars
    BY <1>2 DEF Killall, Copying, Exited
  <2>2. /\ d \in Nat /\ Len(DEVICES) \in Nat /\ d <= Len(DEVICES) /\ d >= 1
        /\ run \in Nat /\ run <= Runs /\ run >= 1 /\ Runs \in Nat
    BY RunsAssumption, Devices DEF IInv, TypeOK, RunNumber
  <2>3. \/ run < Runs /\ pc' = "evict" /\ run' = run + 1 /\ UNCHANGED <<d, id>>
        \/ run = Runs /\ d < Len(DEVICES) /\ pc' = "copyState" /\ d' = d + 1 /\ run' = 1
           /\ id' = 0
        \/ run = Runs /\ d = Len(DEVICES) /\ pc' = "chown" /\ UNCHANGED loopVars
    BY <1>2, <2>2 DEF NextRun
  <2>4. /\ d' \in 1..Len(DEVICES) /\ run' \in RunNumber /\ id' \in Mine
        /\ pc' \in {"evict", "copyState", "chown"}
    BY <2>2, <2>3, Some DEF IInv, TypeOK, RunNumber, loopVars
  <2>5. TypeOK'
    BY <1>2, <2>1, <2>4 DEF IInv, TypeOK, fileVars, outVars, Mine
  <2>6. FcInv'
    BY <1>2 DEF FcInv
  <2>7. LineInv'
    <3>1. ASSUME NEW j \in 1..Len(DEVICES), NEW r \in RunNumber
          PROVE  Done(j, r)' <=> Done(j, r)
      <4>1. j \in Nat /\ r \in Nat /\ r <= Runs /\ r >= 1
        BY <2>2 DEF RunNumber
      <4>2. QED
        BY <2>1, <2>2, <2>3, <4>1 DEF Done, loopVars
    <3>2. QED
      BY <1>2, <2>1, <2>3, <3>1, LinesKept DEF outVars, Copying, Exited, loopVars
  <2>8. FileInv'
    <3>1. CASE pc' \in {"evict", "chown"}
      BY <1>2, <2>1, <2>3, <3>1
         DEF IInv, FileInv, fileVars, device, Copied, Copying, Exited, loopVars, Mine
    <3>2. CASE pc' = "copyState"
      <4>1. \A i \in Mine, k \in {1, 2} : ~Copied(i, k)'
        BY <2>3, <3>2 DEF Copied, Copying, which, Mine
      <4>2. QED
        BY <1>2, <2>1, <3>2, <4>1 DEF IInv, FileInv, fileVars, Mine
    <3>3. QED
      BY <2>4, <3>1, <3>2
  <2>9. CacheInv' /\ UsedInv'
    BY <1>2, <2>1, <2>4 DEF IInv, CacheInv, UsedInv, BlockDevicesCurrent, NeverMixed,
       EveryRunCold, fileVars, outVars
  <2>10. QED
    BY <2>5, <2>6, <2>7, <2>8, <2>9 DEF IInv
<1>3. QED
  BY <1>1, <1>2 DEF Killall

\* Exit status 0.
LEMMA ChownInv == ASSUME IInv, clean' \in BOOLEAN, Chown PROVE IInv'
<1>1. /\ pc = "chown" /\ pc' = "ok"
      /\ UNCHANGED <<invocation, many, loopVars, fileVars, cached, fcVars, outVars>>
  BY DEF Chown
<1>2. LineInv'
  BY <1>1, LinesKept DEF IInv, LineInv, Done, Copying, loopVars, outVars
<1>3. QED
  BY <1>1, <1>2 DEF IInv, TypeOK, FcInv, FileInv, CacheInv, UsedInv, BlockDevicesCurrent,
     NeverMixed, EveryRunCold, Exited, loopVars, fileVars, fcVars, outVars, Mine

(***************************************************************************)
(* Copying.                                                                *)
(***************************************************************************)
\* The loop over the MicroVMs has its bounds.
LEMMA CopyDoneType ==
  ASSUME IInv, Copying, CopyDone
  PROVE  /\ pc' \in {"copyMem", "copyState", "evict"} /\ id' \in Mine
         /\ UNCHANGED <<d, run>> /\ run = 1
<1>1. run = 1
  BY DEF IInv, LineInv
<1>2. ~LastId => id + 1 \in Mine
  <2>1. id \in Mine /\ many \in Nat
    BY Some DEF IInv, TypeOK
  <2>2. QED
    BY <2>1 DEF LastId, Mine
<1>3. 0 \in Mine
  BY Some DEF IInv
<1>4. QED
  BY <1>1, <1>2, <1>3 DEF CopyDone, loopVars, IInv, TypeOK

\* What the copying changes are files and the page cache.
LEMMA CopyMove ==
  ASSUME IInv, clean' \in BOOLEAN, Copying, CopyDone, cached' = cached \cup {id},
         files' \in [Device -> [Ids -> Snapshot]], FileInv',
         UNCHANGED <<invocation, many, built, source, fcVars, outVars>>
  PROVE  IInv'
<1>1. pc \in {"copyState", "copyMem"} /\ pc \notin Exited
  BY DEF Copying, Exited
<1>2. TypeOK'
  BY <1>1, CopyDoneType, Some DEF IInv, TypeOK, fcVars, outVars, Mine
<1>3. FcInv'
  BY <1>1, CopyDoneType DEF IInv, FcInv, fcVars
<1>4. LineInv'
  BY <1>1, CopyDoneType, LinesKept DEF Done, outVars
<1>5. CacheInv' /\ UsedInv'
  BY <1>1, CopyDoneType DEF IInv, CacheInv, UsedInv, BlockDevicesCurrent, NeverMixed,
     EveryRunCold, fcVars, outVars
<1>6. QED
  BY <1>2, <1>3, <1>4, <1>5 DEF IInv

\* On the PMEM device nothing is known of a snapshot but that it is not mixed.
LEMMA SkipInv == ASSUME IInv, clean' \in BOOLEAN, Skip PROVE IInv'
<1>1. /\ Copying /\ CopyDone /\ device = "dcpm" /\ UNCHANGED fileVars
      /\ pc' \in {"copyState", "evict"} /\ UNCHANGED d
  BY DEF Skip, Here, CopyDone, Copying, loopVars
<1>2. FileInv'
  BY <1>1 DEF IInv, FileInv, fileVars, device
<1>3. QED
  BY <1>1, <1>2, CopyMove DEF Skip, fileVars, IInv, TypeOK

\* A file that was copied is of the last build; on the PMEM device, its memory file
\* is copied only next to a state file of the same build.
LEMMA CopyInv == ASSUME IInv, clean' \in BOOLEAN, Copy PROVE IInv'
<1>1. /\ Copying /\ CopyDone /\ which \in {1, 2} /\ source[id][which] # 0
      /\ device = "dcpm" => files[device][id][which] = 0
      /\ files' = [files EXCEPT ![device][id][which] = source[id][which]]
      /\ UNCHANGED <<invocation, many, built, source, fcVars, outVars>>
      /\ cached' = cached \cup {id}
  BY DEF Copy, Wanted, which
<1>2. source[id][which] \in File /\ id \in Mine /\ id \in Ids /\ device \in Device
  BY <1>1, PairOf, Some, Devices DEF IInv, TypeOK
<1>3. Build(source[id][which]) = built
  BY <1>1, <1>2 DEF IInv, FileInv
<1>4. /\ files' \in [Device -> [Ids -> Snapshot]]
      /\ \A e \in Device, j \in Ids, m \in {1, 2} :
           files'[e][j][m] = IF e = device /\ j = id /\ m = which THEN source[id][which]
                             ELSE files[e][j][m]
  <2>1. TypeOK /\ which \in {1, 2}
    BY <1>1 DEF IInv
  <2>2. files' = Put(device, id, which, source[id][which])
    BY <1>1 DEF Put
  <2>3. QED
    BY <1>2, <2>1, <2>2, FileUpdate
<1>5. device' = device
  BY <1>1, CopyDoneType DEF device
<1>6. pc \notin Exited
  BY <1>1 DEF Copying, Exited
<1>7. CASE pc = "copyState"
  <2>1. which = 1 /\ ~Here
    BY <1>1, <1>7 DEF which, Here
  <2>2. pc' = "copyMem" /\ UNCHANGED loopVars
    BY <1>1, <1>7, <2>1 DEF CopyDone
  <2>3. \A i \in Mine, k \in {1, 2} : Copied(i, k)' => Copied(i, k) \/ (i = id /\ k = 1)
    BY <1>7, <2>2 DEF Copied, Copying, which, loopVars
  <2>4. device = "dcpm" => files[device][id][1] = 0 /\ files[device][id][2] = 0
    <3>1. device = "dcpm" => files[device][id][1] = 0
      BY <1>1, <2>1
    <3>2. files[device][id][2] \in File
      BY <1>2, PairOf DEF IInv, TypeOK
    <3>3. QED
      BY <1>2, <3>1, <3>2, Builds DEF IInv, FileInv
  <2>5. FileInv'
    <3>1. \A i \in Ids, k \in {1, 2} : source'[i][k] # 0 => Build(source'[i][k]) = built'
      BY <1>1 DEF IInv, FileInv
    <3>2. device # "dcpm" =>
            \A i \in Mine, k \in {1, 2} : Copied(i, k)' => Build(files'[device][i][k]) = built
      BY <1>2, <1>3, <1>4, <1>5, <1>6, <2>1, <2>3, Some DEF IInv, FileInv
    <3>3. device = "dcpm" => files'[device][id][2] = 0 /\ Build(files'[device][id][1]) = built
      BY <1>2, <1>3, <1>4, <2>1, <2>4
    <3>4. \A dev \in Device \cap {"dcpm"}, i \in Ids :
            files'[dev][i][2] # 0 => Build(files'[dev][i][1]) = Build(files'[dev][i][2])
      BY <1>2, <1>4, <2>1, <2>4 DEF IInv, FileInv
    <3>5. QED
      BY <1>1, <1>5, <2>2, <3>1, <3>2, <3>3, <3>4 DEF FileInv, loopVars, Mine
  <2>6. QED
    BY <1>1, <1>4, <2>5, CopyMove
<1>8. CASE pc = "copyMem"
  <2>1. which = 2
    BY <1>8 DEF which
  <2>2. /\ pc' \in {"copyState", "evict"}
        /\ pc' = "copyState" => id' = id + 1
        /\ pc' = "evict" => id = many - 1
    BY <1>1, <1>8 DEF CopyDone, LastId
  <2>3. \A i \in Mine, k \in {1, 2} : Copied(i, k)' => i <= id
    BY <1>2, <2>2, Some DEF Copied, Copying, which, IInv
  <2>4. \A i \in Mine, k \in {1, 2} : i <= id => Copied(i, k) \/ (i = id /\ k = 2)
    BY <1>2, <1>8, <2>1, Some DEF Copied, IInv
  <2>5. device = "dcpm" => Build(files[device][id][1]) = built
    BY <1>8 DEF IInv, FileInv
  <2>6. FileInv'
    <3>1. \A i \in Ids, k \in {1, 2} : source'[i][k] # 0 => Build(source'[i][k]) = built'
      BY <1>1 DEF IInv, FileInv
    <3>2. device # "dcpm" =>
            \A i \in Mine, k \in {1, 2} : Copied(i, k)' => Build(files'[device][i][k]) = built
      BY <1>2, <1>3, <1>4, <1>6, <2>1, <2>3, <2>4, Some DEF IInv, FileInv
    <3>3. \A dev \in Device \cap {"dcpm"}, i \in Ids :
            files'[dev][i][2] # 0 => Build(files'[dev][i][1]) = Build(files'[dev][i][2])
      BY <1>2, <1>3, <1>4, <2>1, <2>5 DEF IInv, FileInv
    <3>4. QED
      BY <1>1, <1>5, <2>2, <3>1, <3>2, <3>3 DEF FileInv, Mine
  <2>7. QED
    BY <1>1, <1>4, <2>6, CopyMove
<1>9. QED
  BY <1>1, <1>7, <1>8 DEF Copying

\* A copy to the PMEM device that fails leaves a part of the file.
LEMMA CopyFailsInv == ASSUME IInv, clean' \in BOOLEAN, CopyFails PROVE IInv'
<1>1. /\ Copying /\ which \in {1, 2} /\ Abort /\ UNCHANGED <<built, source>>
      /\ device = "dcpm" => files[device][id][which] = 0
      /\ \/ UNCHANGED files
         \/ /\ device = "dcpm" /\ source[id][which] # 0
            /\ files' = [files EXCEPT ![device][id][which] = -Build(source[id][which])]
  BY DEF CopyFails, Wanted, Remains, which
<1>2. /\ files' \in [Device -> [Ids -> Snapshot]]
      /\ \A dev \in Device \cap {"dcpm"}, i \in Ids :
           files'[dev][i][2] # 0 => Build(files'[dev][i][1]) = Build(files'[dev][i][2])
  <2>1. CASE UNCHANGED files
    BY <2>1 DEF IInv, TypeOK, FileInv
  <2>2. CASE /\ device = "dcpm" /\ source[id][which] # 0
             /\ files' = [files EXCEPT ![device][id][which] = -Build(source[id][which])]
    <3>1. source[id][which] \in File /\ id \in Ids /\ device \in Device
      BY <1>1, PairOf, Some, Devices DEF IInv, TypeOK
    <3>2. /\ -Build(source[id][which]) \in File
          /\ Build(-Build(source[id][which])) = built
      BY <1>1, <2>2, <3>1, Builds DEF IInv, FileInv
    <3>3. /\ files' \in [Device -> [Ids -> Snapshot]]
          /\ \A e \in Device, j \in Ids, m \in {1, 2} :
               files'[e][j][m] = IF e = device /\ j = id /\ m = which
                                 THEN -Build(source[id][which]) ELSE files[e][j][m]
      <4>1. TypeOK /\ which \in {1, 2}
        BY <1>1 DEF IInv
      <4>2. files' = Put(device, id, which, -Build(source[id][which]))
        BY <2>2 DEF Put
      <4>3. QED
        BY <3>1, <3>2, <4>1, <4>2, FileUpdate
    <3>4. files[device][id][1] \in File /\ files[device][id][2] \in File
      BY <3>1, PairOf DEF IInv, TypeOK
    <3>5. CASE which = 1
      <4>1. files[device][id][2] = 0
        BY <1>1, <2>2, <3>1, <3>4, <3>5, Builds DEF IInv, FileInv
      <4>2. QED
        BY <2>2, <3>1, <3>3, <3>5, <4>1 DEF IInv, FileInv
    <3>6. CASE which = 2
      <4>1. Build(files[device][id][1]) = built
        BY <1>1, <2>2, <3>6 DEF IInv, FileInv, which, Copying
      <4>2. QED
        BY <2>2, <3>1, <3>2, <3>3, <3>6, <4>1 DEF IInv, FileInv
    <3>7. QED
      BY <1>1, <3>5, <3>6
  <2>3. QED
    BY <1>1, <2>1, <2>2
<1>3. left' \subseteq Ids \X BOOLEAN
  BY <1>1, LeftoversType DEF Abort, IInv, TypeOK
<1>4. pc \notin Exited
  BY <1>1 DEF Copying, Exited
<1>5. QED
  BY <1>1, <1>2, <1>3, <1>4, AbortMove DEF Abort, outVars

(***************************************************************************)
(* The Firecrackers, and the operator.                                     *)
(***************************************************************************)
\* A Firecracker listens or dies; one that was left dies or is killed.
LEMMA FcMove ==
  ASSUME IInv, clean' \in BOOLEAN,
         UNCHANGED <<invocation, many, pc, loopVars, fileVars, cached, outVars>>,
         \/ UNCHANGED fc
         \/ \E i \in Ids : /\ fc[i] \in Alive
                           /\ \E s \in Alive \cup {"dead"} : fc' = [fc EXCEPT ![i] = s],
         left' \subseteq left, sock' \subseteq Ids
  PROVE  IInv'
<1>1. /\ fc' \in [Ids -> Alive \cup {"none", "dead"}]
      /\ \A i \in Ids : fc[i] = "none" => fc'[i] = "none"
  BY DEF IInv, TypeOK, Alive
<1>2. TypeOK'
  BY <1>1 DEF IInv, TypeOK, loopVars, fileVars, outVars, Mine
<1>3. FcInv'
  BY <1>1 DEF IInv, FcInv
<1>4. LineInv'
  BY DEF IInv, LineInv, Done, Copying, loopVars, outVars
<1>5. FileInv'
  BY DEF IInv, FileInv, device, Copied, Copying, which, loopVars, fileVars, Mine
<1>6. CacheInv' /\ UsedInv'
  BY DEF IInv, CacheInv, UsedInv, BlockDevicesCurrent, NeverMixed, EveryRunCold, fileVars,
     outVars
<1>7. QED
  BY <1>2, <1>3, <1>4, <1>5, <1>6 DEF IInv

\* A build of new snapshots leaves the devices and the results alone.
LEMMA RebuildInv == ASSUME IInv, clean' \in BOOLEAN, Rebuild PROVE IInv'
<1>1. /\ pc \in Exited /\ pc' = "rebuilt" /\ built' = built + 1 /\ built' \in 1..MaxBuilds
      /\ UNCHANGED <<invocation, many, loopVars, files, cached, fc, sock, outVars>>
  BY MaxAssumption DEF Rebuild, IInv, TypeOK
<1>2. /\ left' \subseteq Ids \X BOOLEAN
      /\ source' \in [Ids -> Snapshot]
      /\ \A i \in Ids, k \in {1, 2} : source'[i][k] # 0 => Build(source'[i][k]) = built'
  <2>1. /\ built' \in File /\ -built' \in File /\ 0 \in File
        /\ Build(built') = built' /\ Build(-built') = built'
    BY <1>1, Builds
  <2>2. PICK failed \in SUBSET Ids :
          /\ source' \in [Ids -> {0, -built', built'} \X {0, -built', built'}]
          /\ \E l \in SUBSET failed : left' = left \cup (l \X {TRUE})
    BY Zenon DEF Rebuild
  <2>3. ASSUME NEW i \in Ids, NEW k \in {1, 2}
        PROVE  /\ source'[i] \in Snapshot
               /\ source'[i][k] # 0 => Build(source'[i][k]) = built'
    BY <2>1, <2>2 DEF Snapshot
  <2>4. left' \subseteq Ids \X BOOLEAN
    BY <2>2 DEF IInv, TypeOK
  <2>5. QED
    BY <2>2, <2>3, <2>4
<1>3. TypeOK'
  BY <1>1, <1>2 DEF IInv, TypeOK, Exited, loopVars, outVars, Mine
<1>4. FcInv'
  BY <1>1 DEF IInv, FcInv
<1>5. LineInv'
  BY <1>1, LinesType DEF IInv, LineInv, Copying, outVars
<1>6. FileInv'
  BY <1>1, <1>2 DEF IInv, FileInv, Exited
<1>7. CacheInv' /\ UsedInv'
  BY <1>1 DEF IInv, CacheInv, UsedInv, BlockDevicesCurrent, NeverMixed, EveryRunCold,
     Exited, outVars
<1>8. QED
  BY <1>3, <1>4, <1>5, <1>6, <1>7 DEF IInv

\* A new invocation finds the devices, the sockets and the Firecrackers of the last.
LEMMA InvokeInv == ASSUME IInv, clean' \in BOOLEAN, Invoke PROVE IInv'
<1>1. /\ pc \in Exited /\ pc' = "copyState" /\ d' = 1 /\ run' = 1 /\ id' = 0
      /\ invocation' = invocation + 1 /\ base' \in {lines, NoLines} /\ lines' = base'
      /\ used' = NoneUsed /\ cached' = {} /\ alone' = (left = {})
      /\ UNCHANGED <<fileVars, fcVars>>
  BY DEF Invoke
<1>2. /\ invocation' \in 1..MaxInvocations /\ many' \in 1..Many
      /\ 1 \in 1..Len(DEVICES) /\ 1 \in RunNumber /\ 0 \in Mine'
  <2>1. many' \in 1..Many /\ invocation' \in 1..MaxInvocations
    BY MaxAssumption DEF Invoke, IInv, TypeOK
  <2>2. 0 \in Mine'
    <3>1. \A m \in 1..Many : 0 \in 0..(m - 1)
      BY ManyAssumption
    <3>2. QED
      BY <2>1, <3>1 DEF Mine
  <2>3. QED
    BY <2>1, <2>2, DevicesAssumption, RunsAssumption DEF RunNumber
<1>3. base' \in [Device -> [RunNumber -> 0..(Many * MaxInvocations)]]
  <2>1. 0 \in 0..(Many * MaxInvocations)
    BY ManyAssumption, MaxAssumption
  <2>2. NoLines \in [Device -> [RunNumber -> 0..(Many * MaxInvocations)]]
    BY <2>1 DEF NoLines
  <2>3. QED
    BY <1>1, <2>2 DEF IInv, TypeOK
<1>4. TypeOK'
  BY <1>1, <1>2, <1>3 DEF IInv, TypeOK, NoneUsed, fileVars, fcVars
<1>5. FcInv'
  BY <1>1 DEF IInv, FcInv, fcVars
<1>6. LineInv'
  <2>1. ASSUME NEW j \in 1..Len(DEVICES), NEW r \in RunNumber
        PROVE  ~Done(j, r)'
    BY <1>1, DevicesAssumption DEF Done, RunNumber
  <2>2. Many \in Nat /\ invocation \in Nat /\ Many * invocation \in Nat
        /\ Many * (invocation + 1) = Many * invocation + Many
    BY ManyAssumption, MaxAssumption DEF IInv, TypeOK
  <2>3. ASSUME NEW j \in 1..Len(DEVICES), NEW r \in RunNumber
        PROVE  base'[DEVICES[j]][r] \in Nat /\ base'[DEVICES[j]][r] <= Many * invocation
    <3>1. CASE base' = NoLines
      BY <2>2, <3>1, Devices DEF NoLines, IInv
    <3>2. CASE base' = lines
      <4>1. /\ base[DEVICES[j]][r] \in Nat /\ lines[DEVICES[j]][r] \in Nat
            /\ lines[DEVICES[j]][r] <= base[DEVICES[j]][r] + Many
        BY <2>2, LinesType DEF IInv
      <4>2. base[DEVICES[j]][r] + Many <= Many * invocation
        BY DEF IInv, LineInv
      <4>3. QED
        BY <2>2, <3>2, <4>1, <4>2
    <3>3. QED
      BY <1>1, <3>1, <3>2
  <2>4. ASSUME NEW j \in 1..Len(DEVICES), NEW r \in RunNumber
        PROVE  /\ base'[DEVICES[j]][r] + Many <= Many * invocation'
               /\ lines'[DEVICES[j]][r] = base'[DEVICES[j]][r] + 0
    BY <1>1, <2>2, <2>3
  <2>5. QED
    BY <1>1, <2>1, <2>4 DEF LineInv
<1>7. FileInv'
  <2>1. \A i \in Mine', k \in {1, 2} : ~Copied(i, k)'
    BY <1>1, <1>2 DEF Copied, Copying, which, Mine
  <2>2. QED
    BY <1>1, <2>1 DEF IInv, FileInv, fileVars
<1>8. CacheInv' /\ UsedInv'
  BY <1>1 DEF CacheInv, UsedInv, BlockDevicesCurrent, NeverMixed, EveryRunCold, NoneUsed,
     fcVars
<1>9. QED
  BY <1>4, <1>5, <1>6, <1>7, <1>8 DEF IInv

(***************************************************************************)
(* All steps together.                                                     *)
(***************************************************************************)
\* Every step keeps the invariant.
LEMMA NextInv == IInv /\ [Next]_vars => IInv'
<1> SUFFICES ASSUME IInv, [Next]_vars PROVE IInv'
  OBVIOUS
<1>1. CASE UNCHANGED vars
  BY <1>1 DEF vars, loopVars, fileVars, fcVars, outVars, IInv, TypeOK, FcInv, LineInv, Done,
     FileInv, device, Copied, Copying, which, CacheInv, UsedInv, BlockDevicesCurrent,
     NeverMixed, EveryRunCold, Mine
<1>2. ASSUME clean' \in BOOLEAN, Script PROVE IInv'
  BY <1>2, SkipInv, CopyInv, EvictInv, SpawnInv, LogInv, ClientOkInv, ClientBadInv,
     KillallInv, ChownInv DEF Script
<1>3. ASSUME clean' \in BOOLEAN, Fault PROVE IInv'
  <2>1. CASE IOError
    BY <1>3, <2>1, AbortStep DEF IOError, Exited
  <2>2. CASE Interrupt
    BY <1>3, <2>2, AbortStep DEF Interrupt
  <2>3. CASE LeftDies
    BY <1>3, <2>3, FcMove DEF LeftDies, IInv, TypeOK
  <2>4. ASSUME NEW i \in Ids, FcCrash(i) PROVE IInv'
    BY <1>3, <2>4, FcMove DEF FcCrash, IInv, TypeOK
  <2>5. QED
    BY <1>3, <2>1, <2>2, <2>3, <2>4, CopyFailsInv, ClientBadInv DEF Fault
<1>4. ASSUME clean' \in BOOLEAN, Operator PROVE IInv'
  <2>1. CASE KillLeftovers
    BY <1>4, <2>1, FcMove DEF KillLeftovers, IInv, TypeOK
  <2>2. QED
    BY <1>4, <2>1, RebuildInv DEF Operator
<1>5. ASSUME NEW i \in Ids, clean' \in BOOLEAN, FcListen(i) PROVE IInv'
  <2>1. /\ fc[i] \in Alive /\ sock' \subseteq Ids
        /\ \E s \in Alive \cup {"dead"} : fc' = [fc EXCEPT ![i] = s]
    BY <1>5 DEF FcListen, Alive, IInv, TypeOK
  <2>2. QED
    BY <1>5, <2>1, FcMove DEF FcListen
<1>6. clean \in BOOLEAN
  BY DEF IInv, TypeOK
<1>7. ScriptStep => clean' \in BOOLEAN
  BY Zenon DEF ScriptStep
<1>8. NothingAmiss \in BOOLEAN
  BY Zenon DEF NothingAmiss
<1>9. QED
  BY <1>1, <1>2, <1>3, <1>4, <1>5, <1>6, <1>7, <1>8, InvokeInv
     DEF Next, ScriptStep, Listen, Rest

\* What each point of the script knows of Firecrackers, results, files and cache.
THEOREM Invariant == Spec => []IInv
<1>1. QED
  BY InitInv, NextInv, PTL DEF Spec

\* The types hold: no loop leaves its range, no result file grows beyond a line for
\* each MicroVM and invocation.
THEOREM TypeCorrect == Spec => []TypeOK
<1>1. IInv => TypeOK
  BY DEF IInv
<1>2. QED
  BY <1>1, Invariant, PTL

\* Success leaves no Firecracker, its own or anybody's.
THEOREM NobodyLeft == Spec => []NoneLeft
<1>1. IInv => NoneLeft
  BY DEF IInv, FcInv, NoneLeft, Exited, Alive
<1>2. QED
  BY <1>1, Invariant, PTL

\* Success means that every run's results were appended once, whatever earlier
\* invocations left in the files.
THEOREM AllAppended == Spec => []ResultsComplete
<1>1. ASSUME IInv, pc = "ok", NEW dev \in Device, NEW r \in RunNumber
      PROVE  lines[dev][r] = base[dev][r] + many
  <2>1. PICK j \in 1..Len(DEVICES) : dev = DEVICES[j]
    BY <1>1, Devices DEF IInv
  <2>2. d = Len(DEVICES) /\ run = Runs
    BY <1>1 DEF IInv, LineInv
  <2>3. Done(j, r)
    BY <1>1, <2>2, DevicesAssumption, RunsAssumption DEF Done, RunNumber
  <2>4. QED
    BY <1>1, <2>1, <2>3 DEF IInv, LineInv
<1>2. IInv => ResultsComplete
  BY <1>1 DEF ResultsComplete
<1>3. QED
  BY <1>2, Invariant, PTL

\* On the block devices an invocation measures the last build, also a failed one.
THEOREM Current == Spec => []BlockDevicesCurrent
<1>1. IInv => BlockDevicesCurrent
  BY DEF IInv, UsedInv
<1>2. QED
  BY <1>1, Invariant, PTL

\* No snapshot of mixed builds is measured, although on the PMEM device old and
\* partly copied files stay.
THEOREM Unmixed == Spec => []NeverMixed
<1>1. IInv => NeverMixed
  BY DEF IInv, UsedInv
<1>2. QED
  BY <1>1, Invariant, PTL

\* Every run of an invocation that found no Firecracker is cold.
THEOREM Cold == Spec => []EveryRunCold
<1>1. IInv => EveryRunCold
  BY DEF IInv, UsedInv
<1>2. QED
  BY <1>1, Invariant, PTL

===============================================================================
