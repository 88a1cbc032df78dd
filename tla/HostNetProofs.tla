----------------------------- MODULE HostNetProofs -----------------------------
(***************************************************************************)
(* HostNet for every finite set of IDs and every number of scripts and of  *)
(* failing commands: what host_net.sh has set up stays, the cleanup fails  *)
(* only for what is torn, and that stays torn.                             *)
(***************************************************************************)
EXTENDS HostNet, FiniteSetTheorems, TLAPS

\* The invariant holds at the start.
LEMMA InitInv == Init => IInv
<1> SUFFICES ASSUME Init PROVE IInv
  OBVIOUS
<1>1. TypeOK
  BY BoundsAssumption DEF Init, TypeOK
<1>2. RuleInv /\ ScriptInv /\ CommonInv /\ CleansUp
  BY DEF Init, RuleInv, ScriptInv, CommonInv, Amid, CleansUp
<1>3. /\ Before({"check", "masquerade"}) = {}
      /\ Before({"check", "masquerade", "related"}) = {}
  BY DEF Init, Before
<1>4. CountInv
  BY <1>3, FS_EmptySet DEF Init, CountInv
<1>5. QED
  BY <1>1, <1>2, <1>4 DEF IInv

\* The counters are numbers within their bounds.
LEMMA Bounded ==
  ASSUME TypeOK
  PROVE  /\ masquerade \in Nat /\ related \in Nat
         /\ commands \in Nat /\ commands <= MaxCommands
         /\ faults \in Nat
<1>1. /\ masquerade \in 0..MaxCommands /\ related \in 0..MaxCommands
      /\ commands \in 0..MaxCommands /\ faults \in 0..MaxFaults
  BY DEF TypeOK
<1>2. QED
  BY <1>1, BoundsAssumption

(***************************************************************************)
(* Counting the scripts that have yet to add a common rule.                *)
(***************************************************************************)
\* They are finitely many.
LEMMA BeforeFinite ==
  ASSUME NEW pcs PROVE IsFiniteSet(Before(pcs)) /\ Cardinality(Before(pcs)) \in Nat
<1>1. Before(pcs) \subseteq Ids
  BY DEF Before
<1>2. IsFiniteSet(Before(pcs))
  BY <1>1, IdsAssumption, FS_Subset
<1>3. QED
  BY <1>2, FS_CardinalityType

\* How many scripts are at one of `pcs` when one script's command has been run.
LEMMA BeforeMoved ==
  ASSUME NEW pcs, NEW i \in Ids, NEW p, TypeOK, pc' = [pc EXCEPT ![i] = p]
  PROVE  Cardinality(Before(pcs))' =
           Cardinality(Before(pcs)) + (IF p \in pcs THEN 1 ELSE 0)
                                    - (IF pc[i] \in pcs THEN 1 ELSE 0)
<1>1. \A j \in Ids : pc'[j] = IF j = i THEN p ELSE pc[j]
  BY DEF TypeOK
<1>2. i \in Before(pcs) <=> pc[i] \in pcs
  BY DEF Before
<1>3. CASE p \in pcs
  <2>1. Before(pcs)' = Before(pcs) \cup {i}
    BY <1>1, <1>3 DEF Before
  <2>2. Cardinality(Before(pcs) \cup {i}) =
          IF i \in Before(pcs) THEN Cardinality(Before(pcs))
          ELSE Cardinality(Before(pcs)) + 1
    BY BeforeFinite, FS_AddElement
  <2>3. QED
    BY <1>2, <1>3, <2>1, <2>2, BeforeFinite
<1>4. CASE p \notin pcs
  <2>1. Before(pcs)' = Before(pcs) \ {i}
    BY <1>1, <1>4 DEF Before
  <2>2. Cardinality(Before(pcs) \ {i}) =
          IF i \in Before(pcs) THEN Cardinality(Before(pcs)) - 1
          ELSE Cardinality(Before(pcs))
    BY BeforeFinite, FS_RemoveElement
  <2>3. QED
    BY <1>2, <1>4, <2>1, <2>2, BeforeFinite
<1>5. QED
  BY <1>3, <1>4

\* A step that moves one script and adds a rule only when that script was to do so
\* keeps the count; so does a script that starts.
LEMMA CountMoved ==
  ASSUME NEW i \in Ids, NEW p, TypeOK, CountInv, pc' = [pc EXCEPT ![i] = p],
         \/ /\ UNCHANGED commands
            /\ p \in {"check", "masquerade"} => pc[i] \in {"check", "masquerade"}
            /\ p = "related" => pc[i] \in {"check", "masquerade", "related"}
            /\ \/ UNCHANGED masquerade
               \/ /\ masquerade' = masquerade + 1
                  /\ pc[i] = "masquerade" /\ p = "related"
            /\ \/ UNCHANGED related
               \/ /\ related' = related + 1
                  /\ pc[i] = "related" /\ p = "tuntap"
         \/ commands' = commands + 1 /\ UNCHANGED <<masquerade, related>>
  PROVE  CountInv'
<1> DEFINE two == {"check", "masquerade"}
           three == {"check", "masquerade", "related"}
<1>1. Cardinality(Before(two))' = Cardinality(Before(two)) + (IF p \in two THEN 1 ELSE 0)
                                                  - (IF pc[i] \in two THEN 1 ELSE 0)
  BY BeforeMoved
<1>2. Cardinality(Before(three))' =
        Cardinality(Before(three)) + (IF p \in three THEN 1 ELSE 0)
                                   - (IF pc[i] \in three THEN 1 ELSE 0)
  BY BeforeMoved
<1>3. Cardinality(Before(two)) \in Nat /\ Cardinality(Before(three)) \in Nat
  BY BeforeFinite
<1>4. masquerade \in Nat /\ related \in Nat /\ commands \in Nat
  BY Bounded
<1>5. /\ masquerade + Cardinality(Before(two)) <= commands
      /\ related + Cardinality(Before(three)) <= commands
  BY DEF CountInv
<1> HIDE DEF two, three
<1>6. (masquerade + Cardinality(Before(two)))' <= commands'
  BY <1>1, <1>3, <1>4, <1>5 DEF two
<1>7. (related + Cardinality(Before(three)))' <= commands'
  BY <1>2, <1>3, <1>4, <1>5 DEF three
<1>8. QED
  BY <1>6, <1>7 DEF CountInv, two, three

\* So the rules are no more than the bound on scripts.
LEMMA CountBound ==
  ASSUME TypeOK, CountInv
  PROVE  /\ \A i \in Ids : pc[i] = "masquerade" => masquerade < commands
         /\ \A i \in Ids : pc[i] = "related" => related < commands
<1> SUFFICES ASSUME NEW i \in Ids
             PROVE  /\ pc[i] = "masquerade" => masquerade < commands
                    /\ pc[i] = "related" => related < commands
  OBVIOUS
<1>1. ASSUME NEW pcs, pc[i] \in pcs PROVE Cardinality(Before(pcs)) # 0
  BY <1>1, BeforeFinite, FS_EmptySet DEF Before
<1>2. /\ Cardinality(Before({"check", "masquerade"})) \in Nat
      /\ Cardinality(Before({"check", "masquerade", "related"})) \in Nat
  BY BeforeFinite
<1>3. /\ pc[i] = "masquerade" => Cardinality(Before({"check", "masquerade"})) # 0
      /\ pc[i] = "related" => Cardinality(Before({"check", "masquerade", "related"})) # 0
  BY <1>1
<1>4. masquerade \in Nat /\ related \in Nat /\ commands \in Nat
  BY Bounded
<1>5. QED
  BY <1>2, <1>3, <1>4 DEF CountInv

(***************************************************************************)
(* The steps.                                                              *)
(***************************************************************************)
\* A script that starts has done nothing yet.
LEMMA StartInv ==
  ASSUME IInv, NEW i \in Ids, NEW p \in {"check", "unaccept"}, Start(i, p)
  PROVE  IInv'
<1>1. commands' \in 0..MaxCommands /\ commands' > 0
  BY Bounded, BoundsAssumption DEF IInv, Start
<1> USE DEF IInv, TypeOK, netVars, Goto, Exit
<1>2. TypeOK'
  BY <1>1 DEF Start
<1>3. RuleInv'
  BY <1>1 DEF Start, RuleInv, ScriptInv, Amid
<1>4. ScriptInv'
  BY <1>1 DEF Start, RuleInv, ScriptInv, Amid
<1>5. CommonInv'
  BY <1>1 DEF Start, CommonInv, Amid
<1>6. CountInv'
  BY CountMoved DEF Start
<1>7. CleansUp'
  BY <1>1 DEF Start, CleansUp, RuleInv, ScriptInv, Amid
<1>8. QED
  BY <1>2, <1>3, <1>4, <1>5, <1>6, <1>7

\* Looking for other interfaces changes none.
LEMMA CheckOthersInv == ASSUME IInv, NEW i \in Ids, CheckOthers(i) PROVE IInv'
<1> USE DEF IInv, TypeOK, netVars, Goto, Exit
<1>1. TypeOK'
  BY DEF CheckOthers
<1>2. RuleInv'
  BY DEF CheckOthers, RuleInv, ScriptInv, Amid
<1>3. ScriptInv'
  BY DEF CheckOthers, RuleInv, ScriptInv, Amid
<1>4. CommonInv'
  BY DEF CheckOthers, CommonInv, Amid
<1>5. CountInv'
  BY CountMoved DEF CheckOthers
<1>6. CleansUp'
  BY DEF CheckOthers, CleansUp, RuleInv, ScriptInv, Amid
<1>7. QED
  BY <1>1, <1>2, <1>3, <1>4, <1>5, <1>6

\* The first common rule is added by a script that had yet to add it.
LEMMA AddMasqueradeInv == ASSUME IInv, NEW i \in Ids, AddMasquerade(i) PROVE IInv'
<1>1. masquerade' \in 0..MaxCommands /\ masquerade' > 0
  BY Bounded, CountBound, BoundsAssumption DEF IInv, AddMasquerade
<1> USE DEF IInv, TypeOK, netVars, Goto, Exit
<1>2. TypeOK'
  BY <1>1 DEF AddMasquerade
<1>3. RuleInv'
  BY <1>1 DEF AddMasquerade, RuleInv, ScriptInv, Amid
<1>4. ScriptInv'
  BY <1>1 DEF AddMasquerade, RuleInv, ScriptInv, Amid
<1>5. CommonInv'
  BY <1>1 DEF AddMasquerade, CommonInv, Amid
<1>6. CountInv'
  BY CountMoved DEF AddMasquerade
<1>7. CleansUp'
  BY <1>1 DEF AddMasquerade, CleansUp, RuleInv, ScriptInv, Amid
<1>8. QED
  BY <1>2, <1>3, <1>4, <1>5, <1>6, <1>7

\* So is the second; then both are there.
LEMMA AddRelatedInv == ASSUME IInv, NEW i \in Ids, AddRelated(i) PROVE IInv'
<1>1. related' \in 0..MaxCommands /\ related' > 0
  BY Bounded, CountBound, BoundsAssumption DEF IInv, AddRelated
<1> USE DEF IInv, TypeOK, netVars, Goto, Exit
<1>2. TypeOK'
  BY <1>1 DEF AddRelated
<1>3. RuleInv'
  BY <1>1 DEF AddRelated, RuleInv, ScriptInv, Amid
<1>4. ScriptInv'
  BY <1>1 DEF AddRelated, RuleInv, ScriptInv, Amid
<1>5. CommonInv'
  BY <1>1 DEF AddRelated, CommonInv, Amid
<1>6. CountInv'
  BY CountMoved DEF AddRelated
<1>7. CleansUp'
  BY <1>1 DEF AddRelated, CleansUp, RuleInv, ScriptInv, Amid
<1>8. QED
  BY <1>2, <1>3, <1>4, <1>5, <1>6, <1>7

\* An interface that is made has no FORWARD rule yet; one that is there stays as it is.
LEMMA AddTapInv == ASSUME IInv, NEW i \in Ids, AddTap(i) PROVE IInv'
<1>1. pc[i] = "tuntap" /\ exit[i] = "none"
  BY DEF IInv, AddTap, ScriptInv
<1>2. UNCHANGED <<addr, up, accept, masquerade, related, torn, commands, faults>>
  BY DEF AddTap
<1>3. CASE i \in tap
  <2>1. /\ pc' = [pc EXCEPT ![i] = "none"] /\ UNCHANGED tap
        /\ exit' = [exit EXCEPT ![i] = "net failed"]
    BY <1>3 DEF AddTap, Exit
  <2>2. TypeOK'
    BY <2>1, <1>2 DEF IInv, TypeOK
  <2>3. RuleInv'
    BY <2>1, <1>1, <1>2 DEF IInv, TypeOK, RuleInv
  <2>4. ScriptInv'
    BY <2>1, <1>1, <1>2 DEF IInv, TypeOK, ScriptInv, Amid
  <2>5. CommonInv'
    BY <2>1, <1>1, <1>2 DEF IInv, TypeOK, CommonInv, Amid
  <2>6. CountInv'
    BY <2>1, <1>2, CountMoved DEF IInv
  <2>7. CleansUp'
    BY <2>1, <1>1, <1>2 DEF IInv, TypeOK, CleansUp
  <2>8. QED
    BY <2>2, <2>3, <2>4, <2>5, <2>6, <2>7 DEF IInv
<1>4. CASE i \notin tap
  <2>1. pc' = [pc EXCEPT ![i] = "addr"] /\ UNCHANGED exit /\ tap' = tap \cup {i}
    BY <1>4 DEF AddTap, Goto
  <2>2. TypeOK'
    BY <2>1, <1>2 DEF IInv, TypeOK
  <2>3. i \notin torn /\ accept[i] = 0
    BY <1>4 DEF IInv, RuleInv, ScriptInv
  <2>4. RuleInv'
    BY <2>1, <2>3, <1>1, <1>2 DEF IInv, TypeOK, RuleInv
  <2>5. ScriptInv'
    BY <2>1, <2>3, <1>1, <1>2 DEF IInv, TypeOK, ScriptInv, Amid
  <2>6. CommonInv'
    BY <2>1, <1>1, <1>2 DEF IInv, TypeOK, CommonInv, Amid
  <2>7. CountInv'
    BY <2>1, <1>2, CountMoved DEF IInv
  <2>8. CleansUp'
    BY <2>1, <1>1, <1>2 DEF IInv, TypeOK, CleansUp, ScriptInv
  <2>9. QED
    BY <2>2, <2>3, <2>4, <2>5, <2>6, <2>7, <2>8 DEF IInv
<1>5. QED
  BY <1>3, <1>4

\* Who has made an interface has seen to the common rules before.
LEMMA AddAddrInv == ASSUME IInv, NEW i \in Ids, AddAddr(i) PROVE IInv'
<1>1. pc[i] = "addr" /\ i \in tap \ torn
  BY DEF IInv, AddAddr, ScriptInv, Amid
<1> USE DEF IInv, TypeOK, netVars, Goto, Exit
<1>2. TypeOK'
  BY <1>1 DEF AddAddr
<1>3. RuleInv'
  BY <1>1 DEF AddAddr, RuleInv, ScriptInv, Amid
<1>4. ScriptInv'
  BY <1>1 DEF AddAddr, RuleInv, ScriptInv, Amid
<1>5. CommonInv'
  BY <1>1 DEF AddAddr, CommonInv, Amid
<1>6. CountInv'
  BY CountMoved DEF AddAddr
<1>7. CleansUp'
  BY <1>1 DEF AddAddr, CleansUp, RuleInv, ScriptInv, Amid
<1>8. QED
  BY <1>2, <1>3, <1>4, <1>5, <1>6, <1>7

\* The rule comes to an interface that had none.
LEMMA AddAcceptInv == ASSUME IInv, NEW i \in Ids, AddAccept(i) PROVE IInv'
<1>1. pc[i] = "accept" /\ i \in addr /\ i \in tap \ torn
  BY DEF IInv, AddAccept, ScriptInv, Amid
<1>2. commands > 0
  BY <1>1 DEF IInv, ScriptInv
<1>3. 1 \in 0..MaxCommands
  BY <1>2, Bounded, BoundsAssumption DEF IInv
<1>4. accept[i] = 0
  BY <1>1 DEF IInv, RuleInv
<1>5. accept' = [accept EXCEPT ![i] = 1]
  BY <1>4 DEF AddAccept
<1> USE DEF IInv, TypeOK, netVars, Goto, Exit
<1>6. TypeOK'
  BY <1>1, <1>2, <1>3, <1>4, <1>5 DEF AddAccept
<1>7. RuleInv'
  BY <1>1, <1>2, <1>3, <1>4, <1>5 DEF AddAccept, RuleInv, ScriptInv, Amid
<1>8. ScriptInv'
  BY <1>1, <1>2, <1>3, <1>4, <1>5 DEF AddAccept, RuleInv, ScriptInv, Amid
<1>9. CommonInv'
  BY <1>1, <1>2, <1>3, <1>4, <1>5 DEF AddAccept, CommonInv, Amid
<1>10. CountInv'
  BY CountMoved DEF AddAccept
<1>11. CleansUp'
  BY <1>1, <1>2, <1>3, <1>4, <1>5 DEF AddAccept, CleansUp, RuleInv, ScriptInv, Amid
<1>12. QED
  BY <1>6, <1>7, <1>8, <1>9, <1>10, <1>11

\* With the last command everything is there.
LEMMA LinkUpInv == ASSUME IInv, NEW i \in Ids, LinkUp(i) PROVE IInv'
<1>1. pc[i] = "link" /\ i \in addr /\ i \in tap \ torn
  BY DEF IInv, LinkUp, ScriptInv, Amid
<1> USE DEF IInv, TypeOK, netVars, Goto, Exit
<1>2. TypeOK'
  BY <1>1 DEF LinkUp
<1>3. RuleInv'
  BY <1>1 DEF LinkUp, RuleInv, ScriptInv, Amid
<1>4. ScriptInv'
  BY <1>1 DEF LinkUp, RuleInv, ScriptInv, Amid
<1>5. CommonInv'
  BY <1>1 DEF LinkUp, CommonInv, Amid
<1>6. CountInv'
  BY CountMoved DEF LinkUp
<1>7. CleansUp'
  BY <1>1 DEF LinkUp, CleansUp, RuleInv, ScriptInv, Amid
<1>8. QED
  BY <1>2, <1>3, <1>4, <1>5, <1>6, <1>7

\* A rule that is there is that of an interface that is set up.
LEMMA DeleteAcceptInv == ASSUME IInv, NEW i \in Ids, DeleteAccept(i) PROVE IInv'
<1>1. pc[i] = "unaccept" /\ exit[i] = "none"
  BY DEF IInv, DeleteAccept, ScriptInv
<1>2. accept[i] = IF i \in tap \ torn THEN 1 ELSE 0
  BY <1>1 DEF IInv, RuleInv
<1>3. UNCHANGED <<tap, addr, up, masquerade, related, torn, commands, faults>>
  BY DEF DeleteAccept
<1>4. CASE i \in tap \ torn
  <2>1. /\ pc' = [pc EXCEPT ![i] = "del"] /\ UNCHANGED exit
        /\ accept' = [accept EXCEPT ![i] = 0]
    BY <1>4, <1>2 DEF DeleteAccept, Goto
  <2>2. TypeOK'
    <3>1. 0 \in 0..MaxCommands
      BY BoundsAssumption
    <3>2. QED
      BY <3>1, <2>1, <1>3 DEF IInv, TypeOK
  <2>3. RuleInv'
    BY <2>1, <1>1, <1>3 DEF IInv, TypeOK, RuleInv
  <2>4. ScriptInv'
    BY <1>4, <2>1, <1>1, <1>3 DEF IInv, TypeOK, ScriptInv, Amid
  <2>5. CommonInv'
    BY <2>1, <1>1, <1>3 DEF IInv, TypeOK, CommonInv, Amid
  <2>6. CountInv'
    BY <2>1, <1>3, CountMoved DEF IInv
  <2>7. CleansUp'
    BY <2>1, <1>1, <1>3 DEF IInv, TypeOK, CleansUp
  <2>8. QED
    BY <2>2, <2>3, <2>4, <2>5, <2>6, <2>7 DEF IInv
<1>5. CASE i \notin tap \ torn
  <2>1. /\ pc' = [pc EXCEPT ![i] = "none"] /\ UNCHANGED accept
        /\ exit' = [exit EXCEPT ![i] = "cleanup failed"]
    BY <1>5, <1>2 DEF DeleteAccept, Exit
  <2>2. TypeOK'
    BY <2>1, <1>3 DEF IInv, TypeOK
  <2>3. RuleInv'
    BY <2>1, <1>1, <1>3 DEF IInv, TypeOK, RuleInv
  <2>4. ScriptInv'
    BY <2>1, <1>1, <1>3 DEF IInv, TypeOK, ScriptInv, Amid
  <2>5. CommonInv'
    BY <2>1, <1>1, <1>3 DEF IInv, TypeOK, CommonInv, Amid
  <2>6. CountInv'
    BY <2>1, <1>3, CountMoved DEF IInv
  <2>7. CleansUp'
    BY <1>5, <2>1, <1>1, <1>3 DEF IInv, TypeOK, CleansUp
  <2>8. QED
    BY <2>2, <2>3, <2>4, <2>5, <2>6, <2>7 DEF IInv
<1>6. QED
  BY <1>4, <1>5

\* The interface goes when its rule is gone.
LEMMA LinkDelInv == ASSUME IInv, NEW i \in Ids, LinkDel(i) PROVE IInv'
<1> USE DEF IInv, TypeOK, netVars, Goto, Exit
<1>1. TypeOK'
  BY DEF LinkDel
<1>2. RuleInv'
  BY DEF LinkDel, RuleInv, ScriptInv, Amid
<1>3. ScriptInv'
  BY DEF LinkDel, RuleInv, ScriptInv, Amid
<1>4. CommonInv'
  BY DEF LinkDel, CommonInv, Amid
<1>5. CountInv'
  BY CountMoved DEF LinkDel
<1>6. CleansUp'
  BY DEF LinkDel, CleansUp, RuleInv, ScriptInv, Amid
<1>7. QED
  BY <1>1, <1>2, <1>3, <1>4, <1>5, <1>6

\* What an interrupted set-up leaves is torn, or complete, or nothing.
LEMMA FailsInv == ASSUME IInv, NEW i \in Ids, Fails(i) PROVE IInv'
<1>1. faults' \in 0..MaxFaults
  <2>1. faults < MaxFaults /\ faults' = faults + 1
    BY DEF Fails
  <2>2. QED
    BY <2>1, Bounded, BoundsAssumption DEF IInv
<1> USE DEF IInv, TypeOK, netVars, Goto, Exit, NetPcs
<1>2. TypeOK'
  BY <1>1 DEF Fails
<1>3. RuleInv'
  BY <1>1 DEF Fails, RuleInv, ScriptInv, Amid
<1>4. ScriptInv'
  BY <1>1 DEF Fails, RuleInv, ScriptInv, Amid
<1>5. CommonInv'
  BY <1>1 DEF Fails, CommonInv, Amid
<1>6. CountInv'
  BY CountMoved DEF Fails
<1>7. CleansUp'
  BY <1>1 DEF Fails, CleansUp, RuleInv, ScriptInv, Amid
<1>8. QED
  BY <1>2, <1>3, <1>4, <1>5, <1>6, <1>7

\* What an interrupted cleanup leaves is torn, or as it was.
LEMMA CleanupFailsInv == ASSUME IInv, NEW i \in Ids, CleanupFails(i) PROVE IInv'
<1>1. faults' \in 0..MaxFaults
  <2>1. faults < MaxFaults /\ faults' = faults + 1
    BY DEF CleanupFails
  <2>2. QED
    BY <2>1, Bounded, BoundsAssumption DEF IInv
<1> USE DEF IInv, TypeOK, netVars, Goto, Exit
<1>2. TypeOK'
  BY <1>1 DEF CleanupFails
<1>3. RuleInv'
  BY <1>1 DEF CleanupFails, RuleInv, ScriptInv, Amid
<1>4. ScriptInv'
  BY <1>1 DEF CleanupFails, RuleInv, ScriptInv, Amid
<1>5. CommonInv'
  BY <1>1 DEF CleanupFails, CommonInv, Amid
<1>6. CountInv'
  BY CountMoved DEF CleanupFails
<1>7. CleansUp'
  BY <1>1 DEF CleanupFails, CleansUp, RuleInv, ScriptInv, Amid
<1>8. QED
  BY <1>2, <1>3, <1>4, <1>5, <1>6, <1>7

\* Every step keeps the invariant.
LEMMA NextInv == IInv /\ [Next]_vars => IInv'
<1> SUFFICES ASSUME IInv, [Next]_vars PROVE IInv'
  OBVIOUS
<1>1. ASSUME NEW i \in Ids, HostNet(i) \/ HostNetCleanup(i) PROVE IInv'
  BY <1>1, StartInv DEF HostNet, HostNetCleanup
<1>2. ASSUME NEW i \in Ids, Step(i) PROVE IInv'
  BY <1>2, CheckOthersInv, AddMasqueradeInv, AddRelatedInv, AddTapInv, AddAddrInv,
     AddAcceptInv, LinkUpInv, DeleteAcceptInv, LinkDelInv DEF Step
<1>3. ASSUME NEW i \in Ids, Fails(i) \/ CleanupFails(i) PROVE IInv'
  BY <1>3, FailsInv, CleanupFailsInv
<1>4. CASE UNCHANGED vars
  BY <1>4 DEF vars, netVars, IInv, TypeOK, RuleInv, ScriptInv, CommonInv, CountInv,
              CleansUp, Amid, Before
<1>5. QED
  BY <1>1, <1>2, <1>3, <1>4 DEF Next, Rest

\* Interfaces, rules and scripts agree in every state.
THEOREM Invariant == Spec => []IInv
<1>1. QED
  BY InitInv, NextInv, PTL DEF Spec

\* The types hold, and no rule is added more often than scripts were run.
THEOREM TypeCorrect == Spec => []TypeOK
<1>1. IInv => TypeOK
  BY DEF IInv
<1>2. QED
  BY <1>1, Invariant, PTL

\* What host_net.sh has set up stays until the cleanup script of the same ID,
\* whatever other scripts do.
THEOREM StaysRouted == Spec => []Undisturbed
<1>1. ASSUME IInv, NEW i \in Ids, exit[i] = "net ok", pc[i] = "none" PROVE Routed(i)
  <2>1. i \in up /\ i \in addr /\ i \notin torn
    BY <1>1 DEF IInv, ScriptInv
  <2>2. i \in tap
    BY <1>1, <2>1 DEF IInv, TypeOK
  <2>3. accept[i] = 1
    BY <1>1, <2>1, <2>2 DEF IInv, RuleInv
  <2>4. masquerade > 0 /\ related > 0
    BY <1>1, <2>1 DEF IInv, CommonInv
  <2>5. QED
    BY <2>1, <2>3, <2>4 DEF Routed
<1>2. IInv => Undisturbed
  BY <1>1 DEF Undisturbed
<1>3. QED
  BY <1>2, Invariant, PTL

\* The cleanup script fails by itself only without an interface, or with a torn one.
THEOREM Cleaned == Spec => []CleansUp
<1>1. IInv => CleansUp
  BY DEF IInv
<1>2. QED
  BY <1>1, Invariant, PTL

\* An interface that is torn stays, and neither script succeeds for it.
THEOREM NeverMended == Spec => StaysTorn
<1>1. [Next]_vars => torn \subseteq torn'
  BY DEF Next, HostNet, HostNetCleanup, Step, Rest, vars, Start, CheckOthers, AddMasquerade,
         AddRelated, AddTap, AddAddr, AddAccept, LinkUp, DeleteAccept, LinkDel, Fails,
         CleanupFails
<1>3. IInv' => \A i \in torn' : i \in tap' /\ exit'[i] \notin {"net ok", "cleanup ok"}
  BY DEF IInv, TypeOK, ScriptInv
<1>4. IInv' /\ [Next]_vars =>
        [\A i \in torn : i \in tap' /\ exit'[i] \notin {"net ok", "cleanup ok"}]_vars
  BY <1>1, <1>3
<1>5. QED
  BY <1>4, Invariant, PTL DEF Spec, StaysTorn

=============================================================================
