---------------------------- MODULE LockStepProofs ----------------------------
(* What the lock-step rounds guarantee, for every set of parties and number *)
(* of rounds.                                                               *)
EXTENDS LockStep, TLAPS

\* The rounds and the standings of the parties stay within their types.
LEMMA LockStepTypeStep == LSTypeOK /\ [LSNext]_lsVars => LSTypeOK'
<1> SUFFICES ASSUME LSTypeOK, [LSNext]_lsVars PROVE LSTypeOK'
  OBVIOUS
<1>1. ASSUME NEW p \in Party, Finish(p) PROVE LSTypeOK'
  BY <1>1 DEF LSTypeOK, Finish
<1>2. ASSUME NEW p \in Party, Drop(p) PROVE LSTypeOK'
  BY <1>2 DEF LSTypeOK, Drop
<1>3. ASSUME NEW p \in Party, Proceed(p) PROVE LSTypeOK'
  BY <1>3 DEF LSTypeOK, Proceed
<1>4. CASE UNCHANGED lsVars
  BY <1>4 DEF LSTypeOK, lsVars
<1> QED
  BY <1>1, <1>2, <1>3, <1>4 DEF LSNext

THEOREM LockStepType == LSSpec => []LSTypeOK
<1>1. LSInit => LSTypeOK
  BY DEF LSInit, LSTypeOK
<1> QED
  BY <1>1, LockStepTypeStep, PTL DEF LSSpec

\* Nobody starts a round while another party still works on an earlier one.
\* This is what every implementation of the rounds inherits: for the tasks of
\* fbpml-multiclient, no request of a stage overlaps one of another stage.
THEOREM LockStepAligned == LSSpec => []Aligned
<1>1. LSInit => Aligned
  BY DEF LSInit, Aligned
<1>2. LSTypeOK /\ Aligned /\ [LSNext]_lsVars => Aligned'
  <2> SUFFICES ASSUME LSTypeOK, Aligned, [LSNext]_lsVars PROVE Aligned'
    OBVIOUS
  <2>1. ASSUME NEW p \in Party, Finish(p) PROVE Aligned'
    BY <2>1 DEF LSTypeOK, Aligned, Finish
  <2>2. ASSUME NEW p \in Party, Drop(p) PROVE Aligned'
    BY <2>2 DEF LSTypeOK, Aligned, Drop
  <2>3. ASSUME NEW p \in Party, Proceed(p) PROVE Aligned'
    <3> SUFFICES ASSUME NEW a \in Party, NEW b \in Party, round'[a] > round'[b]
                 PROVE  round'[a] = round'[b] + 1 /\ state'[b] = "finished"
      BY DEF Aligned
    <3>1. /\ round \in [Party -> Int]
          /\ state \in [Party -> {"busy", "finished", "out"}]
          /\ round' = [round EXCEPT ![p] = round[p] + 1]
          /\ state' = [state EXCEPT ![p] = "busy"]
          /\ Cleared(p)
      BY <2>3 DEF LSTypeOK, Proceed
    \* p was among the last: had anybody been ahead, by one round, then p
    \* only catches up with him.
    <3>2. CASE b = p
      BY <3>1, <3>2 DEF Aligned
    <3>3. CASE b # p /\ a = p
      BY <3>1, <3>3 DEF Aligned, Cleared
    <3>4. CASE b # p /\ a # p
      BY <3>1, <3>4 DEF Aligned
    <3> QED
      BY <3>2, <3>3, <3>4
  <2>4. CASE UNCHANGED lsVars
    BY <2>4 DEF Aligned, lsVars
  <2> QED
    BY <2>1, <2>2, <2>3, <2>4 DEF LSNext
<1> QED
  BY <1>1, <1>2, LockStepType, PTL DEF LSSpec
=============================================================================
