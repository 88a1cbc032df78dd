------------------------------ MODULE LockStep ------------------------------
(***************************************************************************)
(* What fbpml-multiclient promises its users: the parties (one worker task *)
(* per MicroVM) go through numbered rounds (restore, resume, cold request, *)
(* ...) in lock step.  A party finishes its round on its own, and enters   *)
(* the next one only when every party has finished the round it leaves.    *)
(* A party may drop out of a round it has not finished (its request        *)
(* failed); it then never finishes it.                                     *)
(*                                                                         *)
(* The module says nothing of how the rounds are separated.  MultiClient   *)
(* implements it with one tokio::sync::Barrier.                            *)
(***************************************************************************)
EXTENDS Integers

CONSTANTS
  Party,       \* who takes part
  Rounds       \* the number of rounds

VARIABLES
  round,       \* round[p]: the round p is in, Rounds+1 when it is through
  state        \* state[p]: what p is doing in that round

lsVars == <<round, state>>

LSTypeOK ==
  /\ round \in [Party -> Nat]
  /\ state \in [Party -> {"busy", "finished", "out"}]

LSInit ==
  /\ round = [p \in Party |-> 1]
  /\ state = [p \in Party |-> "busy"]

\* p finishes its round.
Finish(p) ==
  /\ round[p] <= Rounds
  /\ state[p] = "busy"
  /\ state' = [state EXCEPT ![p] = "finished"]
  /\ UNCHANGED round

\* p drops out of a round it has not finished.
Drop(p) ==
  /\ round[p] <= Rounds
  /\ state[p] = "busy"
  /\ state' = [state EXCEPT ![p] = "out"]
  /\ UNCHANGED round

\* Every party has finished the round p is in.
Cleared(p) ==
  \A q \in Party : \/ round[q] > round[p]
                   \/ round[q] = round[p] /\ state[q] = "finished"

\* p enters the next round.
Proceed(p) ==
  /\ round[p] <= Rounds
  /\ Cleared(p)
  /\ round' = [round EXCEPT ![p] = @ + 1]
  /\ state' = [state EXCEPT ![p] = "busy"]

LSNext == \E p \in Party : Finish(p) \/ Drop(p) \/ Proceed(p)

LSSpec == LSInit /\ [][LSNext]_lsVars

-----------------------------------------------------------------------------
\* Two parties are never more than one round apart, and the one behind has
\* finished the round it is in: nobody starts a round while another still
\* works on, or dropped out of, an earlier one.
Aligned ==
  \A p, q \in Party :
    round[p] > round[q] => round[p] = round[q] + 1 /\ state[q] = "finished"

=============================================================================
