---------------------------- MODULE MCMultiClient ----------------------------
(* MultiClient on a few MicroVMs; the .cfg files give the constants.       *)
EXTENDS MultiClient

NoFaults == {}
AnswerFaults == {"reject"}
AllFaults == FaultKinds
=============================================================================
