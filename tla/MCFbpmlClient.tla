---------------------------- MODULE MCFbpmlClient ----------------------------
(* FbpmlClient with a short clock.                                         *)
EXTENDS FbpmlClient

AllFaults == FaultKinds
=============================================================================
