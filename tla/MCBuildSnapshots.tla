-------------------------- MODULE MCBuildSnapshots --------------------------
(* BuildSnapshots on a few MicroVMs and invocations of make.               *)
EXTENDS BuildSnapshots

\* What an earlier invocation left stays until the end.
SoftFaults == FaultKinds \ {"leave"}
HardFaults == {"reject", "leave"}
=============================================================================
