----------------------------- MODULE MCHostNet -----------------------------
(* HostNet on a few IDs.                                                   *)
EXTENDS HostNet

TwoIds == 0..1
ThreeIds == 0..2
=============================================================================
