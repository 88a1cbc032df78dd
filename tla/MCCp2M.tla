------------------------------- MODULE MCCp2M -------------------------------
(* Cp2M on a small file.                                                   *)
EXTENDS Cp2M
=============================================================================
