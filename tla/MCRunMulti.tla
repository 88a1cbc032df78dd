----------------------------- MODULE MCRunMulti -----------------------------
(* RunMulti on small experiments.                                          *)
EXTENDS RunMulti

Both == <<"dcpm", "nvme">>
Dcpm == <<"dcpm">>
NoFaults == {}
Either == {TRUE, FALSE}
Loud == {FALSE}
Silent == {TRUE}
=============================================================================
