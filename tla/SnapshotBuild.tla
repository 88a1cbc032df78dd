---------------------------- MODULE SnapshotBuild ----------------------------
(***************************************************************************)
(* What the operator may expect of `make multi-snapshot/<bench>`, however  *)
(* the program behind it (module BuildSnapshots) goes about it: within one *)
(* build a MicroVM is booted once at most, a snapshot that was made is not *)
(* lost, and success means a snapshot of every MicroVM and none running.   *)
(* After an error some are made, and some MicroVMs may be left running.    *)
(* Module RunMulti takes its Rebuild action from here.                     *)
(***************************************************************************)
CONSTANT Uvms

VARIABLES
  status,  \* of the current build
  uvm,     \* uvm[w]: what became of the MicroVM it boots
  made     \* the MicroVMs whose snapshot it has made

sbVars == <<status, uvm, made>>

Absent == [w \in Uvms |-> "absent"]

SBInit == status = "building" /\ uvm = Absent /\ made = {}

Boot(w) ==
  /\ status = "building"
  /\ uvm[w] = "absent"
  /\ uvm' = [uvm EXCEPT ![w] = "running"]
  /\ UNCHANGED <<status, made>>

\* It is killed, or dies; it may also be gone after the build.
End(w) ==
  /\ uvm[w] = "running"
  /\ uvm' = [uvm EXCEPT ![w] = "gone"]
  /\ UNCHANGED <<status, made>>

Make(w) ==
  /\ status = "building"
  /\ uvm[w] # "absent"
  /\ made' = made \cup {w}
  /\ UNCHANGED <<status, uvm>>

Succeed ==
  /\ status = "building"
  /\ made = Uvms /\ \A w \in Uvms : uvm[w] = "gone"
  /\ status' = "ok"
  /\ UNCHANGED <<uvm, made>>

GiveUp ==
  /\ status = "building"
  /\ status' = "error"
  /\ UNCHANGED <<uvm, made>>

\* make is invoked again.
Again ==
  /\ status \in {"ok", "error"}
  /\ status' = "building" /\ uvm' = Absent /\ made' = {}

SBNext == \/ \E w \in Uvms : Boot(w) \/ End(w) \/ Make(w)
          \/ Succeed \/ GiveUp \/ Again

SBSpec == SBInit /\ [][SBNext]_sbVars

=============================================================================
