------------------------------- MODULE HostNet -------------------------------
(***************************************************************************)
(* The host's side of the MicroVMs' network: scripts/host_net.sh adds a    *)
(* tap interface, its address and its iptables rule, and, when no tap of   *)
(* this prefix is there, the one-time rules common to all;                 *)
(* scripts/host_net_cleanup.sh takes one down; taps_check of run_multi.sh  *)
(* counts them before an experiment.                                       *)
(*                                                                         *)
(* One action per command.  The scripts run under `set -e`: a command that *)
(* fails ends its script there.  Scripts for different IDs may run at the  *)
(* same time; the README runs them in a loop, one after the other.         *)
(***************************************************************************)
EXTENDS Integers, FiniteSets

CONSTANTS
  Ids,         \* the instances' IDs
  Parallel,    \* whether several scripts run at once
  MaxCommands, \* bound: how many scripts are run
  MaxFaults    \* bound: how many commands fail for reasons of their own

ASSUME ParallelAssumption == Parallel \in BOOLEAN
ASSUME BoundsAssumption == MaxCommands \in Nat /\ MaxFaults \in Nat
ASSUME IdsAssumption == IsFiniteSet(Ids)

VARIABLES
  pc,          \* pc[i]: the next command of the script that runs for ID i
  exit,        \* exit[i]: how the last script for ID i ended, "none" while one runs
  tap,         \* the IDs whose tap interface exists
  addr,        \* the IDs whose tap interface has its address
  up,          \* the IDs whose tap interface is up
  accept,      \* accept[i]: FORWARD rules for tap i
  masquerade,  \* MASQUERADE rules (nat POSTROUTING)
  related,     \* FORWARD rules for RELATED,ESTABLISHED
  torn,        \* history: the IDs whose script ended with the interface there and
               \* its FORWARD rule not there
  commands,    \* how many scripts have been started
  faults       \* how many commands have failed

netVars == <<tap, addr, up, accept, masquerade, related>>
vars == <<pc, exit, netVars, torn, commands, faults>>

TypeOK ==
  /\ pc \in [Ids -> {"none", "check", "masquerade", "related", "tuntap", "addr",
                     "accept", "link", "unaccept", "del"}]
  /\ exit \in [Ids -> {"none", "net ok", "net failed",
                       "cleanup ok", "cleanup failed", "cleanup killed"}]
  /\ tap \subseteq Ids /\ addr \subseteq tap /\ up \subseteq tap
  /\ accept \in [Ids -> 0..MaxCommands]
  /\ masquerade \in 0..MaxCommands
  /\ related \in 0..MaxCommands
  /\ torn \subseteq Ids
  /\ commands \in 0..MaxCommands
  /\ faults \in 0..MaxFaults

Init ==
  /\ pc = [i \in Ids |-> "none"]
  /\ exit = [i \in Ids |-> "none"]
  /\ tap = {} /\ addr = {} /\ up = {}
  /\ accept = [i \in Ids |-> 0]
  /\ masquerade = 0 /\ related = 0
  /\ torn = {} /\ commands = 0 /\ faults = 0

-----------------------------------------------------------------------------
Goto(i, p) == pc' = [pc EXCEPT ![i] = p] /\ UNCHANGED exit
Exit(i, status) == /\ pc' = [pc EXCEPT ![i] = "none"]
                   /\ exit' = [exit EXCEPT ![i] = status]
Running == {i \in Ids : pc[i] # "none"}

\* Somebody starts a script for ID i.
Start(i, p) ==
  /\ pc[i] = "none"
  /\ Parallel \/ Running = {}
  /\ commands < MaxCommands
  /\ commands' = commands + 1
  /\ pc' = [pc EXCEPT ![i] = p]
  /\ exit' = [exit EXCEPT ![i] = "none"]
  /\ UNCHANGED <<netVars, torn, faults>>
HostNet(i) == Start(i, "check")
HostNetCleanup(i) == Start(i, "unaccept")

\* A command of host_net.sh fails for a reason of its own, or its script is killed.
NetPcs == {"masquerade", "related", "tuntap", "addr", "accept", "link"}
Fails(i) ==
  /\ pc[i] \in NetPcs
  /\ faults < MaxFaults
  /\ faults' = faults + 1
  /\ torn' = IF pc[i] \in {"addr", "accept"} THEN torn \cup {i} ELSE torn
  /\ Exit(i, "net failed")
  /\ UNCHANGED <<netVars, commands>>

\* The same of host_net_cleanup.sh.
CleanupFails(i) ==
  /\ pc[i] \in {"unaccept", "del"}
  /\ faults < MaxFaults
  /\ faults' = faults + 1
  /\ torn' = IF pc[i] = "del" THEN torn \cup {i} ELSE torn
  /\ Exit(i, "cleanup killed")
  /\ UNCHANGED <<netVars, commands>>

(***************************************************************************)
(* host_net.sh                                                             *)
(***************************************************************************)
\* Is a tap interface of this prefix there?  `ip -o a s` prints a line for every
\* address and none for an interface that has no address yet.
CheckOthers(i) ==
  /\ pc[i] = "check"
  /\ Goto(i, IF addr = {} THEN "masquerade" ELSE "tuntap")
  /\ UNCHANGED <<netVars, torn, commands, faults>>

AddMasquerade(i) ==
  /\ pc[i] = "masquerade"
  /\ masquerade' = masquerade + 1
  /\ Goto(i, "related")
  /\ UNCHANGED <<tap, addr, up, accept, related, torn, commands, faults>>

AddRelated(i) ==
  /\ pc[i] = "related"
  /\ related' = related + 1
  /\ Goto(i, "tuntap")
  /\ UNCHANGED <<tap, addr, up, accept, masquerade, torn, commands, faults>>

\* Seeded fault: an interface that is there is used.
AddTapLax(i) ==
  /\ pc[i] = "tuntap"
  /\ Goto(i, "addr")
  /\ tap' = tap \cup {i}
  /\ UNCHANGED <<addr, up, accept, masquerade, related, torn, commands, faults>>

\* An interface of that name may be there already.
AddTap(i) ==
  /\ pc[i] = "tuntap"
  /\ IF i \in tap
       THEN Exit(i, "net failed") /\ UNCHANGED tap
       ELSE Goto(i, "addr") /\ tap' = tap \cup {i}
  /\ UNCHANGED <<addr, up, accept, masquerade, related, torn, commands, faults>>

AddAddr(i) ==
  /\ pc[i] = "addr"
  /\ addr' = addr \cup {i}
  /\ Goto(i, "accept")
  /\ UNCHANGED <<tap, up, accept, masquerade, related, torn, commands, faults>>

\* Seeded fault: the rule is inserted only for the first tap interface.
AddAcceptOnce(i) ==
  /\ pc[i] = "accept"
  /\ accept' = [accept EXCEPT ![i] = IF tap = {i} THEN @ + 1 ELSE @]
  /\ Goto(i, "link")
  /\ UNCHANGED <<tap, addr, up, masquerade, related, torn, commands, faults>>

AddAccept(i) ==
  /\ pc[i] = "accept"
  /\ accept' = [accept EXCEPT ![i] = @ + 1]
  /\ Goto(i, "link")
  /\ UNCHANGED <<tap, addr, up, masquerade, related, torn, commands, faults>>

LinkUp(i) ==
  /\ pc[i] = "link"
  /\ up' = up \cup {i}
  /\ Exit(i, "net ok")
  /\ UNCHANGED <<tap, addr, accept, masquerade, related, torn, commands, faults>>

(***************************************************************************)
(* host_net_cleanup.sh: the removal of the one-time rules is commented     *)
(* out.                                                                    *)
(***************************************************************************)
\* Seeded fault: the block that is commented out.
DeleteAcceptAndCommon(i) ==
  /\ pc[i] = "unaccept"
  /\ IF accept[i] = 0
       THEN Exit(i, "cleanup failed") /\ UNCHANGED accept
       ELSE Goto(i, "del") /\ accept' = [accept EXCEPT ![i] = @ - 1]
  /\ IF Cardinality(addr) = 1
       THEN masquerade' = 0 /\ related' = 0
       ELSE UNCHANGED <<masquerade, related>>
  /\ UNCHANGED <<tap, addr, up, torn, commands, faults>>

\* iptables -D fails when there is no such rule.
DeleteAccept(i) ==
  /\ pc[i] = "unaccept"
  /\ IF accept[i] = 0
       THEN Exit(i, "cleanup failed") /\ UNCHANGED accept
       ELSE Goto(i, "del") /\ accept' = [accept EXCEPT ![i] = @ - 1]
  /\ UNCHANGED <<tap, addr, up, masquerade, related, torn, commands, faults>>

\* Seeded fault: the address outlives its interface.
LinkDelOnly(i) ==
  /\ pc[i] = "del"
  /\ tap' = tap \ {i}
  /\ Exit(i, IF i \in tap THEN "cleanup ok" ELSE "cleanup failed")
  /\ UNCHANGED <<addr, up, accept, masquerade, related, torn, commands, faults>>

\* ip link del fails when there is no such interface.
LinkDel(i) ==
  /\ pc[i] = "del"
  /\ tap' = tap \ {i}
  /\ addr' = addr \ {i}
  /\ up' = up \ {i}
  /\ Exit(i, IF i \in tap THEN "cleanup ok" ELSE "cleanup failed")
  /\ UNCHANGED <<accept, masquerade, related, torn, commands, faults>>

-----------------------------------------------------------------------------
(***************************************************************************)
(* taps_check of run_multi.sh: it counts the lines of `ip a s` that name a *)
(* tap interface.  Its link has one, and so has its address.               *)
(***************************************************************************)
TapLines == Cardinality(tap) + Cardinality(addr)
TapsCheck(expected) == TapLines >= expected

Step(i) ==
  \/ CheckOthers(i) \/ AddMasquerade(i) \/ AddRelated(i)
  \/ AddTap(i) \/ AddAddr(i) \/ AddAccept(i) \/ LinkUp(i)
  \/ DeleteAccept(i) \/ LinkDel(i)

Rest == Running = {} /\ UNCHANGED vars

Next == \/ \E i \in Ids : HostNet(i) \/ HostNetCleanup(i) \/ Step(i)
                        \/ Fails(i) \/ CleanupFails(i)
        \/ Rest

Spec == Init /\ [][Next]_vars

-----------------------------------------------------------------------------
\* A MicroVM's traffic passes: its interface is up and has its address, and
\* both its own and the common rules are there.
Routed(i) ==
  /\ i \in up /\ i \in addr
  /\ accept[i] > 0
  /\ masquerade > 0 /\ related > 0

\* When host_net.sh has exited with success the MicroVM's traffic passes, and
\* keeps passing until the cleanup script is run for this ID: whatever other
\* scripts ran at the same time, failed before, or cleaned up after others, and
\* although only one of them sets up the common rules.
Undisturbed ==
  \A i \in Ids : exit[i] = "net ok" /\ pc[i] = "none" => Routed(i)

\* The cleanup script takes down every interface, also one that is not set up to
\* the end: when it fails by itself there is none, or it is torn.
CleansUp == \A i \in Ids : exit[i] = "cleanup failed" => i \notin tap \/ i \in torn

\* And what is torn stays: neither script, however often it is run, sets the
\* interface up or takes it down.
StaysTorn ==
  [][\A i \in torn : i \in tap' /\ exit'[i] \notin {"net ok", "cleanup ok"}]_vars

(***************************************************************************)
(* Why they hold: a FORWARD rule is there exactly while its interface is,  *)
(* but for the torn ones and between two commands of a script; and whoever *)
(* finds an interface with an address finds the common rules.              *)
(***************************************************************************)
\* The script of ID i has made its interface, or is about to delete it.
Amid(i) == pc[i] \in {"addr", "accept", "link", "del"}

RuleInv ==
  \A i \in Ids :
    accept[i] = IF i \in tap \ torn /\ pc[i] \notin {"addr", "accept", "del"} THEN 1 ELSE 0

ScriptInv ==
  \A i \in Ids :
    /\ pc[i] # "none" => exit[i] = "none" /\ commands > 0
    /\ Amid(i) => i \in tap \ torn
    /\ pc[i] \in {"accept", "link"} => i \in addr
    /\ exit[i] = "net ok" => i \in (up \cap addr) \ torn
    /\ i \in torn => i \in tap /\ exit[i] # "cleanup ok"

CommonInv ==
  /\ addr # {} => masquerade > 0 /\ related > 0
  /\ \A i \in Ids :
       /\ pc[i] = "related" => masquerade > 0
       /\ pc[i] = "tuntap" \/ (Amid(i) /\ pc[i] # "del") => masquerade > 0 /\ related > 0

\* There are no more common rules than scripts that have added one, or are yet to.
Before(pcs) == {i \in Ids : pc[i] \in pcs}
CountInv ==
  /\ masquerade + Cardinality(Before({"check", "masquerade"})) <= commands
  /\ related + Cardinality(Before({"check", "masquerade", "related"})) <= commands

IInv == TypeOK /\ RuleInv /\ ScriptInv /\ CommonInv /\ CountInv /\ CleansUp

\* An experiment with n MicroVMs starts only if the interfaces 0..n-1 exist.
TapsChecked ==
  Running = {} =>
    \A n \in 1..Cardinality(Ids) : TapsCheck(n) => 0..(n - 1) \subseteq tap
=============================================================================
