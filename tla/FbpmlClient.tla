----------------------------- MODULE FbpmlClient -----------------------------
(***************************************************************************)
(* fbpml-client (fbpml-rs/fbpml-client/src/main.rs): one MicroVM is        *)
(* restored, resumed and sent a cold and a warm request, or, with `issue`, *)
(* only sent the requests.  What it prints are durations, so the model has *)
(* a clock; time passes only in Tick.  The durations are taken where the   *)
(* code reads its Instants (also in fbpml/src/lib.rs and, in the guest, in *)
(* the benchmark's server.py).                                             *)
(***************************************************************************)
EXTENDS Integers

CONSTANTS
  MaxTime,  \* bound: the clock's last value
  Faults    \* what may go wrong

FaultKinds ==
  { "missing",  \* the socket or a snapshot file is not there
    "reject",   \* a request is refused
    "crash",    \* the MicroVM dies
    "back" }    \* the guest's clock is set back while it computes

ASSUME MaxTimeAssumption == MaxTime \in Nat
ASSUME SingleFaultsAssumption == Faults \subseteq FaultKinds

Rpcs == {"cold", "warm"}
Requests == {"restore", "resume"} \cup Rpcs
\* What follows a request; `issue` begins with the cold one.
After == [restore |-> "resume", resume |-> "cold", cold |-> "warm"]

VARIABLES
  cli,       \* the command, and whether its benchmark's requests are implemented
  pc,        \* where `main` is
  stage,     \* the request it is at
  vm,        \* the MicroVM
  guest,     \* what its one-worker gRPC server does
  now,       \* the clock
  timer,     \* global_start
  sent,      \* restore_start, resume_start, client_start
  begun,     \* the guest's response_start
  reported,  \* the response's response_duration, negative if the clock went back
  client,    \* client[r]: the duration the client measured for request r
  server,    \* server[r]: the one the guest reported, as converted to a Delays
  global,    \* Measurement.global
  idle       \* history: how long no request was in flight while the timer ran

clocks == <<timer, sent, begun>>
results == <<reported, client, server, global>>
vars == <<cli, pc, stage, vm, guest, now, clocks, results, idle>>

Exited == {"ok", "error"}
Time == 0..MaxTime
At(p, names) == pc = p /\ stage \in names

TypeOK ==
  /\ cli \in [cmd : {"issue", "restore"}, implemented : BOOLEAN]
  /\ pc \in {"validate", "start", "ready", "inflight", "stop", "print"} \cup Exited
  /\ stage \in Requests
  /\ vm \in {"missing", "fresh", "paused", "running", "dead"}
  /\ guest \in {"idle", "busy", "replied"}
  /\ now \in Time /\ timer \in Time /\ sent \in Time /\ begun \in Time
  /\ reported \in (-MaxTime)..MaxTime
  /\ client \in [Requests -> Time]
  /\ server \in [Rpcs -> Time]
  /\ global \in Time /\ idle \in Time

\* The requests of RNNServing are not implemented.  Durations that are not
\* measured are Duration::ZERO.
Init ==
  /\ cli \in [cmd : {"issue", "restore"}, implemented : BOOLEAN]
  /\ pc = IF cli.cmd = "restore" THEN "validate" ELSE "start"
  /\ stage = IF cli.cmd = "restore" THEN "restore" ELSE "cold"
  /\ vm \in IF cli.cmd = "issue" THEN {"running"}
            ELSE {"fresh"} \cup (Faults \cap {"missing"})
  /\ guest = "idle"
  /\ now = 0 /\ timer = 0 /\ sent = 0 /\ begun = 0 /\ reported = 0
  /\ client = [r \in Requests |-> 0]
  /\ server = [r \in Rpcs |-> 0]
  /\ global = 0 /\ idle = 0

-----------------------------------------------------------------------------
(***************************************************************************)
(* The client.                                                             *)
(***************************************************************************)
\* RestoreCmd::validate: stat the API socket and the two files.
Validate ==
  /\ pc = "validate"
  /\ pc' = IF vm = "missing" THEN "error" ELSE "start"
  /\ UNCHANGED <<cli, stage, vm, guest, now, clocks, results, idle>>

StartTimer ==
  /\ pc = "start"
  /\ timer' = now
  /\ pc' = "ready"
  /\ UNCHANGED <<cli, stage, vm, guest, now, sent, begun, results, idle>>

\* Seeded fault: resume's timer is started with restore's.
SendOneStart ==
  /\ pc = "ready"
  /\ stage \in Rpcs => cli.implemented /\ vm = "running"
  /\ sent' = IF stage = "resume" THEN sent ELSE now
  /\ pc' = "inflight"
  /\ UNCHANGED <<cli, stage, vm, guest, now, timer, begun, results, idle>>

\* Build the request, and for gRPC connect to the server, then start its timer.
Send ==
  /\ pc = "ready"
  /\ stage \in Rpcs => cli.implemented /\ vm = "running"
  /\ sent' = now
  /\ pc' = "inflight"
  /\ UNCHANGED <<cli, stage, vm, guest, now, timer, begun, results, idle>>

\* Firecracker has answered 204 to PUT /snapshot/load or to PATCH /vm.
Answered ==
  /\ \/ At("inflight", {"restore"}) /\ vm = "fresh" /\ vm' = "paused"
     \/ At("inflight", {"resume"}) /\ vm = "paused" /\ vm' = "running"
  /\ client' = [client EXCEPT ![stage] = now - sent]
  /\ stage' = After[stage]
  /\ pc' = "ready"
  /\ UNCHANGED <<cli, guest, now, clocks, reported, server, global, idle>>

\* Seeded fault: a negative duration is taken as it is.
ConvertedRaw(duration) == duration

\* Delays::from: what does not convert to a Duration becomes zero.
Converted(duration) == IF duration < 0 THEN 0 ELSE duration

\* The gRPC response is here.
Served ==
  /\ At("inflight", Rpcs)
  /\ vm = "running" /\ guest = "replied"
  /\ client' = [client EXCEPT ![stage] = now - sent]
  /\ server' = [server EXCEPT ![stage] = Converted(reported)]
  /\ guest' = "idle"
  /\ pc' = IF stage = "cold" THEN "stop" ELSE "print"
  /\ UNCHANGED <<cli, stage, vm, now, clocks, reported, global, idle>>

StopTimer ==
  /\ pc = "stop"
  /\ global' = now - timer
  /\ stage' = After[stage]
  /\ pc' = "ready"
  /\ UNCHANGED <<cli, vm, guest, now, clocks, reported, client, server, idle>>

PrintLine ==
  /\ pc = "print"
  /\ pc' = "ok"
  /\ UNCHANGED <<cli, stage, vm, guest, now, clocks, results, idle>>

\* A request is answered with an error: `?` returns from main, nothing is printed.
Rejected ==
  /\ "reject" \in Faults
  /\ pc \in {"ready", "inflight"}
  /\ pc' = "error"
  /\ UNCHANGED <<cli, stage, vm, guest, now, clocks, results, idle>>

\* Seeded fault: a connection that is closed is not noticed.
RequestIgnored ==
  /\ pc \in {"ready", "inflight"}
  /\ stage \in Rpcs /\ (vm = "dead" \/ ~cli.implemented)
  /\ pc' = "error"
  /\ UNCHANGED <<cli, stage, vm, guest, now, clocks, results, idle>>

\* There is nobody to answer it, or it is not implemented.
RequestFailed ==
  /\ pc \in {"ready", "inflight"}
  /\ vm = "dead" \/ (~cli.implemented /\ stage \in Rpcs)
  /\ pc' = "error"
  /\ UNCHANGED <<cli, stage, vm, guest, now, clocks, results, idle>>

(***************************************************************************)
(* The guest, and time.                                                    *)
(***************************************************************************)
\* Seeded fault: response_start is that of the first request.
ServeOneStart ==
  /\ At("inflight", Rpcs)
  /\ vm = "running" /\ guest = "idle"
  /\ guest' = "busy"
  /\ begun' = IF stage = "cold" THEN now ELSE begun
  /\ UNCHANGED <<cli, pc, stage, vm, now, timer, sent, results, idle>>

\* The server's worker enters Bench().
Serve ==
  /\ At("inflight", Rpcs)
  /\ vm = "running" /\ guest = "idle"
  /\ guest' = "busy"
  /\ begun' = now
  /\ UNCHANGED <<cli, pc, stage, vm, now, timer, sent, results, idle>>

\* Bench() returns the time it took, by time.time().
Reply ==
  /\ vm = "running" /\ guest = "busy"
  /\ guest' = "replied"
  /\ \E back \in IF "back" \in Faults THEN Time ELSE {0} :
       /\ back <= now
       /\ reported' = now - begun - back
  /\ UNCHANGED <<cli, pc, stage, vm, now, clocks, client, server, global, idle>>

Crash ==
  /\ "crash" \in Faults
  /\ vm \in {"fresh", "paused", "running"}
  /\ vm' = "dead"
  /\ UNCHANGED <<cli, pc, stage, guest, now, clocks, results, idle>>

Timed == pc \in {"ready", "inflight", "stop"} /\ stage # "warm"
Tick ==
  /\ now < MaxTime
  /\ pc \notin Exited
  /\ now' = now + 1
  /\ idle' = IF Timed /\ pc # "inflight" THEN idle + 1 ELSE idle
  /\ UNCHANGED <<cli, pc, stage, vm, guest, clocks, results>>

-----------------------------------------------------------------------------
ClientStep == \/ Validate \/ StartTimer \/ Send \/ Answered \/ Served
              \/ StopTimer \/ PrintLine \/ RequestFailed
GuestStep == Serve \/ Reply
Exit == pc \in Exited /\ UNCHANGED vars

Next == ClientStep \/ Rejected \/ GuestStep \/ Crash \/ Tick \/ Exit

Spec == Init /\ [][Next]_vars

\* The guest died with a gRPC request in flight.  No packet tells the client, and
\* it sets neither a timeout nor keep-alive: it may, or may not, get an error.
Lost == At("inflight", Rpcs) /\ vm = "dead"

\* Otherwise what is sent is answered or fails.
FairSpec == Spec /\ WF_vars(ClientStep /\ ~Lost) /\ WF_vars(GuestStep)

-----------------------------------------------------------------------------
\* `global` is the time to restore and resume the MicroVM and to have the cold
\* request answered, with what is between them, and nothing of the validation
\* before or of the warm request after it.
GlobalRight ==
  pc = "ok" =>
    /\ global = client["restore"] + client["resume"] + client["cold"] + idle
    /\ timer + global + client["warm"] <= now

\* "The delay as measured by the client (i.e., it should include server's
\* delay)": also when the guest's clock went back in between.
ServerWithin == pc = "ok" => \A r \in Rpcs : server[r] <= client[r]

\* The client ends, whatever fails, unless its MicroVM dies with a gRPC request in
\* flight.
EndsOrLost == <>(pc \in Exited \/ []Lost)

\* The parts of `global` add up at every moment, for the timer that runs as for
\* the request in flight.
Passed(r) == IF stage = r /\ pc = "inflight" THEN now - sent ELSE client[r]
Sum == Passed("restore") + Passed("resume") + Passed("cold") + idle
Begun == pc \notin {"validate", "start", "error"}
GlobalInv ==
  /\ ~Begun /\ pc # "error" => Sum = 0 /\ stage # "warm"
  /\ Begun /\ stage # "warm" => now = timer + Sum
  /\ pc = "stop" => stage = "cold"
  /\ pc \in {"print", "ok"} => stage = "warm"
  /\ Begun /\ stage = "warm" =>
       /\ global = client["restore"] + client["resume"] + client["cold"] + idle
       /\ timer + global + Passed("warm") <= now

\* What has not been answered yet has not been measured.
Ahead == [restore |-> {"resume", "cold", "warm"}, resume |-> {"cold", "warm"},
          cold |-> {"warm"}, warm |-> {}]
FreshInv ==
  /\ \A r \in Ahead[stage] : client[r] = 0
  /\ pc \in {"validate", "start", "ready", "inflight"} => client[stage] = 0

\* The server's part is within the client's, from the first to the last moment.
ServerInv ==
  /\ sent <= now /\ timer <= now /\ begun <= now
  /\ pc = "inflight" =>
       /\ guest = "busy" => sent <= begun
       /\ guest = "replied" => reported <= now - sent
  /\ guest # "idle" => pc \in {"inflight", "error"} /\ stage \in Rpcs
  /\ \A r \in Rpcs : server[r] <= client[r]
IInv == TypeOK /\ GlobalInv /\ FreshInv /\ ServerInv
=============================================================================
