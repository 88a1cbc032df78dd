-------------------------- MODULE FbpmlClientProofs --------------------------
(***************************************************************************)
(* FbpmlClient for every value of MaxTime: the durations it prints add up, *)
(* and the server's part is within the client's.                           *)
(***************************************************************************)
EXTENDS FbpmlClient, TLAPS

\* The invariant holds at the start.
LEMMA InitInv == Init => IInv
  BY MaxTimeAssumption, SMTT(30)
  DEF Init, IInv, TypeOK, GlobalInv, FreshInv, ServerInv, Sum, Passed, Begun, Ahead,
      Rpcs, Requests, Time, Exited

\* Nothing is measured before the arguments are valid.
LEMMA ValidateInv == ASSUME IInv, Validate PROVE IInv'
<1> USE MaxTimeAssumption DEF IInv, TypeOK, Rpcs, Requests, Time, Exited, clocks, results
<1>1. TypeOK'
  BY SMTT(30) DEF Validate
<1>2. GlobalInv'
  BY SMTT(30) DEF Validate, GlobalInv, Sum, Passed, Begun
<1>3. FreshInv'
  BY SMTT(30) DEF Validate, FreshInv
<1>4. ServerInv'
  BY SMTT(30) DEF Validate, ServerInv
<1>5. QED
  BY <1>1, <1>2, <1>3, <1>4

\* The timer starts with nothing measured.
LEMMA StartTimerInv == ASSUME IInv, StartTimer PROVE IInv'
<1> USE MaxTimeAssumption DEF IInv, TypeOK, Rpcs, Requests, Time, Exited, clocks, results
<1>1. TypeOK'
  BY SMTT(30) DEF StartTimer
<1>2. GlobalInv'
  BY SMTT(30) DEF StartTimer, GlobalInv, Sum, Passed, Begun
<1>3. FreshInv'
  BY SMTT(30) DEF StartTimer, FreshInv
<1>4. ServerInv'
  BY SMTT(30) DEF StartTimer, ServerInv
<1>5. QED
  BY <1>1, <1>2, <1>3, <1>4

\* A request that is sent has taken no time yet.
LEMMA SendInv == ASSUME IInv, Send PROVE IInv'
<1> USE MaxTimeAssumption DEF IInv, TypeOK, Rpcs, Requests, Time, Exited, clocks, results
<1>1. TypeOK'
  BY SMTT(30) DEF Send
<1>2. GlobalInv'
  BY SMTT(30) DEF Send, GlobalInv, FreshInv, Sum, Passed, Begun
<1>3. FreshInv'
  BY SMTT(30) DEF Send, FreshInv
<1>4. ServerInv'
  BY SMTT(30) DEF Send, ServerInv
<1>5. QED
  BY <1>1, <1>2, <1>3, <1>4

\* What Firecracker's answer took goes from the request in flight to its result.
LEMMA AnsweredInv == ASSUME IInv, Answered PROVE IInv'
<1> USE MaxTimeAssumption DEF IInv, TypeOK, Rpcs, Requests, Time, Exited, clocks, results
<1>1. TypeOK'
  BY SMTT(30) DEF Answered, At, After, ServerInv
<1>2. GlobalInv'
  BY SMTT(30) DEF Answered, At, After, GlobalInv, Sum, Passed, Begun
<1>3. FreshInv'
  BY SMTT(30) DEF Answered, At, After, FreshInv, Ahead
<1>4. ServerInv'
  BY SMTT(30) DEF Answered, At, ServerInv
<1>5. QED
  BY <1>1, <1>2, <1>3, <1>4

\* So does what the guest's took, which is as long at least as the guest says.
LEMMA ServedInv == ASSUME IInv, Served PROVE IInv'
<1> USE MaxTimeAssumption DEF IInv, TypeOK, Rpcs, Requests, Time, Exited, clocks, results
<1>1. TypeOK'
  BY SMTT(30) DEF Served, Converted, ServerInv
<1>2. GlobalInv'
  BY SMTT(30) DEF Served, At, GlobalInv, Sum, Passed, Begun
<1>3. FreshInv'
  BY SMTT(30) DEF Served, FreshInv, Ahead
<1>4. ServerInv'
  BY SMTT(30) DEF Served, At, Converted, ServerInv
<1>5. QED
  BY <1>1, <1>2, <1>3, <1>4

\* The timer is read when its parts add up.
LEMMA StopTimerInv == ASSUME IInv, StopTimer PROVE IInv'
<1> USE MaxTimeAssumption DEF IInv, TypeOK, Rpcs, Requests, Time, Exited, clocks, results
<1>1. TypeOK'
  BY SMTT(30) DEF StopTimer, After, GlobalInv, ServerInv
<1>2. GlobalInv'
  BY SMTT(30) DEF StopTimer, GlobalInv, FreshInv, Ahead, Sum, Passed, Begun
<1>3. FreshInv'
  BY SMTT(30) DEF StopTimer, After, GlobalInv, FreshInv, Ahead
<1>4. ServerInv'
  BY SMTT(30) DEF StopTimer, ServerInv
<1>5. QED
  BY <1>1, <1>2, <1>3, <1>4

\* Printing changes no duration.
LEMMA PrintLineInv == ASSUME IInv, PrintLine PROVE IInv'
<1> USE MaxTimeAssumption DEF IInv, TypeOK, Rpcs, Requests, Time, Exited, clocks, results
<1>1. TypeOK'
  BY SMTT(30) DEF PrintLine
<1>2. GlobalInv'
  BY SMTT(30) DEF PrintLine, GlobalInv, Passed, Begun
<1>3. FreshInv'
  BY SMTT(30) DEF PrintLine, FreshInv
<1>4. ServerInv'
  BY SMTT(30) DEF PrintLine, ServerInv
<1>5. QED
  BY <1>1, <1>2, <1>3, <1>4

\* An error ends the client and the invariant's interest in its durations.
LEMMA RejectedInv == ASSUME IInv, Rejected PROVE IInv'
<1> USE MaxTimeAssumption DEF IInv, TypeOK, Rpcs, Requests, Time, Exited, clocks, results
<1>1. TypeOK'
  BY SMTT(30) DEF Rejected
<1>2. GlobalInv'
  BY SMTT(30) DEF Rejected, GlobalInv, Begun
<1>3. FreshInv'
  BY SMTT(30) DEF Rejected, FreshInv
<1>4. ServerInv'
  BY SMTT(30) DEF Rejected, ServerInv
<1>5. QED
  BY <1>1, <1>2, <1>3, <1>4

\* So does a request that fails.
LEMMA RequestFailedInv == ASSUME IInv, RequestFailed PROVE IInv'
<1> USE MaxTimeAssumption DEF IInv, TypeOK, Rpcs, Requests, Time, Exited, clocks, results
<1>1. TypeOK'
  BY SMTT(30) DEF RequestFailed
<1>2. GlobalInv'
  BY SMTT(30) DEF RequestFailed, GlobalInv, Begun
<1>3. FreshInv'
  BY SMTT(30) DEF RequestFailed, FreshInv
<1>4. ServerInv'
  BY SMTT(30) DEF RequestFailed, ServerInv
<1>5. QED
  BY <1>1, <1>2, <1>3, <1>4

\* The guest starts its timer after the client has started its own,
LEMMA ServeInv == ASSUME IInv, Serve PROVE IInv'
<1> USE MaxTimeAssumption DEF IInv, TypeOK, Rpcs, Requests, Time, Exited, clocks, results
<1>1. TypeOK'
  BY SMTT(30) DEF Serve
<1>2. GlobalInv'
  BY SMTT(30) DEF Serve, GlobalInv, Sum, Passed, Begun
<1>3. FreshInv'
  BY SMTT(30) DEF Serve, FreshInv
<1>4. ServerInv'
  BY SMTT(30) DEF Serve, At, ServerInv
<1>5. QED
  BY <1>1, <1>2, <1>3, <1>4

\* and stops it before the answer is there, whatever its clock did.
LEMMA ReplyInv == ASSUME IInv, Reply PROVE IInv'
<1> USE MaxTimeAssumption DEF IInv, TypeOK, Rpcs, Requests, Time, Exited, clocks, results
<1>1. TypeOK'
  BY SMTT(30) DEF Reply
<1>2. GlobalInv'
  BY SMTT(30) DEF Reply, GlobalInv, Sum, Passed, Begun
<1>3. FreshInv'
  BY SMTT(30) DEF Reply, FreshInv
<1>4. ServerInv'
  BY SMTT(30) DEF Reply, ServerInv
<1>5. QED
  BY <1>1, <1>2, <1>3, <1>4

\* A MicroVM that dies changes no duration.
LEMMA CrashInv == ASSUME IInv, Crash PROVE IInv'
<1> USE MaxTimeAssumption DEF IInv, TypeOK, Rpcs, Requests, Time, Exited, clocks, results
<1>1. TypeOK'
  BY SMTT(30) DEF Crash
<1>2. GlobalInv'
  BY SMTT(30) DEF Crash, GlobalInv, Sum, Passed, Begun
<1>3. FreshInv'
  BY SMTT(30) DEF Crash, FreshInv
<1>4. ServerInv'
  BY SMTT(30) DEF Crash, ServerInv
<1>5. QED
  BY <1>1, <1>2, <1>3, <1>4

\* Time passes for the timer as for its parts.
LEMMA TickInv == ASSUME IInv, Tick PROVE IInv'
<1> USE MaxTimeAssumption DEF IInv, TypeOK, Rpcs, Requests, Time, Exited, clocks, results
<1>1. TypeOK'
  BY SMTT(30) DEF Tick, GlobalInv, Sum, Passed
<1>2. GlobalInv'
  BY SMTT(30) DEF Tick, Timed, GlobalInv, Ahead, Sum, Passed, Begun
<1>3. FreshInv'
  BY SMTT(30) DEF Tick, FreshInv
<1>4. ServerInv'
  BY SMTT(30) DEF Tick, ServerInv
<1>5. QED
  BY <1>1, <1>2, <1>3, <1>4

\* Every step keeps the invariant.
LEMMA NextInv == IInv /\ [Next]_vars => IInv'
<1> SUFFICES ASSUME IInv, [Next]_vars PROVE IInv'
  OBVIOUS
<1>1. CASE Validate
  BY <1>1, ValidateInv
<1>2. CASE StartTimer
  BY <1>2, StartTimerInv
<1>3. CASE Send
  BY <1>3, SendInv
<1>4. CASE Answered
  BY <1>4, AnsweredInv
<1>5. CASE Served
  BY <1>5, ServedInv
<1>6. CASE StopTimer
  BY <1>6, StopTimerInv
<1>7. CASE PrintLine
  BY <1>7, PrintLineInv
<1>8. CASE Rejected
  BY <1>8, RejectedInv
<1>9. CASE RequestFailed
  BY <1>9, RequestFailedInv
<1>10. CASE Serve
  BY <1>10, ServeInv
<1>11. CASE Reply
  BY <1>11, ReplyInv
<1>12. CASE Crash
  BY <1>12, CrashInv
<1>13. CASE Tick
  BY <1>13, TickInv
<1>14. CASE UNCHANGED vars
  BY <1>14 DEF vars, clocks, results, IInv, TypeOK, GlobalInv, FreshInv, ServerInv, Sum,
             Passed, Begun
<1>15. QED
  BY <1>1, <1>2, <1>3, <1>4, <1>5, <1>6, <1>7, <1>8, <1>9, <1>10, <1>11, <1>12,
     <1>13, <1>14
  DEF Next, ClientStep, GuestStep, Exit

\* The parts of the durations agree in every state the client can be in.
THEOREM Invariant == Spec => []IInv
<1>1. QED
  BY InitInv, NextInv, PTL DEF Spec

\* The types hold.
THEOREM TypeCorrect == Spec => []TypeOK
<1>1. IInv => TypeOK
  BY DEF IInv
<1>2. QED
  BY <1>1, Invariant, PTL

\* `global` covers the first three requests and what is between them, no more.
THEOREM GlobalCovers == Spec => []GlobalRight
<1>1. IInv => GlobalRight
  BY SMT DEF IInv, GlobalInv, GlobalRight, Begun, Passed
<1>2. QED
  BY <1>1, Invariant, PTL

\* The client's delay includes the server's, also when the guest's clock is set back.
THEOREM ServerPart == Spec => []ServerWithin
<1>1. IInv => ServerWithin
  BY DEF IInv, ServerInv, ServerWithin
<1>2. QED
  BY <1>1, Invariant, PTL

=============================================================================
