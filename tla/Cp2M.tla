-------------------------------- MODULE Cp2M --------------------------------
(***************************************************************************)
(* scripts/cp_2M/cp_2M.c: copy a file in chunks of 2 MiB.  One action per  *)
(* system call on the files, since the process may fail or be killed at    *)
(* each; its caller may run it again.  Chunk n of the source is the number *)
(* n, and -n is that chunk when only a part of it was written.             *)
(***************************************************************************)
EXTENDS Integers, Sequences

CONSTANTS
  Chunks,      \* the size of the source, in chunks
  MaxTries,    \* bound: how often the copy is run
  Faults       \* what may go wrong

FaultKinds ==
  { "io",      \* a system call on a file fails
    "full",    \* a write stores less than it was given
    "kill" }   \* the process dies

ASSUME ChunksAssumption == Chunks \in Nat
ASSUME TriesAssumption == MaxTries \in Nat \ {0}
ASSUME CopyFaultsAssumption == Faults \subseteq FaultKinds

VARIABLES
  pc,          \* the next system call
  tries,       \* how often the copy has been started
  size,        \* `size` of the loop: what is still to be copied
  pos,         \* the offset in both files
  exists,      \* whether the destination exists
  dst          \* what it contains: a sequence of chunks

loopVars == <<size, pos>>
fileVars == <<exists, dst>>
vars == <<pc, tries, loopVars, fileVars>>

TypeOK ==
  /\ pc \in {"statDst", "statSrc", "openSrc", "openDst", "read", "write", "close",
             "ok", "failed"}
  /\ tries \in 1..MaxTries
  /\ size \in 0..Chunks /\ pos \in 0..Chunks
  /\ exists \in BOOLEAN
  /\ dst \in Seq((-Chunks)..Chunks)

Init ==
  /\ pc = "statDst" /\ tries = 1
  /\ size = 0 /\ pos = 0
  /\ exists = FALSE /\ dst = <<>>

-----------------------------------------------------------------------------
\* Seeded fault: what is there is taken for a file to write to.
StatDstLax ==
  /\ pc = "statDst"
  /\ pc' = "statSrc"
  /\ UNCHANGED <<tries, loopVars, fileVars>>

\* stat(2) on the destination: only ENOENT lets the copy begin.
StatDst ==
  /\ pc = "statDst"
  /\ pc' = IF exists THEN "failed" ELSE "statSrc"
  /\ UNCHANGED <<tries, loopVars, fileVars>>

StatSrc ==
  /\ pc = "statSrc"
  /\ size' = Chunks
  /\ pc' = "openSrc"
  /\ UNCHANGED <<tries, pos, fileVars>>

OpenSrc ==
  /\ pc = "openSrc"
  /\ pos' = 0
  /\ pc' = "openDst"
  /\ UNCHANGED <<tries, size, fileVars>>

\* O_WRONLY | O_CREAT, without O_TRUNC.
OpenDst ==
  /\ pc = "openDst"
  /\ exists' = TRUE
  /\ pc' = "read"
  /\ UNCHANGED <<tries, loopVars, dst>>

\* Seeded fault: the loop goes round once more and does not look at nr.
ReadOnceMore ==
  /\ pc = "read"
  /\ pc' = IF size >= 0 THEN "write" ELSE "close"
  /\ UNCHANGED <<tries, loopVars, fileVars>>

\* The loop's condition and its read; at the end of the file the loop breaks.
Read ==
  /\ pc = "read"
  /\ pc' = IF size > 0 /\ pos < Chunks THEN "write" ELSE "close"
  /\ UNCHANGED <<tries, loopVars, fileVars>>

\* The destination with chunk c at offset n, which is within it or at its end.
Stored(c, n) == IF n < Len(dst) THEN [dst EXCEPT ![n + 1] = c] ELSE Append(dst, c)

Write ==
  /\ pc = "write"
  /\ dst' = Stored(pos + 1, pos)
  /\ pos' = pos + 1 /\ size' = size - 1
  /\ pc' = "read"
  /\ UNCHANGED <<tries, exists>>

\* Seeded fault: nw is not compared with nr.
WriteShortUnseen ==
  /\ "full" \in Faults
  /\ pc = "write"
  /\ dst' = Stored(-(pos + 1), pos)
  /\ pos' = pos + 1 /\ size' = size - 1
  /\ pc' = "read"
  /\ UNCHANGED <<tries, exists>>

\* A short write: the process dies with a part of the chunk in the file.
WriteShort ==
  /\ "full" \in Faults
  /\ pc = "write"
  /\ dst' = Stored(-(pos + 1), pos)
  /\ pc' = "failed"
  /\ UNCHANGED <<tries, loopVars, exists>>

\* Errors of close(2) are printed and otherwise ignored.
Close ==
  /\ pc = "close"
  /\ pc' = "ok"
  /\ UNCHANGED <<tries, loopVars, fileVars>>

\* die(), or a signal: the files stay as they are.
Die ==
  /\ \/ "io" \in Faults /\ pc \notin {"close", "ok", "failed"}
     \/ "kill" \in Faults /\ pc \notin {"ok", "failed"}
  /\ pc' = "failed"
  /\ UNCHANGED <<tries, loopVars, fileVars>>

\* The caller runs it again.
Again ==
  /\ pc = "failed"
  /\ tries < MaxTries
  /\ tries' = tries + 1
  /\ pc' = "statDst"
  /\ UNCHANGED <<loopVars, fileVars>>

Rest == pc \in {"ok", "failed"} /\ UNCHANGED vars

Next ==
  \/ StatDst \/ StatSrc \/ OpenSrc \/ OpenDst
  \/ Read \/ Write \/ WriteShort \/ Close
  \/ Die \/ Again \/ Rest

Spec == Init /\ [][Next]_vars

-----------------------------------------------------------------------------
\* Exit status 0 means that the destination is the whole source, even after
\* earlier tries were interrupted anywhere.
OkIsCopy == pc = "ok" => exists /\ dst = [n \in 1..Chunks |-> n]

\* A copy that fails after it has created the destination is never repaired: no
\* later try succeeds (and run_multi.sh takes what is there for a snapshot).
StaysFailed == [](pc = "failed" /\ exists => [](pc # "ok"))

\* The inductive invariant behind OkIsCopy: no try goes past the check when an
\* earlier one has created the file, and what the loop has written is a prefix of
\* the source, as long as it has not failed.
CopyInv ==
  /\ pc \in {"statSrc", "openSrc", "openDst"} => ~exists
  /\ ~exists => dst = <<>>
  /\ pc \in {"openSrc", "openDst"} => size = Chunks
  /\ pc = "openDst" => pos = 0
  /\ pc \in {"read", "write", "close", "ok"} =>
       exists /\ dst = [n \in 1..pos |-> n] /\ size = Chunks - pos
  /\ pc = "write" => pos < Chunks
  /\ pc \in {"close", "ok"} => pos = Chunks
IInv == TypeOK /\ CopyInv
=============================================================================
