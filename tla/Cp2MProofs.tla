----------------------------- MODULE Cp2MProofs -----------------------------
(* Exit status 0 means a whole copy, for sources of every size and for any  *)
(* number of tries.                                                         *)
EXTENDS Cp2M, TLAPS

\* Storing the next chunk at the end of a prefix of the source makes the prefix
\* that is one chunk longer.
LEMMA NextChunk ==
  ASSUME NEW n \in Nat, n < Chunks, dst = [k \in 1..n |-> k]
  PROVE  Stored(n + 1, n) = [k \in 1..(n + 1) |-> k]
<1> DEFINE source == [k \in 1..n |-> k]
           longer == [k \in 1..(n + 1) |-> k]
<1>1. source \in Seq(Nat) /\ Len(source) = n
  OBVIOUS
<1>2. Stored(n + 1, n) = Append(source, n + 1)
  BY <1>1 DEF Stored
<1>3. Append(source, n + 1) \in Seq(Nat) /\ Len(Append(source, n + 1)) = n + 1
  BY <1>1
<1>4. ASSUME NEW k \in 1..(n + 1) PROVE Append(source, n + 1)[k] = k
  BY <1>1
<1>5. longer \in Seq(Nat) /\ Len(longer) = n + 1
  OBVIOUS
<1> QED
  BY <1>2, <1>3, <1>4, <1>5

\* A chunk that is stored within the file or at its end leaves a sequence of
\* chunks and parts of chunks.
LEMMA StoredType ==
  ASSUME NEW c \in (-Chunks)..Chunks, NEW n \in Nat, dst \in Seq((-Chunks)..Chunks)
  PROVE  Stored(c, n) \in Seq((-Chunks)..Chunks)
<1>1. CASE n < Len(dst)
  <2>1. n + 1 \in 1..Len(dst)
    BY <1>1
  <2> QED
    BY <1>1, <2>1 DEF Stored
<1>2. CASE ~(n < Len(dst))
  BY <1>2 DEF Stored
<1> QED
  BY <1>1, <1>2

\* The types and the loop's invariant hold initially.
LEMMA InitIInv == Init => IInv
<1> SUFFICES ASSUME Init PROVE IInv
  OBVIOUS
<1>1. <<>> \in Seq((-Chunks)..Chunks)
  OBVIOUS
<1>2. TypeOK
  <2>1. exists \in BOOLEAN
    BY Zenon DEF Init
  <2>2. tries \in 1..MaxTries /\ size \in 0..Chunks /\ pos \in 0..Chunks
    BY ChunksAssumption, TriesAssumption DEF Init
  <2>3. dst \in Seq((-Chunks)..Chunks)
    BY <1>1 DEF Init
  <2> QED
    BY <2>1, <2>2, <2>3 DEF Init, TypeOK
<1>3. CopyInv
  BY DEF Init, CopyInv
<1> QED
  BY <1>2, <1>3 DEF IInv

\* Every system call keeps them.
LEMMA NextIInv == IInv /\ [Next]_vars => IInv'
<1> SUFFICES ASSUME IInv, [Next]_vars PROVE IInv'
  OBVIOUS
<1> USE ChunksAssumption, TriesAssumption DEF IInv, TypeOK, CopyInv, loopVars, fileVars
<1>1. CASE StatDst
  BY <1>1 DEF StatDst
<1>2. CASE StatSrc
  BY <1>2 DEF StatSrc
<1>3. CASE OpenSrc
  BY <1>3 DEF OpenSrc
\* The file is created empty, the prefix of no chunks.
<1>4. CASE OpenDst
  <2>1. <<>> = [n \in 1..0 |-> n]
    OBVIOUS
  <2> QED
    BY <1>4, <2>1 DEF OpenDst
<1>5. CASE Read
  BY <1>5 DEF Read
<1>6. CASE Write
  <2>1. /\ pos \in Nat /\ pos < Chunks
        /\ dst = [n \in 1..pos |-> n]
        /\ exists /\ size = Chunks - pos
    BY <1>6 DEF Write
  <2>2. dst' = [n \in 1..(pos + 1) |-> n]
    BY <1>6, <2>1, NextChunk DEF Write
  <2>3. pos + 1 \in (-Chunks)..Chunks
    BY <2>1
  <2>4. dst' \in Seq((-Chunks)..Chunks)
    BY <1>6, <2>1, <2>3, StoredType DEF Write
  <2> QED
    BY <2>4, <1>6, <2>1, <2>2, <2>3 DEF Write
<1>7. CASE WriteShort
  <2>1. /\ pos \in Nat /\ pos < Chunks /\ exists
        /\ pc' = "failed" /\ UNCHANGED <<tries, loopVars, exists>>
        /\ dst' = Stored(-(pos + 1), pos)
    BY <1>7 DEF WriteShort
  <2>2. dst' \in Seq((-Chunks)..Chunks)
    BY <2>1, StoredType
  <2> QED
    BY <2>1, <2>2
<1>8. CASE Close
  BY <1>8 DEF Close
<1>9. CASE Die
  BY <1>9 DEF Die
<1>10. CASE Again
  BY <1>10 DEF Again
<1>11. CASE Rest \/ UNCHANGED vars
  BY <1>11 DEF Rest, vars
<1> QED
  BY <1>1, <1>2, <1>3, <1>4, <1>5, <1>6, <1>7, <1>8, <1>9, <1>10, <1>11 DEF Next

\* The types and the loop's invariant hold in every state.
THEOREM Invariant == Spec => []IInv
  BY InitIInv, NextIInv, PTL DEF Spec

\* Exit status 0 means that the destination is the whole source (cp_2M.c's loop).
THEOREM Copied == Spec => []OkIsCopy
<1>1. IInv => OkIsCopy
  BY DEF IInv, CopyInv, OkIsCopy
<1> QED
  BY <1>1, Invariant, PTL

\* After a try that failed with the file there, every later one is stopped by the
\* check at the start.
Hopeless == exists /\ pc \in {"failed", "statDst"}

THEOREM NeverRepaired == Spec => StaysFailed
<1>1. Hopeless /\ [Next]_vars => Hopeless'
  BY DEF Hopeless, Next, vars, loopVars, fileVars, StatDst, StatSrc, OpenSrc, OpenDst,
         Read, Write, WriteShort, Close, Die, Again, Rest
<1>2. Hopeless => pc # "ok"
  BY DEF Hopeless
<1>3. pc = "failed" /\ exists => Hopeless
  BY DEF Hopeless
<1> QED
  BY <1>1, <1>2, <1>3, PTL DEF Spec, StaysFailed
=============================================================================
