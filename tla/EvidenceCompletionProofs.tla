---------------------- MODULE EvidenceCompletionProofs ----------------------
(***************************************************************************)
(* Proofs about EvidenceCompletion, for any number of attempts: completed  *)
(* evidence always loads, and no receipt is ever replaced.                 *)
(***************************************************************************)
EXTENDS EvidenceCompletion, TLAPS

\* No file is both absent and there.
LEMMA NoneIsNoFile ==
    /\ \A r \in Receipt : r # None
    /\ \A o \in Observation : o # None
    /\ \A c \in Completion : c # None
  BY NoneAssumption

\* The steps that leave the files as they are and write no checkpoint, seen
\* by the attempt that takes them.
LEMMA QuietStep ==
    ASSUME IInv, NEW a \in Attempts, NEW state \in {"failed", "crashed", "aborted", "opening"},
           Become(a, state), UNCHANGED << checkpoint, files >>,
           observation # None => state \in {"failed", "crashed"} \/ a # prepared.attempt
    PROVE  IInv'
<1>1. TypeOK'
  BY DEF IInv, TypeOK, Become, files, Running
<1>2. /\ \A b \in Attempts : pc'[b] = IF b = a THEN state ELSE pc[b]
      /\ checkpoint' = checkpoint /\ prepared' = prepared
      /\ observation' = observation /\ complete' = complete
  BY DEF IInv, TypeOK, Become, files
<1>3. observation # None => prepared.attempt \in Attempts
  BY DEF IInv, TypeOK, Bound, Receipt
<1>4. Bound'
  BY <1>2, <1>3 DEF IInv, Bound, LoadsReceipt
<1>. QED  BY <1>1, <1>2, <1>4 DEF IInv

\* An attempt whose prepared receipt is not observed may write its checkpoint.
LEMMA CheckpointStep ==
    ASSUME IInv, NEW a \in Attempts, NEW state \in {"open", "publishing", "aborted"},
           pc[a] \in {"opening", "open", "publishing"},
           Become(a, state), WriteCheckpoint(a), UNCHANGED files
    PROVE  IInv'
<1>1. TypeOK'
  BY DEF IInv, TypeOK, Become, WriteCheckpoint, files, Running
<1>2. /\ \A b \in Attempts : pc'[b] = IF b = a THEN state ELSE pc[b]
      /\ \A b \in Attempts : b # a => checkpoint'[b] = checkpoint[b]
      /\ prepared' = prepared /\ observation' = observation /\ complete' = complete
  BY DEF IInv, TypeOK, Become, WriteCheckpoint, files
<1>3. observation # None => prepared.attempt \in Attempts /\ prepared.attempt # a
  BY DEF IInv, TypeOK, Bound, Receipt
<1>4. Bound'
  BY <1>2, <1>3 DEF IInv, Bound, LoadsReceipt
<1>. QED  BY <1>1, <1>2, <1>4 DEF IInv

LEMMA FailStep ==
    ASSUME IInv, NEW a \in Attempts,
           pc[a] \in {"open", "publishing", "prepared", "observed", "closing"},
           Fail(a), UNCHANGED files
    PROVE  IInv'
<1>1. CASE MayAbort(a) /\ WriteCheckpoint(a) /\ Become(a, "aborted")
  BY <1>1, CheckpointStep DEF MayAbort
<1>2. CASE ~MayAbort(a) /\ UNCHANGED checkpoint /\ Become(a, "failed")
  BY <1>2, QuietStep DEF files
<1>. QED  BY <1>1, <1>2 DEF Fail

LEMMA StartStep ==
    ASSUME IInv, NEW a \in Attempts, Start(a)
    PROVE  IInv'
<1>0. pc[a] = "start" /\ UNCHANGED << checkpoint, files >>
  BY DEF Start
<1>1. CASE Become(a, "opening")
  BY <1>0, <1>1, QuietStep DEF IInv, Bound
<1>2. CASE Become(a, "failed")
  BY <1>0, <1>2, QuietStep
<1>3. ASSUME NEW state \in {"returned", "closing"}, Become(a, state),
             state = "returned" => complete # None,
             state = "closing" => observation # None
      PROVE  IInv'
  <2>1. TypeOK'
    BY <1>0, <1>3 DEF IInv, TypeOK, Become, files, Running
  <2>2. /\ \A b \in Attempts : pc'[b] = IF b = a THEN state ELSE pc[b]
        /\ checkpoint' = checkpoint /\ prepared' = prepared
        /\ observation' = observation /\ complete' = complete
    BY <1>0, <1>3 DEF IInv, TypeOK, Become, files
  <2>3. observation # None => prepared.attempt \in Attempts /\ prepared.attempt # a
    BY <1>0 DEF IInv, TypeOK, Bound, Receipt
  <2>4. Bound'
    BY <1>3, <2>2, <2>3 DEF IInv, Bound, LoadsReceipt
  <2>. QED  BY <1>3, <2>1, <2>2, <2>4 DEF IInv
<1>4. CASE complete # None /\ Become(a, "returned")
  BY <1>3, <1>4
<1>5. CASE LoadsReceipt(prepared) /\ Observed(prepared) /\ Become(a, "closing")
  BY <1>3, <1>5 DEF Observed
<1>. QED  BY <1>1, <1>2, <1>4, <1>5 DEF Start

LEMMA OpenStep ==
    ASSUME IInv, NEW a \in Attempts, OpenWriter(a)
    PROVE  IInv'
<1>1. CASE Become(a, "failed") /\ UNCHANGED << checkpoint, files >>
  BY <1>1, QuietStep
<1>2. CASE Become(a, "open") /\ WriteCheckpoint(a) /\ UNCHANGED files
  BY <1>2, CheckpointStep DEF OpenWriter
<1>. QED  BY <1>1, <1>2 DEF OpenWriter

LEMMA FlushStep ==
    ASSUME IInv, NEW a \in Attempts, Flush(a)
    PROVE  IInv'
<1>1. Become(a, "open")
  BY DEF Flush, Become, IInv, TypeOK
<1>. QED  BY <1>1, CheckpointStep DEF Flush

LEMMA BuildStep ==
    ASSUME IInv, NEW a \in Attempts, BuildTables(a)
    PROVE  IInv'
  BY CheckpointStep, FailStep DEF BuildTables

LEMMA InterruptStep ==
    ASSUME IInv, NEW a \in Attempts, Interrupted(a)
    PROVE  IInv'
  BY FailStep DEF Interrupted

LEMMA CrashStep ==
    ASSUME IInv, NEW a \in Attempts, Crash(a)
    PROVE  IInv'
  BY QuietStep DEF Crash

LEMMA ValidateStep ==
    ASSUME IInv, NEW a \in Attempts, ValidateClose(a)
    PROVE  IInv'
<1>0. pc[a] = "observed" /\ UNCHANGED files
  BY DEF ValidateClose
<1>1. CASE Fail(a)
  BY <1>0, <1>1, FailStep
<1>2. CASE Become(a, "closing") /\ UNCHANGED checkpoint
  <2>1. TypeOK'
    BY <1>0, <1>2 DEF IInv, TypeOK, Become, files, Running
  <2>2. /\ \A b \in Attempts : pc'[b] = IF b = a THEN "closing" ELSE pc[b]
        /\ checkpoint' = checkpoint /\ prepared' = prepared
        /\ observation' = observation /\ complete' = complete
    BY <1>0, <1>2 DEF IInv, TypeOK, Become, files
  <2>3. observation # None => prepared.attempt \in Attempts
    BY DEF IInv, TypeOK, Bound, Receipt
  <2>4. Bound'
    BY <1>0, <2>2, <2>3 DEF IInv, Bound, LoadsReceipt
  <2>. QED  BY <2>1, <2>2, <2>4 DEF IInv
<1>. QED  BY <1>1, <1>2 DEF ValidateClose

\* The prepared receipt is the first of the three files: with it absent no
\* other attempt is past it.
LEMMA PreparedStep ==
    ASSUME IInv, NEW a \in Attempts, PublishPrepared(a)
    PROVE  IInv'
<1>0. pc[a] = "publishing" /\ observation' = observation /\ complete' = complete
  BY DEF PublishPrepared
<1>1. CASE Fail(a) /\ UNCHANGED prepared
  BY <1>0, <1>1, FailStep DEF files
<1>2. ASSUME prepared = None, NEW state \in {"prepared", "aborted"}, Become(a, state),
             prepared' = [attempt |-> a, checkpoint |-> checkpoint[a]],
             checkpoint' \in [Attempts -> Nat],
             \A b \in Attempts : b # a \/ state = "prepared" => checkpoint'[b] = checkpoint[b]
      PROVE  IInv'
  <2>1. prepared' \in Receipt
    BY <1>2 DEF IInv, TypeOK, Receipt
  <2>2. TypeOK'
    BY <1>0, <1>2, <2>1 DEF IInv, TypeOK, Become, Running
  <2>3. \A b \in Attempts : pc'[b] = IF b = a THEN state ELSE pc[b]
    BY <1>2 DEF IInv, TypeOK, Become
  <2>4. observation = None /\ complete = None
    BY <1>2 DEF IInv, Bound
  <2>5. \A b \in Attempts : pc[b] \notin {"prepared", "observed", "closing"}
    <3>1. SUFFICES ASSUME NEW b \in Attempts, pc[b] \in {"prepared", "observed", "closing"}
                   PROVE  FALSE
      OBVIOUS
    <3>2. [attempt |-> b, checkpoint |-> checkpoint[b]] \in Receipt
      BY DEF IInv, TypeOK, Receipt
    <3>. QED  BY <1>2, <2>4, <3>1, <3>2, NoneIsNoFile DEF IInv, Bound
  <2>6. Bound'
    BY <1>0, <1>2, <2>3, <2>4, <2>5 DEF Bound
  <2>. QED  BY <1>0, <1>2, <2>2, <2>3, <2>6 DEF IInv
<1>3. CASE /\ MayPublish(prepared)
           /\ prepared' = [attempt |-> a, checkpoint |-> checkpoint[a]]
           /\ Renamed(a, "prepared")
  <2>1. CASE Become(a, "prepared") /\ UNCHANGED checkpoint
    BY <1>2, <1>3, <2>1 DEF MayPublish, IInv, TypeOK
  <2>2. CASE Fail(a)
    BY <1>0, <1>2, <1>3, <2>2 DEF MayPublish, Fail, MayAbort, WriteCheckpoint, IInv, TypeOK
  <2>. QED  BY <1>3, <2>1, <2>2 DEF Renamed
<1>. QED  BY <1>1, <1>3 DEF PublishPrepared

\* The observation binds a receipt whose owner is past its last checkpoint.
LEMMA ObservationStep ==
    ASSUME IInv, NEW a \in Attempts, PublishObservation(a)
    PROVE  IInv'
<1>0. pc[a] = "prepared" /\ prepared' = prepared /\ complete' = complete
  BY DEF PublishObservation
<1>1. CASE Fail(a) /\ UNCHANGED observation
  BY <1>0, <1>1, FailStep DEF files
<1>2. CASE /\ MayPublish(observation)
           /\ observation' = [attempt |-> a, evidence |-> prepared]
           /\ Renamed(a, "observed")
  <2>1. PICK state \in {"observed", "failed"} : Become(a, state) /\ UNCHANGED checkpoint
    BY <1>0, <1>2 DEF Renamed, Fail, MayAbort
  <2>2. prepared = [attempt |-> a, checkpoint |-> checkpoint[a]] /\ prepared \in Receipt
    BY <1>0 DEF IInv, TypeOK, Bound, Receipt
  <2>3. prepared # None /\ prepared.attempt = a /\ prepared.checkpoint = checkpoint[a]
    BY <2>2, NoneIsNoFile
  <2>4. observation' \in Observation /\ observation' # None
    BY <1>2, <2>2, NoneIsNoFile DEF Observation
  <2>5. TypeOK'
    BY <1>0, <2>1, <2>4 DEF IInv, TypeOK, Become, Running
  <2>6. \A b \in Attempts : pc'[b] = IF b = a THEN state ELSE pc[b]
    BY <2>1 DEF IInv, TypeOK, Become
  <2>7. observation = None /\ complete = None
    BY <1>2 DEF MayPublish, IInv, Bound
  <2>8. \A b \in Attempts : pc[b] \notin {"observed", "closing"}
    BY <2>7 DEF IInv, Bound
  <2>9. Bound'
    BY <1>0, <1>2, <2>1, <2>2, <2>3, <2>4, <2>6, <2>7, <2>8 DEF IInv, Bound, LoadsReceipt
  <2>. QED  BY <1>0, <2>5, <2>6, <2>9 DEF IInv
<1>. QED  BY <1>1, <1>2 DEF PublishObservation

\* The completion receipt binds the two files that are there.
LEMMA CompleteStep ==
    ASSUME IInv, NEW a \in Attempts, PublishComplete(a)
    PROVE  IInv'
<1>0. pc[a] = "closing" /\ prepared' = prepared /\ observation' = observation
  BY DEF PublishComplete
<1>1. CASE Fail(a) /\ UNCHANGED complete
  BY <1>0, <1>1, FailStep DEF files
<1>2. CASE /\ MayPublish(complete)
           /\ complete' = [prepared |-> prepared, observation |-> observation]
           /\ Renamed(a, "returned")
  <2>1. PICK state \in {"returned", "failed"} : Become(a, state) /\ UNCHANGED checkpoint
    BY <1>0, <1>2 DEF Renamed, Fail, MayAbort
  <2>2. /\ observation \in Observation /\ observation # None
        /\ prepared \in Receipt /\ prepared # None
    BY <1>0, NoneIsNoFile DEF IInv, TypeOK, Bound
  <2>3. complete' \in Completion /\ complete' # None
    BY <1>2, <2>2, NoneIsNoFile DEF Completion
  <2>4. TypeOK'
    BY <1>0, <2>1, <2>3 DEF IInv, TypeOK, Become, Running
  <2>5. \A b \in Attempts : pc'[b] = IF b = a THEN state ELSE pc[b]
    BY <2>1 DEF IInv, TypeOK, Become
  <2>6. prepared.attempt \in Attempts
    BY <2>2 DEF Receipt
  <2>7. Bound'
    BY <1>0, <1>2, <2>1, <2>2, <2>3, <2>5, <2>6 DEF IInv, Bound, LoadsReceipt
  <2>. QED  BY <1>0, <2>3, <2>4, <2>5, <2>7 DEF IInv
<1>. QED  BY <1>1, <1>2 DEF PublishComplete

LEMMA Inductive == IInv /\ [Next]_vars => IInv'
<1>. SUFFICES ASSUME IInv, [Next]_vars PROVE IInv'
  OBVIOUS
<1>1. CASE Next
  BY <1>1, StartStep, OpenStep, FlushStep, BuildStep, PreparedStep, ObservationStep,
     ValidateStep, CompleteStep, InterruptStep, CrashStep DEF Next, Proceed
<1>2. CASE UNCHANGED vars
  BY <1>2 DEF IInv, TypeOK, Bound, LoadsReceipt, vars, files
<1>. QED  BY <1>1, <1>2

LEMMA Initially == Init => IInv
<1>. SUFFICES ASSUME Init PROVE IInv
  OBVIOUS
<1>1. TypeOK
  BY DEF Init, TypeOK, Running
<1>2. Bound
  BY DEF Init, Bound
<1>. QED  BY <1>1, <1>2 DEF Init, IInv

\* The inductive invariant holds in every reachable state.
THEOREM CompletionInvariant == Spec => []IInv
  BY Initially, Inductive, PTL DEF Spec

\* Attempts and files have their types, for any number of attempts.
THEOREM CompletionTypeCorrect == Spec => []TypeOK
<1>1. IInv => TypeOK
  BY DEF IInv
<1>. QED  BY <1>1, CompletionInvariant, PTL

\* For any number of attempts that start, fail, abort and die in any order,
\* published completed evidence loads for ever: load_completed_evidence finds
\* the prepared receipt, the observation and the checkpoint it was bound to,
\* all of one attempt; and an attempt that returns leaves it behind.
THEOREM CompletedStaysLoadable == Spec => []CompletedEvidenceLoads
<1>1. IInv => CompletedEvidenceLoads
  <2>. SUFFICES ASSUME IInv PROVE CompletedEvidenceLoads
    OBVIOUS
  <2>1. ASSUME complete # None
        PROVE  LoadsCompleted /\ observation.attempt = prepared.attempt
    BY <2>1 DEF IInv, Bound, LoadsCompleted, Observed
  <2>. QED  BY <2>1 DEF IInv, CompletedEvidenceLoads
<1>. QED  BY <1>1, CompletionInvariant, PTL

\* No step of any attempt replaces a prepared receipt, an observation or a
\* completion receipt that is there (_publish_receipt_exclusive).
THEOREM ReceiptsNeverReplaced == Spec => ReceiptsFinal
<1>1. [Next]_vars => [/\ prepared # None => prepared' = prepared
                      /\ observation # None => observation' = observation
                      /\ complete # None => complete' = complete]_vars
  BY DEF Next, Proceed, Start, OpenWriter, Flush, BuildTables, PublishPrepared,
     PublishObservation, ValidateClose, PublishComplete, Interrupted, Crash,
     MayPublish, files, vars
<1>. QED  BY <1>1, PTL DEF Spec, ReceiptsFinal
=============================================================================
