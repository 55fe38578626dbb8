------------------------- MODULE EvidenceCompletion -------------------------
(***************************************************************************)
(* How one run becomes completed evidence: execute_industrial_plan of      *)
(* orchestration/executor.py with EvidenceWriter of telemetry/writer.py.   *)
(*                                                                         *)
(* Several attempts at the run (operating system processes) share an       *)
(* evidence directory.  An attempt writes rows, publishes a prepared       *)
(* receipt over its files, then a budget observation over that receipt,    *)
(* then the completion receipt over both; any process may die between any  *)
(* two of these steps, and an attempt that finds a prepared receipt and    *)
(* its observation completes the run without executing it.                 *)
(*                                                                         *)
(* The Parquet shards of an attempt carry its name and are written once.   *)
(* Its checkpoint is rewritten in place and is bound by the receipts, so   *)
(* checkpoint[a] counts the rewrites and a receipt holds the one it saw.   *)
(***************************************************************************)
EXTENDS Naturals

CONSTANTS
    Attempts,
    MaxCheckpoints, \* bound: checkpoints written while rows arrive
    None            \* a file that does not exist

Receipt == [attempt : Attempts, checkpoint : Nat]
Observation == [attempt : Attempts, evidence : Receipt]
Completion == [prepared : Receipt, observation : Observation]

ASSUME BoundAssumption == MaxCheckpoints \in Nat
ASSUME NoneAssumption == None \notin Receipt \cup Observation \cup Completion

VARIABLES
    pc,             \* where attempt a is in execute_industrial_plan
    checkpoint,     \* rewrites of a's checkpoint.json
    prepared,       \* run.prepared.json
    observation,    \* run.budget-observation/
    complete        \* run.complete.json

files == << prepared, observation, complete >>
vars == << pc, checkpoint, files >>

Become(a, state) == pc' = [pc EXCEPT ![a] = state]
WriteCheckpoint(a) == checkpoint' = [checkpoint EXCEPT ![a] = @ + 1]

\* _load_receipt: the receipt binds its attempt's checkpoint as it is on disk.
LoadsReceipt(r) == r # None /\ checkpoint[r.attempt] = r.checkpoint
\* _validate_budget_observation_binding for a prepared receipt.
Observed(r) == observation # None /\ observation.evidence = r
\* load_completed_evidence accepts the completion receipt.
LoadsCompleted ==
    /\ complete # None
    /\ LoadsReceipt(complete.prepared)
    /\ prepared = complete.prepared
    /\ Observed(prepared)
    /\ complete.observation = observation
-----------------------------------------------------------------------------
Init ==
    /\ pc = [a \in Attempts |-> "start"]
    /\ checkpoint = [a \in Attempts |-> 0]
    /\ prepared = None /\ observation = None /\ complete = None

\* Load or recover: the first thing an attempt does.  A prepared receipt
\* without its observation, or the converse, is not resumable.
Start(a) ==
    /\ pc[a] = "start"
    /\ Become(a, IF complete # None
                 THEN IF LoadsCompleted THEN "returned" ELSE "failed"
                 ELSE IF prepared = None /\ observation = None THEN "opening"
                 ELSE IF LoadsReceipt(prepared) /\ Observed(prepared) THEN "closing"
                 ELSE "failed")
    /\ UNCHANGED << checkpoint, files >>

\* EvidenceWriter.__init__ looks for completed evidence once more.
OpenWriter(a) ==
    /\ pc[a] = "opening"
    /\ \/ complete # None /\ Become(a, "failed") /\ UNCHANGED checkpoint
       \/ complete = None /\ Become(a, "open") /\ WriteCheckpoint(a)
    /\ UNCHANGED files

\* flush: rows become durable and the checkpoint counts them.
Flush(a) ==
    /\ pc[a] = "open"
    /\ checkpoint[a] < MaxCheckpoints
    /\ WriteCheckpoint(a)
    /\ UNCHANGED << pc, files >>

MayAbortPrepared(a) == pc[a] \in {"open", "publishing", "prepared", "observed", "closing"}
\* abort refuses once the writer knows its prepared receipt.
MayAbort(a) == pc[a] \in {"open", "publishing"}

\* The exception path of the executor: abort, which flushes, or give up.
Fail(a) ==
    \/ MayAbort(a) /\ WriteCheckpoint(a) /\ Become(a, "aborted")
    \/ ~MayAbort(a) /\ UNCHANGED checkpoint /\ Become(a, "failed")

\* A rename is done; the directory sync that follows it may still raise.
Renamed(a, state) ==
    \/ Become(a, state) /\ UNCHANGED checkpoint
    \/ Fail(a)

\* prepare_close up to the receipt: the last flush, the completion contract,
\* another look for completed evidence, the checkpoint and the final tables.
BuildTables(a) ==
    /\ pc[a] = "open"
    /\ \/ complete = None /\ WriteCheckpoint(a) /\ Become(a, "publishing")
       \/ complete # None /\ Fail(a)
    /\ UNCHANGED files

MayOverwrite(file) == TRUE
\* _publish_receipt_exclusive and the rename of an observation directory.
MayPublish(file) == file = None

\* prepare_close publishes the prepared receipt.  If the sync raises, the
\* writer does not know that it has prepared, and abort writes its checkpoint.
PublishPrepared(a) ==
    /\ pc[a] = "publishing"
    /\ \/ /\ MayPublish(prepared)
          /\ prepared' = [attempt |-> a, checkpoint |-> checkpoint[a]]
          /\ Renamed(a, "prepared")
       \/ ~MayPublish(prepared) /\ Fail(a) /\ UNCHANGED prepared
    /\ UNCHANGED << observation, complete >>

\* _publish_budget_observation, over the prepared receipt's bytes.
PublishObservation(a) ==
    /\ pc[a] = "prepared"
    /\ \/ /\ MayPublish(observation)
          /\ observation' = [attempt |-> a, evidence |-> prepared]
          /\ Renamed(a, "observed")
       \/ ~MayPublish(observation) /\ Fail(a) /\ UNCHANGED observation
    /\ UNCHANGED << prepared, complete >>

\* publish_close: the checks of publish_prepared_evidence_completion.
ValidateClose(a) ==
    LET valid == /\ complete = None
                 /\ prepared.attempt = a
                 /\ LoadsReceipt(prepared)
                 /\ Observed(prepared)
    IN  /\ pc[a] = "observed"
        /\ \/ valid /\ Become(a, "closing") /\ UNCHANGED checkpoint
           \/ ~valid /\ Fail(a)
        /\ UNCHANGED files

\* The last mutation, by the attempt that prepared or by one that recovers.
PublishComplete(a) ==
    /\ pc[a] = "closing"
    /\ \/ /\ MayPublish(complete)
          /\ complete' = [prepared |-> prepared, observation |-> observation]
          /\ Renamed(a, "returned")
       \/ ~MayPublish(complete) /\ Fail(a) /\ UNCHANGED complete
    /\ UNCHANGED << prepared, observation >>

Running == {"start", "opening", "open", "publishing", "prepared", "observed", "closing"}

\* The run raises: a request failed, the queue saturated, an I/O error.
Interrupted(a) ==
    /\ pc[a] \in {"open", "publishing", "prepared", "observed"}
    /\ Fail(a)
    /\ UNCHANGED files

\* The process dies, or raises where it has nothing to abort.
Crash(a) ==
    /\ pc[a] \in Running
    /\ Become(a, "crashed")
    /\ UNCHANGED << checkpoint, files >>

Proceed(a) ==
    \/ Start(a)
    \/ OpenWriter(a)
    \/ BuildTables(a)
    \/ PublishPrepared(a)
    \/ PublishObservation(a)
    \/ ValidateClose(a)
    \/ PublishComplete(a)

Next == \E a \in Attempts : Proceed(a) \/ Flush(a) \/ Interrupted(a) \/ Crash(a)

Spec == Init /\ [][Next]_vars
\* A process that neither dies nor is interrupted goes on.
FairSpec == Spec /\ \A a \in Attempts : WF_vars(Proceed(a))
-----------------------------------------------------------------------------
\* Type invariant of the attempts and the directory.
TypeOK ==
    /\ pc \in [Attempts -> Running \cup {"returned", "aborted", "failed", "crashed"}]
    /\ checkpoint \in [Attempts -> Nat]
    /\ prepared \in Receipt \cup {None}
    /\ observation \in Observation \cup {None}
    /\ complete \in Completion \cup {None}

\* Completed evidence loads in every state from its publication on, whatever
\* the other attempts write, abort or leave behind: its receipt, observation
\* and files are of one attempt and stay as they were bound ("removes the
\* completed-without-observation crash window"; "never overwritten or combined
\* with a competing attempt").
CompletedEvidenceLoads ==
    /\ complete # None => LoadsCompleted /\ observation.attempt = prepared.attempt
    /\ \A a \in Attempts : pc[a] = "returned" => complete # None

\* No receipt is ever replaced, also when an owner and a recovering attempt
\* publish at the same time.
ReceiptsFinal ==
    [][/\ prepared # None => prepared' = prepared
       /\ observation # None => observation' = observation
       /\ complete # None => complete' = complete]_vars

\* Whenever an attempt starts after the observation is durable, the run is
\* completed unless that attempt dies ("can construct the final envelope from
\* the validated prepared receipt without re-execution").
RecoveryCompletes ==
    \A a \in Attempts :
        pc[a] = "start" /\ observation # None ~> complete # None \/ pc[a] = "crashed"

\* The inductive invariant: an observation is of the attempt that prepared,
\* and that attempt never writes its checkpoint again.
Bound ==
    /\ observation # None =>
          /\ prepared # None
          /\ observation = [attempt |-> prepared.attempt, evidence |-> prepared]
          /\ LoadsReceipt(prepared)
          /\ pc[prepared.attempt] \in
                {"observed", "closing", "returned", "failed", "crashed"}
    /\ \A a \in Attempts :
          /\ pc[a] \in {"prepared", "observed"} =>
                prepared = [attempt |-> a, checkpoint |-> checkpoint[a]]
          /\ pc[a] \in {"observed", "closing"} => observation # None
    /\ complete # None =>
          /\ observation # None
          /\ complete = [prepared |-> prepared, observation |-> observation]
IInv == TypeOK /\ Bound /\ \A a \in Attempts : pc[a] = "returned" => complete # None
=============================================================================
