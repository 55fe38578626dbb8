--------------------------- MODULE RollingArchive ---------------------------
(***************************************************************************)
(* The rolling archive of one sealed node: the companion that pulls the    *)
(* node's tree to local storage and asks the GPU host to delete it         *)
(* (formal_rolling_archive_companion.py, formal_remote_archive.py), the    *)
(* host commands that delete and restore (formal_rolling_archive.py), and  *)
(* the archive checkpoint of the operator store (experiment_operator.py).  *)
(*                                                                         *)
(* The companion speaks to the host over SSH.  Every call may fail before  *)
(* or after its effect, and the companion may die between any two steps.   *)
(* A deletion command outlives the connection that started it, so a retry, *)
(* or an operator at the command line, may start a second one beside it.   *)
(*                                                                         *)
(* A file of the tree is "sealed" while its bytes and inode are those the  *)
(* manifest and the plan bind, "changed" once anything else is at its      *)
(* path, and "gone" when the path is empty.  A restored file is sealed     *)
(* again: its inode is new, and no code looks at inodes after a receipt.   *)
(***************************************************************************)
EXTENDS Naturals, FiniteSets

CONSTANTS
    Files,          \* files of the node's tree
    Retained,       \* those the retained dependency manifest keeps
    Evictors,       \* host processes that can run evict-staged
    MaxFaults,      \* bound: lost calls, crashes, damaged and foreign files
    MaxResumes,     \* bound: times the operator clears STOP
    None            \* no receipt, no file

ASSUME RetainedAssumption == Retained \subseteq Files /\ Retained # Files
ASSUME BoundAssumption == MaxFaults \in Nat /\ MaxResumes \in Nat

VARIABLES
    remote,         \* the tree on the GPU host
    manifest,       \* sha256_manifest.json and the request are published
    checkpoint,     \* state of the archive in the operator store
    place,          \* directory the local copy is in
    held,           \* local files that match the manifest
    result,         \* remote-archive-result.json, local
    staged,         \* result and authorization are published on the host
    plan,           \* files of the published eviction plan, {} if none
    progress,       \* files with a durable deletion record
    receipt,        \* the eviction receipt
    evictor,        \* where process e is in evict-staged
    unlinked,       \* file e has unlinked and not recorded
    companion,      \* where the companion is
    asked,          \* the evictor whose answer the companion waits for
    todo,           \* files this restore still has to stream
    streamed,       \* files with a durable restore record
    restored,       \* the host's restore receipt
    index,          \* the companion's archive index
    restoreIndex,   \* the companion's restore index
    stop,           \* the operator's dispatch gate is STOP
    running,        \* some attempt is RUNNING
    faults, resumes

host == << manifest, staged, plan, streamed, restored >>
deletion == << progress, receipt, evictor, unlinked >>
local == << place, held, result, index, restoreIndex >>
session == << companion, asked, todo >>
operator == << stop, running, resumes >>
vars == << remote, checkpoint, host, deletion, local, session, operator,
           faults >>

States == {"none", "REGISTERED", "TRANSFERRED", "LOCAL_SHA_VERIFIED",
           "REHYDRATE_VERIFIED", "EVICTION_AUTHORIZED"}
Receipt == [status : {"COMPLETE", "FAILED_ZERO", "FAILED_PARTIAL"},
            deleted : SUBSET Files, missing : SUBSET Files]

ASSUME NoneAssumption == None \notin Files \cup Evictors \cup Receipt

Fault == faults < MaxFaults /\ faults' = faults + 1
Goto(where) == companion' = where /\ UNCHANGED << asked, todo >>
\* _failure: the round ends and the remote scheduler is told to STOP.
Fail ==
    /\ companion' = "idle" /\ todo' = {} /\ UNCHANGED asked
    /\ stop' = TRUE /\ UNCHANGED << running, resumes >>
\* _scan_archive_tree, _verify_manifest_tree: the tree is the manifest's.
TreeMatches == \A f \in Files : remote[f] = "sealed"
\* _validate_operator_quiescence.
Quiescent == stop /\ ~running
Absent(set) == {f \in set : remote[f] = "gone"}
-----------------------------------------------------------------------------
Init ==
    /\ remote = [f \in Files |-> "sealed"]
    /\ manifest = FALSE /\ checkpoint = "none"
    /\ place = "none" /\ held = {} /\ result = FALSE
    /\ staged = FALSE /\ plan = {} /\ progress = {} /\ receipt = None
    /\ evictor = [e \in Evictors |-> "idle"]
    /\ unlinked = [e \in Evictors |-> None]
    /\ companion = "idle" /\ asked = None /\ todo = {}
    /\ streamed = {} /\ restored = FALSE
    /\ index = FALSE /\ restoreIndex = FALSE
    /\ stop = FALSE /\ running = FALSE
    /\ faults = 0 /\ resumes = 0
-----------------------------------------------------------------------------
(***************************************************************************)
(* The companion archives: run_once, _archive_node, run_remote_archive.    *)
(***************************************************************************)
\* A round finds the node sealed and not indexed.
Poll ==
    /\ companion = "idle" /\ ~index
    /\ Goto("prepare")
    /\ UNCHANGED << remote, checkpoint, host, deletion, local, operator, faults >>

\* prepare_rolling_archive_node: a manifest that exists must match the tree.
Prepare ==
    /\ companion = "prepare"
    /\ manifest => TreeMatches
    /\ manifest' = TRUE
    /\ Goto(IF result THEN "stage" ELSE "register")
    /\ UNCHANGED << remote, checkpoint, staged, plan, streamed, restored,
                    deletion, local, operator, faults >>

PrepareFails ==
    /\ companion = "prepare" /\ manifest /\ ~TreeMatches
    /\ Fail
    /\ UNCHANGED << remote, checkpoint, host, deletion, local, faults >>

\* register_archive_safe_boundary: a registered archive keeps its state.
Register ==
    /\ companion = "register"
    /\ checkpoint' = IF checkpoint = "none" THEN "REGISTERED" ELSE checkpoint
    /\ Goto("step")
    /\ UNCHANGED << remote, host, deletion, local, operator, faults >>

\* transfer: rsync into the partial directory, verified against the manifest.
Transfer ==
    /\ companion = "step" /\ checkpoint = "REGISTERED"
    /\ place # "final" /\ TreeMatches
    /\ place' = "partial" /\ held' = Files
    /\ Goto("record")
    /\ UNCHANGED << remote, checkpoint, host, deletion, result, index,
                    restoreIndex, operator, faults >>

\* A changed source, or an rsync cut short, leaves a partial copy.
TransferFails ==
    /\ companion = "step" /\ checkpoint = "REGISTERED"
    /\ place # "final"
    /\ \/ /\ ~TreeMatches /\ UNCHANGED faults
          /\ held' = {f \in Files : remote[f] = "sealed"}
       \/ Fault /\ held' \in SUBSET Files
    /\ place' = "partial"
    /\ Fail
    /\ UNCHANGED << remote, checkpoint, host, deletion, result, index,
                    restoreIndex >>

\* The mutant looks for the copy in the partial directory only.
VerifyLocalShaPartial ==
    /\ companion = "step" /\ checkpoint = "TRANSFERRED"
    /\ held = Files
    /\ \/ place = "partial" /\ place' = "final" /\ Goto("record")
          /\ UNCHANGED operator
       \/ place = "final" /\ Fail /\ UNCHANGED place
    /\ UNCHANGED << remote, checkpoint, host, deletion, held, result, index,
                    restoreIndex, faults >>

\* verify_local_sha: the copy is read where it is, then renamed to final.
VerifyLocalSha ==
    /\ companion = "step" /\ checkpoint = "TRANSFERRED"
    /\ held = Files
    /\ place' = "final"
    /\ Goto("record")
    /\ UNCHANGED << remote, checkpoint, host, deletion, held, result, index,
                    restoreIndex, operator, faults >>

\* The mutant trusts the earlier verification.
RehydrateTrusting ==
    /\ companion = "step" /\ checkpoint = "LOCAL_SHA_VERIFIED"
    /\ Goto("record")
    /\ UNCHANGED << remote, checkpoint, host, deletion, local, operator, faults >>

\* rehydrate: every byte of the final copy is read and hashed again.
Rehydrate ==
    /\ companion = "step" /\ checkpoint = "LOCAL_SHA_VERIFIED"
    /\ held = Files
    /\ Goto("record")
    /\ UNCHANGED << remote, checkpoint, host, deletion, local, operator, faults >>

\* _archive_step_or_stop: a copy that does not match ends the round.
StepFails ==
    /\ companion = "step"
    /\ checkpoint \in {"TRANSFERRED", "LOCAL_SHA_VERIFIED"}
    /\ held # Files
    /\ Fail
    /\ UNCHANGED << remote, checkpoint, host, deletion, local, faults >>

\* record_archive_step: the checkpoint moves to the state after the step.
RecordStep ==
    /\ companion = "record"
    /\ \/ checkpoint = "REGISTERED" /\ checkpoint' = "TRANSFERRED"
       \/ checkpoint = "TRANSFERRED" /\ checkpoint' = "LOCAL_SHA_VERIFIED"
       \/ checkpoint = "LOCAL_SHA_VERIFIED" /\ checkpoint' = "REHYDRATE_VERIFIED"
    /\ Goto("step")
    /\ UNCHANGED << remote, host, deletion, local, operator, faults >>

\* authorize_remote_eviction, then the result is published for good.
Authorize ==
    /\ companion = "step"
    /\ checkpoint \in {"REHYDRATE_VERIFIED", "EVICTION_AUTHORIZED"}
    /\ checkpoint' = "EVICTION_AUTHORIZED"
    /\ Goto("publish")
    /\ UNCHANGED << remote, host, deletion, local, operator, faults >>

PublishResult ==
    /\ companion = "publish"
    /\ result' = TRUE
    /\ Goto("stage")
    /\ UNCHANGED << remote, checkpoint, host, deletion, place, held, index,
                    restoreIndex, operator, faults >>

\* evict: STOP on the host, then stage_remote_archive_chain.
StageChain ==
    /\ companion = "stage"
    /\ staged' = TRUE /\ stop' = TRUE
    /\ Goto("evict")
    /\ UNCHANGED << remote, checkpoint, manifest, plan, streamed, restored,
                    deletion, local, running, resumes, faults >>

\* The evict-staged call starts a process on the host and waits for it.
CallEvict(e) ==
    /\ companion = "evict" /\ evictor[e] = "idle"
    /\ evictor' = [evictor EXCEPT ![e] = "stop"]
    /\ companion' = "await" /\ asked' = e /\ UNCHANGED todo
    /\ UNCHANGED << remote, checkpoint, host, progress, receipt, unlinked,
                    local, operator, faults >>

\* A complete answer: plan and receipt are copied, then the index appears.
PublishIndex ==
    /\ companion = "index"
    /\ index' = TRUE
    /\ Goto("idle")
    /\ UNCHANGED << remote, checkpoint, host, deletion, place, held, result,
                    restoreIndex, operator, faults >>
-----------------------------------------------------------------------------
(***************************************************************************)
(* evict-staged on the host: run_staged_remote_eviction.                   *)
(***************************************************************************)
\* An operator runs the command at the host's shell.
ManualEvict(e) ==
    /\ staged /\ evictor[e] = "idle"
    /\ evictor' = [evictor EXCEPT ![e] = "stop"]
    /\ UNCHANGED << remote, checkpoint, host, progress, receipt, unlinked,
                    local, session, operator, faults >>

\* e ends.  A companion that waits for it goes on if the receipt says COMPLETE
\* and fails otherwise.
Waits(e) == companion = "await" /\ asked = e
\* The mutant does not look at the receipt's status.
EndsUnread(e, complete) ==
    /\ unlinked' = [unlinked EXCEPT ![e] = None]
    /\ evictor' = [evictor EXCEPT ![e] = "idle"]
    /\ companion' = IF Waits(e) THEN "index" ELSE companion
    /\ asked' = IF Waits(e) THEN None ELSE asked
    /\ UNCHANGED << todo, running, resumes >>
Ends(e, complete) ==
    /\ unlinked' = [unlinked EXCEPT ![e] = None]
    /\ evictor' = [evictor EXCEPT ![e] = "idle"]
    /\ companion' = IF ~Waits(e) THEN companion
                    ELSE IF complete THEN "index" ELSE "idle"
    /\ asked' = IF Waits(e) THEN None ELSE asked
    /\ UNCHANGED << todo, running, resumes >>
FailsWaiting(e) == stop' = (stop \/ Waits(e))

\* set_dispatch_stop before anything else.
EvictStop(e) ==
    /\ evictor[e] = "stop"
    /\ stop' = TRUE
    /\ evictor' = [evictor EXCEPT ![e] = "plan"]
    /\ UNCHANGED << remote, checkpoint, host, progress, receipt, unlinked,
                    local, session, running, resumes, faults >>

PlanAllowed == TreeMatches /\ checkpoint = "EVICTION_AUTHORIZED" /\ Quiescent

\* build_remote_eviction_plan, publish_remote_eviction_plan; one that exists is loaded.
EvictPlan(e) ==
    /\ evictor[e] = "plan"
    /\ plan = {} => PlanAllowed
    /\ plan' = Files \ Retained
    /\ evictor' = [evictor EXCEPT ![e] = "enter"]
    /\ UNCHANGED << remote, checkpoint, manifest, staged, streamed, restored,
                    progress, receipt, unlinked, local, session, operator,
                    faults >>

EvictPlanRefused(e) ==
    /\ evictor[e] = "plan" /\ plan = {} /\ ~PlanAllowed
    /\ Ends(e, FALSE) /\ FailsWaiting(e)
    /\ UNCHANGED << remote, checkpoint, host, progress, receipt, local, faults >>

\* The mutant takes no lock.
LockedNever(e) == FALSE
\* SingletonOperatorLock: another process holds the executor lock.
Locked(e) == \E o \in Evictors \ {e} : evictor[o] \in {"files", "record"}

EvictLocked(e) ==
    /\ evictor[e] = "enter" /\ Locked(e)
    /\ Ends(e, FALSE) /\ FailsWaiting(e)
    /\ UNCHANGED << remote, checkpoint, host, progress, receipt, local, faults >>

\* A receipt that exists is the answer, whatever it says.
EvictReplay(e) ==
    /\ evictor[e] = "enter" /\ ~Locked(e) /\ receipt # None
    /\ Ends(e, receipt.status = "COMPLETE")
    /\ stop' = (stop \/ (Waits(e) /\ receipt.status # "COMPLETE"))
    /\ UNCHANGED << remote, checkpoint, host, progress, receipt, local, faults >>

\* _publish_eviction_failure: STOP, then the terminal receipt.
Failed(deleted, missing) ==
    [status |-> IF deleted \cup missing = {} THEN "FAILED_ZERO" ELSE "FAILED_PARTIAL",
     deleted |-> deleted, missing |-> missing]

\* _validate_progress_state: a path is absent exactly when it is recorded.
ProgressTrue == Absent(plan) = progress
RuntimeGate == Quiescent /\ checkpoint = "EVICTION_AUTHORIZED"

EvictEnter(e) ==
    /\ evictor[e] = "enter" /\ ~Locked(e) /\ receipt = None
    /\ RuntimeGate /\ ProgressTrue
    /\ evictor' = [evictor EXCEPT ![e] = "files"]
    /\ UNCHANGED << remote, checkpoint, host, progress, receipt, unlinked,
                    local, session, operator, faults >>

\* A gate or a progress that differs on entry is final; a gate that fails
\* leaves the progress unread, so the receipt then lists no deleted file.
EvictEnterFails(e) ==
    /\ evictor[e] = "enter" /\ ~Locked(e) /\ receipt = None
    /\ ~(RuntimeGate /\ ProgressTrue)
    /\ receipt' = Failed(IF RuntimeGate THEN progress ELSE {}, Absent(plan))
    /\ Ends(e, FALSE) /\ stop' = TRUE
    /\ UNCHANGED << remote, checkpoint, host, progress, local, faults >>

\* The mutant checks that the path exists, not what is there.
EvictFileUnbound(e, f) ==
    /\ evictor[e] = "files" /\ f \in plan \ progress
    /\ remote[f] # "gone"
    /\ remote' = [remote EXCEPT ![f] = "gone"]
    /\ unlinked' = [unlinked EXCEPT ![e] = f]
    /\ evictor' = [evictor EXCEPT ![e] = "record"]
    /\ UNCHANGED << checkpoint, host, progress, receipt, local, session,
                    operator, faults >>

\* _verify_eviction_file_binding, then unlink.
EvictFile(e, f) ==
    /\ evictor[e] = "files" /\ f \in plan \ progress
    /\ remote[f] = "sealed"
    /\ remote' = [remote EXCEPT ![f] = "gone"]
    /\ unlinked' = [unlinked EXCEPT ![e] = f]
    /\ evictor' = [evictor EXCEPT ![e] = "record"]
    /\ UNCHANGED << checkpoint, host, progress, receipt, local, session,
                    operator, faults >>

\* _publish_eviction_progress.
EvictRecord(e) ==
    /\ evictor[e] = "record"
    /\ progress' = progress \cup {unlinked[e]}
    /\ unlinked' = [unlinked EXCEPT ![e] = None]
    /\ evictor' = [evictor EXCEPT ![e] = "files"]
    /\ UNCHANGED << remote, checkpoint, host, receipt, local, session,
                    operator, faults >>

\* Any exception at a file is final: a binding that differs, a file an
\* attempt still writes, an unlink, a sync or a progress record that fails.
EvictFileFails(e) ==
    /\ \/ /\ evictor[e] = "files" /\ UNCHANGED faults
          /\ \E f \in plan \ progress : remote[f] # "sealed" \/ running
       \/ evictor[e] = "record" /\ Fault
    /\ receipt' = Failed(progress, Absent(plan \ progress))
    /\ Ends(e, FALSE) /\ stop' = TRUE
    /\ UNCHANGED << remote, checkpoint, host, progress, local >>

EvictComplete(e) ==
    /\ evictor[e] = "files" /\ progress = plan
    /\ receipt' = [status |-> "COMPLETE", deleted |-> progress, missing |-> {}]
    /\ Ends(e, TRUE)
    /\ UNCHANGED << remote, checkpoint, host, progress, local, stop, faults >>
-----------------------------------------------------------------------------
(***************************************************************************)
(* The companion restores: restore_all and the host's stream commands.     *)
(***************************************************************************)
RestoreBegin ==
    /\ companion = "idle" /\ index
    /\ companion' = "member" /\ todo' = plan /\ UNCHANGED asked
    /\ UNCHANGED << remote, checkpoint, host, deletion, local, operator, faults >>

\* _load_stream_restore_authorities and the local copy, read again in full.
RestoreAllowed == receipt # None /\ receipt.status = "COMPLETE" /\ held = Files

\* restore_remote_member_from_stream: STOP, link the streamed file where the
\* path is empty, record it; a call that breaks off may leave it unrecorded.
RestoreMember(f) ==
    /\ companion = "member" /\ f \in todo
    /\ RestoreAllowed /\ remote[f] # "changed"
    /\ remote' = [remote EXCEPT ![f] = "sealed"]
    /\ stop' = TRUE
    /\ \/ /\ streamed' = streamed \cup {f} /\ todo' = todo \ {f}
          /\ UNCHANGED << companion, faults >>
       \/ Fault /\ companion' = "idle" /\ todo' = {} /\ UNCHANGED streamed
    /\ UNCHANGED << checkpoint, manifest, staged, plan, restored, deletion,
                    local, asked, running, resumes >>

\* A path that holds something else is never overwritten.
RestoreMemberFails ==
    /\ companion = "member"
    /\ \E f \in todo : ~RestoreAllowed \/ remote[f] = "changed"
    /\ Fail
    /\ UNCHANGED << remote, checkpoint, host, deletion, local, faults >>

\* finalize_remote_stream_restore: every record and every target again.
FinalizeRestore ==
    /\ companion = "member" /\ todo = {}
    /\ plan \subseteq streamed /\ \A f \in plan : remote[f] = "sealed"
    /\ restored' = TRUE /\ stop' = TRUE
    /\ Goto("restored")
    /\ UNCHANGED << remote, checkpoint, manifest, staged, plan, streamed,
                    deletion, local, running, resumes, faults >>

FinalizeFails ==
    /\ companion = "member" /\ todo = {}
    /\ ~(plan \subseteq streamed /\ \A f \in plan : remote[f] = "sealed")
    /\ Fail
    /\ UNCHANGED << remote, checkpoint, host, deletion, local, faults >>

PublishRestoreIndex ==
    /\ companion = "restored"
    /\ restoreIndex' = TRUE
    /\ Goto("idle")
    /\ UNCHANGED << remote, checkpoint, host, deletion, place, held, result,
                    index, operator, faults >>
-----------------------------------------------------------------------------
(***************************************************************************)
(* Faults, and the operator's dispatch on the same host.                   *)
(***************************************************************************)
\* The companion dies, or an SSH call fails or its answer is lost.
Abort ==
    /\ companion # "idle" /\ Fault
    /\ companion' = "idle" /\ asked' = None /\ todo' = {}
    /\ stop' \in {stop, TRUE}
    /\ UNCHANGED << remote, checkpoint, host, deletion, local, running, resumes >>

\* An evict-staged process is killed; flock releases its lock.
EvictorDies(e) ==
    /\ evictor[e] # "idle" /\ Fault
    /\ Ends(e, FALSE) /\ FailsWaiting(e)
    /\ UNCHANGED << remote, checkpoint, host, progress, receipt, local >>

\* Bytes of the local copy are lost before the archive is verified.
LocalDamage(f) ==
    /\ f \in held /\ Fault
    /\ checkpoint \in {"REGISTERED", "TRANSFERRED", "LOCAL_SHA_VERIFIED"}
    /\ ~(checkpoint = "LOCAL_SHA_VERIFIED" /\ companion = "record")
    /\ held' = held \ {f}
    /\ UNCHANGED << remote, checkpoint, host, deletion, place, result, index,
                    restoreIndex, session, operator >>

\* Another program writes a file of the tree, or makes one at an empty path.
ForeignWrite(f) ==
    /\ manifest /\ remote[f] # "changed" /\ Fault
    /\ remote' = [remote EXCEPT ![f] = "changed"]
    /\ UNCHANGED << checkpoint, host, deletion, local, session, operator >>

AttemptStarts ==
    /\ ~stop /\ ~running
    /\ running' = TRUE
    /\ UNCHANGED << remote, checkpoint, host, deletion, local, session, stop,
                    resumes, faults >>

AttemptEnds ==
    /\ running
    /\ running' = FALSE
    /\ UNCHANGED << remote, checkpoint, host, deletion, local, session, stop,
                    resumes, faults >>

\* clear_dispatch_stop, called by whoever runs the experiment.
OperatorResumes ==
    /\ stop /\ ~running /\ resumes < MaxResumes
    /\ stop' = FALSE /\ resumes' = resumes + 1
    /\ UNCHANGED << remote, checkpoint, host, deletion, local, session,
                    running, faults >>
-----------------------------------------------------------------------------
Archiving ==
    \/ Poll \/ Prepare \/ PrepareFails \/ Register \/ Transfer \/ TransferFails
    \/ VerifyLocalSha \/ Rehydrate \/ StepFails \/ RecordStep \/ Authorize
    \/ PublishResult \/ StageChain \/ PublishIndex
    \/ \E e \in Evictors : CallEvict(e)
Restoring ==
    \/ RestoreBegin \/ RestoreMemberFails \/ FinalizeRestore \/ FinalizeFails
    \/ PublishRestoreIndex
    \/ \E f \in Files : RestoreMember(f)
Evicting(e) ==
    \/ EvictStop(e) \/ EvictPlan(e) \/ EvictPlanRefused(e) \/ EvictLocked(e)
    \/ EvictReplay(e) \/ EvictEnter(e) \/ EvictEnterFails(e) \/ EvictRecord(e)
    \/ EvictFileFails(e) \/ EvictComplete(e)
    \/ \E f \in Files : EvictFile(e, f)
Environment ==
    \/ Abort \/ AttemptStarts \/ AttemptEnds \/ OperatorResumes
    \/ \E e \in Evictors : ManualEvict(e) \/ EvictorDies(e)
    \/ \E f \in Files : LocalDamage(f) \/ ForeignWrite(f)

Next ==
    \/ Archiving \/ Restoring \/ Environment
    \/ \E e \in Evictors : Evicting(e)

Spec == Init /\ [][Next]_vars

\* run polls for ever, a host command runs to its end, an attempt ends.  The
\* host always lets one more process start, so commands that come and go in the
\* few slots of Evictors do not keep the companion's out: hence SF.
FairSpec ==
    /\ Spec
    /\ WF_vars(Archiving)
    /\ SF_vars(\E e \in Evictors : CallEvict(e))
    /\ WF_vars(AttemptEnds)
    /\ \A e \in Evictors : WF_vars(Evicting(e))
-----------------------------------------------------------------------------
\* Types, and that what is recorded, streamed or still to stream is in the plan
\* (_load_eviction_progress, _load_stream_restore_authorities).
TypeOK ==
    /\ remote \in [Files -> {"sealed", "changed", "gone"}]
    /\ checkpoint \in States
    /\ place \in {"none", "partial", "final"}
    /\ held \subseteq Files
    /\ plan \in {{}, Files \ Retained}
    /\ progress \subseteq plan
    /\ receipt \in Receipt \cup {None}
    /\ evictor \in [Evictors -> {"idle", "stop", "plan", "enter", "files", "record"}]
    /\ unlinked \in [Evictors -> Files \cup {None}]
    /\ companion \in {"idle", "prepare", "register", "step", "record", "publish",
                      "stage", "evict", "await", "index", "member", "restored"}
    /\ asked \in Evictors \cup {None}
    /\ todo \subseteq plan /\ streamed \subseteq plan
    /\ manifest \in BOOLEAN /\ result \in BOOLEAN /\ staged \in BOOLEAN
    /\ restored \in BOOLEAN /\ index \in BOOLEAN /\ restoreIndex \in BOOLEAN
    /\ stop \in BOOLEAN /\ running \in BOOLEAN
    /\ faults \in 0..MaxFaults /\ resumes \in 0..MaxResumes

\* A file that is missing from the host is one the plan may delete, and the
\* final local copy of it is whole: whatever calls are lost, processes die or
\* copies are damaged on the way, no byte is deleted before it is held.
NothingLost ==
    \A f \in Files : remote[f] = "gone" =>
        f \notin Retained /\ f \in held /\ place = "final"

\* Once execute_remote_eviction_plan has published its receipt, every planned
\* path that is empty is in it, as deleted or as missing: nothing is deleted
\* after the receipt, and no crash window is left out of it.  COMPLETE means
\* that every planned file was deleted and recorded.
ReceiptCovers ==
    receipt # None =>
        /\ Absent(plan) \subseteq receipt.deleted \cup receipt.missing
        /\ receipt.status = "COMPLETE" => receipt.deleted = plan /\ progress = plan

\* The companion's index points at a complete deletion and a whole local copy,
\* the two things restore_all needs.
IndexRestorable ==
    index =>
        /\ receipt # None /\ receipt.status = "COMPLETE"
        /\ held = Files /\ place = "final"

\* A file that is not the one the manifest binds is neither deleted by an
\* eviction nor overwritten by a restore.
ForeignBytesKept ==
    [][\A f \in Files : remote[f] = "changed" => remote'[f] = "changed"]_vars

\* Lost calls and crashes only delay an archive: as long as its copy and the
\* host's tree stay intact, the companion's rounds bring it to its deletion.
DeletionReached ==
    <>(\/ receipt # None \/ ~TreeMatches
       \/ checkpoint \notin {"none", "REGISTERED"} /\ held # Files)

\* Violated: a node whose files are deleted is indexed by a later round, as
\* run_staged_remote_eviction is to "resume" and prepare_rolling_archive_node
\* to be idempotent.
DeletedNodeIndexed ==
    (receipt # None /\ receipt.status = "COMPLETE")
        ~> (index \/ \E f \in Files : remote[f] = "changed")
-----------------------------------------------------------------------------
(***************************************************************************)
(* The inductive invariant behind the safety properties.                   *)
(***************************************************************************)
\* What the checkpoint says of the local copy, and what a step that has been
\* taken and not yet recorded adds to it.
CopyVerified ==
    /\ checkpoint = "LOCAL_SHA_VERIFIED" => place = "final"
    /\ checkpoint \in {"REHYDRATE_VERIFIED", "EVICTION_AUTHORIZED"} =>
           held = Files /\ place = "final"
    /\ companion = "record" =>
           /\ checkpoint = "TRANSFERRED" => place = "final"
           /\ checkpoint = "LOCAL_SHA_VERIFIED" => held = Files

Executing(e) == evictor[e] \in {"files", "record"}
\* Deletion needs a plan, a plan needs the authorization, a receipt ends it.
PlanFirst ==
    /\ plan # {} => checkpoint = "EVICTION_AUTHORIZED"
    /\ receipt # None => plan # {}
    /\ \A e \in Evictors : evictor[e] = "enter" \/ Executing(e) => plan # {}
    /\ \A e \in Evictors : Executing(e) => receipt = None
    /\ \A e, o \in Evictors : Executing(e) /\ Executing(o) => e = o
    /\ \A f \in Files : remote[f] = "gone" => f \in plan

\* While a process deletes, the only absent path without a record is its own.
AbsentKnown ==
    \A e \in Evictors :
        /\ evictor[e] = "files" => Absent(plan) \subseteq progress
        /\ evictor[e] = "record" =>
               /\ unlinked[e] \in plan
               /\ Absent(plan) \subseteq progress \cup {unlinked[e]}

\* The companion indexes only a complete deletion.
Completed == receipt # None /\ receipt.status = "COMPLETE"
IndexAfterReceipt == index \/ companion = "index" => Completed

IInv ==
    /\ TypeOK /\ CopyVerified /\ PlanFirst /\ AbsentKnown
    /\ ReceiptCovers /\ IndexAfterReceipt
=============================================================================
