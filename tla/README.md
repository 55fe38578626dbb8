# LightCone-Spec: TLA+ models and proofs

This directory models the stateful protocols of `lightcone_spec` in TLA+, checks
them with TLC on small instances and proves their main invariants with TLAPS for
every value of the constants. Paths below are relative to `src/lightcone_spec/`;
`PROJECT.json` maps every definition to its source lines and lists the hazards
each property addresses.

## The system

LightCone-Spec serves a target model with a drafter whose parameters are adapted
while it serves, and produces evidence about such runs that can be claimed.

| Part | State | Operations | What is hard |
| --- | --- | --- | --- |
| All-rank publication (`runtime/distributed.py`) | service and restart flags, pending decision, consumed updates, per rank | prepare and decide, copy, finalize, restart | collectives that fail on one rank only; calls out of step |
| Cohort state manager (`adaptation/governor.py`) | cohort states, free slabs, host tier | admit, acquire, release, publish, reclaim, offload, restore | long call sequences, times that run backwards, full tiers |
| Cohort runtime (`adaptation/cohort.py`, `methods/core.py`) | epoch, version and generations, buffered rows, candidate in flight | offer, drain, begin, commit, discard, cancel, reset, disable | late and repeated calls with old objects |
| Drafter-KV history (`adaptation/kv_history.py`) | segments | append, retract, look up | boundaries, merging after a cut |
| Evidence completion (`orchestration/executor.py`, `telemetry/writer.py`) | prepared receipt, observation, completion receipt, checkpoints | open, flush, prepare, observe, complete, abort, recover | crashes between steps, competing attempts |
| Evidence queue (`orchestration/executor.py`, `telemetry/writer.py`) | queue, worker, lock, writer lists and counters, WAL segments | write, flush, close, batch writes in threads | two threads in one writer, overflow, a failing worker |
| Experiment operator (`orchestration/experiment_operator.py`, `experiment_operator_production.py`) | attempt rows, dispatch gate, process trees | reconcile, terminate, retry, dispatch; stop and resume from outside | crashes between a launch or a signal and its record, processes that outlive their parents |
| Rolling archive (`orchestration/formal_rolling_archive.py`, its companion, `formal_remote_archive.py`) | remote tree, local copy, checkpoint, plan, progress, receipts, indexes | prepare, transfer, verify, authorize, delete, index, restore | lost answers after deletions, competing deletions, damaged and foreign files |
| Remote dispatch (`orchestration/remote_dispatch.py`, `execution_bundle.py`, `experiments/gpu_pool.py`) | requests and results, attempt journal, schedule receipts, traces | send, retry, run a wave, publish, reconcile | timeouts racing live workers, unknown outcomes, replay |
| Request execution, sessions, gang execution (`orchestration/`) | epochs, leases | see *What is not modelled* | timeouts, late answers |
| Everything else | none that is shared | validation, numerics, parsing, I/O | |

The parts meet as follows. A cohort lives in a slab of the state manager; its
runtime collects supervision rows and begins a candidate; with several ranks the
candidate is published by the all-rank protocol; the KV history records which
version computed each token. The executor runs the requests, sends their rows
through the evidence queue, and completes the run by the completion protocol.
Above single runs, the experiment operator launches attempts on the GPUs of a host
and keeps their verdicts, the rolling archive moves the evidence of finished nodes
away while the operator is stopped, and remote dispatch runs waves of assignments on
several hosts.

## Modules

Each component module declares its CONSTANTS, states its assumptions as named
ASSUMEs, and has one action per operation. A call that the code refuses without
changing state is a stuttering step. `MC*` modules give the constants values. An
operator just before a definition and named for a mistake (`QuotaOffByOne`,
`JoinSkipped`, ...) is that definition with a plausible bug; the specification
does not use it, and TLC finds a named property violated when it takes the
definition's place.

**AllRankPublication.** One coordinator per rank. `log[r]` is the sequence of
objects a rank has contributed to the all-gathers of the current process group;
all-gathers match by position only, as in `torch.distributed`, so a vote can meet
a digest of another round. `CollectiveRaises` lets any rank's all-gather raise at
any time, also when it has already returned elsewhere. The reasons of a decision
are kept because they enter its digest. External: the copy of the weights,
`Abandon` (the caller gives up between its two calls) and `RebuildGroup` (an
operator rebuilds the group, and all ranks reload the base weights; the code under
`src` has no such caller, so this is an assumption).

**CohortSlabs.** The state manager with caller-supplied, possibly decreasing times.
Slab numbers, versions and the order of eviction are the code's.

**CohortRuntime.** Rows are emitted under the serving version and offered later,
in any order; every candidate ever handed out may be presented again. Candidates
are compared by identity, as in the code. `made`, `ends` and `events` are history.

**KVVersions**, **FrozenKVHistory.** The abstract history has one version per
token. The segment list implements it under the mapping that looks every token up
with `version_at`.

**EvidenceCompletion.** Several attempts (processes) at one run share a directory.
An attempt's checkpoint file is rewritten in place and is bound by its receipts, so
the model counts the rewrites. A rename may be done although the sync after it
raises. A process may die before every step.

**AsyncEvidenceSink.** An action of the event loop runs from one suspending await
to the next; `put_nowait`, and `put` or `join` that need not wait, do not suspend.
The batch thread and the flush thread take one statement of `EvidenceWriter.flush`
and `write` at a time; appending a row and counting it are one step, because
nothing the other thread does in between tells them apart. `queue.join` releases its waiters when the
count reaches zero, and they run later. `PutsHaveRun` is the first-in first-out
order of ready callbacks: a woken `put` runs before the result of a batch thread
that was started after it was woken. A flush before a row stands for both a full
writer queue and an expired checkpoint interval. One table stands for the five.

**OperatorScheduler.** `row` is the ledger (an attempt and its queued command),
`proc` the process tree of a lease: wrapper, worker, and the server of a resident
group in a session of its own. Several cells may share the first attempt of a
physical group; retries are single. Every ledger transaction, launch and signal is
one step of the daemon, whose program counter `daemon.pc` names the place in
`_reconcile_running` or `run_once`; a crash may come between any two. Clocks are
left out: where the code compares one with a deadline, both branches are possible.
`Faults` names the faults an instance allows. Two of them, a process whose metadata
cannot be attached ("attach") and a wrapper that starts after its grace ("late"),
make the code fail an attempt while its process runs; see *Observations*.
External: the worker and server processes, the kernel, the daemon's death.

**RollingArchive.** One sealed node. `remote` says of each file whether it is the one
the manifest binds, something else, or absent; `held` which local files match. The
companion's calls may fail before or after their effect; a deletion process on the
host outlives the connection that asked for it, and an operator may start another.
The gate and attempts of the experiment operator are `stop` and `running`.

**RemoteDispatch.** One host, which is enough: a request touches only its own host,
and the fleet receipt keeps one result per host. The coordinator, the workers its
SSH calls start, the attempt journals (one for each receipt path), the published
envelopes and the traces runs leave. Appending an event is two steps, the comparison
with the cached listing and the exclusive creation of a file, because no lock spans
processes. The assignments a launch covers are a set; their INTENTs are written in plan
order (`First`). `broken` stands for two files of one sequence number and for a torn file,
which no replay accepts. External: the worker's death, and the person who runs an
unknown wave again on the host from the command line, beside a live worker for the
kinds of request in `Overlapping`.

## Runs

| Run | Instance | Shows |
| --- | --- | --- |
| `publication` | 2 ranks, 2 candidates of one update, 4 ballots, 4 all-gathers per group, 1 rebuilt group | admitting ranks serve the same weights; decisions agree; commits are unanimous; agreed outcomes are accepted |
| `cohort_slabs` | 3 keys, 2 tenants, 2 slabs, 1 host place, 3 instants | slabs are partitioned, the host tier is bounded, active cohorts stay, admissions keep the quota |
| `cohort_runtime` | 2 requests with 2 rows, 2 candidates, 3 events, 3 rounds, stride 2 | candidates end once and are published undisturbed; versions count publications; barriers are kept; rows are of the epoch |
| `kv_history` | 6 tokens, 3 versions | segments are canonical and implement token versions |
| `completion` | 3 attempts, fair | completed evidence loads, receipts are final, an observed run is completed by whoever starts and lives |
| `sink` | 5 requests, queue 2, I/O faults | claimable evidence is exact; saturated rows are durable |
| `sink_close` | 4 requests, queue 1, I/O faults, fair | the sink closes but for the hang described below |
| `operator` | a resident pair on 1 GPU, a cell that needs 2 GPUs alone, 1 fault, 1 resume, fair | processes never outlive their RUNNING row; GPUs are exclusive; verdicts are the sealed results; sealed results are accepted, terminations settle and silence closes the gate |
| `operator_retry` | a resident pair, 1 GPU, retries, 1 fault, room for 4 attempts | every further attempt is justified, and there are at most three |
| `archive` | 2 files to delete, 1 to keep, 2 deletion processes, 3 faults, 1 resume, fair | nothing is lost; receipts account for everything; an index is restorable; foreign files are kept; a deletion is reached |
| `archive_resume` | the same files, 1 process, 1 fault, fair | **violated**: a node whose deletion was answered into a lost connection is never indexed |
| `remote` | 2 assignments, 2 workers, 2 receipt paths, 3 faults, fair | executions exclude one another; successes are not run again; a retry finds the host quiet; results are on record; finished waves are reconciled |

The type invariants are proved wherever there are proofs, and most runs leave them out.
`sink`, whose module has no proofs, checks its own; `remote` does too, because a part of
that invariant says whom the coordinator waits for.

The violated run is described under `findings` in `PROJECT.json` with the lines it
contradicts.

**Observations.** What follows was met while modelling. It has no run of its own
here; each item names the code and, where there is one, the line it contradicts. The
properties that pass are stated so that they hold beside it.

- *Restart with new process identities.* `mark_process_group_restarted` replaces the
  coordinator's topology, not the one the transport stamps receipts from
  (`runtime/distributed.py:1673`, 1769), so outcomes all ranks agree on are rejected,
  against "requires an explicit same-topology restart" (`docs/en/architecture.md:165`).
- *Quota after offload.* `restore_cold` looks for a free slab only
  (`adaptation/governor.py:672`): offload, admit, restore leaves a tenant above its
  quota, against "Fixed-slab, quota-bound" (`governor.py:373`).
- *Old rows in a batch.* `drain` hands out rows buffered before a commit or a
  cancellation (`adaptation/cohort.py:111`), against "binds the batch to ... source
  adapter version" (`docs/en/architecture.md:49`).
- *Row lost between two threads.* A row appended while an overflow flush is between
  its snapshot and its reset is in no segment (`telemetry/writer.py:1876`), against
  "never silently dropped" (`orchestration/executor.py:318`). Such a run is not
  claimable (`CleanCloseComplete`).
- *Write that never returns.* An overflowing write that waits for room when the worker
  fails joins a queue nobody drains (`executor.py:322`), against "Drain the bounded
  queue and durably persist the triggering terminal row before aborting"
  (`executor.py:317`). Also seen on the Python class itself.
- *Version numbers.* `publish_version` compares numbers only, so a publication
  prepared before a key was reclaimed fits a later admission of it.
- *Last rows.* The executor writes its last rows without suspending, so more of them
  than the queue holds saturate it while the worker is idle.
- *Operator: a failed attempt whose process runs.* If attaching raises after a launch,
  or a wrapper publishes its start receipt after the grace
  (`experiment_operator.py:7445`), the attempt is FAILED, its GPUs are free and a retry
  may share them with the old process.
- *Operator: lost retries.* A crash between the failure and the enqueuing of its retry
  loses the retry (8537); a group without start receipt never gets the retries its rows
  announce (7448).
- *Operator: KILL after the wrapper died* does not reach its descendants
  (`experiment_operator_production.py:723`), which the comment at
  `experiment_operator.py:7830` says it does; the lease then waits for the operator.
- *Operator: STOP during dispatch* is not seen until the dispatch loop ends (7139).
- *Remote: one pending assignment.* When a wave with one pending assignment is rerun
  beside its live worker, both processes may pass the check of the listing and launch
  (`execution_bundle.py:1327`): with `Overlapping = {"initial", "resume"}` TLC finds
  `RunsExclusive` violated, against "blocks all further dispatch from this journal"
  (`execution_bundle.py:702`). With two or more pending the second WAVE file has the
  name of the first and fails.
- *Remote: lost receipts.* SSH_FAILED or BLOCKED after a remote failure drops the
  receipt, so the next retry opens a fresh journal: it is blocked by the traces of the
  first, or, where there are none, starts at attempt 1 and the allowance is not kept.
- *Remote: outcomes nothing resolves.* A retry beyond the allowance exits 43 and stays
  UNKNOWN; evidence of a successful wave that is not the plan's last is refused; and
  initial requests may not resume, so later waves of a host are BLOCKED.
- *Remote: repeated publication.* "Retrying publication merely fills that identical
  optional derivative" (`execution_bundle.py:503`), but the preflight refuses a receipt
  path that exists.

**Bounds.** Two ranks and four all-gathers per group are one complete publication
(three) and the first call of the next, which is where calls can get out of step;
the candidates share an update identity so that retries happen. Three keys on two
slabs with one host place reach every full tier. Three cohort events let a reset,
a commit and a cancellation meet one candidate. Three attempts are an owner, a
recovering one and a competitor. Five requests on a queue of two leave an
overflowing write waiting for room behind a full queue and a full batch; on a queue
of one four requests do. In the publication run a
VIEW hides the objects of slots that no action or property reads any more.
Symmetry is used in runs without liveness only. In `publication` and the completion,
sink and remote runs deadlock is not checked: these programs end, or their bounds do.

In `operator` the pair and the exclusive cell compete for the host, and one fault
meets every place of the daemon. Retries have a run of their own, with room for a
fourth attempt so that the limit is the code's. Three archive faults are, for
instance, a lost answer, a death between unlink and record, and a foreign file; two
deletion processes are a retry beside the original. Three remote faults are a lost
call, a rerun beside the live worker and the death of one; two receipt paths are the
first request and a retry with another journal. Liveness in these runs is checked
without symmetry.

**Fairness.** `completion`: a process that neither dies nor is interrupted takes its
next step. `sink_close`: the event loop runs ready tasks and the operating system
runs threads. `operator`: the daemon takes steps and is started again after a crash or
a STOP; deadlines pass if it keeps looking (strong fairness of `StartNotPublished` and
`TermGraceOver`); a wrapper proceeds once its worker has ended, and a server dies after
the worker it belongs to (PDEATHSIG). A worker owes nothing. `archive`: the companion
polls for ever, a host command runs to its end, attempts end, and the host lets one
more process start (strong fairness of `CallEvict`). `remote`: workers take steps,
evidence is asked for until it is there, and an unknown wave is run again on the host
whenever no worker of it is left (strong fairness of `Rerun`). The last is an
assumption about the person who operates the fleet, so `FinishedWaveIsReconciled` is
conditional on it. Faults, crashes and interruptions are never fair.

## Proofs

Every theorem holds for arbitrary constants that satisfy the named ASSUMEs. The
bounds in the guards are constants too, so the theorems hold for every bound.

*AllRankPublicationProofs.* `UniformService`, `DecisionsAgree`,
`RestartNeedsNewGroup` and `TypeCorrect` follow from `IInv`. Uniform service alone is
not inductive: a rank that reopens must know that no admitting rank holds other
weights. `IInv` adds what a rank's position says about its last object
(`PcShape`), that a pending decision is the one its digest announced
(`DecisionHeld`), that a rank that attested a copy still holds it while any peer
may yet read the attestation (`AttestedCopyHeld`), that ranks with different
weights are not both open (`SplitWeightsClosed`), and that a rank with a pending
restart holds no decision (`RestartHoldsNothing`). `CommitsUnanimous` and
`AgreedOutcomesAccepted` need what a rank cannot see any more when it returns, so
`CallInv` keeps it: the slot before a decision digest is complete and holds votes only
(`VotesBehindDecision`), nobody has consumed the update of a commit before every rank has
passed its digest (`CommitUnconsumed`), a decision stays pending until finalize has ended
(`DecisionPending`), and receipts carry the first topology (`FirstTopology`).
`AgreedOutcomesAccepted` assumes `FreshIds = FALSE`, as the run does: with new process
identities it fails, see *Observations*.

*CohortStateProofs.* For the state manager, `SlabsStayPartitioned` is inductive with the
types; `HostTierStaysBounded` adds the finiteness of the tier; `ActiveCohortsKeepSlab` and
`AdmissionKeepsQuota` are action properties from the same invariant. For the version
history, `HistoryCanonical`, and the refinement `HistoryImplements`: with
`SegmentsOrdered` and `TokensCovered` every token is in exactly one segment, and each step
is shown to be the abstract step token by token.

*CohortRuntimeProofs.* `IInv` adds that nothing has happened since the candidate in
flight was begun, that no termination is of a later epoch, and that a row still on
its way with the current slot generation is of the current epoch.
`CandidatesEndOnce`, `PublicationUndisturbed`, `VersionIsPublicationCount`,
`BufferedRowsCurrent` and `CohortTypeCorrect` follow. `PublicationsWait` is inductive
beside it; its core is that the next multiple of the stride is a barrier after the round
it is computed from.

*EvidenceCompletionProofs.* `Bound` says that an observation is of the attempt that
prepared, that this attempt never writes its checkpoint again, and that a
completion binds the files as they are. `CompletedStaysLoadable`,
`ReceiptsNeverReplaced` and `CompletionTypeCorrect` follow.

*OperatorSchedulerProofs.* The invariant has two parts, for any cells, groups, GPUs and
number of faults. `LedgerInv` speaks of rows and of what the daemon holds, and every fault
keeps it: the rows of a group change together (`GroupTogether`), a retry begins where no
attempt was (`AttemptsInOrder`), RUNNING leases are apart (`RunningApart`), and the leases
the daemon's program counter and lists hold are still RUNNING (`DaemonListsTrue`).
`TypeCorrect`, `RetriesAlwaysJustified` and `RunningRowsApart` follow without an assumption
on the faults. `ProcessInv` adds the processes: that a live one belongs to a RUNNING row is
not inductive, for the daemon must know, when it fails an attempt without a receipt, that
nothing ran (`ReceiptFirst`, `ClaimFirst`, `LaunchClean`). It assumes that "attach" and "late" do not occur, and so do
`ProcessesAccountedFor`, `GpusExclusive` and `VerdictsMatchEvidence`.

*RollingArchiveProofs.* `IInv` adds to the types what each checkpoint says of the local
copy, steps taken and not yet recorded included (`CopyVerified`), that deletions come
after a plan, a plan after the authorization, and nothing after the receipt, with one
process at a time (`PlanFirst`), that an absent path without a record is the one just
unlinked (`AbsentKnown`), and that an index follows a complete receipt
(`IndexAfterReceipt`). `NoByteLost`, `ReceiptsAccount` and `IndexesRestorable` follow;
`ForeignKept` is an action property.

*RemoteDispatchTypes*, *RemoteDispatchProofs.* For any wave, workers, retry allowance and faults. `TypeCorrect`
holds with overlapping reruns too, once receipts that are named are known to be published
(`ReceiptsNamed`). The others assume that no wave is rerun beside a live worker of it
(`Overlapping = {}`); without that, one pending assignment can run twice, see
*Observations*. `HostQuietOnRetry` follows from `IInv`: at most one worker can still do
anything; it works on the last request, its receipt path is free, and either the call
waits for it or the outcome is UNKNOWN (`Active`). Every other worker is about to end or
will find its receipt path taken (`Inert`). `RunsStayExclusive`, `SuccessNotRepeated` and
`ResultsOnRecord` follow from `WaveInv`, which adds what the active worker knows
(`WorkerInv`): the open INTENTs of its journal are exactly the attempts it owes, each in
one place, be it a token, a run, an ended run or a FINISH to be written (`Owed`, `Apart`,
`KnowsJournal`), and nothing it may still run has a success in any journal
(`NeverSucceeded`). To re-establish this when a worker opens a journal takes two facts
about the past: a success is the last attempt of its journal and has left a trace
(`JournalInv`), and a retry never goes back to an earlier journal, so that what succeeded
elsewhere was not attempted in the request's (`RootInv`). `EnvelopeInv` and `ResultInv`
carry receipts to results.

**Only model-checked.** The liveness properties (`RecoveryCompletes`,
`ClosesOrWaitsForOwnRow`, `SealedResultAccepted`, `TerminationSettles`, `SilenceStops`,
`DeletionReached`, `FinishedWaveIsReconciled`), which are outside what the prover
supports; the properties of `RemoteDispatch` other than its types where an initial
request is rerun beside its live worker, which hold in the run because its wave has two
assignments; and everything about the evidence queue (`TypeOK`, `CleanCloseComplete`,
`SaturatedRowDurable`), whose invariant over two threads, the event loop and the queue
has not been worked out.

## What is not modelled

- In the modelled parts: hash and schema validation of receipts (they are compared
  as values); power loss, only the death of processes; numerically invalid
  candidates, which `begin_candidate` never builds; the `drop` policy of the
  evidence writer, which registered policies refuse; duplicate row identities; the
  stop marker inside a batch, which only a write after close could cause.
- In the operator: corrupt start receipts and clocks that run backwards, which close
  the gate; failing probes of process groups; stage bookkeeping and events;
  `mark_stale_identity`, which nothing calls; the DAG scheduler above the daemon.
- In the archive: `restore_evicted_files`, which has a lock of its own; a file replaced
  between its verification and its unlink; the order of several nodes; the capacity
  check of a restore.
- In remote dispatch: the preparation of the SSH route, the bytes of fetched evidence,
  plans of several waves, servers a dead worker leaves behind, a receipt path named
  again for another request.
- HBM ledger and governor: pure decisions over one ledger.
- CUDA publication window, request execution, sessions, gang execution and
  compile-cache publication: stateful and planned, below.
- Optimizers and statistics (numerics); configuration, registries, authorities,
  signing and attestation (functions from artifacts to artifacts); launching, HTTP,
  downloads (I/O).

The package is about 374,000 lines of Python. Half of it is `experiments/` and a third
`orchestration/`, mostly construction and validation of artifacts. The modules map about
10,100 lines, under 3 % of the whole: the concurrent and crash-sensitive protocols listed
above. Nothing here says anything about the rest.

## Plan

1. Request execution in the executor: deadlines, cancellation and abort grace
   racing late answers; every offered request is accounted exactly once.
2. Sessions and gang execution: epochs, resets, all-or-nothing start and teardown.
3. Plans of several waves and the fleet receipt; `restore_evicted_files` beside a
   deletion.
4. The HBM governor as operators against a reference ordering, the CUDA
   publication window and the compile cache.
5. Compositions: the cohort runtime with the all-rank protocol, the evidence queue
   with the completion protocol, the operator with the archive.
6. Proofs: the queue invariant behind `CleanCloseComplete` and `SaturatedRowDurable`;
   `RunsExclusive` with overlapping reruns of a wave that has two assignments pending.
