------------------------- MODULE OperatorScheduler -------------------------
(***************************************************************************)
(* The formal experiment scheduler: a restartable daemon                   *)
(* (FormalExperimentSchedulerDaemon) that reconciles RUNNING attempts with *)
(* the processes it launched and then fills free GPU slots, over a durable *)
(* SQLite ledger (ExperimentOperatorStore).  A lease is one physical       *)
(* process tree: a wrapper that writes a start receipt, runs the worker    *)
(* and seals its exit, the worker itself, and for a resident serving group *)
(* a server in a session of its own.  One lease may carry several cells    *)
(* (a physical attempt group); a retry always carries one.                 *)
(*                                                                         *)
(* Each ledger transaction, launch and signal is one step, so the daemon   *)
(* may crash between any two of them; it restarts from the ledger and the  *)
(* receipts alone.  The operator opens and closes the dispatch gate from   *)
(* other processes.  Clocks are abstracted: a deadline may pass whenever   *)
(* the code would notice it.                                               *)
(***************************************************************************)
EXTENDS Naturals, FiniteSets

CONSTANTS Cells,        \* the cells of the stage
          Group,        \* the cells whose first attempt shares one process
          Leader,       \* the member whose command launches the group
          Resident,     \* the group is a tp1_serving_session (else exact-ten)
          Exclusive,    \* cells of a timing class that must run alone
          Headline,     \* cells of the HEADLINE timing class
          Need,         \* [Cells -> required_gpu_count]
          Pinned,       \* [Cells -> preferred GPU index, 0 for none]
          GpuCount,     \* size of the interference inventory
          Mode,         \* mode of the interference envelope
          RetryBuilder, \* a retry_builder callback is configured
          Outcomes,     \* the results a worker may publish
          Faults,       \* the kinds of fault that may happen
          AttemptBound, \* attempts of a cell the model represents
          MaxFaults,    \* bound on the faults of a behaviour
          MaxResumes    \* bound on operator resumes

FaultKinds == {"crash", "killed", "launch", "attach", "late", "monitor", "silent", "builder"}

ASSUME OperatorAssumption ==
  /\ Group \subseteq Cells /\ Leader \in Cells
  /\ Group # {} => (Leader \in Group /\ Need[Leader] = 1)
  /\ Resident \in BOOLEAN /\ RetryBuilder \in BOOLEAN
  /\ Exclusive \subseteq Cells /\ Headline \subseteq Cells
  /\ GpuCount \in Nat \ {0}
  /\ Need \in [Cells -> Nat \ {0}] /\ Pinned \in [Cells -> 0 .. GpuCount]
  /\ Mode \in {"UNRESOLVED", "ISOLATED", "DUAL_SINGLE"}
  /\ Outcomes \subseteq {"COMPLETE", "SCIENTIFIC", "INFRASTRUCTURE"}
  /\ Faults \subseteq FaultKinds
  /\ AttemptBound \in Nat \ {0} /\ MaxFaults \in Nat /\ MaxResumes \in Nat

VARIABLES row,       \* cell_attempts and queued_commands: [Keys -> Row]
          dispatch,  \* the gate: RUN, STOP, or STALE (a STOP for a stale heartbeat)
          waived,    \* leases covered by the manual recovery evidence on record
          proc,      \* the process tree of each lease
          result,    \* the sealed worker result of each attempt, none before it
          daemon,    \* where the daemon is: [pc, cur, todo, owed, back]
          faults, resumes

ledger == <<row, dispatch, waived>>
world == <<proc, result>>
budget == <<faults, resumes>>
vars == <<row, dispatch, waived, proc, result, daemon, faults, resumes>>

Gpus == 1 .. GpuCount
Attempts == 1 .. AttemptBound
Keys == Cells \X Attempts
InGroup(k) == k[2] = 1 /\ k[1] \in Group
Leases == {k \in Keys : InGroup(k) => k[1] = Leader}
LeaseOf(k) == IF InGroup(k) THEN <<Leader, 1>> ELSE k
Members(l) == IF InGroup(l) THEN {<<c, 1>> : c \in Group} ELSE {l}
Serves(l) == InGroup(l) /\ Resident
NextAttempt(k) == <<k[1], k[2] + 1>>

NoRow == [status |-> "ABSENT", queued |-> FALSE, attached |-> "no", gpus |-> {},
          term |-> "none", fail |-> "none", retry |-> FALSE]
Fresh == [NoRow EXCEPT !.status = "PENDING"]
NoProc == [wrapper |-> "none", start |-> FALSE, child |-> "none",
           server |-> "none", exit |-> FALSE]

Running(k) == row[k].status = "RUNNING"
RunningLeases == {l \in Leases : Running(l)}
Stopped == dispatch # "RUN"
WrapperAlive(l) == proc[l].wrapper \in {"launched", "started", "waiting"}
ChildAlive(l) == proc[l].child \in {"live", "silent"}
ServerAlive(l) == proc[l].server = "live"

Init ==
  /\ row = [k \in Keys |-> IF k[2] = 1 THEN [Fresh EXCEPT !.queued = TRUE] ELSE NoRow]
  /\ dispatch = "RUN" /\ waived = {}
  /\ proc = [l \in Keys |-> NoProc]
  /\ result = [k \in Keys |-> "none"]
  /\ daemon = [pc |-> "down", cur |-> <<Leader, 1>>, todo |-> {}, owed |-> {}, back |-> "next"]
  /\ faults = 0 /\ resumes = 0

\* One more fault of a kind the instance allows.
Fault(kind) == kind \in Faults /\ faults < MaxFaults /\ faults' = faults + 1 /\ UNCHANGED resumes

----------------------------------------------------------------------------
(* Ledger transactions.                                                    *)

\* set_dispatch_stop: the first reason wins, and recovery evidence is void.
SetStop(reason) ==
  /\ dispatch' = IF Stopped THEN dispatch ELSE reason
  /\ waived' = IF Stopped THEN waived ELSE {}
KeepGate == UNCHANGED <<dispatch, waived>>

\* Every row of a lease changes in one transaction.
Attached(l, how) ==
  row' = [k \in Keys |-> IF k \in Members(l) THEN [row[k] EXCEPT !.attached = how] ELSE row[k]]
Term(l, stage) ==
  row' = [k \in Keys |-> IF k \in Members(l) THEN [row[k] EXCEPT !.term = stage] ELSE row[k]]
Claim(l, gpus) ==
  row' = [k \in Keys |-> IF k \in Members(l)
                         THEN [row[k] EXCEPT !.status = "RUNNING", !.gpus = gpus] ELSE row[k]]

\* infrastructure_failure_count of the cell of an attempt.
InfraFailures(k) ==
  Cardinality({n \in Attempts : row[<<k[1], n>>].status = "FAILED"
                               /\ row[<<k[1], n>>].fail = "INFRASTRUCTURE"})

AutoRetryFourth(l, fail) ==
  /\ fail = "INFRASTRUCTURE" /\ RetryBuilder
  /\ IF InGroup(l) THEN Resident ELSE InfraFailures(l) <= 2

\* The retry decision written with a failure: standalone attempts count the
\* failures before this one, a resident group leaves the limit to the step that
\* materializes, and an exact-ten group is never retried.
AutoRetry(l, fail) ==
  /\ fail = "INFRASTRUCTURE" /\ RetryBuilder
  /\ IF InGroup(l) THEN Resident ELSE InfraFailures(l) < 2

\* The attempts _materialize_retry is called for once the failure is written.
RetriesOwed(l, failed) ==
  {k \in failed : AutoRetry(l, "INFRASTRUCTURE") /\ (InGroup(l) => InfraFailures(k) + 1 < 2)}

\* A terminal transaction: verdict[k] is COMPLETE or the class of the failure.
\* Only RUNNING rows are asked for their process, GPUs or termination.
Finish(l, verdict) ==
  row' = [k \in Keys |->
            IF k \notin Members(l) THEN row[k]
            ELSE IF verdict[k] = "COMPLETE" THEN [NoRow EXCEPT !.status = "COMPLETE"]
            ELSE [NoRow EXCEPT !.status = "FAILED", !.fail = verdict[k],
                               !.retry = AutoRetry(l, verdict[k])]]

Infra(l) == [k \in Members(l) |-> "INFRASTRUCTURE"]
InfraMembers(l, verdict) == {k \in Members(l) : verdict[k] = "INFRASTRUCTURE"}

----------------------------------------------------------------------------
(* The daemon: reconciliation.                                             *)

At(pc) == daemon.pc = pc
Goto(pc) == daemon' = [daemon EXCEPT !.pc = pc]
\* Done with the lease of this turn of the loop over RUNNING commands.
Continue == daemon' = [daemon EXCEPT !.pc = "next"]
\* Materialize what is owed, then go back.
Repay(owed, back) ==
  daemon' = [daemon EXCEPT !.pc = IF owed = {} THEN back ELSE "retry", !.owed = owed, !.back = back]

BeginCycleWhenOpen ==
  /\ daemon.pc \in {"idle", "down"}
  /\ daemon' = [daemon EXCEPT !.pc = "next", !.todo = IF Stopped THEN {} ELSE RunningLeases]
  /\ UNCHANGED <<ledger, world, budget>>

\* run_once begins: the RUNNING physical commands are listed once.
BeginCycle ==
  /\ daemon.pc \in {"idle", "down"}
  /\ daemon' = [daemon EXCEPT !.pc = "next", !.todo = RunningLeases]
  /\ UNCHANGED <<ledger, world, budget>>

NextLease ==
  /\ At("next")
  /\ \/ \E l \in daemon.todo :
          daemon' = [daemon EXCEPT !.pc = IF row[l].attached = "no" THEN "recover" ELSE "probe",
                                   !.cur = l, !.todo = @ \ {l}]
     \/ daemon.todo = {} /\ Goto("gate")
  /\ UNCHANGED <<ledger, world, budget>>

\* No process metadata: recover it from the start receipt.
RecoverStart ==
  LET l == daemon.cur IN
  /\ At("recover") /\ proc[l].start
  /\ Attached(l, "sealed")
  /\ Goto("probe")
  /\ KeepGate /\ UNCHANGED <<world, budget>>

WaitStartReceipt ==
  /\ At("recover") /\ ~proc[daemon.cur].start
  /\ Continue /\ UNCHANGED <<ledger, world, budget>>

\* No receipt once process_attach_grace_seconds are over: the attempt failed.
\* A group is failed without materializing its retries.
StartNotPublished ==
  LET l == daemon.cur IN
  /\ At("recover") /\ ~proc[l].start
  /\ IF proc[l].wrapper = "launched" THEN Fault("late") ELSE UNCHANGED budget
  /\ Finish(l, Infra(l))
  /\ IF InGroup(l) THEN Continue ELSE Repay(RetriesOwed(l, {l}), "next")
  /\ KeepGate /\ UNCHANGED world

\* A live wrapper whose log, GPU or heartbeat cannot be read closes the gate.
MonitoringFails ==
  /\ At("probe") /\ WrapperAlive(daemon.cur)
  /\ Fault("monitor")
  /\ SetStop("STOP") /\ Continue /\ UNCHANGED <<row, world>>

\* A stale child heartbeat closes the gate unless manual evidence covers it.
Unheard(l) == proc[l].child = "silent" /\ l \notin waived
HeartbeatStaleSkipped ==
  /\ At("probe") /\ WrapperAlive(daemon.cur) /\ Unheard(daemon.cur)
  /\ Continue /\ UNCHANGED <<ledger, world, budget>>

HeartbeatStale ==
  /\ At("probe") /\ WrapperAlive(daemon.cur) /\ Unheard(daemon.cur)
  /\ SetStop("STALE") /\ Continue /\ UNCHANGED <<row, world, budget>>

\* A live, audible wrapper: observe it, advance a termination already asked for,
\* or ask for one because its runtime limit has passed.
ProbeAlive ==
  LET l == daemon.cur IN
  /\ At("probe") /\ WrapperAlive(l) /\ ~Unheard(l)
  /\ \/ row[l].term # "none" /\ Goto("advance") /\ UNCHANGED ledger
     \/ row[l].term = "none" /\ Continue /\ UNCHANGED ledger
     \/ row[l].term = "none" /\ Term(l, "requested") /\ Goto("limit") /\ KeepGate
  /\ UNCHANGED <<world, budget>>

RuntimeLimitStop ==
  /\ At("limit")
  /\ SetStop("STOP") /\ Goto("advance") /\ UNCHANGED <<row, world, budget>>

\* _advance_termination up to the signal: TERM first, KILL once its grace is
\* over, and nothing after KILL.  A signal needs the start receipt.
AdvanceTermination ==
  LET l == daemon.cur IN
  /\ At("advance")
  /\ \/ row[l].term = "requested" /\ ~proc[l].start /\ SetStop("STOP") /\ Continue
     \/ row[l].term = "requested" /\ proc[l].start /\ Goto("term") /\ KeepGate
     \/ row[l].term \in {"TERM", "KILL"} /\ Continue /\ KeepGate
  /\ UNCHANGED <<row, world, budget>>

TermGraceOver ==
  /\ At("advance") /\ row[daemon.cur].term = "TERM"
  /\ Goto("kill") /\ UNCHANGED <<ledger, world, budget>>

\* send_term: SIGTERM to a live wrapper, which forwards it once it has a child
\* and dies of it before.
SendTerm ==
  LET l == daemon.cur IN
  /\ At("term")
  /\ proc' = IF proc[l].wrapper = "started" THEN [proc EXCEPT ![l].wrapper = "dead"] ELSE proc
  /\ Goto("recordTerm") /\ UNCHANGED <<ledger, result, budget>>

RecordTermUnwritten ==
  /\ At("recordTerm")
  /\ Continue /\ UNCHANGED <<ledger, world, budget>>

RecordTerm ==
  /\ At("recordTerm")
  /\ Term(daemon.cur, "TERM") /\ Continue /\ KeepGate /\ UNCHANGED <<world, budget>>

\* send_kill: the resident server, then the wrapper's group if the wrapper lives.
Killed(l) ==
  [proc[l] EXCEPT !.server = IF ServerAlive(l) THEN "dead" ELSE @,
                  !.child = IF WrapperAlive(l) /\ ChildAlive(l) THEN "dead" ELSE @,
                  !.wrapper = IF WrapperAlive(l) THEN "dead" ELSE @]
SendKill ==
  /\ At("kill")
  /\ proc' = [proc EXCEPT ![daemon.cur] = Killed(daemon.cur)]
  /\ Goto("recordKill") /\ UNCHANGED <<ledger, result, budget>>

RecordKill ==
  /\ At("recordKill")
  /\ Term(daemon.cur, "KILL") /\ Continue /\ KeepGate /\ UNCHANGED <<world, budget>>

\* The wrapper is gone and its resident server is not: TERM (a no-op), then KILL,
\* unless a termination was already asked for, which only waits.
ResidentOrphan ==
  LET l == daemon.cur IN
  /\ At("probe") /\ ~WrapperAlive(l) /\ ServerAlive(l)
  /\ \/ row[l].term = "none" /\ Term(l, "requested") /\ Goto("orphan")
     \/ row[l].term # "none" /\ Continue /\ UNCHANGED row
  /\ KeepGate /\ UNCHANGED <<world, budget>>

OrphanTerm ==
  /\ At("orphan")
  /\ Term(daemon.cur, "TERM") /\ Goto("kill") /\ KeepGate /\ UNCHANGED <<world, budget>>

\* The wrapper is gone and its process group is not.
GroupOrphan ==
  LET l == daemon.cur IN
  /\ At("probe") /\ ~WrapperAlive(l) /\ ~ServerAlive(l) /\ ChildAlive(l)
  /\ \/ row[l].term # "none" /\ Goto("advance") /\ KeepGate
     \/ row[l].term = "none" /\ SetStop("STOP") /\ Continue
  /\ UNCHANGED <<row, world, budget>>

\* terminal_validator: a standalone attempt and an exact-ten group are judged by
\* their exit receipt, a resident group by its shared publication.
Published(l) == \A k \in Members(l) : result[k] # "none"
ValidationUnsealed(l) ==
  IF Serves(l) THEN IF Published(l) THEN "sealed" ELSE "waiting"
  ELSE IF ~proc[l].exit THEN "waiting" ELSE IF Published(l) THEN "sealed" ELSE "invalid"

Validation(l) ==
  IF Serves(l)
  THEN IF ~Published(l) THEN "waiting" ELSE IF proc[l].exit THEN "sealed" ELSE "invalid"
  ELSE IF ~proc[l].exit THEN "waiting" ELSE IF Published(l) THEN "sealed" ELSE "invalid"

GoneButServer(l) == ~WrapperAlive(l) /\ ~ChildAlive(l)

\* Neither the wrapper, nor its server's session, nor its process group is left.
Gone(l) == ~WrapperAlive(l) /\ ~ServerAlive(l) /\ ~ChildAlive(l)

\* Every process of the lease is gone: accept its sealed result, fail what a
\* termination or an unsealed resident group left behind, or wait.
Terminalize ==
  LET l == daemon.cur
      verdict == [k \in Members(l) |-> result[k]]
      forced == row[l].term # "none"
      unsealed == Serves(l) /\ Validation(l) = "waiting" IN
  /\ At("probe") /\ Gone(l)
  /\ \/ /\ Validation(l) = "sealed"
        /\ Finish(l, verdict) /\ Repay(RetriesOwed(l, InfraMembers(l, verdict)), "next")
        /\ KeepGate
     \/ /\ Validation(l) # "sealed" /\ (forced \/ unsealed)
        /\ Finish(l, Infra(l)) /\ Repay(RetriesOwed(l, Members(l)), "next")
        /\ KeepGate
     \/ /\ Validation(l) = "invalid" /\ ~forced
        /\ SetStop("STOP") /\ Continue /\ UNCHANGED row
     \/ /\ Validation(l) = "waiting" /\ ~forced /\ ~unsealed
        /\ Continue /\ UNCHANGED ledger
  /\ UNCHANGED <<world, budget>>

----------------------------------------------------------------------------
(* Retries: materialized and enqueued in two transactions.                 *)

MaterializeRetry ==
  /\ At("retry")
  /\ \E k \in daemon.owed :
       /\ k[2] < AttemptBound
       /\ row' = [row EXCEPT ![NextAttempt(k)] = Fresh]
       /\ daemon' = [daemon EXCEPT !.pc = "enqueue", !.cur = k, !.owed = @ \ {k}]
  /\ KeepGate /\ UNCHANGED <<world, budget>>

EnqueueRetry ==
  /\ At("enqueue")
  /\ row' = [row EXCEPT ![NextAttempt(daemon.cur)].queued = TRUE]
  /\ Repay(daemon.owed, daemon.back)
  /\ KeepGate /\ UNCHANGED <<world, budget>>

RetryBuilderFails ==
  /\ At("retry") /\ Fault("builder")
  /\ SetStop("STOP")
  /\ \E k \in daemon.owed : Repay(daemon.owed \ {k}, daemon.back)
  /\ UNCHANGED <<row, world>>

----------------------------------------------------------------------------
(* The daemon: dispatch.                                                   *)

Occupied == UNION {row[k].gpus : k \in {j \in Keys : Running(j)}}
FirstFree(n) ==
  LET free == Gpus \ Occupied
  IN {g \in free : Cardinality({h \in free : h < g}) < n}

NeedsInventory(c) == Need[c] > GpuCount

\* Commands that only start on an idle host.
NeedsIdleHost(c) == Need[c] > 1 \/ c \in Exclusive

\* _select_dispatch: when a pending lease may start, and the GPUs it is given.
Eligible(l) ==
  LET c == l[1]
      free == Gpus \ Occupied IN
  /\ row[l].status = "PENDING" /\ row[l].queued
  /\ \A r \in RunningLeases : r[1] \notin Exclusive
  /\ Need[c] <= GpuCount
  /\ IF NeedsIdleHost(c) THEN RunningLeases = {} /\ Need[c] <= Cardinality(free)
     ELSE /\ Mode = "ISOLATED" => Occupied = {}
          /\ c \in Headline => Mode # "UNRESOLVED"
          /\ IF Pinned[c] = 0 THEN free # {} ELSE Pinned[c] \in free
Assigned(l) ==
  LET c == l[1] IN
  IF NeedsIdleHost(c) THEN FirstFree(Need[c])
  ELSE IF Pinned[c] = 0 THEN FirstFree(1) ELSE {Pinned[c]}

Dispatchable == {l \in Leases : Eligible(l)}

\* The gate is read once, before the dispatch loop and after a failed spawn.
ReadGate ==
  /\ At("gate")
  /\ Goto(IF Stopped THEN "end" ELSE "dispatch")
  /\ UNCHANGED <<ledger, world, budget>>

\* The disk gate: not enough room, or no answer, closes the dispatch gate.
DiskGateStops ==
  /\ At("dispatch") /\ Dispatchable # {}
  /\ SetStop("STOP") /\ Goto("end") /\ UNCHANGED <<row, world, budget>>

\* mark_running_before_spawn: the lease is RUNNING before any process exists.
MarkRunning ==
  /\ At("dispatch")
  /\ \E l \in Dispatchable :
       /\ Claim(l, Assigned(l))
       /\ daemon' = [daemon EXCEPT !.pc = "launch", !.cur = l]
  /\ KeepGate /\ UNCHANGED <<world, budget>>

Launch ==
  /\ At("launch")
  /\ proc' = [proc EXCEPT ![daemon.cur].wrapper = "launched"]
  /\ Goto("attach") /\ UNCHANGED <<ledger, result, budget>>

\* The launcher raised before the process existed.
LaunchFails ==
  /\ At("launch") /\ Fault("launch")
  /\ Goto("spawnFailed") /\ UNCHANGED <<ledger, world>>

AttachProcess ==
  LET l == daemon.cur IN
  /\ At("attach")
  /\ Attached(l, IF proc[l].start THEN "sealed" ELSE "pid")
  /\ Goto("dispatch") /\ KeepGate /\ UNCHANGED <<world, budget>>

\* The process exists, and writing its metadata raised.
AttachFails ==
  /\ At("attach") /\ Fault("attach")
  /\ Goto("spawnFailed") /\ UNCHANGED <<ledger, world>>

SpawnFailed ==
  LET l == daemon.cur IN
  /\ At("spawnFailed")
  /\ Finish(l, Infra(l)) /\ Repay(RetriesOwed(l, Members(l)), "gate")
  /\ KeepGate /\ UNCHANGED <<world, budget>>

DispatchDone ==
  /\ At("dispatch") /\ Dispatchable = {}
  /\ Goto("end") /\ UNCHANGED <<ledger, world, budget>>

\* run_forever leaves on STOP once no RUNNING attempt is being terminated.
EndCycle ==
  /\ At("end")
  /\ Goto(IF Stopped /\ \A l \in RunningLeases : row[l].term = "none" THEN "down" ELSE "idle")
  /\ UNCHANGED <<ledger, world, budget>>

Crash ==
  /\ daemon.pc \notin {"idle", "down"} /\ Fault("crash")
  /\ daemon' = [daemon EXCEPT !.pc = "down", !.todo = {}, !.owed = {}]
  /\ UNCHANGED <<ledger, world>>

----------------------------------------------------------------------------
(* The operator, from another process.                                     *)

OperatorStop ==
  /\ ~Stopped
  /\ SetStop("STOP") /\ UNCHANGED <<row, world, daemon, budget>>

\* clear_dispatch_stop with nothing RUNNING.
OperatorResume ==
  /\ Stopped /\ resumes < MaxResumes /\ RunningLeases = {}
  /\ dispatch' = "RUN" /\ waived' = {} /\ resumes' = resumes + 1
  /\ UNCHANGED <<row, world, daemon, faults>>

\* resume_dispatch under the daemon's lock after a stale heartbeat: every RUNNING
\* lease is sealed and live; fresh heartbeats, or manual evidence that waives them.
OperatorResumeRunning ==
  /\ dispatch = "STALE" /\ resumes < MaxResumes /\ RunningLeases # {}
  /\ daemon.pc = "down"
  /\ \A l \in RunningLeases : row[l].attached = "sealed" /\ WrapperAlive(l) /\ proc[l].child # "dead"
  /\ \/ (\A l \in RunningLeases : proc[l].child = "live") /\ waived' = {}
     \/ waived' = RunningLeases
  /\ dispatch' = "RUN" /\ resumes' = resumes + 1
  /\ UNCHANGED <<row, world, daemon, faults>>

----------------------------------------------------------------------------
(* The processes of a lease.                                               *)

WrapperStarts(l) ==
  /\ proc[l].wrapper = "launched"
  /\ proc' = [proc EXCEPT ![l] = [@ EXCEPT !.wrapper = "started", !.start = TRUE]]
  /\ UNCHANGED <<ledger, result, daemon, budget>>

SpawnChild(l) ==
  /\ proc[l].wrapper = "started"
  /\ proc' = [proc EXCEPT ![l] = [@ EXCEPT !.wrapper = "waiting", !.child = "live"]]
  /\ UNCHANGED <<ledger, result, daemon, budget>>

\* The worker of a resident group starts its server in a session of its own.
ServerStarts(l) ==
  /\ Serves(l) /\ ChildAlive(l) /\ proc[l].server = "none" /\ ~Published(l)
  /\ proc' = [proc EXCEPT ![l].server = "live"]
  /\ UNCHANGED <<ledger, result, daemon, budget>>

\* The server dies with its parent (PDEATHSIG) or is closed by it.
ServerExits(l) ==
  /\ ServerAlive(l)
  /\ proc' = [proc EXCEPT ![l].server = "dead"]
  /\ UNCHANGED <<ledger, result, daemon, budget>>

\* The worker publishes every result of the lease at once; a resident group only
\* after its server has closed, an exact-ten group never an infrastructure failure.
ChildPublishes(l) ==
  /\ ChildAlive(l) /\ ~Published(l) /\ (Serves(l) => proc[l].server = "dead")
  /\ \E verdict \in [Members(l) -> Outcomes \ IF InGroup(l) /\ ~Resident THEN {"INFRASTRUCTURE"} ELSE {}] :
       result' = [k \in Keys |-> IF k \in Members(l) THEN verdict[k] ELSE result[k]]
  /\ UNCHANGED <<ledger, proc, daemon, budget>>

ChildExits(l) ==
  /\ ChildAlive(l)
  /\ proc' = [proc EXCEPT ![l].child = "dead"]
  /\ UNCHANGED <<ledger, result, daemon, budget>>

\* The worker stops or resumes publishing heartbeats.
ChildSilent(l) ==
  /\ proc[l].child = "live" /\ Fault("silent")
  /\ proc' = [proc EXCEPT ![l].child = "silent"] /\ UNCHANGED <<ledger, result, daemon>>
ChildHeard(l) ==
  /\ proc[l].child = "silent"
  /\ proc' = [proc EXCEPT ![l].child = "live"] /\ UNCHANGED <<ledger, result, daemon, budget>>

WrapperExits(l) ==
  /\ proc[l].wrapper = "waiting" /\ proc[l].child = "dead"
  /\ proc' = [proc EXCEPT ![l] = [@ EXCEPT !.wrapper = "dead", !.exit = TRUE]]
  /\ UNCHANGED <<ledger, result, daemon, budget>>

\* The wrapper is killed from outside and seals nothing.
WrapperKilled(l) ==
  /\ WrapperAlive(l) /\ Fault("killed")
  /\ proc' = [proc EXCEPT ![l].wrapper = "dead"] /\ UNCHANGED <<ledger, result, daemon>>

----------------------------------------------------------------------------
Reconcile ==
  \/ BeginCycle \/ NextLease \/ RecoverStart \/ WaitStartReceipt \/ StartNotPublished
  \/ HeartbeatStale \/ ProbeAlive \/ RuntimeLimitStop \/ AdvanceTermination
  \/ TermGraceOver \/ SendTerm \/ RecordTerm \/ SendKill \/ RecordKill
  \/ ResidentOrphan \/ OrphanTerm \/ GroupOrphan \/ Terminalize
Dispatching ==
  \/ MaterializeRetry \/ EnqueueRetry \/ ReadGate \/ DiskGateStops \/ MarkRunning
  \/ Launch \/ AttachProcess \/ SpawnFailed \/ DispatchDone \/ EndCycle
DaemonFault == MonitoringFails \/ RetryBuilderFails \/ LaunchFails \/ AttachFails \/ Crash
Operator == OperatorStop \/ OperatorResume \/ OperatorResumeRunning
Process(l) ==
  \/ WrapperStarts(l) \/ SpawnChild(l) \/ ServerStarts(l) \/ ServerExits(l)
  \/ ChildPublishes(l) \/ ChildExits(l) \/ ChildSilent(l) \/ ChildHeard(l)
  \/ WrapperExits(l) \/ WrapperKilled(l)

Next == Reconcile \/ Dispatching \/ DaemonFault \/ Operator \/ \E l \in Leases : Process(l)

\* The daemon keeps taking steps, and is started again after a crash or a STOP;
\* its deadlines pass if it keeps looking; a wrapper runs to its end once its
\* worker has; a server dies after the worker it belongs to.  A worker owes
\* nothing: it may hang for ever.
Fairness ==
  /\ WF_vars(Reconcile \/ Dispatching)
  /\ SF_vars(StartNotPublished) /\ SF_vars(TermGraceOver)
  /\ \A l \in Leases :
       /\ WF_vars(WrapperStarts(l)) /\ WF_vars(SpawnChild(l)) /\ WF_vars(WrapperExits(l))
       /\ WF_vars(~ChildAlive(l) /\ ServerExits(l))

Spec == Init /\ [][Next]_vars
FairSpec == Spec /\ Fairness

----------------------------------------------------------------------------
(* Properties.                                                             *)

Row == [status : {"ABSENT", "PENDING", "RUNNING", "COMPLETE", "FAILED"}, queued : BOOLEAN,
        attached : {"no", "pid", "sealed"}, gpus : SUBSET Gpus,
        term : {"none", "requested", "TERM", "KILL"},
        fail : {"none", "INFRASTRUCTURE", "SCIENTIFIC"}, retry : BOOLEAN]
Proc == [wrapper : {"none", "launched", "started", "waiting", "dead"}, start : BOOLEAN,
         child : {"none", "live", "silent", "dead"}, server : {"none", "live", "dead"},
         exit : BOOLEAN]
Control == [pc : {"down", "idle", "next", "recover", "probe", "limit", "advance", "term",
                  "recordTerm", "orphan", "kill", "recordKill", "retry", "enqueue", "gate",
                  "dispatch", "launch", "attach", "spawnFailed", "end"},
            cur : Keys, todo : SUBSET Leases, owed : SUBSET Keys, back : {"next", "gate"}]

\* Type correctness of the ledger, the processes and the daemon.
TypeOK ==
  /\ row \in [Keys -> Row] /\ dispatch \in {"RUN", "STOP", "STALE"} /\ waived \in SUBSET Leases
  /\ proc \in [Keys -> Proc]
  /\ result \in [Keys -> {"none", "COMPLETE", "INFRASTRUCTURE", "SCIENTIFIC"}]
  /\ daemon \in Control
  /\ faults \in 0 .. MaxFaults /\ resumes \in 0 .. MaxResumes

Live(l) == WrapperAlive(l) \/ ChildAlive(l) \/ ServerAlive(l)

\* No process of a lease outlives its RUNNING row: an attempt is terminalized, and
\* its GPUs given away, only once wrapper, worker and server are gone, whatever
\* the daemon missed while it was down (_reconcile_running, send_kill).
NoStrayProcess == \A l \in Leases : Live(l) => Running(l)

\* Two live process trees never share a GPU, and one of an exclusive timing class
\* is alone on the host (_select_dispatch over the ledger's RUNNING rows).
ExclusiveGpus ==
  \A l, m \in Leases :
    l # m /\ Live(l) /\ Live(m) =>
      /\ row[l].gpus \cap row[m].gpus = {}
      /\ l[1] \notin Exclusive /\ m[1] \notin Exclusive

\* An attempt beyond the first exists only because the one before it failed on
\* infrastructure with an automatic retry decision, and there are at most three
\* (_terminalize_*, _materialize_retry, _materialize_serving_group_retries).
RetriesJustified ==
  \A k \in Keys :
    row[k].status # "ABSENT" /\ k[2] > 1 =>
      LET before == row[<<k[1], k[2] - 1>>] IN
      before.status = "FAILED" /\ before.fail = "INFRASTRUCTURE" /\ before.retry /\ k[2] <= 3

\* The verdict on a finished attempt is the sealed result of its worker when there
\* is one, and an infrastructure failure when there is not: a timeout, a crash of
\* the daemon or a late termination never overrides a sealed result.
VerdictMatchesEvidence ==
  \A k \in Keys :
    row[k].status \in {"COMPLETE", "FAILED"} =>
      LET l == LeaseOf(k)
          verdict == IF row[k].status = "COMPLETE" THEN "COMPLETE" ELSE row[k].fail IN
      verdict = IF proc[l].exit /\ Published(l) THEN result[k] ELSE "INFRASTRUCTURE"

\* A sealed result is eventually accepted, across crashes and under STOP
\* (reconciliation runs before the gate is read).
SealedResultAccepted ==
  \A l \in Leases :
    (Running(l) /\ ~Live(l) /\ Validation(l) = "sealed") ~> ~Running(l)

\* A termination that was asked for settles: the attempt leaves RUNNING.  Two
\* cases are excepted because the code leaves them to the operator: a worker that
\* survives its wrapper, and one whose stale heartbeat no evidence waives.
TerminationSettles ==
  \A l \in Leases :
    (Running(l) /\ row[l].term # "none")
      ~> (~Running(l) \/ (ChildAlive(l) /\ ~WrapperAlive(l)) \/ Unheard(l))

\* A worker that stays silent without a waiver closes the dispatch gate.
SilenceStops ==
  \A l \in Leases :
    (Running(l) /\ WrapperAlive(l) /\ Unheard(l))
      ~> (Stopped \/ ~Unheard(l) \/ ~WrapperAlive(l))

\* The inductive invariant of the ledger, under every fault: the rows of a group
\* move together, attempts follow one another, RUNNING leases are apart, and
\* what the daemon has listed, holds or owes a retry is so in the ledger.
GroupTogether ==
  \A l \in Leases : row[l].status \in {"PENDING", "RUNNING"} =>
    \A k \in Members(l) : row[k].status = row[l].status
AttemptsInOrder ==
  \A k \in Keys : k[2] < AttemptBound /\ row[k].status \in {"ABSENT", "PENDING", "RUNNING"} =>
    row[NextAttempt(k)].status = "ABSENT"
RunningApart ==
  \A l, m \in Leases : l # m /\ Running(l) /\ Running(m) =>
    row[l].gpus \cap row[m].gpus = {} /\ l[1] \notin Exclusive /\ m[1] \notin Exclusive
Holding == {"recover", "probe", "limit", "advance", "term", "recordTerm", "orphan", "kill",
            "recordKill", "launch", "attach", "spawnFailed"}
RetryDue(k) ==
  /\ row[k].status = "FAILED" /\ row[k].fail = "INFRASTRUCTURE" /\ row[k].retry /\ k[2] <= 2
  /\ k[2] < AttemptBound => row[NextAttempt(k)].status = "ABSENT"
DaemonListsTrue ==
  /\ \A l \in daemon.todo : Running(l)
  /\ daemon.pc \in Holding => daemon.cur \in Leases /\ Running(daemon.cur) /\ daemon.cur \notin daemon.todo
  /\ \A k \in daemon.owed : RetryDue(k)
LedgerInv ==
  /\ TypeOK /\ GroupTogether /\ AttemptsInOrder /\ RunningApart /\ DaemonListsTrue
  /\ RetriesJustified

\* The inductive invariant of the processes, when none appears behind the
\* daemon's back: nothing runs or is sealed before its receipt, there is no
\* receipt before the claim, and a lease about to be launched has no process.
ReceiptFirst ==
  \A l \in Leases : ~proc[l].start =>
    /\ proc[l].wrapper \in {"none", "launched", "dead"} /\ proc[l].child = "none"
    /\ proc[l].server = "none" /\ ~proc[l].exit
ClaimFirst == \A l \in Leases : row[l].status \in {"ABSENT", "PENDING"} => ~proc[l].start
LaunchClean ==
  daemon.pc \in {"launch", "spawnFailed"} => ~Live(daemon.cur) /\ ~proc[daemon.cur].start
ProcessInv ==
  NoStrayProcess /\ ReceiptFirst /\ ClaimFirst /\ LaunchClean /\ VerdictMatchesEvidence

IInv == LedgerInv /\ ProcessInv
============================================================================
