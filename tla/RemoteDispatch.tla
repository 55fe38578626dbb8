--------------------------- MODULE RemoteDispatch ---------------------------
(***************************************************************************)
(* One host's share of a fleet wave: the coordinator's SSH calls           *)
(* (orchestration/remote_dispatch.py), the host-local worker they start    *)
(* (execution_bundle.execute_dispatch_wave_bundles) and the append-only    *)
(* WAVE/INTENT/FINISH attempt journal the worker keeps                     *)
(* (execution_bundle.DispatchAttemptJournal).                              *)
(*                                                                         *)
(* A request touches only its own host, and the fleet receipt keeps one    *)
(* result per host, so one host is the whole system as far as these        *)
(* properties go.  An SSH call may be lost at any moment after it was      *)
(* dispatched while the worker it started runs on; the worker may die at   *)
(* any step; and while the outcome is unknown the same request may be run  *)
(* again on the host from its own command line.  Appending to the journal  *)
(* is two steps, the check of the cached directory listing and the         *)
(* exclusive creation of the event file, because nothing locks the journal *)
(* between two processes.                                                  *)
(***************************************************************************)
EXTENDS Integers, Sequences, FiniteSets

CONSTANTS
    Wave,        \* the assignments of the wave, in plan order
    Workers,     \* process slots of the host
    Allowance,   \* assignment -> ExperimentBudget.retry_allowance
    Overlapping, \* the kinds of request rerun while a worker of it may live
    MaxPaths,    \* bound: receipt output paths the caller names
    MaxFaults,   \* bound: lost calls, dead workers, failed routes, overlaps
    None         \* no worker, no receipt

ASSUME WaveAssumption == Wave \in Seq(STRING) \ {<<>>}
ASSUME BoundAssumption == /\ Allowance \in [{Wave[i] : i \in 1..Len(Wave)} -> Nat]
                          /\ MaxPaths \in Nat \ {0}
                          /\ MaxFaults \in Nat
                          /\ Overlapping \subseteq {"initial", "resume"}
ASSUME NoneAssumption == None \notin Workers \cup [root : Nat, count : Nat]

Assignments == {Wave[i] : i \in 1..Len(Wave)}
Paths == 1..MaxPaths

VARIABLES
    final,     \* is this wave the last of the host's plan
    call,      \* the coordinator: "idle", "prepare", "waiting"
    request,   \* the last request: [out, root, resume]
    result,    \* its RemoteHostWaveResult: [outcome, receipt]
    session,   \* the worker at the other end of the open SSH call
    worker,    \* worker processes
    journal,   \* journal root -> [events, broken]
    receipts,  \* receipt path -> the published envelope, [root, count]
    traced,    \* assignments whose run left a trace in its evidence root
    faults     \* faults so far

coordinator == <<final, call, request, result, session>>
disk == <<journal, receipts, traced>>
vars == <<coordinator, worker, disk, faults>>

Kinds == {"WAVE", "INTENT", "FINISH"}
Event == {e \in [kind : Kinds, a : Assignments \cup {""}, ok : BOOLEAN] :
              e.kind # "WAVE" => e.a \in Assignments}
Requests == [out : Paths, root : Paths, resume : Paths \cup {0}]
Outcomes == {"none", "SUCCEEDED", "BLOCKED", "FAILED", "UNKNOWN", "SSH_FAILED",
             "RECONCILED_SUCCEEDED", "RECONCILED_FAILED"}
Retryable == {"BLOCKED", "FAILED", "RECONCILED_FAILED", "SSH_FAILED"}
Successes == {"SUCCEEDED", "RECONCILED_SUCCEEDED"}

WaveEvent == [kind |-> "WAVE", a |-> "", ok |-> FALSE]
Idle == [pc |-> "idle", req |-> [out |-> 1, root |-> 1, resume |-> 0],
         count |-> 0, pending |-> {}, event |-> WaveEvent,
         tokens |-> {}, live |-> {}, ended |-> {}, reply |-> ""]

Fault == /\ faults < MaxFaults
         /\ faults' = faults + 1

-----------------------------------------------------------------------------
(* What a replay of the journal's events says.                             *)

FinishesOf(events, a) ==
    {i \in 1..Len(events) : events[i].kind = "FINISH" /\ events[i].a = a}

IntentsOf(events, a) ==
    {i \in 1..Len(events) : events[i].kind = "INTENT" /\ events[i].a = a}

\* The assignments with an INTENT that no FINISH has closed.
Incomplete(events) ==
    {a \in Assignments : \E i \in IntentsOf(events, a) :
                             \A j \in FinishesOf(events, a) : j < i}

Attempts(events, a) == Cardinality(FinishesOf(events, a))

\* The latest receipt of the assignment is a success.
Succeeded(events, a) ==
    \E i \in FinishesOf(events, a) :
        /\ events[i].ok
        /\ \A j \in FinishesOf(events, a) : j <= i

\* A schedule receipt exists once every assignment of the wave has finished;
\* its identity is the latest attempt of each.
HasReceipt(events) == \A a \in Assignments : FinishesOf(events, a) # {}

Receipt(events) == [a \in Assignments |-> Attempts(events, a)]

AllSucceeded(events) == \A a \in Assignments : Succeeded(events, a)

\* The events an envelope binds.
Bound(envelope) == SubSeq(journal[envelope.root].events, 1, envelope.count)

\* The assignments the next launch of the wave covers, and the first of them
\* in plan order.
Pending(events) == {a \in Assignments : ~Succeeded(events, a)}
First(pending) ==
    Wave[CHOOSE i \in 1..Len(Wave) : /\ Wave[i] \in pending
                                    /\ \A j \in 1..(i - 1) : Wave[j] \notin pending]

-----------------------------------------------------------------------------
(* The worker: execute_host_local_wave_request.                            *)

\* A ExecutionBundleBlockedError before anything ran: exit 42, BLOCKED.
Blocked(w) == worker' = [worker EXCEPT ![w].pc = "reply", ![w].reply = "BLOCKED"]

\* Any other exception: exit 43 and no response.  The task group cancels
\* the runs that are left, and they record nothing.
Unknown(w) ==
    worker' = [worker EXCEPT ![w].pc = "reply", ![w].reply = "UNKNOWN",
                             ![w].live = {}, ![w].ended = {}]

Events(w) == journal[worker[w].req.root].events
Broken(w) == journal[worker[w].req.root].broken
Resumed(w) == Bound(receipts[worker[w].req.resume])

\* The journal holds a finished wave that the request does not name.
Advanced(w) ==
    /\ HasReceipt(Events(w))
    /\ worker[w].req.resume # 0 => Receipt(Events(w)) # Receipt(Resumed(w))

\* Mutant: traces of earlier runs are not looked for.
UntrustedNever(w) == FALSE

\* An assignment that is to run has a trace and no failed attempt on record.
Untrusted(w) ==
    \E a \in Assignments : /\ ~Succeeded(Events(w), a)
                           /\ FinishesOf(Events(w), a) = {}
                           /\ a \in traced

\* The preflight refuses: the receipt path is taken, the journal does not
\* replay, an INTENT has no FINISH, or a trace exists that no failed attempt
\* of this journal explains.
Refused(w) ==
    \/ receipts[worker[w].req.out] # None
    \/ Broken(w)
    \/ Incomplete(Events(w)) # {}
    \/ ~Advanced(w) /\ Untrusted(w)

\* The refusal leaves a BLOCKED response.
OpenBlocked(w) ==
    /\ worker[w].pc = "open"
    /\ Refused(w)
    /\ Blocked(w)
    /\ UNCHANGED <<coordinator, disk, faults>>

\* Mutant: a journal that is ahead of the request is refused.
OpenRecoveryRefused(w) ==
    /\ worker[w].pc = "open"
    /\ ~Refused(w)
    /\ Advanced(w)
    /\ Blocked(w)
    /\ UNCHANGED <<coordinator, disk, faults>>

\* Recovery only: the finished wave is published and nothing is run.
OpenRecovery(w) ==
    /\ worker[w].pc = "open"
    /\ ~Refused(w)
    /\ Advanced(w)
    /\ worker' = [worker EXCEPT ![w].pc = "recover",
                                ![w].count = Len(Events(w))]
    /\ UNCHANGED <<coordinator, disk, faults>>

\* The retry allowance is spent: a ValueError of execute_dispatch_plan.
OpenExhausted(w) ==
    /\ worker[w].pc = "open"
    /\ ~Refused(w) /\ ~Advanced(w)
    /\ \E a \in Assignments : /\ ~Succeeded(Events(w), a)
                              /\ Attempts(Events(w), a) > Allowance[a]
    /\ Unknown(w)
    /\ UNCHANGED <<coordinator, disk, faults>>

\* The pending assignments are fixed; the WAVE event comes first.
OpenExecute(w) ==
    /\ worker[w].pc = "open"
    /\ ~Refused(w) /\ ~Advanced(w)
    /\ \A a \in Assignments : Succeeded(Events(w), a)
                              \/ Attempts(Events(w), a) <= Allowance[a]
    /\ worker' = [worker EXCEPT ![w].pc = "verify",
                                ![w].count = Len(Events(w)),
                                ![w].pending = Pending(Events(w)),
                                ![w].event = WaveEvent]
    /\ UNCHANGED <<coordinator, disk, faults>>

\* Mutant: the listing is not compared with the cached one.
VerifyHeadSkipped(w) ==
    /\ worker[w].pc = "verify"
    /\ worker' = [worker EXCEPT ![w].pc = "write"]
    /\ UNCHANGED <<coordinator, disk, faults>>

\* _verify_cached_head: the event files are the ones this process knows.
VerifyHead(w) ==
    /\ worker[w].pc = "verify"
    /\ IF Len(Events(w)) = worker[w].count /\ ~Broken(w)
       THEN worker' = [worker EXCEPT ![w].pc = "write"]
       ELSE Unknown(w)
    /\ UNCHANGED <<coordinator, disk, faults>>

\* What follows a durable event: the INTENTs in plan order after the WAVE,
\* the launch of every pending assignment after the last INTENT, the receipt
\* after the last FINISH.
Written(w) ==
    LET p == worker[w]
        todo == IF p.event.kind = "INTENT" THEN p.pending \ {p.event.a} ELSE p.pending
        tokens == IF p.event.kind = "INTENT" THEN p.tokens \cup {p.event.a}
                                             ELSE p.tokens
        next == [p EXCEPT !.count = p.count + 1, !.pending = todo]
    IN  CASE p.event.kind = "FINISH" ->
               [next EXCEPT !.pc = IF p.live = {} /\ p.ended = {}
                                   THEN "publish" ELSE "run"]
          [] todo # {} ->
               [next EXCEPT !.pc = "verify", !.tokens = tokens,
                            !.event = [kind |-> "INTENT", a |-> First(todo),
                                       ok |-> FALSE]]
          [] OTHER ->
               [next EXCEPT !.pc = "run", !.tokens = {}, !.live = tokens]

\* The event file is created exclusively.  Its name holds its sequence number
\* and its digest: a second WAVE after the same head has the same name and
\* fails, any other event that lost the race makes two files of one sequence
\* number, which no replay accepts.
WriteEvent(w) ==
    LET root == worker[w].req.root
        ahead == Len(Events(w)) > worker[w].count
        event == worker[w].event
    IN  /\ worker[w].pc = "write"
        /\ \/ /\ ahead
              /\ event = WaveEvent /\ Events(w)[worker[w].count + 1] = WaveEvent
              /\ Unknown(w)
              /\ UNCHANGED journal
           \/ /\ ahead
              /\ ~(event = WaveEvent /\ Events(w)[worker[w].count + 1] = WaveEvent)
              /\ worker' = [worker EXCEPT ![w] = Written(w)]
              /\ journal' = [journal EXCEPT ![root].broken = TRUE]
           \/ /\ ~ahead
              /\ worker' = [worker EXCEPT ![w] = Written(w)]
              /\ journal' = [journal EXCEPT ![root].events = Append(@, event)]
        /\ UNCHANGED <<coordinator, receipts, traced, faults>>

\* A run ends.  A success has sealed its evidence; a failure may have left a
\* trace or failed before it made one.
RunEnds(w, a) ==
    /\ a \in worker[w].live
    /\ \E ok \in BOOLEAN :
          /\ worker' = [worker EXCEPT ![w].live = @ \ {a},
                                      ![w].ended = @ \cup {[a |-> a, ok |-> ok]}]
          /\ traced' \in IF ok THEN {traced \cup {a}}
                               ELSE {traced, traced \cup {a}}
    /\ UNCHANGED <<coordinator, journal, receipts, faults>>

\* finish_attempt takes the append lock for one ended run.
FinishAttempt(w) ==
    /\ worker[w].pc = "run"
    /\ \E e \in worker[w].ended :
          worker' = [worker EXCEPT ![w].pc = "verify",
                                   ![w].ended = @ \ {e},
                                   ![w].event = [kind |-> "FINISH", a |-> e.a,
                                                 ok |-> e.ok]]
    /\ UNCHANGED <<coordinator, disk, faults>>

\* Mutant: a receipt that covers the wave is taken for a success.
VerdictCovered(events) == IF HasReceipt(events) THEN "SUCCEEDED" ELSE "FAILED"

\* The response a published receipt gives.
Verdict(events) == IF AllSucceeded(events) THEN "SUCCEEDED" ELSE "FAILED"

\* The envelope is linked; one already there must be the same.
PublishEnvelope(w) ==
    LET envelope == [root |-> worker[w].req.root, count |-> worker[w].count]
        out == worker[w].req.out
    IN  IF receipts[out] \in {None, envelope}
        THEN /\ receipts' = [receipts EXCEPT ![out] = envelope]
             /\ worker' = [worker EXCEPT ![w].pc = "reply",
                                         ![w].reply = Verdict(Bound(envelope))]
        ELSE Unknown(w) /\ UNCHANGED receipts

\* After the wave the journal is replayed again and must be what this process
\* wrote; then the receipt is published.
PublishReceipt(w) ==
    /\ worker[w].pc = "publish"
    /\ IF Len(Events(w)) = worker[w].count /\ ~Broken(w)
       THEN PublishEnvelope(w)
       ELSE Unknown(w) /\ UNCHANGED receipts
    /\ UNCHANGED <<coordinator, journal, traced, faults>>

\* Recovery publishes what the replay at its start gave.
PublishRecovered(w) ==
    /\ worker[w].pc = "recover"
    /\ PublishEnvelope(w)
    /\ UNCHANGED <<coordinator, journal, traced, faults>>

-----------------------------------------------------------------------------
(* The coordinator: execute_fleet_wave for this host.                      *)

\* The first request of the wave names no receipt to resume.
Send ==
    /\ call = "idle" /\ result.outcome = "none"
    /\ call' = "prepare"
    /\ UNCHANGED <<final, request, result, session, worker, disk, faults>>

\* A retry of a terminal-negative result resumes the receipt that result
\* names, and none if it names none; the journal is the resumed one's, or the
\* one beside the new receipt path.  A path is named again only while the
\* result gave it no receipt.
Retry ==
    /\ call = "idle" /\ result.outcome \in Retryable
    /\ \E out \in Paths :
          /\ out \in {request.out, request.out + 1} \ {result.receipt}
          /\ request' = [out |-> out, resume |-> result.receipt,
                         root |-> IF result.receipt = 0 THEN out
                                  ELSE receipts[result.receipt].root]
    /\ call' = "prepare"
    /\ UNCHANGED <<final, result, session, worker, disk, faults>>

Outcome(o, receipt) == result' = [outcome |-> o, receipt |-> receipt]

\* The local preparation of the route fails before anything was sent.
RouteFails ==
    /\ call = "prepare"
    /\ Fault
    /\ call' = "idle"
    /\ Outcome("SSH_FAILED", 0)
    /\ UNCHANGED <<final, request, session, worker, disk>>

Start(w, req) ==
    /\ worker[w].pc = "idle"
    /\ worker' = [worker EXCEPT ![w] = [Idle EXCEPT !.pc = "open", !.req = req]]

\* The request reaches the host and a worker starts on it.
Dispatch(w) ==
    /\ call = "prepare"
    /\ Start(w, request)
    /\ call' = "waiting"
    /\ session' = w
    /\ UNCHANGED <<final, request, result, disk, faults>>

\* Mutant: the lost call leaves its worker attached.
TransportLostAttached ==
    /\ call \in {"prepare", "waiting"}
    /\ Fault
    /\ call' = "idle"
    /\ Outcome("UNKNOWN", 0)
    /\ UNCHANGED <<final, request, session, worker, disk>>

\* Mutant: a timeout counts as a failure of the transport.
TransportLostRetryable ==
    /\ call \in {"prepare", "waiting"}
    /\ Fault
    /\ call' = "idle"
    /\ session' = None
    /\ Outcome("SSH_FAILED", 0)
    /\ UNCHANGED <<final, request, worker, disk>>

\* After the dispatch a timeout, a lost connection or a cut response says
\* nothing of the worker, which may not have started or may run on.
TransportLost ==
    /\ call \in {"prepare", "waiting"}
    /\ Fault
    /\ call' = "idle"
    /\ session' = None
    /\ Outcome("UNKNOWN", 0)
    /\ UNCHANGED <<final, request, worker, disk>>

\* The worker's exit, decoded when the call still waits for it.
Reply(w) ==
    /\ worker[w].pc = "reply"
    /\ worker' = [worker EXCEPT ![w] = Idle]
    /\ IF session = w
       THEN /\ call' = "idle"
            /\ session' = None
            /\ Outcome(worker[w].reply,
                       IF worker[w].reply \in {"SUCCEEDED", "FAILED"}
                       THEN worker[w].req.out ELSE 0)
       ELSE UNCHANGED <<call, session, result>>
    /\ UNCHANGED <<final, request, disk, faults>>

\* _collect_remote_raw_evidence_bundle: the receipt is there, its journal
\* replays to exactly it and the schedule is terminal.
EvidenceAvailable ==
    LET envelope == receipts[request.out]
    IN  /\ envelope # None
        /\ envelope.root = request.root
        /\ ~journal[envelope.root].broken
        /\ envelope.count = Len(journal[envelope.root].events)
        /\ Incomplete(Bound(envelope)) = {}
        /\ final \/ ~AllSucceeded(Bound(envelope))

\* reconcile_remote_host_wave: missing evidence leaves the result UNKNOWN.
Reconcile ==
    /\ call = "idle" /\ result.outcome = "UNKNOWN"
    /\ EvidenceAvailable
    /\ Outcome(IF AllSucceeded(Bound(receipts[request.out]))
               THEN "RECONCILED_SUCCEEDED" ELSE "RECONCILED_FAILED",
               request.out)
    /\ UNCHANGED <<final, call, request, session, worker, disk, faults>>

-----------------------------------------------------------------------------
(* The environment.                                                        *)

Kind(req) == IF req.resume = 0 THEN "initial" ELSE "resume"

\* While the outcome is unknown the same wave is run again on the host.
Rerun(w) ==
    /\ call = "idle" /\ result.outcome = "UNKNOWN"
    /\ \A v \in Workers : worker[v].pc = "idle"
    /\ Start(w, request)
    /\ UNCHANGED <<coordinator, disk, faults>>

\* The same while a worker whose call was lost still runs.
RerunOverlapping(w) ==
    /\ call = "idle" /\ result.outcome = "UNKNOWN"
    /\ Kind(request) \in Overlapping
    /\ \E v \in Workers : worker[v].pc # "idle"
    /\ Fault
    /\ Start(w, request)
    /\ UNCHANGED <<coordinator, disk>>

\* A worker dies: its runs end with it, the event file it was writing may
\* stay behind incomplete, and an open call ends without a response.
Crash(w) ==
    LET root == worker[w].req.root
    IN  /\ worker[w].pc # "idle"
        /\ Fault
        /\ worker' = [worker EXCEPT ![w] = Idle]
        /\ traced' \in {traced, traced \cup worker[w].live}
        /\ \/ UNCHANGED journal
           \/ /\ worker[w].pc = "write"
              /\ Len(Events(w)) = worker[w].count
              /\ journal' = [journal EXCEPT
                                ![root].events = Append(@, worker[w].event),
                                ![root].broken = TRUE]
        /\ IF session = w
           THEN /\ call' = "idle" /\ session' = None
                /\ Outcome("UNKNOWN", 0)
           ELSE UNCHANGED <<call, session, result>>
        /\ UNCHANGED <<final, request, receipts>>

-----------------------------------------------------------------------------
Init ==
    /\ final \in BOOLEAN
    /\ call = "idle"
    /\ request = Idle.req
    /\ result = [outcome |-> "none", receipt |-> 0]
    /\ session = None
    /\ worker = [w \in Workers |-> Idle]
    /\ journal = [p \in Paths |-> [events |-> <<>>, broken |-> FALSE]]
    /\ receipts = [p \in Paths |-> None]
    /\ traced = {}
    /\ faults = 0

Working(w) ==
    \/ OpenBlocked(w) \/ OpenRecovery(w) \/ OpenExhausted(w) \/ OpenExecute(w)
    \/ VerifyHead(w) \/ WriteEvent(w) \/ FinishAttempt(w)
    \/ (\E a \in Assignments : RunEnds(w, a))
    \/ PublishReceipt(w) \/ PublishRecovered(w) \/ Reply(w)

Coordinating ==
    \/ Send \/ Retry \/ RouteFails \/ TransportLost \/ Reconcile
    \/ \E w \in Workers : Dispatch(w)

Next == \/ Coordinating
        \/ \E w \in Workers : \/ Working(w) \/ Rerun(w)
                             \/ RerunOverlapping(w) \/ Crash(w)

Spec == Init /\ [][Next]_vars

\* Workers make progress, evidence is asked for until it is there, and the
\* wave of an unknown outcome is run again whenever the host allows it.
FairSpec ==
    /\ Spec
    /\ WF_vars(Reconcile)
    /\ \A w \in Workers : WF_vars(Working(w))
    /\ SF_vars(\E w \in Workers : Rerun(w))

-----------------------------------------------------------------------------
(* Properties.                                                             *)

WorkerState ==
    [pc : {"idle", "open", "verify", "write", "run", "publish", "recover",
           "reply"},
     req : Requests, count : Nat, pending : SUBSET Assignments, event : Event,
     tokens : SUBSET Assignments, live : SUBSET Assignments,
     ended : SUBSET [a : Assignments, ok : BOOLEAN],
     reply : {"", "SUCCEEDED", "FAILED", "BLOCKED", "UNKNOWN"}]

\* Types; and a coordinator that waits, waits for a worker of its request.
TypeOK ==
    /\ final \in BOOLEAN
    /\ call \in {"idle", "prepare", "waiting"}
    /\ request \in Requests
    /\ result \in [outcome : Outcomes, receipt : Paths \cup {0}]
    /\ worker \in [Workers -> WorkerState]
    /\ journal \in [Paths -> [events : Seq(Event), broken : BOOLEAN]]
    /\ receipts \in [Paths -> [root : Paths, count : Nat] \cup {None}]
    /\ traced \subseteq Assignments
    /\ faults \in 0..MaxFaults
    /\ IF call = "waiting"
       THEN session \in Workers /\ worker[session].req = request
       ELSE session = None

\* No assignment runs in two processes at once, and none runs whose INTENT is
\* not open in the journal its process writes: the journal alone keeps two
\* executions of a wave apart (DispatchAttemptJournal, begin_wave_attempts).
RunsExclusive ==
    \A w \in Workers : \A a \in worker[w].live :
        /\ a \in Incomplete(Events(w))
        /\ \A v \in Workers \ {w} : a \notin worker[v].live

\* A success on record is never run again, not even by a retry that lost the
\* receipt it should have resumed and so starts a journal of its own
\* (preflight_fresh_assignment_trace, _expected_pending).
SuccessNeverRerun ==
    \A w \in Workers : \A a \in worker[w].live : \A p \in Paths :
        \A i \in 1..Len(journal[p].events) :
            journal[p].events[i].kind = "FINISH" /\ journal[p].events[i].a = a
                => ~journal[p].events[i].ok

\* Whenever the caller may retry the host, nothing of the wave runs there: a
\* result that permits a new attempt is one no worker can still contradict
\* (RemoteHostWaveResult.retryable, execute_remote_host_wave).
RetryFindsHostQuiet ==
    call = "idle" /\ result.outcome \in Retryable
        => \A w \in Workers : worker[w].live = {}

\* A terminal result is what the host's journal says: the receipt it names is
\* published, the events it binds replay without an open INTENT, and the
\* verdict is theirs (_decode_remote_response, reconcile_remote_host_wave).
ResultIsOnRecord ==
    result.receipt # 0 =>
        LET events == Bound(receipts[result.receipt])
        IN  /\ receipts[result.receipt] # None
            /\ HasReceipt(events) /\ Incomplete(events) = {}
            /\ result.outcome \in Successes <=> AllSucceeded(events)

\* Once its workers are gone, a wave whose every attempt is finished on record
\* does not stay UNKNOWN, whichever of them died before the receipt was out:
\* a run of it on the host publishes the receipt without running anything,
\* and the evidence then reconciles the result.  A successful wave that is
\* not the plan's last is left out, for its evidence is refused.
FinishedWaveIsReconciled ==
    LET events == journal[request.root].events
    IN  ( /\ call = "idle" /\ result.outcome = "UNKNOWN"
          /\ \A w \in Workers : worker[w].pc = "idle"
          /\ ~journal[request.root].broken
          /\ HasReceipt(events) /\ Incomplete(events) = {}
          /\ request.resume # 0 =>
                Receipt(events) # Receipt(Bound(receipts[request.resume]))
          /\ final \/ ~AllSucceeded(events) )
        ~> result.outcome # "UNKNOWN"

\* The inductive invariant behind RetryFindsHostQuiet when no wave is rerun
\* beside a live worker of it: at most one worker can still do anything, it
\* works on the last request, and either the call waits for it or the outcome
\* is UNKNOWN.  A worker that will find its receipt path taken can do nothing.
Inert(w) ==
    /\ worker[w].live = {}
    /\ \/ worker[w].pc \in {"idle", "reply"}
       \/ worker[w].pc = "open" /\ receipts[worker[w].req.out] # None

Active(w) ==
    /\ worker[w].req = request
    /\ worker[w].pc # "open" => receipts[request.out] = None
    /\ worker[w].live # {} => worker[w].pc \in {"verify", "write", "run"}
    /\ \/ call = "waiting" /\ session = w
       \/ call = "idle" /\ result.outcome = "UNKNOWN"
    /\ \A v \in Workers \ {w} : Inert(v)

Shape ==
    /\ request.out \in Paths
    /\ receipts = [p \in Paths |-> receipts[p]]
    /\ worker = [w \in Workers |-> worker[w]]
    /\ \A w \in Workers :
          /\ worker[w].req.out \in Paths
          /\ "pc" \in DOMAIN worker[w]
          /\ "req" \in DOMAIN worker[w]
          /\ "live" \in DOMAIN worker[w]

IInv ==
    /\ Shape
    /\ call # "waiting" => session = None
    /\ \A w \in Workers : Inert(w) \/ Active(w)
-----------------------------------------------------------------------------
(* The inductive invariant behind RunsExclusive, SuccessNeverRerun and     *)
(* ResultIsOnRecord when no wave is rerun beside a live worker of it.      *)

\* A result names a published receipt, and so does a worker that replies one.
ReceiptsNamed ==
    /\ result.receipt # 0 => receipts[result.receipt] # None
    /\ \A w \in Workers :
          /\ worker[w].pc = "reply" => worker[w].reply # ""
          /\ worker[w].reply \in {"SUCCEEDED", "FAILED"} =>
                 receipts[worker[w].req.out] # None

\* The attempts worker record q has begun and not put on record: the tokens of
\* its INTENTs, its runs, the ended ones and the FINISH it is writing.
Launching(q) == q.pc \in {"verify", "write"} /\ q.event.kind # "FINISH"
FinishDue(q) ==
    {a \in Assignments : /\ q.pc \in {"verify", "write"}
                         /\ q.event.kind = "FINISH" /\ q.event.a = a}
EndedOf(q) == {e.a : e \in q.ended}
Owed(q) == q.tokens \cup q.live \cup EndedOf(q) \cup FinishDue(q)

\* An assignment is in one place of q at a time.
Apart(q) ==
    /\ Launching(q) => /\ q.live = {} /\ q.ended = {}
                       /\ q.tokens \cap q.pending = {}
                       /\ q.event.kind = "INTENT" => q.event.a \in q.pending
    /\ ~Launching(q) => q.tokens = {} /\ q.pending = {}
    /\ \A e, f \in q.ended : e.a = f.a => e = f
    /\ q.live \cap EndedOf(q) = {}
    /\ FinishDue(q) \cap (q.live \cup EndedOf(q)) = {}
    /\ q.pc = "publish" => q.live = {} /\ q.ended = {}

\* What an executing worker knows of its journal is all of it: the open
\* INTENTs are the attempts it owes, and what it is not to run has finished.
KnowsJournal(q, events) ==
    /\ q.count = Len(events)
    /\ Incomplete(events) = Owed(q)
    /\ \A a \in Assignments :
          FinishesOf(events, a) # {} \/ a \in q.pending \cup Owed(q)

\* No journal has a success of a on record.
NeverSucceeded(a) ==
    \A p \in Paths : \A i \in FinishesOf(journal[p].events, a) :
        ~journal[p].events[i].ok

Executes(w) == worker[w].pc \in {"verify", "write", "run", "publish"}

WorkerInv(w) ==
    /\ worker[w].pc = "open" => worker[w] = [Idle EXCEPT !.pc = "open",
                                                         !.req = worker[w].req]
    /\ Executes(w) =>
          /\ ~Broken(w)
          /\ Apart(worker[w])
          /\ KnowsJournal(worker[w], Events(w))
          /\ \A a \in worker[w].pending \cup Owed(worker[w]) : NeverSucceeded(a)
          /\ \A e \in worker[w].ended : e.ok => e.a \in traced
          /\ \A a \in FinishDue(worker[w]) : worker[w].event.ok => a \in traced
    /\ worker[w].pc = "recover" =>
          /\ worker[w].count = Len(Events(w))
          /\ HasReceipt(Events(w)) /\ Incomplete(Events(w)) = {}
    /\ worker[w].reply \in {"SUCCEEDED", "FAILED"} =>
          LET envelope == receipts[worker[w].req.out]
          IN  /\ envelope.root = worker[w].req.root
              /\ worker[w].reply = "SUCCEEDED" <=> AllSucceeded(Bound(envelope))

\* The journals: a success is the last attempt of its assignment, and has left
\* a trace.
JournalInv ==
    \A p \in Paths : \A a \in Assignments :
        LET events == journal[p].events
            finishes == FinishesOf(events, a)
        IN  \A i \in finishes : events[i].ok =>
                a \in traced /\ \A j \in finishes : j <= i

\* A request never goes back to an earlier journal, and what succeeded in
\* another journal has not been attempted in the request's.
RootInv ==
    /\ request.root <= request.out
    /\ \A p \in Paths : p > request.root => journal[p].events = <<>>
    /\ \A p \in Paths \ {request.root} : \A a \in Assignments :
          \A i \in FinishesOf(journal[p].events, a) :
              journal[p].events[i].ok =>
                  FinishesOf(journal[request.root].events, a) = {}

\* A published envelope binds events of its journal that replay to a receipt.
EnvelopeInv ==
    \A p \in Paths : receipts[p] # None =>
        /\ receipts[p].count <= Len(journal[receipts[p].root].events)
        /\ HasReceipt(Bound(receipts[p]))
        /\ Incomplete(Bound(receipts[p])) = {}

ResultInv ==
    result.receipt # 0 =>
        /\ receipts[result.receipt].root = request.root
        /\ result.outcome \in Successes <=> AllSucceeded(Bound(receipts[result.receipt]))

WaveInv ==
    /\ TypeOK /\ ReceiptsNamed /\ IInv
    /\ \A w \in Workers : WorkerInv(w)
    /\ JournalInv /\ RootInv /\ EnvelopeInv /\ ResultInv
=============================================================================
