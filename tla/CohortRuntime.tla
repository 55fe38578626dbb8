---------------------------- MODULE CohortRuntime ----------------------------
(***************************************************************************)
(* One adaptation cohort: CohortRuntime and LatestSignalBatch of           *)
(* adaptation/cohort.py with the publication rounds of methods/core.py.    *)
(*                                                                         *)
(* Requests emit supervision rows that reach offer_signal later, a trainer *)
(* drains them and begins a candidate, and callers present any candidate   *)
(* they were ever handed to commit or discard, while requests are          *)
(* cancelled and the cohort is reset or disabled.  A call the code refuses *)
(* changes nothing and is a stuttering step.  A candidate object is        *)
(* identified by its index in made (the code compares with "is").          *)
(***************************************************************************)
EXTENDS Naturals, Sequences, FiniteSets

CONSTANTS
    Requests,
    Policies,       \* subset of {"static", "tts", "l0"}
    Stride,         \* update stride of the fixed barrier
    Extra,          \* extra_logical_delay
    MaxLag,         \* bound: rounds a side-stream update takes
    MaxRound,       \* bound: decode rounds
    MaxRows,        \* bound: rows a request emits
    MaxCandidates,  \* bound: candidates begun
    MaxEvents       \* bound: commits, cancellations, resets and disables

ASSUME CohortAssumption ==
    /\ Policies \subseteq {"static", "tts", "l0"}
    /\ Stride \in Nat \ {0}
    /\ {Extra, MaxLag, MaxRound, MaxRows, MaxCandidates, MaxEvents} \subseteq Nat

VARIABLES
    epoch,
    active,     \* active_version
    slot,       \* slot_generation
    buf,        \* buffer_generation
    opt,        \* optimizer_state_generation
    signals,    \* LatestSignalBatch: at most one row per request
    inflight,   \* in_flight: the index of a candidate, 0 for None
    disabled,   \* disabled_reason is set
    last,       \* last_termination: the index of its candidate, 0 for None
    round,      \* the decode round callers pass
    emitted,    \* sequence numbers used by each request
    wire,       \* rows emitted and not yet offered
    batch,      \* rows the last drain returned
    made,       \* every candidate object handed to a caller
    ends,       \* history: every termination, in order
    events      \* history: commits, cancellations, resets, disables so far

runtime == << epoch, active, slot, buf, opt, signals, inflight, disabled, last >>
rows == << emitted, wire, batch >>
history == << made, ends, events >>
vars == << runtime, round, rows, history >>
-----------------------------------------------------------------------------
Init ==
    /\ epoch = 0 /\ active = 0 /\ slot = 0 /\ buf = 0 /\ opt = 0
    /\ signals = {} /\ inflight = 0 /\ disabled = FALSE /\ last = 0
    /\ round = 0
    /\ emitted = [r \in Requests |-> 0]
    /\ wire = {}
    /\ batch = {}
    /\ made = << >> /\ ends = << >> /\ events = 0

Tick == round < MaxRound /\ round' = round + 1 /\ UNCHANGED << runtime, rows, history >>

\* Verification emits the next row of request r under the serving version.
Emit(r) ==
    /\ emitted[r] < MaxRows
    /\ ~\E row \in wire : row.request = r
    /\ emitted' = [emitted EXCEPT ![r] = @ + 1]
    /\ wire' = wire \cup {[request |-> r, seq |-> emitted[r] + 1, version |-> active,
                           slot |-> slot, epoch |-> epoch]}
    /\ UNCHANGED << runtime, round, batch, history >>

LegalVersionOnly(row) == ~disabled /\ row.version = active
\* The checks of offer_signal.
Legal(row) == ~disabled /\ row.version = active /\ row.slot = slot

\* LatestSignalBatch.offer: a row replaces an older row of its request.
KeepLatest(row) ==
    LET previous == {s \in signals : s.request = row.request}
    IN  IF \E s \in previous : row.seq <= s.seq
        THEN signals ELSE (signals \ previous) \cup {row}

Offer(row) ==
    /\ wire' = wire \ {row}
    /\ signals' = IF Legal(row) THEN KeepLatest(row) ELSE signals
    /\ UNCHANGED << epoch, active, slot, buf, opt, inflight, disabled, last,
                    round, emitted, batch, history >>

\* drain hands every buffered row to the trainer.
Drain ==
    /\ batch' = signals
    /\ signals' = {}
    /\ UNCHANGED << epoch, active, slot, buf, opt, inflight, disabled, last,
                    round, emitted, wire, history >>

OneInFlightUnchecked == ~disabled
\* The checks begin_candidate raises on.
MayBegin == ~disabled /\ inflight = 0

\* begin_candidate, with the payload the trainer computes from its batch.
BeginCandidate(ready) ==
    /\ MayBegin
    /\ batch # {}
    /\ Len(made) < MaxCandidates
    /\ made' = Append(made, [source |-> round, ready |-> ready, version |-> active,
                             epoch |-> epoch, slot |-> slot, buf |-> buf, opt |-> opt,
                             events |-> events])
    /\ inflight' = Len(made) + 1
    /\ batch' = {}
    /\ UNCHANGED << epoch, active, slot, buf, opt, signals, disabled, last, round,
                    emitted, wire, ends, events >>

NextBoundaryInclusive(source) == ((source + Stride - 1) \div Stride) * Stride
\* The first barrier after the source round.
NextBoundary(source) == ((source \div Stride) + 1) * Stride

\* publication_round for the two publishing policies.
PublicationRound(policy, c) ==
    LET delayed == c.ready + Extra
        barrier == NextBoundary(c.source)
    IN  IF policy = "l0" \/ delayed >= barrier THEN delayed ELSE barrier

\* can_publish: the candidate is the one in flight, every generation it was
\* built from is current, and the policy's round has come.
CanPublish(i, policy) ==
    LET c == made[i] IN
    /\ i = inflight
    /\ c.epoch = epoch
    /\ c.slot = slot
    /\ c.version = active
    /\ c.buf = buf
    /\ c.opt = opt
    /\ round >= c.ready
    /\ policy # "static"
    /\ round >= PublicationRound(policy, c)

\* _terminate, which ends only the candidate in flight.
Terminate(i, outcome, policy) ==
    /\ i # last
    /\ i = inflight
    /\ inflight' = 0
    /\ last' = i
    /\ ends' = Append(ends, [id |-> i, outcome |-> outcome, epoch |-> epoch,
                             round |-> round, events |-> events, policy |-> policy])

CommitKeepsOptimizer == active' = active + 1 /\ UNCHANGED opt
\* commit moves the adapter version and the optimizer state together.
Advance == active' = active + 1 /\ opt' = opt + 1

Commit(i, policy) ==
    /\ events < MaxEvents
    /\ CanPublish(i, policy)
    /\ Advance
    /\ Terminate(i, "published", policy)
    /\ events' = events + 1
    /\ UNCHANGED << epoch, slot, buf, signals, disabled, round, rows, made >>

Discard(i) ==
    /\ Terminate(i, "discarded", "none")
    /\ UNCHANGED << epoch, active, slot, buf, opt, signals, disabled, round, rows,
                    made, events >>

\* What cancel_request, reset and disable do to the candidate in flight.
DiscardInFlight ==
    IF inflight # 0 THEN Terminate(inflight, "discarded", "none")
                    ELSE UNCHANGED << inflight, last, ends >>

CancelOnlyRowless(r) ==
    /\ events < MaxEvents
    /\ signals' = {s \in signals : s.request # r}
    /\ IF signals' = signals THEN UNCHANGED << inflight, last, ends, slot, buf >>
                             ELSE DiscardInFlight /\ slot' = slot + 1 /\ buf' = buf + 1
    /\ events' = events + 1
    /\ UNCHANGED << epoch, active, opt, disabled, round, rows, made >>
\* cancel_request ends the candidate in flight whether or not the request
\* contributed to it, and keeps the rows of the other requests.
CancelRequest(r) ==
    /\ events < MaxEvents
    /\ signals' = {s \in signals : s.request # r}
    /\ DiscardInFlight
    /\ slot' = slot + 1
    /\ buf' = buf + 1
    /\ events' = events + 1
    /\ UNCHANGED << epoch, active, opt, disabled, round, rows, made >>

Reset ==
    /\ events < MaxEvents
    /\ DiscardInFlight
    /\ epoch' = epoch + 1
    /\ active' = 0
    /\ slot' = slot + 1
    /\ buf' = buf + 1
    /\ opt' = 0
    /\ signals' = {}
    /\ disabled' = FALSE
    /\ events' = events + 1
    /\ UNCHANGED << round, rows, made >>

Disable ==
    /\ events < MaxEvents
    /\ DiscardInFlight
    /\ disabled' = TRUE
    /\ events' = events + 1
    /\ UNCHANGED << epoch, active, slot, buf, opt, signals, round, rows, made >>

Next ==
    \/ Tick
    \/ \E r \in Requests : Emit(r) \/ CancelRequest(r)
    \/ \E row \in wire : Offer(row)
    \/ Drain
    \/ \E ready \in round..(round + MaxLag) : BeginCandidate(ready)
    \/ \E i \in DOMAIN made : Discard(i) \/ \E policy \in Policies : Commit(i, policy)
    \/ Reset
    \/ Disable

Spec == Init /\ [][Next]_vars
-----------------------------------------------------------------------------
Row == [request : Requests, seq : Nat, version : Nat, slot : Nat, epoch : Nat]
Candidate ==
    [source : Nat, ready : Nat, version : Nat, epoch : Nat, slot : Nat, buf : Nat,
     opt : Nat, events : Nat]
End ==
    [id : Nat, outcome : {"published", "discarded"}, epoch : Nat, round : Nat,
     events : Nat, policy : Policies \cup {"none"}]

\* Type invariant of the cohort, its callers and the history; signals is a
\* dictionary on requests.
TypeOK ==
    /\ {epoch, active, slot, buf, opt, round, events, inflight, last} \subseteq Nat
    /\ disabled \in BOOLEAN
    /\ signals \subseteq Row /\ wire \subseteq Row /\ batch \subseteq Row
    /\ \A s, t \in signals : s.request = t.request => s = t
    /\ emitted \in [Requests -> Nat]
    /\ made \in Seq(Candidate)
    /\ ends \in Seq(End)
    /\ inflight \in 0..Len(made) /\ last \in 0..Len(made)

\* Every candidate object handed out is the one in flight or has ended exactly
\* once, whoever presents it to commit or discard, however late and however
\* often ("Exactly-once terminal outcome for a source-bound candidate").
EachCandidateEndsOnce ==
    /\ \A i, j \in DOMAIN ends : ends[i].id = ends[j].id => i = j
    /\ {ends[i].id : i \in DOMAIN ends} = (1..Len(made)) \ {inflight}

\* No commit, cancellation, reset or disable happens between the creation of
\* a candidate and its publication: the generations and the identity test
\* together catch every one of them.
PublishedUndisturbed ==
    \A i \in DOMAIN ends :
        ends[i].outcome = "published" => ends[i].events = made[ends[i].id].events

PublishedInEpoch ==
    {i \in DOMAIN ends : ends[i].outcome = "published" /\ ends[i].epoch = epoch}
\* The adapter version and the optimizer state both count the publications of
\* the current epoch ("Schedules advance on published updates, not attempted
\* or discarded candidates").
VersionCountsPublications ==
    active = Cardinality(PublishedInEpoch) /\ opt = Cardinality(PublishedInEpoch)

\* A candidate is published only when ready and delayed, and by the fixed
\* barrier policy only after a barrier has passed since its source round.
PublicationWaits ==
    \A i \in DOMAIN ends :
        LET e == ends[i]
            c == made[e.id]
        IN  e.outcome = "published" =>
                /\ e.round >= c.ready + Extra
                /\ e.policy = "tts" =>
                      \E barrier \in (c.source + 1)..e.round : barrier % Stride = 0

\* A buffered row was emitted in the current epoch: the adapter version is
\* reused after a reset, and a row of the old epoch never counts as new.
RowsOfThisEpoch == \A row \in signals : row.epoch = epoch

\* The inductive invariant: nothing has happened since the candidate in flight
\* was begun, no termination is of a later epoch, and a row of an earlier
\* epoch still on its way carries an earlier slot generation.
InFlightUndisturbed == inflight # 0 => made[inflight].events = events
EndsNotLater == \A i \in DOMAIN ends : ends[i].epoch <= epoch
WireGenerations ==
    \A row \in wire : row.slot <= slot /\ (row.slot = slot => row.epoch = epoch)
IInv ==
    /\ TypeOK
    /\ EachCandidateEndsOnce
    /\ PublishedUndisturbed
    /\ VersionCountsPublications
    /\ RowsOfThisEpoch
    /\ InFlightUndisturbed
    /\ EndsNotLater
    /\ WireGenerations
=============================================================================
