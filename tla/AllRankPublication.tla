------------------------- MODULE AllRankPublication -------------------------
(***************************************************************************)
(* Two-phase publication of an adapter candidate over all ranks:           *)
(* runtime/distributed.py, AllRankPublicationCoordinator (one instance per *)
(* rank) driven by GlooPublicationTransport.                               *)
(*                                                                         *)
(* A rank calls prepare_and_decide (two all-gathers: votes, then decision  *)
(* digests), copies the candidate into its weights, and calls finalize (a  *)
(* third all-gather: receipts).  All-gathers of one process group match in *)
(* call order only, whatever object they carry, so log[r] is the sequence  *)
(* of objects rank r has contributed to the current group and its n-th     *)
(* all-gather returns << log[s][n] : s \in Ranks >> once every rank has    *)
(* contributed n objects.  Any rank's all-gather may instead raise (a      *)
(* timeout, a lost peer), also after other ranks have returned from it.    *)
(***************************************************************************)
EXTENDS Naturals, Sequences, FiniteSets

CONSTANTS
    Ranks,          \* global ranks of the topology
    Candidates,     \* PublicationCandidate identities
    UpdateOf,       \* the UpdateIdentity a candidate is built from
    Ballots,        \* what a rank may vote: candidate, gates, group health
    FreshIds,       \* TRUE: a restart gives the ranks new process identities
    MaxCalls,       \* bound: all-gathers per rank and process group
    MaxRestarts,    \* bound: rebuilt process groups
    Base            \* the weights of the base checkpoint

ASSUME RanksAssumption == Ranks # {} /\ IsFiniteSet(Ranks)
ASSUME CandidatesAssumption ==
    /\ DOMAIN UpdateOf = Candidates
    /\ Ballots \subseteq [cand : Candidates, ok : BOOLEAN, healthy : BOOLEAN]
    /\ Base \notin Candidates
ASSUME BoundsAssumption ==
    /\ FreshIds \in BOOLEAN
    /\ MaxCalls \in Nat
    /\ MaxRestarts \in Nat

VARIABLES
    pc,         \* where rank r is in its publication call
    log,        \* objects rank r contributed to the current process group
    open,       \* service_ready and admission_allowed, always set together
    restart,    \* restart_required
    pend,       \* _pending_decision
    consumed,   \* _consumed_updates
    topo,       \* generation of process ids in coordinator.topology
    weights,    \* what r's fixed-address inference storage holds
    ids,        \* generation of process ids the live ranks have
    groups      \* process groups rebuilt so far

coordinator == << open, restart, pend, consumed, topo >>
environment == << ids, groups >>
vars == << pc, log, weights, coordinator, environment >>

NoDecision == [outcome |-> "none"]

\* What a rank contributes to an all-gather.  A RankPrepare is its candidate,
\* topology receipt, process-group health, and the conjunction of its
\* generation and readiness gates.
Vote(b) ==
    [kind |-> "vote", topo |-> ids, cand |-> b.cand, ok |-> b.ok,
     healthy |-> b.healthy]
DecisionDigest(d) == [kind |-> "decision", decision |-> d]
\* The transport stamps receipts from its own topology field, the one it was
\* built with (process ids of generation 0).
Receipt(d, applied) ==
    [kind |-> "receipt", topo |-> 0, decision |-> d, applied |-> applied]

Last(r) == log[r][Len(log[r])]
\* Every rank has contributed to the all-gather rank r is in.
Gathered(r) == \A s \in Ranks : Len(log[s]) >= Len(log[r])
Slot(r) == [s \in Ranks |-> log[s][Len(log[r])]]
AllOfKind(slot, kind) == \A s \in Ranks : slot[s].kind = kind
-----------------------------------------------------------------------------
Init ==
    /\ pc = [r \in Ranks |-> "idle"]
    /\ log = [r \in Ranks |-> << >>]
    /\ open = [r \in Ranks |-> TRUE]
    /\ restart = [r \in Ranks |-> FALSE]
    /\ pend = [r \in Ranks |-> NoDecision]
    /\ consumed = [r \in Ranks |-> {}]
    /\ topo = [r \in Ranks |-> 0]
    /\ weights = [r \in Ranks |-> Base]
    /\ ids = 0
    /\ groups = 0

Contribute(r, object) ==
    /\ Len(log[r]) < MaxCalls
    /\ log' = [log EXCEPT ![r] = Append(@, object)]

\* The except clause of both transport calls: mark_collective_failed, raise.
MarkCollectiveFailed(r) ==
    /\ pc' = [pc EXCEPT ![r] = "idle"]
    /\ open' = [open EXCEPT ![r] = FALSE]
    /\ restart' = [restart EXCEPT ![r] = TRUE]
    /\ pend' = [pend EXCEPT ![r] = NoDecision]
    /\ UNCHANGED << log, consumed, topo, weights, environment >>

\* prepare_and_decide up to its first all-gather.
EnterPrepare(r) ==
    \E b \in Ballots :
        /\ pc[r] = "idle"
        /\ Contribute(r, Vote(b))
        /\ pc' = [pc EXCEPT ![r] = "votes"]
        /\ UNCHANGED << weights, coordinator, environment >>

DuplicatesForgotten(r, c) == {}
\* The update identity of c, if this coordinator has consumed it already.
Duplicates(r, c) == {UpdateOf[c]} \cap consumed[r]

\* prepare and decide: what rank r derives from the gathered votes.  The
\* reasons are part of the decision's digest; process failures hide the rest.
Decision(r, votes) ==
    LET c == votes[r].cand
        staleTopology == {s \in Ranks : votes[s].topo # topo[r]}
        unhealthy == {s \in Ranks : ~votes[s].healthy}
        otherCandidate == {s \in Ranks : votes[s].cand # c}
        gateClosed == {s \in Ranks : ~votes[s].ok}
    IN  IF staleTopology \cup unhealthy # {}
        THEN [outcome |-> "process_group_failure", cand |-> c,
              reasons |-> << staleTopology, unhealthy >>]
        ELSE [outcome |-> IF Duplicates(r, c) # {} \/ otherCandidate \cup gateClosed # {}
                          THEN "abort_static" ELSE "commit",
              cand |-> c,
              reasons |-> << Duplicates(r, c), otherCandidate, gateClosed >>]

\* The checks prepare raises on.
MayPrepare(r) == ~restart[r] /\ pend[r] = NoDecision

PendingOnlyCommits(d) == IF d.outcome = "commit" THEN d ELSE NoDecision
\* _pending_decision after decide.
Pending(d) == IF d.outcome = "process_group_failure" THEN NoDecision ELSE d

\* The vote all-gather returns.  A foreign object in the slot, a pending
\* restart or a pending decision raises; otherwise the coordinator decides,
\* closes the service and enters the decision all-gather.
CompleteVotes(r) ==
    LET d == Decision(r, Slot(r))
        failed == d.outcome = "process_group_failure"
        legal == AllOfKind(Slot(r), "vote") /\ MayPrepare(r)
    IN  /\ pc[r] = "votes"
        /\ Gathered(r)
        /\ \/ /\ legal
              /\ Contribute(r, DecisionDigest(d))
              /\ pc' = [pc EXCEPT ![r] = "digests"]
              /\ open' = [open EXCEPT ![r] = FALSE]
              /\ restart' = [restart EXCEPT ![r] = failed]
              /\ pend' = [pend EXCEPT ![r] = Pending(d)]
              /\ consumed' = [consumed EXCEPT
                     ![r] = IF failed THEN @ \cup {UpdateOf[d.cand]} ELSE @]
              /\ UNCHANGED << topo, weights, environment >>
           \/ ~legal /\ MarkCollectiveFailed(r)

DigestsUnchecked(r) == AllOfKind(Slot(r), "decision")
\* Every rank derived this rank's decision.
DigestsAgree(r) == \A s \in Ranks : Slot(r)[s] = Last(r)

\* The decision all-gather returns: equal digests hand the decision to the
\* caller, anything else is a split decision.
CompleteDigests(r) ==
    /\ pc[r] = "digests"
    /\ Gathered(r)
    /\ \/ /\ DigestsAgree(r)
          /\ pc' = [pc EXCEPT ![r] = "decided"]
          /\ UNCHANGED << log, weights, coordinator, environment >>
       \/ ~DigestsAgree(r) /\ MarkCollectiveFailed(r)

\* The decision prepare_and_decide returned to rank r.
Returned(r) == Last(r).decision

\* The caller copies a committed candidate into the inference storage.
CopyCandidate(r) ==
    /\ pc[r] = "decided"
    /\ Returned(r).outcome = "commit"
    /\ pc' = [pc EXCEPT ![r] = "copied"]
    /\ weights' = [weights EXCEPT ![r] = Returned(r).cand]
    /\ UNCHANGED << log, coordinator, environment >>

\* The caller gives up between the two transport calls.
Abandon(r) ==
    /\ pc[r] \in {"decided", "copied"}
    /\ pc' = [pc EXCEPT ![r] = "idle"]
    /\ UNCHANGED << log, weights, coordinator, environment >>

\* finalize up to its all-gather: attest whether this rank applied the copy.
EnterFinalize(r) ==
    /\ pc[r] \in {"decided", "copied"}
    /\ Contribute(r, Receipt(Returned(r), pc[r] = "copied"))
    /\ pc' = [pc EXCEPT ![r] = "receipts"]
    /\ UNCHANGED << weights, coordinator, environment >>

AppliedUnchecked(receipt, d) == receipt.decision = d
\* The receipt attests decision d, applied exactly if d commits.
AppliedAsDecided(receipt, d) ==
    /\ receipt.decision = d
    /\ receipt.applied = (d.outcome = "commit")

\* The checks of coordinator.finalize and validate_decision_receipts.
ReceiptsValid(r, receipts) ==
    /\ AllOfKind(receipts, "receipt")
    /\ pend[r] # NoDecision
    /\ pend[r] = Returned(r)
    /\ \A s \in Ranks :
          /\ receipts[s].topo = topo[r]
          /\ AppliedAsDecided(receipts[s], pend[r])

\* The receipt all-gather returns: admission reopens only on valid receipts.
CompleteReceipts(r) ==
    /\ pc[r] = "receipts"
    /\ Gathered(r)
    /\ \/ /\ ReceiptsValid(r, Slot(r))
          /\ pc' = [pc EXCEPT ![r] = "idle"]
          /\ consumed' = [consumed EXCEPT ![r] = @ \cup {UpdateOf[pend[r].cand]}]
          /\ pend' = [pend EXCEPT ![r] = NoDecision]
          /\ open' = [open EXCEPT ![r] = TRUE]
          /\ restart' = [restart EXCEPT ![r] = FALSE]
          /\ UNCHANGED << log, topo, weights, environment >>
       \/ ~ReceiptsValid(r, Slot(r)) /\ MarkCollectiveFailed(r)

\* Where a rank waits in an all-gather.
Waiting == {"votes", "digests", "receipts"}

\* Any all-gather may raise at any rank (timeout, lost connection).
CollectiveRaises(r) == pc[r] \in Waiting /\ MarkCollectiveFailed(r)

\* The operator rebuilds the process group once every rank has left its call:
\* the ranks reload the base checkpoint, and with FreshIds are new processes.
RebuildGroup ==
    /\ groups < MaxRestarts
    /\ \E r \in Ranks : restart[r]
    /\ \A r \in Ranks : pc[r] = "idle"
    /\ groups' = groups + 1
    /\ ids' = IF FreshIds THEN ids + 1 ELSE ids
    /\ log' = [r \in Ranks |-> << >>]
    /\ weights' = [r \in Ranks |-> Base]
    /\ UNCHANGED << pc, coordinator >>

\* mark_process_group_restarted, called in a rank of the rebuilt group.
MarkProcessGroupRestarted(r) ==
    /\ restart[r]
    /\ log[r] = << >>
    /\ topo' = [topo EXCEPT ![r] = ids]
    /\ open' = [open EXCEPT ![r] = TRUE]
    /\ restart' = [restart EXCEPT ![r] = FALSE]
    /\ pend' = [pend EXCEPT ![r] = NoDecision]
    /\ UNCHANGED << pc, log, consumed, weights, environment >>

RankStep(r) ==
    \/ EnterPrepare(r)
    \/ CompleteVotes(r)
    \/ CompleteDigests(r)
    \/ CopyCandidate(r)
    \/ Abandon(r)
    \/ EnterFinalize(r)
    \/ CompleteReceipts(r)
    \/ CollectiveRaises(r)
    \/ MarkProcessGroupRestarted(r)

Next == RebuildGroup \/ \E r \in Ranks : RankStep(r)

Spec == Init /\ [][Next]_vars
-----------------------------------------------------------------------------
Updates == {UpdateOf[c] : c \in Candidates}
Decisions ==
    [outcome : {"process_group_failure"}, cand : Candidates,
     reasons : (SUBSET Ranks) \X (SUBSET Ranks)]
    \cup [outcome : {"commit", "abort_static"}, cand : Candidates,
          reasons : (SUBSET Updates) \X (SUBSET Ranks) \X (SUBSET Ranks)]
Objects ==
    [kind : {"vote"}, topo : Nat, cand : Candidates, ok : BOOLEAN,
     healthy : BOOLEAN]
    \cup [kind : {"decision"}, decision : Decisions]
    \cup [kind : {"receipt"}, topo : Nat, decision : Decisions, applied : BOOLEAN]

\* Type invariant of the coordinators, the callers and the group: only a
\* commit or an abort is ever left pending by decide.
TypeOK ==
    /\ pc \in [Ranks -> {"idle", "decided", "copied"} \cup Waiting]
    /\ log \in [Ranks -> Seq(Objects)]
    /\ open \in [Ranks -> BOOLEAN]
    /\ restart \in [Ranks -> BOOLEAN]
    /\ pend \in [Ranks -> {NoDecision} \cup
                    {d \in Decisions : d.outcome # "process_group_failure"}]
    /\ consumed \in [Ranks -> SUBSET Updates]
    /\ topo \in [Ranks -> Nat]
    /\ weights \in [Ranks -> Candidates \cup {Base}]
    /\ ids \in Nat
    /\ groups \in Nat

\* Two ranks that admit requests serve the same weights, whatever votes,
\* copies, abandoned calls, one-sided all-gather failures and restarts went
\* before (finalize: "Open admission only after every rank receipts the same
\* copy outcome").
ServedModelUniform ==
    \A r, s \in Ranks : open[r] /\ open[s] => weights[r] = weights[s]

\* Two ranks whose prepare_and_decide has returned hold one decision.
ReturnedDecisionsAgree ==
    \A r, s \in Ranks :
        {pc[r], pc[s]} \subseteq {"decided", "copied"} => Returned(r) = Returned(s)

\* A commit handed to any caller was voted for by every rank on open gates and
\* for that candidate, and no rank has consumed its update before, even when a
\* one-sided finalize failure has left the ranks with different histories.
CommitIsUnanimous ==
    \A r \in Ranks :
        pc[r] \in {"decided", "copied"} /\ Returned(r).outcome = "commit" =>
            \A s \in Ranks :
                LET v == log[s][Len(log[r]) - 1] IN
                /\ v.kind = "vote" /\ v.ok /\ v.healthy
                /\ v.cand = Returned(r).cand
                /\ UpdateOf[v.cand] \notin consumed[s]

\* finalize accepts every complete slot in which all ranks attest the returned
\* commit or abort as decided, also after a restart.
AgreedOutcomeAccepted ==
    \A r \in Ranks :
        /\ pc[r] = "receipts"
        /\ Gathered(r)
        /\ Returned(r).outcome # "process_group_failure"
        /\ \A s \in Ranks :
              /\ Slot(r)[s].kind = "receipt"
              /\ Slot(r)[s].decision = Returned(r)
              /\ Slot(r)[s].applied = (Returned(r).outcome = "commit")
        => ReceiptsValid(r, Slot(r))

\* A rank that requires a restart leaves that state only in a rebuilt process
\* group, never through a later prepare, decide or finalize.
RestartOnlyInNewGroup ==
    [][\A r \in Ranks : restart[r] /\ ~restart'[r] => log[r] = << >>]_vars
-----------------------------------------------------------------------------
(* The inductive invariant behind ServedModelUniform.                      *)

\* Rank s has not contributed beyond slot n, so no rank has returned from any
\* later slot.
NotPassed(s, n) == Len(log[s]) <= n

\* The last object of a rank matches where it is in its call; a caller that
\* holds a decision was handed it by a complete slot of equal digests.
PcShape ==
    \A r \in Ranks :
        /\ pc[r] # "idle" => log[r] # << >>
        /\ pc[r] = "votes" => Last(r).kind = "vote"
        /\ pc[r] \in {"digests", "decided", "copied"} => Last(r).kind = "decision"
        /\ pc[r] = "receipts" => Last(r).kind = "receipt"
        /\ pc[r] \in {"decided", "copied"} =>
              Gathered(r) /\ \A s \in Ranks : log[s][Len(log[r])] = Last(r)
        /\ pc[r] = "copied" => weights[r] = Returned(r).cand

\* Until every rank has passed the slot of its decision digest, a rank keeps
\* its service closed and either holds that decision or requires a restart.
DecisionHeld ==
    \A t, s \in Ranks : \A n \in 1..Len(log[t]) :
        NotPassed(s, n) /\ log[t][n].kind = "decision" =>
            ~open[t] /\ (restart[t] \/ pend[t] = log[t][n].decision)

\* Until every rank has passed the slot of its receipt, a rank that attested
\* a copy still has it.
AttestedCopyHeld ==
    \A t, s \in Ranks : \A n \in 1..Len(log[t]) :
        NotPassed(s, n) /\ log[t][n].kind = "receipt" /\ log[t][n].applied =>
            weights[t] = log[t][n].decision.cand

\* While the weights differ every rank is closed and either holds the commit
\* being copied or requires a restart.
SplitWeightsClosed ==
    (\E r, s \in Ranks : weights[r] # weights[s]) =>
        \E d \in Decisions :
            /\ d.outcome = "commit"
            /\ \A t \in Ranks : /\ log[t] # << >>
                                /\ ~open[t]
                                /\ restart[t] \/ pend[t] = d

RestartHoldsNothing == \A r \in Ranks : restart[r] => pend[r] = NoDecision

IInv ==
    /\ TypeOK
    /\ PcShape
    /\ DecisionHeld
    /\ AttestedCopyHeld
    /\ SplitWeightsClosed
    /\ RestartHoldsNothing
-----------------------------------------------------------------------------
(* The inductive invariant behind CommitIsUnanimous and                    *)
(* AgreedOutcomeAccepted, on top of IInv.                                  *)

\* The slot before a decision digest is complete and holds votes only, and
\* before a commit they are votes for its candidate on open gates.
VotesBehindDecision ==
    \A t, s \in Ranks : \A n \in 1..Len(log[t]) :
        log[t][n].kind = "decision" =>
            /\ n > 1 /\ Len(log[s]) >= n - 1
            /\ log[s][n - 1].kind = "vote"
            /\ log[t][n].decision.outcome = "commit" =>
                  /\ log[s][n - 1].ok /\ log[s][n - 1].healthy
                  /\ log[s][n - 1].cand = log[t][n].decision.cand

\* Until every rank has passed the slot of its commit digest, a rank has not
\* consumed the update it commits.
CommitUnconsumed ==
    \A t, s \in Ranks : \A n \in 1..Len(log[t]) :
        /\ NotPassed(s, n)
        /\ log[t][n].kind = "decision"
        /\ log[t][n].decision.outcome = "commit"
        => UpdateOf[log[t][n].decision.cand] \notin consumed[t]

\* From decide to the end of finalize a rank keeps its decision pending.
DecisionPending ==
    \A r \in Ranks :
        pc[r] \in {"digests", "decided", "copied", "receipts"} =>
            pend[r] = Pending(Returned(r))

\* Receipts carry the first topology; without fresh process ids it stays the
\* coordinators' topology.
FirstTopology ==
    /\ \A r \in Ranks : \A n \in 1..Len(log[r]) :
          log[r][n].kind = "receipt" => log[r][n].topo = 0
    /\ ~FreshIds => ids = 0 /\ \A r \in Ranks : topo[r] = 0

CallInv ==
    /\ VotesBehindDecision
    /\ CommitUnconsumed
    /\ DecisionPending
    /\ FirstTopology
=============================================================================
