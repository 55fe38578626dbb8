---------------------- MODULE AllRankPublicationProofs ----------------------
(***************************************************************************)
(* For every set of ranks, candidates and ballots: ranks that admit        *)
(* requests serve one model, returned decisions agree, a required restart  *)
(* ends only in a rebuilt process group, and a commit has every rank's     *)
(* vote for its own body; and where a restart keeps the ranks' identities, *)
(* an outcome all ranks agree on is accepted by all.  The invariants       *)
(* behind them are IInv and CallInv.                                       *)
(***************************************************************************)
EXTENDS AllRankPublication, TLAPS

\* An object of one kind carries the fields of that kind.
LEMMA ObjectFields ==
    ASSUME NEW o \in Objects
    PROVE  /\ o.kind \in {"vote", "decision", "receipt"}
           /\ o.kind = "vote" => /\ o.cand \in Candidates
                                 /\ o.topo \in Nat
                                 /\ o.ok \in BOOLEAN
                                 /\ o.healthy \in BOOLEAN
           /\ o.kind = "decision" => o.decision \in Decisions
           /\ o.kind = "receipt" => /\ o.decision \in Decisions
                                    /\ o.applied \in BOOLEAN
BY DEF Objects

\* The decision objects built by the actions are well typed.
LEMMA ObjectTypes ==
    /\ \A b \in Ballots : ids \in Nat => Vote(b) \in Objects
    /\ \A d \in Decisions : DecisionDigest(d) \in Objects
    /\ \A d \in Decisions : \A a \in BOOLEAN : Receipt(d, a) \in Objects
BY CandidatesAssumption DEF Vote, DecisionDigest, Receipt, Objects

\* The sentinel for "no pending decision" is not a decision.
LEMMA NoDecisionIsNone == \A d \in Decisions : d # NoDecision
BY DEF Decisions, NoDecision

\* What a rank derives from a slot of votes is a decision on its candidate.
LEMMA DecisionType ==
    ASSUME NEW r \in Ranks, NEW votes,
           \A s \in Ranks : votes[s] \in Objects,
           AllOfKind(votes, "vote")
    PROVE  Decision(r, votes) \in Decisions
<1> DEFINE c == votes[r].cand
           a == {s \in Ranks : votes[s].topo # topo[r]}
           b == {s \in Ranks : ~votes[s].healthy}
           e == {s \in Ranks : votes[s].cand # c}
           g == {s \in Ranks : ~votes[s].ok}
<1>1. c \in Candidates
  BY ObjectFields DEF AllOfKind
<1>2. << a, b >> \in (SUBSET Ranks) \X (SUBSET Ranks)
  OBVIOUS
<1>3. << Duplicates(r, c), e, g >> \in (SUBSET Updates) \X (SUBSET Ranks) \X (SUBSET Ranks)
  BY <1>1 DEF Duplicates, Updates
<1>4. CASE a \cup b # {}
  <2>1. Decision(r, votes) = [outcome |-> "process_group_failure", cand |-> c,
                              reasons |-> << a, b >>]
    BY <1>4 DEF Decision
  <2> QED BY <2>1, <1>1, <1>2 DEF Decisions
<1>5. CASE ~(a \cup b # {})
  <2> DEFINE o == IF Duplicates(r, c) # {} \/ e \cup g # {} THEN "abort_static" ELSE "commit"
  <2>1. Decision(r, votes) = [outcome |-> o, cand |-> c,
                              reasons |-> << Duplicates(r, c), e, g >>]
    BY <1>5 DEF Decision
  <2>2. o \in {"commit", "abort_static"}
    OBVIOUS
  <2> HIDE DEF o, c, a, b, e, g
  <2> QED BY <2>1, <2>2, <1>1, <1>3 DEF Decisions
<1> QED BY <1>4, <1>5
-----------------------------------------------------------------------------
\* Contributing appends one object to one rank's log and changes no other.
LEMMA ContributeFacts ==
    ASSUME TypeOK, NEW r \in Ranks, NEW o \in Objects, Contribute(r, o)
    PROVE  /\ log' \in [Ranks -> Seq(Objects)]
           /\ Len(log'[r]) = Len(log[r]) + 1
           /\ log'[r][Len(log[r]) + 1] = o
           /\ log'[r] # << >>
           /\ \A n \in 1..Len(log[r]) : log'[r][n] = log[r][n]
           /\ \A s \in Ranks \ {r} : log'[s] = log[s]
           /\ \A s \in Ranks : Len(log[s]) \in Nat
           /\ \A s \in Ranks : Len(log'[s]) \in Nat /\ Len(log'[s]) >= Len(log[s])
<1>1. log \in [Ranks -> Seq(Objects)]
  BY DEF TypeOK
<1>2. log' = [log EXCEPT ![r] = Append(log[r], o)]
  BY DEF Contribute
<1>3. log[r] \in Seq(Objects) /\ Append(log[r], o) \in Seq(Objects)
  BY <1>1
<1>4. log'[r] = Append(log[r], o)
  BY <1>1, <1>2
<1>5. /\ Len(log'[r]) = Len(log[r]) + 1
      /\ log'[r][Len(log[r]) + 1] = o
      /\ \A n \in 1..Len(log[r]) : log'[r][n] = log[r][n]
  BY <1>3, <1>4
<1>6. \A s \in Ranks \ {r} : log'[s] = log[s]
  BY <1>1, <1>2
<1>7. \A s \in Ranks : Len(log[s]) \in Nat
  BY <1>1
<1>8. log' \in [Ranks -> Seq(Objects)]
  BY <1>1, <1>2, <1>3
<1>9. log'[r] # << >>
  BY <1>3, <1>4
<1>10. \A s \in Ranks : Len(log'[s]) \in Nat /\ Len(log'[s]) >= Len(log[s])
  <2> TAKE s \in Ranks
  <2>1. CASE s = r
    BY <1>5, <1>7, <2>1
  <2>2. CASE s # r
    BY <1>6, <1>7, <2>2
  <2> QED BY <2>1, <2>2
<1> QED BY <1>5, <1>6, <1>7, <1>8, <1>9, <1>10

\* After a contribution an object in a slot some rank has not passed is the
\* new one, or was there, in a slot that rank had not passed.
LEMMA UnpassedObjects ==
    ASSUME TypeOK, NEW r \in Ranks, NEW o \in Objects, Contribute(r, o),
           NEW t \in Ranks, NEW s \in Ranks, NEW n \in 1..Len(log'[t]),
           NotPassed(s, n)'
    PROVE  \/ t = r /\ n = Len(log[r]) + 1 /\ log'[t][n] = o
           \/ /\ n \in 1..Len(log[t])
              /\ NotPassed(s, n)
              /\ log'[t][n] = log[t][n]
<1> USE ContributeFacts
<1>1. NotPassed(s, n)
  BY DEF NotPassed
<1>2. CASE t = r
  BY <1>1, <1>2
<1>3. CASE t # r
  BY <1>1, <1>3
<1> QED BY <1>2, <1>3

\* A contribution keeps what other ranks' positions and logs say of them.
LEMMA PcShapeOthers ==
    ASSUME TypeOK, PcShape, NEW r \in Ranks, NEW o \in Objects, Contribute(r, o),
           NEW s \in Ranks, s # r, pc'[s] = pc[s], weights' = weights
    PROVE  /\ pc'[s] # "idle" => log'[s] # << >>
           /\ pc'[s] = "votes" => Last(s)'.kind = "vote"
           /\ pc'[s] \in {"digests", "decided", "copied"} => Last(s)'.kind = "decision"
           /\ pc'[s] = "receipts" => Last(s)'.kind = "receipt"
           /\ pc'[s] \in {"decided", "copied"} =>
                 Gathered(s)' /\ \A q \in Ranks : log'[q][Len(log'[s])] = Last(s)'
           /\ pc'[s] = "copied" => weights'[s] = Returned(s)'.cand
<1>1. log'[s] = log[s] /\ Last(s)' = Last(s) /\ Returned(s)' = Returned(s)
  BY ContributeFacts DEF Last, Returned
<1>2. ASSUME pc[s] \in {"decided", "copied"}
      PROVE  Gathered(s)' /\ \A q \in Ranks : log'[q][Len(log'[s])] = Last(s)'
  <2>1. log[s] # << >> /\ Gathered(s) /\ \A q \in Ranks : log[q][Len(log[s])] = Last(s)
    BY <1>2 DEF PcShape
  <2>2. log[s] \in Seq(Objects) /\ Len(log[s]) \in Nat /\ Len(log[s]) >= 1
    BY <2>1 DEF TypeOK
  <2>3. Gathered(s)'
    BY <1>1, <2>1, <2>2, ContributeFacts DEF Gathered
  <2>4. Len(log[s]) \in 1..Len(log[r])
    BY <2>1, <2>2, ContributeFacts DEF Gathered
  <2>5. \A q \in Ranks : log'[q][Len(log[s])] = log[q][Len(log[s])]
    BY <2>4, ContributeFacts, Zenon
  <2> QED BY <1>1, <2>1, <2>3, <2>5
<1> QED BY <1>1, <1>2, Zenon DEF PcShape
-----------------------------------------------------------------------------
\* The initial state satisfies the inductive invariant.
LEMMA InitIInv == Init => IInv
<1> SUFFICES ASSUME Init PROVE IInv
  OBVIOUS
<1>1. \A r \in Ranks : log[r] = << >> /\ Len(log[r]) = 0
  BY DEF Init
<1>2. TypeOK
  BY DEF Init, TypeOK
<1>3. PcShape
  BY DEF Init, PcShape
<1>4. DecisionHeld /\ AttestedCopyHeld
  BY <1>1 DEF DecisionHeld, AttestedCopyHeld
<1>5. SplitWeightsClosed /\ RestartHoldsNothing
  BY DEF Init, SplitWeightsClosed, RestartHoldsNothing
<1> QED BY <1>2, <1>3, <1>4, <1>5 DEF IInv

\* mark_collective_failed keeps the invariant: it only closes a rank.
LEMMA MarkCollectiveFailedIInv ==
    ASSUME IInv, NEW r \in Ranks, MarkCollectiveFailed(r)
    PROVE  IInv'
<1> USE DEF environment
<1>1. TypeOK'
  BY DEF IInv, TypeOK, MarkCollectiveFailed
<1>2. \A s \in Ranks : Last(s)' = Last(s) /\ Returned(s)' = Returned(s)
                       /\ Gathered(s)' = Gathered(s)
  BY DEF MarkCollectiveFailed, Last, Returned, Gathered
<1>3. PcShape'
  <2> SUFFICES ASSUME NEW s \in Ranks
               PROVE  PcShape!(s)'
    BY DEF PcShape
  <2>1. pc'[s] = pc[s] \/ pc'[s] = "idle"
    BY DEF IInv, TypeOK, MarkCollectiveFailed
  <2> QED BY <1>2, <2>1, Zenon DEF IInv, PcShape, MarkCollectiveFailed
<1>4. DecisionHeld'
  <2> SUFFICES ASSUME NEW t \in Ranks, NEW s \in Ranks, NEW n \in 1..Len(log[t]),
                      NotPassed(s, n), log[t][n].kind = "decision"
               PROVE  ~open'[t] /\ (restart'[t] \/ pend'[t] = log[t][n].decision)
    BY DEF DecisionHeld, NotPassed, MarkCollectiveFailed
  <2>1. CASE t = r
    BY <2>1, Zenon DEF IInv, TypeOK, MarkCollectiveFailed
  <2>2. CASE t # r
    <3>1. ~open[t] /\ (restart[t] \/ pend[t] = log[t][n].decision)
      BY Zenon DEF IInv, DecisionHeld
    <3> QED BY <2>2, <3>1, Zenon DEF IInv, TypeOK, MarkCollectiveFailed
  <2> QED BY <2>1, <2>2, Zenon
<1>5. AttestedCopyHeld'
  BY Zenon DEF IInv, AttestedCopyHeld, NotPassed, MarkCollectiveFailed
<1>6. SplitWeightsClosed'
  <2> SUFFICES ASSUME \E q, s \in Ranks : weights[q] # weights[s]
               PROVE  \E d \in Decisions :
                        /\ d.outcome = "commit"
                        /\ \A t \in Ranks : /\ log'[t] # << >>
                                            /\ ~open'[t]
                                            /\ restart'[t] \/ pend'[t] = d
    BY DEF SplitWeightsClosed, MarkCollectiveFailed
  <2>1. PICK d \in Decisions :
                        /\ d.outcome = "commit"
                        /\ \A t \in Ranks : /\ log[t] # << >>
                                            /\ ~open[t]
                                            /\ restart[t] \/ pend[t] = d
    BY DEF IInv, SplitWeightsClosed
  <2> QED BY <2>1, Zenon DEF IInv, TypeOK, MarkCollectiveFailed
<1>7. RestartHoldsNothing'
  BY DEF IInv, TypeOK, RestartHoldsNothing, MarkCollectiveFailed
<1> QED BY <1>1, <1>3, <1>4, <1>5, <1>6, <1>7 DEF IInv

\* Entering prepare_and_decide adds a vote, which no clause speaks of.
LEMMA EnterPrepareIInv ==
    ASSUME IInv, NEW r \in Ranks, EnterPrepare(r)
    PROVE  IInv'
<1> USE DEF environment, coordinator
<1>1. PICK b \in Ballots : /\ pc[r] = "idle"
                           /\ Contribute(r, Vote(b))
                           /\ pc' = [pc EXCEPT ![r] = "votes"]
                           /\ UNCHANGED << weights, coordinator, environment >>
  BY DEF EnterPrepare
<1>2. TypeOK /\ PcShape
  BY Zenon DEF IInv
<1> DEFINE o == Vote(b)
<1>3. o \in Objects /\ o.kind = "vote"
  BY <1>2, ObjectTypes DEF TypeOK, Vote
<1>4. Contribute(r, o)
  BY <1>1, Zenon
<1> HIDE DEF o
<1>5. TypeOK'
  BY <1>1, <1>2, <1>3, <1>4, ContributeFacts, Zenon DEF TypeOK, Waiting
<1>6. PcShape'
  <2> SUFFICES ASSUME NEW s \in Ranks
               PROVE  PcShape!(s)'
    BY DEF PcShape
  <2>1. CASE s = r
    <3>1. pc'[r] = "votes" /\ log'[r] # << >> /\ Last(r)' = o
      BY <1>1, <1>2, <1>3, <1>4, ContributeFacts DEF Last, TypeOK
    <3> QED BY <1>3, <2>1, <3>1, Zenon
  <2>2. CASE s # r
    <3>1. pc'[s] = pc[s] /\ weights' = weights
      BY <1>1, <1>2, <2>2, Zenon DEF TypeOK
    <3> QED BY <1>2, <1>3, <1>4, <2>2, <3>1, PcShapeOthers, Zenon
  <2> QED BY <2>1, <2>2, Zenon
<1>7. DecisionHeld'
  <2> SUFFICES ASSUME NEW t \in Ranks, NEW s \in Ranks, NEW n \in 1..Len(log'[t]),
                      NotPassed(s, n)', log'[t][n].kind = "decision"
               PROVE  ~open'[t] /\ (restart'[t] \/ pend'[t] = log'[t][n].decision)
    BY Zenon DEF DecisionHeld
  <2>1. n \in 1..Len(log[t]) /\ NotPassed(s, n) /\ log'[t][n] = log[t][n]
    BY <1>2, <1>3, <1>4, UnpassedObjects
  <2> QED BY <1>1, <2>1, Zenon DEF IInv, DecisionHeld
<1>8. AttestedCopyHeld'
  <2> SUFFICES ASSUME NEW t \in Ranks, NEW s \in Ranks, NEW n \in 1..Len(log'[t]),
                      NotPassed(s, n)', log'[t][n].kind = "receipt",
                      log'[t][n].applied
               PROVE  weights'[t] = log'[t][n].decision.cand
    BY Zenon DEF AttestedCopyHeld
  <2>1. n \in 1..Len(log[t]) /\ NotPassed(s, n) /\ log'[t][n] = log[t][n]
    BY <1>2, <1>3, <1>4, UnpassedObjects
  <2> QED BY <1>1, <2>1 DEF IInv, AttestedCopyHeld
<1>9. SplitWeightsClosed'
  <2>1. \A t \in Ranks : log[t] # << >> => log'[t] # << >>
    BY <1>2, <1>3, <1>4, ContributeFacts, Zenon
  <2> QED BY <1>1, <2>1, Zenon DEF IInv, SplitWeightsClosed
<1>10. RestartHoldsNothing'
  BY <1>1, Zenon DEF IInv, RestartHoldsNothing
<1> QED BY <1>5, <1>6, <1>7, <1>8, <1>9, <1>10, Zenon DEF IInv

\* A rank that decides was open to decide: it holds no decision and requires
\* no restart, so the weights agree, and it now holds what it contributes.
LEMMA DecideIInv ==
    ASSUME IInv, NEW r \in Ranks, NEW d \in Decisions, NEW failed \in BOOLEAN,
           failed = (d.outcome = "process_group_failure"),
           pc[r] = "votes", Gathered(r), MayPrepare(r),
           Contribute(r, DecisionDigest(d)),
           pc' = [pc EXCEPT ![r] = "digests"],
           open' = [open EXCEPT ![r] = FALSE],
           restart' = [restart EXCEPT ![r] = failed],
           pend' = [pend EXCEPT ![r] = Pending(d)],
           consumed' = [consumed EXCEPT
                           ![r] = IF failed THEN @ \cup {UpdateOf[d.cand]} ELSE @],
           UNCHANGED << topo, weights, environment >>
    PROVE  IInv'
<1> USE DEF environment
<1>2. TypeOK /\ PcShape
  BY Zenon DEF IInv
<1> DEFINE o == DecisionDigest(d)
<1>3. o \in Objects /\ o.kind = "decision" /\ o.decision = d
  BY ObjectTypes, Zenon DEF DecisionDigest
<1>4. Contribute(r, o)
  BY Zenon
<1> HIDE DEF o
<1>5. TypeOK'
  <2>1. d.cand \in Candidates
    BY Zenon DEF Decisions
  <2>2. UpdateOf[d.cand] \in Updates
    BY <2>1, Zenon DEF Updates
  <2>3. Pending(d) \in {NoDecision} \cup {e \in Decisions : e.outcome # "process_group_failure"}
    BY Zenon DEF Pending
  <2>4. consumed' \in [Ranks -> SUBSET Updates]
    BY <1>2, <2>2, Zenon DEF TypeOK
  <2>5. pend' \in [Ranks -> {NoDecision} \cup {e \in Decisions : e.outcome # "process_group_failure"}]
    BY <1>2, <2>3, Zenon DEF TypeOK
  <2>6. log' \in [Ranks -> Seq(Objects)]
    BY <1>2, <1>3, <1>4, ContributeFacts, Zenon
  <2> QED BY <1>2, <2>4, <2>5, <2>6, Zenon DEF TypeOK, Waiting
<1>6. PcShape'
  <2> SUFFICES ASSUME NEW s \in Ranks
               PROVE  PcShape!(s)'
    BY Zenon DEF PcShape
  <2>1. CASE s = r
    <3>1. pc'[r] = "digests" /\ log'[r] # << >> /\ Last(r)' = o
      BY <1>2, <1>3, <1>4, ContributeFacts DEF Last, TypeOK
    <3> QED BY <1>3, <2>1, <3>1, Zenon
  <2>2. CASE s # r
    <3>1. pc'[s] = pc[s] /\ weights' = weights
      BY <1>2, <2>2, Zenon DEF TypeOK
    <3> QED BY <1>2, <1>3, <1>4, <2>2, <3>1, PcShapeOthers, Zenon
  <2> QED BY <2>1, <2>2, Zenon
<1>7. DecisionHeld'
  <2> SUFFICES ASSUME NEW t \in Ranks, NEW s \in Ranks, NEW n \in 1..Len(log'[t]),
                      NotPassed(s, n)', log'[t][n].kind = "decision"
               PROVE  ~open'[t] /\ (restart'[t] \/ pend'[t] = log'[t][n].decision)
    BY DEF DecisionHeld
  <2>1. CASE t = r /\ log'[t][n] = o
    <3>1. ~open'[r] /\ restart'[r] = failed /\ pend'[r] = Pending(d)
      BY <1>2, Zenon DEF TypeOK
    <3> QED BY <1>3, <2>1, <3>1, Zenon DEF Pending
  <2>2. CASE n \in 1..Len(log[t]) /\ NotPassed(s, n) /\ log'[t][n] = log[t][n]
    <3>1. t # r
      <4> SUFFICES ASSUME t = r PROVE FALSE
        BY Zenon
      <4>1. Len(log[r]) \in Nat /\ Len(log[s]) \in Nat
        BY <1>2 DEF TypeOK
      <4>2. n = Len(log[r])
        BY <2>2, <4>1 DEF Gathered, NotPassed
      <4>3. Last(r).kind = "vote"
        BY <1>2, Zenon DEF PcShape
      <4> QED BY <2>2, <4>2, <4>3, Zenon DEF Last
    <3>2. ~open[t] /\ (restart[t] \/ pend[t] = log[t][n].decision)
      BY <2>2, Zenon DEF IInv, DecisionHeld
    <3> QED BY <1>2, <2>2, <3>1, <3>2, Zenon DEF TypeOK
  <2> QED BY <1>2, <1>3, <1>4, <2>1, <2>2, UnpassedObjects
<1>8. AttestedCopyHeld'
  <2> SUFFICES ASSUME NEW t \in Ranks, NEW s \in Ranks, NEW n \in 1..Len(log'[t]),
                      NotPassed(s, n)', log'[t][n].kind = "receipt",
                      log'[t][n].applied
               PROVE  weights'[t] = log'[t][n].decision.cand
    BY Zenon DEF AttestedCopyHeld
  <2>1. n \in 1..Len(log[t]) /\ NotPassed(s, n) /\ log'[t][n] = log[t][n]
    BY <1>2, <1>3, <1>4, UnpassedObjects
  <2> QED BY <2>1 DEF IInv, AttestedCopyHeld
<1>9. SplitWeightsClosed'
  <2>1. \A q, s \in Ranks : weights[q] = weights[s]
    BY NoDecisionIsNone DEF IInv, SplitWeightsClosed, MayPrepare
  <2> QED BY <2>1, Zenon DEF SplitWeightsClosed
<1>10. RestartHoldsNothing'
  BY <1>2, Zenon DEF IInv, TypeOK, RestartHoldsNothing, Pending
<1> QED BY <1>5, <1>6, <1>7, <1>8, <1>9, <1>10, Zenon DEF IInv

\* The vote all-gather returning keeps the invariant.
LEMMA CompleteVotesIInv ==
    ASSUME IInv, NEW r \in Ranks, CompleteVotes(r)
    PROVE  IInv'
<1> DEFINE d == Decision(r, Slot(r))
           failed == d.outcome = "process_group_failure"
           legal == AllOfKind(Slot(r), "vote") /\ MayPrepare(r)
<1>1. CASE ~legal /\ MarkCollectiveFailed(r)
  BY <1>1, MarkCollectiveFailedIInv
<1>2. CASE legal /\ ~MarkCollectiveFailed(r)
  <2>1. /\ pc[r] = "votes" /\ Gathered(r)
        /\ Contribute(r, DecisionDigest(d))
        /\ pc' = [pc EXCEPT ![r] = "digests"]
        /\ open' = [open EXCEPT ![r] = FALSE]
        /\ restart' = [restart EXCEPT ![r] = failed]
        /\ pend' = [pend EXCEPT ![r] = Pending(d)]
        /\ consumed' = [consumed EXCEPT
                           ![r] = IF failed THEN @ \cup {UpdateOf[d.cand]} ELSE @]
        /\ UNCHANGED << topo, weights, environment >>
    BY <1>2 DEF CompleteVotes
  <2>2. \A s \in Ranks : Slot(r)[s] \in Objects
    <3> TAKE s \in Ranks
    <3>1. /\ log[s] \in Seq(Objects) /\ log[r] \in Seq(Objects)
          /\ log[r] # << >> /\ Len(log[s]) >= Len(log[r])
      BY <2>1, Zenon DEF IInv, TypeOK, PcShape, Gathered
    <3>2. Len(log[r]) \in 1..Len(log[s])
      BY <3>1
    <3>3. log[s][Len(log[r])] \in Objects
      BY <3>1, <3>2
    <3> QED BY <3>3 DEF Slot
  <2>3. d \in Decisions
    BY <1>2, <2>2, DecisionType
  <2>4. failed \in BOOLEAN
    OBVIOUS
  <2>5. MayPrepare(r)
    BY <1>2
  <2> HIDE DEF d
  <2> QED BY <2>1, <2>3, <2>4, <2>5, DecideIInv, Zenon
<1> QED BY <1>1, <1>2, MarkCollectiveFailedIInv DEF CompleteVotes

\* The decision all-gather returning keeps the invariant.
LEMMA CompleteDigestsIInv ==
    ASSUME IInv, NEW r \in Ranks, CompleteDigests(r)
    PROVE  IInv'
<1> USE DEF environment, coordinator
<1>1. CASE MarkCollectiveFailed(r)
  BY <1>1, MarkCollectiveFailedIInv, Zenon
<1>2. CASE ~MarkCollectiveFailed(r)
  <2>1. /\ pc[r] = "digests" /\ Gathered(r) /\ DigestsAgree(r)
        /\ pc' = [pc EXCEPT ![r] = "decided"]
        /\ UNCHANGED << log, weights, coordinator, environment >>
    BY <1>2, Zenon DEF CompleteDigests
  <2>2. TypeOK'
    BY <2>1, Zenon DEF IInv, TypeOK
  <2>3. \A s \in Ranks : Last(s)' = Last(s) /\ Returned(s)' = Returned(s)
                         /\ Gathered(s)' = Gathered(s)
    BY <2>1, Zenon DEF Last, Returned, Gathered
  <2>4. \A s \in Ranks : log[s][Len(log[r])] = Last(r)
    BY <2>1, Zenon DEF DigestsAgree, Slot
  <2>5. PcShape'
    <3> SUFFICES ASSUME NEW s \in Ranks
                 PROVE  PcShape!(s)'
      BY DEF PcShape
    <3>1. CASE s = r
      <4>1. pc'[r] = "decided"
        BY <2>1, Zenon DEF IInv, TypeOK
      <4> QED BY <2>1, <2>3, <2>4, <3>1, <4>1, Zenon DEF IInv, PcShape
    <3>2. CASE s # r
      <4>1. pc'[s] = pc[s]
        BY <2>1, <3>2, Zenon DEF IInv, TypeOK
      <4> QED BY <2>1, <2>3, <4>1, Zenon DEF IInv, PcShape
    <3> QED BY <3>1, <3>2, Zenon
  <2>6. DecisionHeld'
    BY <2>1, Zenon DEF IInv, DecisionHeld, NotPassed
  <2>7. AttestedCopyHeld'
    BY <2>1, Zenon DEF IInv, AttestedCopyHeld, NotPassed
  <2>8. SplitWeightsClosed' /\ RestartHoldsNothing'
    BY <2>1, Zenon DEF IInv, SplitWeightsClosed, RestartHoldsNothing
  <2> QED BY <2>2, <2>5, <2>6, <2>7, <2>8, Zenon DEF IInv
<1> QED BY <1>1, <1>2

\* Copying a committed candidate splits the weights only while every rank is
\* bound to that commit.
LEMMA CopyCandidateIInv ==
    ASSUME IInv, NEW r \in Ranks, CopyCandidate(r)
    PROVE  IInv'
<1> USE DEF environment, coordinator
<1> DEFINE d == Returned(r)
           k == Len(log[r])
<1>1. /\ pc[r] = "decided" /\ d.outcome = "commit"
      /\ pc' = [pc EXCEPT ![r] = "copied"]
      /\ weights' = [weights EXCEPT ![r] = d.cand]
      /\ UNCHANGED << log, coordinator, environment >>
  BY Zenon DEF CopyCandidate
<1>2. /\ log[r] # << >> /\ Last(r).kind = "decision" /\ Gathered(r)
      /\ \A s \in Ranks : log[s][k] = Last(r)
  BY <1>1 DEF IInv, PcShape
<1>3. /\ k \in Nat \ {0}
      /\ \A s \in Ranks : Len(log[s]) \in Nat /\ k \in 1..Len(log[s])
  <2>1. \A s \in Ranks : log[s] \in Seq(Objects) /\ Len(log[s]) \in Nat
    BY DEF IInv, TypeOK
  <2>2. k \in Nat \ {0}
    BY <1>2, <2>1
  <2>3. \A s \in Ranks : Len(log[s]) >= k
    BY <1>2, Zenon DEF Gathered
  <2> QED BY <2>1, <2>2, <2>3
<1>4. d \in Decisions /\ d.cand \in Candidates
  <2>1. log[r] \in Seq(Objects) /\ k \in 1..Len(log[r])
    BY <1>3 DEF IInv, TypeOK
  <2>2. Last(r) \in Objects
    BY <2>1 DEF Last
  <2>3. d \in Decisions
    BY <1>2, <2>2, ObjectFields, Zenon DEF Returned
  <2> QED BY <2>3, Zenon DEF Decisions
<1>5. TypeOK'
  BY <1>1, <1>4, Zenon DEF IInv, TypeOK
<1>6. \A s \in Ranks : Last(s)' = Last(s) /\ Returned(s)' = Returned(s)
                       /\ Gathered(s)' = Gathered(s)
  BY <1>1, Zenon DEF Last, Returned, Gathered
<1>7. PcShape'
  <2> SUFFICES ASSUME NEW s \in Ranks
               PROVE  PcShape!(s)'
    BY Zenon DEF PcShape
  <2>1. CASE s = r
    <3>1. pc'[r] = "copied" /\ weights'[r] = d.cand /\ log' = log
      BY <1>1, Zenon DEF IInv, TypeOK
    <3> QED BY <1>2, <1>6, <2>1, <3>1, Zenon DEF IInv, PcShape
  <2>2. CASE s # r
    <3>1. pc'[s] = pc[s] /\ weights'[s] = weights[s] /\ log' = log
      BY <1>1, <2>2, Zenon DEF IInv, TypeOK
    <3> QED BY <1>6, <3>1, Zenon DEF IInv, PcShape
  <2> QED BY <2>1, <2>2, Zenon
<1>8. DecisionHeld'
  BY <1>1, Zenon DEF IInv, DecisionHeld, NotPassed
<1>9. AttestedCopyHeld'
  <2> SUFFICES ASSUME NEW t \in Ranks, NEW s \in Ranks, NEW n \in 1..Len(log[t]),
                      NotPassed(s, n), log[t][n].kind = "receipt",
                      log[t][n].applied
               PROVE  weights'[t] = log[t][n].decision.cand
    BY <1>1 DEF AttestedCopyHeld, NotPassed
  <2>1. t # r
    <3> SUFFICES ASSUME t = r PROVE FALSE
      BY Zenon
    <3>1. n = k
      BY <1>3 DEF NotPassed
    <3> QED BY <1>2, <3>1, Zenon
  <2>2. weights[t] = log[t][n].decision.cand
    BY Zenon DEF IInv, AttestedCopyHeld
  <2> QED BY <1>1, <2>1, <2>2, Zenon DEF IInv, TypeOK
<1>10. SplitWeightsClosed'
  <2>1. ASSUME NEW t \in Ranks
        PROVE  log[t] # << >> /\ ~open[t] /\ (restart[t] \/ pend[t] = d)
    <3>1. k \in 1..Len(log[t]) /\ NotPassed(r, k) /\ log[t][k] = Last(r)
      BY <1>2, <1>3 DEF NotPassed
    <3>2. ~open[t] /\ (restart[t] \/ pend[t] = log[t][k].decision)
      BY <1>2, <3>1, Zenon DEF IInv, DecisionHeld
    <3>3. log[t] # << >>
      BY <3>1
    <3> QED BY <3>1, <3>2, <3>3, Zenon DEF Returned
  <2> HIDE DEF d
  <2> QED BY <1>1, <1>4, <2>1, Zenon DEF SplitWeightsClosed
<1>11. RestartHoldsNothing'
  BY <1>1, Zenon DEF IInv, RestartHoldsNothing
<1> QED BY <1>5, <1>7, <1>8, <1>9, <1>10, <1>11 DEF IInv

\* Giving up between the two calls keeps the invariant.
LEMMA AbandonIInv ==
    ASSUME IInv, NEW r \in Ranks, Abandon(r)
    PROVE  IInv'
<1> USE DEF environment, coordinator
<1>1. /\ pc' = [pc EXCEPT ![r] = "idle"]
      /\ UNCHANGED << log, weights, coordinator, environment >>
  BY Zenon DEF Abandon
<1>2. TypeOK'
  BY <1>1, Zenon DEF IInv, TypeOK
<1>3. \A s \in Ranks : Last(s)' = Last(s) /\ Returned(s)' = Returned(s)
                       /\ Gathered(s)' = Gathered(s)
  BY <1>1, Zenon DEF Last, Returned, Gathered
<1>4. PcShape'
  <2> SUFFICES ASSUME NEW s \in Ranks
               PROVE  PcShape!(s)'
    BY DEF PcShape
  <2>1. pc'[s] = pc[s] \/ pc'[s] = "idle"
    BY <1>1, Zenon DEF IInv, TypeOK
  <2> QED BY <1>1, <1>3, <2>1, Zenon DEF IInv, PcShape
<1>5. DecisionHeld'
  BY <1>1, Zenon DEF IInv, DecisionHeld, NotPassed
<1>6. AttestedCopyHeld'
  BY <1>1, Zenon DEF IInv, AttestedCopyHeld, NotPassed
<1>7. SplitWeightsClosed' /\ RestartHoldsNothing'
  BY <1>1, Zenon DEF IInv, SplitWeightsClosed, RestartHoldsNothing
<1> QED BY <1>2, <1>4, <1>5, <1>6, <1>7 DEF IInv

\* A receipt attests a copy only from a rank that made it.
LEMMA EnterFinalizeIInv ==
    ASSUME IInv, NEW r \in Ranks, EnterFinalize(r)
    PROVE  IInv'
<1> USE DEF environment, coordinator
<1> DEFINE d == Returned(r)
           applied == pc[r] = "copied"
           o == Receipt(d, applied)
<1>1. /\ pc[r] \in {"decided", "copied"}
      /\ Contribute(r, o)
      /\ pc' = [pc EXCEPT ![r] = "receipts"]
      /\ UNCHANGED << weights, coordinator, environment >>
  BY DEF EnterFinalize
<1>2. TypeOK /\ PcShape
  BY Zenon DEF IInv
<1>3. d \in Decisions
  <2>1. log[r] \in Seq(Objects) /\ log[r] # << >> /\ Last(r).kind = "decision"
    BY <1>1, <1>2, Zenon DEF TypeOK, PcShape
  <2>2. Last(r) \in Objects
    BY <2>1 DEF Last
  <2> QED BY <2>1, <2>2, ObjectFields, Zenon DEF Returned
<1>4. applied \in BOOLEAN
  OBVIOUS
<1>5. o \in Objects
  BY <1>3, <1>4, ObjectTypes, Zenon
<1>6. o.kind = "receipt" /\ o.decision = d /\ (o.applied => weights[r] = d.cand)
  BY <1>2, Zenon DEF Receipt, PcShape
<1> HIDE DEF o, d, applied
<1>7. TypeOK'
  BY <1>1, <1>2, <1>5, ContributeFacts, Zenon DEF TypeOK, Waiting
<1>8. PcShape'
  <2> SUFFICES ASSUME NEW s \in Ranks
               PROVE  PcShape!(s)'
    BY DEF PcShape
  <2>1. CASE s = r
    <3>1. pc'[r] = "receipts" /\ log'[r] # << >> /\ Last(r)' = o
      BY <1>1, <1>2, <1>5, ContributeFacts, Zenon DEF Last, TypeOK
    <3> QED BY <1>6, <2>1, <3>1
  <2>2. CASE s # r
    <3>1. pc'[s] = pc[s] /\ weights' = weights
      BY <1>1, <1>2, <2>2, Zenon DEF TypeOK
    <3> QED BY <1>1, <1>2, <1>5, <2>2, <3>1, PcShapeOthers, Zenon
  <2> QED BY <2>1, <2>2
<1>9. DecisionHeld'
  <2> SUFFICES ASSUME NEW t \in Ranks, NEW s \in Ranks, NEW n \in 1..Len(log'[t]),
                      NotPassed(s, n)', log'[t][n].kind = "decision"
               PROVE  ~open'[t] /\ (restart'[t] \/ pend'[t] = log'[t][n].decision)
    BY Zenon DEF DecisionHeld
  <2>1. n \in 1..Len(log[t]) /\ NotPassed(s, n) /\ log'[t][n] = log[t][n]
    BY <1>1, <1>2, <1>5, <1>6, UnpassedObjects
  <2> QED BY <1>1, <2>1, Zenon DEF IInv, DecisionHeld
<1>10. AttestedCopyHeld'
  <2> SUFFICES ASSUME NEW t \in Ranks, NEW s \in Ranks, NEW n \in 1..Len(log'[t]),
                      NotPassed(s, n)', log'[t][n].kind = "receipt",
                      log'[t][n].applied
               PROVE  weights'[t] = log'[t][n].decision.cand
    BY Zenon DEF AttestedCopyHeld
  <2>1. CASE t = r /\ log'[t][n] = o
    BY <1>1, <1>6, <2>1, Zenon
  <2>2. CASE n \in 1..Len(log[t]) /\ NotPassed(s, n) /\ log'[t][n] = log[t][n]
    BY <1>1, <2>2 DEF IInv, AttestedCopyHeld
  <2> QED BY <1>1, <1>2, <1>5, <2>1, <2>2, UnpassedObjects
<1>11. SplitWeightsClosed'
  <2>1. \A t \in Ranks : log[t] # << >> => log'[t] # << >>
    BY <1>1, <1>2, <1>5, ContributeFacts, Zenon
  <2> QED BY <1>1, <2>1, Zenon DEF IInv, SplitWeightsClosed
<1>12. RestartHoldsNothing'
  BY <1>1, Zenon DEF IInv, RestartHoldsNothing
<1> QED BY <1>7, <1>8, <1>9, <1>10, <1>11, <1>12 DEF IInv

\* finalize reopens a rank only when all ranks hold the decided copy.
LEMMA CompleteReceiptsIInv ==
    ASSUME IInv, NEW r \in Ranks, CompleteReceipts(r)
    PROVE  IInv'
<1> USE DEF environment
<1>1. CASE MarkCollectiveFailed(r)
  BY <1>1, MarkCollectiveFailedIInv
<1>2. CASE ~MarkCollectiveFailed(r)
  <2> DEFINE d == pend[r]
             k == Len(log[r])
  <2>1. /\ pc[r] = "receipts" /\ Gathered(r) /\ ReceiptsValid(r, Slot(r))
        /\ pc' = [pc EXCEPT ![r] = "idle"]
        /\ consumed' = [consumed EXCEPT ![r] = @ \cup {UpdateOf[pend[r].cand]}]
        /\ pend' = [pend EXCEPT ![r] = NoDecision]
        /\ open' = [open EXCEPT ![r] = TRUE]
        /\ restart' = [restart EXCEPT ![r] = FALSE]
        /\ UNCHANGED << log, topo, weights, environment >>
    BY <1>2 DEF CompleteReceipts
  <2>2. d \in Decisions /\ d.cand \in Candidates
    BY <2>1, Zenon DEF IInv, TypeOK, ReceiptsValid, Decisions
  <2>3. TypeOK'
    <3>1. UpdateOf[d.cand] \in Updates
      BY <2>2, Zenon DEF Updates
    <3>2. consumed' \in [Ranks -> SUBSET Updates]
      BY <2>1, <3>1, Zenon DEF IInv, TypeOK
    <3> QED BY <2>1, <3>2, Zenon DEF IInv, TypeOK
  <2>4. \A s \in Ranks : Last(s)' = Last(s) /\ Returned(s)' = Returned(s)
                         /\ Gathered(s)' = Gathered(s)
    BY <2>1, Zenon DEF Last, Returned, Gathered
  <2>5. PcShape'
    <3> SUFFICES ASSUME NEW s \in Ranks
                 PROVE  PcShape!(s)'
      BY DEF PcShape
    <3>1. pc'[s] = pc[s] \/ pc'[s] = "idle"
      BY <2>1, Zenon DEF IInv, TypeOK
    <3> QED BY <2>1, <2>4, <3>1, Zenon DEF IInv, PcShape
  <2>6. /\ k \in Nat \ {0}
        /\ \A s \in Ranks : Len(log[s]) \in Nat /\ k \in 1..Len(log[s])
    <3>1. \A s \in Ranks : log[s] \in Seq(Objects) /\ Len(log[s]) \in Nat
      BY DEF IInv, TypeOK
    <3>2. log[r] # << >>
      BY <2>1, Zenon DEF IInv, PcShape
    <3>3. k \in Nat \ {0}
      BY <3>1, <3>2
    <3>4. \A s \in Ranks : Len(log[s]) >= k
      BY <2>1, Zenon DEF Gathered
    <3> QED BY <3>1, <3>3, <3>4
  <2>7. DecisionHeld'
    <3> SUFFICES ASSUME NEW t \in Ranks, NEW s \in Ranks, NEW n \in 1..Len(log[t]),
                        NotPassed(s, n), log[t][n].kind = "decision"
                 PROVE  ~open'[t] /\ (restart'[t] \/ pend'[t] = log[t][n].decision)
      BY <2>1 DEF DecisionHeld, NotPassed
    <3>1. t # r
      <4> SUFFICES ASSUME t = r PROVE FALSE
        BY Zenon
      <4>1. n = k
        BY <2>6 DEF NotPassed
      <4>2. Last(r).kind = "receipt"
        BY <2>1, Zenon DEF IInv, PcShape
      <4> QED BY <4>1, <4>2, Zenon DEF Last
    <3>2. ~open[t] /\ (restart[t] \/ pend[t] = log[t][n].decision)
      BY DEF IInv, DecisionHeld
    <3> QED BY <2>1, <3>1, <3>2, Zenon DEF IInv, TypeOK
  <2>8. AttestedCopyHeld'
    BY <2>1, Zenon DEF IInv, AttestedCopyHeld, NotPassed
  <2>9. \A q, s \in Ranks : weights[q] = weights[s]
    <3> SUFFICES ASSUME \E q, s \in Ranks : weights[q] # weights[s]
                 PROVE  FALSE
      BY Zenon
    <3>1. pend[r] # NoDecision /\ ~restart[r]
      BY <2>1, Zenon DEF ReceiptsValid, IInv, RestartHoldsNothing
    <3>2. d.outcome = "commit"
      BY <3>1, Zenon DEF IInv, SplitWeightsClosed
    <3>3. ASSUME NEW s \in Ranks
          PROVE  weights[s] = d.cand
      <4>1. /\ log[s][k].kind = "receipt"
            /\ log[s][k].decision = d
            /\ log[s][k].applied = (d.outcome = "commit")
        BY <2>1 DEF ReceiptsValid, AllOfKind, AppliedAsDecided, Slot
      <4>2. k \in 1..Len(log[s]) /\ NotPassed(r, k)
        BY <2>6 DEF NotPassed
      <4>3. log[s][k].applied = TRUE
        BY <3>2, <4>1, ZenonT(40)
      <4> QED BY <4>1, <4>2, <4>3 DEF IInv, AttestedCopyHeld
    <3> QED BY <3>3
  <2>10. SplitWeightsClosed'
    BY <2>1, <2>9, Zenon DEF SplitWeightsClosed
  <2>11. RestartHoldsNothing'
    BY <2>1, Zenon DEF IInv, TypeOK, RestartHoldsNothing
  <2> QED BY <2>3, <2>5, <2>7, <2>8, <2>10, <2>11 DEF IInv
<1> QED BY <1>1, <1>2

\* A rebuilt group starts with empty logs and one model.
LEMMA RebuildGroupIInv ==
    ASSUME IInv, RebuildGroup
    PROVE  IInv'
<1> USE DEF coordinator
<1>1. TypeOK'
  <2>1. log' \in [Ranks -> Seq(Objects)]
    BY DEF RebuildGroup
  <2>2. ids' \in Nat /\ groups' \in Nat
    BY DEF IInv, TypeOK, RebuildGroup
  <2> QED BY <2>1, <2>2, Zenon DEF IInv, TypeOK, RebuildGroup
<1>2. \A r \in Ranks : log'[r] = << >> /\ Len(log'[r]) = 0 /\ pc'[r] = "idle"
  BY Zenon DEF RebuildGroup
<1>3. PcShape'
  BY <1>2, Zenon DEF PcShape
<1>4. DecisionHeld' /\ AttestedCopyHeld'
  BY <1>2 DEF DecisionHeld, AttestedCopyHeld
<1>5. SplitWeightsClosed'
  BY Zenon DEF SplitWeightsClosed, RebuildGroup
<1>6. RestartHoldsNothing'
  BY Zenon DEF IInv, RestartHoldsNothing, RebuildGroup
<1> QED BY <1>1, <1>3, <1>4, <1>5, <1>6, Zenon DEF IInv

\* A rank marked restarted reopens in a group where nothing has been copied.
LEMMA MarkProcessGroupRestartedIInv ==
    ASSUME IInv, NEW r \in Ranks, MarkProcessGroupRestarted(r)
    PROVE  IInv'
<1> USE DEF environment
<1>1. TypeOK'
  BY Zenon DEF IInv, TypeOK, MarkProcessGroupRestarted
<1>2. \A s \in Ranks : Last(s)' = Last(s) /\ Returned(s)' = Returned(s)
                       /\ Gathered(s)' = Gathered(s)
  BY Zenon DEF MarkProcessGroupRestarted, Last, Returned, Gathered
<1>3. PcShape'
  BY <1>2, Zenon DEF IInv, PcShape, MarkProcessGroupRestarted
<1>4. DecisionHeld'
  <2> SUFFICES ASSUME NEW t \in Ranks, NEW s \in Ranks, NEW n \in 1..Len(log[t]),
                      NotPassed(s, n), log[t][n].kind = "decision"
               PROVE  ~open'[t] /\ (restart'[t] \/ pend'[t] = log[t][n].decision)
    BY DEF DecisionHeld, NotPassed, MarkProcessGroupRestarted
  <2>1. t # r
    <3>1. Len(log[r]) = 0
      BY DEF MarkProcessGroupRestarted
    <3> QED BY <3>1
  <2>2. ~open[t] /\ (restart[t] \/ pend[t] = log[t][n].decision)
    BY DEF IInv, DecisionHeld
  <2> QED BY <2>1, <2>2, Zenon DEF IInv, TypeOK, MarkProcessGroupRestarted
<1>5. AttestedCopyHeld'
  BY DEF IInv, AttestedCopyHeld, NotPassed, MarkProcessGroupRestarted
<1>6. SplitWeightsClosed'
  <2>1. \A q, s \in Ranks : weights[q] = weights[s]
    BY Zenon DEF IInv, SplitWeightsClosed, MarkProcessGroupRestarted
  <2> QED BY <2>1, Zenon DEF SplitWeightsClosed, MarkProcessGroupRestarted
<1>7. RestartHoldsNothing'
  BY DEF IInv, TypeOK, RestartHoldsNothing, MarkProcessGroupRestarted
<1> QED BY <1>1, <1>3, <1>4, <1>5, <1>6, <1>7 DEF IInv

\* Every step keeps the inductive invariant.
LEMMA NextIInv == IInv /\ [Next]_vars => IInv'
<1> SUFFICES ASSUME IInv, [Next]_vars PROVE IInv'
  OBVIOUS
<1>1. CASE RebuildGroup
  BY <1>1, RebuildGroupIInv, Zenon
<1>2. ASSUME NEW r \in Ranks, RankStep(r)
      PROVE  IInv'
  <2>1. CASE EnterPrepare(r)
    BY <2>1, EnterPrepareIInv, Zenon
  <2>2. CASE CompleteVotes(r)
    BY <2>2, CompleteVotesIInv
  <2>3. CASE CompleteDigests(r)
    BY <2>3, CompleteDigestsIInv
  <2>4. CASE CopyCandidate(r)
    BY <2>4, CopyCandidateIInv
  <2>5. CASE Abandon(r)
    BY <2>5, AbandonIInv
  <2>6. CASE EnterFinalize(r)
    BY <2>6, EnterFinalizeIInv
  <2>7. CASE CompleteReceipts(r)
    BY <2>7, CompleteReceiptsIInv
  <2>8. CASE CollectiveRaises(r)
    BY <2>8, MarkCollectiveFailedIInv, Zenon DEF CollectiveRaises
  <2>9. CASE MarkProcessGroupRestarted(r)
    BY <2>9, MarkProcessGroupRestartedIInv
  <2> QED BY <1>2, <2>1, <2>2, <2>3, <2>4, <2>5, <2>6, <2>7, <2>8, <2>9, Zenon DEF RankStep
<1>3. CASE UNCHANGED vars
  <2>1. /\ pc' = pc /\ log' = log /\ open' = open /\ restart' = restart
        /\ pend' = pend /\ consumed' = consumed /\ topo' = topo
        /\ weights' = weights /\ ids' = ids /\ groups' = groups
    BY <1>3, Zenon DEF vars, coordinator, environment
  <2>2. TypeOK'
    BY <2>1, Zenon DEF IInv, TypeOK
  <2>3. PcShape'
    BY <2>1, Zenon DEF IInv, PcShape, Last, Returned, Gathered
  <2>4. DecisionHeld'
    BY <2>1, Zenon DEF IInv, DecisionHeld, NotPassed
  <2>5. AttestedCopyHeld'
    BY <2>1, Zenon DEF IInv, AttestedCopyHeld, NotPassed
  <2>6. SplitWeightsClosed' /\ RestartHoldsNothing'
    BY <2>1 DEF IInv, SplitWeightsClosed, RestartHoldsNothing
  <2> QED BY <2>2, <2>3, <2>4, <2>5, <2>6, Zenon DEF IInv
<1> QED BY <1>1, <1>2, <1>3, Zenon DEF Next

\* Every reachable state satisfies the inductive invariant.
THEOREM InvariantHolds == Spec => []IInv
BY InitIInv, NextIInv, PTL DEF Spec

\* The variables keep their types in every reachable state.
THEOREM TypeCorrect == Spec => []TypeOK
<1>1. IInv => TypeOK
  BY Zenon DEF IInv
<1> QED BY <1>1, InvariantHolds, PTL

\* Ranks that admit requests always serve the same weights.
THEOREM UniformService == Spec => []ServedModelUniform
<1>1. IInv => ServedModelUniform
  BY Zenon DEF IInv, SplitWeightsClosed, ServedModelUniform
<1> QED BY <1>1, InvariantHolds, PTL

\* Callers that hold a decision at the same time hold the same decision.
THEOREM DecisionsAgree == Spec => []ReturnedDecisionsAgree
<1>1. IInv => ReturnedDecisionsAgree
  <2> SUFFICES ASSUME IInv, NEW r \in Ranks, NEW s \in Ranks,
                      {pc[r], pc[s]} \subseteq {"decided", "copied"}
               PROVE  Returned(r) = Returned(s)
    BY Zenon DEF ReturnedDecisionsAgree
  <2>1. /\ Gathered(r) /\ \A q \in Ranks : log[q][Len(log[r])] = Last(r)
        /\ Gathered(s) /\ \A q \in Ranks : log[q][Len(log[s])] = Last(s)
    BY Zenon DEF IInv, PcShape
  <2>2. Len(log[r]) = Len(log[s])
    <3>1. Len(log[r]) \in Nat /\ Len(log[s]) \in Nat
      BY DEF IInv, TypeOK
    <3> QED BY <2>1, <3>1 DEF Gathered
  <2> QED BY <2>1, <2>2, Zenon DEF Returned
<1> QED BY <1>1, InvariantHolds, PTL

\* A required restart ends only in a rebuilt process group.
THEOREM RestartNeedsNewGroup == Spec => RestartOnlyInNewGroup
<1>1. IInv /\ [Next]_vars =>
        [\A r \in Ranks : restart[r] /\ ~restart'[r] => log[r] = << >>]_vars
  <2> SUFFICES ASSUME IInv, [Next]_vars, NEW r \in Ranks, restart[r], ~restart'[r]
               PROVE  log[r] = << >>
    BY Zenon
  <2> USE DEF coordinator, environment, MarkCollectiveFailed
  <2>1. restart \in [Ranks -> BOOLEAN] /\ pend[r] = NoDecision
    BY Zenon DEF IInv, TypeOK, RestartHoldsNothing
  <2>2. CASE RebuildGroup \/ UNCHANGED vars
    BY <2>2, Zenon DEF RebuildGroup, vars
  <2>3. ASSUME NEW s \in Ranks, RankStep(s)
        PROVE  log[r] = << >>
    <3>1. CASE EnterPrepare(s) \/ CopyCandidate(s) \/ Abandon(s) \/ EnterFinalize(s)
      BY <3>1 DEF EnterPrepare, CopyCandidate, Abandon, EnterFinalize
    <3>2. CASE CompleteVotes(s)
      BY <2>1, <3>2, ZenonT(40) DEF CompleteVotes, MayPrepare
    <3>3. CASE CompleteDigests(s) \/ CollectiveRaises(s)
      BY <2>1, <3>3, Zenon DEF CompleteDigests, CollectiveRaises
    <3>4. CASE CompleteReceipts(s)
      BY <2>1, <3>4, Zenon DEF CompleteReceipts, ReceiptsValid
    <3>5. CASE MarkProcessGroupRestarted(s)
      BY <2>1, <3>5, Zenon DEF MarkProcessGroupRestarted
    <3> QED BY <2>3, <3>1, <3>2, <3>3, <3>4, <3>5, Zenon DEF RankStep
  <2> QED BY <2>2, <2>3, Zenon DEF Next
<1> QED BY <1>1, InvariantHolds, PTL DEF Spec, RestartOnlyInNewGroup
-----------------------------------------------------------------------------
(* What stands behind a commit, and what finalize accepts.                 *)

\* A decision is on the deciding rank's own vote; a commit means that every
\* vote is for that candidate on open gates and the update is not consumed.
LEMMA CommitMeans ==
    ASSUME NEW r \in Ranks, NEW votes, Decision(r, votes).outcome = "commit"
    PROVE  /\ \A s \in Ranks : /\ votes[s].ok /\ votes[s].healthy
                               /\ votes[s].cand = Decision(r, votes).cand
           /\ UpdateOf[Decision(r, votes).cand] \notin consumed[r]
<1> DEFINE c == votes[r].cand
           a == {s \in Ranks : votes[s].topo # topo[r]}
           b == {s \in Ranks : ~votes[s].healthy}
           e == {s \in Ranks : votes[s].cand # c}
           g == {s \in Ranks : ~votes[s].ok}
<1>1. a \cup b = {}
  <2> SUFFICES ASSUME a \cup b # {} PROVE FALSE
    BY Zenon
  <2>1. Decision(r, votes) = [outcome |-> "process_group_failure", cand |-> c,
                              reasons |-> << a, b >>]
    BY Zenon DEF Decision
  <2> QED BY <2>1
<1>2. Decision(r, votes) =
        [outcome |-> IF Duplicates(r, c) # {} \/ e \cup g # {}
                     THEN "abort_static" ELSE "commit",
         cand |-> c,
         reasons |-> << Duplicates(r, c), e, g >>]
  BY <1>1, Zenon DEF Decision
<1>3. Decision(r, votes).cand = c /\ Duplicates(r, c) = {} /\ e \cup g = {}
  BY <1>2
<1> QED BY <1>1, <1>3, Zenon DEF Duplicates

\* A contribution keeps the votes behind every decision on record when a new
\* decision has its own votes behind it.
LEMMA ContributeVotes ==
    ASSUME TypeOK, VotesBehindDecision,
           NEW r \in Ranks, NEW o \in Objects, Contribute(r, o),
           o.kind = "decision" =>
               /\ Len(log[r]) >= 1
               /\ \A s \in Ranks :
                     /\ Len(log[s]) >= Len(log[r])
                     /\ log[s][Len(log[r])].kind = "vote"
                     /\ o.decision.outcome = "commit" =>
                           /\ log[s][Len(log[r])].ok /\ log[s][Len(log[r])].healthy
                           /\ log[s][Len(log[r])].cand = o.decision.cand
    PROVE  VotesBehindDecision'
<1> SUFFICES ASSUME NEW t \in Ranks, NEW s \in Ranks, NEW n \in 1..Len(log'[t]),
                    log'[t][n].kind = "decision"
             PROVE  /\ n > 1 /\ Len(log'[s]) >= n - 1
                    /\ log'[s][n - 1].kind = "vote"
                    /\ log'[t][n].decision.outcome = "commit" =>
                          /\ log'[s][n - 1].ok /\ log'[s][n - 1].healthy
                          /\ log'[s][n - 1].cand = log'[t][n].decision.cand
  BY Zenon DEF VotesBehindDecision
<1>0. Len(log[s]) \in Nat /\ Len(log[t]) \in Nat /\ Len(log[r]) \in Nat
  BY ContributeFacts, Zenon
<1>1. /\ n > 1 /\ Len(log[s]) >= n - 1
      /\ log[s][n - 1].kind = "vote"
      /\ log'[t][n].decision.outcome = "commit" =>
            /\ log[s][n - 1].ok /\ log[s][n - 1].healthy
            /\ log[s][n - 1].cand = log'[t][n].decision.cand
  <2>1. CASE n \in 1..Len(log[t]) /\ log'[t][n] = log[t][n]
    BY <2>1 DEF VotesBehindDecision
  <2>2. CASE t = r /\ n = Len(log[r]) + 1 /\ log'[t][n] = o
    <3>1. n - 1 = Len(log[r])
      BY <1>0, <2>2
    <3> QED BY <1>0, <2>2, <3>1
  <2>3. \/ n \in 1..Len(log[t]) /\ log'[t][n] = log[t][n]
        \/ t = r /\ n = Len(log[r]) + 1 /\ log'[t][n] = o
    <3>1. CASE t = r
      BY <1>0, <3>1, ContributeFacts
    <3>2. CASE t # r
      BY <3>2, ContributeFacts
    <3> QED BY <3>1, <3>2, Zenon
  <2> QED BY <2>1, <2>2, <2>3, Zenon
<1>2. log'[s][n - 1] = log[s][n - 1] /\ Len(log'[s]) >= n - 1
  <2>1. n - 1 \in 1..Len(log[s])
    BY <1>0, <1>1
  <2>2. CASE s = r
    BY <1>0, <2>1, <2>2, ContributeFacts
  <2>3. CASE s # r
    BY <1>0, <2>1, <2>3, ContributeFacts
  <2> QED BY <2>2, <2>3, Zenon
<1> QED BY <1>1, <1>2, Zenon

\* A contribution keeps the commits unconsumed when the rank consumes nothing
\* a commit on record in an unpassed slot needs.
LEMMA ContributeUnconsumed ==
    ASSUME TypeOK, CommitUnconsumed,
           NEW r \in Ranks, NEW o \in Objects, Contribute(r, o),
           \A s \in Ranks \ {r} : consumed'[s] = consumed[s],
           \/ consumed'[r] = consumed[r]
           \/ Gathered(r) /\ Last(r).kind # "decision" /\ log[r] # << >>,
           o.kind = "decision" /\ o.decision.outcome = "commit" =>
               UpdateOf[o.decision.cand] \notin consumed'[r]
    PROVE  CommitUnconsumed'
<1> SUFFICES ASSUME NEW t \in Ranks, NEW s \in Ranks, NEW n \in 1..Len(log'[t]),
                    NotPassed(s, n)', log'[t][n].kind = "decision",
                    log'[t][n].decision.outcome = "commit"
             PROVE  UpdateOf[log'[t][n].decision.cand] \notin consumed'[t]
  BY Zenon DEF CommitUnconsumed
<1>1. CASE t = r /\ n = Len(log[r]) + 1 /\ log'[t][n] = o
  BY <1>1, Zenon
<1>2. CASE n \in 1..Len(log[t]) /\ NotPassed(s, n) /\ log'[t][n] = log[t][n]
  <2>1. UpdateOf[log'[t][n].decision.cand] \notin consumed[t]
    BY <1>2, Zenon DEF CommitUnconsumed
  <2>2. CASE consumed'[t] = consumed[t]
    BY <2>1, <2>2
  <2>3. CASE t = r /\ Gathered(r) /\ Last(r).kind # "decision"
    <3>1. Len(log[s]) \in Nat /\ Len(log[r]) \in Nat
      BY ContributeFacts, Zenon
    <3>2. n = Len(log[r])
      BY <1>2, <2>3, <3>1 DEF Gathered, NotPassed
    <3> QED BY <1>2, <2>3, <3>2, ZenonT(40) DEF Last
  <2> QED BY <2>2, <2>3, Zenon
<1> QED BY <1>1, <1>2, UnpassedObjects

\* The objects on record stay when a step leaves the logs alone.
LEMMA SameLog ==
    ASSUME IInv, CallInv, log' = log, NEW r \in Ranks,
           \A s \in Ranks \ {r} : consumed'[s] = consumed[s],
           \/ consumed'[r] = consumed[r]
           \/ Gathered(r) /\ Last(r).kind # "decision" /\ log[r] # << >>
    PROVE  VotesBehindDecision' /\ CommitUnconsumed'
<1>1. VotesBehindDecision'
  BY DEF CallInv, VotesBehindDecision
<1>2. CommitUnconsumed'
  <2> SUFFICES ASSUME NEW t \in Ranks, NEW s \in Ranks, NEW n \in 1..Len(log[t]),
                      NotPassed(s, n), log[t][n].kind = "decision",
                      log[t][n].decision.outcome = "commit"
               PROVE  UpdateOf[log[t][n].decision.cand] \notin consumed'[t]
    BY Zenon DEF CommitUnconsumed, NotPassed
  <2>1. UpdateOf[log[t][n].decision.cand] \notin consumed[t]
    BY Zenon DEF CallInv, CommitUnconsumed
  <2>2. CASE consumed'[t] = consumed[t]
    BY <2>1, <2>2, Zenon
  <2>3. CASE t = r /\ Gathered(r) /\ Last(r).kind # "decision"
    <3>1. Len(log[s]) \in Nat /\ Len(log[r]) \in Nat
      BY DEF IInv, TypeOK
    <3>2. n = Len(log[r])
      BY <2>3, <3>1 DEF Gathered, NotPassed
    <3> QED BY <2>3, <3>2, Zenon DEF Last
  <2> QED BY <2>2, <2>3, Zenon
<1> QED BY <1>1, <1>2, Zenon

\* What pend and the receipts say when one rank's log grows or stays: the
\* other ranks keep their call, and rank r accounts for its own.
LEMMA PendingStep ==
    ASSUME IInv, CallInv, NEW r \in Ranks,
           \/ log' = log
           \/ \E o \in Objects : Contribute(r, o) /\ (o.kind = "receipt" => o.topo = 0),
           \A s \in Ranks \ {r} : pc'[s] = pc[s] /\ pend'[s] = pend[s],
           pc'[r] \in {"digests", "decided", "copied", "receipts"} =>
               pend'[r] = Pending(Returned(r)'),
           ids' = ids, topo' = topo
    PROVE  DecisionPending' /\ FirstTopology'
<1>1. \A s \in Ranks \ {r} : log'[s] = log[s]
  BY ContributeFacts, Zenon DEF IInv
<1>2. DecisionPending'
  <2> SUFFICES ASSUME NEW s \in Ranks \ {r},
                      pc[s] \in {"digests", "decided", "copied", "receipts"}
               PROVE  pend[s] = Pending(Returned(s)')
    BY Zenon DEF DecisionPending, Pending
  <2>1. Returned(s)' = Returned(s)
    BY <1>1, Zenon DEF Returned, Last
  <2> QED BY <2>1, Zenon DEF CallInv, DecisionPending
<1>3. ASSUME NEW s \in Ranks, NEW n \in 1..Len(log'[s]), log'[s][n].kind = "receipt"
      PROVE  log'[s][n].topo = 0
  <2>1. CASE log' = log
    BY <1>3, <2>1, Zenon DEF CallInv, FirstTopology
  <2>2. CASE s # r
    BY <1>1, <1>3, <2>2 DEF CallInv, FirstTopology
  <2>3. ASSUME s = r,
               NEW o \in Objects, Contribute(r, o), o.kind = "receipt" => o.topo = 0
        PROVE  log'[s][n].topo = 0
    <3>1. CASE n \in 1..Len(log[r])
      BY <1>3, <2>3, <3>1, ContributeFacts DEF IInv, CallInv, FirstTopology
    <3>2. CASE n \notin 1..Len(log[r])
      <4>1. n = Len(log[r]) + 1
        BY <2>3, <3>2, ContributeFacts DEF IInv
      <4> QED BY <1>3, <2>3, <4>1, ContributeFacts, Zenon DEF IInv
    <3> QED BY <3>1, <3>2, Zenon
  <2> QED BY <2>1, <2>2, <2>3, Zenon
<1>4. FirstTopology'
  BY <1>3, Zenon DEF CallInv, FirstTopology
<1> QED BY <1>2, <1>4, Zenon

\* mark_collective_failed ends the call and keeps the record.
LEMMA MarkCollectiveFailedCall ==
    ASSUME IInv, CallInv, NEW r \in Ranks, MarkCollectiveFailed(r)
    PROVE  CallInv'
<1>1. /\ log' = log /\ consumed' = consumed /\ ids' = ids /\ topo' = topo
      /\ pc'[r] = "idle"
      /\ \A s \in Ranks \ {r} : pc'[s] = pc[s] /\ pend'[s] = pend[s]
  BY Zenon DEF IInv, TypeOK, MarkCollectiveFailed, environment
<1>2. VotesBehindDecision' /\ CommitUnconsumed'
  BY <1>1, SameLog, Zenon
<1>3. DecisionPending' /\ FirstTopology'
  BY <1>1, PendingStep, Zenon
<1> QED BY <1>2, <1>3, Zenon DEF CallInv

\* The steps between the all-gathers: the two entries, the returned digests,
\* the copy and the abandoned call.
LEMMA CallerStepCall ==
    ASSUME IInv, CallInv, NEW r \in Ranks,
           \/ EnterPrepare(r) \/ CopyCandidate(r) \/ Abandon(r) \/ EnterFinalize(r)
           \/ CompleteDigests(r) /\ ~MarkCollectiveFailed(r)
    PROVE  CallInv'
<1> DEFINE InCall == {"digests", "decided", "copied", "receipts"}
<1>1. /\ consumed' = consumed /\ ids' = ids /\ topo' = topo /\ pend' = pend
      /\ \A s \in Ranks \ {r} : pc'[s] = pc[s]
  BY Zenon DEF IInv, TypeOK, EnterPrepare, CopyCandidate, Abandon, EnterFinalize,
         CompleteDigests, coordinator, environment
<1>2. CASE EnterPrepare(r)
  <2>1. PICK b \in Ballots : Contribute(r, Vote(b))
    BY <1>2, Zenon DEF EnterPrepare
  <2>2. Vote(b) \in Objects /\ Vote(b).kind = "vote"
    BY ObjectTypes, Zenon DEF IInv, TypeOK, Vote
  <2>3. pc'[r] = "votes"
    BY <1>2, Zenon DEF EnterPrepare, IInv, TypeOK
  <2>4. VotesBehindDecision'
    BY <2>1, <2>2, ContributeVotes, ZenonT(40) DEF IInv, CallInv
  <2>5. CommitUnconsumed'
    BY <1>1, <2>1, <2>2, ContributeUnconsumed, ZenonT(40) DEF IInv, CallInv
  <2>6. DecisionPending' /\ FirstTopology'
    BY <1>1, <2>1, <2>2, <2>3, PendingStep, Zenon
  <2> QED BY <2>4, <2>5, <2>6, Zenon DEF CallInv
<1>3. CASE EnterFinalize(r)
  <2> DEFINE o == Receipt(Returned(r), pc[r] = "copied")
  <2>1. pc[r] \in {"decided", "copied"} /\ pc'[r] = "receipts" /\ Contribute(r, o)
    BY <1>3, Zenon DEF EnterFinalize, IInv, TypeOK
  <2>2. Last(r) \in Objects /\ Last(r).kind = "decision"
    <3>1. log[r] \in Seq(Objects) /\ log[r] # << >>
      BY <2>1, Zenon DEF IInv, TypeOK, PcShape
    <3>2. Last(r) \in Objects
      BY <3>1 DEF Last
    <3> QED BY <2>1, <3>2, ZenonT(40) DEF IInv, PcShape
  <2>3. Returned(r) \in Decisions
    BY <2>2, ObjectFields DEF Returned
  <2>4. o \in Objects /\ o.kind = "receipt" /\ o.topo = 0 /\ o.decision = Returned(r)
    BY <2>3, ObjectTypes, ZenonT(40) DEF Receipt
  <2> HIDE DEF o
  <2>5. VotesBehindDecision'
    BY <2>1, <2>4, ContributeVotes, Zenon DEF IInv, CallInv
  <2>6. CommitUnconsumed'
    BY <1>1, <2>1, <2>4, ContributeUnconsumed, Zenon DEF IInv, CallInv
  <2>7. pend'[r] = Pending(Returned(r)')
    <3>1. pend[r] = Pending(Returned(r))
      BY <2>1, Zenon DEF CallInv, DecisionPending
    <3>2. Last(r)' = o
      BY <2>1, <2>4, ContributeFacts DEF IInv, Last
    <3> QED BY <1>1, <2>4, <3>1, <3>2, Zenon DEF Returned
  <2>8. DecisionPending' /\ FirstTopology'
    BY <1>1, <2>1, <2>4, <2>7, PendingStep, Zenon
  <2> QED BY <2>5, <2>6, <2>8, Zenon DEF CallInv
<1>4. CASE \/ CopyCandidate(r) \/ Abandon(r)
           \/ CompleteDigests(r) /\ ~MarkCollectiveFailed(r)
  <2>1. log' = log /\ (pc'[r] \in InCall => pc[r] \in InCall)
    BY <1>4 DEF CopyCandidate, Abandon, CompleteDigests, IInv, TypeOK
  <2>2. VotesBehindDecision' /\ CommitUnconsumed'
    BY <1>1, <2>1, SameLog, ZenonT(40)
  <2>3. pc'[r] \in InCall => pend'[r] = Pending(Returned(r)')
    BY <1>1, <2>1, ZenonT(40) DEF CallInv, DecisionPending, Returned, Last
  <2>4. DecisionPending' /\ FirstTopology'
    BY <1>1, <2>1, <2>3, PendingStep, Zenon
  <2> QED BY <2>2, <2>4, Zenon DEF CallInv
<1> QED BY <1>2, <1>3, <1>4, Zenon

\* decide puts a digest on record that its votes stand behind.
LEMMA CompleteVotesCall ==
    ASSUME IInv, CallInv, NEW r \in Ranks, CompleteVotes(r)
    PROVE  CallInv'
<1> DEFINE d == Decision(r, Slot(r))
           o == DecisionDigest(d)
           n == Len(log[r])
<1>1. CASE MarkCollectiveFailed(r)
  BY <1>1, MarkCollectiveFailedCall, Zenon
<1>2. CASE ~MarkCollectiveFailed(r)
  <2>1. /\ pc[r] = "votes" /\ Gathered(r)
        /\ AllOfKind(Slot(r), "vote")
        /\ Contribute(r, o)
        /\ pc' = [pc EXCEPT ![r] = "digests"]
        /\ pend' = [pend EXCEPT ![r] = Pending(d)]
        /\ consumed' = [consumed EXCEPT
              ![r] = IF d.outcome = "process_group_failure"
                     THEN @ \cup {UpdateOf[d.cand]} ELSE @]
        /\ ids' = ids /\ topo' = topo
    BY <1>2, ZenonT(40) DEF CompleteVotes, environment
  <2>2. log[r] # << >> /\ Last(r).kind = "vote" /\ log \in [Ranks -> Seq(Objects)]
    BY <2>1, ZenonT(40) DEF IInv, TypeOK, PcShape
  <2>3. n \in Nat /\ n >= 1 /\ \A s \in Ranks : Len(log[s]) >= n
    BY <2>1, <2>2 DEF Gathered
  <2>4. \A s \in Ranks : Slot(r)[s] = log[s][n] /\ Slot(r)[s] \in Objects
    BY <2>2, <2>3 DEF Slot
  <2>5. d \in Decisions
    BY <2>1, <2>4, DecisionType, ZenonT(40)
  <2>6. o \in Objects /\ o.kind = "decision" /\ o.decision = d
    BY <2>5, ObjectTypes, Zenon DEF DecisionDigest
  <2>7. d.outcome = "commit" =>
          /\ \A s \in Ranks : log[s][n].ok /\ log[s][n].healthy
                              /\ log[s][n].cand = d.cand
          /\ UpdateOf[d.cand] \notin consumed[r]
    BY <2>4, CommitMeans
  <2>8. /\ \A s \in Ranks \ {r} : consumed'[s] = consumed[s] /\ pc'[s] = pc[s]
                                  /\ pend'[s] = pend[s]
        /\ pc'[r] = "digests" /\ pend'[r] = Pending(d)
        /\ d.outcome = "commit" => consumed'[r] = consumed[r]
    BY <2>1, ZenonT(40) DEF IInv, TypeOK
  <2>9. \A s \in Ranks : log[s][n].kind = "vote"
    BY <2>1, <2>4, Zenon DEF AllOfKind
  <2> HIDE DEF d, o
  <2>10. VotesBehindDecision'
    BY <2>1, <2>3, <2>6, <2>7, <2>9, ContributeVotes, ZenonT(40) DEF IInv, CallInv
  <2>11. CommitUnconsumed'
    BY <2>1, <2>2, <2>6, <2>7, <2>8, ContributeUnconsumed, ZenonT(40) DEF IInv, CallInv
  <2>12. Returned(r)' = d
    BY <2>1, <2>6, ContributeFacts, ZenonT(40) DEF IInv, Last, Returned
  <2>13. DecisionPending' /\ FirstTopology'
    BY <2>1, <2>6, <2>8, <2>12, PendingStep, Zenon
  <2> QED BY <2>10, <2>11, <2>13, Zenon DEF CallInv
<1> QED BY <1>1, <1>2, Zenon

\* finalize consumes an update only after every rank has passed its commit.
LEMMA CompleteReceiptsCall ==
    ASSUME IInv, CallInv, NEW r \in Ranks, CompleteReceipts(r)
    PROVE  CallInv'
<1>1. CASE MarkCollectiveFailed(r)
  BY <1>1, MarkCollectiveFailedCall
<1>2. CASE ~MarkCollectiveFailed(r)
  <2>1. /\ pc[r] = "receipts" /\ Gathered(r) /\ log' = log
        /\ ids' = ids /\ topo' = topo /\ pc'[r] = "idle"
        /\ \A s \in Ranks \ {r} : consumed'[s] = consumed[s] /\ pc'[s] = pc[s]
                                  /\ pend'[s] = pend[s]
    BY <1>2, ZenonT(40) DEF CompleteReceipts, IInv, TypeOK, environment
  <2>2. log[r] # << >> /\ Last(r).kind = "receipt"
    BY <2>1, ZenonT(40) DEF IInv, PcShape
  <2>3. VotesBehindDecision' /\ CommitUnconsumed'
    BY <2>1, <2>2, SameLog, ZenonT(40)
  <2>4. DecisionPending' /\ FirstTopology'
    BY <2>1, PendingStep, Zenon
  <2> QED BY <2>3, <2>4 DEF CallInv
<1> QED BY <1>1, <1>2

\* A rebuilt group has nothing on record and keeps its ids unless fresh.
LEMMA RebuildCall ==
    ASSUME IInv, CallInv, RebuildGroup
    PROVE  CallInv'
<1>1. \A s \in Ranks : 1..Len(log'[s]) = {}
  BY DEF RebuildGroup
<1>2. VotesBehindDecision' /\ CommitUnconsumed'
  BY <1>1, Zenon DEF VotesBehindDecision, CommitUnconsumed
<1>3. DecisionPending'
  BY Zenon DEF DecisionPending, RebuildGroup
<1>4. FirstTopology'
  BY <1>1, Zenon DEF CallInv, FirstTopology, RebuildGroup, coordinator
<1> QED BY <1>2, <1>3, <1>4, Zenon DEF CallInv

\* A rank marked restarted is outside every call.
LEMMA MarkRestartedCall ==
    ASSUME IInv, CallInv, NEW r \in Ranks, MarkProcessGroupRestarted(r)
    PROVE  CallInv'
<1>1. /\ log' = log /\ consumed' = consumed /\ pc' = pc /\ ids' = ids
      /\ pc[r] = "idle" /\ topo' = [topo EXCEPT ![r] = ids]
      /\ \A s \in Ranks \ {r} : pend'[s] = pend[s]
  BY Zenon DEF MarkProcessGroupRestarted, IInv, TypeOK, PcShape, environment
<1>2. VotesBehindDecision' /\ CommitUnconsumed'
  BY <1>1, SameLog, Zenon
<1>3. DecisionPending'
  BY <1>1, Zenon DEF CallInv, DecisionPending, Returned, Last
<1>4. FirstTopology'
  BY <1>1, Zenon DEF CallInv, FirstTopology, IInv, TypeOK
<1> QED BY <1>2, <1>3, <1>4, Zenon DEF CallInv

\* Every step keeps what stands behind the calls.
LEMMA NextCall == IInv /\ CallInv /\ [Next]_vars => CallInv'
<1> SUFFICES ASSUME IInv, CallInv, [Next]_vars PROVE CallInv'
  BY Zenon
<1>1. ASSUME NEW r \in Ranks, RankStep(r)
      PROVE  CallInv'
  <2>1. CASE CompleteVotes(r)
    BY <2>1, CompleteVotesCall, Zenon
  <2>2. CASE CompleteReceipts(r)
    BY <2>2, CompleteReceiptsCall, Zenon
  <2>3. CASE MarkCollectiveFailed(r)
    BY <2>3, MarkCollectiveFailedCall
  <2>4. CASE MarkProcessGroupRestarted(r)
    BY <2>4, MarkRestartedCall
  <2>5. CASE ~MarkCollectiveFailed(r) /\ (\/ EnterPrepare(r) \/ CopyCandidate(r)
               \/ Abandon(r) \/ EnterFinalize(r) \/ CompleteDigests(r))
    BY <2>5, CallerStepCall, Zenon
  <2> QED BY <1>1, <2>1, <2>2, <2>3, <2>4, <2>5, Zenon DEF RankStep, CollectiveRaises
<1>2. CASE UNCHANGED vars
  <2>1. /\ log' = log /\ pc' = pc /\ pend' = pend /\ consumed' = consumed
        /\ topo' = topo /\ ids' = ids
    BY <1>2, Zenon DEF vars, coordinator, environment
  <2>2. VotesBehindDecision' /\ CommitUnconsumed'
    BY <2>1 DEF CallInv, VotesBehindDecision, CommitUnconsumed, NotPassed
  <2>3. DecisionPending' /\ FirstTopology'
    BY <2>1 DEF CallInv, DecisionPending, FirstTopology, Returned, Last
  <2> QED BY <2>2, <2>3, Zenon DEF CallInv
<1> QED BY <1>1, <1>2, RebuildCall DEF Next

LEMMA CallInvAlways == Spec => []CallInv
<1>1. Init => CallInv
  <2> SUFFICES ASSUME Init PROVE CallInv
    OBVIOUS
  <2>1. \A s \in Ranks : 1..Len(log[s]) = {}
    BY DEF Init
  <2>2. VotesBehindDecision /\ CommitUnconsumed /\ DecisionPending /\ FirstTopology
    BY <2>1 DEF VotesBehindDecision, CommitUnconsumed, DecisionPending,
                FirstTopology, Init
  <2> QED BY <2>2, Zenon DEF CallInv
<1> QED BY <1>1, NextCall, InvariantHolds, PTL DEF Spec

\* A commit handed to any caller is unanimous: every rank voted for its
\* candidate on open gates, and none had consumed its update (decide).
THEOREM CommitsUnanimous == Spec => []CommitIsUnanimous
<1>1. IInv /\ CallInv => CommitIsUnanimous
  <2> SUFFICES ASSUME IInv, CallInv, NEW r \in Ranks, pc[r] \in {"decided", "copied"},
                      Returned(r).outcome = "commit", NEW s \in Ranks
               PROVE  LET v == log[s][Len(log[r]) - 1] IN
                      /\ v.kind = "vote" /\ v.ok /\ v.healthy
                      /\ v.cand = Returned(r).cand
                      /\ UpdateOf[v.cand] \notin consumed[s]
    BY Zenon DEF CommitIsUnanimous
  <2> DEFINE n == Len(log[r])
  <2>1. /\ n \in 1..Len(log[r]) /\ n \in 1..Len(log[s])
        /\ log[r][n].kind = "decision" /\ log[s][n] = log[r][n]
        /\ log[r][n].decision = Returned(r)
    <3>1. log[r] \in Seq(Objects) /\ log[s] \in Seq(Objects) /\ log[r] # << >>
      BY Zenon DEF IInv, TypeOK, PcShape
    <3>2. Gathered(r) /\ log[s][n] = Last(r) /\ Last(r).kind = "decision"
      BY Zenon DEF IInv, PcShape
    <3>3. n \in Nat /\ n >= 1 /\ Len(log[s]) \in Nat /\ Len(log[s]) >= n
      BY <3>1, <3>2 DEF Gathered
    <3>4. log[r][n] = Last(r)
      BY Zenon DEF Last
    <3> QED BY <3>2, <3>3, <3>4 DEF Returned
  <2>2. NotPassed(r, n)
    BY <2>1 DEF NotPassed
  <2> HIDE DEF n
  <2>3. /\ log[s][n - 1].kind = "vote" /\ log[s][n - 1].ok /\ log[s][n - 1].healthy
        /\ log[s][n - 1].cand = Returned(r).cand
    BY <2>1 DEF CallInv, VotesBehindDecision
  <2>4. UpdateOf[Returned(r).cand] \notin consumed[s]
    BY <2>1, <2>2, Zenon DEF CallInv, CommitUnconsumed
  <2> QED BY <2>3, <2>4, Zenon DEF n
<1> QED BY <1>1, InvariantHolds, CallInvAlways, PTL

\* While the ranks keep their process ids over a restart, finalize accepts
\* every slot in which all of them attest the returned outcome.
THEOREM AgreedOutcomesAccepted ==
    ASSUME FreshIds = FALSE
    PROVE  Spec => []AgreedOutcomeAccepted
<1>1. IInv /\ CallInv => AgreedOutcomeAccepted
  <2> SUFFICES ASSUME IInv, CallInv, NEW r \in Ranks,
                      pc[r] = "receipts", Gathered(r),
                      Returned(r).outcome # "process_group_failure",
                      \A s \in Ranks :
                          /\ Slot(r)[s].kind = "receipt"
                          /\ Slot(r)[s].decision = Returned(r)
                          /\ Slot(r)[s].applied = (Returned(r).outcome = "commit")
               PROVE  ReceiptsValid(r, Slot(r))
    BY Zenon DEF AgreedOutcomeAccepted
  <2>1. log[r] # << >> /\ Last(r).kind = "receipt" /\ log \in [Ranks -> Seq(Objects)]
    BY Zenon DEF IInv, TypeOK, PcShape
  <2>2. Last(r) \in Objects
    BY <2>1 DEF Last
  <2>3. Returned(r) \in Decisions
    BY <2>1, <2>2, ObjectFields, Zenon DEF Returned
  <2>4. pend[r] = Returned(r)
    BY Zenon DEF CallInv, DecisionPending, Pending
  <2>5. pend[r] # NoDecision
    BY <2>3, <2>4, NoDecisionIsNone, Zenon
  <2>6. \A s \in Ranks : Slot(r)[s].topo = topo[r]
    <3> TAKE s \in Ranks
    <3>1. Len(log[r]) \in 1..Len(log[s])
      BY <2>1 DEF Gathered
    <3>2. Slot(r)[s] = log[s][Len(log[r])]
      BY DEF Slot
    <3> QED BY <3>1, <3>2, Zenon DEF CallInv, FirstTopology
  <2> QED BY <2>4, <2>5, <2>6, Zenon DEF ReceiptsValid, AllOfKind, AppliedAsDecided
<1> QED BY <1>1, InvariantHolds, CallInvAlways, PTL
=============================================================================
