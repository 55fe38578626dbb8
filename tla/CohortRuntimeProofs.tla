------------------------ MODULE CohortRuntimeProofs -------------------------
(***************************************************************************)
(* Proofs about CohortRuntime, for any number of requests, candidates and  *)
(* rounds: every candidate ends exactly once, a published candidate was    *)
(* not disturbed and waited for its boundary, the version counts the       *)
(* publications of its epoch, and buffered rows belong to the current      *)
(* epoch.                                                                  *)
(***************************************************************************)
EXTENDS CohortRuntime, FiniteSetTheorems, SequenceTheorems, TLAPS

\* The invariant, by the variables it reads: the rows, and the candidates.
RowsInv ==
    /\ signals \subseteq Row /\ wire \subseteq Row /\ batch \subseteq Row
    /\ \A s, t \in signals : s.request = t.request => s = t
    /\ emitted \in [Requests -> Nat]
    /\ RowsOfThisEpoch
    /\ WireGenerations
CountersInv ==
    /\ epoch \in Nat /\ active \in Nat /\ slot \in Nat /\ buf \in Nat /\ opt \in Nat
    /\ round \in Nat /\ events \in Nat
    /\ disabled \in BOOLEAN
CandidatesInv ==
    /\ made \in Seq(Candidate)
    /\ ends \in Seq(End)
    /\ inflight \in 0..Len(made) /\ last \in 0..Len(made)
    /\ EachCandidateEndsOnce
    /\ PublishedUndisturbed
    /\ InFlightUndisturbed
    /\ EndsNotLater
    /\ VersionCountsPublications

\* The parts are the whole.
LEMMA InvariantParts == IInv <=> RowsInv /\ CountersInv /\ CandidatesInv
<1>1. ASSUME NEW n \in Nat, NEW i \in 0..n  PROVE i \in Nat  OBVIOUS
<1>2. made \in Seq(Candidate) => Len(made) \in Nat  OBVIOUS
<1>. QED
  BY <1>1, <1>2 DEF IInv, TypeOK, RowsInv, CountersInv, CandidatesInv

\* A step that leaves the candidates and their history alone keeps what is
\* said of them.
LEMMA CandidatesUnchanged ==
    ASSUME CandidatesInv,
           UNCHANGED << made, ends, inflight, last, events, epoch, active, opt >>
    PROVE  CandidatesInv'
BY DEF CandidatesInv, EachCandidateEndsOnce, PublishedUndisturbed, InFlightUndisturbed,
       EndsNotLater, VersionCountsPublications, PublishedInEpoch

\* Begin: the new candidate is the only one in flight.
LEMMA BeginKeeps ==
    ASSUME CandidatesInv, CountersInv, NEW ready \in Nat, BeginCandidate(ready)
    PROVE  CandidatesInv'
<1> DEFINE c == [source |-> round, ready |-> ready, version |-> active, epoch |-> epoch,
                 slot |-> slot, buf |-> buf, opt |-> opt, events |-> events]
<1>n. PICK n \in Nat : n = Len(made)  BY DEF CandidatesInv
<1>1. c \in Candidate  BY DEF CountersInv, Candidate
<1>2. /\ made' = Append(made, c)
      /\ inflight = 0
      /\ inflight' = n + 1
      /\ UNCHANGED << ends, last, events, epoch, active, opt >>
  BY <1>n DEF BeginCandidate, MayBegin
<1>c. c.events = events  OBVIOUS
<1> HIDE DEF c
<1>3. /\ made' \in Seq(Candidate) /\ Len(made') = n + 1
      /\ made'[n + 1] = c
      /\ \A i \in 1..n : made'[i] = made[i]
  BY <1>n, <1>1, <1>2 DEF CandidatesInv
<1>4. \A i \in DOMAIN ends : ends[i].id \in 1..n
  BY <1>n, <1>2 DEF CandidatesInv, EachCandidateEndsOnce
<1>5. EachCandidateEndsOnce'
  <2>1. {ends'[i].id : i \in DOMAIN ends'} = 1..n
    BY <1>n, <1>2 DEF CandidatesInv, EachCandidateEndsOnce
  <2>2. (1..(n + 1)) \ {n + 1} = 1..n  OBVIOUS
  <2>. QED  BY <1>2, <1>3, <2>1, <2>2 DEF CandidatesInv, EachCandidateEndsOnce
<1>6. PublishedUndisturbed'
  BY <1>2, <1>3, <1>4 DEF CandidatesInv, PublishedUndisturbed
<1>7. InFlightUndisturbed'
  BY <1>2, <1>3, <1>c DEF InFlightUndisturbed
<1>8. EndsNotLater' /\ VersionCountsPublications'
  BY <1>2 DEF CandidatesInv, EndsNotLater, VersionCountsPublications, PublishedInEpoch
<1>9. inflight' \in 0..Len(made') /\ last' \in 0..Len(made')
  BY <1>n, <1>2, <1>3 DEF CandidatesInv
<1>. QED  BY <1>2, <1>3, <1>5, <1>6, <1>7, <1>8, <1>9 DEF CandidatesInv

\* Terminate appends one end, for the candidate in flight.
LEMMA TerminateFacts ==
    ASSUME CandidatesInv, CountersInv, NEW i \in DOMAIN made,
           NEW outcome \in {"published", "discarded"}, NEW policy \in Policies \cup {"none"},
           Terminate(i, outcome, policy), UNCHANGED made
    PROVE  /\ ends' \in Seq(End) /\ Len(ends') = Len(ends) + 1
           /\ \A j \in 1..Len(ends) : ends'[j] = ends[j]
           /\ ends'[Len(ends) + 1].outcome = outcome
           /\ ends'[Len(ends) + 1].epoch = epoch
           /\ EachCandidateEndsOnce'
           /\ PublishedUndisturbed'
           /\ inflight' = 0 /\ last' \in 0..Len(made)
<1> DEFINE e == [id |-> i, outcome |-> outcome, epoch |-> epoch, round |-> round,
                 events |-> events, policy |-> policy]
<1>m. PICK m \in Nat : m = Len(ends)  BY DEF CandidatesInv
<1>n. PICK n \in Nat : n = Len(made)  BY DEF CandidatesInv
<1>1. i \in 1..n /\ i = inflight /\ inflight' = 0 /\ last' = i
  BY <1>n DEF Terminate, CandidatesInv
<1>2. e \in End /\ e.id = i /\ e.outcome = outcome /\ e.epoch = epoch /\ e.events = events
  BY <1>n, <1>1 DEF CountersInv, End
<1>3. ends' = Append(ends, e)  BY DEF Terminate
<1> HIDE DEF e
<1>4. /\ ends' \in Seq(End) /\ Len(ends') = m + 1
      /\ DOMAIN ends = 1..m /\ DOMAIN ends' = 1..(m + 1)
      /\ ends'[m + 1] = e
      /\ \A j \in 1..m : ends'[j] = ends[j]
  BY <1>m, <1>2, <1>3 DEF CandidatesInv
<1>5. /\ \A j, k \in 1..m : ends[j].id = ends[k].id => j = k
      /\ {ends[j].id : j \in 1..m} = (1..n) \ {i}
  BY <1>n, <1>1, <1>4 DEF CandidatesInv, EachCandidateEndsOnce
<1>6. \A j \in 1..m : ends[j].id # i  BY <1>5
<1>7. \A j, k \in 1..(m + 1) : ends'[j].id = ends'[k].id => j = k
  <2> SUFFICES ASSUME NEW j \in 1..(m + 1), NEW k \in 1..(m + 1), ends'[j].id = ends'[k].id
               PROVE  j = k
    OBVIOUS
  <2>1. CASE j \in 1..m /\ k \in 1..m  BY <1>4, <1>5, <2>1
  <2>2. CASE j \in 1..m /\ k = m + 1  BY <1>2, <1>4, <1>6, <2>2
  <2>3. CASE k \in 1..m /\ j = m + 1  BY <1>2, <1>4, <1>6, <2>3
  <2>. QED  BY <2>1, <2>2, <2>3
<1>8. {ends'[j].id : j \in 1..(m + 1)} = {ends[j].id : j \in 1..m} \cup {i}
  BY <1>2, <1>4
<1>9. {ends'[j].id : j \in 1..(m + 1)} = (1..n) \ {0}
  BY <1>1, <1>5, <1>8
<1>10. EachCandidateEndsOnce'
  BY <1>n, <1>1, <1>4, <1>7, <1>9 DEF EachCandidateEndsOnce
<1>11. made[i].events = events
  BY <1>1 DEF CandidatesInv, InFlightUndisturbed
<1>12. PublishedUndisturbed'
  <2> SUFFICES ASSUME NEW j \in 1..(m + 1), ends'[j].outcome = "published"
               PROVE  ends'[j].events = made[ends'[j].id].events
    BY <1>4 DEF PublishedUndisturbed
  <2>1. CASE j \in 1..m  BY <1>4, <2>1 DEF CandidatesInv, PublishedUndisturbed
  <2>2. CASE j = m + 1  BY <1>2, <1>4, <1>11, <2>2
  <2>. QED  BY <2>1, <2>2
<1>. QED  BY <1>m, <1>n, <1>1, <1>2, <1>4, <1>10, <1>12

\* Discarding the candidate in flight, if there is one, leaves none in flight
\* and adds no publication.
LEMMA DiscardInFlightFacts ==
    ASSUME CandidatesInv, CountersInv, DiscardInFlight, UNCHANGED made
    PROVE  /\ ends' \in Seq(End) /\ Len(ends') >= Len(ends)
           /\ \A j \in 1..Len(ends) : ends'[j] = ends[j]
           /\ \A j \in 1..Len(ends') : j > Len(ends) =>
                 ends'[j].outcome = "discarded" /\ ends'[j].epoch = epoch
           /\ EachCandidateEndsOnce'
           /\ PublishedUndisturbed'
           /\ inflight' = 0 /\ last' \in 0..Len(made)
<1>1. CASE inflight # 0
  <2>1. inflight \in DOMAIN made  BY <1>1 DEF CandidatesInv
  <2>2. Terminate(inflight, "discarded", "none")  BY <1>1 DEF DiscardInFlight
  <2>3. /\ ends' \in Seq(End) /\ Len(ends') = Len(ends) + 1
        /\ \A j \in 1..Len(ends) : ends'[j] = ends[j]
        /\ ends'[Len(ends) + 1].outcome = "discarded"
        /\ ends'[Len(ends) + 1].epoch = epoch
        /\ EachCandidateEndsOnce'
        /\ PublishedUndisturbed'
        /\ inflight' = 0 /\ last' \in 0..Len(made)
    BY <2>1, <2>2, TerminateFacts
  <2>4. Len(ends) \in Nat  BY DEF CandidatesInv
  <2>5. \A j \in 1..Len(ends') : j > Len(ends) => j = Len(ends) + 1  BY <2>3, <2>4
  <2>. QED  BY <2>3, <2>4, <2>5
<1>2. CASE inflight = 0
  <2>1. UNCHANGED << inflight, last, ends >>  BY <1>2 DEF DiscardInFlight
  <2>2. Len(ends) \in Nat  BY DEF CandidatesInv
  <2>. QED
    BY <1>2, <2>1, <2>2 DEF CandidatesInv, EachCandidateEndsOnce, PublishedUndisturbed
<1>. QED  BY <1>1, <1>2

\* Ends that publish nothing leave the publications of the epoch alone.
LEMMA SamePublications ==
    ASSUME ends \in Seq(End), ends' \in Seq(End), Len(ends') >= Len(ends),
           UNCHANGED epoch,
           \A j \in 1..Len(ends) : ends'[j] = ends[j],
           \A j \in 1..Len(ends') : j > Len(ends) => ends'[j].outcome = "discarded"
    PROVE  PublishedInEpoch' = PublishedInEpoch
<1>m. PICK m \in Nat : m = Len(ends)  OBVIOUS
<1>k. PICK k \in Nat : k = Len(ends')  OBVIOUS
<1>1. m <= k /\ DOMAIN ends = 1..m /\ DOMAIN ends' = 1..k  BY <1>m, <1>k
<1>2. \A j \in 1..k : j \in 1..m \/ (j > m /\ ends'[j].outcome = "discarded")
  BY <1>m, <1>k
<1>3. \A j \in 1..m : j \in 1..k /\ ends'[j] = ends[j]  BY <1>m, <1>1
<1>4. ASSUME NEW j \in PublishedInEpoch'  PROVE j \in PublishedInEpoch
  BY <1>1, <1>2, <1>3, <1>4 DEF PublishedInEpoch
<1>5. ASSUME NEW j \in PublishedInEpoch  PROVE j \in PublishedInEpoch'
  BY <1>1, <1>3, <1>5 DEF PublishedInEpoch
<1>. QED  BY <1>4, <1>5

\* cancel_request and disable: the candidate in flight ends, the version stays.
LEMMA CancelKeeps ==
    ASSUME CandidatesInv, CountersInv, DiscardInFlight,
           UNCHANGED << made, epoch, active, opt >>
    PROVE  CandidatesInv'
<1>1. /\ ends' \in Seq(End) /\ Len(ends') >= Len(ends)
      /\ \A j \in 1..Len(ends) : ends'[j] = ends[j]
      /\ \A j \in 1..Len(ends') : j > Len(ends) =>
            ends'[j].outcome = "discarded" /\ ends'[j].epoch = epoch
      /\ EachCandidateEndsOnce'
      /\ PublishedUndisturbed'
      /\ inflight' = 0 /\ last' \in 0..Len(made)
  BY DiscardInFlightFacts
<1>2. ends \in Seq(End)  BY DEF CandidatesInv
<1>3. PublishedInEpoch' = PublishedInEpoch
  BY <1>1, <1>2, SamePublications
<1>4. VersionCountsPublications'
  BY <1>3 DEF CandidatesInv, VersionCountsPublications
<1>5. EndsNotLater'
  <2> SUFFICES ASSUME NEW j \in 1..Len(ends') PROVE ends'[j].epoch <= epoch
    BY <1>1 DEF EndsNotLater
  <2>1. CASE j > Len(ends)  BY <1>1, <2>1 DEF CountersInv
  <2>2. CASE ~(j > Len(ends))
    <3>1. j \in 1..Len(ends)  BY <1>1, <1>2, <2>2
    <3>. QED  BY <1>1, <1>2, <3>1 DEF CandidatesInv, EndsNotLater
  <2>. QED  BY <2>1, <2>2
<1>6. InFlightUndisturbed'  BY <1>1 DEF InFlightUndisturbed
<1>. QED  BY <1>1, <1>4, <1>5, <1>6 DEF CandidatesInv

\* reset: the new epoch has no publications yet.
LEMMA ResetKeeps ==
    ASSUME CandidatesInv, CountersInv, Reset
    PROVE  CandidatesInv'
<1>0. DiscardInFlight /\ made' = made /\ epoch' = epoch + 1 /\ active' = 0 /\ opt' = 0
  BY DEF Reset
<1>1. /\ ends' \in Seq(End) /\ Len(ends') >= Len(ends)
      /\ \A j \in 1..Len(ends) : ends'[j] = ends[j]
      /\ \A j \in 1..Len(ends') : j > Len(ends) =>
            ends'[j].outcome = "discarded" /\ ends'[j].epoch = epoch
      /\ EachCandidateEndsOnce'
      /\ PublishedUndisturbed'
      /\ inflight' = 0 /\ last' \in 0..Len(made)
  BY <1>0, DiscardInFlightFacts
<1>2. ends \in Seq(End) /\ epoch \in Nat  BY DEF CandidatesInv, CountersInv
<1>3. ASSUME NEW j \in DOMAIN ends' PROVE ends'[j].epoch \in Nat /\ ends'[j].epoch <= epoch
  <2>1. j \in 1..Len(ends') /\ ends'[j] \in End  BY <1>1
  <2>2. CASE j > Len(ends)  BY <1>1, <1>2, <2>1, <2>2
  <2>3. CASE ~(j > Len(ends))
    <3>1. j \in 1..Len(ends)  BY <1>1, <1>2, <2>1, <2>3
    <3>2. ends'[j] = ends[j] /\ ends[j] \in End /\ ends[j].epoch <= epoch
      BY <1>1, <1>2, <3>1 DEF CandidatesInv, EndsNotLater
    <3>. QED  BY <3>2 DEF End
  <2>. QED  BY <2>2, <2>3
<1>4. PublishedInEpoch' = {}
  BY <1>0, <1>2, <1>3 DEF PublishedInEpoch
<1>5. VersionCountsPublications'
  BY <1>0, <1>4, FS_EmptySet DEF VersionCountsPublications
<1>6. EndsNotLater'
  BY <1>0, <1>2, <1>3 DEF EndsNotLater
<1>7. InFlightUndisturbed'  BY <1>1 DEF InFlightUndisturbed
<1>. QED  BY <1>0, <1>1, <1>5, <1>6, <1>7 DEF CandidatesInv

\* commit: one publication more, one version more.
LEMMA CommitKeeps ==
    ASSUME CandidatesInv, CountersInv, NEW i \in DOMAIN made, NEW policy \in Policies,
           Commit(i, policy)
    PROVE  CandidatesInv'
<1>0. /\ Terminate(i, "published", policy)
      /\ made' = made /\ epoch' = epoch /\ active' = active + 1 /\ opt' = opt + 1
  BY DEF Commit, Advance
<1>m. PICK m \in Nat : m = Len(ends)  BY DEF CandidatesInv
<1>1. /\ ends' \in Seq(End) /\ Len(ends') = m + 1
      /\ \A j \in 1..m : ends'[j] = ends[j]
      /\ ends'[m + 1].outcome = "published" /\ ends'[m + 1].epoch = epoch
      /\ EachCandidateEndsOnce'
      /\ PublishedUndisturbed'
      /\ inflight' = 0 /\ last' \in 0..Len(made)
  BY <1>0, <1>m, TerminateFacts
<1>2. DOMAIN ends = 1..m /\ DOMAIN ends' = 1..(m + 1)
  BY <1>m, <1>1 DEF CandidatesInv
<1>3. PublishedInEpoch' = PublishedInEpoch \cup {m + 1} /\ m + 1 \notin PublishedInEpoch
  BY <1>0, <1>1, <1>2 DEF PublishedInEpoch
<1>4. IsFiniteSet(PublishedInEpoch)
  <2>1. PublishedInEpoch \in SUBSET (1..m)  BY <1>2 DEF PublishedInEpoch
  <2>2. IsFiniteSet(1..m)  BY FS_Interval
  <2>. QED  BY <2>1, <2>2, FS_Subset
<1>5. Cardinality(PublishedInEpoch') = Cardinality(PublishedInEpoch) + 1
  BY <1>3, <1>4, FS_AddElement
<1>6. VersionCountsPublications'
  BY <1>0, <1>5 DEF CandidatesInv, VersionCountsPublications
<1>7. EndsNotLater'
  <2> SUFFICES ASSUME NEW j \in 1..(m + 1) PROVE ends'[j].epoch <= epoch
    BY <1>0, <1>2 DEF EndsNotLater
  <2>1. CASE j \in 1..m  BY <1>1, <1>2, <2>1 DEF CandidatesInv, EndsNotLater
  <2>2. CASE j = m + 1  BY <1>1, <2>2 DEF CountersInv
  <2>. QED  BY <2>1, <2>2
<1>8. InFlightUndisturbed'  BY <1>1 DEF InFlightUndisturbed
<1>. QED  BY <1>0, <1>1, <1>6, <1>7, <1>8 DEF CandidatesInv

\* Every step keeps what is said of the candidates.
LEMMA StepKeepsCandidates ==
    ASSUME CandidatesInv, CountersInv, [Next]_vars
    PROVE  CandidatesInv'
<1>1. CASE Tick \/ (\E r \in Requests : Emit(r)) \/ (\E row \in wire : Offer(row)) \/ Drain
  BY <1>1, CandidatesUnchanged DEF Tick, Emit, Offer, Drain, runtime, history
<1>2. ASSUME NEW r \in Requests, CancelRequest(r) PROVE CandidatesInv'
  BY <1>2, CancelKeeps DEF CancelRequest
<1>3. ASSUME NEW ready \in round..(round + MaxLag), BeginCandidate(ready) PROVE CandidatesInv'
  BY <1>3, BeginKeeps, CohortAssumption DEF CountersInv
<1>4. ASSUME NEW i \in DOMAIN made, Discard(i) PROVE CandidatesInv'
  <2>1. inflight # 0 /\ i = inflight
    BY <1>4 DEF Discard, Terminate, CandidatesInv
  <2>. QED  BY <1>4, <2>1, CancelKeeps DEF Discard, DiscardInFlight
<1>5. ASSUME NEW i \in DOMAIN made, NEW policy \in Policies, Commit(i, policy)
      PROVE CandidatesInv'
  BY <1>5, CommitKeeps
<1>6. CASE Reset  BY <1>6, ResetKeeps
<1>7. CASE Disable  BY <1>7, CancelKeeps DEF Disable
<1>8. CASE UNCHANGED vars
  BY <1>8, CandidatesUnchanged DEF vars, runtime, history
<1>. QED  BY <1>1, <1>2, <1>3, <1>4, <1>5, <1>6, <1>7, <1>8 DEF Next

\* Every step keeps the counters natural.
LEMMA StepKeepsCounters ==
    ASSUME CountersInv, [Next]_vars
    PROVE  CountersInv'
<1>1. CASE UNCHANGED vars \/ Tick \/ (\E r \in Requests : Emit(r))
                \/ (\E row \in wire : Offer(row)) \/ Drain
  BY <1>1 DEF CountersInv, vars, runtime, history, Tick, Emit, Offer, Drain
<1>2. ASSUME NEW r \in Requests, CancelRequest(r) PROVE CountersInv'
  BY <1>2 DEF CountersInv, CancelRequest
<1>3. ASSUME NEW ready, BeginCandidate(ready) PROVE CountersInv'
  BY <1>3 DEF CountersInv, BeginCandidate
<1>4. ASSUME NEW i \in DOMAIN made, Discard(i) PROVE CountersInv'
  BY <1>4 DEF CountersInv, Discard
<1>5. ASSUME NEW i \in DOMAIN made, NEW policy \in Policies, Commit(i, policy)
      PROVE CountersInv'
  BY <1>5 DEF CountersInv, Commit, Advance
<1>6. CASE Reset
  <2>1. /\ epoch' = epoch + 1 /\ active' = 0 /\ slot' = slot + 1 /\ buf' = buf + 1 /\ opt' = 0
        /\ round' = round /\ events' = events + 1
    BY <1>6 DEF Reset
  <2>2. disabled' \in BOOLEAN  BY <1>6 DEF Reset
  <2>. QED  BY <2>1, <2>2 DEF CountersInv
<1>7. CASE Disable  BY <1>7 DEF CountersInv, Disable
<1>. QED  BY <1>1, <1>2, <1>3, <1>4, <1>5, <1>6, <1>7 DEF Next

\* Every step keeps what is said of the rows: a slot generation is never
\* reused, so a row of an old epoch is never legal again.
LEMMA StepKeepsRows ==
    ASSUME RowsInv, CountersInv, [Next]_vars
    PROVE  RowsInv'
<1>0. \A row \in Row : row.slot \in Nat /\ row.epoch \in Nat  BY DEF Row
<1>1. ASSUME UNCHANGED << signals, wire, batch, emitted, epoch, slot >>
      PROVE  RowsInv'
  BY <1>1 DEF RowsInv, RowsOfThisEpoch, WireGenerations
<1>2. ASSUME NEW r \in Requests, Emit(r) PROVE RowsInv'
  <2> DEFINE new == [request |-> r, seq |-> emitted[r] + 1, version |-> active,
                     slot |-> slot, epoch |-> epoch]
  <2>1. new \in Row /\ new.slot = slot /\ new.epoch = epoch
    BY <1>2 DEF RowsInv, CountersInv, Row
  <2>2. /\ wire' = wire \cup {new}
        /\ emitted' = [emitted EXCEPT ![r] = @ + 1]
        /\ UNCHANGED << signals, batch, epoch, slot >>
    BY <1>2 DEF Emit, runtime
  <2> HIDE DEF new
  <2>3. WireGenerations' /\ wire' \subseteq Row
    BY <2>1, <2>2 DEF RowsInv, WireGenerations, CountersInv
  <2>4. emitted' \in [Requests -> Nat]  BY <2>2 DEF RowsInv
  <2>. QED  BY <2>2, <2>3, <2>4 DEF RowsInv, RowsOfThisEpoch
<1>3. ASSUME NEW row \in wire, Offer(row) PROVE RowsInv'
  <2>1. /\ wire' = wire \ {row}
        /\ UNCHANGED << batch, emitted, epoch, slot >>
        /\ signals' = IF Legal(row) THEN KeepLatest(row) ELSE signals
    BY <1>3 DEF Offer
  <2>2. Legal(row) => row.epoch = epoch
    BY <1>3 DEF Legal, RowsInv, WireGenerations
  <2>3. /\ signals' \subseteq signals \cup {row}
        /\ row \in signals' \ signals => Legal(row)
        /\ row \in signals' \ signals =>
              \A s \in signals' : s.request = row.request => s = row
    BY <2>1 DEF KeepLatest
  <2>4. \A s, t \in signals' : s.request = t.request => s = t
    BY <2>3 DEF RowsInv
  <2>5. signals' \subseteq Row /\ RowsOfThisEpoch'
    BY <1>3, <2>1, <2>2, <2>3 DEF RowsInv, RowsOfThisEpoch
  <2>. QED  BY <2>1, <2>4, <2>5 DEF RowsInv, WireGenerations
<1>4. CASE Drain
  BY <1>4 DEF Drain, RowsInv, RowsOfThisEpoch, WireGenerations
<1>5. ASSUME NEW r \in Requests, CancelRequest(r) PROVE RowsInv'
  <2>1. /\ signals' \subseteq signals /\ slot' = slot + 1
        /\ UNCHANGED << wire, batch, emitted, epoch >>
    BY <1>5 DEF CancelRequest, rows
  <2>2. WireGenerations'
    BY <1>0, <2>1 DEF RowsInv, WireGenerations, CountersInv
  <2>. QED  BY <2>1, <2>2 DEF RowsInv, RowsOfThisEpoch
<1>6. CASE Reset
  <2>1. /\ signals' = {} /\ slot' = slot + 1
        /\ UNCHANGED << wire, batch, emitted >>
    BY <1>6 DEF Reset, rows
  <2>2. WireGenerations'
    BY <1>0, <2>1 DEF RowsInv, WireGenerations, CountersInv
  <2>. QED  BY <2>1, <2>2 DEF RowsInv, RowsOfThisEpoch
<1>7. ASSUME NEW ready, BeginCandidate(ready) PROVE RowsInv'
  BY <1>7 DEF BeginCandidate, RowsInv, RowsOfThisEpoch, WireGenerations
<1>8. CASE Tick \/ Disable \/ (\E i \in DOMAIN made : Discard(i))
              \/ (\E i \in DOMAIN made : \E policy \in Policies : Commit(i, policy))
  <2>1. UNCHANGED << signals, wire, batch, emitted, epoch, slot >>
    BY <1>8 DEF Tick, Disable, Discard, Commit, runtime, rows
  <2>. QED  BY <1>1, <2>1
<1>9. CASE UNCHANGED vars  BY <1>1, <1>9 DEF vars, runtime, rows
<1>. QED  BY <1>2, <1>3, <1>4, <1>5, <1>6, <1>7, <1>8, <1>9 DEF Next

\* The invariant holds of every behaviour.
LEMMA CohortInvariant == Spec => []IInv
<1>0. Init => RowsInv
  BY DEF Init, RowsInv, RowsOfThisEpoch, WireGenerations
<1>1. Init => CountersInv
  <2>1. Init => disabled \in BOOLEAN  BY DEF Init
  <2>2. Init => /\ epoch = 0 /\ active = 0 /\ slot = 0 /\ buf = 0 /\ opt = 0
                /\ round = 0 /\ events = 0
    BY DEF Init
  <2>. QED  BY <2>1, <2>2 DEF CountersInv
<1>2. Init => CandidatesInv
  <2> SUFFICES ASSUME Init PROVE CandidatesInv  OBVIOUS
  <2>1. made \in Seq(Candidate) /\ ends \in Seq(End) /\ Len(made) = 0 /\ DOMAIN ends = {}
    BY EmptySeq DEF Init
  <2>2. {ends[i].id : i \in DOMAIN ends} = {} /\ (1..Len(made)) \ {inflight} = {}
    BY <2>1
  <2>3. PublishedInEpoch = {}  BY <2>1 DEF PublishedInEpoch
  <2>4. VersionCountsPublications
    BY <2>3, FS_EmptySet DEF Init, VersionCountsPublications
  <2>. QED
    BY <2>1, <2>2, <2>4
    DEF Init, CandidatesInv, EachCandidateEndsOnce, PublishedUndisturbed, InFlightUndisturbed,
        EndsNotLater
<1>3. IInv /\ [Next]_vars => IInv'
  <2>1. RowsInv' /\ CountersInv' /\ CandidatesInv' => IInv'  BY InvariantParts, PTL
  <2>. QED
    BY <2>1, InvariantParts, StepKeepsRows, StepKeepsCounters, StepKeepsCandidates
<1>. QED  BY <1>0, <1>1, <1>2, <1>3, InvariantParts, PTL DEF Spec

\* Type correctness of the cohort runtime.
THEOREM CohortTypeCorrect == Spec => []TypeOK
BY CohortInvariant, PTL DEF IInv

\* commit, discard, cancel_request, reset and disable end every candidate of
\* the cohort exactly once.
THEOREM CandidatesEndOnce == Spec => []EachCandidateEndsOnce
BY CohortInvariant, PTL DEF IInv

\* Nothing happens to the cohort between the creation of a candidate and its
\* publication.
THEOREM PublicationUndisturbed == Spec => []PublishedUndisturbed
BY CohortInvariant, PTL DEF IInv

\* active_version and optimizer_state_generation count the publications of
\* the epoch.
THEOREM VersionIsPublicationCount == Spec => []VersionCountsPublications
BY CohortInvariant, PTL DEF IInv

\* No row of an earlier epoch is ever buffered, although adapter versions
\* start again from 0 after a reset.
THEOREM BufferedRowsCurrent == Spec => []RowsOfThisEpoch
BY CohortInvariant, PTL DEF IInv
-----------------------------------------------------------------------------
\* A multiple of the stride leaves no remainder.
LEMMA MultipleOfStride ==
    ASSUME NEW k \in Nat, NEW s \in Nat \ {0}
    PROVE  (k * s) % s = 0
<1> DEFINE p == k * s
           d == p \div s
           r == p % s
<1>1. d \in Nat /\ r \in 0..(s - 1) /\ p = s * d + r /\ p \in Nat  OBVIOUS
<1>2. p = s * k  OBVIOUS
<1> HIDE DEF p, d, r
<1>3. CASE d < k
  <2>1. k - d \in Nat /\ k - d >= 1 /\ s * k = s * d + s * (k - d)  BY <1>1, <1>3
  <2>2. s * (k - d) >= s  BY <2>1
  <2>. QED  BY <1>1, <1>2, <2>1, <2>2
<1>4. CASE d > k
  <2>1. d - k \in Nat /\ d - k >= 1 /\ s * d = s * k + s * (d - k)  BY <1>1, <1>4
  <2>2. s * (d - k) >= s  BY <2>1
  <2>. QED  BY <1>1, <1>2, <2>1, <2>2
<1>5. CASE d = k
  <2>1. s * d = p /\ s * d \in Nat  BY <1>1, <1>2, <1>5
  <2>2. r = 0  BY <1>1, <2>1
  <2>. QED  BY <2>2 DEF r, p
<1>. QED  BY <1>1, <1>3, <1>4, <1>5

\* The barrier of a source round is a later multiple of the stride.
LEMMA BoundaryFacts ==
    ASSUME NEW source \in Nat
    PROVE  /\ NextBoundary(source) \in Nat
           /\ NextBoundary(source) >= source + 1
           /\ NextBoundary(source) % Stride = 0
<1>0. Stride \in Nat \ {0}  BY CohortAssumption
<1> DEFINE q == source \div Stride
           r == source % Stride
<1>1. q \in Nat /\ r \in 0..(Stride - 1) /\ source = Stride * q + r  BY <1>0
<1> HIDE DEF q, r
<1>2. (q + 1) * Stride = Stride * q + Stride /\ (q + 1) * Stride \in Nat  BY <1>0, <1>1
<1>3. NextBoundary(source) = (q + 1) * Stride  BY DEF NextBoundary, q
<1>4. (q + 1) * Stride >= source + 1
  <2>1. Stride * q \in Nat  BY <1>0, <1>1
  <2>. QED  BY <1>0, <1>1, <1>2, <2>1
<1>5. ((q + 1) * Stride) % Stride = 0
  <2>1. q + 1 \in Nat  BY <1>1
  <2>. QED  BY <1>0, <2>1, MultipleOfStride
<1>. QED  BY <1>2, <1>3, <1>4, <1>5

\* What PublicationWaits says of one termination e of the candidate c.
Waited(e, c) ==
    e.outcome = "published" =>
        /\ e.round >= c.ready + Extra
        /\ e.policy = "tts" => \E barrier \in (c.source + 1)..e.round : barrier % Stride = 0

\* A commit that publication_round allows has waited.
LEMMA CommitWaited ==
    ASSUME CountersInv, NEW i, NEW policy \in Policies, made[i] \in Candidate,
           CanPublish(i, policy)
    PROVE  /\ round >= made[i].ready + Extra
           /\ policy = "tts" =>
                 \E barrier \in (made[i].source + 1)..round : barrier % Stride = 0
<1> DEFINE c == made[i]
           delayed == c.ready + Extra
           b == NextBoundary(c.source)
<1>1. c.ready \in Nat /\ c.source \in Nat /\ Extra \in Nat /\ round \in Nat
  BY CohortAssumption DEF Candidate, CountersInv
<1>2. b \in Nat /\ b >= c.source + 1 /\ b % Stride = 0  BY <1>1, BoundaryFacts
<1>3. round >= (IF policy = "l0" \/ delayed >= b THEN delayed ELSE b)
  BY DEF CanPublish, PublicationRound
<1> HIDE DEF b
<1>4. round >= delayed  BY <1>1, <1>2, <1>3
<1>5. ASSUME policy = "tts"  PROVE b \in (c.source + 1)..round  BY <1>1, <1>2, <1>3, <1>5
<1>. QED  BY <1>2, <1>4, <1>5

\* Every step keeps what is said of the terminations: their candidates are not
\* replaced, and a new publication has waited.
LEMMA StepKeepsWaits ==
    ASSUME CandidatesInv, CountersInv, PublicationWaits, [Next]_vars
    PROVE  PublicationWaits'
<1>m. PICK m \in Nat : m = Len(ends)  BY DEF CandidatesInv
<1>n. PICK n \in Nat : n = Len(made)  BY DEF CandidatesInv
<1>1. /\ DOMAIN ends = 1..m /\ DOMAIN made = 1..n
      /\ \A j \in 1..m : ends[j].id \in 1..n
  BY <1>m, <1>n DEF CandidatesInv, EachCandidateEndsOnce
<1>2. \A j \in 1..m : Waited(ends[j], made[ends[j].id])
  BY <1>1 DEF PublicationWaits, Waited
<1>3. ASSUME DOMAIN ends' = 1..m, \A j \in 1..m : ends'[j] = ends[j] /\ made'[ends[j].id] = made[ends[j].id]
      PROVE  PublicationWaits'
  <2>1. \A j \in DOMAIN ends' : Waited(ends'[j], made'[ends'[j].id])  BY <1>2, <1>3
  <2>. QED  BY <2>1 DEF PublicationWaits, Waited
<1>4. ASSUME UNCHANGED << made, ends >>  PROVE PublicationWaits'  BY <1>1, <1>3, <1>4
<1>5. ASSUME NEW i \in DOMAIN made, NEW outcome \in {"published", "discarded"},
             NEW policy \in Policies \cup {"none"},
             Terminate(i, outcome, policy), UNCHANGED made,
             outcome = "published" => policy \in Policies /\ CanPublish(i, policy)
      PROVE  PublicationWaits'
  <2> DEFINE e == [id |-> i, outcome |-> outcome, epoch |-> epoch, round |-> round,
                   events |-> events, policy |-> policy]
  <2>1. made[i] \in Candidate  BY <1>1 DEF CandidatesInv
  <2>2. e \in End  BY <1>1, <1>5 DEF End, CountersInv
  <2>3. ends' = Append(ends, e)  BY <1>5 DEF Terminate
  <2>4. e.id = i /\ Waited(e, made[i])  BY <1>5, <2>1, CommitWaited DEF Waited
  <2> HIDE DEF e
  <2>5. /\ DOMAIN ends' = 1..(m + 1) /\ ends'[m + 1] = e
        /\ \A j \in 1..m : ends'[j] = ends[j]
    BY <1>m, <2>2, <2>3 DEF CandidatesInv
  <2>6. ASSUME NEW j \in 1..(m + 1)  PROVE Waited(ends'[j], made'[ends'[j].id])
    <3>1. CASE j \in 1..m  BY <1>2, <1>5, <2>5, <3>1
    <3>2. CASE j = m + 1  BY <1>5, <2>4, <2>5, <3>2
    <3>. QED  BY <3>1, <3>2
  <2>. QED  BY <2>5, <2>6 DEF PublicationWaits, Waited
<1>6. ASSUME DiscardInFlight, UNCHANGED made  PROVE PublicationWaits'
  <2>1. CASE inflight # 0
    <3>1. inflight \in DOMAIN made  BY <2>1 DEF CandidatesInv
    <3>. QED  BY <1>5, <1>6, <2>1, <3>1 DEF DiscardInFlight
  <2>2. CASE inflight = 0  BY <1>4, <1>6, <2>2 DEF DiscardInFlight
  <2>. QED  BY <2>1, <2>2
<1>7. ASSUME NEW ready \in Nat, BeginCandidate(ready)  PROVE PublicationWaits'
  <2> DEFINE c == [source |-> round, ready |-> ready, version |-> active, epoch |-> epoch,
                   slot |-> slot, buf |-> buf, opt |-> opt, events |-> events]
  <2>1. c \in Candidate  BY DEF CountersInv, Candidate
  <2>2. made' = Append(made, c) /\ UNCHANGED ends  BY <1>7 DEF BeginCandidate
  <2> HIDE DEF c
  <2>3. \A j \in 1..n : made'[j] = made[j]  BY <1>n, <2>1, <2>2 DEF CandidatesInv
  <2>. QED  BY <1>1, <1>3, <2>2, <2>3
<1>8. CASE Tick \/ (\E r \in Requests : Emit(r)) \/ (\E row \in wire : Offer(row)) \/ Drain
             \/ UNCHANGED vars
  BY <1>4, <1>8 DEF Tick, Emit, Offer, Drain, history, vars
<1>9. ASSUME NEW r \in Requests, CancelRequest(r) PROVE PublicationWaits'
  BY <1>6, <1>9 DEF CancelRequest
<1>10. ASSUME NEW ready \in round..(round + MaxLag), BeginCandidate(ready) PROVE PublicationWaits'
  BY <1>7, <1>10, CohortAssumption DEF CountersInv
<1>11. ASSUME NEW i \in DOMAIN made, Discard(i) PROVE PublicationWaits'
  BY <1>5, <1>11 DEF Discard
<1>12. ASSUME NEW i \in DOMAIN made, NEW policy \in Policies, Commit(i, policy)
       PROVE PublicationWaits'
  BY <1>5, <1>12 DEF Commit
<1>13. CASE Reset \/ Disable  BY <1>6, <1>13 DEF Reset, Disable
<1>. QED  BY <1>8, <1>9, <1>10, <1>11, <1>12, <1>13 DEF Next

\* A publication waits for its ready round, and under tts also for a barrier
\* after its source round (publication_round).
THEOREM PublicationsWait == Spec => []PublicationWaits
<1>1. Init => PublicationWaits  BY DEF Init, PublicationWaits
<1>2. IInv /\ PublicationWaits /\ [Next]_vars => PublicationWaits'
  BY InvariantParts, StepKeepsWaits
<1>. QED  BY <1>1, <1>2, CohortInvariant, PTL DEF Spec
=============================================================================
