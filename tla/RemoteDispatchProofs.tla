------------------------ MODULE RemoteDispatchProofs ------------------------
(***************************************************************************)
(* Proofs about RemoteDispatch, for any wave, any workers and any retry    *)
(* allowance, when no wave is rerun beside a live worker of it: no         *)
(* assignment runs twice at once or after its success, and a terminal      *)
(* result is what the journal says.  IInv leaves one worker active         *)
(* (RemoteDispatchTypes), and WaveInv says that this one knows its whole   *)
(* journal.                                                                *)
(***************************************************************************)
EXTENDS RemoteDispatchTypes, TLAPS

-----------------------------------------------------------------------------
(* What an append does to a replay of the journal.                         *)

\* An appended event adds its own position to what its kind and assignment
\* select, and leaves the earlier events where they are.
LEMMA Appended ==
  ASSUME NEW events \in Seq(Event), NEW e \in Event, NEW a \in Assignments
  PROVE  LET more == Append(events, e)
             n == Len(events) + 1
         IN  /\ more \in Seq(Event) /\ Len(more) = n
             /\ more[n] = e /\ \A i \in 1..Len(events) : more[i] = events[i]
             /\ FinishesOf(more, a) = FinishesOf(events, a) \cup
                    (IF e.kind = "FINISH" /\ e.a = a THEN {n} ELSE {})
             /\ IntentsOf(more, a) = IntentsOf(events, a) \cup
                    (IF e.kind = "INTENT" /\ e.a = a THEN {n} ELSE {})
<1> DEFINE more == Append(events, e)
           n == Len(events) + 1
<1>1. /\ more \in Seq(Event) /\ Len(more) = n /\ n \in Nat /\ Len(events) \in Nat
      /\ more[n] = e /\ \A i \in 1..Len(events) : more[i] = events[i]
  OBVIOUS
<1>2. 1..Len(more) = (1..Len(events)) \cup {n}
  BY <1>1
<1> HIDE DEF more
<1>3. FinishesOf(more, a) = FinishesOf(events, a) \cup
          (IF e.kind = "FINISH" /\ e.a = a THEN {n} ELSE {})
  BY <1>1, <1>2, Zenon DEF FinishesOf
<1>4. IntentsOf(more, a) = IntentsOf(events, a) \cup
          (IF e.kind = "INTENT" /\ e.a = a THEN {n} ELSE {})
  BY <1>1, <1>2, Zenon DEF IntentsOf
<1>5. QED
  BY <1>1, <1>3, <1>4, Zenon DEF more

\* A prefix keeps its events when the journal grows, and the whole journal is
\* a prefix of itself.
LEMMA PrefixKept ==
  ASSUME NEW events \in Seq(Event), NEW e \in Event, NEW c \in Nat, c <= Len(events)
  PROVE  /\ SubSeq(Append(events, e), 1, c) = SubSeq(events, 1, c)
         /\ SubSeq(events, 1, Len(events)) = events
<1> DEFINE more == Append(events, e)
<1>1. /\ more \in Seq(Event) /\ Len(more) = Len(events) + 1
      /\ \A i \in 1..Len(events) : more[i] = events[i]
  OBVIOUS
<1> HIDE DEF more
<1>2. /\ SubSeq(events, 1, c) \in Seq(Event) /\ SubSeq(more, 1, c) \in Seq(Event)
      /\ Len(SubSeq(events, 1, c)) = c /\ Len(SubSeq(more, 1, c)) = c
      /\ \A i \in 1..c : SubSeq(events, 1, c)[i] = events[i]
      /\ \A i \in 1..c : SubSeq(more, 1, c)[i] = more[i]
  BY <1>1
<1>3. SubSeq(more, 1, c) = SubSeq(events, 1, c)
  BY <1>1, <1>2
<1>4. SubSeq(events, 1, Len(events)) = events
  OBVIOUS
<1>5. QED
  BY <1>3, <1>4, Zenon DEF more

LEMMA WholeKept ==
  ASSUME NEW events \in Seq(Event)
  PROVE  SubSeq(events, 1, Len(events)) = events
<1>1. 0 \in Nat /\ 0 <= Len(events)
  OBVIOUS
<1>2. QED
  BY <1>1, WaveEventTyped, PrefixKept, Zenon

LEMMA AppendedFinishes ==
  ASSUME NEW events \in Seq(Event), NEW e \in Event, NEW a \in Assignments
  PROVE  FinishesOf(Append(events, e), a) = FinishesOf(events, a) \cup
             (IF e.kind = "FINISH" /\ e.a = a THEN {Len(events) + 1} ELSE {})
BY Appended

\* What an append does to the open attempts of a journal: an INTENT opens one,
\* a FINISH closes it.
LEMMA OpenAfterAppend ==
  ASSUME NEW events \in Seq(Event), NEW e \in Event
  PROVE  Incomplete(Append(events, e)) =
             CASE e.kind = "INTENT" -> Incomplete(events) \cup {e.a}
               [] e.kind = "FINISH" -> Incomplete(events) \ {e.a}
               [] OTHER -> Incomplete(events)
<1>1. ASSUME NEW a \in Assignments
      PROVE  a \in Incomplete(Append(events, e)) <=>
                 \/ e.kind = "INTENT" /\ e.a = a
                 \/ a \in Incomplete(events) /\ ~(e.kind = "FINISH" /\ e.a = a)
  <2> DEFINE more == Append(events, e)
             n == Len(events) + 1
  <2>1. /\ FinishesOf(more, a) = FinishesOf(events, a) \cup
               (IF e.kind = "FINISH" /\ e.a = a THEN {n} ELSE {})
        /\ IntentsOf(more, a) = IntentsOf(events, a) \cup
               (IF e.kind = "INTENT" /\ e.a = a THEN {n} ELSE {})
    BY Appended
  <2>2. /\ FinishesOf(events, a) \subseteq 1..Len(events)
        /\ IntentsOf(events, a) \subseteq 1..Len(events)
        /\ Len(events) \in Nat
    BY DEF FinishesOf, IntentsOf
  <2>3. /\ a \in Incomplete(events) <=> \E i \in IntentsOf(events, a) :
                                            \A j \in FinishesOf(events, a) : j < i
        /\ a \in Incomplete(more) <=> \E i \in IntentsOf(more, a) :
                                          \A j \in FinishesOf(more, a) : j < i
    BY DEF Incomplete
  <2> HIDE DEF more
  <2>4. \A i \in 1..Len(events) : i < n /\ ~(n < i)
    BY <2>2
  <2>6. CASE e.kind = "INTENT" /\ e.a = a
    <3>1. n \in IntentsOf(more, a) /\ FinishesOf(more, a) = FinishesOf(events, a)
      BY <2>1, <2>6, Zenon
    <3>2. QED
      BY <2>2, <2>3, <2>4, <2>6, <3>1, Zenon DEF more
  <2>7. CASE e.kind = "FINISH" /\ e.a = a
    <3>1. n \in FinishesOf(more, a) /\ IntentsOf(more, a) = IntentsOf(events, a)
      BY <2>1, <2>7, Zenon
    <3>2. a \notin Incomplete(more)
      BY <2>2, <2>3, <2>4, <3>1, Zenon
    <3>3. QED
      BY <2>7, <3>2, Zenon DEF more
  <2>8. CASE ~(e.kind = "INTENT" /\ e.a = a) /\ ~(e.kind = "FINISH" /\ e.a = a)
    <3>1. FinishesOf(more, a) = FinishesOf(events, a) /\ IntentsOf(more, a) = IntentsOf(events, a)
      BY <2>1, <2>8, Zenon
    <3>2. QED
      BY <2>3, <2>8, <3>1, Zenon DEF more
  <2>9. QED
    BY <2>6, <2>7, <2>8, Zenon
<1>2. Incomplete(events) \subseteq Assignments /\ Incomplete(Append(events, e)) \subseteq Assignments
  BY DEF Incomplete
<1>3. e.kind = "INTENT" => e.a \in Assignments
  BY Zenon DEF Event
<1>4. QED
  BY <1>1, <1>2, <1>3, Zenon

\* What a durable event does to the worker's record: an INTENT moves from what
\* is pending to what is owed, a FINISH is no longer owed.
LEMMA WrittenOwed ==
  ASSUME TypeOK, NEW w \in Workers, worker[w].pc = "write", Apart(worker[w])
  PROVE  LET q == worker[w]
             r == Written(w)
         IN  /\ r.pc \in {"verify", "run", "publish"}
             /\ r.count = q.count + 1 /\ r.ended = q.ended /\ r.reply = q.reply
             /\ r.req = q.req
             /\ r.pending = IF q.event.kind = "INTENT" THEN q.pending \ {q.event.a}
                                                       ELSE q.pending
             /\ Owed(r) = CASE q.event.kind = "INTENT" -> Owed(q) \cup {q.event.a}
                            [] q.event.kind = "FINISH" -> Owed(q) \ {q.event.a}
                            [] OTHER -> Owed(q)
             /\ FinishDue(r) = {}
             /\ Apart(r)
<1> DEFINE q == worker[w]
           todo == IF q.event.kind = "INTENT" THEN q.pending \ {q.event.a} ELSE q.pending
           tokens == IF q.event.kind = "INTENT" THEN q.tokens \cup {q.event.a}
                                                ELSE q.tokens
           next == [q EXCEPT !.count = q.count + 1, !.pending = todo]
           r == Written(w)
<1>0. /\ q \in WorkerState /\ q.event \in Event /\ q.event.kind \in Kinds
      /\ q.pending \in SUBSET Assignments /\ q.tokens \in SUBSET Assignments
      /\ q.event.kind # "WAVE" => q.event.a \in Assignments
  BY TypedParts, Zenon DEF Event
<1>1. /\ next \in WorkerState
      /\ next.count = q.count + 1 /\ next.pending = todo /\ next.ended = q.ended
      /\ next.reply = q.reply /\ next.req = q.req /\ next.live = q.live
      /\ next.tokens = q.tokens /\ next.event = q.event
  <2>1. todo \in SUBSET Assignments
    BY <1>0, Zenon
  <2>2. q.count + 1 \in Nat
    BY TypedParts
  <2> HIDE DEF todo
  <2>3. QED
    BY <1>0, <2>1, <2>2, Zenon DEF WorkerState
<1>2. CASE q.event.kind = "FINISH"
  <2>1. q.tokens = {} /\ q.pending = {} /\ todo = {}
    BY <1>2, Zenon DEF Apart, Launching
  <2>2. r = [next EXCEPT !.pc = IF q.live = {} /\ q.ended = {} THEN "publish" ELSE "run"]
    BY <1>2, <2>1, Zenon DEF Written
  <2>3. /\ r.pc = IF q.live = {} /\ q.ended = {} THEN "publish" ELSE "run"
        /\ r.count = q.count + 1 /\ r.ended = q.ended /\ r.reply = q.reply
        /\ r.req = q.req /\ r.pending = {} /\ r.tokens = {} /\ r.live = q.live
    BY <1>1, <2>1, <2>2, ZenonT(40) DEF WorkerState
  <2> HIDE DEF r, next, todo, tokens
  <2>4. FinishDue(r) = {} /\ EndedOf(r) = EndedOf(q) /\ ~Launching(r)
    BY <2>3 DEF FinishDue, EndedOf, Launching
  <2>5. FinishDue(q) = {q.event.a} /\ q.event.a \notin q.live \cup EndedOf(q)
    BY <1>0, <1>2 DEF FinishDue, Apart
  <2>6. Owed(r) = Owed(q) \ {q.event.a}
    BY <2>1, <2>3, <2>4, <2>5 DEF Owed
  <2>7. Apart(r)
    BY <2>3, <2>4, Zenon DEF Apart
  <2>8. QED
    BY <1>2, <2>1, <2>3, <2>4, <2>6, <2>7, Zenon DEF r
<1>3. CASE q.event.kind # "FINISH" /\ todo # {}
  <2> DEFINE event == [kind |-> "INTENT", a |-> First(todo), ok |-> FALSE]
  <2>1. /\ q.live = {} /\ q.ended = {} /\ q.tokens \cap q.pending = {}
        /\ q.event.kind = "INTENT" => q.event.a \in q.pending
    BY <1>3, Zenon DEF Apart, Launching
  <2>2. r = [next EXCEPT !.pc = "verify", !.tokens = tokens, !.event = event]
    BY <1>3, Zenon DEF Written
  <2>3. First(todo) \in todo
    BY <1>0, <1>3, FirstPending, Zenon
  <2>a. event.kind = "INTENT" /\ event.a = First(todo)
    OBVIOUS
  <2> HIDE DEF next, event, todo, tokens
  <2>4. /\ r.pc = "verify" /\ r.event = event
        /\ r.count = q.count + 1 /\ r.ended = {} /\ r.reply = q.reply
        /\ r.req = q.req /\ r.pending = todo /\ r.tokens = tokens /\ r.live = {}
    BY <1>1, <2>1, <2>2, ZenonT(40) DEF WorkerState
  <2> HIDE DEF r
  <2>5. FinishDue(r) = {} /\ EndedOf(r) = {} /\ Launching(r)
    BY <2>a, <2>4 DEF FinishDue, EndedOf, Launching
  <2>6. FinishDue(q) = {} /\ EndedOf(q) = {}
    BY <1>3, <2>1 DEF FinishDue, EndedOf
  <2>7. Owed(q) = q.tokens /\ Owed(r) = tokens
    BY <2>1, <2>4, <2>5, <2>6 DEF Owed
  <2>8. Apart(r)
    <3>1. r.tokens \cap r.pending = {}
      BY <2>1, <2>4, Zenon DEF todo, tokens
    <3>2. QED
      BY <2>a, <2>3, <2>4, <2>5, <3>1, Zenon DEF Apart
  <2>9. QED
    BY <1>3, <2>1, <2>4, <2>5, <2>7, <2>8, Zenon DEF r, todo, tokens
<1>4. CASE q.event.kind # "FINISH" /\ todo = {}
  <2>1. q.live = {} /\ q.ended = {}
    BY <1>4, Zenon DEF Apart, Launching
  <2>2. r = [next EXCEPT !.pc = "run", !.tokens = {}, !.live = tokens]
    BY <1>4, Zenon DEF Written
  <2>3. /\ r.pc = "run"
        /\ r.count = q.count + 1 /\ r.ended = {} /\ r.reply = q.reply
        /\ r.req = q.req /\ r.pending = {} /\ r.tokens = {} /\ r.live = tokens
    BY <1>1, <1>4, <2>1, <2>2, ZenonT(40) DEF WorkerState
  <2> HIDE DEF r, next
  <2>4. FinishDue(r) = {} /\ EndedOf(r) = {} /\ ~Launching(r)
    BY <2>3 DEF FinishDue, EndedOf, Launching
  <2>5. FinishDue(q) = {} /\ EndedOf(q) = {}
    BY <1>4, <2>1 DEF FinishDue, EndedOf
  <2>6. Owed(q) = q.tokens /\ Owed(r) = tokens
    BY <2>1, <2>3, <2>4, <2>5 DEF Owed
  <2>7. Apart(r)
    BY <2>3, <2>4 DEF Apart
  <2>8. QED
    BY <1>4, <2>1, <2>3, <2>4, <2>6, <2>7, Zenon DEF r
<1>5. QED
  BY <1>2, <1>3, <1>4, Zenon

-----------------------------------------------------------------------------
(* The wave's invariant: what a step leaves alone.                         *)

\* Every published envelope still binds the same events.
BoundsKept == \A p \in Paths : receipts[p] # None =>
                  /\ receipts'[p] = receipts[p]
                  /\ Bound(receipts[p])' = Bound(receipts[p])

\* A journal nobody writes to binds what it bound.
LEMMA SameBounds ==
  ASSUME journal' = journal
  PROVE  \A envelope : Bound(envelope)' = Bound(envelope)
BY DEF Bound

\* The envelope named by a typed path.
LEMMA EnvelopeTyped ==
  ASSUME TypeOK, NEW p \in Paths, receipts[p] # None
  PROVE  receipts[p].root \in Paths /\ receipts[p].count \in Nat
BY DEF TypeOK

\* A worker keeps its part of the invariant when its record stays, traces and
\* receipts only grow, and no journal changes under one that executes.
LEMMA WorkerFrame ==
  ASSUME TypeOK, ReceiptsNamed, NEW w \in Workers, WorkerInv(w),
         worker'[w] = worker[w], traced \subseteq traced', BoundsKept,
         Inert(w) \/ journal' = journal
  PROVE  WorkerInv(w)'
<1>1. Executes(w) \/ worker[w].pc = "recover" => journal' = journal
  BY DEF Executes, Inert
<1>2. Executes(w)' = Executes(w)
  BY Zenon DEF Executes
<1>3. ASSUME Executes(w)
      PROVE  /\ ~Broken(w)' /\ KnowsJournal(worker[w], Events(w)')
             /\ \A a \in worker[w].pending \cup Owed(worker[w]) : NeverSucceeded(a)'
             /\ \A e \in worker[w].ended : e.ok => e.a \in traced'
             /\ \A a \in FinishDue(worker[w]) : worker[w].event.ok => a \in traced'
             /\ Apart(worker[w])
  <2>1. journal' = journal
    BY <1>1, <1>3, Zenon
  <2>2. Broken(w)' = Broken(w) /\ Events(w)' = Events(w)
        /\ \A a : NeverSucceeded(a)' = NeverSucceeded(a)
    BY <2>1, Zenon DEF Broken, Events, NeverSucceeded
  <2>3. QED
    BY <1>3, <2>2, Zenon DEF WorkerInv
<1>4. ASSUME worker[w].pc = "recover"
      PROVE  /\ worker[w].count = Len(Events(w)')
             /\ HasReceipt(Events(w)') /\ Incomplete(Events(w)') = {}
  <2>1. Events(w)' = Events(w)
    BY <1>1, <1>4, Zenon DEF Events
  <2>2. QED
    BY <1>4, <2>1, Zenon DEF WorkerInv
<1>5. ASSUME worker[w].reply \in {"SUCCEEDED", "FAILED"}
      PROVE  /\ receipts'[worker[w].req.out].root = worker[w].req.root
             /\ worker[w].reply = "SUCCEEDED" <=>
                    AllSucceeded(Bound(receipts[worker[w].req.out])')
  <2>1. receipts[worker[w].req.out] # None /\ worker[w].req.out \in Paths
    BY <1>5, TypedParts, Zenon DEF ReceiptsNamed
  <2>2. QED
    BY <1>5, <2>1, Zenon DEF WorkerInv, BoundsKept
<1>6. QED
  BY <1>2, <1>3, <1>4, <1>5, Zenon DEF WorkerInv

\* The journals and what was published from them keep their invariant in a
\* step that writes neither.
LEMMA DiskFrame ==
  ASSUME TypeOK, JournalInv, RootInv, EnvelopeInv,
         journal' = journal, traced \subseteq traced', receipts' = receipts
  PROVE  /\ JournalInv' /\ EnvelopeInv' /\ BoundsKept
         /\ request' = request => RootInv'
<1>1. BoundsKept
  BY SameBounds, Zenon DEF BoundsKept
<1>2. JournalInv'
  BY Zenon DEF JournalInv
<1>3. EnvelopeInv'
  BY SameBounds, Zenon DEF EnvelopeInv
<1>4. request' = request => RootInv'
  BY DEF RootInv
<1>5. QED
  BY <1>1, <1>2, <1>3, <1>4, Zenon

\* The result keeps its invariant while it and the request's journal stay.
LEMMA ResultFrame ==
  ASSUME TypeOK, ReceiptsNamed, ResultInv, BoundsKept,
         result' = result \/ result'.receipt = 0, request'.root = request.root
  PROVE  ResultInv'
<1>1. CASE result'.receipt = 0
  BY <1>1, Zenon DEF ResultInv
<1>2. CASE result' = result /\ result.receipt # 0
  <2>1. result.receipt \in Paths /\ receipts[result.receipt] # None
    BY <1>2, Zenon DEF TypeOK, ReceiptsNamed
  <2>2. QED
    BY <1>2, <2>1, Zenon DEF ResultInv, BoundsKept
<1>3. QED
  BY <1>1, <1>2, Zenon

\* An executing worker appends its event to the request's journal: the event
\* is a WAVE, the INTENT of an assignment with no open attempt, or the FINISH
\* of an open one that has never succeeded.
LEMMA AppendFrame ==
  ASSUME WaveInv, NEW w \in Workers, worker[w].pc = "write",
         NEW b \in BOOLEAN,
         journal' = [journal EXCEPT ![worker[w].req.root] =
                         [events |-> Append(Events(w), worker[w].event), broken |-> b]],
         traced \subseteq traced', receipts' = receipts, request' = request
  PROVE  /\ JournalInv' /\ RootInv' /\ EnvelopeInv' /\ BoundsKept
         /\ \A a \in Assignments :
               NeverSucceeded(a) /\ ~(worker[w].event.kind = "FINISH" /\ worker[w].event.a = a)
                   => NeverSucceeded(a)'
<1> DEFINE e == worker[w].event
           root == worker[w].req.root
           events == Events(w)
           more == Append(events, e)
<1>1. /\ e \in Event /\ events \in Seq(Event) /\ root \in Paths
      /\ journal \in [Paths -> [events : Seq(Event), broken : BOOLEAN]]
  BY TypedParts, Zenon DEF WaveInv, TypeOK
<1>2. /\ journal'[root].events = more /\ journal[root].events = events
      /\ \A p \in Paths \ {root} : journal'[p] = journal[p]
  BY <1>1, ZenonT(40) DEF Events
<1>3. Active(w) /\ worker[w].req = request /\ root = request.root
  BY Executing, Zenon DEF WaveInv, Active
<1>4. /\ \A a \in Owed(worker[w]) : NeverSucceeded(a)
      /\ \A a \in FinishDue(worker[w]) : e.ok => a \in traced
  BY ZenonT(40) DEF WaveInv, WorkerInv, Executes
<1>5. e.kind = "FINISH" => NeverSucceeded(e.a) /\ (e.ok => e.a \in traced)
  <2> SUFFICES ASSUME e.kind = "FINISH"
               PROVE  NeverSucceeded(e.a) /\ (e.ok => e.a \in traced)
    BY Zenon
  <2>1. e.a \in Assignments
    BY <1>1, Zenon DEF Event
  <2>2. e.a \in FinishDue(worker[w])
    BY <2>1, Zenon DEF FinishDue
  <2>3. e.a \in Owed(worker[w])
    BY <2>2, Zenon DEF Owed
  <2>4. QED
    BY <1>4, <2>2, <2>3, Zenon
<1> HIDE DEF e, root, events
<1>6. ASSUME NEW a \in Assignments
      PROVE  /\ FinishesOf(more, a) = FinishesOf(events, a) \cup
                    (IF e.kind = "FINISH" /\ e.a = a THEN {Len(events) + 1} ELSE {})
             /\ more[Len(events) + 1] = e
             /\ \A i \in FinishesOf(events, a) : i \in 1..Len(events) /\ more[i] = events[i]
  BY <1>1, Appended DEF FinishesOf
<1> HIDE DEF more
<1>7. ASSUME NEW a \in Assignments, NeverSucceeded(a), ~(e.kind = "FINISH" /\ e.a = a)
      PROVE  NeverSucceeded(a)'
  <2> SUFFICES ASSUME NEW p \in Paths, NEW i \in FinishesOf(journal'[p].events, a)
               PROVE  ~journal'[p].events[i].ok
    BY Zenon DEF NeverSucceeded
  <2>1. CASE p = root
    <3>1. FinishesOf(more, a) = FinishesOf(events, a)
      BY <1>6, <1>7, Zenon
    <3>2. i \in FinishesOf(events, a) /\ more[i] = events[i]
      BY <1>2, <1>6, <2>1, <3>1, ZenonT(40)
    <3>3. ~events[i].ok
      BY <1>1, <1>2, <1>7, <3>2, Zenon DEF NeverSucceeded
    <3>4. QED
      BY <1>2, <2>1, <3>2, <3>3, Zenon
  <2>2. CASE p # root
    BY <1>2, <1>7, <2>2, ZenonT(40) DEF NeverSucceeded
  <2>3. QED
    BY <2>1, <2>2, Zenon
<1>8. BoundsKept
  <2> SUFFICES ASSUME NEW p \in Paths, receipts[p] # None
               PROVE  Bound(receipts[p])' = Bound(receipts[p])
    BY Zenon DEF BoundsKept
  <2>1. /\ receipts[p].root \in Paths /\ receipts[p].count \in Nat
        /\ receipts[p].count <= Len(journal[receipts[p].root].events)
    BY EnvelopeTyped, Zenon DEF WaveInv, EnvelopeInv
  <2>2. CASE receipts[p].root # root
    BY <1>2, <2>1, <2>2, Zenon DEF Bound
  <2>3. CASE receipts[p].root = root
    <3>1. SubSeq(more, 1, receipts[p].count) = SubSeq(events, 1, receipts[p].count)
      BY <1>1, <1>2, <2>1, <2>3, PrefixKept DEF more
    <3>2. QED
      BY <1>2, <2>3, <3>1, Zenon DEF Bound
  <2>4. QED
    BY <2>2, <2>3, Zenon
<1>9. EnvelopeInv'
  <2> SUFFICES ASSUME NEW p \in Paths, receipts[p] # None
               PROVE  /\ receipts[p].count <= Len(journal'[receipts[p].root].events)
                      /\ HasReceipt(Bound(receipts[p])')
                      /\ Incomplete(Bound(receipts[p])') = {}
    BY Zenon DEF EnvelopeInv
  <2>1. /\ receipts[p].root \in Paths /\ receipts[p].count \in Nat
        /\ receipts[p].count <= Len(journal[receipts[p].root].events)
        /\ HasReceipt(Bound(receipts[p])) /\ Incomplete(Bound(receipts[p])) = {}
    BY EnvelopeTyped, Zenon DEF WaveInv, EnvelopeInv
  <2>2. Len(more) = Len(events) + 1 /\ Len(events) \in Nat
    BY <1>1 DEF more
  <2>3. receipts[p].count <= Len(journal'[receipts[p].root].events)
    BY <1>2, <2>1, <2>2
  <2>4. QED
    BY <1>8, <2>1, <2>3, Zenon DEF BoundsKept
<1>10. JournalInv'
  <2> SUFFICES ASSUME NEW p \in Paths, NEW a \in Assignments
               PROVE  LET evs == journal'[p].events
                          finishes == FinishesOf(evs, a)
                      IN  \A i \in finishes : evs[i].ok =>
                              a \in traced' /\ \A j \in finishes : j <= i
    BY Zenon DEF JournalInv
  <2>1. CASE p # root
    <3>1. journal'[p] = journal[p]
      BY <1>2, <2>1, Zenon
    <3>2. QED
      BY <3>1, Zenon DEF WaveInv, JournalInv
  <2>2. CASE p = root
    <3>1. Len(events) \in Nat
      BY <1>1
    <3>2. \A n \in FinishesOf(events, a) : events[n].ok =>
              a \in traced /\ \A j \in FinishesOf(events, a) : j <= n
      BY <1>1, <1>2, Zenon DEF WaveInv, JournalInv
    <3>3. ASSUME NEW n \in FinishesOf(more, a), more[n].ok
          PROVE  a \in traced' /\ \A j \in FinishesOf(more, a) : j <= n
      <4>1. CASE e.kind = "FINISH" /\ e.a = a
        <5>1. \A j \in FinishesOf(events, a) : ~events[j].ok
          BY <1>1, <1>2, <1>5, <4>1, Zenon DEF NeverSucceeded
        <5>2. n = Len(events) + 1
          BY <1>6, <3>3, <4>1, <5>1
        <5>3. a \in traced'
          BY <1>5, <1>6, <3>3, <4>1, <5>2, Zenon
        <5>4. QED
          BY <1>6, <3>1, <4>1, <5>2, <5>3
      <4>2. CASE ~(e.kind = "FINISH" /\ e.a = a)
        BY <1>6, <3>2, <3>3, <4>2, Zenon
      <4>3. QED
        BY <4>1, <4>2, Zenon
    <3>4. QED
      BY <1>2, <2>2, <3>3, Zenon
  <2>3. QED
    BY <2>1, <2>2, Zenon
<1>11. RootInv'
  <2>1. /\ request.root <= request.out
        /\ \A p \in Paths : p > request.root => journal[p].events = <<>>
        /\ \A p \in Paths \ {request.root} : \A a \in Assignments :
              \A i \in FinishesOf(journal[p].events, a) :
                  journal[p].events[i].ok =>
                      FinishesOf(journal[request.root].events, a) = {}
    BY Zenon DEF WaveInv, RootInv
  <2>2. request.root \in Int
    BY <1>1, <1>3 DEF Paths
  <2>3. ASSUME NEW p \in Paths, p > request.root PROVE journal'[p].events = <<>>
    <3>1. p # root
      BY <1>3, <2>2, <2>3
    <3>2. QED
      BY <1>2, <2>1, <2>3, <3>1, Zenon
  <2>4. ASSUME NEW p \in Paths \ {request.root}, NEW a \in Assignments,
               NEW i \in FinishesOf(journal'[p].events, a), journal'[p].events[i].ok
        PROVE  FinishesOf(journal'[request.root].events, a) = {}
    <3>1. journal'[p] = journal[p]
      BY <1>2, <1>3, Zenon
    <3>2. ~NeverSucceeded(a) /\ FinishesOf(events, a) = {}
      BY <1>2, <1>3, <2>1, <2>4, <3>1, Zenon DEF NeverSucceeded
    <3>3. ~(e.kind = "FINISH" /\ e.a = a)
      BY <1>5, <3>2, Zenon
    <3>4. FinishesOf(more, a) = FinishesOf(events, a)
      BY <1>6, <3>3, Zenon
    <3>5. QED
      BY <1>2, <1>3, <3>2, <3>4, Zenon
  <2>5. QED
    BY <2>1, <2>3, <2>4, Zenon DEF RootInv
<1>12. QED
  BY <1>7, <1>8, <1>9, <1>10, <1>11, Zenon DEF e

-----------------------------------------------------------------------------
(* The wave's invariant: one step at a time.                               *)

\* WaveInv beyond the types and the single active worker.
WaveParts ==
  /\ \A w \in Workers : WorkerInv(w)
  /\ JournalInv /\ RootInv /\ EnvelopeInv /\ ResultInv

\* A step of one worker that neither writes a journal nor publishes.
LEMMA QuietStep ==
  ASSUME WaveInv, NEW w \in Workers, NEW r,
         worker' = [worker EXCEPT ![w] = r], WorkerInv(w)',
         journal' = journal, receipts' = receipts, traced \subseteq traced',
         request' = request,
         ResultInv' \/ result' = result \/ result'.receipt = 0
  PROVE  WaveParts'
<1>1. JournalInv' /\ EnvelopeInv' /\ BoundsKept /\ RootInv'
  BY DiskFrame, Zenon DEF WaveInv
<1>2. ResultInv'
  BY <1>1, ResultFrame, Zenon DEF WaveInv
<1>3. ASSUME NEW v \in Workers \ {w} PROVE WorkerInv(v)'
  <2>1. worker'[v] = worker[v]
    BY DEF WaveInv, TypeOK
  <2>2. QED
    BY <1>1, <2>1, WorkerFrame, Zenon DEF WaveInv
<1>4. QED
  BY <1>1, <1>2, <1>3, Zenon DEF WaveParts

\* A record that promises nothing: an idle slot, a worker about to open the
\* journal, or one done without a receipt.
LEMMA EmptyHanded ==
  ASSUME WaveInv, NEW w \in Workers, NEW r, worker' = [worker EXCEPT ![w] = r],
         r.reply \notin {"SUCCEEDED", "FAILED"},
         \/ r.pc \in {"idle", "reply"}
         \/ r = [Idle EXCEPT !.pc = "open", !.req = r.req] /\ r.pc = "open"
  PROVE  WorkerInv(w)'
<1>1. worker'[w] = r
  BY Zenon DEF WaveInv, TypeOK
<1>2. QED
  BY <1>1, Zenon DEF WorkerInv, Executes

\* A worker that is done without a receipt.
LEMMA DoneStep ==
  ASSUME WaveInv, NEW w \in Workers, Blocked(w) \/ Unknown(w),
         UNCHANGED <<coordinator, disk>>
  PROVE  WaveParts'
<1> DEFINE b == [worker[w] EXCEPT !.pc = "reply", !.reply = "BLOCKED"]
           u == [worker[w] EXCEPT !.pc = "reply", !.reply = "UNKNOWN",
                                  !.live = {}, !.ended = {}]
<1>1. worker[w] \in WorkerState
  BY TypedParts, Zenon DEF WaveInv
<1>2. b.pc = "reply" /\ b.reply = "BLOCKED" /\ u.pc = "reply" /\ u.reply = "UNKNOWN"
  BY <1>1, Zenon DEF WorkerState
<1>3. worker' = [worker EXCEPT ![w] = b] \/ worker' = [worker EXCEPT ![w] = u]
  BY Zenon DEF Blocked, Unknown
<1> HIDE DEF b, u
<1>4. WorkerInv(w)'
  BY <1>2, <1>3, EmptyHanded, Zenon
<1>5. QED
  BY <1>3, <1>4, QuietStep, Zenon DEF coordinator, disk

\* A worker starts, or ends: Dispatch, Rerun, Reply, and a Crash that leaves
\* no event behind.
LEMMA StartStep ==
  ASSUME WaveInv, NEW w \in Workers, Start(w, request),
         UNCHANGED <<request, result, disk>>
  PROVE  WaveParts'
<1> DEFINE r == [Idle EXCEPT !.pc = "open", !.req = request]
<1>1. /\ r.req = request /\ r.reply = "" /\ r.pc = "open"
      /\ r = [Idle EXCEPT !.pc = "open", !.req = r.req]
  BY Zenon DEF Idle
<1>2. worker' = [worker EXCEPT ![w] = r]
  BY Zenon DEF Start
<1> HIDE DEF r
<1>3. WorkerInv(w)'
  BY <1>1, <1>2, EmptyHanded, Zenon
<1>4. QED
  BY <1>2, <1>3, QuietStep, Zenon DEF disk

LEMMA EndStep ==
  ASSUME WaveInv, NEW w \in Workers, worker' = [worker EXCEPT ![w] = Idle],
         UNCHANGED <<request, journal, receipts>>, traced \subseteq traced',
         ResultInv' \/ result' = result \/ result'.receipt = 0
  PROVE  WaveParts'
<1>1. WorkerInv(w)'
  BY IdleTyped, IdleSlot, EmptyHanded, Zenon
<1>2. QED
  BY <1>1, QuietStep, Zenon

\* The reply names the receipt its worker published.
LEMMA ReplyStep ==
  ASSUME WaveInv, NEW w \in Workers, Reply(w)
  PROVE  WaveParts'
<1> DEFINE rec == IF worker[w].reply \in {"SUCCEEDED", "FAILED"}
                  THEN worker[w].req.out ELSE 0
           res == [outcome |-> worker[w].reply, receipt |-> rec]
<1>1. /\ worker' = [worker EXCEPT ![w] = Idle] /\ UNCHANGED <<request, disk>>
      /\ IF session = w THEN result' = res ELSE result' = result
  BY DEF Reply, Outcome
<1>2. CASE session # w \/ rec = 0
  <2>1. result' = result \/ result'.receipt = 0
    BY <1>1, <1>2
  <2>2. QED
    BY <1>1, <2>1, EndStep, Zenon DEF disk
<1>3. CASE session = w /\ rec # 0
  <2>1. worker[w].req = request
    BY <1>3, NoneAssumption, Zenon DEF WaveInv, TypeOK
  <2>2. worker[w].reply \in {"SUCCEEDED", "FAILED"} /\ rec = worker[w].req.out
    BY <1>3, Zenon
  <2>3. /\ receipts[rec].root = request.root
        /\ worker[w].reply = "SUCCEEDED" <=> AllSucceeded(Bound(receipts[rec]))
    BY <2>1, <2>2, Zenon DEF WaveInv, WorkerInv
  <2>4. result'.receipt = rec /\ result'.outcome = worker[w].reply
    BY <1>1, <1>3
  <2> HIDE DEF rec, res
  <2>5. Bound(receipts[result.receipt])' = Bound(receipts[rec])
    BY <1>1, <2>4, Zenon DEF Bound, disk
  <2>6. ResultInv'
    BY <1>1, <2>2, <2>3, <2>4, <2>5, Zenon DEF ResultInv, Successes, disk
  <2>7. QED
    BY <1>1, <2>6, EndStep, Zenon DEF disk
<1>4. QED
  BY <1>2, <1>3, Zenon

\* The steps of the coordinator: a result it reconciles is the evidence's, and
\* a retry that resumes nothing starts a journal nobody has written.
LEMMA CallWave ==
  ASSUME WaveInv, Send \/ Retry \/ RouteFails \/ TransportLost \/ Reconcile
  PROVE  WaveParts'
<1>1. worker' = worker /\ journal' = journal /\ receipts' = receipts /\ traced' = traced
  BY Zenon DEF Send, Retry, RouteFails, TransportLost, Reconcile, disk
<1>2. JournalInv' /\ EnvelopeInv' /\ BoundsKept /\ (request' = request => RootInv')
  BY <1>1, DiskFrame, Zenon DEF WaveInv
<1>3. \A w \in Workers : WorkerInv(w)'
  BY <1>1, <1>2, WorkerFrame, Zenon DEF WaveInv
<1>4. CASE Send \/ RouteFails \/ TransportLost
  <2>1. request' = request /\ (result' = result \/ result'.receipt = 0)
    BY <1>4 DEF Send, RouteFails, TransportLost, Outcome
  <2>2. ResultInv'
    BY <1>2, <2>1, ResultFrame, Zenon DEF WaveInv
  <2>3. QED
    BY <1>2, <1>3, <2>1, <2>2, Zenon DEF WaveParts
<1>5. CASE Reconcile
  <2>1. /\ request' = request /\ result'.receipt = request.out
        /\ receipts[request.out].root = request.root
        /\ result'.outcome = IF AllSucceeded(Bound(receipts[request.out]))
                             THEN "RECONCILED_SUCCEEDED" ELSE "RECONCILED_FAILED"
    BY <1>5, Zenon DEF Reconcile, Outcome, EvidenceAvailable
  <2>2. Bound(receipts[result.receipt])' = Bound(receipts[request.out])
    BY <1>1, <2>1, Zenon DEF Bound
  <2>3. ResultInv'
    BY <1>1, <2>1, <2>2, Zenon DEF ResultInv, Successes
  <2>4. QED
    BY <1>2, <1>3, <2>1, <2>3, Zenon DEF WaveParts
<1>6. CASE Retry
  <2>1. PICK out \in Paths :
          /\ out \in {request.out, request.out + 1} \ {result.receipt}
          /\ request' = [out |-> out, resume |-> result.receipt,
                         root |-> IF result.receipt = 0 THEN out
                                  ELSE receipts[result.receipt].root]
          /\ result' = result
    BY <1>6, Zenon DEF Retry
  <2>2. request.out \in Nat /\ request.root \in Nat /\ request.root \in Paths
        /\ out \in Nat /\ request.root <= request.out
    BY <2>1 DEF WaveInv, TypeOK, Requests, Paths, RootInv
  <2>3. request'.out = out /\ (result.receipt = 0 => request'.root = out)
        /\ (result.receipt # 0 => request'.root = request.root)
    BY <2>1, Zenon DEF WaveInv, ResultInv
  <2>4. ResultInv'
    <3>1. CASE result.receipt = 0
      BY <2>1, <3>1, Zenon DEF ResultInv
    <3>2. CASE result.receipt # 0
      BY <1>2, <2>1, <2>3, <3>2, ResultFrame, Zenon DEF WaveInv
    <3>3. QED
      BY <3>1, <3>2, Zenon
  <2>5. RootInv'
    <3>0. request.root <= out
      BY <2>1, <2>2
    <3>1. CASE request'.root = request.root
      <4>1. request'.root <= request'.out
        BY <2>3, <3>0, <3>1, Zenon
      <4>2. \A p \in Paths : p > request'.root => journal'[p].events = <<>>
        BY <1>1, <3>1, Zenon DEF WaveInv, RootInv
      <4>3. \A p \in Paths \ {request'.root} : \A a \in Assignments :
              \A i \in FinishesOf(journal'[p].events, a) :
                 journal'[p].events[i].ok =>
                    FinishesOf(journal'[request'.root].events, a) = {}
        BY <1>1, <3>1, Zenon DEF WaveInv, RootInv
      <4>4. QED
        BY <4>1, <4>2, <4>3, Zenon DEF RootInv
    <3>2. CASE request'.root # request.root
      <4>1. request'.root = out /\ out > request.root
        BY <2>1, <2>2, <2>3, <3>2
      <4>2. journal[out].events = <<>>
        BY <2>1, <4>1, Zenon DEF WaveInv, RootInv
      <4>3. \A p \in Paths : p > out => journal[p].events = <<>>
        BY <2>2, <4>1 DEF WaveInv, RootInv, Paths
      <4>4. \A a \in Assignments : FinishesOf(journal[out].events, a) = {}
        BY <4>2 DEF FinishesOf
      <4>5. request'.root <= request'.out
        BY <2>2, <2>3, <4>1
      <4>6. \A p \in Paths : p > request'.root => journal'[p].events = <<>>
        BY <1>1, <4>1, <4>3, Zenon
      <4>7. \A a \in Assignments : FinishesOf(journal'[request'.root].events, a) = {}
        BY <1>1, <4>1, <4>4, Zenon
      <4>8. QED
        BY <4>5, <4>6, <4>7, Zenon DEF RootInv
    <3>3. QED
      BY <3>1, <3>2, Zenon
  <2>6. QED
    BY <1>2, <1>3, <2>4, <2>5, Zenon DEF WaveParts
<1>7. QED
  BY <1>4, <1>5, <1>6, Zenon

\* The preflight passed: what is to run has never succeeded, for it either has
\* a failed attempt here, or no trace at all.
LEMMA OpenStep ==
  ASSUME WaveInv, NEW w \in Workers, OpenRecovery(w) \/ OpenExecute(w)
  PROVE  WaveParts'
<1> DEFINE events == Events(w)
<1>0. /\ worker[w] \in WorkerState /\ events \in Seq(Event)
      /\ worker[w].req.root \in Paths
  BY TypedParts, Zenon DEF WaveInv
<1>1. /\ worker[w].pc = "open" /\ ~Refused(w)
      /\ UNCHANGED <<coordinator, disk>>
  BY Zenon DEF OpenRecovery, OpenExecute
<1>2. ~Broken(w) /\ Incomplete(events) = {}
  BY <1>1, Zenon DEF Refused
<1>3. /\ worker[w].tokens = {} /\ worker[w].live = {} /\ worker[w].ended = {}
      /\ worker[w].reply = ""
  <2>1. worker[w] = [Idle EXCEPT !.pc = "open", !.req = worker[w].req]
    BY <1>1, Zenon DEF WaveInv, WorkerInv
  <2>2. QED
    BY <2>1, Zenon DEF Idle
<1>4. CASE OpenRecovery(w)
  <2> DEFINE r == [worker[w] EXCEPT !.pc = "recover", !.count = Len(events)]
  <2>1. r.pc = "recover" /\ r.count = Len(events) /\ r.req = worker[w].req /\ r.reply = ""
    BY <1>0, <1>3, Zenon DEF WorkerState
  <2>2. worker' = [worker EXCEPT ![w] = r]
    BY <1>4, Zenon DEF OpenRecovery
  <2> HIDE DEF r
  <2>3. worker'[w] = r
    BY <2>2, Zenon DEF WaveInv, TypeOK
  <2>4. Events(w)' = events
    BY <1>1, <2>1, <2>3, Zenon DEF Events, disk
  <2>5. HasReceipt(events)
    BY <1>4, Zenon DEF OpenRecovery, Advanced
  <2>6. WorkerInv(w)'
    BY <1>2, <2>1, <2>3, <2>4, <2>5, Zenon DEF WorkerInv, Executes
  <2>7. QED
    BY <1>1, <2>2, <2>6, QuietStep, Zenon DEF coordinator, disk
<1>5. CASE OpenExecute(w)
  <2> DEFINE r == [worker[w] EXCEPT !.pc = "verify", !.count = Len(events),
                                    !.pending = Pending(events), !.event = WaveEvent]
  <2>1. /\ r.pc = "verify" /\ r.count = Len(events) /\ r.req = worker[w].req
        /\ r.pending = Pending(events) /\ r.event = WaveEvent /\ r.tokens = {}
        /\ r.live = {} /\ r.ended = {} /\ r.reply = ""
    BY <1>0, <1>3, Zenon DEF WorkerState
  <2>2. worker' = [worker EXCEPT ![w] = r]
    BY <1>5, ZenonT(40) DEF OpenExecute
  <2> HIDE DEF r
  <2>3. worker'[w] = r
    BY <2>2 DEF WaveInv, TypeOK
  <2>4. Events(w)' = events /\ Broken(w)' = Broken(w)
    BY <1>1, <2>1, <2>3, Zenon DEF Events, Broken, disk
  <2>5. WaveEvent.kind = "WAVE"
    BY DEF WaveEvent
  <2>6. Launching(r) /\ FinishDue(r) = {} /\ EndedOf(r) = {} /\ Owed(r) = {}
    BY <2>1, <2>5, Zenon DEF Launching, FinishDue, EndedOf, Owed
  <2>7. Apart(r)
    BY <2>1, <2>5, <2>6, ZenonT(40) DEF Apart
  <2>8. KnowsJournal(r, events)
    BY <1>2, <2>1, <2>6, Zenon DEF KnowsJournal, Pending, Succeeded
  <2>9. ASSUME NEW a \in Pending(events) PROVE NeverSucceeded(a)
    <3>1. a \in Assignments /\ ~Succeeded(events, a)
      BY DEF Pending
    <3>2. journal[worker[w].req.root].events = events
      BY DEF Events
    <3>3. CASE FinishesOf(events, a) = {}
      <4>1. a \notin traced
        BY <1>0, <1>1, <1>5, <3>1, <3>3
           DEF OpenExecute, Refused, Untrusted
      <4>2. QED
        BY <3>1, <4>1 DEF WaveInv, JournalInv, NeverSucceeded
    <3>4. CASE FinishesOf(events, a) # {}
      <4>1. worker[w].req = request
        <5>1. ~Inert(w)
          BY <1>1 DEF Inert, Refused
        <5>2. QED
          BY <5>1 DEF WaveInv, IInv, Active
      <4>2. ASSUME NEW p \in Paths, NEW i \in FinishesOf(journal[p].events, a),
                   journal[p].events[i].ok
            PROVE  FALSE
        <5>1. CASE p = request.root
          <6>1. \A j \in FinishesOf(events, a) : j <= i
            BY <1>0, <3>1, <3>2, <4>1, <4>2, <5>1 DEF WaveInv, JournalInv
          <6>2. QED
            BY <3>1, <3>2, <4>1, <4>2, <5>1, <6>1 DEF Succeeded
        <5>2. CASE p # request.root
          BY <3>1, <3>2, <3>4, <4>1, <4>2, <5>2, ZenonT(40) DEF WaveInv, RootInv
        <5>3. QED
          BY <5>1, <5>2
      <4>3. QED
        BY <4>2 DEF NeverSucceeded
    <3>5. QED
      BY <3>3, <3>4
  <2>10. \A a : NeverSucceeded(a)' = NeverSucceeded(a)
    BY <1>1 DEF NeverSucceeded, disk
  <2>11. WorkerInv(w)'
    BY <1>2, <2>1, <2>3, <2>4, <2>6, <2>7, <2>8, <2>9, <2>10, ZenonT(40) DEF WorkerInv, Executes
  <2>12. QED
    BY <1>1, <2>2, <2>11, QuietStep DEF coordinator, disk
<1>6. QED
  BY <1>4, <1>5, Zenon

\* A worker that keeps its request and its reply keeps what its reply says.
LEMMA ReplyKept ==
  ASSUME WaveInv, NEW w \in Workers, BoundsKept,
         worker'[w].req = worker[w].req, worker'[w].reply = worker[w].reply
  PROVE  (worker[w].reply \in {"SUCCEEDED", "FAILED"} =>
            LET envelope == receipts[worker[w].req.out]
            IN  /\ envelope.root = worker[w].req.root
                /\ worker[w].reply = "SUCCEEDED" <=> AllSucceeded(Bound(envelope)))'
<1> SUFFICES ASSUME worker[w].reply \in {"SUCCEEDED", "FAILED"}
             PROVE  (/\ receipts[worker[w].req.out].root = worker[w].req.root
                     /\ worker[w].reply = "SUCCEEDED" <=>
                            AllSucceeded(Bound(receipts[worker[w].req.out])))'
  OBVIOUS
<1> DEFINE out == worker[w].req.out
<1>1. out \in Paths /\ receipts[out] # None
  BY TypedParts, Zenon DEF WaveInv, ReceiptsNamed
<1>2. /\ receipts[out].root = worker[w].req.root
      /\ worker[w].reply = "SUCCEEDED" <=> AllSucceeded(Bound(receipts[out]))
  BY ZenonT(40) DEF WaveInv, WorkerInv
<1>3. receipts'[out] = receipts[out] /\ Bound(receipts[out])' = Bound(receipts[out])
  BY <1>1, Zenon DEF BoundsKept
<1>4. Bound(receipts[worker[w].req.out])' = Bound(receipts[out])
  BY <1>3, Zenon DEF Bound
<1>5. receipts'[worker'[w].req.out] = receipts[out]
  BY <1>3, Zenon
<1> HIDE DEF out
<1>6. QED
  BY <1>2, <1>4, <1>5

\* A step that moves what a worker owes from one place to another.
LEMMA MovesOwed ==
  ASSUME WaveInv, NEW w \in Workers, Executes(w), NEW r,
         worker' = [worker EXCEPT ![w] = r],
         journal' = journal, receipts' = receipts, traced \subseteq traced',
         request' = request, result' = result,
         r.pc \in {"verify", "write", "run", "publish"},
         r.req = worker[w].req, r.reply = worker[w].reply,
         r.count = worker[w].count, r.pending = worker[w].pending,
         Owed(r) = Owed(worker[w]), Apart(r),
         \A e \in r.ended : e.ok => e.a \in traced',
         \A a \in FinishDue(r) : r.event.ok => a \in traced'
  PROVE  WaveParts'
<1>1. worker'[w] = r
  BY Zenon DEF WaveInv, TypeOK
<1>2. Events(w)' = Events(w) /\ Broken(w)' = Broken(w)
  BY <1>1, Zenon DEF Events, Broken
<1>3. \A a : NeverSucceeded(a)' = NeverSucceeded(a)
  BY Zenon DEF NeverSucceeded
<1>4. BoundsKept
  BY SameBounds, Zenon DEF BoundsKept
<1>5. /\ ~Broken(w) /\ KnowsJournal(worker[w], Events(w))
      /\ \A a \in worker[w].pending \cup Owed(worker[w]) : NeverSucceeded(a)
  BY ZenonT(40) DEF WaveInv, WorkerInv
<1>6. KnowsJournal(r, Events(w))
  BY <1>5, ZenonT(40) DEF KnowsJournal
<1>7. r.pc \notin {"open", "recover"}
  BY ZenonT(40)
<1>8. \A a \in r.pending \cup Owed(r) : NeverSucceeded(a)'
  BY <1>3, <1>5, Zenon
<1>9. WorkerInv(w)'
  BY <1>1, <1>2, <1>4, <1>5, <1>6, <1>7, <1>8, ReplyKept, Zenon DEF WorkerInv
<1>10. QED
  BY <1>9, QuietStep, ZenonT(40)

\* The head is verified: the worker goes on to write the same event.
LEMMA VerifyStep ==
  ASSUME WaveInv, NEW w \in Workers, VerifyHead(w)
  PROVE  WaveParts'
<1> DEFINE q == worker[w]
           r == [q EXCEPT !.pc = "write"]
<1>1. q \in WorkerState /\ q.pc = "verify" /\ UNCHANGED <<coordinator, disk>>
  BY TypedParts, Zenon DEF WaveInv, VerifyHead
<1>2. CASE Unknown(w)
  BY <1>1, <1>2, DoneStep, Zenon
<1>3. CASE ~Unknown(w)
  <2>1. /\ r.pc = "write" /\ r.req = q.req /\ r.reply = q.reply /\ r.count = q.count
        /\ r.pending = q.pending /\ r.tokens = q.tokens /\ r.live = q.live
        /\ r.ended = q.ended /\ r.event = q.event
    BY <1>1, Zenon DEF WorkerState
  <2>2. worker' = [worker EXCEPT ![w] = r]
    BY <1>3, Zenon DEF VerifyHead
  <2> HIDE DEF r
  <2>3. /\ Launching(r) = Launching(q) /\ FinishDue(r) = FinishDue(q)
        /\ EndedOf(r) = EndedOf(q)
    BY <1>1, <2>1, Zenon DEF Launching, FinishDue, EndedOf
  <2>4. Owed(r) = Owed(q)
    BY <2>1, <2>3, Zenon DEF Owed
  <2>5. Executes(w)
    BY <1>1, Zenon DEF Executes
  <2>6. /\ Apart(q) /\ \A e \in q.ended : e.ok => e.a \in traced
        /\ \A a \in FinishDue(q) : q.event.ok => a \in traced
    BY <2>5, ZenonT(40) DEF WaveInv, WorkerInv
  <2>7. Apart(r)
    BY <1>1, <2>1, <2>3, <2>6, ZenonT(40) DEF Apart
  <2> HIDE DEF q
  <2>8. /\ \A e \in r.ended : e.ok => e.a \in traced
        /\ \A a \in FinishDue(r) : r.event.ok => a \in traced
    BY <2>1, <2>3, <2>6, ZenonT(40)
  <2>9. QED
    BY <1>1, <2>1, <2>2, <2>4, <2>5, <2>7, <2>8, MovesOwed, ZenonT(40) DEF q, coordinator, disk
<1>4. QED
  BY <1>2, <1>3, Zenon

\* A run ends: the attempt stays owed, and a success has left its trace.
LEMMA RunEndsStep ==
  ASSUME WaveInv, NEW w \in Workers, NEW a \in Assignments, RunEnds(w, a)
  PROVE  WaveParts'
<1> DEFINE q == worker[w]
<1>1. /\ q \in WorkerState /\ a \in q.live
      /\ UNCHANGED <<coordinator, journal, receipts>>
  BY TypedParts, Zenon DEF WaveInv, RunEnds
<1>2. PICK ok \in BOOLEAN :
        /\ worker' = [worker EXCEPT ![w].live = @ \ {a},
                                    ![w].ended = @ \cup {[a |-> a, ok |-> ok]}]
        /\ traced' \in IF ok THEN {traced \cup {a}} ELSE {traced, traced \cup {a}}
  BY Zenon DEF RunEnds
<1> DEFINE e0 == [a |-> a, ok |-> ok]
           r == [q EXCEPT !.live = @ \ {a}, !.ended = @ \cup {e0}]
<1>3. /\ r.pc = q.pc /\ r.req = q.req /\ r.reply = q.reply /\ r.count = q.count
      /\ r.pending = q.pending /\ r.tokens = q.tokens /\ r.live = q.live \ {a}
      /\ r.ended = q.ended \cup {e0} /\ r.event = q.event
  BY <1>1, Zenon DEF WorkerState
<1>4. e0.a = a /\ e0.ok = ok
  BY Zenon
<1>5. worker' = [worker EXCEPT ![w] = r]
  BY <1>2, Zenon DEF WaveInv, TypeOK
<1>6. traced \subseteq traced' /\ (ok => a \in traced')
  BY <1>2, Zenon
<1> HIDE DEF r, e0
<1>7. q.pc \in {"verify", "write", "run"}
  <2>1. Active(w)
    BY <1>1, Zenon DEF WaveInv, IInv, Inert
  <2>2. QED
    BY <1>1, <2>1, Zenon DEF Active
<1>8. Executes(w)
  BY <1>7, Zenon DEF Executes
<1>9. /\ Apart(q) /\ \A e \in q.ended : e.ok => e.a \in traced
      /\ \A b \in FinishDue(q) : q.event.ok => b \in traced
  BY <1>8, ZenonT(40) DEF WaveInv, WorkerInv
<1>10. ~Launching(q) /\ a \notin EndedOf(q) /\ a \notin FinishDue(q)
  BY <1>1, <1>9, Zenon DEF Apart
<1>11. /\ Launching(r) = Launching(q) /\ FinishDue(r) = FinishDue(q)
       /\ EndedOf(r) = EndedOf(q) \cup {a}
  BY <1>3, <1>4 DEF Launching, FinishDue, EndedOf
<1> HIDE DEF q
<1>12. Owed(r) = Owed(q)
  BY <1>1, <1>3, <1>11, Zenon DEF Owed
<1>13. \A e, f \in r.ended : e.a = f.a => e = f
  <2>1. \A e \in q.ended : e.a # a
    BY <1>10, Zenon DEF EndedOf
  <2>2. \A e, f \in q.ended : e.a = f.a => e = f
    BY <1>9, Zenon DEF Apart
  <2>3. QED
    BY <1>3, <1>4, <2>1, <2>2, Zenon
<1>14. Apart(r)
  <2>1. q.tokens = {} /\ q.pending = {} /\ q.live \cap EndedOf(q) = {}
        /\ FinishDue(q) \cap (q.live \cup EndedOf(q)) = {}
    BY <1>9, <1>10, Zenon DEF Apart
  <2>2. r.tokens = {} /\ r.pending = {} /\ ~Launching(r) /\ r.pc # "publish"
    BY <1>3, <1>7, <1>10, <1>11, <2>1, Zenon
  <2>3. r.live \cap EndedOf(r) = {}
    BY <1>3, <1>11, <2>1, Zenon
  <2>4. FinishDue(r) \cap (r.live \cup EndedOf(r)) = {}
    BY <1>3, <1>10, <1>11, <2>1, Zenon
  <2>5. QED
    BY <1>13, <2>2, <2>3, <2>4, Zenon DEF Apart
<1>15. /\ \A e \in r.ended : e.ok => e.a \in traced'
       /\ \A b \in FinishDue(r) : r.event.ok => b \in traced'
  BY <1>3, <1>4, <1>6, <1>9, <1>11, Zenon
<1>16. QED
  BY <1>1, <1>3, <1>5, <1>6, <1>7, <1>8, <1>12, <1>14, <1>15, MovesOwed, ZenonT(40) DEF q, coordinator

\* The next ended run's FINISH is what the worker writes next.
LEMMA FinishStep ==
  ASSUME WaveInv, NEW w \in Workers, FinishAttempt(w)
  PROVE  WaveParts'
<1> DEFINE q == worker[w]
<1>1. q \in WorkerState /\ q.pc = "run" /\ UNCHANGED <<coordinator, disk>>
  BY TypedParts, Zenon DEF WaveInv, FinishAttempt
<1>2. PICK e0 \in q.ended :
        worker' = [worker EXCEPT ![w].pc = "verify", ![w].ended = @ \ {e0},
                                 ![w].event = [kind |-> "FINISH", a |-> e0.a, ok |-> e0.ok]]
  BY Zenon DEF FinishAttempt
<1> DEFINE f0 == [kind |-> "FINISH", a |-> e0.a, ok |-> e0.ok]
           r == [q EXCEPT !.pc = "verify", !.ended = @ \ {e0}, !.event = f0]
<1>3. /\ r.pc = "verify" /\ r.req = q.req /\ r.reply = q.reply /\ r.count = q.count
      /\ r.pending = q.pending /\ r.tokens = q.tokens /\ r.live = q.live
      /\ r.ended = q.ended \ {e0} /\ r.event = f0
  BY <1>1, Zenon DEF WorkerState
<1>4. f0.kind = "FINISH" /\ f0.a = e0.a /\ f0.ok = e0.ok
  BY Zenon
<1>5. worker' = [worker EXCEPT ![w] = r]
  BY <1>2, Zenon DEF WaveInv, TypeOK
<1>6. e0.a \in Assignments
  BY <1>1, <1>2, Zenon DEF WorkerState
<1> HIDE DEF r, f0
<1>7. Executes(w)
  BY <1>1, Zenon DEF Executes
<1>8. /\ Apart(q) /\ \A e \in q.ended : e.ok => e.a \in traced
  BY <1>7, Zenon DEF WaveInv, WorkerInv
<1>9. ~Launching(q) /\ FinishDue(q) = {} /\ ~Launching(r) /\ FinishDue(r) = {e0.a}
  BY <1>1, <1>3, <1>4, <1>6, Zenon DEF Launching, FinishDue
<1> HIDE DEF q
<1>10. EndedOf(q) = EndedOf(r) \cup {e0.a} /\ e0.a \notin EndedOf(r)
  BY <1>2, <1>3, <1>8, Zenon DEF EndedOf, Apart
<1>11. Owed(r) = Owed(q)
  BY <1>3, <1>9, <1>10, Zenon DEF Owed
<1>12. Apart(r)
  BY <1>3, <1>8, <1>9, <1>10 DEF Apart
<1>13. /\ \A e \in r.ended : e.ok => e.a \in traced
       /\ \A b \in FinishDue(r) : r.event.ok => b \in traced
  BY <1>2, <1>3, <1>4, <1>8, <1>9, Zenon
<1>14. QED
  BY <1>1, <1>3, <1>5, <1>7, <1>11, <1>12, <1>13, MovesOwed, ZenonT(40) DEF q, coordinator, disk

\* While a worker writes, every other one is inert.
LEMMA AppendOthers ==
  ASSUME WaveInv, NEW w \in Workers, worker[w].pc = "write", NEW r,
         worker' = [worker EXCEPT ![w] = r], traced \subseteq traced', BoundsKept
  PROVE  \A v \in Workers \ {w} : WorkerInv(v)'
<1> SUFFICES ASSUME NEW v \in Workers \ {w} PROVE WorkerInv(v)'
  BY Zenon
<1>1. Inert(v)
  BY Zenon DEF WaveInv, IInv, Inert, Active
<1>2. worker'[v] = worker[v]
  BY Zenon DEF WaveInv, TypeOK
<1>3. QED
  BY <1>1, <1>2, WorkerFrame, Zenon DEF WaveInv

\* Appending to a journal's record, and tearing it.
LEMMA RecordAppend ==
  ASSUME NEW S, NEW T, NEW j \in [events : S, broken : T], NEW x
  PROVE  [j EXCEPT !.events = x] = [events |-> x, broken |-> j.broken]
OBVIOUS

LEMMA RecordTorn ==
  ASSUME NEW S, NEW T, NEW j \in [events : S, broken : T], NEW x, NEW b
  PROVE  [j EXCEPT !.events = x, !.broken = b] = [events |-> x, broken |-> b]
<1> DEFINE l == [j EXCEPT !.events = x, !.broken = b]
<1>1. DOMAIN l = {"events", "broken"} /\ l.events = x /\ l.broken = b
  OBVIOUS
<1>2. l = [i \in {"events", "broken"} |-> l[i]]
  BY Zenon
<1> HIDE DEF l
<1>3. l = [events |-> x, broken |-> b]
  BY <1>1, <1>2, Zenon
<1>4. QED
  BY <1>3, Zenon DEF l

LEMMA JournalAppend ==
  ASSUME TypeOK, NEW w \in Workers, NEW e
  PROVE  LET j == journal[worker[w].req.root]
             x == Append(Events(w), e)
         IN  /\ [j EXCEPT !.events = x] = [events |-> x, broken |-> Broken(w)]
             /\ [j EXCEPT !.events = x, !.broken = TRUE] = [events |-> x, broken |-> TRUE]
             /\ j.events = Events(w)
<1> DEFINE x == Append(Events(w), e)
           j == journal[worker[w].req.root]
<1>1. j \in [events : Seq(Event), broken : BOOLEAN]
  BY TypedParts, Zenon
<1>2. j.events = Events(w) /\ j.broken = Broken(w)
  BY Zenon DEF Events, Broken
<1> HIDE DEF x, j
<1>3. [j EXCEPT !.events = x] = [events |-> x, broken |-> j.broken]
  BY <1>1, RecordAppend, Zenon
<1>4. [j EXCEPT !.events = x, !.broken = TRUE] = [events |-> x, broken |-> TRUE]
  BY <1>1, RecordTorn, ZenonT(40)
<1>5. QED
  BY <1>2, <1>3, <1>4, ZenonT(40) DEF x, j

\* The event a worker writes is the journal's next: what it owes afterwards is
\* again what the journal has open.
LEMMA WriteStep ==
  ASSUME WaveInv, NEW w \in Workers, WriteEvent(w)
  PROVE  WaveParts'
<1> DEFINE q == worker[w]
           root == q.req.root
           events == Events(w)
           more == Append(events, q.event)
           r == Written(w)
<1>0. /\ q.event \in Event /\ events \in Seq(Event) /\ root \in Paths
      /\ q.count \in Nat /\ q.pc = "write" /\ q.pending \in SUBSET Assignments
      /\ Owed(q) \in SUBSET Assignments
  <2>1. q \in WorkerState /\ q.event \in Event /\ events \in Seq(Event) /\ root \in Paths
    BY TypedParts, Zenon DEF WaveInv
  <2>2. q.count \in Nat /\ q.pending \in SUBSET Assignments
        /\ q.tokens \in SUBSET Assignments /\ q.live \in SUBSET Assignments
        /\ \A e \in q.ended : e.a \in Assignments
    BY <2>1, Zenon DEF WorkerState
  <2> HIDE DEF q
  <2>3. Owed(q) \in SUBSET Assignments
    BY <2>2, Zenon DEF Owed, EndedOf, FinishDue
  <2>4. QED
    BY <2>1, <2>2, <2>3, Zenon DEF WriteEvent, q
<1>1. Executes(w)
  BY <1>0, Zenon DEF Executes
<1>2. /\ ~Broken(w) /\ Apart(q) /\ KnowsJournal(q, events)
      /\ \A a \in q.pending \cup Owed(q) : NeverSucceeded(a)
      /\ \A e \in q.ended : e.ok => e.a \in traced
  BY <1>1, ZenonT(40) DEF WaveInv, WorkerInv
<1>3. q.count = Len(events)
  BY <1>2, Zenon DEF KnowsJournal
<1>4. /\ worker' = [worker EXCEPT ![w] = r]
      /\ journal' = [journal EXCEPT ![root].events = Append(@, q.event)]
      /\ UNCHANGED <<coordinator, receipts, traced>>
  <2>1. ~(Len(Events(w)) > worker[w].count)
    BY <1>0, <1>3
  <2>2. QED
    BY <2>1, Zenon DEF WriteEvent
<1>5. journal' = [journal EXCEPT ![root] = [events |-> more, broken |-> FALSE]]
  <2>1. Broken(w) = FALSE
    BY <1>2, TypedParts, Zenon DEF WaveInv
  <2>2. /\ [journal[root] EXCEPT !.events = more] = [events |-> more, broken |-> Broken(w)]
        /\ journal[root].events = events
    BY JournalAppend, Zenon DEF WaveInv
  <2>3. journal' = [journal EXCEPT ![root] = [journal[root] EXCEPT
                                                 !.events = Append(journal[root].events, q.event)]]
    BY <1>4, Zenon
  <2>4. QED
    BY <2>1, <2>2, <2>3, ZenonT(40)
<1>6. /\ JournalInv' /\ RootInv' /\ EnvelopeInv' /\ BoundsKept
      /\ \A a \in Assignments :
            NeverSucceeded(a) /\ ~(q.event.kind = "FINISH" /\ q.event.a = a)
                => NeverSucceeded(a)'
  BY <1>0, <1>4, <1>5, AppendFrame, Zenon DEF coordinator
<1>7. \A v \in Workers \ {w} : WorkerInv(v)'
  BY <1>0, <1>4, <1>6, AppendOthers, ZenonT(40)
<1>8. ResultInv'
  BY <1>4, <1>6, ResultFrame, Zenon DEF WaveInv, coordinator
<1>9. /\ r.pc \in {"verify", "run", "publish"}
      /\ r.count = q.count + 1 /\ r.ended = q.ended /\ r.reply = q.reply
      /\ r.req = q.req
      /\ r.pending = IF q.event.kind = "INTENT" THEN q.pending \ {q.event.a}
                                                ELSE q.pending
      /\ Owed(r) = CASE q.event.kind = "INTENT" -> Owed(q) \cup {q.event.a}
                     [] q.event.kind = "FINISH" -> Owed(q) \ {q.event.a}
                     [] OTHER -> Owed(q)
      /\ FinishDue(r) = {} /\ Apart(r)
  BY <1>0, <1>2, WrittenOwed, ZenonT(40) DEF WaveInv
<1>10. worker'[w] = r
  BY <1>4, Zenon DEF WaveInv, TypeOK
<1>11. Events(w)' = more /\ Broken(w)' = FALSE
  BY <1>0, <1>5, <1>9, <1>10, ZenonT(40) DEF WaveInv, TypeOK, Events, Broken
<1>12. Incomplete(more) = CASE q.event.kind = "INTENT" -> Incomplete(events) \cup {q.event.a}
                            [] q.event.kind = "FINISH" -> Incomplete(events) \ {q.event.a}
                            [] OTHER -> Incomplete(events)
  BY <1>0, OpenAfterAppend, ZenonT(40)
<1>13. /\ q.event.kind = "INTENT" => q.event.a \in q.pending
       /\ q.event.kind = "FINISH" => q.pending = {}
  BY <1>0, <1>2, ZenonT(40) DEF Apart, Launching
<1>14. \A a \in Assignments :
          /\ FinishesOf(events, a) # {} => FinishesOf(more, a) # {}
          /\ q.event.kind = "FINISH" /\ q.event.a = a => FinishesOf(more, a) # {}
  <2> SUFFICES ASSUME NEW a \in Assignments
               PROVE  /\ FinishesOf(events, a) # {} => FinishesOf(more, a) # {}
                      /\ q.event.kind = "FINISH" /\ q.event.a = a
                             => FinishesOf(more, a) # {}
    BY Zenon
  <2>1. FinishesOf(more, a) = FinishesOf(events, a) \cup
            (IF q.event.kind = "FINISH" /\ q.event.a = a THEN {Len(events) + 1} ELSE {})
    BY <1>0, AppendedFinishes, Zenon
  <2>2. QED
    BY <2>1, Zenon
<1>15. Len(more) = Len(events) + 1
  BY <1>0
<1> HIDE DEF q, r, more, events
<1>16. \A a \in r.pending \cup Owed(r) :
          /\ a \in q.pending \cup Owed(q)
          /\ ~(q.event.kind = "FINISH" /\ q.event.a = a)
  BY <1>9, <1>13, Zenon
<1>17. \A a \in q.pending \cup Owed(q) :
          a \in r.pending \cup Owed(r) \/ (q.event.kind = "FINISH" /\ q.event.a = a)
  BY <1>9, <1>13, Zenon
<1>18. KnowsJournal(r, more)
  <2>1. r.count = Len(more)
    BY <1>3, <1>9, <1>15, Zenon
  <2>2. Incomplete(more) = Owed(r)
    BY <1>2, <1>9, <1>12, Zenon DEF KnowsJournal
  <2>3. \A a \in Assignments : FinishesOf(more, a) # {} \/ a \in r.pending \cup Owed(r)
    BY <1>2, <1>14, <1>17, Zenon DEF KnowsJournal
  <2>4. QED
    BY <2>1, <2>2, <2>3, Zenon DEF KnowsJournal
<1>19. \A a \in r.pending \cup Owed(r) : NeverSucceeded(a)'
  BY <1>0, <1>2, <1>6, <1>16, ZenonT(40)
<1>20. WorkerInv(w)'
  <2>1. worker'[w].req = worker[w].req /\ worker'[w].reply = worker[w].reply
    BY <1>9, <1>10, Zenon DEF q
  <2>2. r.pc \notin {"open", "recover"}
    BY <1>9, Zenon
  <2>3. \A e \in r.ended : e.ok => e.a \in traced'
    BY <1>2, <1>4, <1>9, Zenon
  <2>4. QED
    BY <1>6, <1>9, <1>10, <1>11, <1>18, <1>19, <2>1, <2>2, <2>3, ReplyKept, Zenon DEF WorkerInv
<1>21. QED
  BY <1>6, <1>7, <1>8, <1>20 DEF WaveParts

\* A worker that dies may leave its event behind, and a torn journal.
LEMMA CrashStep ==
  ASSUME WaveInv, NEW w \in Workers, Crash(w)
  PROVE  WaveParts'
<1> DEFINE root == worker[w].req.root
<1>1. /\ worker' = [worker EXCEPT ![w] = Idle]
      /\ UNCHANGED <<request, receipts>> /\ traced \subseteq traced'
      /\ result' = result \/ result'.receipt = 0
  <2>1. /\ worker' = [worker EXCEPT ![w] = Idle] /\ UNCHANGED <<request, receipts>>
        /\ traced' \in {traced, traced \cup worker[w].live}
        /\ result' = result \/ result' = [outcome |-> "UNKNOWN", receipt |-> 0]
    <3>1. /\ worker' = [worker EXCEPT ![w] = Idle]
          /\ traced' \in {traced, traced \cup worker[w].live}
          /\ UNCHANGED <<final, request, receipts>>
      BY Zenon DEF Crash
    <3>2. IF session = w THEN Outcome("UNKNOWN", 0) ELSE UNCHANGED <<call, session, result>>
      BY Zenon DEF Crash
    <3>3. QED
      BY <3>1, <3>2, Zenon DEF Outcome
  <2>2. QED
    BY <2>1
<1>2. CASE journal' = journal
  <2>1. UNCHANGED <<request, journal, receipts>>
    BY <1>1, <1>2, Zenon
  <2>2. QED
    BY <1>1, <2>1, EndStep, Zenon
<1>3. CASE /\ worker[w].pc = "write"
           /\ journal' = [journal EXCEPT ![root].events = Append(@, worker[w].event),
                                         ![root].broken = TRUE]
  <2> DEFINE more == Append(Events(w), worker[w].event)
  <2>1. journal' = [journal EXCEPT ![root] = [events |-> more, broken |-> TRUE]]
    <3>1. root \in Paths /\ journal \in [Paths -> [events : Seq(Event), broken : BOOLEAN]]
      BY TypedParts, Zenon DEF WaveInv, TypeOK
    <3>2. /\ [journal[root] EXCEPT !.events = more, !.broken = TRUE]
                = [events |-> more, broken |-> TRUE]
          /\ journal[root].events = Events(w)
      BY JournalAppend, Zenon DEF WaveInv
    <3>3. journal' = [journal EXCEPT ![root] = [journal[root] EXCEPT
                         !.events = Append(journal[root].events, worker[w].event),
                         !.broken = TRUE]]
      BY <1>3, <3>1, ZenonT(40)
    <3>4. QED
      BY <3>2, <3>3, ZenonT(40)
  <2>2. JournalInv' /\ RootInv' /\ EnvelopeInv' /\ BoundsKept
    BY <1>1, <1>3, <2>1, AppendFrame, ZenonT(40)
  <2>3. \A v \in Workers \ {w} : WorkerInv(v)'
    BY <1>1, <1>3, <2>2, AppendOthers, Zenon
  <2>4. WorkerInv(w)'
    BY <1>1, IdleTyped, IdleSlot, EmptyHanded, ZenonT(40)
  <2>5. ResultInv'
    BY <1>1, <2>2, ResultFrame, Zenon DEF WaveInv
  <2>6. QED
    BY <2>2, <2>3, <2>4, <2>5, Zenon DEF WaveParts
<1>4. QED
  BY <1>2, <1>3, ZenonT(40) DEF Crash

\* Where a worker publishes, the journal it read replays to a receipt.
LEMMA PublishesReceipt ==
  ASSUME WaveInv, NEW w \in Workers, worker[w].pc \in {"publish", "recover"}
  PROVE  /\ worker[w].count = Len(Events(w))
         /\ HasReceipt(Events(w)) /\ Incomplete(Events(w)) = {}
<1> DEFINE q == worker[w]
           events == Events(w)
<1>1. CASE q.pc = "recover"
  BY <1>1, ZenonT(40) DEF WaveInv, WorkerInv
<1>2. CASE q.pc = "publish"
  <2>1. Apart(q) /\ KnowsJournal(q, events)
    BY <1>2, ZenonT(40) DEF WaveInv, WorkerInv, Executes
  <2>2. Owed(q) = {} /\ q.pending = {}
    BY <1>2, <2>1, Zenon DEF Apart, Launching, Owed, EndedOf, FinishDue
  <2>3. q.count = Len(events) /\ Incomplete(events) = {}
    BY <2>1, <2>2, Zenon DEF KnowsJournal
  <2>4. \A a \in Assignments : FinishesOf(events, a) # {}
    BY <2>1, <2>2, Zenon DEF KnowsJournal
  <2>5. QED
    BY <2>3, <2>4, Zenon DEF HasReceipt
<1>3. QED
  BY <1>1, <1>2, Zenon

\* The receipt binds the whole journal, and the reply is its verdict.
LEMMA PublishWave ==
  ASSUME WaveInv, NEW w \in Workers, PublishReceipt(w) \/ PublishRecovered(w)
  PROVE  WaveParts'
<1> DEFINE q == worker[w]
           root == q.req.root
           out == q.req.out
           events == Events(w)
           env == [root |-> root, count |-> q.count]
           r == [q EXCEPT !.pc = "reply", !.reply = Verdict(Bound(env))]
<1>0. /\ q \in WorkerState /\ events \in Seq(Event) /\ root \in Paths /\ out \in Paths
      /\ q.count \in Nat
  BY TypedParts, Zenon DEF WaveInv
<1>1. /\ q.pc \in {"publish", "recover"}
      /\ UNCHANGED <<coordinator, journal, traced>>
      /\ PublishEnvelope(w) \/ (Unknown(w) /\ UNCHANGED receipts)
  BY Zenon DEF PublishReceipt, PublishRecovered
<1>2. CASE Unknown(w) /\ UNCHANGED receipts
  <2>1. UNCHANGED <<coordinator, disk>>
    BY <1>1, <1>2, Zenon DEF disk
  <2>2. QED
    BY <1>2, <2>1, DoneStep, Zenon
<1>3. CASE /\ receipts[out] \in {None, env}
           /\ receipts' = [receipts EXCEPT ![out] = env]
           /\ worker' = [worker EXCEPT ![w].pc = "reply",
                                       ![w].reply = Verdict(Bound(env))]
  <2>1. q.count = Len(events) /\ HasReceipt(events) /\ Incomplete(events) = {}
    BY <1>1, PublishesReceipt, Zenon
  <2>2. env.root = root /\ env.count = Len(events) /\ events = journal[root].events
    BY <2>1, Zenon DEF Events
  <2>3. Bound(env) = events
    <3>1. Bound(env) = SubSeq(events, 1, Len(events))
      BY <2>2, Zenon DEF Bound
    <3>2. QED
      BY <1>0, <3>1, WholeKept, Zenon
  <2>4. r.pc = "reply" /\ r.reply = Verdict(events) /\ r.req = q.req
    BY <1>0, <2>3, Zenon DEF WorkerState
  <2>5. worker' = [worker EXCEPT ![w] = r]
    BY <1>3, ZenonT(40) DEF WaveInv, TypeOK
  <2> HIDE DEF r, env
  <2>6. worker'[w] = r
    BY <2>5 DEF WaveInv, TypeOK
  <2>7. /\ receipts'[out] = env
        /\ \A p \in Paths \ {out} : receipts'[p] = receipts[p]
    BY <1>0, <1>3, Zenon DEF WaveInv, TypeOK
  <2>8. \A envelope : Bound(envelope)' = Bound(envelope)
    BY <1>1, SameBounds, Zenon
  <2>9. BoundsKept
    BY <1>3, <2>7, <2>8, Zenon DEF BoundsKept
  <2>10. JournalInv' /\ RootInv'
    BY <1>1, Zenon DEF WaveInv, JournalInv, RootInv, coordinator
  <2>11. EnvelopeInv'
    <3> SUFFICES ASSUME NEW p \in Paths, receipts'[p] # None
                 PROVE  (/\ receipts[p].count <= Len(journal[receipts[p].root].events)
                         /\ HasReceipt(Bound(receipts[p]))
                         /\ Incomplete(Bound(receipts[p])) = {})'
      BY Zenon DEF EnvelopeInv
    <3>1. CASE p = out
      <4>1. Bound(receipts[p])' = events
        BY <1>1, <2>3, <2>7, <3>1, Zenon DEF Bound
      <4>2. (receipts[p].count <= Len(journal[receipts[p].root].events))'
        <5>1. receipts'[p].count = Len(events) /\ receipts'[p].root = root
          BY <2>2, <2>7, <3>1, Zenon
        <5>2. journal'[root].events = events
          BY <1>1, <2>2, Zenon
        <5>3. Len(events) \in Nat
          BY <1>0
        <5>4. receipts'[p].count <= Len(journal'[receipts'[p].root].events)
          BY <5>1, <5>2, <5>3
        <5>5. QED
          BY <5>4, Zenon
      <4>3. QED
        BY <2>1, <4>1, <4>2, Zenon
    <3>2. CASE p # out
      <4>1. receipts'[p] = receipts[p] /\ Bound(receipts[p])' = Bound(receipts[p])
        BY <1>1, <2>7, <3>2, Zenon DEF Bound
      <4>2. /\ receipts[p].count <= Len(journal[receipts[p].root].events)
            /\ HasReceipt(Bound(receipts[p])) /\ Incomplete(Bound(receipts[p])) = {}
        BY <4>1, ZenonT(40) DEF WaveInv, EnvelopeInv
      <4>3. QED
        BY <1>1, <4>1, <4>2, Zenon
    <3>3. QED
      BY <3>1, <3>2, Zenon
  <2>12. ResultInv'
    BY <1>1, <2>9, ResultFrame, Zenon DEF WaveInv, coordinator
  <2>13. ASSUME NEW v \in Workers \ {w} PROVE WorkerInv(v)'
    <3>1. worker'[v] = worker[v]
      BY <2>5, Zenon DEF WaveInv, TypeOK
    <3>2. QED
      BY <1>1, <2>9, <3>1, WorkerFrame, Zenon DEF WaveInv
  <2>14. WorkerInv(w)'
    <3>1. receipts'[worker'[w].req.out] = env /\ worker'[w].req.root = root
      BY <2>4, <2>6, <2>7, Zenon
    <3>2. Bound(receipts[worker[w].req.out])' = events
      BY <1>1, <2>3, <3>1, Zenon DEF Bound
    <3>3. r.reply = "SUCCEEDED" <=> AllSucceeded(events)
      BY <2>4, Zenon DEF Verdict
    <3>4. QED
      BY <2>2, <2>4, <2>6, <3>1, <3>2, <3>3, Zenon DEF WorkerInv, Executes
  <2>15. QED
    BY <2>10, <2>11, <2>12, <2>13, <2>14, Zenon DEF WaveParts
<1>4. QED
  BY <1>1, <1>2, <1>3, Zenon DEF PublishEnvelope

LEMMA WaveStep ==
  ASSUME Overlapping = {}, WaveInv, [Next]_vars
  PROVE  WaveInv'
<1>1. TypeOK' /\ ReceiptsNamed'
  BY TypeStep, Zenon DEF WaveInv
<1>2. IInv'
  BY InvStep, Zenon DEF WaveInv
<1>3. CASE UNCHANGED vars
  <2>1. JournalInv' /\ RootInv' /\ EnvelopeInv' /\ BoundsKept
    BY <1>3, DiskFrame, Zenon DEF WaveInv, vars, coordinator, disk
  <2>2. ResultInv' /\ \A w \in Workers : WorkerInv(w)'
    BY <1>3, <2>1, ResultFrame, WorkerFrame, Zenon DEF WaveInv, vars, coordinator, disk
  <2>3. QED
    BY <1>1, <1>2, <2>1, <2>2, Zenon DEF WaveInv
<1>4. CASE Next
  <2> SUFFICES WaveParts'
    BY <1>1, <1>2, Zenon DEF WaveInv, WaveParts
  <2>1. CASE Send \/ Retry \/ RouteFails \/ TransportLost \/ Reconcile
    BY <2>1, CallWave, Zenon
  <2>2. ASSUME NEW w \in Workers, Dispatch(w) \/ Rerun(w) PROVE WaveParts'
    BY <2>2, StartStep, Zenon DEF Dispatch, Rerun, coordinator
  <2>3. ASSUME NEW w \in Workers, RerunOverlapping(w) PROVE FALSE
    BY <2>3, Zenon DEF RerunOverlapping
  <2>4. ASSUME NEW w \in Workers, Working(w) PROVE WaveParts'
    <3>1. CASE OpenBlocked(w) \/ OpenExhausted(w)
      BY <3>1, DoneStep, Zenon DEF OpenBlocked, OpenExhausted
    <3>2. QED
      BY <2>4, <3>1, OpenStep, VerifyStep, WriteStep, FinishStep, RunEndsStep,
         PublishWave, ReplyStep, Zenon DEF Working
  <2>5. ASSUME NEW w \in Workers, Crash(w) PROVE WaveParts'
    BY <2>5, CrashStep, Zenon
  <2>6. QED
    BY <1>4, <2>1, <2>2, <2>3, <2>4, <2>5, Zenon DEF Next, Coordinating
<1>5. QED
  BY <1>3, <1>4, Zenon

LEMMA WaveAlways ==
  ASSUME Overlapping = {}
  PROVE  Spec => []WaveInv
<1>1. ASSUME Init PROVE WaveInv
  <2>1. TypeOK /\ ReceiptsNamed
    BY <1>1, InitTypes, Zenon
  <2>2. IInv
    BY <1>1, InitQuiet, Zenon
  <2>3. \A w \in Workers : WorkerInv(w)
    BY <1>1, IdleTyped, IdleSlot, Zenon DEF Init, WorkerInv, Executes
  <2>4. \A p \in Paths : journal[p].events = <<>> /\ receipts[p] = None
    BY <1>1, Zenon DEF Init
  <2>5. \A a : FinishesOf(<<>>, a) = {} /\ IntentsOf(<<>>, a) = {}
    BY DEF FinishesOf, IntentsOf
  <2>6. JournalInv
    <3>1. \A p \in Paths, a \in Assignments : FinishesOf(journal[p].events, a) = {}
      BY <2>4, <2>5, Zenon
    <3>2. QED
      BY <3>1, Zenon DEF JournalInv
  <2>7. request.root = 1 /\ request.out = 1 /\ result.receipt = 0
    BY <1>1, Zenon DEF Init, Idle
  <2>8. RootInv /\ EnvelopeInv /\ ResultInv
    <3>1. \A p \in Paths, a \in Assignments : FinishesOf(journal[p].events, a) = {}
      BY <2>4, <2>5
    <3>2. RootInv
      BY <2>4, <2>7, <3>1 DEF RootInv
    <3>3. EnvelopeInv /\ ResultInv
      BY <2>4, <2>7, Zenon DEF EnvelopeInv, ResultInv
    <3>4. QED
      BY <3>2, <3>3, Zenon
  <2>9. QED
    BY <2>1, <2>2, <2>3, <2>6, <2>8, Zenon DEF WaveInv
<1>2. WaveInv /\ [Next]_vars => WaveInv'
  BY WaveStep, Zenon
<1>3. QED
  BY <1>1, <1>2, PTL DEF Spec

\* Unless a wave is rerun beside a live worker of it, no assignment runs in
\* two processes at once, and what runs has its INTENT open in the journal its
\* process writes (begin_wave_attempts).
THEOREM RunsStayExclusive ==
  ASSUME Overlapping = {}
  PROVE  Spec => []RunsExclusive
<1>1. ASSUME WaveInv PROVE RunsExclusive
  <2> SUFFICES ASSUME NEW w \in Workers, NEW a \in worker[w].live
               PROVE  /\ a \in Incomplete(Events(w))
                      /\ \A v \in Workers \ {w} : a \notin worker[v].live
    BY Zenon DEF RunsExclusive
  <2>1. Active(w)
    BY <1>1, Zenon DEF WaveInv, IInv, Inert
  <2>2. Executes(w)
    BY <2>1, Zenon DEF Active, Executes
  <2>3. Incomplete(Events(w)) = Owed(worker[w])
    BY <1>1, <2>2, ZenonT(40) DEF WaveInv, WorkerInv, KnowsJournal
  <2>4. QED
    BY <2>1, <2>3, Zenon DEF Owed, Active, Inert
<1>2. QED
  BY <1>1, WaveAlways, PTL

\* And no assignment with a success on record in any journal is running: not
\* even in a journal a retry started afresh (preflight_fresh_assignment_trace).
THEOREM SuccessNotRepeated ==
  ASSUME Overlapping = {}
  PROVE  Spec => []SuccessNeverRerun
<1>1. ASSUME WaveInv PROVE SuccessNeverRerun
  <2> SUFFICES ASSUME NEW w \in Workers, NEW a \in worker[w].live, NEW p \in Paths,
                      NEW i \in 1..Len(journal[p].events),
                      journal[p].events[i].kind = "FINISH", journal[p].events[i].a = a
               PROVE  ~journal[p].events[i].ok
    BY Zenon DEF SuccessNeverRerun
  <2>1. Active(w)
    BY <1>1, Zenon DEF WaveInv, IInv, Inert
  <2>2. Executes(w)
    BY <2>1, Zenon DEF Active, Executes
  <2>3. NeverSucceeded(a)
    BY <1>1, <2>2, ZenonT(40) DEF WaveInv, WorkerInv, Owed
  <2>4. QED
    BY <2>3, Zenon DEF NeverSucceeded, FinishesOf
<1>2. QED
  BY <1>1, WaveAlways, PTL

\* And a terminal result is what the host's journal says: its receipt is
\* published, binds events without an open INTENT, and the verdict is theirs.
THEOREM ResultsOnRecord ==
  ASSUME Overlapping = {}
  PROVE  Spec => []ResultIsOnRecord
<1>1. ASSUME WaveInv PROVE ResultIsOnRecord
  <2> SUFFICES ASSUME result.receipt # 0
               PROVE  LET events == Bound(receipts[result.receipt])
                      IN  /\ receipts[result.receipt] # None
                          /\ HasReceipt(events) /\ Incomplete(events) = {}
                          /\ result.outcome \in Successes <=> AllSucceeded(events)
    BY Zenon DEF ResultIsOnRecord
  <2>1. result.receipt \in Paths /\ receipts[result.receipt] # None
    BY <1>1, Zenon DEF WaveInv, TypeOK, ReceiptsNamed
  <2>2. QED
    BY <1>1, <2>1, Zenon DEF WaveInv, EnvelopeInv, ResultInv
<1>2. QED
  BY <1>1, WaveAlways, PTL
=============================================================================
