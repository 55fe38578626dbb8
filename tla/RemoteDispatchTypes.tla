------------------------ MODULE RemoteDispatchTypes -------------------------
(***************************************************************************)
(* Proofs about RemoteDispatch, for any wave, any workers and any retry    *)
(* allowance: the host is quiet whenever its wave may be retried, when no  *)
(* wave is rerun beside a live worker of it (IInv leaves one worker        *)
(* active); and types hold always.                                         *)
(***************************************************************************)
EXTENDS RemoteDispatch, TLAPS, WellFoundedInduction

\* The fields of a worker record the invariant speaks of.
Fields(r) == "pc" \in DOMAIN r /\ "req" \in DOMAIN r /\ "live" \in DOMAIN r

\* A worker slot that is not in use.
LEMMA IdleSlot ==
  Fields(Idle) /\ Idle.pc = "idle" /\ Idle.live = {} /\ Idle.req.out \in Paths
BY BoundAssumption DEF Fields, Idle, Paths

\* A step that changes one worker only keeps the invariant when it leaves the
\* worker with nothing to do, or when the worker was the active one, stays on
\* its request and its receipt path is free.
LEMMA WorkerStep ==
  ASSUME IInv, NEW w \in Workers, NEW r, Fields(r),
         worker' = [worker EXCEPT ![w] = r],
         r.req = worker[w].req,
         receipts' = receipts, request' = request,
         call' = call, session' = session, result' = result,
         \/ r.live = {} /\ r.pc = "reply"
         \/ /\ ~Inert(w) /\ r.pc # "open" /\ receipts[request.out] = None
            /\ r.live # {} => r.pc \in {"verify", "write", "run"}
  PROVE  IInv'
<1>1. worker'[w] = r /\ \A v \in Workers \ {w} : worker'[v] = worker[v]
  BY DEF IInv, Shape
<1>2. Shape'
  BY <1>1, Zenon DEF IInv, Shape, Fields
<1>3. \A v \in Workers \ {w} : Inert(v) => Inert(v)'
  BY <1>1, Zenon DEF Inert
<1>4. CASE r.live = {} /\ r.pc = "reply"
  <2>1. Inert(w)'
    BY <1>1, <1>4, Zenon DEF Inert
  <2>2. ASSUME NEW v \in Workers \ {w}, Active(v) PROVE Active(v)'
    BY <1>1, <1>3, <2>1, <2>2, Zenon DEF Active
  <2>3. QED
    BY <1>2, <1>3, <2>1, <2>2, Zenon DEF IInv
<1>5. CASE ~(r.live = {} /\ r.pc = "reply")
  <2>1. Active(w) /\ \A v \in Workers \ {w} : Inert(v)
    BY <1>5, Zenon DEF IInv, Active
  <2>2. Active(w)'
    BY <1>1, <1>3, <1>5, <2>1, Zenon DEF Active
  <2>3. QED
    BY <1>2, <1>3, <2>1, <2>2, Zenon DEF IInv
<1>6. QED
  BY <1>4, <1>5, Zenon

\* A worker that ends, or whose call ends with it, leaves an idle slot.
LEMMA WorkerEnds ==
  ASSUME IInv, NEW w \in Workers,
         worker' = [worker EXCEPT ![w] = Idle],
         receipts' = receipts, request' = request,
         IF session = w THEN call' = "idle" /\ session' = None
                        ELSE UNCHANGED <<call, session, result>>
  PROVE  IInv'
<1>1. worker'[w] = Idle /\ \A v \in Workers \ {w} : worker'[v] = worker[v]
  BY DEF IInv, Shape
<1>2. Shape'
  BY <1>1, IdleSlot, Zenon DEF IInv, Shape, Fields
<1>3. Inert(w)' /\ \A v \in Workers \ {w} : Inert(v) => Inert(v)'
  BY <1>1, IdleSlot, Zenon DEF Inert
<1>4. ASSUME NEW v \in Workers \ {w}, Active(v), ~Inert(v) PROVE Active(v)'
  <2>1. session # w
    BY <1>4, NoneAssumption, Zenon DEF IInv, Active
  <2>2. QED
    BY <1>1, <1>3, <1>4, <2>1, Zenon DEF Active
<1>5. QED
  BY <1>2, <1>3, <1>4, Zenon DEF IInv

\* A worker that starts becomes the active one, when no other is.
LEMMA WorkerStarts ==
  ASSUME IInv, NEW w \in Workers, Start(w, request),
         \A v \in Workers : Inert(v),
         receipts' = receipts, request' = request,
         \/ call' = "waiting" /\ session' = w
         \/ call' = "idle" /\ session' = None /\ result'.outcome = "UNKNOWN"
  PROVE  IInv'
<1> DEFINE r == [Idle EXCEPT !.pc = "open", !.req = request]
<1>1. Fields(r) /\ r.pc = "open" /\ r.req = request /\ r.live = {}
  BY DEF Fields, Idle
<1>2. worker'[w] = r /\ \A v \in Workers \ {w} : worker'[v] = worker[v]
  BY DEF IInv, Shape, Start
<1>3. Shape'
  BY <1>1, <1>2, Zenon DEF IInv, Shape, Start, Fields
<1>4. \A v \in Workers \ {w} : Inert(v)'
  BY <1>2 DEF Inert
<1>5. Active(w)'
  BY <1>1, <1>2, <1>4, Zenon DEF Active
<1>6. QED
  BY <1>3, <1>4, <1>5, Zenon DEF IInv

\* A step of the coordinator that starts no worker.
LEMMA CallStep ==
  ASSUME IInv, Send \/ Retry \/ RouteFails \/ TransportLost \/ Reconcile
  PROVE  IInv'
<1>1. Shape'
  BY DEF IInv, Shape, Send, Retry, RouteFails, TransportLost, Reconcile, disk
<1>2. \A w \in Workers : Inert(w) => Inert(w)'
  BY Zenon DEF Inert, Send, Retry, RouteFails, TransportLost, Reconcile, disk
<1>3. (call # "waiting" => session = None)'
  BY DEF IInv, Send, Retry, RouteFails, TransportLost, Reconcile
<1>4. CASE Send \/ Retry \/ RouteFails \/ Reconcile
  <2>1. ASSUME NEW w \in Workers PROVE Inert(w)
    <3>1. CASE Send \/ Retry \/ RouteFails
      BY <3>1, Zenon DEF IInv, Active, Send, Retry, RouteFails, Retryable
    <3>2. CASE Reconcile
      BY <3>2 DEF IInv, Active, Inert, Reconcile, EvidenceAvailable
    <3>3. QED
      BY <1>4, <3>1, <3>2, Zenon
  <2>2. QED
    BY <1>1, <1>2, <1>3, <2>1, Zenon DEF IInv
<1>5. CASE TransportLost
  <2>1. ASSUME NEW w \in Workers, Active(w) PROVE Active(w)'
    BY <1>2, <1>5, <2>1, Zenon DEF Active, TransportLost, Outcome, disk
  <2>2. QED
    BY <1>1, <1>2, <1>3, <2>1, Zenon DEF IInv
<1>6. QED
  BY <1>4, <1>5, Zenon

\* What the record of a worker is after a durable event: the same request, a
\* step of the execution, and nothing live once the receipt is due.
LEMMA WrittenRecord ==
  ASSUME NEW w \in Workers, Fields(worker[w])
  PROVE  /\ Fields(Written(w))
         /\ Written(w).req = worker[w].req
         /\ Written(w).pc \in {"publish", "run", "verify"}
         /\ Written(w).pc = "publish" => Written(w).live = {}
BY Zenon DEF Written, Fields

\* A worker past its preflight, and not yet at its reply, is the active one.
LEMMA Executing ==
  ASSUME IInv, NEW w \in Workers, worker[w].pc \notin {"idle", "open", "reply"}
  PROVE  ~Inert(w) /\ Active(w) /\ receipts[request.out] = None
BY DEF IInv, Inert, Active

\* The steps of a worker before it publishes.
LEMMA ExecutionStep ==
  ASSUME IInv, NEW w \in Workers,
         \/ OpenBlocked(w) \/ OpenRecovery(w) \/ OpenExhausted(w) \/ OpenExecute(w)
         \/ VerifyHead(w) \/ WriteEvent(w) \/ FinishAttempt(w)
         \/ \E a \in Assignments : RunEnds(w, a)
  PROVE  IInv'
<1>0. Fields(worker[w])
  BY Zenon DEF IInv, Shape, Fields
<1>a. worker[w].pc = "open" => worker[w].live = {}
  BY Zenon DEF IInv, Inert, Active
<1>b. ASSUME worker[w].pc = "open", ~Refused(w)
      PROVE  ~Inert(w) /\ receipts[request.out] = None
  BY <1>b DEF IInv, Inert, Active, Refused
<1>c. ASSUME Unknown(w), UNCHANGED <<coordinator, receipts>> PROVE IInv'
  <2> DEFINE r == [worker[w] EXCEPT !.pc = "reply", !.reply = "UNKNOWN",
                                    !.live = {}, !.ended = {}]
  <2>1. Fields(r) /\ r.req = worker[w].req /\ r.live = {} /\ r.pc = "reply"
    BY <1>0 DEF Fields
  <2>2. worker' = [worker EXCEPT ![w] = r]
    BY <1>c, Zenon DEF Unknown
  <2> HIDE DEF r
  <2>3. QED
    BY <1>c, <2>1, <2>2, WorkerStep, Zenon DEF coordinator
<1>1. CASE OpenBlocked(w)
  <2> DEFINE r == [worker[w] EXCEPT !.pc = "reply", !.reply = "BLOCKED"]
  <2>1. Fields(r) /\ r.req = worker[w].req /\ r.live = {} /\ r.pc = "reply"
    BY <1>0, <1>a, <1>1, Zenon DEF Fields, OpenBlocked
  <2>2. worker' = [worker EXCEPT ![w] = r]
    BY <1>1, Zenon DEF OpenBlocked, Blocked
  <2> HIDE DEF r
  <2>3. QED
    BY <1>1, <2>1, <2>2, WorkerStep, Zenon DEF OpenBlocked, coordinator, disk
<1>2. CASE OpenRecovery(w)
  <2> DEFINE r == [worker[w] EXCEPT !.pc = "recover", !.count = Len(Events(w))]
  <2>1. Fields(r) /\ r.req = worker[w].req /\ r.live = {} /\ r.pc = "recover"
    BY <1>0, <1>a, <1>2, Zenon DEF Fields, OpenRecovery
  <2>2. worker' = [worker EXCEPT ![w] = r]
    BY <1>2, Zenon DEF OpenRecovery
  <2> HIDE DEF r
  <2>3. QED
    BY <1>b, <1>2, <2>1, <2>2, WorkerStep, Zenon DEF OpenRecovery, coordinator, disk
<1>3. CASE OpenExhausted(w)
  BY <1>c, <1>3, Zenon DEF OpenExhausted, disk
<1>4. CASE OpenExecute(w)
  <2> DEFINE r == [worker[w] EXCEPT !.pc = "verify", !.count = Len(Events(w)),
                                    !.pending = Pending(Events(w)),
                                    !.event = WaveEvent]
  <2>1. Fields(r) /\ r.req = worker[w].req /\ r.pc = "verify"
    BY <1>0 DEF Fields
  <2>2. worker' = [worker EXCEPT ![w] = r]
    BY <1>4, Zenon DEF OpenExecute
  <2> HIDE DEF r
  <2>3. QED
    BY <1>b, <1>4, <2>1, <2>2, WorkerStep, Zenon DEF OpenExecute, coordinator, disk
<1>5. CASE VerifyHead(w)
  <2> DEFINE r == [worker[w] EXCEPT !.pc = "write"]
  <2>1. Fields(r) /\ r.req = worker[w].req /\ r.pc = "write"
    BY <1>0, Zenon DEF Fields
  <2>2. worker' = [worker EXCEPT ![w] = r] \/ Unknown(w)
    BY <1>5, Zenon DEF VerifyHead
  <2>3. ~Inert(w) /\ receipts[request.out] = None
    BY <1>5, Executing, Zenon DEF VerifyHead
  <2> HIDE DEF r
  <2>4. QED
    BY <1>c, <1>5, <2>1, <2>2, <2>3, WorkerStep, Zenon DEF VerifyHead, coordinator, disk
<1>6. CASE WriteEvent(w)
  <2>1. worker' = [worker EXCEPT ![w] = Written(w)] \/ Unknown(w)
    BY <1>6, ZenonT(40) DEF WriteEvent
  <2>2. ~Inert(w) /\ receipts[request.out] = None
    BY <1>6, Executing, Zenon DEF WriteEvent
  <2>3. UNCHANGED <<coordinator, receipts>>
    BY <1>6, ZenonT(40) DEF WriteEvent
  <2>4. QED
    BY <1>c, <1>0, <2>1, <2>2, <2>3, WrittenRecord, WorkerStep, Zenon DEF coordinator
<1>7. CASE FinishAttempt(w)
  <2>1. PICK e \in worker[w].ended :
          worker' = [worker EXCEPT ![w].pc = "verify", ![w].ended = @ \ {e},
                                   ![w].event = [kind |-> "FINISH", a |-> e.a, ok |-> e.ok]]
    BY <1>7, Zenon DEF FinishAttempt
  <2> DEFINE r == [worker[w] EXCEPT !.pc = "verify", !.ended = @ \ {e},
                                    !.event = [kind |-> "FINISH", a |-> e.a, ok |-> e.ok]]
  <2>2. Fields(r) /\ r.req = worker[w].req /\ r.pc = "verify"
    BY <1>0 DEF Fields
  <2>3. worker' = [worker EXCEPT ![w] = r]
    BY <2>1, Zenon
  <2>4. ~Inert(w) /\ receipts[request.out] = None
    BY <1>7, Executing, Zenon DEF FinishAttempt
  <2> HIDE DEF r
  <2>5. QED
    BY <1>7, <2>2, <2>3, <2>4, WorkerStep, ZenonT(40) DEF FinishAttempt, coordinator, disk
<1>8. ASSUME NEW a \in Assignments, RunEnds(w, a) PROVE IInv'
  <2>1. PICK ok \in BOOLEAN :
          worker' = [worker EXCEPT ![w].live = @ \ {a},
                                   ![w].ended = @ \cup {[a |-> a, ok |-> ok]}]
    BY <1>8, Zenon DEF RunEnds
  <2> DEFINE r == [worker[w] EXCEPT !.live = @ \ {a},
                                    !.ended = @ \cup {[a |-> a, ok |-> ok]}]
  <2>2. Fields(r) /\ r.req = worker[w].req /\ r.pc = worker[w].pc
    BY <1>0 DEF Fields
  <2>3. worker' = [worker EXCEPT ![w] = r]
    BY <2>1, Zenon
  <2>4. /\ ~Inert(w) /\ receipts[request.out] = None
        /\ worker[w].pc \in {"verify", "write", "run"}
    BY <1>8, Zenon DEF RunEnds, IInv, Inert, Active
  <2> HIDE DEF r
  <2>5. QED
    BY <1>8, <2>2, <2>3, <2>4, WorkerStep, Zenon DEF RunEnds, coordinator
<1>9. QED
  BY <1>1, <1>2, <1>3, <1>4, <1>5, <1>6, <1>7, <1>8, Zenon

\* Publication: the receipt path was free or held the same envelope, so a
\* worker that found its path taken still does, and the publisher is done.
LEMMA PublishStep ==
  ASSUME IInv, NEW w \in Workers, PublishReceipt(w) \/ PublishRecovered(w)
  PROVE  IInv'
<1>0. Fields(worker[w])
  BY Zenon DEF IInv, Shape, Fields
<1>1. Active(w) /\ worker[w].live = {} /\ \A v \in Workers \ {w} : Inert(v)
  BY Executing, Zenon DEF PublishReceipt, PublishRecovered, Active
<1>2. /\ \A v \in Workers \ {w} : worker'[v] = worker[v]
      /\ worker' = [v \in Workers |-> worker'[v]]
      /\ Fields(worker'[w]) /\ worker'[w].req = worker[w].req
      /\ worker'[w].live = {} /\ worker'[w].pc = "reply"
  BY <1>0, <1>1 DEF PublishReceipt, PublishRecovered, PublishEnvelope, Unknown,
                    IInv, Shape, Fields
<1>3. /\ receipts' = [p \in Paths |-> receipts'[p]]
      /\ \A p \in Paths : receipts[p] # None => receipts'[p] = receipts[p]
  BY Zenon DEF PublishReceipt, PublishRecovered, PublishEnvelope, IInv, Shape
<1>4. Shape'
  BY <1>2, <1>3, Zenon DEF PublishReceipt, PublishRecovered, IInv, Shape, Fields, coordinator
<1>5. \A v \in Workers : Inert(v)'
  BY <1>1, <1>2, <1>3 DEF Inert, IInv, Shape
<1>6. QED
  BY <1>4, <1>5, Zenon DEF IInv, PublishReceipt, PublishRecovered, coordinator

\* Every step keeps the invariant when no wave is rerun beside a worker of it.
LEMMA InvStep ==
  ASSUME Overlapping = {}, IInv, [Next]_vars
  PROVE  IInv'
<1>1. CASE UNCHANGED vars
  <2>1. Shape' /\ \A w \in Workers : Inert(w) => Inert(w)'
    BY <1>1, Zenon DEF IInv, Shape, Inert, vars, coordinator, disk
  <2>2. \A w \in Workers : Active(w) => Active(w)'
    BY <1>1, <2>1, Zenon DEF Active, vars, coordinator, disk
  <2>3. QED
    BY <1>1, <2>1, <2>2, Zenon DEF IInv, vars, coordinator
<1>2. CASE Send \/ Retry \/ RouteFails \/ TransportLost \/ Reconcile
  BY <1>2, CallStep, Zenon
<1>3. ASSUME NEW w \in Workers, Dispatch(w) PROVE IInv'
  <2>1. \A v \in Workers : Inert(v)
    BY <1>3, Zenon DEF Dispatch, IInv, Active
  <2>2. QED
    BY <1>3, <2>1, WorkerStarts, Zenon DEF Dispatch, disk
<1>4. ASSUME NEW w \in Workers, Rerun(w) PROVE IInv'
  <2>1. \A v \in Workers : Inert(v)
    BY <1>4, Zenon DEF Rerun, IInv, Active, Inert
  <2>2. QED
    BY <1>4, <2>1, WorkerStarts, Zenon DEF Rerun, IInv, coordinator, disk
<1>5. ASSUME NEW w \in Workers, RerunOverlapping(w) PROVE IInv'
  BY <1>5 DEF RerunOverlapping
<1>6. ASSUME NEW w \in Workers, Reply(w) \/ Crash(w) PROVE IInv'
  BY <1>6, WorkerEnds, Zenon DEF Reply, Crash, disk
<1>7. ASSUME NEW w \in Workers, Working(w) PROVE IInv'
  BY <1>6, <1>7, ExecutionStep, PublishStep, Zenon DEF Working
<1>8. QED
  BY <1>1, <1>2, <1>3, <1>4, <1>5, <1>6, <1>7, Zenon DEF Next, Coordinating

LEMMA InitQuiet ==
  ASSUME Init
  PROVE  IInv
<1>1. Shape
  BY IdleSlot, Zenon DEF Init, Shape, Fields
<1>2. \A w \in Workers : Inert(w)
  BY IdleSlot DEF Init, Inert
<1>3. QED
  BY <1>1, <1>2, Zenon DEF IInv, Init

\* When no wave is rerun beside a live worker of it, a host is quiet whenever
\* its wave may be retried: however many calls were lost and workers died, for
\* any wave and any retry allowance (RemoteHostWaveResult.retryable).
THEOREM HostQuietOnRetry ==
  ASSUME Overlapping = {}
  PROVE  Spec => []RetryFindsHostQuiet
<1>1. Init => IInv
  BY InitQuiet
<1>2. IInv /\ [Next]_vars => IInv'
  BY InvStep, Zenon
<1>3. IInv => RetryFindsHostQuiet
  BY DEF IInv, Inert, Active, RetryFindsHostQuiet, Retryable
<1>4. QED
  BY <1>1, <1>2, <1>3, PTL DEF Spec
-----------------------------------------------------------------------------
(* Types, whatever runs beside what.                                       *)

\* The first pending assignment is one of them.
LEMMA FirstPending ==
  ASSUME NEW S \in SUBSET Assignments, S # {}
  PROVE  First(S) \in S
<1> DEFINE T == {i \in 1..Len(Wave) : Wave[i] \in S}
<1>1. Len(Wave) \in Nat
  BY WaveAssumption
<1>2. T \subseteq Nat /\ T # {}
  BY <1>1 DEF Assignments
<1>3. PICK i \in T : \A j \in T : ~(<<j, i>> \in OpToRel(<, Nat))
  BY <1>2, WFMin, NatLessThanWellFounded, Zenon
<1>4. \A j \in T : ~(j < i)
  BY <1>2, <1>3, Zenon DEF OpToRel
<1>5. i \in 1..Len(Wave) /\ Wave[i] \in S /\ \A j \in 1..(i - 1) : Wave[j] \notin S
  <2>1. \A j \in 1..(i - 1) : j \in 1..Len(Wave) /\ j < i
    BY <1>1
  <2> QED BY <1>4, <2>1
<1> QED BY <1>5 DEF First

\* The parts of a typed state the steps read.
LEMMA TypedParts ==
  ASSUME TypeOK, NEW w \in Workers
  PROVE  /\ worker[w] \in WorkerState
         /\ worker[w].req \in Requests
         /\ worker[w].req.out \in Paths /\ worker[w].req.root \in Paths
         /\ worker[w].count \in Nat /\ worker[w].event \in Event
         /\ worker[w].pending \in SUBSET Assignments
         /\ worker[w].tokens \in SUBSET Assignments
         /\ worker[w].live \in SUBSET Assignments
         /\ worker[w].ended \in SUBSET [a : Assignments, ok : BOOLEAN]
         /\ Events(w) \in Seq(Event) /\ Len(Events(w)) \in Nat
         /\ Broken(w) \in BOOLEAN
         /\ journal[worker[w].req.root] \in [events : Seq(Event), broken : BOOLEAN]
<1>1. worker[w] \in WorkerState
  BY DEF TypeOK
<1>2. /\ worker[w].req \in Requests
      /\ worker[w].count \in Nat /\ worker[w].event \in Event
      /\ worker[w].pending \in SUBSET Assignments
      /\ worker[w].tokens \in SUBSET Assignments
      /\ worker[w].live \in SUBSET Assignments
      /\ worker[w].ended \in SUBSET [a : Assignments, ok : BOOLEAN]
  BY <1>1, Zenon DEF WorkerState
<1>3. worker[w].req.out \in Paths /\ worker[w].req.root \in Paths
  BY <1>2, Zenon DEF Requests
<1>4. journal[worker[w].req.root] \in [events : Seq(Event), broken : BOOLEAN]
  BY <1>3, Zenon DEF TypeOK
<1>5. Events(w) \in Seq(Event) /\ Broken(w) \in BOOLEAN
  BY <1>4, Zenon DEF Events, Broken
<1>6. Len(Events(w)) \in Nat
  BY <1>5
<1>7. QED
  BY <1>1, <1>2, <1>3, <1>4, <1>5, <1>6, Zenon

LEMMA WaveEventTyped == WaveEvent \in Event
BY Zenon DEF WaveEvent, Event, Kinds

LEMMA IdleTyped == Idle \in WorkerState /\ Idle.reply = "" /\ Idle.req \in Requests
<1>1. Idle.req \in Requests
  BY BoundAssumption DEF Idle, Requests, Paths
<1>2. Idle.event \in Event
  BY WaveEventTyped DEF Idle
<1>3. QED
  BY <1>1, <1>2, Zenon DEF Idle, WorkerState

\* A step that replaces one worker's record, keeping its request, and the
\* call's, and what is on disk typed.
LEMMA TypeKept ==
  ASSUME TypeOK, ReceiptsNamed, NEW w \in Workers, NEW r \in WorkerState,
         r.req = worker[w].req, worker' = [worker EXCEPT ![w] = r],
         UNCHANGED coordinator,
         journal' \in [Paths -> [events : Seq(Event), broken : BOOLEAN]],
         receipts' \in [Paths -> [root : Paths, count : Nat] \cup {None}],
         \A p \in Paths : receipts[p] # None => receipts'[p] # None,
         r.pc = "reply" => r.reply # "",
         r.reply \in {"SUCCEEDED", "FAILED"} => receipts'[r.req.out] # None,
         traced' \in SUBSET Assignments, faults' = faults
  PROVE  TypeOK' /\ ReceiptsNamed'
<1>1. /\ worker'[w] = r /\ \A v \in Workers \ {w} : worker'[v] = worker[v]
      /\ worker' \in [Workers -> WorkerState]
  BY Zenon DEF TypeOK
<1>2. \A v \in Workers : worker'[v].req = worker[v].req
  BY <1>1, Zenon
<1>3. TypeOK'
  BY <1>1, <1>2, Zenon DEF TypeOK, coordinator
<1>4. \A v \in Workers : worker[v].req.out \in Paths
  BY TypedParts, Zenon
<1>5. ReceiptsNamed'
  BY <1>1, <1>2, <1>4, Zenon DEF ReceiptsNamed, TypeOK, coordinator
<1>6. QED
  BY <1>3, <1>5, Zenon

\* The record after a durable event.
LEMMA WrittenTyped ==
  ASSUME TypeOK, NEW w \in Workers
  PROVE  /\ Written(w) \in WorkerState
         /\ Written(w).req = worker[w].req
         /\ Written(w).reply = worker[w].reply
         /\ Written(w).pc # "reply"
<1> DEFINE p == worker[w]
           todo == IF p.event.kind = "INTENT" THEN p.pending \ {p.event.a} ELSE p.pending
           tokens == IF p.event.kind = "INTENT" THEN p.tokens \cup {p.event.a}
                                                ELSE p.tokens
           next == [p EXCEPT !.count = p.count + 1, !.pending = todo]
           final1 == [next EXCEPT !.pc = IF p.live = {} /\ p.ended = {}
                                         THEN "publish" ELSE "run"]
           intent == [kind |-> "INTENT", a |-> First(todo), ok |-> FALSE]
           final2 == [next EXCEPT !.pc = "verify", !.tokens = tokens, !.event = intent]
           final3 == [next EXCEPT !.pc = "run", !.tokens = {}, !.live = tokens]
<1>1. /\ p \in WorkerState /\ p.count \in Nat /\ p.event \in Event
      /\ p.pending \in SUBSET Assignments /\ p.tokens \in SUBSET Assignments
  BY TypedParts, Zenon
<1>2. todo \in SUBSET Assignments
  BY <1>1, Zenon
<1>3. tokens \in SUBSET Assignments
  BY <1>1, Zenon DEF Event
<1>4. next \in WorkerState /\ next.req = p.req /\ next.reply = p.reply
  <2> HIDE DEF todo
  <2>1. p.count + 1 \in Nat
    BY <1>1
  <2> QED BY <1>1, <1>2, <2>1, Zenon DEF WorkerState
<1>5. todo # {} => intent \in Event
  BY <1>2, FirstPending, Zenon DEF Event, Kinds
<1>6. Written(w) = final1 \/ (todo # {} /\ Written(w) = final2) \/ Written(w) = final3
  BY DEF Written
<1> HIDE DEF todo, tokens, next, intent
<1>7. final1 \in WorkerState /\ final1.req = p.req /\ final1.reply = p.reply /\ final1.pc # "reply"
  BY <1>4, Zenon DEF WorkerState
<1>8. todo # {} => /\ final2 \in WorkerState /\ final2.req = p.req
                   /\ final2.reply = p.reply /\ final2.pc = "verify"
  BY <1>3, <1>4, <1>5, Zenon DEF WorkerState
<1>9. final3 \in WorkerState /\ final3.req = p.req /\ final3.reply = p.reply /\ final3.pc = "run"
  BY <1>3, <1>4, Zenon DEF WorkerState
<1>10. QED
  BY <1>6, <1>7, <1>8, <1>9, Zenon

\* A worker that is done without a receipt leaves the types as they are.
LEMMA DoneKeepsTypes ==
  ASSUME TypeOK, ReceiptsNamed, NEW w \in Workers, Blocked(w) \/ Unknown(w),
         UNCHANGED <<coordinator, disk, faults>>
  PROVE  TypeOK' /\ ReceiptsNamed'
<1> DEFINE b == [worker[w] EXCEPT !.pc = "reply", !.reply = "BLOCKED"]
           u == [worker[w] EXCEPT !.pc = "reply", !.reply = "UNKNOWN",
                                  !.live = {}, !.ended = {}]
<1>1. worker[w] \in WorkerState
  BY TypedParts, Zenon
<1>2. b \in WorkerState /\ b.req = worker[w].req /\ b.reply = "BLOCKED"
  BY <1>1, Zenon DEF WorkerState
<1>3. u \in WorkerState /\ u.req = worker[w].req /\ u.reply = "UNKNOWN"
  BY <1>1, Zenon DEF WorkerState
<1>4. worker' = [worker EXCEPT ![w] = b] \/ worker' = [worker EXCEPT ![w] = u]
  BY ZenonT(40) DEF Blocked, Unknown
<1> HIDE DEF b, u
<1>5. QED
  BY <1>2, <1>3, <1>4, TypeKept, Zenon DEF TypeOK, disk

\* The steps of a worker before it publishes keep the types.
LEMMA ExecutionTypes ==
  ASSUME TypeOK, ReceiptsNamed, NEW w \in Workers,
         \/ OpenBlocked(w) \/ OpenRecovery(w) \/ OpenExhausted(w) \/ OpenExecute(w)
         \/ VerifyHead(w) \/ WriteEvent(w) \/ FinishAttempt(w)
         \/ \E a \in Assignments : RunEnds(w, a)
  PROVE  TypeOK' /\ ReceiptsNamed'
<1> USE TypedParts
<1>0. /\ journal \in [Paths -> [events : Seq(Event), broken : BOOLEAN]]
      /\ receipts \in [Paths -> [root : Paths, count : Nat] \cup {None}]
      /\ traced \in SUBSET Assignments
      /\ worker[w].reply \in {"SUCCEEDED", "FAILED"} => receipts[worker[w].req.out] # None
  BY Zenon DEF TypeOK, ReceiptsNamed
<1>1. ASSUME NEW r \in WorkerState, r.req = worker[w].req, r.reply = worker[w].reply,
             r.pc # "reply",
             worker' = [worker EXCEPT ![w] = r], UNCHANGED <<coordinator, disk, faults>>
      PROVE  TypeOK' /\ ReceiptsNamed'
  BY <1>0, <1>1, TypeKept, ZenonT(40) DEF disk
<1>2. CASE OpenBlocked(w) \/ OpenExhausted(w)
  BY <1>2, DoneKeepsTypes, Zenon DEF OpenBlocked, OpenExhausted
<1>3. CASE OpenRecovery(w)
  <2> DEFINE r == [worker[w] EXCEPT !.pc = "recover", !.count = Len(Events(w))]
  <2>1. r \in WorkerState /\ r.req = worker[w].req /\ r.reply = worker[w].reply
        /\ r.pc # "reply"
    BY Zenon DEF WorkerState
  <2>2. worker' = [worker EXCEPT ![w] = r] /\ UNCHANGED <<coordinator, disk, faults>>
    BY <1>3, Zenon DEF OpenRecovery
  <2> HIDE DEF r
  <2>3. QED
    BY <1>1, <2>1, <2>2, Zenon
<1>4. CASE OpenExecute(w)
  <2> DEFINE r == [worker[w] EXCEPT !.pc = "verify", !.count = Len(Events(w)),
                                    !.pending = Pending(Events(w)),
                                    !.event = WaveEvent]
  <2>1. Pending(Events(w)) \in SUBSET Assignments
    BY DEF Pending
  <2>2. r \in WorkerState /\ r.req = worker[w].req /\ r.reply = worker[w].reply
        /\ r.pc # "reply"
    BY <2>1, WaveEventTyped, ZenonT(40) DEF WorkerState
  <2>3. worker' = [worker EXCEPT ![w] = r] /\ UNCHANGED <<coordinator, disk, faults>>
    BY <1>4, Zenon DEF OpenExecute
  <2> HIDE DEF r
  <2>4. QED
    BY <1>1, <2>2, <2>3
<1>5. CASE VerifyHead(w)
  <2> DEFINE r == [worker[w] EXCEPT !.pc = "write"]
  <2>1. r \in WorkerState /\ r.req = worker[w].req /\ r.reply = worker[w].reply
        /\ r.pc # "reply"
    BY ZenonT(40) DEF WorkerState
  <2>2. /\ worker' = [worker EXCEPT ![w] = r] \/ Unknown(w)
        /\ UNCHANGED <<coordinator, disk, faults>>
    BY <1>5 DEF VerifyHead
  <2> HIDE DEF r
  <2>3. QED
    BY <1>1, <2>1, <2>2, DoneKeepsTypes
<1>6. CASE WriteEvent(w)
  <2> DEFINE root == worker[w].req.root
             log == journal[root]
  <2>1. UNCHANGED <<coordinator, receipts, traced, faults>>
    BY <1>6, Zenon DEF WriteEvent
  <2>2. CASE Unknown(w) /\ journal' = journal
    BY <2>1, <2>2, DoneKeepsTypes DEF disk
  <2>3. CASE /\ worker' = [worker EXCEPT ![w] = Written(w)]
             /\ journal' \in [Paths -> [events : Seq(Event), broken : BOOLEAN]]
    BY <1>0, <2>1, <2>3, WrittenTyped, TypeKept, Zenon
  <2>4. [log EXCEPT !.broken = TRUE] \in [events : Seq(Event), broken : BOOLEAN]
    BY Zenon
  <2>5. [log EXCEPT !.events = Append(@, worker[w].event)]
          \in [events : Seq(Event), broken : BOOLEAN]
    <3>1. log \in [events : Seq(Event), broken : BOOLEAN] /\ worker[w].event \in Event
      OBVIOUS
    <3>2. Append(log.events, worker[w].event) \in Seq(Event)
      BY <3>1
    <3> HIDE DEF log
    <3>3. QED
      BY <3>1, <3>2, ZenonT(40)
  <2>6. ASSUME NEW l \in [events : Seq(Event), broken : BOOLEAN],
               journal' = [journal EXCEPT ![root] = l]
        PROVE  journal' \in [Paths -> [events : Seq(Event), broken : BOOLEAN]]
    BY <1>0, <2>6
  <2>7. \/ Unknown(w) /\ journal' = journal
        \/ /\ worker' = [worker EXCEPT ![w] = Written(w)]
           /\ \/ journal' = [journal EXCEPT ![root] = [log EXCEPT !.broken = TRUE]]
              \/ journal' = [journal EXCEPT ![root] =
                               [log EXCEPT !.events = Append(@, worker[w].event)]]
    BY <1>6, ZenonT(40) DEF WriteEvent
  <2> HIDE DEF root, log
  <2>8. QED
    BY <2>2, <2>3, <2>4, <2>5, <2>6, <2>7, ZenonT(40)
<1>7. CASE FinishAttempt(w)
  <2>1. PICK e \in worker[w].ended :
          worker' = [worker EXCEPT ![w].pc = "verify", ![w].ended = @ \ {e},
                                   ![w].event = [kind |-> "FINISH", a |-> e.a, ok |-> e.ok]]
    BY <1>7, ZenonT(40) DEF FinishAttempt
  <2> DEFINE event == [kind |-> "FINISH", a |-> e.a, ok |-> e.ok]
             r == [worker[w] EXCEPT !.pc = "verify", !.ended = @ \ {e}, !.event = event]
  <2>2. event \in Event
    BY Zenon DEF Event, Kinds
  <2>3. worker' = [worker EXCEPT ![w] = r] /\ UNCHANGED <<coordinator, disk, faults>>
    BY <1>7, <2>1, ZenonT(40) DEF FinishAttempt
  <2> HIDE DEF event
  <2>4. r \in WorkerState /\ r.req = worker[w].req /\ r.reply = worker[w].reply
        /\ r.pc # "reply"
    BY <2>2, ZenonT(40) DEF WorkerState
  <2> HIDE DEF r
  <2>5. QED
    BY <1>1, <2>3, <2>4, ZenonT(40)
<1>8. ASSUME NEW a \in Assignments, RunEnds(w, a) PROVE TypeOK' /\ ReceiptsNamed'
  <2>1. PICK ok \in BOOLEAN :
          /\ worker' = [worker EXCEPT ![w].live = @ \ {a},
                                      ![w].ended = @ \cup {[a |-> a, ok |-> ok]}]
          /\ traced' \in {traced, traced \cup {a}}
    BY <1>8, Zenon DEF RunEnds
  <2> DEFINE r == [worker[w] EXCEPT !.live = @ \ {a},
                                    !.ended = @ \cup {[a |-> a, ok |-> ok]}]
  <2>2. r \in WorkerState /\ r.req = worker[w].req /\ r.reply = worker[w].reply
        /\ r.pc = worker[w].pc
    <3>1. worker[w].ended \cup {[a |-> a, ok |-> ok]}
            \in SUBSET [a : Assignments, ok : BOOLEAN]
      OBVIOUS
    <3>2. worker[w].live \ {a} \in SUBSET Assignments
      OBVIOUS
    <3>3. QED
      BY <3>1, <3>2, ZenonT(40) DEF WorkerState
  <2>3. worker' = [worker EXCEPT ![w] = r] /\ traced' \in SUBSET Assignments
    BY <1>0, <2>1, ZenonT(40)
  <2>4. UNCHANGED <<coordinator, journal, receipts, faults>>
    BY <1>8, Zenon DEF RunEnds
  <2> HIDE DEF r
  <2>5. QED
    BY <1>0, <2>2, <2>3, <2>4, TypeKept, Zenon DEF ReceiptsNamed
<1>9. QED
  BY <1>2, <1>3, <1>4, <1>5, <1>6, <1>7, <1>8, Zenon

\* Publication keeps the types: the replied receipt is there.
LEMMA PublishTypes ==
  ASSUME TypeOK, ReceiptsNamed, NEW w \in Workers,
         PublishReceipt(w) \/ PublishRecovered(w)
  PROVE  TypeOK' /\ ReceiptsNamed'
<1> DEFINE envelope == [root |-> worker[w].req.root, count |-> worker[w].count]
           out == worker[w].req.out
           r == [worker[w] EXCEPT !.pc = "reply", !.reply = Verdict(Bound(envelope))]
<1>0. UNCHANGED <<coordinator, journal, traced, faults>>
  BY Zenon DEF PublishReceipt, PublishRecovered
<1>1. CASE Unknown(w) /\ receipts' = receipts
  BY <1>0, <1>1, DoneKeepsTypes, Zenon DEF disk
<1>2. CASE /\ receipts[out] \in {None, envelope}
           /\ receipts' = [receipts EXCEPT ![out] = envelope]
           /\ worker' = [worker EXCEPT ![w] = r]
  <2>1. worker[w] \in WorkerState /\ out \in Paths
        /\ envelope \in [root : Paths, count : Nat]
    BY TypedParts, Zenon
  <2>2. Verdict(Bound(envelope)) \in {"SUCCEEDED", "FAILED"}
    BY DEF Verdict
  <2>3. r \in WorkerState /\ r.req = worker[w].req /\ r.reply # ""
    BY <2>1, <2>2, Zenon DEF WorkerState
  <2>4. envelope # None
    BY <2>1, NoneAssumption DEF Paths
  <2> HIDE DEF envelope, r
  <2>5. /\ receipts' \in [Paths -> [root : Paths, count : Nat] \cup {None}]
        /\ \A p \in Paths : receipts[p] # None => receipts'[p] # None
        /\ receipts'[out] # None
    BY <1>2, <2>1, <2>4, Zenon DEF TypeOK
  <2>6. QED
    BY <1>0, <1>2, <2>3, <2>5, TypeKept, ZenonT(40) DEF TypeOK
<1>3. \/ Unknown(w) /\ receipts' = receipts
      \/ /\ receipts[out] \in {None, envelope}
         /\ receipts' = [receipts EXCEPT ![out] = envelope]
         /\ worker' = [worker EXCEPT ![w] = r]
  BY Zenon DEF PublishReceipt, PublishRecovered, PublishEnvelope
<1>4. QED
  BY <1>1, <1>2, <1>3, Zenon

\* A step of the coordinator that starts no worker keeps the types: a retry
\* resumes a receipt that is published.
LEMMA CallTypes ==
  ASSUME TypeOK, ReceiptsNamed,
         Send \/ Retry \/ RouteFails \/ TransportLost \/ Reconcile
  PROVE  TypeOK' /\ ReceiptsNamed'
<1>0. worker' = worker /\ receipts' = receipts /\ UNCHANGED <<final, journal, traced>>
  BY Zenon DEF Send, Retry, RouteFails, TransportLost, Reconcile, disk
<1>1. faults' \in 0..MaxFaults
  <2>1. faults' = faults \/ (faults < MaxFaults /\ faults' = faults + 1)
    BY Zenon DEF Send, Retry, RouteFails, TransportLost, Reconcile, Fault
  <2>2. QED
    BY <2>1, BoundAssumption DEF TypeOK
<1>2. /\ call \in {"idle", "prepare"} => session = None
      /\ call = "waiting" => session \in Workers /\ worker[session].req = request
  BY DEF TypeOK
<1>3. CASE Send
  BY <1>0, <1>1, <1>2, <1>3, ZenonT(40) DEF Send, TypeOK, ReceiptsNamed
<1>4. CASE RouteFails \/ TransportLost
  <2> DEFINE res(o) == [outcome |-> o, receipt |-> 0]
  <2>1. result' \in {res("SSH_FAILED"), res("UNKNOWN")} /\ call' = "idle"
        /\ session' = None /\ request' = request
    BY <1>2, <1>4, Zenon DEF RouteFails, TransportLost, Outcome
  <2>2. result' \in [outcome : Outcomes, receipt : Paths \cup {0}] /\ result'.receipt = 0
    BY <2>1 DEF Outcomes
  <2>3. QED
    BY <1>0, <1>1, <2>1, <2>2, Zenon DEF TypeOK, ReceiptsNamed
<1>5. CASE Reconcile
  <2>1. /\ result'.receipt = request.out /\ receipts[request.out] # None
        /\ result'.outcome \in {"RECONCILED_SUCCEEDED", "RECONCILED_FAILED"}
        /\ result' \in [outcome : Outcomes, receipt : {request.out}]
        /\ UNCHANGED <<call, request, session>>
    BY <1>5, Zenon DEF Reconcile, Outcome, EvidenceAvailable, Outcomes
  <2>2. request.out \in Paths
    BY Zenon DEF TypeOK, Requests
  <2>3. QED
    BY <1>0, <1>1, <2>1, <2>2, Zenon DEF TypeOK, ReceiptsNamed
<1>6. CASE Retry
  <2>1. PICK out \in Paths :
          request' = [out |-> out, resume |-> result.receipt,
                      root |-> IF result.receipt = 0 THEN out
                               ELSE receipts[result.receipt].root]
    BY <1>6, Zenon DEF Retry
  <2>2. result.receipt \in Paths \cup {0}
    BY DEF TypeOK
  <2>3. result.receipt # 0 => receipts[result.receipt].root \in Paths
    BY <2>2, Zenon DEF TypeOK, ReceiptsNamed
  <2>4. request' \in Requests
    BY <2>1, <2>2, <2>3, Zenon DEF Requests
  <2>5. call' = "prepare" /\ session' = None /\ result' = result
    BY <1>2, <1>6, Zenon DEF Retry
  <2>6. QED
    BY <1>0, <1>1, <2>4, <2>5, Zenon DEF TypeOK, ReceiptsNamed
<1>7. QED
  BY <1>3, <1>4, <1>5, <1>6, Zenon

\* A worker that starts on the call's request.
LEMMA StartTypes ==
  ASSUME TypeOK, ReceiptsNamed, NEW w \in Workers, Start(w, request),
         UNCHANGED <<final, request, result, disk>>, faults' \in 0..MaxFaults,
         \/ call = "prepare" /\ call' = "waiting" /\ session' = w
         \/ call = "idle" /\ UNCHANGED <<call, session>>
  PROVE  TypeOK' /\ ReceiptsNamed'
<1> DEFINE r == [Idle EXCEPT !.pc = "open", !.req = request]
<1>1. r \in WorkerState /\ r.req = request /\ r.reply = "" /\ r.pc = "open"
  BY IdleTyped, Zenon DEF TypeOK, WorkerState, Idle
<1>2. worker' = [worker EXCEPT ![w] = r]
  BY DEF Start
<1> HIDE DEF r
<1>3. /\ worker'[w] = r /\ \A v \in Workers \ {w} : worker'[v] = worker[v]
      /\ worker' \in [Workers -> WorkerState]
  BY <1>1, <1>2, ZenonT(40) DEF TypeOK
<1>4. TypeOK'
  BY <1>1, <1>3, Zenon DEF TypeOK, disk
<1>5. ReceiptsNamed'
  BY <1>1, <1>3, Zenon DEF ReceiptsNamed, disk
<1>6. QED
  BY <1>4, <1>5, Zenon

\* A worker that ends, and with it the call that waits for it.
LEMMA EndTypes ==
  ASSUME TypeOK, ReceiptsNamed, NEW w \in Workers,
         worker' = [worker EXCEPT ![w] = Idle], UNCHANGED <<final, request, receipts>>,
         journal' \in [Paths -> [events : Seq(Event), broken : BOOLEAN]],
         traced' \in SUBSET Assignments, faults' \in 0..MaxFaults,
         IF session = w
         THEN /\ call' = "idle" /\ session' = None
              /\ result' \in [outcome : Outcomes, receipt : Paths \cup {0}]
              /\ result'.receipt # 0 => receipts[result'.receipt] # None
         ELSE UNCHANGED <<call, session, result>>
  PROVE  TypeOK' /\ ReceiptsNamed'
<1>1. /\ worker'[w] = Idle /\ \A v \in Workers \ {w} : worker'[v] = worker[v]
      /\ worker' \in [Workers -> WorkerState]
  BY IdleTyped, Zenon DEF TypeOK
<1>2. IF call' = "waiting" THEN session' \in Workers /\ worker'[session'].req = request
                           ELSE session' = None
  BY <1>1, NoneAssumption, Zenon DEF TypeOK
<1>3. TypeOK'
  BY <1>1, <1>2, Zenon DEF TypeOK
<1>4. ReceiptsNamed'
  BY <1>1, IdleTyped, IdleSlot, Zenon DEF ReceiptsNamed
<1>5. QED
  BY <1>3, <1>4, Zenon

\* Every step keeps the types.
LEMMA TypeStep ==
  ASSUME TypeOK, ReceiptsNamed, [Next]_vars
  PROVE  TypeOK' /\ ReceiptsNamed'
<1>0. faults \in Nat /\ faults \in 0..MaxFaults /\ (Fault => faults' \in 0..MaxFaults)
  BY BoundAssumption DEF TypeOK, Fault
<1>1. CASE UNCHANGED vars
  BY <1>1, Zenon DEF TypeOK, ReceiptsNamed, vars, coordinator, disk
<1>2. CASE Send \/ Retry \/ RouteFails \/ TransportLost \/ Reconcile
  BY <1>2, CallTypes, Zenon
<1>3. ASSUME NEW w \in Workers, Dispatch(w) \/ Rerun(w) \/ RerunOverlapping(w)
      PROVE  TypeOK' /\ ReceiptsNamed'
  BY <1>0, <1>3, StartTypes, Zenon DEF Dispatch, Rerun, RerunOverlapping, coordinator, disk
<1>4. ASSUME NEW w \in Workers, Reply(w) PROVE TypeOK' /\ ReceiptsNamed'
  <2> DEFINE rec == IF worker[w].reply \in {"SUCCEEDED", "FAILED"}
                    THEN worker[w].req.out ELSE 0
             res == [outcome |-> worker[w].reply, receipt |-> rec]
  <2>1. /\ worker' = [worker EXCEPT ![w] = Idle]
        /\ UNCHANGED <<final, request, disk, faults>>
        /\ IF session = w THEN call' = "idle" /\ session' = None /\ result' = res
                          ELSE UNCHANGED <<call, session, result>>
    BY <1>4, Zenon DEF Reply, Outcome
  <2>2. rec \in Paths \cup {0} /\ (rec # 0 => receipts[rec] # None)
    BY TypedParts, Zenon DEF ReceiptsNamed
  <2>3. worker[w].reply \in {"SUCCEEDED", "FAILED", "BLOCKED", "UNKNOWN"}
    BY <1>4, TypedParts, Zenon DEF WorkerState, ReceiptsNamed, Reply
  <2>4. res \in [outcome : Outcomes, receipt : Paths \cup {0}] /\ res.receipt = rec
    BY <2>2, <2>3, Zenon DEF Outcomes
  <2> HIDE DEF res, rec
  <2>5. QED
    BY <1>0, <2>1, <2>2, <2>4, EndTypes, Zenon DEF TypeOK, disk
<1>5. ASSUME NEW w \in Workers, Crash(w) PROVE TypeOK' /\ ReceiptsNamed'
  <2> DEFINE root == worker[w].req.root
             res == [outcome |-> "UNKNOWN", receipt |-> 0]
  <2>1. /\ worker' = [worker EXCEPT ![w] = Idle]
        /\ UNCHANGED <<final, request, receipts>>
        /\ faults' \in 0..MaxFaults
        /\ traced' \in {traced, traced \cup worker[w].live}
        /\ IF session = w THEN call' = "idle" /\ session' = None /\ result' = res
                          ELSE UNCHANGED <<call, session, result>>
    BY <1>0, <1>5, Zenon DEF Crash, Outcome
  <2>2. journal' \in [Paths -> [events : Seq(Event), broken : BOOLEAN]]
    <3> DEFINE log == journal[root]
               l == [log EXCEPT !.events = Append(@, worker[w].event), !.broken = TRUE]
    <3>1. /\ log \in [events : Seq(Event), broken : BOOLEAN]
          /\ worker[w].event \in Event
      BY TypedParts, Zenon
    <3>2. Append(log.events, worker[w].event) \in Seq(Event)
      BY <3>1
    <3>3. journal' = journal \/ journal' = [journal EXCEPT ![root] = l]
      BY <1>5, Zenon DEF Crash
    <3> HIDE DEF log
    <3>4. l \in [events : Seq(Event), broken : BOOLEAN]
      BY <3>1, <3>2, Zenon
    <3> HIDE DEF l
    <3>5. QED
      BY <3>3, <3>4, Zenon DEF TypeOK
  <2>3. traced' \in SUBSET Assignments
    BY <2>1, TypedParts, Zenon DEF TypeOK
  <2>4. res \in [outcome : Outcomes, receipt : Paths \cup {0}] /\ res.receipt = 0
    BY Zenon DEF Outcomes
  <2> HIDE DEF res
  <2>5. QED
    BY <2>1, <2>2, <2>3, <2>4, EndTypes, ZenonT(40)
<1>6. ASSUME NEW w \in Workers, Working(w) PROVE TypeOK' /\ ReceiptsNamed'
  BY <1>4, <1>6, ExecutionTypes, PublishTypes, Zenon DEF Working
<1>7. QED
  BY <1>1, <1>2, <1>3, <1>5, <1>6, Zenon DEF Next, Coordinating

LEMMA InitTypes ==
  ASSUME Init
  PROVE  TypeOK /\ ReceiptsNamed
<1>1. /\ worker \in [Workers -> WorkerState] /\ request \in Requests
      /\ \A w \in Workers : worker[w].reply = "" /\ worker[w].pc = "idle"
  BY IdleTyped, IdleSlot, Zenon DEF Init
<1>2. /\ journal \in [Paths -> [events : Seq(Event), broken : BOOLEAN]]
      /\ receipts \in [Paths -> [root : Paths, count : Nat] \cup {None}]
  BY DEF Init
<1>3. /\ result \in [outcome : Outcomes, receipt : Paths \cup {0}]
      /\ result.receipt = 0 /\ faults \in 0..MaxFaults
  BY BoundAssumption DEF Init, Outcomes
<1>4. QED
  BY <1>1, <1>2, <1>3, Zenon DEF Init, TypeOK, ReceiptsNamed

LEMMA TypesAlways == Spec => [](TypeOK /\ ReceiptsNamed)
<1>1. Init => TypeOK /\ ReceiptsNamed
  BY InitTypes, Zenon
<1>2. TypeOK /\ ReceiptsNamed /\ [Next]_vars => (TypeOK /\ ReceiptsNamed)'
  BY TypeStep, Zenon
<1>3. QED
  BY <1>1, <1>2, PTL DEF Spec

\* Types hold, overlapping reruns included; and a coordinator that waits,
\* waits for a worker of its own request (execute_remote_host_wave).
THEOREM TypeCorrect == Spec => []TypeOK
BY TypesAlways, PTL
=============================================================================
