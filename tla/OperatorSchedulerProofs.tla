---------------------- MODULE OperatorSchedulerProofs ----------------------
(***************************************************************************)
(* For every stage, inventory, envelope and number of faults.  Under every *)
(* fault, the ledger is well typed, RUNNING rows are apart and retries are *)
(* justified (LedgerInv).  While the ledger write after a launch does not  *)
(* fail ("attach") and no wrapper outlasts the attach grace ("late"), no   *)
(* process outlives its RUNNING row, live leases are apart on the GPUs and *)
(* verdicts are the evidence's (ProcessInv).                               *)
(***************************************************************************)
EXTENDS OperatorScheduler, FiniteSetTheorems, TLAPS

\* Leases and groups: a lease is a member of itself and of no other lease.
LEMMA MembersFacts ==
  ASSUME NEW l \in Leases
  PROVE  /\ l \in Keys /\ l \in Members(l) /\ Members(l) \subseteq Keys
         /\ \A m \in Leases : m \in Members(l) => m = l
         /\ \A m \in Leases : \A k \in Members(l) : k \in Members(m) => m = l
  <1>1. l \in Keys BY DEF Leases
  <1>2. CASE InGroup(l)
    <2>1. l[1] = Leader /\ l[2] = 1 /\ l = <<Leader, 1>> BY <1>1, <1>2 DEF Leases, InGroup, Keys
    <2>2. 1 \in Attempts BY <1>1, <2>1, Zenon DEF Keys
    <2>3. Members(l) = {<<c, 1>> : c \in Group} BY <1>2 DEF Members
    <2>4. l \in Members(l) BY <1>2, <2>1, <2>3, Zenon DEF InGroup
    <2>5. Members(l) \subseteq Keys BY <2>2, <2>3, OperatorAssumption DEF Keys
    <2>6. ASSUME NEW m \in Leases, m \in Members(l) PROVE m = l
      <3>1. PICK c \in Group : m = <<c, 1>> BY <2>3, <2>6, Zenon
      <3>2. InGroup(m) BY <3>1 DEF InGroup
      <3>3. m[1] = Leader BY <3>2 DEF Leases
      <3> QED BY <2>1, <3>1, <3>3, Zenon
    <2>7. ASSUME NEW m \in Leases, NEW k \in Members(l), k \in Members(m) PROVE m = l
      <3>1. PICK c \in Group : k = <<c, 1>> BY <2>3
      <3>2. InGroup(k) BY <3>1 DEF InGroup
      <3>3. CASE InGroup(m)
        <4>1. m[1] = Leader /\ m[2] = 1 /\ m \in Cells \X Attempts BY <3>3 DEF Leases, InGroup, Keys
        <4> QED BY <2>1, <4>1
      <3>4. CASE ~InGroup(m)
        <4>1. k = m BY <2>7, <3>4, Zenon DEF Members
        <4> QED BY <3>2, <3>4, <4>1, Zenon
      <3> QED BY <3>3, <3>4, Zenon
    <2> QED BY <1>1, <2>4, <2>5, <2>6, <2>7, Zenon
  <1>3. CASE ~InGroup(l)
    <2>1. Members(l) = {l} BY <1>3, Zenon DEF Members
    <2>2. ASSUME NEW m \in Leases, l \in Members(m) PROVE m = l
      <3>1. CASE InGroup(m)
        <4>1. PICK c \in Group : l = <<c, 1>> BY <2>2, <3>1, Zenon DEF Members
        <4> QED BY <1>3, <4>1, Zenon DEF InGroup
      <3>2. CASE ~InGroup(m) BY <2>2, <3>2, Zenon DEF Members
      <3> QED BY <3>1, <3>2, Zenon
    <2> QED BY <1>1, <2>1, <2>2, Zenon
  <1> QED BY <1>2, <1>3, Zenon

\* The next attempt of a cell is an attempt, and of that cell only.
LEMMA NextAttemptFacts ==
  ASSUME NEW k \in Keys, k[2] < AttemptBound
  PROVE  /\ NextAttempt(k) \in Keys /\ NextAttempt(k) # k /\ NextAttempt(k)[2] = k[2] + 1
         /\ NextAttempt(k) \in Leases /\ Members(NextAttempt(k)) = {NextAttempt(k)}
         /\ \A j \in Keys : NextAttempt(j) = NextAttempt(k) => j = k
  <1>1. k[1] \in Cells /\ k[2] \in 1 .. AttemptBound /\ k = <<k[1], k[2]>>
    BY DEF Keys, Attempts
  <1>2. AttemptBound \in Nat BY OperatorAssumption
  <1>3. k[2] + 1 \in Attempts /\ k[2] + 1 # 1 BY <1>1, <1>2 DEF Attempts
  <1>4. NextAttempt(k) \in Keys BY <1>1, <1>3, Zenon DEF NextAttempt, Keys
  <1>5. NextAttempt(k)[2] = k[2] + 1 /\ NextAttempt(k)[1] = k[1] BY DEF NextAttempt
  <1>6. ~InGroup(NextAttempt(k)) BY <1>3, <1>5, Zenon DEF InGroup
  <1>7. NextAttempt(k) \in Leases BY <1>4, <1>6, Zenon DEF Leases
  <1>8. Members(NextAttempt(k)) = {NextAttempt(k)} BY <1>6 DEF Members
  <1>9. NextAttempt(k) # k BY <1>1, <1>5
  <1>10. ASSUME NEW j \in Keys, NextAttempt(j) = NextAttempt(k) PROVE j = k
    <2>1. j[1] \in Cells /\ j[2] \in Nat /\ j = <<j[1], j[2]>> BY DEF Keys, Attempts
    <2>2. j[1] = k[1] /\ j[2] + 1 = k[2] + 1 BY <1>10 DEF NextAttempt
    <2> QED BY <1>1, <2>1, <2>2
  <1> QED BY <1>4, <1>5, <1>7, <1>8, <1>9, <1>10, Zenon

----------------------------------------------------------------------------
(* Type correctness.                                                       *)

LEMMA InitTyped == Init => TypeOK
  <1> SUFFICES ASSUME Init PROVE TypeOK OBVIOUS
  <1>1. NoRow \in Row /\ [Fresh EXCEPT !.queued = TRUE] \in Row BY Zenon DEF NoRow, Fresh, Row
  <1>2. row \in [Keys -> Row] BY <1>1 DEF Init
  <1>3. proc \in [Keys -> Proc] BY DEF Init, NoProc, Proc
  <1>4. 1 \in Attempts BY OperatorAssumption DEF Attempts
  <1>5. daemon \in Control BY <1>4, OperatorAssumption, Zenon DEF Init, Control, Keys
  <1>6. faults \in 0 .. MaxFaults /\ resumes \in 0 .. MaxResumes BY OperatorAssumption DEF Init
  <1> QED BY <1>2, <1>3, <1>5, <1>6, Zenon DEF Init, TypeOK

\* The transactions on the rows of a lease keep the ledger typed.
LEMMA LedgerTyped ==
  ASSUME TypeOK, NEW l
  PROVE  /\ \A how \in {"no", "pid", "sealed"} : Attached(l, how) => row' \in [Keys -> Row]
         /\ \A stage \in {"none", "requested", "TERM", "KILL"} : Term(l, stage) => row' \in [Keys -> Row]
         /\ \A gpus \in SUBSET Gpus : Claim(l, gpus) => row' \in [Keys -> Row]
         /\ \A verdict : (/\ Finish(l, verdict)
                          /\ \A k \in Members(l) : verdict[k] \in {"COMPLETE", "INFRASTRUCTURE", "SCIENTIFIC"})
                         => row' \in [Keys -> Row]
  <1>1. row \in [Keys -> Row] BY DEF TypeOK
  <1>2. ASSUME NEW how \in {"no", "pid", "sealed"}, Attached(l, how) PROVE row' \in [Keys -> Row]
    BY <1>1, <1>2 DEF Attached, Row
  <1>3. ASSUME NEW stage \in {"none", "requested", "TERM", "KILL"}, Term(l, stage)
        PROVE row' \in [Keys -> Row]
    BY <1>1, <1>3 DEF Term, Row
  <1>4. ASSUME NEW gpus \in SUBSET Gpus, Claim(l, gpus) PROVE row' \in [Keys -> Row]
    <2> DEFINE Claimed(k) == [row[k] EXCEPT !.status = "RUNNING", !.gpus = gpus]
    <2>1. ASSUME NEW k \in Keys PROVE Claimed(k) \in Row
      <3>1. row[k] \in Row BY <1>1
      <3> QED BY <1>4, <3>1, ZenonT(40) DEF Row
    <2>2. row' = [k \in Keys |-> IF k \in Members(l) THEN Claimed(k) ELSE row[k]]
      BY <1>4, Zenon DEF Claim
    <2> HIDE DEF Claimed
    <2> QED BY <1>1, <2>1, <2>2
  <1>5. ASSUME NEW verdict, Finish(l, verdict),
               \A k \in Members(l) : verdict[k] \in {"COMPLETE", "INFRASTRUCTURE", "SCIENTIFIC"}
        PROVE row' \in [Keys -> Row]
    <2>1. \A fail : AutoRetry(l, fail) \in BOOLEAN BY DEF AutoRetry
    <2>2. NoRow \in Row BY DEF NoRow, Row
    <2>3. [NoRow EXCEPT !.status = "COMPLETE"] \in Row BY Zenon DEF NoRow, Row
    <2>4. ASSUME NEW k \in Members(l), verdict[k] # "COMPLETE"
          PROVE [NoRow EXCEPT !.status = "FAILED", !.fail = verdict[k],
                              !.retry = AutoRetry(l, verdict[k])] \in Row
      BY <1>5, <2>1, <2>4, ZenonT(40) DEF NoRow, Row
    <2> QED BY <1>1, <1>5, <2>3, <2>4, Zenon DEF Finish
  <1> QED BY <1>2, <1>3, <1>4, <1>5, Zenon

\* Every step keeps the types.
LEMMA StepTyped ==
  ASSUME TypeOK, [Next]_vars
  PROVE  TypeOK'
  <1> USE OperatorAssumption
  <1> DEFINE DaemonTyped == daemon' \in Control
  <1>t. /\ row \in [Keys -> Row] /\ dispatch \in {"RUN", "STOP", "STALE"} /\ waived \in SUBSET Leases
        /\ proc \in [Keys -> Proc]
        /\ result \in [Keys -> {"none", "COMPLETE", "INFRASTRUCTURE", "SCIENTIFIC"}]
        /\ daemon \in Control
        /\ faults \in 0 .. MaxFaults /\ resumes \in 0 .. MaxResumes
    BY Zenon DEF TypeOK
  <1>g. \A pc : Goto(pc) /\ pc \in {"probe", "limit", "advance", "term", "recordTerm", "orphan",
               "kill", "recordKill", "gate", "dispatch", "attach", "spawnFailed", "end", "down", "idle"}
             => daemon' \in Control
    BY <1>t DEF Goto, Control
  <1>c. Continue => daemon' \in Control BY <1>t DEF Continue, Control
  <1>r. \A owed \in SUBSET Keys, back \in {"next", "gate"} : Repay(owed, back) => daemon' \in Control
    <2> SUFFICES ASSUME NEW owed \in SUBSET Keys, NEW back \in {"next", "gate"}, Repay(owed, back)
                 PROVE  daemon' \in Control
      OBVIOUS
    <2> DEFINE pc == IF owed = {} THEN back ELSE "retry"
    <2>1. pc \in {"next", "gate", "retry"} OBVIOUS
    <2>2. daemon' = [daemon EXCEPT !.pc = pc, !.owed = owed, !.back = back] BY Zenon DEF Repay
    <2> HIDE DEF pc
    <2> QED BY <1>t, <2>1, <2>2, ZenonT(40) DEF Control
  <1>s. \A reason \in {"STOP", "STALE"} : SetStop(reason) =>
           dispatch' \in {"RUN", "STOP", "STALE"} /\ waived' \in SUBSET Leases
    BY <1>t, Zenon DEF SetStop
  <1>k. KeepGate => dispatch' \in {"RUN", "STOP", "STALE"} /\ waived' \in SUBSET Leases
    BY <1>t, Zenon DEF KeepGate
  <1>f. \A kind : Fault(kind) => faults' \in 0 .. MaxFaults /\ resumes' \in 0 .. MaxResumes
    BY <1>t DEF Fault
  <1>m. daemon.cur \in Keys BY <1>t, Zenon DEF Control
  <1>o. \A l, failed : RetriesOwed(l, failed) \subseteq failed BY DEF RetriesOwed
  <1>v. \A l : \A k \in Members(l) : Infra(l)[k] = "INFRASTRUCTURE" BY DEF Infra
  <1>BeginCycle. CASE BeginCycle
    BY <1>t, <1>BeginCycle, Zenon DEF BeginCycle, TypeOK, ledger, world, budget, Control, RunningLeases, Running
  <1>NextLease. CASE NextLease
    <2>1. daemon' \in Control
      <3>1. CASE \E l \in daemon.todo :
                   daemon' = [daemon EXCEPT !.pc = IF row[l].attached = "no" THEN "recover" ELSE "probe",
                                            !.cur = l, !.todo = @ \ {l}]
        <4>1. PICK l \in daemon.todo :
                daemon' = [daemon EXCEPT !.pc = IF row[l].attached = "no" THEN "recover" ELSE "probe",
                                         !.cur = l, !.todo = @ \ {l}]
          BY <3>1, Zenon
        <4>2. l \in Keys BY <1>t, <4>1, Zenon DEF Control, Leases
        <4>3. daemon.todo \ {l} \in SUBSET Leases BY <1>t, Zenon DEF Control
        <4> QED BY <1>t, <4>1, <4>2, <4>3, Zenon DEF Control
      <3>2. CASE daemon.todo = {} /\ Goto("gate") BY <1>g, <3>2, Zenon
      <3> QED BY <1>NextLease, <3>1, <3>2, Zenon DEF NextLease
    <2> QED BY <1>t, <1>NextLease, <2>1, ZenonT(40) DEF NextLease, TypeOK, ledger, world, budget
  <1>RecoverStart. CASE RecoverStart
    BY <1>t, <1>g, <1>k, LedgerTyped, <1>RecoverStart, Zenon DEF RecoverStart, TypeOK, ledger, world, budget
  <1>WaitStartReceipt. CASE WaitStartReceipt
    BY <1>t, <1>c, <1>WaitStartReceipt, Zenon DEF WaitStartReceipt, TypeOK, ledger, world, budget
  <1>StartNotPublished. CASE StartNotPublished
    <2>1. row' \in [Keys -> Row] BY <1>v, <1>StartNotPublished, LedgerTyped DEF StartNotPublished
    <2>2. daemon' \in Control
      BY <1>c, <1>r, <1>o, <1>m, <1>StartNotPublished, Zenon DEF StartNotPublished
    <2>3. faults' \in 0 .. MaxFaults /\ resumes' \in 0 .. MaxResumes
      BY <1>t, <1>f, <1>StartNotPublished, Zenon DEF StartNotPublished, budget
    <2> QED BY <1>t, <1>k, <1>StartNotPublished, <2>1, <2>2, <2>3, Zenon DEF StartNotPublished, TypeOK, world
  <1>MonitoringFails. CASE MonitoringFails
    BY <1>t, <1>c, <1>s, <1>f, <1>MonitoringFails, Zenon DEF MonitoringFails, TypeOK, ledger, world, budget
  <1>HeartbeatStale. CASE HeartbeatStale
    BY <1>t, <1>c, <1>s, <1>HeartbeatStale, Zenon DEF HeartbeatStale, TypeOK, ledger, world, budget
  <1>ProbeAlive. CASE ProbeAlive
    <2>1. daemon' \in Control BY <1>c, <1>g, <1>ProbeAlive, Zenon DEF ProbeAlive
    <2>2. row' \in [Keys -> Row] BY <1>t, <1>ProbeAlive, LedgerTyped, Zenon DEF ProbeAlive, ledger
    <2>3. dispatch' \in {"RUN", "STOP", "STALE"} /\ waived' \in SUBSET Leases
      BY <1>t, <1>k, <1>ProbeAlive, Zenon DEF ProbeAlive, ledger
    <2> QED BY <1>t, <1>ProbeAlive, <2>1, <2>2, <2>3, Zenon DEF ProbeAlive, TypeOK, world, budget
  <1>RuntimeLimitStop. CASE RuntimeLimitStop
    BY <1>t, <1>g, <1>s, <1>RuntimeLimitStop, Zenon DEF RuntimeLimitStop, TypeOK, ledger, world, budget
  <1>AdvanceTermination. CASE AdvanceTermination
    <2>1. daemon' \in Control BY <1>c, <1>g, <1>AdvanceTermination, Zenon DEF AdvanceTermination
    <2>2. dispatch' \in {"RUN", "STOP", "STALE"} /\ waived' \in SUBSET Leases
      BY <1>k, <1>s, <1>AdvanceTermination, Zenon DEF AdvanceTermination
    <2> QED BY <1>t, <1>AdvanceTermination, <2>1, <2>2, Zenon DEF AdvanceTermination, TypeOK, world, budget
  <1>TermGraceOver. CASE TermGraceOver
    BY <1>t, <1>g, <1>TermGraceOver, Zenon DEF TermGraceOver, TypeOK, ledger, world, budget
  <1>SendTerm. CASE SendTerm
    <2>1. [proc[daemon.cur] EXCEPT !.wrapper = "dead"] \in Proc BY <1>t, <1>m DEF Proc
    <2>2. proc' \in [Keys -> Proc] BY <1>t, <1>m, <1>SendTerm, <2>1, Zenon DEF SendTerm
    <2> QED BY <1>t, <1>g, <1>SendTerm, <2>2, Zenon DEF SendTerm, TypeOK, ledger, budget
  <1>RecordTerm. CASE RecordTerm
    BY <1>t, <1>c, <1>k, LedgerTyped, <1>RecordTerm, Zenon DEF RecordTerm, TypeOK, ledger, world, budget
  <1>SendKill. CASE SendKill
    <2>1. proc' \in [Keys -> Proc]
      <3>1. proc[daemon.cur] \in Proc BY <1>t, <1>m, Zenon
      <3>2. Killed(daemon.cur) \in Proc BY <3>1, Zenon DEF Killed, Proc
      <3> QED BY <1>t, <1>m, <1>SendKill, <3>2, Zenon DEF SendKill
    <2> QED BY <1>t, <1>g, <1>SendKill, <2>1, Zenon DEF SendKill, TypeOK, ledger, budget
  <1>RecordKill. CASE RecordKill
    BY <1>t, <1>c, <1>k, LedgerTyped, <1>RecordKill, Zenon DEF RecordKill, TypeOK, ledger, world, budget
  <1>ResidentOrphan. CASE ResidentOrphan
    <2>1. daemon' \in Control BY <1>c, <1>g, <1>ResidentOrphan, Zenon DEF ResidentOrphan
    <2>2. row' \in [Keys -> Row] BY <1>t, <1>ResidentOrphan, LedgerTyped, Zenon DEF ResidentOrphan
    <2> QED BY <1>t, <1>k, <1>ResidentOrphan, <2>1, <2>2, Zenon DEF ResidentOrphan, TypeOK, world, budget
  <1>OrphanTerm. CASE OrphanTerm
    BY <1>t, <1>g, <1>k, LedgerTyped, <1>OrphanTerm, Zenon DEF OrphanTerm, TypeOK, ledger, world, budget
  <1>GroupOrphan. CASE GroupOrphan
    <2>1. daemon' \in Control BY <1>c, <1>g, <1>GroupOrphan, Zenon DEF GroupOrphan
    <2>2. dispatch' \in {"RUN", "STOP", "STALE"} /\ waived' \in SUBSET Leases
      BY <1>k, <1>s, <1>GroupOrphan, Zenon DEF GroupOrphan
    <2> QED BY <1>t, <1>GroupOrphan, <2>1, <2>2, Zenon DEF GroupOrphan, TypeOK, world, budget
  <1>n. \A l \in Keys : Members(l) \subseteq Keys
    <2>1. \A l \in Keys : InGroup(l) => 1 \in Attempts BY Zenon DEF InGroup, Keys
    <2> QED BY <2>1 DEF Members, Keys
  <1>Terminalize. CASE Terminalize
    <2> DEFINE l == daemon.cur
               verdict == [k \in Members(l) |-> result[k]]
    <2>1. Members(l) \subseteq Keys BY <1>m, <1>n, Zenon
    <2>2. InfraMembers(l, verdict) \subseteq Keys BY <2>1, Zenon DEF InfraMembers
    <2>3. CASE Validation(l) = "sealed" /\ Finish(l, verdict)
               /\ Repay(RetriesOwed(l, InfraMembers(l, verdict)), "next") /\ KeepGate
      <3>1. Published(l) BY <2>3, Zenon DEF Validation
      <3>2. \A k \in Members(l) : verdict[k] \in {"COMPLETE", "INFRASTRUCTURE", "SCIENTIFIC"}
        BY <1>t, <2>1, <3>1, Zenon DEF Published
      <3>3. row' \in [Keys -> Row] BY <2>3, <3>2, LedgerTyped, Zenon
      <3>4. RetriesOwed(l, InfraMembers(l, verdict)) \in SUBSET Keys BY <1>o, <2>2, Zenon
      <3>5. daemon' \in Control BY <1>r, <2>3, <3>4, Zenon
      <3> QED BY <1>t, <1>k, <1>Terminalize, <2>3, <3>3, <3>5, Zenon DEF Terminalize, TypeOK, world, budget
    <2>4. CASE Finish(l, Infra(l)) /\ Repay(RetriesOwed(l, Members(l)), "next") /\ KeepGate
      <3>1. row' \in [Keys -> Row] BY <1>v, <2>4, LedgerTyped
      <3>2. RetriesOwed(l, Members(l)) \in SUBSET Keys BY <1>o, <2>1, Zenon
      <3>3. daemon' \in Control BY <1>r, <2>4, <3>2, Zenon
      <3> QED BY <1>t, <1>k, <1>Terminalize, <2>4, <3>1, <3>3, Zenon DEF Terminalize, TypeOK, world, budget
    <2>5. CASE SetStop("STOP") /\ Continue /\ UNCHANGED row
      BY <1>t, <1>c, <1>s, <1>Terminalize, <2>5, Zenon DEF Terminalize, TypeOK, world, budget
    <2>6. CASE Continue /\ UNCHANGED ledger
      BY <1>t, <1>c, <1>Terminalize, <2>6, Zenon DEF Terminalize, TypeOK, ledger, world, budget
    <2> QED BY <1>Terminalize, <2>3, <2>4, <2>5, <2>6, Zenon DEF Terminalize
  <1>MaterializeRetry. CASE MaterializeRetry
    <2>1. PICK k \in daemon.owed :
            /\ k[2] < AttemptBound
            /\ row' = [row EXCEPT ![NextAttempt(k)] = Fresh]
            /\ daemon' = [daemon EXCEPT !.pc = "enqueue", !.cur = k, !.owed = @ \ {k}]
      BY <1>MaterializeRetry, Zenon DEF MaterializeRetry
    <2>2. k \in Keys BY <1>t, <2>1, Zenon DEF Control
    <2>3. Fresh \in Row BY Zenon DEF Fresh, NoRow, Row
    <2>4. row' \in [Keys -> Row] BY <1>t, <2>1, <2>2, <2>3, NextAttemptFacts, Zenon
    <2>5. daemon' \in Control BY <1>t, <2>1, <2>2, Zenon DEF Control
    <2> QED BY <1>t, <1>k, <1>MaterializeRetry, <2>4, <2>5, Zenon DEF MaterializeRetry, TypeOK, world, budget
  <1>EnqueueRetry. CASE EnqueueRetry
    <2>1. row' \in [Keys -> Row]
      <3> DEFINE next == NextAttempt(daemon.cur)
      <3>1. row' = [row EXCEPT ![next].queued = TRUE] BY <1>EnqueueRetry, Zenon DEF EnqueueRetry
      <3>2. CASE next \in Keys
        <4>1. row[next] \in Row BY <1>t, <3>2, Zenon
        <4>2. [row[next] EXCEPT !.queued = TRUE] \in Row BY <4>1, Zenon DEF Row
        <4>3. row' = [row EXCEPT ![next] = [row[next] EXCEPT !.queued = TRUE]] BY <3>1, Zenon
        <4> QED BY <1>t, <3>2, <4>2, <4>3, Zenon
      <3>3. CASE next \notin Keys
        <4>1. row' = row BY <1>t, <3>1, <3>3, Zenon
        <4> QED BY <1>t, <4>1, Zenon
      <3> QED BY <3>2, <3>3, Zenon
    <2>2. daemon' \in Control BY <1>t, <1>r, <1>EnqueueRetry DEF EnqueueRetry, Control
    <2> QED BY <1>t, <1>k, <1>EnqueueRetry, <2>1, <2>2, Zenon DEF EnqueueRetry, TypeOK, world, budget
  <1>RetryBuilderFails. CASE RetryBuilderFails
    <2>1. daemon' \in Control BY <1>t, <1>r, <1>RetryBuilderFails DEF RetryBuilderFails, Control
    <2> QED BY <1>t, <1>s, <1>f, <1>RetryBuilderFails, <2>1, Zenon DEF RetryBuilderFails, TypeOK, world
  <1>ReadGate. CASE ReadGate
    BY <1>t, <1>g, <1>ReadGate, Zenon DEF ReadGate, TypeOK, ledger, world, budget
  <1>DiskGateStops. CASE DiskGateStops
    BY <1>t, <1>g, <1>s, <1>DiskGateStops, Zenon DEF DiskGateStops, TypeOK, ledger, world, budget
  <1>MarkRunning. CASE MarkRunning
    <2>1. PICK l \in Dispatchable : Claim(l, Assigned(l))
                                   /\ daemon' = [daemon EXCEPT !.pc = "launch", !.cur = l]
      BY <1>MarkRunning, Zenon DEF MarkRunning
    <2>2. Assigned(l) \in SUBSET Gpus BY <2>1, Zenon DEF Dispatchable, Eligible, Assigned, FirstFree
    <2>3. row' \in [Keys -> Row] BY <2>1, <2>2, LedgerTyped, Zenon
    <2>4. daemon' \in Control BY <1>t, <2>1, Zenon DEF Control, Dispatchable, Leases
    <2> QED BY <1>t, <1>k, <1>MarkRunning, <2>3, <2>4, Zenon DEF MarkRunning, TypeOK, world, budget
  <1>Launch. CASE Launch
    BY <1>t, <1>g, <1>m, <1>Launch DEF Launch, TypeOK, ledger, world, budget, Proc
  <1>LaunchFails. CASE LaunchFails
    BY <1>t, <1>g, <1>f, <1>LaunchFails, Zenon DEF LaunchFails, TypeOK, ledger, world, budget
  <1>AttachProcess. CASE AttachProcess
    BY <1>t, <1>g, <1>k, LedgerTyped, <1>AttachProcess, Zenon DEF AttachProcess, TypeOK, ledger, world, budget
  <1>AttachFails. CASE AttachFails
    BY <1>t, <1>g, <1>f, <1>AttachFails, Zenon DEF AttachFails, TypeOK, ledger, world, budget
  <1>SpawnFailed. CASE SpawnFailed
    <2>1. row' \in [Keys -> Row] BY <1>v, <1>SpawnFailed, LedgerTyped DEF SpawnFailed
    <2>2. RetriesOwed(daemon.cur, Members(daemon.cur)) \in SUBSET Keys BY <1>m, <1>n, <1>o, Zenon
    <2>3. daemon' \in Control BY <1>r, <1>SpawnFailed, <2>2, Zenon DEF SpawnFailed
    <2> QED BY <1>t, <1>k, <1>SpawnFailed, <2>1, <2>3, Zenon DEF SpawnFailed, TypeOK, world, budget
  <1>DispatchDone. CASE DispatchDone
    BY <1>t, <1>g, <1>DispatchDone, Zenon DEF DispatchDone, TypeOK, ledger, world, budget
  <1>EndCycle. CASE EndCycle
    BY <1>t, <1>g, <1>EndCycle, Zenon DEF EndCycle, TypeOK, ledger, world, budget
  <1>Crash. CASE Crash
    BY <1>t, <1>f, <1>Crash, Zenon DEF Crash, TypeOK, ledger, world, budget, Control
  <1>OperatorStop. CASE OperatorStop
    BY <1>t, <1>s, <1>OperatorStop, Zenon DEF OperatorStop, TypeOK, ledger, world, budget
  <1>OperatorResume. CASE OperatorResume
    BY <1>t, <1>OperatorResume DEF OperatorResume, TypeOK, ledger, world, budget
  <1>OperatorResumeRunning. CASE OperatorResumeRunning
    BY <1>t, <1>OperatorResumeRunning DEF OperatorResumeRunning, TypeOK, ledger, world, budget, RunningLeases, Running
  <1>p. ASSUME NEW l \in Leases, Process(l) PROVE TypeOK'
    <2>1. l \in Keys BY Zenon DEF Leases
    <2>2. proc[l] \in Proc BY <2>1, Zenon DEF TypeOK
    <2>WrapperStarts. CASE WrapperStarts(l)
      <3>1. [proc[l] EXCEPT !.wrapper = "started", !.start = TRUE] \in Proc BY <2>2, Zenon DEF Proc
      <3> QED BY <1>t, <2>1, <3>1, <2>WrapperStarts, Zenon DEF WrapperStarts, TypeOK, ledger, budget
    <2>SpawnChild. CASE SpawnChild(l)
      <3>1. [proc[l] EXCEPT !.wrapper = "waiting", !.child = "live"] \in Proc BY <2>2, Zenon DEF Proc
      <3> QED BY <1>t, <2>1, <3>1, <2>SpawnChild, Zenon DEF SpawnChild, TypeOK, ledger, budget
    <2>ServerStarts. CASE ServerStarts(l) BY <1>t, <2>1, <2>ServerStarts DEF ServerStarts, TypeOK, Proc, ledger, budget
    <2>ServerExits. CASE ServerExits(l) BY <1>t, <2>1, <2>ServerExits DEF ServerExits, TypeOK, Proc, ledger, budget
    <2>ChildExits. CASE ChildExits(l) BY <1>t, <2>1, <2>ChildExits DEF ChildExits, TypeOK, Proc, ledger, budget
    <2>ChildHeard. CASE ChildHeard(l) BY <1>t, <2>1, <2>ChildHeard DEF ChildHeard, TypeOK, Proc, ledger, budget
    <2>WrapperExits. CASE WrapperExits(l)
      <3>1. [proc[l] EXCEPT !.wrapper = "dead", !.exit = TRUE] \in Proc BY <2>2, Zenon DEF Proc
      <3> QED BY <1>t, <2>1, <3>1, <2>WrapperExits DEF WrapperExits, TypeOK, ledger, budget
    <2>ChildSilent. CASE ChildSilent(l) BY <1>t, <1>f, <2>1, <2>ChildSilent DEF ChildSilent, TypeOK, Proc, ledger
    <2>WrapperKilled. CASE WrapperKilled(l) BY <1>t, <1>f, <2>1, <2>WrapperKilled DEF WrapperKilled, TypeOK, Proc, ledger
    <2>ChildPublishes. CASE ChildPublishes(l)
      BY <1>t, <2>ChildPublishes, Zenon DEF ChildPublishes, TypeOK, ledger, budget
    <2> QED BY <1>p, <2>WrapperStarts, <2>SpawnChild, <2>ServerStarts, <2>ServerExits, <2>ChildExits, <2>ChildHeard, <2>WrapperExits,
               <2>ChildSilent, <2>WrapperKilled, <2>ChildPublishes, Zenon DEF Process
  <1>u. CASE UNCHANGED vars BY <1>t, <1>u, Zenon DEF vars, TypeOK
  <1> QED
    BY <1>BeginCycle, <1>NextLease, <1>RecoverStart, <1>WaitStartReceipt,
       <1>StartNotPublished, <1>MonitoringFails, <1>HeartbeatStale, <1>ProbeAlive,
       <1>RuntimeLimitStop, <1>AdvanceTermination, <1>TermGraceOver, <1>SendTerm,
       <1>RecordTerm, <1>SendKill, <1>RecordKill, <1>ResidentOrphan, <1>OrphanTerm,
       <1>GroupOrphan, <1>Terminalize, <1>MaterializeRetry, <1>EnqueueRetry,
       <1>RetryBuilderFails, <1>ReadGate, <1>DiskGateStops, <1>MarkRunning, <1>Launch,
       <1>LaunchFails, <1>AttachProcess, <1>AttachFails, <1>SpawnFailed,
       <1>DispatchDone, <1>EndCycle, <1>Crash, <1>OperatorStop, <1>OperatorResume,
       <1>OperatorResumeRunning, <1>p, <1>u
       DEF Next, Reconcile, Dispatching, DaemonFault, Operator

----------------------------------------------------------------------------
(* The kinds of step.                                                      *)

\* No attempt changes what the invariants read of its row.
RowKept(k) ==
  /\ row'[k].status = row[k].status /\ row'[k].gpus = row[k].gpus
  /\ row'[k].fail = row[k].fail /\ row'[k].retry = row[k].retry
RowsKept == \A k \in Keys : RowKept(k)

\* The daemon keeps or forgets what it holds, and turns to no new launch.
Settled ==
  /\ daemon'.todo \subseteq daemon.todo /\ daemon'.owed \subseteq daemon.owed
  /\ daemon'.pc \in Holding => daemon.pc \in Holding /\ daemon'.cur = daemon.cur
Unspawned == daemon'.pc \in {"launch", "spawnFailed"} => daemon.pc \in {"launch", "spawnFailed"}

Quiet == RowsKept /\ Settled /\ Unspawned /\ UNCHANGED world

\* The lease the daemon holds is judged.
TerminalStep(verdict) ==
  /\ daemon.pc \in Holding /\ Finish(daemon.cur, verdict) /\ UNCHANGED world
  /\ daemon'.todo = daemon.todo /\ daemon'.pc \notin Holding
  /\ \A k \in daemon'.owed :
       k \in daemon.owed
       \/ (k \in RetriesOwed(daemon.cur, Members(daemon.cur)) /\ verdict[k] = "INFRASTRUCTURE")

\* Transactions that leave status, GPUs, failure and retry decision alone.
LEMMA WritesKeepRows ==
  ASSUME TypeOK, NEW l
  PROVE  /\ \A how : Attached(l, how) => RowsKept
         /\ \A stage : Term(l, stage) => RowsKept
         /\ UNCHANGED row => RowsKept
  <1>1. row \in [Keys -> Row] BY DEF TypeOK
  <1>2. ASSUME NEW how, Attached(l, how), NEW k \in Keys PROVE RowKept(k)
    <2>1. row[k] \in Row /\ (row'[k] = row[k] \/ row'[k] = [row[k] EXCEPT !.attached = how])
      BY <1>1, <1>2, Zenon DEF Attached
    <2> QED BY <2>1 DEF Row, RowKept
  <1>3. ASSUME NEW stage, Term(l, stage), NEW k \in Keys PROVE RowKept(k)
    <2>1. row[k] \in Row /\ (row'[k] = row[k] \/ row'[k] = [row[k] EXCEPT !.term = stage])
      BY <1>1, <1>3, Zenon DEF Term
    <2> QED BY <2>1, Zenon DEF Row, RowKept
  <1>4. UNCHANGED row => RowsKept BY Zenon DEF RowsKept, RowKept
  <1> QED BY <1>2, <1>3, <1>4, Zenon DEF RowsKept

\* Where the daemon goes.
LEMMA Moves ==
  ASSUME TypeOK
  PROVE  /\ Continue => Settled /\ Unspawned
         /\ \A pc \in {"gate", "dispatch", "end", "down", "idle"} : Goto(pc) => Settled /\ Unspawned
         /\ \A pc \in Holding \ {"launch", "spawnFailed"} :
              Goto(pc) /\ daemon.pc \in Holding => Settled /\ Unspawned
         /\ Goto("spawnFailed") /\ daemon.pc \in Holding => Settled
         /\ Goto("spawnFailed") /\ daemon.pc = "launch" => Unspawned
         /\ \A owed \in SUBSET daemon.owed :
              Repay(owed, daemon.back) => Settled /\ Unspawned
  <1>d. daemon \in Control BY Zenon DEF TypeOK
  <1>1. ASSUME NEW pc, NEW new, pc \in {"next", "retry", "gate", "dispatch", "end", "down", "idle"},
               daemon'.pc = pc, daemon'.todo = daemon.todo, daemon'.owed \subseteq daemon.owed
        PROVE  Settled /\ Unspawned
    BY <1>1, Zenon DEF Settled, Unspawned, Holding
  <1>2. Continue => Settled /\ Unspawned
    <2> SUFFICES ASSUME Continue PROVE Settled /\ Unspawned OBVIOUS
    <2>1. daemon'.pc = "next" /\ daemon'.todo = daemon.todo /\ daemon'.owed = daemon.owed
      BY <1>d, Zenon DEF Continue, Control
    <2> QED BY <1>1, <2>1, Zenon
  <1>g. ASSUME NEW pc, Goto(pc)
        PROVE  /\ daemon'.pc = pc /\ daemon'.cur = daemon.cur
               /\ daemon'.todo = daemon.todo /\ daemon'.owed = daemon.owed
    BY <1>d, <1>g, Zenon DEF Goto, Control
  <1>3. ASSUME NEW pc \in {"gate", "dispatch", "end", "down", "idle"}, Goto(pc)
        PROVE  Settled /\ Unspawned
    <2>1. daemon'.pc = pc /\ daemon'.todo = daemon.todo /\ daemon'.owed = daemon.owed BY <1>g, <1>3, Zenon
    <2> QED BY <1>1, <2>1, Zenon
  <1>4. ASSUME NEW pc, Goto(pc), daemon.pc \in Holding
        PROVE  Settled /\ (pc \notin {"launch", "spawnFailed"} \/ daemon.pc = "launch" => Unspawned)
    <2>1. /\ daemon'.pc = pc /\ daemon'.cur = daemon.cur
          /\ daemon'.todo = daemon.todo /\ daemon'.owed = daemon.owed
      BY <1>g, <1>4, Zenon
    <2>2. Settled BY <1>4, <2>1, Zenon DEF Settled
    <2>3. pc \notin {"launch", "spawnFailed"} \/ daemon.pc = "launch" => Unspawned
      BY <2>1, Zenon DEF Unspawned
    <2> QED BY <2>2, <2>3, Zenon
  <1>5. ASSUME NEW owed \in SUBSET daemon.owed, Repay(owed, daemon.back)
        PROVE  Settled /\ Unspawned
    <2> DEFINE pc == IF owed = {} THEN daemon.back ELSE "retry"
    <2>1. pc \in {"next", "gate", "retry"} BY <1>d DEF Control
    <2>2. daemon' = [daemon EXCEPT !.pc = pc, !.owed = owed, !.back = daemon.back] BY <1>5, Zenon DEF Repay
    <2> HIDE DEF pc
    <2>3. daemon'.pc = pc /\ daemon'.todo = daemon.todo /\ daemon'.owed = owed BY <1>d, <2>2, Zenon DEF Control
    <2> QED BY <1>1, <2>1, <2>3, Zenon
  <1>6. "launch" \in Holding BY Zenon DEF Holding
  <1> QED BY <1>2, <1>3, <1>4, <1>5, <1>6, Zenon

\* The four ways a lease is judged, each with its verdict.
LEMMA TerminalCases ==
  ASSUME TypeOK
  PROVE  /\ StartNotPublished => TerminalStep(Infra(daemon.cur))
         /\ SpawnFailed => TerminalStep(Infra(daemon.cur))
         /\ Terminalize =>
              \/ Quiet
              \/ Validation(daemon.cur) = "sealed"
                 /\ TerminalStep([k \in Members(daemon.cur) |-> result[k]])
              \/ Validation(daemon.cur) # "sealed" /\ TerminalStep(Infra(daemon.cur))
  <1> DEFINE l == daemon.cur
  <1>d. daemon \in Control BY DEF TypeOK
  <1>c. Continue => daemon'.pc = "next" /\ daemon'.todo = daemon.todo /\ daemon'.owed = daemon.owed
    BY <1>d, Zenon DEF Continue, Control
  <1>r. ASSUME NEW owed, NEW back \in {"next", "gate"}, Repay(owed, back)
        PROVE  daemon'.pc \notin Holding /\ daemon'.todo = daemon.todo /\ daemon'.owed = owed
    <2> DEFINE pc == IF owed = {} THEN back ELSE "retry"
    <2>1. pc \in {"next", "gate", "retry"} OBVIOUS
    <2>2. daemon' = [daemon EXCEPT !.pc = pc, !.owed = owed, !.back = back] BY <1>r, Zenon DEF Repay
    <2> HIDE DEF pc
    <2>3. daemon'.pc = pc /\ daemon'.todo = daemon.todo /\ daemon'.owed = owed BY <1>d, <2>2, Zenon DEF Control
    <2> QED BY <2>1, <2>3, Zenon DEF Holding
  <1>n. "next" \notin Holding BY Zenon DEF Holding
  <1>o. \A failed \in SUBSET Members(l) :
          RetriesOwed(l, failed) \subseteq RetriesOwed(l, Members(l)) \cap failed
    BY Zenon DEF RetriesOwed
  <1>v. \A k \in Members(l) : Infra(l)[k] = "INFRASTRUCTURE" BY Zenon DEF Infra
  <1>w. ASSUME RetriesOwed(l, Members(l)) = daemon'.owed, NEW k \in daemon'.owed
        PROVE  k \in RetriesOwed(l, Members(l)) /\ Infra(l)[k] = "INFRASTRUCTURE"
    BY <1>v, <1>w, Zenon DEF RetriesOwed
  <1>1. ASSUME StartNotPublished PROVE TerminalStep(Infra(l))
    <2>1. daemon.pc \in Holding /\ Finish(l, Infra(l)) /\ UNCHANGED world
      BY <1>1, Zenon DEF StartNotPublished, At, Holding
    <2>2. CASE InGroup(l)
      <3>1. Continue BY <1>1, <2>2, Zenon DEF StartNotPublished
      <3> QED BY <1>c, <1>n, <2>1, <3>1, Zenon DEF TerminalStep
    <2>3. CASE ~InGroup(l)
      <3>1. Repay(RetriesOwed(l, {l}), "next") BY <1>1, <2>3, Zenon DEF StartNotPublished
      <3>2. Members(l) = {l} BY <2>3, Zenon DEF Members
      <3>3. daemon'.pc \notin Holding /\ daemon'.todo = daemon.todo
            /\ daemon'.owed = RetriesOwed(l, Members(l))
        BY <1>r, <3>1, <3>2, Zenon
      <3> QED BY <1>w, <2>1, <3>3, Zenon DEF TerminalStep
    <2> QED BY <2>2, <2>3, Zenon
  <1>2. ASSUME SpawnFailed PROVE TerminalStep(Infra(l))
    <2>1. daemon.pc \in Holding /\ Finish(l, Infra(l)) /\ UNCHANGED world
          /\ Repay(RetriesOwed(l, Members(l)), "gate")
      BY <1>2, Zenon DEF SpawnFailed, At, Holding
    <2>2. daemon'.pc \notin Holding /\ daemon'.todo = daemon.todo
          /\ daemon'.owed = RetriesOwed(l, Members(l))
      BY <1>r, <2>1, Zenon
    <2> QED BY <1>w, <2>1, <2>2, Zenon DEF TerminalStep
  <1>3. ASSUME Terminalize
        PROVE  \/ Quiet
               \/ Validation(l) = "sealed" /\ TerminalStep([k \in Members(l) |-> result[k]])
               \/ Validation(l) # "sealed" /\ TerminalStep(Infra(l))
    <2> DEFINE verdict == [k \in Members(l) |-> result[k]]
    <2>1. daemon.pc \in Holding /\ UNCHANGED world BY <1>3, Zenon DEF Terminalize, At, Holding
    <2>2. CASE Validation(l) = "sealed" /\ Finish(l, verdict)
               /\ Repay(RetriesOwed(l, InfraMembers(l, verdict)), "next")
      <3>1. InfraMembers(l, verdict) \in SUBSET Members(l)
            /\ \A k \in InfraMembers(l, verdict) : verdict[k] = "INFRASTRUCTURE"
        BY Zenon DEF InfraMembers
      <3> HIDE DEF verdict
      <3>2. daemon'.pc \notin Holding /\ daemon'.todo = daemon.todo
            /\ daemon'.owed = RetriesOwed(l, InfraMembers(l, verdict))
        BY <1>r, <2>2, Zenon
      <3>3. ASSUME NEW k \in daemon'.owed
            PROVE  k \in RetriesOwed(l, Members(l)) /\ verdict[k] = "INFRASTRUCTURE"
        BY <1>o, <3>1, <3>2
      <3>4. TerminalStep(verdict) BY <2>1, <2>2, <3>2, <3>3, Zenon DEF TerminalStep
      <3> QED BY <2>2, <3>4, Zenon DEF verdict
    <2>3. CASE Validation(l) # "sealed" /\ Finish(l, Infra(l))
               /\ Repay(RetriesOwed(l, Members(l)), "next")
      <3>1. daemon'.pc \notin Holding /\ daemon'.todo = daemon.todo
            /\ daemon'.owed = RetriesOwed(l, Members(l))
        BY <1>r, <2>3, Zenon
      <3> QED BY <1>w, <2>1, <2>3, <3>1, Zenon DEF TerminalStep
    <2>4. CASE Continue /\ UNCHANGED row
      <3>1. RowsKept BY <2>4, WritesKeepRows, Zenon
      <3>2. Settled /\ Unspawned BY <2>4, Moves, Zenon
      <3> QED BY <2>1, <3>1, <3>2, Zenon DEF Quiet
    <2> QED BY <1>3, <2>2, <2>3, <2>4, Zenon DEF Terminalize, ledger
  <1> QED BY <1>1, <1>2, <1>3, Zenon

\* Every other step of the daemon and the operator is quiet, but for the launch,
\* the signals, and what changes the ledger or the daemon's lists.
LEMMA Kinds ==
  ASSUME TypeOK, [Next]_vars
  PROVE  \/ Quiet
         \/ BeginCycle \/ NextLease \/ MaterializeRetry \/ MarkRunning
         \/ StartNotPublished \/ SpawnFailed \/ Terminalize
         \/ AttachFails \/ Launch \/ SendTerm \/ SendKill
         \/ \E l \in Leases : Process(l)
  <1>k. UNCHANGED row => RowsKept BY WritesKeepRows, Zenon
  <1>RecoverStart. CASE RecoverStart
    <2>1. RowsKept BY <1>k, <1>RecoverStart, WritesKeepRows, Zenon DEF RecoverStart, ledger
    <2>2. Settled /\ Unspawned BY <1>RecoverStart, Moves, Zenon DEF RecoverStart, At, Holding
    <2> QED BY <1>RecoverStart, <2>1, <2>2, Zenon DEF Quiet, RecoverStart, world
  <1>WaitStartReceipt. CASE WaitStartReceipt
    <2>1. RowsKept BY <1>k, <1>WaitStartReceipt, WritesKeepRows, Zenon DEF WaitStartReceipt, ledger
    <2>2. Settled /\ Unspawned BY <1>WaitStartReceipt, Moves, Zenon DEF WaitStartReceipt, At, Holding
    <2> QED BY <1>WaitStartReceipt, <2>1, <2>2, Zenon DEF Quiet, WaitStartReceipt, world
  <1>MonitoringFails. CASE MonitoringFails
    <2>1. RowsKept BY <1>k, <1>MonitoringFails, WritesKeepRows, Zenon DEF MonitoringFails, ledger
    <2>2. Settled /\ Unspawned BY <1>MonitoringFails, Moves, Zenon DEF MonitoringFails, At, Holding
    <2> QED BY <1>MonitoringFails, <2>1, <2>2, Zenon DEF Quiet, MonitoringFails, world
  <1>HeartbeatStale. CASE HeartbeatStale
    <2>1. RowsKept BY <1>k, <1>HeartbeatStale, WritesKeepRows, Zenon DEF HeartbeatStale, ledger
    <2>2. Settled /\ Unspawned BY <1>HeartbeatStale, Moves, Zenon DEF HeartbeatStale, At, Holding
    <2> QED BY <1>HeartbeatStale, <2>1, <2>2, Zenon DEF Quiet, HeartbeatStale, world
  <1>ProbeAlive. CASE ProbeAlive
    <2>1. RowsKept BY <1>k, <1>ProbeAlive, WritesKeepRows, Zenon DEF ProbeAlive, ledger
    <2>2. Settled /\ Unspawned BY <1>ProbeAlive, Moves, Zenon DEF ProbeAlive, At, Holding
    <2> QED BY <1>ProbeAlive, <2>1, <2>2, Zenon DEF Quiet, ProbeAlive, world
  <1>RuntimeLimitStop. CASE RuntimeLimitStop
    <2>1. RowsKept BY <1>k, <1>RuntimeLimitStop, WritesKeepRows, Zenon DEF RuntimeLimitStop, ledger
    <2>2. Settled /\ Unspawned BY <1>RuntimeLimitStop, Moves, Zenon DEF RuntimeLimitStop, At, Holding
    <2> QED BY <1>RuntimeLimitStop, <2>1, <2>2, Zenon DEF Quiet, RuntimeLimitStop, world
  <1>AdvanceTermination. CASE AdvanceTermination
    <2>1. RowsKept BY <1>k, <1>AdvanceTermination, WritesKeepRows, Zenon DEF AdvanceTermination, ledger
    <2>2. Settled /\ Unspawned BY <1>AdvanceTermination, Moves, Zenon DEF AdvanceTermination, At, Holding
    <2> QED BY <1>AdvanceTermination, <2>1, <2>2, Zenon DEF Quiet, AdvanceTermination, world
  <1>TermGraceOver. CASE TermGraceOver
    <2>1. RowsKept BY <1>k, <1>TermGraceOver, WritesKeepRows, Zenon DEF TermGraceOver, ledger
    <2>2. Settled /\ Unspawned BY <1>TermGraceOver, Moves, Zenon DEF TermGraceOver, At, Holding
    <2> QED BY <1>TermGraceOver, <2>1, <2>2, Zenon DEF Quiet, TermGraceOver, world
  <1>RecordTerm. CASE RecordTerm
    <2>1. RowsKept BY <1>k, <1>RecordTerm, WritesKeepRows, Zenon DEF RecordTerm, ledger
    <2>2. Settled /\ Unspawned BY <1>RecordTerm, Moves, Zenon DEF RecordTerm, At, Holding
    <2> QED BY <1>RecordTerm, <2>1, <2>2, Zenon DEF Quiet, RecordTerm, world
  <1>RecordKill. CASE RecordKill
    <2>1. RowsKept BY <1>k, <1>RecordKill, WritesKeepRows, Zenon DEF RecordKill, ledger
    <2>2. Settled /\ Unspawned BY <1>RecordKill, Moves, Zenon DEF RecordKill, At, Holding
    <2> QED BY <1>RecordKill, <2>1, <2>2, Zenon DEF Quiet, RecordKill, world
  <1>ResidentOrphan. CASE ResidentOrphan
    <2>1. RowsKept BY <1>k, <1>ResidentOrphan, WritesKeepRows, Zenon DEF ResidentOrphan, ledger
    <2>2. Settled /\ Unspawned BY <1>ResidentOrphan, Moves, Zenon DEF ResidentOrphan, At, Holding
    <2> QED BY <1>ResidentOrphan, <2>1, <2>2, Zenon DEF Quiet, ResidentOrphan, world
  <1>OrphanTerm. CASE OrphanTerm
    <2>1. RowsKept BY <1>k, <1>OrphanTerm, WritesKeepRows, Zenon DEF OrphanTerm, ledger
    <2>2. Settled /\ Unspawned BY <1>OrphanTerm, Moves, Zenon DEF OrphanTerm, At, Holding
    <2> QED BY <1>OrphanTerm, <2>1, <2>2, Zenon DEF Quiet, OrphanTerm, world
  <1>GroupOrphan. CASE GroupOrphan
    <2>1. RowsKept BY <1>k, <1>GroupOrphan, WritesKeepRows, Zenon DEF GroupOrphan, ledger
    <2>2. Settled /\ Unspawned BY <1>GroupOrphan, Moves, Zenon DEF GroupOrphan, At, Holding
    <2> QED BY <1>GroupOrphan, <2>1, <2>2, Zenon DEF Quiet, GroupOrphan, world
  <1>RetryBuilderFails. CASE RetryBuilderFails
    <2>1. RowsKept BY <1>k, <1>RetryBuilderFails, WritesKeepRows, Zenon DEF RetryBuilderFails, ledger
    <2>2. Settled /\ Unspawned BY <1>RetryBuilderFails, Moves, Zenon DEF RetryBuilderFails
    <2> QED BY <1>RetryBuilderFails, <2>1, <2>2, Zenon DEF Quiet, RetryBuilderFails, world
  <1>ReadGate. CASE ReadGate
    <2>1. RowsKept BY <1>k, <1>ReadGate, WritesKeepRows, Zenon DEF ReadGate, ledger
    <2>2. Settled /\ Unspawned BY <1>ReadGate, Moves, Zenon DEF ReadGate, At, Holding
    <2> QED BY <1>ReadGate, <2>1, <2>2, Zenon DEF Quiet, ReadGate, world
  <1>DiskGateStops. CASE DiskGateStops
    <2>1. RowsKept BY <1>k, <1>DiskGateStops, WritesKeepRows, Zenon DEF DiskGateStops, ledger
    <2>2. Settled /\ Unspawned BY <1>DiskGateStops, Moves, Zenon DEF DiskGateStops, At, Holding
    <2> QED BY <1>DiskGateStops, <2>1, <2>2, Zenon DEF Quiet, DiskGateStops, world
  <1>LaunchFails. CASE LaunchFails
    <2>1. RowsKept BY <1>k, <1>LaunchFails, WritesKeepRows, Zenon DEF LaunchFails, ledger
    <2>2. Settled /\ Unspawned BY <1>LaunchFails, Moves, Zenon DEF LaunchFails, At, Holding
    <2> QED BY <1>LaunchFails, <2>1, <2>2, Zenon DEF Quiet, LaunchFails, world
  <1>AttachProcess. CASE AttachProcess
    <2>1. RowsKept BY <1>k, <1>AttachProcess, WritesKeepRows, Zenon DEF AttachProcess, ledger
    <2>2. Settled /\ Unspawned BY <1>AttachProcess, Moves, Zenon DEF AttachProcess, At, Holding
    <2> QED BY <1>AttachProcess, <2>1, <2>2, Zenon DEF Quiet, AttachProcess, world
  <1>DispatchDone. CASE DispatchDone
    <2>1. RowsKept BY <1>k, <1>DispatchDone, WritesKeepRows, Zenon DEF DispatchDone, ledger
    <2>2. Settled /\ Unspawned BY <1>DispatchDone, Moves, Zenon DEF DispatchDone, At, Holding
    <2> QED BY <1>DispatchDone, <2>1, <2>2, Zenon DEF Quiet, DispatchDone, world
  <1>EndCycle. CASE EndCycle
    <2>1. RowsKept BY <1>k, <1>EndCycle, WritesKeepRows, Zenon DEF EndCycle, ledger
    <2>2. Settled /\ Unspawned BY <1>EndCycle, Moves, Zenon DEF EndCycle, At, Holding
    <2> QED BY <1>EndCycle, <2>1, <2>2, Zenon DEF Quiet, EndCycle, world
  <1>EnqueueRetry. CASE EnqueueRetry
    <2> DEFINE n == NextAttempt(daemon.cur)
    <2>1. ASSUME NEW k \in Keys PROVE RowKept(k)
      <3>1. row \in [Keys -> Row] /\ row[k] \in Row BY Zenon DEF TypeOK
      <3>2. row' = [row EXCEPT ![n].queued = TRUE] BY <1>EnqueueRetry, Zenon DEF EnqueueRetry
      <3> HIDE DEF n
      <3>3. row'[k] = row[k] \/ row'[k] = [row[k] EXCEPT !.queued = TRUE] BY <3>1, <3>2, Zenon
      <3> QED BY <3>1, <3>3, Zenon DEF Row, RowKept
    <2>2. Settled /\ Unspawned BY <1>EnqueueRetry, Moves, Zenon DEF EnqueueRetry
    <2> QED BY <1>EnqueueRetry, <2>1, <2>2, Zenon DEF Quiet, RowsKept, EnqueueRetry, world
  <1>Crash. CASE Crash
    <2>1. RowsKept BY <1>k, <1>Crash, Zenon DEF Crash, ledger
    <2>2. daemon'.pc = "down" /\ daemon'.todo = {} /\ daemon'.owed = {}
      BY <1>Crash, Zenon DEF Crash, TypeOK, Control
    <2>3. Settled /\ Unspawned BY <2>2, Zenon DEF Settled, Unspawned, Holding
    <2> QED BY <1>Crash, <2>1, <2>3, Zenon DEF Quiet, Crash, world
  <1>o. ASSUME UNCHANGED <<row, world, daemon>> PROVE Quiet
    BY <1>k, <1>o, Zenon DEF Quiet, Settled, Unspawned
  <1>Operator. CASE Operator
    BY <1>o, <1>Operator, Zenon DEF Operator, OperatorStop, OperatorResume, OperatorResumeRunning
  <1>u. CASE UNCHANGED vars BY <1>o, <1>u, Zenon DEF vars, world
  <1> QED
    BY <1>RecoverStart, <1>WaitStartReceipt, <1>MonitoringFails, <1>HeartbeatStale,
       <1>ProbeAlive, <1>RuntimeLimitStop, <1>AdvanceTermination, <1>TermGraceOver,
       <1>RecordTerm, <1>RecordKill, <1>ResidentOrphan, <1>OrphanTerm,
       <1>GroupOrphan, <1>RetryBuilderFails, <1>ReadGate, <1>DiskGateStops,
       <1>LaunchFails, <1>AttachProcess, <1>DispatchDone, <1>EndCycle,
       <1>EnqueueRetry, <1>Crash, <1>Operator, <1>u, ZenonT(40)
    DEF Next, Reconcile, Dispatching, DaemonFault

----------------------------------------------------------------------------
(* The ledger.                                                             *)

\* The attempt before a retry is an attempt of the same cell.
LEMMA PreviousAttempt ==
  ASSUME NEW k \in Keys, k[2] > 1
  PROVE  /\ <<k[1], k[2] - 1>> \in Keys
         /\ \A j \in Keys : k = NextAttempt(j) => <<k[1], k[2] - 1>> = j
  <1>1. k[1] \in Cells /\ k[2] \in 1 .. AttemptBound /\ AttemptBound \in Nat
    BY OperatorAssumption, Zenon DEF Keys, Attempts
  <1>2. k[2] - 1 \in Attempts BY <1>1 DEF Attempts
  <1>3. <<k[1], k[2] - 1>> \in Keys BY <1>1, <1>2, Zenon DEF Keys
  <1>4. ASSUME NEW j \in Keys, k = NextAttempt(j) PROVE <<k[1], k[2] - 1>> = j
    <2>1. j[1] \in Cells /\ j[2] \in Nat /\ j = <<j[1], j[2]>> BY DEF Keys, Attempts
    <2>2. k[1] = j[1] /\ k[2] = j[2] + 1 BY <1>4, Zenon DEF NextAttempt
    <2>3. k[2] - 1 = j[2] BY <2>1, <2>2
    <2> QED BY <2>1, <2>2, <2>3, Zenon
  <1> QED BY <1>3, <1>4, Zenon

\* A step that keeps the failed attempts and makes none but the due retries
\* leaves every retry justified.
LEMMA JustifiedStep ==
  ASSUME LedgerInv,
         \A k \in Keys : row[k].status = "FAILED" => RowKept(k),
         \A k \in Keys : row'[k].status # "ABSENT" =>
           row[k].status # "ABSENT" \/ \E j \in daemon.owed : k = NextAttempt(j)
  PROVE  RetriesJustified'
  <1> SUFFICES ASSUME NEW k \in Keys, row'[k].status # "ABSENT", k[2] > 1
               PROVE  LET before == row'[<<k[1], k[2] - 1>>] IN
                      /\ before.status = "FAILED" /\ before.fail = "INFRASTRUCTURE" /\ before.retry
                      /\ k[2] <= 3
    BY Zenon DEF RetriesJustified
  <1> DEFINE b == <<k[1], k[2] - 1>>
  <1>1. b \in Keys BY PreviousAttempt, Zenon
  <1>2. row[b].status = "FAILED" /\ row[b].fail = "INFRASTRUCTURE" /\ row[b].retry /\ k[2] <= 3
    <2>1. CASE row[k].status # "ABSENT" BY <2>1, Zenon DEF LedgerInv, RetriesJustified
    <2>2. CASE \E j \in daemon.owed : k = NextAttempt(j)
      <3>1. PICK j \in daemon.owed : k = NextAttempt(j) BY <2>2, Zenon
      <3>2. j \in Keys /\ RetryDue(j) BY DEF LedgerInv, TypeOK, Control, DaemonListsTrue
      <3>3. b = j BY <3>1, <3>2, PreviousAttempt, Zenon
      <3>4. k[2] = j[2] + 1 /\ j[2] \in Nat BY <3>1, <3>2 DEF NextAttempt, Keys, Attempts
      <3> QED BY <3>2, <3>3, <3>4 DEF RetryDue
    <2> QED BY <2>1, <2>2, Zenon
  <1> QED BY <1>1, <1>2, Zenon DEF RowKept

\* A retry decision leaves room for one attempt more: the third attempt of a
\* cell finds two infrastructure failures on record.
LEMMA RetryWithinLimit ==
  ASSUME LedgerInv, NEW l \in Leases, Running(l), AutoRetry(l, "INFRASTRUCTURE"), NEW k \in Members(l)
  PROVE  k[2] <= 2
  <1>1. CASE InGroup(l)
    <2>1. PICK c \in Group : k = <<c, 1>> BY <1>1, Zenon DEF Members
    <2> QED BY <2>1
  <1>2. CASE ~InGroup(l)
    <2>1. k = l /\ l \in Keys BY <1>2, Zenon DEF Members, Leases
    <2>2. l[1] \in Cells /\ l[2] \in 1 .. AttemptBound /\ AttemptBound \in Nat
      BY <2>1, OperatorAssumption, Zenon DEF Keys, Attempts
    <2> DEFINE S == {n \in Attempts : row[<<l[1], n>>].status = "FAILED"
                                       /\ row[<<l[1], n>>].fail = "INFRASTRUCTURE"}
    <2>3. Cardinality(S) < 2 BY <1>2, Zenon DEF AutoRetry, InfraFailures
    <2>4. ASSUME l[2] > 2 PROVE FALSE
      <3>1. row[l].status # "ABSENT" /\ l[2] > 1 BY <2>2, <2>4 DEF Running
      <3>2. row[<<l[1], l[2] - 1>>].status = "FAILED" /\ row[<<l[1], l[2] - 1>>].fail = "INFRASTRUCTURE"
            /\ l[2] <= 3
        BY <2>1, <3>1, Zenon DEF LedgerInv, RetriesJustified
      <3>3. l[2] = 3 /\ l[2] - 1 = 2
        <4>1. l[2] \in Nat /\ l[2] > 2 /\ l[2] <= 3 BY <2>2, <2>4, <3>2
        <4> QED BY <4>1
      <3>4. row[<<l[1], 2>>].status = "FAILED" /\ row[<<l[1], 2>>].fail = "INFRASTRUCTURE"
        BY <3>2, <3>3, Zenon
      <3>5. 1 \in Attempts /\ 2 \in Attempts BY <2>2, <3>3 DEF Attempts
      <3>6. <<l[1], 2>> \in Keys BY <2>2, <3>5, Zenon DEF Keys
      <3>7. row[<<l[1], 1>>].status = "FAILED" /\ row[<<l[1], 1>>].fail = "INFRASTRUCTURE"
        <4> DEFINE m == <<l[1], 2>>
        <4>1. m \in Keys /\ row[m].status # "ABSENT" /\ m[2] > 1 BY <3>4, <3>6
        <4>2. row[<<m[1], m[2] - 1>>].status = "FAILED" /\ row[<<m[1], m[2] - 1>>].fail = "INFRASTRUCTURE"
          BY <4>1, Zenon DEF LedgerInv, RetriesJustified
        <4>3. m[1] = l[1] /\ m[2] - 1 = 1 OBVIOUS
        <4> QED BY <4>2, <4>3, Zenon
      <3>8. 1 .. 2 \subseteq S BY <3>4, <3>5, <3>7
      <3>9. IsFiniteSet(Attempts) BY <2>2, FS_Interval DEF Attempts
      <3>10. IsFiniteSet(S) BY <3>9, FS_Subset, Zenon
      <3>11. Cardinality(1 .. 2) = 2
        <4>1. 1 \in Int /\ 2 \in Int /\ ~(1 > 2) /\ 2 - 1 + 1 = 2 OBVIOUS
        <4> QED BY <4>1, FS_Interval, ZenonT(40)
      <3>12. Cardinality(1 .. 2) <= Cardinality(S) BY <3>8, <3>10, FS_Subset, Zenon
      <3>13. Cardinality(S) \in Nat BY <3>10, FS_CardinalityType, Zenon
      <3> QED BY <2>3, <3>11, <3>12, <3>13
    <2> QED BY <2>1, <2>2, <2>4
  <1> QED BY <1>1, <1>2, Zenon

\* A step that keeps the rows, and keeps or forgets what the daemon holds.
LEMMA KeepLedger ==
  ASSUME LedgerInv, TypeOK', RowsKept, Settled
  PROVE  LedgerInv'
  <1>1. GroupTogether'
    <2> SUFFICES ASSUME NEW l \in Leases, (row[l].status \in {"PENDING", "RUNNING"})', NEW k \in Members(l)
                 PROVE (row[k].status = row[l].status)'
      BY Zenon DEF GroupTogether
    <2>1. l \in Keys /\ k \in Keys BY MembersFacts, Zenon
    <2> QED BY <2>1, Zenon DEF RowsKept, RowKept, LedgerInv, GroupTogether
  <1>2. AttemptsInOrder'
    <2> SUFFICES ASSUME NEW k \in Keys, k[2] < AttemptBound,
                        (row[k].status \in {"ABSENT", "PENDING", "RUNNING"})'
                 PROVE (row[NextAttempt(k)].status)' = "ABSENT"
      BY Zenon DEF AttemptsInOrder
    <2>1. NextAttempt(k) \in Keys BY NextAttemptFacts, Zenon
    <2> QED BY <2>1, Zenon DEF RowsKept, RowKept, LedgerInv, AttemptsInOrder
  <1>3. RunningApart'
    <2> SUFFICES ASSUME NEW l \in Leases, NEW m \in Leases, l # m, Running(l)', Running(m)'
                 PROVE (row[l].gpus \cap row[m].gpus = {})' /\ l[1] \notin Exclusive /\ m[1] \notin Exclusive
      BY Zenon DEF RunningApart
    <2>1. l \in Keys /\ m \in Keys BY Zenon DEF Leases
    <2>2. RowKept(l) /\ RowKept(m) BY <2>1, Zenon DEF RowsKept
    <2>3. Running(l) /\ Running(m) BY <2>2, Zenon DEF RowKept, Running
    <2> QED BY <2>2, <2>3, Zenon DEF RowKept, LedgerInv, RunningApart
  <1>4. \A l \in Leases : l \in Keys /\ (Running(l)' <=> Running(l))
    BY Zenon DEF RowsKept, RowKept, Running, Leases
  <1>5. daemon.todo \subseteq Leases /\ daemon.owed \subseteq Keys BY Zenon DEF LedgerInv, TypeOK, Control
  <1>6. \A l \in daemon'.todo : Running(l)' BY <1>4, <1>5, Zenon DEF LedgerInv, DaemonListsTrue, Settled
  <1>7. daemon'.pc \in Holding =>
          daemon'.cur \in Leases /\ (Running(daemon.cur))' /\ daemon'.cur \notin daemon'.todo
    BY <1>4, Zenon DEF LedgerInv, DaemonListsTrue, Running, Settled
  <1>8. ASSUME NEW k \in daemon'.owed PROVE RetryDue(k)'
    <2>1. k \in daemon.owed /\ k \in Keys BY <1>5, Zenon DEF Settled
    <2>2. RetryDue(k) BY <2>1, Zenon DEF LedgerInv, DaemonListsTrue
    <2>3. k[2] < AttemptBound => NextAttempt(k) \in Keys BY <2>1, NextAttemptFacts, Zenon
    <2> QED BY <2>1, <2>2, <2>3, Zenon DEF RowsKept, RowKept, RetryDue
  <1>9. DaemonListsTrue' BY <1>6, <1>7, <1>8, Zenon DEF DaemonListsTrue
  <1>10. RetriesJustified' BY JustifiedStep, Zenon DEF RowsKept, RowKept
  <1> QED BY <1>1, <1>2, <1>3, <1>9, <1>10, Zenon DEF LedgerInv

\* A terminal transaction.
LEMMA FinishLedger ==
  ASSUME LedgerInv, TypeOK', NEW verdict, TerminalStep(verdict)
  PROVE  LedgerInv'
  <1> DEFINE l == daemon.cur
  <1>1. l \in Leases /\ Running(l) /\ l \notin daemon.todo
    BY Zenon DEF LedgerInv, DaemonListsTrue, TerminalStep
  <1>2. l \in Keys /\ l \in Members(l) /\ Members(l) \subseteq Keys BY <1>1, MembersFacts, Zenon
  <1>3. \A k \in Members(l) : row[k].status = "RUNNING"
    BY <1>1, Zenon DEF LedgerInv, GroupTogether, Running
  <1>4. \A k \in Keys \ Members(l) : row'[k] = row[k] BY ZenonT(40) DEF TerminalStep, Finish
  <1>5. \A k \in Members(l) : row'[k].status \in {"COMPLETE", "FAILED"}
    BY <1>2, Zenon DEF TerminalStep, Finish, NoRow
  <1>6. ASSUME NEW k \in Members(l), verdict[k] = "INFRASTRUCTURE", AutoRetry(l, "INFRASTRUCTURE")
        PROVE  row'[k].status = "FAILED" /\ row'[k].fail = "INFRASTRUCTURE" /\ row'[k].retry
    <2>1. row'[k] = [NoRow EXCEPT !.status = "FAILED", !.fail = verdict[k], !.retry = AutoRetry(l, verdict[k])]
      BY <1>2, <1>6, Zenon DEF TerminalStep, Finish
    <2>2. row'[k] = [NoRow EXCEPT !.status = "FAILED", !.fail = "INFRASTRUCTURE",
                                  !.retry = AutoRetry(l, "INFRASTRUCTURE")]
      BY <1>6, <2>1, Zenon
    <2>3. AutoRetry(l, "INFRASTRUCTURE") = TRUE BY <1>6, Zenon DEF AutoRetry
    <2> QED BY <2>2, <2>3, Zenon DEF NoRow
  <1>7. daemon'.todo = daemon.todo /\ daemon'.pc \notin Holding
        /\ \A k \in daemon'.owed : k \in daemon.owed
                                    \/ (k \in RetriesOwed(l, Members(l)) /\ verdict[k] = "INFRASTRUCTURE")
    BY Zenon DEF TerminalStep
  <1> HIDE DEF l
  <1>8. GroupTogether'
    <2> SUFFICES ASSUME NEW m \in Leases, (row[m].status \in {"PENDING", "RUNNING"})', NEW k \in Members(m)
                 PROVE (row[k].status = row[m].status)'
      BY Zenon DEF GroupTogether
    <2>1. m \notin Members(l) BY <1>5, Zenon
    <2>2. m # l BY <1>2, <2>1, Zenon
    <2>3. k \notin Members(l) BY <1>1, <2>2, MembersFacts, Zenon
    <2>4. m \in Keys /\ k \in Keys BY MembersFacts, Zenon
    <2> QED BY <1>4, <2>1, <2>3, <2>4, Zenon DEF LedgerInv, GroupTogether
  <1>9. AttemptsInOrder'
    <2> SUFFICES ASSUME NEW k \in Keys, k[2] < AttemptBound,
                        (row[k].status \in {"ABSENT", "PENDING", "RUNNING"})'
                 PROVE (row[NextAttempt(k)].status)' = "ABSENT"
      BY Zenon DEF AttemptsInOrder
    <2>1. k \notin Members(l) BY <1>5, Zenon
    <2>2. row[NextAttempt(k)].status = "ABSENT" BY <1>4, <2>1, Zenon DEF LedgerInv, AttemptsInOrder
    <2>3. NextAttempt(k) \in Keys \ Members(l) BY <1>3, <2>2, NextAttemptFacts, Zenon
    <2> QED BY <1>4, <2>2, <2>3, Zenon
  <1>10. RunningApart'
    <2> SUFFICES ASSUME NEW j \in Leases, NEW m \in Leases, j # m, Running(j)', Running(m)'
                 PROVE (row[j].gpus \cap row[m].gpus = {})' /\ j[1] \notin Exclusive /\ m[1] \notin Exclusive
      BY Zenon DEF RunningApart
    <2>1. j \notin Members(l) /\ m \notin Members(l) BY <1>5, Zenon DEF Running
    <2>2. row'[j] = row[j] /\ row'[m] = row[m] BY <1>4, <2>1, Zenon DEF Leases
    <2>3. Running(j) /\ Running(m) BY <2>2, Zenon DEF Running
    <2> QED BY <2>2, <2>3, Zenon DEF LedgerInv, RunningApart
  <1>11. \A m \in daemon'.todo : Running(m)'
    <2> SUFFICES ASSUME NEW m \in daemon'.todo PROVE Running(m)' BY Zenon
    <2>1. m \in daemon.todo /\ m \in Leases /\ Running(m) BY <1>7, Zenon DEF LedgerInv, TypeOK, Control, DaemonListsTrue
    <2>2. m # l BY <1>1, <2>1, Zenon
    <2>3. m \in Keys \ Members(l) BY <1>1, <2>1, <2>2, MembersFacts, Zenon DEF Leases
    <2> QED BY <1>4, <2>1, <2>3, Zenon DEF Running
  <1>12. ASSUME NEW k \in daemon'.owed PROVE RetryDue(k)'
    <2>1. k \in Keys BY Zenon DEF TypeOK, Control
    <2>2. CASE k \in daemon.owed
      <3>1. RetryDue(k) BY <2>2, Zenon DEF LedgerInv, DaemonListsTrue
      <3>2. k \notin Members(l) BY <1>3, <3>1, Zenon DEF RetryDue
      <3>3. k[2] < AttemptBound => NextAttempt(k) \in Keys \ Members(l)
        BY <1>3, <2>1, <3>1, NextAttemptFacts, Zenon DEF RetryDue
      <3> QED BY <1>4, <2>1, <3>1, <3>2, <3>3, Zenon DEF RetryDue
    <2>3. CASE k \in RetriesOwed(l, Members(l)) /\ verdict[k] = "INFRASTRUCTURE"
      <3>1. k \in Members(l) /\ AutoRetry(l, "INFRASTRUCTURE") BY <2>3, Zenon DEF RetriesOwed
      <3>2. row'[k].status = "FAILED" /\ row'[k].fail = "INFRASTRUCTURE" /\ row'[k].retry
        BY <1>6, <2>3, <3>1, Zenon
      <3>3. k[2] <= 2 BY <1>1, <3>1, RetryWithinLimit, Zenon
      <3>4. k[2] < AttemptBound => row[NextAttempt(k)].status = "ABSENT"
        BY <1>3, <2>1, <3>1, Zenon DEF LedgerInv, AttemptsInOrder
      <3>5. k[2] < AttemptBound => NextAttempt(k) \in Keys \ Members(l)
        BY <1>3, <2>1, <3>4, NextAttemptFacts, Zenon
      <3> QED BY <1>4, <3>2, <3>3, <3>4, <3>5, Zenon DEF RetryDue
    <2> QED BY <1>7, <2>2, <2>3, Zenon
  <1>13. DaemonListsTrue' BY <1>7, <1>11, <1>12, Zenon DEF DaemonListsTrue
  <1>14. RetriesJustified'
    <2>1. \A k \in Keys : row[k].status = "FAILED" => RowKept(k) BY <1>3, <1>4, Zenon DEF RowKept
    <2>2. \A k \in Keys : row'[k].status # "ABSENT" => row[k].status # "ABSENT" BY <1>3, <1>4, Zenon
    <2> QED BY <2>1, <2>2, JustifiedStep, Zenon
  <1> QED BY <1>8, <1>9, <1>10, <1>13, <1>14, Zenon DEF LedgerInv

\* A retry is made of the attempt that is owed one.
LEMMA MaterializeLedger ==
  ASSUME LedgerInv, TypeOK', MaterializeRetry
  PROVE  LedgerInv'
  <1>1. PICK k \in daemon.owed :
          /\ k[2] < AttemptBound
          /\ row' = [row EXCEPT ![NextAttempt(k)] = Fresh]
          /\ daemon' = [daemon EXCEPT !.pc = "enqueue", !.cur = k, !.owed = @ \ {k}]
    BY Zenon DEF MaterializeRetry
  <1> DEFINE n == NextAttempt(k)
  <1>2. k \in Keys /\ row \in [Keys -> Row] /\ daemon \in Control
        /\ daemon.todo \subseteq Leases /\ daemon.owed \subseteq Keys
    BY <1>1, Zenon DEF LedgerInv, TypeOK, Control
  <1>3. n \in Keys /\ n # k /\ n \in Leases /\ Members(n) = {n} /\ n[2] = k[2] + 1
    BY <1>1, <1>2, NextAttemptFacts, Zenon
  <1>4. row[k].status = "FAILED" /\ row[n].status = "ABSENT" BY <1>1, Zenon DEF LedgerInv, DaemonListsTrue, RetryDue, n
  <1>5. row'[n].status = "PENDING" /\ \A j \in Keys \ {n} : row'[j] = row[j]
    BY <1>1, <1>2, <1>3, Zenon DEF Fresh, NoRow
  <1>7. daemon'.todo = daemon.todo /\ daemon'.owed = daemon.owed \ {k} /\ daemon'.pc = "enqueue"
    BY <1>1, <1>2, Zenon DEF Control
  <1> HIDE DEF n
  <1>10. GroupTogether'
    <2> SUFFICES ASSUME NEW m \in Leases, (row[m].status \in {"PENDING", "RUNNING"})', NEW j \in Members(m)
                 PROVE (row[j].status = row[m].status)'
      BY Zenon DEF GroupTogether
    <2>1. CASE m = n BY <1>3, <2>1, Zenon
    <2>2. CASE m # n
      <3>1. m \in Keys /\ j \in Keys BY MembersFacts, Zenon
      <3>2. j # n BY <1>3, <2>2, MembersFacts, Zenon
      <3> QED BY <1>5, <2>2, <3>1, <3>2, Zenon DEF LedgerInv, GroupTogether
    <2> QED BY <2>1, <2>2, Zenon
  <1>11. AttemptsInOrder'
    <2> SUFFICES ASSUME NEW j \in Keys, j[2] < AttemptBound,
                        (row[j].status \in {"ABSENT", "PENDING", "RUNNING"})'
                 PROVE (row[NextAttempt(j)].status)' = "ABSENT"
      BY Zenon DEF AttemptsInOrder
    <2>1. NextAttempt(j) \in Keys /\ NextAttempt(j) # j BY NextAttemptFacts, Zenon
    <2>2. CASE j = n
      <3>1. row[NextAttempt(j)].status = "ABSENT" BY <1>3, <1>4, <2>2, Zenon DEF LedgerInv, AttemptsInOrder
      <3> QED BY <1>5, <2>1, <2>2, <3>1, Zenon
    <2>3. CASE j # n
      <3>1. row[NextAttempt(j)].status = "ABSENT" BY <1>5, <2>3, Zenon DEF LedgerInv, AttemptsInOrder
      <3>2. j # k BY <1>2, <1>3, <1>4, <1>5, Zenon
      <3>3. NextAttempt(j) # n BY <1>1, <1>2, <3>2, NextAttemptFacts, Zenon DEF n
      <3> QED BY <1>5, <2>1, <3>1, <3>3, Zenon
    <2> QED BY <2>2, <2>3, Zenon
  <1>12. RunningApart'
    <2> SUFFICES ASSUME NEW j \in Leases, NEW m \in Leases, j # m, Running(j)', Running(m)'
                 PROVE (row[j].gpus \cap row[m].gpus = {})' /\ j[1] \notin Exclusive /\ m[1] \notin Exclusive
      BY Zenon DEF RunningApart
    <2>1. j # n /\ m # n BY <1>5, Zenon DEF Running
    <2>2. row'[j] = row[j] /\ row'[m] = row[m] BY <1>5, <2>1, Zenon DEF Leases
    <2>3. Running(j) /\ Running(m) BY <2>2, Zenon DEF Running
    <2> QED BY <2>2, <2>3, Zenon DEF LedgerInv, RunningApart
  <1>13. \A m \in daemon'.todo : Running(m)'
    <2> SUFFICES ASSUME NEW m \in daemon.todo PROVE Running(m)' BY <1>7, Zenon
    <2>1. m \in Leases /\ Running(m) BY <1>2, Zenon DEF LedgerInv, DaemonListsTrue
    <2>2. m \in Keys \ {n} BY <1>4, <2>1, Zenon DEF Running, Leases
    <2> QED BY <1>5, <2>1, <2>2, Zenon DEF Running
  <1>14. ASSUME NEW j \in daemon'.owed
         PROVE RetryDue(j)'
    <2>1. j \in daemon.owed /\ j # k /\ j \in Keys BY <1>2, <1>7, Zenon
    <2>2. RetryDue(j) BY <2>1, Zenon DEF LedgerInv, DaemonListsTrue
    <2>3. j # n BY <1>4, <2>2, Zenon DEF RetryDue
    <2>4. j[2] < AttemptBound => NextAttempt(j) \in Keys \ {n}
      BY <1>1, <1>2, <2>1, NextAttemptFacts, Zenon DEF n
    <2> QED BY <1>5, <2>1, <2>2, <2>3, <2>4, Zenon DEF RetryDue
  <1>15. DaemonListsTrue' BY <1>7, <1>13, <1>14, Zenon DEF DaemonListsTrue, Holding
  <1>16. RetriesJustified'
    <2>1. \A j \in Keys : row[j].status = "FAILED" => RowKept(j) BY <1>4, <1>5, Zenon DEF RowKept
    <2>2. \A j \in Keys : row'[j].status # "ABSENT" => row[j].status # "ABSENT" \/ j = NextAttempt(k)
      BY <1>5, Zenon DEF n
    <2> QED BY <1>1, <2>1, <2>2, JustifiedStep, Zenon
  <1> QED BY <1>10, <1>11, <1>12, <1>15, <1>16, Zenon DEF LedgerInv

\* A lease is claimed only where the RUNNING ones leave room.
LEMMA ClaimLedger ==
  ASSUME LedgerInv, TypeOK', MarkRunning
  PROVE  LedgerInv'
  <1>1. PICK l \in Dispatchable : Claim(l, Assigned(l))
                                /\ daemon' = [daemon EXCEPT !.pc = "launch", !.cur = l]
    BY Zenon DEF MarkRunning
  <1>2. l \in Leases /\ l \in Keys /\ Eligible(l) BY <1>1, Zenon DEF Dispatchable, Leases
  <1>3. l \in Members(l) /\ Members(l) \subseteq Keys BY <1>2, MembersFacts, Zenon
  <1>4. row \in [Keys -> Row] /\ daemon \in Control /\ daemon.todo \subseteq Leases
        /\ daemon.owed \subseteq Keys
    BY Zenon DEF LedgerInv, TypeOK, Control
  <1>5. \A k \in Members(l) : row[k].status = "PENDING"
    BY <1>2, Zenon DEF Eligible, LedgerInv, GroupTogether
  <1>6. /\ \A k \in Members(l) : row'[k].status = "RUNNING" /\ row'[k].gpus = Assigned(l)
        /\ \A k \in Keys \ Members(l) : row'[k] = row[k]
    <2>1. ASSUME NEW k \in Keys, k \in Members(l)
          PROVE  row'[k].status = "RUNNING" /\ row'[k].gpus = Assigned(l)
      <3>1. row[k] \in Row BY <1>4, Zenon
      <3>2. row'[k] = [row[k] EXCEPT !.status = "RUNNING", !.gpus = Assigned(l)]
        BY <1>1, <2>1, ZenonT(40) DEF Claim
      <3> QED BY <3>1, <3>2, Zenon DEF Row
    <2>2. \A k \in Keys \ Members(l) : row'[k] = row[k] BY <1>1, Zenon DEF Claim
    <2> QED BY <1>3, <2>1, <2>2, Zenon
  <1>8. daemon'.todo = daemon.todo /\ daemon'.owed = daemon.owed /\ daemon'.pc = "launch" /\ daemon'.cur = l
    BY <1>1, <1>4, Zenon DEF Control
  <1>12. GroupTogether'
    <2> SUFFICES ASSUME NEW m \in Leases, (row[m].status \in {"PENDING", "RUNNING"})', NEW j \in Members(m)
                 PROVE (row[j].status = row[m].status)'
      BY Zenon DEF GroupTogether
    <2>1. CASE m = l BY <1>3, <1>6, <2>1, Zenon
    <2>2. CASE m # l
      <3>1. m \in Keys /\ j \in Keys /\ m \in Members(m) BY MembersFacts, Zenon
      <3>2. j \notin Members(l) /\ m \notin Members(l) BY <1>2, <2>2, <3>1, MembersFacts, Zenon
      <3> QED BY <1>6, <3>1, <3>2 DEF LedgerInv, GroupTogether
    <2> QED BY <2>1, <2>2, Zenon
  <1>13. AttemptsInOrder'
    <2> SUFFICES ASSUME NEW j \in Keys, j[2] < AttemptBound,
                        (row[j].status \in {"ABSENT", "PENDING", "RUNNING"})'
                 PROVE (row[NextAttempt(j)].status)' = "ABSENT"
      BY Zenon DEF AttemptsInOrder
    <2>1. row[j].status \in {"ABSENT", "PENDING", "RUNNING"} BY <1>5, <1>6, Zenon
    <2>2. row[NextAttempt(j)].status = "ABSENT" BY <2>1, Zenon DEF LedgerInv, AttemptsInOrder
    <2>3. NextAttempt(j) \in Keys \ Members(l) BY <1>5, <2>2, NextAttemptFacts, Zenon
    <2> QED BY <1>6, <2>2, <2>3, Zenon
  <1>14. ASSUME NEW m \in Leases, m # l, Running(m)'
         PROVE /\ Running(m) /\ row'[m] = row[m]
               /\ Assigned(l) \cap row[m].gpus = {} /\ l[1] \notin Exclusive /\ m[1] \notin Exclusive
    <2>1. m \in Keys \ Members(l) BY <1>2, <1>14, MembersFacts, Zenon DEF Leases
    <2>2. row'[m] = row[m] /\ Running(m) BY <1>6, <1>14, <2>1, Zenon DEF Running
    <2>3. m \in RunningLeases BY <2>2, Zenon DEF RunningLeases
    <2>4. row[m].gpus \subseteq Occupied BY <2>1, <2>2, Zenon DEF Occupied
    <2>5. m[1] \notin Exclusive /\ ~NeedsIdleHost(l[1]) BY <1>2, <2>3, Zenon DEF Eligible
    <2>6. Assigned(l) \cap Occupied = {} BY <1>2, <2>5, Zenon DEF Eligible, Assigned, FirstFree
    <2> QED BY <2>2, <2>4, <2>5, <2>6, Zenon DEF NeedsIdleHost
  <1>15. RunningApart'
    <2> SUFFICES ASSUME NEW j \in Leases, NEW m \in Leases, j # m, Running(j)', Running(m)'
                 PROVE (row[j].gpus \cap row[m].gpus = {})' /\ j[1] \notin Exclusive /\ m[1] \notin Exclusive
      BY Zenon DEF RunningApart
    <2>1. row'[l].gpus = Assigned(l) BY <1>3, <1>6, Zenon
    <2>2. CASE j = l BY <1>14, <2>1, <2>2, Zenon
    <2>3. CASE m = l BY <1>14, <2>1, <2>3, Zenon
    <2>4. CASE j # l /\ m # l BY <1>14, <2>4, Zenon DEF LedgerInv, RunningApart
    <2> QED BY <2>2, <2>3, <2>4, Zenon
  <1>16. \A m \in daemon'.todo : m # l /\ Running(m)'
    <2> SUFFICES ASSUME NEW m \in daemon.todo PROVE m # l /\ Running(m)' BY <1>8, Zenon
    <2>1. m \in Leases /\ Running(m) BY <1>4, Zenon DEF LedgerInv, DaemonListsTrue
    <2>2. m \in Keys \ Members(l) BY <1>5, <2>1, Zenon DEF Running, Leases
    <2> QED BY <1>3, <1>6, <2>1, <2>2, Zenon DEF Running
  <1>17. ASSUME NEW k \in daemon'.owed
         PROVE RetryDue(k)'
    <2>1. k \in daemon.owed /\ k \in Keys BY <1>4, <1>8, Zenon
    <2>2. RetryDue(k) BY <2>1, Zenon DEF LedgerInv, DaemonListsTrue
    <2>3. k \notin Members(l) BY <1>5, <2>2, Zenon DEF RetryDue
    <2>4. k[2] < AttemptBound => NextAttempt(k) \in Keys \ Members(l)
      BY <1>5, <2>1, <2>2, NextAttemptFacts, Zenon DEF RetryDue
    <2> QED BY <1>6, <2>1, <2>2, <2>3, <2>4, Zenon DEF RetryDue
  <1>18. Running(daemon.cur)' BY <1>3, <1>6, <1>8, Zenon DEF Running
  <1>19. DaemonListsTrue' BY <1>2, <1>8, <1>16, <1>17, <1>18, Zenon DEF DaemonListsTrue
  <1>20. RetriesJustified'
    <2>1. \A k \in Keys : row[k].status = "FAILED" => RowKept(k) BY <1>5, <1>6, Zenon DEF RowKept
    <2>2. \A k \in Keys : row'[k].status # "ABSENT" => row[k].status # "ABSENT" BY <1>5, <1>6, Zenon
    <2> QED BY <2>1, <2>2, JustifiedStep, Zenon
  <1> QED BY <1>12, <1>13, <1>15, <1>19, <1>20, Zenon DEF LedgerInv

LEMMA InitLedger == Init => LedgerInv
  <1> SUFFICES ASSUME Init PROVE LedgerInv OBVIOUS
  <1>1. TypeOK BY InitTyped, Zenon
  <1>2. \A k \in Keys : row[k].status = (IF k[2] = 1 THEN "PENDING" ELSE "ABSENT")
    BY Zenon DEF Init, NoRow, Fresh
  <1>5. GroupTogether
    <2> SUFFICES ASSUME NEW l \in Leases, row[l].status \in {"PENDING", "RUNNING"}, NEW k \in Members(l)
                 PROVE row[k].status = row[l].status
      BY Zenon DEF GroupTogether
    <2>1. l \in Keys /\ k \in Keys BY MembersFacts, Zenon
    <2>2. l[2] = 1 BY <1>2, <2>1, Zenon
    <2>3. k[2] = 1 BY <2>2 DEF Members
    <2> QED BY <1>2, <2>1, <2>2, <2>3, Zenon
  <1>6. AttemptsInOrder
    <2> SUFFICES ASSUME NEW k \in Keys, k[2] < AttemptBound PROVE row[NextAttempt(k)].status = "ABSENT"
      BY Zenon DEF AttemptsInOrder
    <2>1. NextAttempt(k) \in Keys /\ NextAttempt(k)[2] = k[2] + 1 BY NextAttemptFacts, Zenon
    <2>2. k[2] \in Nat \ {0} BY DEF Keys, Attempts
    <2> QED BY <1>2, <2>1, <2>2
  <1>7. RunningApart BY <1>2, Zenon DEF RunningApart, Running, Leases
  <1>8. DaemonListsTrue BY Zenon DEF Init, DaemonListsTrue, Holding
  <1>9. RetriesJustified BY <1>2 DEF RetriesJustified
  <1> QED BY <1>1, <1>5, <1>6, <1>7, <1>8, <1>9, Zenon DEF LedgerInv

\* A step that leaves the rows alone needs only true lists.
LEMMA ListsLedger ==
  ASSUME LedgerInv, TypeOK', UNCHANGED row, DaemonListsTrue'
  PROVE  LedgerInv'
  <1>1. GroupTogether' BY Zenon DEF GroupTogether, LedgerInv
  <1>2. AttemptsInOrder' BY Zenon DEF AttemptsInOrder, LedgerInv
  <1>3. RunningApart' BY Zenon DEF RunningApart, Running, LedgerInv
  <1>4. RetriesJustified' BY Zenon DEF RetriesJustified, LedgerInv
  <1> QED BY <1>1, <1>2, <1>3, <1>4, Zenon DEF LedgerInv

\* A step of a lease's processes leaves the ledger and the daemon alone.
LEMMA ProcessKeeps ==
  ASSUME NEW l, Process(l)
  PROVE  UNCHANGED <<row, daemon>>
  BY Zenon DEF Process, WrapperStarts, SpawnChild, ServerStarts, ServerExits, ChildPublishes, ChildExits,
         ChildSilent, ChildHeard, WrapperExits, WrapperKilled, ledger

\* Every step keeps the ledger's invariant, whatever the fault.
LEMMA LedgerStep ==
  ASSUME LedgerInv, [Next]_vars
  PROVE  LedgerInv'
  <1>t. TypeOK /\ TypeOK' BY StepTyped, Zenon DEF LedgerInv
  <1>d. daemon \in Control BY <1>t, Zenon DEF TypeOK
  <1>q. CASE Quiet BY <1>q, <1>t, KeepLedger, Zenon DEF Quiet
  <1>BeginCycle. CASE BeginCycle
    <2>1. daemon'.pc = "next" /\ daemon'.todo = RunningLeases /\ daemon'.owed = daemon.owed /\ UNCHANGED row
      BY <1>d, <1>BeginCycle, Zenon DEF BeginCycle, Control, ledger
    <2>2. \A l \in daemon'.todo : Running(l)' BY <2>1, Zenon DEF RunningLeases, Running
    <2>3. \A k \in daemon'.owed : RetryDue(k)' BY <2>1, Zenon DEF LedgerInv, DaemonListsTrue, RetryDue
    <2>4. DaemonListsTrue' BY <2>1, <2>2, <2>3, Zenon DEF DaemonListsTrue, Holding
    <2> QED BY <1>t, <2>1, <2>4, ListsLedger, Zenon
  <1>NextLease. CASE NextLease
    <2>1. CASE Goto("gate")
      <3>1. RowsKept BY <1>t, <1>NextLease, WritesKeepRows, Zenon DEF NextLease, ledger
      <3>2. Settled BY <1>t, <2>1, Moves, Zenon
      <3> QED BY <1>t, <3>1, <3>2, KeepLedger, Zenon
    <2>2. CASE ~Goto("gate")
      <3>1. PICK l \in daemon.todo :
              daemon' = [daemon EXCEPT !.pc = IF row[l].attached = "no" THEN "recover" ELSE "probe",
                                       !.cur = l, !.todo = @ \ {l}]
        BY <1>NextLease, <2>2, Zenon DEF NextLease
      <3>2. daemon'.cur = l /\ daemon'.todo = daemon.todo \ {l} /\ daemon'.owed = daemon.owed
        BY <1>d, <3>1, Zenon DEF Control
      <3>3. UNCHANGED row BY <1>NextLease, Zenon DEF NextLease, ledger
      <3>4. l \in Leases /\ \A m \in daemon.todo : Running(m)'
        BY <1>d, <3>3, Zenon DEF Control, LedgerInv, DaemonListsTrue, Running
      <3>5. \A k \in daemon'.owed : RetryDue(k)' BY <3>2, <3>3, Zenon DEF LedgerInv, DaemonListsTrue, RetryDue
      <3>6. Running(daemon.cur)' BY <3>2, <3>4, Zenon DEF Running
      <3>7. DaemonListsTrue' BY <3>2, <3>4, <3>5, <3>6, Zenon DEF DaemonListsTrue
      <3> QED BY <1>t, <3>3, <3>7, ListsLedger, Zenon
    <2> QED BY <2>1, <2>2, Zenon
  <1>MaterializeRetry. CASE MaterializeRetry BY <1>t, <1>MaterializeRetry, MaterializeLedger, Zenon
  <1>MarkRunning. CASE MarkRunning BY <1>t, <1>MarkRunning, ClaimLedger, Zenon
  <1>StartNotPublished. CASE StartNotPublished BY <1>t, <1>StartNotPublished, TerminalCases, FinishLedger, Zenon
  <1>SpawnFailed. CASE SpawnFailed BY <1>t, <1>SpawnFailed, TerminalCases, FinishLedger, Zenon
  <1>Terminalize. CASE Terminalize BY <1>q, <1>t, <1>Terminalize, TerminalCases, FinishLedger, Zenon
  <1>s. ASSUME UNCHANGED row, NEW pc \in Holding, Goto(pc), daemon.pc \in Holding PROVE LedgerInv'
    <2>1. RowsKept BY <1>t, <1>s, WritesKeepRows, Zenon
    <2>2. daemon'.cur = daemon.cur /\ daemon'.todo = daemon.todo /\ daemon'.owed = daemon.owed
      BY <1>d, <1>s, Zenon DEF Goto, Control
    <2>3. Settled BY <1>s, <2>2, Zenon DEF Settled
    <2> QED BY <1>t, <2>1, <2>3, KeepLedger, Zenon
  <1>h. {"attach", "spawnFailed", "launch", "term", "kill", "recordTerm", "recordKill"} \subseteq Holding
    BY Zenon DEF Holding
  <1>AttachFails. CASE AttachFails BY <1>h, <1>s, <1>AttachFails, Zenon DEF AttachFails, At, ledger
  <1>Launch. CASE Launch BY <1>h, <1>s, <1>Launch, Zenon DEF Launch, At, ledger
  <1>SendTerm. CASE SendTerm BY <1>h, <1>s, <1>SendTerm, Zenon DEF SendTerm, At, ledger
  <1>SendKill. CASE SendKill BY <1>h, <1>s, <1>SendKill, Zenon DEF SendKill, At, ledger
  <1>p. CASE \E l \in Leases : Process(l)
    <2>1. UNCHANGED <<row, daemon>> BY <1>p, ProcessKeeps, Zenon
    <2>2. RowsKept BY <1>t, <2>1, WritesKeepRows, Zenon
    <2>3. Settled BY <2>1, Zenon DEF Settled
    <2> QED BY <1>t, <2>2, <2>3, KeepLedger
  <1> QED
    BY <1>t, <1>q, <1>BeginCycle, <1>NextLease, <1>MaterializeRetry, <1>MarkRunning,
       <1>StartNotPublished, <1>SpawnFailed, <1>Terminalize, <1>AttachFails, <1>Launch,
       <1>SendTerm, <1>SendKill, <1>p, Kinds, Zenon

\* The ledger's invariant holds of the whole specification: crashes, a spawn that
\* fails half-way and a late start receipt included.
LEMMA LedgerAlways == Spec => []LedgerInv
  BY InitLedger, LedgerStep, PTL DEF Spec

\* Every reachable state is well typed, whatever faults the instance allows.
THEOREM TypeCorrect == Spec => []TypeOK
  <1>1. LedgerInv => TypeOK BY Zenon DEF LedgerInv
  <1> QED BY <1>1, LedgerAlways, PTL

\* An attempt beyond the first is always the retry of an infrastructure failure
\* decided by _terminalize_*, and the third is the last one, under every fault.
THEOREM RetriesAlwaysJustified == Spec => []RetriesJustified
  <1>1. LedgerInv => RetriesJustified BY Zenon DEF LedgerInv
  <1> QED BY <1>1, LedgerAlways, PTL

\* In the ledger, RUNNING leases never share a GPU and one of an exclusive timing
\* class is alone, under every fault: what _select_dispatch sees is enough.
THEOREM RunningRowsApart == Spec => []RunningApart
  <1>1. LedgerInv => RunningApart BY Zenon DEF LedgerInv
  <1> QED BY <1>1, LedgerAlways, PTL

----------------------------------------------------------------------------
(* The processes.                                                          *)

\* What ReceiptFirst says of one lease's processes.
ReceiptOk(p) ==
  ~p.start => /\ p.wrapper \in {"none", "launched", "dead"} /\ p.child = "none"
              /\ p.server = "none" /\ ~p.exit

\* The verdict on record and the one its evidence asks for.
Judged(k) == IF row[k].status = "COMPLETE" THEN "COMPLETE" ELSE row[k].fail
Evidence(k) ==
  IF proc[LeaseOf(k)].exit /\ Published(LeaseOf(k)) THEN result[k] ELSE "INFRASTRUCTURE"

LEMMA VerdictForm ==
  VerdictMatchesEvidence <=>
    \A k \in Keys : row[k].status \in {"COMPLETE", "FAILED"} => Judged(k) = Evidence(k)
  BY Zenon DEF VerdictMatchesEvidence, Judged, Evidence

\* Every attempt belongs to one lease.
LEMMA LeaseOfFacts ==
  ASSUME NEW k \in Keys
  PROVE  /\ LeaseOf(k) \in Leases /\ k \in Members(LeaseOf(k))
         /\ \A l \in Leases : k \in Members(l) => LeaseOf(k) = l
  <1>1. LeaseOf(k) \in Leases /\ k \in Members(LeaseOf(k))
    <2>1. CASE InGroup(k)
      <3>1. k[1] \in Group /\ k[2] = 1 /\ k = <<k[1], k[2]>> /\ 1 \in Attempts BY <2>1 DEF InGroup, Keys
      <3> DEFINE l == <<Leader, 1>>
      <3>2. LeaseOf(k) = l BY <2>1, Zenon DEF LeaseOf
      <3>3. Leader \in Group /\ Leader \in Cells BY <3>1, OperatorAssumption, Zenon
      <3>4. l \in Keys /\ l[1] = Leader /\ InGroup(l) BY <3>1, <3>3, Zenon DEF Keys, InGroup
      <3>5. l \in Leases BY <3>4, Zenon DEF Leases
      <3>6. Members(l) = {<<c, 1>> : c \in Group} BY <3>4, Zenon DEF Members
      <3> QED BY <3>1, <3>2, <3>5, <3>6, Zenon
    <2>2. CASE ~InGroup(k) BY <2>2, Zenon DEF LeaseOf, Leases, Members
    <2> QED BY <2>1, <2>2, Zenon
  <1> QED BY <1>1, MembersFacts, Zenon

\* What stands when the processes and their results do.
LEMMA WorldKept ==
  ASSUME UNCHANGED world
  PROVE  /\ \A l : Live(l)' <=> Live(l)
         /\ \A k : Evidence(k)' = Evidence(k)
         /\ ReceiptFirst' <=> ReceiptFirst
  <1>1. UNCHANGED proc /\ UNCHANGED result BY Zenon DEF world
  <1>2. \A l : Live(l)' <=> Live(l) BY <1>1, Zenon DEF Live, WrapperAlive, ChildAlive, ServerAlive
  <1>3. \A l : Published(l)' <=> Published(l) BY <1>1, Zenon DEF Published
  <1>4. ASSUME NEW k PROVE Evidence(k)' = Evidence(k) BY <1>1, <1>3, Zenon DEF Evidence
  <1>5. ReceiptFirst' <=> ReceiptFirst BY <1>1, Zenon DEF ReceiptFirst
  <1> QED BY <1>2, <1>4, <1>5, Zenon

\* A step that keeps rows and processes.
LEMMA KeepProcesses ==
  ASSUME ProcessInv, RowsKept, UNCHANGED world,
         daemon'.pc \in {"launch", "spawnFailed"} =>
           daemon.pc \in {"launch", "spawnFailed"} /\ daemon'.cur = daemon.cur
  PROVE  ProcessInv'
  <1>1. \A l \in Leases : l \in Keys /\ row'[l].status = row[l].status BY Zenon DEF Leases, RowsKept, RowKept
  <1>2. NoStrayProcess' BY <1>1, WorldKept, Zenon DEF ProcessInv, NoStrayProcess, Running
  <1>3. ReceiptFirst' BY WorldKept, Zenon DEF ProcessInv
  <1>4. ClaimFirst' BY <1>1, Zenon DEF ProcessInv, ClaimFirst, world
  <1>5. LaunchClean'
    <2> SUFFICES ASSUME daemon'.pc \in {"launch", "spawnFailed"}
                 PROVE  ~Live(daemon.cur)' /\ ~(proc[daemon.cur].start)'
      BY Zenon DEF LaunchClean
    <2>1. ~Live(daemon.cur) /\ ~proc[daemon.cur].start BY DEF ProcessInv, LaunchClean
    <2> QED BY <2>1, Zenon DEF world, Live, WrapperAlive, ChildAlive, ServerAlive
  <1>6. VerdictMatchesEvidence'
    <2>1. ASSUME NEW k \in Keys, row'[k].status \in {"COMPLETE", "FAILED"}
          PROVE  Judged(k)' = Evidence(k)'
      <3>1. row'[k].status = row[k].status /\ row'[k].fail = row[k].fail BY Zenon DEF RowsKept, RowKept
      <3>2. Judged(k) = Evidence(k) BY <2>1, <3>1, VerdictForm, Zenon DEF ProcessInv
      <3>3. Judged(k)' = Judged(k) BY <3>1, Zenon DEF Judged
      <3> QED BY <3>2, <3>3, WorldKept, Zenon
    <2>2. (\A k \in Keys : row[k].status \in {"COMPLETE", "FAILED"} => Judged(k) = Evidence(k))'
      BY <2>1, Zenon
    <2> QED BY <2>2, VerdictForm, PTL
  <1> QED BY <1>2, <1>3, <1>4, <1>5, <1>6, Zenon DEF ProcessInv

\* Rows change, processes do not: what is left to show.
LEMMA RowsMove ==
  ASSUME ProcessInv, UNCHANGED world,
         \A l \in Leases : Live(l) => Running(l)',
         \A l \in Leases : row'[l].status \in {"ABSENT", "PENDING"} => row[l].status \in {"ABSENT", "PENDING"},
         daemon'.pc \in {"launch", "spawnFailed"} => ~Live(daemon'.cur) /\ ~proc[daemon'.cur].start,
         \A k \in Keys : row'[k].status \in {"COMPLETE", "FAILED"} =>
           row'[k] = row[k] \/ Judged(k)' = Evidence(k)
  PROVE  ProcessInv'
  <1>1. NoStrayProcess' BY WorldKept, Zenon DEF NoStrayProcess
  <1>2. ReceiptFirst' BY WorldKept, Zenon DEF ProcessInv
  <1>3. ClaimFirst' BY Zenon DEF ProcessInv, ClaimFirst, world
  <1>4. LaunchClean' BY DEF LaunchClean, world, Live, WrapperAlive, ChildAlive, ServerAlive
  <1>5. VerdictMatchesEvidence'
    <2>1. ASSUME NEW k \in Keys, row'[k].status \in {"COMPLETE", "FAILED"}
          PROVE  Judged(k)' = Evidence(k)'
      <3>1. CASE row'[k] = row[k]
        <4>1. Judged(k) = Evidence(k) BY <2>1, <3>1, VerdictForm, Zenon DEF ProcessInv
        <4>2. Judged(k)' = Judged(k) BY <3>1, Zenon DEF Judged
        <4> QED BY <4>1, <4>2, WorldKept, Zenon
      <3>2. CASE Judged(k)' = Evidence(k) BY <3>2, WorldKept, ZenonT(40)
      <3> QED BY <2>1, <3>1, <3>2, Zenon
    <2>2. (\A k \in Keys : row[k].status \in {"COMPLETE", "FAILED"} => Judged(k) = Evidence(k))'
      BY <2>1, ZenonT(40)
    <2> QED BY <2>2, VerdictForm, PTL
  <1> QED BY <1>1, <1>2, <1>3, <1>4, <1>5, Zenon DEF ProcessInv

\* A terminal transaction on a lease whose processes are gone, with the verdict
\* the evidence asks for.
LEMMA FinishProcess ==
  ASSUME LedgerInv, ProcessInv, NEW verdict, TerminalStep(verdict), ~Live(daemon.cur),
         \A k \in Members(daemon.cur) : verdict[k] = Evidence(k)
  PROVE  ProcessInv'
  <1> DEFINE l == daemon.cur
  <1>1. l \in Leases BY Zenon DEF LedgerInv, DaemonListsTrue, TerminalStep
  <1>2. \A k \in Keys \ Members(l) : row'[k] = row[k] BY Zenon DEF TerminalStep, Finish
  <1>3. ASSUME NEW k \in Keys, k \in Members(l)
        PROVE  row'[k].status \in {"COMPLETE", "FAILED"} /\ Judged(k)' = verdict[k]
    <2>1. CASE verdict[k] = "COMPLETE"
      <3>1. row'[k] = [NoRow EXCEPT !.status = "COMPLETE"] BY <1>3, <2>1, Zenon DEF TerminalStep, Finish
      <3>2. row'[k].status = "COMPLETE" BY <3>1, Zenon DEF NoRow
      <3> QED BY <2>1, <3>2, Zenon DEF Judged
    <2>2. CASE verdict[k] # "COMPLETE"
      <3> DEFINE v == verdict[k]
                 r == AutoRetry(l, verdict[k])
      <3>1. row'[k] = [NoRow EXCEPT !.status = "FAILED", !.fail = v, !.retry = r]
        BY <1>3, <2>2, Zenon DEF TerminalStep, Finish
      <3> HIDE DEF v, r
      <3>2. row'[k].status = "FAILED" /\ row'[k].fail = v BY <3>1, Zenon DEF NoRow
      <3> QED BY <3>2, Zenon DEF Judged, v
    <2> QED BY <2>1, <2>2, Zenon
  <1>4. daemon'.pc \notin {"launch", "spawnFailed"} BY Zenon DEF TerminalStep, Holding
  <1>5. UNCHANGED world BY Zenon DEF TerminalStep
  <1>6. ASSUME NEW m \in Leases, Live(m) PROVE Running(m)'
    <2>1. Running(m) /\ m # l BY <1>6, Zenon DEF ProcessInv, NoStrayProcess
    <2>2. m \in Keys \ Members(l) BY <1>1, <2>1, MembersFacts, Zenon DEF Leases
    <2> QED BY <1>2, <2>1, <2>2, Zenon DEF Running
  <1>7. \A m \in Leases : row'[m].status \in {"ABSENT", "PENDING"} => row[m].status \in {"ABSENT", "PENDING"}
    BY <1>2, <1>3, Zenon DEF Leases
  <1>8. \A k \in Keys : row'[k].status \in {"COMPLETE", "FAILED"} =>
          row'[k] = row[k] \/ Judged(k)' = Evidence(k)
    BY <1>2, <1>3, Zenon
  <1> QED BY <1>4, <1>5, <1>6, <1>7, <1>8, RowsMove, Zenon

LEMMA MaterializeProcesses ==
  ASSUME LedgerInv, ProcessInv, MaterializeRetry
  PROVE  ProcessInv'
  <1>1. PICK k \in daemon.owed :
          /\ k[2] < AttemptBound
          /\ row' = [row EXCEPT ![NextAttempt(k)] = Fresh]
          /\ daemon' = [daemon EXCEPT !.pc = "enqueue", !.cur = k, !.owed = @ \ {k}]
    BY Zenon DEF MaterializeRetry
  <1> DEFINE n == NextAttempt(k)
  <1>2. k \in Keys /\ row \in [Keys -> Row] /\ daemon \in Control BY <1>1, Zenon DEF LedgerInv, TypeOK, Control
  <1>3. n \in Keys BY <1>1, <1>2, NextAttemptFacts, Zenon
  <1>4. row[n].status = "ABSENT" BY <1>1, Zenon DEF LedgerInv, DaemonListsTrue, RetryDue
  <1>5. row'[n].status = "PENDING" /\ \A j \in Keys \ {n} : row'[j] = row[j]
    BY <1>1, <1>2, <1>3, Zenon DEF Fresh, NoRow
  <1>6. daemon'.pc = "enqueue" BY <1>1, <1>2, Zenon DEF Control
  <1> HIDE DEF n
  <1>7. \A m \in Leases : Live(m) => Running(m)'
    BY <1>4, <1>5, Zenon DEF ProcessInv, NoStrayProcess, Running, Leases
  <1>8. \A m \in Leases : row'[m].status \in {"ABSENT", "PENDING"} => row[m].status \in {"ABSENT", "PENDING"}
    BY <1>4, <1>5, Zenon DEF Leases
  <1>9. \A j \in Keys : row'[j].status \in {"COMPLETE", "FAILED"} => row'[j] = row[j] BY <1>5, Zenon
  <1>10. UNCHANGED world BY Zenon DEF MaterializeRetry
  <1> QED BY <1>6, <1>7, <1>8, <1>9, <1>10, RowsMove, Zenon

LEMMA ClaimProcesses ==
  ASSUME LedgerInv, ProcessInv, MarkRunning
  PROVE  ProcessInv'
  <1>1. PICK l \in Dispatchable : Claim(l, Assigned(l))
                                /\ daemon' = [daemon EXCEPT !.pc = "launch", !.cur = l]
    BY Zenon DEF MarkRunning
  <1>2. l \in Leases /\ l \in Keys /\ row[l].status = "PENDING" BY <1>1, Zenon DEF Dispatchable, Leases, Eligible
  <1>3. row \in [Keys -> Row] /\ daemon \in Control BY Zenon DEF LedgerInv, TypeOK, Control
  <1>4. \A k \in Members(l) : row[k].status = "PENDING" BY <1>2, Zenon DEF LedgerInv, GroupTogether
  <1>5. /\ \A k \in Members(l) \cap Keys : row'[k].status = "RUNNING"
        /\ \A k \in Keys \ Members(l) : row'[k] = row[k]
    <2>1. ASSUME NEW k \in Keys, k \in Members(l) PROVE row'[k].status = "RUNNING"
      <3>1. row[k] \in Row BY <1>3, Zenon
      <3>2. row'[k] = [row[k] EXCEPT !.status = "RUNNING", !.gpus = Assigned(l)]
        BY <1>1, <2>1, ZenonT(40) DEF Claim
      <3> QED BY <3>1, <3>2, Zenon DEF Row
    <2>2. \A k \in Keys \ Members(l) : row'[k] = row[k] BY <1>1, Zenon DEF Claim
    <2> QED BY <2>1, <2>2, Zenon
  <1>6. daemon'.cur = l BY <1>1, <1>3, Zenon DEF Control
  <1>7. ~Live(l) /\ ~proc[l].start BY <1>2, Zenon DEF ProcessInv, NoStrayProcess, ClaimFirst, Running
  <1>8. \A m \in Leases : Live(m) => Running(m)'
    BY <1>4, <1>5, Zenon DEF ProcessInv, NoStrayProcess, Running, Leases
  <1>9. \A m \in Leases : row'[m].status \in {"ABSENT", "PENDING"} => row[m].status \in {"ABSENT", "PENDING"}
    BY <1>5, Zenon DEF Leases
  <1>10. \A j \in Keys : row'[j].status \in {"COMPLETE", "FAILED"} => row'[j] = row[j] BY <1>5, Zenon
  <1>11. UNCHANGED world BY Zenon DEF MarkRunning
  <1> QED BY <1>6, <1>7, <1>8, <1>9, <1>10, <1>11, RowsMove, Zenon

\* A step of the processes of one RUNNING lease.
LEMMA OneLeaseMoves ==
  ASSUME LedgerInv, ProcessInv, UNCHANGED row, NEW l \in Leases, Running(l),
         \A m \in Leases \ {l} : proc'[m] = proc[m],
         \A k \in Keys \ Members(l) : result'[k] = result[k],
         ReceiptOk(proc'[l]),
         daemon'.pc \in {"launch", "spawnFailed"} =>
           daemon.pc \in {"launch", "spawnFailed"} /\ daemon'.cur = daemon.cur /\ daemon.cur # l
  PROVE  ProcessInv'
  <1>1. \A m \in Leases \ {l} : Live(m)' <=> Live(m) BY Zenon DEF Live, WrapperAlive, ChildAlive, ServerAlive
  <1>2. NoStrayProcess' BY <1>1, Zenon DEF ProcessInv, NoStrayProcess, Running
  <1>3. ReceiptFirst'
    <2>1. \A m \in Leases : ReceiptOk(proc[m]) BY Zenon DEF ProcessInv, ReceiptFirst, ReceiptOk
    <2>2. \A m \in Leases : ReceiptOk(proc'[m]) BY <2>1, Zenon
    <2> QED BY <2>2, ZenonT(40) DEF ReceiptFirst, ReceiptOk
  <1>4. ClaimFirst' BY Zenon DEF ProcessInv, ClaimFirst, Running
  <1>5. LaunchClean'
    <2> SUFFICES ASSUME daemon'.pc \in {"launch", "spawnFailed"}
                 PROVE  ~Live(daemon.cur)' /\ ~(proc[daemon.cur].start)'
      BY Zenon DEF LaunchClean
    <2>1. daemon.cur \in Leases \ {l} BY Zenon DEF LedgerInv, DaemonListsTrue, Holding
    <2>2. ~Live(daemon.cur) /\ ~proc[daemon.cur].start BY Zenon DEF ProcessInv, LaunchClean
    <2>3. proc'[daemon.cur] = proc[daemon.cur] /\ daemon'.cur = daemon.cur BY <2>1, Zenon
    <2> QED BY <2>2, <2>3, Zenon DEF Live, WrapperAlive, ChildAlive, ServerAlive
  <1>6. VerdictMatchesEvidence'
    <2>1. ASSUME NEW k \in Keys, row[k].status \in {"COMPLETE", "FAILED"}
          PROVE  Judged(k)' = Evidence(k)'
      <3> DEFINE m == LeaseOf(k)
      <3>1. m \in Leases /\ k \in Members(m) BY LeaseOfFacts, Zenon
      <3>2. m # l BY <2>1, <3>1, ZenonT(40) DEF LedgerInv, GroupTogether, Running
      <3>3. proc'[m] = proc[m] BY <3>1, <3>2, Zenon
      <3>4. Members(m) \subseteq Keys \ Members(l) BY <3>1, <3>2, MembersFacts, Zenon
      <3>5. \A j \in Members(m) : result'[j] = result[j] BY <3>4, Zenon
      <3>6. Published(m)' <=> Published(m) BY <3>5, Zenon DEF Published
      <3>7. Evidence(k)' = Evidence(k) BY <3>1, <3>3, <3>5, <3>6, ZenonT(40) DEF Evidence
      <3>8. Judged(k)' = Judged(k) BY ZenonT(40) DEF Judged
      <3>9. Judged(k) = Evidence(k) BY <2>1, VerdictForm, Zenon DEF ProcessInv
      <3> QED BY <3>7, <3>8, <3>9, Zenon
    <2>2. (\A k \in Keys : row[k].status \in {"COMPLETE", "FAILED"} => Judged(k) = Evidence(k))'
      BY <2>1, Zenon
    <2> QED BY <2>2, VerdictForm, PTL
  <1> QED BY <1>2, <1>3, <1>4, <1>5, <1>6, Zenon DEF ProcessInv

\* Only a live process tree moves of itself, and it keeps to its receipts.
LEMMA ProcessMoves ==
  ASSUME TypeOK, NEW l \in Leases, ReceiptOk(proc[l]), Process(l)
  PROVE  /\ Live(l)
         /\ \A m \in Leases \ {l} : proc'[m] = proc[m]
         /\ \A k \in Keys \ Members(l) : result'[k] = result[k]
         /\ ReceiptOk(proc'[l])
  <1> DEFINE Tame == /\ \A m \in Leases \ {l} : proc'[m] = proc[m]
                     /\ \A k \in Keys \ Members(l) : result'[k] = result[k]
                     /\ ReceiptOk(proc'[l])
  <1>1. l \in Keys /\ Leases \subseteq Keys /\ proc[l] \in Proc /\ proc \in [Keys -> Proc]
    BY Zenon DEF TypeOK, Leases
  <1>2. Live(l)
    BY Zenon DEF Process, WrapperStarts, SpawnChild, ServerStarts, ServerExits, ChildPublishes, ChildExits,
           ChildSilent, ChildHeard, WrapperExits, WrapperKilled, Live, WrapperAlive, ChildAlive, ServerAlive
  <1>3. ASSUME NEW p, proc' = [proc EXCEPT ![l] = p], ReceiptOk(p), UNCHANGED result PROVE Tame
    BY <1>1, <1>3, Zenon
  <1> HIDE DEF Tame
  <1>WrapperStarts. CASE WrapperStarts(l)
    <2> DEFINE p == [proc[l] EXCEPT !.wrapper = "started", !.start = TRUE]
    <2>1. proc' = [proc EXCEPT ![l] = p] /\ UNCHANGED result BY <1>1, <1>WrapperStarts, Zenon DEF WrapperStarts
    <2>2. ReceiptOk(p)
      BY <1>1, <1>WrapperStarts, Zenon DEF WrapperStarts, Proc, ReceiptOk, WrapperAlive, ChildAlive, ServerAlive
    <2> HIDE DEF p
    <2>3. Tame BY <1>3, <2>1, <2>2, Zenon
    <2> QED BY <1>2, <2>3, Zenon DEF Tame
  <1>SpawnChild. CASE SpawnChild(l)
    <2> DEFINE p == [proc[l] EXCEPT !.wrapper = "waiting", !.child = "live"]
    <2>1. proc' = [proc EXCEPT ![l] = p] /\ UNCHANGED result BY <1>1, <1>SpawnChild, Zenon DEF SpawnChild
    <2>2. ReceiptOk(p)
      BY <1>1, <1>SpawnChild, Zenon DEF SpawnChild, Proc, ReceiptOk, WrapperAlive, ChildAlive, ServerAlive
    <2> HIDE DEF p
    <2>3. Tame BY <1>3, <2>1, <2>2
    <2> QED BY <1>2, <2>3 DEF Tame
  <1>ServerStarts. CASE ServerStarts(l)
    <2> DEFINE p == [proc[l] EXCEPT !.server = "live"]
    <2>1. proc' = [proc EXCEPT ![l] = p] /\ UNCHANGED result BY <1>1, <1>ServerStarts DEF ServerStarts
    <2>2. ReceiptOk(p)
      BY <1>1, <1>ServerStarts DEF ServerStarts, Proc, ReceiptOk, WrapperAlive, ChildAlive, ServerAlive
    <2> HIDE DEF p
    <2>3. Tame BY <1>3, <2>1, <2>2
    <2> QED BY <1>2, <2>3 DEF Tame
  <1>ServerExits. CASE ServerExits(l)
    <2> DEFINE p == [proc[l] EXCEPT !.server = "dead"]
    <2>1. proc' = [proc EXCEPT ![l] = p] /\ UNCHANGED result BY <1>1, <1>ServerExits DEF ServerExits
    <2>2. ReceiptOk(p)
      BY <1>1, <1>ServerExits DEF ServerExits, Proc, ReceiptOk, WrapperAlive, ChildAlive, ServerAlive
    <2> HIDE DEF p
    <2>3. Tame BY <1>3, <2>1, <2>2
    <2> QED BY <1>2, <2>3 DEF Tame
  <1>ChildExits. CASE ChildExits(l)
    <2> DEFINE p == [proc[l] EXCEPT !.child = "dead"]
    <2>1. proc' = [proc EXCEPT ![l] = p] /\ UNCHANGED result BY <1>1, <1>ChildExits, Zenon DEF ChildExits
    <2>2. ReceiptOk(p)
      BY <1>1, <1>ChildExits, Zenon DEF ChildExits, Proc, ReceiptOk, WrapperAlive, ChildAlive, ServerAlive
    <2> HIDE DEF p
    <2>3. Tame BY <1>3, <2>1, <2>2
    <2> QED BY <1>2, <2>3 DEF Tame
  <1>ChildSilent. CASE ChildSilent(l)
    <2> DEFINE p == [proc[l] EXCEPT !.child = "silent"]
    <2>1. proc' = [proc EXCEPT ![l] = p] /\ UNCHANGED result BY <1>1, <1>ChildSilent, Zenon DEF ChildSilent
    <2>2. ReceiptOk(p)
      BY <1>1, <1>ChildSilent, Zenon DEF ChildSilent, Proc, ReceiptOk, WrapperAlive, ChildAlive, ServerAlive
    <2> HIDE DEF p
    <2>3. Tame BY <1>3, <2>1, <2>2
    <2> QED BY <1>2, <2>3 DEF Tame
  <1>ChildHeard. CASE ChildHeard(l)
    <2> DEFINE p == [proc[l] EXCEPT !.child = "live"]
    <2>1. proc' = [proc EXCEPT ![l] = p] /\ UNCHANGED result BY <1>1, <1>ChildHeard, Zenon DEF ChildHeard
    <2>2. ReceiptOk(p)
      BY <1>1, <1>ChildHeard, Zenon DEF ChildHeard, Proc, ReceiptOk, WrapperAlive, ChildAlive, ServerAlive
    <2> HIDE DEF p
    <2>3. Tame BY <1>3, <2>1, <2>2
    <2> QED BY <1>2, <2>3 DEF Tame
  <1>WrapperExits. CASE WrapperExits(l)
    <2> DEFINE p == [proc[l] EXCEPT !.wrapper = "dead", !.exit = TRUE]
    <2>1. proc' = [proc EXCEPT ![l] = p] /\ UNCHANGED result BY <1>1, <1>WrapperExits, Zenon DEF WrapperExits
    <2>2. ReceiptOk(p)
      BY <1>1, <1>WrapperExits, Zenon DEF WrapperExits, Proc, ReceiptOk, WrapperAlive, ChildAlive, ServerAlive
    <2> HIDE DEF p
    <2>3. Tame BY <1>3, <2>1, <2>2
    <2> QED BY <1>2, <2>3 DEF Tame
  <1>WrapperKilled. CASE WrapperKilled(l)
    <2> DEFINE p == [proc[l] EXCEPT !.wrapper = "dead"]
    <2>1. proc' = [proc EXCEPT ![l] = p] /\ UNCHANGED result BY <1>1, <1>WrapperKilled, Zenon DEF WrapperKilled
    <2>2. ReceiptOk(p)
      BY <1>1, <1>WrapperKilled, Zenon DEF WrapperKilled, Proc, ReceiptOk, WrapperAlive, ChildAlive, ServerAlive
    <2> HIDE DEF p
    <2>3. Tame BY <1>3, <2>1, <2>2
    <2> QED BY <1>2, <2>3 DEF Tame
  <1>ChildPublishes. CASE ChildPublishes(l)
    <2>1. UNCHANGED proc /\ \A k \in Keys \ Members(l) : result'[k] = result[k]
      BY <1>ChildPublishes, Zenon DEF ChildPublishes
    <2> QED BY <1>2, <2>1, Zenon
  <1> QED
    BY <1>WrapperStarts, <1>SpawnChild, <1>ServerStarts, <1>ServerExits, <1>ChildExits,
       <1>ChildSilent, <1>ChildHeard, <1>WrapperExits, <1>WrapperKilled,
       <1>ChildPublishes, ZenonT(40) DEF Process

LEMMA InitProcesses == Init => ProcessInv
  <1> SUFFICES ASSUME Init PROVE ProcessInv OBVIOUS
  <1>1. \A l \in Leases : l \in Keys /\ proc[l] = NoProc BY Zenon DEF Init, Leases
  <1>2. ASSUME NEW l \in Leases PROVE ~Live(l) /\ ~proc[l].start /\ ReceiptOk(proc[l])
    <2>1. /\ proc[l].wrapper = "none" /\ proc[l].child = "none" /\ proc[l].server = "none"
          /\ ~proc[l].start /\ ~proc[l].exit
      BY <1>1 DEF NoProc
    <2> QED BY <2>1, Zenon DEF ReceiptOk, Live, WrapperAlive, ChildAlive, ServerAlive
  <1>3. LaunchClean BY Zenon DEF Init, LaunchClean
  <1>4. \A k \in Keys : row[k].status \in {"PENDING", "ABSENT"} BY Zenon DEF Init, NoRow, Fresh
  <1>5. VerdictMatchesEvidence BY <1>4, Zenon DEF VerdictMatchesEvidence
  <1>6. NoStrayProcess /\ ClaimFirst BY <1>2, Zenon DEF NoStrayProcess, ClaimFirst
  <1>7. ReceiptFirst BY <1>2, Zenon DEF ReceiptFirst, ReceiptOk
  <1> QED BY <1>3, <1>5, <1>6, <1>7, Zenon DEF ProcessInv

\* A sealed lease is one with an exit receipt and a result for every member.
LEMMA SealedIsEvidence ==
  ASSUME NEW l PROVE Validation(l) = "sealed" <=> proc[l].exit /\ Published(l)
  BY Zenon DEF Validation

\* Every step keeps the invariant of the processes when none appears behind the
\* daemon's back: attaching never fails after a spawn, no start receipt is late.
LEMMA ProcessStep ==
  ASSUME LedgerInv, ProcessInv, [Next]_vars, "attach" \notin Faults, "late" \notin Faults
  PROVE  ProcessInv'
  <1>t. TypeOK BY Zenon DEF LedgerInv
  <1>d. daemon \in Control BY <1>t, Zenon DEF TypeOK
  <1>w. proc \in [Keys -> Proc] BY <1>t, Zenon DEF TypeOK
  <1>c. daemon.pc \in Holding =>
          /\ daemon.cur \in Leases /\ daemon.cur \in Keys /\ Running(daemon.cur)
          /\ \A k \in Members(daemon.cur) : k \in Keys /\ LeaseOf(k) = daemon.cur
    BY MembersFacts, LeaseOfFacts, Zenon DEF LedgerInv, DaemonListsTrue
  <1>r. \A l \in Leases : ReceiptOk(proc[l]) BY Zenon DEF ProcessInv, ReceiptFirst, ReceiptOk
  <1>g. ASSUME NEW pc, Goto(pc) PROVE daemon'.pc = pc BY <1>d, <1>g, Zenon DEF Goto, Control
  <1>i. ASSUME TerminalStep(Infra(daemon.cur)), ~Live(daemon.cur),
               ~(proc[daemon.cur].exit /\ Published(daemon.cur))
        PROVE  ProcessInv'
    <2>1. daemon.pc \in Holding BY <1>i, Zenon DEF TerminalStep
    <2>2. \A k \in Members(daemon.cur) : Infra(daemon.cur)[k] = Evidence(k)
      BY <1>c, <1>i, <2>1, Zenon DEF Infra, Evidence
    <2> QED BY <1>i, <2>2, FinishProcess, Zenon
  <1>q. CASE Quiet
    <2>1. daemon'.pc \in {"launch", "spawnFailed"} =>
            daemon.pc \in {"launch", "spawnFailed"} /\ daemon'.cur = daemon.cur
      BY <1>q, Zenon DEF Quiet, Settled, Unspawned, Holding
    <2> QED BY <1>q, <2>1, KeepProcesses, Zenon DEF Quiet
  <1>BeginCycle. CASE BeginCycle
    <2>1. daemon'.pc = "next" BY <1>d, <1>BeginCycle, Zenon DEF BeginCycle, Control
    <2>2. RowsKept BY <1>t, <1>BeginCycle, WritesKeepRows, Zenon DEF BeginCycle, ledger
    <2> QED BY <1>BeginCycle, <2>1, <2>2, KeepProcesses, Zenon DEF BeginCycle
  <1>NextLease. CASE NextLease
    <2>1. daemon'.pc \notin {"launch", "spawnFailed"}
      BY <1>d, <1>NextLease, ZenonT(40) DEF NextLease, Goto, Control
    <2>2. RowsKept BY <1>t, <1>NextLease, WritesKeepRows, Zenon DEF NextLease, ledger
    <2> QED BY <1>NextLease, <2>1, <2>2, KeepProcesses, ZenonT(40) DEF NextLease
  <1>MaterializeRetry. CASE MaterializeRetry BY <1>MaterializeRetry, MaterializeProcesses, Zenon
  <1>MarkRunning. CASE MarkRunning BY <1>MarkRunning, ClaimProcesses, Zenon
  <1>StartNotPublished. CASE StartNotPublished
    <2> DEFINE l == daemon.cur
    <2>1. TerminalStep(Infra(l)) BY <1>t, <1>StartNotPublished, TerminalCases, Zenon
    <2>2. l \in Leases BY <1>c, <2>1, Zenon DEF TerminalStep
    <2>3. ~proc[l].start /\ proc[l].wrapper # "launched" BY <1>StartNotPublished, Zenon DEF StartNotPublished, Fault
    <2>4. ~Live(l) /\ ~proc[l].exit
      BY <1>r, <2>2, <2>3, Zenon DEF ReceiptOk, Live, WrapperAlive, ChildAlive, ServerAlive
    <2> QED BY <1>i, <2>1, <2>4, Zenon
  <1>SpawnFailed. CASE SpawnFailed
    <2> DEFINE l == daemon.cur
    <2>1. TerminalStep(Infra(l)) BY <1>t, <1>SpawnFailed, TerminalCases, Zenon
    <2>2. l \in Leases BY <1>c, <2>1 DEF TerminalStep
    <2>3. ~Live(l) /\ ~proc[l].start BY <1>SpawnFailed, Zenon DEF SpawnFailed, At, ProcessInv, LaunchClean
    <2>4. ~proc[l].exit BY <1>r, <2>2, <2>3, Zenon DEF ReceiptOk
    <2> QED BY <1>i, <2>1, <2>3, <2>4, Zenon
  <1>Terminalize. CASE Terminalize
    <2> DEFINE l == daemon.cur
               verdict == [k \in Members(l) |-> result[k]]
    <2>1. ~Live(l) /\ daemon.pc \in Holding
      BY <1>Terminalize, Zenon DEF Terminalize, Gone, Live, At, Holding
    <2>2. ASSUME Validation(l) = "sealed", TerminalStep(verdict) PROVE ProcessInv'
      <3>1. proc[l].exit /\ Published(l) BY <2>2, SealedIsEvidence, Zenon
      <3>2. \A k \in Members(l) : verdict[k] = Evidence(k) BY <1>c, <2>1, <3>1, ZenonT(40) DEF Evidence
      <3> HIDE DEF verdict
      <3> QED BY <2>1, <2>2, <3>2, FinishProcess, Zenon
    <2>3. ASSUME Validation(l) # "sealed", TerminalStep(Infra(l)) PROVE ProcessInv'
      BY <1>i, <2>1, <2>3, SealedIsEvidence, Zenon
    <2> QED BY <1>q, <1>t, <1>Terminalize, <2>2, <2>3, TerminalCases, Zenon
  <1>AttachFails. CASE AttachFails BY <1>AttachFails, Zenon DEF AttachFails, Fault
  <1>e. ASSUME NEW p, proc' = [proc EXCEPT ![daemon.cur] = p], ReceiptOk(p), UNCHANGED <<row, result>>,
               daemon.pc \in Holding, daemon'.pc \notin {"launch", "spawnFailed"}
        PROVE  ProcessInv'
    <2>1. daemon.cur \in Leases /\ daemon.cur \in Keys /\ Running(daemon.cur) BY <1>c, <1>e, Zenon
    <2>2. proc'[daemon.cur] = p /\ \A m \in Leases \ {daemon.cur} : proc'[m] = proc[m]
      BY <1>w, <1>e, <2>1, Zenon DEF Leases
    <2> QED BY <1>e, <2>1, <2>2, OneLeaseMoves, Zenon
  <1>Launch. CASE Launch
    <2> DEFINE l == daemon.cur
               p == [proc[l] EXCEPT !.wrapper = "launched"]
    <2>1. daemon.pc \in Holding /\ UNCHANGED <<row, result>> /\ daemon'.pc = "attach"
      BY <1>g, <1>Launch, Zenon DEF Launch, At, Holding, ledger
    <2>2. l \in Leases /\ proc[l] \in Proc BY <1>c, <1>w, <2>1, Zenon
    <2>3. ReceiptOk(p) BY <1>r, <2>2, Zenon DEF ReceiptOk, Proc
    <2>4. proc' = [proc EXCEPT ![l] = p] BY <1>Launch, Zenon DEF Launch
    <2> HIDE DEF p
    <2> QED BY <1>e, <2>1, <2>3, <2>4, Zenon
  <1>SendTerm. CASE SendTerm
    <2> DEFINE l == daemon.cur
               p == IF proc[l].wrapper = "started" THEN [proc[l] EXCEPT !.wrapper = "dead"] ELSE proc[l]
    <2>1. daemon.pc \in Holding /\ UNCHANGED <<row, result>> /\ daemon'.pc = "recordTerm"
      BY <1>g, <1>SendTerm, Zenon DEF SendTerm, At, Holding, ledger
    <2>2. l \in Leases /\ l \in Keys /\ proc[l] \in Proc BY <1>c, <1>w, <2>1, Zenon
    <2>3. ReceiptOk(p) BY <1>r, <2>2, Zenon DEF ReceiptOk, Proc
    <2>4. proc' = [proc EXCEPT ![l] = p] BY <1>w, <2>2, <1>SendTerm, Zenon DEF SendTerm
    <2> HIDE DEF p
    <2> QED BY <1>e, <2>1, <2>3, <2>4, Zenon
  <1>SendKill. CASE SendKill
    <2> DEFINE l == daemon.cur
    <2>1. daemon.pc \in Holding /\ UNCHANGED <<row, result>> /\ daemon'.pc = "recordKill"
      BY <1>g, <1>SendKill, Zenon DEF SendKill, At, Holding, ledger
    <2>2. l \in Leases /\ proc[l] \in Proc BY <1>c, <1>w, <2>1, Zenon
    <2>3. /\ Killed(l).start = proc[l].start /\ Killed(l).exit = proc[l].exit
          /\ Killed(l).wrapper = proc[l].wrapper \/ Killed(l).wrapper = "dead"
          /\ proc[l].child = "none" => Killed(l).child = "none"
          /\ proc[l].server = "none" => Killed(l).server = "none"
      BY <2>2, Zenon DEF Killed, Proc, ChildAlive, ServerAlive
    <2>4. ReceiptOk(Killed(l)) BY <1>r, <2>2, <2>3, Zenon DEF ReceiptOk
    <2>5. proc' = [proc EXCEPT ![l] = Killed(l)] BY <1>SendKill, Zenon DEF SendKill
    <2> QED BY <1>e, <2>1, <2>4, <2>5, Zenon
  <1>p. ASSUME NEW l \in Leases, Process(l) PROVE ProcessInv'
    <2>1. UNCHANGED row /\ UNCHANGED daemon BY <1>p, ProcessKeeps, Zenon
    <2>2. /\ Live(l) /\ \A m \in Leases \ {l} : proc'[m] = proc[m]
          /\ \A k \in Keys \ Members(l) : result'[k] = result[k]
          /\ ReceiptOk(proc'[l])
      BY <1>t, <1>r, <1>p, ProcessMoves, ZenonT(40)
    <2>3. Running(l) BY <2>2, ZenonT(40) DEF ProcessInv, NoStrayProcess
    <2>4. daemon.pc \in {"launch", "spawnFailed"} => daemon.cur # l BY <2>2, Zenon DEF ProcessInv, LaunchClean
    <2> QED BY <2>1, <2>2, <2>3, <2>4, OneLeaseMoves, Zenon
  <1> QED
    BY <1>t, <1>q, <1>BeginCycle, <1>NextLease, <1>MaterializeRetry, <1>MarkRunning,
       <1>StartNotPublished, <1>SpawnFailed, <1>Terminalize, <1>AttachFails, <1>Launch,
       <1>SendTerm, <1>SendKill, <1>p, Kinds, Zenon

LEMMA InvariantAlways ==
  ASSUME "attach" \notin Faults, "late" \notin Faults
  PROVE  Spec => []IInv
  <1>1. Init => IInv BY InitLedger, InitProcesses, Zenon DEF IInv
  <1>2. IInv /\ [Next]_vars => IInv' BY LedgerStep, ProcessStep, Zenon DEF IInv
  <1> QED BY <1>1, <1>2, PTL DEF Spec

\* For every number of cells, GPUs, attempts and crashes: while no attach fails
\* after a spawn and no start receipt comes late, no process outlives its RUNNING
\* row, whatever the daemon missed (_reconcile_running, send_kill).
THEOREM ProcessesAccountedFor ==
  ASSUME "attach" \notin Faults, "late" \notin Faults
  PROVE  Spec => []NoStrayProcess
  <1>1. IInv => NoStrayProcess BY Zenon DEF IInv, ProcessInv
  <1> QED BY <1>1, InvariantAlways, PTL

\* Under the same two conditions two live process trees never share a GPU, and
\* one of an exclusive timing class is alone on the host (_select_dispatch).
THEOREM GpusExclusive ==
  ASSUME "attach" \notin Faults, "late" \notin Faults
  PROVE  Spec => []ExclusiveGpus
  <1>1. IInv => ExclusiveGpus
    BY Zenon DEF IInv, LedgerInv, ProcessInv, NoStrayProcess, RunningApart, ExclusiveGpus
  <1> QED BY <1>1, InvariantAlways, PTL

\* Under the same two conditions the verdict on a finished attempt is the sealed
\* result of its worker where there is one, and an infrastructure failure where
\* there is not (_reconcile_running, _terminalize_forced_termination).
THEOREM VerdictsMatchEvidence ==
  ASSUME "attach" \notin Faults, "late" \notin Faults
  PROVE  Spec => []VerdictMatchesEvidence
  <1>1. IInv => VerdictMatchesEvidence BY DEF IInv, ProcessInv
  <1> QED BY <1>1, InvariantAlways, PTL
============================================================================
