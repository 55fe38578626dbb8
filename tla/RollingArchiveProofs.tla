------------------------ MODULE RollingArchiveProofs ------------------------
(***************************************************************************)
(* What the rolling archive guarantees for every tree, every number of     *)
(* deletion processes and every bound on faults.                           *)
(*                                                                         *)
(* IInv is taken apart: one lemma for each of its conjuncts, one step of   *)
(* the lemma for each action.                                              *)
(***************************************************************************)
EXTENDS RollingArchive, TLAPS

\* Every step keeps the types.  AbsentKnown gives the file that EvictRecord
\* records.
LEMMA TypeStep == ASSUME TypeOK, AbsentKnown, [Next]_vars PROVE TypeOK'
<1> USE RetainedAssumption, BoundAssumption, NoneAssumption
<1> USE DEF TypeOK, AbsentKnown, Receipt, States, Fault, Goto, Fail, host,
        deletion, local, session, operator
<1>1. CASE Poll
  BY <1>1 DEF Poll
<1>2. CASE Prepare
  BY <1>2 DEF Prepare
<1>3. CASE PrepareFails
  BY <1>3 DEF PrepareFails
<1>4. CASE Register
  BY <1>4 DEF Register
<1>5. CASE Transfer
  BY <1>5 DEF Transfer
<1>6. CASE TransferFails
  BY <1>6 DEF TransferFails
<1>7. CASE VerifyLocalSha
  BY <1>7 DEF VerifyLocalSha
<1>8. CASE Rehydrate
  BY <1>8 DEF Rehydrate
<1>9. CASE StepFails
  BY <1>9 DEF StepFails
<1>10. CASE RecordStep
  BY <1>10 DEF RecordStep
<1>11. CASE Authorize
  BY <1>11 DEF Authorize
<1>12. CASE PublishResult
  BY <1>12 DEF PublishResult
<1>13. CASE StageChain
  BY <1>13 DEF StageChain
<1>14. CASE PublishIndex
  BY <1>14 DEF PublishIndex
<1>15. CASE RestoreBegin
  BY <1>15 DEF RestoreBegin
<1>16. CASE RestoreMemberFails
  BY <1>16 DEF RestoreMemberFails
<1>17. CASE FinalizeRestore
  BY <1>17 DEF FinalizeRestore
<1>18. CASE FinalizeFails
  BY <1>18 DEF FinalizeFails
<1>19. CASE PublishRestoreIndex
  BY <1>19 DEF PublishRestoreIndex
<1>20. CASE Abort
  <2>1. /\ stop' \in BOOLEAN
        /\ companion' = "idle" /\ asked' = None /\ todo' = {}
    BY <1>20 DEF Abort
  <2>2. faults' \in 0..MaxFaults /\ resumes' \in 0..MaxResumes
    BY <1>20 DEF Abort
  <2>3. UNCHANGED << remote, checkpoint, host, deletion, local, running, resumes >>
    BY <1>20 DEF Abort
  <2> QED
    BY <2>1, <2>2, <2>3
<1>21. CASE AttemptStarts
  BY <1>21 DEF AttemptStarts
<1>22. CASE AttemptEnds
  <2>1. running' \in BOOLEAN
    BY <1>22 DEF AttemptEnds
  <2>2. faults' \in 0..MaxFaults /\ resumes' \in 0..MaxResumes
    BY <1>22 DEF AttemptEnds
  <2>3. UNCHANGED << remote, checkpoint, host, deletion, local, session, stop, resumes, faults >>
    BY <1>22 DEF AttemptEnds
  <2> QED
    BY <2>1, <2>2, <2>3
<1>23. CASE OperatorResumes
  <2>1. stop' \in BOOLEAN
    BY <1>23 DEF OperatorResumes
  <2>2. faults' \in 0..MaxFaults /\ resumes' \in 0..MaxResumes
    BY <1>23 DEF OperatorResumes
  <2>3. UNCHANGED << remote, checkpoint, host, deletion, local, session, running, faults >>
    BY <1>23 DEF OperatorResumes
  <2> QED
    BY <2>1, <2>2, <2>3
<1>24. ASSUME NEW e \in Evictors, CallEvict(e) PROVE TypeOK'
  BY <1>24 DEF CallEvict
<1>25. ASSUME NEW e \in Evictors, ManualEvict(e) PROVE TypeOK'
  BY <1>25 DEF ManualEvict
<1>26. ASSUME NEW e \in Evictors, EvictorDies(e) PROVE TypeOK'
  BY <1>26 DEF EvictorDies, Ends, Waits, FailsWaiting
<1>27. ASSUME NEW e \in Evictors, EvictStop(e) PROVE TypeOK'
  BY <1>27 DEF EvictStop
<1>28. ASSUME NEW e \in Evictors, EvictPlan(e) PROVE TypeOK'
  BY <1>28 DEF EvictPlan
<1>29. ASSUME NEW e \in Evictors, EvictPlanRefused(e) PROVE TypeOK'
  BY <1>29 DEF EvictPlanRefused, Ends, Waits, FailsWaiting
<1>30. ASSUME NEW e \in Evictors, EvictLocked(e) PROVE TypeOK'
  BY <1>30 DEF EvictLocked, Ends, Waits, FailsWaiting
<1>31. ASSUME NEW e \in Evictors, EvictReplay(e) PROVE TypeOK'
  BY <1>31 DEF EvictReplay, Ends, Waits, FailsWaiting
<1>32. ASSUME NEW e \in Evictors, EvictEnter(e) PROVE TypeOK'
  BY <1>32 DEF EvictEnter
<1>33. ASSUME NEW e \in Evictors, EvictEnterFails(e) PROVE TypeOK'
  <2>1. receipt' \in Receipt
    BY <1>33 DEF EvictEnterFails, Failed, Absent
  <2> HIDE DEF Receipt
  <2> QED
    BY <1>33, <2>1 DEF EvictEnterFails, Ends, Waits
<1>34. ASSUME NEW e \in Evictors, EvictRecord(e) PROVE TypeOK'
  BY <1>34 DEF EvictRecord
<1>35. ASSUME NEW e \in Evictors, EvictFileFails(e) PROVE TypeOK'
  <2>1. receipt' \in Receipt
    BY <1>35 DEF EvictFileFails, Failed, Absent
  <2> HIDE DEF Receipt
  <2> QED
    BY <1>35, <2>1 DEF EvictFileFails, Ends, Waits
<1>36. ASSUME NEW e \in Evictors, EvictComplete(e) PROVE TypeOK'
  <2>1. receipt' \in Receipt
    BY <1>36 DEF EvictComplete, Failed, Absent
  <2> HIDE DEF Receipt
  <2> QED
    BY <1>36, <2>1 DEF EvictComplete, Ends, Waits
<1>37. ASSUME NEW f \in Files, RestoreMember(f) PROVE TypeOK'
  BY <1>37 DEF RestoreMember
<1>38. ASSUME NEW f \in Files, LocalDamage(f) PROVE TypeOK'
  BY <1>38 DEF LocalDamage
<1>39. ASSUME NEW f \in Files, ForeignWrite(f) PROVE TypeOK'
  BY <1>39 DEF ForeignWrite
<1>40. ASSUME NEW e \in Evictors, NEW f \in Files, EvictFile(e, f)
      PROVE  TypeOK'
  BY <1>40 DEF EvictFile
<1>41. CASE UNCHANGED vars
  BY <1>41 DEF vars
<1> HIDE DEF TypeOK, AbsentKnown, Receipt, States, Fault, Goto, Fail, host,
        deletion, local, session, operator
<1> QED
  BY <1>1, <1>2, <1>3, <1>4, <1>5, <1>6, <1>7, <1>8, <1>9, <1>10,
     <1>11, <1>12, <1>13, <1>14, <1>15, <1>16, <1>17, <1>18, <1>19,
     <1>20, <1>21, <1>22, <1>23, <1>24, <1>25, <1>26, <1>27, <1>28,
     <1>29, <1>30, <1>31, <1>32, <1>33, <1>34, <1>35, <1>36, <1>37,
     <1>38, <1>39, <1>40, <1>41
     DEF Next, Archiving, Restoring, Environment, Evicting

\* A checkpoint state is recorded after the step it stands for, and the copy
\* is not touched once rehydrate has read it.
LEMMA CopyStep == ASSUME TypeOK, CopyVerified, [Next]_vars PROVE CopyVerified'
<1> USE DEF TypeOK, CopyVerified, States, Fault, Goto, Fail, host, deletion,
        local, session, operator
<1>1. CASE Poll
  BY <1>1 DEF Poll
<1>2. CASE Prepare
  BY <1>2 DEF Prepare
<1>3. CASE PrepareFails
  BY <1>3 DEF PrepareFails
<1>4. CASE Register
  BY <1>4 DEF Register
<1>5. CASE Transfer
  BY <1>5 DEF Transfer
<1>6. CASE TransferFails
  BY <1>6 DEF TransferFails
<1>7. CASE VerifyLocalSha
  BY <1>7 DEF VerifyLocalSha
<1>8. CASE Rehydrate
  BY <1>8 DEF Rehydrate
<1>9. CASE StepFails
  BY <1>9 DEF StepFails
<1>10. CASE RecordStep
  BY <1>10 DEF RecordStep
<1>11. CASE Authorize
  BY <1>11 DEF Authorize
<1>12. CASE PublishResult
  BY <1>12 DEF PublishResult
<1>13. CASE StageChain
  BY <1>13 DEF StageChain
<1>14. CASE PublishIndex
  BY <1>14 DEF PublishIndex
<1>15. CASE RestoreBegin
  BY <1>15 DEF RestoreBegin
<1>16. CASE RestoreMemberFails
  BY <1>16 DEF RestoreMemberFails
<1>17. CASE FinalizeRestore
  BY <1>17 DEF FinalizeRestore
<1>18. CASE FinalizeFails
  BY <1>18 DEF FinalizeFails
<1>19. CASE PublishRestoreIndex
  BY <1>19 DEF PublishRestoreIndex
<1>20. CASE Abort
  BY <1>20 DEF Abort
<1>21. CASE AttemptStarts
  BY <1>21 DEF AttemptStarts
<1>22. CASE AttemptEnds
  BY <1>22 DEF AttemptEnds
<1>23. CASE OperatorResumes
  BY <1>23 DEF OperatorResumes
<1>24. ASSUME NEW e \in Evictors, CallEvict(e) PROVE CopyVerified'
  BY <1>24 DEF CallEvict
<1>25. ASSUME NEW e \in Evictors, ManualEvict(e) PROVE CopyVerified'
  BY <1>25 DEF ManualEvict
<1>26. ASSUME NEW e \in Evictors, EvictorDies(e) PROVE CopyVerified'
  BY <1>26 DEF EvictorDies, Ends, Waits, FailsWaiting
<1>27. ASSUME NEW e \in Evictors, EvictStop(e) PROVE CopyVerified'
  BY <1>27 DEF EvictStop
<1>28. ASSUME NEW e \in Evictors, EvictPlan(e) PROVE CopyVerified'
  BY <1>28 DEF EvictPlan
<1>29. ASSUME NEW e \in Evictors, EvictPlanRefused(e) PROVE CopyVerified'
  BY <1>29 DEF EvictPlanRefused, Ends, Waits, FailsWaiting
<1>30. ASSUME NEW e \in Evictors, EvictLocked(e) PROVE CopyVerified'
  BY <1>30 DEF EvictLocked, Ends, Waits, FailsWaiting
<1>31. ASSUME NEW e \in Evictors, EvictReplay(e) PROVE CopyVerified'
  BY <1>31 DEF EvictReplay, Ends, Waits, FailsWaiting
<1>32. ASSUME NEW e \in Evictors, EvictEnter(e) PROVE CopyVerified'
  BY <1>32 DEF EvictEnter
<1>33. ASSUME NEW e \in Evictors, EvictEnterFails(e) PROVE CopyVerified'
  BY <1>33 DEF EvictEnterFails, Ends, Waits, FailsWaiting
<1>34. ASSUME NEW e \in Evictors, EvictRecord(e) PROVE CopyVerified'
  BY <1>34 DEF EvictRecord
<1>35. ASSUME NEW e \in Evictors, EvictFileFails(e) PROVE CopyVerified'
  BY <1>35 DEF EvictFileFails, Ends, Waits, FailsWaiting
<1>36. ASSUME NEW e \in Evictors, EvictComplete(e) PROVE CopyVerified'
  BY <1>36 DEF EvictComplete, Ends, Waits, FailsWaiting
<1>37. ASSUME NEW f \in Files, RestoreMember(f) PROVE CopyVerified'
  BY <1>37 DEF RestoreMember
<1>38. ASSUME NEW f \in Files, LocalDamage(f) PROVE CopyVerified'
  BY <1>38 DEF LocalDamage
<1>39. ASSUME NEW f \in Files, ForeignWrite(f) PROVE CopyVerified'
  BY <1>39 DEF ForeignWrite
<1>40. ASSUME NEW e \in Evictors, NEW f \in Files, EvictFile(e, f)
      PROVE  CopyVerified'
  BY <1>40 DEF EvictFile
<1>41. CASE UNCHANGED vars
  BY <1>41 DEF vars
<1> HIDE DEF TypeOK, CopyVerified, States, Fault, Goto, Fail, host, deletion,
        local, session, operator
<1> QED
  BY <1>1, <1>2, <1>3, <1>4, <1>5, <1>6, <1>7, <1>8, <1>9, <1>10,
     <1>11, <1>12, <1>13, <1>14, <1>15, <1>16, <1>17, <1>18, <1>19,
     <1>20, <1>21, <1>22, <1>23, <1>24, <1>25, <1>26, <1>27, <1>28,
     <1>29, <1>30, <1>31, <1>32, <1>33, <1>34, <1>35, <1>36, <1>37,
     <1>38, <1>39, <1>40, <1>41
     DEF Next, Archiving, Restoring, Environment, Evicting

\* The companion comes to its index only from a COMPLETE answer, and no step
\* replaces a receipt.
LEMMA IndexStep == ASSUME TypeOK, IndexAfterReceipt, PlanFirst, [Next]_vars PROVE IndexAfterReceipt'
<1> USE NoneAssumption
<1> USE DEF IndexAfterReceipt, Completed, PlanFirst, Executing, Receipt,
        TypeOK, Goto, Fail, host, deletion, local, session, operator
<1>1. CASE Poll
  BY <1>1 DEF Poll
<1>2. CASE Prepare
  BY <1>2 DEF Prepare
<1>3. CASE PrepareFails
  BY <1>3 DEF PrepareFails
<1>4. CASE Register
  BY <1>4 DEF Register
<1>5. CASE Transfer
  BY <1>5 DEF Transfer
<1>6. CASE TransferFails
  BY <1>6 DEF TransferFails
<1>7. CASE VerifyLocalSha
  BY <1>7 DEF VerifyLocalSha
<1>8. CASE Rehydrate
  BY <1>8 DEF Rehydrate
<1>9. CASE StepFails
  BY <1>9 DEF StepFails
<1>10. CASE RecordStep
  BY <1>10 DEF RecordStep
<1>11. CASE Authorize
  BY <1>11 DEF Authorize
<1>12. CASE PublishResult
  BY <1>12 DEF PublishResult
<1>13. CASE StageChain
  BY <1>13 DEF StageChain
<1>14. CASE PublishIndex
  BY <1>14 DEF PublishIndex
<1>15. CASE RestoreBegin
  BY <1>15 DEF RestoreBegin
<1>16. CASE RestoreMemberFails
  BY <1>16 DEF RestoreMemberFails
<1>17. CASE FinalizeRestore
  BY <1>17 DEF FinalizeRestore
<1>18. CASE FinalizeFails
  BY <1>18 DEF FinalizeFails
<1>19. CASE PublishRestoreIndex
  BY <1>19 DEF PublishRestoreIndex
<1>20. CASE Abort
  BY <1>20 DEF Abort
<1>21. CASE AttemptStarts
  BY <1>21 DEF AttemptStarts
<1>22. CASE AttemptEnds
  BY <1>22 DEF AttemptEnds
<1>23. CASE OperatorResumes
  BY <1>23 DEF OperatorResumes
<1>24. ASSUME NEW e \in Evictors, CallEvict(e) PROVE IndexAfterReceipt'
  BY <1>24 DEF CallEvict
<1>25. ASSUME NEW e \in Evictors, ManualEvict(e) PROVE IndexAfterReceipt'
  BY <1>25 DEF ManualEvict
<1>26. ASSUME NEW e \in Evictors, EvictorDies(e) PROVE IndexAfterReceipt'
  BY <1>26 DEF EvictorDies, Ends, Waits, FailsWaiting
<1>27. ASSUME NEW e \in Evictors, EvictStop(e) PROVE IndexAfterReceipt'
  BY <1>27 DEF EvictStop
<1>28. ASSUME NEW e \in Evictors, EvictPlan(e) PROVE IndexAfterReceipt'
  BY <1>28 DEF EvictPlan
<1>29. ASSUME NEW e \in Evictors, EvictPlanRefused(e) PROVE IndexAfterReceipt'
  BY <1>29 DEF EvictPlanRefused, Ends, Waits, FailsWaiting
<1>30. ASSUME NEW e \in Evictors, EvictLocked(e) PROVE IndexAfterReceipt'
  BY <1>30 DEF EvictLocked, Ends, Waits, FailsWaiting
<1>31. ASSUME NEW e \in Evictors, EvictReplay(e) PROVE IndexAfterReceipt'
  BY <1>31 DEF EvictReplay, Ends, Waits, FailsWaiting
<1>32. ASSUME NEW e \in Evictors, EvictEnter(e) PROVE IndexAfterReceipt'
  BY <1>32 DEF EvictEnter
<1>33. ASSUME NEW e \in Evictors, EvictEnterFails(e) PROVE IndexAfterReceipt'
  BY <1>33 DEF EvictEnterFails, Ends, Waits, FailsWaiting
<1>34. ASSUME NEW e \in Evictors, EvictRecord(e) PROVE IndexAfterReceipt'
  BY <1>34 DEF EvictRecord
<1>35. ASSUME NEW e \in Evictors, EvictFileFails(e) PROVE IndexAfterReceipt'
  BY <1>35 DEF EvictFileFails, Ends, Waits, FailsWaiting
<1>36. ASSUME NEW e \in Evictors, EvictComplete(e) PROVE IndexAfterReceipt'
  BY <1>36 DEF EvictComplete, Ends, Waits, FailsWaiting
<1>37. ASSUME NEW f \in Files, RestoreMember(f) PROVE IndexAfterReceipt'
  BY <1>37 DEF RestoreMember
<1>38. ASSUME NEW f \in Files, LocalDamage(f) PROVE IndexAfterReceipt'
  BY <1>38 DEF LocalDamage
<1>39. ASSUME NEW f \in Files, ForeignWrite(f) PROVE IndexAfterReceipt'
  BY <1>39 DEF ForeignWrite
<1>40. ASSUME NEW e \in Evictors, NEW f \in Files, EvictFile(e, f)
      PROVE  IndexAfterReceipt'
  BY <1>40 DEF EvictFile
<1>41. CASE UNCHANGED vars
  BY <1>41 DEF vars
<1> HIDE DEF IndexAfterReceipt, Completed, PlanFirst, Executing, Receipt,
        TypeOK, Goto, Fail, host, deletion, local, session, operator
<1> QED
  BY <1>1, <1>2, <1>3, <1>4, <1>5, <1>6, <1>7, <1>8, <1>9, <1>10,
     <1>11, <1>12, <1>13, <1>14, <1>15, <1>16, <1>17, <1>18, <1>19,
     <1>20, <1>21, <1>22, <1>23, <1>24, <1>25, <1>26, <1>27, <1>28,
     <1>29, <1>30, <1>31, <1>32, <1>33, <1>34, <1>35, <1>36, <1>37,
     <1>38, <1>39, <1>40, <1>41
     DEF Next, Archiving, Restoring, Environment, Evicting

\* The lock admits one executor, the receipt ends its work, and only files of
\* an authorized plan are unlinked.
LEMMA PlanStep == ASSUME TypeOK, PlanFirst, [Next]_vars PROVE PlanFirst'
<1> USE RetainedAssumption, NoneAssumption
<1> USE DEF TypeOK, PlanFirst, Executing, States, Fault, Goto, Fail, host,
        deletion, local, session, operator
<1>1. CASE Poll
  BY <1>1 DEF Poll
<1>2. CASE Prepare
  BY <1>2 DEF Prepare
<1>3. CASE PrepareFails
  BY <1>3 DEF PrepareFails
<1>4. CASE Register
  BY <1>4 DEF Register
<1>5. CASE Transfer
  BY <1>5 DEF Transfer
<1>6. CASE TransferFails
  BY <1>6 DEF TransferFails
<1>7. CASE VerifyLocalSha
  BY <1>7 DEF VerifyLocalSha
<1>8. CASE Rehydrate
  BY <1>8 DEF Rehydrate
<1>9. CASE StepFails
  BY <1>9 DEF StepFails
<1>10. CASE RecordStep
  BY <1>10 DEF RecordStep
<1>11. CASE Authorize
  BY <1>11 DEF Authorize
<1>12. CASE PublishResult
  BY <1>12 DEF PublishResult
<1>13. CASE StageChain
  BY <1>13 DEF StageChain
<1>14. CASE PublishIndex
  BY <1>14 DEF PublishIndex
<1>15. CASE RestoreBegin
  BY <1>15 DEF RestoreBegin
<1>16. CASE RestoreMemberFails
  BY <1>16 DEF RestoreMemberFails
<1>17. CASE FinalizeRestore
  BY <1>17 DEF FinalizeRestore
<1>18. CASE FinalizeFails
  BY <1>18 DEF FinalizeFails
<1>19. CASE PublishRestoreIndex
  BY <1>19 DEF PublishRestoreIndex
<1>20. CASE Abort
  BY <1>20 DEF Abort
<1>21. CASE AttemptStarts
  BY <1>21 DEF AttemptStarts
<1>22. CASE AttemptEnds
  BY <1>22 DEF AttemptEnds
<1>23. CASE OperatorResumes
  BY <1>23 DEF OperatorResumes
<1>24. ASSUME NEW e \in Evictors, CallEvict(e) PROVE PlanFirst'
  BY <1>24 DEF CallEvict
<1>25. ASSUME NEW e \in Evictors, ManualEvict(e) PROVE PlanFirst'
  BY <1>25 DEF ManualEvict
<1>26. ASSUME NEW e \in Evictors, EvictorDies(e) PROVE PlanFirst'
  BY <1>26 DEF EvictorDies, Ends, Waits, FailsWaiting
<1>27. ASSUME NEW e \in Evictors, EvictStop(e) PROVE PlanFirst'
  BY <1>27 DEF EvictStop
<1>28. ASSUME NEW e \in Evictors, EvictPlan(e) PROVE PlanFirst'
  BY <1>28 DEF EvictPlan, PlanAllowed
<1>29. ASSUME NEW e \in Evictors, EvictPlanRefused(e) PROVE PlanFirst'
  BY <1>29 DEF EvictPlanRefused, Ends, Waits, FailsWaiting, PlanAllowed
<1>30. ASSUME NEW e \in Evictors, EvictLocked(e) PROVE PlanFirst'
  BY <1>30 DEF EvictLocked, Ends, Waits, FailsWaiting, Locked
<1>31. ASSUME NEW e \in Evictors, EvictReplay(e) PROVE PlanFirst'
  BY <1>31 DEF EvictReplay, Ends, Waits, FailsWaiting, Locked
<1>32. ASSUME NEW e \in Evictors, EvictEnter(e) PROVE PlanFirst'
  BY <1>32 DEF EvictEnter, Locked
<1>33. ASSUME NEW e \in Evictors, EvictEnterFails(e) PROVE PlanFirst'
  BY <1>33 DEF EvictEnterFails, Ends, Waits, FailsWaiting, Locked
<1>34. ASSUME NEW e \in Evictors, EvictRecord(e) PROVE PlanFirst'
  BY <1>34 DEF EvictRecord
<1>35. ASSUME NEW e \in Evictors, EvictFileFails(e) PROVE PlanFirst'
  BY <1>35 DEF EvictFileFails, Ends, Waits, FailsWaiting
<1>36. ASSUME NEW e \in Evictors, EvictComplete(e) PROVE PlanFirst'
  BY SMTT(30), <1>36 DEF EvictComplete, Ends, Waits, FailsWaiting
<1>37. ASSUME NEW f \in Files, RestoreMember(f) PROVE PlanFirst'
  BY <1>37 DEF RestoreMember
<1>38. ASSUME NEW f \in Files, LocalDamage(f) PROVE PlanFirst'
  BY <1>38 DEF LocalDamage
<1>39. ASSUME NEW f \in Files, ForeignWrite(f) PROVE PlanFirst'
  BY <1>39 DEF ForeignWrite
<1>40. ASSUME NEW e \in Evictors, NEW f \in Files, EvictFile(e, f)
      PROVE  PlanFirst'
  BY <1>40 DEF EvictFile
<1>41. CASE UNCHANGED vars
  BY <1>41 DEF vars
<1> HIDE DEF TypeOK, PlanFirst, Executing, States, Fault, Goto, Fail, host,
        deletion, local, session, operator
<1> QED
  BY <1>1, <1>2, <1>3, <1>4, <1>5, <1>6, <1>7, <1>8, <1>9, <1>10,
     <1>11, <1>12, <1>13, <1>14, <1>15, <1>16, <1>17, <1>18, <1>19,
     <1>20, <1>21, <1>22, <1>23, <1>24, <1>25, <1>26, <1>27, <1>28,
     <1>29, <1>30, <1>31, <1>32, <1>33, <1>34, <1>35, <1>36, <1>37,
     <1>38, <1>39, <1>40, <1>41
     DEF Next, Archiving, Restoring, Environment, Evicting

\* Entry checks that records and absent paths agree; from there on one file at
\* a time is absent before it is recorded.
LEMMA AbsentStep == ASSUME TypeOK, PlanFirst, AbsentKnown, [Next]_vars PROVE AbsentKnown'
<1> USE NoneAssumption
<1> USE DEF TypeOK, PlanFirst, AbsentKnown, Executing, Absent, Fault, Goto,
        Fail, host, deletion, local, session, operator
<1>1. CASE Poll
  BY <1>1 DEF Poll
<1>2. CASE Prepare
  BY <1>2 DEF Prepare
<1>3. CASE PrepareFails
  BY <1>3 DEF PrepareFails
<1>4. CASE Register
  BY <1>4 DEF Register
<1>5. CASE Transfer
  BY <1>5 DEF Transfer
<1>6. CASE TransferFails
  BY <1>6 DEF TransferFails
<1>7. CASE VerifyLocalSha
  BY <1>7 DEF VerifyLocalSha
<1>8. CASE Rehydrate
  BY <1>8 DEF Rehydrate
<1>9. CASE StepFails
  BY <1>9 DEF StepFails
<1>10. CASE RecordStep
  BY <1>10 DEF RecordStep
<1>11. CASE Authorize
  BY <1>11 DEF Authorize
<1>12. CASE PublishResult
  BY <1>12 DEF PublishResult
<1>13. CASE StageChain
  BY <1>13 DEF StageChain
<1>14. CASE PublishIndex
  BY <1>14 DEF PublishIndex
<1>15. CASE RestoreBegin
  BY <1>15 DEF RestoreBegin
<1>16. CASE RestoreMemberFails
  BY <1>16 DEF RestoreMemberFails
<1>17. CASE FinalizeRestore
  BY <1>17 DEF FinalizeRestore
<1>18. CASE FinalizeFails
  BY <1>18 DEF FinalizeFails
<1>19. CASE PublishRestoreIndex
  BY <1>19 DEF PublishRestoreIndex
<1>20. CASE Abort
  BY <1>20 DEF Abort
<1>21. CASE AttemptStarts
  BY <1>21 DEF AttemptStarts
<1>22. CASE AttemptEnds
  BY <1>22 DEF AttemptEnds
<1>23. CASE OperatorResumes
  BY <1>23 DEF OperatorResumes
<1>24. ASSUME NEW e \in Evictors, CallEvict(e) PROVE AbsentKnown'
  BY <1>24 DEF CallEvict
<1>25. ASSUME NEW e \in Evictors, ManualEvict(e) PROVE AbsentKnown'
  BY <1>25 DEF ManualEvict
<1>26. ASSUME NEW e \in Evictors, EvictorDies(e) PROVE AbsentKnown'
  BY <1>26 DEF EvictorDies, Ends, Waits, FailsWaiting
<1>27. ASSUME NEW e \in Evictors, EvictStop(e) PROVE AbsentKnown'
  BY <1>27 DEF EvictStop
<1>28. ASSUME NEW e \in Evictors, EvictPlan(e) PROVE AbsentKnown'
  BY <1>28 DEF EvictPlan
<1>29. ASSUME NEW e \in Evictors, EvictPlanRefused(e) PROVE AbsentKnown'
  BY <1>29 DEF EvictPlanRefused, Ends, Waits, FailsWaiting
<1>30. ASSUME NEW e \in Evictors, EvictLocked(e) PROVE AbsentKnown'
  BY <1>30 DEF EvictLocked, Ends, Waits, FailsWaiting
<1>31. ASSUME NEW e \in Evictors, EvictReplay(e) PROVE AbsentKnown'
  BY <1>31 DEF EvictReplay, Ends, Waits, FailsWaiting
<1>32. ASSUME NEW e \in Evictors, EvictEnter(e) PROVE AbsentKnown'
  BY <1>32 DEF EvictEnter, ProgressTrue, Locked, RuntimeGate
<1>33. ASSUME NEW e \in Evictors, EvictEnterFails(e) PROVE AbsentKnown'
  BY <1>33 DEF EvictEnterFails, Ends, Waits, FailsWaiting
<1>34. ASSUME NEW e \in Evictors, EvictRecord(e) PROVE AbsentKnown'
  BY <1>34 DEF EvictRecord
<1>35. ASSUME NEW e \in Evictors, EvictFileFails(e) PROVE AbsentKnown'
  BY <1>35 DEF EvictFileFails, Ends, Waits, FailsWaiting
<1>36. ASSUME NEW e \in Evictors, EvictComplete(e) PROVE AbsentKnown'
  BY <1>36 DEF EvictComplete, Ends, Waits, FailsWaiting
<1>37. ASSUME NEW f \in Files, RestoreMember(f) PROVE AbsentKnown'
  BY <1>37 DEF RestoreMember
<1>38. ASSUME NEW f \in Files, LocalDamage(f) PROVE AbsentKnown'
  BY <1>38 DEF LocalDamage
<1>39. ASSUME NEW f \in Files, ForeignWrite(f) PROVE AbsentKnown'
  BY <1>39 DEF ForeignWrite
<1>40. ASSUME NEW e \in Evictors, NEW f \in Files, EvictFile(e, f)
      PROVE  AbsentKnown'
  BY <1>40 DEF EvictFile
<1>41. CASE UNCHANGED vars
  BY <1>41 DEF vars
<1> HIDE DEF TypeOK, PlanFirst, AbsentKnown, Executing, Absent, Fault, Goto,
        Fail, host, deletion, local, session, operator
<1> QED
  BY <1>1, <1>2, <1>3, <1>4, <1>5, <1>6, <1>7, <1>8, <1>9, <1>10,
     <1>11, <1>12, <1>13, <1>14, <1>15, <1>16, <1>17, <1>18, <1>19,
     <1>20, <1>21, <1>22, <1>23, <1>24, <1>25, <1>26, <1>27, <1>28,
     <1>29, <1>30, <1>31, <1>32, <1>33, <1>34, <1>35, <1>36, <1>37,
     <1>38, <1>39, <1>40, <1>41
     DEF Next, Archiving, Restoring, Environment, Evicting

\* Each of the three receipts covers the absent paths when it is published,
\* and no path becomes absent afterwards.
LEMMA ReceiptStep == ASSUME TypeOK, PlanFirst, AbsentKnown, ReceiptCovers, [Next]_vars PROVE ReceiptCovers'
<1> USE NoneAssumption
<1> USE DEF TypeOK, PlanFirst, AbsentKnown, ReceiptCovers, Receipt, Executing,
        Absent, Fault, Goto, Fail, host, deletion, local, session, operator
<1>1. CASE Poll
  BY <1>1 DEF Poll
<1>2. CASE Prepare
  BY <1>2 DEF Prepare
<1>3. CASE PrepareFails
  BY <1>3 DEF PrepareFails
<1>4. CASE Register
  BY <1>4 DEF Register
<1>5. CASE Transfer
  BY <1>5 DEF Transfer
<1>6. CASE TransferFails
  BY <1>6 DEF TransferFails
<1>7. CASE VerifyLocalSha
  BY <1>7 DEF VerifyLocalSha
<1>8. CASE Rehydrate
  BY <1>8 DEF Rehydrate
<1>9. CASE StepFails
  BY <1>9 DEF StepFails
<1>10. CASE RecordStep
  BY <1>10 DEF RecordStep
<1>11. CASE Authorize
  BY <1>11 DEF Authorize
<1>12. CASE PublishResult
  BY <1>12 DEF PublishResult
<1>13. CASE StageChain
  BY <1>13 DEF StageChain
<1>14. CASE PublishIndex
  BY <1>14 DEF PublishIndex
<1>15. CASE RestoreBegin
  BY <1>15 DEF RestoreBegin
<1>16. CASE RestoreMemberFails
  BY <1>16 DEF RestoreMemberFails
<1>17. CASE FinalizeRestore
  BY <1>17 DEF FinalizeRestore
<1>18. CASE FinalizeFails
  BY <1>18 DEF FinalizeFails
<1>19. CASE PublishRestoreIndex
  BY <1>19 DEF PublishRestoreIndex
<1>20. CASE Abort
  BY <1>20 DEF Abort
<1>21. CASE AttemptStarts
  BY <1>21 DEF AttemptStarts
<1>22. CASE AttemptEnds
  BY <1>22 DEF AttemptEnds
<1>23. CASE OperatorResumes
  BY <1>23 DEF OperatorResumes
<1>24. ASSUME NEW e \in Evictors, CallEvict(e) PROVE ReceiptCovers'
  BY <1>24 DEF CallEvict
<1>25. ASSUME NEW e \in Evictors, ManualEvict(e) PROVE ReceiptCovers'
  BY <1>25 DEF ManualEvict
<1>26. ASSUME NEW e \in Evictors, EvictorDies(e) PROVE ReceiptCovers'
  BY <1>26 DEF EvictorDies, Ends, Waits, FailsWaiting
<1>27. ASSUME NEW e \in Evictors, EvictStop(e) PROVE ReceiptCovers'
  BY <1>27 DEF EvictStop
<1>28. ASSUME NEW e \in Evictors, EvictPlan(e) PROVE ReceiptCovers'
  BY <1>28 DEF EvictPlan
<1>29. ASSUME NEW e \in Evictors, EvictPlanRefused(e) PROVE ReceiptCovers'
  BY <1>29 DEF EvictPlanRefused, Ends, Waits, FailsWaiting
<1>30. ASSUME NEW e \in Evictors, EvictLocked(e) PROVE ReceiptCovers'
  BY <1>30 DEF EvictLocked, Ends, Waits, FailsWaiting
<1>31. ASSUME NEW e \in Evictors, EvictReplay(e) PROVE ReceiptCovers'
  BY <1>31 DEF EvictReplay, Ends, Waits, FailsWaiting
<1>32. ASSUME NEW e \in Evictors, EvictEnter(e) PROVE ReceiptCovers'
  BY <1>32 DEF EvictEnter
<1>33. ASSUME NEW e \in Evictors, EvictEnterFails(e) PROVE ReceiptCovers'
  BY <1>33 DEF EvictEnterFails, Ends, Waits, FailsWaiting, Failed
<1>34. ASSUME NEW e \in Evictors, EvictRecord(e) PROVE ReceiptCovers'
  BY <1>34 DEF EvictRecord
<1>35. ASSUME NEW e \in Evictors, EvictFileFails(e) PROVE ReceiptCovers'
  BY <1>35 DEF EvictFileFails, Ends, Waits, FailsWaiting, Failed
<1>36. ASSUME NEW e \in Evictors, EvictComplete(e) PROVE ReceiptCovers'
  BY <1>36 DEF EvictComplete, Ends, Waits, FailsWaiting
<1>37. ASSUME NEW f \in Files, RestoreMember(f) PROVE ReceiptCovers'
  BY <1>37 DEF RestoreMember
<1>38. ASSUME NEW f \in Files, LocalDamage(f) PROVE ReceiptCovers'
  BY <1>38 DEF LocalDamage
<1>39. ASSUME NEW f \in Files, ForeignWrite(f) PROVE ReceiptCovers'
  BY <1>39 DEF ForeignWrite
<1>40. ASSUME NEW e \in Evictors, NEW f \in Files, EvictFile(e, f)
      PROVE  ReceiptCovers'
  BY <1>40 DEF EvictFile
<1>41. CASE UNCHANGED vars
  BY <1>41 DEF vars
<1> HIDE DEF TypeOK, PlanFirst, AbsentKnown, ReceiptCovers, Receipt,
        Executing, Absent, Fault, Goto, Fail, host, deletion, local, session,
        operator
<1> QED
  BY <1>1, <1>2, <1>3, <1>4, <1>5, <1>6, <1>7, <1>8, <1>9, <1>10,
     <1>11, <1>12, <1>13, <1>14, <1>15, <1>16, <1>17, <1>18, <1>19,
     <1>20, <1>21, <1>22, <1>23, <1>24, <1>25, <1>26, <1>27, <1>28,
     <1>29, <1>30, <1>31, <1>32, <1>33, <1>34, <1>35, <1>36, <1>37,
     <1>38, <1>39, <1>40, <1>41
     DEF Next, Archiving, Restoring, Environment, Evicting

\* The two steps that write the tree look at what is there first.
LEMMA ForeignStep == ASSUME TypeOK, [Next]_vars PROVE \A g \in Files : remote[g] = "changed" => remote'[g] = "changed"
<1> USE DEF TypeOK, Goto, Fail, host, deletion, local, session, operator
<1>1. CASE Poll
  BY <1>1 DEF Poll
<1>2. CASE Prepare
  BY <1>2 DEF Prepare
<1>3. CASE PrepareFails
  BY <1>3 DEF PrepareFails
<1>4. CASE Register
  BY <1>4 DEF Register
<1>5. CASE Transfer
  BY <1>5 DEF Transfer
<1>6. CASE TransferFails
  BY <1>6 DEF TransferFails
<1>7. CASE VerifyLocalSha
  BY <1>7 DEF VerifyLocalSha
<1>8. CASE Rehydrate
  BY <1>8 DEF Rehydrate
<1>9. CASE StepFails
  BY <1>9 DEF StepFails
<1>10. CASE RecordStep
  BY <1>10 DEF RecordStep
<1>11. CASE Authorize
  BY <1>11 DEF Authorize
<1>12. CASE PublishResult
  BY <1>12 DEF PublishResult
<1>13. CASE StageChain
  BY <1>13 DEF StageChain
<1>14. CASE PublishIndex
  BY <1>14 DEF PublishIndex
<1>15. CASE RestoreBegin
  BY <1>15 DEF RestoreBegin
<1>16. CASE RestoreMemberFails
  BY <1>16 DEF RestoreMemberFails
<1>17. CASE FinalizeRestore
  BY <1>17 DEF FinalizeRestore
<1>18. CASE FinalizeFails
  BY <1>18 DEF FinalizeFails
<1>19. CASE PublishRestoreIndex
  BY <1>19 DEF PublishRestoreIndex
<1>20. CASE Abort
  BY <1>20 DEF Abort
<1>21. CASE AttemptStarts
  BY <1>21 DEF AttemptStarts
<1>22. CASE AttemptEnds
  BY <1>22 DEF AttemptEnds
<1>23. CASE OperatorResumes
  BY <1>23 DEF OperatorResumes
<1>24. ASSUME NEW e \in Evictors, CallEvict(e) PROVE \A g \in Files : remote[g] = "changed" => remote'[g] = "changed"
  BY <1>24 DEF CallEvict
<1>25. ASSUME NEW e \in Evictors, ManualEvict(e) PROVE \A g \in Files : remote[g] = "changed" => remote'[g] = "changed"
  BY <1>25 DEF ManualEvict
<1>26. ASSUME NEW e \in Evictors, EvictorDies(e) PROVE \A g \in Files : remote[g] = "changed" => remote'[g] = "changed"
  BY <1>26 DEF EvictorDies, Ends, Waits, FailsWaiting
<1>27. ASSUME NEW e \in Evictors, EvictStop(e) PROVE \A g \in Files : remote[g] = "changed" => remote'[g] = "changed"
  BY <1>27 DEF EvictStop
<1>28. ASSUME NEW e \in Evictors, EvictPlan(e) PROVE \A g \in Files : remote[g] = "changed" => remote'[g] = "changed"
  BY <1>28 DEF EvictPlan
<1>29. ASSUME NEW e \in Evictors, EvictPlanRefused(e) PROVE \A g \in Files : remote[g] = "changed" => remote'[g] = "changed"
  BY <1>29 DEF EvictPlanRefused, Ends, Waits, FailsWaiting
<1>30. ASSUME NEW e \in Evictors, EvictLocked(e) PROVE \A g \in Files : remote[g] = "changed" => remote'[g] = "changed"
  BY <1>30 DEF EvictLocked, Ends, Waits, FailsWaiting
<1>31. ASSUME NEW e \in Evictors, EvictReplay(e) PROVE \A g \in Files : remote[g] = "changed" => remote'[g] = "changed"
  BY <1>31 DEF EvictReplay, Ends, Waits, FailsWaiting
<1>32. ASSUME NEW e \in Evictors, EvictEnter(e) PROVE \A g \in Files : remote[g] = "changed" => remote'[g] = "changed"
  BY <1>32 DEF EvictEnter
<1>33. ASSUME NEW e \in Evictors, EvictEnterFails(e) PROVE \A g \in Files : remote[g] = "changed" => remote'[g] = "changed"
  BY <1>33 DEF EvictEnterFails, Ends, Waits, FailsWaiting
<1>34. ASSUME NEW e \in Evictors, EvictRecord(e) PROVE \A g \in Files : remote[g] = "changed" => remote'[g] = "changed"
  BY <1>34 DEF EvictRecord
<1>35. ASSUME NEW e \in Evictors, EvictFileFails(e) PROVE \A g \in Files : remote[g] = "changed" => remote'[g] = "changed"
  BY <1>35 DEF EvictFileFails, Ends, Waits, FailsWaiting
<1>36. ASSUME NEW e \in Evictors, EvictComplete(e) PROVE \A g \in Files : remote[g] = "changed" => remote'[g] = "changed"
  BY <1>36 DEF EvictComplete, Ends, Waits, FailsWaiting
<1>37. ASSUME NEW f \in Files, RestoreMember(f) PROVE \A g \in Files : remote[g] = "changed" => remote'[g] = "changed"
  BY <1>37 DEF RestoreMember
<1>38. ASSUME NEW f \in Files, LocalDamage(f) PROVE \A g \in Files : remote[g] = "changed" => remote'[g] = "changed"
  BY <1>38 DEF LocalDamage
<1>39. ASSUME NEW f \in Files, ForeignWrite(f) PROVE \A g \in Files : remote[g] = "changed" => remote'[g] = "changed"
  BY <1>39 DEF ForeignWrite
<1>40. ASSUME NEW e \in Evictors, NEW f \in Files, EvictFile(e, f)
      PROVE  \A g \in Files : remote[g] = "changed" => remote'[g] = "changed"
  BY <1>40 DEF EvictFile
<1>41. CASE UNCHANGED vars
  BY <1>41 DEF vars
<1> HIDE DEF TypeOK, Goto, Fail, host, deletion, local, session, operator
<1> QED
  BY <1>1, <1>2, <1>3, <1>4, <1>5, <1>6, <1>7, <1>8, <1>9, <1>10,
     <1>11, <1>12, <1>13, <1>14, <1>15, <1>16, <1>17, <1>18, <1>19,
     <1>20, <1>21, <1>22, <1>23, <1>24, <1>25, <1>26, <1>27, <1>28,
     <1>29, <1>30, <1>31, <1>32, <1>33, <1>34, <1>35, <1>36, <1>37,
     <1>38, <1>39, <1>40, <1>41
     DEF Next, Archiving, Restoring, Environment, Evicting

\* The empty archive satisfies the invariant.
LEMMA InitInv == Init => IInv
<1> SUFFICES ASSUME Init PROVE IInv
  OBVIOUS
<1>1. TypeOK
  <2>1. /\ remote \in [Files -> {"sealed", "changed", "gone"}]
        /\ evictor \in [Evictors -> {"idle", "stop", "plan", "enter", "files", "record"}]
        /\ unlinked \in [Evictors -> Files \cup {None}]
    BY DEF Init
  <2>2. faults \in 0..MaxFaults /\ resumes \in 0..MaxResumes
    BY BoundAssumption DEF Init
  <2> QED
    BY <2>1, <2>2 DEF Init, TypeOK, States
<1>2. CopyVerified /\ PlanFirst /\ AbsentKnown
  BY DEF Init, CopyVerified, PlanFirst, Executing, AbsentKnown
<1>3. ReceiptCovers /\ IndexAfterReceipt
  BY DEF Init, ReceiptCovers, IndexAfterReceipt
<1> QED
  BY <1>1, <1>2, <1>3 DEF IInv

\* Every reachable state satisfies the inductive invariant.
LEMMA InvHolds == Spec => []IInv
<1>1. IInv /\ [Next]_vars => IInv'
  <2> SUFFICES ASSUME IInv, [Next]_vars PROVE IInv'
    OBVIOUS
  <2> QED
    BY TypeStep, CopyStep, IndexStep, PlanStep, AbsentStep, ReceiptStep DEF IInv
<1> QED
  BY InitInv, <1>1, PTL DEF Spec

\* For any tree, any number of deletion processes, crashes and lost calls: a file
\* missing from the host is one the plan may delete and the final local copy,
\* read back in full by rehydrate, holds it.
THEOREM NoByteLost == Spec => []NothingLost
<1>1. IInv => NothingLost
  BY RetainedAssumption DEF IInv, TypeOK, CopyVerified, PlanFirst, NothingLost
<1> QED
  BY InvHolds, <1>1, PTL

\* The receipt of execute_remote_eviction_plan accounts for every planned path
\* that is empty, for ever, and COMPLETE means every planned file.
THEOREM ReceiptsAccount == Spec => []ReceiptCovers
<1>1. IInv => ReceiptCovers
  BY DEF IInv
<1> QED
  BY InvHolds, <1>1, PTL

\* A companion index always has a COMPLETE receipt and a whole local copy.
THEOREM IndexesRestorable == Spec => []IndexRestorable
<1>1. IInv => IndexRestorable
  BY DEF IInv, CopyVerified, PlanFirst, IndexAfterReceipt, Completed, IndexRestorable
<1> QED
  BY InvHolds, <1>1, PTL

\* No eviction deletes and no restore overwrites a file that differs from the
\* manifest.
THEOREM ForeignKept == Spec => ForeignBytesKept
<1>1. IInv /\ [Next]_vars =>
        [\A f \in Files : remote[f] = "changed" => remote'[f] = "changed"]_vars
  BY ForeignStep DEF IInv
<1> QED
  BY InvHolds, <1>1, PTL DEF Spec, ForeignBytesKept
=============================================================================
