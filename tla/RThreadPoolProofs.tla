------------------------- MODULE RThreadPoolProofs -------------------------
(***************************************************************************)
(* Proofs about RThreadPool for any number of jobs, threads and callers.   *)
(***************************************************************************)
EXTENDS RThreadPool, FiniteSetTheorems, TLAPS

-----------------------------------------------------------------------------
\* What the steps share.

\* SetEvent on an auto-reset event keeps the workers well typed and leaves the
\* event as it was or set.
LEMMA SignalOneType ==
  ASSUME NEW to \in WorkerStates, NEW pc \in [Threads -> WorkerStates], NEW looking,
         (\E w \in Threads : HandOver(to, pc, w)) \/ NobodyWaits(pc, looking)
  PROVE  tpc' \in [Threads -> WorkerStates]
BY DEF HandOver, NobodyWaits

LEMMA AddJobThreadType ==
  ASSUME WorkersType, CountsType, NEW n \in Int, AddJobThread(n)
  PROVE  tpc' \in [Threads -> WorkerStates] /\ last_running_thread' \in Int
BY PoolAssumption DEF AddJobThread, Room, WorkersType, CountsType, WorkerStates

LEMMA AppendType ==
  ASSUME NEW S, NEW q \in Seq(S), NEW e \in S
  PROVE  Append(q, e) \in Seq(S)
OBVIOUS

LEMMA WaitingFinite ==
  ASSUME JobsType
  PROVE  IsFiniteSet(set_waiting_jobs) /\ Cardinality(set_waiting_jobs) \in Nat
BY PoolAssumption, FS_Subset, FS_CardinalityType DEF JobsType

LEMMA DropWaitingType ==
  ASSUME TypeOK, DropWaiting
  PROVE  /\ set_waiting_jobs' = {} /\ deque_clear_job' \in Seq(Jobs \cup {NoJob})
         /\ clears' \in Nat /\ clears' > 0 /\ SemAfterDrop \in Nat
<1>1. Cardinality(set_waiting_jobs) \in Nat
  BY WaitingFinite DEF TypeOK
<1>2. \A q \in WaitingOrders : q \in Seq(Jobs \cup {NoJob})
  <2> SUFFICES ASSUME NEW q \in WaitingOrders PROVE q \in Seq(Jobs \cup {NoJob})
    OBVIOUS
  <2>1. q \in [1..Cardinality(set_waiting_jobs) -> Jobs \cup {NoJob}]
    BY DEF WaitingOrders, TypeOK, JobsType
  <2> QED
    BY <1>1, <2>1
<1>3. PICK q \in WaitingOrders : deque_clear_job' = deque_clear_job \o q
  BY DEF DropWaiting
<1>4. deque_clear_job' \in Seq(Jobs \cup {NoJob})
  BY <1>2, <1>3 DEF TypeOK, CleanType
<1> QED
  BY <1>1, <1>4 DEF DropWaiting, SemAfterDrop, TypeOK, HandoffType, OwnerType

-----------------------------------------------------------------------------
(***************************************************************************)
(* Type correctness.                                                       *)
(***************************************************************************)

LEMMA TypeInit == Init => TypeOK
<1> SUFFICES ASSUME Init PROVE TypeOK
  OBVIOUS
<1> USE DEF Init
<1>1. EventsType /\ HandoffType
  BY DEF EventsType, HandoffType
<1>2. LocksType /\ CountsType
  BY DEF LocksType, CountsType
<1>3. OwnerType
  BY DEF OwnerType
<1>4. JobsType
  BY DEF JobsType
<1>5. CleanType /\ JoinType
  BY DEF CleanType, JoinType
<1>8. MapType
  <2>1. map_thread_ids \in SUBSET Threads
    OBVIOUS
  <2>2. map_torn \in BOOLEAN
    OBVIOUS
  <2> QED
    BY <2>1, <2>2 DEF MapType
<1>6. WorkersType
  BY DEF WorkersType, WorkerStates
<1>7. CallersType /\ CancelType
  BY DEF CallersType, CancelType
<1> QED
  BY <1>1, <1>2, <1>3, <1>4, <1>5, <1>6, <1>7, <1>8 DEF TypeOK

LEMMA TypeStep ==
  ASSUME TypeOK, SubmitInv, ReaperInv, [Next]_vars
  PROVE  TypeOK'
<1> USE DEF TypeOK, EventsType, HandoffType, JobsType, CleanType, LocksType, CountsType, JoinType,
            MapType, WorkersType, CallersType, CancelType, OwnerType, vars, events, handoff, jobvars,
            cleanvars, locks, counts, joinvars, mapvars, workers, callers, cancelv, owner
<1>0. Torn \in BOOLEAN
  BY DEF Torn
<1>1. ASSUME NEW s \in Submitters, SubmitIndex(s) PROVE TypeOK'
  BY <1>1 DEF SubmitIndex, NextIndex
<1>2. ASSUME NEW s \in Submitters, SubmitInsert(s) PROVE TypeOK'
  <2>1. sjob[s] \in Jobs
    BY <1>2 DEF SubmitInsert, SubmitInv, Submitting
  <2>2. CallersType'
    BY <1>2, <2>1 DEF SubmitInsert
  <2>3. JobsType' /\ HandoffType'
    BY <1>2, <2>1 DEF SubmitInsert
  <2> QED
    BY <1>2, <2>2, <2>3 DEF SubmitInsert
<1>3. ASSUME NEW s \in Submitters, SubmitGrow(s) PROVE TypeOK'
  BY <1>3, AddJobThreadType DEF SubmitGrow
<1>4. ASSUME NEW s \in Submitters, NEW j \in Jobs, SubmitCheck(s, j) PROVE TypeOK'
  <2>1. CallersType'
    BY <1>4 DEF SubmitCheck
  <2> QED
    BY <1>4, <2>1 DEF SubmitCheck
<1>5. CASE MgrTake
  BY <1>5 DEF MgrTake, SemJobAvailable
<1>6. CASE MgrSignal
  <2>1. job_needed_event' \in BOOLEAN /\ tpc' \in [Threads -> WorkerStates]
    <3>1. "take" \in WorkerStates
      BY DEF WorkerStates
    <3>2. (\E w \in Threads : HandOver("take", tpc, w)) \/ NobodyWaits(tpc, {"get3"})
      BY <1>6 DEF MgrSignal, SignalOne
    <3>3. job_needed_event' \in {job_needed_event, TRUE}
      BY <1>6 DEF MgrSignal, SignalOne
    <3> QED
      BY <3>1, <3>2, <3>3, SignalOneType
  <2> QED
    BY <1>6, <2>1 DEF MgrSignal
<1>7. CASE MgrAck
  BY <1>7 DEF MgrAck
<1>8. ASSUME NEW w \in Threads, WorkerStart(w) PROVE TypeOK'
  <2>1. MapType'
    BY <1>8 DEF WorkerStart
  <2>2. WorkersType' /\ CountsType'
    BY <1>8 DEF WorkerStart, WorkerStates
  <2> QED
    BY <1>8, <2>1, <2>2 DEF WorkerStart
<1>9. ASSUME NEW w \in Threads, GetJobWait(w) PROVE TypeOK'
  <2>1. tpc' \in [Threads -> WorkerStates] /\ tjob' = tjob
    BY <1>9 DEF GetJobWait, WorkerStates
  <2>2. EventsType'
    BY <1>9 DEF GetJobWait
  <2> QED
    BY <1>9, <2>1, <2>2 DEF GetJobWait
<1>10. ASSUME NEW w \in Threads, NEW j \in Jobs, GetJobTake(w, j) PROVE TypeOK'
  BY <1>10 DEF GetJobTake, WorkerStates
<1>11. ASSUME NEW w \in Threads, GetJobAbort(w) PROVE TypeOK'
  BY <1>11 DEF GetJobAbort, WorkerStates
<1>12. ASSUME NEW w \in Threads, RunJob(w) PROVE TypeOK'
  <2>1. tpc' \in [Threads -> WorkerStates] /\ tjob' = tjob
    BY <1>12 DEF RunJob, WorkerStates
  <2> QED
    BY <1>12, <2>1 DEF RunJob
<1>13. ASSUME NEW w \in Threads, EndJob(w) PROVE TypeOK'
  <2>1. CleanType'
    <3>1. \A e \in map_doing_jobs : Append(deque_clear_job, e[2]) \in Seq(Jobs \cup {NoJob})
      BY AppendType
    <3> QED
      BY <1>13, <3>1 DEF EndJob, Doing
  <2>2. JobsType'
    BY <1>13 DEF EndJob, Doing
  <2>3. WorkersType'
    BY <1>13 DEF EndJob, WorkerStates
  <2> QED
    BY <1>13, <2>1, <2>2, <2>3 DEF EndJob
<1>14. ASSUME NEW w \in Threads, CheckSubtract(w) PROVE TypeOK'
  <2>0. [tpc EXCEPT ![w] = "get"] \in [Threads -> WorkerStates]
    BY DEF WorkerStates
  <2>1. subtract_event' \in BOOLEAN /\ tpc' \in [Threads -> WorkerStates]
    <3>1. "leave" \in WorkerStates
      BY DEF WorkerStates
    <3>2. PICK pc : /\ pc = [tpc EXCEPT ![w] = "get"]
                    /\ \/ (\E v \in Threads : HandOver("leave", pc, v)) \/ NobodyWaits(pc, {})
                       \/ tpc' = pc
      BY <1>14 DEF CheckSubtract, SignalOne
    <3>3. subtract_event' \in {subtract_event, TRUE}
      BY <1>14 DEF CheckSubtract, SignalOne
    <3> QED
      BY <2>0, <3>1, <3>2, <3>3, SignalOneType
  <2> QED
    BY <1>14, <2>1 DEF CheckSubtract
<1>15. ASSUME NEW w \in Threads, LeaveLock(w) PROVE TypeOK'
  <2>1. MapType'
    <3>1. map_torn' = Torn /\ map_thread_ids' = map_thread_ids
      BY <1>15 DEF LeaveLock
    <3>2. map_torn' \in BOOLEAN
      BY <1>0, <3>1
    <3> QED
      BY <3>1, <3>2
  <2>2. WorkersType' /\ LocksType'
    BY <1>15 DEF LeaveLock, WorkerStates
  <2> QED
    BY <1>15, <2>1, <2>2 DEF LeaveLock
<1>16. ASSUME NEW w \in Threads, LeaveMove(w) PROVE TypeOK'
  <2>1. MapType'
    <3>1. map_torn' = Torn /\ map_thread_ids' = map_thread_ids \ {w}
      BY <1>16 DEF LeaveMove
    <3>2. map_torn' \in BOOLEAN
      BY <1>0, <3>1
    <3> QED
      BY <3>1, <3>2
  <2>2. WorkersType' /\ CountsType' /\ LocksType' /\ JoinType'
    BY <1>16 DEF LeaveMove, WorkerStates, RemovingQueue
  <2> QED
    BY <1>16, <2>1, <2>2 DEF LeaveMove
<1>17. ASSUME NEW w \in Threads, WorkerCount(w) PROVE TypeOK'
  BY <1>17 DEF WorkerCount, WorkerStates
<1>18. ASSUME NEW w \in Threads, WorkerLast(w) PROVE TypeOK'
  BY <1>18 DEF WorkerLast, WorkerStates, AllEnded
<1>19. CASE ReaperCheck
  BY <1>19 DEF ReaperCheck
<1>20. CASE ReaperPop
  BY <1>20 DEF ReaperPop, ReaperInv
<1>21. CASE ReaperJoin
  BY <1>21 DEF ReaperJoin, WorkerStates
<1>22. CASE CleanJob
  BY <1>22, PoolAssumption DEF CleanJob
<1>23. ASSUME NEW w \in Threads, StopSee(w) PROVE TypeOK'
  BY <1>23 DEF StopSee
<1>24. CASE StopFire
  <2>1. WorkersType'
    BY <1>24 DEF StopFire, WorkerStates
  <2> QED
    BY <1>24, <2>1 DEF StopFire
<1>25. CASE StopEnd
  <2>1. OwnerType'
    BY <1>25 DEF StopEnd
  <2> QED
    BY <1>25, <2>1 DEF StopEnd
<1>26. CASE WaitReturn
  BY <1>26 DEF WaitReturn
<1>27. CASE DestroyPool
  BY <1>27, DropWaitingType DEF DestroyPool, WakeManager
<1>28. CASE DestroyJoin
  <2>1. OwnerType'
    BY <1>28 DEF DestroyJoin
  <2>2. CleanType'
    <3>1. Append(deque_clear_job, NoJob) \in Seq(Jobs \cup {NoJob})
      BY AppendType
    <3>2. deque_clear_job' \in {deque_clear_job, Append(deque_clear_job, NoJob)}
      BY <1>28 DEF DestroyJoin
    <3> QED
      BY <1>28, <3>1, <3>2 DEF DestroyJoin
  <2> QED
    BY <1>28, <2>1, <2>2 DEF DestroyJoin
<1>29. CASE Start
  <2>1. WorkersType' /\ CountsType'
    BY <1>29, AddJobThreadType, PoolAssumption DEF Start
  <2>2. EventsType'
    BY <1>29 DEF Start
  <2>3. OwnerType'
    <3>1. thread_pool_is_running' \in {TRUE, thread_pool_is_running}
      BY <1>29 DEF Start
    <3>2. thread_pool_is_running' \in BOOLEAN
      BY <3>1
    <3>3. /\ opc' = opc /\ caught' = caught /\ starts' = starts + 1
          /\ stops' = stops /\ clears' = clears /\ destroys' = destroys
      BY <1>29 DEF Start
    <3> QED
      BY <3>2, <3>3
  <2> QED
    BY <1>29, <2>1, <2>2, <2>3 DEF Start
<1>30. CASE StopBegin
  BY <1>30 DEF StopBegin
<1>31. CASE WaitCall
  BY <1>31 DEF WaitCall
<1>32. CASE ClearUndoWork
  BY <1>32, DropWaitingType DEF ClearUndoWork
<1>33. CASE DestroyBegin
  BY <1>33 DEF DestroyBegin
<1>34. ASSUME NEW c \in Cancellers, CancelSem(c) PROVE TypeOK'
  BY <1>34 DEF CancelSem, SemJobAvailable
<1>35. ASSUME NEW c \in Cancellers, CancelRequest(c) PROVE TypeOK'
  <2>1. CancelType' /\ LocksType'
    BY <1>35 DEF CancelRequest
  <2> QED
    BY <1>35, <2>1 DEF CancelRequest
<1>36. ASSUME NEW c \in Cancellers, CancelSync(c) PROVE TypeOK'
  BY <1>36 DEF CancelSync
<1>37. ASSUME NEW c \in Cancellers, NEW id \in 1..job_index, CancelJob(c, id) PROVE TypeOK'
  <2>1. CancelType'
    <3>1. \A e \in map_doing_jobs : e[2] \in Jobs
      OBVIOUS
    <3>2. cjob' \in [Cancellers -> Jobs \cup {NoJob}]
      BY <1>37, <3>1 DEF CancelJob, Doing
    <3>3. \/ cpc' = [cpc EXCEPT ![c] = "sem"] \/ cpc' = [cpc EXCEPT ![c] = "request"]
          \/ cpc' = cpc
      BY <1>37 DEF CancelJob
    <3>4. cpc' \in [Cancellers -> {"idle", "sem", "request", "sync"}]
      BY <3>3
    <3>5. cancels' \in Nat
      BY <1>37 DEF CancelJob
    <3> QED
      BY <3>2, <3>4, <3>5
  <2>2. CleanType'
    <3>1. \A j \in set_waiting_jobs : Append(deque_clear_job, j) \in Seq(Jobs \cup {NoJob})
      BY AppendType
    <3> QED
      BY <1>37, <3>1 DEF CancelJob
  <2>3. JobsType' /\ LocksType'
    BY <1>37 DEF CancelJob
  <2> QED
    BY <1>37, <2>1, <2>2, <2>3 DEF CancelJob
<1>39. ASSUME NEW w \in Threads, WorkerMap(w) PROVE TypeOK'
  <2>1. MapType'
    <3>1. map_torn' = Torn /\ map_thread_ids' = map_thread_ids
      BY <1>39 DEF WorkerMap
    <3>2. map_torn' \in BOOLEAN
      BY <1>0, <3>1
    <3> QED
      BY <3>1, <3>2
  <2>2. WorkersType'
    BY <1>39 DEF WorkerMap, WorkerStates
  <2> QED
    BY <1>39, <2>1, <2>2 DEF WorkerMap
<1>40. ASSUME NEW w \in Threads, LeaveUnfound(w) PROVE TypeOK'
  <2>1. MapType'
    <3>1. map_torn' = Torn /\ map_thread_ids' = map_thread_ids
      BY <1>40 DEF LeaveUnfound
    <3>2. map_torn' \in BOOLEAN
      BY <1>0, <3>1
    <3> QED
      BY <3>1, <3>2
  <2>2. WorkersType' /\ CountsType'
    BY <1>40 DEF LeaveUnfound, WorkerStates
  <2> QED
    BY <1>40, <2>1, <2>2 DEF LeaveUnfound
<1>38. CASE UNCHANGED vars
  BY <1>38
<1> QED
  BY <1>1, <1>2, <1>3, <1>4, <1>5, <1>6, <1>7, <1>8, <1>9, <1>10, <1>11, <1>12, <1>13, <1>14, <1>15, <1>16, <1>17, <1>18, <1>19, <1>20, <1>21, <1>22, <1>23, <1>24, <1>25, <1>26, <1>27, <1>28, <1>29, <1>30, <1>31, <1>32, <1>33, <1>34, <1>35, <1>36, <1>37, <1>38, <1>39, <1>40
     DEF Next, SubmitStep, MgrStep, WorkerStep, ReaperStep, OwnerStep, OwnerCall, CancelStep

-----------------------------------------------------------------------------
(***************************************************************************)
(* The parts of PoolInv on which the handoff rests.                        *)
(***************************************************************************)

\* Only eight actions touch what SubmitInv speaks about.
LEMMA SubmitFrame ==
  ASSUME [Next]_vars
  PROVE  \/ \E s \in Submitters :
              SubmitStep(s) \/ \E j \in Jobs : SubmitCheck(s, j)
         \/ \E w \in Threads, j \in Jobs : GetJobTake(w, j)
         \/ ClearUndoWork \/ DestroyPool
         \/ \E c \in Cancellers, id \in 1..job_index : CancelJob(c, id)
         \/ UNCHANGED <<spc, sjob, unsubmitted, set_waiting_jobs>>
<1> USE DEF vars, events, handoff, jobvars, callers, cleanvars, locks, counts, workers,
            cancelv, owner
<1>1. MgrStep => UNCHANGED <<spc, sjob, unsubmitted, set_waiting_jobs>>
  BY DEF MgrStep, MgrTake, MgrSignal, MgrAck
<1>2. ASSUME NEW w \in Threads, WorkerStep(w)
      PROVE  (\E j \in Jobs : GetJobTake(w, j)) \/ UNCHANGED <<spc, sjob, unsubmitted, set_waiting_jobs>>
  BY <1>2 DEF WorkerStep, WorkerMap, WorkerStart, GetJobWait, GetJobAbort, RunJob, EndJob, CheckSubtract,
              LeaveLock, LeaveUnfound, LeaveMove, WorkerCount, WorkerLast
<1>3. ReaperStep \/ CleanJob => UNCHANGED <<spc, sjob, unsubmitted, set_waiting_jobs>>
  BY DEF ReaperStep, ReaperCheck, ReaperPop, ReaperJoin, CleanJob
<1>4. OwnerStep \/ OwnerCall =>
        ClearUndoWork \/ DestroyPool \/ UNCHANGED <<spc, sjob, unsubmitted, set_waiting_jobs>>
  BY DEF OwnerStep, OwnerCall, StopSee, StopFire, StopEnd, WaitReturn, DestroyJoin, Start,
         StopBegin, WaitCall, DestroyBegin
<1>5. ASSUME NEW c \in Cancellers, CancelStep(c)
      PROVE  UNCHANGED <<spc, sjob, unsubmitted, set_waiting_jobs>>
  BY <1>5 DEF CancelStep, CancelSem, CancelRequest, CancelSync
<1> QED
  BY <1>1, <1>2, <1>3, <1>4, <1>5 DEF Next

LEMMA SubmitInvStep ==
  ASSUME TypeOK, SubmitInv, [Next]_vars
  PROVE  SubmitInv'
<1> USE DEF SubmitInv, Submitting, TypeOK, JobsType, CallersType, jobvars, callers
<1>1. ASSUME NEW s \in Submitters, NEW j \in Jobs, SubmitCheck(s, j) PROVE SubmitInv'
  BY <1>1 DEF SubmitCheck
<1>2. ASSUME NEW s \in Submitters, SubmitIndex(s) PROVE SubmitInv'
  BY <1>2 DEF SubmitIndex
<1>3. ASSUME NEW s \in Submitters, SubmitInsert(s) PROVE SubmitInv'
  BY <1>3 DEF SubmitInsert
<1>4. ASSUME NEW s \in Submitters, SubmitGrow(s) PROVE SubmitInv'
  BY <1>4 DEF SubmitGrow
<1>5. ASSUME NEW w \in Threads, NEW j \in Jobs, GetJobTake(w, j) PROVE SubmitInv'
  BY <1>5 DEF GetJobTake
<1>6. CASE ClearUndoWork \/ DestroyPool
  BY <1>6 DEF ClearUndoWork, DestroyPool, DropWaiting
<1>7. ASSUME NEW c \in Cancellers, NEW id \in 1..job_index, CancelJob(c, id) PROVE SubmitInv'
  BY <1>7 DEF CancelJob
<1>8. CASE UNCHANGED <<spc, sjob, unsubmitted, set_waiting_jobs>>
  BY <1>8
<1> QED
  BY <1>1, <1>2, <1>3, <1>4, <1>5, <1>6, <1>7, <1>8, SubmitFrame DEF SubmitStep

LEMMA LockInvStep ==
  ASSUME TypeOK, LockInv, [Next]_vars
  PROVE  LockInv'
<1> USE DEF LockInv, TypeOK, LocksType, CancelType, locks, cancelv
<1>1. ASSUME NEW c \in Cancellers, NEW id \in 1..job_index, CancelJob(c, id) PROVE LockInv'
  BY <1>1, PoolAssumption DEF CancelJob
<1>2. ASSUME NEW c \in Cancellers, CancelSem(c) PROVE LockInv'
  BY <1>2, PoolAssumption DEF CancelSem
<1>3. ASSUME NEW c \in Cancellers, CancelRequest(c) PROVE LockInv'
  BY <1>3, PoolAssumption DEF CancelRequest
<1>4. ASSUME NEW c \in Cancellers, CancelSync(c) PROVE LockInv'
  BY <1>4, PoolAssumption DEF CancelSync
<1>5. CASE UNCHANGED <<cpc, waiting_lock>>
  BY <1>5
<1>6. ASSUME NEW s \in Submitters, SubmitStep(s) \/ \E j \in Jobs : SubmitCheck(s, j)
      PROVE  UNCHANGED <<cpc, waiting_lock>>
  BY <1>6 DEF SubmitStep, SubmitCheck, SubmitIndex, SubmitInsert, SubmitGrow
<1>7. MgrStep \/ ReaperStep \/ CleanJob => UNCHANGED <<cpc, waiting_lock>>
  BY DEF MgrStep, MgrTake, MgrSignal, MgrAck, ReaperStep, ReaperCheck, ReaperPop, ReaperJoin, CleanJob
<1>8. ASSUME NEW w \in Threads, WorkerStep(w) PROVE UNCHANGED <<cpc, waiting_lock>>
  BY <1>8 DEF WorkerStep, WorkerMap, WorkerStart, GetJobWait, GetJobTake, GetJobAbort, RunJob, EndJob,
              CheckSubtract, LeaveLock, LeaveUnfound, LeaveMove, WorkerCount, WorkerLast
<1>9. OwnerStep \/ OwnerCall => UNCHANGED <<cpc, waiting_lock>>
  BY DEF OwnerStep, OwnerCall, StopSee, StopFire, StopEnd, WaitReturn, DestroyPool, DestroyJoin,
         Start, StopBegin, WaitCall, ClearUndoWork, DestroyBegin
<1> QED
  BY <1>1, <1>2, <1>3, <1>4, <1>5, <1>6, <1>7, <1>8, <1>9 DEF Next, CancelStep, vars

LEMMA OwnerInvStep ==
  ASSUME TypeOK, OwnerInv, [Next]_vars
  PROVE  OwnerInv'
<1> USE DEF OwnerInv, Stopping, TypeOK, OwnerType, owner
<1>1. CASE \E w \in Threads : StopSee(w)
  BY <1>1 DEF StopSee
<1>2. CASE StopFire
  BY <1>2 DEF StopFire
<1>3. CASE StopEnd
  BY <1>3 DEF StopEnd
<1>4. CASE DestroyPool
  BY <1>4, DropWaitingType DEF DestroyPool
<1>5. CASE DestroyJoin
  BY <1>5 DEF DestroyJoin
<1>6. CASE Start \/ ClearUndoWork
  BY <1>6, DropWaitingType DEF Start, ClearUndoWork
<1>7. CASE StopBegin \/ DestroyBegin
  BY <1>7 DEF StopBegin, DestroyBegin
<1>8. CASE WaitCall \/ WaitReturn
  BY <1>8 DEF WaitCall, WaitReturn
<1>9. CASE UNCHANGED owner
  BY <1>9
<1>10. ASSUME NEW s \in Submitters, SubmitStep(s) \/ \E j \in Jobs : SubmitCheck(s, j)
       PROVE  UNCHANGED owner
  BY <1>10 DEF SubmitStep, SubmitCheck, SubmitIndex, SubmitInsert, SubmitGrow
<1>11. MgrStep \/ ReaperStep \/ CleanJob => UNCHANGED owner
  BY DEF MgrStep, MgrTake, MgrSignal, MgrAck, ReaperStep, ReaperCheck, ReaperPop, ReaperJoin, CleanJob
<1>12. ASSUME NEW w \in Threads, WorkerStep(w) PROVE UNCHANGED owner
  BY <1>12 DEF WorkerStep, WorkerMap, WorkerStart, GetJobWait, GetJobTake, GetJobAbort, RunJob, EndJob,
               CheckSubtract, LeaveLock, LeaveUnfound, LeaveMove, WorkerCount, WorkerLast
<1>13. ASSUME NEW c \in Cancellers, CancelStep(c) \/ \E id \in 1..job_index : CancelJob(c, id)
       PROVE  UNCHANGED owner
  BY <1>13 DEF CancelStep, CancelJob, CancelSem, CancelRequest, CancelSync
<1> QED
  BY <1>1, <1>2, <1>3, <1>4, <1>5, <1>6, <1>7, <1>8, <1>9, <1>10, <1>11, <1>12, <1>13
     DEF Next, OwnerStep, OwnerCall, vars

LEMMA ReaperInvStep ==
  ASSUME TypeOK, ReaperInv, [Next]_vars
  PROVE  ReaperInv'
<1> USE DEF ReaperInv, TypeOK, JoinType, joinvars, mapvars
<1>1. CASE ReaperStep
  BY <1>1 DEF ReaperStep, ReaperCheck, ReaperPop, ReaperJoin
<1>2. ASSUME NEW w \in Threads, LeaveMove(w) PROVE ReaperInv'
  BY <1>2 DEF LeaveMove, RemovingQueue
<1>3. CASE UNCHANGED <<reaper, queue_removing_thread>>
  BY <1>3
<1>4. ASSUME NEW s \in Submitters, SubmitStep(s) \/ \E j \in Jobs : SubmitCheck(s, j)
      PROVE  UNCHANGED <<reaper, queue_removing_thread>>
  BY <1>4 DEF SubmitStep, SubmitCheck, SubmitIndex, SubmitInsert, SubmitGrow
<1>5. MgrStep \/ CleanJob => UNCHANGED <<reaper, queue_removing_thread>>
  BY DEF MgrStep, MgrTake, MgrSignal, MgrAck, CleanJob
<1>6. ASSUME NEW w \in Threads, WorkerStep(w) PROVE LeaveMove(w) \/ UNCHANGED <<reaper, queue_removing_thread>>
  BY <1>6 DEF WorkerStep, WorkerMap, WorkerStart, GetJobWait, GetJobTake, GetJobAbort, RunJob, EndJob,
              CheckSubtract, LeaveLock, LeaveUnfound, WorkerCount, WorkerLast
<1>7. OwnerStep \/ OwnerCall => UNCHANGED <<reaper, queue_removing_thread>>
  BY DEF OwnerStep, OwnerCall, StopSee, StopFire, StopEnd, WaitReturn, DestroyPool, DestroyJoin,
         Start, StopBegin, WaitCall, ClearUndoWork, DestroyBegin
<1>8. ASSUME NEW c \in Cancellers, CancelStep(c) \/ \E id \in 1..job_index : CancelJob(c, id)
      PROVE  UNCHANGED <<reaper, queue_removing_thread>>
  BY <1>8 DEF CancelStep, CancelJob, CancelSem, CancelRequest, CancelSync
<1> QED
  BY <1>1, <1>2, <1>3, <1>4, <1>5, <1>6, <1>7, <1>8 DEF Next, vars

-----------------------------------------------------------------------------
(***************************************************************************)
(* The handoff between the semaphore, the manager and the workers.  It is  *)
(* stated while clears = 0, so the steps of clearUndoWork and of           *)
(* _destroyPool (which calls it) leave nothing to prove.                   *)
(***************************************************************************)

LEMMA ClearsGrow ==
  ASSUME TypeOK, [Next]_vars, clears' = 0
  PROVE  clears = 0 /\ ~ClearUndoWork /\ ~DestroyPool
<1> USE DEF owner
<1>1. ~ClearUndoWork /\ ~DestroyPool
  BY DropWaitingType DEF ClearUndoWork, DestroyPool, TypeOK, OwnerType
<1>2. ASSUME NEW s \in Submitters, SubmitStep(s) \/ \E j \in Jobs : SubmitCheck(s, j)
      PROVE  clears' = clears
  BY <1>2 DEF SubmitStep, SubmitCheck, SubmitIndex, SubmitInsert, SubmitGrow
<1>3. MgrStep \/ ReaperStep \/ CleanJob => clears' = clears
  BY DEF MgrStep, MgrTake, MgrSignal, MgrAck, ReaperStep, ReaperCheck, ReaperPop, ReaperJoin, CleanJob
<1>4. ASSUME NEW w \in Threads, WorkerStep(w) PROVE clears' = clears
  BY <1>4 DEF WorkerStep, WorkerMap, WorkerStart, GetJobWait, GetJobTake, GetJobAbort, RunJob, EndJob,
              CheckSubtract, LeaveLock, LeaveUnfound, LeaveMove, WorkerCount, WorkerLast
<1>5. OwnerStep \/ OwnerCall => clears' = clears
  BY <1>1 DEF OwnerStep, OwnerCall, StopSee, StopFire, StopEnd, WaitReturn, DestroyJoin,
              Start, StopBegin, WaitCall, DestroyBegin
<1>6. ASSUME NEW c \in Cancellers, CancelStep(c) \/ \E id \in 1..job_index : CancelJob(c, id)
      PROVE  clears' = clears
  BY <1>6 DEF CancelStep, CancelJob, CancelSem, CancelRequest, CancelSync
<1> QED
  BY <1>1, <1>2, <1>3, <1>4, <1>5, <1>6 DEF Next, vars

\* A step that takes no worker to or from "take" and leaves the rest of the
\* turnstile alone, or only makes calls known.
Same == /\ UNCHANGED <<mgr, job_needed_event, sem_notify_got>>
        /\ \A w \in Threads : tpc'[w] = "take" <=> tpc[w] = "take"
        /\ stops' = stops /\ destroys' = destroys

LEMMA SameKeeps ==
  ASSUME Turnstile, SignalKept, Same
  PROVE  Turnstile' /\ SignalKept'
BY DEF Turnstile, SignalKept, Same, Takers, InState

LEMMA SameSteps ==
  ASSUME TypeOK, [Next]_vars
  PROVE  \/ Same
         \/ MgrStep \/ ClearUndoWork \/ DestroyPool
         \/ \E w \in Threads : GetJobWait(w) \/ (\E j \in Jobs : GetJobTake(w, j)) \/ GetJobAbort(w)
         \/ StopFire \/ StopBegin \/ DestroyBegin
<1> USE DEF Same, TypeOK, WorkersType, events, handoff, owner, workers
<1>1. ASSUME NEW s \in Submitters, SubmitStep(s) \/ \E j \in Jobs : SubmitCheck(s, j)
      PROVE  Same
  <2>1. CASE SubmitGrow(s)
    BY <1>1, <2>1 DEF SubmitGrow, AddJobThread, InState
  <2> QED
    BY <1>1, <2>1 DEF SubmitStep, SubmitCheck, SubmitIndex, SubmitInsert
<1>2. ReaperStep \/ CleanJob => Same
  BY DEF ReaperStep, ReaperCheck, ReaperPop, ReaperJoin, CleanJob, JoinType
<1>3. ASSUME NEW w \in Threads, WorkerStep(w)
      PROVE  \/ Same \/ GetJobWait(w) \/ (\E j \in Jobs : GetJobTake(w, j)) \/ GetJobAbort(w)
  <2>1. CASE CheckSubtract(w)
    <3>1. tpc[w] = "check" /\ UNCHANGED <<mgr, job_needed_event, sem_notify_got, stops, destroys>>
      BY <2>1 DEF CheckSubtract
    <3>2. PICK pc : /\ pc = [tpc EXCEPT ![w] = "get"]
                    /\ tpc' = pc \/ \E v \in Threads : pc[v] = "wait" /\ tpc' = [pc EXCEPT ![v] = "leave"]
      BY <2>1 DEF CheckSubtract, SignalOne, HandOver, NobodyWaits
    <3> QED
      BY <3>1, <3>2
  <2>2. CASE WorkerMap(w) \/ WorkerStart(w) \/ RunJob(w) \/ EndJob(w)
    BY <2>2 DEF WorkerMap, WorkerStart, RunJob, EndJob
  <2>3. CASE LeaveLock(w) \/ LeaveUnfound(w) \/ LeaveMove(w) \/ WorkerCount(w) \/ WorkerLast(w)
    BY <2>3 DEF LeaveLock, LeaveUnfound, LeaveMove, WorkerCount, WorkerLast
  <2> QED
    BY <1>3, <2>1, <2>2, <2>3 DEF WorkerStep
<1>4. ASSUME OwnerStep \/ OwnerCall
      PROVE  Same \/ ClearUndoWork \/ DestroyPool \/ StopFire \/ StopBegin \/ DestroyBegin
  <2>1. CASE Start
    BY <2>1 DEF Start, AddJobThread, InState
  <2> QED
    BY <1>4, <2>1 DEF OwnerStep, OwnerCall, StopSee, StopEnd, WaitReturn, DestroyJoin, WaitCall
<1>5. ASSUME NEW c \in Cancellers, CancelStep(c) \/ \E id \in 1..job_index : CancelJob(c, id)
      PROVE  Same
  BY <1>5 DEF CancelStep, CancelJob, CancelSem, CancelRequest, CancelSync
<1>6. UNCHANGED vars => Same
  BY DEF vars
<1> QED
  BY <1>1, <1>2, <1>3, <1>4, <1>5, <1>6 DEF Next

\* A worker that was handed the job event finds a job: the manager has taken a
\* count for it and only a canceller inside waiting_jobs_lock_ can owe one.
LEMMA TakerFindsJob ==
  ASSUME TypeOK, LockInv, Turnstile, TokensMatchJobs
  PROVE  GetJobNeverEmpty
<1> SUFFICES ASSUME clears = 0, NEW w \in Threads, tpc[w] = "take", waiting_lock = NoOwner
             PROVE  set_waiting_jobs # {}
  BY DEF GetJobNeverEmpty
<1>1. mgr = "ack" /\ sem_notify_got = 0
  BY DEF Turnstile, Takers, InState, TypeOK, HandoffType
<1>2. Owed = 0
  BY PoolAssumption DEF Owed, LockInv
<1>3. Cardinality(set_waiting_jobs) = sem_job_needed + 1
  BY <1>1, <1>2, WaitingFinite DEF TokensMatchJobs, InFlight, TypeOK, HandoffType
<1> QED
  BY <1>3, FS_EmptySet DEF TypeOK, HandoffType

LEMMA TurnstileStep ==
  ASSUME TypeOK, OwnerInv, LockInv, clears = 0, Turnstile, SignalKept, TokensMatchJobs,
         [Next]_vars, clears' = 0
  PROVE  Turnstile' /\ SignalKept'
<1> USE DEF Turnstile, SignalKept, Takers, InState, TypeOK, HandoffType, WorkersType, events, handoff,
            workers, owner
<1>1. CASE MgrTake
  BY <1>1 DEF MgrTake
<1>2. CASE MgrSignal
  <2>1. PICK pc : pc = tpc /\ \/ job_needed_event' = TRUE /\ tpc' = pc
                              \/ /\ job_needed_event' = job_needed_event
                                 /\ \E w \in Threads : tpc' = [pc EXCEPT ![w] = "take"]
    BY <1>2 DEF MgrSignal, SignalOne, HandOver, NobodyWaits
  <2>2. mgr = "signal" /\ mgr' = "ack" /\ sem_notify_got' = sem_notify_got
    BY <1>2 DEF MgrSignal
  <2> QED
    BY <2>1, <2>2
<1>3. CASE MgrAck
  BY <1>3 DEF MgrAck
<1>4. ASSUME NEW w \in Threads, GetJobWait(w) PROVE Turnstile' /\ SignalKept'
  BY <1>4 DEF GetJobWait
<1>5. ASSUME NEW w \in Threads, NEW j \in Jobs, GetJobTake(w, j) PROVE Turnstile' /\ SignalKept'
  BY <1>5 DEF GetJobTake
<1>6. ASSUME NEW w \in Threads, GetJobAbort(w) PROVE Turnstile' /\ SignalKept'
  BY <1>6, TakerFindsJob DEF GetJobAbort, GetJobNeverEmpty
<1>7. CASE StopFire
  BY <1>7 DEF StopFire, OwnerInv, Stopping, OwnerType
<1>8. CASE StopBegin \/ DestroyBegin
  BY <1>8 DEF StopBegin, DestroyBegin, OwnerType
<1> QED
  BY <1>1, <1>2, <1>3, <1>4, <1>5, <1>6, <1>7, <1>8, SameSteps, SameKeeps, ClearsGrow DEF MgrStep

\* Only these steps touch the counts, the jobs or a canceller.
LEMMA TokenSteps ==
  ASSUME [Next]_vars
  PROVE  \/ UNCHANGED <<sem_job_needed, sem_notify_got, mgr, set_waiting_jobs, cpc>>
         \/ \E s \in Submitters : SubmitInsert(s)
         \/ MgrStep \/ ClearUndoWork \/ DestroyPool
         \/ \E w \in Threads, j \in Jobs : GetJobTake(w, j)
         \/ \E c \in Cancellers : CancelStep(c) \/ \E id \in 1..job_index : CancelJob(c, id)
<1> USE DEF handoff, jobvars, cancelv
<1>1. ASSUME NEW s \in Submitters, SubmitStep(s) \/ \E j \in Jobs : SubmitCheck(s, j)
      PROVE  SubmitInsert(s) \/ UNCHANGED <<sem_job_needed, sem_notify_got, mgr, set_waiting_jobs, cpc>>
  BY <1>1 DEF SubmitStep, SubmitCheck, SubmitIndex, SubmitGrow
<1>2. ReaperStep \/ CleanJob => UNCHANGED <<sem_job_needed, sem_notify_got, mgr, set_waiting_jobs, cpc>>
  BY DEF ReaperStep, ReaperCheck, ReaperPop, ReaperJoin, CleanJob
<1>3. ASSUME NEW w \in Threads, WorkerStep(w)
      PROVE  (\E j \in Jobs : GetJobTake(w, j))
              \/ UNCHANGED <<sem_job_needed, sem_notify_got, mgr, set_waiting_jobs, cpc>>
  BY <1>3 DEF WorkerStep, WorkerMap, WorkerStart, GetJobWait, GetJobAbort, RunJob, EndJob,
              CheckSubtract, LeaveLock, LeaveUnfound, LeaveMove, WorkerCount, WorkerLast
<1>4. ASSUME OwnerStep \/ OwnerCall
      PROVE  ClearUndoWork \/ DestroyPool
              \/ UNCHANGED <<sem_job_needed, sem_notify_got, mgr, set_waiting_jobs, cpc>>
  BY <1>4 DEF OwnerStep, OwnerCall, StopSee, StopFire, StopEnd, WaitReturn, DestroyJoin,
              Start, StopBegin, WaitCall, DestroyBegin
<1> QED
  BY <1>1, <1>2, <1>3, <1>4 DEF Next, vars

LEMMA TokensStep ==
  ASSUME TypeOK, SubmitInv, LockInv, OwnerInv, clears = 0, Turnstile, TokensMatchJobs,
         [Next]_vars, clears' = 0
  PROVE  TokensMatchJobs'
<1> USE WaitingFinite DEF TokensMatchJobs, InFlight, Owed, TypeOK, HandoffType
<1>1. CASE UNCHANGED <<sem_job_needed, sem_notify_got, mgr, set_waiting_jobs, cpc>>
  BY <1>1
<1>2. ASSUME NEW s \in Submitters, SubmitInsert(s) PROVE TokensMatchJobs'
  <2>1. sjob[s] \notin set_waiting_jobs
    BY <1>2 DEF SubmitInsert, SubmitInv, Submitting
  <2>2. Cardinality(set_waiting_jobs') = Cardinality(set_waiting_jobs) + 1
    BY <1>2, <2>1, FS_AddElement DEF SubmitInsert
  <2> QED
    BY <1>2, <2>2 DEF SubmitInsert, cancelv
<1>3. CASE MgrTake
  <2>1. opc \notin {"dmgr", "dreaper", "dcleaner", "destroyed"}
    BY DEF OwnerInv
  <2> QED
    BY <1>3, <2>1 DEF MgrTake, SemJobAvailable, jobvars, cancelv
<1>4. CASE MgrSignal
  BY <1>4 DEF MgrSignal, Turnstile, jobvars, cancelv
<1>5. CASE MgrAck
  BY <1>5 DEF MgrAck, Turnstile, jobvars, cancelv
<1>6. ASSUME NEW w \in Threads, NEW j \in Jobs, GetJobTake(w, j) PROVE TokensMatchJobs'
  <2>1. mgr = "ack" /\ sem_notify_got = 0
    BY <1>6 DEF GetJobTake, Turnstile, Takers, InState
  <2>2. Cardinality(set_waiting_jobs') = Cardinality(set_waiting_jobs) - 1
    BY <1>6, FS_RemoveElement DEF GetJobTake, First
  <2> QED
    BY <1>6, <2>1, <2>2 DEF GetJobTake, cancelv
<1>7. ASSUME NEW c \in Cancellers, NEW id \in 1..job_index, CancelJob(c, id) PROVE TokensMatchJobs'
  <2>1. \A d \in Cancellers : cpc[d] = "idle"
    BY <1>7, PoolAssumption DEF CancelJob, LockInv
  <2>2. Owed = 0 /\ UNCHANGED handoff
    BY <1>7, <2>1 DEF CancelJob
  <2>3. CASE \E j \in set_waiting_jobs : /\ set_waiting_jobs' = set_waiting_jobs \ {j}
                                        /\ cpc' = [cpc EXCEPT ![c] = "sem"]
    <3>1. Cardinality(set_waiting_jobs') = Cardinality(set_waiting_jobs) - 1
      BY <2>3, FS_RemoveElement
    <3>2. Owed' = 1
      BY <2>3 DEF CancelType
    <3> QED
      BY <2>2, <3>1, <3>2 DEF handoff
  <2>4. CASE /\ set_waiting_jobs' = set_waiting_jobs
             /\ cpc' = cpc \/ cpc' = [cpc EXCEPT ![c] = "request"]
    <3>1. Owed' = 0
      BY <2>1, <2>4 DEF CancelType
    <3> QED
      BY <2>2, <2>4, <3>1 DEF handoff
  <2> QED
    BY <1>7, <2>3, <2>4 DEF CancelJob
<1>8. ASSUME NEW c \in Cancellers, CancelSem(c) PROVE TokensMatchJobs'
  <2>1. \A d \in Cancellers : d # c => cpc[d] = "idle"
    BY <1>8 DEF CancelSem, LockInv
  <2>2. Owed = 1 /\ Owed' = 0
    BY <1>8, <2>1 DEF CancelSem, CancelType
  <2> QED
    BY <1>8, <2>2 DEF CancelSem, SemJobAvailable, jobvars
<1>9. ASSUME NEW c \in Cancellers, CancelRequest(c) \/ CancelSync(c) PROVE TokensMatchJobs'
  <2>1. \A d \in Cancellers : d # c => cpc[d] = "idle"
    BY <1>9 DEF CancelRequest, CancelSync, LockInv
  <2>2. Owed = 0 /\ Owed' = 0
    BY <1>9, <2>1 DEF CancelRequest, CancelSync, CancelType
  <2> QED
    BY <1>9, <2>2 DEF CancelRequest, CancelSync, handoff, jobvars
<1> QED
  BY <1>1, <1>2, <1>3, <1>4, <1>5, <1>6, <1>7, <1>8, <1>9, TokenSteps, ClearsGrow
     DEF MgrStep, CancelStep

-----------------------------------------------------------------------------
(***************************************************************************)
(* The theorems.                                                           *)
(***************************************************************************)

LEMMA PoolInvInit == Init => PoolInv
<1> SUFFICES ASSUME Init PROVE PoolInv
  OBVIOUS
<1>1. TypeOK
  BY TypeInit
<1>2. SubmitInv /\ LockInv /\ OwnerInv /\ ReaperInv
  BY PoolAssumption DEF Init, SubmitInv, Submitting, LockInv, OwnerInv, Stopping, ReaperInv
<1>3. Takers = {} /\ InFlight = 0 /\ Owed = 0
  BY DEF Init, Takers, InState, InFlight, Owed
<1>4. HandoffInv
  BY <1>3, FS_EmptySet DEF Init, HandoffInv, Turnstile, SignalKept, TokensMatchJobs
<1> QED
  BY <1>1, <1>2, <1>4 DEF PoolInv

LEMMA PoolInvStep == PoolInv /\ [Next]_vars => PoolInv'
<1> SUFFICES ASSUME PoolInv, [Next]_vars PROVE PoolInv'
  OBVIOUS
<1>1. TypeOK'
  BY TypeStep DEF PoolInv
<1>2. SubmitInv' /\ LockInv' /\ OwnerInv' /\ ReaperInv'
  BY SubmitInvStep, LockInvStep, OwnerInvStep, ReaperInvStep DEF PoolInv
<1>3. HandoffInv'
  BY ClearsGrow, TurnstileStep, TokensStep DEF PoolInv, HandoffInv
<1> QED
  BY <1>1, <1>2, <1>3 DEF PoolInv

\* PoolInv is an invariant of the pool: it holds at first and every step of
\* rthreadpool.cpp keeps it.
THEOREM PoolInvariant == Spec => []PoolInv
BY PoolInvInit, PoolInvStep, PTL DEF Spec

\* The variables keep their types (RThreadPool's state in rthreadpool.h:128-170).
THEOREM TypeCorrect == Spec => []TypeOK
<1>1. PoolInv => TypeOK
  BY DEF PoolInv
<1> QED
  BY <1>1, PoolInvariant, PTL

\* One job signal at a time, and the semaphore counts the waiting jobs, until
\* clearUndoWork is called (rthreadpool.cpp:15-46, 356-369, 537-555, 682-684).
THEOREM HandoffCorrect == Spec => []HandoffInv
<1>1. PoolInv => HandoffInv
  BY DEF PoolInv
<1> QED
  BY <1>1, PoolInvariant, PTL

\* TPASSERT(!set_waiting_jobs_.empty()) of _getJob (rthreadpool.cpp:541) holds in
\* a pool on which clearUndoWork is not called.
THEOREM NeverEmptyWithoutClear == Spec => []GetJobNeverEmpty
<1>1. PoolInv => GetJobNeverEmpty
  BY TakerFindsJob DEF PoolInv, HandoffInv, GetJobNeverEmpty
<1> QED
  BY <1>1, PoolInvariant, PTL

-----------------------------------------------------------------------------
(***************************************************************************)
(* The number of workers.                                                  *)
(***************************************************************************)
Working == {w \in Threads : tpc[w] \notin {"none", "count", "last", "done"}}

LEMMA WorkingFinite == IsFiniteSet(Working) /\ Cardinality(Working) \in Nat
<1>1. Working \in SUBSET Threads
  BY DEF Working
<1> QED
  BY <1>1, PoolAssumption, FS_Subset, FS_CardinalityType

\* A thread leaves the count when it is queued, or when it is not found.
Leaves(w) == LeaveMove(w) \/ LeaveUnfound(w)

\* Threads are added only by _addJobThread and leave only so.
LEMMA WorkingSteps ==
  ASSUME TypeOK, [Next]_vars
  PROVE  \/ Working' = Working /\ last_running_thread' = last_running_thread
         \/ \E n \in Nat : AddJobThread(n)
         \/ \E w \in Threads : Leaves(w)
<1> DEFINE Kept == Working' = Working /\ last_running_thread' = last_running_thread
<1>0. ASSUME last_running_thread' = last_running_thread,
             \A w \in Threads : \/ tpc'[w] = tpc[w]
                                \/ tpc[w] \notin {"none", "count", "last", "done"}
                                   /\ tpc'[w] \notin {"none", "count", "last", "done"}
                                \/ tpc[w] \in {"none", "count", "last", "done"}
                                   /\ tpc'[w] \in {"none", "count", "last", "done"}
      PROVE  Kept
  BY <1>0 DEF Working
<1> HIDE DEF Kept
<1> USE DEF counts, workers
<1>00. tpc \in [Threads -> WorkerStates]
  BY DEF TypeOK, WorkersType
<1>1. ASSUME NEW s \in Submitters, SubmitStep(s) \/ \E j \in Jobs : SubmitCheck(s, j)
      PROVE  Kept \/ \E n \in Nat : AddJobThread(n)
  <2>1. CASE SubmitGrow(s)
    BY <2>1, <1>0 DEF SubmitGrow
  <2> QED
    BY <1>0, <1>1, <2>1 DEF SubmitStep, SubmitCheck, SubmitIndex, SubmitInsert
<1>2. ASSUME MgrStep PROVE Kept
  <2>1. CASE MgrSignal
    <3>1. tpc' = tpc \/ \E w \in Threads : tpc[w] = "wait" /\ tpc' = [tpc EXCEPT ![w] = "take"]
      BY <2>1 DEF MgrSignal, SignalOne, HandOver, NobodyWaits
    <3> QED
      BY <1>0, <1>00, <2>1, <3>1 DEF MgrSignal
  <2> QED
    BY <1>0, <1>2, <2>1 DEF MgrStep, MgrTake, MgrAck
<1>3. ASSUME ReaperStep \/ CleanJob PROVE Kept
  BY <1>0, <1>00, <1>3 DEF ReaperStep, ReaperCheck, ReaperPop, ReaperJoin, CleanJob
<1>4. ASSUME NEW w \in Threads, WorkerStep(w) PROVE Kept \/ Leaves(w)
  <2>1. CASE CheckSubtract(w)
    <3>1. tpc[w] = "check" /\ last_running_thread' = last_running_thread
      BY <2>1 DEF CheckSubtract
    <3>2. PICK pc : /\ pc = [tpc EXCEPT ![w] = "get"]
                    /\ tpc' = pc \/ \E v \in Threads : pc[v] = "wait" /\ tpc' = [pc EXCEPT ![v] = "leave"]
      BY <2>1 DEF CheckSubtract, SignalOne, HandOver, NobodyWaits
    <3> QED
      BY <1>0, <1>00, <3>1, <3>2
  <2>2. CASE WorkerMap(w) \/ WorkerStart(w) \/ GetJobWait(w) \/ GetJobAbort(w) \/ \E j \in Jobs : GetJobTake(w, j)
    BY <1>0, <1>00, <2>2 DEF WorkerMap, WorkerStart, GetJobWait, GetJobAbort, GetJobTake
  <2>3. CASE RunJob(w) \/ EndJob(w) \/ LeaveLock(w) \/ WorkerCount(w) \/ WorkerLast(w)
    BY <1>0, <1>00, <2>3 DEF RunJob, EndJob, LeaveLock, WorkerCount, WorkerLast
  <2> QED
    BY <1>4, <2>1, <2>2, <2>3 DEF WorkerStep, Leaves
<1>5. ASSUME OwnerStep \/ OwnerCall PROVE Kept \/ \E n \in Nat : AddJobThread(n)
  <2>1. CASE Start
    BY <1>0, <2>1, PoolAssumption DEF Start
  <2>2. CASE StopFire
    BY <1>0, <1>00, <2>2 DEF StopFire
  <2> QED
    BY <1>0, <1>5, <2>1, <2>2 DEF OwnerStep, OwnerCall, StopSee, StopEnd, WaitReturn, DestroyPool,
                           DestroyJoin, StopBegin, WaitCall, ClearUndoWork, DestroyBegin
<1>6. ASSUME NEW c \in Cancellers, CancelStep(c) \/ \E id \in 1..job_index : CancelJob(c, id)
      PROVE  Kept
  BY <1>0, <1>6 DEF CancelStep, CancelJob, CancelSem, CancelRequest, CancelSync
<1>7. UNCHANGED vars => Kept
  BY <1>0 DEF vars
<1> QED
  BY <1>1, <1>2, <1>3, <1>4, <1>5, <1>6, <1>7 DEF Next, Kept

LEMMA WorkingStep ==
  ASSUME TypeOK, WorkersWithinMax, [Next]_vars
  PROVE  WorkersWithinMax'
<1>1. Cardinality(Working) = last_running_thread /\ last_running_thread <= MaxThreads
  BY DEF WorkersWithinMax, Working
<1>2. last_running_thread \in Nat /\ MaxThreads \in Nat
  BY <1>1, WorkingFinite, PoolAssumption
<1>3. tpc \in [Threads -> WorkerStates]
  BY DEF TypeOK, WorkersType
<1>4. ASSUME Cardinality(Working') = last_running_thread', last_running_thread' <= MaxThreads
      PROVE  WorkersWithinMax'
  BY <1>4 DEF WorkersWithinMax, Working
<1>5. ASSUME NEW n \in Nat, AddJobThread(n) PROVE WorkersWithinMax'
  <2> DEFINE add == IF Room < n THEN Room ELSE n
  <2>1. PICK S \in SUBSET InState("none") :
          /\ Cardinality(S) = add /\ last_running_thread' = last_running_thread + add
          /\ tpc' = [w \in Threads |-> IF w \in S THEN "spawned" ELSE tpc[w]]
    BY <1>5 DEF AddJobThread
  <2>2. S \in SUBSET Threads /\ S \cap Working = {} /\ Working' = Working \cup S
    BY <2>1 DEF InState, Working
  <2>3. Cardinality(Working \cup S) = Cardinality(Working) + Cardinality(S)
    <3>1. IsFiniteSet(S) /\ Cardinality(S) \in Nat
      BY <2>2, PoolAssumption, FS_Subset, FS_CardinalityType
    <3>2. Working \cap S = {}
      BY <2>2
    <3>3. Cardinality(Working \cup S) = Cardinality(Working) + Cardinality(S) - Cardinality(Working \cap S)
      BY <3>1, WorkingFinite, FS_Union
    <3>4. Cardinality(Working \cap S) = 0
      BY <3>2, FS_EmptySet
    <3> HIDE DEF add
    <3> QED
      BY <3>1, <3>3, <3>4, WorkingFinite
  <2>4. add \in Nat /\ last_running_thread + add <= MaxThreads
    BY <1>1, <1>2 DEF Room
  <2> QED
    BY <1>1, <1>2, <1>4, <2>1, <2>2, <2>3, <2>4
<1>6. ASSUME NEW w \in Threads, Leaves(w) PROVE WorkersWithinMax'
  <2>1. w \in Working /\ Working' = Working \ {w} /\ last_running_thread' = last_running_thread - 1
    BY <1>3, <1>6 DEF Leaves, LeaveMove, LeaveUnfound, Working
  <2> QED
    BY <1>1, <1>2, <1>4, <2>1, WorkingFinite, FS_RemoveElement
<1> QED
  BY <1>1, <1>4, <1>5, <1>6, WorkingSteps

\* The threads counted are the threads that still take part, and never more than start
\* asked for, however submitters, leaving workers and restarts meet.
THEOREM NeverTooManyWorkers == Spec => []WorkersWithinMax
<1>1. Init => WorkersWithinMax
  <2> SUFFICES ASSUME Init PROVE WorkersWithinMax
    OBVIOUS
  <2>1. Working = {}
    BY DEF Init, Working
  <2>2. Cardinality(Working) = 0
    BY <2>1, FS_EmptySet
  <2>3. last_running_thread = 0 /\ 0 <= MaxThreads
    BY PoolAssumption DEF Init
  <2> QED
    BY <2>2, <2>3 DEF WorkersWithinMax, Working
<1>2. PoolInv => TypeOK
  BY DEF PoolInv
<1>3. TypeOK /\ WorkersWithinMax /\ [Next]_vars => WorkersWithinMax'
  BY WorkingStep
<1> QED
  BY <1>1, <1>2, <1>3, PoolInvariant, PTL DEF Spec

-----------------------------------------------------------------------------
(***************************************************************************)
(* Where a job can be, however many threads submit.  Two of them may give  *)
(* their jobs one id; of these two, Twins, less is promised.               *)
(***************************************************************************)
AtCaller(j) == j \in unsubmitted \cup rejected
AtSubmitter(j) == \E s \in Submitters : sjob[s] = j /\ spc[s] # "grow"
AtWorker(j) == \E w \in Threads : tjob[w] = j
AtCleaner(j) == \E i \in DOMAIN deque_clear_job : deque_clear_job[i] = j
Gone(j) == AtCleaner(j) \/ j \in deleted

AtMostOne(a, b, c, d) == (a => ~b /\ ~c /\ ~d) /\ (b => ~c /\ ~d) /\ (c => ~d)

\* A job is somewhere, and nowhere else; a twin may be gone while a worker has it.
InOnePlace(j) ==
  /\ AtMostOne(AtCaller(j), AtSubmitter(j), j \in set_waiting_jobs, AtWorker(j))
  /\ AtCaller(j) \/ AtSubmitter(j) \/ j \in set_waiting_jobs => ~Gone(j)
  /\ ~(AtCleaner(j) /\ j \in deleted)
  /\ ~Twin(j) => /\ AtWorker(j) => ~Gone(j)
                 /\ AtCaller(j) \/ AtSubmitter(j) \/ j \in set_waiting_jobs \/ AtWorker(j) \/ Gone(j)

\* ... and with one thread, one worker and one record of the queue.
SubmitterBusy ==
  /\ unsubmitted \cap rejected = {}
  /\ \A s \in Submitters : sjob[s] # NoJob <=> spc[s] # "idle"
SubmitterOnce ==
  \A r, s \in Submitters :
    sjob[r] # NoJob /\ sjob[r] = sjob[s] /\ spc[r] # "grow" /\ spc[s] # "grow" => r = s
WorkerBusy == \A w \in Threads : tjob[w] # NoJob <=> tpc[w] \in {"begin", "run", "end"}
WorkerOnce == \A v, w \in Threads : tjob[v] # NoJob /\ tjob[v] = tjob[w] => v = w
CleanOnce ==
  \A i, k \in DOMAIN deque_clear_job :
    deque_clear_job[i] \in Jobs /\ deque_clear_job[i] = deque_clear_job[k] => i = k

\* A job has an id from its insertion on.
Numbered ==
  /\ \A s \in Submitters : spc[s] = "insert" => job_index > 0
  /\ \A j \in Jobs : /\ AtCaller(j) \/ AtSubmitter(j) => job_id[j] = 0
                     /\ j \in set_waiting_jobs \/ AtWorker(j) => job_id[j] # 0

\* map_doing_jobs has each running job but for twins, and none that is gone.
DoingThere == \A j \in Jobs : AtWorker(j) /\ ~Twin(j) => <<job_id[j], j>> \in map_doing_jobs
DoingTaken ==
  \A e \in map_doing_jobs :
    /\ e[1] = job_id[e[2]]
    /\ ~AtCaller(e[2]) /\ ~AtSubmitter(e[2]) /\ e[2] \notin set_waiting_jobs /\ ~Gone(e[2])

PlaceInv ==
  /\ \A j \in Jobs : InOnePlace(j)
  /\ SubmitterBusy /\ SubmitterOnce /\ WorkerBusy /\ WorkerOnce /\ CleanOnce
  /\ Numbered /\ DoingThere /\ DoingTaken

-----------------------------------------------------------------------------
(***************************************************************************)
(* Ids: _insert reads job_index_, which never falls.                       *)
(***************************************************************************)

\* Only these steps touch where a job is or its id.
placevars == <<spc, sjob, unsubmitted, rejected, set_waiting_jobs, tjob, deque_clear_job, deleted,
               map_doing_jobs, job_id, job_index, overlapped>>

LEMMA PlaceSteps ==
  ASSUME [Next]_vars
  PROVE  \/ UNCHANGED placevars
         \/ \E s \in Submitters : SubmitStep(s) \/ \E j \in Jobs : SubmitCheck(s, j)
         \/ \E w \in Threads : EndJob(w) \/ \E j \in Jobs : GetJobTake(w, j)
         \/ CleanJob \/ ClearUndoWork \/ DestroyPool \/ DestroyJoin
         \/ \E c \in Cancellers, id \in 1..job_index : CancelJob(c, id)
<1> USE DEF placevars, handoff, jobvars, cleanvars, workers, callers
<1>1. MgrStep \/ ReaperStep => UNCHANGED placevars
  BY DEF MgrStep, MgrTake, MgrSignal, MgrAck, ReaperStep, ReaperCheck, ReaperPop, ReaperJoin
<1>2. ASSUME NEW w \in Threads, WorkerStep(w)
      PROVE  EndJob(w) \/ (\E j \in Jobs : GetJobTake(w, j)) \/ UNCHANGED placevars
  BY <1>2 DEF WorkerStep, WorkerMap, WorkerStart, GetJobWait, GetJobAbort, RunJob, CheckSubtract,
              LeaveLock, LeaveUnfound, LeaveMove, WorkerCount, WorkerLast
<1>3. OwnerStep \/ OwnerCall => ClearUndoWork \/ DestroyPool \/ DestroyJoin \/ UNCHANGED placevars
  BY DEF OwnerStep, OwnerCall, StopSee, StopFire, StopEnd, WaitReturn, Start, StopBegin, WaitCall, DestroyBegin
<1>4. ASSUME NEW c \in Cancellers, CancelStep(c) PROVE UNCHANGED placevars
  BY <1>4 DEF CancelStep, CancelSem, CancelRequest, CancelSync
<1> QED
  BY <1>1, <1>2, <1>3, <1>4 DEF Next, vars

\* What an id is compared with: ids, the counter, and who is between the two.
idvars == <<job_id, job_index, overlapped, {s \in Submitters : spc[s] = "insert"}>>

LEMMA IdSteps ==
  ASSUME TypeOK, [Next]_vars
  PROVE  UNCHANGED idvars \/ \E s \in Submitters : SubmitIndex(s) \/ SubmitInsert(s)
<1> USE DEF handoff, jobvars, cleanvars, workers, callers
<1> DEFINE Goal == UNCHANGED idvars \/ \E s \in Submitters : SubmitIndex(s) \/ SubmitInsert(s)
<1>0. ASSUME UNCHANGED <<job_id, job_index, overlapped, spc>> PROVE Goal
  BY <1>0 DEF idvars
<1>1. ASSUME NEW s \in Submitters, SubmitGrow(s) \/ \E j \in Jobs : SubmitCheck(s, j) PROVE Goal
  <2>1. UNCHANGED <<job_id, job_index, overlapped>>
    BY <1>1 DEF SubmitGrow, SubmitCheck
  <2>2. \A r \in Submitters : spc'[r] = "insert" <=> spc[r] = "insert"
    BY <1>1 DEF SubmitGrow, SubmitCheck, TypeOK, CallersType
  <2>3. {r \in Submitters : spc'[r] = "insert"} = {r \in Submitters : spc[r] = "insert"}
    BY <2>2
  <2> QED
    BY <2>1, <2>3 DEF idvars
<1>2. ASSUME NEW w \in Threads, EndJob(w) \/ \E j \in Jobs : GetJobTake(w, j) PROVE Goal
  BY <1>0, <1>2 DEF EndJob, GetJobTake
<1>3. CASE CleanJob \/ ClearUndoWork \/ DestroyPool \/ DestroyJoin
  BY <1>0, <1>3 DEF CleanJob, ClearUndoWork, DestroyPool, DestroyJoin, DropWaiting
<1>4. ASSUME NEW c \in Cancellers, NEW id \in 1..job_index, CancelJob(c, id) PROVE Goal
  BY <1>0, <1>4 DEF CancelJob
<1>5. CASE UNCHANGED placevars
  BY <1>0, <1>5 DEF placevars
<1> HIDE DEF Goal
<1>6. ASSUME NEW s \in Submitters, SubmitIndex(s) \/ SubmitInsert(s) PROVE Goal
  BY <1>6 DEF Goal
<1> QED
  BY <1>1, <1>2, <1>3, <1>4, <1>5, <1>6, PlaceSteps DEF SubmitStep, Goal

\* No id is above the counter, and only the jobs inserted since a submitter's
\* fetch_add can have the number that it will read.
IdsInv ==
  /\ \A j \in Jobs : job_id[j] <= job_index
  /\ \A s \in Submitters : spc[s] = "insert" => \A k \in Jobs \ overlapped[s] : job_id[k] < job_index

NewIdLarger ==
  \A s \in Submitters : spc[s] = "insert" /\ spc'[s] = "grow" =>
    \A k \in Jobs : \/ job_id[k] < job_id'[sjob[s]]
                    \/ k \in overlapped[s] /\ job_id[k] = job_id'[sjob[s]]

LEMMA IdsStep ==
  ASSUME TypeOK, SubmitInv, IdsInv, [Next]_vars
  PROVE  IdsInv' /\ NewIdLarger
<1> USE DEF TypeOK, JobsType, CallersType
<1>1. ASSUME NEW s \in Submitters, SubmitIndex(s) PROVE IdsInv' /\ NewIdLarger
  <2>1. /\ job_id' = job_id /\ job_index' = job_index + 1 /\ overlapped' = overlapped
        /\ spc[s] = "index" /\ spc' = [spc EXCEPT ![s] = "insert"]
    BY <1>1 DEF SubmitIndex, NextIndex
  <2>2. IdsInv'
    BY <2>1 DEF IdsInv
  <2>3. NewIdLarger
    BY <2>1 DEF NewIdLarger
  <2> QED
    BY <2>2, <2>3
<1>2. ASSUME NEW s \in Submitters, SubmitInsert(s) PROVE IdsInv' /\ NewIdLarger
  <2>1. PICK j \in Jobs : j = sjob[s]
    BY <1>2 DEF SubmitInsert, SubmitInv, Submitting
  <2>2. /\ job_id' = [job_id EXCEPT ![j] = job_index] /\ job_index' = job_index
        /\ spc[s] = "insert" /\ spc' = [spc EXCEPT ![s] = "grow"]
        /\ \A r \in Submitters : r # s /\ spc[r] = "insert" => overlapped'[r] = overlapped[r] \cup {j}
    BY <1>2, <2>1 DEF SubmitInsert
  <2>3. \A k \in Jobs : job_id'[k] <= job_index
    BY <2>1, <2>2 DEF IdsInv
  <2>4. ASSUME NEW r \in Submitters, spc'[r] = "insert", NEW k \in Jobs \ overlapped'[r]
        PROVE  job_id'[k] < job_index
    <3>1. r # s /\ spc[r] = "insert"
      BY <2>2, <2>4
    <3>2. k # j /\ k \notin overlapped[r]
      BY <2>2, <2>4, <3>1
    <3> QED
      BY <2>1, <2>2, <3>1, <3>2 DEF IdsInv
  <2>5. IdsInv'
    BY <2>2, <2>3, <2>4 DEF IdsInv
  <2>6. NewIdLarger
    <3> SUFFICES ASSUME NEW r \in Submitters, spc[r] = "insert", spc'[r] = "grow", NEW k \in Jobs
                 PROVE  \/ job_id[k] < job_id'[sjob[r]]
                        \/ k \in overlapped[r] /\ job_id[k] = job_id'[sjob[r]]
      BY DEF NewIdLarger
    <3>1. r = s
      BY <2>2
    <3>2. job_id'[sjob[r]] = job_index
      BY <2>1, <2>2, <3>1
    <3>3. job_id[k] <= job_index /\ (k \notin overlapped[r] => job_id[k] < job_index)
      BY DEF IdsInv
    <3> QED
      BY <3>2, <3>3
  <2> QED
    BY <2>5, <2>6
<1>3. ASSUME UNCHANGED idvars PROVE IdsInv' /\ NewIdLarger
  <2>1. UNCHANGED <<job_id, job_index, overlapped>>
    BY <1>3 DEF idvars
  <2>2. \A r \in Submitters : spc'[r] = "insert" <=> spc[r] = "insert"
    <3>1. {r \in Submitters : spc'[r] = "insert"} = {r \in Submitters : spc[r] = "insert"}
      BY <1>3 DEF idvars
    <3> QED
      BY <3>1
  <2>3. IdsInv'
    BY <2>1, <2>2 DEF IdsInv
  <2>4. NewIdLarger
    BY <2>2 DEF NewIdLarger
  <2> QED
    BY <2>3, <2>4
<1> QED
  BY <1>1, <1>2, <1>3, IdSteps

\* A job's id is larger than the ids of all jobs inserted before its submitter's
\* fetch_add, and no smaller than those inserted between that and its turn at the
\* lock, however many threads submit (rthreadpool.cpp:354-366).
THEOREM IdsInOrder == Spec => InsertInIdOrder
<1>1. Init => IdsInv
  BY DEF Init, IdsInv
<1>2. PoolInv => TypeOK /\ SubmitInv
  BY DEF PoolInv
<1>3. TypeOK /\ SubmitInv /\ IdsInv /\ [Next]_vars => IdsInv' /\ NewIdLarger
  BY IdsStep
<1>4. InsertInIdOrder <=> [][NewIdLarger]_vars
  BY DEF InsertInIdOrder, NewIdLarger
<1> QED
  BY <1>1, <1>2, <1>3, <1>4, PoolInvariant, PTL DEF Spec

-----------------------------------------------------------------------------
(***************************************************************************)
(* A worker has a job while it runs it.                                    *)
(***************************************************************************)
Busy == {"begin", "run", "end"}

LEMMA WorkerBusyStep ==
  ASSUME TypeOK, WorkerBusy, [Next]_vars
  PROVE  WorkerBusy'
<1>1. tpc \in [Threads -> WorkerStates] /\ tjob \in [Threads -> Jobs \cup {NoJob}]
  BY DEF TypeOK, WorkersType
<1>2. ASSUME tjob' = tjob,
             \A w \in Threads : tpc'[w] = tpc[w] \/ (tpc[w] \notin Busy /\ tpc'[w] \notin Busy)
      PROVE  WorkerBusy'
  BY <1>2 DEF WorkerBusy, Busy
<1> USE DEF workers, Busy
<1>3. ASSUME NEW n \in Nat, AddJobThread(n), tjob' = tjob PROVE WorkerBusy'
  BY <1>1, <1>2, <1>3 DEF AddJobThread, InState
<1>4. ASSUME NEW s \in Submitters, SubmitStep(s) \/ \E j \in Jobs : SubmitCheck(s, j)
      PROVE  WorkerBusy'
  <2>1. CASE SubmitGrow(s)
    BY <1>2, <1>3, <2>1 DEF SubmitGrow
  <2> QED
    BY <1>2, <1>4, <2>1 DEF SubmitStep, SubmitCheck, SubmitIndex, SubmitInsert
<1>5. ASSUME MgrStep PROVE WorkerBusy'
  <2>1. CASE MgrSignal
    <3>1. tpc' = tpc \/ \E w \in Threads : tpc[w] = "wait" /\ tpc' = [tpc EXCEPT ![w] = "take"]
      BY <2>1 DEF MgrSignal, SignalOne, HandOver, NobodyWaits
    <3> QED
      BY <1>1, <1>2, <2>1, <3>1 DEF MgrSignal
  <2> QED
    BY <1>2, <1>5, <2>1 DEF MgrStep, MgrTake, MgrAck
<1>6. ASSUME ReaperStep \/ CleanJob PROVE WorkerBusy'
  BY <1>1, <1>2, <1>6 DEF ReaperStep, ReaperCheck, ReaperPop, ReaperJoin, CleanJob
<1>7. ASSUME NEW w \in Threads, WorkerStep(w) PROVE WorkerBusy'
  <2>1. CASE CheckSubtract(w)
    <3>1. tpc[w] = "check" /\ tjob' = tjob
      BY <2>1 DEF CheckSubtract
    <3>2. PICK pc : /\ pc = [tpc EXCEPT ![w] = "get"]
                    /\ tpc' = pc \/ \E v \in Threads : pc[v] = "wait" /\ tpc' = [pc EXCEPT ![v] = "leave"]
      BY <2>1 DEF CheckSubtract, SignalOne, HandOver, NobodyWaits
    <3> QED
      BY <1>1, <1>2, <3>1, <3>2
  <2>2. CASE WorkerMap(w) \/ WorkerStart(w) \/ GetJobWait(w) \/ GetJobAbort(w)
    BY <1>1, <1>2, <2>2 DEF WorkerMap, WorkerStart, GetJobWait, GetJobAbort
  <2>3. CASE LeaveLock(w) \/ LeaveUnfound(w) \/ LeaveMove(w) \/ WorkerCount(w) \/ WorkerLast(w)
    BY <1>1, <1>2, <2>3 DEF LeaveLock, LeaveUnfound, LeaveMove, WorkerCount, WorkerLast
  <2>4. CASE RunJob(w)
    BY <1>1, <2>4 DEF RunJob, WorkerBusy
  <2>5. CASE EndJob(w)
    BY <1>1, <2>5 DEF EndJob, WorkerBusy
  <2>6. ASSUME NEW j \in Jobs, GetJobTake(w, j) PROVE WorkerBusy'
    BY <1>1, <2>6, PoolAssumption DEF GetJobTake, WorkerBusy
  <2> QED
    BY <1>7, <2>1, <2>2, <2>3, <2>4, <2>5, <2>6 DEF WorkerStep
<1>8. ASSUME OwnerStep \/ OwnerCall PROVE WorkerBusy'
  <2>1. CASE Start
    BY <1>2, <1>3, <2>1, PoolAssumption DEF Start
  <2>2. CASE StopFire
    BY <1>1, <1>2, <2>2 DEF StopFire
  <2> QED
    BY <1>2, <1>8, <2>1, <2>2 DEF OwnerStep, OwnerCall, StopSee, StopEnd, WaitReturn, DestroyPool,
                           DestroyJoin, StopBegin, WaitCall, ClearUndoWork, DestroyBegin
<1>9. ASSUME NEW c \in Cancellers, CancelStep(c) \/ \E id \in 1..job_index : CancelJob(c, id)
      PROVE  WorkerBusy'
  BY <1>2, <1>9 DEF CancelStep, CancelJob, CancelSem, CancelRequest, CancelSync
<1>10. UNCHANGED vars => WorkerBusy'
  BY <1>2 DEF vars
<1> QED
  BY <1>4, <1>5, <1>6, <1>7, <1>8, <1>9, <1>10 DEF Next

-----------------------------------------------------------------------------
(***************************************************************************)
(* The cleaner's queue.                                                    *)
(***************************************************************************)

LEMMA AppendSeq ==
  ASSUME NEW S, NEW s \in Seq(S), NEW e \in S
  PROVE  /\ Append(s, e) \in Seq(S) /\ DOMAIN Append(s, e) = 1..Len(s) + 1
         /\ Append(s, e)[Len(s) + 1] = e /\ \A i \in DOMAIN s : Append(s, e)[i] = s[i]
         /\ Len(s) \in Nat /\ DOMAIN s = 1..Len(s)
OBVIOUS

LEMMA TailSeq ==
  ASSUME NEW S, NEW s \in Seq(S), s # <<>>
  PROVE  /\ Head(s) = s[1] /\ 1 \in DOMAIN s
         /\ Len(s) \in Nat \ {0} /\ DOMAIN s = 1..Len(s)
         /\ DOMAIN Tail(s) = 1..Len(s) - 1 /\ \A i \in DOMAIN Tail(s) : Tail(s)[i] = s[i + 1]
OBVIOUS

LEMMA CleanAppend ==
  ASSUME CleanType, CleanOnce, NEW e \in Jobs \cup {NoJob}, e \in Jobs => ~AtCleaner(e),
         deque_clear_job' = Append(deque_clear_job, e)
  PROVE  CleanOnce' /\ \A k \in Jobs : AtCleaner(k)' <=> AtCleaner(k) \/ k = e
<1> DEFINE s == deque_clear_job
           t == deque_clear_job'
<1>1. /\ DOMAIN t = 1..Len(s) + 1 /\ t[Len(s) + 1] = e /\ \A i \in DOMAIN s : t[i] = s[i]
      /\ Len(s) \in Nat /\ DOMAIN s = 1..Len(s)
  BY AppendSeq DEF CleanType
<1>2. \A i \in DOMAIN t : i \in DOMAIN s \/ i = Len(s) + 1
  BY <1>1
<1>3. (\A i \in DOMAIN s : i \in DOMAIN t) /\ Len(s) + 1 \in DOMAIN t
  BY <1>1
<1>4. \A k \in Jobs : AtCleaner(k) <=> \E i \in DOMAIN s : s[i] = k
  BY DEF AtCleaner
<1>5. \A k \in Jobs : AtCleaner(k)' <=> \E i \in DOMAIN t : t[i] = k
  BY DEF AtCleaner
<1>6. \A i, k \in DOMAIN s : s[i] \in Jobs /\ s[i] = s[k] => i = k
  BY DEF CleanOnce
<1>7. CleanOnce' <=> \A i, k \in DOMAIN t : t[i] \in Jobs /\ t[i] = t[k] => i = k
  BY DEF CleanOnce
<1> HIDE DEF s, t
<1>8. \A i, k \in DOMAIN t : t[i] \in Jobs /\ t[i] = t[k] => i = k
  BY <1>1, <1>2, <1>4, <1>6
<1>9. \A k \in Jobs : AtCleaner(k)' <=> AtCleaner(k) \/ k = e
  BY <1>1, <1>2, <1>3, <1>4, <1>5
<1> QED
  BY <1>7, <1>8, <1>9

LEMMA CleanTail ==
  ASSUME CleanType, CleanOnce, deque_clear_job # <<>>, deque_clear_job' = Tail(deque_clear_job)
  PROVE  CleanOnce' /\ \A k \in Jobs : AtCleaner(k)' <=> AtCleaner(k) /\ k # Head(deque_clear_job)
<1> DEFINE s == deque_clear_job
           t == deque_clear_job'
<1>1. /\ Head(s) = s[1] /\ 1 \in DOMAIN s
      /\ Len(s) \in Nat \ {0} /\ DOMAIN s = 1..Len(s)
      /\ DOMAIN t = 1..Len(s) - 1 /\ \A i \in DOMAIN t : t[i] = s[i + 1]
  BY TailSeq DEF CleanType
<1>2. \A i \in DOMAIN t : i + 1 \in DOMAIN s /\ i + 1 # 1
  BY <1>1
<1>3. \A i \in DOMAIN s : i = 1 \/ (i - 1 \in DOMAIN t /\ (i - 1) + 1 = i)
  BY <1>1
<1>4. \A k \in Jobs : AtCleaner(k) <=> \E i \in DOMAIN s : s[i] = k
  BY DEF AtCleaner
<1>5. \A k \in Jobs : AtCleaner(k)' <=> \E i \in DOMAIN t : t[i] = k
  BY DEF AtCleaner
<1>6. \A i, k \in DOMAIN s : s[i] \in Jobs /\ s[i] = s[k] => i = k
  BY DEF CleanOnce
<1>7. CleanOnce' <=> \A i, k \in DOMAIN t : t[i] \in Jobs /\ t[i] = t[k] => i = k
  BY DEF CleanOnce
<1>8. \A i, k \in DOMAIN t : i + 1 = k + 1 => i = k
  BY <1>1
<1> HIDE DEF s, t
<1>9. \A i, k \in DOMAIN t : t[i] \in Jobs /\ t[i] = t[k] => i = k
  BY <1>1, <1>2, <1>6, <1>8
<1>10. \A k \in Jobs : AtCleaner(k)' <=> AtCleaner(k) /\ k # Head(s)
  <2> TAKE k \in Jobs
  <2>1. AtCleaner(k)' => AtCleaner(k) /\ k # Head(s)
    BY <1>1, <1>2, <1>4, <1>5, <1>6
  <2>2. ASSUME AtCleaner(k), k # Head(s) PROVE AtCleaner(k)'
    <3>1. PICK i \in DOMAIN s : s[i] = k
      BY <1>4, <2>2
    <3>2. i - 1 \in DOMAIN t /\ t[i - 1] = s[i]
      BY <1>1, <1>3, <2>2, <3>1
    <3> QED
      BY <1>5, <3>1, <3>2
  <2> QED
    BY <2>1, <2>2
<1> QED
  BY <1>7, <1>9, <1>10 DEF s

\* The waiting jobs dropped by clearUndoWork go to the queue, each of them once.
LEMMA DropEach ==
  ASSUME JobsType, NEW q \in WaitingOrders
  PROVE  /\ q \in Seq(set_waiting_jobs)
         /\ \A i, k \in DOMAIN q : q[i] = q[k] => i = k
         /\ \A j \in set_waiting_jobs : \E i \in DOMAIN q : q[i] = j
<1> DEFINE n == Cardinality(set_waiting_jobs)
<1>1. IsFiniteSet(set_waiting_jobs) /\ n \in Nat
  BY WaitingFinite
<1>2. q \in [1..n -> set_waiting_jobs] /\ \A i, k \in 1..n : i < k => q[i] # q[k]
  BY DEF WaitingOrders
<1>3. \A i, k \in 1..n : q[i] = q[k] => i = k
  BY <1>1, <1>2
<1>4. q \in Injection(1..n, set_waiting_jobs)
  BY <1>2, <1>3 DEF Injection, IsInjective
<1>5. Cardinality(1..n) = n
  BY <1>1, FS_Interval
<1>6. q \in Surjection(1..n, set_waiting_jobs)
  BY <1>1, <1>4, <1>5, FS_Injection
<1> QED
  BY <1>1, <1>2, <1>3, <1>6 DEF Surjection

LEMMA CleanDrop ==
  ASSUME TypeOK, CleanOnce, DropWaiting, \A j \in set_waiting_jobs : ~AtCleaner(j)
  PROVE  CleanOnce' /\ \A k \in Jobs : AtCleaner(k)' <=> AtCleaner(k) \/ k \in set_waiting_jobs
<1> DEFINE s == deque_clear_job
           t == deque_clear_job'
<1>1. PICK q \in WaitingOrders : t = s \o q
  BY DEF DropWaiting
<1>2. /\ q \in Seq(set_waiting_jobs) /\ set_waiting_jobs \subseteq Jobs
      /\ \A i, k \in DOMAIN q : q[i] = q[k] => i = k
      /\ \A j \in set_waiting_jobs : \E i \in DOMAIN q : q[i] = j
  BY DropEach DEF TypeOK, JobsType
<1>3. s \in Seq(Jobs \cup {NoJob}) /\ q \in Seq(Jobs \cup {NoJob})
  BY <1>2 DEF TypeOK, CleanType
<1>4. /\ Len(s) \in Nat /\ Len(q) \in Nat /\ DOMAIN s = 1..Len(s) /\ DOMAIN q = 1..Len(q)
      /\ DOMAIN t = 1..Len(s) + Len(q)
      /\ \A i \in DOMAIN s : t[i] = s[i]
      /\ \A i \in DOMAIN q : t[Len(s) + i] = q[i]
  BY <1>1, <1>3
<1>5. \A i \in DOMAIN t : i \in DOMAIN s \/ \E k \in DOMAIN q : i = Len(s) + k
  <2> TAKE i \in DOMAIN t
  <2>1. CASE i <= Len(s)
    BY <1>4, <2>1
  <2>2. CASE i > Len(s)
    <3>1. i - Len(s) \in DOMAIN q /\ i = Len(s) + (i - Len(s))
      BY <1>4, <2>2
    <3> QED
      BY <3>1
  <2> QED
    BY <1>4, <2>1, <2>2
<1>6. (\A i \in DOMAIN s : i \in DOMAIN t) /\ \A i \in DOMAIN q : Len(s) + i \in DOMAIN t
  BY <1>4
<1>7. \A k \in Jobs : AtCleaner(k) <=> \E i \in DOMAIN s : s[i] = k
  BY DEF AtCleaner
<1>8. \A k \in Jobs : AtCleaner(k)' <=> \E i \in DOMAIN t : t[i] = k
  BY DEF AtCleaner
<1>9. \A i, k \in DOMAIN s : s[i] \in Jobs /\ s[i] = s[k] => i = k
  BY DEF CleanOnce
<1>10. CleanOnce' <=> \A i, k \in DOMAIN t : t[i] \in Jobs /\ t[i] = t[k] => i = k
  BY DEF CleanOnce
<1>11. \A i \in DOMAIN q : q[i] \in set_waiting_jobs
  BY <1>2
<1> HIDE DEF s, t
<1>12. \A i, k \in DOMAIN t : t[i] \in Jobs /\ t[i] = t[k] => i = k
  <2> SUFFICES ASSUME NEW i \in DOMAIN t, NEW k \in DOMAIN t, t[i] \in Jobs, t[i] = t[k] PROVE i = k
    OBVIOUS
  <2>1. CASE i \in DOMAIN s /\ k \in DOMAIN s
    BY <1>4, <1>9, <2>1
  <2>2. CASE i \in DOMAIN s /\ k \notin DOMAIN s
    BY <1>2, <1>4, <1>5, <1>7, <1>11, <2>2
  <2>3. CASE i \notin DOMAIN s /\ k \in DOMAIN s
    BY <1>2, <1>4, <1>5, <1>7, <1>11, <2>3
  <2>4. CASE i \notin DOMAIN s /\ k \notin DOMAIN s
    BY <1>2, <1>4, <1>5, <2>4
  <2> QED
    BY <2>1, <2>2, <2>3, <2>4
<1>13. \A k \in Jobs : AtCleaner(k)' <=> AtCleaner(k) \/ k \in set_waiting_jobs
  <2> TAKE k \in Jobs
  <2>1. AtCleaner(k)' => AtCleaner(k) \/ k \in set_waiting_jobs
    BY <1>4, <1>5, <1>7, <1>8, <1>11
  <2>2. AtCleaner(k) => AtCleaner(k)'
    BY <1>4, <1>6, <1>7, <1>8
  <2>3. k \in set_waiting_jobs => AtCleaner(k)'
    BY <1>2, <1>4, <1>6, <1>8
  <2> QED
    BY <2>1, <2>2, <2>3
<1> QED
  BY <1>10, <1>12, <1>13

-----------------------------------------------------------------------------
(***************************************************************************)
(* Each step takes a job from one place to the next.                       *)
(***************************************************************************)

LEMMA SubmitPlaces ==
  ASSUME TypeOK, SubmitInv, PlaceInv, WorkerBusy',
         NEW s \in Submitters, SubmitStep(s) \/ \E j \in Jobs : SubmitCheck(s, j)
  PROVE  PlaceInv'
<1> USE DEF handoff, jobvars, cleanvars, workers, callers
<1>1. /\ spc \in [Submitters -> {"idle", "index", "insert", "grow"}] /\ sjob \in [Submitters -> Jobs \cup {NoJob}]
      /\ job_index \in Nat /\ job_id \in [Jobs -> Nat] /\ NoJob \notin Jobs
      /\ map_doing_jobs \in SUBSET (Nat \X Jobs)
  BY PoolAssumption DEF TypeOK, CallersType, JobsType
<1>2. /\ \A k \in Jobs : InOnePlace(k)
      /\ SubmitterBusy /\ SubmitterOnce /\ WorkerOnce /\ CleanOnce /\ Numbered /\ DoingThere /\ DoingTaken
  BY DEF PlaceInv
<1>3. /\ UNCHANGED <<tjob, deque_clear_job, deleted, map_doing_jobs>>
      /\ \A k \in Jobs : AtWorker(k)' = AtWorker(k) /\ AtCleaner(k)' = AtCleaner(k) /\ Gone(k)' = Gone(k)
      /\ WorkerOnce' /\ CleanOnce'
  <2>1. UNCHANGED <<tjob, deque_clear_job, deleted, map_doing_jobs>>
    BY DEF SubmitStep, SubmitCheck, SubmitIndex, SubmitInsert, SubmitGrow
  <2> QED
    BY <1>2, <2>1 DEF AtWorker, AtCleaner, Gone, WorkerOnce, CleanOnce
<1>4. ASSUME UNCHANGED <<set_waiting_jobs, job_id>>,
             \A k \in Jobs : /\ AtCaller(k) \/ AtSubmitter(k) <=> AtCaller(k)' \/ AtSubmitter(k)'
                             /\ AtCaller(k)' => ~AtSubmitter(k)'
      PROVE  (\A k \in Jobs : InOnePlace(k)') /\ DoingThere' /\ DoingTaken'
  <2>1. \A k \in Jobs : Twin(k)' = Twin(k)
    BY <1>4 DEF Twin
  <2>2. \A k \in Jobs : InOnePlace(k)'
    BY <1>2, <1>3, <1>4, <2>1 DEF InOnePlace, AtMostOne
  <2>3. DoingThere'
    BY <1>2, <1>3, <1>4, <2>1 DEF DoingThere
  <2>4. DoingTaken'
    BY <1>1, <1>2, <1>3, <1>4 DEF DoingTaken
  <2> QED
    BY <2>2, <2>3, <2>4
<1>5. \A k \in Jobs : AtCaller(k) => ~AtSubmitter(k)
  BY <1>2 DEF InOnePlace, AtMostOne
<1>6. ASSUME NEW j \in Jobs, SubmitCheck(s, j) PROVE PlaceInv'
  <2>1. /\ UNCHANGED <<set_waiting_jobs, job_id, job_index>>
        /\ spc[s] = "idle" /\ j \in unsubmitted /\ unsubmitted' = unsubmitted \ {j}
        /\ \/ spc' = [spc EXCEPT ![s] = "index"] /\ sjob' = [sjob EXCEPT ![s] = j] /\ rejected' = rejected
           \/ rejected' = rejected \cup {j} /\ spc' = spc /\ sjob' = sjob
    BY <1>6 DEF SubmitCheck
  <2>2. sjob[s] = NoJob /\ j \notin rejected
    BY <1>2, <2>1 DEF SubmitterBusy
  <2>3. SubmitterBusy'
    BY <1>1, <1>2, <2>1, <2>2 DEF SubmitterBusy
  <2>4. \A k \in Jobs \ {j} : AtCaller(k)' = AtCaller(k) /\ AtSubmitter(k)' = AtSubmitter(k)
    BY <1>1, <2>1, <2>2 DEF AtCaller, AtSubmitter
  <2>5. AtCaller(j) /\ ((~AtCaller(j)' /\ AtSubmitter(j)') \/ (AtCaller(j)' /\ AtSubmitter(j)' = AtSubmitter(j)))
    BY <1>1, <2>1, <2>2 DEF AtCaller, AtSubmitter
  <2>6. \A k \in Jobs : /\ AtCaller(k) \/ AtSubmitter(k) <=> AtCaller(k)' \/ AtSubmitter(k)'
                        /\ AtCaller(k)' => ~AtSubmitter(k)'
    BY <1>5, <2>4, <2>5
  <2>7. SubmitterOnce'
    <3>1. \A r \in Submitters : sjob[r] = j => spc[r] = "grow"
      BY <1>5, <2>5 DEF AtSubmitter
    <3> QED
      BY <1>1, <1>2, <2>1, <3>1 DEF SubmitterOnce
  <2>8. Numbered'
    <3>1. \A r \in Submitters : spc'[r] = "insert" => spc[r] = "insert"
      BY <1>1, <2>1
    <3> QED
      BY <1>2, <1>3, <2>1, <2>6, <3>1 DEF Numbered
  <2> QED
    BY <1>3, <1>4, <2>1, <2>3, <2>6, <2>7, <2>8 DEF PlaceInv
<1>7. CASE SubmitIndex(s)
  <2>1. /\ UNCHANGED <<set_waiting_jobs, job_id, sjob, unsubmitted, rejected>>
        /\ spc[s] = "index" /\ spc' = [spc EXCEPT ![s] = "insert"] /\ job_index' = job_index + 1
    BY <1>7 DEF SubmitIndex, NextIndex
  <2>2. \A k \in Jobs : AtCaller(k)' = AtCaller(k) /\ AtSubmitter(k)' = AtSubmitter(k)
    BY <1>1, <2>1 DEF AtCaller, AtSubmitter
  <2>3. SubmitterBusy' /\ SubmitterOnce'
    BY <1>1, <1>2, <2>1 DEF SubmitterBusy, SubmitterOnce
  <2>4. Numbered'
    <3>1. job_index' > 0
      BY <1>1, <2>1
    <3> QED
      BY <1>2, <1>3, <2>1, <2>2, <3>1 DEF Numbered
  <2>5. \A k \in Jobs : /\ AtCaller(k) \/ AtSubmitter(k) <=> AtCaller(k)' \/ AtSubmitter(k)'
                        /\ AtCaller(k)' => ~AtSubmitter(k)'
    BY <1>5, <2>2
  <2> QED
    BY <1>3, <1>4, <2>1, <2>3, <2>4, <2>5 DEF PlaceInv
<1>8. CASE SubmitInsert(s)
  <2>0. PICK j \in Jobs : j = sjob[s]
    BY <1>1, <1>2, <1>8 DEF SubmitInsert, SubmitterBusy
  <2>1. /\ UNCHANGED <<sjob, unsubmitted, rejected, job_index>>
        /\ spc[s] = "insert" /\ spc' = [spc EXCEPT ![s] = "grow"]
        /\ job_id' = [job_id EXCEPT ![j] = job_index] /\ set_waiting_jobs' = set_waiting_jobs \cup {j}
    BY <1>8, <2>0 DEF SubmitInsert
  <2>2. AtSubmitter(j) /\ ~AtCaller(j) /\ ~AtWorker(j) /\ j \notin set_waiting_jobs /\ ~Gone(j)
    <3>1. AtSubmitter(j)
      BY <2>0, <2>1 DEF AtSubmitter
    <3> QED
      BY <1>2, <3>1 DEF InOnePlace, AtMostOne
  <2>3. SubmitterBusy' /\ SubmitterOnce'
    BY <1>1, <1>2, <2>1 DEF SubmitterBusy, SubmitterOnce
  <2>4. \A k \in Jobs : AtCaller(k)' = AtCaller(k) /\ (AtSubmitter(k)' <=> AtSubmitter(k) /\ k # j)
    <3>1. \A r \in Submitters : sjob[r] = j /\ spc[r] # "grow" => r = s
      BY <1>1, <1>2, <2>0, <2>1 DEF SubmitterOnce
    <3>2. \A r \in Submitters : r # s => spc'[r] = spc[r]
      BY <1>1, <2>1
    <3>3. spc'[s] = "grow"
      BY <1>1, <2>1
    <3>4. \A k \in Jobs : AtCaller(k)' = AtCaller(k)
      BY <2>1 DEF AtCaller
    <3>5. ~AtSubmitter(j)'
      BY <2>1, <3>1, <3>2, <3>3 DEF AtSubmitter
    <3>6. ASSUME NEW k \in Jobs, k # j PROVE AtSubmitter(k)' <=> AtSubmitter(k)
      BY <2>0, <2>1, <3>2, <3>3, <3>6 DEF AtSubmitter
    <3> QED
      BY <3>4, <3>5, <3>6
  <2>5. job_id[j] = 0 /\ job_id'[j] = job_index /\ job_index # 0 /\ \A k \in Jobs \ {j} : job_id'[k] = job_id[k]
    BY <1>1, <1>2, <2>1, <2>2 DEF Numbered
  <2>6. \A k \in Jobs : Twin(k) => Twin(k)'
    <3> SUFFICES ASSUME NEW k \in Jobs, Twin(k) PROVE Twin(k)'
      OBVIOUS
    <3>1. PICK i \in Jobs \ {k} : job_id[i] = job_id[k]
      BY DEF Twin
    <3>2. job_id[k] # 0 /\ k # j /\ i # j
      BY <2>5, <3>1 DEF Twin
    <3>3. job_id'[i] = job_id'[k] /\ job_id'[k] # 0
      BY <2>5, <3>1, <3>2
    <3> QED
      BY <3>1, <3>3 DEF Twin
  <2>7. \A k \in Jobs : InOnePlace(k)'
    <3>1. ASSUME NEW k \in Jobs, k # j PROVE InOnePlace(k)'
      BY <1>2, <1>3, <2>1, <2>4, <2>6, <3>1 DEF InOnePlace, AtMostOne
    <3>2. InOnePlace(j)'
      <4>1. /\ ~AtCaller(j)' /\ ~AtSubmitter(j)' /\ ~AtWorker(j)' /\ (j \in set_waiting_jobs)'
            /\ ~Gone(j)'
        BY <1>3, <2>1, <2>2, <2>4
      <4> QED
        BY <4>1 DEF InOnePlace, AtMostOne, Gone
    <3> QED
      BY <3>1, <3>2
  <2>8. Numbered'
    BY <1>2, <1>3, <2>1, <2>2, <2>4, <2>5 DEF Numbered
  <2>9. DoingThere'
    BY <1>2, <1>3, <2>2, <2>5, <2>6 DEF DoingThere
  <2>10. DoingTaken'
    <3> SUFFICES ASSUME NEW e \in map_doing_jobs
                 PROVE  /\ e[1] = job_id'[e[2]]
                        /\ ~AtCaller(e[2])' /\ ~AtSubmitter(e[2])' /\ e[2] \notin set_waiting_jobs' /\ ~Gone(e[2])'
      BY <1>3 DEF DoingTaken
    <3>1. e[2] \in Jobs
      BY <1>1
    <3>2. /\ e[1] = job_id[e[2]]
          /\ ~AtCaller(e[2]) /\ ~AtSubmitter(e[2]) /\ e[2] \notin set_waiting_jobs /\ ~Gone(e[2])
      BY <1>2 DEF DoingTaken
    <3>3. e[2] # j
      BY <2>2, <3>2
    <3> QED
      BY <1>3, <2>1, <2>4, <2>5, <3>1, <3>2, <3>3
  <2> QED
    BY <1>3, <2>3, <2>7, <2>8, <2>9, <2>10 DEF PlaceInv
<1>9. CASE SubmitGrow(s)
  <2>1. /\ UNCHANGED <<set_waiting_jobs, job_id, job_index, unsubmitted, rejected>>
        /\ spc[s] = "grow" /\ spc' = [spc EXCEPT ![s] = "idle"] /\ sjob' = [sjob EXCEPT ![s] = NoJob]
    BY <1>9 DEF SubmitGrow
  <2>2. SubmitterBusy' /\ SubmitterOnce'
    BY <1>1, <1>2, <2>1 DEF SubmitterBusy, SubmitterOnce
  <2>3. \A k \in Jobs : AtCaller(k)' = AtCaller(k) /\ AtSubmitter(k)' = AtSubmitter(k)
    <3>1. \A r \in Submitters : r # s => spc'[r] = spc[r] /\ sjob'[r] = sjob[r]
      BY <1>1, <2>1
    <3>2. sjob'[s] = NoJob
      BY <1>1, <2>1
    <3> QED
      BY <1>1, <2>1, <3>1, <3>2 DEF AtCaller, AtSubmitter
  <2>4. Numbered'
    BY <1>1, <1>2, <1>3, <2>1, <2>3 DEF Numbered
  <2>5. \A k \in Jobs : /\ AtCaller(k) \/ AtSubmitter(k) <=> AtCaller(k)' \/ AtSubmitter(k)'
                        /\ AtCaller(k)' => ~AtSubmitter(k)'
    BY <1>5, <2>3
  <2> QED
    BY <1>3, <1>4, <2>1, <2>2, <2>4, <2>5 DEF PlaceInv
<1> QED
  BY <1>6, <1>7, <1>8, <1>9 DEF SubmitStep

LEMMA TakePlaces ==
  ASSUME TypeOK, PlaceInv, WorkerBusy', NEW w \in Threads, NEW j \in Jobs, GetJobTake(w, j)
  PROVE  PlaceInv'
<1> USE DEF handoff, jobvars, cleanvars, workers, callers
<1>1. /\ tjob \in [Threads -> Jobs \cup {NoJob}] /\ job_id \in [Jobs -> Nat] /\ NoJob \notin Jobs
      /\ set_waiting_jobs \subseteq Jobs /\ map_doing_jobs \in SUBSET (Nat \X Jobs)
  BY PoolAssumption DEF TypeOK, WorkersType, JobsType
<1>2. /\ \A k \in Jobs : InOnePlace(k)
      /\ SubmitterBusy /\ SubmitterOnce /\ WorkerBusy /\ WorkerOnce /\ CleanOnce
      /\ Numbered /\ DoingThere /\ DoingTaken
  BY DEF PlaceInv
<1>3. /\ UNCHANGED <<spc, sjob, unsubmitted, rejected, deque_clear_job, deleted, job_id, job_index>>
      /\ j \in set_waiting_jobs /\ set_waiting_jobs' = set_waiting_jobs \ {j}
      /\ tjob' = [tjob EXCEPT ![w] = j] /\ tpc[w] = "take"
  BY DEF GetJobTake, First
<1>4. tjob[w] = NoJob /\ ~AtWorker(j) /\ ~AtCaller(j) /\ ~AtSubmitter(j) /\ ~Gone(j)
  BY <1>2, <1>3 DEF WorkerBusy, InOnePlace, AtMostOne
<1>5. \A k \in Jobs : /\ AtCaller(k)' = AtCaller(k) /\ AtSubmitter(k)' = AtSubmitter(k)
                      /\ AtCleaner(k)' = AtCleaner(k) /\ Gone(k)' = Gone(k) /\ Twin(k)' = Twin(k)
                      /\ (AtWorker(k)' <=> AtWorker(k) \/ k = j)
  <2>1. \A v \in Threads \ {w} : tjob'[v] = tjob[v]
    BY <1>3
  <2>2. tjob'[w] = j
    BY <1>1, <1>3
  <2>3. \A k \in Jobs : AtWorker(k)' <=> AtWorker(k) \/ k = j
    BY <1>1, <1>4, <2>1, <2>2 DEF AtWorker
  <2> QED
    BY <1>3, <2>3 DEF AtCaller, AtSubmitter, AtCleaner, Gone, Twin
<1>6. \A k \in Jobs : InOnePlace(k)'
  BY <1>2, <1>3, <1>4, <1>5 DEF InOnePlace, AtMostOne
<1>7. SubmitterBusy' /\ SubmitterOnce' /\ CleanOnce'
  BY <1>2, <1>3 DEF SubmitterBusy, SubmitterOnce, CleanOnce
<1>8. WorkerOnce'
  BY <1>1, <1>2, <1>3, <1>4 DEF WorkerOnce, AtWorker
<1>9. Numbered'
  BY <1>2, <1>3, <1>5 DEF Numbered
<1>10. /\ map_doing_jobs' \subseteq map_doing_jobs \cup {<<job_id[j], j>>}
       /\ map_doing_jobs \subseteq map_doing_jobs'
       /\ <<job_id[j], j>> \in map_doing_jobs' \/ \E e \in map_doing_jobs : e[1] = job_id[j]
  BY DEF GetJobTake, Doing
<1>11. DoingThere'
  <2> SUFFICES ASSUME NEW k \in Jobs, AtWorker(k)', ~Twin(k)'
               PROVE  <<job_id'[k], k>> \in map_doing_jobs'
    BY DEF DoingThere
  <2>1. CASE AtWorker(k)
    BY <1>2, <1>3, <1>5, <1>10, <2>1 DEF DoingThere
  <2>2. CASE k = j
    <3>1. ~\E e \in map_doing_jobs : e[1] = job_id[j]
      <4> SUFFICES ASSUME NEW e \in map_doing_jobs, e[1] = job_id[j] PROVE FALSE
        OBVIOUS
      <4>1. e[2] \in Jobs /\ job_id[e[2]] = job_id[j] /\ e[2] # j
        BY <1>1, <1>2, <1>3 DEF DoingTaken
      <4>2. job_id[j] # 0
        BY <1>2, <1>3 DEF Numbered
      <4>3. Twin(j)
        BY <4>1, <4>2 DEF Twin
      <4> QED
        BY <1>5, <2>2, <4>3
    <3> QED
      BY <1>3, <1>10, <2>2, <3>1
  <2> QED
    BY <1>5, <2>1, <2>2
<1>12. DoingTaken'
  <2> SUFFICES ASSUME NEW e \in map_doing_jobs'
               PROVE  /\ e[1] = job_id'[e[2]]
                      /\ ~AtCaller(e[2])' /\ ~AtSubmitter(e[2])' /\ e[2] \notin set_waiting_jobs' /\ ~Gone(e[2])'
    BY DEF DoingTaken
  <2>1. CASE e \in map_doing_jobs
    <3>1. e[2] \in Jobs
      BY <1>1, <2>1
    <3> QED
      BY <1>2, <1>3, <1>5, <2>1, <3>1 DEF DoingTaken
  <2>2. CASE e = <<job_id[j], j>>
    BY <1>3, <1>4, <1>5, <2>2
  <2> QED
    BY <1>10, <2>1, <2>2
<1> QED
  BY <1>6, <1>7, <1>8, <1>9, <1>11, <1>12 DEF PlaceInv

LEMMA EndPlaces ==
  ASSUME TypeOK, PlaceInv, WorkerBusy', NEW w \in Threads, EndJob(w)
  PROVE  PlaceInv'
<1> USE DEF handoff, jobvars, cleanvars, workers, callers
<1>1. /\ tjob \in [Threads -> Jobs \cup {NoJob}] /\ job_id \in [Jobs -> Nat] /\ NoJob \notin Jobs
      /\ map_doing_jobs \in SUBSET (Nat \X Jobs) /\ CleanType
  BY PoolAssumption DEF TypeOK, WorkersType, JobsType
<1>2. /\ \A k \in Jobs : InOnePlace(k)
      /\ SubmitterBusy /\ SubmitterOnce /\ WorkerBusy /\ WorkerOnce /\ CleanOnce
      /\ Numbered /\ DoingThere /\ DoingTaken
  BY DEF PlaceInv
<1>3. /\ UNCHANGED <<spc, sjob, unsubmitted, rejected, set_waiting_jobs, deleted, job_id, job_index>>
      /\ tjob' = [tjob EXCEPT ![w] = NoJob] /\ tpc[w] = "end"
  BY DEF EndJob
<1>4. PICK j \in Jobs : j = tjob[w] /\ AtWorker(j)
  BY <1>1, <1>2, <1>3 DEF WorkerBusy, AtWorker
<1>5. job_id[j] # 0
  BY <1>2, <1>4 DEF Numbered
<1>6. \A k \in Jobs : AtWorker(k)' <=> AtWorker(k) /\ k # j
  <2>1. tjob'[w] = NoJob /\ \A v \in Threads \ {w} : tjob'[v] = tjob[v] /\ tjob[v] # j
    BY <1>1, <1>2, <1>3, <1>4 DEF WorkerOnce
  <2> QED
    BY <1>1, <1>4, <2>1 DEF AtWorker
<1>7. \A k \in Jobs : AtCaller(k)' = AtCaller(k) /\ AtSubmitter(k)' = AtSubmitter(k) /\ Twin(k)' = Twin(k)
  BY <1>3 DEF AtCaller, AtSubmitter, Twin
<1>8. SubmitterBusy' /\ SubmitterOnce'
  BY <1>2, <1>3 DEF SubmitterBusy, SubmitterOnce
<1>9. WorkerOnce'
  BY <1>1, <1>2, <1>3 DEF WorkerOnce
<1>10. Numbered'
  BY <1>2, <1>3, <1>6, <1>7 DEF Numbered
\* The entry under the job's id is the job's own, or the job has a twin.
<1>11. \A e \in map_doing_jobs : e[1] = job_id[j] /\ e[2] # j => Twin(j) /\ Twin(e[2])
  <2> SUFFICES ASSUME NEW e \in map_doing_jobs, e[1] = job_id[j], e[2] # j PROVE Twin(j) /\ Twin(e[2])
    OBVIOUS
  <2>1. e[2] \in Jobs /\ job_id[e[2]] = job_id[j]
    BY <1>1, <1>2 DEF DoingTaken
  <2> QED
    BY <1>5, <2>1 DEF Twin
<1>12. DoingThere'
  <2> SUFFICES ASSUME NEW k \in Jobs, AtWorker(k), k # j, ~Twin(k)
               PROVE  <<job_id[k], k>> \in map_doing_jobs'
    BY <1>3, <1>6, <1>7 DEF DoingThere
  <2>1. <<job_id[k], k>> \in map_doing_jobs
    BY <1>2 DEF DoingThere
  <2>2. job_id[k] # job_id[j]
    BY <1>5 DEF Twin
  <2> QED
    BY <1>4, <2>1, <2>2 DEF EndJob, Doing
<1>13. CASE Doing(job_id[j]) = {}
  <2>1. map_doing_jobs' = map_doing_jobs /\ deque_clear_job' = deque_clear_job
    <3>1. Doing(job_id[tjob[w]]) = {}
      BY <1>4, <1>13
    <3>2. map_doing_jobs' = map_doing_jobs \ Doing(job_id[tjob[w]])
      BY DEF EndJob
    <3>3. deque_clear_job' = deque_clear_job
      BY <3>1 DEF EndJob
    <3> QED
      BY <3>1, <3>2, <3>3
  <2>2. Twin(j)
    <3> SUFFICES ASSUME ~Twin(j) PROVE FALSE
      OBVIOUS
    <3>1. <<job_id[j], j>> \in map_doing_jobs
      BY <1>2, <1>4 DEF DoingThere
    <3>2. <<job_id[j], j>> \in Doing(job_id[j])
      BY <3>1 DEF Doing
    <3> QED
      BY <1>13, <3>2
  <2>3. CleanOnce' /\ \A k \in Jobs : AtCleaner(k)' = AtCleaner(k) /\ Gone(k)' = Gone(k)
    BY <1>2, <1>3, <2>1 DEF CleanOnce, AtCleaner, Gone
  <2>4. \A k \in Jobs : InOnePlace(k)'
    BY <1>2, <1>3, <1>6, <1>7, <2>2, <2>3 DEF InOnePlace, AtMostOne
  <2>5. DoingTaken'
    <3>1. \A e \in map_doing_jobs : e[2] \in Jobs
      BY <1>1
    <3> QED
      BY <1>2, <1>3, <1>7, <2>1, <2>3, <3>1 DEF DoingTaken
  <2> QED
    BY <1>8, <1>9, <1>10, <1>12, <2>3, <2>4, <2>5 DEF PlaceInv
<1>14. ASSUME NEW e \in Doing(job_id[j]), deque_clear_job' = Append(deque_clear_job, e[2]) PROVE PlaceInv'
  <2>1. PICK i \in Jobs : i = e[2]
    BY <1>1 DEF Doing
  <2>2. /\ e \in map_doing_jobs /\ e[1] = job_id[j]
        /\ map_doing_jobs' = {f \in map_doing_jobs : f[1] # job_id[j]}
    BY <1>4 DEF EndJob, Doing
  <2>3. /\ job_id[i] = job_id[j] /\ ~AtCaller(i) /\ ~AtSubmitter(i) /\ i \notin set_waiting_jobs
        /\ ~AtCleaner(i) /\ i \notin deleted
    BY <1>2, <2>1, <2>2 DEF DoingTaken, Gone
  <2>4. CleanOnce' /\ \A k \in Jobs : AtCleaner(k)' <=> AtCleaner(k) \/ k = i
    <3>1. deque_clear_job' = Append(deque_clear_job, i)
      BY <1>14, <2>1
    <3> QED
      BY <1>1, <1>2, <2>3, <3>1, CleanAppend
  <2>5. i = j \/ (Twin(i) /\ Twin(j))
    BY <1>11, <2>1, <2>2
  <2>6. \A k \in Jobs : Gone(k)' <=> Gone(k) \/ k = i
    BY <1>3, <2>4 DEF Gone
  <2>7. \A k \in Jobs : InOnePlace(k)'
    <3>1. ASSUME NEW k \in Jobs, k # i, k # j PROVE InOnePlace(k)'
      BY <1>2, <1>3, <1>6, <1>7, <2>4, <2>6, <3>1 DEF InOnePlace, AtMostOne
    <3>2. InOnePlace(i)'
      BY <1>2, <1>3, <1>6, <1>7, <2>3, <2>4, <2>5, <2>6 DEF InOnePlace, AtMostOne
    <3>3. ASSUME i # j PROVE InOnePlace(j)'
      BY <1>2, <1>3, <1>6, <1>7, <2>4, <2>5, <2>6, <3>3 DEF InOnePlace, AtMostOne
    <3> QED
      BY <3>1, <3>2, <3>3
  <2>8. DoingTaken'
    <3> SUFFICES ASSUME NEW f \in map_doing_jobs, f[1] # job_id[j]
                 PROVE  /\ f[1] = job_id'[f[2]]
                        /\ ~AtCaller(f[2])' /\ ~AtSubmitter(f[2])' /\ f[2] \notin set_waiting_jobs' /\ ~Gone(f[2])'
      BY <2>2 DEF DoingTaken
    <3>1. f[2] \in Jobs /\ f[1] = job_id[f[2]]
      BY <1>1, <1>2 DEF DoingTaken
    <3>2. f[2] # i
      BY <2>3, <3>1
    <3> QED
      BY <1>2, <1>3, <1>7, <2>6, <3>1, <3>2 DEF DoingTaken
  <2> QED
    BY <1>8, <1>9, <1>10, <1>12, <2>4, <2>7, <2>8 DEF PlaceInv
<1> QED
  BY <1>4, <1>13, <1>14 DEF EndJob

\* Steps that only take waiting jobs to the cleaner or on from there.
LEMMA QueuePlaces ==
  ASSUME TypeOK, PlaceInv, WorkerBusy', CleanOnce',
         UNCHANGED <<spc, sjob, unsubmitted, rejected, tjob, map_doing_jobs, job_id, job_index>>,
         set_waiting_jobs' \subseteq set_waiting_jobs,
         \A k \in Jobs : ~(AtCleaner(k)' /\ (k \in deleted)'),
         \A k \in Jobs : k \notin set_waiting_jobs => (Gone(k)' <=> Gone(k)),
         \A k \in set_waiting_jobs : Gone(k)' <=> k \notin set_waiting_jobs'
  PROVE  PlaceInv'
<1>1. /\ \A k \in Jobs : InOnePlace(k)
      /\ SubmitterBusy /\ SubmitterOnce /\ WorkerBusy /\ WorkerOnce /\ CleanOnce
      /\ Numbered /\ DoingThere /\ DoingTaken
  BY DEF PlaceInv
<1>2. \A k \in Jobs : /\ AtCaller(k)' = AtCaller(k) /\ AtSubmitter(k)' = AtSubmitter(k)
                      /\ AtWorker(k)' = AtWorker(k) /\ Twin(k)' = Twin(k)
  BY DEF AtCaller, AtSubmitter, AtWorker, Twin
<1>3. \A k \in Jobs : InOnePlace(k)'
  BY <1>1, <1>2 DEF InOnePlace, AtMostOne
<1>4. SubmitterBusy' /\ SubmitterOnce' /\ WorkerOnce'
  BY <1>1 DEF SubmitterBusy, SubmitterOnce, WorkerOnce
<1>5. Numbered'
  BY <1>1, <1>2 DEF Numbered
<1>6. DoingThere'
  BY <1>1, <1>2 DEF DoingThere
<1>7. DoingTaken'
  <2>1. \A e \in map_doing_jobs : e[2] \in Jobs
    BY DEF TypeOK, JobsType
  <2> QED
    BY <1>1, <1>2, <2>1 DEF DoingTaken
<1> QED
  BY <1>3, <1>4, <1>5, <1>6, <1>7 DEF PlaceInv

LEMMA PlaceStep ==
  ASSUME TypeOK, SubmitInv, PlaceInv, [Next]_vars
  PROVE  PlaceInv'
<1> USE DEF handoff, jobvars, cleanvars, workers, callers
<1>1. WorkerBusy'
  BY WorkerBusyStep DEF PlaceInv
<1>2. /\ CleanType /\ CleanOnce /\ set_waiting_jobs \subseteq Jobs /\ NoJob \notin Jobs
      /\ \A j \in set_waiting_jobs : ~AtCleaner(j) /\ j \notin deleted
      /\ \A j \in Jobs : ~(AtCleaner(j) /\ j \in deleted)
  BY PoolAssumption DEF TypeOK, JobsType, PlaceInv, InOnePlace, Gone
<1>3. CASE CleanJob
  <2> DEFINE e == Head(deque_clear_job)
  <2>1. /\ UNCHANGED <<spc, sjob, unsubmitted, rejected, tjob, map_doing_jobs, job_id, job_index, set_waiting_jobs>>
        /\ deque_clear_job # <<>> /\ deque_clear_job' = Tail(deque_clear_job)
        /\ (e = NoJob /\ deleted' = deleted) \/ (e # NoJob /\ deleted' = deleted \cup {e})
    BY <1>3 DEF CleanJob
  <2>2. CleanOnce' /\ \A k \in Jobs : AtCleaner(k)' <=> AtCleaner(k) /\ k # e
    BY <1>2, <2>1, CleanTail
  <2>3. e \in Jobs => AtCleaner(e)
    BY <1>2, <2>1, TailSeq DEF CleanType, AtCleaner
  <2> HIDE DEF e
  <2>4. \A k \in Jobs : Gone(k)' = Gone(k)
    BY <1>2, <2>1, <2>2, <2>3 DEF Gone
  <2>5. \A k \in Jobs : ~(AtCleaner(k)' /\ (k \in deleted)')
    BY <1>2, <2>1, <2>2
  <2> QED
    BY <1>1, <1>2, <2>1, <2>2, <2>4, <2>5, QueuePlaces DEF Gone
<1>4. CASE ClearUndoWork \/ DestroyPool
  <2>1. /\ UNCHANGED <<spc, sjob, unsubmitted, rejected, tjob, map_doing_jobs, job_id, job_index, deleted>>
        /\ DropWaiting /\ set_waiting_jobs' = {}
    BY <1>4 DEF ClearUndoWork, DestroyPool, DropWaiting
  <2>2. CleanOnce' /\ \A k \in Jobs : AtCleaner(k)' <=> AtCleaner(k) \/ k \in set_waiting_jobs
    BY <1>2, <2>1, CleanDrop
  <2>3. \A k \in Jobs : Gone(k)' <=> Gone(k) \/ k \in set_waiting_jobs
    BY <2>1, <2>2 DEF Gone
  <2>4. \A k \in Jobs : ~(AtCleaner(k)' /\ (k \in deleted)')
    BY <1>2, <2>1, <2>2
  <2>5. \A k \in Jobs : k \notin set_waiting_jobs => (Gone(k)' <=> Gone(k))
    BY <2>3
  <2>6. \A k \in set_waiting_jobs : Gone(k)' <=> k \notin set_waiting_jobs'
    BY <1>2, <2>1, <2>3
  <2>7. set_waiting_jobs' \subseteq set_waiting_jobs
    BY <2>1
  <2> QED
    BY <1>1, <2>1, <2>2, <2>4, <2>5, <2>6, <2>7, QueuePlaces
<1>5. CASE DestroyJoin
  <2>1. /\ UNCHANGED <<spc, sjob, unsubmitted, rejected, tjob, map_doing_jobs, job_id, job_index, deleted, set_waiting_jobs>>
        /\ deque_clear_job' \in {deque_clear_job, Append(deque_clear_job, NoJob)}
    BY <1>5 DEF DestroyJoin
  <2>2. CleanOnce' /\ \A k \in Jobs : AtCleaner(k)' = AtCleaner(k)
    <3>1. CASE deque_clear_job' = deque_clear_job
      BY <1>2, <3>1 DEF CleanOnce, AtCleaner
    <3>2. CASE deque_clear_job' = Append(deque_clear_job, NoJob)
      <4>1. CleanOnce' /\ \A k \in Jobs : AtCleaner(k)' <=> AtCleaner(k) \/ k = NoJob
        BY <1>2, <3>2, CleanAppend
      <4> QED
        BY <1>2, <4>1 DEF AtCleaner
    <3> QED
      BY <2>1, <3>1, <3>2
  <2> QED
    BY <1>1, <1>2, <2>1, <2>2, QueuePlaces DEF Gone
<1>6. ASSUME NEW c \in Cancellers, NEW id \in 1..job_index, CancelJob(c, id) PROVE PlaceInv'
  <2>1. UNCHANGED <<spc, sjob, unsubmitted, rejected, tjob, map_doing_jobs, job_id, job_index, deleted>>
    BY <1>6 DEF CancelJob
  <2>2. ASSUME NEW j \in set_waiting_jobs, set_waiting_jobs' = set_waiting_jobs \ {j},
               deque_clear_job' = Append(deque_clear_job, j)
        PROVE  PlaceInv'
    <3>1. CleanOnce' /\ \A k \in Jobs : AtCleaner(k)' <=> AtCleaner(k) \/ k = j
      BY <1>2, <2>2, CleanAppend
    <3>2. \A k \in Jobs : Gone(k)' <=> Gone(k) \/ k = j
      BY <2>1, <3>1 DEF Gone
    <3>3. \A k \in Jobs : ~(AtCleaner(k)' /\ (k \in deleted)')
      BY <1>2, <2>1, <3>1
    <3>4. \A k \in set_waiting_jobs : ~Gone(k)
      BY <1>2 DEF Gone
    <3>5. \A k \in Jobs : k \notin set_waiting_jobs => (Gone(k)' <=> Gone(k))
      BY <2>2, <3>2
    <3>6. \A k \in set_waiting_jobs : Gone(k)' <=> k \notin set_waiting_jobs'
      BY <1>2, <2>2, <3>2, <3>4
    <3>7. set_waiting_jobs' \subseteq set_waiting_jobs
      BY <2>2
    <3> QED
      BY <1>1, <2>1, <3>1, <3>3, <3>5, <3>6, <3>7, QueuePlaces
  <2>3. ASSUME UNCHANGED <<set_waiting_jobs, deque_clear_job>> PROVE PlaceInv'
    <3>1. CleanOnce' /\ \A k \in Jobs : AtCleaner(k)' = AtCleaner(k)
      BY <1>2, <2>3 DEF CleanOnce, AtCleaner
    <3> QED
      BY <1>1, <1>2, <2>1, <2>3, <3>1, QueuePlaces DEF Gone
  <2> QED
    BY <1>6, <2>2, <2>3 DEF CancelJob
<1>7. CASE UNCHANGED placevars
  <2>1. CleanOnce' /\ \A k \in Jobs : AtCleaner(k)' = AtCleaner(k)
    BY <1>2, <1>7 DEF CleanOnce, AtCleaner, placevars
  <2> QED
    BY <1>1, <1>2, <1>7, <2>1, QueuePlaces DEF placevars, Gone
<1> QED
  BY <1>1, <1>3, <1>4, <1>5, <1>6, <1>7, PlaceSteps, SubmitPlaces, TakePlaces, EndPlaces

LEMMA PlaceInit == Init => PlaceInv
<1> SUFFICES ASSUME Init PROVE PlaceInv
  OBVIOUS
<1>1. \A j \in Jobs : AtCaller(j) /\ ~AtSubmitter(j) /\ ~AtWorker(j) /\ ~AtCleaner(j) /\ j \notin deleted
                      /\ j \notin set_waiting_jobs /\ job_id[j] = 0
  BY PoolAssumption DEF Init, AtCaller, AtSubmitter, AtWorker, AtCleaner
<1>2. \A j \in Jobs : InOnePlace(j)
  BY <1>1 DEF InOnePlace, AtMostOne, Gone
<1>3. SubmitterBusy /\ SubmitterOnce /\ WorkerBusy /\ WorkerOnce /\ CleanOnce
  BY DEF Init, SubmitterBusy, SubmitterOnce, WorkerBusy, WorkerOnce, CleanOnce
<1>4. Numbered
  BY <1>1 DEF Init, Numbered
<1>5. DoingThere /\ DoingTaken
  BY <1>1 DEF Init, DoingThere, DoingTaken
<1> QED
  BY <1>2, <1>3, <1>4, <1>5 DEF PlaceInv

\* A set with no two elements counts 1 or 0.
LEMMA CountOne ==
  ASSUME NEW S, \A x, y \in S : x = y
  PROVE  Cardinality(S) = IF S # {} THEN 1 ELSE 0
<1>1. S = {} \/ \E x : S = {x}
  OBVIOUS
<1> QED
  BY <1>1, FS_EmptySet, FS_Singleton

LEMMA OnePlace == PlaceInv => JobInOnePlace
<1> SUFFICES ASSUME PlaceInv, NEW j \in Jobs PROVE IF Twin(j) THEN AtWork(j) <= 1 ELSE Places(j) = 1
  BY DEF JobInOnePlace
<1> DEFINE S == {s \in Submitters : sjob[s] = j /\ spc[s] # "grow"}
           W == {w \in Threads : tjob[w] = j}
           D == {i \in DOMAIN deque_clear_job : deque_clear_job[i] = j}
<1>0. j # NoJob
  BY PoolAssumption
<1>1. Cardinality(S) = IF AtSubmitter(j) THEN 1 ELSE 0
  <2>1. S # {} <=> AtSubmitter(j)
    BY DEF AtSubmitter
  <2>2. \A x, y \in S : x = y
    BY <1>0 DEF PlaceInv, SubmitterOnce
  <2> QED
    BY <2>1, <2>2, CountOne
<1>2. Cardinality(W) = IF AtWorker(j) THEN 1 ELSE 0
  <2>1. W # {} <=> AtWorker(j)
    BY DEF AtWorker
  <2>2. \A x, y \in W : x = y
    BY <1>0 DEF PlaceInv, WorkerOnce
  <2> QED
    BY <2>1, <2>2, CountOne
<1>3. Cardinality(D) = IF AtCleaner(j) THEN 1 ELSE 0
  <2>1. D # {} <=> AtCleaner(j)
    BY DEF AtCleaner
  <2>2. \A x, y \in D : x = y
    BY DEF PlaceInv, CleanOnce
  <2> QED
    BY <2>1, <2>2, CountOne
<1>4. AtWork(j) = (IF AtCaller(j) THEN 1 ELSE 0) + Cardinality(S) + (IF j \in set_waiting_jobs THEN 1 ELSE 0)
                  + Cardinality(W)
  BY DEF AtWork, AtCaller
<1>5. Places(j) = AtWork(j) + Cardinality(D) + (IF j \in deleted THEN 1 ELSE 0)
  BY DEF Places
<1>6. InOnePlace(j)
  BY DEF PlaceInv
<1> HIDE DEF S, W, D
<1> QED
  BY <1>1, <1>2, <1>3, <1>4, <1>5, <1>6 DEF InOnePlace, AtMostOne, Gone

\* However many threads submit, each job is in exactly one place from its submission to
\* its deletion, whatever clearUndoWork, cancelJob, stop and the destructor do meanwhile;
\* a job to which another submitter's job has the same id is at least never with two
\* workers, or waiting while it runs (rthreadpool.cpp:354, 541-551, 598-608).
THEOREM NeverLostNorTwice == Spec => []JobInOnePlace
<1>1. PoolInv => TypeOK /\ SubmitInv
  BY DEF PoolInv
<1>2. TypeOK /\ SubmitInv /\ PlaceInv /\ [Next]_vars => PlaceInv'
  BY PlaceStep
<1>3. PlaceInv => JobInOnePlace
  BY OnePlace
<1> QED
  BY <1>1, <1>2, <1>3, PlaceInit, PoolInvariant, PTL DEF Spec

=============================================================================
