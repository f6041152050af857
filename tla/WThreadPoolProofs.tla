------------------------- MODULE WThreadPoolProofs -------------------------
(***************************************************************************)
(* Proofs about WThreadPool for any number of jobs, worker threads and     *)
(* cancelling threads, and any number of calls of start, stop and cancel.  *)
(***************************************************************************)
EXTENDS WThreadPool, FiniteSetTheorems, TLAPS

(***************************************************************************)
(* Where a job can be: with its caller until submitJob has given it an id, *)
(* among the prepared jobs, in the hand of the prepare thread, waiting, at *)
(* a worker, in the clear queue, deleted.                                  *)
(***************************************************************************)
In(j, q) == \E i \in DOMAIN q : q[i] = j
AtWorker(j) == \E w \in Threads : tjob[w] = j

\* A job is somewhere, and nowhere else.
ExactlyOne(a, b, c, d, e, f, g) ==
  /\ a \/ b \/ c \/ d \/ e \/ f \/ g
  /\ a => ~b /\ ~c /\ ~d /\ ~e /\ ~f /\ ~g
  /\ b => ~c /\ ~d /\ ~e /\ ~f /\ ~g
  /\ c => ~d /\ ~e /\ ~f /\ ~g
  /\ d => ~e /\ ~f /\ ~g
  /\ e => ~f /\ ~g
  /\ f => ~g
InOnePlace(j) ==
  ExactlyOne(job_id[j] = 0, In(j, deque_prepare_submit_job), prepare_job = j, j \in set_waiting_jobs,
             AtWorker(j), In(j, deque_clear_job), j \in deleted)

\* ... with one worker and one record of the clear queue.
Once(q) == \A i, k \in DOMAIN q : q[i] \in Jobs /\ q[i] = q[k] => i = k
WorkerOnce == \A v, w \in Threads : tjob[v] # NoJob /\ tjob[v] = tjob[w] => v = w
DoingExact == \A j \in Jobs : j \in map_doing_jobs <=> AtWorker(j)
UnsubmittedNew == \A j \in unsubmitted : job_id[j] = 0

PlaceInv ==
  /\ \A j \in Jobs : InOnePlace(j)
  /\ Once(deque_clear_job) /\ WorkerOnce /\ DoingExact /\ UnsubmittedNew

\* Ids grow from the waiting jobs over the job in the hand of the prepare thread to
\* the end of the prepared jobs.
IdsBound == \A j \in Jobs : job_id[j] <= job_index
IdsDiffer == \A j, k \in Jobs : job_id[j] > 0 /\ job_id[j] = job_id[k] => j = k
Ascending(q, id) ==
  \A i, k \in DOMAIN q : i < k /\ q[i] \in Jobs /\ q[k] \in Jobs => id[q[i]] < id[q[k]]
Below(j, q, id) == \A i \in DOMAIN q : q[i] \in Jobs => id[j] < id[q[i]]

OrderInv ==
  /\ IdsBound /\ IdsDiffer /\ Ascending(deque_prepare_submit_job, job_id)
  /\ prepare_job \in Jobs => Below(prepare_job, deque_prepare_submit_job, job_id)
  /\ \A j \in set_waiting_jobs :
       /\ Below(j, deque_prepare_submit_job, job_id)
       /\ prepare_job \in Jobs => job_id[j] < job_id[prepare_job]

\* A worker has a job while it runs it; the prepare thread while it inserts it; it
\* runs as long as the pool has its handle.
WorkerBusy == \A w \in Threads : tjob[w] # NoJob <=> tpc[w] \in {"begin", "run", "erase"}
PrepareInv ==
  /\ prepare_job # NoJob <=> prepare = "insert"
  /\ ~prepare_handle => prepare = "none"
  /\ opc = "free" /\ ~thread_pool_is_running => ~prepare_handle
  /\ opc \in {"wait", "dwait", "dprepare", "dundo", "dclear", "djoin clear", "destroyed"} => ~prepare_handle

\* A canceller that waits for a count keeps waiting_jobs_lock_, and its job waits.
CancelInv ==
  \A c \in Cancellers :
    /\ cpc[c] # "idle" => cjob[c] \in Jobs
    /\ cpc[c] = "sem" => waiting_lock = c /\ cjob[c] \in set_waiting_jobs

\* The counters are what they count.
RunningJobs == {w \in Threads : tpc[w] = "run"}
RunningThreads == {w \in Threads : tpc[w] \notin {"none", "spawned", "last"}}
NumbersExact ==
  /\ running_job_number = Cardinality(RunningJobs)
  /\ running_thread_number = Cardinality(RunningThreads)

WPoolInv ==
  /\ TypeOK /\ PlaceInv /\ OrderInv /\ WorkerBusy /\ PrepareInv /\ CancelInv /\ NumbersExact /\ SemaphoreExact

-----------------------------------------------------------------------------
(***************************************************************************)
(* The queues of jobs.                                                     *)
(***************************************************************************)
Entries == Jobs \cup {Marker}

LEMMA AppendQueue ==
  ASSUME NEW q \in Seq(Entries), NEW e \in Entries
  PROVE  /\ Append(q, e) \in Seq(Entries)
         /\ \A k : In(k, Append(q, e)) <=> In(k, q) \/ k = e
         /\ Once(q) /\ (e \in Jobs => ~In(e, q)) => Once(Append(q, e))
<1> DEFINE t == Append(q, e)
           n == Len(q)
<1>1. /\ DOMAIN t = 1..n + 1 /\ t[n + 1] = e /\ \A i \in DOMAIN q : t[i] = q[i]
      /\ n \in Nat /\ DOMAIN q = 1..n /\ t \in Seq(Entries)
  OBVIOUS
<1> HIDE DEF t, n
<1>2. \A i \in DOMAIN t : i \in DOMAIN q \/ i = n + 1
  BY <1>1
<1>3. (\A i \in DOMAIN q : i \in DOMAIN t) /\ n + 1 \in DOMAIN t
  BY <1>1
<1>4. \A k : In(k, t) <=> In(k, q) \/ k = e
  BY <1>1, <1>2, <1>3 DEF In
<1>5. Once(q) /\ (e \in Jobs => ~In(e, q)) => Once(t)
  BY <1>1, <1>2 DEF Once, In
<1> QED
  BY <1>1, <1>4, <1>5 DEF t

LEMMA AppendMarker ==
  ASSUME NEW q \in Seq(Entries)
  PROVE  /\ Once(q) => Once(Append(q, Marker))
         /\ \A k \in Jobs : In(k, Append(q, Marker)) <=> In(k, q)
<1>1. Marker \in Entries /\ Marker \notin Jobs
  BY WPoolAssumption DEF Entries
<1>2. /\ \A k : In(k, Append(q, Marker)) <=> In(k, q) \/ k = Marker
      /\ Once(q) => Once(Append(q, Marker))
  BY <1>1, AppendQueue
<1> QED
  BY <1>1, <1>2

\* t is q without its entry at i.
Without(t, q, i) ==
  /\ t \in Seq(Entries) /\ Len(t) = Len(q) - 1
  /\ \A k \in DOMAIN t : t[k] = IF k < i THEN q[k] ELSE q[k + 1]

LEMMA TailWithout ==
  ASSUME NEW q \in Seq(Entries), q # <<>>
  PROVE  1 \in DOMAIN q /\ Head(q) = q[1] /\ Head(q) \in Entries /\ Without(Tail(q), q, 1)
<1>1. Tail(q) \in Seq(Entries) /\ Len(Tail(q)) = Len(q) - 1 /\ Len(q) \in Nat \ {0}
  OBVIOUS
<1>2. \A k \in DOMAIN Tail(q) : Tail(q)[k] = q[k + 1] /\ ~(k < 1)
  OBVIOUS
<1>3. 1 \in DOMAIN q /\ Head(q) = q[1] /\ Head(q) \in Entries
  OBVIOUS
<1> QED
  BY <1>1, <1>2, <1>3 DEF Without

LEMMA ConcatSeq ==
  ASSUME NEW S, NEW a \in Seq(S), NEW b \in Seq(S)
  PROVE  /\ a \o b \in Seq(S) /\ Len(a \o b) = Len(a) + Len(b)
         /\ \A k \in 1..Len(a) : (a \o b)[k] = a[k]
         /\ \A k \in 1..Len(b) : (a \o b)[Len(a) + k] = b[k]
OBVIOUS

LEMMA RemoveAtWithout ==
  ASSUME NEW q \in Seq(Entries), NEW i \in DOMAIN q
  PROVE  Without(Seqs!RemoveAt(q, i), q, i)
<1> DEFINE a == SubSeq(q, 1, i - 1)
           b == SubSeq(q, i + 1, Len(q))
<1>1. i \in 1..Len(q) /\ Len(q) \in Nat
  OBVIOUS
<1>2. a \in Seq(Entries) /\ Len(a) = i - 1 /\ \A k \in 1..i - 1 : a[k] = q[k]
  BY <1>1
<1>3. b \in Seq(Entries) /\ Len(b) = Len(q) - i /\ \A k \in 1..Len(q) - i : b[k] = q[k + i]
  BY <1>1
<1>4. Seqs!RemoveAt(q, i) = a \o b
  BY DEF Seqs!RemoveAt
<1> HIDE DEF a, b
<1>5. a \o b \in Seq(Entries) /\ Len(a \o b) = Len(q) - 1 /\ DOMAIN (a \o b) = 1..Len(q) - 1
  BY <1>1, <1>2, <1>3
<1>6. /\ \A k \in 1..Len(a) : (a \o b)[k] = a[k]
      /\ \A k \in 1..Len(b) : (a \o b)[Len(a) + k] = b[k]
  BY <1>2, <1>3, ConcatSeq, SMTT(30)
<1>7. \A k \in 1..Len(q) - 1 : (a \o b)[k] = IF k < i THEN q[k] ELSE q[k + 1]
  <2> TAKE k \in 1..Len(q) - 1
  <2>1. CASE k < i
    BY <1>1, <1>2, <1>3, <1>6, <2>1
  <2>2. CASE ~(k < i)
    <3> DEFINE m == k - (i - 1)
    <3>1. Len(a) = i - 1 /\ i \in Int /\ k \in Int /\ Len(q) \in Int /\ k <= Len(q) - 1
      BY <1>1, <1>2
    <3>2. m \in 1..Len(q) - i
      BY <2>2, <3>1
    <3>3. Len(a) + m = k /\ m + i = k + 1
      BY <3>1
    <3> HIDE DEF m
    <3>4. m \in 1..Len(b)
      BY <1>3, <3>2
    <3>5. (a \o b)[Len(a) + m] = b[m] /\ b[m] = q[m + i]
      BY <1>3, <1>6, <3>2, <3>4
    <3> QED
      BY <2>2, <3>3, <3>5
  <2> QED
    BY <2>1, <2>2
<1> QED
  BY <1>1, <1>4, <1>5, <1>7 DEF Without

LEMMA WithoutQueue ==
  ASSUME NEW q \in Seq(Entries), NEW i \in DOMAIN q, NEW t, Without(t, q, i)
  PROVE  /\ \A k : In(k, t) => In(k, q)
         /\ Once(q) => (Once(t) /\ \A k \in Jobs : In(k, t) <=> In(k, q) /\ k # q[i])
         /\ \A id : Ascending(q, id) => Ascending(t, id)
         /\ \A k, id : Below(k, q, id) => Below(k, t, id)
<1> DEFINE At(k) == IF k < i THEN k ELSE k + 1
<1>1. /\ Len(q) \in Nat /\ DOMAIN q = 1..Len(q) /\ i \in 1..Len(q) /\ DOMAIN t = 1..Len(q) - 1
  BY DEF Without
<1>2. \A k \in DOMAIN t : At(k) \in DOMAIN q /\ At(k) # i /\ t[k] = q[At(k)]
  BY <1>1 DEF Without
<1>3. \A k, m \in DOMAIN t : (k < m => At(k) < At(m)) /\ (At(k) = At(m) => k = m)
  BY <1>1
<1>4. \A m \in DOMAIN q : m # i => \E k \in DOMAIN t : At(k) = m
  <2> SUFFICES ASSUME NEW m \in DOMAIN q, m # i PROVE \E k \in DOMAIN t : At(k) = m
    OBVIOUS
  <2>1. CASE m < i
    <3>1. m \in DOMAIN t /\ At(m) = m
      BY <1>1, <2>1
    <3> QED
      BY <3>1
  <2>2. CASE m > i
    <3>1. m - 1 \in DOMAIN t /\ At(m - 1) = m
      BY <1>1, <2>2
    <3> QED
      BY <3>1
  <2> QED
    BY <1>1, <2>1, <2>2
<1>5. \A k, m \in DOMAIN t : k < m => At(k) < At(m)
  BY <1>3
<1>6. \A k, m \in DOMAIN t : At(k) = At(m) => k = m
  BY <1>3
<1> HIDE DEF At
<1>7. \A k : In(k, t) => In(k, q)
  BY <1>2 DEF In
<1>8. Once(q) => Once(t)
  BY <1>2, <1>6 DEF Once
<1>9. ASSUME Once(q), NEW k \in Jobs PROVE In(k, t) <=> In(k, q) /\ k # q[i]
  <2>1. In(k, t) => k # q[i]
    BY <1>2, <1>9 DEF In, Once
  <2>2. In(k, q) /\ k # q[i] => In(k, t)
    BY <1>2, <1>4 DEF In
  <2> QED
    BY <1>7, <2>1, <2>2
<1>10. ASSUME NEW id, Ascending(q, id) PROVE Ascending(t, id)
  BY <1>2, <1>5, <1>10 DEF Ascending
<1>11. ASSUME NEW k, NEW id, Below(k, q, id) PROVE Below(k, t, id)
  BY <1>2, <1>11 DEF Below
<1> QED
  BY <1>7, <1>8, <1>9, <1>10, <1>11

\* What is in ascending order is there once.
LEMMA AscendingOnce ==
  ASSUME NEW q \in Seq(Entries), NEW id \in [Jobs -> Nat], Ascending(q, id)
  PROVE  Once(q)
<1> SUFFICES ASSUME NEW i \in DOMAIN q, NEW k \in DOMAIN q, q[i] \in Jobs, q[i] = q[k], i # k PROVE FALSE
  BY DEF Once
<1>1. i \in Int /\ k \in Int /\ id[q[i]] \in Int
  OBVIOUS
<1>2. i < k \/ k < i
  BY <1>1
<1> QED
  BY <1>1, <1>2 DEF Ascending

-----------------------------------------------------------------------------
(***************************************************************************)
(* _addJobThread: the threads added are new ones.                          *)
(***************************************************************************)

\* A finite set has a subset of every smaller size.
LEMMA SubsetOfSize ==
  ASSUME NEW S, IsFiniteSet(S), NEW n \in Nat, n <= Cardinality(S)
  PROVE  \E T \in SUBSET S : Cardinality(T) = n
<1>1. Cardinality(S) \in Nat /\ ExistsBijection(1..Cardinality(S), S)
  BY FS_CardinalityType
<1>2. PICK f \in Bijection(1..Cardinality(S), S) : TRUE
  BY <1>1 DEF ExistsBijection
<1>3. /\ f \in [1..Cardinality(S) -> S]
      /\ \A x, y \in 1..Cardinality(S) : f[x] = f[y] => x = y
  BY <1>2 DEF Bijection, Injection, IsInjective
<1>4. \A x \in 1..n : x \in 1..Cardinality(S)
  BY <1>1
<1> DEFINE g == [x \in 1..n |-> f[x]]
           T == {f[x] : x \in 1..n}
<1>5. T \in SUBSET S
  BY <1>3, <1>4
<1>6. g \in Bijection(1..n, T)
  <2>1. g \in [1..n -> T] /\ \A x, y \in 1..n : g[x] = g[y] => x = y
    BY <1>3, <1>4
  <2>2. \A t \in T : \E x \in 1..n : g[x] = t
    OBVIOUS
  <2> QED
    BY <2>1, <2>2 DEF Bijection, Injection, Surjection, IsInjective
<1>7. IsFiniteSet(1..n) /\ Cardinality(1..n) = n
  BY FS_Interval
<1>8. ExistsBijection(1..n, T)
  BY <1>6 DEF ExistsBijection
<1> HIDE DEF T
<1>9. Cardinality(T) = n
  BY <1>7, <1>8, FS_Bijection
<1> QED
  BY <1>5, <1>9

LEMMA AddJobThreadStep ==
  ASSUME TypeOK, NEW n \in Nat, AddJobThread(n)
  PROVE  /\ job_thread_ids' \subseteq Threads
         /\ \E S \in SUBSET Threads :
              /\ \A w \in S : tpc[w] = "none"
              /\ tpc' = [w \in Threads |-> IF w \in S THEN "spawned" ELSE tpc[w]]
<1> DEFINE S == CHOOSE T \in SUBSET Free : Cardinality(T) = n
<1>1. Free \in SUBSET Threads
  BY DEF Free
<1>2. IsFiniteSet(Free)
  BY <1>1, WPoolAssumption, FS_Subset
<1>3. \E T \in SUBSET Free : Cardinality(T) = n
  BY <1>2, SubsetOfSize DEF AddJobThread
<1>4. S \in SUBSET Free
  BY <1>3
<1>5. /\ tpc' = [w \in Threads |-> IF w \in S THEN "spawned" ELSE tpc[w]]
      /\ job_thread_ids' = job_thread_ids \cup S
  BY DEF AddJobThread
<1> HIDE DEF S
<1>6. S \in SUBSET Threads /\ \A w \in S : tpc[w] = "none"
  BY <1>4 DEF Free
<1> QED
  BY <1>5, <1>6 DEF TypeOK

-----------------------------------------------------------------------------
(***************************************************************************)
(* The prepare thread and the handle on it.                                *)
(***************************************************************************)
preparestate == <<prepare, prepare_job, prepare_handle, opc, thread_pool_is_running>>

LEMMA PrepareInvStep ==
  ASSUME TypeOK, PrepareInv, [Next]_vars
  PROVE  PrepareInv'
<1> USE DEF PrepareInv, preparestate, prepv, owner, flags, OwnerGoto
<1>1. CASE PrepareTake
  <2>1. deque_prepare_submit_job \in Seq(Entries) /\ deque_prepare_submit_job # <<>>
    BY <1>1 DEF PrepareTake, TypeOK, Entries
  <2>2. Front \in Entries
    BY <2>1, TailWithout DEF Front
  <2> QED
    BY <1>1, <2>2, WPoolAssumption DEF PrepareTake, Entries
<1>2. CASE PrepareInsert
  BY <1>2 DEF PrepareInsert
<1>3. CASE PrepareGrow
  BY <1>3 DEF PrepareGrow
<1>4. CASE StartPrepare
  BY <1>4 DEF StartPrepare
<1>5. CASE StartThreads
  BY <1>5 DEF StartThreads
<1>6. CASE StopCall
  BY <1>6 DEF StopCall
<1>7. CASE StopMarker \/ StopEvent
  BY <1>7 DEF StopMarker, StopEvent
<1>8. CASE StopJoin
  BY <1>8 DEF StopJoin
<1>9. CASE StopWait
  BY <1>9 DEF StopWait
<1>10. CASE DestroySteps
  <2>1. CASE DestroyPrepared
    BY <2>1 DEF DestroyPrepared
  <2>2. CASE DestroyUndo
    BY <2>2 DEF DestroyUndo
  <2>3. CASE DestroyClear
    BY <2>3 DEF DestroyClear
  <2> QED
    BY <1>10, <2>1, <2>2, <2>3 DEF DestroySteps
<1>11. CASE UNCHANGED preparestate
  BY <1>11
<1>12. ASSUME NEW j \in Jobs, Submit(j) PROVE UNCHANGED preparestate
  BY <1>12 DEF Submit
<1>13. ASSUME NEW w \in Threads, Worker(w) PROVE UNCHANGED preparestate
  BY <1>13 DEF Worker, WorkerStart, GetJobWait, GetJobTake, GetJobNothing, BeginJob, EndJob, EraseJob,
               CheckSubtract, LeavePool, CountThread, SignalComplete
<1>14. ClearJob \/ Pause \/ Resume => UNCHANGED preparestate
  BY DEF ClearJob, Pause, Resume
<1>15. ASSUME NEW c \in Cancellers, Cancel(c) PROVE UNCHANGED preparestate
  BY <1>15 DEF Cancel, CancelPrepared, CancelWaiting, CancelTakesCount, CancelDoing, CancelRequest, CancelSync
<1> QED
  BY <1>1, <1>2, <1>3, <1>4, <1>5, <1>6, <1>7, <1>8, <1>9, <1>10, <1>11, <1>12, <1>13, <1>14, <1>15
     DEF Next, Prepare, StopSteps, vars

-----------------------------------------------------------------------------
(***************************************************************************)
(* A worker has a job while it runs it, and the counters are what they     *)
(* count.                                                                  *)
(***************************************************************************)
WorkerStates == {"none", "spawned", "wait", "take", "begin", "run", "erase", "check", "leave", "count", "last"}

\* The steps by which the workers and the counters move.
LEMMA WorkerSteps ==
  ASSUME TypeOK, [Next]_vars
  PROVE  \/ UNCHANGED <<workers, numbers>>
         \/ UNCHANGED <<tjob, numbers>> /\ \E n \in Nat : AddJobThread(n)
         \/ \E w \in Threads : Worker(w)
<1> USE DEF workers, numbers
<1>1. ClearJob \/ Pause \/ Resume \/ StartPrepare \/ StopCall => UNCHANGED <<workers, numbers>>
  BY DEF ClearJob, Pause, Resume, StartPrepare, StopCall
<1>2. ASSUME NEW j \in Jobs, Submit(j) PROVE UNCHANGED <<workers, numbers>>
  BY <1>2 DEF Submit
<1>3. PrepareTake \/ PrepareInsert => UNCHANGED <<workers, numbers>>
  BY DEF PrepareTake, PrepareInsert
<1>4. ASSUME PrepareGrow
      PROVE  UNCHANGED <<workers, numbers>> \/ (UNCHANGED <<tjob, numbers>> /\ \E n \in Nat : AddJobThread(n))
  BY <1>4 DEF PrepareGrow
<1>5. StartThreads => UNCHANGED <<tjob, numbers>> /\ \E n \in Nat : AddJobThread(n)
  BY WPoolAssumption DEF StartThreads
<1>6. ASSUME NEW c \in Cancellers, Cancel(c) PROVE UNCHANGED <<workers, numbers>>
  BY <1>6 DEF Cancel, CancelPrepared, CancelWaiting, CancelTakesCount, CancelDoing, CancelRequest, CancelSync
<1>7. StopSteps => UNCHANGED <<workers, numbers>>
  BY DEF StopSteps, StopMarker, StopEvent, StopJoin, StopWait
<1>8. DestroySteps => UNCHANGED <<workers, numbers>>
  BY DEF DestroySteps, DestroyPrepared, DestroyUndo, DestroyClear
<1>9. UNCHANGED vars => UNCHANGED <<workers, numbers>>
  BY DEF vars
<1> QED
  BY <1>1, <1>2, <1>3, <1>4, <1>5, <1>6, <1>7, <1>8, <1>9 DEF Next, Prepare

LEMMA WorkerTyped ==
  ASSUME TypeOK
  PROVE  tpc \in [Threads -> WorkerStates] /\ tjob \in [Threads -> Jobs \cup {NoJob}] /\ NoJob \notin Jobs
BY WPoolAssumption DEF TypeOK, WorkerStates

Busy == {"begin", "run", "erase"}

LEMMA WorkerBusyStep ==
  ASSUME TypeOK, WorkerBusy, [Next]_vars
  PROVE  WorkerBusy'
<1> USE DEF workers, Busy, Goto
<1>1. ASSUME tjob' = tjob,
             \A w \in Threads : tpc'[w] = tpc[w] \/ (tpc[w] \notin Busy /\ tpc'[w] \notin Busy)
      PROVE  WorkerBusy'
  BY <1>1 DEF WorkerBusy
<1>2. CASE UNCHANGED workers
  BY <1>1, <1>2
<1>3. ASSUME NEW n \in Nat, AddJobThread(n), tjob' = tjob PROVE WorkerBusy'
  BY <1>1, <1>3, AddJobThreadStep
<1>4. ASSUME NEW w \in Threads, Worker(w) PROVE WorkerBusy'
  <2>1. CASE WorkerStart(w) \/ GetJobWait(w) \/ GetJobNothing(w) \/ CheckSubtract(w)
    BY <1>1, <2>1, WorkerTyped DEF WorkerStart, GetJobWait, GetJobNothing, CheckSubtract
  <2>2. CASE LeavePool(w) \/ CountThread(w) \/ SignalComplete(w)
    BY <1>1, <2>2, WorkerTyped DEF LeavePool, CountThread, SignalComplete
  <2>3. ASSUME NEW j \in Jobs, GetJobTake(w, j) PROVE WorkerBusy'
    BY <2>3, WorkerTyped DEF GetJobTake, WorkerBusy
  <2>4. CASE BeginJob(w)
    BY <2>4, WorkerTyped DEF BeginJob, WorkerBusy
  <2>5. CASE EndJob(w)
    BY <2>5, WorkerTyped DEF EndJob, WorkerBusy
  <2>6. CASE EraseJob(w)
    BY <2>6, WorkerTyped DEF EraseJob, WorkerBusy
  <2> QED
    BY <1>4, <2>1, <2>2, <2>3, <2>4, <2>5, <2>6 DEF Worker
<1> QED
  BY <1>2, <1>3, <1>4, WorkerSteps

LEMMA RunningFinite ==
  /\ IsFiniteSet(RunningJobs) /\ Cardinality(RunningJobs) \in Nat
  /\ IsFiniteSet(RunningThreads) /\ Cardinality(RunningThreads) \in Nat
<1>1. RunningJobs \in SUBSET Threads /\ RunningThreads \in SUBSET Threads
  BY DEF RunningJobs, RunningThreads
<1> QED
  BY <1>1, WPoolAssumption, FS_Subset, FS_CardinalityType

LEMMA NumbersExactStep ==
  ASSUME TypeOK, NumbersExact, [Next]_vars
  PROVE  NumbersExact'
<1> USE DEF workers, numbers, Goto
<1>1. ASSUME UNCHANGED numbers, RunningJobs' = RunningJobs, RunningThreads' = RunningThreads
      PROVE  NumbersExact'
  BY <1>1 DEF NumbersExact
<1>2. ASSUME UNCHANGED numbers,
             \A w \in Threads : /\ tpc'[w] = "run" <=> tpc[w] = "run"
                                /\ tpc'[w] \in {"none", "spawned", "last"} <=> tpc[w] \in {"none", "spawned", "last"}
      PROVE  NumbersExact'
  BY <1>1, <1>2 DEF RunningJobs, RunningThreads
<1>3. CASE UNCHANGED <<workers, numbers>>
  BY <1>2, <1>3
<1>4. ASSUME NEW n \in Nat, AddJobThread(n), UNCHANGED numbers PROVE NumbersExact'
  BY <1>2, <1>4, AddJobThreadStep
<1>5. ASSUME NEW w \in Threads, Worker(w) PROVE NumbersExact'
  <2>1. CASE GetJobWait(w) \/ GetJobNothing(w) \/ EraseJob(w) \/ \E j \in Jobs : GetJobTake(w, j)
    BY <1>2, <2>1, WorkerTyped DEF GetJobWait, GetJobNothing, EraseJob, GetJobTake
  <2>2. CASE CheckSubtract(w) \/ LeavePool(w) \/ SignalComplete(w)
    BY <1>2, <2>2, WorkerTyped DEF CheckSubtract, LeavePool, SignalComplete
  <2>3. CASE WorkerStart(w)
    <3>1. /\ RunningThreads' = RunningThreads \cup {w} /\ w \notin RunningThreads /\ RunningJobs' = RunningJobs
          /\ running_job_number' = running_job_number /\ running_thread_number' = running_thread_number + 1
      BY <2>3, WorkerTyped DEF WorkerStart, RunningThreads, RunningJobs
    <3> QED
      BY <3>1, RunningFinite, FS_AddElement DEF NumbersExact
  <2>4. CASE BeginJob(w)
    <3>1. /\ RunningJobs' = RunningJobs \cup {w} /\ w \notin RunningJobs /\ RunningThreads' = RunningThreads
          /\ running_thread_number' = running_thread_number /\ running_job_number' = running_job_number + 1
      BY <2>4, WorkerTyped DEF BeginJob, RunningThreads, RunningJobs
    <3> QED
      BY <3>1, RunningFinite, FS_AddElement DEF NumbersExact
  <2>5. CASE EndJob(w)
    <3>1. /\ RunningJobs' = RunningJobs \ {w} /\ w \in RunningJobs /\ RunningThreads' = RunningThreads
          /\ running_thread_number' = running_thread_number /\ running_job_number' = running_job_number - 1
      BY <2>5, WorkerTyped DEF EndJob, RunningThreads, RunningJobs
    <3> QED
      BY <3>1, RunningFinite, FS_RemoveElement DEF NumbersExact
  <2>6. CASE CountThread(w)
    <3>1. /\ RunningThreads' = RunningThreads \ {w} /\ w \in RunningThreads /\ RunningJobs' = RunningJobs
          /\ running_job_number' = running_job_number /\ running_thread_number' = running_thread_number - 1
      BY <2>6, WorkerTyped DEF CountThread, RunningThreads, RunningJobs
    <3> QED
      BY <3>1, RunningFinite, FS_RemoveElement DEF NumbersExact
  <2> QED
    BY <1>5, <2>1, <2>2, <2>3, <2>4, <2>5, <2>6 DEF Worker
<1> QED
  BY <1>3, <1>4, <1>5, WorkerSteps

-----------------------------------------------------------------------------
(***************************************************************************)
(* waiting_jobs_lock_ and the cancellers.                                  *)
(***************************************************************************)
cancelstate == <<cpc, cjob, waiting_lock, set_waiting_jobs>>

LEMMA CancelInvStep ==
  ASSUME TypeOK, CancelInv, [Next]_vars
  PROVE  CancelInv'
<1> USE DEF cancelstate, cancelv, queues, CGoto
<1>0. /\ cpc \in [Cancellers -> {"idle", "waiting", "sem", "doing", "request", "sync"}]
      /\ cjob \in [Cancellers -> Jobs \cup {NoJob}] /\ NoOwner \notin Cancellers
  BY WPoolAssumption DEF TypeOK
<1>1. ASSUME NEW c \in Cancellers, NEW j \in Jobs, CancelPrepared(c, j) PROVE CancelInv'
  BY <1>0, <1>1 DEF CancelPrepared, CancelInv
<1>2. ASSUME NEW c \in Cancellers, CancelWaiting(c) PROVE CancelInv'
  BY <1>0, <1>2 DEF CancelWaiting, CancelInv
<1>3. ASSUME NEW c \in Cancellers, CancelTakesCount(c) PROVE CancelInv'
  BY <1>0, <1>3 DEF CancelTakesCount, CancelInv
<1>4. ASSUME NEW c \in Cancellers, CancelDoing(c) PROVE CancelInv'
  BY <1>0, <1>4 DEF CancelDoing, CancelInv
<1>5. ASSUME NEW c \in Cancellers, CancelRequest(c) PROVE CancelInv'
  BY <1>0, <1>5 DEF CancelRequest, CancelInv
<1>6. ASSUME NEW c \in Cancellers, CancelSync(c) PROVE CancelInv'
  BY <1>0, <1>6 DEF CancelSync, CancelInv
<1>7. ASSUME UNCHANGED <<cpc, cjob, waiting_lock>>, waiting_lock = NoOwner PROVE CancelInv'
  BY <1>0, <1>7 DEF CancelInv
<1>8. ASSUME UNCHANGED <<cpc, cjob, waiting_lock>>, set_waiting_jobs \subseteq set_waiting_jobs' PROVE CancelInv'
  BY <1>8 DEF CancelInv
<1>9. CASE PrepareTake \/ PrepareInsert \/ PrepareGrow
  BY <1>8, <1>9 DEF PrepareTake, PrepareInsert, PrepareGrow
<1>10. ASSUME NEW w \in Threads, Worker(w) PROVE CancelInv'
  <2>1. ASSUME NEW j \in Jobs, GetJobTake(w, j) PROVE CancelInv'
    BY <1>7, <2>1 DEF GetJobTake
  <2>2. (\E j \in Jobs : GetJobTake(w, j)) \/ UNCHANGED cancelstate
    BY <1>10 DEF Worker, WorkerStart, GetJobWait, GetJobNothing, BeginJob, EndJob, EraseJob,
                 CheckSubtract, LeavePool, CountThread, SignalComplete
  <2> QED
    BY <1>8, <2>1, <2>2
<1>11. ASSUME NEW j \in Jobs, Submit(j) PROVE CancelInv'
  BY <1>8, <1>11 DEF Submit
<1>12. CASE ClearJob \/ StartPrepare \/ StartThreads \/ Pause \/ Resume \/ StopCall
  BY <1>8, <1>12 DEF ClearJob, StartPrepare, StartThreads, Pause, Resume, StopCall
<1>13. CASE StopSteps
  BY <1>8, <1>13 DEF StopSteps, StopMarker, StopEvent, StopJoin, StopWait
<1>14. CASE DestroySteps
  <2>1. CASE DestroyUndo
    BY <1>7, <2>1 DEF DestroyUndo
  <2> QED
    BY <1>8, <1>14, <2>1 DEF DestroySteps, DestroyPrepared, DestroyClear
<1>15. CASE UNCHANGED vars
  BY <1>8, <1>15 DEF vars
<1> QED
  BY <1>1, <1>2, <1>3, <1>4, <1>5, <1>6, <1>9, <1>10, <1>11, <1>12, <1>13, <1>14, <1>15
     DEF Next, Prepare, Cancel

-----------------------------------------------------------------------------
(***************************************************************************)
(* Type correctness.                                                       *)
(***************************************************************************)

\* TypeOK in parts.
PoolType ==
  /\ thread_pool_submit_flag \in BOOLEAN /\ thread_pool_is_running \in BOOLEAN
  /\ stop_event \in BOOLEAN /\ all_thread_complete_event \in BOOLEAN /\ continue_event \in BOOLEAN
  /\ opc \in {"free", "start", "marker", "event", "join", "wait", "dmarker", "devent", "djoin",
              "dwait", "dprepare", "dundo", "dclear", "djoin clear", "destroyed"}
  /\ crash \in {"no", "null array", "null job", "no job", "deleted job"}
  /\ starts \in Nat /\ stops \in Nat /\ cancels \in Nat /\ destroys \in Nat
QueuesType ==
  /\ job_needed_to_do_semaphore \in Nat /\ subtract_thread_semaphore \in Nat
  /\ deque_prepare_submit_job \in Seq(Entries)
  /\ prepare \in {"none", "wait", "insert", "grow", "exited"}
  /\ prepare_job \in Jobs \cup {NoJob} /\ prepare_handle \in BOOLEAN
  /\ set_waiting_jobs \subseteq Jobs /\ map_doing_jobs \subseteq Jobs
  /\ job_index \in Nat /\ job_id \in [Jobs -> Nat]
  /\ deque_clear_job \in Seq(Entries) /\ clearer \in {"run", "exited"}
  /\ deleted \subseteq Jobs
WorkersType ==
  /\ job_thread_ids \subseteq Threads /\ arrays \in BOOLEAN
  /\ tpc \in [Threads -> WorkerStates] /\ tjob \in [Threads -> Jobs \cup {NoJob}]
CallersType ==
  /\ waiting_lock \in Cancellers \cup {NoOwner}
  /\ stop_job_event \in [Jobs -> {"null", "unset", "set"}] /\ sync_cancel_job_event \subseteq Jobs
  /\ cpc \in [Cancellers -> {"idle", "waiting", "sem", "doing", "request", "sync"}]
  /\ cjob \in [Cancellers -> Jobs \cup {NoJob}]
  /\ unsubmitted \subseteq Jobs /\ rejected \subseteq Jobs

LEMMA TypeParts ==
  TypeOK <=> /\ PoolType /\ QueuesType /\ WorkersType /\ CallersType
             /\ running_job_number \in Nat /\ running_thread_number \in Nat
BY DEF TypeOK, PoolType, QueuesType, WorkersType, CallersType, Entries, WorkerStates

LEMMA TypeInit == Init => TypeOK
<1> SUFFICES ASSUME Init PROVE TypeOK
  OBVIOUS
<1>1. PoolType
  BY DEF Init, PoolType
<1>2. QueuesType
  <2>1. <<>> \in Seq(Entries) /\ [j \in Jobs |-> 0] \in [Jobs -> Nat]
    OBVIOUS
  <2> QED
    BY <2>1 DEF Init, QueuesType
<1>3. WorkersType
  BY DEF Init, WorkersType, WorkerStates
<1>4. CallersType
  BY DEF Init, CallersType
<1>5. running_job_number \in Nat /\ running_thread_number \in Nat
  BY DEF Init
<1> QED
  BY <1>1, <1>2, <1>3, <1>4, <1>5, TypeParts

LEMMA NextNat == \A n \in Nat : n + 1 \in Nat
OBVIOUS

LEMMA PoolTypeStep ==
  ASSUME PoolType, [Next]_vars
  PROVE  PoolType'
<1> USE DEF PoolType, flags, events, owner, cancelv, OwnerGoto
<1>1. ASSUME NEW j \in Jobs, Submit(j) PROVE PoolType'
  BY <1>1 DEF Submit
<1>2. ASSUME PrepareTake \/ PrepareInsert \/ PrepareGrow PROVE PoolType'
  BY <1>2 DEF PrepareTake, PrepareInsert, PrepareGrow
<1>3. ASSUME NEW w \in Threads, Worker(w) PROVE PoolType'
  BY <1>3, ZenonT(40) DEF Worker, WorkerStart, GetJobWait, GetJobTake, GetJobNothing, BeginJob, EndJob, EraseJob,
              CheckSubtract, LeavePool, CountThread, SignalComplete
<1>4. ASSUME ClearJob PROVE PoolType'
  BY <1>4 DEF ClearJob
<1>5. ASSUME NEW c \in Cancellers, Cancel(c) PROVE PoolType'
  <2>1. UNCHANGED <<flags, events, owner>>
    BY <1>5 DEF Cancel, CancelPrepared, CancelWaiting, CancelTakesCount, CancelDoing, CancelRequest, CancelSync
  <2>2. crash' = crash \/ crash' = "deleted job"
    BY <1>5 DEF Cancel, CancelPrepared, CancelWaiting, CancelTakesCount, CancelDoing, CancelRequest, CancelSync
  <2>3. cancels' = cancels \/ cancels' = cancels + 1
    BY <1>5 DEF Cancel, CancelPrepared, CancelWaiting, CancelTakesCount, CancelDoing, CancelRequest, CancelSync
  <2>4. cancels' \in Nat
    BY <2>3, NextNat
  <2> QED
    BY <2>1, <2>2, <2>4
<1>6. ASSUME StartPrepare \/ StartThreads \/ Pause \/ Resume \/ StopCall PROVE PoolType'
  <2>1. CASE StartPrepare
    <3>1. /\ opc' = "start" /\ starts' = starts + 1 /\ thread_pool_submit_flag' = TRUE
          /\ UNCHANGED <<thread_pool_is_running, events, stops, destroys, cancels, crash>>
      BY <2>1 DEF StartPrepare
    <3>2. starts' \in Nat
      BY <3>1, NextNat
    <3> QED
      BY <3>1, <3>2
  <2>2. CASE StartThreads
    BY <2>2 DEF StartThreads
  <2>3. CASE Pause \/ Resume
    BY <2>3 DEF Pause, Resume
  <2>4. CASE StopCall
    <3>1. /\ opc' \in {"marker", "dmarker"} /\ UNCHANGED <<flags, events, starts, cancels, crash>>
          /\ stops' \in {stops, stops + 1} /\ destroys' \in {destroys, destroys + 1}
      BY <2>4 DEF StopCall
    <3>2. stops' \in Nat /\ destroys' \in Nat
      BY <3>1, NextNat
    <3> QED
      BY <3>1, <3>2
  <2> QED
    BY <1>6, <2>1, <2>2, <2>3, <2>4
<1>7. ASSUME StopMarker PROVE PoolType'
  BY <1>7 DEF StopMarker
<1>8. ASSUME StopEvent PROVE PoolType'
  BY <1>8 DEF StopEvent
<1>9. ASSUME StopJoin PROVE PoolType'
  BY <1>9 DEF StopJoin
<1>10. ASSUME StopWait PROVE PoolType'
  BY <1>10 DEF StopWait
<1>11. ASSUME DestroyPrepared PROVE PoolType'
  BY <1>11 DEF DestroyPrepared
<1>12. ASSUME DestroyUndo PROVE PoolType'
  BY <1>12 DEF DestroyUndo
<1>13. ASSUME DestroyClear PROVE PoolType'
  BY <1>13 DEF DestroyClear
<1>14. ASSUME UNCHANGED vars PROVE PoolType'
  BY <1>14 DEF vars
<1> QED
  BY <1>1, <1>2, <1>3, <1>4, <1>5, <1>6, <1>7, <1>8, <1>9, <1>10, <1>11, <1>12, <1>13, <1>14
     DEF Next, Prepare, StopSteps, DestroySteps

LEMMA QueuesTypeStep ==
  ASSUME TypeOK, WorkerBusy, PrepareInv, CancelInv, [Next]_vars
  PROVE  QueuesType'
<1>0. QueuesType /\ NoJob \notin Jobs
  BY TypeParts, WPoolAssumption
<1> USE DEF QueuesType, sems, prepv, ids, queues, clearv, AddClearJob
<1>1. ASSUME NEW j \in Jobs, Submit(j) PROVE QueuesType'
  <2>1. job_index + 1 \in Nat /\ Append(deque_prepare_submit_job, j) \in Seq(Entries)
    BY <1>0, AppendQueue, NextNat DEF Entries
  <2>2. /\ job_index' \in {job_index, job_index + 1}
        /\ job_id' \in {job_id, [job_id EXCEPT ![j] = job_index + 1]}
        /\ deque_prepare_submit_job' \in {deque_prepare_submit_job, Append(deque_prepare_submit_job, j)}
        /\ UNCHANGED <<sems, prepare, prepare_job, prepare_handle, queues, clearv>>
    BY <1>1 DEF Submit
  <2>3. job_id' \in [Jobs -> Nat]
    BY <1>0, <2>1, <2>2
  <2> QED
    BY <1>0, <2>1, <2>2, <2>3
<1>2. CASE PrepareTake
  <2>1. deque_prepare_submit_job # <<>> /\ deque_prepare_submit_job' = Tail(deque_prepare_submit_job)
    BY <1>2 DEF PrepareTake
  <2>2. Front \in Entries /\ deque_prepare_submit_job' \in Seq(Entries)
    BY <1>0, <2>1, TailWithout DEF Front, Without
  <2> QED
    BY <1>0, <1>2, <2>2 DEF PrepareTake, Entries
<1>3. CASE PrepareInsert
  <2>1. prepare_job \in Jobs /\ job_needed_to_do_semaphore + 1 \in Nat
    BY <1>0, <1>3, NextNat DEF PrepareInsert, PrepareInv
  <2> QED
    BY <1>0, <1>3, <2>1 DEF PrepareInsert, Released
<1>4. CASE PrepareGrow
  BY <1>0, <1>4 DEF PrepareGrow
<1>5. ASSUME NEW w \in Threads, Worker(w) PROVE QueuesType'
  <2>1. CASE GetJobWait(w)
    BY <1>0, <2>1 DEF GetJobWait
  <2>2. ASSUME NEW j \in Jobs, GetJobTake(w, j) PROVE QueuesType'
    BY <1>0, <2>2 DEF GetJobTake
  <2>3. CASE EraseJob(w)
    <3>1. tjob[w] \in Entries
      BY <2>3, WorkerTyped DEF EraseJob, WorkerBusy, Entries
    <3>2. Append(deque_clear_job, tjob[w]) \in Seq(Entries)
      BY <1>0, <3>1, AppendQueue
    <3> QED
      BY <1>0, <2>3, <3>2 DEF EraseJob, EraseDoing
  <2>4. CASE CheckSubtract(w)
    <3>1. subtract_thread_semaphore' \in Nat
      BY <1>0, <2>4, NextNat DEF CheckSubtract
    <3> QED
      BY <1>0, <2>4, <3>1 DEF CheckSubtract
  <2>5. CASE WorkerStart(w) \/ GetJobNothing(w) \/ BeginJob(w) \/ EndJob(w)
    BY <1>0, <2>5 DEF WorkerStart, GetJobNothing, BeginJob, EndJob
  <2>6. CASE LeavePool(w) \/ CountThread(w) \/ SignalComplete(w)
    BY <1>0, <2>6 DEF LeavePool, CountThread, SignalComplete
  <2> QED
    BY <1>5, <2>1, <2>2, <2>3, <2>4, <2>5, <2>6 DEF Worker
<1>6. CASE ClearJob
  <2>1. deque_clear_job # <<>> /\ deque_clear_job' = Tail(deque_clear_job)
    BY <1>6 DEF ClearJob
  <2>2. Head(deque_clear_job) \in Entries /\ deque_clear_job' \in Seq(Entries)
    BY <1>0, <2>1, TailWithout DEF Without
  <2> QED
    BY <1>0, <1>6, <2>2 DEF ClearJob, Entries
<1>7. ASSUME NEW c \in Cancellers, Cancel(c) PROVE QueuesType'
  <2>1. ASSUME NEW j \in Jobs, CancelPrepared(c, j) PROVE QueuesType'
    <3>1. Append(deque_clear_job, j) \in Seq(Entries)
      BY <1>0, AppendQueue DEF Entries
    <3>2. ErasePrepared(j) => deque_prepare_submit_job' \in Seq(Entries)
      BY <1>0, RemoveAtWithout DEF ErasePrepared, Without
    <3> QED
      BY <1>0, <2>1, <3>1, <3>2 DEF CancelPrepared
  <2>2. CASE CancelTakesCount(c)
    <3>1. cjob[c] \in Entries
      BY <2>2 DEF CancelTakesCount, CancelInv, Entries
    <3>2. Append(deque_clear_job, cjob[c]) \in Seq(Entries)
      BY <1>0, <3>1, AppendQueue
    <3>3. job_needed_to_do_semaphore' \in Nat
      BY <1>0, <2>2 DEF CancelTakesCount, TakeCount
    <3> QED
      BY <1>0, <2>2, <3>2, <3>3 DEF CancelTakesCount
  <2>3. CASE CancelWaiting(c) \/ CancelDoing(c) \/ CancelRequest(c) \/ CancelSync(c)
    BY <1>0, <2>3 DEF CancelWaiting, CancelDoing, CancelRequest, CancelSync
  <2> QED
    BY <1>7, <2>1, <2>2, <2>3 DEF Cancel
<1>8. CASE StartPrepare \/ StartThreads \/ Pause \/ Resume \/ StopCall
  BY <1>0, <1>8 DEF StartPrepare, StartThreads, Pause, Resume, StopCall
<1>9. CASE StopMarker
  <2>1. Append(deque_prepare_submit_job, Marker) \in Seq(Entries)
    BY <1>0, AppendQueue DEF Entries
  <2> QED
    BY <1>0, <1>9, <2>1 DEF StopMarker
<1>10. CASE StopEvent \/ StopJoin \/ StopWait
  BY <1>0, <1>10 DEF StopEvent, StopJoin, StopWait
<1>11. CASE DestroyPrepared
  BY <1>0, <1>11 DEF DestroyPrepared
<1>12. CASE DestroyUndo
  <2>1. \A j \in First : Append(deque_clear_job, j) \in Seq(Entries)
    BY <1>0, AppendQueue DEF First, Entries
  <2>2. job_needed_to_do_semaphore' \in Nat
    BY <1>0, <1>12 DEF DestroyUndo
  <2> QED
    BY <1>0, <1>12, <2>1, <2>2 DEF DestroyUndo
<1>13. CASE DestroyClear
  <2>1. Append(deque_clear_job, Marker) \in Seq(Entries)
    BY <1>0, AppendQueue DEF Entries
  <2> QED
    BY <1>0, <1>13, <2>1 DEF DestroyClear
<1>14. CASE UNCHANGED vars
  BY <1>0, <1>14 DEF vars
<1> QED
  BY <1>1, <1>2, <1>3, <1>4, <1>5, <1>6, <1>7, <1>8, <1>9, <1>10, <1>11, <1>12, <1>13, <1>14
     DEF Next, Prepare, StopSteps, DestroySteps

LEMMA WorkersTypeStep ==
  ASSUME TypeOK, [Next]_vars
  PROVE  WorkersType'
<1>0. WorkersType
  BY TypeParts
<1> USE DEF WorkersType, WorkerStates, threads, workers, Goto
<1>1. ASSUME NEW n \in Nat, AddJobThread(n), UNCHANGED tjob, arrays' \in BOOLEAN PROVE WorkersType'
  BY <1>0, <1>1, AddJobThreadStep
<1>2. ASSUME NEW j \in Jobs, Submit(j) PROVE WorkersType'
  BY <1>0, <1>2 DEF Submit
<1>3. CASE PrepareTake \/ PrepareInsert
  BY <1>0, <1>3 DEF PrepareTake, PrepareInsert
<1>4. CASE PrepareGrow
  <2>1. UNCHANGED <<threads, workers>> \/ (AddJobThread(1) /\ UNCHANGED <<tjob, arrays>>)
    BY <1>4 DEF PrepareGrow
  <2> QED
    BY <1>0, <1>1, <2>1
<1>5. CASE StartThreads
  BY <1>1, <1>5, WPoolAssumption DEF StartThreads
<1>6. ASSUME NEW w \in Threads, Worker(w) PROVE WorkersType'
  <2>1. CASE WorkerStart(w) \/ GetJobWait(w) \/ GetJobNothing(w) \/ CheckSubtract(w)
    BY <1>0, <2>1 DEF WorkerStart, GetJobWait, GetJobNothing, CheckSubtract
  <2>2. CASE BeginJob(w) \/ EndJob(w) \/ EraseJob(w) \/ \E j \in Jobs : GetJobTake(w, j)
    BY <1>0, <2>2 DEF BeginJob, EndJob, EraseJob, GetJobTake
  <2>3. CASE LeavePool(w) \/ CountThread(w) \/ SignalComplete(w)
    BY <1>0, <2>3 DEF LeavePool, CountThread, SignalComplete
  <2> QED
    BY <1>6, <2>1, <2>2, <2>3 DEF Worker
<1>7. CASE ClearJob \/ StartPrepare \/ Pause \/ Resume \/ StopCall
  BY <1>0, <1>7 DEF ClearJob, StartPrepare, Pause, Resume, StopCall
<1>8. ASSUME NEW c \in Cancellers, Cancel(c) PROVE WorkersType'
  BY <1>0, <1>8 DEF Cancel, CancelPrepared, CancelWaiting, CancelTakesCount, CancelDoing, CancelRequest, CancelSync
<1>9. CASE StopSteps
  BY <1>0, <1>9 DEF StopSteps, StopMarker, StopEvent, StopJoin, StopWait
<1>10. CASE DestroySteps
  BY <1>0, <1>10 DEF DestroySteps, DestroyPrepared, DestroyUndo, DestroyClear
<1>11. CASE UNCHANGED vars
  BY <1>0, <1>11 DEF vars
<1> QED
  BY <1>2, <1>3, <1>4, <1>5, <1>6, <1>7, <1>8, <1>9, <1>10, <1>11 DEF Next, Prepare

LEMMA CallersTypeStep ==
  ASSUME TypeOK, WorkerBusy, [Next]_vars
  PROVE  CallersType'
<1>0. CallersType
  BY TypeParts
<1> USE DEF CallersType, jobev, callers, cancelv, CGoto
<1>1. ASSUME NEW j \in Jobs, Submit(j) PROVE CallersType'
  BY <1>0, <1>1 DEF Submit
<1>2. CASE PrepareTake \/ PrepareInsert \/ PrepareGrow
  BY <1>0, <1>2 DEF PrepareTake, PrepareInsert, PrepareGrow
<1>3. ASSUME NEW w \in Threads, Worker(w) PROVE CallersType'
  <2>1. CASE BeginJob(w)
    BY <1>0, <2>1 DEF BeginJob
  <2>2. CASE EndJob(w)
    <3>1. tjob[w] \in Jobs
      BY <2>2, WorkerTyped DEF EndJob, WorkerBusy
    <3> QED
      BY <1>0, <2>2, <3>1 DEF EndJob
  <2>3. BeginJob(w) \/ EndJob(w) \/ UNCHANGED <<jobev, callers, cancelv>>
    BY <1>3 DEF Worker, WorkerStart, GetJobWait, GetJobTake, GetJobNothing, EraseJob, CheckSubtract,
                LeavePool, CountThread, SignalComplete
  <2> QED
    BY <1>0, <2>1, <2>2, <2>3
<1>4. ASSUME NEW c \in Cancellers, Cancel(c) PROVE CallersType'
  <2>1. ASSUME NEW j \in Jobs, CancelPrepared(c, j) PROVE CallersType'
    BY <1>0, <2>1 DEF CancelPrepared
  <2>2. CASE CancelWaiting(c) \/ CancelTakesCount(c) \/ CancelDoing(c) \/ CancelSync(c)
    BY <1>0, <2>2 DEF CancelWaiting, CancelTakesCount, CancelDoing, CancelSync
  <2>3. CASE CancelRequest(c)
    BY <1>0, <2>3 DEF CancelRequest
  <2> QED
    BY <1>4, <2>1, <2>2, <2>3 DEF Cancel
<1>5. CASE ClearJob \/ StartPrepare \/ StartThreads \/ Pause \/ Resume \/ StopCall
  BY <1>0, <1>5 DEF ClearJob, StartPrepare, StartThreads, Pause, Resume, StopCall
<1>6. CASE StopSteps
  BY <1>0, <1>6 DEF StopSteps, StopMarker, StopEvent, StopJoin, StopWait
<1>7. CASE DestroySteps
  BY <1>0, <1>7 DEF DestroySteps, DestroyPrepared, DestroyUndo, DestroyClear
<1>8. CASE UNCHANGED vars
  BY <1>0, <1>8 DEF vars
<1> QED
  BY <1>1, <1>2, <1>3, <1>4, <1>5, <1>6, <1>7, <1>8 DEF Next, Prepare

LEMMA TypeStep ==
  ASSUME TypeOK, WorkerBusy, PrepareInv, CancelInv, NumbersExact, [Next]_vars
  PROVE  TypeOK'
<1>1. PoolType' /\ QueuesType' /\ WorkersType' /\ CallersType'
  BY TypeParts, PoolTypeStep, QueuesTypeStep, WorkersTypeStep, CallersTypeStep
<1>2. NumbersExact'
  BY NumbersExactStep
<1>3. running_job_number' \in Nat /\ running_thread_number' \in Nat
  <2>1. RunningJobs' \in SUBSET Threads /\ RunningThreads' \in SUBSET Threads
    BY DEF RunningJobs, RunningThreads
  <2> QED
    BY <1>2, <2>1, WPoolAssumption, FS_Subset, FS_CardinalityType DEF NumbersExact
<1> QED
  BY <1>1, <1>3 DEF TypeOK, PoolType, QueuesType, WorkersType, CallersType, Entries, WorkerStates

-----------------------------------------------------------------------------
(***************************************************************************)
(* Each step takes a job from one place to the next.                       *)
(***************************************************************************)
prepared == <<deque_prepare_submit_job, prepare_job, set_waiting_jobs, ids, unsubmitted>>
working == <<tjob, map_doing_jobs>>
cleared == <<deque_clear_job, deleted>>

\* Only these steps touch where a job is or its id.
LEMMA PlaceSteps ==
  ASSUME [Next]_vars
  PROVE  \/ UNCHANGED <<prepared, working, cleared>>
         \/ \E j \in Jobs : Submit(j)
         \/ PrepareTake \/ PrepareInsert \/ ClearJob \/ StopMarker \/ DestroyUndo \/ DestroyClear
         \/ \E w \in Threads : EraseJob(w) \/ \E j \in Jobs : GetJobTake(w, j)
         \/ \E c \in Cancellers : CancelTakesCount(c) \/ \E j \in Jobs : CancelPrepared(c, j)
<1> DEFINE Same == UNCHANGED <<prepared, working, cleared>>
<1> USE DEF prepared, working, cleared, prepv, ids, queues, clearv, workers, callers
<1>1. PrepareGrow \/ StartPrepare \/ StartThreads \/ Pause \/ Resume \/ StopCall => Same
  BY DEF PrepareGrow, StartPrepare, StartThreads, Pause, Resume, StopCall
<1>2. StopEvent \/ StopJoin \/ StopWait \/ DestroyPrepared => Same
  BY DEF StopEvent, StopJoin, StopWait, DestroyPrepared
<1>3. ASSUME NEW w \in Threads, Worker(w)
      PROVE  EraseJob(w) \/ (\E j \in Jobs : GetJobTake(w, j)) \/ Same
  BY <1>3 DEF Worker, WorkerStart, GetJobWait, GetJobNothing, BeginJob, EndJob, CheckSubtract,
              LeavePool, CountThread, SignalComplete
<1>4. ASSUME NEW c \in Cancellers, Cancel(c)
      PROVE  CancelTakesCount(c) \/ (\E j \in Jobs : CancelPrepared(c, j)) \/ Same
  BY <1>4 DEF Cancel, CancelWaiting, CancelDoing, CancelRequest, CancelSync
<1>5. UNCHANGED vars => Same
  BY DEF vars
<1> HIDE DEF Same
<1>6. ASSUME \E w \in Threads : Worker(w)
      PROVE  Same \/ \E w \in Threads : EraseJob(w) \/ \E j \in Jobs : GetJobTake(w, j)
  BY <1>3, <1>6
<1>7. ASSUME \E c \in Cancellers : Cancel(c)
      PROVE  Same \/ \E c \in Cancellers : CancelTakesCount(c) \/ \E j \in Jobs : CancelPrepared(c, j)
  BY <1>4, <1>7
<1> QED
  BY <1>1, <1>2, <1>5, <1>6, <1>7 DEF Next, Prepare, StopSteps, DestroySteps, Same

\* A step that leaves the workers alone.
LEMMA WorkersKept ==
  ASSUME UNCHANGED working, WorkerOnce, DoingExact
  PROVE  WorkerOnce' /\ DoingExact' /\ \A j \in Jobs : AtWorker(j)' = AtWorker(j)
BY DEF working, WorkerOnce, DoingExact, AtWorker

LEMMA SubmitPlaces ==
  ASSUME TypeOK, PlaceInv, NEW j \in Jobs, Submit(j)
  PROVE  PlaceInv'
<1> USE DEF PlaceInv, ids, queues, workers, clearv, working
<1>1. WorkerOnce' /\ DoingExact' /\ \A k \in Jobs : AtWorker(k)' = AtWorker(k)
  BY WorkersKept DEF Submit
<1>2. /\ UNCHANGED <<prepare_job, set_waiting_jobs, deque_clear_job, deleted>>
      /\ j \in unsubmitted /\ unsubmitted' = unsubmitted \ {j}
  BY DEF Submit, prepv
<1>3. job_id[j] = 0 /\ job_id \in [Jobs -> Nat] /\ job_index \in Nat
  BY <1>2 DEF UnsubmittedNew, TypeOK
<1>4. CASE UNCHANGED <<ids, deque_prepare_submit_job>>
  <2>1. \A k \in Jobs : InOnePlace(k)'
    BY <1>1, <1>2, <1>4 DEF InOnePlace, ExactlyOne
  <2> QED
    BY <1>1, <1>2, <1>4, <2>1 DEF UnsubmittedNew
<1>5. ASSUME job_id' = [job_id EXCEPT ![j] = job_index + 1],
             deque_prepare_submit_job' = Append(deque_prepare_submit_job, j)
      PROVE  PlaceInv'
  <2>1. job_id'[j] # 0 /\ \A k \in Jobs \ {j} : job_id'[k] = job_id[k]
    BY <1>3, <1>5
  <2>2. \A k \in Jobs : In(k, deque_prepare_submit_job') <=> In(k, deque_prepare_submit_job) \/ k = j
    BY <1>5, AppendQueue DEF TypeOK, Entries
  <2>3. \A k \in Jobs : InOnePlace(k)'
    BY <1>1, <1>2, <1>3, <2>1, <2>2 DEF InOnePlace, ExactlyOne
  <2>4. UnsubmittedNew'
    BY <1>2, <2>1 DEF UnsubmittedNew, TypeOK
  <2> QED
    BY <1>1, <1>2, <2>3, <2>4
<1> QED
  BY <1>4, <1>5 DEF Submit

LEMMA PreparePlaces ==
  ASSUME TypeOK, PlaceInv, PrepareInv, Once(deque_prepare_submit_job), PrepareTake \/ PrepareInsert
  PROVE  PlaceInv'
<1> USE DEF PlaceInv, ids, queues, workers, clearv, callers, working
<1>1. WorkerOnce' /\ DoingExact' /\ \A k \in Jobs : AtWorker(k)' = AtWorker(k)
  BY WorkersKept DEF PrepareTake, PrepareInsert
<1>2. UNCHANGED <<ids, deque_clear_job, deleted, unsubmitted>> /\ NoJob \notin Jobs /\ Marker \notin Jobs
  BY WPoolAssumption DEF PrepareTake, PrepareInsert
<1>3. CASE PrepareTake
  <2>1. /\ deque_prepare_submit_job # <<>> /\ deque_prepare_submit_job' = Tail(deque_prepare_submit_job)
        /\ set_waiting_jobs' = set_waiting_jobs /\ prepare_job = NoJob
        /\ prepare_job' = IF Front = Marker THEN NoJob ELSE Front
    BY <1>3 DEF PrepareTake, PrepareInv
  <2>2. deque_prepare_submit_job \in Seq(Entries)
    BY DEF TypeOK, Entries
  <2>3. Front \in Entries /\ In(Front, deque_prepare_submit_job)
    BY <2>1, <2>2, TailWithout DEF Front, In
  <2>4. \A k \in Jobs : In(k, deque_prepare_submit_job') <=> In(k, deque_prepare_submit_job) /\ k # Front
    BY <2>1, <2>2, TailWithout, WithoutQueue DEF Front
  <2>5. \A k \in Jobs : InOnePlace(k)'
    BY <1>1, <1>2, <2>1, <2>3, <2>4 DEF InOnePlace, ExactlyOne
  <2> QED
    BY <1>1, <1>2, <2>5 DEF UnsubmittedNew
<1>4. CASE PrepareInsert
  <2>1. /\ prepare_job \in Jobs /\ prepare_job' = NoJob /\ set_waiting_jobs' = set_waiting_jobs \cup {prepare_job}
        /\ UNCHANGED deque_prepare_submit_job
    BY <1>4 DEF PrepareInsert, PrepareInv, TypeOK
  <2>2. \A k \in Jobs : InOnePlace(k)'
    BY <1>1, <1>2, <2>1 DEF InOnePlace, ExactlyOne
  <2> QED
    BY <1>1, <1>2, <2>2 DEF UnsubmittedNew
<1> QED
  BY <1>3, <1>4

LEMMA TakePlaces ==
  ASSUME TypeOK, PlaceInv, WorkerBusy, NEW w \in Threads, NEW j \in Jobs, GetJobTake(w, j)
  PROVE  PlaceInv'
<1> USE DEF PlaceInv
<1>1. /\ UNCHANGED <<deque_prepare_submit_job, prepare_job, job_id, deque_clear_job, deleted, unsubmitted>>
      /\ set_waiting_jobs' = set_waiting_jobs \ {j} /\ map_doing_jobs' = map_doing_jobs \cup {j}
      /\ tjob' = [tjob EXCEPT ![w] = j] /\ j \in set_waiting_jobs
  BY DEF GetJobTake, prepv, ids, clearv, callers, First
<1>2. tjob[w] = NoJob /\ tjob \in [Threads -> Jobs \cup {NoJob}] /\ NoJob \notin Jobs
  BY WorkerTyped DEF GetJobTake, WorkerBusy
<1>3. \A k \in Jobs : AtWorker(k)' <=> AtWorker(k) \/ k = j
  BY <1>1, <1>2 DEF AtWorker
<1>4. ~AtWorker(j)
  BY <1>1 DEF InOnePlace, ExactlyOne
<1>5. WorkerOnce'
  BY <1>1, <1>2, <1>4 DEF WorkerOnce, AtWorker
<1>6. DoingExact'
  BY <1>1, <1>3 DEF DoingExact
<1>7. \A k \in Jobs : InOnePlace(k)'
  BY <1>1, <1>3 DEF InOnePlace, ExactlyOne
<1> QED
  BY <1>1, <1>5, <1>6, <1>7 DEF UnsubmittedNew

LEMMA ErasePlaces ==
  ASSUME TypeOK, PlaceInv, WorkerBusy, NEW w \in Threads, EraseJob(w)
  PROVE  PlaceInv'
<1> DEFINE j == tjob[w]
<1> USE DEF PlaceInv
<1>1. /\ UNCHANGED <<deque_prepare_submit_job, prepare_job, job_id, deleted, unsubmitted, set_waiting_jobs>>
      /\ map_doing_jobs' = map_doing_jobs \ {j} /\ deque_clear_job' = Append(deque_clear_job, j)
      /\ tjob' = [tjob EXCEPT ![w] = NoJob]
  BY DEF EraseJob, EraseDoing, AddClearJob, prepv, ids, callers
<1>2. j \in Jobs /\ tjob \in [Threads -> Jobs \cup {NoJob}] /\ NoJob \notin Jobs
  BY WorkerTyped DEF EraseJob, WorkerBusy
<1>3. \A k \in Jobs : AtWorker(k)' <=> AtWorker(k) /\ k # j
  BY <1>1, <1>2 DEF AtWorker, WorkerOnce
<1>4. AtWorker(j)
  BY DEF AtWorker
<1>5. WorkerOnce' /\ DoingExact'
  BY <1>1, <1>2, <1>3 DEF WorkerOnce, DoingExact
<1>6. ~In(j, deque_clear_job)
  BY <1>2, <1>4 DEF InOnePlace, ExactlyOne
<1>7. Once(deque_clear_job)' /\ \A k \in Jobs : In(k, deque_clear_job') <=> In(k, deque_clear_job) \/ k = j
  BY <1>1, <1>2, <1>6, AppendQueue DEF TypeOK, Entries
<1> HIDE DEF j
<1>8. \A k \in Jobs : InOnePlace(k)'
  BY <1>1, <1>2, <1>3, <1>4, <1>7 DEF InOnePlace, ExactlyOne
<1> QED
  BY <1>1, <1>5, <1>7, <1>8 DEF UnsubmittedNew

\* A job that is cancelled, or dropped by the destructor.
LEMMA DropPlaces ==
  ASSUME TypeOK, PlaceInv, NEW j \in Jobs,
         In(j, deque_prepare_submit_job) \/ j \in set_waiting_jobs,
         UNCHANGED <<working, prepare_job, job_id, unsubmitted, deleted>>,
         deque_clear_job' = Append(deque_clear_job, j),
         \A k \in Jobs : In(k, deque_prepare_submit_job') <=> In(k, deque_prepare_submit_job) /\ k # j,
         \A k \in Jobs : k \in set_waiting_jobs' <=> k \in set_waiting_jobs /\ k # j
  PROVE  PlaceInv'
<1> USE DEF PlaceInv
<1>1. WorkerOnce' /\ DoingExact' /\ \A k \in Jobs : AtWorker(k)' = AtWorker(k)
  BY WorkersKept
<1>2. ~In(j, deque_clear_job)
  BY DEF InOnePlace, ExactlyOne
<1>3. Once(deque_clear_job)' /\ \A k \in Jobs : In(k, deque_clear_job') <=> In(k, deque_clear_job) \/ k = j
  BY <1>2, AppendQueue DEF TypeOK, Entries
<1>4. \A k \in Jobs : InOnePlace(k)'
  BY <1>1, <1>3 DEF InOnePlace, ExactlyOne
<1> QED
  BY <1>1, <1>3, <1>4 DEF UnsubmittedNew

\* A marker in a queue is no job.
LEMMA MarkerPlaces ==
  ASSUME TypeOK, PlaceInv, StopMarker \/ DestroyClear
  PROVE  PlaceInv'
<1> USE DEF PlaceInv
<1>1. UNCHANGED <<working, prepare_job, job_id, unsubmitted, deleted, set_waiting_jobs>> /\ Marker \notin Jobs
  BY WPoolAssumption DEF StopMarker, DestroyClear, working, workers, queues, ids, clearv, callers, prepv
<1>2. WorkerOnce' /\ DoingExact' /\ \A k \in Jobs : AtWorker(k)' = AtWorker(k)
  BY <1>1, WorkersKept
<1>3. /\ deque_prepare_submit_job' \in {deque_prepare_submit_job, Append(deque_prepare_submit_job, Marker)}
      /\ deque_clear_job' \in {deque_clear_job, Append(deque_clear_job, Marker)}
  BY DEF StopMarker, DestroyClear, prepv, clearv
<1>4. deque_prepare_submit_job \in Seq(Entries) /\ deque_clear_job \in Seq(Entries) /\ Marker \in Entries
  BY DEF TypeOK, Entries
<1>5. \A k \in Jobs : In(k, deque_prepare_submit_job') <=> In(k, deque_prepare_submit_job)
  <2>1. CASE deque_prepare_submit_job' = deque_prepare_submit_job
    BY <2>1
  <2>2. CASE deque_prepare_submit_job' = Append(deque_prepare_submit_job, Marker)
    BY <1>4, <2>2, AppendMarker
  <2> QED
    BY <1>3, <2>1, <2>2
<1>6. Once(deque_clear_job)' /\ \A k \in Jobs : In(k, deque_clear_job') <=> In(k, deque_clear_job)
  <2>1. CASE deque_clear_job' = deque_clear_job
    BY <2>1 DEF Once
  <2>2. CASE deque_clear_job' = Append(deque_clear_job, Marker)
    BY <1>4, <2>2, AppendMarker
  <2> QED
    BY <1>3, <2>1, <2>2
<1>7. \A k \in Jobs : InOnePlace(k)'
  BY <1>1, <1>2, <1>5, <1>6 DEF InOnePlace, ExactlyOne
<1> QED
  BY <1>1, <1>2, <1>6, <1>7 DEF UnsubmittedNew

LEMMA ClearPlaces ==
  ASSUME TypeOK, PlaceInv, ClearJob
  PROVE  PlaceInv'
<1> DEFINE e == Head(deque_clear_job)
<1> USE DEF PlaceInv
<1>1. /\ UNCHANGED <<working, prepare_job, job_id, unsubmitted, set_waiting_jobs, deque_prepare_submit_job>>
      /\ deque_clear_job # <<>> /\ deque_clear_job' = Tail(deque_clear_job)
      /\ (e = Marker /\ deleted' = deleted) \/ (e # Marker /\ deleted' = deleted \cup {e})
  BY DEF ClearJob, working, workers, queues, ids, callers, prepv
<1>2. WorkerOnce' /\ DoingExact' /\ \A k \in Jobs : AtWorker(k)' = AtWorker(k)
  BY <1>1, WorkersKept
<1>3. deque_clear_job \in Seq(Entries) /\ Marker \notin Jobs
  BY WPoolAssumption DEF TypeOK, Entries
<1>4. e \in Entries /\ In(e, deque_clear_job)
  BY <1>1, <1>3, TailWithout DEF In
<1>5. Once(deque_clear_job)' /\ \A k \in Jobs : In(k, deque_clear_job') <=> In(k, deque_clear_job) /\ k # e
  BY <1>1, <1>3, TailWithout, WithoutQueue
<1> HIDE DEF e
<1>6. \A k \in Jobs : InOnePlace(k)'
  BY <1>1, <1>2, <1>3, <1>4, <1>5 DEF InOnePlace, ExactlyOne, Entries
<1> QED
  BY <1>1, <1>2, <1>5, <1>6 DEF UnsubmittedNew

LEMMA PlaceStep ==
  ASSUME TypeOK, PlaceInv, OrderInv, WorkerBusy, PrepareInv, CancelInv, [Next]_vars
  PROVE  PlaceInv'
<1>1. Once(deque_prepare_submit_job) /\ deque_prepare_submit_job \in Seq(Entries)
  BY AscendingOnce DEF OrderInv, TypeOK, Entries
<1>2. ASSUME NEW c \in Cancellers, NEW j \in Jobs, CancelPrepared(c, j) PROVE PlaceInv'
  <2>1. UNCHANGED <<working, prepare_job, job_id, unsubmitted, deleted, set_waiting_jobs>>
    BY <1>2 DEF CancelPrepared, working, workers, queues, ids, callers
  <2>2. CASE ErasePrepared(j) /\ AddClearJob(j)
    <3>1. PICK i \in DOMAIN deque_prepare_submit_job :
            /\ deque_prepare_submit_job[i] = j
            /\ deque_prepare_submit_job' = Seqs!RemoveAt(deque_prepare_submit_job, i)
      BY <2>2 DEF ErasePrepared
    <3>2. \A k \in Jobs : In(k, deque_prepare_submit_job') <=> In(k, deque_prepare_submit_job) /\ k # j
      BY <1>1, <3>1, RemoveAtWithout, WithoutQueue
    <3>3. In(j, deque_prepare_submit_job)
      BY <3>1 DEF In
    <3>4. \A k \in Jobs : k \in set_waiting_jobs' <=> k \in set_waiting_jobs /\ k # j
      BY <2>1, <3>3 DEF PlaceInv, InOnePlace, ExactlyOne
    <3> QED
      BY <2>1, <2>2, <3>2, <3>3, <3>4, DropPlaces DEF AddClearJob
  <2>3. CASE UNCHANGED <<deque_prepare_submit_job, deque_clear_job>>
    <3>1. WorkerOnce' /\ DoingExact' /\ \A k \in Jobs : AtWorker(k)' = AtWorker(k)
      BY <2>1, WorkersKept DEF PlaceInv
    <3> QED
      BY <2>1, <2>3, <3>1 DEF PlaceInv, InOnePlace, ExactlyOne, UnsubmittedNew
  <2> QED
    BY <1>2, <2>2, <2>3 DEF CancelPrepared
<1>3. ASSUME NEW j \in set_waiting_jobs, set_waiting_jobs' = set_waiting_jobs \ {j}, AddClearJob(j),
             UNCHANGED <<working, prepare_job, job_id, unsubmitted, deleted, deque_prepare_submit_job>>
      PROVE  PlaceInv'
  <2>1. j \in Jobs
    BY DEF TypeOK
  <2>2. \A k \in Jobs : In(k, deque_prepare_submit_job') <=> In(k, deque_prepare_submit_job) /\ k # j
    BY <1>3, <2>1 DEF PlaceInv, InOnePlace, ExactlyOne
  <2> QED
    BY <1>3, <2>1, <2>2, DropPlaces DEF AddClearJob
<1>4. ASSUME NEW c \in Cancellers, CancelTakesCount(c) PROVE PlaceInv'
  BY <1>3, <1>4 DEF CancelTakesCount, CancelInv, working, workers, prepv, ids, callers
<1>5. CASE UNCHANGED <<prepared, working, cleared>>
  <2>1. WorkerOnce' /\ DoingExact' /\ \A k \in Jobs : AtWorker(k)' = AtWorker(k)
    BY <1>5, WorkersKept DEF PlaceInv
  <2> QED
    BY <1>5, <2>1 DEF PlaceInv, InOnePlace, ExactlyOne, UnsubmittedNew, prepared, cleared, ids
<1>6. CASE DestroyUndo
  <2>1. CASE UNCHANGED <<set_waiting_jobs, deque_clear_job>>
    BY <1>5, <1>6, <2>1 DEF DestroyUndo, prepared, working, cleared, ids, prepv, workers, callers
  <2>2. ASSUME NEW j \in First, set_waiting_jobs' = set_waiting_jobs \ {j}, AddClearJob(j) PROVE PlaceInv'
    BY <1>3, <1>6, <2>2 DEF DestroyUndo, First, working, workers, prepv, ids, callers
  <2> QED
    BY <1>6, <2>1, <2>2 DEF DestroyUndo
<1> QED
  BY <1>1, <1>2, <1>4, <1>5, <1>6, PlaceSteps, SubmitPlaces, PreparePlaces, TakePlaces, ErasePlaces,
     MarkerPlaces, ClearPlaces

-----------------------------------------------------------------------------
(***************************************************************************)
(* Ids along the queues.                                                   *)
(***************************************************************************)

LEMMA AppendOrder ==
  ASSUME NEW q \in Seq(Entries), NEW e \in Entries, NEW id, Ascending(q, id),
         \A i \in DOMAIN q : q[i] \in Jobs /\ e \in Jobs => id[q[i]] < id[e]
  PROVE  /\ Ascending(Append(q, e), id)
         /\ \A k : Below(k, q, id) /\ (e \in Jobs => id[k] < id[e]) => Below(k, Append(q, e), id)
<1> DEFINE t == Append(q, e)
           n == Len(q)
<1>1. /\ DOMAIN t = 1..n + 1 /\ t[n + 1] = e /\ \A i \in DOMAIN q : t[i] = q[i]
      /\ n \in Nat /\ DOMAIN q = 1..n
  OBVIOUS
<1> HIDE DEF t, n
<1>2. \A i \in DOMAIN t : i \in DOMAIN q \/ i = n + 1
  BY <1>1
<1>3. \A i \in DOMAIN t : n + 1 < i => FALSE
  BY <1>1
<1>4. \A i, k \in DOMAIN t : i < k => i \in DOMAIN q
  BY <1>1
<1>5. Ascending(t, id)
  BY <1>1, <1>2, <1>3, <1>4 DEF Ascending
<1>6. \A k : Below(k, q, id) /\ (e \in Jobs => id[k] < id[e]) => Below(k, t, id)
  BY <1>1, <1>2 DEF Below
<1> QED
  BY <1>5, <1>6 DEF t

LEMMA HeadBelow ==
  ASSUME NEW q \in Seq(Entries), q # <<>>, NEW id, Ascending(q, id), Head(q) \in Jobs
  PROVE  Below(Head(q), Tail(q), id)
<1>1. /\ 1 \in DOMAIN q /\ Head(q) = q[1] /\ \A i \in DOMAIN Tail(q) : Tail(q)[i] = q[i + 1]
      /\ \A i \in DOMAIN Tail(q) : i + 1 \in DOMAIN q /\ 1 < i + 1
  OBVIOUS
<1> QED
  BY <1>1 DEF Ascending, Below

\* Order looks only at the ids of jobs in the queue.
LEMMA SameOrder ==
  ASSUME NEW q, NEW id, NEW id2, \A i \in DOMAIN q : q[i] \in Jobs => id2[q[i]] = id[q[i]]
  PROVE  /\ Ascending(q, id) => Ascending(q, id2)
         /\ \A k : Below(k, q, id) /\ id2[k] = id[k] => Below(k, q, id2)
BY DEF Ascending, Below

\* A step that only takes jobs out.
LEMMA ShrinkOrder ==
  ASSUME OrderInv, UNCHANGED ids, set_waiting_jobs' \subseteq set_waiting_jobs, prepare_job' = prepare_job,
         Ascending(deque_prepare_submit_job', job_id),
         \A k : Below(k, deque_prepare_submit_job, job_id) => Below(k, deque_prepare_submit_job', job_id)
  PROVE  OrderInv'
<1>1. job_id' = job_id /\ job_index' = job_index
  BY DEF ids
<1>2. IdsBound' /\ IdsDiffer'
  BY <1>1 DEF OrderInv, IdsBound, IdsDiffer
<1> QED
  BY <1>1, <1>2 DEF OrderInv

LEMMA SubmitOrder ==
  ASSUME TypeOK, PlaceInv, OrderInv, NEW j \in Jobs, Submit(j)
  PROVE  OrderInv'
<1>1. UNCHANGED <<prepare_job, set_waiting_jobs>> /\ set_waiting_jobs \subseteq Jobs
  BY DEF Submit, queues, TypeOK
<1>2. job_id[j] = 0 /\ job_id \in [Jobs -> Nat] /\ job_index \in Nat /\ deque_prepare_submit_job \in Seq(Entries)
  BY DEF Submit, PlaceInv, UnsubmittedNew, TypeOK, Entries
<1>3. CASE UNCHANGED <<ids, deque_prepare_submit_job>>
  BY <1>1, <1>3, ShrinkOrder DEF OrderInv
<1>4. ASSUME job_index' = job_index + 1, job_id' = [job_id EXCEPT ![j] = job_index + 1],
             deque_prepare_submit_job' = Append(deque_prepare_submit_job, j)
      PROVE  OrderInv'
  <2> DEFINE q == deque_prepare_submit_job
  <2>1. job_id'[j] = job_index + 1 /\ \A k \in Jobs \ {j} : job_id'[k] = job_id[k]
    BY <1>2, <1>4
  <2>2. \A k \in Jobs : job_id[k] \in Nat /\ job_id[k] <= job_index
    BY <1>2 DEF OrderInv, IdsBound
  <2>3. IdsBound'
    BY <1>2, <1>4, <2>1, <2>2 DEF IdsBound
  <2>4. \A k \in Jobs \ {j} : job_id'[k] # job_id'[j]
    BY <1>2, <2>1, <2>2
  <2>5. IdsDiffer'
    BY <2>1, <2>4 DEF IdsDiffer, OrderInv
  <2>6. ~In(j, q) /\ prepare_job # j /\ j \notin set_waiting_jobs
    BY <1>2 DEF PlaceInv, InOnePlace, ExactlyOne
  <2>7. \A i \in DOMAIN q : q[i] \in Jobs => q[i] \in Jobs \ {j}
    BY <2>6 DEF In
  <2>8. \A i \in DOMAIN q : q[i] \in Jobs => job_id'[q[i]] = job_id[q[i]]
    BY <2>1, <2>7
  <2>9. \A k \in Jobs \ {j} : job_id'[k] < job_id'[j]
    BY <1>2, <2>1, <2>2
  <2>10. Ascending(q, job_id') /\ \A k \in Jobs \ {j} : Below(k, q, job_id) => Below(k, q, job_id')
    BY <2>1, <2>8, SameOrder DEF OrderInv
  <2>11. \A i \in DOMAIN q : q[i] \in Jobs /\ j \in Jobs => job_id'[q[i]] < job_id'[j]
    BY <2>7, <2>9
  <2>12. Ascending(q', job_id') /\ \A k \in Jobs \ {j} : Below(k, q, job_id) => Below(k, q', job_id')
    <3>1. j \in Entries
      BY DEF Entries
    <3> HIDE DEF q
    <3>2. q \in Seq(Entries) /\ q' = Append(q, j)
      BY <1>2, <1>4 DEF q
    <3> QED
      BY <2>9, <2>10, <2>11, <3>1, <3>2, AppendOrder
  <2>13. prepare_job' \in Jobs => Below(prepare_job', q', job_id')
    BY <1>1, <2>6, <2>12 DEF OrderInv
  <2>14. \A k \in set_waiting_jobs' : Below(k, q', job_id')
    BY <1>1, <2>6, <2>12 DEF OrderInv
  <2>15. \A k \in set_waiting_jobs' : prepare_job' \in Jobs => job_id'[k] < job_id'[prepare_job']
    BY <1>1, <2>1, <2>6 DEF OrderInv
  <2> QED
    BY <2>3, <2>5, <2>12, <2>13, <2>14, <2>15 DEF OrderInv
<1> QED
  BY <1>3, <1>4 DEF Submit

LEMMA PrepareOrder ==
  ASSUME TypeOK, OrderInv, PrepareInv, PrepareTake \/ PrepareInsert
  PROVE  OrderInv'
<1> DEFINE q == deque_prepare_submit_job
<1>1. job_id' = job_id /\ job_index' = job_index /\ NoJob \notin Jobs /\ Marker \notin Jobs
  BY WPoolAssumption DEF PrepareTake, PrepareInsert, ids
<1>2. IdsBound' /\ IdsDiffer'
  BY <1>1 DEF OrderInv, IdsBound, IdsDiffer
<1>3. CASE PrepareTake
  <2>1. /\ q # <<>> /\ q' = Tail(q) /\ set_waiting_jobs' = set_waiting_jobs
        /\ prepare_job' = IF Front = Marker THEN NoJob ELSE Front
    BY <1>3 DEF PrepareTake, PrepareInv, queues
  <2>2. q \in Seq(Entries) /\ Ascending(q, job_id)
    BY DEF TypeOK, Entries, OrderInv
  <2>3. Ascending(q', job_id) /\ \A k : Below(k, q, job_id) => Below(k, q', job_id)
    BY <2>1, <2>2, TailWithout, WithoutQueue
  <2>4. Front \in Jobs => Below(Front, q', job_id)
    BY <2>1, <2>2, HeadBelow DEF Front
  <2>5. \A k \in set_waiting_jobs : Front \in Jobs => job_id[k] < job_id[Front]
    <3>1. 1 \in DOMAIN q /\ Front = q[1]
      BY <2>1, <2>2, TailWithout DEF Front
    <3> QED
      BY <3>1 DEF OrderInv, Below
  <2>6. prepare_job' \in Jobs => prepare_job' = Front
    BY <1>1, <2>1
  <2> QED
    BY <1>1, <1>2, <2>1, <2>3, <2>4, <2>5, <2>6 DEF OrderInv
<1>4. CASE PrepareInsert
  <2>1. /\ q' = q /\ set_waiting_jobs' = set_waiting_jobs \cup {prepare_job}
        /\ prepare_job' \notin Jobs /\ prepare_job \in Jobs
    BY <1>1, <1>4 DEF PrepareInsert, PrepareInv, TypeOK
  <2> QED
    BY <1>1, <1>2, <2>1 DEF OrderInv
<1> QED
  BY <1>3, <1>4

LEMMA OrderStep ==
  ASSUME TypeOK, PlaceInv, OrderInv, PrepareInv, [Next]_vars
  PROVE  OrderInv'
<1>1. deque_prepare_submit_job \in Seq(Entries) /\ Ascending(deque_prepare_submit_job, job_id)
  BY DEF TypeOK, Entries, OrderInv
<1>2. ASSUME UNCHANGED <<ids, prepare_job, deque_prepare_submit_job>>, set_waiting_jobs' \subseteq set_waiting_jobs
      PROVE  OrderInv'
  BY <1>1, <1>2, ShrinkOrder
<1>3. ASSUME NEW w \in Threads, EraseJob(w) \/ \E j \in Jobs : GetJobTake(w, j) PROVE OrderInv'
  BY <1>2, <1>3 DEF EraseJob, GetJobTake, prepv
<1>4. ASSUME NEW c \in Cancellers, CancelTakesCount(c) PROVE OrderInv'
  BY <1>2, <1>4 DEF CancelTakesCount, prepv
<1>5. ASSUME NEW c \in Cancellers, NEW j \in Jobs, CancelPrepared(c, j) PROVE OrderInv'
  <2>1. UNCHANGED <<ids, prepare_job, set_waiting_jobs>>
    BY <1>5 DEF CancelPrepared, queues
  <2>2. CASE ErasePrepared(j)
    <3>1. PICK i \in DOMAIN deque_prepare_submit_job :
            deque_prepare_submit_job' = Seqs!RemoveAt(deque_prepare_submit_job, i)
      BY <2>2 DEF ErasePrepared
    <3>2. /\ Ascending(deque_prepare_submit_job', job_id)
          /\ \A k : Below(k, deque_prepare_submit_job, job_id) => Below(k, deque_prepare_submit_job', job_id)
      BY <1>1, <3>1, RemoveAtWithout, WithoutQueue
    <3> QED
      BY <2>1, <3>2, ShrinkOrder
  <2> QED
    BY <1>2, <1>5, <2>1, <2>2 DEF CancelPrepared
<1>6. CASE StopMarker
  <2>1. /\ UNCHANGED <<ids, prepare_job, set_waiting_jobs>>
        /\ deque_prepare_submit_job' = Append(deque_prepare_submit_job, Marker)
        /\ Marker \in Entries /\ Marker \notin Jobs
    BY <1>6, WPoolAssumption DEF StopMarker, queues, Entries
  <2>2. /\ Ascending(deque_prepare_submit_job', job_id)
        /\ \A k : Below(k, deque_prepare_submit_job, job_id) => Below(k, deque_prepare_submit_job', job_id)
    BY <1>1, <2>1, AppendOrder
  <2> QED
    BY <2>1, <2>2, ShrinkOrder
<1>7. CASE ClearJob \/ DestroyUndo \/ DestroyClear
  BY <1>2, <1>7 DEF ClearJob, DestroyUndo, DestroyClear, prepv, queues
<1>8. CASE UNCHANGED <<prepared, working, cleared>>
  BY <1>2, <1>8 DEF prepared
<1> QED
  BY <1>3, <1>4, <1>5, <1>6, <1>7, <1>8, PlaceSteps, SubmitOrder, PrepareOrder

-----------------------------------------------------------------------------
(***************************************************************************)
(* The semaphore counts the waiting jobs nobody has come for.              *)
(***************************************************************************)
Takers == {w \in Threads : tpc[w] = "take"}
Late == {"dundo", "dclear", "djoin clear", "destroyed"}

LEMMA CountsFinite ==
  ASSUME TypeOK
  PROVE  /\ IsFiniteSet(Takers) /\ Cardinality(Takers) \in Nat
         /\ IsFiniteSet(set_waiting_jobs) /\ Cardinality(set_waiting_jobs) \in Nat
<1>1. Takers \in SUBSET Threads /\ set_waiting_jobs \in SUBSET Jobs
  BY DEF Takers, TypeOK
<1> QED
  BY <1>1, WPoolAssumption, FS_Subset, FS_CardinalityType

\* The destructor does not come back from clearing.
LEMMA LateStays ==
  ASSUME opc \in Late, [Next]_vars
  PROVE  opc' \in Late
<1> USE DEF Late, owner, OwnerGoto
<1>1. ASSUME NEW j \in Jobs, Submit(j) PROVE UNCHANGED opc
  BY <1>1 DEF Submit
<1>2. Prepare \/ ClearJob \/ Pause \/ Resume => UNCHANGED opc
  BY DEF Prepare, PrepareTake, PrepareInsert, PrepareGrow, ClearJob, Pause, Resume
<1>3. ASSUME NEW w \in Threads, Worker(w) PROVE UNCHANGED opc
  BY <1>3 DEF Worker, WorkerStart, GetJobWait, GetJobTake, GetJobNothing, BeginJob, EndJob, EraseJob,
              CheckSubtract, LeavePool, CountThread, SignalComplete
<1>4. ASSUME NEW c \in Cancellers, Cancel(c) PROVE UNCHANGED opc
  BY <1>4 DEF Cancel, CancelPrepared, CancelWaiting, CancelTakesCount, CancelDoing, CancelRequest, CancelSync
<1>5. ~StartPrepare /\ ~StartThreads /\ ~StopCall /\ ~StopSteps
  BY DEF StartPrepare, StartThreads, StopCall, StopSteps, StopMarker, StopEvent, StopJoin, StopWait
<1>6. CASE DestroySteps
  BY <1>6 DEF DestroySteps, DestroyPrepared, DestroyUndo, DestroyClear
<1>7. UNCHANGED vars => UNCHANGED opc
  BY DEF vars
<1> QED
  BY <1>1, <1>2, <1>3, <1>4, <1>5, <1>6, <1>7 DEF Next

\* Only these steps touch the semaphore, the waiting jobs or who has come for one.
LEMMA SemaphoreSteps ==
  ASSUME TypeOK, [Next]_vars
  PROVE  \/ UNCHANGED <<job_needed_to_do_semaphore, set_waiting_jobs>> /\ Takers' = Takers
         \/ PrepareInsert \/ DestroyUndo
         \/ \E w \in Threads : GetJobWait(w) \/ \E j \in Jobs : GetJobTake(w, j)
         \/ \E c \in Cancellers : CancelTakesCount(c)
<1> DEFINE Same == UNCHANGED <<job_needed_to_do_semaphore, set_waiting_jobs>> /\ Takers' = Takers
<1> USE DEF sems, queues, workers, Goto
<1>0. ASSUME UNCHANGED <<job_needed_to_do_semaphore, set_waiting_jobs>>,
             \A w \in Threads : tpc'[w] = "take" <=> tpc[w] = "take"
      PROVE  Same
  BY <1>0 DEF Takers
<1>1. ASSUME NEW n \in Nat, AddJobThread(n), UNCHANGED <<job_needed_to_do_semaphore, set_waiting_jobs>>
      PROVE  Same
  BY <1>0, <1>1, AddJobThreadStep
<1> HIDE DEF Same
<1>2. ASSUME NEW j \in Jobs, Submit(j) PROVE Same
  BY <1>0, <1>2 DEF Submit
<1>3. PrepareTake \/ ClearJob \/ StartPrepare \/ Pause \/ Resume \/ StopCall => Same
  BY <1>0 DEF PrepareTake, ClearJob, StartPrepare, Pause, Resume, StopCall
<1>4. PrepareGrow => Same
  BY <1>0, <1>1 DEF PrepareGrow
<1>5. StartThreads => Same
  BY <1>1, WPoolAssumption DEF StartThreads
<1>6. ASSUME NEW w \in Threads, Worker(w)
      PROVE  Same \/ GetJobWait(w) \/ \E j \in Jobs : GetJobTake(w, j)
  <2>1. CASE WorkerStart(w) \/ GetJobNothing(w) \/ BeginJob(w) \/ EndJob(w) \/ EraseJob(w)
    BY <1>0, <2>1, WorkerTyped DEF WorkerStart, GetJobNothing, BeginJob, EndJob, EraseJob
  <2>2. CASE CheckSubtract(w) \/ LeavePool(w) \/ CountThread(w) \/ SignalComplete(w)
    BY <1>0, <2>2, WorkerTyped DEF CheckSubtract, LeavePool, CountThread, SignalComplete
  <2> QED
    BY <1>6, <2>1, <2>2 DEF Worker
<1>7. ASSUME NEW c \in Cancellers, Cancel(c) PROVE Same \/ CancelTakesCount(c)
  BY <1>0, <1>7 DEF Cancel, CancelPrepared, CancelWaiting, CancelDoing, CancelRequest, CancelSync
<1>8. StopSteps => Same
  BY <1>0 DEF StopSteps, StopMarker, StopEvent, StopJoin, StopWait
<1>9. DestroySteps => Same \/ DestroyUndo
  BY <1>0 DEF DestroySteps, DestroyPrepared, DestroyClear
<1>10. UNCHANGED vars => Same
  BY <1>0 DEF vars
<1>11. ASSUME \E w \in Threads : Worker(w)
       PROVE  Same \/ \E w \in Threads : GetJobWait(w) \/ \E j \in Jobs : GetJobTake(w, j)
  BY <1>6, <1>11
<1>12. ASSUME \E c \in Cancellers : Cancel(c) PROVE Same \/ \E c \in Cancellers : CancelTakesCount(c)
  BY <1>7, <1>12
<1> QED
  BY <1>2, <1>3, <1>4, <1>5, <1>8, <1>9, <1>10, <1>11, <1>12 DEF Next, Prepare, Same

LEMMA SemaphoreStep ==
  ASSUME TypeOK, PlaceInv, PrepareInv, CancelInv, SemaphoreExact, [Next]_vars
  PROVE  SemaphoreExact'
<1> DEFINE s == job_needed_to_do_semaphore
<1>1. opc' \notin Late => opc \notin Late
  BY LateStays
<1>2. opc \notin Late => s + Cardinality(Takers) = Cardinality(set_waiting_jobs)
  BY DEF SemaphoreExact, Late, Takers
<1>3. ASSUME opc \notin Late => s' + Cardinality(Takers') = Cardinality(set_waiting_jobs')
      PROVE  SemaphoreExact'
  BY <1>1, <1>3 DEF SemaphoreExact, Late, Takers
<1>4. s \in Nat
  BY DEF TypeOK
<1> HIDE DEF s
<1>5. CASE UNCHANGED <<job_needed_to_do_semaphore, set_waiting_jobs>> /\ Takers' = Takers
  BY <1>2, <1>3, <1>5 DEF s
<1>6. CASE PrepareInsert
  <2>1. s' = s + 1 /\ set_waiting_jobs' = set_waiting_jobs \cup {prepare_job} /\ Takers' = Takers
    BY <1>6 DEF PrepareInsert, Released, Takers, workers, s
  <2>2. prepare_job \notin set_waiting_jobs
    BY <1>6 DEF PrepareInsert, PrepareInv, PlaceInv, InOnePlace, ExactlyOne, TypeOK
  <2>3. Cardinality(set_waiting_jobs') = Cardinality(set_waiting_jobs) + 1
    BY <2>1, <2>2, CountsFinite, FS_AddElement
  <2> QED
    BY <1>2, <1>3, <1>4, <2>1, <2>3, CountsFinite
<1>7. CASE DestroyUndo
  BY <1>3, <1>7 DEF DestroyUndo, Late
<1>8. ASSUME NEW w \in Threads, GetJobWait(w) PROVE SemaphoreExact'
  <2>1. set_waiting_jobs' = set_waiting_jobs
    BY <1>8 DEF GetJobWait, queues
  <2>2. CASE s' = s /\ tpc'[w] # "take"
    <3>1. Takers' = Takers
      BY <1>8, <2>2, WorkerTyped DEF GetJobWait, Goto, Takers
    <3> QED
      BY <1>2, <1>3, <2>1, <2>2, <3>1
  <2>3. CASE s' = s - 1 /\ tpc' = [tpc EXCEPT ![w] = "take"]
    <3>1. Takers' = Takers \cup {w} /\ w \notin Takers
      BY <1>8, <2>3, WorkerTyped DEF GetJobWait, Takers
    <3>2. Cardinality(Takers') = Cardinality(Takers) + 1
      BY <3>1, CountsFinite, FS_AddElement
    <3> QED
      BY <1>2, <1>3, <1>4, <2>1, <2>3, <3>2, CountsFinite
  <2> QED
    BY <1>8, <2>2, <2>3, WorkerTyped DEF GetJobWait, Goto, sems, s
<1>9. ASSUME NEW w \in Threads, NEW j \in Jobs, GetJobTake(w, j) PROVE SemaphoreExact'
  <2>1. s' = s /\ set_waiting_jobs' = set_waiting_jobs \ {j} /\ j \in set_waiting_jobs
    BY <1>9 DEF GetJobTake, First, sems, s
  <2>2. Takers' = Takers \ {w} /\ w \in Takers
    BY <1>9, WorkerTyped DEF GetJobTake, Goto, Takers
  <2>3. Cardinality(Takers') = Cardinality(Takers) - 1
    BY <2>2, CountsFinite, FS_RemoveElement
  <2>4. Cardinality(set_waiting_jobs') = Cardinality(set_waiting_jobs) - 1
    BY <2>1, CountsFinite, FS_RemoveElement
  <2> QED
    BY <1>2, <1>3, <1>4, <2>1, <2>3, <2>4, CountsFinite
<1>10. ASSUME NEW c \in Cancellers, CancelTakesCount(c) PROVE SemaphoreExact'
  <2>1. s' = s - 1 /\ set_waiting_jobs' = set_waiting_jobs \ {cjob[c]} /\ Takers' = Takers
    BY <1>10 DEF CancelTakesCount, TakeCount, Takers, workers, s
  <2>2. cjob[c] \in set_waiting_jobs
    BY <1>10 DEF CancelTakesCount, CancelInv
  <2>3. Cardinality(set_waiting_jobs') = Cardinality(set_waiting_jobs) - 1
    BY <2>1, <2>2, CountsFinite, FS_RemoveElement
  <2> QED
    BY <1>2, <1>3, <1>4, <2>1, <2>3, CountsFinite
<1> QED
  BY <1>5, <1>6, <1>7, <1>8, <1>9, <1>10, SemaphoreSteps

-----------------------------------------------------------------------------
(***************************************************************************)
(* The theorems.                                                           *)
(***************************************************************************)

LEMMA WPoolInvInit == Init => WPoolInv
<1> SUFFICES ASSUME Init PROVE WPoolInv
  OBVIOUS
<1>1. TypeOK
  BY TypeInit
<1>2. \A j \in Jobs : job_id[j] = 0 /\ ~In(j, deque_prepare_submit_job) /\ prepare_job # j
                      /\ j \notin set_waiting_jobs /\ ~AtWorker(j) /\ ~In(j, deque_clear_job) /\ j \notin deleted
  BY WPoolAssumption DEF Init, In, AtWorker
<1>3. \A j \in Jobs : InOnePlace(j)
  BY <1>2 DEF InOnePlace, ExactlyOne
<1>4. PlaceInv
  BY <1>2, <1>3 DEF Init, PlaceInv, Once, WorkerOnce, DoingExact, UnsubmittedNew
<1>5. OrderInv
  BY WPoolAssumption DEF Init, OrderInv, IdsBound, IdsDiffer, Ascending, Below
<1>6. WorkerBusy /\ PrepareInv /\ CancelInv
  BY DEF Init, WorkerBusy, PrepareInv, CancelInv
<1>7. RunningJobs = {} /\ RunningThreads = {} /\ Takers = {} /\ set_waiting_jobs = {} /\ job_needed_to_do_semaphore = 0
  BY DEF Init, RunningJobs, RunningThreads, Takers
<1>8. NumbersExact
  BY <1>7, FS_EmptySet DEF Init, NumbersExact
<1>9. SemaphoreExact
  <2>1. Cardinality(Takers) = 0 /\ Cardinality(set_waiting_jobs) = 0
    BY <1>7, FS_EmptySet
  <2>2. job_needed_to_do_semaphore + Cardinality(Takers) = Cardinality(set_waiting_jobs)
    BY <1>7, <2>1
  <2> QED
    BY <2>2 DEF SemaphoreExact, Takers
<1> QED
  BY <1>1, <1>4, <1>5, <1>6, <1>8, <1>9 DEF WPoolInv

LEMMA WPoolInvStep == WPoolInv /\ [Next]_vars => WPoolInv'
<1> SUFFICES ASSUME WPoolInv, [Next]_vars PROVE WPoolInv'
  OBVIOUS
<1>1. TypeOK /\ PlaceInv /\ OrderInv /\ WorkerBusy /\ PrepareInv /\ CancelInv /\ NumbersExact /\ SemaphoreExact
  BY DEF WPoolInv
<1>2. TypeOK' /\ WorkerBusy' /\ PrepareInv' /\ CancelInv' /\ NumbersExact'
  BY <1>1, TypeStep, WorkerBusyStep, PrepareInvStep, CancelInvStep, NumbersExactStep
<1>3. PlaceInv' /\ OrderInv' /\ SemaphoreExact'
  BY <1>1, PlaceStep, OrderStep, SemaphoreStep
<1> QED
  BY <1>2, <1>3 DEF WPoolInv

\* The strengthened invariant of the Windows pool, for every step of Next.
THEOREM WPoolInvariant == Spec => []WPoolInv
BY WPoolInvInit, WPoolInvStep, PTL DEF Spec

\* The variables keep their types: in particular no counter goes below zero, and what the
\* prepare thread, a worker or a canceller hands on is always a job.
THEOREM TypeCorrect == Spec => []TypeOK
<1>1. WPoolInv => TypeOK
  BY DEF WPoolInv
<1> QED
  BY <1>1, WPoolInvariant, PTL

\* The semaphore agrees with the waiting jobs, so a worker that was woken finds one,
\* however cancelJob and the workers meet (rthreadpool.cpp:433, 573, 702-737).
THEOREM WokenFindsJob == Spec => []SemaphoreExact
<1>1. WPoolInv => SemaphoreExact
  BY DEF WPoolInv
<1> QED
  BY <1>1, WPoolInvariant, PTL

\* A set with no two elements counts 1 or 0.
LEMMA CountOne ==
  ASSUME NEW S, \A x, y \in S : x = y
  PROVE  Cardinality(S) = IF S # {} THEN 1 ELSE 0
<1>1. S = {} \/ \E x : S = {x}
  OBVIOUS
<1> QED
  BY <1>1, FS_EmptySet, FS_Singleton

LEMMA OccursOnce ==
  ASSUME NEW q, Once(q), NEW j \in Jobs
  PROVE  Occurs(j, q) = IF In(j, q) THEN 1 ELSE 0
<1> DEFINE D == {i \in DOMAIN q : q[i] = j}
<1>1. D # {} <=> In(j, q)
  BY DEF In
<1>2. \A x, y \in D : x = y
  BY DEF Once
<1>3. Occurs(j, q) = Cardinality(D)
  BY DEF Occurs
<1> HIDE DEF D
<1> QED
  BY <1>1, <1>2, <1>3, CountOne

LEMMA OnePlace == WPoolInv => WJobInOnePlace
<1> SUFFICES ASSUME WPoolInv PROVE WJobInOnePlace
  OBVIOUS
<1>1. TypeOK /\ PlaceInv /\ OrderInv
  BY DEF WPoolInv
<1>2. Once(deque_prepare_submit_job) /\ Once(deque_clear_job)
  BY <1>1, AscendingOnce DEF OrderInv, PlaceInv, TypeOK, Entries
<1>3. ASSUME NEW j \in Jobs
      PROVE  /\ Occurs(j, deque_prepare_submit_job) + Is(prepare_job = j) + Is(j \in set_waiting_jobs)
                  + Cardinality(Holders(j)) + Occurs(j, deque_clear_job) + Is(j \in deleted) = Is(job_id[j] > 0)
             /\ j \in map_doing_jobs <=> Holders(j) # {}
  <2>1. Holders(j) # {} <=> AtWorker(j)
    BY DEF Holders, AtWorker
  <2>2. \A x, y \in Holders(j) : x = y
    BY <1>1, WPoolAssumption DEF Holders, PlaceInv, WorkerOnce
  <2>3. Cardinality(Holders(j)) = IF AtWorker(j) THEN 1 ELSE 0
    BY <2>1, <2>2, CountOne
  <2>4. /\ Occurs(j, deque_prepare_submit_job) = IF In(j, deque_prepare_submit_job) THEN 1 ELSE 0
        /\ Occurs(j, deque_clear_job) = IF In(j, deque_clear_job) THEN 1 ELSE 0
    BY <1>2, OccursOnce
  <2>5. job_id[j] > 0 <=> job_id[j] # 0
    <3>1. job_id[j] \in Nat
      BY <1>1 DEF TypeOK
    <3> QED
      BY <3>1
  <2>6. ExactlyOne(job_id[j] = 0, In(j, deque_prepare_submit_job), prepare_job = j, j \in set_waiting_jobs,
                   AtWorker(j), In(j, deque_clear_job), j \in deleted)
    BY <1>1 DEF PlaceInv, InOnePlace
  <2>7. Occurs(j, deque_prepare_submit_job) + Is(prepare_job = j) + Is(j \in set_waiting_jobs)
          + Cardinality(Holders(j)) + Occurs(j, deque_clear_job) + Is(j \in deleted) = Is(job_id[j] > 0)
    BY <2>3, <2>4, <2>5, <2>6 DEF ExactlyOne, Is
  <2> QED
    BY <1>1, <2>1, <2>7 DEF PlaceInv, DoingExact
<1> QED
  BY <1>1, <1>3 DEF WJobInOnePlace

\* An accepted job is in exactly one place from submitJob to its deletion: it is not run
\* or deleted twice and not lost, whatever cancelJob, stop, a restart and the destructor
\* do meanwhile (rthreadpool.cpp:406-434, 535-587, 722-736, 780-789, 884-899).
THEOREM NeverLostNorTwice == Spec => []WJobInOnePlace
BY OnePlace, WPoolInvariant, PTL

\* A job is taken by GetJobTake only.
LEMMA TakenByTake ==
  ASSUME TypeOK, [Next]_vars, NEW w \in Threads, NEW j \in Jobs, tjob[w] = NoJob, tjob'[w] = j
  PROVE  j \in First
<1> USE DEF workers
<1>1. tjob' # tjob /\ tjob \in [Threads -> Jobs \cup {NoJob}] /\ NoJob \notin Jobs
  BY WorkerTyped
<1>2. PICK v \in Threads : Worker(v)
  BY <1>1, WorkerSteps
<1>3. ASSUME NEW k \in Jobs, GetJobTake(v, k) PROVE j \in First
  BY <1>1, <1>3 DEF GetJobTake
<1>4. ~EraseJob(v)
  BY <1>1 DEF EraseJob
<1> QED
  BY <1>1, <1>2, <1>3, <1>4 DEF Worker, WorkerStart, GetJobWait, GetJobNothing, BeginJob, EndJob,
     CheckSubtract, LeavePool, CountThread, SignalComplete

\* ... and what is first among the waiting jobs of its priority is older than all that
\* are on their way.
LEMMA FirstIsOldest ==
  ASSUME WPoolInv, NEW j \in First, NEW k \in Jobs, Prio[k] = Prio[j], k # j, Untaken(k)
  PROVE  job_id[k] > job_id[j]
<1>1. TypeOK /\ PlaceInv /\ OrderInv
  BY DEF WPoolInv
<1>2. /\ job_id \in [Jobs -> Nat] /\ set_waiting_jobs \subseteq Jobs /\ j \in set_waiting_jobs /\ j \in Jobs
      /\ Prio[j] \in Int
  BY <1>1, WPoolAssumption DEF TypeOK, First
<1>3. Once(deque_prepare_submit_job)
  BY <1>1, AscendingOnce DEF OrderInv, TypeOK, Entries
<1>4. CASE Occurs(k, deque_prepare_submit_job) > 0
  <2>1. In(k, deque_prepare_submit_job)
    BY <1>3, <1>4, OccursOnce
  <2> QED
    BY <1>1, <1>2, <2>1 DEF OrderInv, Below, In
<1>5. CASE prepare_job = k
  BY <1>1, <1>2, <1>5 DEF OrderInv
<1>6. CASE k \in set_waiting_jobs
  <2>1. ~(job_id[k] < job_id[j])
    BY <1>2, <1>6 DEF First, Before
  <2>2. job_id[k] # job_id[j]
    BY <1>1, <1>2, <1>6 DEF OrderInv, IdsDiffer, PlaceInv, InOnePlace, ExactlyOne
  <2> QED
    BY <1>2, <2>1, <2>2
<1> QED
  BY <1>4, <1>5, <1>6 DEF Untaken

\* Among jobs of one priority nobody is overtaken on the way from submitJob over the
\* prepare thread to a worker (rthreadpool.h:133-137, rthreadpool.cpp:406, 484, 724).
THEOREM TakenInOrder == Spec => TakeInOrder
<1> DEFINE InOrder ==
      \A w \in Threads, j, k \in Jobs :
        tjob[w] = NoJob /\ tjob'[w] = j /\ Prio[k] = Prio[j] /\ k # j /\ Untaken(k)
          => job_id[k] > job_id[j]
<1>1. WPoolInv => TypeOK
  BY DEF WPoolInv
<1>2. WPoolInv /\ [Next]_vars => InOrder
  BY <1>1, TakenByTake, FirstIsOldest
<1>3. TakeInOrder <=> [][InOrder]_vars
  BY DEF TakeInOrder
<1> HIDE DEF InOrder
<1> QED
  BY <1>2, <1>3, WPoolInvariant, PTL DEF Spec
=============================================================================
