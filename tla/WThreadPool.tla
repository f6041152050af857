---------------------------- MODULE WThreadPool ----------------------------
(***************************************************************************)
(* The thread pool of the Windows server demo                              *)
(* (rpc_srv_demo/threadpool/rthreadpool.cpp), which shares its interface,  *)
(* not its design, with the Linux one.  submitJob only queues a job; a     *)
(* "prepare" thread moves it to the waiting jobs, counts it in a semaphore *)
(* and adds a worker when all of them are busy; workers wait for {stop,    *)
(* job, subtract}; a "clear" thread deletes what is finished.  The kernel  *)
(* objects are Windows': a wait takes the first signalled object of its    *)
(* list in one step, and waiting for ALL of {mutex, semaphore} takes both  *)
(* or neither.  TPASSERT is compiled out, as in a Release build: where the *)
(* code then goes on through a null pointer or a deleted job, the process  *)
(* has crashed.                                                            *)
(***************************************************************************)
EXTENDS Integers, Sequences, FiniteSets

Seqs == INSTANCE SequencesExt

CONSTANTS Jobs,        \* RBaseJob objects the connections submit, numbered: each is
                       \* allocated for its submission
          Threads,     \* worker thread slots; a slot is free again when its thread has ended
          Cancellers,  \* threads that call cancelJob with sync_flag
          MinThreads, MaxThreads,  \* the arguments of start
          Prio,        \* job_priority_ of each job
          Polling,     \* the jobs whose _run asks _getJobWaitType(INFINITE) whether to go on
          NoJob, Marker, NoOwner,
          Targets,     \* the jobs cancelJob is called for
          MaxStarts, MaxDestroys,  \* bounds on the calls
          MaxCalls     \* and on those of stop and cancelJob together

ASSUME WPoolAssumption ==
  /\ Jobs \subseteq Nat /\ IsFiniteSet(Jobs) /\ IsFiniteSet(Threads) /\ Polling \subseteq Jobs
  /\ Targets \subseteq Jobs
  /\ MinThreads \in Nat \ {0} /\ MaxThreads \in Nat /\ MinThreads <= MaxThreads
  /\ MaxThreads <= Cardinality(Threads)
  /\ Prio \in [Jobs -> Int]
  /\ NoJob \notin Jobs /\ Marker \notin Jobs \cup {NoJob} /\ NoOwner \notin Cancellers
  /\ MaxStarts \in Nat /\ MaxCalls \in Nat /\ MaxDestroys \in {0, 1}

VARIABLES
  thread_pool_submit_flag, thread_pool_is_running,
  stop_event, all_thread_complete_event, continue_event,   \* manual-reset events
  job_needed_to_do_semaphore, subtract_thread_semaphore,
  deque_prepare_submit_job,  \* its semaphore always counts its entries
  prepare, prepare_job, prepare_handle,   \* the prepare thread, its job, the pool's handle on it
  set_waiting_jobs, waiting_lock,         \* waiting_lock: the canceller that keeps it
  map_doing_jobs,            \* job ids are unique: the set of jobs
  job_index, job_id,
  deque_clear_job, clearer, deleted,
  job_thread_ids,            \* the first cur_number_threads_ entries of the arrays
  arrays,                    \* job_thread_handles_ # NULL
  running_job_number, running_thread_number,
  tpc, tjob,
  stop_job_event, sync_cancel_job_event,  \* of each job
  cpc, cjob, opc,
  unsubmitted, rejected, crash,
  starts, stops, cancels, destroys

flags   == <<thread_pool_submit_flag, thread_pool_is_running>>
events  == <<stop_event, all_thread_complete_event, continue_event>>
sems    == <<job_needed_to_do_semaphore, subtract_thread_semaphore>>
prepv   == <<deque_prepare_submit_job, prepare, prepare_job, prepare_handle>>
ids     == <<job_index, job_id>>
queues  == <<set_waiting_jobs, map_doing_jobs>>
clearv  == <<deque_clear_job, clearer, deleted>>
threads == <<job_thread_ids, arrays>>
numbers == <<running_job_number, running_thread_number>>
workers == <<tpc, tjob>>
jobev   == <<stop_job_event, sync_cancel_job_event>>
callers == <<unsubmitted, rejected>>
cancelv == <<waiting_lock, cpc, cjob, cancels>>
owner   == <<opc, starts, stops, destroys>>
vars == <<flags, events, sems, prepv, ids, queues, clearv, threads, numbers, workers,
          jobev, callers, cancelv, owner, crash>>

TypeOK ==
  /\ thread_pool_submit_flag \in BOOLEAN /\ thread_pool_is_running \in BOOLEAN
  /\ stop_event \in BOOLEAN /\ all_thread_complete_event \in BOOLEAN /\ continue_event \in BOOLEAN
  /\ job_needed_to_do_semaphore \in Nat /\ subtract_thread_semaphore \in Nat
  /\ deque_prepare_submit_job \in Seq(Jobs \cup {Marker})
  /\ prepare \in {"none", "wait", "insert", "grow", "exited"}
  /\ prepare_job \in Jobs \cup {NoJob} /\ prepare_handle \in BOOLEAN
  /\ set_waiting_jobs \subseteq Jobs /\ map_doing_jobs \subseteq Jobs
  /\ waiting_lock \in Cancellers \cup {NoOwner}
  /\ job_index \in Nat /\ job_id \in [Jobs -> Nat]
  /\ deque_clear_job \in Seq(Jobs \cup {Marker}) /\ clearer \in {"run", "exited"}
  /\ deleted \subseteq Jobs
  /\ job_thread_ids \subseteq Threads /\ arrays \in BOOLEAN
  /\ running_job_number \in Nat /\ running_thread_number \in Nat
  /\ tpc \in [Threads -> {"none", "spawned", "wait", "take", "begin", "run", "erase", "check",
                          "leave", "count", "last"}]
  /\ tjob \in [Threads -> Jobs \cup {NoJob}]
  /\ stop_job_event \in [Jobs -> {"null", "unset", "set"}] /\ sync_cancel_job_event \subseteq Jobs
  /\ cpc \in [Cancellers -> {"idle", "waiting", "sem", "doing", "request", "sync"}]
  /\ cjob \in [Cancellers -> Jobs \cup {NoJob}]
  /\ opc \in {"free", "start", "marker", "event", "join", "wait", "dmarker", "devent", "djoin",
              "dwait", "dprepare", "dundo", "dclear", "djoin clear", "destroyed"}
  /\ unsubmitted \subseteq Jobs /\ rejected \subseteq Jobs
  /\ crash \in {"no", "null array", "null job", "no job", "deleted job"}
  /\ starts \in Nat /\ stops \in Nat /\ cancels \in Nat /\ destroys \in Nat

\* The constructor; it starts the clear thread.
Init ==
  /\ thread_pool_submit_flag = FALSE /\ thread_pool_is_running = FALSE
  /\ stop_event = FALSE /\ all_thread_complete_event = TRUE /\ continue_event = TRUE
  /\ job_needed_to_do_semaphore = 0 /\ subtract_thread_semaphore = 0
  /\ deque_prepare_submit_job = <<>> /\ prepare = "none" /\ prepare_job = NoJob
  /\ prepare_handle = FALSE
  /\ set_waiting_jobs = {} /\ map_doing_jobs = {} /\ waiting_lock = NoOwner
  /\ job_index = 0 /\ job_id = [j \in Jobs |-> 0]
  /\ deque_clear_job = <<>> /\ clearer = "run" /\ deleted = {}
  /\ job_thread_ids = {} /\ arrays = FALSE
  /\ running_job_number = 0 /\ running_thread_number = 0
  /\ tpc = [w \in Threads |-> "none"] /\ tjob = [w \in Threads |-> NoJob]
  /\ stop_job_event = [j \in Jobs |-> "null"] /\ sync_cancel_job_event = {}
  /\ cpc = [c \in Cancellers |-> "idle"] /\ cjob = [c \in Cancellers |-> NoJob]
  /\ opc = "free" /\ unsubmitted = Jobs /\ rejected = {} /\ crash = "no"
  /\ starts = 0 /\ stops = 0 /\ cancels = 0 /\ destroys = 0

\* The pool exists and no thread has crashed the process.
Alive == crash = "no" /\ opc # "destroyed"

cur_number_threads == Cardinality(job_thread_ids)

\* _addJobThread(n), under threads_lock_: all or none.  Which free slots the new
\* threads get makes no difference.
Free == {w \in Threads : tpc[w] = "none"}
AddJobThread(n) ==
  /\ cur_number_threads + n <= MaxThreads /\ n <= Cardinality(Free)
  /\ LET S == CHOOSE T \in SUBSET Free : Cardinality(T) = n
     IN /\ tpc' = [w \in Threads |-> IF w \in S THEN "spawned" ELSE tpc[w]]
        /\ job_thread_ids' = job_thread_ids \cup S

\* _addClearJobDeque: the semaphore of the clear thread counts the entries.
AddClearJob(j) == deque_clear_job' = Append(deque_clear_job, j)

\* RBaseJob::operator<: the order of set_waiting_jobs_ (mutant: the older job last).
Younger(j, k) == \/ Prio[j] < Prio[k]
                 \/ Prio[j] = Prio[k] /\ job_id[j] > job_id[k]
Before(j, k) == \/ Prio[j] < Prio[k]
                \/ Prio[j] = Prio[k] /\ job_id[j] < job_id[k]
First == {j \in set_waiting_jobs : \A k \in set_waiting_jobs : ~Before(k, j)}

(***************************************************************************)
(* submitJob                                                               *)
(***************************************************************************)

\* The flag is set by the first start and never reset: a stopped pool goes on
\* queueing.  The rest is one step under prepare_submit_job_mtx_.
Submit(j) ==
  /\ Alive /\ opc \notin {"dundo", "dclear", "djoin clear"}
  /\ j \in unsubmitted /\ \A k \in unsubmitted : j <= k
  /\ unsubmitted' = unsubmitted \ {j}
  /\ IF thread_pool_submit_flag
       THEN /\ job_index' = job_index + 1
            /\ job_id' = [job_id EXCEPT ![j] = job_index + 1]
            /\ deque_prepare_submit_job' = Append(deque_prepare_submit_job, j)
            /\ UNCHANGED rejected
       ELSE /\ rejected' = rejected \cup {j}
            /\ UNCHANGED <<ids, deque_prepare_submit_job>>
  /\ UNCHANGED <<flags, events, sems, prepare, prepare_job, prepare_handle, queues, clearv, threads,
                 numbers, workers, jobev, cancelv, owner, crash>>

(***************************************************************************)
(* _prepareSubmitJobThreadProc                                             *)
(***************************************************************************)

\* WaitForMultipleObjects(ALL) of mutex and semaphore: the front entry; the
\* marker ends the thread.
Front == Head(deque_prepare_submit_job)

PrepareTake ==
  /\ Alive /\ prepare = "wait" /\ deque_prepare_submit_job # <<>>
  /\ deque_prepare_submit_job' = Tail(deque_prepare_submit_job)
  /\ IF Front = Marker
       THEN prepare' = "exited" /\ UNCHANGED prepare_job
       ELSE prepare' = "insert" /\ prepare_job' = Front
  /\ UNCHANGED <<flags, events, sems, prepare_handle, ids, queues, clearv, threads, numbers, workers,
                 jobev, callers, cancelv, owner, crash>>

\* Under waiting_jobs_lock_ (mutant: the semaphore is not released).
NotReleased == job_needed_to_do_semaphore
Released == job_needed_to_do_semaphore + 1

PrepareInsert ==
  /\ Alive /\ prepare = "insert" /\ waiting_lock = NoOwner
  /\ set_waiting_jobs' = set_waiting_jobs \cup {prepare_job}
  /\ job_needed_to_do_semaphore' = Released
  /\ prepare' = "grow" /\ prepare_job' = NoJob
  /\ UNCHANGED <<flags, events, subtract_thread_semaphore, deque_prepare_submit_job, prepare_handle,
                 ids, map_doing_jobs, clearv, threads, numbers, workers, jobev, callers, cancelv,
                 owner, crash>>

NeedMoreThread == running_job_number = cur_number_threads /\ cur_number_threads < MaxThreads

\* Under threads_lock_: one more worker when all are busy.  Before start has
\* allocated the arrays _addJobThread writes through a null pointer.
PrepareGrow ==
  /\ Alive /\ prepare = "grow" /\ prepare' = "wait"
  /\ \/ /\ ~NeedMoreThread
        /\ UNCHANGED <<tpc, job_thread_ids, crash>>
     \/ /\ NeedMoreThread /\ arrays
        /\ AddJobThread(1) /\ UNCHANGED crash
     \/ /\ NeedMoreThread /\ ~arrays
        /\ crash' = "null array" /\ UNCHANGED <<tpc, job_thread_ids>>
  /\ UNCHANGED <<flags, events, sems, deque_prepare_submit_job, prepare_job, prepare_handle, ids,
                 queues, clearv, arrays, numbers, tjob, jobev, callers, cancelv, owner>>

(***************************************************************************)
(* _jobThreadProc, _doJobs, _getJob: a worker                              *)
(***************************************************************************)
Goto(w, pc) == tpc' = [tpc EXCEPT ![w] = pc]

\* running_thread_number_ is incremented by the new thread itself.
WorkerStart(w) ==
  /\ Alive /\ tpc[w] = "spawned" /\ Goto(w, "wait")
  /\ running_thread_number' = running_thread_number + 1
  /\ UNCHANGED <<flags, events, sems, prepv, ids, queues, clearv, threads, running_job_number, tjob,
                 jobev, callers, cancelv, owner, crash>>

\* WaitForMultipleObjects(ANY): the first signalled of stop, job, subtract.
GetJobWait(w) ==
  /\ Alive /\ tpc[w] = "wait"
  /\ \/ stop_event /\ Goto(w, "count") /\ UNCHANGED sems
     \/ /\ ~stop_event /\ job_needed_to_do_semaphore > 0
        /\ job_needed_to_do_semaphore' = job_needed_to_do_semaphore - 1
        /\ Goto(w, "take") /\ UNCHANGED subtract_thread_semaphore
     \/ /\ ~stop_event /\ job_needed_to_do_semaphore = 0 /\ subtract_thread_semaphore > 0
        /\ subtract_thread_semaphore' = subtract_thread_semaphore - 1
        /\ Goto(w, "leave") /\ UNCHANGED job_needed_to_do_semaphore
  /\ UNCHANGED <<flags, events, prepv, ids, queues, clearv, threads, numbers, tjob, jobev, callers,
                 cancelv, owner, crash>>

\* Under waiting_jobs_lock_ and doing_jobs_lock_.
GetJobTake(w, j) ==
  /\ Alive /\ tpc[w] = "take" /\ waiting_lock = NoOwner /\ j \in First
  /\ set_waiting_jobs' = set_waiting_jobs \ {j}
  /\ map_doing_jobs' = map_doing_jobs \cup {j}
  /\ Goto(w, "begin") /\ tjob' = [tjob EXCEPT ![w] = j]
  /\ UNCHANGED <<flags, events, sems, prepv, ids, clearv, threads, numbers, jobev, callers, cancelv,
                 owner, crash>>

\* Nothing to take: *begin() of an empty set.
GetJobNothing(w) ==
  /\ Alive /\ tpc[w] = "take" /\ waiting_lock = NoOwner /\ set_waiting_jobs = {}
  /\ crash' = "no job"
  /\ UNCHANGED <<flags, events, sems, prepv, ids, queues, clearv, threads, numbers, workers, jobev,
                 callers, cancelv, owner>>

BeginJob(w) ==
  /\ Alive /\ tpc[w] = "begin" /\ Goto(w, "run")
  /\ running_job_number' = running_job_number + 1
  /\ stop_job_event' = [stop_job_event EXCEPT ![tjob[w]] = "unset"]
  /\ UNCHANGED <<flags, events, sems, prepv, ids, queues, clearv, threads, running_thread_number,
                 tjob, sync_cancel_job_event, callers, cancelv, owner, crash>>

\* _getJobWaitType: stop of the job or of the pool, or continue, ends the wait
\* (mutant: the pool's stop event is not waited for).
NotAtStop(j) == j \in Polling => stop_job_event[j] = "set" \/ continue_event
MayGoOn(j) ==
  j \in Polling => stop_job_event[j] = "set" \/ stop_event \/ continue_event

\* _run returns; the stop event is closed, the sync event set, _finalize called.
EndJob(w) ==
  /\ Alive /\ tpc[w] = "run" /\ MayGoOn(tjob[w])
  /\ stop_job_event' = [stop_job_event EXCEPT ![tjob[w]] = "null"]
  /\ sync_cancel_job_event' = sync_cancel_job_event \cup {tjob[w]}
  /\ running_job_number' = running_job_number - 1
  /\ Goto(w, "erase")
  /\ UNCHANGED <<flags, events, sems, prepv, ids, queues, clearv, threads, running_thread_number,
                 tjob, callers, cancelv, owner, crash>>

\* Under doing_jobs_lock_ (mutant: the entry stays in the map).
KeepDoing(j) == map_doing_jobs
EraseDoing(j) == map_doing_jobs \ {j}

EraseJob(w) ==
  /\ Alive /\ tpc[w] = "erase"
  /\ map_doing_jobs' = EraseDoing(tjob[w])
  /\ AddClearJob(tjob[w])
  /\ Goto(w, "check") /\ tjob' = [tjob EXCEPT ![w] = NoJob]
  /\ UNCHANGED <<flags, events, sems, prepv, ids, set_waiting_jobs, clearer, deleted, threads,
                 numbers, jobev, callers, cancelv, owner, crash>>

\* Under waiting_jobs_lock_ and threads_lock_: a token for one worker to leave;
\* tokens that are out already are not counted.
CheckSubtract(w) ==
  /\ Alive /\ tpc[w] = "check" /\ waiting_lock = NoOwner
  /\ subtract_thread_semaphore' = subtract_thread_semaphore +
       (IF set_waiting_jobs = {} /\ cur_number_threads > MinThreads /\ ~stop_event THEN 1 ELSE 0)
  /\ Goto(w, "wait")
  /\ UNCHANGED <<flags, events, job_needed_to_do_semaphore, prepv, ids, queues, clearv, threads,
                 numbers, tjob, jobev, callers, cancelv, owner, crash>>

\* Under threads_lock_: the thread takes itself out of the arrays, if it is there.
LeavePool(w) ==
  /\ Alive /\ tpc[w] = "leave" /\ Goto(w, "count")
  /\ job_thread_ids' = job_thread_ids \ {w}
  /\ UNCHANGED <<flags, events, sems, prepv, ids, queues, clearv, arrays, numbers, tjob, jobev,
                 callers, cancelv, owner, crash>>

LastThread == running_thread_number - 1 = 0

CountThread(w) ==
  /\ Alive /\ tpc[w] = "count"
  /\ running_thread_number' = running_thread_number - 1
  /\ Goto(w, IF LastThread THEN "last" ELSE "none")
  /\ UNCHANGED <<flags, events, sems, prepv, ids, queues, clearv, threads, running_job_number, tjob,
                 jobev, callers, cancelv, owner, crash>>

SignalComplete(w) ==
  /\ Alive /\ tpc[w] = "last" /\ Goto(w, "none")
  /\ all_thread_complete_event' = TRUE
  /\ UNCHANGED <<flags, stop_event, continue_event, sems, prepv, ids, queues, clearv, threads,
                 numbers, tjob, jobev, callers, cancelv, owner, crash>>

Worker(w) ==
  \/ WorkerStart(w) \/ GetJobWait(w) \/ (\E j \in Jobs : GetJobTake(w, j))
  \/ GetJobNothing(w) \/ BeginJob(w) \/ EndJob(w) \/ EraseJob(w) \/ CheckSubtract(w) \/ LeavePool(w) \/ CountThread(w)
  \/ SignalComplete(w)

(***************************************************************************)
(* _clearJobThreadProc                                                     *)
(***************************************************************************)
ClearJob ==
  /\ Alive /\ clearer = "run" /\ deque_clear_job # <<>>
  /\ deque_clear_job' = Tail(deque_clear_job)
  /\ IF Head(deque_clear_job) = Marker
       THEN clearer' = "exited" /\ UNCHANGED deleted
       ELSE deleted' = deleted \cup {Head(deque_clear_job)} /\ UNCHANGED clearer
  /\ UNCHANGED <<flags, events, sems, prepv, ids, queues, threads, numbers, workers, jobev, callers,
                 cancelv, owner, crash>>

(***************************************************************************)
(* cancelJob                                                               *)
(***************************************************************************)
CGoto(c, pc) == cpc' = [cpc EXCEPT ![c] = pc]

\* The job's first record leaves the prepared jobs.
ErasePrepared(j) ==
  \E i \in DOMAIN deque_prepare_submit_job :
    /\ deque_prepare_submit_job[i] = j /\ \A k \in 1..i - 1 : deque_prepare_submit_job[k] # j
    /\ deque_prepare_submit_job' = Seqs!RemoveAt(deque_prepare_submit_job, i)

\* The index is in range; first the prepared jobs, under their mutex.
CancelPrepared(c, j) ==
  /\ Alive /\ cpc[c] = "idle" /\ j \in Targets /\ stops + cancels < MaxCalls
  /\ job_id[j] > 0
  /\ opc \notin {"dprepare", "dundo", "dclear", "djoin clear"}
  /\ cancels' = cancels + 1
  /\ IF \E i \in DOMAIN deque_prepare_submit_job : deque_prepare_submit_job[i] = j
       THEN /\ ErasePrepared(j) /\ AddClearJob(j) /\ UNCHANGED <<cpc, cjob>>
       ELSE /\ CGoto(c, "waiting") /\ cjob' = [cjob EXCEPT ![c] = j]
            /\ UNCHANGED <<deque_prepare_submit_job, deque_clear_job>>
  /\ UNCHANGED <<flags, events, sems, prepare, prepare_job, prepare_handle, ids, queues, clearer,
                 deleted, threads, numbers, workers, jobev, callers, waiting_lock, owner, crash>>

\* A waiting job: the canceller keeps waiting_jobs_lock_ while it waits, INFINITE,
\* for the job's count in the semaphore.
CancelWaiting(c) ==
  /\ Alive /\ cpc[c] = "waiting" /\ waiting_lock = NoOwner
  /\ IF cjob[c] \in set_waiting_jobs
       THEN waiting_lock' = c /\ CGoto(c, "sem")
       ELSE CGoto(c, "doing") /\ UNCHANGED waiting_lock
  /\ UNCHANGED <<flags, events, sems, prepv, ids, queues, clearv, threads, numbers, workers, jobev,
                 callers, cjob, cancels, owner, crash>>

\* (Mutant: the count of the job is left in the semaphore.)
NoCount == UNCHANGED job_needed_to_do_semaphore
TakeCount ==
  /\ job_needed_to_do_semaphore > 0
  /\ job_needed_to_do_semaphore' = job_needed_to_do_semaphore - 1

CancelTakesCount(c) ==
  /\ Alive /\ cpc[c] = "sem" /\ TakeCount
  /\ set_waiting_jobs' = set_waiting_jobs \ {cjob[c]}
  /\ AddClearJob(cjob[c])
  /\ waiting_lock' = NoOwner
  /\ CGoto(c, "idle") /\ cjob' = [cjob EXCEPT ![c] = NoJob]
  /\ UNCHANGED <<flags, events, subtract_thread_semaphore, prepv, ids, map_doing_jobs, clearer,
                 deleted, threads, numbers, workers, jobev, callers, cancels, owner, crash>>

\* A running job, looked up under doing_jobs_lock_ and used after it; else there
\* is nothing to cancel.
CancelDoing(c) ==
  /\ Alive /\ cpc[c] = "doing"
  /\ IF cjob[c] \in map_doing_jobs
       THEN CGoto(c, "request") /\ UNCHANGED cjob
       ELSE CGoto(c, "idle") /\ cjob' = [cjob EXCEPT ![c] = NoJob]
  /\ UNCHANGED <<flags, events, sems, prepv, ids, queues, clearv, threads, numbers, workers, jobev,
                 callers, waiting_lock, cancels, owner, crash>>

\* requestCancel: SetEvent on the job's stop event, if the worker has created it.
CancelRequest(c) ==
  /\ Alive /\ cpc[c] = "request"
  /\ IF cjob[c] \in deleted
       THEN crash' = "deleted job" /\ UNCHANGED <<stop_job_event, cpc>>
       ELSE /\ stop_job_event' = [stop_job_event EXCEPT ![cjob[c]] = IF @ = "unset" THEN "set" ELSE @]
            /\ CGoto(c, "sync") /\ UNCHANGED crash
  /\ UNCHANGED <<flags, events, sems, prepv, ids, queues, clearv, threads, numbers, workers,
                 sync_cancel_job_event, callers, waiting_lock, cjob, cancels, owner>>

\* sync_flag: wait for the job's sync event.
CancelSync(c) ==
  /\ Alive /\ cpc[c] = "sync" /\ cjob[c] \in sync_cancel_job_event
  /\ CGoto(c, "idle") /\ cjob' = [cjob EXCEPT ![c] = NoJob]
  /\ UNCHANGED <<flags, events, sems, prepv, ids, queues, clearv, threads, numbers, workers, jobev,
                 callers, waiting_lock, cancels, owner, crash>>

(***************************************************************************)
(* The owner: start, pause, resume, stop, the destructor                   *)
(***************************************************************************)
OwnerGoto(pc) == opc' = pc /\ UNCHANGED <<starts, stops, destroys>>

\* start, first part: the prepare thread runs and jobs are accepted before there
\* are arrays and workers.  (A pool that runs is not started again.)
StartPrepare ==
  /\ Alive /\ opc = "free" /\ ~thread_pool_is_running /\ starts < MaxStarts
  /\ opc' = "start" /\ starts' = starts + 1 /\ UNCHANGED <<stops, destroys>>
  /\ prepare' = "wait" /\ prepare_handle' = TRUE
  /\ thread_pool_submit_flag' = TRUE
  /\ UNCHANGED <<thread_pool_is_running, events, sems, deque_prepare_submit_job, prepare_job, ids,
                 queues, clearv, threads, numbers, workers, jobev, callers, cancelv, crash>>

StartThreads ==
  /\ Alive /\ opc = "start" /\ OwnerGoto("free")
  /\ stop_event' = FALSE /\ all_thread_complete_event' = FALSE /\ continue_event' = TRUE
  /\ arrays' = TRUE /\ AddJobThread(MinThreads)
  /\ thread_pool_is_running' = TRUE
  /\ UNCHANGED <<thread_pool_submit_flag, sems, prepv, ids, queues, clearv, numbers, tjob, jobev,
                 callers, cancelv, crash>>

Pause ==
  /\ Alive /\ opc = "free" /\ continue_event /\ continue_event' = FALSE
  /\ UNCHANGED <<flags, stop_event, all_thread_complete_event, sems, prepv, ids, queues, clearv,
                 threads, numbers, workers, jobev, callers, cancelv, owner, crash>>

Resume ==
  /\ Alive /\ opc = "free" /\ ~continue_event /\ continue_event' = TRUE
  /\ UNCHANGED <<flags, stop_event, all_thread_complete_event, sems, prepv, ids, queues, clearv,
                 threads, numbers, workers, jobev, callers, cancelv, owner, crash>>

\* stop(5000), and stop(INFINITE) in the destructor (the states that begin with d).
StopCall ==
  /\ Alive /\ opc = "free"
  /\ \/ /\ stops + cancels < MaxCalls /\ stops' = stops + 1 /\ opc' = "marker" /\ UNCHANGED destroys
     \/ /\ destroys < MaxDestroys /\ destroys' = destroys + 1 /\ opc' = "dmarker" /\ UNCHANGED stops
  /\ UNCHANGED <<flags, events, sems, prepv, ids, queues, clearv, threads, numbers, workers, jobev,
                 callers, cancelv, starts, crash>>

\* _submitPrepareExitThreadJob.
StopMarker ==
  /\ Alive
  /\ \/ opc = "marker" /\ OwnerGoto("event")
     \/ opc = "dmarker" /\ OwnerGoto("devent")
  /\ deque_prepare_submit_job' = Append(deque_prepare_submit_job, Marker)
  /\ UNCHANGED <<flags, events, sems, prepare, prepare_job, prepare_handle, ids, queues, clearv,
                 threads, numbers, workers, jobev, callers, cancelv, crash>>

StopEvent ==
  /\ Alive
  /\ \/ opc = "event" /\ OwnerGoto("join")
     \/ opc = "devent" /\ OwnerGoto("djoin")
  /\ stop_event' = TRUE
  /\ UNCHANGED <<flags, all_thread_complete_event, continue_event, sems, prepv, ids, queues, clearv,
                 threads, numbers, workers, jobev, callers, cancelv, crash>>

\* The wait for the prepare thread; on a null handle it fails at once.
StopJoin ==
  /\ Alive
  /\ prepare_handle => prepare = "exited"
  /\ \/ opc = "join" /\ OwnerGoto("wait")
     \/ opc = "djoin" /\ OwnerGoto("dwait")
  /\ prepare_handle' = FALSE
  /\ prepare' = IF prepare_handle THEN "none" ELSE prepare
  /\ UNCHANGED <<flags, events, sems, deque_prepare_submit_job, prepare_job, ids, queues, clearv,
                 threads, numbers, workers, jobev, callers, cancelv, crash>>

\* _wait: the event, or the timeout of stop(); the arrays are freed in any case.
StopWait ==
  /\ Alive
  /\ \/ opc = "wait" /\ OwnerGoto("free")
     \/ opc = "dwait" /\ all_thread_complete_event /\ OwnerGoto("dprepare")
  /\ job_thread_ids' = {} /\ arrays' = FALSE
  /\ thread_pool_is_running' = FALSE
  /\ UNCHANGED <<thread_pool_submit_flag, events, sems, prepv, ids, queues, clearv, numbers, workers,
                 jobev, callers, cancelv, crash>>

\* _clearPrepareSubmtJobs: a marker has no job, a job no pOutJobIndex; either is
\* dereferenced.
DestroyPrepared ==
  /\ Alive /\ opc = "dprepare"
  /\ IF deque_prepare_submit_job = <<>>
       THEN OwnerGoto("dundo") /\ UNCHANGED crash
       ELSE crash' = "null job" /\ UNCHANGED owner
  /\ UNCHANGED <<flags, events, sems, prepv, ids, queues, clearv, threads, numbers, workers, jobev,
                 callers, cancelv>>

\* _clearUndoWork, under waiting_jobs_lock_: a count and a job at a time, each
\* wait limited to 5000 ms and its result only asserted; then the handles go.
DestroyUndo ==
  /\ Alive /\ opc = "dundo" /\ waiting_lock = NoOwner
  /\ \/ /\ set_waiting_jobs = {} /\ OwnerGoto("dclear")
        /\ UNCHANGED <<set_waiting_jobs, job_needed_to_do_semaphore, deque_clear_job>>
     \/ \E j \in First :
          /\ job_needed_to_do_semaphore' =
               IF job_needed_to_do_semaphore > 0 THEN job_needed_to_do_semaphore - 1 ELSE 0
          /\ set_waiting_jobs' = set_waiting_jobs \ {j}
          /\ AddClearJob(j) /\ UNCHANGED owner
  /\ UNCHANGED <<flags, events, subtract_thread_semaphore, prepv, ids, map_doing_jobs, clearer,
                 deleted, threads, numbers, workers, jobev, callers, cancelv, crash>>

\* _submitExitClearThreadJob, and the wait for the clear thread.
DestroyClear ==
  /\ Alive
  /\ \/ /\ opc = "dclear" /\ OwnerGoto("djoin clear")
        /\ deque_clear_job' = Append(deque_clear_job, Marker)
     \/ opc = "djoin clear" /\ clearer = "exited" /\ OwnerGoto("destroyed") /\ UNCHANGED deque_clear_job
  /\ UNCHANGED <<flags, events, sems, prepv, ids, queues, clearer, deleted, threads, numbers, workers,
                 jobev, callers, cancelv, crash>>

Prepare == PrepareTake \/ PrepareInsert \/ PrepareGrow
Cancel(c) ==
  \/ \E j \in Jobs : CancelPrepared(c, j)
  \/ CancelWaiting(c) \/ CancelTakesCount(c) \/ CancelDoing(c) \/ CancelRequest(c) \/ CancelSync(c)
StopSteps == StopMarker \/ StopEvent \/ StopJoin \/ StopWait
DestroySteps == DestroyPrepared \/ DestroyUndo \/ DestroyClear

Next ==
  \/ \E j \in Jobs : Submit(j)
  \/ Prepare \/ (\E w \in Threads : Worker(w)) \/ ClearJob
  \/ \E c \in Cancellers : Cancel(c)
  \/ StartPrepare \/ StartThreads \/ Pause \/ Resume \/ StopCall \/ StopSteps \/ DestroySteps

Spec == Init /\ [][Next]_vars

\* Windows schedules every thread that can run; jobs end unless they are paused;
\* nobody has to submit, cancel, start, stop, pause or resume.
FairSpec ==
  /\ Spec
  /\ WF_vars(Prepare) /\ WF_vars(ClearJob)
  /\ \A w \in Threads : WF_vars(Worker(w))
  /\ WF_vars(StartThreads) /\ WF_vars(StopSteps) /\ WF_vars(DestroySteps)

(***************************************************************************)
(* Properties                                                              *)
(***************************************************************************)
Occurs(j, q) == Cardinality({i \in DOMAIN q : q[i] = j})
Is(b) == IF b THEN 1 ELSE 0
Holders(j) == {w \in Threads : tjob[w] = j}

\* A job that submitJob has accepted is in exactly one of: the prepared jobs, the
\* hand of the prepare thread, the waiting jobs, a worker (and then the map of
\* running jobs), the clear queue, deleted; so no job is run or deleted twice or
\* lost, whatever cancel, stop, restart and the destructor do meanwhile
\* (rthreadpool.cpp:406-434, 540-587, 722-736, 780-789, 884-899).
WJobInOnePlace ==
  /\ TypeOK
  /\ \A j \in Jobs :
       /\ Occurs(j, deque_prepare_submit_job) + Is(prepare_job = j) + Is(j \in set_waiting_jobs)
          + Cardinality(Holders(j)) + Occurs(j, deque_clear_job) + Is(j \in deleted) = Is(job_id[j] > 0)
       /\ j \in map_doing_jobs <=> Holders(j) # {}

\* The semaphore and the workers that have taken a count from it are as many as
\* the waiting jobs, so a worker that was woken finds a job; until the destructor
\* clears them, which it may do beside a worker (rthreadpool.cpp:335, 433, 573, 723).
SemaphoreExact ==
  opc \notin {"dundo", "dclear", "djoin clear", "destroyed"} =>
    job_needed_to_do_semaphore + Cardinality({w \in Threads : tpc[w] = "take"})
      = Cardinality(set_waiting_jobs)

\* Among jobs of one priority nobody is overtaken: when a worker takes a job, all
\* that were submitted before it have been taken or cancelled, though three
\* threads handle each (rthreadpool.h:133-137, rthreadpool.cpp:406, 484, 724).
Untaken(j) ==
  \/ Occurs(j, deque_prepare_submit_job) > 0 \/ prepare_job = j \/ j \in set_waiting_jobs
TakeInOrder ==
  [][\A w \in Threads, j, k \in Jobs :
       tjob[w] = NoJob /\ tjob'[w] = j /\ Prio[k] = Prio[j] /\ k # j /\ Untaken(k)
         => job_id[k] > job_id[j]]_vars

\* A waiting job is not left beside a worker: if it waits for ever, no worker is
\* left in the pool, the pool is stopped or paused, or a canceller sits on
\* waiting_jobs_lock_ (rthreadpool.cpp:433, 442-447, 702-737).
NotLeftBesideWorker ==
  \A j \in Jobs :
    ~<>[](/\ Alive /\ j \in set_waiting_jobs /\ ~stop_event /\ continue_event
          /\ waiting_lock = NoOwner /\ \E w \in Threads : tpc[w] # "none")

\* The destructor ends, also of a paused pool with jobs at every stage, unless the
\* process crashes or a canceller sits on waiting_jobs_lock_ (rthreadpool.cpp:67-95,
\* 236-255, 402-421, 859-864).
DestructorEnds ==
  opc = "dmarker" ~> opc = "destroyed" \/ crash # "no" \/ waiting_lock # NoOwner

\* TPASSERT(pJob) in _clearPrepareSubmtJobs, rthreadpool.cpp:374: what is left
\* among the prepared jobs when the destructor clears them are jobs.
ClearFindsJobs ==
  opc = "dprepare" => \A i \in DOMAIN deque_prepare_submit_job : deque_prepare_submit_job[i] # Marker
=============================================================================
