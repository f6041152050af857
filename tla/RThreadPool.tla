---------------------------- MODULE RThreadPool ----------------------------
(***************************************************************************)
(* The Linux thread pool of the RPC server demo                            *)
(* (rpc_srv_demo_linux/threadpool/rthreadpool.cpp): callers submit jobs,   *)
(* a manager thread turns the counting semaphore of waiting jobs into one  *)
(* auto-reset event at a time, workers wait for {stop, job, subtract},     *)
(* one helper thread joins workers that have left, another one deletes     *)
(* finished jobs, and the owner starts, stops, waits for and destroys the  *)
(* pool.  Each action is one stretch of code between two points where      *)
(* another thread can be seen.  Events are used here through their         *)
(* contract (module EventContract): SetEvent on an auto-reset event hands   *)
(* the signal to one waiting thread or leaves it set; on the manual-reset  *)
(* stop event it goes through the waiting threads one by one and may       *)
(* overwrite a signal that one of them has just been given.                *)
(***************************************************************************)
EXTENDS Integers, Sequences, FiniteSets

CONSTANTS Jobs,        \* RBaseJob objects allocated by the callers
          Submitters,  \* threads that call submitJob (one per connection)
          Cancellers,  \* threads that call cancelJob
          Threads,     \* worker thread slots; a slot is free again once joined
          MinThreads, MaxThreads,  \* the arguments of start
          Prio,        \* job_priority_ of each job
          NoJob, NoThread, NoOwner,
          MaxStarts, MaxStops, MaxDestroys,  \* bounds on the calls
          MaxDrops     \* and on those that drop jobs: clearUndoWork and cancelJob together

ASSUME PoolAssumption ==
  /\ IsFiniteSet(Jobs) /\ IsFiniteSet(Threads)
  /\ MinThreads \in Nat /\ MaxThreads \in Nat \ {0} /\ MinThreads <= MaxThreads
  /\ MaxThreads <= Cardinality(Threads)
  /\ Prio \in [Jobs -> Int]
  /\ NoJob \notin Jobs /\ NoThread \notin Threads /\ NoOwner \notin Cancellers
  /\ MaxStarts \in Nat /\ MaxStops \in Nat /\ MaxDrops \in Nat /\ MaxDestroys \in {0, 1}

VARIABLES
  thread_pool_is_running, stop_event, all_thread_complete_event,
  job_needed_event, subtract_event,     \* the two auto-reset events
  sem_job_needed, sem_notify_got,
  set_waiting_jobs, waiting_lock,       \* waiting_lock: the canceller that keeps it
  job_index, job_id, map_doing_jobs, deque_clear_job, deleted,
  last_running_thread, running_threads_count,
  running_lock,                         \* the worker that keeps running_threads_lock_
  map_thread_ids,                       \* the threads that have an entry in map_thread_ids_
  map_torn,                             \* two accesses to that map have overlapped
  queue_removing_thread, joining,       \* joining: popped, being joined under removing_threads_lock_
  mgr, cleaner, reaper,                 \* the three helper threads
  caught,                               \* the waiting worker SetEvent(stop_event_) has come to
  tpc, tjob, spc, sjob, cpc, cjob, opc,
  unsubmitted, rejected,
  overlapped,                           \* history: the jobs inserted since a submitter's fetch_add
  starts, stops, clears, cancels, destroys

events    == <<stop_event, all_thread_complete_event, job_needed_event, subtract_event>>
handoff   == <<sem_job_needed, sem_notify_got, mgr>>
jobvars   == <<set_waiting_jobs, job_index, job_id, map_doing_jobs>>
cleanvars == <<deque_clear_job, deleted, cleaner>>
locks     == <<waiting_lock, running_lock>>
counts    == <<last_running_thread, running_threads_count>>
mapvars   == <<map_thread_ids, map_torn>>
joinvars  == <<queue_removing_thread, joining, reaper, mapvars>>
workers   == <<tpc, tjob>>
callers   == <<spc, sjob, unsubmitted, rejected, overlapped>>
cancelv   == <<cpc, cjob, cancels>>
owner     == <<opc, caught, thread_pool_is_running, starts, stops, clears, destroys>>
vars == <<events, handoff, jobvars, cleanvars, locks, counts, joinvars, workers,
          callers, cancelv, owner>>

WorkerStates == {"none", "spawned", "mapping", "get", "get2", "get3", "wait", "take", "begin", "run", "end", "check",
                 "leave", "moving", "count", "last", "done", "aborted"}

EventsType ==
  /\ stop_event \in BOOLEAN /\ all_thread_complete_event \in BOOLEAN
  /\ job_needed_event \in BOOLEAN /\ subtract_event \in BOOLEAN
HandoffType ==
  /\ sem_job_needed \in Nat /\ sem_notify_got \in Nat
  /\ mgr \in {"wait", "signal", "ack", "exited"}
JobsType ==
  /\ set_waiting_jobs \in SUBSET Jobs
  /\ job_index \in Nat /\ job_id \in [Jobs -> Nat]
  /\ map_doing_jobs \in SUBSET (Nat \X Jobs)   \* id -> job
CleanType ==
  /\ deque_clear_job \in Seq(Jobs \cup {NoJob})
  /\ deleted \in SUBSET Jobs /\ cleaner \in {"run", "exited"}
LocksType ==
  /\ waiting_lock \in Cancellers \cup {NoOwner}
  /\ running_lock \in Threads \cup {NoThread}
CountsType == last_running_thread \in Int /\ running_threads_count \in Int
JoinType ==
  /\ queue_removing_thread \in Seq(Threads) /\ joining \in Threads \cup {NoThread}
  /\ reaper \in {"run", "pop", "exited"}
MapType == map_thread_ids \in SUBSET Threads /\ map_torn \in BOOLEAN
WorkersType == tpc \in [Threads -> WorkerStates] /\ tjob \in [Threads -> Jobs \cup {NoJob}]
CallersType ==
  /\ spc \in [Submitters -> {"idle", "index", "insert", "grow"}]
  /\ sjob \in [Submitters -> Jobs \cup {NoJob}]
  /\ unsubmitted \in SUBSET Jobs /\ rejected \in SUBSET Jobs
  /\ overlapped \in [Submitters -> SUBSET Jobs]
CancelType ==
  /\ cpc \in [Cancellers -> {"idle", "sem", "request", "sync"}]
  /\ cjob \in [Cancellers -> Jobs \cup {NoJob}] /\ cancels \in Nat
OwnerType ==
  /\ opc \in {"free", "stop", "wait", "dstop", "dwait", "dmgr", "dreaper", "dcleaner", "destroyed"}
  /\ caught \in Threads \cup {NoThread} /\ thread_pool_is_running \in BOOLEAN
  /\ starts \in Nat /\ stops \in Nat /\ clears \in Nat /\ destroys \in Nat

TypeOK ==
  /\ EventsType /\ HandoffType /\ JobsType /\ CleanType /\ LocksType /\ CountsType
  /\ JoinType /\ MapType /\ WorkersType /\ CallersType /\ CancelType /\ OwnerType

Init ==
  /\ thread_pool_is_running = FALSE
  /\ stop_event = FALSE /\ all_thread_complete_event = FALSE
  /\ job_needed_event = FALSE /\ subtract_event = FALSE
  /\ sem_job_needed = 0 /\ sem_notify_got = 0
  /\ set_waiting_jobs = {} /\ deleted = {}
  /\ waiting_lock = NoOwner /\ running_lock = NoThread
  /\ job_index = 0 /\ job_id = [j \in Jobs |-> 0]
  /\ map_doing_jobs = {}
  /\ deque_clear_job = <<>>
  /\ last_running_thread = 0 /\ running_threads_count = 0
  /\ queue_removing_thread = <<>> /\ joining = NoThread
  /\ map_thread_ids = {} /\ map_torn = FALSE
  /\ overlapped = [s \in Submitters |-> {}]
  /\ mgr = "wait" /\ cleaner = "run" /\ reaper = "run"
  /\ tpc = [w \in Threads |-> "none"] /\ tjob = [w \in Threads |-> NoJob]
  /\ spc = [s \in Submitters |-> "idle"] /\ sjob = [s \in Submitters |-> NoJob]
  /\ cpc = [c \in Cancellers |-> "idle"] /\ cjob = [c \in Cancellers |-> NoJob]
  /\ opc = "free" /\ caught = NoThread /\ unsubmitted = Jobs /\ rejected = {}
  /\ starts = 0 /\ stops = 0 /\ clears = 0 /\ cancels = 0 /\ destroys = 0

InState(pc) == {w \in Threads : tpc[w] = pc}

(***************************************************************************)
(* Pieces the operations share                                             *)
(***************************************************************************)

\* SetEvent on an auto-reset event: one thread blocked in the wait of _getJob
\* gets the signal (and goes to state to), otherwise the event stays set.  The
\* caller waits for a worker that has found the event unset and is not yet
\* blocked (a state in looking).  pc: the workers after the caller's own move.
HandOver(to, pc, w) == pc[w] = "wait" /\ tpc' = [pc EXCEPT ![w] = to]
NobodyWaits(pc, looking) ==
  (\A w \in Threads : pc[w] \notin {"wait"} \cup looking) /\ tpc' = pc

\* Mutants of SignalOne: the signal is handed over and kept; it is lost when
\* nobody waits.
SignalAndKeep(ev, to, pc, looking) ==
  /\ (\E w \in Threads : HandOver(to, pc, w)) \/ NobodyWaits(pc, looking)
  /\ ev' = TRUE
SignalOrLose(ev, to, pc, looking) ==
  /\ (\E w \in Threads : HandOver(to, pc, w)) \/ NobodyWaits(pc, looking)
  /\ ev' = ev

SignalOne(ev, to, pc, looking) ==
  \/ \E w \in Threads : HandOver(to, pc, w) /\ ev' = ev
  \/ NobodyWaits(pc, looking) /\ ev' = TRUE

\* max_count_threads_ - last_running_thread_ (mutant: the counter that the new
\* threads increment themselves).
RoomByStarted == MaxThreads - running_threads_count
Room == MaxThreads - last_running_thread

\* _addJobThread(n): at most as many as there is room for.
AddJobThread(n) ==
  LET add == IF Room < n THEN Room ELSE n
  IN \E S \in SUBSET InState("none") :
       /\ Cardinality(S) = add
       /\ tpc' = [w \in Threads |-> IF w \in S THEN "spawned" ELSE tpc[w]]
       /\ last_running_thread' = last_running_thread + add

\* RBaseJob::operator<: the jobs that come first in set_waiting_jobs_ (either of
\* two jobs of one id).
Before(j, k) == \/ Prio[j] < Prio[k]
                \/ Prio[j] = Prio[k] /\ job_id[j] < job_id[k]
First == {j \in set_waiting_jobs : \A k \in set_waiting_jobs : ~Before(k, j)}

\* map_doing_hobs_.find: the entries (none or one) under an id (mutant: off by one).
DoingNext(id) == {e \in map_doing_jobs : e[1] = id + 1}
Doing(id) == {e \in map_doing_jobs : e[1] = id}

(***************************************************************************)
(* submitJob                                                               *)
(***************************************************************************)

\* The pool refuses a job when it is not running; the caller keeps no other
\* reference to it.
SubmitCheck(s, j) ==
  /\ spc[s] = "idle" /\ j \in unsubmitted /\ destroys = 0
  /\ unsubmitted' = unsubmitted \ {j}
  /\ IF thread_pool_is_running
       THEN /\ spc' = [spc EXCEPT ![s] = "index"]
            /\ sjob' = [sjob EXCEPT ![s] = j]
            /\ UNCHANGED rejected
       ELSE /\ rejected' = rejected \cup {j}
            /\ UNCHANGED <<spc, sjob>>
  /\ UNCHANGED <<events, handoff, jobvars, cleanvars, locks, counts, joinvars, workers, overlapped,
                 cancelv, owner>>

\* job_index_.fetch_add, before the lock is taken (mutant: a counter that wraps).
IndexWraps == (job_index + 1) % 2
NextIndex == job_index + 1
SubmitIndex(s) ==
  /\ spc[s] = "index"
  /\ job_index' = NextIndex
  /\ spc' = [spc EXCEPT ![s] = "insert"]
  /\ UNCHANGED <<events, handoff, set_waiting_jobs, job_id, map_doing_jobs, cleanvars, locks,
                 counts, joinvars, workers, sjob, unsubmitted, rejected, overlapped, cancelv, owner>>

\* Under waiting_jobs_lock_: the id is read from job_index_ again.  The set keeps
\* two jobs of one id, because operator< calls either the smaller one.
SubmitInsert(s) ==
  /\ spc[s] = "insert" /\ waiting_lock = NoOwner
  /\ job_id' = [job_id EXCEPT ![sjob[s]] = job_index]
  /\ set_waiting_jobs' = set_waiting_jobs \cup {sjob[s]}
  /\ sem_job_needed' = sem_job_needed + 1
  /\ spc' = [spc EXCEPT ![s] = "grow"]
  /\ overlapped' = [r \in Submitters |-> IF r # s /\ spc[r] = "insert"
                                            THEN overlapped[r] \cup {sjob[s]} ELSE {}]
  /\ UNCHANGED <<events, sem_notify_got, mgr, job_index, map_doing_jobs, cleanvars, locks, counts,
                 joinvars, workers, sjob, unsubmitted, rejected, cancelv, owner>>

\* Under running_threads_lock_: one more worker while there is room.
SubmitGrow(s) ==
  /\ spc[s] = "grow" /\ running_lock = NoThread
  /\ IF Room > 0
       THEN AddJobThread(1)
       ELSE UNCHANGED <<tpc, last_running_thread>>
  /\ spc' = [spc EXCEPT ![s] = "idle"]
  /\ sjob' = [sjob EXCEPT ![s] = NoJob]
  /\ UNCHANGED <<events, handoff, jobvars, cleanvars, locks, running_threads_count, joinvars, tjob,
                 unsubmitted, rejected, overlapped, cancelv, owner>>

(***************************************************************************)
(* fnWaittingJobThreadProc: the manager                                    *)
(***************************************************************************)

\* sem_wait(&sem_job_needed_to_do_) blocks at 0 (mutant: it does not).
SemNeverBlocks == mgr = "wait"
SemJobAvailable == sem_job_needed > 0

MgrTake ==
  /\ mgr = "wait" /\ SemJobAvailable
  /\ sem_job_needed' = sem_job_needed - 1
  /\ mgr' = IF opc \in {"dmgr", "dreaper", "dcleaner", "destroyed"} THEN "exited" ELSE "signal"
  /\ UNCHANGED <<events, sem_notify_got, jobvars, cleanvars, locks, counts, joinvars, workers,
                 callers, cancelv, owner>>

MgrSignal ==
  /\ mgr = "signal"
  /\ SignalOne(job_needed_event, "take", tpc, {"get3"})
  /\ mgr' = "ack"
  /\ UNCHANGED <<stop_event, all_thread_complete_event, subtract_event, sem_job_needed,
                 sem_notify_got, jobvars, cleanvars, locks, counts, joinvars, tjob, callers,
                 cancelv, owner>>

MgrAck ==
  /\ mgr = "ack" /\ sem_notify_got > 0
  /\ sem_notify_got' = sem_notify_got - 1
  /\ mgr' = "wait"
  /\ UNCHANGED <<events, sem_job_needed, jobvars, cleanvars, locks, counts, joinvars, workers,
                 callers, cancelv, owner>>

(***************************************************************************)
(* fnJobThreadProc, doJobs and _getJob: a worker                           *)
(***************************************************************************)

\* An access to map_thread_ids_ now: new threads insert themselves without a lock,
\* and an access during such an insertion damages the map for good.  From then on
\* a thread may be missed in it, its own entry or its place in the tree being lost.
Torn == map_torn \/ InState("mapping") # {}
Missed(w) == w \notin map_thread_ids \/ Torn

\* A new thread begins to insert itself ...
WorkerMap(w) ==
  /\ tpc[w] = "spawned"
  /\ tpc' = [tpc EXCEPT ![w] = "mapping"]
  /\ map_torn' = Torn
  /\ UNCHANGED <<events, handoff, jobvars, cleanvars, locks, counts, queue_removing_thread, joining,
                 reaper, map_thread_ids, tjob, callers, cancelv, owner>>

\* ... has done so and counts itself in running_threads_count_.
WorkerStart(w) ==
  /\ tpc[w] = "mapping"
  /\ tpc' = [tpc EXCEPT ![w] = "get"]
  /\ map_thread_ids' = map_thread_ids \cup {w}
  /\ running_threads_count' = running_threads_count + 1
  /\ UNCHANGED <<events, handoff, jobvars, cleanvars, locks, last_running_thread,
                 queue_removing_thread, joining, reaper, map_torn, tjob, callers, cancelv, owner>>

\* WaitForMultipleEvents on {stop, job, subtract}: each in turn, the first one
\* found set ends the wait; else block.
GetJobWait(w) ==
  /\ \/ /\ tpc[w] = "get"
        /\ tpc' = [tpc EXCEPT ![w] = IF stop_event THEN "leave" ELSE "get2"]
        /\ UNCHANGED <<job_needed_event, subtract_event>>
     \/ /\ tpc[w] = "get2"
        /\ tpc' = [tpc EXCEPT ![w] = IF job_needed_event THEN "take" ELSE "get3"]
        /\ job_needed_event' = FALSE
        /\ UNCHANGED subtract_event
     \/ /\ tpc[w] = "get3"
        /\ tpc' = [tpc EXCEPT ![w] = IF subtract_event THEN "leave" ELSE "wait"]
        /\ subtract_event' = FALSE
        /\ UNCHANGED job_needed_event
  /\ UNCHANGED <<stop_event, all_thread_complete_event, handoff, jobvars, cleanvars, locks, counts,
                 joinvars, tjob, callers, cancelv, owner>>

\* Under waiting_jobs_lock_: the first waiting job becomes a running one.
\* map_doing_hobs_.insert keeps an entry that is already there.
GetJobTake(w, j) ==
  /\ tpc[w] = "take" /\ waiting_lock = NoOwner /\ j \in First
  /\ set_waiting_jobs' = set_waiting_jobs \ {j}
  /\ map_doing_jobs' = IF Doing(job_id[j]) = {}
                        THEN map_doing_jobs \cup {<<job_id[j], j>>}
                        ELSE map_doing_jobs
  /\ sem_notify_got' = sem_notify_got + 1
  /\ tpc' = [tpc EXCEPT ![w] = "begin"]
  /\ tjob' = [tjob EXCEPT ![w] = j]
  /\ UNCHANGED <<events, sem_job_needed, mgr, job_index, job_id, cleanvars, locks, counts, joinvars,
                 callers, cancelv, owner>>

\* TPASSERT(!set_waiting_jobs_.empty()) fails: the process aborts (Debug build).
GetJobAbort(w) ==
  /\ tpc[w] = "take" /\ waiting_lock = NoOwner /\ set_waiting_jobs = {}
  /\ tpc' = [tpc EXCEPT ![w] = "aborted"]
  /\ UNCHANGED <<events, handoff, jobvars, cleanvars, locks, counts, joinvars, tjob, callers,
                 cancelv, owner>>

\* stop_job_event_ is created before _run and destroyed after it; then the sync
\* cancel event is set and _finalize answers the request.
RunJob(w) ==
  /\ \/ tpc[w] = "begin" /\ tpc' = [tpc EXCEPT ![w] = "run"]
     \/ tpc[w] = "run"   /\ tpc' = [tpc EXCEPT ![w] = "end"]
  /\ UNCHANGED <<events, handoff, jobvars, cleanvars, locks, counts, joinvars, tjob, callers,
                 cancelv, owner>>

\* Under mutex_doing_jobs_: the entry found under the id goes to the cleaner.
EndJob(w) ==
  /\ tpc[w] = "end"
  /\ LET found == Doing(job_id[tjob[w]])
     IN /\ map_doing_jobs' = map_doing_jobs \ found
        /\ \/ found = {} /\ UNCHANGED deque_clear_job
           \/ \E e \in found : deque_clear_job' = Append(deque_clear_job, e[2])
  /\ tpc' = [tpc EXCEPT ![w] = "check"]
  /\ tjob' = [tjob EXCEPT ![w] = NoJob]
  /\ UNCHANGED <<events, handoff, set_waiting_jobs, job_index, job_id, deleted, cleaner, locks,
                 counts, joinvars, callers, cancelv, owner>>

\* Under both locks: signal that one worker should go, then wait for work again.
CheckSubtract(w) ==
  /\ tpc[w] = "check" /\ waiting_lock = NoOwner /\ running_lock = NoThread
  /\ LET pc == [tpc EXCEPT ![w] = "get"]
     IN IF set_waiting_jobs = {} /\ last_running_thread > MinThreads /\ ~stop_event
        THEN SignalOne(subtract_event, "leave", pc, {})
        ELSE tpc' = pc /\ UNCHANGED subtract_event
  /\ UNCHANGED <<stop_event, all_thread_complete_event, job_needed_event, handoff, jobvars,
                 cleanvars, locks, counts, joinvars, tjob, callers, cancelv, owner>>

\* _clearRunningMapThread takes running_threads_lock_ and finds its thread ...
LeaveLock(w) ==
  /\ tpc[w] = "leave" /\ running_lock = NoThread
  /\ w \in map_thread_ids
  /\ running_lock' = w
  /\ map_torn' = Torn
  /\ tpc' = [tpc EXCEPT ![w] = "moving"]
  /\ UNCHANGED <<events, handoff, jobvars, cleanvars, waiting_lock, counts, queue_removing_thread,
                 joining, reaper, map_thread_ids, tjob, callers, cancelv, owner>>

\* ... or does not: then it is only counted out, and nobody will join the thread.
LeaveUnfound(w) ==
  /\ tpc[w] = "leave" /\ running_lock = NoThread
  /\ Missed(w)
  /\ map_torn' = Torn
  /\ last_running_thread' = last_running_thread - 1
  /\ tpc' = [tpc EXCEPT ![w] = "count"]
  /\ UNCHANGED <<events, handoff, jobvars, cleanvars, locks, running_threads_count,
                 queue_removing_thread, joining, reaper, map_thread_ids, tjob, callers, cancelv, owner>>

\* queue_removing_thread_.push (mutant: one place instead of a queue).
RemovingSlot(w) == <<w>>
RemovingQueue(w) == Append(queue_removing_thread, w)

\* A found thread is queued, once the reaper is not joining, and its entry erased.
LeaveMove(w) ==
  /\ tpc[w] = "moving" /\ joining = NoThread
  /\ queue_removing_thread' = RemovingQueue(w)
  /\ map_thread_ids' = map_thread_ids \ {w}
  /\ map_torn' = Torn
  /\ last_running_thread' = last_running_thread - 1
  /\ running_lock' = NoThread
  /\ tpc' = [tpc EXCEPT ![w] = "count"]
  /\ UNCHANGED <<events, handoff, jobvars, cleanvars, waiting_lock, running_threads_count, joining,
                 reaper, tjob, callers, cancelv, owner>>

WorkerCount(w) ==
  /\ tpc[w] = "count"
  /\ running_threads_count' = running_threads_count - 1
  /\ tpc' = [tpc EXCEPT ![w] = "last"]
  /\ UNCHANGED <<events, handoff, jobvars, cleanvars, locks, last_running_thread, joinvars, tjob,
                 callers, cancelv, owner>>

\* The counter is read again (mutant: compared with the value before the decrement).
OneEnded == running_threads_count = 1
AllEnded == running_threads_count = 0

\* Whoever sees 0 announces that all threads have ended.
WorkerLast(w) ==
  /\ tpc[w] = "last"
  /\ all_thread_complete_event' = (all_thread_complete_event \/ AllEnded)
  /\ tpc' = [tpc EXCEPT ![w] = "done"]
  /\ UNCHANGED <<stop_event, job_needed_event, subtract_event, handoff, jobvars, cleanvars, locks,
                 counts, joinvars, tjob, callers, cancelv, owner>>

(***************************************************************************)
(* fnClearThreadProc (reaper) and _clearJobThreadProc (cleaner)            *)
(***************************************************************************)

\* sem_removing_threads_to_do_ counts the queued threads; the exit flag is read
\* when the wait returns.
ReaperCheck ==
  /\ reaper = "run" /\ joining = NoThread
  /\ \/ opc = "dreaper" /\ reaper' = "exited"
     \/ opc \notin {"dreaper", "dcleaner", "destroyed"} /\ queue_removing_thread # <<>> /\ reaper' = "pop"
  /\ UNCHANGED <<events, handoff, jobvars, cleanvars, locks, counts, queue_removing_thread, joining,
                 mapvars, workers, callers, cancelv, owner>>

\* pop, then join while removing_threads_lock_ is held.
ReaperPop ==
  /\ reaper = "pop"
  /\ joining' = Head(queue_removing_thread)
  /\ queue_removing_thread' = Tail(queue_removing_thread)
  /\ reaper' = "run"
  /\ UNCHANGED <<events, handoff, jobvars, cleanvars, locks, counts, mapvars, workers, callers,
                 cancelv, owner>>

ReaperJoin ==
  /\ joining # NoThread /\ tpc[joining] = "done"
  /\ tpc' = [tpc EXCEPT ![joining] = "none"]
  /\ joining' = NoThread
  /\ UNCHANGED <<events, handoff, jobvars, cleanvars, locks, counts, queue_removing_thread, reaper,
                 mapvars, tjob, callers, cancelv, owner>>

\* Delete the job at the front; the record without a job ends the thread.
CleanJob ==
  /\ cleaner = "run" /\ deque_clear_job # <<>>
  /\ deque_clear_job' = Tail(deque_clear_job)
  /\ IF Head(deque_clear_job) = NoJob
       THEN cleaner' = "exited" /\ UNCHANGED deleted
       ELSE deleted' = deleted \cup {Head(deque_clear_job)} /\ UNCHANGED cleaner
  /\ UNCHANGED <<events, handoff, jobvars, locks, counts, joinvars, workers, callers, cancelv, owner>>

(***************************************************************************)
(* start, stop, wait, clearUndoWork and the destructor: the owner          *)
(***************************************************************************)

Start ==
  /\ opc = "free" /\ destroys = 0 /\ starts < MaxStarts /\ running_lock = NoThread
  /\ starts' = starts + 1
  /\ IF last_running_thread > 0
       THEN UNCHANGED <<events, thread_pool_is_running, tpc, last_running_thread>>
       ELSE /\ stop_event' = FALSE /\ all_thread_complete_event' = FALSE
            /\ AddJobThread(MinThreads)
            /\ thread_pool_is_running' = TRUE
            /\ UNCHANGED <<job_needed_event, subtract_event>>
  /\ UNCHANGED <<handoff, jobvars, cleanvars, locks, running_threads_count, joinvars, tjob, callers,
                 cancelv, caught, opc, stops, clears, destroys>>

\* SetEvent(stop_event_): the state is set first ...
StopBegin ==
  /\ opc = "free" /\ destroys = 0 /\ stops < MaxStops
  /\ stops' = stops + 1
  /\ opc' = "stop"
  /\ stop_event' = TRUE
  /\ UNCHANGED <<all_thread_complete_event, job_needed_event, subtract_event, handoff, jobvars,
                 cleanvars, locks, counts, joinvars, workers, callers, cancelv, caught,
                 thread_pool_is_running, starts, clears, destroys>>

Stopping == opc \in {"stop", "dstop"}

\* ... then each registered worker that is still waiting is found ...
StopSee(w) ==
  /\ Stopping /\ caught = NoThread /\ tpc[w] = "wait"
  /\ caught' = w
  /\ UNCHANGED <<events, handoff, jobvars, cleanvars, locks, counts, joinvars, workers, callers,
                 cancelv, opc, thread_pool_is_running, starts, stops, clears, destroys>>

\* ... and released, without a second look: a worker that was given the job event
\* in between and has not read it yet leaves instead, and that signal is gone.
StopFire ==
  /\ caught # NoThread
  /\ \/ tpc[caught] \in {"wait", "take"} /\ tpc' = [tpc EXCEPT ![caught] = "leave"]
     \/ tpc[caught] # "wait" /\ UNCHANGED tpc
  /\ caught' = NoThread
  /\ UNCHANGED <<events, handoff, jobvars, cleanvars, locks, counts, joinvars, tjob, callers,
                 cancelv, opc, thread_pool_is_running, starts, stops, clears, destroys>>

StopEnd ==
  /\ Stopping /\ caught = NoThread
  /\ \A w \in Threads : tpc[w] \notin {"get2", "get3", "wait"}
  /\ thread_pool_is_running' = FALSE
  /\ opc' = IF opc = "stop" THEN "free" ELSE "dwait"
  /\ UNCHANGED <<events, handoff, jobvars, cleanvars, locks, counts, joinvars, workers, callers,
                 cancelv, caught, starts, stops, clears, destroys>>

\* The owner waits only after a stop.
WaitCall ==
  /\ opc = "free" /\ destroys = 0 /\ stop_event
  /\ opc' = "wait"
  /\ UNCHANGED <<events, handoff, jobvars, cleanvars, locks, counts, joinvars, workers, callers,
                 cancelv, caught, thread_pool_is_running, starts, stops, clears, destroys>>

WaitReturn ==
  /\ opc = "wait" /\ all_thread_complete_event
  /\ opc' = "free"
  /\ UNCHANGED <<events, handoff, jobvars, cleanvars, locks, counts, joinvars, workers, callers,
                 cancelv, caught, thread_pool_is_running, starts, stops, clears, destroys>>

\* The orders in which the waiting jobs can leave set_waiting_jobs_ front first.
WaitingOrders ==
  {q \in [1..Cardinality(set_waiting_jobs) -> set_waiting_jobs] :
     \A i, k \in DOMAIN q : i < k => q[i] # q[k] /\ ~Before(q[k], q[i])}

\* Under waiting_jobs_lock_: every waiting job goes to the cleaner; for each one
\* sem_trywait takes a count of sem_job_needed_to_do_ if there is one.
DropWaiting ==
  /\ waiting_lock = NoOwner
  /\ set_waiting_jobs' = {}
  /\ \E q \in WaitingOrders : deque_clear_job' = deque_clear_job \o q
  /\ clears' = clears + 1
SemAfterDrop == IF sem_job_needed > Cardinality(set_waiting_jobs)
                  THEN sem_job_needed - Cardinality(set_waiting_jobs) ELSE 0

ClearUndoWork ==
  /\ opc = "free" /\ destroys = 0 /\ clears + cancels < MaxDrops
  /\ DropWaiting
  /\ sem_job_needed' = SemAfterDrop
  /\ UNCHANGED <<events, sem_notify_got, mgr, job_index, job_id, map_doing_jobs, deleted, cleaner,
                 locks, counts, joinvars, workers, callers, cancelv, caught, opc, thread_pool_is_running,
                 starts, stops, destroys>>

\* ~RThreadPool: stopAndWait() ...
DestroyBegin ==
  /\ opc = "free" /\ destroys < MaxDestroys
  /\ \A s \in Submitters : spc[s] = "idle"
  /\ \A c \in Cancellers : cpc[c] = "idle"
  /\ destroys' = destroys + 1
  /\ stop_event' = TRUE
  /\ opc' = "dstop"
  /\ UNCHANGED <<all_thread_complete_event, job_needed_event, subtract_event, handoff, jobvars,
                 cleanvars, locks, counts, joinvars, workers, callers, cancelv, caught,
                 thread_pool_is_running, starts, stops, clears>>

\* sem_post on both semaphores, so that the manager leaves either wait
\* (mutant: only the one it waits on first).
WakeForJob == sem_job_needed' = SemAfterDrop + 1 /\ sem_notify_got' = sem_notify_got
WakeManager == sem_job_needed' = SemAfterDrop + 1 /\ sem_notify_got' = sem_notify_got + 1

\* ... _destroyPool() and the manager's exit flag with a post on both semaphores ...
DestroyPool ==
  /\ opc = "dwait" /\ all_thread_complete_event
  /\ DropWaiting
  /\ WakeManager
  /\ opc' = "dmgr"
  /\ UNCHANGED <<events, mgr, job_index, job_id, map_doing_jobs, deleted, cleaner, locks, counts,
                 joinvars, workers, callers, cancelv, caught, thread_pool_is_running, starts, stops, destroys>>

\* ... then each helper thread is told to end and is joined, one after the other.
DestroyJoin ==
  /\ \/ opc = "dmgr" /\ mgr = "exited" /\ joining = NoThread
        /\ opc' = "dreaper" /\ UNCHANGED deque_clear_job
     \/ opc = "dreaper" /\ reaper = "exited"
        /\ opc' = "dcleaner" /\ deque_clear_job' = Append(deque_clear_job, NoJob)
     \/ opc = "dcleaner" /\ cleaner = "exited"
        /\ opc' = "destroyed" /\ UNCHANGED deque_clear_job
  /\ UNCHANGED <<events, handoff, jobvars, deleted, cleaner, locks, counts, joinvars, workers,
                 callers, cancelv, caught, thread_pool_is_running, starts, stops, clears, destroys>>

(***************************************************************************)
(* cancelJob: the caller keeps waiting_jobs_lock_ until it returns         *)
(***************************************************************************)

CancelJob(c, id) ==
  /\ cpc[c] = "idle" /\ destroys = 0 /\ clears + cancels < MaxDrops /\ waiting_lock = NoOwner
  /\ id \in 1..job_index
  /\ cancels' = cancels + 1
  /\ \/ \E j \in set_waiting_jobs :
          /\ job_id[j] = id
          /\ set_waiting_jobs' = set_waiting_jobs \ {j}
          /\ deque_clear_job' = Append(deque_clear_job, j)
          /\ cpc' = [cpc EXCEPT ![c] = "sem"]
          /\ waiting_lock' = c
          /\ UNCHANGED cjob
     \/ /\ \A j \in set_waiting_jobs : job_id[j] # id
        /\ \E e \in Doing(id) : cjob' = [cjob EXCEPT ![c] = e[2]]
        /\ cpc' = [cpc EXCEPT ![c] = "request"]
        /\ waiting_lock' = c
        /\ UNCHANGED <<set_waiting_jobs, deque_clear_job>>
     \/ /\ \A j \in set_waiting_jobs : job_id[j] # id
        /\ Doing(id) = {}
        /\ UNCHANGED <<cpc, cjob, waiting_lock, set_waiting_jobs, deque_clear_job>>
  /\ UNCHANGED <<events, handoff, job_index, job_id, map_doing_jobs, deleted, cleaner, running_lock,
                 counts, joinvars, workers, callers, owner>>

\* A job that had not started: take back its count of sem_job_needed_to_do_.
CancelSem(c) ==
  /\ cpc[c] = "sem" /\ SemJobAvailable
  /\ sem_job_needed' = sem_job_needed - 1
  /\ waiting_lock' = NoOwner
  /\ cpc' = [cpc EXCEPT ![c] = "idle"]
  /\ UNCHANGED <<events, sem_notify_got, mgr, jobvars, cleanvars, running_lock, counts, joinvars,
                 workers, callers, cjob, cancels, owner>>

\* A running job: requestCancel sets its stop event; with sync_flag the caller
\* then waits until the worker has left _run.
CancelRequest(c) ==
  /\ cpc[c] = "request"
  /\ \/ /\ cpc' = [cpc EXCEPT ![c] = "idle"]
        /\ cjob' = [cjob EXCEPT ![c] = NoJob]
        /\ waiting_lock' = NoOwner
     \/ /\ cpc' = [cpc EXCEPT ![c] = "sync"]
        /\ UNCHANGED <<cjob, waiting_lock>>
  /\ UNCHANGED <<events, handoff, jobvars, cleanvars, running_lock, counts, joinvars, workers, callers,
                 cancels, owner>>

CancelSync(c) ==
  /\ cpc[c] = "sync"
  /\ \A w \in Threads : tjob[w] = cjob[c] => tpc[w] = "end"
  /\ cpc' = [cpc EXCEPT ![c] = "idle"]
  /\ cjob' = [cjob EXCEPT ![c] = NoJob]
  /\ waiting_lock' = NoOwner
  /\ UNCHANGED <<events, handoff, jobvars, cleanvars, running_lock, counts, joinvars, workers, callers,
                 cancels, owner>>

-----------------------------------------------------------------------------
SubmitStep(s) == SubmitIndex(s) \/ SubmitInsert(s) \/ SubmitGrow(s)
MgrStep == MgrTake \/ MgrSignal \/ MgrAck
WorkerStep(w) ==
  \/ WorkerMap(w) \/ WorkerStart(w)
  \/ GetJobWait(w) \/ (\E j \in Jobs : GetJobTake(w, j)) \/ GetJobAbort(w)
  \/ RunJob(w) \/ EndJob(w) \/ CheckSubtract(w)
  \/ LeaveLock(w) \/ LeaveUnfound(w) \/ LeaveMove(w) \/ WorkerCount(w) \/ WorkerLast(w)
ReaperStep == ReaperCheck \/ ReaperPop \/ ReaperJoin
OwnerStep == (\E w \in Threads : StopSee(w)) \/ StopFire \/ StopEnd \/ WaitReturn \/ DestroyPool \/ DestroyJoin
CancelStep(c) == CancelSem(c) \/ CancelRequest(c) \/ CancelSync(c)
OwnerCall == Start \/ StopBegin \/ WaitCall \/ ClearUndoWork \/ DestroyBegin

Next ==
  \/ \E s \in Submitters : SubmitStep(s) \/ \E j \in Jobs : SubmitCheck(s, j)
  \/ MgrStep
  \/ \E w \in Threads : WorkerStep(w)
  \/ ReaperStep \/ CleanJob
  \/ OwnerStep \/ OwnerCall
  \/ \E c \in Cancellers : CancelStep(c) \/ \E id \in 1..job_index : CancelJob(c, id)

Spec == Init /\ [][Next]_vars

\* Every thread that can go on does: the threads are started by the program and
\* the mutexes and semaphores do not starve anyone in these bounded histories.
\* Nobody is obliged to call submitJob, cancelJob, start, stop or the destructor.
FairSpec ==
  /\ Spec
  /\ \A s \in Submitters : WF_vars(SubmitStep(s))
  /\ WF_vars(MgrStep) /\ WF_vars(ReaperStep) /\ WF_vars(CleanJob) /\ WF_vars(OwnerStep)
  /\ \A w \in Threads : WF_vars(WorkerStep(w))
  /\ \A c \in Cancellers : WF_vars(CancelStep(c))
(***************************************************************************)
(* Properties                                                              *)
(***************************************************************************)

Submitting(s) == spc[s] \in {"index", "insert"}
Takers == InState("take")
InFlight == IF mgr = "signal" \/ (mgr = "ack" /\ sem_notify_got = 0) THEN 1 ELSE 0
Owed == IF \E c \in Cancellers : cpc[c] = "sem" THEN 1 ELSE 0

\* The manager hands out one job at a time: until it gets its acknowledgement the
\* signal is in at most one place, the set event, a worker on its way to the set,
\* or the posted acknowledgement ...
Turnstile ==
  /\ mgr # "ack" => ~job_needed_event /\ Takers = {} /\ sem_notify_got = 0
  /\ job_needed_event => Takers = {}
  /\ \A v, w \in Takers : v = w
  /\ sem_notify_got > 0 => ~job_needed_event /\ Takers = {} /\ sem_notify_got = 1
\* ... and is lost only if stop() overwrites it.
SignalKept ==
  mgr = "ack" /\ stops = 0 /\ destroys = 0 => job_needed_event \/ Takers # {} \/ sem_notify_got > 0

\* The counts of sem_job_needed_to_do_ and the one in the manager's hands are the
\* waiting jobs, up to the count a canceller still has to take back.
TokensMatchJobs == sem_job_needed + InFlight = Cardinality(set_waiting_jobs) + Owed

\* As long as nobody has dropped the waiting jobs (clearUndoWork), one signal is
\* on its way at a time and the semaphore counts the waiting jobs
\* (rthreadpool.cpp:15-46, 356-369, 537-555, 682-684).
HandoffInv == clears = 0 => Turnstile /\ SignalKept /\ TokensMatchJobs

\* What HandoffInv rests on: a job is submitted by one thread and once ...
SubmitInv ==
  /\ unsubmitted \cap set_waiting_jobs = {}
  /\ \A s \in Submitters : Submitting(s) => sjob[s] \in Jobs \ (unsubmitted \cup set_waiting_jobs)
  /\ \A r, s \in Submitters : Submitting(r) /\ Submitting(s) /\ r # s => sjob[r] # sjob[s]
\* ... waiting_jobs_lock_ is kept by the canceller that is inside cancelJob ...
LockInv == \A c \in Cancellers : cpc[c] # "idle" <=> waiting_lock = c
\* ... the owner's progress and the calls it has made agree ...
OwnerInv ==
  /\ opc = "stop" => stops > 0
  /\ opc \notin {"free", "stop", "wait"} => destroys > 0
  /\ opc \in {"dmgr", "dreaper", "dcleaner", "destroyed"} => clears > 0
  /\ caught # NoThread => Stopping
\* ... and the reaper pops only a thread that is there.
ReaperInv == reaper = "pop" => queue_removing_thread # <<>>

\* The inductive invariant of RThreadPoolProofs: type, handoff and what they rest on
\* (rthreadpool.cpp:15-46, 64-76, 278-309, 339-370, 647-727).
PoolInv == TypeOK /\ SubmitInv /\ LockInv /\ OwnerInv /\ ReaperInv /\ HandoffInv

\* TPASSERT(!set_waiting_jobs_.empty()) in _getJob (rthreadpool.cpp:541): a worker
\* that got the job event finds a job, unless clearUndoWork dropped the jobs meanwhile.
GetJobNeverEmpty ==
  clears = 0 => \A w \in Threads : tpc[w] = "take" /\ waiting_lock = NoOwner => set_waiting_jobs # {}

\* last_running_thread_ counts the threads that still take part, and start's
\* maximum holds for them whatever submitters and leaving workers do
\* (rthreadpool.cpp:375-384, 409-443, 479).
WorkersWithinMax ==
  LET working == {w \in Threads : tpc[w] \notin {"none", "count", "last", "done"}}
  IN Cardinality(working) = last_running_thread /\ last_running_thread <= MaxThreads

\* A job gets a larger id than every job that was in the waiting set when its
\* submitter took a number, so that jobs of one priority are taken in the order of
\* their submission; a job inserted between a submitter's fetch_add and its turn
\* at the lock has at most the same id (rthreadpool.cpp:354-366, rthreadpool.h:135-136).
InsertInIdOrder ==
  [][\A s \in Submitters : spc[s] = "insert" /\ spc'[s] = "grow" =>
       \A k \in Jobs : \/ job_id[k] < job_id'[sjob[s]]
                       \/ k \in overlapped[s] /\ job_id[k] = job_id'[sjob[s]]]_vars

\* The places where a job can be before it is queued for deletion ...
AtWork(j) ==
  (IF j \in unsubmitted \cup rejected THEN 1 ELSE 0)
  + Cardinality({s \in Submitters : sjob[s] = j /\ spc[s] # "grow"})
  + (IF j \in set_waiting_jobs THEN 1 ELSE 0)
  + Cardinality({w \in Threads : tjob[w] = j})
\* ... and after; the cleaner's queue counts as often as the job is in it.
Places(j) ==
  AtWork(j) + Cardinality({i \in DOMAIN deque_clear_job : deque_clear_job[i] = j})
  + (IF j \in deleted THEN 1 ELSE 0)

\* Two submitters gave the job the id of another one.
Twin(j) == job_id[j] # 0 /\ \E k \in Jobs \ {j} : job_id[k] = job_id[j]

\* However many threads submit, no job is lost, queued for deletion twice or deleted
\* while it runs: each is always in exactly one place.  Of two jobs of one id the
\* first to end sends the one that began first to the cleaner, which leaves no more
\* than that neither is run by two workers, or waits while it runs
\* (rthreadpool.cpp:356-369, 541-551, 598-608, 669-687, 785).
JobInOnePlace == \A j \in Jobs : IF Twin(j) THEN AtWork(j) <= 1 ELSE Places(j) = 1

\* A waiting job is taken unless all workers have gone: a set event or a count
\* of the semaphore is not lost on the way, as long as stop() does not take the
\* signal away (rthreadpool.cpp:15-46, 493-560).
JobsTakenWhileThreads ==
  \A j \in Jobs :
    j \in set_waiting_jobs ~> j \notin set_waiting_jobs \/ last_running_thread = 0 \/ stops + destroys > 0

\* The reaper has the thread, or will.
Queued(w) == joining = w \/ \E i \in DOMAIN queue_removing_thread : queue_removing_thread[i] = w

\* A thread that left the pool is joined by the reaper, which holds
\* removing_threads_lock_ while it joins and which leaving threads need, unless the
\* destructor ends the reaper first.  Only a thread that was not queued because
\* unlocked accesses to map_thread_ids_ overlapped is never joined
\* (rthreadpool.cpp:49-86, 107, 453-476).
EveryThreadJoined ==
  \A w \in Threads :
    tpc[w] = "done" ~> tpc[w] = "none" \/ destroys > 0 \/ (map_torn /\ ~Queued(w))

\* wait() after stop() returns, and the destructor comes to its end wherever its
\* helper threads are when it begins, in a pool that has been started
\* (rthreadpool.cpp:110-117, 169-229, 278-297).
ShutdownEnds ==
  /\ opc = "wait" /\ starts > 0 ~> opc = "free"
  /\ opc = "dstop" /\ starts > 0 ~> opc = "destroyed"

(***************************************************************************)
(* What the headers and assertions say and the code does not do            *)
(***************************************************************************)

\* rthreadpool.h:67-69: stop() keeps the waiting jobs; after the next start they
\* are taken.
RetainedJobsTaken ==
  \A j \in Jobs : j \in set_waiting_jobs /\ starts > 1
                   ~> j \notin set_waiting_jobs \/ last_running_thread = 0
=============================================================================
