# A verification development for local RPC over thrift

The repository (`src/`) is a small RPC system for programs on one machine. A
client program calls a server over a local socket with thrift messages in a
frame of its own; the server hands each request to a thread pool, answers when
the job ends, and can also broadcast to its clients. This directory holds TLA+
models of its concurrent parts, TLC configurations that check them on small
instances, and TLAPS proofs of their safety properties.

Contents: [1 the system](#1-the-system), [2 the modules](#2-the-modules),
[3 the runs](#3-the-runs), [4 fairness](#4-fairness), [5 the proofs](#5-the-proofs),
[6 where code and documents differ](#6-where-code-and-documents-differ),
[7 what is not modelled](#7-what-is-not-modelled), [8 plan](#8-plan).

## 1 The system

    client program                        server program
    --------------                        --------------
    RIpcQcClient (facade)                 RIpcQcServer  -- timer -->  RIpcQcServicesHost
       | calls        ^ news                 | owns                       | handler maps,
    RIPCClientChannel |  <= local socket =>  RLocalServer                 | author status
       | nested loops in callbacks           | accepts                    | submits
    RLocalSocket (Windows: a worker          RIPCServerConnection         thread pool
       thread, posted messages)                 one thread each           Linux: manager, workers,
                                                <--- posted handlers ---- cleaner, reaper, rpevents
                  both sides write RSLOG_x << ... to RsLog                Windows: prepare, workers, clear

| Part | State | Operations | Hard behaviour |
|---|---|---|---|
| Linux thread pool (`rpc_srv_demo_linux/threadpool/rthreadpool.cpp`) | set of waiting jobs, map of running ones, queue of jobs to delete, queue of threads to join, counters, four events, two semaphores, four mutexes | `start`, `stop`, `wait`, `submitJob`, `cancelJob`, `clearUndoWork`, destructor; loops of manager, workers, cleaner, reaper | five kinds of threads; a three-way handshake between semaphore, event and acknowledgement; the end of everything in any order |
| POSIX events (`threadpool/rpevents.cpp`) | per event: state and list of registered waits; per wait: a heap object with mutex, condition, reference count | `SetEvent`, `ResetEvent`, `WaitForMultipleEvents` | two lock orders, objects freed by whoever is last, signals between looking and sleeping |
| Windows thread pool (`rpc_srv_demo/threadpool/rthreadpool.cpp`) | queue of prepared jobs, set of waiting, map of running, queue of finished jobs, arrays of threads, three events, two semaphores | `start`, `stop`, `pause`, `resume`, `submitJob`, `cancelJob`, destructor; loops of the prepare thread, workers, the clear thread | a job changes hands four times under different locks; stop markers queued among jobs |
| Client channel (`ripcqccomponent/ipcbase/ripcclientchannel.cpp`) | socket state, sequence id, pending callbacks, receive buffer with read position | `sendAndRecvMessage`, connecting, `onRecvData`, the end of the connection | data in pieces, answers out of order, callbacks that run a nested event loop in which data or the end of the connection arrive |
| Windows local socket (`ipcbase/rlocalsocket.cpp`) | state, pipe handle, ring buffer of messages to write, notification events, one buffer for each direction, posted window messages | `init`, connect, accept, `write`, `read`, disconnect, `term`; the worker's waits, completion routines | two threads and no lock; posted messages outlive what they tell of |
| Server connection (`ipcbase/ripcservertoclientchannel*.cpp`) | socket, thread, receive buffer | take requests, send answers and broadcasts, finish | a thread of its own, destroyed by the main thread |
| Connection registry (`ipcbase/rlocalserver.cpp`, `ripcqcserviceshostprivate.cpp`) | a list of connections; maps of connections and clients by socket descriptor | accept, reject, two handlers of "connection finished", notify | descriptors used again while queued messages still name them |
| Services host and data proxy (`ripcqcserviceshost.cpp`, `ripcqcservices*dataproxy.cpp`, `ripcqchandlercob.h`) | maps from request id to handler with a mutex each, one author status | `reqAuthorStatus`, `reqUserLogin`, `onAuthorStatus`, `onLoginResult`, the timer | maps searched without the mutex, a status written without a lock, ids chosen by clients |
| Client facade (`ripcqcclient.cpp`, `ripcqcinterface*.cpp`, `rpc_client_demo`) | the global instance, the listeners, a connected flag | create, connect, call, release; tell the listeners | listeners that run a nested event loop, or connect again from inside the news |
| Logger (`logger/`) | the log file, its path, name and level; a buffer for each line | set path, name, level; write and roll; stream a line | any thread at any time; files renamed while the clock goes on |
| Server demos (`rpc_srv_demo*/src`) | pool, host, timer | requests become jobs, jobs report to the host | order of destruction |

What makes each part correct:

- **pool**: a submitted job is in one place at a time, is taken as long as a
  worker exists, never twice; a worker woken for a job finds one; limits on
  workers hold; every thread is joined; `wait()` and the destructor end;
- **events**: a set event wakes a thread, exactly one when it is auto-reset;
  nobody sleeps over a set event; no wait object leaks or is used once freed; no deadlock;
- **channel**: each answer reaches the callback of its call, once, however the
  stream is cut and whatever callbacks do; the stream never gets out of step;
- **registry**: a connection lives until it has finished and not longer; each
  client is told of the author status;
- **host**: each request is answered once, by its own job, with a status that
  is not older than its job's;
- **Windows pool**: the same promises, and jobs of one priority run in the order
  of their submission although two more threads handle them;
- **Windows socket**: both directions deliver everything in order until the
  connection ends, its owner hears of each connection in order, and the end is
  noticed;
- **facade**: what the client believes of the connection and what it has told its
  listeners follow the socket;
- **logger**: no written line is lost or doubled, files are in order.

## 2 The modules

| Module | Models | Used by |
|---|---|---|
| `RThreadPool` | the pool, events through their contract | `MCRThreadPool`, `RThreadPoolProofs` |
| `RThreadPoolProofs`, `RPEventsProofs`, `RipcChannelProofs`, `ServicesHostProofs`, `WThreadPoolProofs`, `WLocalSocketProofs`, `ClientFacadeProofs`, `RegistryAndLoggerProofs` | theorems about the module each is named after, the last about `ConnectionRegistry` and `RsLogFile` | |
| `EventContract` | what users of the events may expect (abstract) | `RPEvents` refines it |
| `RPEvents` | the events' code, lock by lock | `MCRPEvents` |
| `CallContract` | what callers of the channel may expect (abstract) | `RipcChannel` refines it |
| `RipcChannel` | the client channel, its buffer, the server behind it | `MCRipcChannel` |
| `ConnectionRegistry` | the server's connections | `MCConnectionRegistry` |
| `ServicesHost` | from request to answer in the server | `MCServicesHost` |
| `WThreadPool` | the Windows pool | `MCWThreadPool` |
| `WLocalSocket` | the Windows socket, its worker, pipe and kernel | `MCWLocalSocket` |
| `ClientFacade` | the client as an application of the Windows build sees it | `MCClientFacade` |
| `RsLogFile` | the log files and the line buffer | `MCRsLogFile` |

`PROJECT.json` maps every definition to its lines. Some definitions stand in
pairs: the code's operator and, beside it, one or two variants with a plausible
mistake, marked `mutant` in the comment. The specification never uses the
variants; put in the operator's place they break the property `PROJECT.json`
names, which shows that the property depends on that line of code.

Each module has a `TypeOK` (`LogTypeOK` in `RsLogFile`), which is a theorem for each
of them (`TypeCorrect`, `LogTypes`); for `WThreadPool` it is also a conjunct of
`WJobInOnePlace`.

### RThreadPool

Variables have the names of the code (`set_waiting_jobs`, `sem_job_needed`,
`last_running_thread`, ...); `tpc`, `spc`, `cpc`, `opc` say where workers,
submitters, cancellers and the owner are, `mgr`, `cleaner`, `reaper` where the
helper threads are. An action is the code between two points at which another
thread can step in: a mutex that is kept only inside one action does not
appear, `waiting_lock` and `running_lock` appear because a thread can block
while it holds them (`cancelJob` on a semaphore or a job, a leaving worker on
the lock of the reaper).

- submitting, by any number of threads: `SubmitCheck`, `SubmitIndex`
  (`job_index_` is incremented outside the lock), `SubmitInsert` (the id is read
  back from it; into the set, semaphore), `SubmitGrow` (add a worker);
- manager: `MgrTake` (semaphore), `MgrSignal` (job event), `MgrAck`;
- workers: `WorkerMap` (begins to insert itself into `map_thread_ids_`),
  `WorkerStart`, `GetJobWait` (stop, job, subtract in this order),
  `GetJobTake`, `GetJobAbort` (the assertion on an empty set fails), `RunJob`,
  `EndJob`, `CheckSubtract`; at the end `LeaveLock` and `LeaveMove` (found in the
  map, queued for the reaper) or `LeaveUnfound`, `WorkerCount`, `WorkerLast`;
- helpers: `ReaperCheck`, `ReaperPop`, `ReaperJoin`, `CleanJob`;
- owner: `Start`, `StopBegin` .. `StopEnd`, `WaitCall`, `WaitReturn`,
  `ClearUndoWork`, `DestroyBegin` .. `DestroyJoin`;
- cancellers: `CancelJob`, `CancelSem`, `CancelRequest`, `CancelSync`.

`map_thread_ids_` is inserted into without the lock under which it is searched and
erased from (`rthreadpool.cpp:107`, `453-476`). An access that falls into an
insertion sets `map_torn` for good; from then on a leaving thread may miss itself
(`Missed`), and is then counted out but never joined.

`overlapped` is history: for each submitter inside `submitJob` the jobs that others
have inserted since it took its number. These, and only these, may end up with the
same id as its own.

`SetEvent` on an auto-reset event gives the signal to one waiting worker or
leaves it set; on the manual-reset stop event it goes through the workers one
by one, and what it does to one that has just been given the job event is what
the code does: it replaces the event. This is not an assumption: it is what
`EventContract` says, which `RPEvents` is shown to implement.

### EventContract and RPEvents

`RPEvents` follows the code by mutex: `WaitBegin` makes the wait object,
`WaitFinds` / `WaitRegisters` look at the next event, `WaitWakes` is the
condition variable (spurious wake-ups included), `WaitUnref` gives the
references back; `SetLock`, `SetScan`, `SetFire`, `SetSkip`, `SetSignal`,
`SetEnd` are the two branches of `SetEvent`. Addresses are used again
(`Objects`), so a stale pointer would meet a new wait. In `EventContract` a
wait is idle, looking, blocked or given an event; a manual-reset set first aims
at a thread and then fires. The refinement mapping is at the end of `RPEvents`.

### CallContract and RipcChannel

A stream is a sequence of units: one unit is a header, the others payload; so
a delivery may end inside a header's message or between two messages
(`Deliver(n, moved)`: `n` units arrive, and appending may move the buffer's
memory). `stack` holds the calls of `onRecvData` under way: a frame in
`"callback"` or `"notify"` is inside the application, whose nested event loop may
deliver more data or the end of the connection. A frame is no longer `live`
when what its code still holds (an iterator, a pointer into the buffer) has
gone. `Handlers` says which of these things an instance lets happen. The server
behind the channel takes requests in order, answers in any order and
broadcasts. `CallContract` is three sentences: refused at once, answered once
with one's own answer, or forgotten with the connection. A fourth allows for a
stream out of step (`broken`): the same answer may be read again. Broadcasts and
answers have the same size, the case in which an uncommitted broadcast leaves
the next message to be read twice instead of a bad header.

### ConnectionRegistry

`serverConns` is the list, `hostConns` and `clients` the maps; `queue` the
main thread's queued slots, two for each `connectionFinished`; `inbox` the calls
queued to a connection's thread. A connection object is destroyed by whichever
action drops its last reference (`Release`). Descriptors become free in
`CloseDesc` and may be given to the next accept at once.

### ServicesHost

One record per request: where its handler is (`handlers`, a worker, `posted`)
and how far its job is. The mutex of each map is modelled; the lookup without it
may miss an entry while another thread inserts or erases. The author status
has two fields; assigning the string takes two steps and is `"torn"` in
between. `newStatus` and `newInfo` are history: who has written since the
request's own job did. The pool appears as what `JobsTakenWhileThreads` and
`JobInOnePlace` promise: every job is run by one worker, in any order.

### WThreadPool

The Windows pool has its own design: `Submit` only queues a job; the prepare
thread (`PrepareTake`, `PrepareInsert`, `PrepareGrow`) moves it to the waiting
jobs, releases their semaphore and adds a worker when all are busy; a worker waits
for stop, job or subtract (`GetJobWait`, the first signalled one, as
`WaitForMultipleObjects` decides), takes the first job (`GetJobTake`), runs it,
hands it to the clear thread (`EraseJob`, `ClearJob`) and may give out a token
for a worker to leave (`CheckSubtract`, `LeavePool`). Kernel objects are atomic.
`cancelJob` is six actions because it takes and leaves four locks; on a waiting
job it keeps `waiting_jobs_lock_` while it waits for the job's count. `stop` is
`StopCall` to `StopWait`, and the destructor runs the same actions with states
that begin with `d`, then `DestroyPrepared`, `DestroyUndo`, `DestroyClear`. An
assertion is nothing in a Release build: where the code then uses a null or
deleted object the model has crashed (`crash`), and nothing happens any more.
A job's `_run` either returns at once or polls the pool's events (`Polling`).

### WLocalSocket

The owner's thread (`Connect`, `Accept`, `Write`, `Deliver`, `Close`,
`ConnectAgain` and the steps of closing) and the worker (`Wake...`, `Completion`,
`Connects`, `DoWrite`, `DoRead`) share the object without a lock; an action is what
one does between two accesses the other can see. `window` is the queue of posted
messages; `DestroyWindow` loses them, as the operating system does. `todo` is the
bit set `curState` of the worker. A message is a number, so a write queue or a
pipe is a sequence of numbers. `Connect` and `Accept` are the two users of the
socket: the client's channel and a server connection; both close it on an error.
A `WaitNamedPipe` that takes longer than `term` waits is `"connect" \in todo` in
`TermJoins`: the worker is then terminated where it stands.

### ClientFacade

`WLocalSocket` appears as its promise: the worker changes the socket's state and
posts messages in order. The event loop handles the first message, at the bottom
or inside a listener (`stack`, up to `MaxDepth`). `Audience` is the list the
notification loops go through. `InitInstance` is what an application may do at any
time, also inside a listener; `Release` only outside. `said` is what each listener
heard last. `cut` records that a `close` has thrown away news nobody will hear of;
the properties leave room for it because the code tells nobody.

### RsLogFile

`WriteLine` is a line and the roll that may follow it, under the mutex; a roll is
a function on directories (`Shift`, `RollSame`). Files have the second of their
name in it, the clock ticks at any time (`Tick`). `SetLogPath` compares the argument
as it is spelled with the path that is kept (`asKept`), then splits it without the
mutex; two threads that split at a time share the pointer of `strtok`, and either
may come out with any mixture (`"mixed"`). `AssignsPath` is the rest, under the
mutex. `lost` is history: the lines that a name opened again, or a roll that finds a
`.1` and a `.2`, is bound to lose. `Statement`, `Streams`,
`StreamsNumber`, `Output` are `RSLOG_x << ...`, whose buffer grows as
`RsFloatingBuffer::append` says and leaves out a number that might not fit (`out`). `Sprintf` is the other interface (`trace`,
`debug`, `info`).

## 3 The runs

All configurations say `CHECK_DEADLOCK FALSE`: calls are bounded by constants
(`MaxStarts`, `MaxSets`, ...), so every history ends. Blocking for ever is
caught by the liveness properties instead.

| Run | Instance | Properties | What it shows |
|---|---|---|---|
| `pool_handoff` | 2 submitters, 2 jobs, 1 canceller, 1 to 2 workers in 3 slots; a start, a destructor (with its stop), and a clear or a cancel | `HandoffInv GetJobNeverEmpty WorkersWithinMax JobInOnePlace InsertInIdOrder` | the handshake stays balanced, no worker wakes up for nothing before a clear, limits hold; no job is lost, doubled or deleted while it runs unless another has its id, and none has the id of a job that was there before it |
| `pool_liveness` | 1 submitter, 2 jobs, 1 to 2 workers, no stop | `JobsTakenWhileThreads EveryThreadJoined` | waiting jobs are taken while there is a worker; leaving workers are joined, but for those that miss themselves in the thread map |
| `pool_shutdown` | 1 submitter, 1 job, 2 workers, 2 starts, stop, destructor | `ShutdownEnds` | `wait()` and the destructor return, from everywhere |
| `pool_stop_loses` | 1 job, 1 to 2 workers in 3 slots, 2 starts, stop | `RetainedJobsTaken` (violated) | section 6, first entry |
| `events` | 2 waiting and 2 setting threads, a manual and an auto-reset event, 2 object addresses, 2 sets, 1 reset, 3 waits | `RefCountExact NoSleepOverSetEvent KeepsContract CallsReturn` | the events implement `EventContract`, free each object once and do not deadlock |
| `rpc_channel` | 3 calls, 1 broadcast, 2 connections, broadcasts and answers of 3 units, 3 levels of re-entry; callbacks and notifications that re-enter, fail or lose the connection | `StreamInSync PendingSomewhere KeepsContract NoneStaysPending` | the channel implements `CallContract` and gets out of step only over an uncommitted broadcast |
| `registry` | 3 connections, 1 descriptor, limit 1, 2 finishes each | `KeptWhileOpen ClientOfConnection FinishedDestroyed NotifiedUnlessShadowed` | the two owners of a connection agree on its life |
| `host` | 2 queries with one id and a login, 2 connections, one of which may leave, 1 tick | `HandlerInOnePlace OwnHandler NoStaleAnswer AnsweredUnlessMissed` | every request is answered once, by its own job, with a fresh status |
| `winpool` | 2 jobs that poll, 1 to 2 workers in 2 slots; a start, a destructor, and a stop or a cancel; pause and resume at will | `WJobInOnePlace SemaphoreExact TakeInOrder NotLeftBesideWorker DestructorEnds` | the Windows pool keeps its jobs, its counts and their order, and ends |
| `winsocket` | 2 connections of either kind, queue and semaphore of 2, 3 writes, 2 messages from the other end | `StreamInOrder ReadInOrder HeardInOrder EverySliceLeaves LossIsNoticed` | both directions are in order, each connection's news too; everything leaves; a lost connection is noticed |
| `client` | 2 listeners, 1 call, 1 broadcast, 4 attempts, 3 levels of nesting | `FlagFollowsSocket LastWordTrue AttemptIsAnswered` | the flag and the listeners' knowledge follow the socket |
| `logger` | 2 threads, 2 paths, 1 base name, 6 lines in files of 2, 1 tick, 2 changes of path or name, texts of 1, 3 and 5 characters and numbers of 1 (left out when fewer than 3 are free) in a buffer of 4 growing to 11 | `LinesKept OlderIsHigher RoomForZero` | each line is in one file but for exactly those the code is bound to lose, files are in order, the buffer keeps what it was given and room for its terminator |

Why these bounds are enough for the question asked:

- Two workers, two jobs and two submitters are the least with which two workers
  can wait, a signal can go to the wrong one, a job can be submitted between the
  removal and the acknowledgement of another, and a worker can be added while
  another leaves. The shutdown run has one job because its question is about
  threads; two starts let a stop fall into a second life of the pool.
- A worker's slot (`Threads`) is free again once the worker has been joined, and one
  that is never joined keeps its slot. `pool_handoff` and `pool_stop_loses` have a
  slot more than the most workers the pool may run, so that nothing but the code's
  own count keeps a worker too many from being started (`WorkersWithinMax`). The
  other two pool runs have one slot for each: there a new worker may also have to
  wait until one that has left is joined.
- Both submitters are in `pool_handoff`, whose properties say what concurrent
  submissions leave of ids and places; the only stop there is the destructor's. One
  is enough in `pool_liveness`: it submits the second job at any point of the life
  of the first.
- Shutdown and job liveness are two runs because together they exceed what
  TLC can check for liveness. What falls between them (does the signal survive a
  `stop`) is the subject of `pool_stop_loses`.
- In `events` three waits over two addresses make a thread register again
  while the object of its last wait is still in a list, and use a freed address; two sets let two setters meet in
  one list and one wait be aimed at twice.
- In `winpool` the two workers, the prepare thread and the canceller are enough to
  hold every lock and both semaphores against each other; both jobs poll, so a
  pause stops them wherever they are. One start before and a stop in between
  let the destructor meet a pool that was never started, runs, or was stopped.
- Two bounds are shared: in `winpool` one call of `stop` or of `cancelJob`
  (`MaxCalls`), for the job submitted first (`Targets`), and in `pool_handoff` one of
  `clearUndoWork` or of `cancelJob` (`MaxDrops`). A cancel meets a stop all the same,
  the owner's or the destructor's in `winpool` and the destructor's in
  `pool_handoff`, and the safety properties are proved without any bound (section 5).
- In `winsocket` three writes over a queue of two fill it and refuse the next one;
  two opens let messages of the first connection be posted when the second begins.
- In `client` three levels let news arrive inside news inside an answer; four
  attempts let a listener try again from each of them.
- In `logger` six lines in files of two allow the three rolls in one second that
  lose a file; two settings of two paths are enough to set a path back, to set one
  again in another spelling, and to split two at a time; a buffer of 4 that grows by at
  least 4 up to 11 stands for 4000 growing to the limit, and pieces that fit
  exactly, one below and one above are among the sums.
- In `rpc_channel` an answer of three units lets a delivery end after the header
  and inside the payload; three calls let two answers arrive inside the callback of
  a third; two connections let the end of one be seen inside a callback and the next
  begin; sequence ids 1 to 4 wrap, and the channel starts at any of them. The calls
  are made in the order of their numbers, which only gives them names (`InTurn`).
- One descriptor for three connections is the worst case of reuse; a limit of one
  makes rejection happen while a finished connection is still listed; two
  finishes let the second one meet a destroyed sender or a new owner.
- Two requests with the same id make one insertion fail; the login uses the other
  map and the other path. One tick is enough to write between any two steps.

Symmetry is used in runs without liveness properties only, over jobs, threads,
or callers, which the specifications do not distinguish.

## 4 Fairness

Every `FairSpec` asks for weak fairness of threads that are inside an operation
and of event loops: the operating system runs them. Nobody is obliged to
call: submitting, cancelling, starting, stopping, setting an event, sending,
broadcasting, connecting and leaving have no fairness. Three assumptions go a
little further, and are the code's environment:

- `pool`: a job's `run` comes back. The mutexes and semaphores of a bounded
  history have no fairness beyond weak fairness of whoever waits for them.
- `RPEvents`: only a wake-up by `pthread_cond_signal` is fair (`Woken`);
  spurious wake-ups may happen and need not.
- `RipcChannel`: the server handles and answers what it gets, callbacks come
  back. `ConnectionRegistry`: the timer fires again and again
  (`QTimer` on the main thread). `ServicesHost`: each job is run, as the pool
  runs show while it has workers.
- `WThreadPool`: a job's `run` comes back unless the pool is paused; nobody has to
  resume. `WLocalSocket`: the kernel finishes operations on an open pipe whose
  other end reads or writes, and a worker that waits for several things does not
  pass over a finished completion for ever; the other end need not do anything.
  `ClientFacade`: the worker's attempt ends one way or the other, listeners return.
  `RsLogFile` has safety properties only.

## 5 The proofs

A `...Proofs` module proves its theorems for every value of the constants: any
number of threads, jobs, connections, requests, calls and messages, any limits
and capacities. Each assumes the named assumption of the module it is about
(`PoolAssumption`, `HostAssumption`, ...), which TLC evaluates in every run of that
module, and no theorem has a further hypothesis.

Where a property is not inductive alone, it is proved from an invariant that is.
That invariant was first checked by TLC, on an instance as large as the run's or
larger (491074 states for the events, 575614 for the Windows socket). This is how a mistake in the model of
the Windows pool was found and put right: a step of `stop` could be taken although
the prepare thread had not ended.

The modules are laid out alike: the parts of the invariant; lemmas about sequences
and cardinalities; for each part a *frame* lemma that disposes of the actions which
leave its variables alone, and one step for each of the others; the theorems. What
the provers find hard are sequences inside records and counting, so these have
lemmas of their own (`Ranks`, `CountUpTo`, `DropSeq`, `ConcatSeq`, ...).

### RThreadPoolProofs

| Theorem | Statement |
|---|---|
| `PoolInvariant` | `Spec => []PoolInv` |
| `TypeCorrect` | `Spec => []TypeOK` |
| `HandoffCorrect` | `Spec => []HandoffInv` |
| `NeverEmptyWithoutClear` | `Spec => []GetJobNeverEmpty`: as long as `clearUndoWork` has not been called, no worker that takes a job finds the set empty |
| `NeverTooManyWorkers` | `Spec => []WorkersWithinMax` |
| `IdsInOrder` | `Spec => InsertInIdOrder` |
| `NeverLostNorTwice` | `Spec => []JobInOnePlace` |

`PoolAssumption` asks for finite sets of jobs and threads, a minimum not above the
maximum, the marker values outside the sets, and at most one call of the
destructor.

`HandoffInv` is not inductive alone. It says that while the jobs have not been
dropped

- `Turnstile`: until the manager has its acknowledgement there is one signal, in
  one place: the set event, one worker on its way to the set, or the posted
  acknowledgement;
- `SignalKept`: it is in one of these places, unless a `stop` has overwritten it;
- `TokensMatchJobs`: the semaphore's count and the signal in flight are as many as
  the waiting jobs and the count that a canceller has yet to take.

A step keeps these only if a job is not inserted twice (`SubmitInv`: callers that
are submitting hold different jobs that are not in the set), if one canceller at
most owes a count (`LockInv`: the lock of the waiting jobs belongs to it), if a
signal is overwritten or jobs are dropped only after the call that is counted
(`OwnerInv`), and if everything has its type, for which the reaper must find a
thread where it pops one (`ReaperInv`). `PoolInv` is the conjunction.

`NeverTooManyWorkers` counts: threads are added in one action and leave in one of
two (`WorkingSteps`), so `last_running_thread_` is the size of a set that changes
only there. `IdsInOrder` needs that no id exceeds `job_index_`, and that one that
equals it while a submitter is between its increment and its insertion is of a job
inserted meanwhile (`IdsInv`).

`NeverLostNorTwice` holds for any number of submitters although two of them may read
one `job_index_` (`rthreadpool.cpp:354`): the set keeps both jobs, since `operator<`
calls either of two equal ones the smaller (`rbasejob.cpp:27-33`). `Twin` names such
jobs. The invariant `PlaceInv` says of each job, twins included, that it is at most
one of: with its caller, with a submitter, waiting, at one worker; and that before a
worker has it it is not gone (with the cleaner or deleted). A job that is no twin is
somewhere, and not gone while a worker has it. This needs that `map_doing_jobs` has
every running job that is no twin (`DoingThere`), and under each job's own id no job
that waits or is gone (`DoingTaken`), so that a worker that ends sends to the cleaner
its own job or, of twins, the one that began first.

### RPEventsProofs

| Theorem | Statement |
|---|---|
| `EventsInvariant` | `Spec => []EventsInv` |
| `TypeCorrect` | `Spec => []TypeOK` |
| `ReferencesExact` | `Spec => []RefCountExact` |
| `NobodySleepsOver` | `Spec => []NoSleepOverSetEvent` |
| `ImplementsContract` | `Spec => KeepsContract`: `RPEvents` implements `EventContract` |

The counting is the heart of it (`CountInv`): an object's count is the number of
event lists in which it stands at or behind the setter that goes through the list
(`Places`), and what its waiting thread has still to give back (`Owes`: as many as
it has not registered yet, or skipped). It needs lists without repetition
(`ListInv`), setters at a place in their list whose entry is what they think it is
(`OwnerInv`, `ScanInv`), one object for each wait (`CurInv`, `WaitInv`) and no stale
entry under an event the wait has yet to look at, although addresses are used again
(`AheadInv`). `UndecidedInv` is the property about sleeping, stated of registering
threads too: a wait nothing has ended is in the list of every event it has looked at,
and none of these is set unless its `SetEvent` has the wait still to come. The
refinement is one lemma for each action; `SetEvent` on a manual-reset event is the
delicate one, its aim being the subsequence of live waits still ahead of the setter.

### RipcChannelProofs

| Theorem | Statement |
|---|---|
| `ChannelInvariant` | `Spec => []ChannelInv` |
| `TypeCorrect` | `Spec => []TypeOK` |
| `HeaderWhereMessageBegins` | `Spec => []StreamInSync` |
| `EntryFindsAnswer` | `Spec => []PendingSomewhere` |
| `ImplementsContract` | `Spec => KeepsContract`: `RipcChannel` implements `CallContract` |

What has been received and not committed and what is still in the wire are one
`Stream`. Each request and each answer is on its way once (`TrafficInv`); a pending
entry and a message of its id belong to the same call (`AnswerInv`). That a new call
finds its id free although ids wrap is the argument of `IdInv`: ids are given in a
circle, so an id that is still used, by an entry, by a message or by a callback
that will erase under it, is younger than the number of calls made (`Age`), and there
are more ids than calls. While the stream is not spoilt it consists of whole
messages, the first of which may be at the application (`Whole`, `PosInv`), and
entries and messages are in one-to-one correspondence (`EntryInv`); once a broadcast
was left uncommitted (`broken`) only the first group holds, which is why the two
parts are kept apart, and it is enough for the refinement.

### RegistryAndLoggerProofs

Two parts that share a module and nothing else. The definitions of `RsLogFile` that
would be named twice carry `Log` in their names (`LogSpec`, `LogTypeOK`, ...). About
`ConnectionRegistry`:

| Theorem | Statement |
|---|---|
| `TypeCorrect` | `Spec => []TypeOK` |
| `LivesUntilFinished` | `Spec => []KeptWhileOpen` |
| `ClientAndConnection` | `Spec => []ClientOfConnection` |

The first needs that only finished connections are named in the queue
(`QueueFinished`). The last needs `MapsInv`: the two maps have entries for the
same descriptors, and a connection kept under a descriptor exists, had that
descriptor and, once it has given it back, is still named in the queue
(`KeptThere`); so an accept that finds an old client finds its end still queued,
which is what `shadowed` records.

About `RsLogFile`, for any number of threads, paths, names, lines and seconds and
any sizes of files and buffers:

| Theorem | Statement |
|---|---|
| `LogSafety` | `LogSpec => []LogInv` |
| `LogTypes` | `LogSpec => []LogTypeOK` |
| `LogLinesKept` | `LogSpec => []LinesKept` |
| `LogOlderIsHigher` | `LogSpec => []OlderIsHigher` |
| `LogRoomForZero` | `LogSpec => []RoomForZero` |

`DirInv` is about the directories. No file is of a later second than the current
name (`NameInv`), so a roll into a new second opens a name that was not there, and
none has a number above that of the lines, so `rollFile()` finds a free number
(`FreeNumber`, from the least element of a set of numbers). A numbered file has its
log beside it (`HasPlain`), so a name that was not there has no numbered files
either. `Kept` says that the lines found in files are exactly those not in `lost`. A
roll keeps it by cases on the numbers there are: with none or one, the rename fills
the gap and the removal finds nothing; with `.1` and `.2` the rename moves another
file and the removal takes `.1`, whose lines are the ones `LostByRoll` adds
(`RolledOver`). A line is in one file at most in any case (`Single`). Whatever a
roll removes, the file each line came from had the same place among its log's
numbers: hence `OlderIsHigher`. `RoomForZero` adds that no buffer is overrun
(`StreamInv`).

### ServicesHostProofs

| Theorem | Statement |
|---|---|
| `FindsOwnHandler` | `Spec => []OwnHandler` |
| `HandlerUnique` | `Spec => []HandlerInOnePlace` |
| `NeverStale` | `Spec => []NoStaleAnswer` |
| `TypeCorrect` | `Spec => []TypeOK` |

`OwnInv` adds to the first that a connection's thread works on a request of its own
that has no job yet, whose handler is in the map before it submits (`ThreadOwns`),
and that a job which found a handler found its own (`FoundOwn`). Only then is an
erasure under an id never the erasure of somebody else's entry: the entry under the
id is the one of the request whose job erases it, and no other request has a job
under that id. `PlaceInv` follows a handler from hand to hand: what is posted is
posted once, at its own connection, and is nowhere else; what a thread, the map or a
job holds has not been answered. `FreshInv` follows the status: from the moment a job
has written a field, what stands there is new to it, and so is what it has copied; a
torn string is the only exception. `HostInv` is the conjunction.

### WThreadPoolProofs

| Theorem | Statement |
|---|---|
| `WPoolInvariant` | `Spec => []WPoolInv` |
| `TypeCorrect` | `Spec => []TypeOK` |
| `WokenFindsJob` | `Spec => []SemaphoreExact` |
| `NeverLostNorTwice` | `Spec => []WJobInOnePlace` |
| `TakenInOrder` | `Spec => TakeInOrder` |

Ids are given under the lock of the queue here, so there is no hypothesis about
submitters. `PlaceInv` is the Linux pool's with the prepare thread and its queue.
`OrderInv` carries the order: ids grow from the waiting jobs over the job in the
prepare thread's hand to the end of the queue, so the first of a priority among the
waiting jobs is the first in the pool. `SemaphoreExact` needs that a canceller which
waits for a count keeps the lock and its job keeps waiting (`CancelInv`), that the
prepare thread has a job exactly while it inserts it and has ended whenever the
destructor drops what it had (`PrepareInv`), and that the counters are what they
count (`NumbersExact`).

### WLocalSocketProofs

| Theorem | Statement |
|---|---|
| `SocketInvariant` | `Spec => []SocketInv` |
| `TypeCorrect` | `Spec => []TypeOK` |
| `WritesInOrder` | `Spec => []StreamInOrder` |
| `ReadsInOrder` | `Spec => []ReadInOrder` |
| `HearsInOrder` | `Spec => HeardInOrder` |

`OwnerInv` says what the owner's place tells of the worker and the window, and
`FreshInv` that a worker which has yet to connect has read, written and posted
nothing; together they make each connection begin from nothing although the object
is used again. `WriteInv` counts the numbers accepted: those in the pipe, at most
one under way, those queued; the one under way counts until its completion routine
has run, and a write that failed to start ends the connection (`m_state`), so that
nothing is ever written behind a gap. `ReadInv` does the same through a bound
variable, the last number the worker has posted. `HeardInv` is about the order of
the messages posted: before the first error nothing but "connected" first, data
behind it, and a "disconnected" that is directly followed by an error; the owner
closes on that error, and what is posted behind it goes with the window.

### ClientFacadeProofs

| Theorem | Statement |
|---|---|
| `TypeCorrect` | `Spec => []TypeOK` |
| `FlagAndSocket` | `Spec => []FlagFollowsSocket` |
| `LastWordIsTrue` | `Spec => []LastWordTrue` |

The strengthening of the second, `FlagInv`, is about the order of what is posted: an
attempt starts with an empty window (`Attempting`), no loss is posted while the
socket is connected (`NoLossYet`), and once it is not, each "connected" still posted
has a "disconnected" behind it (`LossFollows`). Without the last, handling an old
"connected" after the loss would leave the flag up for good. The third needs
`WordInv`: who has heard something is in the list (`Addressed`), and while no news
came inside a listener, news are at the bottom of the stack only, agree with the
flag, and are the last word of those they have reached (`Spreading`).

### Model-checked only

- *Liveness*, which is out of the provers' reach: `JobsTakenWhileThreads`,
  `EveryThreadJoined`, `ShutdownEnds`, `RetainedJobsTaken`, `CallsReturn`,
  `NoneStaysPending`, `FinishedDestroyed`, `NotifiedUnlessShadowed`,
  `AnsweredUnlessMissed`, `NotLeftBesideWorker`, `DestructorEnds`,
  `EverySliceLeaves`, `LossIsNoticed`, `AttemptIsAnswered`.

Every invariant, every action property and both refinements of the runs are
theorems.

## 6 Where code and documents differ

Shown by a run:

1. **`stop` loses a job's signal** (`pool_stop_loses`). `rthreadpool.h:67-69`
   says that `stop` keeps the jobs that have not run. When a worker has been given
   the job event and has not woken up yet, `SetEvent` on the stop event replaces it
   (`rpevents.cpp:478-494`). The worker leaves, nobody acknowledges the signal,
   and the manager waits for ever at `rthreadpool.cpp:39`: the retained jobs
   are not run after the next `start`.

Present in the models, where it is a step or a state the properties leave room for:

- **The end of the connection inside a callback.** The comment at
  `ripcclientchannel.cpp:561-562` allows re-entering `onRecvData` from a
  callback. If the nested loop delivers the end of the connection, the maps are
  cleared (`626-627`), and lines `575-576` then erase through iterators that are
  no longer valid (`UseStale`). On Linux, where Qt does not emit `readyRead` inside
  its own handler, data cannot re-enter this way, but the end of the connection can.
- **Data inside the handler of a broadcast.** The broadcast is committed after its
  handler (`ripcclientchannel.cpp:490-503`). An answer handled inside it commits
  its own length from the front of the buffer (`546-568`); when both are equally
  long it stays there and is read again: its callback runs twice if the first run
  is still in a nested loop (`Repeat`), else the channel is closed over an
  unknown answer (`HandleUnknown`). The callback of the second reading erases the
  entry, and the first then erases through its own iterator (`UseStale`).
- **A new connection on an old descriptor.** The host erases
  by socket descriptor (`ripcqcserviceshostprivate.cpp:209-220`). A descriptor
  that was closed and accepted again before the queued message is handled now
  names another connection, which loses its client and misses every broadcast
  (`README.md:7` promises broadcasts): hence `NotifiedUnlessShadowed`.
- **A stopped Windows pool is destroyed.** `stop` queues a marker for the prepare
  thread also when that thread is gone; the assertion at `rthreadpool.cpp:374`
  expects jobs only and the code then follows the marker's null job
  (`ClearFindsJobs`, a definition no run lists). A prepared job has no index
  pointer and is followed all the same.
- **A Windows pool starts.** Jobs are accepted (`110`) before the arrays of
  threads exist (`442-446`): one prepared in between adds a worker through a null
  pointer.
- **`cancelJob` of the Windows pool** waits for the job's count with
  `waiting_jobs_lock_` held (`563-573`) and never returns when a worker has taken
  it, uses a job after its lock (`616-623`) when it may be deleted, and is lost
  when it comes before the job's event exists (`764`).
- **The logger loses lines.** A roll in the second of the name that finds a `.1`
  and a `.2`, so from the third on, removes `.1`, the second newest file
  (`rslog.cpp:676-697`: the loop renames to one fixed target). `setLogPath` keeps
  `m_file_name_` (`353-355`) and opens it with `"w+"` (`395`): a path that is set back
  at any time before the name changes empties the file it had. It does so to the
  current file too when the current path is given in another spelling, say with a
  slash at the end, because the argument is compared with the path after splitting
  (`311`, `354`). `strtok` (`331-346`) shares one pointer between threads that set
  paths at a time, outside the mutex: either path may come out mixed. A base name
  set back within its second empties its file. `LinesKept` says that these are the
  only ways to lose a line. `warn`, `error` and `fatal` write nothing
  (`451`, `462`, `474`); a number is left out when fewer than 32 characters are
  free (`logstream.cpp:105`), and a line at the buffer's limit has no terminator.
- **The client facade**: a retry inside `notifyConnectErr` is undone by the `close`
  that follows it (`ripcclientchannel.cpp:592-595`); a `close` over a stream out of
  step tells nobody and leaves `m_bConnected` set; a release with a call pending
  leaves the channel alive, whose later messages use freed memory
  (`ripcqcinterfaceimpl.cpp:81`, `LeakedUse`); a listener that registers after the
  connection was made hears nothing of it; answers go to the last listener only.
- **News inside news**: listeners later in the list hear the inner news first
  (`ripcqcclient.cpp:216-249`): hence `nested` in `LastWordTrue`.
- two concurrent `submitJob` calls can give two jobs one id, because the
  increment at `rthreadpool.cpp:354` is outside the lock and the id is read back
  later. `rthreadpool.h:79-80` wants to find and cancel one job by it, and
  `135-136` has the jobs of one priority in the order of submission. The set keeps
  both jobs; the entry of the second in the map of running jobs is not inserted
  (`551`), so the worker that ends first sends the job that began first to the
  cleaner (`601-604`), possibly while it runs, and the other is never deleted.
  `JobInOnePlace` leaves room for this (`Twin`), `InsertInIdOrder` says between
  which jobs it can happen;
- new workers insert themselves into `map_thread_ids_` without a lock (`107`) while
  leaving ones search and erase in it under one (`453-476`): a worker that misses
  itself is never queued for the reaper nor joined, and its thread object is never
  deleted (`map_torn` in `EveryThreadJoined`);
- `cancelJob` takes back the count of a waiting job with the lock held
  (`rthreadpool.cpp:684`); when the manager has it already, it never returns,
  and no worker can take a job any more;
- several workers pass the test at `rthreadpool.cpp:610-628` together: fewer than
  the minimum, even none, may be left, and a waiting job is not taken until
  the next submission. This is why `JobsTakenWhileThreads` asks for a worker;
- `wait` may return for the completion event of an earlier life of the pool
  (`rthreadpool.cpp:113`, `rthreadpool.h:73`);
- `clearUndoWork` removes a job whose signal is under way, and the assertion at
  `rthreadpool.cpp:541` fails: `NeverEmptyWithoutClear` is the strongest form that
  holds;
- `cancelJob` may set a job's stop event before it has been made or after it has
  been destroyed (`rthreadpool.cpp:710`);
- the lookup of a handler without its mutex (`ripcqcservicesdataproxy.cpp:59`) may
  miss it, and the request is then never answered: hence `AnsweredUnlessMissed`;
- the answer may hold a torn author string (`ripcqcservicesqcdataproxy.cpp:16`):
  `NoStaleAnswer` leaves room for it;
- an application's callbacks that are pending when the connection goes are
  dropped, not run (`CallContract`'s `Forget`).

## 7 What is not modelled

- **Linux pool**: `pause` and `resume` are commented out in the code; statistics
  change nothing. Of the unlocked accesses to the map of thread ids the outcome that
  a thread is missed is modelled, a crash or an endless walk is not. The life of the event objects themselves (the destructor destroys the
  completion event while the last worker may still be inside `SetEvent`) and of the
  memory of a job that its submitter still reads (`rthreadpool.cpp:387`) are not
  states of the model.
- **Windows pool**: the debug build's assertions; the timeouts of `stop` are a
  choice, as long as they are finite. `start` of a pool that runs only logs and goes
  on, with a second prepare thread (`rpc_srv_demo/threadpool/rthreadpool.cpp:103-106`):
  the servers call it once, `StartPrepare` is for a pool that does not run. The index
  of a job that is read for the log after its lock (`452`), when the job may have
  been deleted, is taken to do no harm.
- **Events**: `waitAll`, timeouts and `PulseEvent`, which nothing calls.
- **Channel**: requests from server to client, which no service has; the one-way
  `sendMessage`, whose failure also erases the last call's entry (`302`), and
  `sayGoodBye`; `close` called by the application from a callback; a call cut off
  between two slices because the socket's queue is full (`289-299`).
- **Windows socket**: the size of a message against the buffer (a message is one
  slice), and the pipe a `close` during `doConnecting` leaves open (`407`).
- **Server**: a job that is refused because the pool does not run
  (`rthreadpool.cpp:346-350`): the server starts it before its event loop can accept
  and stops it only at its end, where the handler would stay in the map and the
  request unanswered; the receive buffer of a server connection (the client's without the
  early commit); `RLocalServer::broadcast`, which nothing calls; the order of
  destruction at the end of the process.
- **Facade**: the Linux build, where Qt delivers what the Windows socket posts;
  the direct handler, which is never set. A "disconnected" handled inside the callback
  of an answer makes the erasure that follows undefined
  (`ripcclientchannel.cpp:575-576`, `UseStale` of `RipcChannel`); `ClientFacade` goes
  on as if nothing had happened, which is one of its outcomes.
- **Logger**: the text of a line, `setMaxLogFiles` and `clearExpiredLogs`, which
  nothing calls, a directory that cannot be written.
- **Unix message server** (a listening descriptor around `accept`), **duplicate
  client channel** (`rs_ipcclientchannel.cpp`, which no build file names),
  vendored code (thrift, boost), generated thrift code, the demos' windows and
  stateless helpers.

## 8 Plan

*Composition*: `ServicesHost` with the pool's abstract promise as a module of
its own that `RThreadPool` and `WThreadPool` are shown to implement; the end of
the server process (host, pool and connections destroyed in the order of the
destructor).
