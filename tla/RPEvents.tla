------------------------------ MODULE RPEvents ------------------------------
(***************************************************************************)
(* Events for POSIX threads (rpc_srv_demo_linux/threadpool/rpevents.cpp)   *)
(* as the thread pool uses them: WaitForMultipleEvents with waitAll =      *)
(* false and no timeout, SetEvent, ResetEvent.  Each wait is a heap object *)
(* (smart_wfmo_t_) with its own mutex, registered with every event that    *)
(* was not set, and freed by whoever gives back its last reference.  A     *)
(* thread that holds an event's mutex may block on an object's mutex and   *)
(* the other way round; each action ends where a thread can block or be    *)
(* overtaken.                                                              *)
(***************************************************************************)
EXTENDS Integers, Sequences, FiniteSets

CONSTANTS Waiters, Setters,
          N, AutoReset,    \* events 1..N in the order of every wait; the auto-reset ones
          Objects,         \* addresses for smart_wfmo_t_ objects
          NoWaiter, NoSetter, NoObject,
          MaxSets, MaxResets, MaxWaits  \* bounds on the calls

ASSUME EventsAssumption ==
  /\ N \in Nat \ {0} /\ AutoReset \subseteq 1..N
  /\ NoWaiter \notin Waiters /\ NoSetter \notin Setters /\ NoObject \notin Objects

Events == 1..N
Manual == Events \ AutoReset

VARIABLES
  State, Owner, RegisteredWaits,           \* of each event; Owner holds its Mutex
  FiredEvent, StillWaiting, RefCount,      \* of each object; 0 references: freed
  Holder,                                  \* the waiter inside the object's Mutex
  signalled,                               \* pthread_cond_signal was called for it
  wpc, cur, next, skipped, waitIndex,      \* WaitForMultipleEvents of each waiter
  spc, event, pos,                         \* SetEvent of each setter; pos: its place in the list
  sets, resets, waits

evars == <<State, Owner, RegisteredWaits>>
ovars == <<FiredEvent, StillWaiting, RefCount, Holder, signalled>>
wvars == <<wpc, cur, next, skipped, waitIndex, waits>>
svars == <<spc, event, pos, sets, resets>>
vars  == <<evars, ovars, wvars, svars>>

TypeOK ==
  /\ State \in [Events -> BOOLEAN] /\ Owner \in [Events -> Setters \cup {NoSetter}]
  /\ RegisteredWaits \in [Events -> Seq(Objects)]
  /\ FiredEvent \in [Objects -> 0..N] /\ StillWaiting \in [Objects -> BOOLEAN]
  /\ RefCount \in [Objects -> 0..(N + 1)] /\ Holder \in [Objects -> Waiters \cup {NoWaiter}]
  /\ signalled \in [Objects -> BOOLEAN]
  /\ wpc \in [Waiters -> {"idle", "register", "blocked", "unref"}]
  /\ cur \in [Waiters -> Objects \cup {NoObject}]
  /\ next \in [Waiters -> 0..N] /\ skipped \in [Waiters -> 0..N]
  /\ waitIndex \in [Waiters -> 0..N]
  /\ spc \in [Setters -> {"idle", "scan", "wlock", "skip", "signal"}]
  /\ event \in [Setters -> 0..N] /\ pos \in [Setters -> Nat]
  /\ sets \in Nat /\ resets \in Nat /\ waits \in Nat

Init ==
  /\ State = [e \in Events |-> FALSE] /\ Owner = [e \in Events |-> NoSetter]
  /\ RegisteredWaits = [e \in Events |-> <<>>]
  /\ FiredEvent = [o \in Objects |-> 0] /\ StillWaiting = [o \in Objects |-> FALSE]
  /\ RefCount = [o \in Objects |-> 0] /\ Holder = [o \in Objects |-> NoWaiter]
  /\ signalled = [o \in Objects |-> FALSE]
  /\ wpc = [t \in Waiters |-> "idle"] /\ cur = [t \in Waiters |-> NoObject]
  /\ next = [t \in Waiters |-> 0] /\ skipped = [t \in Waiters |-> 0]
  /\ waitIndex = [t \in Waiters |-> 0]
  /\ spc = [s \in Setters |-> "idle"] /\ event = [s \in Setters |-> 0]
  /\ pos = [s \in Setters |-> 0]
  /\ sets = 0 /\ resets = 0 /\ waits = 0

\* The object's mutex is let go of (mutant: it is not).
KeepHold(o) == Holder
LetGo(o) == [Holder EXCEPT ![o] = NoWaiter]

(***************************************************************************)
(* WaitForMultipleEvents                                                   *)
(***************************************************************************)

\* A new object (its address may be that of a freed one), locked by the waiter.
WaitBegin(t) ==
  /\ wpc[t] = "idle" /\ waits < MaxWaits
  /\ \E o \in Objects :
       /\ RefCount[o] = 0
       /\ cur' = [cur EXCEPT ![t] = o]
       /\ FiredEvent' = [FiredEvent EXCEPT ![o] = 0]
       /\ StillWaiting' = [StillWaiting EXCEPT ![o] = TRUE]
       /\ RefCount' = [RefCount EXCEPT ![o] = 1 + N]
       /\ Holder' = [Holder EXCEPT ![o] = t]
       /\ signalled' = [signalled EXCEPT ![o] = FALSE]
  /\ next' = [next EXCEPT ![t] = 1]
  /\ skipped' = [skipped EXCEPT ![t] = 0]
  /\ wpc' = [wpc EXCEPT ![t] = "register"]
  /\ waits' = waits + 1
  /\ UNCHANGED <<evars, waitIndex, svars>>

\* The elements of q at the places in I, in their order.
Subsequence(q, I) ==
  LET place(k) == CHOOSE i \in I : Cardinality({j \in I : j <= i}) = k
  IN  [k \in 1..Cardinality(I) |-> q[place(k)]]

\* RemoveExpiredWaitHelper over the registered waits of e: each expired one
\* gives its reference back (mutants: the references are kept; every wait is dropped).
NoneLive(e) == <<>>
Live(e) ==
  Subsequence(RegisteredWaits[e],
              {i \in DOMAIN RegisteredWaits[e] : StillWaiting[RegisteredWaits[e][i]]})
Times(o, e) == Cardinality({i \in DOMAIN RegisteredWaits[e] : RegisteredWaits[e][i] = o})
PurgedSilently(e) == RefCount
Purged(e) == [o \in Objects |-> IF StillWaiting[o] THEN RefCount[o] ELSE RefCount[o] - Times(o, e)]

\* The event is set: the wait is over.  A manual-reset event is only read.
WaitFinds(t) ==
  LET e == next[t]
      o == cur[t]
  IN /\ wpc[t] = "register" /\ State[e]
     /\ \/ e \in Manual /\ UNCHANGED <<evars, RefCount>>
        \/ /\ e \in AutoReset /\ Owner[e] = NoSetter
           /\ RegisteredWaits' = [RegisteredWaits EXCEPT ![e] = Live(e)]
           /\ RefCount' = Purged(e)
           /\ State' = [State EXCEPT ![e] = FALSE]
           /\ UNCHANGED Owner
     /\ FiredEvent' = [FiredEvent EXCEPT ![o] = e]
     /\ StillWaiting' = [StillWaiting EXCEPT ![o] = FALSE]
     /\ Holder' = LetGo(o)
     /\ waitIndex' = [waitIndex EXCEPT ![t] = e]
     /\ skipped' = [skipped EXCEPT ![t] = N - e + 1]
     /\ wpc' = [wpc EXCEPT ![t] = "unref"]
     /\ UNCHANGED <<signalled, cur, next, waits, svars>>

\* The event is not set: register with it; after the last one block in
\* pthread_cond_wait, which lets go of the object's mutex.
WaitRegisters(t) ==
  LET e == next[t]
      o == cur[t]
  IN /\ wpc[t] = "register" /\ ~State[e] /\ Owner[e] = NoSetter
     /\ RegisteredWaits' = [RegisteredWaits EXCEPT ![e] = Append(Live(e), o)]
     /\ RefCount' = Purged(e)
     /\ IF e < N
          THEN /\ next' = [next EXCEPT ![t] = e + 1]
               /\ UNCHANGED <<wpc, Holder>>
          ELSE /\ wpc' = [wpc EXCEPT ![t] = "blocked"]
               /\ Holder' = LetGo(o)
               /\ UNCHANGED next
     /\ UNCHANGED <<State, Owner, FiredEvent, StillWaiting, signalled, cur, skipped, waitIndex,
                    waits, svars>>

\* pthread_cond_wait returns (signalled, or by itself) and finds an event fired;
\* otherwise the thread blocks again, which changes nothing.
WaitWakes(t) ==
  /\ wpc[t] = "blocked" /\ FiredEvent[cur[t]] # 0
  /\ waitIndex' = [waitIndex EXCEPT ![t] = FiredEvent[cur[t]]]
  /\ StillWaiting' = [StillWaiting EXCEPT ![cur[t]] = FALSE]
  /\ wpc' = [wpc EXCEPT ![t] = "unref"]
  /\ UNCHANGED <<evars, FiredEvent, RefCount, Holder, signalled, cur, next, skipped, waits, svars>>

\* The waiter gives back its reference and those of the events it did not
\* register with.
References(t) == 1 + skipped[t]
WaitUnref(t) ==
  /\ wpc[t] = "unref"
  /\ RefCount' = [RefCount EXCEPT ![cur[t]] = @ - References(t)]
  /\ wpc' = [wpc EXCEPT ![t] = "idle"]
  /\ cur' = [cur EXCEPT ![t] = NoObject]
  /\ UNCHANGED <<evars, FiredEvent, StillWaiting, Holder, signalled, next, skipped, waitIndex,
                 waits, svars>>

(***************************************************************************)
(* SetEvent                                                                *)
(***************************************************************************)

\* Under the event's mutex.  A manual-reset event is set at once.
SetLock(s, e) ==
  /\ spc[s] = "idle" /\ sets < MaxSets /\ Owner[e] = NoSetter
  /\ sets' = sets + 1
  /\ Owner' = [Owner EXCEPT ![e] = s]
  /\ State' = [State EXCEPT ![e] = State[e] \/ e \in Manual]
  /\ event' = [event EXCEPT ![s] = e]
  /\ pos' = [pos EXCEPT ![s] = 1]
  /\ spc' = [spc EXCEPT ![s] = "scan"]
  /\ UNCHANGED <<RegisteredWaits, ovars, wvars, resets>>

Here(s) == RegisteredWaits[event[s]][pos[s]]
GiveBack(s) == RefCount' = [RefCount EXCEPT ![Here(s)] = @ - 1]
\* On to the next wait: the auto-reset branch pops, the manual one counts on.
Advance(s) ==
  IF event[s] \in AutoReset
    THEN /\ RegisteredWaits' = [RegisteredWaits EXCEPT ![event[s]] = Tail(@)]
         /\ UNCHANGED pos
    ELSE /\ pos' = [pos EXCEPT ![s] = @ + 1]
         /\ UNCHANGED RegisteredWaits
Unlock(s) ==
  /\ Owner' = [Owner EXCEPT ![event[s]] = NoSetter]
  /\ event' = [event EXCEPT ![s] = 0]
  /\ spc' = [spc EXCEPT ![s] = "idle"]

\* The look at StillWaiting without the object's mutex.
SetScan(s) ==
  /\ spc[s] = "scan" /\ pos[s] <= Len(RegisteredWaits[event[s]])
  /\ IF StillWaiting[Here(s)]
       THEN /\ spc' = [spc EXCEPT ![s] = "wlock"]
            /\ UNCHANGED <<RegisteredWaits, RefCount, pos>>
       ELSE GiveBack(s) /\ Advance(s) /\ UNCHANGED spc
  /\ UNCHANGED <<State, Owner, FiredEvent, StillWaiting, Holder, signalled, wvars, event, sets, resets>>

\* The second look, under the object's mutex, which only the auto-reset branch
\* takes (mutant: it does not either).
NeverEnded(s) == FALSE
EndedMeanwhile(s) == event[s] \in AutoReset /\ ~StillWaiting[Here(s)]

SetFire(s) ==
  /\ spc[s] = "wlock" /\ Holder[Here(s)] = NoWaiter
  /\ IF EndedMeanwhile(s)
       THEN /\ spc' = [spc EXCEPT ![s] = "skip"]
            /\ UNCHANGED <<FiredEvent, StillWaiting>>
       ELSE /\ spc' = [spc EXCEPT ![s] = "signal"]
            /\ FiredEvent' = [FiredEvent EXCEPT ![Here(s)] = event[s]]
            /\ StillWaiting' = [StillWaiting EXCEPT ![Here(s)] = FALSE]
  /\ UNCHANGED <<evars, RefCount, Holder, signalled, wvars, event, pos, sets, resets>>

SetSkip(s) ==
  /\ spc[s] = "skip"
  /\ GiveBack(s) /\ Advance(s)
  /\ spc' = [spc EXCEPT ![s] = "scan"]
  /\ UNCHANGED <<State, Owner, FiredEvent, StillWaiting, Holder, signalled, wvars, event, sets, resets>>

\* pthread_cond_signal (mutant: forgotten), then the reference; an auto-reset event is done with it.
NotSignalled(o) == signalled
Signalled(o) == [signalled EXCEPT ![o] = TRUE]
SetSignal(s) ==
  /\ spc[s] = "signal"
  /\ signalled' = Signalled(Here(s))
  /\ GiveBack(s) /\ Advance(s)
  /\ IF event[s] \in AutoReset
       THEN Unlock(s)
       ELSE spc' = [spc EXCEPT ![s] = "scan"] /\ UNCHANGED <<Owner, event>>
  /\ UNCHANGED <<State, FiredEvent, StillWaiting, Holder, wvars, sets, resets>>

\* The end of the list: an auto-reset event that nobody took stays set, the list
\* of a manual-reset one is cleared.
SetEnd(s) ==
  /\ spc[s] = "scan" /\ pos[s] > Len(RegisteredWaits[event[s]])
  /\ State' = [State EXCEPT ![event[s]] = TRUE]
  /\ RegisteredWaits' = [RegisteredWaits EXCEPT ![event[s]] = <<>>]
  /\ Unlock(s)
  /\ UNCHANGED <<ovars, wvars, pos, sets, resets>>

\* ResetEvent takes no mutex; its caller (start) is the one that sets the event.
ResetEvent(e) ==
  /\ resets < MaxResets /\ e \in Manual /\ State[e] /\ \A s \in Setters : event[s] # e
  /\ resets' = resets + 1
  /\ State' = [State EXCEPT ![e] = FALSE]
  /\ UNCHANGED <<Owner, RegisteredWaits, ovars, wvars, spc, event, pos, sets>>

-----------------------------------------------------------------------------
WaitStep(t) == WaitFinds(t) \/ WaitRegisters(t) \/ WaitUnref(t)
SetStep(s) == SetScan(s) \/ SetFire(s) \/ SetSkip(s) \/ SetSignal(s) \/ SetEnd(s)
\* A wake-up that pthread_cond_signal brought about.
Woken(t) == WaitWakes(t) /\ signalled[cur[t]]

Next ==
  \/ \E t \in Waiters : WaitBegin(t) \/ WaitStep(t) \/ WaitWakes(t)
  \/ \E s \in Setters : SetStep(s) \/ \E e \in Events : SetLock(s, e)
  \/ \E e \in Events : ResetEvent(e)

Spec == Init /\ [][Next]_vars

\* Threads inside a call go on; only a signalled thread has to wake up.
FairSpec ==
  /\ Spec
  /\ \A t \in Waiters : WF_vars(WaitStep(t)) /\ WF_vars(Woken(t))
  /\ \A s \in Setters : WF_vars(SetStep(s))

(***************************************************************************)
(* Properties                                                              *)
(***************************************************************************)

\* Registrations of o that a setter has not yet given back.
Registered(o) ==
  {x \in UNION {{e} \X DOMAIN RegisteredWaits[e] : e \in Events} :
     /\ RegisteredWaits[x[1]][x[2]] = o
     /\ \A s \in Setters : event[s] = x[1] => x[2] >= pos[s]}

\* What the waiter itself still has to give back.
WaiterShare(o) ==
  LET mine == {t \in Waiters : cur[t] = o}
      share(t) == CASE wpc[t] = "register" -> 1 + N - (next[t] - 1)
                    [] wpc[t] = "blocked"  -> 1
                    [] wpc[t] = "unref"    -> 1 + skipped[t]
  IN IF mine = {} THEN 0 ELSE share(CHOOSE t \in mine : TRUE)

\* The reference count of a wait is exactly the number of places that will give
\* a reference back: it is neither freed while an event's list or a thread still
\* points to it, nor leaked (rpevents.cpp:62-75, 203-206, 322-328, 366-438, 466-509).
RefCountExact == \A o \in Objects : RefCount[o] = Cardinality(Registered(o)) + WaiterShare(o)

\* No thread sleeps over an event that is set: a blocked wait that nothing has
\* fired finds every event unset, or its SetEvent has the wait still to come
\* (rpevents.cpp:225-264, 440-443, 455-511).
NoSleepOverSetEvent ==
  \A t \in Waiters, e \in Events :
    wpc[t] = "blocked" /\ FiredEvent[cur[t]] = 0 /\ State[e] =>
      \E s \in Setters : /\ event[s] = e /\ e \in Manual
                         /\ \E i \in pos[s]..Len(RegisteredWaits[e]) : RegisteredWaits[e][i] = cur[t]

\* SetEvent comes back although it takes an object's mutex inside an event's and
\* WaitForMultipleEvents an event's inside an object's, and a thread for which an
\* event has fired returns from its wait (rpevents.cpp:210-264, 359-521).
CallsReturn ==
  /\ \A s \in Setters : spc[s] # "idle" ~> spc[s] = "idle"
  /\ \A t \in Waiters : (wpc[t] = "blocked" /\ FiredEvent[cur[t]] # 0) ~> wpc[t] = "idle"

(***************************************************************************)
(* The contract the thread pool relies on                                  *)
(***************************************************************************)

Fired(t) == IF wpc[t] = "blocked" THEN FiredEvent[cur[t]] ELSE 0
AimedAt(s) ==
  {t \in Waiters : /\ spc[s] = "wlock" /\ event[s] \in Manual
                   /\ wpc[t] \in {"register", "blocked"} /\ cur[t] = Here(s)}

Status == [t \in Waiters |->
  CASE wpc[t] = "register" -> "look"
    [] wpc[t] = "blocked"  -> IF Fired(t) = 0 THEN "blocked" ELSE "given"
    [] OTHER -> "idle"]
At    == [t \in Waiters |-> IF wpc[t] = "register" THEN next[t] ELSE Fired(t)]
Doing == [s \in Setters |-> IF event[s] \in AutoReset /\ spc[s] = "signal" THEN 0 ELSE event[s]]
Aim   == [s \in Setters |-> IF AimedAt(s) = {} THEN NoWaiter ELSE CHOOSE t \in AimedAt(s) : TRUE]

Contract == INSTANCE EventContract WITH
  set <- State, status <- Status, at <- At, got <- waitIndex, doing <- Doing, aim <- Aim

\* The events keep their contract: every step of the code is a step of
\* EventContract or changes nothing there.
KeepsContract == Contract!CSpec
=============================================================================
