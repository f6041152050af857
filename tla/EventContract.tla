--------------------------- MODULE EventContract ---------------------------
(***************************************************************************)
(* What the users of rpevents (the thread pool) may expect of SetEvent and *)
(* WaitForMultipleEvents(waitAll = false): no mutexes, no reference counts *)
(* and no list of registered waits.  A wait looks at its events in order   *)
(* and then blocks; SetEvent on an auto-reset event gives the signal to    *)
(* one blocked thread or leaves it set; SetEvent on a manual-reset event   *)
(* sets it and releases the waiting threads one after the other.           *)
(***************************************************************************)
EXTENDS Naturals

CONSTANTS Waiters, Setters,  \* threads that wait, threads that set
          N,                 \* the events are 1..N, in the order of the waits
          AutoReset,         \* the auto-reset ones
          NoWaiter

VARIABLES set,     \* the state of each event
          status,  \* idle, looking at event at[t], blocked, or given event at[t]
          at,
          got,     \* the event that ended the last wait
          doing,   \* the event each setter is setting, or 0
          aim      \* the thread a manual-reset SetEvent has come to

cvars == <<set, status, at, got, doing, aim>>

Manual == 1..N \ AutoReset

CTypeOK ==
  /\ set \in [1..N -> BOOLEAN]
  /\ status \in [Waiters -> {"idle", "look", "blocked", "given"}]
  /\ at \in [Waiters -> 0..N] /\ got \in [Waiters -> 0..N]
  /\ doing \in [Setters -> 0..N] /\ aim \in [Setters -> Waiters \cup {NoWaiter}]

CInit ==
  /\ set = [e \in 1..N |-> FALSE]
  /\ status = [t \in Waiters |-> "idle"]
  /\ at = [t \in Waiters |-> 0] /\ got = [t \in Waiters |-> 0]
  /\ doing = [s \in Setters |-> 0] /\ aim = [s \in Setters |-> NoWaiter]

\* Nobody aims at a thread any more once its wait has ended.
Dismiss(t) == aim' = [s \in Setters |-> IF aim[s] = t THEN NoWaiter ELSE aim[s]]

Begin(t) ==
  /\ status[t] = "idle"
  /\ status' = [status EXCEPT ![t] = "look"]
  /\ at' = [at EXCEPT ![t] = 1]
  /\ UNCHANGED <<set, got, doing, aim>>

LookFinds(t) ==
  /\ status[t] = "look" /\ set[at[t]]
  /\ set' = [set EXCEPT ![at[t]] = at[t] \notin AutoReset]
  /\ got' = [got EXCEPT ![t] = at[t]]
  /\ status' = [status EXCEPT ![t] = "idle"]
  /\ at' = [at EXCEPT ![t] = 0]
  /\ Dismiss(t)
  /\ UNCHANGED doing

LookOn(t) ==
  /\ status[t] = "look" /\ ~set[at[t]]
  /\ status' = [status EXCEPT ![t] = IF at[t] = N THEN "blocked" ELSE "look"]
  /\ at' = [at EXCEPT ![t] = IF at[t] = N THEN 0 ELSE at[t] + 1]
  /\ UNCHANGED <<set, got, doing, aim>>

Return(t) ==
  /\ status[t] = "given"
  /\ got' = [got EXCEPT ![t] = at[t]]
  /\ status' = [status EXCEPT ![t] = "idle"]
  /\ at' = [at EXCEPT ![t] = 0]
  /\ Dismiss(t)
  /\ UNCHANGED <<set, doing>>

\* SetEvent calls on one event come one after the other.
Set(s, e) ==
  /\ doing[s] = 0 /\ \A r \in Setters : doing[r] # e
  /\ doing' = [doing EXCEPT ![s] = e]
  /\ set' = [set EXCEPT ![e] = set[e] \/ e \in Manual]
  /\ UNCHANGED <<status, at, got, aim>>

GiveTo(t, e) ==
  /\ status' = [status EXCEPT ![t] = "given"]
  /\ at' = [at EXCEPT ![t] = e]

\* Threads registered for e whose wait is undecided: SetEvent deals with each.
Undecided(e) == {t \in Waiters : status[t] = "blocked" \/ (status[t] = "look" /\ at[t] > e)}

Give(s, t) ==
  /\ doing[s] \in AutoReset /\ status[t] = "blocked"
  /\ GiveTo(t, doing[s])
  /\ doing' = [doing EXCEPT ![s] = 0]
  /\ UNCHANGED <<set, got, aim>>

Keep(s) ==
  /\ doing[s] \in AutoReset /\ Undecided(doing[s]) = {}
  /\ set' = [set EXCEPT ![doing[s]] = TRUE]
  /\ doing' = [doing EXCEPT ![s] = 0]
  /\ UNCHANGED <<status, at, got, aim>>

Aim(s, t) ==
  /\ doing[s] \in Manual /\ aim[s] = NoWaiter /\ t \in Undecided(doing[s])
  /\ aim' = [aim EXCEPT ![s] = t]
  /\ UNCHANGED <<set, status, at, got, doing>>

\* The thread aimed at may have been given another event meanwhile: the manual
\* event takes its place.
Release(s) ==
  /\ aim[s] # NoWaiter /\ status[aim[s]] \in {"blocked", "given"}
  /\ GiveTo(aim[s], doing[s])
  /\ aim' = [aim EXCEPT ![s] = NoWaiter]
  /\ UNCHANGED <<set, got, doing>>

Finish(s) ==
  /\ doing[s] \in Manual /\ aim[s] = NoWaiter /\ Undecided(doing[s]) = {}
  /\ doing' = [doing EXCEPT ![s] = 0]
  /\ UNCHANGED <<set, status, at, got, aim>>

Reset(e) ==
  /\ e \in Manual /\ \A s \in Setters : doing[s] # e
  /\ set' = [set EXCEPT ![e] = FALSE]
  /\ UNCHANGED <<status, at, got, doing, aim>>

CNext ==
  \/ \E t \in Waiters : Begin(t) \/ LookFinds(t) \/ LookOn(t) \/ Return(t)
  \/ \E s \in Setters : \/ \E e \in 1..N : Set(s, e)
                        \/ Keep(s) \/ Release(s) \/ Finish(s)
                        \/ \E t \in Waiters : Give(s, t) \/ Aim(s, t)
  \/ \E e \in 1..N : Reset(e)

CSpec == CInit /\ [][CNext]_cvars
=============================================================================
