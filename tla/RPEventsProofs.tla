--------------------------- MODULE RPEventsProofs ---------------------------
(***************************************************************************)
(* Proofs about RPEvents for any number of waiting and setting threads, of *)
(* events and of wait objects.                                             *)
(***************************************************************************)
EXTENDS RPEvents, FiniteSetTheorems, TLAPS

(***************************************************************************)
(* The events at which o is registered and has a reference to give back.   *)
(***************************************************************************)
HoldsAt(o, e) ==
  \E i \in DOMAIN RegisteredWaits[e] :
    RegisteredWaits[e][i] = o /\ \A s \in Setters : event[s] = e => i >= pos[s]
Places(o) == {e \in Events : HoldsAt(o, e)}

\* A SetEvent under way owns its event and is at a place in its list.
OwnerInv ==
  /\ \A s \in Setters, e \in Events : Owner[e] = s <=> event[s] = e
  /\ \A s \in Setters : spc[s] = "idle" <=> event[s] = 0
ScanInv ==
  \A s \in Setters : event[s] # 0 =>
    /\ pos[s] \in 1..(Len(RegisteredWaits[event[s]]) + 1)
    /\ event[s] \in AutoReset => pos[s] = 1
    /\ event[s] \in Manual => State[event[s]]
    /\ spc[s] # "scan" => pos[s] <= Len(RegisteredWaits[event[s]])
    /\ spc[s] \in {"skip", "signal"} => ~StillWaiting[Here(s)]
    /\ spc[s] = "skip" => event[s] \in AutoReset

\* Nobody is twice in a list.
ListInv == \A e \in Events : \A i, j \in DOMAIN RegisteredWaits[e] :
             RegisteredWaits[e][i] = RegisteredWaits[e][j] => i = j

\* Each wait has an object of its own, which knows whether the wait goes on.
CurInv ==
  /\ \A t \in Waiters : cur[t] = NoObject <=> wpc[t] = "idle"
  /\ \A t, u \in Waiters : cur[t] = cur[u] /\ cur[t] # NoObject => t = u
WaitInv ==
  /\ \A t \in Waiters : wpc[t] = "register" =>
       next[t] # 0 /\ skipped[t] = 0 /\ Holder[cur[t]] = t /\ FiredEvent[cur[t]] = 0 /\ StillWaiting[cur[t]]
  /\ \A t \in Waiters : wpc[t] = "blocked" =>
       skipped[t] = 0 /\ (StillWaiting[cur[t]] <=> FiredEvent[cur[t]] = 0)
  /\ \A t \in Waiters : wpc[t] = "unref" => ~StillWaiting[cur[t]]
  /\ \A o \in Objects : StillWaiting[o] => \E t \in Waiters : cur[t] = o

\* A wait nothing has ended is registered with the events it has looked at, and they
\* are not set unless their SetEvent still has it to come.
Undecided(t, e) ==
  \/ wpc[t] = "register" /\ e < next[t]
  \/ wpc[t] = "blocked" /\ StillWaiting[cur[t]]
UndecidedInv ==
  \A t \in Waiters, e \in Events : Undecided(t, e) =>
    /\ e \in Places(cur[t])
    /\ State[e] => e \in Manual /\ \E s \in Setters : event[s] = e
AheadInv == \A t \in Waiters, e \in Events : wpc[t] = "register" /\ e >= next[t] => e \notin Places(cur[t])

\* What a waiter has to give back of its object.
Owes(t) ==
  IF wpc[t] = "register" THEN 2 + N - next[t] ELSE IF wpc[t] = "unref" THEN 1 + skipped[t] ELSE 1
CountInv ==
  \A o \in Objects :
    /\ \A t \in Waiters : cur[t] = o => RefCount[o] = Cardinality(Places(o)) + Owes(t)
    /\ (\A t \in Waiters : cur[t] # o) => RefCount[o] = Cardinality(Places(o))

EventsInv == TypeOK /\ OwnerInv /\ ScanInv /\ ListInv /\ CurInv /\ WaitInv /\ UndecidedInv /\ AheadInv /\ CountInv

-----------------------------------------------------------------------------
(***************************************************************************)
(* Subsequences.                                                           *)
(***************************************************************************)

\* The places in I are counted by their ranks.
LEMMA Ranks ==
  ASSUME NEW n \in Nat, NEW I \in SUBSET (1..n)
  PROVE  /\ IsFiniteSet(I) /\ Cardinality(I) \in Nat
         /\ \A i \in I : Cardinality({j \in I : j <= i}) \in 1..Cardinality(I)
         /\ \A i, k \in I : Cardinality({j \in I : j <= i}) = Cardinality({j \in I : j <= k}) => i = k
         /\ \A m \in 1..Cardinality(I) : \E i \in I : Cardinality({j \in I : j <= i}) = m
<1> DEFINE below(i) == {j \in I : j <= i}
           rank(i) == Cardinality(below(i))
<1>1. IsFiniteSet(I) /\ Cardinality(I) \in Nat
  <2>1. IsFiniteSet(1..n)
    BY FS_Interval
  <2> QED
    BY <2>1, FS_Subset, FS_CardinalityType
<1>2. ASSUME NEW i \in I
      PROVE  /\ below(i) \in SUBSET I /\ IsFiniteSet(below(i))
             /\ rank(i) \in Nat /\ rank(i) # 0 /\ rank(i) <= Cardinality(I)
  <2>1. below(i) \in SUBSET I /\ i \in below(i)
    OBVIOUS
  <2> HIDE DEF below
  <2>2. IsFiniteSet(below(i)) /\ rank(i) <= Cardinality(I)
    BY <1>1, <2>1, FS_Subset
  <2>3. rank(i) \in Nat /\ rank(i) # 0
    BY <2>1, <2>2, FS_CardinalityType, FS_EmptySet
  <2> QED
    BY <2>1, <2>2, <2>3
<1>3. ASSUME NEW i \in I, NEW k \in I, i < k PROVE rank(i) # rank(k)
  <2>1. below(i) \in SUBSET below(k) /\ k \in below(k) /\ k \notin below(i)
    <3>1. i \in Nat /\ k \in Nat /\ \A j \in I : j \in Nat
      OBVIOUS
    <3>2. k <= k /\ ~(k <= i) /\ \A j \in I : j <= i => j <= k
      BY <1>3, <3>1
    <3> QED
      BY <3>2
  <2> HIDE DEF below
  <2>2. IsFiniteSet(below(k))
    BY <1>2
  <2> QED
    BY <2>1, <2>2, FS_Subset
<1>4. \A i, k \in I : rank(i) = rank(k) => i = k
  <2> SUFFICES ASSUME NEW i \in I, NEW k \in I, i # k PROVE rank(i) # rank(k)
    OBVIOUS
  <2>1. i < k \/ k < i
    OBVIOUS
  <2> HIDE DEF rank
  <2> QED
    BY <1>3, <2>1
<1> HIDE DEF below, rank
<1> DEFINE T == 1..Cardinality(I)
           f == [i \in I |-> rank(i)]
<1>5. \A i \in I : rank(i) \in T
  BY <1>1, <1>2
<1>6. IsFiniteSet(T) /\ Cardinality(T) = Cardinality(I)
  BY <1>1, FS_Interval
<1> HIDE DEF T
<1>7. f \in Injection(I, T)
  <2>1. f \in [I -> T] /\ \A i, k \in I : f[i] = f[k] => i = k
    BY <1>4, <1>5
  <2> QED
    BY <2>1 DEF Injection, IsInjective
<1>8. f \in Surjection(I, T)
  BY <1>6, <1>7, FS_Injection
<1>9. \A m \in T : \E i \in I : rank(i) = m
  BY <1>8 DEF Surjection
<1> QED
  BY <1>1, <1>4, <1>5, <1>9 DEF T, rank, below

\* A subsequence has exactly the elements at its places, each as often.
LEMMA SubsequenceOf ==
  ASSUME NEW S, NEW q \in Seq(S), NEW I \in SUBSET DOMAIN q
  PROVE  /\ Subsequence(q, I) \in Seq(S)
         /\ \A k \in DOMAIN Subsequence(q, I) : \E i \in I : Subsequence(q, I)[k] = q[i]
         /\ \A i \in I : \E k \in DOMAIN Subsequence(q, I) : Subsequence(q, I)[k] = q[i]
         /\ (\A i, j \in DOMAIN q : q[i] = q[j] => i = j) =>
              \A i, j \in DOMAIN Subsequence(q, I) : Subsequence(q, I)[i] = Subsequence(q, I)[j] => i = j
<1> DEFINE n == Cardinality(I)
           rank(i) == Cardinality({j \in I : j <= i})
           place(k) == CHOOSE i \in I : rank(i) = k
           r == Subsequence(q, I)
<1>1. Len(q) \in Nat /\ DOMAIN q = 1..Len(q) /\ I \in SUBSET (1..Len(q)) /\ \A i \in DOMAIN q : q[i] \in S
  OBVIOUS
<1>2. /\ n \in Nat /\ \A i \in I : rank(i) \in 1..n
      /\ \A i, k \in I : rank(i) = rank(k) => i = k
      /\ \A m \in 1..n : \E i \in I : rank(i) = m
  BY <1>1, Ranks
<1>3. r = [k \in 1..n |-> q[place(k)]]
  BY DEF Subsequence
<1> HIDE DEF n, rank, r
<1>4. \A k \in 1..n : place(k) \in I /\ rank(place(k)) = k
  BY <1>2
<1>5. \A i \in I : place(rank(i)) = i
  BY <1>2
<1> HIDE DEF place
<1>6. \A k \in 1..n : r[k] = q[place(k)] /\ q[place(k)] \in S
  BY <1>1, <1>3, <1>4
<1>7. DOMAIN r = 1..n /\ r \in Seq(S)
  <2>1. r \in [1..n -> S]
    BY <1>3, <1>6
  <2> QED
    BY <1>2, <2>1
<1>8. \A k \in 1..n : \E i \in I : r[k] = q[i]
  BY <1>4, <1>6
<1>9. ASSUME NEW i \in I PROVE \E k \in 1..n : r[k] = q[i]
  <2>1. rank(i) \in 1..n /\ r[rank(i)] = q[i]
    BY <1>2, <1>5, <1>6
  <2> QED
    BY <2>1
<1>10. ASSUME \A i, j \in DOMAIN q : q[i] = q[j] => i = j, NEW i \in 1..n, NEW j \in 1..n, r[i] = r[j]
       PROVE  i = j
  <2>1. place(i) = place(j)
    BY <1>4, <1>6, <1>10
  <2> QED
    BY <1>4, <2>1
<1> QED
  BY <1>7, <1>8, <1>9, <1>10 DEF r

-----------------------------------------------------------------------------
(***************************************************************************)
(* Places and references.                                                  *)
(***************************************************************************)
LEMMA EventSets ==
  ASSUME NEW A \in SUBSET Events
  PROVE  /\ IsFiniteSet(A) /\ Cardinality(A) \in Nat
         /\ \A e \in A : Cardinality(A) > 0 /\ Cardinality(A \ {e}) = Cardinality(A) - 1
         /\ \A e \in Events \ A : Cardinality(A \cup {e}) = Cardinality(A) + 1
         /\ Cardinality(A) = 0 => A = {}
<1>1. IsFiniteSet(Events)
  BY EventsAssumption, FS_Interval DEF Events
<1>2. IsFiniteSet(A)
  BY <1>1, FS_Subset
<1>3. Cardinality(A) \in Nat /\ (Cardinality(A) = 0 <=> A = {})
  BY <1>2, FS_CardinalityType, FS_EmptySet
<1>4. \A e \in A : Cardinality(A \ {e}) = Cardinality(A) - 1
  BY <1>2, FS_RemoveElement
<1>5. \A e \in Events \ A : Cardinality(A \cup {e}) = Cardinality(A) + 1
  BY <1>2, FS_AddElement
<1> QED
  BY <1>2, <1>3, <1>4, <1>5

LEMMA OwesNat ==
  ASSUME TypeOK, WaitInv, NEW t \in Waiters
  PROVE  Owes(t) \in Nat /\ Owes(t) > 0
<1>1. N \in Nat /\ next[t] \in 0..N /\ skipped[t] \in 0..N
  BY EventsAssumption DEF TypeOK
<1> QED
  BY <1>1 DEF Owes

\* A reference is held for each place and for the waiter.
LEMMA CountNat ==
  ASSUME TypeOK, WaitInv, CountInv, NEW o \in Objects
  PROVE  /\ Places(o) \in SUBSET Events /\ Cardinality(Places(o)) \in Nat
         /\ RefCount[o] \in Nat /\ RefCount[o] >= Cardinality(Places(o))
         /\ \A t \in Waiters : cur[t] = o => RefCount[o] > Cardinality(Places(o))
         /\ RefCount[o] = 0 => Places(o) = {}
<1>1. Places(o) \in SUBSET Events
  BY DEF Places
<1>2. Cardinality(Places(o)) \in Nat /\ (Cardinality(Places(o)) = 0 => Places(o) = {})
  BY <1>1, EventSets
<1>3. RefCount[o] \in Nat
  BY EventsAssumption DEF TypeOK
<1>4. \A t \in Waiters : cur[t] = o => RefCount[o] > Cardinality(Places(o))
  BY <1>2, OwesNat DEF CountInv
<1>5. RefCount[o] >= Cardinality(Places(o))
  <2>1. CASE \E t \in Waiters : cur[t] = o
    BY <1>2, <1>3, <1>4, <2>1
  <2>2. CASE \A t \in Waiters : cur[t] # o
    BY <1>2, <1>3, <2>2 DEF CountInv
  <2> QED
    BY <2>1, <2>2
<1> QED
  BY <1>1, <1>2, <1>3, <1>4, <1>5

\* Who is setting e is one thread.
LEMMA OneSetter ==
  ASSUME TypeOK, OwnerInv, NEW e \in Events
  PROVE  /\ \A s, r \in Setters : event[s] = e /\ event[r] = e => s = r
         /\ Owner[e] = NoSetter <=> \A s \in Setters : event[s] # e
<1>1. Owner[e] \in Setters \cup {NoSetter} /\ NoSetter \notin Setters
  BY EventsAssumption DEF TypeOK
<1> QED
  BY <1>1 DEF OwnerInv

\* RemoveExpiredWaitHelper over the list of an event that nobody is setting.
LEMMA Purges ==
  ASSUME EventsInv, NEW e \in Events, Owner[e] = NoSetter
  PROVE  /\ Live(e) \in Seq(Objects)
         /\ \A i, j \in DOMAIN Live(e) : Live(e)[i] = Live(e)[j] => i = j
         /\ \A o \in Objects :
              /\ HoldsAt(o, e) <=> \E i \in DOMAIN RegisteredWaits[e] : RegisteredWaits[e][i] = o
              /\ (\E i \in DOMAIN Live(e) : Live(e)[i] = o) <=> HoldsAt(o, e) /\ StillWaiting[o]
              /\ Purged(e)[o] = IF HoldsAt(o, e) /\ ~StillWaiting[o] THEN RefCount[o] - 1 ELSE RefCount[o]
<1> DEFINE q == RegisteredWaits[e]
           I == {i \in DOMAIN q : StillWaiting[q[i]]}
<1>1. q \in Seq(Objects) /\ \A i, j \in DOMAIN q : q[i] = q[j] => i = j
  BY DEF EventsInv, TypeOK, ListInv
<1>2. Live(e) = Subsequence(q, I) /\ I \in SUBSET DOMAIN q
  BY DEF Live
<1>3. \A i \in DOMAIN q : i \in I <=> StillWaiting[q[i]]
  OBVIOUS
<1> HIDE DEF I
<1>4. /\ Live(e) \in Seq(Objects)
      /\ \A k \in DOMAIN Live(e) : \E i \in I : Live(e)[k] = q[i]
      /\ \A i \in I : \E k \in DOMAIN Live(e) : Live(e)[k] = q[i]
      /\ \A i, j \in DOMAIN Live(e) : Live(e)[i] = Live(e)[j] => i = j
  <2> HIDE DEF q
  <2> QED
    BY <1>1, <1>2, SubsequenceOf
<1>5. ASSUME NEW o \in Objects PROVE HoldsAt(o, e) <=> \E i \in DOMAIN q : q[i] = o
  <2>1. \A s \in Setters : event[s] # e
    BY OneSetter DEF EventsInv
  <2> QED
    BY <2>1 DEF HoldsAt
<1>6. ASSUME NEW o \in Objects
      PROVE  (\E i \in DOMAIN Live(e) : Live(e)[i] = o) <=> HoldsAt(o, e) /\ StillWaiting[o]
  BY <1>2, <1>3, <1>4, <1>5
<1>7. ASSUME NEW o \in Objects
      PROVE  Times(o, e) = IF HoldsAt(o, e) THEN 1 ELSE 0
  <2>1. CASE HoldsAt(o, e)
    <3>1. PICK i \in DOMAIN q : q[i] = o
      BY <1>5, <2>1
    <3>2. {k \in DOMAIN q : q[k] = o} = {i}
      BY <1>1, <3>1
    <3> QED
      BY <2>1, <3>2, FS_Singleton DEF Times
  <2>2. CASE ~HoldsAt(o, e)
    <3>1. {k \in DOMAIN q : q[k] = o} = {}
      BY <1>5, <2>2
    <3> QED
      BY <2>2, <3>1, FS_EmptySet DEF Times
  <2> QED
    BY <2>1, <2>2
<1>8. ASSUME NEW o \in Objects
      PROVE  Purged(e)[o] = IF HoldsAt(o, e) /\ ~StillWaiting[o] THEN RefCount[o] - 1 ELSE RefCount[o]
  <2>1. RefCount[o] \in Int
    BY EventsAssumption DEF EventsInv, TypeOK
  <2>2. Purged(e)[o] = IF StillWaiting[o] THEN RefCount[o] ELSE RefCount[o] - Times(o, e)
    BY DEF Purged
  <2> QED
    BY <1>7, <2>1, <2>2
<1> QED
  BY <1>4, <1>5, <1>6, <1>8

\* The entry a SetEvent has come to.
LEMMA HereHeld ==
  ASSUME EventsInv, NEW s \in Setters, event[s] # 0, pos[s] <= Len(RegisteredWaits[event[s]])
  PROVE  /\ event[s] \in Events /\ pos[s] \in DOMAIN RegisteredWaits[event[s]] /\ pos[s] >= 1
         /\ Here(s) \in Objects /\ HoldsAt(Here(s), event[s]) /\ RefCount[Here(s)] > 0
<1>1. event[s] \in Events /\ RegisteredWaits[event[s]] \in Seq(Objects) /\ pos[s] \in Nat /\ pos[s] >= 1
  <2>1. event[s] \in 0..N /\ N \in Nat /\ RegisteredWaits \in [Events -> Seq(Objects)] /\ pos[s] \in Nat
    BY EventsAssumption DEF EventsInv, TypeOK
  <2>2. event[s] \in Events
    BY <2>1 DEF Events
  <2>3. pos[s] \in 1..(Len(RegisteredWaits[event[s]]) + 1)
    BY DEF EventsInv, ScanInv
  <2> QED
    BY <2>1, <2>2, <2>3
<1>2. pos[s] \in DOMAIN RegisteredWaits[event[s]] /\ Here(s) \in Objects
  BY <1>1 DEF Here
<1>3. HoldsAt(Here(s), event[s])
  <2>1. \A r \in Setters : event[r] = event[s] => r = s
    BY <1>1, OneSetter DEF EventsInv
  <2> QED
    BY <1>1, <1>2, <2>1 DEF HoldsAt, Here
<1>4. RefCount[Here(s)] > 0
  <2>1. event[s] \in Places(Here(s))
    BY <1>1, <1>3 DEF Places
  <2>2. RefCount[Here(s)] \in Nat /\ RefCount[Here(s)] # 0
    BY <1>2, <2>1, CountNat DEF EventsInv
  <2> QED
    BY <2>2
<1> QED
  BY <1>1, <1>2, <1>3, <1>4

\* The lists that are being gone through stay as they are.
LEMMA ScanSame ==
  ASSUME EventsInv, UNCHANGED svars,
         \A s \in Setters : event[s] # 0 =>
           /\ RegisteredWaits'[event[s]] = RegisteredWaits[event[s]]
           /\ event[s] \in Manual => State'[event[s]] = State[event[s]]
           /\ spc[s] \in {"skip", "signal"} => ~StillWaiting'[Here(s)]
  PROVE  ScanInv'
<1>1. \A s \in Setters : event[s] # 0 => Here(s)' = Here(s)
  BY DEF Here, svars
<1> QED
  BY <1>1 DEF EventsInv, ScanInv, svars

LEMMA PlacesSame ==
  ASSUME UNCHANGED <<RegisteredWaits, event, pos>>
  PROVE  \A o \in Objects : Places(o)' = Places(o)
<1>1. \A o \in Objects, e \in Events : HoldsAt(o, e)' <=> HoldsAt(o, e)
  BY DEF HoldsAt
<1> QED
  BY <1>1 DEF Places

LEMMA Pc ==
  ASSUME EventsInv, NEW t \in Waiters
  PROVE  /\ wpc[t] \in {"idle", "register", "blocked", "unref"}
         /\ wpc[t] # "idle" => cur[t] \in Objects /\ cur[t] # NoObject
         /\ wpc[t] = "idle" => cur[t] = NoObject
         /\ N \in Nat \ {0} /\ NoObject \notin Objects
BY EventsAssumption DEF EventsInv, CurInv, TypeOK

-----------------------------------------------------------------------------
(***************************************************************************)
(* The steps of a wait.                                                    *)
(***************************************************************************)
LEMMA BeginInv ==
  ASSUME EventsInv, NEW t \in Waiters, WaitBegin(t)
  PROVE  EventsInv'
<1> USE DEF evars, svars
<1>0. /\ TypeOK /\ OwnerInv /\ ScanInv /\ ListInv /\ CurInv /\ WaitInv /\ UndecidedInv /\ AheadInv /\ CountInv
      /\ N \in Nat \ {0} /\ NoObject \notin Objects /\ NoWaiter \notin Waiters
  BY EventsAssumption DEF EventsInv
<1>1. PICK o \in Objects :
        /\ RefCount[o] = 0
        /\ cur' = [cur EXCEPT ![t] = o] /\ FiredEvent' = [FiredEvent EXCEPT ![o] = 0]
        /\ StillWaiting' = [StillWaiting EXCEPT ![o] = TRUE]
        /\ RefCount' = [RefCount EXCEPT ![o] = 1 + N]
        /\ Holder' = [Holder EXCEPT ![o] = t] /\ signalled' = [signalled EXCEPT ![o] = FALSE]
  BY DEF WaitBegin
<1>2. /\ wpc[t] = "idle" /\ next' = [next EXCEPT ![t] = 1] /\ skipped' = [skipped EXCEPT ![t] = 0]
      /\ wpc' = [wpc EXCEPT ![t] = "register"] /\ waits' = waits + 1
      /\ UNCHANGED <<State, Owner, RegisteredWaits, waitIndex, spc, event, pos, sets, resets>>
  BY DEF WaitBegin
<1>3. \A x \in Objects : Places(x)' = Places(x)
  BY <1>2, PlacesSame
<1>4. Places(o) = {} /\ \A u \in Waiters : cur[u] # o
  <2>1. Places(o) = {}
    BY <1>0, <1>1, CountNat
  <2>2. \A u \in Waiters : cur[u] # o
    BY <1>0, <1>1, CountNat
  <2> QED
    BY <2>1, <2>2
<1>5. /\ wpc'[t] = "register" /\ cur'[t] = o /\ next'[t] = 1 /\ skipped'[t] = 0
      /\ \A u \in Waiters : u # t =>
           wpc'[u] = wpc[u] /\ cur'[u] = cur[u] /\ next'[u] = next[u] /\ skipped'[u] = skipped[u]
      /\ FiredEvent'[o] = 0 /\ StillWaiting'[o] /\ RefCount'[o] = 1 + N /\ Holder'[o] = t
      /\ \A x \in Objects : x # o =>
           /\ FiredEvent'[x] = FiredEvent[x] /\ StillWaiting'[x] = StillWaiting[x]
           /\ RefCount'[x] = RefCount[x] /\ Holder'[x] = Holder[x]
  BY <1>0, <1>1, <1>2 DEF TypeOK
<1>6. \A u \in Waiters : wpc[u] # "idle" => u # t /\ cur[u] \in Objects /\ cur[u] # o
  BY <1>2, <1>4, Pc
<1>7. TypeOK'
  BY <1>0, <1>1, <1>2 DEF TypeOK
<1>8. OwnerInv' /\ ListInv'
  BY <1>0, <1>2 DEF OwnerInv, ListInv
<1>9. ScanInv'
  <2>1. ASSUME NEW s \in Setters, event[s] # 0, spc[s] \in {"skip", "signal"} PROVE ~StillWaiting'[Here(s)]
    <3>1. pos[s] <= Len(RegisteredWaits[event[s]]) /\ ~StillWaiting[Here(s)]
      BY <1>0, <2>1 DEF ScanInv
    <3>2. Here(s) \in Objects /\ Here(s) # o
      BY <1>1, <2>1, <3>1, HereHeld
    <3> QED
      BY <1>5, <3>1, <3>2
  <2> QED
    BY <1>2, <2>1, ScanSame
<1>10. CurInv'
  BY <1>0, <1>4, <1>5 DEF CurInv
<1>11. WaitInv'
  <2>1. ASSUME NEW x \in Objects, StillWaiting'[x] PROVE \E u \in Waiters : cur'[u] = x
    <3>1. CASE x = o
      BY <1>5, <3>1
    <3>2. CASE x # o
      <4>1. PICK u \in Waiters : cur[u] = x
        BY <1>0, <1>5, <2>1, <3>2 DEF WaitInv
      <4>2. u # t
        BY <1>0, <1>2, <4>1, Pc
      <4> QED
        BY <1>5, <4>1, <4>2
    <3> QED
      BY <3>1, <3>2
  <2>2. ASSUME NEW u \in Waiters, u # t
        PROVE  /\ wpc'[u] = wpc[u] /\ cur'[u] = cur[u] /\ next'[u] = next[u] /\ skipped'[u] = skipped[u]
               /\ wpc[u] # "idle" => /\ StillWaiting'[cur[u]] = StillWaiting[cur[u]]
                                     /\ FiredEvent'[cur[u]] = FiredEvent[cur[u]]
                                     /\ Holder'[cur[u]] = Holder[cur[u]]
    BY <1>5, <1>6, <2>2
  <2> QED
    BY <1>0, <1>5, <2>1, <2>2 DEF WaitInv
<1>12. UndecidedInv'
  <2> SUFFICES ASSUME NEW u \in Waiters, NEW e \in Events, Undecided(u, e)'
               PROVE  /\ e \in Places(cur[u])' /\ u # t
                      /\ State[e] => e \in Manual /\ \E s \in Setters : event[s] = e
    BY <1>2, <1>5 DEF UndecidedInv
  <2>1. u # t
    BY <1>5 DEF Undecided, Events
  <2>2. Undecided(u, e) /\ cur[u] \in Objects
    BY <1>5, <1>6, <2>1 DEF Undecided
  <2> QED
    BY <1>0, <1>3, <1>5, <2>1, <2>2 DEF UndecidedInv
<1>13. AheadInv'
  BY <1>0, <1>3, <1>4, <1>5, <1>6 DEF AheadInv
<1>14. CountInv'
  <2>1. \A u \in Waiters : u # t => Owes(u)' = Owes(u)
    BY <1>5 DEF Owes
  <2>2. Cardinality(Places(o)') + Owes(t)' = RefCount'[o]
    <3>1. Places(o)' = {} /\ Cardinality({}) = 0
      BY <1>3, <1>4, FS_EmptySet
    <3>2. Owes(t)' = 2 + N - 1 /\ N \in Nat
      BY <1>0, <1>5 DEF Owes
    <3> QED
      BY <1>5, <3>1, <3>2
  <2>3. ASSUME NEW x \in Objects, x # o, NEW u \in Waiters, cur'[u] = x
        PROVE  RefCount'[x] = Cardinality(Places(x)') + Owes(u)'
    BY <1>0, <1>3, <1>5, <2>1, <2>3 DEF CountInv
  <2>4. ASSUME NEW x \in Objects, x # o, \A u \in Waiters : cur'[u] # x
        PROVE  RefCount'[x] = Cardinality(Places(x)')
    <3>1. \A u \in Waiters : cur[u] # x
      BY <1>0, <1>2, <1>5, <2>4, Pc
    <3> QED
      BY <1>0, <1>3, <1>5, <2>4, <3>1 DEF CountInv
  <2>5. \A u \in Waiters : cur'[u] = o => u = t
    BY <1>4, <1>5
  <2>6. \A x \in Objects : /\ \A u \in Waiters : cur'[u] = x => RefCount'[x] = Cardinality(Places(x)') + Owes(u)'
                           /\ (\A u \in Waiters : cur'[u] # x) => RefCount'[x] = Cardinality(Places(x)')
    BY <1>5, <2>2, <2>3, <2>4, <2>5
  <2> QED
    BY <2>6 DEF CountInv
<1> QED
  BY <1>7, <1>8, <1>9, <1>10, <1>11, <1>12, <1>13, <1>14 DEF EventsInv

\* What a purge does to the lists, the places and the counts.
Dropped(x, e) ==
  /\ ~StillWaiting[x] /\ e \in Places(x) /\ Places(x)' = Places(x) \ {e}
  /\ RefCount'[x] = RefCount[x] - 1
Kept(x) == Places(x)' = Places(x) /\ RefCount'[x] = RefCount[x]

LEMMA PurgeStep ==
  ASSUME EventsInv, NEW e \in Events, Owner[e] = NoSetter,
         RegisteredWaits' = [RegisteredWaits EXCEPT ![e] = Live(e)], RefCount' = Purged(e),
         UNCHANGED <<event, pos>>
  PROVE  /\ RegisteredWaits' \in [Events -> Seq(Objects)] /\ ListInv'
         /\ \A d \in Events : d # e => RegisteredWaits'[d] = RegisteredWaits[d]
         /\ \A x \in Objects : Kept(x) \/ Dropped(x, e)
<1>1. RegisteredWaits \in [Events -> Seq(Objects)] /\ ListInv
  BY DEF EventsInv, TypeOK
<1>2. /\ Live(e) \in Seq(Objects)
      /\ \A i, j \in DOMAIN Live(e) : Live(e)[i] = Live(e)[j] => i = j
      /\ \A x \in Objects :
           /\ (\E i \in DOMAIN Live(e) : Live(e)[i] = x) <=> HoldsAt(x, e) /\ StillWaiting[x]
           /\ Purged(e)[x] = IF HoldsAt(x, e) /\ ~StillWaiting[x] THEN RefCount[x] - 1 ELSE RefCount[x]
  BY Purges
<1> DEFINE L == Live(e)
<1>3. RegisteredWaits'[e] = L /\ \A d \in Events : d # e => RegisteredWaits'[d] = RegisteredWaits[d]
  BY <1>1
<1> HIDE DEF L
<1>4. RegisteredWaits' \in [Events -> Seq(Objects)]
  BY <1>1, <1>2
<1>5. ListInv'
  BY <1>1, <1>2, <1>3 DEF ListInv, L
<1>6. \A s \in Setters : event[s] # e
  BY OneSetter DEF EventsInv
<1>7. ASSUME NEW x \in Objects PROVE Kept(x) \/ Dropped(x, e)
  <2>1. \A d \in Events : d # e => (HoldsAt(x, d)' <=> HoldsAt(x, d))
    BY <1>3 DEF HoldsAt
  <2>2. HoldsAt(x, e)' <=> HoldsAt(x, e) /\ StillWaiting[x]
    BY <1>2, <1>3, <1>6 DEF HoldsAt, L
  <2>3. CASE HoldsAt(x, e) /\ ~StillWaiting[x]
    <3>1. e \in Places(x) /\ Places(x)' = Places(x) \ {e}
      BY <2>1, <2>2, <2>3 DEF Places
    <3> QED
      BY <1>2, <2>3, <3>1 DEF Dropped
  <2>4. CASE ~(HoldsAt(x, e) /\ ~StillWaiting[x])
    <3>1. Places(x)' = Places(x)
      BY <2>1, <2>2, <2>4 DEF Places
    <3> QED
      BY <1>2, <2>4, <3>1 DEF Kept
  <2> QED
    BY <2>3, <2>4
<1> QED
  BY <1>3, <1>4, <1>5, <1>7

\* Dropping keeps the balance of counts and places.
LEMMA Balance ==
  ASSUME EventsInv, NEW e \in Events, NEW x \in Objects, Kept(x) \/ Dropped(x, e)
  PROVE  /\ RefCount'[x] = RefCount[x] - Cardinality(Places(x)) + Cardinality(Places(x)')
         /\ RefCount'[x] \in 0..(N + 1)
<1>1. /\ RefCount[x] \in Nat /\ Places(x) \in SUBSET Events /\ Cardinality(Places(x)) \in Nat
      /\ RefCount[x] \in 0..(N + 1) /\ N \in Nat /\ RefCount[x] >= Cardinality(Places(x))
  BY CountNat, EventsAssumption DEF EventsInv, TypeOK
<1>2. CASE Kept(x)
  BY <1>1, <1>2 DEF Kept
<1>3. CASE Dropped(x, e)
  <2>1. Cardinality(Places(x)) > 0 /\ Cardinality(Places(x) \ {e}) = Cardinality(Places(x)) - 1
    BY <1>1, <1>3, EventSets DEF Dropped
  <2> QED
    BY <1>1, <1>3, <2>1 DEF Dropped
<1> QED
  BY <1>2, <1>3

\* Whoever waits undecided is kept, whatever else is dropped.
LEMMA UndecidedWaits ==
  ASSUME EventsInv, NEW u \in Waiters, NEW e \in Events, Undecided(u, e)
  PROVE  StillWaiting[cur[u]] /\ cur[u] \in Objects /\ wpc[u] \in {"register", "blocked"}
BY Pc DEF EventsInv, WaitInv, Undecided

\* A purge leaves the lists that are being gone through alone, and no wait goes on
\* that was over.
LEMMA ScanKept ==
  ASSUME EventsInv, UNCHANGED svars,
         \A d \in Events : Owner[d] # NoSetter => RegisteredWaits'[d] = RegisteredWaits[d],
         \A d \in Manual : State'[d] = State[d],
         \A x \in Objects : StillWaiting'[x] => StillWaiting[x]
  PROVE  ScanInv'
<1>1. ASSUME NEW s \in Setters, event[s] # 0
      PROVE  /\ RegisteredWaits'[event[s]] = RegisteredWaits[event[s]]
             /\ event[s] \in Manual => State'[event[s]] = State[event[s]]
             /\ spc[s] \in {"skip", "signal"} => ~StillWaiting'[Here(s)]
  <2>1. event[s] \in Events /\ Owner[event[s]] # NoSetter
    BY <1>1, EventsAssumption, OneSetter, SMTT(30) DEF EventsInv, TypeOK, Events
  <2>2. ASSUME spc[s] \in {"skip", "signal"} PROVE ~StillWaiting'[Here(s)]
    <3>1. pos[s] <= Len(RegisteredWaits[event[s]]) /\ ~StillWaiting[Here(s)]
      BY <1>1, <2>2 DEF EventsInv, ScanInv
    <3>2. Here(s) \in Objects
      BY <1>1, <3>1, HereHeld
    <3> QED
      BY <3>1, <3>2
  <2> QED
    BY <2>1, <2>2
<1> QED
  BY <1>1, ScanSame

LEMMA FindsInv ==
  ASSUME EventsInv, NEW t \in Waiters, WaitFinds(t)
  PROVE  EventsInv'
<1> USE DEF evars, svars
<1> DEFINE e == next[t]
           o == cur[t]
<1>0. /\ TypeOK /\ OwnerInv /\ ScanInv /\ ListInv /\ CurInv /\ WaitInv /\ UndecidedInv /\ AheadInv /\ CountInv
      /\ N \in Nat \ {0} /\ NoObject \notin Objects /\ NoWaiter \notin Waiters
  BY EventsAssumption DEF EventsInv
<1>1. /\ wpc[t] = "register" /\ State[e]
      /\ FiredEvent' = [FiredEvent EXCEPT ![o] = e]
      /\ StillWaiting' = [StillWaiting EXCEPT ![o] = FALSE]
      /\ Holder' = [Holder EXCEPT ![o] = NoWaiter]
      /\ waitIndex' = [waitIndex EXCEPT ![t] = e]
      /\ skipped' = [skipped EXCEPT ![t] = N - e + 1]
      /\ wpc' = [wpc EXCEPT ![t] = "unref"]
      /\ UNCHANGED <<Owner, signalled, cur, next, waits, spc, event, pos, sets, resets>>
  BY DEF WaitFinds, LetGo
<1>2. e \in Events /\ e \in 1..N /\ o \in Objects /\ skipped[t] = 0
  BY <1>0, <1>1, Pc DEF TypeOK, WaitInv, Events
<1>3. /\ RegisteredWaits' \in [Events -> Seq(Objects)] /\ ListInv'
      /\ \A d \in Events : Owner[d] # NoSetter => RegisteredWaits'[d] = RegisteredWaits[d]
      /\ \A x \in Objects : Kept(x) \/ Dropped(x, e)
      /\ State' \in [Events -> BOOLEAN] /\ \A d \in Events : State'[d] => State[d]
      /\ \A d \in Manual : State'[d] = State[d]
      /\ RefCount' \in [Objects -> Int]
  <2>1. CASE e \in Manual /\ UNCHANGED <<evars, RefCount>>
    <3>1. \A x \in Objects : Kept(x)
      BY <1>1, <2>1, PlacesSame DEF Kept
    <3> QED
      BY <1>0, <2>1, <3>1 DEF TypeOK, ListInv
  <2>2. CASE /\ e \in AutoReset /\ Owner[e] = NoSetter
             /\ RegisteredWaits' = [RegisteredWaits EXCEPT ![e] = Live(e)]
             /\ RefCount' = Purged(e) /\ State' = [State EXCEPT ![e] = FALSE]
    <3>1. /\ RegisteredWaits' \in [Events -> Seq(Objects)] /\ ListInv'
          /\ \A d \in Events : Owner[d] # NoSetter => RegisteredWaits'[d] = RegisteredWaits[d]
          /\ \A x \in Objects : Kept(x) \/ Dropped(x, e)
      BY <1>1, <1>2, <2>2, PurgeStep
    <3>2. State' \in [Events -> BOOLEAN] /\ (\A d \in Events : State'[d] => State[d])
          /\ \A d \in Manual : State'[d] = State[d]
      BY <1>0, <1>2, <2>2 DEF TypeOK, Manual
    <3>3. \A x \in Objects : RefCount'[x] \in Int
      BY <1>0, <3>1 DEF TypeOK, Kept, Dropped
    <3>4. DOMAIN RefCount' = Objects /\ RefCount' = [x \in Objects |-> RefCount'[x]]
      BY <2>2 DEF Purged
    <3> QED
      BY <3>1, <3>2, <3>3, <3>4
  <2> QED
    BY <2>1, <2>2 DEF WaitFinds
<1> HIDE DEF e, o
<1>4. /\ wpc'[t] = "unref" /\ skipped'[t] = N - e + 1 /\ next[t] = e /\ cur[t] = o
      /\ \A u \in Waiters : u # t => wpc'[u] = wpc[u] /\ skipped'[u] = skipped[u]
      /\ cur' = cur /\ next' = next
      /\ ~StillWaiting'[o]
      /\ \A x \in Objects : x # o =>
           FiredEvent'[x] = FiredEvent[x] /\ StillWaiting'[x] = StillWaiting[x] /\ Holder'[x] = Holder[x]
  BY <1>0, <1>1, <1>2 DEF TypeOK, e, o
<1>5. \A u \in Waiters : u # t /\ wpc[u] # "idle" => cur[u] \in Objects /\ cur[u] # o
  BY <1>0, <1>2, <1>4, Pc DEF CurInv
<1>6. \A x \in Objects : StillWaiting'[x] => StillWaiting[x] /\ Kept(x)
  BY <1>3, <1>4 DEF Dropped
<1>7. TypeOK'
  <2>1. \A x \in Objects : RefCount'[x] \in 0..(N + 1)
    BY <1>2, <1>3, Balance
  <2>2. RefCount' \in [Objects -> 0..(N + 1)]
    BY <1>3, <2>1
  <2>3. N - e + 1 \in 0..N /\ e \in 0..N
    BY <1>0, <1>2
  <2> QED
    BY <1>0, <1>1, <1>2, <1>3, <2>2, <2>3 DEF TypeOK
<1>8. OwnerInv'
  BY <1>0, <1>1 DEF OwnerInv
<1>9. ScanInv'
  BY <1>1, <1>3, <1>6, ScanKept
<1>10. CurInv'
  BY <1>0, <1>1, <1>4 DEF CurInv
<1>11. WaitInv'
  <2>1. \A x \in Objects : StillWaiting'[x] => \E u \in Waiters : cur'[u] = x
    BY <1>0, <1>4, <1>6 DEF WaitInv
  <2>2. ASSUME NEW u \in Waiters, u # t
        PROVE  /\ wpc'[u] = wpc[u] /\ skipped'[u] = skipped[u]
               /\ wpc[u] # "idle" => /\ StillWaiting'[cur[u]] = StillWaiting[cur[u]]
                                     /\ FiredEvent'[cur[u]] = FiredEvent[cur[u]]
                                     /\ Holder'[cur[u]] = Holder[cur[u]]
    BY <1>4, <1>5, <2>2
  <2> QED
    BY <1>0, <1>4, <2>1, <2>2 DEF WaitInv
<1>12. UndecidedInv'
  <2> SUFFICES ASSUME NEW u \in Waiters, NEW d \in Events, Undecided(u, d)'
               PROVE  /\ d \in Places(cur[u])'
                      /\ State'[d] => d \in Manual /\ \E s \in Setters : event[s] = d
    BY <1>1 DEF UndecidedInv
  <2>1. u # t
    BY <1>4 DEF Undecided
  <2>2. Undecided(u, d) /\ cur[u] \in Objects /\ StillWaiting[cur[u]]
    <3>1. Undecided(u, d)
      BY <1>4, <1>5, <2>1 DEF Undecided
    <3> QED
      BY <3>1, UndecidedWaits
  <2>3. Kept(cur[u])
    BY <1>3, <2>2 DEF Dropped
  <2> QED
    BY <1>0, <1>3, <1>4, <2>2, <2>3 DEF UndecidedInv, Kept
<1>13. AheadInv'
  <2>1. \A x \in Objects : Places(x)' \subseteq Places(x)
    BY <1>3 DEF Kept, Dropped
  <2> QED
    BY <1>0, <1>4, <1>5, <2>1 DEF AheadInv
<1>14. CountInv'
  <2>1. \A u \in Waiters : Owes(u)' = Owes(u)
    <3>1. Owes(t)' = 1 + (N - e + 1) /\ Owes(t) = 2 + N - e
      BY <1>1, <1>4 DEF Owes
    <3>2. Owes(t)' = Owes(t)
      BY <1>0, <1>2, <3>1
    <3> QED
      BY <1>4, <3>2 DEF Owes
  <2>2. \A x \in Objects : RefCount'[x] = RefCount[x] - Cardinality(Places(x)) + Cardinality(Places(x)')
    BY <1>2, <1>3, Balance
  <2>3. \A x \in Objects : RefCount[x] \in Nat /\ Cardinality(Places(x)) \in Nat
    BY <1>0, CountNat
  <2>4. \A x \in Objects : Cardinality(Places(x)') \in Nat
    <3>1. \A x \in Objects : Places(x)' \in SUBSET Events
      BY DEF Places
    <3> QED
      BY <3>1, EventSets
  <2>5. \A u \in Waiters : Owes(u) \in Nat
    BY <1>0, OwesNat
  <2> QED
    BY <1>0, <1>4, <2>1, <2>2, <2>3, <2>4, <2>5 DEF CountInv
<1> QED
  BY <1>3, <1>7, <1>8, <1>9, <1>10, <1>11, <1>12, <1>13, <1>14 DEF EventsInv

LEMMA RegistersInv ==
  ASSUME EventsInv, NEW t \in Waiters, WaitRegisters(t)
  PROVE  EventsInv'
<1> USE DEF evars, svars
<1>0. /\ TypeOK /\ OwnerInv /\ ScanInv /\ ListInv /\ CurInv /\ WaitInv /\ UndecidedInv /\ AheadInv /\ CountInv
      /\ N \in Nat \ {0} /\ NoObject \notin Objects /\ NoWaiter \notin Waiters
  BY EventsAssumption DEF EventsInv
<1>a. PICK e \in Events, o \in Objects : e = next[t] /\ o = cur[t]
  <2>1. next[t] \in Events /\ cur[t] \in Objects
    BY <1>0, Pc DEF WaitRegisters, TypeOK, WaitInv, Events
  <2> QED
    BY <2>1
<1> DEFINE L == Live(e)
<1>1. /\ wpc[t] = "register" /\ ~State[e] /\ Owner[e] = NoSetter
      /\ RegisteredWaits' = [RegisteredWaits EXCEPT ![e] = Append(L, o)] /\ RefCount' = Purged(e)
      /\ \/ e < N /\ next' = [next EXCEPT ![t] = e + 1] /\ wpc' = wpc /\ Holder' = Holder
         \/ ~(e < N) /\ wpc' = [wpc EXCEPT ![t] = "blocked"] /\ next' = next
            /\ Holder' = [Holder EXCEPT ![o] = NoWaiter]
      /\ UNCHANGED <<State, Owner, FiredEvent, StillWaiting, signalled, cur, skipped, waitIndex,
                     waits, spc, event, pos, sets, resets>>
  BY <1>a DEF WaitRegisters, LetGo
<1>2. /\ e \in Events /\ e \in 1..N /\ o \in Objects /\ o # NoObject /\ skipped[t] = 0
      /\ StillWaiting[o] /\ FiredEvent[o] = 0 /\ Holder[o] = t
  BY <1>0, <1>1, <1>a, Pc DEF TypeOK, WaitInv, Events
<1>3. /\ L \in Seq(Objects) /\ (\A i, j \in DOMAIN L : L[i] = L[j] => i = j)
      /\ \A x \in Objects :
           /\ (\E i \in DOMAIN L : L[i] = x) <=> HoldsAt(x, e) /\ StillWaiting[x]
           /\ RefCount'[x] = IF HoldsAt(x, e) /\ ~StillWaiting[x] THEN RefCount[x] - 1 ELSE RefCount[x]
  BY <1>1, <1>2, Purges
<1>4. e \notin Places(o) /\ ~HoldsAt(o, e)
  BY <1>0, <1>1, <1>2, <1>a DEF AheadInv, Places
<1>5. /\ RegisteredWaits'[e] = Append(L, o)
      /\ \A d \in Events : d # e => RegisteredWaits'[d] = RegisteredWaits[d]
  BY <1>0, <1>1, <1>2 DEF TypeOK
<1>6. \A s \in Setters : event[s] # e
  BY <1>0, <1>1, <1>2, OneSetter
<1> HIDE DEF L
<1>7. /\ Append(L, o) \in Seq(Objects) /\ Len(L) \in Nat /\ DOMAIN L = 1..Len(L)
      /\ DOMAIN Append(L, o) = 1..(Len(L) + 1)
      /\ Append(L, o)[Len(L) + 1] = o /\ \A i \in 1..Len(L) : Append(L, o)[i] = L[i]
  BY <1>2, <1>3
<1>8. RegisteredWaits' \in [Events -> Seq(Objects)]
  BY <1>0, <1>1, <1>7 DEF TypeOK
<1>9. ListInv'
  <2>1. \A i \in 1..Len(L) : L[i] # o
    BY <1>2, <1>3, <1>4, <1>7
  <2>2. \A i, j \in DOMAIN Append(L, o) : Append(L, o)[i] = Append(L, o)[j] => i = j
    <3> SUFFICES ASSUME NEW i \in 1..(Len(L) + 1), NEW j \in 1..(Len(L) + 1), Append(L, o)[i] = Append(L, o)[j]
                 PROVE  i = j
      BY <1>7
    <3>1. i = Len(L) + 1 \/ i \in 1..Len(L)
      BY <1>7
    <3>2. j = Len(L) + 1 \/ j \in 1..Len(L)
      BY <1>7
    <3> QED
      BY <1>3, <1>7, <2>1, <3>1, <3>2
  <2> QED
    BY <1>0, <1>5, <2>2 DEF ListInv
<1>10. \A x \in Objects, d \in Events : d # e => (HoldsAt(x, d)' <=> HoldsAt(x, d))
  BY <1>1, <1>5 DEF HoldsAt
<1>11. \A x \in Objects : HoldsAt(x, e)' <=> \E i \in DOMAIN Append(L, o) : Append(L, o)[i] = x
  BY <1>1, <1>5, <1>6 DEF HoldsAt
<1>12. Places(o)' = Places(o) \cup {e} /\ RefCount'[o] = RefCount[o]
  <2>1. HoldsAt(o, e)'
    BY <1>2, <1>7, <1>11
  <2> QED
    BY <1>2, <1>3, <1>4, <1>10, <2>1 DEF Places
<1>13. ASSUME NEW x \in Objects, x # o PROVE Kept(x) \/ Dropped(x, e)
  <2>1. HoldsAt(x, e)' <=> HoldsAt(x, e) /\ StillWaiting[x]
    <3>1. (\E i \in DOMAIN Append(L, o) : Append(L, o)[i] = x) <=> \E i \in DOMAIN L : L[i] = x
      BY <1>7, <1>13
    <3> QED
      BY <1>3, <1>11, <3>1
  <2>2. CASE HoldsAt(x, e) /\ ~StillWaiting[x]
    <3>1. e \in Places(x) /\ Places(x)' = Places(x) \ {e}
      BY <1>2, <1>10, <2>1, <2>2 DEF Places
    <3> QED
      BY <1>3, <2>2, <3>1 DEF Dropped
  <2>3. CASE ~(HoldsAt(x, e) /\ ~StillWaiting[x])
    <3>1. Places(x)' = Places(x)
      BY <1>2, <1>10, <2>1, <2>3 DEF Places
    <3> QED
      BY <1>3, <2>3, <3>1 DEF Kept
  <2> QED
    BY <2>2, <2>3
<1>14. /\ next[t] = e /\ cur[t] = o /\ cur' = cur /\ skipped' = skipped /\ StillWaiting' = StillWaiting
       /\ \/ e < N /\ wpc'[t] = "register" /\ next'[t] = e + 1 /\ Holder'[o] = t
          \/ e = N /\ wpc'[t] = "blocked" /\ next'[t] = e
       /\ \A u \in Waiters : u # t => wpc'[u] = wpc[u] /\ next'[u] = next[u]
       /\ \A x \in Objects : x # o => Holder'[x] = Holder[x]
  <2>1. next[t] = e /\ cur[t] = o /\ cur' = cur /\ skipped' = skipped /\ StillWaiting' = StillWaiting
    BY <1>1, <1>a
  <2>2. CASE e < N
    BY <1>0, <1>1, <1>2, <2>1, <2>2 DEF TypeOK
  <2>3. CASE ~(e < N)
    BY <1>0, <1>1, <1>2, <2>1, <2>3 DEF TypeOK
  <2> QED
    BY <2>1, <2>2, <2>3
<1>15. \A u \in Waiters : u # t /\ wpc[u] # "idle" => cur[u] \in Objects /\ cur[u] # o
  BY <1>0, <1>2, <1>14, Pc DEF CurInv
<1>16. TypeOK'
  <2>1. \A x \in Objects : RefCount'[x] \in 0..(N + 1)
    <3>1. RefCount'[o] \in 0..(N + 1)
      BY <1>0, <1>2, <1>12 DEF TypeOK
    <3> QED
      BY <1>2, <1>13, <3>1, Balance
  <2>2. RefCount' = [x \in Objects |-> RefCount'[x]]
    BY <1>1 DEF Purged
  <2>3. RefCount' \in [Objects -> 0..(N + 1)]
    BY <2>1, <2>2
  <2>4. e < N => e + 1 \in 0..N
    BY <1>0, <1>2
  <2> QED
    <3>1. /\ next' \in [Waiters -> 0..N] /\ wpc' \in [Waiters -> {"idle", "register", "blocked", "unref"}]
          /\ Holder' \in [Objects -> Waiters \cup {NoWaiter}]
      <4>1. CASE e < N
        <5>1. next' = [next EXCEPT ![t] = e + 1] /\ wpc' = wpc /\ Holder' = Holder
          BY <1>1, <4>1
        <5>2. next \in [Waiters -> 0..N] /\ e + 1 \in 0..N
          BY <1>0, <2>4, <4>1 DEF TypeOK
        <5>3. next' \in [Waiters -> 0..N]
          BY <5>1, <5>2
        <5> QED
          BY <1>0, <5>1, <5>3 DEF TypeOK
      <4>2. CASE ~(e < N)
        BY <1>0, <1>1, <1>2, <4>2 DEF TypeOK
      <4> QED
        BY <4>1, <4>2
    <3> QED
      BY <1>0, <1>1, <1>8, <2>3, <3>1 DEF TypeOK
<1>17. OwnerInv' /\ CurInv'
  <2>1. OwnerInv'
    BY <1>0, <1>1 DEF OwnerInv
  <2>2. CurInv'
    BY <1>0, <1>1, <1>14 DEF CurInv
  <2> QED
    BY <2>1, <2>2
<1>18. ScanInv'
  <2>1. \A d \in Events : Owner[d] # NoSetter => RegisteredWaits'[d] = RegisteredWaits[d]
    BY <1>1, <1>5
  <2> QED
    BY <1>1, <2>1, ScanKept DEF Manual
<1>19. WaitInv'
  <2>1. \A x \in Objects : StillWaiting'[x] => \E u \in Waiters : cur'[u] = x
    BY <1>0, <1>14 DEF WaitInv
  <2>2. \A u \in Waiters : u # t /\ wpc[u] # "idle" => Holder'[cur[u]] = Holder[cur[u]]
    BY <1>14, <1>15
  <2>3. wpc'[t] = "register" => next'[t] # 0 /\ Holder'[o] = t
    BY <1>0, <1>2, <1>14
  <2> QED
    BY <1>0, <1>1, <1>2, <1>14, <2>1, <2>2, <2>3 DEF WaitInv
<1>20. UndecidedInv'
  <2> SUFFICES ASSUME NEW u \in Waiters, NEW d \in Events, Undecided(u, d)'
               PROVE  /\ d \in Places(cur[u])'
                      /\ State[d] => d \in Manual /\ \E s \in Setters : event[s] = d
    BY <1>1 DEF UndecidedInv
  <2>1. CASE u # t
    <3>1. Undecided(u, d)
      BY <1>14, <2>1 DEF Undecided
    <3>2. cur[u] \in Objects /\ StillWaiting[cur[u]] /\ cur[u] # o
      BY <1>15, <2>1, <3>1, UndecidedWaits
    <3>3. Kept(cur[u])
      BY <1>13, <3>2 DEF Dropped
    <3> QED
      BY <1>0, <3>1, <3>3 DEF UndecidedInv, Kept
  <2>2. CASE u = t /\ d = e
    BY <1>1, <1>12, <1>14, <2>2
  <2>3. CASE u = t /\ d # e
    <3>1. d < e
      BY <1>0, <1>2, <1>14, <2>3 DEF Undecided, Events
    <3>2. Undecided(t, d)
      BY <1>1, <1>14, <3>1 DEF Undecided
    <3> QED
      BY <1>0, <1>12, <1>14, <2>3, <3>2 DEF UndecidedInv
  <2> QED
    BY <2>1, <2>2, <2>3
<1>21. AheadInv'
  <2> SUFFICES ASSUME NEW u \in Waiters, NEW d \in Events, wpc'[u] = "register", d >= next'[u]
               PROVE  d \notin Places(cur[u])'
    BY <1>1 DEF AheadInv
  <2>1. CASE u # t
    <3>1. Kept(cur[u]) \/ Dropped(cur[u], e)
      BY <1>13, <1>14, <1>15, <2>1
    <3> QED
      BY <1>0, <1>14, <2>1, <3>1 DEF AheadInv, Kept, Dropped
  <2>2. CASE u = t
    <3>1. d >= e /\ d # e
      BY <1>0, <1>2, <1>14, <2>2 DEF Events
    <3> QED
      BY <1>0, <1>1, <1>12, <1>14, <2>2, <3>1 DEF AheadInv
  <2> QED
    BY <2>1, <2>2
<1>22. CountInv'
  <2>1. \A u \in Waiters : u # t => Owes(u)' = Owes(u)
    BY <1>14 DEF Owes
  <2>2. Owes(t)' = Owes(t) - 1
    <3>1. Owes(t) = 2 + N - e
      BY <1>1, <1>14 DEF Owes
    <3>2. CASE e < N
      BY <1>0, <1>2, <1>14, <3>1, <3>2 DEF Owes
    <3>3. CASE e = N
      BY <1>0, <1>2, <1>14, <3>1, <3>3 DEF Owes
    <3> QED
      BY <1>14, <3>2, <3>3
  <2>3. \A x \in Objects : RefCount[x] \in Nat /\ Cardinality(Places(x)) \in Nat
    BY <1>0, CountNat
  <2>4. \A x \in Objects : Cardinality(Places(x)') \in Nat
    <3>1. \A x \in Objects : Places(x)' \in SUBSET Events
      BY DEF Places
    <3> QED
      BY <3>1, EventSets
  <2>5. \A u \in Waiters : Owes(u) \in Nat
    BY <1>0, OwesNat
  <2>6. Cardinality(Places(o)') = Cardinality(Places(o)) + 1
    <3>1. Places(o) \in SUBSET Events
      BY DEF Places
    <3> QED
      BY <1>2, <1>4, <1>12, <3>1, EventSets
  <2>7. \A x \in Objects : x # o =>
          RefCount'[x] = RefCount[x] - Cardinality(Places(x)) + Cardinality(Places(x)')
    BY <1>2, <1>13, Balance
  <2>8. RefCount'[o] = Cardinality(Places(o)') + Owes(t)'
    BY <1>0, <1>2, <1>12, <1>14, <2>2, <2>3, <2>5, <2>6 DEF CountInv
  <2>9. \A u \in Waiters : cur[u] = o => u = t
    BY <1>0, <1>2, <1>14 DEF CurInv
  <2>10. ASSUME NEW x \in Objects, x # o
         PROVE  /\ \A u \in Waiters : cur[u] = x => RefCount'[x] = Cardinality(Places(x)') + Owes(u)'
                /\ (\A u \in Waiters : cur[u] # x) => RefCount'[x] = Cardinality(Places(x)')
    BY <1>0, <1>14, <2>1, <2>3, <2>4, <2>5, <2>7, <2>10 DEF CountInv
  <2> QED
    BY <1>14, <2>8, <2>9, <2>10 DEF CountInv
<1> QED
  BY <1>9, <1>16, <1>17, <1>18, <1>19, <1>20, <1>21, <1>22 DEF EventsInv

LEMMA WakesInv ==
  ASSUME EventsInv, NEW t \in Waiters, WaitWakes(t)
  PROVE  EventsInv'
<1> USE DEF evars, svars
<1>0. /\ TypeOK /\ OwnerInv /\ ScanInv /\ ListInv /\ CurInv /\ WaitInv /\ UndecidedInv /\ AheadInv /\ CountInv
      /\ N \in Nat \ {0} /\ NoObject \notin Objects
  BY EventsAssumption DEF EventsInv
<1>1. /\ wpc[t] = "blocked" /\ FiredEvent[cur[t]] # 0
      /\ waitIndex' = [waitIndex EXCEPT ![t] = FiredEvent[cur[t]]]
      /\ StillWaiting' = [StillWaiting EXCEPT ![cur[t]] = FALSE]
      /\ wpc' = [wpc EXCEPT ![t] = "unref"]
      /\ UNCHANGED <<State, Owner, RegisteredWaits, FiredEvent, RefCount, Holder, signalled, cur, next,
                     skipped, waits, spc, event, pos, sets, resets>>
  BY DEF WaitWakes
<1>2. cur[t] \in Objects /\ skipped[t] = 0 /\ ~StillWaiting[cur[t]]
  BY <1>0, <1>1, Pc DEF WaitInv
<1>3. StillWaiting' = StillWaiting
  BY <1>0, <1>1, <1>2 DEF TypeOK
<1>4. wpc'[t] = "unref" /\ \A u \in Waiters : u # t => wpc'[u] = wpc[u]
  BY <1>0, <1>1 DEF TypeOK
<1>5. \A x \in Objects : Places(x)' = Places(x)
  BY <1>1, PlacesSame
<1>6. TypeOK'
  BY <1>0, <1>1, <1>2, <1>3 DEF TypeOK
<1>7. OwnerInv' /\ ListInv' /\ CurInv'
  BY <1>0, <1>1, <1>4 DEF OwnerInv, ListInv, CurInv
<1>8. ScanInv'
  BY <1>1, <1>3, ScanKept
<1>9. WaitInv'
  BY <1>0, <1>1, <1>2, <1>3, <1>4 DEF WaitInv
<1>10. UndecidedInv'
  <2> SUFFICES ASSUME NEW u \in Waiters, NEW d \in Events, Undecided(u, d)'
               PROVE  /\ d \in Places(cur[u])'
                      /\ State[d] => d \in Manual /\ \E s \in Setters : event[s] = d
    BY <1>1 DEF UndecidedInv
  <2>1. Undecided(u, d) /\ cur[u] \in Objects
    <3>1. Undecided(u, d)
      BY <1>1, <1>3, <1>4 DEF Undecided
    <3> QED
      BY <3>1, UndecidedWaits
  <2> QED
    BY <1>0, <1>1, <1>5, <2>1 DEF UndecidedInv
<1>11. AheadInv'
  BY <1>0, <1>1, <1>4, <1>5, Pc DEF AheadInv
<1>12. CountInv'
  <2>1. \A u \in Waiters : Owes(u)' = Owes(u)
    BY <1>1, <1>2, <1>4 DEF Owes
  <2> QED
    BY <1>0, <1>1, <1>5, <2>1 DEF CountInv
<1> QED
  BY <1>6, <1>7, <1>8, <1>9, <1>10, <1>11, <1>12 DEF EventsInv

LEMMA UnrefInv ==
  ASSUME EventsInv, NEW t \in Waiters, WaitUnref(t)
  PROVE  EventsInv'
<1> USE DEF evars, svars
<1>0. /\ TypeOK /\ OwnerInv /\ ScanInv /\ ListInv /\ CurInv /\ WaitInv /\ UndecidedInv /\ AheadInv /\ CountInv
      /\ N \in Nat \ {0} /\ NoObject \notin Objects
  BY EventsAssumption DEF EventsInv
<1>a. PICK o \in Objects : o = cur[t]
  BY Pc DEF WaitUnref
<1>1. /\ wpc[t] = "unref" /\ RefCount' = [RefCount EXCEPT ![o] = @ - (1 + skipped[t])]
      /\ wpc' = [wpc EXCEPT ![t] = "idle"] /\ cur' = [cur EXCEPT ![t] = NoObject]
      /\ UNCHANGED <<State, Owner, RegisteredWaits, FiredEvent, StillWaiting, Holder, signalled, next,
                     skipped, waitIndex, waits, spc, event, pos, sets, resets>>
  BY <1>a DEF WaitUnref, References
<1>2. ~StillWaiting[o] /\ Owes(t) = 1 + skipped[t]
  BY <1>0, <1>1, <1>a DEF WaitInv, Owes
<1>3. /\ wpc'[t] = "idle" /\ cur'[t] = NoObject
      /\ \A u \in Waiters : u # t => wpc'[u] = wpc[u] /\ cur'[u] = cur[u]
      /\ \A u \in Waiters : u # t => cur[u] # o
  BY <1>0, <1>1, <1>a DEF TypeOK, CurInv
<1>4. \A x \in Objects : Places(x)' = Places(x)
  BY <1>1, PlacesSame
<1>5. RefCount'[o] = Cardinality(Places(o)) /\ \A x \in Objects : x # o => RefCount'[x] = RefCount[x]
  <2>1. RefCount[o] = Cardinality(Places(o)) + Owes(t) /\ RefCount \in [Objects -> 0..(N + 1)]
    BY <1>0, <1>a DEF CountInv, TypeOK
  <2>2. Cardinality(Places(o)) \in Nat /\ Owes(t) \in Nat
    BY <1>0, CountNat, OwesNat
  <2> QED
    BY <1>1, <1>2, <2>1, <2>2
<1>6. TypeOK'
  <2>1. RefCount'[o] \in 0..(N + 1)
    <3>1. RefCount[o] \in 0..(N + 1) /\ Cardinality(Places(o)) \in Nat /\ Cardinality(Places(o)) <= RefCount[o]
      BY <1>0, CountNat DEF TypeOK
    <3> QED
      BY <1>0, <1>5, <3>1
  <2>2. RefCount' \in [Objects -> 0..(N + 1)]
    BY <1>0, <1>1, <1>5, <2>1 DEF TypeOK
  <2> QED
    BY <1>0, <1>1, <2>2 DEF TypeOK
<1>7. OwnerInv' /\ ListInv'
  BY <1>0, <1>1 DEF OwnerInv, ListInv
<1>8. CurInv'
  BY <1>0, <1>3 DEF CurInv
<1>9. ScanInv'
  BY <1>1, ScanKept
<1>10. WaitInv'
  <2>1. ASSUME NEW x \in Objects, StillWaiting'[x] PROVE \E u \in Waiters : cur'[u] = x
    <3>1. PICK u \in Waiters : cur[u] = x
      BY <1>0, <1>1, <2>1 DEF WaitInv
    <3>2. u # t
      BY <1>1, <1>2, <1>a, <2>1, <3>1
    <3> QED
      BY <1>3, <3>1, <3>2
  <2> QED
    BY <1>0, <1>1, <1>3, <2>1 DEF WaitInv
<1>11. UndecidedInv'
  <2> SUFFICES ASSUME NEW u \in Waiters, NEW d \in Events, Undecided(u, d)'
               PROVE  /\ d \in Places(cur[u])'
                      /\ State[d] => d \in Manual /\ \E s \in Setters : event[s] = d
    BY <1>1 DEF UndecidedInv
  <2>1. u # t /\ Undecided(u, d)
    BY <1>1, <1>3 DEF Undecided
  <2>2. cur'[u] = cur[u] /\ cur[u] \in Objects
    BY <1>3, <2>1, UndecidedWaits
  <2> QED
    BY <1>0, <1>4, <2>1, <2>2 DEF UndecidedInv
<1>12. AheadInv'
  BY <1>0, <1>1, <1>3, <1>4, Pc DEF AheadInv
<1>13. CountInv'
  <2>1. \A u \in Waiters : u # t => Owes(u)' = Owes(u)
    BY <1>1, <1>3 DEF Owes
  <2>2. \A u \in Waiters : cur'[u] # o
    BY <1>0, <1>3
  <2>3. ASSUME NEW x \in Objects, x # o
        PROVE  /\ \A u \in Waiters : cur'[u] = x => RefCount'[x] = Cardinality(Places(x)') + Owes(u)'
               /\ (\A u \in Waiters : cur'[u] # x) => RefCount'[x] = Cardinality(Places(x)')
    <3>1. \A u \in Waiters : cur'[u] = x <=> cur[u] = x
      BY <1>0, <1>3, <1>a, <2>3
    <3>2. \A u \in Waiters : cur[u] = x => u # t
      BY <1>a, <2>3
    <3> QED
      BY <1>0, <1>4, <1>5, <2>1, <2>3, <3>1, <3>2 DEF CountInv
  <2> QED
    BY <1>4, <1>5, <2>2, <2>3 DEF CountInv
<1> QED
  BY <1>6, <1>7, <1>8, <1>9, <1>10, <1>11, <1>12, <1>13 DEF EventsInv

-----------------------------------------------------------------------------
(***************************************************************************)
(* The steps of SetEvent and ResetEvent.                                   *)
(***************************************************************************)

\* What a step of a setter does to the counts, when it drops at most one place.
LEMMA CountKept ==
  ASSUME EventsInv, UNCHANGED wvars, NEW e \in Events, \A x \in Objects : Kept(x) \/ Dropped(x, e)
  PROVE  AheadInv' /\ CountInv' /\ \A x \in Objects : RefCount'[x] \in 0..(N + 1)
<1> USE DEF wvars
<1>0. CurInv /\ AheadInv /\ CountInv /\ TypeOK /\ WaitInv
  BY DEF EventsInv
<1>1. \A x \in Objects : Places(x)' \subseteq Places(x)
  BY DEF Kept, Dropped
<1>2. \A x \in Objects : /\ RefCount'[x] = RefCount[x] - Cardinality(Places(x)) + Cardinality(Places(x)')
                         /\ RefCount'[x] \in 0..(N + 1)
  BY Balance
<1>3. \A x \in Objects : RefCount[x] \in Nat /\ Cardinality(Places(x)) \in Nat
  BY <1>0, CountNat
<1>4. \A x \in Objects : Cardinality(Places(x)') \in Nat
  <2>1. \A x \in Objects : Places(x)' \in SUBSET Events
    BY DEF Places
  <2> QED
    BY <2>1, EventSets
<1>5. \A u \in Waiters : Owes(u)' = Owes(u) /\ Owes(u) \in Nat
  BY <1>0, OwesNat DEF Owes
<1>6. AheadInv'
  BY <1>0, <1>1, Pc DEF AheadInv
<1>7. CountInv'
  BY <1>0, <1>2, <1>3, <1>4, <1>5 DEF CountInv
<1> QED
  BY <1>2, <1>6, <1>7

LEMMA ResetInv ==
  ASSUME EventsInv, NEW e \in Events, ResetEvent(e)
  PROVE  EventsInv'
<1> USE DEF ovars, wvars, svars
<1>0. /\ TypeOK /\ OwnerInv /\ ScanInv /\ ListInv /\ CurInv /\ WaitInv /\ UndecidedInv /\ AheadInv /\ CountInv
  BY DEF EventsInv
<1>1. /\ \A s \in Setters : event[s] # e
      /\ State' = [State EXCEPT ![e] = FALSE] /\ resets' = resets + 1
      /\ UNCHANGED <<Owner, RegisteredWaits, FiredEvent, StillWaiting, RefCount, Holder, signalled, wpc, cur,
                     next, skipped, waitIndex, waits, spc, event, pos, sets>>
  BY DEF ResetEvent
<1>2. \A x \in Objects : Places(x)' = Places(x) /\ Kept(x)
  BY <1>1, PlacesSame DEF Kept
<1>3. \A d \in Events : (State'[d] => State[d]) /\ (d # e => State'[d] = State[d])
  BY <1>0, <1>1 DEF TypeOK
<1>4. TypeOK'
  BY <1>0, <1>1 DEF TypeOK
<1>5. OwnerInv' /\ ListInv' /\ CurInv' /\ WaitInv'
  BY <1>0, <1>1 DEF OwnerInv, ListInv, CurInv, WaitInv
<1>6. ScanInv'
  <2>1. \A s \in Setters : Here(s)' = Here(s)
    BY <1>1 DEF Here
  <2>2. \A s \in Setters : event[s] \in Manual => State'[event[s]] = State[event[s]]
    BY <1>1, <1>3 DEF Manual
  <2> QED
    BY <1>0, <1>1, <2>1, <2>2 DEF ScanInv
<1>7. UndecidedInv'
  <2>1. \A u \in Waiters, d \in Events : Undecided(u, d)' => Undecided(u, d) /\ cur[u] \in Objects
    <3>1. \A u \in Waiters, d \in Events : Undecided(u, d)' => Undecided(u, d)
      BY <1>1 DEF Undecided
    <3> QED
      BY <3>1, UndecidedWaits
  <2> QED
    BY <1>0, <1>1, <1>2, <1>3, <2>1 DEF UndecidedInv
<1>8. AheadInv' /\ CountInv'
  BY <1>1, <1>2, CountKept
<1> QED
  BY <1>4, <1>5, <1>6, <1>7, <1>8 DEF EventsInv

LEMMA LockInv ==
  ASSUME EventsInv, NEW s \in Setters, NEW e \in Events, SetLock(s, e)
  PROVE  EventsInv'
<1> USE DEF ovars, wvars
<1>0. /\ TypeOK /\ OwnerInv /\ ScanInv /\ ListInv /\ CurInv /\ WaitInv /\ UndecidedInv /\ AheadInv /\ CountInv
      /\ N \in Nat \ {0} /\ NoSetter \notin Setters
  BY EventsAssumption DEF EventsInv
<1>1. /\ spc[s] = "idle" /\ Owner[e] = NoSetter /\ sets' = sets + 1
      /\ Owner' = [Owner EXCEPT ![e] = s] /\ State' = [State EXCEPT ![e] = State[e] \/ e \in Manual]
      /\ event' = [event EXCEPT ![s] = e] /\ pos' = [pos EXCEPT ![s] = 1]
      /\ spc' = [spc EXCEPT ![s] = "scan"]
      /\ UNCHANGED <<RegisteredWaits, FiredEvent, StillWaiting, RefCount, Holder, signalled, wpc, cur,
                     next, skipped, waitIndex, waits, resets>>
  BY DEF SetLock
<1>2. /\ event[s] = 0 /\ \A r \in Setters : event[r] # e
      /\ e # 0 /\ e \in 1..N /\ e \in 0..N /\ \A d \in Events : d # 0
  BY <1>0, <1>1, OneSetter DEF OwnerInv, Events
<1>3. /\ event'[s] = e /\ pos'[s] = 1 /\ spc'[s] = "scan" /\ Owner'[e] = s
      /\ \A r \in Setters : r # s => event'[r] = event[r] /\ pos'[r] = pos[r] /\ spc'[r] = spc[r]
      /\ \A d \in Events : d # e => Owner'[d] = Owner[d] /\ State'[d] = State[d]
      /\ State'[e] = (State[e] \/ e \in Manual) /\ State[e] \in BOOLEAN
  BY <1>0, <1>1 DEF TypeOK
<1>4. \A x \in Objects : Places(x)' = Places(x) /\ Kept(x)
  <2>1. ASSUME NEW x \in Objects, NEW d \in Events, d # e PROVE HoldsAt(x, d)' <=> HoldsAt(x, d)
    <3>1. \A r \in Setters : event'[r] = d <=> event[r] = d
      BY <1>2, <1>3, <2>1
    <3>2. \A r \in Setters : event[r] = d => pos'[r] = pos[r]
      BY <1>2, <1>3, <2>1
    <3> QED
      BY <1>1, <3>1, <3>2 DEF HoldsAt
  <2>2. ASSUME NEW x \in Objects PROVE HoldsAt(x, e)' <=> HoldsAt(x, e)
    <3>1. RegisteredWaits[e] \in Seq(Objects)
      BY <1>0 DEF TypeOK
    <3>2. \A i \in DOMAIN RegisteredWaits[e] : i >= 1
      BY <3>1
    <3>3. \A r \in Setters : event'[r] = e => pos'[r] = 1
      BY <1>2, <1>3
    <3> QED
      BY <1>1, <1>2, <3>2, <3>3 DEF HoldsAt
  <2>3. \A x \in Objects : Places(x)' = Places(x)
    BY <2>1, <2>2 DEF Places
  <2> QED
    BY <1>1, <2>3 DEF Kept
<1>5. TypeOK'
  <2>1. State' \in [Events -> BOOLEAN] /\ pos' \in [Setters -> Nat] /\ event' \in [Setters -> 0..N]
        /\ Owner' \in [Events -> Setters \cup {NoSetter}]
        /\ spc' \in [Setters -> {"idle", "scan", "wlock", "skip", "signal"}] /\ sets' \in Nat
    BY <1>0, <1>1, <1>2 DEF TypeOK
  <2> QED
    BY <1>0, <1>1, <2>1 DEF TypeOK
<1>6. OwnerInv'
  <2>1. \A r \in Setters, d \in Events : Owner'[d] = r <=> event'[r] = d
    BY <1>0, <1>2, <1>3 DEF OwnerInv
  <2>2. \A r \in Setters : spc'[r] = "idle" <=> event'[r] = 0
    BY <1>0, <1>2, <1>3 DEF OwnerInv
  <2> QED
    BY <2>1, <2>2 DEF OwnerInv
<1>7. ListInv' /\ CurInv' /\ WaitInv'
  BY <1>0, <1>1 DEF ListInv, CurInv, WaitInv
<1>8. ScanInv'
  <2>1. ASSUME NEW r \in Setters, r # s, event'[r] # 0
        PROVE  /\ event'[r] = event[r] /\ pos'[r] = pos[r] /\ spc'[r] = spc[r] /\ Here(r)' = Here(r)
               /\ event[r] \in Manual => State'[event[r]] = State[event[r]]
    BY <1>1, <1>2, <1>3, <2>1 DEF Here, Manual
  <2>2. /\ Len(RegisteredWaits'[e]) \in Nat
        /\ pos'[s] \in 1..(Len(RegisteredWaits'[e]) + 1)
    <3>1. RegisteredWaits'[e] \in Seq(Objects)
      BY <1>0, <1>1 DEF TypeOK
    <3> QED
      BY <1>3, <3>1
  <2>3. e \in Manual => State'[e]
    BY <1>3
  <2> QED
    BY <1>0, <1>1, <1>3, <2>1, <2>2, <2>3 DEF ScanInv
<1>9. UndecidedInv'
  <2> SUFFICES ASSUME NEW u \in Waiters, NEW d \in Events, Undecided(u, d)'
               PROVE  /\ d \in Places(cur[u])'
                      /\ State'[d] => d \in Manual /\ \E r \in Setters : event'[r] = d
    BY <1>1 DEF UndecidedInv
  <2>1. Undecided(u, d) /\ cur[u] \in Objects
    <3>1. Undecided(u, d)
      BY <1>1 DEF Undecided
    <3> QED
      BY <3>1, UndecidedWaits
  <2>2. d \in Places(cur[u])' /\ (State[d] => d \in Manual /\ \E r \in Setters : event[r] = d)
    BY <1>0, <1>1, <1>4, <2>1 DEF UndecidedInv
  <2>3. State'[d] => d \in Manual /\ \E r \in Setters : event'[r] = d
    <3>1. CASE d = e
      BY <1>2, <1>3, <2>2, <3>1
    <3>2. CASE d # e
      BY <1>2, <1>3, <2>2, <3>2
    <3> QED
      BY <3>1, <3>2
  <2> QED
    BY <2>2, <2>3
<1>10. AheadInv' /\ CountInv'
  BY <1>1, <1>4, CountKept
<1> QED
  BY <1>5, <1>6, <1>7, <1>8, <1>9, <1>10 DEF EventsInv

\* The setter goes on to the object's mutex.
LEMMA AimsInv ==
  ASSUME EventsInv, NEW s \in Setters, SetScan(s), StillWaiting[Here(s)]
  PROVE  EventsInv'
<1> USE DEF wvars
<1>0. /\ TypeOK /\ OwnerInv /\ ScanInv /\ ListInv /\ CurInv /\ WaitInv /\ UndecidedInv /\ AheadInv /\ CountInv
      /\ N \in Nat \ {0}
  BY EventsAssumption DEF EventsInv
<1>1. /\ spc[s] = "scan" /\ pos[s] <= Len(RegisteredWaits[event[s]])
      /\ spc' = [spc EXCEPT ![s] = "wlock"]
      /\ UNCHANGED <<State, Owner, RegisteredWaits, FiredEvent, StillWaiting, RefCount, Holder, signalled,
                     wpc, cur, next, skipped, waitIndex, waits, event, pos, sets, resets>>
  BY DEF SetScan
<1>2. spc'[s] = "wlock" /\ \A r \in Setters : r # s => spc'[r] = spc[r]
  BY <1>0, <1>1 DEF TypeOK
<1>3. event[s] # 0
  BY <1>0, <1>1 DEF OwnerInv
<1>4. \A x \in Objects : Places(x)' = Places(x) /\ Kept(x)
  BY <1>1, PlacesSame DEF Kept
<1>5. TypeOK' /\ ListInv' /\ CurInv' /\ WaitInv'
  BY <1>0, <1>1 DEF TypeOK, ListInv, CurInv, WaitInv
<1>6. OwnerInv'
  BY <1>0, <1>1, <1>2, <1>3 DEF OwnerInv
<1>7. ScanInv'
  <2>1. \A r \in Setters : Here(r)' = Here(r)
    BY <1>1 DEF Here
  <2> QED
    BY <1>0, <1>1, <1>2, <2>1 DEF ScanInv
<1>8. UndecidedInv'
  <2>1. \A u \in Waiters, d \in Events : Undecided(u, d)' => Undecided(u, d) /\ cur[u] \in Objects
    <3>1. \A u \in Waiters, d \in Events : Undecided(u, d)' => Undecided(u, d)
      BY <1>1 DEF Undecided
    <3> QED
      BY <3>1, UndecidedWaits
  <2> QED
    BY <1>0, <1>1, <1>4, <2>1 DEF UndecidedInv
<1>9. AheadInv' /\ CountInv'
  <2>1. 1 \in Events
    BY <1>0 DEF Events
  <2> QED
    BY <1>1, <1>4, <2>1, CountKept
<1> QED
  BY <1>5, <1>6, <1>7, <1>8, <1>9 DEF EventsInv

\* A setter that is not idle: its event, and the entry it is at.
LEMMA Setting ==
  ASSUME EventsInv, NEW s \in Setters, spc[s] \in {"wlock", "skip", "signal"}
  PROVE  /\ event[s] # 0 /\ event[s] \in Events /\ pos[s] <= Len(RegisteredWaits[event[s]])
         /\ Here(s) \in Objects /\ HoldsAt(Here(s), event[s])
         /\ spc[s] \in {"skip", "signal"} => ~StillWaiting[Here(s)]
<1>1. event[s] # 0
  BY DEF EventsInv, OwnerInv
<1>2. pos[s] <= Len(RegisteredWaits[event[s]]) /\ (spc[s] \in {"skip", "signal"} => ~StillWaiting[Here(s)])
  BY <1>1 DEF EventsInv, ScanInv
<1> QED
  BY <1>1, <1>2, HereHeld

\* Under the object's mutex: the wait is over, or is now.
LEMMA FireInv ==
  ASSUME EventsInv, NEW s \in Setters, SetFire(s)
  PROVE  EventsInv'
<1> USE DEF evars, wvars
<1>0. /\ TypeOK /\ OwnerInv /\ ScanInv /\ ListInv /\ CurInv /\ WaitInv /\ UndecidedInv /\ AheadInv /\ CountInv
      /\ N \in Nat \ {0} /\ NoWaiter \notin Waiters
  BY EventsAssumption DEF EventsInv
<1>a. PICK e \in Events, o \in Objects : e = event[s] /\ o = Here(s)
  BY Setting DEF SetFire
<1>1. /\ spc[s] = "wlock" /\ Holder[o] = NoWaiter
      /\ UNCHANGED <<State, Owner, RegisteredWaits, RefCount, Holder, signalled,
                     wpc, cur, next, skipped, waitIndex, waits, event, pos, sets, resets>>
  BY <1>a DEF SetFire
<1>2. \/ /\ e \in AutoReset /\ ~StillWaiting[o] /\ spc' = [spc EXCEPT ![s] = "skip"]
         /\ FiredEvent' = FiredEvent /\ StillWaiting' = StillWaiting
      \/ /\ spc' = [spc EXCEPT ![s] = "signal"] /\ FiredEvent' = [FiredEvent EXCEPT ![o] = e]
         /\ StillWaiting' = [StillWaiting EXCEPT ![o] = FALSE]
  BY <1>a DEF SetFire, EndedMeanwhile
<1>3. /\ spc'[s] \in {"skip", "signal"} /\ (spc'[s] = "skip" => e \in AutoReset)
      /\ \A r \in Setters : r # s => spc'[r] = spc[r]
      /\ ~StillWaiting'[o] /\ \A x \in Objects : StillWaiting'[x] => StillWaiting[x] /\ x # o
      /\ \A x \in Objects : x # o => FiredEvent'[x] = FiredEvent[x] /\ StillWaiting'[x] = StillWaiting[x]
      /\ FiredEvent'[o] = e \/ (FiredEvent'[o] = FiredEvent[o] /\ ~StillWaiting[o])
  <2>1. CASE /\ e \in AutoReset /\ ~StillWaiting[o] /\ spc' = [spc EXCEPT ![s] = "skip"]
             /\ FiredEvent' = FiredEvent /\ StillWaiting' = StillWaiting
    BY <1>0, <2>1 DEF TypeOK
  <2>2. CASE /\ spc' = [spc EXCEPT ![s] = "signal"] /\ FiredEvent' = [FiredEvent EXCEPT ![o] = e]
             /\ StillWaiting' = [StillWaiting EXCEPT ![o] = FALSE]
    BY <1>0, <2>2 DEF TypeOK
  <2> QED
    BY <1>2, <2>1, <2>2
<1>4. \A x \in Objects : Places(x)' = Places(x) /\ Kept(x)
  BY <1>1, PlacesSame DEF Kept
<1>5. e # 0 /\ e \in 0..N
  BY <1>0 DEF Events
<1>6. TypeOK'
  <2>1. /\ spc' \in [Setters -> {"idle", "scan", "wlock", "skip", "signal"}]
        /\ FiredEvent' \in [Objects -> 0..N] /\ StillWaiting' \in [Objects -> BOOLEAN]
    <3>1. CASE spc' = [spc EXCEPT ![s] = "skip"] /\ FiredEvent' = FiredEvent /\ StillWaiting' = StillWaiting
      BY <1>0, <3>1 DEF TypeOK
    <3>2. CASE /\ spc' = [spc EXCEPT ![s] = "signal"] /\ FiredEvent' = [FiredEvent EXCEPT ![o] = e]
               /\ StillWaiting' = [StillWaiting EXCEPT ![o] = FALSE]
      BY <1>0, <1>5, <3>2 DEF TypeOK
    <3> QED
      BY <1>2, <3>1, <3>2
  <2> QED
    BY <1>0, <1>1, <2>1 DEF TypeOK
<1>7. OwnerInv' /\ ListInv' /\ CurInv'
  <2>1. OwnerInv'
    BY <1>0, <1>1, <1>3, <1>5, <1>a DEF OwnerInv
  <2> QED
    BY <1>0, <1>1, <2>1 DEF ListInv, CurInv
<1>8. ScanInv'
  <2>1. \A r \in Setters : Here(r)' = Here(r)
    BY <1>1 DEF Here
  <2>2. ASSUME NEW r \in Setters, r # s, event[r] # 0, spc[r] \in {"skip", "signal"}
        PROVE  ~StillWaiting'[Here(r)]
    BY <1>3, <2>2, Setting
  <2> QED
    BY <1>0, <1>1, <1>3, <1>a, <2>1, <2>2 DEF ScanInv
<1>9. WaitInv'
  <2>1. \A u \in Waiters : wpc[u] = "register" => cur[u] \in Objects /\ cur[u] # o
    BY <1>0, <1>1, Pc DEF WaitInv
  <2>2. \A u \in Waiters : wpc[u] = "register" =>
          FiredEvent'[cur[u]] = FiredEvent[cur[u]] /\ StillWaiting'[cur[u]] = StillWaiting[cur[u]]
    BY <1>3, <2>1
  <2>3. ASSUME NEW u \in Waiters, wpc[u] = "blocked"
        PROVE  skipped[u] = 0 /\ (StillWaiting'[cur[u]] <=> FiredEvent'[cur[u]] = 0)
    <3>1. cur[u] \in Objects /\ skipped[u] = 0 /\ (StillWaiting[cur[u]] <=> FiredEvent[cur[u]] = 0)
      BY <1>0, <2>3, Pc DEF WaitInv
    <3>2. CASE cur[u] = o
      BY <1>3, <1>5, <3>1, <3>2
    <3>3. CASE cur[u] # o
      BY <1>3, <3>1, <3>3
    <3> QED
      BY <3>1, <3>2, <3>3
  <2>4. \A u \in Waiters : wpc[u] = "unref" => ~StillWaiting'[cur[u]]
    BY <1>0, <1>3, Pc DEF WaitInv
  <2>5. \A x \in Objects : StillWaiting'[x] => \E u \in Waiters : cur[u] = x
    BY <1>0, <1>3 DEF WaitInv
  <2>6. \A u \in Waiters : wpc[u] = "register" =>
          /\ next[u] # 0 /\ skipped[u] = 0 /\ Holder[cur[u]] = u
          /\ FiredEvent'[cur[u]] = 0 /\ StillWaiting'[cur[u]]
    BY <1>0, <2>2 DEF WaitInv
  <2> QED
    BY <1>1, <2>3, <2>4, <2>5, <2>6 DEF WaitInv
<1>10. UndecidedInv'
  <2>1. \A u \in Waiters, d \in Events : Undecided(u, d)' => Undecided(u, d) /\ cur[u] \in Objects
    <3>1. \A u \in Waiters, d \in Events : Undecided(u, d)' => Undecided(u, d)
      BY <1>1, <1>3, Pc DEF Undecided
    <3> QED
      BY <3>1, UndecidedWaits
  <2> QED
    BY <1>0, <1>1, <1>4, <2>1 DEF UndecidedInv
<1>11. AheadInv' /\ CountInv'
  BY <1>1, <1>4, CountKept
<1> QED
  BY <1>6, <1>7, <1>8, <1>9, <1>10, <1>11 DEF EventsInv

\* The end of the list.
LEMMA EndInv ==
  ASSUME EventsInv, NEW s \in Setters, SetEnd(s)
  PROVE  EventsInv'
<1> USE DEF ovars, wvars
<1>0. /\ TypeOK /\ OwnerInv /\ ScanInv /\ ListInv /\ CurInv /\ WaitInv /\ UndecidedInv /\ AheadInv /\ CountInv
      /\ N \in Nat \ {0} /\ NoSetter \notin Setters
  BY EventsAssumption DEF EventsInv
<1>a. PICK e \in Events : e = event[s]
  BY <1>0 DEF SetEnd, OwnerInv, TypeOK, Events
<1>1. /\ spc[s] = "scan" /\ pos[s] > Len(RegisteredWaits[e])
      /\ State' = [State EXCEPT ![e] = TRUE] /\ RegisteredWaits' = [RegisteredWaits EXCEPT ![e] = <<>>]
      /\ Owner' = [Owner EXCEPT ![e] = NoSetter] /\ event' = [event EXCEPT ![s] = 0]
      /\ spc' = [spc EXCEPT ![s] = "idle"]
      /\ UNCHANGED <<FiredEvent, StillWaiting, RefCount, Holder, signalled, wpc, cur, next, skipped, waitIndex,
                     waits, pos, sets, resets>>
  BY <1>a DEF SetEnd, Unlock
<1>2. /\ State'[e] /\ RegisteredWaits'[e] = <<>> /\ Owner'[e] = NoSetter /\ event'[s] = 0 /\ spc'[s] = "idle"
      /\ \A d \in Events : d # e => /\ State'[d] = State[d] /\ RegisteredWaits'[d] = RegisteredWaits[d]
                                    /\ Owner'[d] = Owner[d]
      /\ \A r \in Setters : r # s => event'[r] = event[r] /\ spc'[r] = spc[r] /\ event[r] # e
      /\ \A d \in Events : d # 0
  <2>1. \A r \in Setters : r # s => event[r] # e
    BY <1>0, <1>a, OneSetter
  <2> QED
    BY <1>0, <1>1, <2>1 DEF TypeOK, Events
<1>3. \A x \in Objects : ~HoldsAt(x, e) /\ ~HoldsAt(x, e)'
  <2>1. RegisteredWaits[e] \in Seq(Objects) /\ pos[s] \in Nat
    BY <1>0 DEF TypeOK
  <2>2. \A i \in DOMAIN RegisteredWaits[e] : ~(i >= pos[s])
    BY <1>1, <2>1
  <2>3. \A x \in Objects : ~HoldsAt(x, e)
    BY <1>a, <2>2 DEF HoldsAt
  <2>4. DOMAIN RegisteredWaits'[e] = {}
    BY <1>2
  <2> QED
    BY <2>3, <2>4 DEF HoldsAt
<1>4. \A x \in Objects : Places(x)' = Places(x) /\ Kept(x)
  <2>1. ASSUME NEW x \in Objects, NEW d \in Events, d # e PROVE HoldsAt(x, d)' <=> HoldsAt(x, d)
    <3>1. \A r \in Setters : event'[r] = d <=> event[r] = d
      BY <1>2, <1>a, <2>1
    <3> QED
      BY <1>1, <1>2, <2>1, <3>1 DEF HoldsAt
  <2>2. \A x \in Objects : Places(x)' = Places(x)
    BY <1>3, <2>1 DEF Places
  <2> QED
    BY <1>1, <2>2 DEF Kept
<1>5. TypeOK'
  <2>1. /\ State' \in [Events -> BOOLEAN] /\ Owner' \in [Events -> Setters \cup {NoSetter}]
        /\ RegisteredWaits' \in [Events -> Seq(Objects)]
        /\ spc' \in [Setters -> {"idle", "scan", "wlock", "skip", "signal"}] /\ event' \in [Setters -> 0..N]
    BY <1>0, <1>1 DEF TypeOK
  <2> QED
    BY <1>0, <1>1, <2>1 DEF TypeOK
<1>6. OwnerInv'
  <2>1. \A r \in Setters, d \in Events : Owner'[d] = r <=> event'[r] = d
    <3> SUFFICES ASSUME NEW r \in Setters, NEW d \in Events PROVE Owner'[d] = r <=> event'[r] = d
      OBVIOUS
    <3>1. CASE d = e
      BY <1>0, <1>2, <3>1
    <3>2. CASE d # e
      BY <1>0, <1>2, <1>a, <3>2 DEF OwnerInv
    <3> QED
      BY <3>1, <3>2
  <2>2. \A r \in Setters : spc'[r] = "idle" <=> event'[r] = 0
    BY <1>0, <1>2 DEF OwnerInv
  <2> QED
    BY <2>1, <2>2 DEF OwnerInv
<1>7. CurInv' /\ WaitInv'
  BY <1>0, <1>1 DEF CurInv, WaitInv
<1>8. ListInv'
  <2>1. DOMAIN RegisteredWaits'[e] = {}
    BY <1>2
  <2> QED
    BY <1>0, <1>2, <2>1 DEF ListInv
<1>9. ScanInv'
  <2>1. ASSUME NEW r \in Setters, event'[r] # 0
        PROVE  /\ r # s /\ event'[r] = event[r] /\ spc'[r] = spc[r] /\ Here(r)' = Here(r)
               /\ RegisteredWaits'[event[r]] = RegisteredWaits[event[r]] /\ State'[event[r]] = State[event[r]]
    <3>1. r # s /\ event'[r] = event[r] /\ event[r] # e /\ event[r] \in Events
      BY <1>0, <1>2, <2>1 DEF TypeOK, Events
    <3> QED
      BY <1>1, <1>2, <3>1 DEF Here
  <2> QED
    BY <1>0, <1>1, <2>1, ZenonT(40) DEF ScanInv
<1>10. UndecidedInv'
  <2> SUFFICES ASSUME NEW u \in Waiters, NEW d \in Events, Undecided(u, d)'
               PROVE  /\ d \in Places(cur[u])'
                      /\ State'[d] => d \in Manual /\ \E r \in Setters : event'[r] = d
    BY <1>1 DEF UndecidedInv
  <2>1. Undecided(u, d) /\ cur[u] \in Objects
    <3>1. Undecided(u, d)
      BY <1>1 DEF Undecided
    <3> QED
      BY <3>1, UndecidedWaits
  <2>2. d \in Places(cur[u]) /\ (State[d] => d \in Manual /\ \E r \in Setters : event[r] = d)
    BY <1>0, <2>1 DEF UndecidedInv
  <2>3. d # e
    BY <1>3, <2>1, <2>2 DEF Places
  <2>4. d \in Places(cur[u])'
    BY <1>1, <1>4, <2>1, <2>2
  <2>5. \A r \in Setters : event[r] = d => event'[r] = d
    BY <1>2, <1>a, <2>3
  <2> QED
    BY <1>2, <2>2, <2>3, <2>4, <2>5
<1>11. AheadInv' /\ CountInv'
  BY <1>1, <1>4, CountKept
<1> QED
  BY <1>5, <1>6, <1>7, <1>8, <1>9, <1>10, <1>11 DEF EventsInv

\* The rest of a list without its first entry.
LEMMA WithoutFirst ==
  ASSUME NEW S, NEW q \in Seq(S), Len(q) >= 1, \A i, j \in DOMAIN q : q[i] = q[j] => i = j
  PROVE  /\ Tail(q) \in Seq(S) /\ Len(Tail(q)) = Len(q) - 1
         /\ \A i, j \in DOMAIN Tail(q) : Tail(q)[i] = Tail(q)[j] => i = j
         /\ \A x \in S : (\E i \in DOMAIN Tail(q) : Tail(q)[i] = x) <=>
                           (\E i \in DOMAIN q : q[i] = x) /\ x # q[1]
<1>1. /\ Len(q) \in Nat /\ DOMAIN q = 1..Len(q) /\ Tail(q) \in Seq(S) /\ Len(Tail(q)) = Len(q) - 1
      /\ DOMAIN Tail(q) = 1..(Len(q) - 1) /\ \A i \in 1..(Len(q) - 1) : Tail(q)[i] = q[i + 1]
  OBVIOUS
<1>2. \A i \in 1..(Len(q) - 1) : i + 1 \in DOMAIN q /\ i + 1 # 1
  BY <1>1
<1>3. \A i, j \in DOMAIN Tail(q) : Tail(q)[i] = Tail(q)[j] => i = j
  <2> SUFFICES ASSUME NEW i \in 1..(Len(q) - 1), NEW j \in 1..(Len(q) - 1), q[i + 1] = q[j + 1] PROVE i = j
    BY <1>1
  <2>1. i + 1 = j + 1
    BY <1>2
  <2> QED
    BY <2>1
<1>4. ASSUME NEW x \in S, NEW i \in 1..(Len(q) - 1), Tail(q)[i] = x
      PROVE  (\E k \in DOMAIN q : q[k] = x) /\ x # q[1]
  <2>1. q[i + 1] = x /\ i + 1 \in DOMAIN q /\ 1 \in DOMAIN q /\ i + 1 # 1
    BY <1>1, <1>2, <1>4
  <2> QED
    BY <2>1
<1>5. ASSUME NEW x \in S, NEW i \in DOMAIN q, q[i] = x, x # q[1]
      PROVE  \E k \in 1..(Len(q) - 1) : Tail(q)[k] = x
  <2>1. i # 1
    BY <1>5
  <2>2. i - 1 \in 1..(Len(q) - 1) /\ (i - 1) + 1 = i
    BY <1>1, <2>1
  <2>3. Tail(q)[i - 1] = x
    BY <1>1, <1>5, <2>2
  <2> QED
    BY <2>2, <2>3
<1> QED
  BY <1>1, <1>3, <1>4, <1>5

\* A place given back: the one the setter is at.
LEMMA GivesBack ==
  ASSUME EventsInv, NEW s \in Setters, event[s] # 0, pos[s] <= Len(RegisteredWaits[event[s]]),
         ~StillWaiting[Here(s)], GiveBack(s), Advance(s), signalled' \in [Objects -> BOOLEAN],
         \/ spc' = [spc EXCEPT ![s] = "scan"] /\ UNCHANGED <<Owner, event>>
         \/ event[s] \in AutoReset /\ Unlock(s),
         UNCHANGED <<State, FiredEvent, StillWaiting, Holder, wvars, sets, resets>>
  PROVE  EventsInv' /\ Dropped(Here(s), event[s]) /\ \A x \in Objects : x # Here(s) => Kept(x)
<1> USE DEF wvars
<1>0. /\ TypeOK /\ OwnerInv /\ ScanInv /\ ListInv /\ CurInv /\ WaitInv /\ UndecidedInv /\ AheadInv /\ CountInv
      /\ N \in Nat \ {0} /\ NoSetter \notin Setters
  BY EventsAssumption DEF EventsInv
<1>a. PICK e \in Events, o \in Objects, q \in Seq(Objects), p \in Nat :
        /\ e = event[s] /\ o = Here(s) /\ q = RegisteredWaits[e] /\ p = pos[s] /\ o = q[p]
        /\ p \in 1..Len(q)
  <2>1. RegisteredWaits[event[s]] \in Seq(Objects) /\ event[s] \in Events /\ Here(s) \in Objects
        /\ pos[s] \in 1..Len(RegisteredWaits[event[s]])
    BY <1>0, HereHeld DEF TypeOK
  <2> QED
    BY <2>1 DEF Here
<1>1. RefCount' = [RefCount EXCEPT ![o] = @ - 1] /\ ~StillWaiting[o] /\ HoldsAt(o, e)
  BY <1>a, HereHeld DEF GiveBack
<1>2. /\ Len(q) \in Nat /\ DOMAIN q = 1..Len(q) /\ p \in DOMAIN q /\ p >= 1 /\ p <= Len(q) /\ Len(q) >= 1
      /\ (\A i, j \in DOMAIN q : q[i] = q[j] => i = j) /\ (e \in AutoReset => p = 1)
      /\ \A r \in Setters : r # s => event[r] # e
  <2>1. \A r \in Setters : r # s => event[r] # e
    BY <1>0, <1>a, OneSetter
  <2>2. e \in AutoReset => p = 1
    BY <1>0, <1>a DEF ScanInv
  <2>3. \A i, j \in DOMAIN q : q[i] = q[j] => i = j
    BY <1>0, <1>a DEF ListInv
  <2>4. Len(q) \in Nat /\ DOMAIN q = 1..Len(q) /\ p \in DOMAIN q /\ p >= 1 /\ p <= Len(q) /\ Len(q) >= 1
    BY <1>a
  <2> QED
    BY <2>1, <2>2, <2>3, <2>4
<1>3. \/ /\ e \in AutoReset /\ RegisteredWaits' = [RegisteredWaits EXCEPT ![e] = Tail(q)] /\ pos' = pos
      \/ /\ e \notin AutoReset /\ RegisteredWaits' = RegisteredWaits /\ pos' = [pos EXCEPT ![s] = p + 1]
  BY <1>0, <1>a DEF Advance, TypeOK
<1>4. \/ spc' = [spc EXCEPT ![s] = "scan"] /\ Owner' = Owner /\ event' = event
      \/ /\ e \in AutoReset /\ Owner' = [Owner EXCEPT ![e] = NoSetter] /\ event' = [event EXCEPT ![s] = 0]
         /\ spc' = [spc EXCEPT ![s] = "idle"]
  BY <1>a DEF Unlock
<1>5. /\ \A r \in Setters : r # s => event'[r] = event[r] /\ spc'[r] = spc[r] /\ pos'[r] = pos[r]
      /\ \A d \in Events : d # e => RegisteredWaits'[d] = RegisteredWaits[d] /\ Owner'[d] = Owner[d]
      /\ event'[s] \in {0, e} /\ (event'[s] = 0 <=> spc'[s] = "idle") /\ (event'[s] = e => spc'[s] = "scan")
      /\ (event'[s] = 0 => e \in AutoReset /\ Owner'[e] = NoSetter)
      /\ (event'[s] = e => Owner'[e] = s)
      /\ e # 0 /\ \A d \in Events : d # 0
  <2>1. \A r \in Setters : r # s => pos'[r] = pos[r]
    BY <1>0, <1>3 DEF TypeOK
  <2>2. \A d \in Events : d # e => RegisteredWaits'[d] = RegisteredWaits[d]
    BY <1>0, <1>3 DEF TypeOK
  <2>3. e # 0 /\ \A d \in Events : d # 0
    BY DEF Events
  <2>4. Owner[e] = s
    BY <1>0, <1>a DEF OwnerInv
  <2>5. CASE spc' = [spc EXCEPT ![s] = "scan"] /\ Owner' = Owner /\ event' = event
    BY <1>0, <1>a, <2>1, <2>2, <2>3, <2>4, <2>5 DEF TypeOK
  <2>6. CASE /\ e \in AutoReset /\ Owner' = [Owner EXCEPT ![e] = NoSetter] /\ event' = [event EXCEPT ![s] = 0]
             /\ spc' = [spc EXCEPT ![s] = "idle"]
    BY <1>0, <1>a, <2>1, <2>2, <2>3, <2>6 DEF TypeOK
  <2> QED
    BY <1>4, <2>5, <2>6
<1>6. /\ Tail(q) \in Seq(Objects) /\ Len(Tail(q)) = Len(q) - 1
      /\ \A i, j \in DOMAIN Tail(q) : Tail(q)[i] = Tail(q)[j] => i = j
      /\ \A x \in Objects : (\E i \in DOMAIN Tail(q) : Tail(q)[i] = x) <=>
                              (\E i \in DOMAIN q : q[i] = x) /\ x # q[1]
  BY <1>2, WithoutFirst
<1> DEFINE T == Tail(q)
<1>b. \/ e \in AutoReset /\ p = 1 /\ RegisteredWaits'[e] = T /\ pos'[s] = 1
      \/ e \notin AutoReset /\ RegisteredWaits'[e] = q /\ pos'[s] = p + 1 /\ event'[s] = e
  BY <1>0, <1>2, <1>3, <1>5, <1>a DEF TypeOK
<1>7. T \in Seq(Objects) /\ DOMAIN T = 1..Len(T) /\ Len(T) \in Nat
  BY <1>6
<1> HIDE DEF T
<1>8. \A x \in Objects : HoldsAt(x, e) <=> \E i \in DOMAIN q : q[i] = x /\ i >= p
  BY <1>2, <1>a DEF HoldsAt
<1>9. ASSUME NEW x \in Objects PROVE HoldsAt(x, e)' <=> HoldsAt(x, e) /\ x # o
  <2>1. CASE e \in AutoReset /\ p = 1 /\ RegisteredWaits'[e] = T /\ pos'[s] = 1
    <3>1. HoldsAt(x, e)' <=> \E i \in DOMAIN T : T[i] = x
      <4>1. \A i \in DOMAIN T : i >= 1
        BY <1>7
      <4>2. \A r \in Setters : event'[r] = e => pos'[r] = 1
        BY <1>2, <1>5, <2>1
      <4> QED
        BY <2>1, <4>1, <4>2 DEF HoldsAt
    <3>2. \A i \in DOMAIN q : i >= p
      BY <1>2, <2>1
    <3> QED
      BY <1>6, <1>8, <1>a, <2>1, <3>1, <3>2 DEF T
  <2>2. CASE e \notin AutoReset /\ RegisteredWaits'[e] = q /\ pos'[s] = p + 1 /\ event'[s] = e
    <3>1. HoldsAt(x, e)' <=> \E i \in DOMAIN q : q[i] = x /\ i >= p + 1
      BY <1>2, <1>5, <2>2 DEF HoldsAt
    <3>2. \A i \in DOMAIN q : i >= p + 1 <=> i >= p /\ i # p
      BY <1>2
    <3>3. \A i \in DOMAIN q : q[i] = o <=> i = p
      BY <1>2, <1>a
    <3> QED
      BY <1>8, <3>1, <3>2, <3>3
  <2> QED
    BY <1>b, <2>1, <2>2
<1>10. ASSUME NEW x \in Objects, NEW d \in Events, d # e PROVE HoldsAt(x, d)' <=> HoldsAt(x, d)
  <2>1. \A r \in Setters : event'[r] = d <=> event[r] = d
    BY <1>5, <1>10, <1>a
  <2>2. \A r \in Setters : event[r] = d => pos'[r] = pos[r]
    BY <1>5, <1>10, <1>a
  <2>3. RegisteredWaits'[d] = RegisteredWaits[d]
    BY <1>5, <1>10
  <2> QED
    BY <2>1, <2>2, <2>3 DEF HoldsAt
<1>11. Dropped(o, e)
  <2>1. e \in Places(o) /\ Places(o)' = Places(o) \ {e}
    BY <1>1, <1>9, <1>10 DEF Places
  <2>2. RefCount'[o] = RefCount[o] - 1
    BY <1>0, <1>1 DEF TypeOK
  <2> QED
    BY <1>1, <2>1, <2>2 DEF Dropped
<1>12. ASSUME NEW x \in Objects, x # o PROVE Kept(x)
  <2>1. Places(x)' = Places(x)
    BY <1>9, <1>10, <1>12 DEF Places
  <2>2. RefCount'[x] = RefCount[x]
    BY <1>0, <1>1, <1>12 DEF TypeOK
  <2> QED
    BY <2>1, <2>2 DEF Kept
<1>13. AheadInv' /\ CountInv' /\ \A x \in Objects : RefCount'[x] \in 0..(N + 1)
  <2>1. \A x \in Objects : Kept(x) \/ Dropped(x, e)
    BY <1>11, <1>12
  <2> QED
    BY <2>1, CountKept
<1>14. TypeOK'
  <2>1. RefCount' \in [Objects -> 0..(N + 1)]
    <3>1. RefCount' = [x \in Objects |-> RefCount'[x]]
      BY <1>0, <1>1 DEF TypeOK
    <3> QED
      BY <1>13, <3>1
  <2>2. RegisteredWaits' \in [Events -> Seq(Objects)] /\ pos' \in [Setters -> Nat]
    <3>1. CASE RegisteredWaits' = [RegisteredWaits EXCEPT ![e] = T] /\ pos' = pos
      BY <1>0, <1>7, <3>1 DEF TypeOK
    <3>2. CASE RegisteredWaits' = RegisteredWaits /\ pos' = [pos EXCEPT ![s] = p + 1]
      BY <1>0, <3>2 DEF TypeOK
    <3> QED
      BY <1>3, <3>1, <3>2 DEF T
  <2>3. /\ Owner' \in [Events -> Setters \cup {NoSetter}] /\ event' \in [Setters -> 0..N]
        /\ spc' \in [Setters -> {"idle", "scan", "wlock", "skip", "signal"}]
    <3>1. CASE spc' = [spc EXCEPT ![s] = "scan"] /\ Owner' = Owner /\ event' = event
      BY <1>0, <3>1 DEF TypeOK
    <3>2. CASE /\ Owner' = [Owner EXCEPT ![e] = NoSetter] /\ event' = [event EXCEPT ![s] = 0]
               /\ spc' = [spc EXCEPT ![s] = "idle"]
      BY <1>0, <3>2 DEF TypeOK
    <3> QED
      BY <1>4, <3>1, <3>2
  <2> QED
    BY <1>0, <2>1, <2>2, <2>3 DEF TypeOK
<1>15. OwnerInv'
  <2>1. \A r \in Setters, d \in Events : Owner'[d] = r <=> event'[r] = d
    <3> SUFFICES ASSUME NEW r \in Setters, NEW d \in Events PROVE Owner'[d] = r <=> event'[r] = d
      OBVIOUS
    <3>1. CASE d = e
      BY <1>0, <1>2, <1>5, <3>1
    <3>2. CASE d # e
      BY <1>0, <1>2, <1>5, <1>a, <3>2 DEF OwnerInv
    <3> QED
      BY <3>1, <3>2
  <2>2. \A r \in Setters : spc'[r] = "idle" <=> event'[r] = 0
    BY <1>0, <1>5 DEF OwnerInv
  <2> QED
    BY <2>1, <2>2 DEF OwnerInv
<1>16. ListInv'
  <2>1. ASSUME NEW d \in Events, NEW i \in DOMAIN RegisteredWaits'[d], NEW j \in DOMAIN RegisteredWaits'[d],
               RegisteredWaits'[d][i] = RegisteredWaits'[d][j]
        PROVE  i = j
    <3>1. CASE d = e
      BY <1>2, <1>6, <1>b, <2>1, <3>1 DEF T
    <3>2. CASE d # e
      BY <1>0, <1>5, <2>1, <3>2 DEF ListInv
    <3> QED
      BY <3>1, <3>2
  <2> QED
    BY <2>1 DEF ListInv
<1>17. CurInv' /\ WaitInv'
  BY <1>0 DEF CurInv, WaitInv
<1>18. ScanInv'
  <2>1. ASSUME NEW r \in Setters, r # s, event'[r] # 0
        PROVE  /\ event'[r] = event[r] /\ pos'[r] = pos[r] /\ spc'[r] = spc[r] /\ Here(r)' = Here(r)
               /\ RegisteredWaits'[event[r]] = RegisteredWaits[event[r]]
    <3>1. event'[r] = event[r] /\ event[r] # e /\ event[r] \in Events
      BY <1>0, <1>2, <1>5, <2>1, SMTT(30) DEF TypeOK, Events
    <3> QED
      BY <1>5, <2>1, <3>1 DEF Here
  <2>2. ASSUME event'[s] # 0
        PROVE  /\ event'[s] = e /\ spc'[s] = "scan" /\ pos'[s] \in 1..(Len(RegisteredWaits'[e]) + 1)
               /\ (e \in AutoReset => pos'[s] = 1) /\ (e \in Manual => State[e])
    <3>1. event'[s] = e /\ spc'[s] = "scan"
      BY <1>5, <2>2
    <3>2. e \in Manual => State[e]
      BY <1>0, <1>a DEF ScanInv
    <3>3. CASE e \in AutoReset /\ p = 1 /\ RegisteredWaits'[e] = T /\ pos'[s] = 1
      BY <1>7, <3>1, <3>2, <3>3
    <3>4. CASE e \notin AutoReset /\ RegisteredWaits'[e] = q /\ pos'[s] = p + 1 /\ event'[s] = e
      BY <1>2, <3>1, <3>2, <3>4
    <3> QED
      BY <1>b, <3>3, <3>4
  <2> QED
    BY <1>0, <2>1, <2>2 DEF ScanInv
<1>19. UndecidedInv'
  <2> SUFFICES ASSUME NEW u \in Waiters, NEW d \in Events, Undecided(u, d)'
               PROVE  /\ d \in Places(cur[u])'
                      /\ State[d] => d \in Manual /\ \E r \in Setters : event'[r] = d
    BY DEF UndecidedInv
  <2>1. Undecided(u, d) /\ cur[u] \in Objects /\ StillWaiting[cur[u]]
    <3>1. Undecided(u, d)
      BY DEF Undecided
    <3> QED
      BY <3>1, UndecidedWaits
  <2>2. d \in Places(cur[u]) /\ (State[d] => d \in Manual /\ \E r \in Setters : event[r] = d)
    BY <1>0, <2>1 DEF UndecidedInv
  <2>3. d \in Places(cur[u])'
    BY <1>1, <1>12, <2>1, <2>2 DEF Kept
  <2>4. ASSUME d \in Manual, NEW r \in Setters, event[r] = d PROVE event'[r] = d
    BY <1>5, <1>a, <2>4 DEF Manual
  <2> QED
    BY <2>2, <2>3, <2>4
<1> QED
  BY <1>11, <1>12, <1>13, <1>14, <1>15, <1>16, <1>17, <1>18, <1>19, <1>a DEF EventsInv

LEMMA SetStepInv ==
  ASSUME EventsInv, NEW s \in Setters, SetStep(s)
  PROVE  EventsInv'
<1> USE DEF wvars
<1>0. TypeOK /\ OwnerInv /\ ScanInv
  BY DEF EventsInv
<1>1. CASE SetScan(s) /\ StillWaiting[Here(s)]
  BY <1>1, AimsInv
<1>2. CASE SetScan(s) /\ ~StillWaiting[Here(s)]
  <2>1. event[s] # 0 /\ pos[s] <= Len(RegisteredWaits[event[s]])
    BY <1>0, <1>2 DEF SetScan, OwnerInv
  <2>2. spc' = [spc EXCEPT ![s] = "scan"]
    BY <1>0, <1>2 DEF SetScan, TypeOK
  <2>3. signalled' \in [Objects -> BOOLEAN]
    BY <1>0, <1>2 DEF SetScan, TypeOK
  <2> QED
    BY <1>2, <2>1, <2>2, <2>3, GivesBack DEF SetScan
<1>3. CASE SetFire(s)
  BY <1>3, FireInv
<1>4. CASE SetSkip(s)
  <2>1. event[s] # 0 /\ pos[s] <= Len(RegisteredWaits[event[s]]) /\ ~StillWaiting[Here(s)]
    BY <1>4, Setting DEF SetSkip
  <2>2. signalled' \in [Objects -> BOOLEAN]
    BY <1>0, <1>4 DEF SetSkip, TypeOK
  <2> QED
    BY <1>4, <2>1, <2>2, GivesBack DEF SetSkip
<1>5. CASE SetSignal(s)
  <2>1. event[s] # 0 /\ pos[s] <= Len(RegisteredWaits[event[s]]) /\ ~StillWaiting[Here(s)]
    BY <1>5, Setting DEF SetSignal
  <2>2. signalled' \in [Objects -> BOOLEAN]
    BY <1>0, <1>5 DEF SetSignal, Signalled, TypeOK
  <2>3. \/ spc' = [spc EXCEPT ![s] = "scan"] /\ UNCHANGED <<Owner, event>>
        \/ event[s] \in AutoReset /\ Unlock(s)
    BY <1>5 DEF SetSignal
  <2> QED
    BY <1>5, <2>1, <2>2, <2>3, GivesBack DEF SetSignal
<1>6. CASE SetEnd(s)
  BY <1>6, EndInv
<1> QED
  BY <1>1, <1>2, <1>3, <1>4, <1>5, <1>6 DEF SetStep

-----------------------------------------------------------------------------
(***************************************************************************)
(* The theorems.                                                           *)
(***************************************************************************)
LEMMA InitInv == Init => EventsInv
<1> SUFFICES ASSUME Init PROVE EventsInv
  OBVIOUS
<1>1. TypeOK
  BY EventsAssumption DEF Init, TypeOK
<1>2. \A o \in Objects : Places(o) = {}
  BY DEF Init, Places, HoldsAt
<1>3. OwnerInv /\ ScanInv /\ ListInv /\ CurInv /\ WaitInv /\ UndecidedInv /\ AheadInv
  BY <1>2, EventsAssumption DEF Init, OwnerInv, ScanInv, ListInv, CurInv, WaitInv, UndecidedInv, Undecided,
     AheadInv, Events
<1>4. CountInv
  BY <1>2, FS_EmptySet, EventsAssumption DEF Init, CountInv
<1> QED
  BY <1>1, <1>3, <1>4 DEF EventsInv

LEMMA EventsStep == EventsInv /\ [Next]_vars => EventsInv'
<1> SUFFICES ASSUME EventsInv, [Next]_vars PROVE EventsInv'
  OBVIOUS
<1>1. ASSUME NEW t \in Waiters, WaitBegin(t) \/ WaitStep(t) \/ WaitWakes(t) PROVE EventsInv'
  BY <1>1, BeginInv, FindsInv, RegistersInv, UnrefInv, WakesInv DEF WaitStep
<1>2. ASSUME NEW s \in Setters, SetStep(s) PROVE EventsInv'
  BY <1>2, SetStepInv
<1>3. ASSUME NEW s \in Setters, NEW e \in Events, SetLock(s, e) PROVE EventsInv'
  BY <1>3, LockInv
<1>4. ASSUME NEW e \in Events, ResetEvent(e) PROVE EventsInv'
  BY <1>4, ResetInv
<1>5. CASE UNCHANGED vars
  <2> USE <1>5 DEF vars, evars, ovars, wvars, svars
  <2>1. TypeOK' /\ OwnerInv' /\ ListInv' /\ CurInv' /\ WaitInv'
    BY DEF EventsInv, TypeOK, OwnerInv, ListInv, CurInv, WaitInv
  <2>2. ScanInv'
    BY ScanSame DEF EventsInv, ScanInv
  <2>3. \A x \in Objects : Kept(x) /\ Places(x)' = Places(x)
    BY PlacesSame DEF Kept
  <2>4. UndecidedInv'
    <3>1. \A u \in Waiters, d \in Events : Undecided(u, d)' => Undecided(u, d)
      BY DEF Undecided
    <3>2. \A u \in Waiters, d \in Events : Undecided(u, d)' => Undecided(u, d) /\ cur[u] \in Objects
      BY <3>1, UndecidedWaits
    <3> QED
      BY <2>3, <3>2 DEF EventsInv, UndecidedInv
  <2>5. 1 \in Events
    BY EventsAssumption DEF Events
  <2>6. AheadInv' /\ CountInv'
    BY <2>3, <2>5, CountKept
  <2> QED
    BY <2>1, <2>2, <2>4, <2>6 DEF EventsInv
<1> QED
  BY <1>1, <1>2, <1>3, <1>4, <1>5 DEF Next

\* Everything the other theorems rest on (rpevents.cpp:62-75, 200-330, 340-521).
THEOREM EventsInvariant == Spec => []EventsInv
<1>1. Init => EventsInv
  BY InitInv
<1>2. EventsInv /\ [Next]_vars => EventsInv'
  BY EventsStep
<1> QED
  BY <1>1, <1>2, PTL DEF Spec

\* The state keeps its types; above all, a reference count is never negative and
\* never above the number of references that were ever given out.
THEOREM TypeCorrect == Spec => []TypeOK
<1>1. EventsInv => TypeOK
  BY DEF EventsInv
<1> QED
  BY <1>1, EventsInvariant, PTL

\* The registrations still to come are one in each place.
LEMMA RegisteredPlaces ==
  ASSUME EventsInv, NEW o \in Objects
  PROVE  Cardinality(Registered(o)) = Cardinality(Places(o))
<1>0. TypeOK /\ ListInv
  BY DEF EventsInv
<1>1. IsFiniteSet(Places(o))
  <2>1. Places(o) \in SUBSET Events
    BY DEF Places
  <2> QED
    BY <2>1, EventSets
<1> DEFINE Due(e, i) == i \in DOMAIN RegisteredWaits[e] /\ RegisteredWaits[e][i] = o
                       /\ \A s \in Setters : event[s] = e => i >= pos[s]
           f == [e \in Places(o) |-> <<e, CHOOSE i : Due(e, i)>>]
<1>2. \A e \in Places(o) : Due(e, CHOOSE i : Due(e, i)) /\ e \in Events
  BY DEF Places, HoldsAt
<1>3. \A x : x \in Registered(o) <=> \E e \in Events : \E i : Due(e, i) /\ x = <<e, i>>
  BY DEF Registered
<1>4. \A e \in Events : \A i, j : Due(e, i) /\ Due(e, j) => i = j
  BY <1>0 DEF ListInv
<1>5. \A e \in Events : \A i : Due(e, i) => e \in Places(o)
  BY DEF Places, HoldsAt
<1> HIDE DEF Due
<1>6. f \in [Places(o) -> Registered(o)]
  BY <1>2, <1>3
<1>7. \A d, e \in Places(o) : f[d] = f[e] => d = e
  OBVIOUS
<1>8. ASSUME NEW x \in Registered(o) PROVE \E e \in Places(o) : f[e] = x
  <2>a. PICK e \in Events : \E i : Due(e, i) /\ x = <<e, i>>
    BY <1>3
  <2>1. PICK i : Due(e, i) /\ x = <<e, i>>
    BY <2>a
  <2>2. e \in Places(o) /\ i = CHOOSE k : Due(e, k)
    BY <1>2, <1>4, <1>5, <2>1
  <2> QED
    BY <2>1, <2>2
<1> HIDE DEF f
<1>9. f \in Bijection(Places(o), Registered(o))
  BY <1>6, <1>7, <1>8 DEF Bijection, Injection, IsInjective, Surjection
<1> QED
  BY <1>1, <1>9, FS_Bijection DEF ExistsBijection

\* The reference count of a wait's object is the number of places that still give a
\* reference back, so it is freed neither early nor never (rpevents.cpp:62-75,
\* 203-206, 322-328, 366-438, 466-509).
THEOREM ReferencesExact == Spec => []RefCountExact
<1>1. ASSUME EventsInv PROVE RefCountExact
  <2> SUFFICES ASSUME NEW o \in Objects PROVE RefCount[o] = Cardinality(Registered(o)) + WaiterShare(o)
    BY DEF RefCountExact
  <2>1. /\ TypeOK /\ CurInv /\ CountInv /\ N \in Nat /\ Cardinality(Places(o)) \in Nat /\ WaitInv
        /\ Cardinality(Registered(o)) = Cardinality(Places(o))
    BY <1>1, CountNat, RegisteredPlaces, EventsAssumption DEF EventsInv
  <2> DEFINE mine == {t \in Waiters : cur[t] = o}
  <2>2. CASE mine = {}
    <3>1. WaiterShare(o) = 0
      BY <2>2 DEF WaiterShare
    <3>2. RefCount[o] = Cardinality(Places(o))
      BY <2>1, <2>2 DEF CountInv
    <3> QED
      BY <2>1, <3>1, <3>2
  <2>3. CASE mine # {}
    <3>1. PICK t \in Waiters : cur[t] = o
      BY <2>3
    <3>2. wpc[t] \in {"register", "blocked", "unref"} /\ mine = {t}
      BY <1>1, <2>1, <3>1, Pc DEF CurInv
    <3>3. (CHOOSE u \in mine : TRUE) = t
      BY <3>2
    <3>4. next[t] \in Nat /\ skipped[t] \in Nat
      BY <2>1 DEF TypeOK
    <3>5. WaiterShare(o) = Owes(t)
      <4>1. CASE wpc[t] = "register"
        <5>1. WaiterShare(o) = 1 + N - (next[t] - 1)
          BY <2>3, <3>3, <4>1 DEF WaiterShare
        <5>2. Owes(t) = 2 + N - next[t]
          BY <4>1 DEF Owes
        <5> QED
          BY <2>1, <3>4, <5>1, <5>2
      <4>2. CASE wpc[t] = "blocked"
        BY <2>1, <2>3, <3>3, <3>4, <4>2 DEF WaiterShare, Owes
      <4>3. CASE wpc[t] = "unref"
        BY <2>1, <2>3, <3>3, <3>4, <4>3 DEF WaiterShare, Owes
      <4> QED
        BY <3>2, <4>1, <4>2, <4>3
    <3> QED
      BY <2>1, <3>1, <3>5 DEF CountInv
  <2> QED
    BY <2>2, <2>3
<1> QED
  BY <1>1, EventsInvariant, PTL

\* A blocked thread whose wait nothing has ended sleeps over no event that is set,
\* unless the SetEvent that set it has the wait still to come (rpevents.cpp:225-264,
\* 440-443, 455-511).
THEOREM NobodySleepsOver == Spec => []NoSleepOverSetEvent
<1>1. ASSUME EventsInv PROVE NoSleepOverSetEvent
  <2> SUFFICES ASSUME NEW t \in Waiters, NEW e \in Events, wpc[t] = "blocked", FiredEvent[cur[t]] = 0, State[e]
               PROVE  \E s \in Setters : /\ event[s] = e /\ e \in Manual
                        /\ \E i \in pos[s]..Len(RegisteredWaits[e]) : RegisteredWaits[e][i] = cur[t]
    BY DEF NoSleepOverSetEvent
  <2>1. TypeOK /\ WaitInv /\ UndecidedInv
    BY <1>1 DEF EventsInv
  <2>2. Undecided(t, e)
    BY <2>1 DEF WaitInv, Undecided
  <2>3. PICK s \in Setters : event[s] = e /\ e \in Manual
    BY <2>1, <2>2 DEF UndecidedInv
  <2>4. HoldsAt(cur[t], e)
    BY <2>1, <2>2 DEF UndecidedInv, Places
  <2>5. PICK i \in DOMAIN RegisteredWaits[e] : RegisteredWaits[e][i] = cur[t] /\ i >= pos[s]
    BY <2>3, <2>4 DEF HoldsAt
  <2>6. RegisteredWaits[e] \in Seq(Objects) /\ pos[s] \in Nat
    BY <2>1 DEF TypeOK
  <2>7. i \in pos[s]..Len(RegisteredWaits[e])
    BY <2>5, <2>6
  <2> QED
    BY <2>3, <2>5, <2>7
<1> QED
  BY <1>1, EventsInvariant, PTL

-----------------------------------------------------------------------------
(***************************************************************************)
(* The events implement EventContract.                                     *)
(***************************************************************************)

\* One place of a function has changed.
LEMMA Replaced ==
  ASSUME NEW S, NEW f, NEW g, NEW x \in S, NEW v, f = [y \in S |-> f[y]], g = [y \in S |-> g[y]],
         g[x] = v, \A y \in S : y # x => g[y] = f[y]
  PROVE  g = [f EXCEPT ![x] = v]
OBVIOUS

LEMMA SameValues ==
  ASSUME NEW S, NEW f, NEW g, f = [y \in S |-> f[y]], g = [y \in S |-> g[y]], \A y \in S : g[y] = f[y]
  PROVE  g = f
OBVIOUS

LEMMA Functions ==
  /\ Status = [t \in Waiters |-> Status[t]] /\ Status' = [t \in Waiters |-> Status'[t]]
  /\ At = [t \in Waiters |-> At[t]] /\ At' = [t \in Waiters |-> At'[t]]
  /\ Doing = [s \in Setters |-> Doing[s]] /\ Doing' = [s \in Setters |-> Doing'[s]]
  /\ Aim = [s \in Setters |-> Aim[s]] /\ Aim' = [s \in Setters |-> Aim'[s]]
BY DEF Status, At, Doing, Aim

\* A waiter to which nothing happens.
LEMMA WaiterSame ==
  ASSUME NEW t \in Waiters, wpc'[t] = wpc[t], wpc[t] = "register" => next'[t] = next[t],
         wpc[t] = "blocked" => FiredEvent'[cur'[t]] = FiredEvent[cur[t]]
  PROVE  Status'[t] = Status[t] /\ At'[t] = At[t]
BY DEF Status, At, Fired

LEMMA SetterSame ==
  ASSUME NEW s \in Setters, event'[s] = event[s], spc'[s] = spc[s] \/ "signal" \notin {spc[s], spc'[s]}
  PROVE  Doing'[s] = Doing[s]
BY DEF Doing

\* A setter aims at one thread at most.
LEMMA AimsAt ==
  EventsInv => \A s \in Setters : /\ AimedAt(s) = {} => Aim[s] = NoWaiter
                                  /\ \A t \in AimedAt(s) : Aim[s] = t /\ AimedAt(s) = {t} /\ t # NoWaiter
<1> SUFFICES ASSUME EventsInv, NEW s \in Setters
             PROVE  /\ AimedAt(s) = {} => Aim[s] = NoWaiter
                    /\ \A t \in AimedAt(s) : Aim[s] = t /\ AimedAt(s) = {t} /\ t # NoWaiter
  OBVIOUS
<1>1. AimedAt(s) = {} => Aim[s] = NoWaiter
  BY DEF Aim
<1>2. ASSUME NEW t \in AimedAt(s) PROVE Aim[s] = t /\ AimedAt(s) = {t} /\ t # NoWaiter
  <2>1. \A u \in AimedAt(s) : u \in Waiters /\ cur[u] = Here(s) /\ cur[u] # NoObject
    BY Pc DEF AimedAt
  <2>2. AimedAt(s) = {t}
    BY <2>1 DEF EventsInv, CurInv
  <2>3. t # NoWaiter
    BY <2>1, EventsAssumption
  <2>4. Aim[s] = CHOOSE u \in {t} : TRUE
    BY <2>2 DEF Aim
  <2> QED
    BY <2>2, <2>3, <2>4
<1> QED
  BY <1>1, <1>2

LEMMA AimsAtNext ==
  EventsInv' => \A s \in Setters : /\ AimedAt(s)' = {} => Aim'[s] = NoWaiter
                                   /\ \A t \in AimedAt(s)' : Aim'[s] = t /\ AimedAt(s)' = {t} /\ t # NoWaiter
<1>1. EventsInv' => (\A s \in Setters : /\ AimedAt(s) = {} => Aim[s] = NoWaiter
                                        /\ \A t \in AimedAt(s) : Aim[s] = t /\ AimedAt(s) = {t} /\ t # NoWaiter)'
  BY AimsAt, PTL
<1> QED
  BY <1>1

LEMMA AimSame ==
  ASSUME NEW s \in Setters, AimedAt(s)' = AimedAt(s)
  PROVE  Aim'[s] = Aim[s]
BY DEF Aim

\* The steps that the contract does not see.
LEMMA ContractStutter ==
  ASSUME State' = State, waitIndex' = waitIndex,
         \A t \in Waiters : Status'[t] = Status[t] /\ At'[t] = At[t],
         \A s \in Setters : Doing'[s] = Doing[s] /\ AimedAt(s)' = AimedAt(s)
  PROVE  UNCHANGED Contract!cvars
<1>1. Status' = Status /\ At' = At
  BY Functions, SameValues
<1>2. Doing' = Doing
  BY Functions, SameValues
<1>3. Aim' = Aim
  BY AimSame, Functions, SameValues
<1> QED
  BY <1>1, <1>2, <1>3 DEF Contract!cvars

\* The steps of a wait.
LEMMA ContractBegin ==
  ASSUME EventsInv, EventsInv', NEW t \in Waiters, WaitBegin(t)
  PROVE  Contract!Begin(t)
<1> USE DEF evars, svars
<1>0. TypeOK /\ CurInv /\ WaitInv /\ CountInv
  BY DEF EventsInv
<1>1. PICK o \in Objects :
        /\ RefCount[o] = 0 /\ cur' = [cur EXCEPT ![t] = o] /\ FiredEvent' = [FiredEvent EXCEPT ![o] = 0]
  BY DEF WaitBegin
<1>2. /\ wpc[t] = "idle" /\ next' = [next EXCEPT ![t] = 1] /\ wpc' = [wpc EXCEPT ![t] = "register"]
      /\ UNCHANGED <<State, RegisteredWaits, waitIndex, spc, event, pos>>
  BY DEF WaitBegin
<1>3. /\ wpc'[t] = "register" /\ cur'[t] = o /\ next'[t] = 1
      /\ \A u \in Waiters : u # t => wpc'[u] = wpc[u] /\ cur'[u] = cur[u] /\ next'[u] = next[u]
      /\ \A x \in Objects : x # o => FiredEvent'[x] = FiredEvent[x]
  BY <1>0, <1>1, <1>2 DEF TypeOK
<1>4. \A u \in Waiters : cur[u] # o
  BY <1>0, <1>1, CountNat
<1>5. \A u \in Waiters : u # t => Status'[u] = Status[u] /\ At'[u] = At[u]
  BY <1>3, <1>4, Pc, WaiterSame
<1>6. Status[t] = "idle" /\ Status'[t] = "look" /\ At'[t] = 1
  BY <1>2, <1>3 DEF Status, At
<1>7. Status' = [Status EXCEPT ![t] = "look"] /\ At' = [At EXCEPT ![t] = 1]
  BY <1>5, <1>6, Functions, Replaced
<1>8. Doing' = Doing
  BY <1>2, SetterSame, Functions, SameValues
<1>9. ASSUME NEW s \in Setters PROVE AimedAt(s)' = AimedAt(s)
  <2>1. Here(s)' = Here(s)
    BY <1>2 DEF Here
  <2>2. spc[s] = "wlock" => Here(s) # o
    BY <1>1, HereHeld, Setting
  <2>3. \A u \in Waiters : u # t => (u \in AimedAt(s)' <=> u \in AimedAt(s))
    BY <1>2, <1>3, <2>1 DEF AimedAt
  <2>4. t \notin AimedAt(s)' /\ t \notin AimedAt(s)
    BY <1>2, <1>3, <2>1, <2>2 DEF AimedAt
  <2>5. AimedAt(s)' \subseteq Waiters /\ AimedAt(s) \subseteq Waiters
    BY DEF AimedAt
  <2> QED
    BY <2>3, <2>4, <2>5
<1>10. Aim' = Aim
  BY <1>9, AimSame, Functions, SameValues
<1> QED
  BY <1>2, <1>6, <1>7, <1>8, <1>10 DEF Contract!Begin

\* Whoever aimed at a thread whose wait ends has missed it.
LEMMA ContractDismiss ==
  ASSUME EventsInv, EventsInv', NEW t \in Waiters, \A s \in Setters : AimedAt(s)' = AimedAt(s) \ {t}
  PROVE  Contract!Dismiss(t)
<1> DEFINE missed == [s \in Setters |-> IF Aim[s] = t THEN NoWaiter ELSE Aim[s]]
<1>1. ASSUME NEW s \in Setters PROVE Aim'[s] = missed[s]
  <2>1. CASE AimedAt(s) = {}
    <3>1. AimedAt(s)' = {}
      BY <1>1, <2>1
    <3> QED
      BY <2>1, <3>1, AimsAt, AimsAtNext
  <2>2. CASE AimedAt(s) # {}
    <3>1. PICK u \in AimedAt(s) : Aim[s] = u /\ AimedAt(s) = {u}
      BY <2>2, AimsAt
    <3>2. CASE u = t
      <4>1. AimedAt(s)' = {}
        BY <3>1, <3>2
      <4> QED
        BY <3>1, <3>2, <4>1, AimsAtNext
    <3>3. CASE u # t
      <4>1. u \in AimedAt(s)'
        BY <3>1, <3>3
      <4> QED
        BY <3>1, <3>3, <4>1, AimsAtNext
    <3> QED
      BY <3>2, <3>3
  <2> QED
    BY <2>1, <2>2
<1>2. missed = [s \in Setters |-> missed[s]]
  OBVIOUS
<1> HIDE DEF missed
<1>3. Aim' = missed
  BY <1>1, <1>2, Functions, SameValues
<1> QED
  BY <1>3 DEF Contract!Dismiss, missed

LEMMA ContractFinds ==
  ASSUME EventsInv, EventsInv', NEW t \in Waiters, WaitFinds(t)
  PROVE  Contract!LookFinds(t)
<1> USE DEF evars, svars
<1>0. TypeOK /\ CurInv /\ WaitInv /\ OwnerInv
  BY DEF EventsInv
<1>a. PICK e \in Events, o \in Objects : e = next[t] /\ o = cur[t]
  <2>1. next[t] \in Events /\ cur[t] \in Objects
    BY <1>0, Pc DEF WaitFinds, TypeOK, WaitInv, Events
  <2> QED
    BY <2>1
<1>1. /\ wpc[t] = "register" /\ State[e] /\ FiredEvent' = [FiredEvent EXCEPT ![o] = e]
      /\ waitIndex' = [waitIndex EXCEPT ![t] = e] /\ wpc' = [wpc EXCEPT ![t] = "unref"]
      /\ UNCHANGED <<cur, next, spc, event, pos>>
  BY <1>a DEF WaitFinds
<1>2. \/ e \in Manual /\ State' = State /\ RegisteredWaits' = RegisteredWaits
      \/ /\ e \in AutoReset /\ Owner[e] = NoSetter /\ State' = [State EXCEPT ![e] = FALSE]
         /\ RegisteredWaits' = [RegisteredWaits EXCEPT ![e] = Live(e)]
  BY <1>a DEF WaitFinds
<1>3. /\ wpc'[t] = "unref" /\ \A u \in Waiters : u # t => wpc'[u] = wpc[u]
      /\ \A x \in Objects : x # o => FiredEvent'[x] = FiredEvent[x]
      /\ \A u \in Waiters : u # t /\ wpc[u] # "idle" => cur[u] \in Objects /\ cur[u] # o
  BY <1>0, <1>1, <1>a, Pc DEF TypeOK, CurInv
<1>4. \A u \in Waiters : u # t => Status'[u] = Status[u] /\ At'[u] = At[u]
  BY <1>1, <1>3, WaiterSame
<1>5. Status[t] = "look" /\ At[t] = e /\ Status'[t] = "idle" /\ At'[t] = 0
  BY <1>1, <1>3, <1>a DEF Status, At, Fired
<1>6. Status' = [Status EXCEPT ![t] = "idle"] /\ At' = [At EXCEPT ![t] = 0]
  BY <1>4, <1>5, Functions, Replaced
<1>7. Doing' = Doing
  BY <1>1, SetterSame, Functions, SameValues
<1>8. State' = [State EXCEPT ![e] = e \notin AutoReset]
  <2>1. CASE e \in AutoReset
    BY <1>2, <2>1 DEF Manual
  <2>2. CASE e \notin AutoReset
    BY <1>0, <1>1, <1>2, <2>2 DEF TypeOK
  <2> QED
    BY <2>1, <2>2
<1>9. ASSUME NEW s \in Setters PROVE AimedAt(s)' = AimedAt(s) \ {t}
  <2>1. event[s] \in Manual => Here(s)' = Here(s)
    <3>1. event[s] \in Manual => RegisteredWaits'[event[s]] = RegisteredWaits[event[s]]
      BY <1>0, <1>2 DEF Manual, TypeOK
    <3> QED
      BY <1>1, <3>1 DEF Here
  <2> QED
    BY <1>1, <1>3, <2>1 DEF AimedAt
<1>10. Contract!Dismiss(t)
  BY <1>9, ContractDismiss
<1> QED
  BY <1>1, <1>5, <1>6, <1>7, <1>8, <1>10 DEF Contract!LookFinds

LEMMA ContractRegisters ==
  ASSUME EventsInv, EventsInv', NEW t \in Waiters, WaitRegisters(t)
  PROVE  Contract!LookOn(t)
<1> USE DEF evars, svars
<1>0. TypeOK /\ CurInv /\ WaitInv /\ OwnerInv /\ N \in Nat \ {0}
  BY EventsAssumption DEF EventsInv
<1>a. PICK e \in Events, o \in Objects : e = next[t] /\ o = cur[t]
  <2>1. next[t] \in Events /\ cur[t] \in Objects
    BY <1>0, Pc DEF WaitRegisters, TypeOK, WaitInv, Events
  <2> QED
    BY <2>1
<1>1. /\ wpc[t] = "register" /\ ~State[e] /\ Owner[e] = NoSetter
      /\ RegisteredWaits' = [RegisteredWaits EXCEPT ![e] = Append(Live(e), o)]
      /\ \/ e < N /\ next' = [next EXCEPT ![t] = e + 1] /\ wpc' = wpc
         \/ ~(e < N) /\ wpc' = [wpc EXCEPT ![t] = "blocked"] /\ next' = next
      /\ UNCHANGED <<State, FiredEvent, cur, waitIndex, spc, event, pos>>
  BY <1>a DEF WaitRegisters
<1>2. e \in 1..N /\ FiredEvent[o] = 0
  BY <1>0, <1>1, <1>a DEF WaitInv, Events
<1>3. /\ \A u \in Waiters : u # t => wpc'[u] = wpc[u] /\ next'[u] = next[u]
      /\ \/ e # N /\ wpc'[t] = "register" /\ next'[t] = e + 1
         \/ e = N /\ wpc'[t] = "blocked"
  BY <1>0, <1>1, <1>2 DEF TypeOK
<1>4. \A u \in Waiters : u # t => Status'[u] = Status[u] /\ At'[u] = At[u]
  BY <1>1, <1>3, WaiterSame
<1>5. /\ Status[t] = "look" /\ At[t] = e
      /\ Status'[t] = IF At[t] = N THEN "blocked" ELSE "look"
      /\ At'[t] = IF At[t] = N THEN 0 ELSE At[t] + 1
  <2>1. Status[t] = "look" /\ At[t] = e
    BY <1>1, <1>a DEF Status, At
  <2>2. CASE e # N /\ wpc'[t] = "register" /\ next'[t] = e + 1
    BY <2>1, <2>2 DEF Status, At
  <2>3. CASE e = N /\ wpc'[t] = "blocked"
    <3>1. Fired(t)' = 0
      BY <1>1, <1>2, <1>a, <2>3 DEF Fired
    <3> QED
      BY <2>1, <2>3, <3>1 DEF Status, At
  <2> QED
    BY <1>3, <2>1, <2>2, <2>3
<1>6. /\ Status' = [Status EXCEPT ![t] = IF At[t] = N THEN "blocked" ELSE "look"]
      /\ At' = [At EXCEPT ![t] = IF At[t] = N THEN 0 ELSE At[t] + 1]
  BY <1>4, <1>5, Functions, Replaced
<1>7. Doing' = Doing
  BY <1>1, SetterSame, Functions, SameValues
<1>8. ASSUME NEW s \in Setters PROVE AimedAt(s)' = AimedAt(s)
  <2>1. event[s] \in Manual => Here(s)' = Here(s)
    <3>1. event[s] # e
      BY <1>1, <1>0, OneSetter DEF EventsInv
    <3>2. event[s] \in Manual => RegisteredWaits'[event[s]] = RegisteredWaits[event[s]]
      BY <1>0, <1>1, <3>1 DEF Manual, TypeOK
    <3> QED
      BY <1>1, <3>2 DEF Here
  <2>2. \A u \in Waiters : wpc'[u] \in {"register", "blocked"} <=> wpc[u] \in {"register", "blocked"}
    BY <1>1, <1>3
  <2> QED
    BY <1>1, <2>1, <2>2 DEF AimedAt
<1>9. Aim' = Aim
  BY <1>8, AimSame, Functions, SameValues
<1> QED
  BY <1>1, <1>5, <1>6, <1>7, <1>9 DEF Contract!LookOn

LEMMA ContractWakes ==
  ASSUME EventsInv, EventsInv', NEW t \in Waiters, WaitWakes(t)
  PROVE  Contract!Return(t)
<1> USE DEF evars, svars
<1>0. TypeOK
  BY DEF EventsInv
<1>1. /\ wpc[t] = "blocked" /\ FiredEvent[cur[t]] # 0
      /\ waitIndex' = [waitIndex EXCEPT ![t] = FiredEvent[cur[t]]] /\ wpc' = [wpc EXCEPT ![t] = "unref"]
      /\ UNCHANGED <<State, RegisteredWaits, FiredEvent, cur, next, spc, event, pos>>
  BY DEF WaitWakes
<1>2. wpc'[t] = "unref" /\ \A u \in Waiters : u # t => wpc'[u] = wpc[u]
  BY <1>0, <1>1 DEF TypeOK
<1>3. \A u \in Waiters : u # t => Status'[u] = Status[u] /\ At'[u] = At[u]
  BY <1>1, <1>2, WaiterSame
<1>4. Status[t] = "given" /\ At[t] = FiredEvent[cur[t]] /\ Status'[t] = "idle" /\ At'[t] = 0
  BY <1>1, <1>2 DEF Status, At, Fired
<1>5. Status' = [Status EXCEPT ![t] = "idle"] /\ At' = [At EXCEPT ![t] = 0]
  BY <1>3, <1>4, Functions, Replaced
<1>6. Doing' = Doing
  BY <1>1, SetterSame, Functions, SameValues
<1>7. \A s \in Setters : AimedAt(s)' = AimedAt(s) \ {t}
  BY <1>1, <1>2 DEF AimedAt, Here
<1>8. Contract!Dismiss(t)
  BY <1>7, ContractDismiss
<1> QED
  BY <1>1, <1>4, <1>5, <1>6, <1>8 DEF Contract!Return

LEMMA ContractUnref ==
  ASSUME EventsInv, NEW t \in Waiters, WaitUnref(t)
  PROVE  UNCHANGED Contract!cvars
<1> USE DEF evars, svars
<1>0. TypeOK
  BY DEF EventsInv
<1>1. /\ wpc[t] = "unref" /\ wpc' = [wpc EXCEPT ![t] = "idle"] /\ cur' = [cur EXCEPT ![t] = NoObject]
      /\ UNCHANGED <<State, RegisteredWaits, FiredEvent, next, waitIndex, spc, event, pos>>
  BY DEF WaitUnref
<1>2. wpc'[t] = "idle" /\ \A u \in Waiters : u # t => wpc'[u] = wpc[u] /\ cur'[u] = cur[u]
  BY <1>0, <1>1 DEF TypeOK
<1>3. \A u \in Waiters : Status'[u] = Status[u] /\ At'[u] = At[u]
  <2>1. \A u \in Waiters : u # t => Status'[u] = Status[u] /\ At'[u] = At[u]
    BY <1>1, <1>2, WaiterSame
  <2>2. Status'[t] = Status[t] /\ At'[t] = At[t]
    BY <1>1, <1>2 DEF Status, At, Fired
  <2> QED
    BY <2>1, <2>2
<1>4. \A s \in Setters : AimedAt(s)' = AimedAt(s)
  BY <1>1, <1>2 DEF AimedAt, Here
<1>5. \A s \in Setters : Doing'[s] = Doing[s]
  BY <1>1, SetterSame
<1> QED
  BY <1>1, <1>3, <1>4, <1>5, ContractStutter

\* The steps of SetEvent and ResetEvent.
LEMMA ContractSet ==
  ASSUME EventsInv, NEW s \in Setters, NEW e \in Events, SetLock(s, e)
  PROVE  Contract!Set(s, e)
<1> USE DEF ovars, wvars
<1>0. TypeOK /\ OwnerInv
  BY DEF EventsInv
<1>1. /\ spc[s] = "idle" /\ Owner[e] = NoSetter
      /\ State' = [State EXCEPT ![e] = State[e] \/ e \in Manual] /\ event' = [event EXCEPT ![s] = e]
      /\ spc' = [spc EXCEPT ![s] = "scan"] /\ pos' = [pos EXCEPT ![s] = 1]
      /\ UNCHANGED <<RegisteredWaits, FiredEvent, wpc, cur, next, waitIndex>>
  BY DEF SetLock
<1>2. /\ event[s] = 0 /\ \A r \in Setters : event[r] # e
      /\ e \in 1..N
  BY <1>0, <1>1, OneSetter DEF OwnerInv, Events
<1>3. /\ event'[s] = e /\ spc'[s] = "scan"
      /\ \A r \in Setters : r # s => event'[r] = event[r] /\ spc'[r] = spc[r] /\ pos'[r] = pos[r]
  BY <1>0, <1>1 DEF TypeOK
<1>4. Status' = Status /\ At' = At
  BY <1>1, WaiterSame, Functions, SameValues
<1>5. Doing[s] = 0 /\ \A r \in Setters : Doing[r] # e
  BY <1>2 DEF Doing
<1>6. Doing' = [Doing EXCEPT ![s] = e]
  <2>1. Doing'[s] = e
    BY <1>3 DEF Doing
  <2>2. \A r \in Setters : r # s => Doing'[r] = Doing[r]
    BY <1>3, SetterSame
  <2> QED
    BY <2>1, <2>2, Functions, Replaced
<1>7. ASSUME NEW r \in Setters PROVE AimedAt(r)' = AimedAt(r)
  <2>1. CASE r = s
    BY <1>1, <1>3, <2>1 DEF AimedAt
  <2>2. CASE r # s
    BY <1>1, <1>3, <2>2 DEF AimedAt, Here
  <2> QED
    BY <2>1, <2>2
<1>8. Aim' = Aim
  BY <1>7, AimSame, Functions, SameValues
<1> QED
  BY <1>1, <1>4, <1>5, <1>6, <1>8 DEF Contract!Set, Contract!Manual, Manual, Events

\* The thread whose wait a setter has found going on.
LEMMA WhoWaits ==
  ASSUME EventsInv, NEW s \in Setters, event[s] # 0, pos[s] <= Len(RegisteredWaits[event[s]]),
         StillWaiting[Here(s)]
  PROVE  \E t \in Waiters : /\ cur[t] = Here(s) /\ wpc[t] \in {"register", "blocked"}
                            /\ Status[t] = "blocked" \/ (Status[t] = "look" /\ At[t] > event[s])
<1>0. WaitInv /\ AheadInv /\ TypeOK /\ N \in Nat
  BY EventsAssumption DEF EventsInv
<1>1. event[s] \in Events /\ Here(s) \in Objects /\ HoldsAt(Here(s), event[s])
  BY HereHeld
<1>2. PICK t \in Waiters : cur[t] = Here(s)
  BY <1>0, <1>1 DEF WaitInv
<1>3. wpc[t] = "register" \/ wpc[t] = "blocked"
  BY <1>0, <1>1, <1>2, Pc DEF WaitInv
<1>4. CASE wpc[t] = "register"
  <2>1. event[s] \in Places(cur[t])
    BY <1>1, <1>2 DEF Places
  <2>2. ~(event[s] >= next[t])
    BY <1>0, <1>1, <1>4, <2>1 DEF AheadInv
  <2>3. next[t] > event[s]
    BY <1>0, <1>1, <2>2 DEF TypeOK, Events
  <2> QED
    BY <1>2, <1>4, <2>3 DEF Status, At
<1>5. CASE wpc[t] = "blocked"
  <2>1. Fired(t) = 0
    BY <1>0, <1>2, <1>5 DEF WaitInv, Fired
  <2> QED
    BY <1>2, <1>5, <2>1 DEF Status
<1> QED
  BY <1>3, <1>4, <1>5

LEMMA ContractAims ==
  ASSUME EventsInv, EventsInv', NEW s \in Setters, SetScan(s), StillWaiting[Here(s)]
  PROVE  (\E t \in Waiters : Contract!Aim(s, t)) \/ UNCHANGED Contract!cvars
<1> USE DEF wvars
<1>0. TypeOK /\ OwnerInv /\ NoWaiter \notin Waiters
  BY EventsAssumption DEF EventsInv
<1>1. /\ spc[s] = "scan" /\ pos[s] <= Len(RegisteredWaits[event[s]]) /\ event[s] # 0
      /\ spc' = [spc EXCEPT ![s] = "wlock"]
      /\ UNCHANGED <<State, RegisteredWaits, FiredEvent, wpc, cur, next, waitIndex, event, pos>>
  BY <1>0 DEF SetScan, OwnerInv
<1>2. spc'[s] = "wlock" /\ \A r \in Setters : r # s => spc'[r] = spc[r]
  BY <1>0, <1>1 DEF TypeOK
<1>3. event[s] \in Events
  BY <1>1, HereHeld
<1>4. /\ \A t \in Waiters : Status'[t] = Status[t] /\ At'[t] = At[t]
      /\ \A r \in Setters : Doing'[r] = Doing[r]
  BY <1>1, <1>2, WaiterSame, SetterSame
<1>5. \A r \in Setters : r # s => AimedAt(r)' = AimedAt(r)
  BY <1>1, <1>2 DEF AimedAt, Here
<1>6. AimedAt(s) = {}
  BY <1>1 DEF AimedAt
<1>7. CASE event[s] \in Manual
  <2>1. PICK t \in Waiters : /\ cur[t] = Here(s) /\ wpc[t] \in {"register", "blocked"}
                             /\ Status[t] = "blocked" \/ (Status[t] = "look" /\ At[t] > event[s])
    BY <1>1, WhoWaits
  <2>2. t \in AimedAt(s)'
    BY <1>1, <1>2, <1>7, <2>1 DEF AimedAt, Here
  <2>3. Aim[s] = NoWaiter /\ Aim'[s] = t
    BY <1>6, <2>2, AimsAt, AimsAtNext
  <2>4. \A r \in Setters : r # s => Aim'[r] = Aim[r]
    BY <1>5, AimSame
  <2>5. Aim' = [Aim EXCEPT ![s] = t]
    BY <2>3, <2>4, Functions, Replaced
  <2>6. Status' = Status /\ At' = At /\ Doing' = Doing
    BY <1>4, Functions, SameValues
  <2>7. Doing[s] = event[s]
    BY <1>1 DEF Doing
  <2>8. Contract!Aim(s, t)
    BY <1>1, <1>7, <2>1, <2>3, <2>5, <2>6, <2>7
       DEF Contract!Aim, Contract!Undecided, Contract!Manual, Manual, Events
  <2> QED
    BY <2>8
<1>8. CASE event[s] \notin Manual
  <2>1. AimedAt(s)' = {}
    BY <1>1, <1>8 DEF AimedAt
  <2> QED
    BY <1>1, <1>4, <1>5, <1>6, <2>1, ContractStutter
<1> QED
  BY <1>7, <1>8

LEMMA ContractFires ==
  ASSUME EventsInv, EventsInv', NEW s \in Setters, SetFire(s)
  PROVE  Contract!Release(s) \/ (\E t \in Waiters : Contract!Give(s, t)) \/ UNCHANGED Contract!cvars
<1> USE DEF evars, wvars
<1>0. TypeOK /\ WaitInv /\ CurInv /\ NoWaiter \notin Waiters
  BY EventsAssumption DEF EventsInv
<1>a. PICK e \in Events, o \in Objects : e = event[s] /\ o = Here(s)
  BY Setting DEF SetFire
<1>1. /\ spc[s] = "wlock" /\ Holder[o] = NoWaiter
      /\ UNCHANGED <<State, RegisteredWaits, wpc, cur, next, waitIndex, event, pos>>
  BY <1>a DEF SetFire
<1>2. e # 0 /\ pos[s] <= Len(RegisteredWaits[event[s]]) /\ event[s] # 0
  BY <1>1, Setting DEF Events
<1>3. \A t \in Waiters : wpc[t] = "register" => cur[t] # o
  BY <1>0, <1>1 DEF WaitInv
<1>4. CASE e \in AutoReset /\ ~StillWaiting[o]
  <2>1. spc' = [spc EXCEPT ![s] = "skip"] /\ FiredEvent' = FiredEvent
    BY <1>4, <1>a DEF SetFire, EndedMeanwhile
  <2>2. spc'[s] = "skip" /\ \A r \in Setters : r # s => spc'[r] = spc[r]
    BY <1>0, <2>1 DEF TypeOK
  <2>3. /\ \A t \in Waiters : Status'[t] = Status[t] /\ At'[t] = At[t]
        /\ \A r \in Setters : Doing'[r] = Doing[r]
    BY <1>1, <2>1, <2>2, WaiterSame, SetterSame
  <2>4. AimedAt(s) = {} /\ AimedAt(s)' = {}
    BY <1>1, <1>4, <1>a DEF AimedAt, Manual
  <2>5. \A r \in Setters : r # s => AimedAt(r)' = AimedAt(r)
    BY <1>1, <2>2 DEF AimedAt, Here
  <2> QED
    BY <1>1, <2>3, <2>4, <2>5, ContractStutter
<1>5. CASE ~(e \in AutoReset /\ ~StillWaiting[o])
  <2>1. spc' = [spc EXCEPT ![s] = "signal"] /\ FiredEvent' = [FiredEvent EXCEPT ![o] = e]
    BY <1>5, <1>a DEF SetFire, EndedMeanwhile
  <2>2. /\ spc'[s] = "signal" /\ \A r \in Setters : r # s => spc'[r] = spc[r]
        /\ FiredEvent'[o] = e /\ \A x \in Objects : x # o => FiredEvent'[x] = FiredEvent[x]
    BY <1>0, <2>1 DEF TypeOK
  <2>3. ASSUME NEW u \in Waiters, ~(wpc[u] = "blocked" /\ cur[u] = o)
        PROVE  Status'[u] = Status[u] /\ At'[u] = At[u]
    <3>1. wpc[u] = "blocked" => FiredEvent'[cur'[u]] = FiredEvent[cur[u]]
      BY <1>1, <2>2, <2>3, Pc
    <3> QED
      BY <1>1, <3>1, WaiterSame
  <2>4. \A r \in Setters : r # s => Doing'[r] = Doing[r]
    BY <1>1, <2>2, SetterSame
  <2>5. \A r \in Setters : r # s => AimedAt(r)' = AimedAt(r)
    BY <1>1, <2>2 DEF AimedAt, Here
  <2>6. AimedAt(s)' = {}
    BY <2>2 DEF AimedAt
  <2>7. ASSUME NEW t \in Waiters, wpc[t] = "blocked", cur[t] = o
        PROVE  /\ Status' = [Status EXCEPT ![t] = "given"] /\ At' = [At EXCEPT ![t] = e]
               /\ Status[t] \in {"blocked", "given"}
    <3>1. Fired(t)' = e
      BY <1>1, <2>2, <2>7 DEF Fired
    <3>2. Status'[t] = "given" /\ At'[t] = e /\ Status[t] \in {"blocked", "given"}
      BY <1>1, <1>2, <2>7, <3>1 DEF Status, At
    <3>3. \A u \in Waiters : u # t => Status'[u] = Status[u] /\ At'[u] = At[u]
      BY <1>0, <2>3, <2>7, Pc DEF CurInv
    <3> QED
      BY <3>2, <3>3, Functions, Replaced
  <2>8. CASE e \in AutoReset
    <3>1. StillWaiting[o]
      BY <1>5, <2>8
    <3>2. PICK t \in Waiters : /\ cur[t] = o /\ wpc[t] \in {"register", "blocked"}
                               /\ Status[t] = "blocked" \/ (Status[t] = "look" /\ At[t] > event[s])
      BY <1>2, <1>a, <3>1, WhoWaits
    <3>3. wpc[t] = "blocked" /\ Status[t] = "blocked"
      BY <1>3, <3>2 DEF Status
    <3>4. Doing[s] = e /\ Doing'[s] = 0
      BY <1>1, <1>a, <2>2, <2>8 DEF Doing
    <3>5. Doing' = [Doing EXCEPT ![s] = 0]
      BY <2>4, <3>4, Functions, Replaced
    <3>6. AimedAt(s) = {}
      BY <1>a, <2>8 DEF AimedAt, Manual
    <3>7. Aim' = Aim
      BY <2>5, <2>6, <3>6, AimSame, Functions, SameValues
    <3>8. Contract!Give(s, t)
      BY <1>1, <2>7, <2>8, <3>2, <3>3, <3>4, <3>5, <3>7 DEF Contract!Give, Contract!GiveTo
    <3> QED
      BY <3>8
  <2>9. CASE e \notin AutoReset
    <3>1. Doing[s] = e /\ Doing'[s] = e
      BY <1>1, <1>a, <2>9 DEF Doing
    <3>2. Doing' = Doing
      BY <2>4, <3>1, Functions, SameValues
    <3>3. \A t \in Waiters : t \in AimedAt(s) <=> wpc[t] = "blocked" /\ cur[t] = o
      BY <1>1, <1>3, <1>a, <2>9 DEF AimedAt, Manual
    <3>4. CASE AimedAt(s) = {}
      <4>1. \A t \in Waiters : Status'[t] = Status[t] /\ At'[t] = At[t]
        BY <2>3, <3>3, <3>4
      <4> QED
        BY <1>1, <2>4, <2>5, <2>6, <3>1, <3>4, <4>1, ContractStutter
    <3>5. CASE AimedAt(s) # {}
      <4>1. PICK t \in Waiters : t \in AimedAt(s) /\ Aim[s] = t /\ t # NoWaiter
        <5>1. AimedAt(s) \subseteq Waiters
          BY DEF AimedAt
        <5> QED
          BY <3>5, <5>1, AimsAt
      <4>2. Aim'[s] = NoWaiter /\ \A r \in Setters : r # s => Aim'[r] = Aim[r]
        BY <2>5, <2>6, AimsAtNext, AimSame
      <4>3. Aim' = [Aim EXCEPT ![s] = NoWaiter]
        BY <4>2, Functions, Replaced
      <4>4. /\ Status' = [Status EXCEPT ![t] = "given"] /\ At' = [At EXCEPT ![t] = e]
            /\ Status[t] \in {"blocked", "given"}
        BY <2>7, <3>3, <4>1
      <4>5. Contract!Release(s)
        BY <1>1, <3>1, <3>2, <4>1, <4>3, <4>4 DEF Contract!Release, Contract!GiveTo
      <4> QED
        BY <4>5
    <3> QED
      BY <3>4, <3>5
  <2> QED
    BY <2>8, <2>9
<1> QED
  BY <1>4, <1>5

\* An entry left behind: the contract has no lists.
LEMMA ContractLeaves ==
  ASSUME EventsInv, NEW s \in Setters, spc[s] # "wlock", event[s] # 0, event[s] \in Events, Advance(s),
         \/ spc' = [spc EXCEPT ![s] = "scan"] /\ UNCHANGED event
         \/ event[s] \in AutoReset /\ spc[s] = "signal" /\ Unlock(s),
         spc[s] = "signal" => event[s] \in Manual \/ Unlock(s),
         UNCHANGED <<State, FiredEvent, wvars>>
  PROVE  UNCHANGED Contract!cvars
<1> USE DEF wvars
<1>0. TypeOK /\ OwnerInv
  BY DEF EventsInv
<1>1. /\ \A r \in Setters : r # s => event'[r] = event[r] /\ spc'[r] = spc[r] /\ pos'[r] = pos[r]
      /\ spc'[s] # "wlock" /\ \A r \in Setters : r # s => event[r] # event[s]
      /\ \A d \in Events : d # event[s] => RegisteredWaits'[d] = RegisteredWaits[d]
  <2>1. \A r \in Setters : r # s => event[r] # event[s]
    BY <1>0, OneSetter
  <2>2. /\ \A r \in Setters : r # s => event'[r] = event[r] /\ spc'[r] = spc[r]
        /\ spc'[s] # "wlock"
    BY <1>0 DEF Unlock, TypeOK
  <2>3. /\ \A r \in Setters : r # s => pos'[r] = pos[r]
        /\ \A d \in Events : d # event[s] => RegisteredWaits'[d] = RegisteredWaits[d]
    BY <1>0 DEF Advance, TypeOK
  <2> QED
    BY <2>1, <2>2, <2>3
<1>2. \A t \in Waiters : Status'[t] = Status[t] /\ At'[t] = At[t]
  BY WaiterSame
<1>3. Doing'[s] = Doing[s]
  <2>1. CASE spc' = [spc EXCEPT ![s] = "scan"] /\ UNCHANGED event
    <3>1. spc'[s] = "scan" /\ event'[s] = event[s]
      BY <1>0, <2>1 DEF TypeOK
    <3>2. spc[s] = "signal" => event[s] \in Manual
      BY <1>0, <3>1 DEF Unlock, TypeOK
    <3> QED
      BY <3>1, <3>2 DEF Doing, Manual
  <2>2. CASE event[s] \in AutoReset /\ spc[s] = "signal" /\ Unlock(s)
    <3>1. event'[s] = 0
      BY <1>0, <2>2 DEF Unlock, TypeOK
    <3> QED
      BY <2>2, <3>1 DEF Doing
  <2> QED
    BY <2>1, <2>2
<1>4. \A r \in Setters : r # s => Doing'[r] = Doing[r]
  BY <1>1, SetterSame
<1>5. ASSUME NEW r \in Setters PROVE AimedAt(r)' = AimedAt(r)
  <2>1. CASE r = s
    BY <1>1, <2>1 DEF AimedAt
  <2>2. CASE r # s
    <3>1. event[r] \in Manual => Here(r)' = Here(r)
      BY <1>1, <2>2 DEF Here, Manual
    <3> QED
      BY <1>1, <2>2, <3>1 DEF AimedAt
  <2> QED
    BY <2>1, <2>2
<1> QED
  BY <1>2, <1>3, <1>4, <1>5, ContractStutter

LEMMA ContractEnds ==
  ASSUME EventsInv, NEW s \in Setters, SetEnd(s)
  PROVE  Contract!Keep(s) \/ Contract!Finish(s)
<1> USE DEF ovars, wvars
<1>0. TypeOK /\ OwnerInv /\ ScanInv /\ WaitInv /\ UndecidedInv
  BY DEF EventsInv
<1>a. PICK e \in Events : e = event[s]
  BY <1>0 DEF SetEnd, OwnerInv, TypeOK, Events
<1>1. /\ spc[s] = "scan" /\ pos[s] > Len(RegisteredWaits[e])
      /\ State' = [State EXCEPT ![e] = TRUE] /\ RegisteredWaits' = [RegisteredWaits EXCEPT ![e] = <<>>]
      /\ event' = [event EXCEPT ![s] = 0] /\ spc' = [spc EXCEPT ![s] = "idle"]
      /\ UNCHANGED <<FiredEvent, wpc, cur, next, waitIndex, pos>>
  BY <1>a DEF SetEnd, Unlock
<1>2. /\ event'[s] = 0 /\ spc'[s] = "idle" /\ e # 0
      /\ \A r \in Setters : r # s => event'[r] = event[r] /\ spc'[r] = spc[r] /\ event[r] # e
      /\ \A d \in Events : d # e => RegisteredWaits'[d] = RegisteredWaits[d]
  <2>1. \A r \in Setters : r # s => event[r] # e
    BY <1>0, <1>a, OneSetter
  <2> QED
    BY <1>0, <1>1, <2>1 DEF TypeOK, Events
<1>3. Status' = Status /\ At' = At
  BY <1>1, WaiterSame, Functions, SameValues
<1>4. Doing[s] = e /\ Doing' = [Doing EXCEPT ![s] = 0]
  <2>1. Doing[s] = e /\ Doing'[s] = 0
    BY <1>1, <1>2, <1>a DEF Doing
  <2>2. \A r \in Setters : r # s => Doing'[r] = Doing[r]
    BY <1>2, SetterSame
  <2> QED
    BY <2>1, <2>2, Functions, Replaced
<1>5. ASSUME NEW r \in Setters PROVE AimedAt(r)' = AimedAt(r)
  <2>1. CASE r = s
    BY <1>1, <1>2, <2>1 DEF AimedAt
  <2>2. CASE r # s
    <3>1. event[r] \in Manual => Here(r)' = Here(r)
      BY <1>1, <1>2, <2>2 DEF Here, Manual
    <3> QED
      BY <1>1, <1>2, <2>2, <3>1 DEF AimedAt
  <2> QED
    BY <2>1, <2>2
<1>6. Aim' = Aim /\ Aim[s] = NoWaiter
  <2>1. AimedAt(s) = {}
    BY <1>1 DEF AimedAt
  <2> QED
    BY <1>5, <2>1, AimSame, AimsAt, Functions, SameValues
<1>7. \A t \in Waiters : ~Undecided(t, e)
  <2>1. RegisteredWaits[e] \in Seq(Objects) /\ pos[s] \in Nat
    BY <1>0 DEF TypeOK
  <2>2. \A i \in DOMAIN RegisteredWaits[e] : ~(i >= pos[s])
    BY <1>1, <2>1
  <2>3. \A x : ~HoldsAt(x, e)
    BY <1>a, <2>2 DEF HoldsAt
  <2> QED
    BY <1>0, <2>3 DEF UndecidedInv, Places
<1>8. Contract!Undecided(e) = {}
  <2> SUFFICES ASSUME NEW t \in Waiters, Status[t] = "blocked" \/ (Status[t] = "look" /\ At[t] > e)
               PROVE  Undecided(t, e)
    BY <1>7 DEF Contract!Undecided
  <2>1. wpc[t] \in {"register", "blocked"}
    BY DEF Status
  <2>2. CASE wpc[t] = "register"
    <3>1. Status[t] = "look" /\ At[t] = next[t]
      BY <2>2 DEF Status, At
    <3>2. e < next[t]
      BY <1>0, <3>1 DEF TypeOK, Events
    <3> QED
      BY <2>2, <3>2 DEF Undecided
  <2>3. CASE wpc[t] = "blocked"
    <3>1. Status[t] = IF Fired(t) = 0 THEN "blocked" ELSE "given"
      BY <2>3 DEF Status
    <3>2. Fired(t) = FiredEvent[cur[t]]
      BY <2>3 DEF Fired
    <3>3. FiredEvent[cur[t]] = 0
      BY <3>1, <3>2
    <3> QED
      BY <1>0, <2>3, <3>3 DEF WaitInv, Undecided
  <2> QED
    BY <2>1, <2>2, <2>3
<1>9. CASE e \in AutoReset
  BY <1>1, <1>3, <1>4, <1>6, <1>8, <1>9 DEF Contract!Keep
<1>10. CASE e \notin AutoReset
  <2>1. State' = State
    <3>1. State[e]
      BY <1>0, <1>2, <1>a, <1>10 DEF ScanInv, Manual
    <3> QED
      BY <1>0, <1>1, <3>1 DEF TypeOK
  <2> QED
    BY <1>1, <1>3, <1>4, <1>6, <1>8, <1>10, <2>1 DEF Contract!Finish, Contract!Manual, Events
<1> QED
  BY <1>9, <1>10

LEMMA ContractResets ==
  ASSUME EventsInv, NEW e \in Events, ResetEvent(e)
  PROVE  Contract!Reset(e)
<1> USE DEF ovars, wvars, svars
<1>1. /\ e \in Manual /\ \A s \in Setters : event[s] # e
      /\ State' = [State EXCEPT ![e] = FALSE]
      /\ UNCHANGED <<RegisteredWaits, FiredEvent, wpc, cur, next, waitIndex, spc, event, pos>>
  BY DEF ResetEvent
<1>2. Status' = Status /\ At' = At
  BY <1>1, WaiterSame, Functions, SameValues
<1>3. Doing' = Doing /\ \A s \in Setters : Doing[s] # e
  <2>1. \A s \in Setters : Doing[s] # e
    BY <1>1 DEF Doing, Events
  <2> QED
    BY <1>1, <2>1, SetterSame, Functions, SameValues
<1>4. Aim' = Aim
  <2>1. \A s \in Setters : AimedAt(s)' = AimedAt(s)
    BY <1>1 DEF AimedAt, Here
  <2> QED
    BY <2>1, AimSame, Functions, SameValues
<1> QED
  BY <1>1, <1>2, <1>3, <1>4 DEF Contract!Reset, Contract!Manual, Manual, Events

LEMMA ContractStart ==
  ASSUME Init
  PROVE  Contract!CInit
<1> DEFINE idle == [t \in Waiters |-> "idle"]
           none == [t \in Waiters |-> 0]
           free == [s \in Setters |-> 0]
           nobody == [s \in Setters |-> NoWaiter]
<1>1. /\ State = [e \in Events |-> FALSE] /\ waitIndex = none
      /\ \A t \in Waiters : wpc[t] = "idle"
      /\ \A s \in Setters : spc[s] = "idle" /\ event[s] = 0
  BY DEF Init
<1>2. \A t \in Waiters : Status[t] = "idle" /\ At[t] = 0
  BY <1>1 DEF Status, At, Fired
<1>3. \A s \in Setters : Doing[s] = 0 /\ Aim[s] = NoWaiter
  BY <1>1 DEF Doing, Aim, AimedAt
<1>4. Status = idle /\ At = none /\ Doing = free /\ Aim = nobody
  BY <1>2, <1>3, Functions
<1> QED
  BY <1>1, <1>4 DEF Contract!CInit, Events

\* What the thread pool relies on: a wait returns with an event that was set or given to
\* it, SetEvent gives an auto-reset event to one waiting thread or leaves it set, and a
\* manual-reset event releases every waiting thread; each step of the code is a step of
\* EventContract or changes nothing there (rpevents.cpp:200-330, 340-521).
THEOREM ImplementsContract == Spec => KeepsContract
<1>1. Init => Contract!CInit
  BY ContractStart
<1>2. EventsInv /\ EventsInv' /\ [Next]_vars => [Contract!CNext]_(Contract!cvars)
  <2> SUFFICES ASSUME EventsInv, EventsInv', [Next]_vars
               PROVE  Contract!CNext \/ UNCHANGED Contract!cvars
    OBVIOUS
  <2>1. ASSUME NEW t \in Waiters, WaitBegin(t) \/ WaitFinds(t) \/ WaitRegisters(t) \/ WaitWakes(t)
        PROVE  Contract!CNext
    BY <2>1, ContractBegin, ContractFinds, ContractRegisters, ContractWakes DEF Contract!CNext
  <2>2. ASSUME NEW t \in Waiters, WaitUnref(t) PROVE UNCHANGED Contract!cvars
    BY <2>2, ContractUnref
  <2>3. ASSUME NEW s \in Setters, NEW e \in Events, SetLock(s, e) PROVE Contract!CNext
    BY <2>3, ContractSet DEF Contract!CNext, Events
  <2>4. ASSUME NEW s \in Setters, SetScan(s), StillWaiting[Here(s)]
        PROVE  Contract!CNext \/ UNCHANGED Contract!cvars
    BY <2>4, ContractAims DEF Contract!CNext
  <2>5. ASSUME NEW s \in Setters, SetScan(s) /\ ~StillWaiting[Here(s)] PROVE UNCHANGED Contract!cvars
    <3>1. spc[s] = "scan" /\ event[s] # 0 /\ event[s] \in Events
      BY <2>5, HereHeld DEF SetScan, EventsInv, OwnerInv
    <3>2. spc' = [spc EXCEPT ![s] = "scan"]
      BY <2>5, <3>1 DEF SetScan, EventsInv, TypeOK
    <3> QED
      BY <2>5, <3>1, <3>2, ContractLeaves DEF SetScan
  <2>6. ASSUME NEW s \in Setters, SetSkip(s) PROVE UNCHANGED Contract!cvars
    <3>1. spc[s] = "skip" /\ event[s] # 0 /\ event[s] \in Events
      BY <2>6, Setting DEF SetSkip
    <3> QED
      BY <2>6, <3>1, ContractLeaves DEF SetSkip
  <2>7. ASSUME NEW s \in Setters, SetSignal(s) PROVE UNCHANGED Contract!cvars
    <3>1. spc[s] = "signal" /\ event[s] # 0 /\ event[s] \in Events
      BY <2>7, Setting DEF SetSignal
    <3>2. \/ event[s] \in AutoReset /\ Unlock(s)
          \/ event[s] \in Manual /\ spc' = [spc EXCEPT ![s] = "scan"] /\ UNCHANGED event
      BY <2>7, <3>1 DEF SetSignal, Manual
    <3> QED
      BY <2>7, <3>1, <3>2, ContractLeaves DEF SetSignal
  <2>8. ASSUME NEW s \in Setters, SetFire(s) PROVE Contract!CNext \/ UNCHANGED Contract!cvars
    BY <2>8, ContractFires DEF Contract!CNext
  <2>9. ASSUME NEW s \in Setters, SetEnd(s) PROVE Contract!CNext
    BY <2>9, ContractEnds DEF Contract!CNext
  <2>10. ASSUME NEW e \in Events, ResetEvent(e) PROVE Contract!CNext
    BY <2>10, ContractResets DEF Contract!CNext, Events
  <2>11. CASE UNCHANGED vars
    <3>1. UNCHANGED <<State, waitIndex, wpc, next, cur, FiredEvent, event, spc, pos, RegisteredWaits>>
      BY <2>11 DEF vars, evars, ovars, wvars, svars
    <3>2. \A s \in Setters : AimedAt(s)' = AimedAt(s)
      BY <3>1 DEF AimedAt, Here
    <3> QED
      BY <3>1, <3>2, WaiterSame, SetterSame, ContractStutter
  <2> QED
    BY <2>1, <2>2, <2>3, <2>4, <2>5, <2>6, <2>7, <2>8, <2>9, <2>10, <2>11 DEF Next, WaitStep, SetStep
<1> QED
  BY <1>1, <1>2, EventsInvariant, PTL DEF Spec, KeepsContract, Contract!CSpec
=============================================================================
