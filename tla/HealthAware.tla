---------------------------- MODULE HealthAware -----------------------------
(***************************************************************************)
(* health_aware.go: a HealthAware watches a slab allocator.  Its monitor   *)
(* goroutine wakes up on a ticker, reads the allocator's statistics, moves *)
(* the health state to the level they call for and tells the observers.    *)
(* Meanwhile programs allocate and release, observers come and go, and     *)
(* Close may be called; it does not stop the monitor.                      *)
(*                                                                         *)
(* The observers are a Go slice: a header (backing array and length) and   *)
(* the array it shares with every copy of the header.  Registering appends *)
(* and moves to a larger array when the old one is full; unregistering     *)
(* shifts the elements down in place.                                      *)
(***************************************************************************)
EXTENDS Integers, Sequences

CONSTANTS
  Observers,
  Capacity,           \* stats.TotalSlabs
  PressureThreshold, CriticalThreshold, FallbackThreshold, RecoveryThreshold,
                      \* config, in slabs in use
  FailRatio,          \* one failure in so many allocations calls for fallback
  MaxErrors,          \* AllocationErrors (bound of the model)
  MaxAllocs,          \* TotalAllocations (bound of the model)
  OverlapUnregister   \* whether UnregisterObserver may run during a notification

ASSUME HealthAssumption ==
  /\ Capacity \in Nat \ {0} /\ MaxErrors \in Nat /\ MaxAllocs \in Nat
  /\ {PressureThreshold, CriticalThreshold, FallbackThreshold, RecoveryThreshold} \subseteq Nat
  /\ FailRatio \in Nat /\ OverlapUnregister \in BOOLEAN

VARIABLES
  used, errors, allocs,   \* UsedSlabs, AllocationErrors, TotalAllocations
  state, previousState,
  closed,                 \* Close has stored since transitionTo last touched state
  last,                   \* the last transition: what transitionTo overwrote, what
                          \* it stored, whether Close stored between its two steps
  mon,                    \* the next step of the monitor
  current, target, prev,  \* its locals currentState, targetState, prevState
  arrays,                 \* the backing arrays of the observer slice
  header,                 \* the slice: which array, how many elements
  view, at,               \* the monitor's copy of the header, its loop index
  told,                   \* notifications sent to each observer in this loop
  due                     \* the observers registered since before this loop

stats  == <<used, errors, allocs>>
slice  == <<arrays, header>>
locals == <<current, target, prev>>
loop   == <<view, at, told, due>>
vars   == <<used, errors, allocs, state, previousState, closed, last, mon, current,
            target, prev, arrays, header, view, at, told, due>>

None   == "none"
States == {"healthy", "degraded", "survival", "fallback"}

(* The capacities append gives a growing slice. *)
Caps == <<0, 1, 2, 4>>

Registered == {arrays[header.array][i] : i \in 1 .. header.length}

TypeOK ==
  /\ used \in 0 .. Capacity /\ errors \in 0 .. MaxErrors /\ allocs \in 0 .. MaxAllocs
  /\ {state, previousState, current, target, prev} \subseteq States
  /\ closed \in BOOLEAN
  /\ last \in [from : States, to : States, crossed : BOOLEAN]
  /\ mon \in {"wait", "stats", "load", "store", "record", "notify", "tell"}
  /\ \A a \in DOMAIN Caps : arrays[a] \in [1 .. Caps[a] -> Observers \cup {None}]
  /\ header.array \in DOMAIN Caps /\ header.length \in 0 .. Caps[header.array]
  /\ view.array \in DOMAIN Caps /\ at \in Nat
  /\ told \in [Observers -> Nat] /\ due \subseteq Observers

Init ==
  /\ used = 0 /\ errors = 0 /\ allocs = 0
  /\ state = "healthy" /\ previousState = "healthy"
  /\ closed = FALSE
  /\ last = [from |-> "healthy", to |-> "healthy", crossed |-> FALSE]
  /\ mon = "wait"
  /\ current = "healthy" /\ target = "healthy" /\ prev = "healthy"
  /\ arrays = [a \in DOMAIN Caps |-> [i \in 1 .. Caps[a] |-> None]]
  /\ header = [array |-> 1, length |-> 0]
  /\ view = header /\ at = 0
  /\ told = [o \in Observers |-> 0] /\ due = {}

-----------------------------------------------------------------------------
(* The allocator underneath, used through HealthAware (which only ever     *)
(* calls AllocateFast and DeallocateFast) or directly.  Only Allocate adds *)
(* to TotalAllocations, and Stats reads all its counters in one step here. *)

AllocateFast ==
  /\ used < Capacity /\ used' = used + 1
  /\ UNCHANGED <<errors, allocs, state, previousState, closed, last, mon, locals, slice, loop>>

(* A call fails, to allocate (no slab, or an open circuit breaker) or to   *)
(* release: both are AllocationErrors of the statistics.                   *)
RecordError ==
  /\ errors < MaxErrors /\ errors' = errors + 1
  /\ UNCHANGED <<used, allocs, state, previousState, closed, last, mon, locals, slice, loop>>

Allocate ==
  /\ used < Capacity /\ allocs < MaxAllocs
  /\ used' = used + 1 /\ allocs' = allocs + 1
  /\ UNCHANGED <<errors, state, previousState, closed, last, mon, locals, slice, loop>>

DeallocateFast ==
  /\ used > 0 /\ used' = used - 1
  /\ UNCHANGED <<errors, allocs, state, previousState, closed, last, mon, locals, slice, loop>>

-----------------------------------------------------------------------------
(* checkAndTransition.  Whatever is below PressureThreshold goes straight  *)
(* to healthy: targetState starts as StateHealthy, and the recovery case   *)
(* sets it to the same.                                                    *)
Level ==
  IF used >= FallbackThreshold \/ FailRatio * errors > allocs + 1 THEN "fallback"
  ELSE IF used >= CriticalThreshold THEN "survival"
  ELSE IF used >= PressureThreshold THEN "degraded"
  ELSE "healthy"

(* The ticker fires: currentState is read ... *)
Check ==
  /\ mon = "wait" /\ mon' = "stats"
  /\ current' = state
  /\ UNCHANGED <<stats, state, previousState, closed, last, target, prev, slice, loop>>

(* mutant: the level is compared with the state before the last transition *)
StatsAgainstPrevious ==
  /\ mon = "stats"
  /\ target' = Level
  /\ mon' = IF Level = previousState THEN "wait" ELSE "load"
  /\ UNCHANGED <<stats, state, previousState, closed, last, current, prev, slice, loop>>

(* ... then the statistics, and they are compared. *)
ReadStats ==
  /\ mon = "stats"
  /\ target' = Level
  /\ mon' = IF Level = current THEN "wait" ELSE "load"
  /\ UNCHANGED <<stats, state, previousState, closed, last, current, prev, slice, loop>>

(* mutant: transitionTo reads the state it leaves after storing the new one *)
LoadLate ==
  /\ mon = "load" /\ mon' = "store"
  /\ prev' = target /\ closed' = FALSE
  /\ UNCHANGED <<stats, state, previousState, last, current, target, slice, loop>>

(* transitionTo: prevState := state.Load() *)
LoadPrev ==
  /\ mon = "load" /\ mon' = "store"
  /\ prev' = state /\ closed' = FALSE
  /\ UNCHANGED <<stats, state, previousState, last, current, target, slice, loop>>

(* state.Store *)
StoreState ==
  /\ mon = "store" /\ mon' = "record"
  /\ state' = target /\ closed' = FALSE
  /\ last' = [from |-> state, to |-> target, crossed |-> closed]
  /\ UNCHANGED <<stats, previousState, locals, slice, loop>>

(* previousState.Store *)
StorePrevious ==
  /\ mon = "record" /\ mon' = "notify"
  /\ previousState' = prev
  /\ UNCHANGED <<stats, state, closed, last, locals, slice, loop>>

(* mutant: the loop starts at the second observer *)
NotifyFromSecond ==
  /\ mon = "notify" /\ mon' = "tell"
  /\ view' = header /\ at' = 2
  /\ told' = [o \in Observers |-> 0] /\ due' = Registered
  /\ UNCHANGED <<stats, state, previousState, closed, last, locals, slice>>

(* notifyStateChange: the header is copied under the read lock ... *)
NotifyStart ==
  /\ mon = "notify" /\ mon' = "tell"
  /\ view' = header /\ at' = 1
  /\ told' = [o \in Observers |-> 0] /\ due' = Registered
  /\ UNCHANGED <<stats, state, previousState, closed, last, locals, slice>>

(* ... and the elements are read, and a goroutine started for each, without *)
Tell ==
  /\ mon = "tell" /\ at <= view.length
  /\ told' = [told EXCEPT ![arrays[view.array][at]] = @ + 1]
  /\ at' = at + 1
  /\ UNCHANGED <<stats, state, previousState, closed, last, mon, locals, slice, view, due>>

(* The locals of the calls end here. *)
NotifyEnd ==
  /\ mon = "tell" /\ at > view.length
  /\ mon' = "wait"
  /\ current' = "healthy" /\ target' = "healthy" /\ prev' = "healthy"
  /\ view' = [array |-> 1, length |-> 0] /\ at' = 0
  /\ told' = [o \in Observers |-> 0] /\ due' = {}
  /\ UNCHANGED <<stats, state, previousState, closed, last, slice>>

-----------------------------------------------------------------------------
(* RegisterObserver: append; the program registers an observer once. *)
RegisterObserver(o) ==
  LET n    == header.length + 1
      full == header.length = Caps[header.array]
      a    == IF full THEN header.array + 1 ELSE header.array
      old  == arrays[header.array]
  IN  /\ o \notin Registered
      /\ a \in DOMAIN Caps
      /\ arrays' = [arrays EXCEPT ![a] = [i \in 1 .. Caps[a] |->
                      IF i = n THEN o
                      ELSE IF full THEN (IF i < n THEN old[i] ELSE None) ELSE old[i]]]
      /\ header' = [array |-> a, length |-> n]
      /\ UNCHANGED <<stats, state, previousState, closed, last, mon, locals, loop>>

(* UnregisterObserver: the elements behind it move down one place. *)
UnregisterObserver(o) ==
  /\ OverlapUnregister \/ mon # "tell"
  /\ \E k \in 1 .. header.length :
       /\ arrays[header.array][k] = o
       /\ arrays' = [arrays EXCEPT ![header.array] =
                       [i \in DOMAIN @ |-> IF k <= i /\ i < header.length
                                             THEN @[i + 1] ELSE @[i]]]
  /\ header' = [header EXCEPT !.length = @ - 1]
  /\ due' = due \ {o}
  /\ UNCHANGED <<stats, state, previousState, closed, last, mon, locals, view, at, told>>

(* Close stores the state and closes the allocator; the monitor goes on. *)
Close ==
  /\ state' = "fallback" /\ closed' = TRUE
  /\ UNCHANGED <<stats, previousState, last, mon, locals, slice, loop>>

Monitor ==
  \/ Check \/ ReadStats \/ LoadPrev \/ StoreState \/ StorePrevious
  \/ NotifyStart \/ Tell \/ NotifyEnd

Next ==
  \/ Monitor
  \/ AllocateFast \/ RecordError \/ Allocate \/ DeallocateFast
  \/ \E o \in Observers : RegisterObserver(o) \/ UnregisterObserver(o)
  \/ Close

Spec == Init /\ [][Next]_vars

(* The ticker keeps firing and the monitor keeps running. *)
FairSpec == Spec /\ WF_vars(Monitor)

-----------------------------------------------------------------------------
(* An observer registered when the monitor begins to tell a state change,  *)
(* and still registered when it has gone through the list, is told of the  *)
(* change once (notifyStateChange against RegisterObserver growing or      *)
(* filling the array, and UnregisterObserver between two changes).         *)
ToldOnce ==
  mon = "tell" /\ at > view.length => \A o \in due : told[o] = 1

(* PreviousState and State, read when no transition is half recorded, are  *)
(* what transitionTo last overwrote and what it put there, in an open      *)
(* allocator and in a closed one.  Close, which records no transition, can *)
(* come between: only its own store is then missing, from the one if it    *)
(* fell between transitionTo's load and store, or from the other if it     *)
(* came afterwards (transitionTo, Close).                                  *)
PairIsTransition ==
  mon \notin {"store", "record"} =>
    /\ previousState = last.from \/ (last.crossed /\ last.from = "fallback")
    /\ state = last.to \/ (closed /\ state = "fallback")

(* "PreviousState returns the health state before the last transition".    *)
(* transitionTo departs from it: it reads the state it leaves before it    *)
(* stores the new one, and Close may store between the two.                *)
PreviousStateIsPrior ==
  mon # "record" => previousState = last.from

(* The monitor follows the load: when the statistics come to rest, the     *)
(* state comes to rest at the level they call for, whatever it had read    *)
(* before and also if Close stored another one.                            *)
FollowsLoad ==
  \A s \in States : <>[](Level = s) /\ <>[][~Close]_vars => <>[](state = s)

(* "60% capacity allows recovery": once the slabs are given back the state *)
(* returns to healthy.  checkAndTransition departs from it: errors are     *)
(* counted for ever, and enough of them keep the state at fallback.        *)
RecoveryAllowed ==
  <>[](used < RecoveryThreshold) => []<>(state = "healthy")
=============================================================================
