-------------------------- MODULE MonitoringProof ---------------------------
(***************************************************************************)
(* Proofs about the parts that watch an allocator: HealthAware, for any    *)
(* capacity, thresholds and observers, and the books of LeakDetector, for  *)
(* any goroutines, stacks and sample rate, and its ring of state changes,  *)
(* of any size, whichever scene is played.                                 *)
(***************************************************************************)
EXTENDS Monitoring, CountingLemmas

-----------------------------------------------------------------------------
(* The health state. *)

(* Only the monitor and Close write the state.  What transitionTo loaded   *)
(* is true until it stores, unless Close stored in between, and then the   *)
(* state it overwrites is the one that Close stored; what it records last  *)
(* is what it loaded.                                                      *)
PairStands == previousState = last.from \/ (last.crossed /\ last.from = "fallback")
StateStands == state = last.to \/ (closed /\ state = "fallback")
InStep ==
  \/ mon \in {"wait", "stats", "load", "notify", "tell"} /\ PairStands /\ StateStands
  \/ mon = "store" /\ (prev = state \/ (closed /\ state = "fallback"))
  \/ /\ mon = "record" /\ StateStands
     /\ prev = last.from \/ (last.crossed /\ last.from = "fallback")

(* The inductive invariant. *)
HealthInv ==
  /\ closed \in BOOLEAN /\ last.crossed \in BOOLEAN
  /\ InStep

(* Steps of the program: only Close touches what the monitor works with. *)
LEMMA ProgramKeeps ==
  ASSUME HealthInv,
         \/ AllocateFast \/ RecordError \/ Allocate \/ DeallocateFast \/ Close
         \/ \E o \in Observers : RegisterObserver(o) \/ UnregisterObserver(o)
  PROVE  HealthInv'
<1> USE DEF HealthInv, InStep, PairStands, StateStands, locals
<1>1. CASE Close
  BY <1>1 DEF Close
<1>2. CASE AllocateFast \/ RecordError \/ Allocate \/ DeallocateFast
  BY <1>2 DEF AllocateFast, RecordError, Allocate, DeallocateFast
<1>3. ASSUME NEW o \in Observers, RegisterObserver(o) \/ UnregisterObserver(o)
      PROVE  HealthInv'
  BY <1>3 DEF RegisterObserver, UnregisterObserver
<1> QED
  BY <1>1, <1>2, <1>3

(* Steps of checkAndTransition, transitionTo and notifyStateChange. *)
LEMMA MonitorKeeps == ASSUME HealthInv, Monitor PROVE HealthInv'
<1> USE DEF HealthInv, InStep, PairStands, StateStands, locals
<1>1. CASE Check
  BY <1>1 DEF Check
<1>2. CASE ReadStats
  BY <1>2 DEF ReadStats
<1>3. CASE LoadPrev
  BY <1>3 DEF LoadPrev
<1>4. CASE StoreState
  BY <1>4 DEF StoreState
<1>5. CASE StorePrevious
  BY <1>5 DEF StorePrevious
<1>6. CASE NotifyStart
  BY <1>6 DEF NotifyStart
<1>7. CASE Tell
  BY <1>7 DEF Tell
<1>8. CASE NotifyEnd
  BY <1>8 DEF NotifyEnd
<1> QED
  BY <1>1, <1>2, <1>3, <1>4, <1>5, <1>6, <1>7, <1>8 DEF Monitor

(* PreviousState and State are the two ends of the last transition, in an  *)
(* open allocator and in a closed one, but for the store of a Close that   *)
(* fell inside or behind it (transitionTo, Close).                         *)
THEOREM PairsAreTransitions == Spec => []PairIsTransition
<1>1. Init => HealthInv
  <2> SUFFICES ASSUME Init PROVE HealthInv
    OBVIOUS
  <2>1. /\ state = "healthy" /\ previousState = "healthy" /\ mon = "wait" /\ closed = FALSE
        /\ last = [from |-> "healthy", to |-> "healthy", crossed |-> FALSE]
    BY DEF Init
  <2> QED
    BY <2>1 DEF HealthInv, InStep, PairStands, StateStands
<1>2. HealthInv /\ [Next]_vars => HealthInv'
  <2>1. ASSUME HealthInv, UNCHANGED vars PROVE HealthInv'
    BY <2>1 DEF vars, HealthInv, InStep, PairStands, StateStands
  <2> QED
    BY <2>1, ProgramKeeps, MonitorKeeps DEF Next
<1>3. HealthInv => PairIsTransition
  BY DEF HealthInv, InStep, PairStands, StateStands, PairIsTransition
<1> QED
  BY <1>1, <1>2, <1>3, PTL DEF Spec

-----------------------------------------------------------------------------
(* The observers. *)

(* The capacities: each array is larger than the one before. *)
LEMMA CapsGrow ==
  /\ DOMAIN Caps = 1 .. 4 /\ \A a \in 1 .. 4 : Caps[a] \in Nat
  /\ Caps[1] = 0 /\ \A a \in 1 .. 3 : Caps[a] < Caps[a + 1]
  BY DEF Caps

(* The slice header is a part of an array, whose elements are the          *)
(* observers registered, each once.                                        *)
SliceOK ==
  /\ header \in [array : 1 .. 4, length : Nat]
  /\ header.length <= Caps[header.array]
  /\ DOMAIN arrays = 1 .. 4
  /\ \A a \in 1 .. 4 : DOMAIN arrays[a] = 1 .. Caps[a]
  /\ \A i \in 1 .. header.length : arrays[header.array][i] \in Observers
  /\ \A i, j \in 1 .. header.length :
       arrays[header.array][i] = arrays[header.array][j] => i = j

(* What the monitor's copy of the header shows. *)
Viewed(i) == arrays[view.array][i]

(* While the monitor tells the observers its view does not change under    *)
(* it: whoever registers writes behind the view or to a larger array.      *)
(* Those before index at have been told once, the others not yet, and      *)
(* whoever is due is in the view.                                          *)
TellingOK ==
  mon = "tell" =>
    /\ view \in [array : 1 .. 4, length : Nat]
    /\ view.length <= Caps[view.array] /\ view.array <= header.array
    /\ view.array = header.array => view.length <= header.length
    /\ at \in 1 .. view.length + 1
    /\ \A i \in 1 .. view.length : Viewed(i) \in Observers
    /\ \A i, j \in 1 .. view.length : Viewed(i) = Viewed(j) => i = j
    /\ told \in [Observers -> Nat]
    /\ \A i \in 1 .. view.length : told[Viewed(i)] = IF i < at THEN 1 ELSE 0
    /\ \A o \in due : \E i \in 1 .. view.length : Viewed(i) = o

(* The inductive invariant. *)
ObserversInv == SliceOK /\ TellingOK

(* At first nobody is observing. *)
LEMMA InitObservers == Init => ObserversInv
  BY CapsGrow DEF Init, ObserversInv, SliceOK, TellingOK

(* append: behind every view of the array, or in a larger array. *)
LEMMA RegisterKeeps ==
  ASSUME ObserversInv, NEW o \in Observers, RegisterObserver(o)
  PROVE  ObserversInv'
<1> DEFINE n    == header.length + 1
           full == header.length = Caps[header.array]
           a    == IF full THEN header.array + 1 ELSE header.array
           old  == arrays[header.array]
           new  == [i \in 1 .. Caps[a] |->
                      IF i = n THEN o
                      ELSE IF full THEN (IF i < n THEN old[i] ELSE None) ELSE old[i]]
<1>1. /\ o \notin Registered /\ a \in 1 .. 4
      /\ arrays' = [arrays EXCEPT ![a] = new]
      /\ header' = [array |-> a, length |-> n]
      /\ UNCHANGED <<mon, view, at, told, due>>
  BY CapsGrow DEF RegisterObserver, loop
<1>2. SliceOK /\ TellingOK
  BY DEF ObserversInv
<1>3. header.length \in Nat /\ header.array \in 1 .. 4 /\ header.length <= Caps[header.array]
  BY <1>2 DEF SliceOK
<1>4. n <= Caps[a] /\ n \in Nat /\ Caps[a] \in Nat
  BY <1>1, <1>3, CapsGrow
<1>5. ASSUME NEW i \in 1 .. n PROVE new[i] = IF i = n THEN o ELSE old[i]
  BY <1>4
<1>6. DOMAIN new = 1 .. Caps[a]
  OBVIOUS
<1> HIDE DEF new
<1>7. /\ DOMAIN arrays' = 1 .. 4 /\ arrays'[a] = new
      /\ \A b \in 1 .. 4 : b # a => arrays'[b] = arrays[b]
  BY <1>1, <1>2 DEF SliceOK
<1>8. SliceOK'
  <2>1. header'.array = a /\ header'.length = n /\ header' \in [array : 1 .. 4, length : Nat]
    BY <1>1, <1>4
  <2>2. \A b \in 1 .. 4 : DOMAIN arrays'[b] = 1 .. Caps[b]
    BY <1>2, <1>6, <1>7 DEF SliceOK
  <2>3. \A i \in 1 .. header.length :
          /\ old[i] \in Observers /\ old[i] # o
          /\ \A j \in 1 .. header.length : old[i] = old[j] => i = j
    BY <1>1, <1>2 DEF SliceOK, Registered
  <2>4. \A i \in 1 .. n : i = n \/ i \in 1 .. header.length
    BY <1>3
  <2>5. \A i \in 1 .. n : new[i] \in Observers
    BY <1>5, <2>3, <2>4
  <2>6. \A i, j \in 1 .. n : new[i] = new[j] => i = j
    BY <1>5, <2>3, <2>4
  <2> HIDE DEF n, a
  <2> QED
    BY <1>4, <1>7, <2>1, <2>2, <2>5, <2>6 DEF SliceOK
<1>9. TellingOK'
  <2> SUFFICES ASSUME mon' = "tell" PROVE TellingOK'
    BY DEF TellingOK
  <2>1. /\ view \in [array : 1 .. 4, length : Nat]
        /\ view.length <= Caps[view.array] /\ view.array <= header.array
        /\ view.array = header.array => view.length <= header.length
    BY <1>1, <1>2 DEF TellingOK
  <2>2. ASSUME NEW i \in 1 .. view.length PROVE arrays'[view.array][i] = arrays[view.array][i]
    <3>1. CASE view.array = a
      <4>1. ~full /\ a = header.array
        BY <1>3, <2>1, <3>1
      <4>2. i \in 1 .. n /\ i # n
        BY <1>3, <2>1, <3>1, <4>1
      <4> QED
        BY <1>5, <1>7, <3>1, <4>1, <4>2
    <3>2. CASE view.array # a
      BY <1>7, <2>1, <3>2
    <3> QED
      BY <3>1, <3>2
  <2>3. view.array <= a /\ (view.array = a => view.length <= n)
    BY <1>3, <2>1
  <2> HIDE DEF n, a
  <2> QED
    BY <1>1, <1>2, <2>2, <2>3 DEF TellingOK, Viewed
<1> QED
  BY <1>8, <1>9 DEF ObserversInv

(* The elements move down one place, with nobody reading them. *)
LEMMA UnregisterKeeps ==
  ASSUME ~OverlapUnregister, ObserversInv, NEW o \in Observers, UnregisterObserver(o)
  PROVE  ObserversInv'
<1>1. PICK k \in 1 .. header.length :
        /\ arrays[header.array][k] = o
        /\ arrays' = [arrays EXCEPT ![header.array] =
                        [i \in DOMAIN @ |-> IF k <= i /\ i < header.length
                                              THEN @[i + 1] ELSE @[i]]]
  BY DEF UnregisterObserver
<1>2. mon # "tell" /\ mon' = mon /\ header' = [header EXCEPT !.length = @ - 1]
  BY DEF UnregisterObserver
<1> DEFINE old == arrays[header.array]
           new == [i \in DOMAIN old |-> IF k <= i /\ i < header.length
                                          THEN old[i + 1] ELSE old[i]]
<1>3. SliceOK
  BY DEF ObserversInv
<1>4. /\ header \in [array : 1 .. 4, length : Nat] /\ header.length \in Nat
      /\ header.array \in 1 .. 4 /\ header.length <= Caps[header.array]
      /\ DOMAIN arrays = 1 .. 4 /\ DOMAIN old = 1 .. Caps[header.array]
      /\ Caps[header.array] \in Nat
  BY <1>3, CapsGrow DEF SliceOK
<1>5. /\ arrays'[header.array] = new /\ DOMAIN arrays' = 1 .. 4
      /\ \A b \in 1 .. 4 : b # header.array => arrays'[b] = arrays[b]
  BY <1>1, <1>4
<1>6. /\ header' \in [array : 1 .. 4, length : Nat]
      /\ header'.array = header.array /\ header'.length = header.length - 1
  BY <1>1, <1>2, <1>4
<1>7. ASSUME NEW i \in 1 .. header.length - 1
      PROVE  /\ i \in 1 .. header.length /\ i + 1 \in 1 .. header.length
             /\ new[i] = IF k <= i THEN old[i + 1] ELSE old[i]
  BY <1>4
<1>8. DOMAIN new = DOMAIN old
  OBVIOUS
<1> HIDE DEF new
<1>9. \A i \in 1 .. header.length :
        /\ old[i] \in Observers
        /\ \A j \in 1 .. header.length : old[i] = old[j] => i = j
  BY <1>3 DEF SliceOK
<1>10. \A i \in 1 .. header.length - 1 : new[i] \in Observers
  BY <1>7, <1>9
<1>11. ASSUME NEW i \in 1 .. header.length - 1, NEW j \in 1 .. header.length - 1,
              new[i] = new[j]
       PROVE  i = j
  BY <1>1, <1>4, <1>7, <1>9, <1>11
<1>12. \A b \in 1 .. 4 : DOMAIN arrays'[b] = 1 .. Caps[b]
  BY <1>3, <1>4, <1>5, <1>8 DEF SliceOK
<1>13. SliceOK'
  BY <1>4, <1>5, <1>6, <1>10, <1>11, <1>12 DEF SliceOK
<1> QED
  BY <1>2, <1>13 DEF ObserversInv, TellingOK

(* The steps of the notification. *)
LEMMA NotificationKeeps ==
  ASSUME ObserversInv, NotifyStart \/ Tell \/ NotifyEnd
  PROVE  ObserversInv'
<1>1. SliceOK'
  BY DEF ObserversInv, SliceOK, NotifyStart, Tell, NotifyEnd, slice
<1>2. CASE NotifyStart
  <2>1. /\ mon' = "tell" /\ view' = header /\ at' = 1 /\ arrays' = arrays
        /\ header' = header
        /\ told' = [o \in Observers |-> 0] /\ due' = Registered
    BY <1>2 DEF NotifyStart, slice
  <2>2. TellingOK'
    BY <2>1 DEF ObserversInv, SliceOK, TellingOK, Viewed, Registered
  <2> QED
    BY <1>1, <2>2 DEF ObserversInv
<1>3. CASE Tell
  <2>1. /\ mon = "tell" /\ at <= view.length /\ at' = at + 1
        /\ told' = [told EXCEPT ![Viewed(at)] = @ + 1]
        /\ UNCHANGED <<arrays, header, mon, view, due>>
    BY <1>3 DEF Tell, slice, Viewed
  <2>2. TellingOK /\ at \in 1 .. view.length /\ view.length \in Nat
    BY <2>1 DEF ObserversInv, TellingOK
  <2>3. told' \in [Observers -> Nat]
    BY <2>1, <2>2 DEF TellingOK
  <2>4. ASSUME NEW i \in 1 .. view.length
        PROVE  told'[Viewed(i)] = IF i < at + 1 THEN 1 ELSE 0
    <3>1. Viewed(i) \in Observers /\ Viewed(at) \in Observers /\ told \in [Observers -> Nat]
          /\ told[Viewed(i)] = IF i < at THEN 1 ELSE 0
      BY <2>1, <2>2 DEF TellingOK
    <3>2. CASE i = at
      BY <2>1, <2>2, <3>1, <3>2
    <3>3. CASE i # at
      <4>1. Viewed(i) # Viewed(at)
        BY <2>1, <2>2, <3>3 DEF TellingOK
      <4> QED
        BY <2>1, <2>2, <3>1, <3>3, <4>1
    <3> QED
      BY <3>2, <3>3
  <2>5. TellingOK'
    BY <2>1, <2>2, <2>3, <2>4 DEF TellingOK, Viewed
  <2> QED
    BY <1>1, <2>5 DEF ObserversInv
<1>4. CASE NotifyEnd
  BY <1>1, <1>4 DEF NotifyEnd, ObserversInv, TellingOK
<1> QED
  BY <1>2, <1>3, <1>4

(* Every step of the observers keeps it. *)
LEMMA ObserversStep ==
  ASSUME ~OverlapUnregister, ObserversInv, [Next]_vars PROVE ObserversInv'
<1>1. CASE \E o \in Observers : RegisterObserver(o) \/ UnregisterObserver(o)
  BY <1>1, RegisterKeeps, UnregisterKeeps
<1>2. CASE NotifyStart \/ Tell \/ NotifyEnd
  BY <1>2, NotificationKeeps
<1>3. CASE \/ Check \/ ReadStats \/ LoadPrev \/ StoreState \/ StorePrevious
           \/ AllocateFast \/ RecordError \/ Allocate \/ DeallocateFast \/ Close
           \/ UNCHANGED vars
  <2>1. UNCHANGED <<arrays, header, view, at, told, due>>
        /\ (mon' = "tell" => mon = "tell")
    BY <1>3 DEF Check, ReadStats, LoadPrev, StoreState, StorePrevious, AllocateFast,
                RecordError, Allocate, DeallocateFast, Close, slice, loop, vars
  <2>2. SliceOK' /\ TellingOK'
    BY <2>1 DEF ObserversInv, SliceOK, TellingOK, Viewed
  <2> QED
    BY <2>2 DEF ObserversInv
<1> QED
  BY <1>1, <1>2, <1>3 DEF Next, Monitor

(* ToldOnce: an observer registered when a notification begins, and not    *)
(* taken out, is told once, however many register meanwhile and whether    *)
(* the array grows under it or not (notifyStateChange, RegisterObserver).  *)
THEOREM ObserversToldOnce == ASSUME ~OverlapUnregister PROVE Spec => []ToldOnce
<1>1. ObserversInv => ToldOnce
  <2> SUFFICES ASSUME ObserversInv, mon = "tell", at > view.length, NEW o \in due
               PROVE  told[o] = 1
    BY DEF ToldOnce
  <2>1. PICK i \in 1 .. view.length : Viewed(i) = o /\ i < at
    BY DEF ObserversInv, TellingOK
  <2> QED
    BY <2>1 DEF ObserversInv, TellingOK
<1> QED
  BY InitObservers, ObserversStep, <1>1, PTL DEF Spec

-----------------------------------------------------------------------------
(* The books of the leak detector. *)

USE DEF L!counter

(* Types, and what a caller needs at each of its steps. *)
Booking == {"load", "create", "count", "track", "total"}
Steps   == {"idle", "sample", "leaks"} \cup Booking

(* The types of the books and of the calls that write them. *)
BooksType ==
  /\ sampleCounter \in 0 .. CounterSize - 1 /\ wraps \in Nat
  /\ tracked \subseteq Stacks
  /\ netCount \in [Stacks -> Nat]
  /\ allocCount \in [Stacks -> Nat] /\ deallocCount \in [Stacks -> Nat]
  /\ uniqueStacks \in Nat /\ totalAllocs \in Nat /\ totalDeallocs \in Nat
  /\ totalLeaks \in Int
  /\ pc \in [Callers -> Steps]
  /\ kind \in [Callers -> {"alloc", "dealloc", "none"}]
  /\ stack \in [Callers -> Stacks \cup {"none"}]
  /\ \A c \in Callers :
       /\ pc[c] # "idle" => kind[c] \in {"alloc", "dealloc"}
       /\ pc[c] \in {"load", "create", "count", "track"} => stack[c] \in Stacks

(* The callers at a step. *)
Creating == {c \in Callers : pc[c] = "count"}
Booked   == {c \in Callers : pc[c] \in Booking}

(* The books, entry by entry. *)
SetsCounted == Cardinality(tracked) = uniqueStacks + Cardinality(Creating)
TotalsKept ==
  /\ SumOf(allocCount, Stacks) = totalAllocs + L!At("total", "alloc")
  /\ SumOf(deallocCount, Stacks) = totalDeallocs + L!At("total", "dealloc")
LeaksKept ==
  totalLeaks = (totalAllocs - L!At("leaks", "alloc"))
                 - (totalDeallocs - L!At("leaks", "dealloc"))
NetKept == \A h \in Stacks : netCount[h] >= allocCount[h] - deallocCount[h]

(* What is booked while the counter goes once through its values: zero and *)
(* every multiple of the rate among the others.                            *)
Share == ((CounterSize - 1) \div SampleRate) + 1

(* What is booked is known exactly. *)
ToBook == wraps * Share + (sampleCounter \div SampleRate)
SampledKept == totalAllocs + totalDeallocs + Cardinality(Booked) = ToBook

(* The inductive invariant. *)
BooksInv ==
  BooksType /\ SetsCounted /\ TotalsKept /\ LeaksKept /\ NetKept /\ SampledKept

(* The detector's own instances of the library's operators. *)
LEMMA DetectorCardinality == \A S : L!Cardinality(S) = Cardinality(S)
  BY DEF L!Cardinality, Cardinality

(* The sum that TotalsMatchSets takes is the sum of CountingLemmas. *)
LEMMA DetectorSum ==
  ASSUME NEW S, IsFiniteSet(S), NEW w \in [S -> Nat]
  PROVE  L!SumFunction(w) = SumOf(w, S)
<1> DEFINE it == CHOOSE it : SumsUp(it, w, DOMAIN w)
<1>0. DOMAIN w = S
  OBVIOUS
<1>1. SumsUp(it, w, DOMAIN w)
  <2>1. \E g : SumsUp(g, w, DOMAIN w)
    BY <1>0, SumSolves
  <2> QED
    BY <2>1
<1>2. it[S] = SumOf(w, S)
  <2> HIDE DEF it
  <2> QED
    BY <1>0, <1>1, SumSolves
<1>3. L!SumFunction(w) = it[DOMAIN w]
  BY DEF L!SumFunction, L!SumFunctionOnSet, L!FoldFunctionOnSet, L!MapThenFoldSet, SumsUp
<1> QED
  BY <1>0, <1>2, <1>3

(* Finite sets of callers. *)
LEMMA CallersFinite ==
  /\ IsFiniteSet(Callers) /\ IsFiniteSet(Stacks) /\ SampleRate \in Nat \ {0}
  /\ CounterSize \in Nat \ {0}
  /\ IsFiniteSet(Creating) /\ Cardinality(Creating) \in Nat
  /\ IsFiniteSet(Booked) /\ Cardinality(Booked) \in Nat
  /\ \A l, k : L!At(l, k) \in Nat
<1>1. IsFiniteSet(Callers) /\ IsFiniteSet(Stacks) /\ SampleRate \in Nat \ {0}
      /\ CounterSize \in Nat \ {0}
  BY MonitoringAssumption DEF MonitoringAssumption
<1>2. IsFiniteSet(Creating) /\ IsFiniteSet(Booked)
  BY <1>1, FS_Subset DEF Creating, Booked
<1>3. ASSUME NEW l, NEW k PROVE L!At(l, k) \in Nat
  <2>1. IsFiniteSet({c \in Callers : pc[c] = l /\ kind[c] = k})
    BY <1>1, FS_Subset
  <2>2. Cardinality({c \in Callers : pc[c] = l /\ kind[c] = k}) \in Nat
    BY <2>1, FS_CardinalityType
  <2> QED
    BY <2>2, DetectorCardinality DEF L!At
<1> QED
  BY <1>1, <1>2, <1>3, FS_CardinalityType

(* When only caller c moves, each count changes by c alone. *)
LEMMA CallerMoves ==
  ASSUME NEW c \in Callers,
         \A d \in Callers \ {c} : pc'[d] = pc[d] /\ kind'[d] = kind[d]
  PROVE  /\ Cardinality(Creating') = Cardinality(Creating)
              - Flag(pc[c] = "count") + Flag(pc'[c] = "count")
         /\ Cardinality(Booked') = Cardinality(Booked)
              - Flag(pc[c] \in Booking) + Flag(pc'[c] \in Booking)
         /\ \A l, k : L!At(l, k)' = L!At(l, k) - Flag(pc[c] = l /\ kind[c] = k)
                                               + Flag(pc'[c] = l /\ kind'[c] = k)
<1>1. Creating \ {c} = Creating' \ {c} /\ Booked \ {c} = Booked' \ {c}
  BY DEF Creating, Booked
<1>2. /\ (c \in Creating <=> pc[c] = "count") /\ (c \in Creating' <=> pc'[c] = "count")
      /\ (c \in Booked <=> pc[c] \in Booking) /\ (c \in Booked' <=> pc'[c] \in Booking)
  BY DEF Creating, Booked
<1>3. Cardinality(Creating') = Cardinality(Creating)
        - Flag(c \in Creating) + Flag(c \in Creating')
  BY <1>1, CallersFinite, OneMoved
<1>4. Cardinality(Booked') = Cardinality(Booked) - Flag(c \in Booked) + Flag(c \in Booked')
  BY <1>1, CallersFinite, OneMoved
<1>5. ASSUME NEW l, NEW k
      PROVE  L!At(l, k)' = L!At(l, k) - Flag(pc[c] = l /\ kind[c] = k)
                                      + Flag(pc'[c] = l /\ kind'[c] = k)
  <2> DEFINE A == {d \in Callers : pc[d] = l /\ kind[d] = k}
             B == {d \in Callers : pc'[d] = l /\ kind'[d] = k}
  <2>1. A \ {c} = B \ {c} /\ IsFiniteSet(A)
    BY CallersFinite, FS_Subset
  <2>2. Cardinality(B) = Cardinality(A) - Flag(c \in A) + Flag(c \in B)
    <3> HIDE DEF A, B
    <3> QED
      BY <2>1, OneMoved
  <2>3. L!At(l, k) = Cardinality(A)
    BY DetectorCardinality DEF L!At
  <2>4. L!At(l, k)' = Cardinality(B)
    BY DetectorCardinality DEF L!At
  <2> QED
    BY <2>2, <2>3, <2>4
<1> QED
  BY <1>2, <1>3, <1>4, <1>5

(* getOrCreateSet looks the set up. *)
LEMMA LoadSetBooks ==
  ASSUME BooksInv, NEW c \in Callers, L!LoadSet(c) PROVE BooksInv'
<1>1. BooksType'
  BY CallersFinite DEF BooksInv, BooksType, Steps, Booking, L!LoadSet, L!Goto,
       L!sets, L!totals
<1>2. /\ pc[c] = "load" /\ pc'[c] \in {"track", "create"}
      /\ \A d \in Callers \ {c} : pc'[d] = pc[d] /\ kind'[d] = kind[d]
  BY DEF BooksInv, BooksType, L!LoadSet, L!Goto
<1>3. /\ Cardinality(Creating') = Cardinality(Creating)
      /\ Cardinality(Booked') = Cardinality(Booked)
      /\ \A l \in {"total", "leaks"} : \A k : L!At(l, k)' = L!At(l, k)
  BY <1>2, CallerMoves, CallersFinite DEF Flag, Booking
<1> QED
  BY <1>1, <1>2, <1>3
  DEF BooksInv, SetsCounted, TotalsKept, LeaksKept, NetKept, SampledKept, ToBook,
       L!LoadSet, L!sets, L!totals

(* It stores a new one, unless another has: only then the count is due. *)
LEMMA LoadOrStoreBooks ==
  ASSUME BooksInv, NEW c \in Callers, L!LoadOrStore(c) PROVE BooksInv'
<1>1. BooksType'
  BY CallersFinite DEF BooksInv, BooksType, Steps, Booking, L!LoadOrStore, L!Goto,
       L!totals
<1>2. /\ pc[c] = "create" /\ stack[c] \in Stacks
      /\ pc'[c] = IF stack[c] \in tracked THEN "track" ELSE "count"
      /\ \A d \in Callers \ {c} : pc'[d] = pc[d] /\ kind'[d] = kind[d]
  BY DEF BooksInv, BooksType, L!LoadOrStore, L!Goto
<1>3. /\ Cardinality(Creating') = Cardinality(Creating)
           + (IF stack[c] \in tracked THEN 0 ELSE 1)
      /\ Cardinality(Booked') = Cardinality(Booked)
      /\ \A l \in {"total", "leaks"} : \A k : L!At(l, k)' = L!At(l, k)
  BY <1>2, CallerMoves, CallersFinite DEF Flag, Booking
<1>4. Cardinality(tracked') = Cardinality(tracked) + (IF stack[c] \in tracked THEN 0 ELSE 1)
  <2>1. IsFiniteSet(tracked) /\ tracked' = tracked \cup {stack[c]}
    BY CallersFinite, FS_Subset DEF BooksInv, BooksType, L!LoadOrStore
  <2>2. CASE stack[c] \in tracked
    <3>1. tracked' = tracked
      BY <2>1, <2>2
    <3>2. Cardinality(tracked) \in Nat
      BY <2>1, FS_CardinalityType
    <3> QED
      BY <2>2, <3>1, <3>2
  <2>3. CASE stack[c] \notin tracked
    BY <2>1, <2>3, FS_AddElement
  <2> QED
    BY <2>2, <2>3
<1> QED
  BY <1>1, <1>2, <1>3, <1>4, CallersFinite
  DEF BooksInv, SetsCounted, TotalsKept, LeaksKept, NetKept, SampledKept, ToBook,
       L!LoadOrStore, L!totals, BooksType

(* The one who stored it counts it. *)
LEMMA CountUniqueBooks ==
  ASSUME BooksInv, NEW c \in Callers, L!CountUnique(c) PROVE BooksInv'
<1>1. BooksType'
  BY CallersFinite DEF BooksInv, BooksType, Steps, Booking, L!CountUnique, L!Goto, L!sets
<1>2. /\ pc[c] = "count" /\ pc'[c] = "track"
      /\ \A d \in Callers \ {c} : pc'[d] = pc[d] /\ kind'[d] = kind[d]
  BY DEF BooksInv, BooksType, L!CountUnique, L!Goto
<1>3. /\ Cardinality(Creating') = Cardinality(Creating) - 1
      /\ Cardinality(Booked') = Cardinality(Booked)
      /\ \A l \in {"total", "leaks"} : \A k : L!At(l, k)' = L!At(l, k)
  BY <1>2, CallerMoves, CallersFinite DEF Flag, Booking
<1>4. uniqueStacks' = uniqueStacks + 1 /\ uniqueStacks \in Nat /\ tracked' = tracked
  BY DEF BooksInv, BooksType, L!CountUnique, L!sets
<1>5. SetsCounted'
  BY <1>3, <1>4, CallersFinite DEF BooksInv, SetsCounted
<1>6. TotalsKept' /\ LeaksKept'
  BY <1>3 DEF BooksInv, TotalsKept, LeaksKept, L!CountUnique, L!sets
<1>7. NetKept' /\ SampledKept'
  BY <1>3 DEF BooksInv, NetKept, SampledKept, ToBook, L!CountUnique, L!sets
<1> QED
  BY <1>1, <1>5, <1>6, <1>7 DEF BooksInv

(* What is to be booked is a number. *)
LEMMA BookedTyped == BooksInv => ToBook \in Int
<1> SUFFICES ASSUME BooksInv PROVE ToBook \in Int
  OBVIOUS
<1>1. PICK w \in Int, n \in Int, m \in Int, r \in Nat \ {0} :
        w = wraps /\ n = sampleCounter /\ m = CounterSize - 1 /\ r = SampleRate
  BY CallersFinite DEF BooksInv, BooksType
<1>2. PICK k \in Int, q \in Int : k = m \div r /\ q = n \div r
  BY Division
<1>3. w * (k + 1) + q \in Int
  OBVIOUS
<1> QED
  BY <1>1, <1>2, <1>3 DEF ToBook, Share

(* The totals follow the sets. *)
LEMMA AddTotalBooks ==
  ASSUME BooksInv, NEW c \in Callers, L!AddTotal(c) PROVE BooksInv'
<1>1. BooksType'
  BY CallersFinite DEF BooksInv, BooksType, Steps, Booking, L!AddTotal, L!Goto, L!sets
<1>2. /\ pc[c] = "total" /\ pc'[c] = "leaks" /\ kind[c] \in {"alloc", "dealloc"} /\ kind' = kind
      /\ \A d \in Callers \ {c} : pc'[d] = pc[d] /\ kind'[d] = kind[d]
  BY DEF BooksInv, BooksType, L!AddTotal, L!Goto
<1>3. /\ Cardinality(Creating') = Cardinality(Creating)
      /\ Cardinality(Booked') = Cardinality(Booked) - 1
      /\ \A k : L!At("total", k)' = L!At("total", k) - Flag(kind[c] = k)
      /\ \A k : L!At("leaks", k)' = L!At("leaks", k) + Flag(kind[c] = k)
  BY <1>2, CallerMoves, CallersFinite DEF Flag, Booking
<1>4. ToBook' = ToBook /\ ToBook \in Int
  BY BookedTyped DEF ToBook, L!AddTotal
<1>5. SetsCounted' /\ NetKept'
  BY <1>1, <1>3, CallersFinite DEF BooksInv, SetsCounted, NetKept, L!AddTotal,
       L!sets, BooksType
<1>6. TotalsKept' /\ LeaksKept'
  BY <1>1, <1>2, <1>3, CallersFinite
  DEF BooksInv, TotalsKept, LeaksKept, L!AddTotal, L!sets, BooksType, Flag
<1>7. SampledKept'
  BY <1>1, <1>2, <1>3, <1>4, CallersFinite DEF BooksInv, SampledKept, L!AddTotal,
       BooksType
<1> QED
  BY <1>1, <1>5, <1>6, <1>7 DEF BooksInv

(* TotalLeaks follows the totals. *)
LEMMA AddLeaksBooks ==
  ASSUME BooksInv, NEW c \in Callers, L!AddLeaks(c) PROVE BooksInv'
<1>1. BooksType'
  BY CallersFinite DEF BooksInv, BooksType, Steps, Booking, L!AddLeaks, L!Goto,
       L!sets, L!Return, L!None
<1>2. /\ pc[c] = "leaks" /\ pc'[c] = "idle" /\ kind[c] \in {"alloc", "dealloc"} /\ kind'[c] = "none"
      /\ \A d \in Callers \ {c} : pc'[d] = pc[d] /\ kind'[d] = kind[d]
  BY DEF BooksInv, BooksType, L!AddLeaks, L!Goto, L!Return, L!None
<1>3. /\ Cardinality(Creating') = Cardinality(Creating)
      /\ Cardinality(Booked') = Cardinality(Booked)
      /\ \A k : L!At("total", k)' = L!At("total", k)
      /\ \A k \in {"alloc", "dealloc"} : L!At("leaks", k)' = L!At("leaks", k) - Flag(kind[c] = k)
  BY <1>2, CallerMoves, CallersFinite DEF Flag, Booking
<1>4. ToBook' = ToBook /\ ToBook \in Int
  BY BookedTyped DEF ToBook, L!AddLeaks
<1>5. SetsCounted' /\ NetKept'
  BY <1>1, <1>3, CallersFinite DEF BooksInv, SetsCounted, NetKept, L!AddLeaks,
       L!sets, BooksType
<1>6. TotalsKept' /\ LeaksKept'
  BY <1>1, <1>2, <1>3, CallersFinite
  DEF BooksInv, TotalsKept, LeaksKept, L!AddLeaks, L!sets, BooksType, Flag
<1>7. SampledKept'
  BY <1>1, <1>2, <1>3, <1>4, CallersFinite DEF BooksInv, SampledKept, L!AddLeaks,
       BooksType
<1> QED
  BY <1>1, <1>5, <1>6, <1>7 DEF BooksInv

(* A caller finds the detector running. *)
LEMMA EnterBooks ==
  ASSUME BooksInv, NEW c \in Callers, NEW k \in L!Kinds, L!Enter(c, k) PROVE BooksInv'
<1>1. BooksType'
  BY DEF BooksInv, BooksType, Steps, Booking, L!Enter, L!Goto, L!Kinds, L!sets, L!totals
<1>2. /\ pc[c] = "idle" /\ pc'[c] = "sample"
      /\ \A d \in Callers \ {c} : pc'[d] = pc[d] /\ kind'[d] = kind[d]
  BY DEF BooksInv, BooksType, L!Enter, L!Goto
<1>3. /\ Cardinality(Creating') = Cardinality(Creating)
      /\ Cardinality(Booked') = Cardinality(Booked)
      /\ \A l \in {"total", "leaks"} : \A g : L!At(l, g)' = L!At(l, g)
  BY <1>2, CallerMoves, CallersFinite DEF Flag, Booking
<1> QED
  BY <1>1, <1>2, <1>3
  DEF BooksInv, SetsCounted, TotalsKept, LeaksKept, NetKept, SampledKept, ToBook, L!Enter,
      L!sets, L!totals

(* The counter moves on, or wraps, and the share booked moves with it. *)
LEMMA CounterMoves ==
  ASSUME BooksInv, L!Count
  PROVE  /\ sampleCounter' \in 0 .. CounterSize - 1 /\ wraps' \in Nat
         /\ ToBook \in Int /\ ToBook' = ToBook + Flag(sampleCounter' % SampleRate = 0)
<1>1. PICK r \in Nat \ {0}, m \in Nat \ {0}, w \in Nat, n \in Nat :
        /\ r = SampleRate /\ m = CounterSize /\ w = wraps /\ n = sampleCounter
        /\ n < m
  BY CallersFinite DEF BooksInv, BooksType
<1>2. PICK p \in Int : p = ((m - 1) \div r) + 1 /\ p = Share
  BY <1>1, Division DEF Share
<1>3. PICK q \in Int : q = n \div r
  BY Division
<1>4. w * p \in Int /\ ToBook = w * p + q
  <2>1. w * p \in Int
    OBVIOUS
  <2>2. ToBook = w * p + q
    BY <1>1, <1>2, <1>3, Zenon DEF ToBook
  <2> QED
    BY <2>1, <2>2
<1>8. Share' = Share
  BY DEF Share
<1>5. sampleCounter' = (n + 1) % m /\ wraps' = IF sampleCounter' = 0 THEN w + 1 ELSE w
  BY <1>1 DEF L!Count
<1>6. CASE n + 1 < m
  <2>1. sampleCounter' = n + 1 /\ wraps' = w
    BY <1>5, <1>6
  <2>2. (n + 1) \div r = q + Flag((n + 1) % r = 0)
    BY <1>3, NextQuotient
  <2>3. Flag((n + 1) % r = 0) \in Int
    BY DEF Flag
  <2> QED
    BY <1>1, <1>2, <1>3, <1>4, <1>6, <1>8, <2>1, <2>2, <2>3 DEF ToBook
<1>7. CASE n + 1 = m
  <2>1. sampleCounter' = 0 /\ wraps' = w + 1
    BY <1>5, <1>7
  <2>2. n = m - 1 /\ q = p - 1
    BY <1>2, <1>3, <1>7
  <2>3. 0 \div r = 0 /\ 0 % r = 0
    OBVIOUS
  <2>4. (w + 1) * p = w * p + p
    BY <1>4
  <2>5. Flag(sampleCounter' % SampleRate = 0) = 1
    BY <1>1, <2>1, <2>3 DEF Flag
  <2>6. ToBook' = (w * p + p) + 0
    BY <1>1, <1>2, <1>8, <2>1, <2>3, <2>4 DEF ToBook
  <2> QED
    BY <1>1, <1>4, <2>1, <2>2, <2>5, <2>6
<1> QED
  BY <1>1, <1>6, <1>7

(* One call in SampleRate is taken. *)
LEMMA SampleBooks ==
  ASSUME BooksInv, NEW c \in Callers, L!Sample(c) PROVE BooksInv'
<1>0. L!Count
  BY DEF L!Sample
<1>1. BooksType'
  BY <1>0, CallersFinite, CounterMoves
  DEF BooksInv, BooksType, Steps, Booking, L!Sample, L!Goto, L!sets, L!totals,
       L!Return, L!None
<1>2. /\ pc[c] = "sample"
      /\ pc'[c] = IF sampleCounter' % SampleRate = 0 THEN "load" ELSE "idle"
      /\ \A d \in Callers \ {c} : pc'[d] = pc[d] /\ kind'[d] = kind[d]
  BY DEF BooksInv, BooksType, L!Sample, L!Goto, L!Return
<1>3. /\ Cardinality(Creating') = Cardinality(Creating)
      /\ Cardinality(Booked') = Cardinality(Booked) + Flag(sampleCounter' % SampleRate = 0)
      /\ \A l \in {"total", "leaks"} : \A k : L!At(l, k)' = L!At(l, k)
  BY <1>2, CallerMoves, CallersFinite DEF Flag, Booking
<1>4. SampledKept'
  <2>1. PICK x \in Int, y \in Int, d \in {0, 1} :
          x = ToBook /\ y = ToBook' /\ d = Flag(sampleCounter' % SampleRate = 0) /\ y = x + d
    BY <1>0, CounterMoves DEF Flag
  <2>2. totalAllocs + totalDeallocs + Cardinality(Booked) = x
    BY <2>1 DEF BooksInv, SampledKept
  <2>3. /\ totalAllocs' = totalAllocs /\ totalDeallocs' = totalDeallocs
        /\ totalAllocs \in Nat /\ totalDeallocs \in Nat /\ Cardinality(Booked) \in Nat
    BY CallersFinite DEF BooksInv, BooksType, L!Sample, L!totals
  <2>4. totalAllocs' + totalDeallocs' + Cardinality(Booked') = y
    BY <1>3, <2>1, <2>2, <2>3
  <2> QED
    BY <2>1, <2>4 DEF SampledKept
<1> QED
  BY <1>1, <1>3, <1>4, CallersFinite
  DEF BooksInv, SetsCounted, TotalsKept, LeaksKept, NetKept, L!Sample, L!sets,
       L!totals, BooksType, Flag

(* A set and the caller's place in it. *)
LEMMA TrackBooks ==
  ASSUME BooksInv, NEW c \in Callers, L!Track(c) PROVE BooksInv'
<1> DEFINE h == stack[c]
<1>1. BooksType'
  BY DEF BooksInv, BooksType, Steps, Booking, L!Track, L!Goto, L!totals
<1>2. /\ pc[c] = "track" /\ pc'[c] = "total" /\ kind' = kind
      /\ kind[c] \in {"alloc", "dealloc"} /\ h \in Stacks
      /\ \A d \in Callers \ {c} : pc'[d] = pc[d] /\ kind'[d] = kind[d]
  BY DEF BooksInv, BooksType, L!Track, L!Goto
<1>3. /\ Cardinality(Creating') = Cardinality(Creating)
      /\ Cardinality(Booked') = Cardinality(Booked)
      /\ \A k : L!At("total", k)' = L!At("total", k) + Flag(kind[c] = k)
      /\ \A k : L!At("leaks", k)' = L!At("leaks", k)
  BY <1>2, CallerMoves, CallersFinite DEF Flag, Booking
<1>4. TotalsKept'
  <2>1. /\ allocCount \in [Stacks -> Nat] /\ deallocCount \in [Stacks -> Nat]
        /\ TotalsKept /\ totalAllocs \in Nat /\ totalDeallocs \in Nat
    BY DEF BooksInv, BooksType
  <2>2. \A k : L!At("total", k) \in Nat
    BY CallersFinite
  <2>3. UNCHANGED <<totalAllocs, totalDeallocs>>
    BY DEF L!Track, L!totals
  <2>4. CASE kind[c] = "alloc"
    <3>1. allocCount' = [allocCount EXCEPT ![h] = @ + 1] /\ deallocCount' = deallocCount
      BY <2>4 DEF L!Track
    <3>2. SumOf(allocCount', Stacks) = SumOf(allocCount, Stacks) + 1
      BY <1>2, <2>1, <3>1, CallersFinite, SumRaised
    <3>3. SumOf(allocCount, Stacks) \in Nat
      BY <1>2, <2>1, CallersFinite, SumRaised
    <3> QED
      BY <1>3, <2>1, <2>2, <2>3, <2>4, <3>1, <3>2, <3>3 DEF TotalsKept, Flag
  <2>5. CASE kind[c] = "dealloc"
    <3>1. deallocCount' = [deallocCount EXCEPT ![h] = @ + 1] /\ allocCount' = allocCount
      BY <2>5 DEF L!Track
    <3>2. SumOf(deallocCount', Stacks) = SumOf(deallocCount, Stacks) + 1
      BY <1>2, <2>1, <3>1, CallersFinite, SumRaised
    <3>3. SumOf(deallocCount, Stacks) \in Nat
      BY <1>2, <2>1, CallersFinite, SumRaised
    <3> QED
      BY <1>3, <2>1, <2>2, <2>3, <2>5, <3>1, <3>2, <3>3 DEF TotalsKept, Flag
  <2> QED
    BY <1>2, <2>4, <2>5
<1>5. NetKept'
  BY <1>2 DEF BooksInv, BooksType, NetKept, L!Track
<1>6. SetsCounted' /\ LeaksKept' /\ SampledKept'
  BY <1>3 DEF BooksInv, SetsCounted, LeaksKept, SampledKept, ToBook, L!Track, L!totals
<1> QED
  BY <1>1, <1>4, <1>5, <1>6 DEF BooksInv

(* Steps that leave the books and the callers alone. *)
LEMMA OtherBooks ==
  ASSUME BooksInv,
         UNCHANGED <<sampleCounter, wraps, tracked, netCount, allocCount, deallocCount,
                     L!totals, L!calls>>
  PROVE  BooksInv'
<1>1. \A l, k : L!At(l, k)' = L!At(l, k)
  BY DEF L!At, L!calls
<1>2. Creating' = Creating /\ Booked' = Booked
  BY DEF Creating, Booked, L!calls
<1> QED
  BY <1>1, <1>2 DEF BooksInv, BooksType, SetsCounted, TotalsKept, LeaksKept, NetKept,
                    SampledKept, ToBook, L!totals, L!calls

(* Books that start anew, with no call in progress. *)
NewBooks ==
  /\ sampleCounter = 0 /\ wraps = 0 /\ tracked = {}
  /\ netCount = L!Zero /\ allocCount = L!Zero /\ deallocCount = L!Zero
  /\ uniqueStacks = 0 /\ totalAllocs = 0 /\ totalDeallocs = 0 /\ totalLeaks = 0
  /\ pc \in [Callers -> {"idle"}]
  /\ kind \in [Callers -> {"alloc", "dealloc", "none"}]
  /\ stack \in [Callers -> Stacks \cup {"none"}]

(* New books balance. *)
LEMMA FreshBooks == NewBooks => BooksInv
<1> SUFFICES ASSUME NewBooks PROVE BooksInv
  OBVIOUS
<1> USE DEF NewBooks
<1>1. Creating = {} /\ Booked = {}
  BY DEF Creating, Booked, Booking
<1>2. ASSUME NEW l \in {"total", "leaks"}, NEW k PROVE L!At(l, k) = 0
  <2>1. {c \in Callers : pc[c] = l /\ kind[c] = k} = {}
    OBVIOUS
  <2> QED
    BY <2>1, FS_EmptySet, DetectorCardinality DEF L!At
<1>3. Cardinality({}) = 0
  BY FS_EmptySet
<1>4. SumOf(L!Zero, Stacks) = 0
  BY SumZero DEF L!Zero
<1>5. ToBook = 0 /\ 0 \in 0 .. CounterSize - 1
  <2>1. PICK r \in Nat \ {0}, m \in Nat \ {0} : r = SampleRate /\ m = CounterSize
    BY CallersFinite
  <2>2. PICK p \in Int : p = Share
    BY <2>1, Division DEF Share
  <2>3. 0 * p = 0 /\ 0 \div r = 0
    OBVIOUS
  <2> QED
    BY <2>1, <2>2, <2>3 DEF ToBook
<1>6. BooksType
  BY <1>5 DEF BooksType, Steps, L!Zero
<1>7. NetKept
  BY DEF NetKept, L!Zero
<1> QED
  BY <1>1, <1>2, <1>3, <1>4, <1>5, <1>6, <1>7
  DEF BooksInv, SetsCounted, TotalsKept, LeaksKept, SampledKept

(* Every step of the detector keeps the books. *)
LEMMA BooksKept ==
  ASSUME BooksInv, L!Next PROVE BooksInv'
<1>1. CASE L!Start \/ L!Stop \/ L!Report \/ L!LoopEnds
  BY <1>1, OtherBooks DEF L!Start, L!Stop, L!Report, L!LoopEnds, L!sets
<1>2. CASE L!Clear
  <2>1. /\ pc \in [Callers -> {"idle"}] /\ UNCHANGED <<pc, kind, stack>>
        /\ kind \in [Callers -> {"alloc", "dealloc", "none"}]
        /\ stack \in [Callers -> Stacks \cup {"none"}]
    BY <1>2 DEF BooksInv, BooksType, L!Clear, L!Quiet, L!calls
  <2> QED
    <3>1. NewBooks'
      BY <1>2, <2>1 DEF NewBooks, L!Clear, L!Zero
    <3>2. NewBooks' => BooksInv'
      BY FreshBooks, PTL
    <3> QED
      BY <3>1, <3>2
<1>3. ASSUME NEW c \in Callers, L!Step(c) PROVE BooksInv'
  BY <1>3, SampleBooks, LoadSetBooks, LoadOrStoreBooks, CountUniqueBooks, TrackBooks,
     AddTotalBooks, AddLeaksBooks
  DEF L!Step
<1>4. ASSUME NEW c \in Callers, NEW k \in L!Kinds, L!Enter(c, k) PROVE BooksInv'
  BY <1>4, EnterBooks
<1>5. ASSUME NEW h \in Stacks, L!Age(h) PROVE BooksInv'
  BY <1>5, OtherBooks DEF L!Age
<1> QED
  BY <1>1, <1>2, <1>3, <1>4, <1>5 DEF L!Next

(* The books agree and the sampling is exact, in every scene. *)
LEMMA BooksAlways == MCSpec => []BooksInv
<1>1. MCInit => BooksInv
  BY FreshBooks DEF NewBooks, MCInit, L!Init, L!None
<1>2. BooksInv /\ [MCNext]_<<vars, scene, ringVars, bookVars>> => BooksInv'
  <2> SUFFICES ASSUME BooksInv, [MCNext]_<<vars, scene, ringVars, bookVars>>
               PROVE  BooksInv'
    OBVIOUS
  <2>1. CASE scene = "books" /\ L!Next
    BY <2>1, BooksKept
  <2>2. CASE UNCHANGED bookVars
    BY <2>2, OtherBooks DEF bookVars, L!totals, L!calls
  <2> QED
    BY <2>1, <2>2 DEF MCNext
<1> QED
  BY <1>1, <1>2, PTL DEF MCSpec

(* TotalsMatchSets: the books of the detector agree, however its callers   *)
(* interleave, for any number of goroutines, stacks and sample rate        *)
(* (getOrCreateSet, OnAllocate, OnDeallocate, Clear).                      *)
THEOREM DetectorBooks == MCSpec => []TotalsMatchSets
<1>1. BooksInv => TotalsMatchSets
  <2> SUFFICES ASSUME BooksInv PROVE TotalsMatchSets
    OBVIOUS
  <2>1. L!SumFunction(allocCount) = SumOf(allocCount, Stacks)
        /\ L!SumFunction(deallocCount) = SumOf(deallocCount, Stacks)
    BY CallersFinite, DetectorSum DEF BooksInv, BooksType
  <2> QED
    BY <2>1, DetectorCardinality
    DEF BooksInv, SetsCounted, TotalsKept, LeaksKept, NetKept, Creating,
        TotalsMatchSets, L!TotalsMatchSets
<1> QED
  BY <1>1, BooksAlways, PTL

(* Multiples of the sums and bounds that make up a sample. *)
LEMMA ShareBounds ==
  ASSUME NEW r \in Nat \ {0}, NEW m \in Nat \ {0}, NEW w \in Nat, NEW n \in 0 .. m - 1,
         NEW b \in Int, b = w * (((m - 1) \div r) + 1) + (n \div r)
  PROVE  /\ (w * m + n) - r < r * b
         /\ r * b <= (w * m + n) + w * (r - 1)
<1>1. PICK k \in Int, s \in 0 .. r - 1 :
        k = (m - 1) \div r /\ s = (m - 1) % r /\ m - 1 = r * k + s
  BY Division
<1>2. PICK q \in Int, t \in 0 .. r - 1 : q = n \div r /\ t = n % r /\ n = r * q + t
  BY Division
<1>3. PICK p \in Int : p = k + 1
  OBVIOUS
<1>4. PICK e \in 0 .. r - 1 : r * p = m + e
  <2>1. r * p = r * k + r
    BY <1>3, Distributes
  <2>2. PICK u \in Int : u = r * k
    BY Distributes
  <2>3. r * p = (m - 1 - s) + r
    BY <1>1, <2>1, <2>2
  <2>4. r * p = m + (r - 1 - s) /\ r - 1 - s \in 0 .. r - 1
    BY <2>3
  <2> QED
    BY <2>4
<1>5. b = w * p + q
  BY <1>1, <1>2, <1>3
<1>6. PICK v \in Int : v = w * p
  OBVIOUS
<1>7. r * b = r * v + r * q
  BY <1>5, <1>6, Distributes
<1>8. r * v = w * (r * p)
  BY <1>6
<1>9. w * (r * p) = w * m + w * e
  <2>1. w * (m + e) = w * m + w * e
    BY Distributes
  <2> QED
    BY <1>4, <2>1
<1>10. 0 <= w * e /\ w * e <= w * (r - 1)
  <2>1. PICK d \in Nat : r - 1 = e + d
    <3>1. r - 1 - e \in Nat /\ r - 1 = e + (r - 1 - e)
      OBVIOUS
    <3> QED
      BY <3>1
  <2>2. w * (e + d) = w * e + w * d /\ w * d \in Nat /\ w * e \in Nat
    <3>1. w * (e + d) = w * e + w * d
      BY Distributes
    <3> QED
      BY <3>1
  <2> QED
    BY <2>1, <2>2
<1>11. PICK x, y, z, g \in Int : x = w * m /\ y = w * e /\ z = w * (r - 1) /\ g = r * q
  BY Distributes
<1>12. r * b = x + y + g /\ n = g + t /\ 0 <= y /\ y <= z
  BY <1>2, <1>7, <1>8, <1>9, <1>10, <1>11
<1>13. x + n - r < x + y + g /\ x + y + g <= x + n + z
  BY <1>12
<1> QED
  BY <1>11, <1>12, <1>13

(* OneInN: one call in SampleRate is booked, and at most one more for each *)
(* time the counter has wrapped, for any rate, any width of the counter    *)
(* and any interleaving (OnAllocate, OnDeallocate).                        *)
THEOREM DetectorSamples == MCSpec => []OneInN
<1>1. BooksInv => OneInN
  <2> SUFFICES ASSUME BooksInv PROVE OneInN
    OBVIOUS
  <2>1. PICK r \in Nat \ {0}, m \in Nat \ {0}, w \in Nat, n \in Nat :
          /\ r = SampleRate /\ m = CounterSize /\ w = wraps /\ n = sampleCounter
          /\ n \in 0 .. m - 1
    BY CallersFinite DEF BooksInv, BooksType
  <2>2. PICK b \in Int : b = totalAllocs + totalDeallocs + Cardinality(Booked)
    BY CallersFinite DEF BooksInv, BooksType
  <2>3. b = w * (((m - 1) \div r) + 1) + (n \div r)
    BY <2>1, <2>2 DEF BooksInv, SampledKept, ToBook, Share
  <2>4. (w * m + n) - r < r * b /\ r * b <= (w * m + n) + w * (r - 1)
    BY <2>3, ShareBounds
  <2>5. L!Sampled = w * m + n
    BY <2>1 DEF L!Sampled
  <2>6. b = totalAllocs + totalDeallocs
              + L!Cardinality({c \in Callers : pc[c] \in {"load", "create", "count",
                                                         "track", "total"}})
    BY <2>2, DetectorCardinality DEF Booked, Booking
  <2> QED
    BY <2>1, <2>4, <2>5, <2>6 DEF OneInN, L!OneInN
<1> QED
  BY <1>1, BooksAlways, PTL

-----------------------------------------------------------------------------
(* The ring of the last state changes. *)

(* A change between two states of the allocator, and what a place of the   *)
(* ring may hold.                                                          *)
StateChanges == [prev : States, curr : States]
Entries == StateChanges \cup {T!Empty}

(* The record numbered n of those told, or none if there is no such one;   *)
(* its place; and the numbers that the ring has room for.                  *)
Entry(n) == IF n >= 1 THEN log[n] ELSE T!Empty
Place(n) == n % RingSize
Window == Len(log) - RingSize + 1 .. Len(log)

(* The record numbered n has its index but is not written yet. *)
Late(n) == n >= 1 /\ [slot |-> Place(n), record |-> log[n]] \in writing

(* The variables of the ring; its index counts the records and wraps. *)
RingType ==
  /\ {state, prev, target} \subseteq States
  /\ stateTransitions \in [T!Slots -> Entries]
  /\ started \in Seq(StateChanges) /\ log \in Seq(StateChanges)
  /\ stateTransIdx = Len(log) % Words

(* The inductive invariant: the last records are in their places or on     *)
(* their way to them, and no others are.                                   *)
RingInv ==
  /\ RingType
  /\ \A n \in Window : stateTransitions[Place(n)] = Entry(n) \/ Late(n)
  /\ \A w \in writing : \E n \in Window :
       n >= 1 /\ w = [slot |-> Place(n), record |-> log[n]]

(* The constants of the ring. *)
LEMMA RingConstants ==
  RingSize \in Nat \ {0} /\ Words \in Nat \ {0} /\ Words % RingSize = 0
  BY MonitoringAssumption DEF MonitoringAssumption

(* The places repeat after RingSize numbers and not before, also when the  *)
(* index has wrapped.                                                      *)
LEMMA Places ==
  ASSUME NEW n \in Int
  PROVE  /\ Place(n) \in T!Slots
         /\ Place(n + RingSize) = Place(n)
         /\ Place(n % Words) = Place(n)
         /\ \A m \in Int : n < m /\ m < n + RingSize => Place(m) # Place(n)
<1>1. PICK r \in Nat \ {0}, w \in Nat \ {0} : r = RingSize /\ w = Words /\ w % r = 0
  BY RingConstants
<1>2. n % r \in 0 .. r - 1
  OBVIOUS
<1>3. (n + r) % r = n % r
  <2>1. PICK e \in Int : e = 1
    OBVIOUS
  <2>2. (n + r * e) % r = n % r
    BY Remainders
  <2>3. r * e = r
    BY <2>1
  <2> QED
    BY <2>2, <2>3
<1>4. (n % w) % r = n % r
  <2>1. PICK k \in Int : w = r * k
    <3>1. PICK q \in Int, s \in 0 .. r - 1 : s = w % r /\ w = r * q + s
      <4>1. w \in Int
        OBVIOUS
      <4> QED
        BY <4>1, Division
    <3>2. s = 0 /\ r * q \in Int
      BY <1>1, <3>1
    <3>3. w = r * q
      BY <3>1, <3>2
    <3> QED
      BY <3>3
  <2>2. PICK q \in Int, y \in 0 .. w - 1 : y = n % w /\ n = w * q + y
    BY Division
  <2>3. PICK d \in Int : d = k * q /\ w * q = r * d
    <3>1. (r * k) * q = r * (k * q) /\ k * q \in Int
      OBVIOUS
    <3> QED
      BY <2>1, <3>1
  <2>4. n = y + r * d
    BY <2>2, <2>3
  <2>5. (y + r * d) % r = y % r
    <3>1. y \in Int
      OBVIOUS
    <3> QED
      BY <3>1, Remainders
  <2> QED
    BY <2>2, <2>4, <2>5
<1>5. ASSUME NEW m \in Int, n < m, m < n + r, m % r = n % r PROVE FALSE
  <2>1. PICK p \in Int, s \in 0 .. r - 1 : s = n % r /\ n = r * p + s
    BY Division
  <2>2. PICK q \in Int, u \in 0 .. r - 1 : u = m % r /\ m = r * q + u
    BY Division
  <2>3. r * p < r * q /\ r * q < r * p + r
    BY <1>5, <2>1, <2>2
  <2>4. CASE q <= p
    <3>1. PICK e \in Nat : p = q + e
      <4>1. p - q \in Nat /\ p = q + (p - q)
        BY <2>4
      <4> QED
        BY <4>1
    <3>2. r * p = r * q + r * e /\ r * e \in Nat
      BY <3>1
    <3> QED
      BY <2>3, <3>2
  <2>5. CASE q >= p + 1
    <3>1. PICK e \in Nat : q = p + 1 + e
      <4>1. q - p - 1 \in Nat /\ q = p + 1 + (q - p - 1)
        BY <2>5
      <4> QED
        BY <4>1
    <3>2. r * q = r * p + r + r * e /\ r * e \in Nat
      BY <3>1
    <3> QED
      BY <2>3, <3>2
  <2> QED
    BY <2>4, <2>5
<1> QED
  BY <1>1, <1>2, <1>3, <1>4, <1>5 DEF Place, T!Slots

(* Two numbers of the window do not share a place. *)
LEMMA WindowApart ==
  ASSUME RingType, NEW m \in Window, NEW n \in Window, m # n
  PROVE  Place(m) # Place(n)
<1>1. Len(log) \in Nat /\ RingSize \in Nat
  BY RingConstants DEF RingType
<1>2. m \in Int /\ n \in Int /\ ((m < n /\ n < m + RingSize) \/ (n < m /\ m < n + RingSize))
  BY <1>1 DEF Window
<1> QED
  BY <1>2, Places

(* The index is a remainder, and so is the index after it. *)
LEMMA NextIndex ==
  ASSUME NEW n \in Int, NEW w \in Nat \ {0}
  PROVE  ((n % w) + 1) % w = (n + 1) % w
<1>1. PICK e \in Int : e = 1
  OBVIOUS
<1>2. ((n % w) + e) % w = (n + e) % w
  BY RemainderAdds
<1> QED
  BY <1>1, <1>2

(* A notification takes the next index: the record before it in its place  *)
(* has been written, since no notification is overtaken by so many others. *)
LEMMA RingTake ==
  ASSUME ~Overtake, RingInv, T!TakeIndex, UNCHANGED <<state, prev, target>>
  PROVE  RingInv'
<1>1. PICK newest \in Nat, r \in Nat \ {0} : newest = Len(log) /\ r = RingSize
  BY RingConstants DEF RingInv, RingType
<1>2. log \in Seq(StateChanges) /\ started \in Seq(StateChanges)
  BY DEF RingInv, RingType
<1>3. PICK i \in DOMAIN started :
        /\ writing' = writing \cup {[slot |-> T!SlotOfNewIndex, record |-> started[i]]}
        /\ log' = Append(log, started[i])
        /\ started' = T!RemoveAt(started, i)
  BY DEF T!TakeIndex
<1>4. PICK c \in StateChanges : c = started[i]
  BY <1>2
<1>5. T!SlotOfNewIndex = Place(newest + 1)
  <2>1. PICK w \in Nat \ {0} : w = Words
    BY RingConstants
  <2>2. stateTransIdx = newest % w
    BY <1>1, <2>1 DEF RingInv, RingType
  <2>3. ((newest % w) + 1) % w = (newest + 1) % w
    <3>1. newest \in Int
      OBVIOUS
    <3> QED
      BY <3>1, NextIndex
  <2>4. T!SlotOfNewIndex = Place((newest + 1) % Words)
    BY <2>1, <2>2, <2>3 DEF T!SlotOfNewIndex, Place
  <2>5. newest + 1 \in Int
    OBVIOUS
  <2> QED
    BY <2>4, <2>5, Places
<1>6. PICK new : new = [slot |-> Place(newest + 1), record |-> c]
  OBVIOUS
<1>7. writing' = writing \cup {new} /\ log' = Append(log, c)
  BY <1>3, <1>4, <1>5, <1>6
<1>8. /\ log' \in Seq(StateChanges) /\ Len(log') = newest + 1 /\ log'[newest + 1] = c
      /\ \A n \in 1 .. newest : log'[n] = log[n]
  BY <1>1, <1>2, <1>7
<1>9. RingType'
  <2>1. started' \in Seq(StateChanges)
    <3>1. DOMAIN started = 1 .. Len(started) /\ Len(started) \in Nat
      BY <1>2
    <3>2. SubSeq(started, 1, i - 1) \in Seq(StateChanges)
      BY <1>2, <3>1
    <3>3. SubSeq(started, i + 1, Len(started)) \in Seq(StateChanges)
      BY <1>2, <3>1
    <3> QED
      BY <1>3, <3>2, <3>3 DEF T!RemoveAt
  <2>2. stateTransIdx' = (newest + 1) % Words
    <3>1. PICK w \in Nat \ {0} : w = Words
      BY RingConstants
    <3>2. stateTransIdx' = ((newest % w) + 1) % w
      BY <1>1, <3>1 DEF T!TakeIndex, RingInv, RingType
    <3>3. ((newest % w) + 1) % w = (newest + 1) % w
      <4>1. newest \in Int
        OBVIOUS
      <4> QED
        BY <4>1, NextIndex
    <3> QED
      BY <3>1, <3>2, <3>3
  <2>3. stateTransitions' = stateTransitions
    BY DEF T!TakeIndex
  <2> QED
    BY <1>8, <2>1, <2>2, <2>3 DEF RingInv, RingType
<1>10. Window = newest - r + 1 .. newest /\ Window' = newest + 1 - r + 1 .. newest + 1
  BY <1>1, <1>8 DEF Window
<1>11. ASSUME NEW n \in Window'
       PROVE  stateTransitions'[Place(n)] = Entry(n)' \/ Late(n)'
  <2>1. CASE n = newest + 1
    <3>1. n >= 1 /\ log'[n] = c
      BY <1>8, <2>1
    <3>2. [slot |-> Place(n), record |-> log'[n]] \in writing'
      BY <1>6, <1>7, <2>1, <3>1
    <3> QED
      BY <3>1, <3>2 DEF Late
  <2>2. CASE n # newest + 1
    <3>1. n \in Window /\ n \in Int /\ n <= newest
      BY <1>1, <1>10, <2>2
    <3>2. stateTransitions[Place(n)] = Entry(n) \/ Late(n)
      BY <3>1 DEF RingInv
    <3>3. n >= 1 => log'[n] = log[n]
      BY <1>8, <3>1
    <3>4. Entry(n)' = Entry(n)
      BY <3>3 DEF Entry
    <3>5. Late(n) => Late(n)'
      BY <1>7, <3>3 DEF Late
    <3>6. stateTransitions' = stateTransitions
      BY DEF T!TakeIndex
    <3> QED
      BY <3>2, <3>4, <3>5, <3>6
  <2> QED
    BY <2>1, <2>2
<1>12. ASSUME NEW w \in writing'
       PROVE  \E n \in Window' : n >= 1 /\ w = [slot |-> Place(n), record |-> log'[n]]
  <2>1. CASE w = new
    <3>1. newest + 1 \in Window' /\ newest + 1 >= 1 /\ log'[newest + 1] = c
      BY <1>1, <1>8, <1>10
    <3> QED
      BY <1>6, <2>1, <3>1
  <2>2. CASE w \in writing
    <3>1. PICK n \in Window : n >= 1 /\ w = [slot |-> Place(n), record |-> log[n]]
      BY <2>2 DEF RingInv
    <3>2. w.slot # Place(newest + 1)
      BY <1>5, <2>2 DEF T!TakeIndex
    <3>3. n # newest - r + 1
      <4> SUFFICES ASSUME n = newest - r + 1 PROVE FALSE
        OBVIOUS
      <4>1. n \in Int /\ n + RingSize = newest + 1
        BY <1>1
      <4>2. Place(newest + 1) = Place(n)
        BY <4>1, Places
      <4> QED
        BY <3>1, <3>2, <4>2
    <3>4. n \in Window' /\ n \in 1 .. newest
      BY <1>1, <1>10, <3>1, <3>3
    <3>5. log'[n] = log[n]
      BY <1>8, <3>4
    <3> QED
      BY <3>1, <3>4, <3>5
  <2> QED
    BY <1>7, <2>1, <2>2
<1> QED
  BY <1>9, <1>11, <1>12 DEF RingInv, Place

(* A record is written to its place: no other of the window is there. *)
LEMMA RingWrite ==
  ASSUME RingInv, T!Write, UNCHANGED <<state, prev, target>>
  PROVE  RingInv'
<1>1. PICK w \in writing :
        /\ stateTransitions' = [stateTransitions EXCEPT ![w.slot] = w.record]
        /\ writing' = writing \ {w}
        /\ UNCHANGED <<stateTransIdx, started, log>>
  BY DEF T!Write
<1>2. PICK n \in Window : n >= 1 /\ w = [slot |-> Place(n), record |-> log[n]]
  BY DEF RingInv
<1>3. w.slot = Place(n) /\ w.record = log[n]
  BY <1>2
<1>4. /\ Len(log) \in Nat /\ RingSize \in Nat \ {0} /\ RingType
      /\ log \in Seq(StateChanges) /\ stateTransitions \in [T!Slots -> Entries]
  BY RingConstants DEF RingInv, RingType
<1>5. Place(n) \in T!Slots /\ log[n] \in StateChanges
  <2>1. n \in Int /\ n \in 1 .. Len(log)
    BY <1>2, <1>4 DEF Window
  <2> QED
    BY <1>4, <2>1, Places
<1>6. /\ stateTransitions' = [stateTransitions EXCEPT ![Place(n)] = log[n]]
      /\ log' = log /\ Window' = Window
  BY <1>1, <1>3 DEF Window
<1>7. RingType'
  <2>1. stateTransitions' \in [T!Slots -> Entries]
    BY <1>4, <1>5, <1>6 DEF Entries
  <2> QED
    BY <1>1, <1>4, <2>1 DEF RingType
<1>8. ASSUME NEW m \in Window
      PROVE  stateTransitions'[Place(m)] = Entry(m) \/ Late(m)'
  <2>1. CASE m = n
    BY <1>2, <1>4, <1>5, <1>6, <2>1 DEF Entry
  <2>2. CASE m # n
    <3>1. Place(m) # Place(n)
      BY <1>4, <2>2, WindowApart
    <3>2. stateTransitions'[Place(m)] = stateTransitions[Place(m)]
      <4>1. m \in Int
        BY <1>4 DEF Window
      <4>2. Place(m) \in T!Slots
        BY <4>1, Places
      <4> QED
        BY <1>4, <1>5, <1>6, <3>1, <4>2
    <3>3. ASSUME Late(m) PROVE Late(m)'
      <4>1. PICK v : v = [slot |-> Place(m), record |-> log[m]]
        OBVIOUS
      <4>2. v.slot = Place(m)
        BY <4>1
      <4>3. v # w
        BY <1>3, <3>1, <4>2
      <4> QED
        BY <1>1, <3>3, <4>1, <4>3 DEF Late
    <3>4. stateTransitions[Place(m)] = Entry(m) \/ Late(m)
      BY DEF RingInv
    <3> QED
      BY <3>2, <3>3, <3>4
  <2> QED
    BY <2>1, <2>2
<1>9. \A m : Entry(m)' = Entry(m)
  BY <1>6 DEF Entry
<1>10. \A v \in writing' : \E m \in Window' :
         m >= 1 /\ v = [slot |-> Place(m), record |-> log'[m]]
  BY <1>1, <1>6 DEF RingInv
<1> QED
  BY <1>6, <1>7, <1>8, <1>9, <1>10 DEF RingInv, Place

(* A ring with no record: as it starts, and as Clear leaves it. *)
RingStart ==
  /\ {state, prev, target} \subseteq States
  /\ started \in Seq(StateChanges) /\ writing = {} /\ log = << >>
  /\ stateTransIdx = 0 /\ stateTransitions = [i \in T!Slots |-> T!Empty]

(* Nothing is in its places, and nothing is to be. *)
LEMMA RingFresh == RingStart => RingInv
<1> SUFFICES ASSUME RingStart PROVE RingInv
  OBVIOUS
<1> USE DEF RingStart
<1>1. Len(log) = 0 /\ log \in Seq(StateChanges)
  OBVIOUS
<1>2. stateTransIdx = Len(log) % Words
  BY <1>1, RingConstants
<1>3. stateTransitions \in [T!Slots -> Entries]
  BY DEF Entries
<1>4. ASSUME NEW n \in Window PROVE stateTransitions[Place(n)] = Entry(n)
  <2>1. n \in Int /\ n <= 0
    BY <1>1, RingConstants DEF Window
  <2>2. Place(n) \in T!Slots
    BY <2>1, Places
  <2> QED
    BY <2>1, <2>2 DEF Entry
<1> QED
  BY <1>1, <1>2, <1>3, <1>4 DEF RingInv, RingType

(* Steps that leave the ring alone but for a notification started. *)
LEMMA RingRests ==
  ASSUME RingInv, {state, prev, target}' \subseteq States,
         started' \in Seq(StateChanges),
         UNCHANGED <<stateTransitions, stateTransIdx, writing, log>>
  PROVE  RingInv'
<1>1. Window' = Window
  BY DEF Window
<1>2. \A n : Entry(n)' = Entry(n) /\ (Late(n) => Late(n)')
  BY DEF Entry, Late
<1>3. RingType'
  BY DEF RingInv, RingType
<1>4. \A n \in Window : stateTransitions'[Place(n)] = Entry(n)' \/ Late(n)'
  BY <1>2 DEF RingInv
<1>5. \A w \in writing' : \E n \in Window' :
        n >= 1 /\ w = [slot |-> Place(n), record |-> log'[n]]
  BY <1>1 DEF RingInv
<1> QED
  BY <1>1, <1>3, <1>4, <1>5 DEF RingInv, Place

(* The states of the monitor stay states, whoever takes the step. *)
LEMMA StatesKept ==
  ASSUME {state, prev, target} \subseteq States, Next
  PROVE  {state, prev, target}' \subseteq States
<1>1. {"healthy", "fallback", Level} \subseteq States
  BY DEF States, Level
<1>2. state \in States /\ prev \in States /\ target \in States
  OBVIOUS
<1>3. CASE Monitor
  BY <1>1, <1>2, <1>3
  DEF Monitor, Check, ReadStats, LoadPrev, StoreState, StorePrevious, NotifyStart,
      Tell, NotifyEnd, locals
<1>4. CASE AllocateFast \/ RecordError \/ Allocate \/ DeallocateFast \/ Close
  BY <1>1, <1>2, <1>4
  DEF AllocateFast, RecordError, Allocate, DeallocateFast, Close, locals
<1>5. ASSUME NEW o \in Observers, RegisterObserver(o) \/ UnregisterObserver(o)
      PROVE  {state, prev, target}' \subseteq States
  BY <1>2, <1>5 DEF RegisterObserver, UnregisterObserver, locals
<1> QED
  BY <1>3, <1>4, <1>5 DEF Next

(* What the monitor, the program and the detector do in the scene "ring". *)
LEMMA RingSceneKeeps ==
  ASSUME ~Overtake, RingInv, RingScene
  PROVE  RingInv'
<1> USE DEF RingInv, RingType
<1>1. started \in Seq(StateChanges) /\ {state, prev, target} \subseteq States
  OBVIOUS
<1>2. ASSUME Monitor, UNCHANGED <<stateTransitions, stateTransIdx, writing, log>>,
             started' = IF TellsDetector THEN T!Notified(prev, target) ELSE started
      PROVE  RingInv'
  <2>1. {state, prev, target}' \subseteq States
    BY <1>1, <1>2, StatesKept DEF Next
  <2>2. PICK c : c = [prev |-> prev, curr |-> target]
    OBVIOUS
  <2>3. c \in StateChanges
    BY <1>1, <2>2 DEF StateChanges
  <2>4. started' = IF TellsDetector THEN Append(started, c) ELSE started
    BY <1>2, <2>2 DEF T!Notified
  <2>5. started' \in Seq(StateChanges)
    BY <1>1, <2>3, <2>4
  <2> QED
    BY <1>2, <2>1, <2>5, RingRests
<1>3. ASSUME AllocateFast \/ DeallocateFast \/ RegisterObserver(Detector),
             UNCHANGED <<stateTransitions, stateTransIdx, started, writing, log>>
      PROVE  RingInv'
  <2>1. {state, prev, target}' \subseteq States
    BY <1>1, <1>3, StatesKept, MonitoringAssumption DEF Next, MonitoringAssumption
  <2> QED
    BY <1>1, <1>3, <2>1, RingRests
<1>4. ASSUME T!Next, UNCHANGED vars PROVE RingInv'
  <2>1. UNCHANGED <<state, prev, target>>
    BY <1>4 DEF vars, locals
  <2>2. CASE T!TakeIndex
    BY <2>1, <2>2, RingTake
  <2>3. CASE T!Write
    BY <2>1, <2>3, RingWrite
  <2>4. CASE T!Clear
    <3>1. /\ {state, prev, target}' \subseteq States /\ started' \in Seq(StateChanges)
          /\ writing' = {} /\ log' = << >> /\ stateTransIdx' = 0
          /\ stateTransitions' = [i \in T!Slots |-> T!Empty]
      BY <1>1, <2>1, <2>4 DEF T!Clear
    <3>2. RingStart'
      BY <3>1 DEF RingStart, T!Slots, T!Empty
    <3>3. RingStart' => RingInv'
      BY RingFresh, PTL
    <3> QED
      BY <3>2, <3>3
  <2> QED
    BY <1>4, <2>2, <2>3, <2>4 DEF T!Next
<1> QED
  BY <1>2, <1>3, <1>4 DEF RingScene, ringVars

(* The ring is kept in every scene. *)
LEMMA RingAlways == ASSUME ~Overtake PROVE MCSpec => []RingInv
<1>1. MCInit => RingInv
  <2> SUFFICES ASSUME MCInit PROVE RingInv
    OBVIOUS
  <2>1. {state, prev, target} \subseteq States
    BY DEF MCInit, Init, States
  <2> QED
    BY <2>1, RingFresh DEF MCInit, T!Init, RingStart
<1>2. RingInv /\ [MCNext]_<<vars, scene, ringVars, bookVars>> => RingInv'
  <2> SUFFICES ASSUME RingInv, [MCNext]_<<vars, scene, ringVars, bookVars>>
               PROVE  RingInv'
    OBVIOUS
  <2>1. CASE RingScene
    BY <2>1, RingSceneKeeps
  <2>2. CASE (Next \/ UNCHANGED vars) /\ UNCHANGED ringVars
    <3>1. {state, prev, target}' \subseteq States
      BY <2>2, StatesKept DEF RingInv, RingType, vars, locals
    <3> QED
      BY <2>2, <3>1, RingRests DEF ringVars, RingInv, RingType
  <2> QED
    BY <2>1, <2>2 DEF MCNext
<1> QED
  BY <1>1, <1>2, PTL DEF MCSpec

(* What a report reads: with nothing being written, the last records, the  *)
(* newest first, and empty places after them.                              *)
LEMMA ReadsEntries ==
  ASSUME RingInv, writing = {}, NEW i \in 1 .. RingSize
  PROVE  T!ReadBack[i] = Entry(Len(log) + 1 - i)
<1>1. PICK newest \in Nat, r \in Nat \ {0}, w \in Nat \ {0} :
        newest = Len(log) /\ r = RingSize /\ w = Words
  BY RingConstants DEF RingInv, RingType
<1>2. PICK y \in Int : y = 0 - (i - 1)
  BY <1>1
<1>3. (stateTransIdx - (i - 1)) % Words = (newest + y) % w
  <2>1. ((newest % w) + y) % w = (newest + y) % w
    <3>1. newest \in Int
      OBVIOUS
    <3> QED
      BY <3>1, RemainderAdds
  <2>2. stateTransIdx = newest % w /\ newest % w \in Int
    BY <1>1 DEF RingInv, RingType
  <2>3. stateTransIdx - (i - 1) = (newest % w) + y
    BY <1>1, <1>2, <2>2
  <2> QED
    BY <1>1, <2>1, <2>3
<1>4. PICK n \in Int : n = newest + y /\ n = Len(log) + 1 - i /\ n \in Window
  BY <1>1, <1>2 DEF Window
<1>5. Place(n % Words) = Place(n)
  BY Places
<1>6. T!ReadBack[i] = stateTransitions[Place(n)]
  BY <1>1, <1>3, <1>4, <1>5 DEF T!ReadBack, Place
<1>7. stateTransitions[Place(n)] = Entry(n)
  BY <1>4 DEF RingInv, Late
<1> QED
  BY <1>4, <1>6, <1>7

(* RingExact: a report lists the last records that were told, as many as   *)
(* the ring holds, each once and the newest first, for any size of the     *)
(* ring and also after the index has wrapped (OnStateChange, Report),      *)
(* unless a notification is overtaken by a whole ring of later ones.       *)
THEOREM RecordsReported == ASSUME ~Overtake PROVE MCSpec => []RingExact
<1>1. RingInv => RingExact
  <2> SUFFICES ASSUME RingInv, writing = {}
               PROVE  T!Transitions =
                        [i \in 1 .. (IF Len(log) < RingSize THEN Len(log) ELSE RingSize) |->
                           log[Len(log) + 1 - i]]
    BY DEF RingExact, T!RingExact
  <2>1. PICK newest \in Nat, r \in Nat \ {0}, m \in Nat :
          /\ newest = Len(log) /\ r = RingSize
          /\ m = (IF Len(log) < RingSize THEN Len(log) ELSE RingSize)
    <3>1. Len(log) \in Nat /\ RingSize \in Nat \ {0}
      BY RingConstants DEF RingInv, RingType
    <3>2. (IF Len(log) < RingSize THEN Len(log) ELSE RingSize) \in Nat
      BY <3>1
    <3> QED
      BY <3>1, <3>2
  <2>2. ASSUME NEW i \in 1 .. r
        PROVE  T!ReadBack[i] = IF i <= m THEN log[newest + 1 - i] ELSE T!Empty
    BY <2>1, ReadsEntries DEF Entry
  <2>3. ASSUME NEW i \in 1 .. m PROVE log[newest + 1 - i] # T!Empty
    <3>1. newest + 1 - i \in 1 .. newest
      BY <2>1
    <3>2. log[newest + 1 - i] \in StateChanges
      BY <2>1, <3>1 DEF RingInv, RingType
    <3> QED
      BY <3>2 DEF StateChanges, T!Empty, States
  <2>4. T!Filled = 1 .. m
    BY <2>1, <2>2, <2>3 DEF T!Filled
  <2>5. \A S : T!Cardinality(S) = Cardinality(S)
    BY DEF T!Cardinality, Cardinality
  <2>6. ASSUME NEW i \in 1 .. m PROVE T!Cardinality({j \in T!Filled : j <= i}) = i
    <3>1. {j \in T!Filled : j <= i} = 1 .. i
      BY <2>4
    <3>2. Cardinality(1 .. i) = i
      <4>1. PICK a \in Int : a = 1
        OBVIOUS
      <4>2. i \in Int /\ i >= 1
        OBVIOUS
      <4>3. Cardinality(a .. i) = IF a > i THEN 0 ELSE i - a + 1
        BY <4>2, FS_Interval
      <4> QED
        BY <4>1, <4>2, <4>3
    <3> QED
      BY <2>5, <3>1, <3>2
  <2>7. T!Cardinality(T!Filled) = m
    <3>1. CASE m = 0
      <4>1. T!Filled = {}
        BY <2>4, <3>1
      <4> QED
        BY <2>5, <3>1, <4>1, FS_EmptySet
    <3>2. CASE m # 0
      <4>1. m \in 1 .. m /\ {j \in T!Filled : j <= m} = T!Filled
        BY <2>4, <3>2
      <4>2. T!Cardinality({j \in T!Filled : j <= m}) = m
        BY <2>6, <4>1
      <4> QED
        BY <4>1, <4>2
    <3> QED
      BY <3>1, <3>2
  <2>8. ASSUME NEW n \in 1 .. m
        PROVE  (CHOOSE i \in T!Filled : T!Cardinality({j \in T!Filled : j <= i}) = n) = n
    <3>1. n \in T!Filled /\ T!Cardinality({j \in T!Filled : j <= n}) = n
      BY <2>4, <2>6
    <3>2. \A i \in T!Filled : T!Cardinality({j \in T!Filled : j <= i}) = i
      BY <2>4, <2>6
    <3> QED
      BY <3>1, <3>2
  <2>9. ASSUME NEW n \in 1 .. m PROVE T!ReadBack[n] = log[newest + 1 - n]
    <3>1. n \in 1 .. r /\ n <= m
      BY <2>1
    <3> QED
      BY <2>2, <3>1
  <2>10. T!Transitions = [n \in 1 .. m |-> log[newest + 1 - n]]
    BY <2>7, <2>8, <2>9 DEF T!Transitions
  <2> QED
    BY <2>1, <2>10
<1> QED
  BY <1>1, RingAlways, PTL

-----------------------------------------------------------------------------
(* In every scene the monitor, the program and the observers do what       *)
(* HealthAware lets them do, and nothing else moves its state.             *)
THEOREM ScenesImplement == MCSpec => Spec
<1>1. MCInit => Init
  BY DEF MCInit
<1>2. ASSUME [MCNext]_<<vars, scene, ringVars, bookVars>> PROVE [Next]_vars
  <2>1. CASE RingScene
    BY <2>1, MonitoringAssumption DEF RingScene, MonitoringAssumption, Next
  <2> QED
    BY <1>2, <2>1 DEF MCNext
<1> QED
  BY <1>1, <1>2, PTL DEF MCSpec, Spec
=============================================================================
