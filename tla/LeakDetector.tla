---------------------------- MODULE LeakDetector ----------------------------
(***************************************************************************)
(* leak_detector.go: what a LeakDetector makes of the allocations and      *)
(* deallocations it is told of.  One in SampleRate of them, counted        *)
(* together, is booked on the stack set of the caller's stack and in the   *)
(* totals; a report loop looks for old stack sets with many more           *)
(* allocations than deallocations.                                         *)
(*                                                                         *)
(* OnAllocate and OnDeallocate are called from any number of goroutines    *)
(* and take no common lock: the sampling counter and the totals are        *)
(* atomics, the map of stack sets is a sync.Map, each set has a mutex.     *)
(***************************************************************************)
EXTENDS Integers, FiniteSets, Functions

CONSTANTS
  Callers,        \* goroutines that allocate and deallocate
  Stacks,         \* hashes of stack traces
  SampleRate,     \* sampleRate
  CounterSize,    \* how many values sampleCounter has: 2 ^ 32
  LeakThreshold,  \* leakThreshold
  MaxReported,    \* leaks in a report: 10
  MaxLoops,       \* report loops at a time (bound of the model)
  MaxCalls        \* calls that reach the sampling counter (bound of the model)

VARIABLES
  running,                              \* the flag of Start and Stop
  stopped,                              \* stopCh is closed
  loops,                                \* goroutines in reportLoop
  sampleCounter,
  wraps,                                \* how often sampleCounter has wrapped
  tracked,                              \* the stacks with a set in the map
  netCount, allocCount, deallocCount,   \* of each stack set
  aged,                                 \* the sets older than ageThreshold
  uniqueStacks, totalAllocs, totalDeallocs, totalLeaks,
  reported,                             \* the leaks of the last report
  pc, kind, stack                       \* where a caller is, what it tells of

lifecycle == <<running, stopped, loops>>
sets      == <<tracked, netCount, allocCount, deallocCount, aged>>
totals    == <<uniqueStacks, totalAllocs, totalDeallocs, totalLeaks>>
calls     == <<pc, kind, stack>>
counter   == <<sampleCounter, wraps>>
vars == <<running, stopped, loops, sampleCounter, wraps, tracked, netCount,
          allocCount, deallocCount, aged, uniqueStacks, totalAllocs,
          totalDeallocs, totalLeaks, reported, pc, kind, stack>>

None  == "none"
Kinds == {"alloc", "dealloc"}
Zero  == [h \in Stacks |-> 0]

TypeOK ==
  /\ running \in BOOLEAN /\ stopped \in BOOLEAN /\ loops \in 0 .. MaxLoops
  /\ sampleCounter \in 0 .. CounterSize - 1 /\ wraps \in Nat
  /\ tracked \subseteq Stacks /\ aged \subseteq tracked /\ reported \subseteq Stacks
  /\ {netCount, allocCount, deallocCount} \subseteq [Stacks -> Nat]
  /\ {uniqueStacks, totalAllocs, totalDeallocs} \subseteq Nat
  /\ totalLeaks \in Int
  /\ pc \in [Callers -> {"idle", "sample", "load", "create", "count", "track",
                         "total", "leaks"}]
  /\ kind \in [Callers -> Kinds \cup {None}]
  /\ stack \in [Callers -> Stacks \cup {None}]

Init ==
  /\ running = FALSE /\ stopped = FALSE /\ loops = 0
  /\ sampleCounter = 0 /\ wraps = 0
  /\ tracked = {} /\ aged = {} /\ reported = {}
  /\ netCount = Zero /\ allocCount = Zero /\ deallocCount = Zero
  /\ uniqueStacks = 0 /\ totalAllocs = 0 /\ totalDeallocs = 0 /\ totalLeaks = 0
  /\ pc = [c \in Callers |-> "idle"]
  /\ kind = [c \in Callers |-> None]
  /\ stack = [c \in Callers |-> None]

Goto(c, label) == pc' = [pc EXCEPT ![c] = label]

Return(c) ==
  /\ Goto(c, "idle")
  /\ kind' = [kind EXCEPT ![c] = None]
  /\ stack' = [stack EXCEPT ![c] = None]

Quiet == \A c \in Callers : pc[c] = "idle"

-----------------------------------------------------------------------------
(* Start: CompareAndSwap(false, true), and a report loop is started.       *)
Start ==
  /\ ~running /\ loops < MaxLoops
  /\ running' = TRUE /\ loops' = loops + 1
  /\ UNCHANGED <<stopped, counter, sets, totals, reported, calls>>

(* Stop: CompareAndSwap(true, false) and close(stopCh), which nothing makes *)
(* anew: after another Start the close panics, the flag being cleared.     *)
Stop ==
  /\ running
  /\ running' = FALSE /\ stopped' = TRUE
  /\ UNCHANGED <<loops, counter, sets, totals, reported, calls>>

(* OnAllocate or OnDeallocate, of a call that succeeded, finds the detector *)
(* running.                                                                *)
Enter(c, k) ==
  /\ pc[c] = "idle" /\ running
  /\ Goto(c, "sample")
  /\ kind' = [kind EXCEPT ![c] = k]
  /\ UNCHANGED <<lifecycle, counter, sets, totals, reported, stack>>

(* The calls that have reached the counter. *)
Sampled == wraps * CounterSize + sampleCounter

(* AddUint32(&sampleCounter, 1) *)
Count ==
  /\ Sampled < MaxCalls
  /\ sampleCounter' = (sampleCounter + 1) % CounterSize
  /\ wraps' = IF sampleCounter' = 0 THEN wraps + 1 ELSE wraps

(* mutant: the test sees the counter before it was advanced *)
SampleOld(c) ==
  /\ pc[c] = "sample" /\ Count
  /\ IF sampleCounter % SampleRate = 0
       THEN /\ \E h \in Stacks : stack' = [stack EXCEPT ![c] = h]
            /\ Goto(c, "load") /\ UNCHANGED kind
       ELSE Return(c)
  /\ UNCHANGED <<lifecycle, sets, totals, reported>>

(* The counter, the test, and captureStack *)
Sample(c) ==
  /\ pc[c] = "sample" /\ Count
  /\ IF sampleCounter' % SampleRate = 0
       THEN /\ \E h \in Stacks : stack' = [stack EXCEPT ![c] = h]
            /\ Goto(c, "load") /\ UNCHANGED kind
       ELSE Return(c)
  /\ UNCHANGED <<lifecycle, sets, totals, reported>>

(* getOrCreateSet: allocations.Load *)
LoadSet(c) ==
  /\ pc[c] = "load"
  /\ Goto(c, IF stack[c] \in tracked THEN "track" ELSE "create")
  /\ UNCHANGED <<lifecycle, counter, sets, totals, reported, kind, stack>>

(* mutant: Store, whatever another goroutine stored since *)
StoreSet(c) ==
  /\ pc[c] = "create"
  /\ tracked' = tracked \cup {stack[c]}
  /\ netCount' = [netCount EXCEPT ![stack[c]] = 0]
  /\ allocCount' = [allocCount EXCEPT ![stack[c]] = 0]
  /\ deallocCount' = [deallocCount EXCEPT ![stack[c]] = 0]
  /\ Goto(c, "count")
  /\ UNCHANGED <<lifecycle, counter, aged, totals, reported, kind, stack>>

(* getOrCreateSet: allocations.LoadOrStore *)
LoadOrStore(c) ==
  /\ pc[c] = "create"
  /\ tracked' = tracked \cup {stack[c]}
  /\ Goto(c, IF stack[c] \in tracked THEN "track" ELSE "count")
  /\ UNCHANGED <<lifecycle, counter, netCount, allocCount, deallocCount,
                 aged, totals, reported, kind, stack>>

(* Only who stored the set counts it. *)
CountUnique(c) ==
  /\ pc[c] = "count"
  /\ uniqueStacks' = uniqueStacks + 1
  /\ Goto(c, "track")
  /\ UNCHANGED <<lifecycle, counter, sets, totalAllocs, totalDeallocs,
                 totalLeaks, reported, kind, stack>>

(* Under set.mu; the net count stops at zero. *)
Track(c) ==
  LET h == stack[c] IN
  /\ pc[c] = "track"
  /\ IF kind[c] = "alloc"
       THEN /\ netCount' = [netCount EXCEPT ![h] = @ + 1]
            /\ allocCount' = [allocCount EXCEPT ![h] = @ + 1]
            /\ UNCHANGED deallocCount
       ELSE /\ netCount' = [netCount EXCEPT ![h] = IF @ > 0 THEN @ - 1 ELSE 0]
            /\ deallocCount' = [deallocCount EXCEPT ![h] = @ + 1]
            /\ UNCHANGED allocCount
  /\ Goto(c, "total")
  /\ UNCHANGED <<lifecycle, counter, tracked, aged, totals, reported, kind, stack>>

(* AddInt64(&totalAllocs, 1), or totalDeallocs *)
AddTotal(c) ==
  /\ pc[c] = "total"
  /\ IF kind[c] = "alloc"
       THEN totalAllocs' = totalAllocs + 1 /\ UNCHANGED totalDeallocs
       ELSE totalDeallocs' = totalDeallocs + 1 /\ UNCHANGED totalAllocs
  /\ Goto(c, "leaks")
  /\ UNCHANGED <<lifecycle, counter, sets, uniqueStacks, totalLeaks, reported,
                 kind, stack>>

(* AddInt64(&totalLeaks, 1), or -1 *)
AddLeaks(c) ==
  /\ pc[c] = "leaks"
  /\ totalLeaks' = totalLeaks + (IF kind[c] = "alloc" THEN 1 ELSE -1)
  /\ Return(c)
  /\ UNCHANGED <<lifecycle, counter, sets, uniqueStacks, totalAllocs,
                 totalDeallocs, reported>>

(* ageThreshold has passed since firstSeen, the first allocation of a set. *)
Age(h) ==
  /\ h \in tracked \ aged /\ allocCount[h] > 0
  /\ aged' = aged \cup {h}
  /\ UNCHANGED <<lifecycle, counter, tracked, netCount, allocCount,
                 deallocCount, totals, reported, calls>>

(* mutant: a net count equal to the threshold is not enough *)
SuspectsAbove == {h \in aged : netCount[h] > LeakThreshold}

(* The scan of Report *)
Suspects == {h \in aged : netCount[h] >= LeakThreshold}

(* Sorted by net count and cut to the first ten; sort.Slice leaves open    *)
(* which of several equal ones come first.                                 *)
Worst(S) ==
  {W \in SUBSET S :
     /\ Cardinality(W) = (IF Cardinality(S) < MaxReported THEN Cardinality(S)
                                                         ELSE MaxReported)
     /\ \A h \in W, g \in S \ W : netCount[g] <= netCount[h]}

(* reportLoop: the ticker fires.  With stopCh closed too, select takes     *)
(* either.                                                                 *)
Report ==
  /\ loops > 0
  /\ reported' \in Worst(Suspects)
  /\ UNCHANGED <<lifecycle, counter, sets, totals, calls>>

(* reportLoop: stopCh is closed. *)
LoopEnds ==
  /\ loops > 0 /\ stopped
  /\ loops' = loops - 1
  /\ UNCHANGED <<running, stopped, counter, sets, totals, reported, calls>>

(* Clear, with no call in progress: it replaces the map under their hands. *)
Clear ==
  /\ Quiet
  /\ sampleCounter' = 0 /\ wraps' = 0 /\ tracked' = {} /\ aged' = {}
  /\ netCount' = Zero /\ allocCount' = Zero /\ deallocCount' = Zero
  /\ uniqueStacks' = 0 /\ totalAllocs' = 0 /\ totalDeallocs' = 0 /\ totalLeaks' = 0
  /\ UNCHANGED <<lifecycle, reported, calls>>

Step(c) ==
  \/ Sample(c) \/ LoadSet(c) \/ LoadOrStore(c) \/ CountUnique(c)
  \/ Track(c) \/ AddTotal(c) \/ AddLeaks(c)

Next ==
  \/ Start \/ Stop \/ Clear
  \/ \E c \in Callers : Step(c) \/ \E k \in Kinds : Enter(c, k)
  \/ \E h \in Stacks : Age(h)
  \/ Report \/ LoopEnds

Spec == Init /\ [][Next]_vars

-----------------------------------------------------------------------------
At(label, k) == Cardinality({c \in Callers : pc[c] = label /\ kind[c] = k})

(* The books agree, up to the calls that are between two of their entries: *)
(* every set is counted once, however many goroutines find its stack new   *)
(* at once, the totals are the sums over the sets, TotalLeaks is their     *)
(* difference, and no set shows fewer active allocations than its own      *)
(* counts (getOrCreateSet, OnAllocate, OnDeallocate).                      *)
TotalsMatchSets ==
  /\ Cardinality(tracked) = uniqueStacks + Cardinality({c \in Callers : pc[c] = "count"})
  /\ SumFunction(allocCount) = totalAllocs + At("total", "alloc")
  /\ SumFunction(deallocCount) = totalDeallocs + At("total", "dealloc")
  /\ totalLeaks = (totalAllocs - At("leaks", "alloc"))
                    - (totalDeallocs - At("leaks", "dealloc"))
  /\ \A h \in Stacks : netCount[h] >= allocCount[h] - deallocCount[h]

(* "Sample 1 in N": of the calls the detector was told of, one in          *)
(* SampleRate is booked, however they interleave, and each time that the   *)
(* 32 bits of the counter wrap at most one too early (OnAllocate,          *)
(* OnDeallocate).                                                          *)
OneInN ==
  LET booked == totalAllocs + totalDeallocs
                  + Cardinality({c \in Callers : pc[c] \in {"load", "create", "count",
                                                           "track", "total"}})
  IN  /\ Sampled - SampleRate < SampleRate * booked
      /\ SampleRate * booked <= Sampled + wraps * (SampleRate - 1)

(* Time passes, calls go on and the report loop is scheduled. *)
Fairness ==
  /\ WF_vars(Report)
  /\ WF_vars(LoopEnds)
  /\ \A h \in Stacks : WF_vars(Age(h))

(* A stack that goes on holding LeakThreshold allocations is reported, as  *)
(* long as Stop has never been called and a report has room for every      *)
(* stack (reportLoop, Report).                                             *)
LeakReported ==
  \A h \in Stacks :
    <>[](netCount[h] >= LeakThreshold /\ running) /\ []~stopped
      => <>[](h \in reported \/ Cardinality(Suspects) > MaxReported)

(* The same of a detector that was stopped and started again.  Start       *)
(* departs from it: the new report loop finds stopCh closed and ends.      *)
LeakReportedAfterRestart ==
  \A h \in Stacks :
    <>[](netCount[h] >= LeakThreshold /\ running) => <>[](h \in reported)

(* "Net allocations currently active": a number of allocations.            *)
(* OnDeallocate departs from it: it subtracts one also when the allocation *)
(* was not sampled.                                                        *)
LeaksCountAllocations == Quiet => totalLeaks >= 0
=============================================================================
