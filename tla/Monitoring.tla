----------------------------- MODULE Monitoring -----------------------------
(***************************************************************************)
(* The parts that watch a slab allocator, put together for TLC: the        *)
(* HealthAware monitor with the program's observers (scene "observers"),   *)
(* the same monitor notifying a LeakDetector, which keeps the state        *)
(* changes in its ring (scene "ring"), and the books of the detector       *)
(* (scene "books").  A behaviour plays one scene, chosen at the start.     *)
(***************************************************************************)
EXTENDS HealthAware, FiniteSets

CONSTANTS
  Detector,     \* the observer that is a LeakDetector
  RingSize, Words, Overtake,
  MaxChanges,   \* allocations and releases of the scene "ring" (bound)
  Callers, Stacks, SampleRate, CounterSize, LeakThreshold, MaxReported,
  MaxLoops, MaxCalls

(* NewLeakDetector replaces a sample rate of 0; a stack is a 64-bit hash.  *)
(* 2^32 is a multiple of the 8 places of the ring.                         *)
ASSUME MonitoringAssumption ==
  /\ Detector \in Observers
  /\ IsFiniteSet(Callers) /\ IsFiniteSet(Stacks)
  /\ {SampleRate, CounterSize, RingSize, Words} \subseteq Nat \ {0} /\ Words % RingSize = 0

VARIABLES
  scene, changes,
  stateTransitions, stateTransIdx, started, writing, log,
  running, stopped, loops, sampleCounter, wraps, tracked, netCount, allocCount,
  deallocCount, aged, uniqueStacks, totalAllocs, totalDeallocs, totalLeaks,
  reported, pc, kind, stack

T == INSTANCE TransitionRing
L == INSTANCE LeakDetector

ringVars == <<changes, stateTransitions, stateTransIdx, started, writing, log>>
bookVars == <<running, stopped, loops, sampleCounter, wraps, tracked, netCount,
              allocCount, deallocCount, aged, uniqueStacks, totalAllocs, totalDeallocs,
              totalLeaks, reported, pc, kind, stack>>

MCInit ==
  /\ scene \in {"observers", "ring", "books"} /\ changes = 0
  /\ Init /\ T!Init /\ L!Init

(* The monitor reaches the detector in its loop over the observers. *)
TellsDetector ==
  mon = "tell" /\ at <= view.length /\ arrays[view.array][at] = Detector

(* The program allocates and releases, the monitor runs and the            *)
(* notifications it starts reach the ring when they are scheduled.         *)
RingScene ==
  \/ /\ Monitor
     /\ started' = IF TellsDetector THEN T!Notified(prev, target) ELSE started
     /\ UNCHANGED <<changes, stateTransitions, stateTransIdx, writing, log>>
  \/ /\ changes < MaxChanges /\ changes' = changes + 1
     /\ AllocateFast \/ DeallocateFast
     /\ UNCHANGED <<stateTransitions, stateTransIdx, started, writing, log>>
  \/ RegisterObserver(Detector) /\ UNCHANGED ringVars
  \/ T!Next /\ UNCHANGED <<vars, changes>>

MCNext ==
  /\ UNCHANGED scene
  /\ \/ scene = "observers" /\ Next /\ UNCHANGED <<ringVars, bookVars>>
     \/ scene = "ring" /\ RingScene /\ UNCHANGED bookVars
     \/ scene = "books" /\ L!Next /\ UNCHANGED <<vars, ringVars>>

(* The ticker keeps firing and the monitor keeps running; the detector's   *)
(* report loop is scheduled and time passes.                               *)
MCSpec ==
  /\ MCInit /\ [][MCNext]_<<vars, scene, ringVars, bookVars>>
  /\ WF_vars(scene # "books" /\ Monitor)
  /\ L!Fairness

(* A report of the detector lists the last state changes the monitor told  *)
(* it of, newest first (TransitionRing behind the monitor's notifications).*)
RingExact == T!RingExact

(* The totals of the detector agree with its stack sets. *)
TotalsMatchSets == L!TotalsMatchSets

(* One call in SampleRate is booked, but for the wraps of the counter. *)
OneInN == L!OneInN

(* A leak that lasts is reported (LeakDetector.reportLoop). *)
LeakReported == L!LeakReported
=============================================================================
