------------------------ MODULE CircuitBreakerProof -------------------------
(***************************************************************************)
(* Proofs about CircuitBreaker, with and without AllocateWithTimeout, for  *)
(* any number of goroutines, any threshold of at least one failure and any *)
(* recovery timeout.                                                       *)
(***************************************************************************)
EXTENDS TimedAllocate, TLAPS

USE BreakerAssumption DEF BreakerAssumption

(* The inductive invariant. *)
Counts == TypeOK /\ CountsMatchState

(* A new breaker is closed and has counted nothing. *)
LEMMA InitCounts == Init => Counts
  BY DEF Init, Counts, TypeOK, CountsMatchState, States, Ages

(* The locals a call drops keep their types. *)
LEMMA ForgetTyped ==
  ASSUME TypeOK, NEW t \in Threads, Forget(t)
  PROVE  /\ pc' \in [Threads -> {"idle", "decide", "upgrade", "admitted"}]
         /\ seenState' \in [Threads -> States]
         /\ seenAge' \in [Threads -> Ages]
  BY DEF TypeOK, Forget, Goto, States, Ages

(* A recorded success, whoever reports it and however late, leaves counts  *)
(* that match the state.                                                   *)
LEMMA SucceededCounts ==
  ASSUME Counts, Succeeded
  PROVE  /\ currentState' \in States
         /\ failureCount' \in 0 .. FailureThreshold
         /\ successCount' \in Nat
         /\ CountsMatchState'
<1>1. CASE currentState = "halfOpen"
  BY <1>1 DEF Succeeded, Counts, TypeOK, CountsMatchState, States
<1>2. CASE currentState = "closed"
  BY <1>2 DEF Succeeded, Counts, TypeOK, CountsMatchState, States
<1>3. CASE currentState = "open"
  BY <1>3 DEF Succeeded, Counts, TypeOK, CountsMatchState, States, breaker
<1> QED
  BY <1>1, <1>2, <1>3 DEF Counts, TypeOK, States

(* A recorded failure: at the threshold the breaker opens, and a half-open *)
(* breaker drops the successes it had counted.                             *)
LEMMA FailureCounts ==
  ASSUME Counts, NEW t \in Threads, RecordFailure(t)
  PROVE  Counts'
<1>1. age' \in Ages
  BY DEF RecordFailure, Ages
<1>2. failureCount' \in 0 .. FailureThreshold
  BY DEF RecordFailure, Counts, TypeOK
<1>3. currentState' \in States /\ successCount' \in Nat /\ CountsMatchState'
  <2>1. CASE currentState = "closed"
    BY <2>1 DEF RecordFailure, Counts, TypeOK, CountsMatchState, States
  <2>2. CASE currentState = "halfOpen"
    BY <2>2 DEF RecordFailure, Counts, TypeOK, CountsMatchState, States
  <2>3. CASE currentState = "open"
    BY <2>3 DEF RecordFailure, Counts, TypeOK, CountsMatchState, States
  <2> QED
    BY <2>1, <2>2, <2>3 DEF Counts, TypeOK, States
<1> QED
  BY <1>1, <1>2, <1>3, ForgetTyped DEF RecordFailure, Counts, TypeOK

(* Every step keeps the counts in line with the state. *)
LEMMA NextCounts == Counts /\ [Next]_vars => Counts'
<1> SUFFICES ASSUME Counts, [Next]_vars PROVE Counts'
  OBVIOUS
<1>1. CASE Tick
  BY <1>1 DEF Tick, Counts, TypeOK, CountsMatchState, breaker, Older, Ages
<1>2. CASE Reset
  BY <1>2 DEF Reset, Counts, TypeOK, CountsMatchState, seen, States
<1>3. ASSUME NEW t \in Threads, Look(t) PROVE Counts'
  BY <1>3 DEF Look, Goto, Counts, TypeOK, CountsMatchState, breaker
<1>4. ASSUME NEW t \in Threads, Admit(t) \/ TimeoutPassed(t) PROVE Counts'
  BY <1>4 DEF Admit, TimeoutPassed, Goto, Counts, TypeOK, CountsMatchState,
              breaker, seen
<1>5. ASSUME NEW t \in Threads, Reject(t) \/ AllocateSucceeds(t) PROVE Counts'
  BY <1>5, ForgetTyped DEF Reject, AllocateSucceeds, Counts, TypeOK,
              CountsMatchState, breaker
<1>6. ASSUME NEW t \in Threads, EnterHalfOpen(t) PROVE Counts'
  BY <1>6 DEF EnterHalfOpen, Goto, Counts, TypeOK, CountsMatchState, seen, States
<1>7. ASSUME NEW t \in Threads, RecordFailure(t) PROVE Counts'
  BY <1>7, FailureCounts
<1>8. ASSUME NEW t \in Threads, AllocateFastSucceeds(t) PROVE Counts'
  BY <1>8, SucceededCounts, ForgetTyped DEF AllocateFastSucceeds, Counts, TypeOK
<1>9. ASSUME NEW t \in Threads, DeallocateSucceeds(t) PROVE Counts'
  BY <1>9, SucceededCounts DEF DeallocateSucceeds, Counts, TypeOK, seen
<1>10. CASE UNCHANGED vars
  BY <1>10 DEF vars, Counts, TypeOK, CountsMatchState
<1> QED
  BY <1>1, <1>2, <1>3, <1>4, <1>5, <1>6, <1>7, <1>8, <1>9, <1>10
     DEF Next, Step, Finish

(* A closed breaker has always seen fewer failures than would open it, and *)
(* successes count only towards closing a half-open one, whatever stale    *)
(* reports arrive (recordCircuitBreakerSuccess, recordCircuitBreakerFailure*)
(* and Reset).                                                             *)
THEOREM BreakerCounts == Spec => []CountsMatchState
<1>1. Counts => CountsMatchState
  BY DEF Counts
<1> QED
  BY <1>1, InitCounts, NextCounts, PTL DEF Spec

(* A step of AllocateWithTimeout is a step of the breaker, or none: a call *)
(* with a timeout does nothing to it that Allocate does not do.            *)
LEMMA TimedSteps == [TimedNext]_timedVars => [Next]_vars
<1> SUFFICES ASSUME [TimedNext]_timedVars PROVE [Next]_vars
  OBVIOUS
<1>1. CASE UNCHANGED timedVars
  BY <1>1 DEF timedVars
<1>2. CASE Tick \/ Reset
  BY <1>2 DEF Next
<1>3. ASSUME NEW t \in Threads,
             AllocateWithTimeout(t) \/ DeadlinePasses(t) \/ GiveUp(t)
      PROVE  UNCHANGED vars
  BY <1>3 DEF AllocateWithTimeout, DeadlinePasses, GiveUp
<1>4. ASSUME NEW t \in Threads, Try(t) \/ Untimed(t) PROVE Next
  BY <1>4 DEF Try, Untimed, Next
<1>5. ASSUME NEW t \in Threads, GoOn(t) \/ NoSlab(t) \/ Answered(t) PROVE Next
  <2>1. Step(t)
    BY <1>5 DEF GoOn, NoSlab, Answered, Step, Finish
  <2> QED
    BY <2>1 DEF Next
<1> QED
  BY <1>1, <1>2, <1>3, <1>4, <1>5 DEF TimedNext

(* The breaker keeps its counts under AllocateWithTimeout too.             *)
THEOREM TimedCounts == TimedSpec => []CountsMatchState
<1>1. TimedInit => Init
  BY DEF TimedInit
<1> QED
  BY <1>1, TimedSteps, BreakerCounts, PTL DEF TimedSpec, Spec
=============================================================================
