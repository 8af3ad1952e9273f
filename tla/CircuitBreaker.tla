--------------------------- MODULE CircuitBreaker ---------------------------
(***************************************************************************)
(* The circuit breaker of slabby.go, shared by every goroutine that        *)
(* allocates or releases.  isCircuitBreakerOpen reads the state and the    *)
(* time of the last failure under the read lock, decides with the lock     *)
(* released, and takes the write lock to enter the half-open state; the    *)
(* two record functions run under the write lock.                          *)
(*                                                                         *)
(* Time is the number of clock ticks since a failure was recorded, as far  *)
(* as anyone can tell it apart: it stops at RecoveryTimeout + 1.           *)
(***************************************************************************)
EXTENDS Naturals

CONSTANTS
  Threads,          \* goroutines
  FailureThreshold, \* config.FailureThreshold
  RecoveryTimeout   \* config.RecoveryTimeout, in ticks

ASSUME BreakerAssumption ==
  FailureThreshold \in Nat \ {0} /\ RecoveryTimeout \in Nat

VARIABLES
  currentState,  \* "closed", "open" or "halfOpen"
  failureCount,  \* nothing tells counts above FailureThreshold apart
  successCount,
  age,           \* ticks since lastFailureTime
  pc,            \* where a goroutine is
  seenState,     \* the state it read
  seenAge        \* ticks since the lastFailureTime it read

breaker == <<currentState, failureCount, successCount>>
seen    == <<seenState, seenAge>>
vars    == <<currentState, failureCount, successCount, age, pc, seenState, seenAge>>

States == {"closed", "open", "halfOpen"}
Ages   == 0 .. RecoveryTimeout + 1

TypeOK ==
  /\ currentState \in States
  /\ failureCount \in 0 .. FailureThreshold
  /\ successCount \in Nat
  /\ age \in Ages
  /\ pc \in [Threads -> {"idle", "decide", "upgrade", "admitted"}]
  /\ seenState \in [Threads -> States]
  /\ seenAge \in [Threads -> Ages]

Init ==
  /\ currentState = "closed"
  /\ failureCount = 0 /\ successCount = 0
  /\ age = RecoveryTimeout + 1   \* lastFailureTime is the zero time
  /\ pc = [t \in Threads |-> "idle"]
  /\ seenState = [t \in Threads |-> "closed"]
  /\ seenAge = [t \in Threads |-> 0]

Older(a) == IF a > RecoveryTimeout THEN a ELSE a + 1
Elapsed(a) == a > RecoveryTimeout
Goto(t, label) == pc' = [pc EXCEPT ![t] = label]

(* The goroutine is done; what it read is dead. *)
Forget(t) ==
  /\ Goto(t, "idle")
  /\ seenState' = [seenState EXCEPT ![t] = "closed"]
  /\ seenAge' = [seenAge EXCEPT ![t] = 0]

Tick ==
  /\ age' = Older(age)
  /\ seenAge' = [t \in Threads |->
                   IF pc[t] = "decide" THEN Older(seenAge[t]) ELSE seenAge[t]]
  /\ UNCHANGED <<breaker, pc, seenState>>

-----------------------------------------------------------------------------
(* isCircuitBreakerOpen, called by Allocate, AllocateFast, BatchAllocate   *)
(* and HealthCheck: read the state and the time under RLock.               *)
Look(t) ==
  /\ pc[t] = "idle"
  /\ Goto(t, "decide")
  /\ seenState' = [seenState EXCEPT ![t] = currentState]
  /\ seenAge' = [seenAge EXCEPT ![t] = age]
  /\ UNCHANGED <<breaker, age>>

Admit(t) ==
  /\ pc[t] = "decide"
  /\ seenState[t] # "open"
  /\ Goto(t, "admitted")
  /\ UNCHANGED <<breaker, age, seen>>

(* now.Sub(lastFailureTime) > RecoveryTimeout, the lock being released *)
TimeoutPassed(t) ==
  /\ pc[t] = "decide"
  /\ seenState[t] = "open"
  /\ Elapsed(seenAge[t])
  /\ Goto(t, "upgrade")
  /\ UNCHANGED <<breaker, age, seen>>

(* mutant: a rejected call counts as a failure *)
RejectFailing(t) ==
  /\ pc[t] = "decide"
  /\ seenState[t] = "open"
  /\ ~Elapsed(seenAge[t])
  /\ age' = 0
  /\ Forget(t)
  /\ UNCHANGED breaker

(* ErrCircuitBreakerOpen *)
Reject(t) ==
  /\ pc[t] = "decide"
  /\ seenState[t] = "open"
  /\ ~Elapsed(seenAge[t])
  /\ Forget(t)
  /\ UNCHANGED <<breaker, age>>

(* Under the write lock; "double-check state hasn't changed".  The call is *)
(* admitted either way.                                                    *)
EnterHalfOpen(t) ==
  /\ pc[t] = "upgrade"
  /\ IF currentState = "open"
       THEN currentState' = "halfOpen" /\ successCount' = 0
       ELSE UNCHANGED <<currentState, successCount>>
  /\ Goto(t, "admitted")
  /\ UNCHANGED <<failureCount, age, seen>>

(* recordCircuitBreakerFailure: the call found no slab. *)
RecordFailure(t) ==
  /\ pc[t] = "admitted"
  /\ age' = 0
  /\ failureCount' = IF failureCount = FailureThreshold THEN failureCount
                      ELSE failureCount + 1
  /\ CASE currentState = "closed" ->
            /\ currentState' = IF failureCount + 1 >= FailureThreshold
                                 THEN "open" ELSE "closed"
            /\ UNCHANGED successCount
       [] currentState = "halfOpen" -> currentState' = "open" /\ successCount' = 0
       [] currentState = "open"     -> UNCHANGED <<currentState, successCount>>
  /\ Forget(t)

(* mutant: closing keeps the failure count *)
SucceededKeepCount ==
  \/ /\ currentState = "halfOpen"
     /\ successCount + 1 < FailureThreshold \div 2
     /\ successCount' = successCount + 1
     /\ UNCHANGED <<currentState, failureCount>>
  \/ /\ currentState = "halfOpen"
     /\ successCount + 1 >= FailureThreshold \div 2
     /\ currentState' = "closed" /\ successCount' = 0 /\ UNCHANGED failureCount
  \/ /\ currentState = "closed"
     /\ failureCount' = IF failureCount > 0 THEN failureCount - 1 ELSE 0
     /\ UNCHANGED <<currentState, successCount>>
  \/ /\ currentState = "open"
     /\ UNCHANGED breaker

(* recordCircuitBreakerSuccess *)
Succeeded ==
  \/ /\ currentState = "halfOpen"
     /\ successCount + 1 < FailureThreshold \div 2
     /\ successCount' = successCount + 1
     /\ UNCHANGED <<currentState, failureCount>>
  \/ /\ currentState = "halfOpen"
     /\ successCount + 1 >= FailureThreshold \div 2
     /\ currentState' = "closed" /\ successCount' = 0 /\ failureCount' = 0
  \/ /\ currentState = "closed"
     /\ failureCount' = IF failureCount > 0 THEN failureCount - 1 ELSE 0
     /\ UNCHANGED <<currentState, successCount>>
  \/ /\ currentState = "open"
     /\ UNCHANGED breaker

(* AllocateFast got its slab. *)
AllocateFastSucceeds(t) ==
  /\ pc[t] = "admitted"
  /\ Succeeded
  /\ Forget(t)
  /\ UNCHANGED age

(* Allocate and BatchAllocate record no success, and HealthCheck allocates *)
(* nothing.                                                                *)
AllocateSucceeds(t) ==
  /\ pc[t] = "admitted"
  /\ Forget(t)
  /\ UNCHANGED <<breaker, age>>

(* Deallocate and DeallocateFast do not look at the breaker, but count. *)
DeallocateSucceeds(t) ==
  /\ pc[t] = "idle"
  /\ Succeeded
  /\ UNCHANGED <<age, pc, seen>>

(* The breaker's part of Reset; calls in progress go on. *)
Reset ==
  /\ currentState' = "closed" /\ failureCount' = 0 /\ successCount' = 0
  /\ UNCHANGED <<age, pc, seen>>

Finish(t) ==
  RecordFailure(t) \/ AllocateFastSucceeds(t) \/ AllocateSucceeds(t)

Step(t) ==
  Admit(t) \/ TimeoutPassed(t) \/ Reject(t) \/ EnterHalfOpen(t) \/ Finish(t)

Next == Tick \/ Reset \/ \E t \in Threads :
          Look(t) \/ Step(t) \/ DeallocateSucceeds(t)

Spec == Init /\ [][Next]_vars

(* Time passes and calls in progress go on; nobody is obliged to call. *)
FairSpec == Spec /\ WF_vars(Tick) /\ \A t \in Threads : WF_vars(Step(t))

-----------------------------------------------------------------------------
(* The counts belong to the state: a closed breaker has seen fewer         *)
(* failures than would open it (whatever path closed it, and however stale *)
(* the calls that still report), and successes are counted only while      *)
(* half-open and only until they close it.                                 *)
CountsMatchState ==
  /\ currentState = "closed" => failureCount < FailureThreshold
  /\ currentState # "halfOpen" => successCount = 0
  /\ currentState = "halfOpen" /\ successCount > 0 =>
       successCount < FailureThreshold \div 2

(* "Check if recovery timeout has passed": the breaker lets a trial call   *)
(* in only when the last failure is RecoveryTimeout ago.                   *)
(* isCircuitBreakerOpen departs from it: it decides on a failure time read *)
(* before it released the lock, which a later failure may have renewed.    *)
RecoveryWaits ==
  [][currentState = "open" /\ currentState' = "halfOpen" => Elapsed(age)]_vars

(* An open breaker does not lock its clients out for ever: if goroutines   *)
(* keep calling it lets one through (rejections do not renew the timeout). *)
KeepsTrying ==
  []<>(\E t \in Threads : pc[t] = "decide")
    => (currentState = "open" ~> currentState # "open")
=============================================================================
