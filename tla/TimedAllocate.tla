--------------------------- MODULE TimedAllocate ----------------------------
(***************************************************************************)
(* AllocateWithTimeout of slabby.go on top of the circuit breaker: until   *)
(* its deadline it calls Allocate again and again, as long as no slab is   *)
(* found.  Every such failure is recorded with the breaker, so that the    *)
(* retries of one call may open it; an open breaker, like a slab, ends the *)
(* call at once.                                                           *)
(***************************************************************************)
EXTENDS CircuitBreaker

VARIABLE timer  \* of the AllocateWithTimeout a goroutine is in, if any:
                \* "none", "running" or "passed"

timedVars == <<vars, timer>>

TimerOK == timer \in [Threads -> {"none", "running", "passed"}]

TimedInit == Init /\ timer = [t \in Threads |-> "none"]

SetTimer(t, value) == timer' = [timer EXCEPT ![t] = value]

(* deadline := time.Now().Add(timeout) *)
AllocateWithTimeout(t) ==
  /\ pc[t] = "idle" /\ timer[t] = "none"
  /\ SetTimer(t, "running")
  /\ UNCHANGED vars

DeadlinePasses(t) ==
  /\ timer[t] = "running"
  /\ SetTimer(t, "passed")
  /\ UNCHANGED vars

(* time.Now().Before(deadline): Allocate is called, for the first time or  *)
(* after the sleep.                                                        *)
Try(t) ==
  /\ timer[t] = "running"
  /\ Look(t)
  /\ UNCHANGED timer

(* The call of Allocate goes on. *)
GoOn(t) ==
  /\ timer[t] # "none"
  /\ Admit(t) \/ TimeoutPassed(t) \/ EnterHalfOpen(t)
  /\ UNCHANGED timer

(* mutant: every retry has the whole timeout *)
NoSlabRenewed(t) ==
  /\ timer[t] # "none"
  /\ RecordFailure(t)
  /\ SetTimer(t, "running")

(* ErrOutOfMemory: sleep and try again. *)
NoSlab(t) ==
  /\ timer[t] # "none"
  /\ RecordFailure(t)
  /\ UNCHANGED timer

(* "Success or other error" *)
Answered(t) ==
  /\ timer[t] # "none"
  /\ Reject(t) \/ AllocateSucceeds(t)
  /\ SetTimer(t, "none")

(* ErrAllocationTimeout *)
GiveUp(t) ==
  /\ pc[t] = "idle" /\ timer[t] = "passed"
  /\ SetTimer(t, "none")
  /\ UNCHANGED vars

Untimed(t) ==
  /\ timer[t] = "none"
  /\ Look(t) \/ Step(t) \/ DeallocateSucceeds(t)
  /\ UNCHANGED timer

TimedNext ==
  \/ (Tick \/ Reset) /\ UNCHANGED timer
  \/ \E t \in Threads :
       \/ AllocateWithTimeout(t) \/ DeadlinePasses(t) \/ Try(t) \/ GoOn(t)
       \/ NoSlab(t) \/ Answered(t) \/ GiveUp(t) \/ Untimed(t)

TimedSpec ==
  /\ TimedInit /\ [][TimedNext]_timedVars
  /\ WF_vars(Tick)
  /\ \A t \in Threads : WF_vars(Step(t)) /\ WF_timer(DeadlinePasses(t)) /\ WF_timer(GiveUp(t))

-----------------------------------------------------------------------------
(* A call with a timeout returns, also when no slab is ever found and      *)
(* whatever the breaker does meanwhile (AllocateWithTimeout: "attempts     *)
(* allocation with a specified timeout").                                  *)
TimedReturns ==
  \A t \in Threads : timer[t] # "none" ~> timer[t] = "none"

(* Only its deadline or an answer ends it: no call gives up while the      *)
(* breaker is closed and time is left.  AllocateWithTimeout departs from   *)
(* it: its own failures open the breaker, which then refuses it.           *)
TriesUntilDeadline ==
  [][\A t \in Threads : timer[t] = "running" /\ timer'[t] = "none"
       => pc[t] = "admitted"]_timedVars
=============================================================================
