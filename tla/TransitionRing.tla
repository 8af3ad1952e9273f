--------------------------- MODULE TransitionRing ---------------------------
(***************************************************************************)
(* The last state changes a LeakDetector was told of.  Each notification   *)
(* runs OnStateChange in a goroutine of its own, as soon or as late as the *)
(* scheduler likes; it takes the next index of a ring and writes the       *)
(* record there, without a lock.  Report collects the records, newest      *)
(* first.                                                                  *)
(***************************************************************************)
EXTENDS Integers, Sequences, FiniteSets, SequencesExt

CONSTANTS
  RingSize,   \* len(stateTransitions): 8
  Words,      \* number of values of a uint32
  Overtake    \* whether a notification may be delayed so long that RingSize
              \* later ones take their index meanwhile

VARIABLES
  stateTransitions,  \* the ring
  stateTransIdx,     \* the index taken last, a uint32
  started,           \* the notifications not begun, in the order they were sent
  writing,           \* those with an index, but not written
  log                \* the records in the order their indices were taken

vars == <<stateTransitions, stateTransIdx, started, writing, log>>

Slots == 0 .. RingSize - 1
Empty == [prev |-> "none", curr |-> "none"]

Init ==
  /\ stateTransitions = [i \in Slots |-> Empty]
  /\ stateTransIdx = 0
  /\ started = << >> /\ writing = {} /\ log = << >>

(* notifyStateChange starts the goroutine. *)
Notified(prev, curr) == Append(started, [prev |-> prev, curr |-> curr])

(* mutant: the record goes to the slot of the index before *)
SlotOfOldIndex == stateTransIdx % RingSize

(* AddUint32(&stateTransIdx, 1) % len *)
SlotOfNewIndex == ((stateTransIdx + 1) % Words) % RingSize

TakeIndex ==
  /\ Overtake \/ \A w \in writing : w.slot # SlotOfNewIndex
  /\ stateTransIdx' = (stateTransIdx + 1) % Words
  /\ \E i \in DOMAIN started :
       /\ writing' = writing \cup {[slot |-> SlotOfNewIndex, record |-> started[i]]}
       /\ log' = Append(log, started[i])
       /\ started' = RemoveAt(started, i)
  /\ UNCHANGED stateTransitions

Write ==
  \E w \in writing :
    /\ stateTransitions' = [stateTransitions EXCEPT ![w.slot] = w.record]
    /\ writing' = writing \ {w}
    /\ UNCHANGED <<stateTransIdx, started, log>>

(* Clear, with no notification on its way *)
Clear ==
  /\ started = << >> /\ writing = {} /\ log # << >>
  /\ stateTransitions' = [i \in Slots |-> Empty]
  /\ stateTransIdx' = 0
  /\ log' = << >>
  /\ UNCHANGED <<started, writing>>

Next == TakeIndex \/ Write \/ Clear

Spec == Init /\ [][Next]_vars

-----------------------------------------------------------------------------
(* Report: (stateIdx - i) % len for i = 0 .. len - 1, without the empty    *)
(* slots: the n-th transition is read from the n-th slot that is filled.   *)
ReadBack == [i \in 1 .. RingSize |->
               stateTransitions[((stateTransIdx - (i - 1)) % Words) % RingSize]]
Filled == {i \in 1 .. RingSize : ReadBack[i] # Empty}

Transitions ==
  [n \in 1 .. Cardinality(Filled) |->
     ReadBack[CHOOSE i \in Filled : Cardinality({j \in Filled : j <= i}) = n]]

(* With no OnStateChange in progress a report lists the last records, as   *)
(* many as the ring holds, each once and the newest first, also after the  *)
(* uint32 index has wrapped (OnStateChange, Report).                       *)
RingExact ==
  writing = {} =>
    Transitions = [i \in 1 .. (IF Len(log) < RingSize THEN Len(log) ELSE RingSize) |->
                     log[Len(log) + 1 - i]]

(* The records form a history: each begins where the one before ended.     *)
(* notifyStateChange departs from it: it starts a goroutine per change,    *)
(* and they may run in any order.                                          *)
RecordsInOrder ==
  \A i \in DOMAIN log : i > 1 => log[i].prev = log[i - 1].curr
=============================================================================
