----------------------------- MODULE SizeClass ------------------------------
(***************************************************************************)
(* size_class.go: how a SizeClassAllocator serves a request.  A size up to *)
(* largeThreshold goes to the slab allocator of its class, a larger one to *)
(* the LargeAllocator.  NewSizeClassAllocator fills the lookup table and   *)
(* makes one slab allocator per class of sizeClassTable, and per class of  *)
(* extendedSizeClassTable below the threshold.                             *)
(*                                                                         *)
(* The state is the request served last.                                   *)
(***************************************************************************)
EXTENDS Integers, Sequences, SequencesExt

CONSTANTS
  BaseTable,      \* sizeClassTable
  ExtendedTable,  \* extendedSizeClassTable
  Thresholds,     \* values of largeThreshold
  Requests        \* sizes asked for

VARIABLES largeThreshold, served

Nothing == [asked |-> 0, by |-> "nobody", length |-> 0]

SizeClassCount == Len(BaseTable)
Classes == BaseTable \o ExtendedTable

(* mutant: the class must be larger than the size *)
FindLargerClass(size) == SelectInSeq(Classes, LAMBDA c : c > size) - 1

(* The index, from 0, of the first class that holds the size, or -1. *)
FindSizeClass(size) == SelectInSeq(Classes, LAMBDA c : c >= size) - 1

SizeToClass(size) ==
  IF 0 < size /\ size <= largeThreshold THEN FindSizeClass(size) ELSE -1

(* NewSizeClassAllocator stops at the first extended class that reaches    *)
(* the threshold.                                                          *)
Made(class) ==
  class < SizeClassCount \/ \A i \in SizeClassCount .. class :
                              Classes[i + 1] < largeThreshold

(* allocateFromSlab *)
FromSlab(size, class) ==
  IF Made(class)
    THEN [asked |-> size, by |-> "slab", length |-> Classes[class + 1]]
    ELSE [asked |-> size, by |-> "unavailable", length |-> 0]

(* Allocate, and AllocateFast, which makes the same choice *)
Answer(size) ==
  IF size <= 0 THEN [asked |-> size, by |-> "invalid", length |-> 0]
  ELSE IF SizeToClass(size) >= 0 THEN FromSlab(size, SizeToClass(size))
  ELSE [asked |-> size, by |-> "large", length |-> size]

Init == largeThreshold \in Thresholds /\ served = Nothing

Allocate(size) == served' = Answer(size) /\ UNCHANGED largeThreshold

Next == \E size \in Requests : Allocate(size)

Spec == Init /\ [][Next]_<<largeThreshold, served>>

-----------------------------------------------------------------------------
(* A request up to the threshold that is served comes from the smallest    *)
(* class that holds it, and only one above the threshold is large.         *)
SmallestClass ==
  /\ served.by = "slab" =>
       \A i \in DOMAIN Classes : Classes[i] >= served.asked => served.length <= Classes[i]
  /\ served.by = "large" => served.asked > largeThreshold

(* A request finds no allocator only where the constructor stopped: no     *)
(* class that was made would have held it.  The lookup table and the loop  *)
(* over the extended classes compare with the threshold separately         *)
(* (NewSizeClassAllocator, allocateFromSlab).                              *)
RefusedOnlyAtTop ==
  served.by = "unavailable" =>
    \A class \in 0 .. Len(Classes) - 1 :
      Made(class) => Classes[class + 1] < served.asked

(* "covers 8B to 8KB": every size has an allocator to serve it.            *)
(* NewSizeClassAllocator departs from it: it makes no allocator for a      *)
(* class that reaches the threshold, though the lookup table names it.     *)
EverySizeServed == served.by # "unavailable"
=============================================================================
