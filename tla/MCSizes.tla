------------------------------ MODULE MCSizes -------------------------------
(***************************************************************************)
(* The arithmetic of the allocators for TLC: New with a 7-bit int32 and    *)
(* guard pages of 8 bytes, where the arguments reach past both ends of the *)
(* int32 range; the size classes with the tables of size_class.go; and the *)
(* lists of the colored free list, with CacheColorCount 4 for 16.  The     *)
(* first two leave nothing behind that a later call reads: each call is    *)
(* made from the start and followed by a return to it.  A free list is     *)
(* made from the start and then used.                                      *)
(***************************************************************************)
EXTENDS Layout, Sequences

CONSTANTS
  Thresholds, Requests, BaseTable, ExtendedTable,  \* see SizeClass
  Colors, ShardCounts, LineSizes, Blocks           \* see ColoredLists

VARIABLES largeThreshold, served, lists

AllSizes == (-1 .. 66) \cup (120 .. 136)
AllCapacities == {-1, 0, 1, 2, 3, 5, 63, 64}
AllRequests == 0 .. 8200

(* sizeClassTable and extendedSizeClassTable *)
SizeClassTable == <<8, 16, 32, 48, 64, 80, 96, 112, 128, 160, 192, 224, 256,
                    320, 384, 448, 512, 640, 768>>
ExtendedSizeClassTable == <<896, 1024, 1280, 1536, 2048, 3072, 4096, 6144, 8192>>

C == INSTANCE SizeClass

F == INSTANCE ColoredLists WITH Aligned <- LineSizes, Capacity <- Blocks

(* The classes are sorted.  A threshold is at most the largest class: the  *)
(* lookup table has no entry for a larger one, and the constructor panics. *)
(* nextPowerOfTwo is positive.                                             *)
ASSUME SizesAssumption ==
  /\ BaseTable \in Seq(Nat) /\ ExtendedTable \in Seq(Nat)
  /\ \A i, j \in DOMAIN C!Classes : i <= j => C!Classes[i] <= C!Classes[j]
  /\ Requests \subseteq Int /\ Thresholds \subseteq Int
  /\ \A threshold \in Thresholds : \E i \in DOMAIN C!Classes : threshold <= C!Classes[i]
  /\ Colors \in Nat \ {0} /\ Blocks \in Nat /\ LineSizes \subseteq Nat
  /\ \A count \in ShardCounts : F!NextPowerOfTwo(count) \in Nat \ {0}

MCInit == Init /\ C!Init /\ F!Init

AtStart == made = NoAllocator /\ served = C!Nothing /\ lists = F!NoLists

MCNext ==
  \/ AtStart /\ Next /\ UNCHANGED <<largeThreshold, served, lists>>
  \/ AtStart /\ C!Next /\ UNCHANGED <<made, lists>>
  \/ /\ AtStart /\ \A threshold \in Thresholds : largeThreshold <= threshold
     /\ F!Make /\ UNCHANGED <<made, largeThreshold, served>>
  \/ F!Use /\ UNCHANGED <<made, largeThreshold, served>>
  \/ /\ lists = F!NoLists /\ ~AtStart
     /\ made' = NoAllocator /\ served' = C!Nothing /\ UNCHANGED <<largeThreshold, lists>>

MCSpec == MCInit /\ [][MCNext]_<<made, largeThreshold, served, lists>>

(* A request is refused only where no class that was made holds it.        *)
RefusedOnlyAtTop == C!RefusedOnlyAtTop

(* The class that serves a request is the smallest that holds it.          *)
SmallestClass == C!SmallestClass

(* get fails only when every list is empty.                                *)
MissMeansEmpty == F!MissMeansEmpty

(* Every slab is on one list, or with a caller of get.                     *)
OnOneList == F!OnOneList

(* Every size up to the threshold is served: see the departure noted at    *)
(* SizeClass.                                                              *)
EverySizeServed == C!EverySizeServed
=============================================================================
