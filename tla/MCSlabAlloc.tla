----------------------------- MODULE MCSlabAlloc ----------------------------
(***************************************************************************)
(* Instances of SlabAlloc for TLC.                                         *)
(***************************************************************************)
EXTENDS SlabAlloc, TLC

CONSTANTS t1, t2   \* the goroutines

(* All goroutines hash to the same caches. *)
AnyCpu == [t \in Threads |-> Caches]

(* What getFastCPUID is meant to give: each goroutine its own cache. *)
OwnCpu == [t \in Threads |-> IF t = t1 THEN {0} ELSE {CacheCount - 1}]

(* The bytes of a slab lie in nobody's guard pages. *)
NoGuardHit == [s \in Slabs |-> {}]

(* New(64, Capacity, WithGuardPages()), laid out by the code. *)
L == INSTANCE Layout WITH Half <- 8388608, GuardPage <- 4096, Sizes <- {64},
                          Capacities <- {Capacity}, Lines <- {64}, made <- 0
Guarded == L!Allocator(64, Capacity, 64, TRUE)
GuardHitOf == [s \in Slabs |-> {g \in Slabs :
                 L!Overlap(L!SlabOffset(Guarded, s), L!SlabEnd(Guarded, s),
                           L!GuardOffset(Guarded, g), L!GuardEnd(Guarded, g))}]

Symmetry == Permutations(Threads)
=============================================================================
