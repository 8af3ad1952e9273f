------------------------------- MODULE Layout -------------------------------
(***************************************************************************)
(* Where New puts the slabs and their guard pages, and where getSlabBytes, *)
(* GetBytes, zeroSlabMemory and checkGuardPages look for them.  Memory is  *)
(* one array of bytes, indexed from the cache-aligned memoryBase; the pool *)
(* comes first and the guard pages follow it.                              *)
(*                                                                         *)
(* The state is the allocator made last: New may be called any number of   *)
(* times, with any arguments.                                              *)
(***************************************************************************)
EXTENDS Integers

CONSTANTS
  Half,        \* the number of int32 values that are not negative: 2 ^ 31
  GuardPage,   \* GuardPageSize
  Sizes,       \* slab sizes given to New, as int
  Capacities,  \* capacities given to New
  Lines        \* cache line sizes given to WithCacheLine

ASSUME LayoutAssumption ==
  /\ Half \in Nat \ {0}
  /\ GuardPage \in Nat
  /\ Sizes \subseteq Int /\ Capacities \subseteq Int
  /\ Lines \subseteq 1 .. Half - 1

VARIABLE made   \* the allocator New returned last, or NoAllocator

NoAllocator == [asked |-> 0, slabSize |-> 0, capacity |-> 0, alignedSize |-> 0,
                line |-> 1, guarded |-> FALSE]

MaxInt32 == Half - 1

(* The conversion int32(n) keeps the low bits, in two's complement. *)
Int32(n) == ((n + Half) % (2 * Half)) - Half

(* mutant: the size is rounded down *)
AlignDown(size, line) == (size \div line) * line

(* mutant: the size is not rounded *)
AlignNot(size, line) == size

(* n & m, bit by bit, is Common[m][n]. *)
Common[m \in Nat] ==
  [n \in Nat |-> IF m = 0 THEN 0
                 ELSE 2 * Common[m \div 2][n \div 2] + (m % 2) * (n % 2)]

(* alignToCache: (size + line - 1) &^ (line - 1) in int32.  The line is    *)
(* whatever WithCacheLine was given; the bits cleared make a multiple of   *)
(* it only when it is a power of two.                                      *)
AlignToCache(size, line) ==
  LET n == Int32(size + line - 1)
  IN  n - Common[line - 1][n % (2 * Half)]

(* guardPageMemory: two pages per slab *)
GuardMemory(capacity, guarded) == IF guarded THEN 2 * GuardPage * capacity ELSE 0

(* mutant: the pool is made for unaligned slabs *)
PoolLenUnaligned(a) == a.slabSize * a.capacity

(* len(memoryPool): what is left once the guard pages are cut off its end *)
PoolLen(a) == a.alignedSize * a.capacity

(* cap(memoryPool): slicing is checked against this, not against the length *)
PoolCap(a) == PoolLen(a) + GuardMemory(a.capacity, a.guarded)

Slabs(a) == 0 .. a.capacity - 1

(* getSlabBytes: the first byte of slab s *)
SlabOffset(a, s) == s * a.alignedSize + (IF a.guarded THEN s * GuardPage ELSE 0)

(* The bytes of slab s are SlabOffset(a, s) .. SlabEnd(a, s) - 1. *)
SlabEnd(a, s) == SlabOffset(a, s) + a.slabSize

(* checkGuardPages: the bytes that must be zero for slab s *)
GuardOffset(a, s) == PoolLen(a) + 2 * GuardPage * s
GuardEnd(a, s)    == GuardOffset(a, s) + 2 * GuardPage

(* What New checks: the total is computed from the int32 slab size. *)
Accepted(size, capacity, line) ==
  LET total == AlignToCache(Int32(size), line) * capacity
  IN  /\ size > 0 /\ capacity > 0 /\ capacity <= MaxInt32
      /\ total > 0 /\ total <= MaxInt32

Allocator(size, capacity, line, guarded) ==
  [asked |-> size, slabSize |-> Int32(size), capacity |-> capacity,
   alignedSize |-> AlignToCache(Int32(size), line), line |-> line,
   guarded |-> guarded]

Init == made = NoAllocator

New(size, capacity, line, guarded) ==
  made' = IF Accepted(size, capacity, line)
            THEN Allocator(size, capacity, line, guarded) ELSE NoAllocator

Next == \E size \in Sizes, capacity \in Capacities, line \in Lines,
           guarded \in BOOLEAN : New(size, capacity, line, guarded)

Spec == Init /\ [][Next]_made

-----------------------------------------------------------------------------
(* The byte ranges from i to j - 1 and from k to l - 1 have a byte in      *)
(* common.                                                                 *)
Overlap(i, j, k, l) == i < l /\ k < j /\ i < j /\ k < l

(* No odd number but 1 divides n. *)
PowerOfTwo(n) == \A d \in 1 .. n : n % d = 0 => d = 1 \/ d % 2 = 0

(* No two slabs share a byte (New and getSlabBytes, with and without guard *)
(* pages, whatever the rounding and the int32 conversions make of the      *)
(* size).                                                                  *)
SlabsDisjoint ==
  \A s, u \in Slabs(made) : s # u =>
    ~Overlap(SlabOffset(made, s), SlabEnd(made, s),
             SlabOffset(made, u), SlabEnd(made, u))

(* getSlabBytes never slices outside the memory New reserved, so that no   *)
(* allocation can panic.                                                   *)
SlabsInBounds ==
  \A s \in Slabs(made) :
    0 <= SlabOffset(made, s) /\ SlabEnd(made, s) <= PoolCap(made)

(* Every slab starts on a cache line of its own, given a cache line that   *)
(* is a power of two and guard pages that are whole lines (alignToCache,   *)
(* createCacheAlignedSlice).                                               *)
SlabsAligned ==
  PowerOfTwo(made.line) /\ GuardPage % made.line = 0 =>
    \A s \in Slabs(made) : SlabOffset(made, s) % made.line = 0

(* "with the specified slab size" (New): a slab is as long as was asked.   *)
(* New departs from it: the overflow check sees the size cut to an int32.  *)
SlabsLongEnough == made.slabSize >= made.asked

(* "Before and after each slab": the bytes a client may write are not      *)
(* guard bytes, of its own slab or of another.  getSlabBytes and           *)
(* checkGuardPages depart from it: they disagree on where a slab ends.     *)
GuardsApart ==
  made.guarded => \A s, g \in Slabs(made) :
    ~Overlap(SlabOffset(made, s), SlabEnd(made, s),
             GuardOffset(made, g), GuardEnd(made, g))
=============================================================================
