------------------------------- MODULE Regions -------------------------------
(***************************************************************************)
(* mmap.go: a HybridAllocator gives a slab for a size up to its threshold  *)
(* and a region of memory mapped by the MmapAllocator for a larger one.    *)
(* The operating system (mmap and munmap, external) may give an address    *)
(* again as soon as it is unmapped, and either call may fail.              *)
(*                                                                         *)
(* A step of a goroutine is one call of the system, one operation on the   *)
(* sync.Map of regions, or one atomic addition to the statistics.  The     *)
(* slab allocator is the pool of SlabPool.  madvise and runtime.GC change  *)
(* nothing that is modelled.                                               *)
(***************************************************************************)
EXTENDS Integers, FiniteSetsExt

CONSTANTS
  Threads,
  Slabs,
  Pages,         \* pages of the address space (bound of the model)
  PageSize,
  Threshold,     \* the largest size that goes to a slab
  MaxSize,       \* the largest size asked for (bound of the model)
  Word,          \* 2^64: bytesAllocated is unsigned
  LateFrees      \* whether an address may be mapped again while a call that
                 \* is about to free it is under way

(* What the constants must be. *)
RegionsAssumption ==
  /\ {Pages, PageSize, Threshold, MaxSize, Word} \subseteq Nat \ {0}
  /\ -1 \notin Slabs   \* the ID of a block that is not a slab
  /\ LateFrees \in BOOLEAN

VARIABLES
  mapped,          \* the pages mapped
  orphans,         \* the pages whose munmap failed
  regions,         \* the sync.Map: size of the region that begins at a page, or 0
  bytesAllocated, activeRegions,
  free,            \* slabs the slab allocator can give
  held,            \* blocks the program holds
  pc, call         \* next step of each goroutine, the block and size it is about

os    == <<mapped, orphans>>
stats == <<bytesAllocated, activeRegions>>
vars  == <<mapped, orphans, regions, bytesAllocated, activeRegions, free, held, pc, call>>

Address == 1 .. Pages
Large   == -1                       \* the ID of a block that is not a slab
Slab(id, asked)   == [id |-> id, ptr |-> 0, asked |-> asked]
Block(ptr, asked) == [id |-> Large, ptr |-> ptr, asked |-> asked]
NoCall == [block |-> Slab(Large, 0), size |-> 0]

(* mutant: rounds down *)
AlignDown(size) == (size \div PageSize) * PageSize

(* alignSize *)
AlignSize(size) == ((size + PageSize - 1) \div PageSize) * PageSize

PagesOf(ptr, size) == ptr .. ptr + (size \div PageSize) - 1

Tracked == {p \in Address : regions[p] # 0}

TypeOK ==
  /\ mapped \subseteq Address /\ orphans \subseteq Address
  /\ regions \in [Address -> 0 .. Word - 1]
  /\ bytesAllocated \in 0 .. Word - 1 /\ activeRegions \in Int
  /\ free \subseteq Slabs
  /\ pc \in [Threads -> {"idle", "store", "addBytes", "addActive", "delete",
                         "subBytes", "subActive", "unmap"}]

Init ==
  /\ mapped = {} /\ orphans = {}
  /\ regions = [p \in Address |-> 0]
  /\ bytesAllocated = 0 /\ activeRegions = 0
  /\ free = Slabs /\ held = {}
  /\ pc = [t \in Threads |-> "idle"] /\ call = [t \in Threads |-> NoCall]

Goto(t, step) == pc' = [pc EXCEPT ![t] = step]

Return(t) == Goto(t, "idle") /\ call' = [call EXCEPT ![t] = NoCall]

-----------------------------------------------------------------------------
(* HybridAllocator.Allocate.  A slab has the size of every slab, whatever  *)
(* was asked for.                                                          *)
AllocateSlab(t, asked) ==
  /\ pc[t] = "idle" /\ asked <= Threshold
  /\ \E id \in free : free' = free \ {id} /\ held' = held \cup {Slab(id, asked)}
  /\ UNCHANGED <<os, regions, stats, pc, call>>

(* The calls that have an address and have not looked it up yet. *)
Named == {call[t].block.ptr : t \in {u \in Threads : pc[u] = "delete"}}

(* MmapAllocator.Allocate calls mmap; when that fails nothing changes but  *)
(* a counter.                                                              *)
Mmap(t, asked) ==
  LET size == AlignSize(asked)
  IN  /\ pc[t] = "idle" /\ asked > Threshold
      /\ \E p \in Address :
           /\ PagesOf(p, size) \subseteq Address \ mapped
           /\ LateFrees \/ p \notin Named
           /\ mapped' = mapped \cup PagesOf(p, size)
           /\ call' = [call EXCEPT ![t] = [block |-> Block(p, asked), size |-> size]]
      /\ Goto(t, "store")
      /\ UNCHANGED <<orphans, regions, stats, free, held>>

(* regions.Store *)
StoreRegion(t) ==
  /\ pc[t] = "store" /\ Goto(t, "addBytes")
  /\ regions' = [regions EXCEPT ![call[t].block.ptr] = call[t].size]
  /\ UNCHANGED <<os, stats, free, held, call>>

AddBytes(t) ==
  /\ pc[t] = "addBytes" /\ Goto(t, "addActive")
  /\ bytesAllocated' = (bytesAllocated + call[t].size) % Word
  /\ UNCHANGED <<os, regions, activeRegions, free, held, call>>

AddActive(t) ==
  /\ pc[t] = "addActive" /\ Return(t)
  /\ activeRegions' = activeRegions + 1
  /\ held' = held \cup {call[t].block}
  /\ UNCHANGED <<os, regions, bytesAllocated, free>>

-----------------------------------------------------------------------------
(* HybridAllocator.Deallocate *)
DeallocateSlab(t) ==
  /\ pc[t] = "idle"
  /\ \E b \in held : /\ b.id # Large
                     /\ held' = held \ {b} /\ free' = free \cup {b.id}
  /\ UNCHANGED <<os, regions, stats, pc, call>>

(* The program may free a region it holds, or one that another goroutine   *)
(* is freeing at this moment.                                              *)
Deallocate(t) ==
  /\ pc[t] = "idle" /\ Goto(t, "delete")
  /\ \E b \in held \cup {call[u].block : u \in {v \in Threads : pc[v] = "delete"}} :
       /\ b.id = Large
       /\ held' = held \ {b}
       /\ call' = [call EXCEPT ![t] = [block |-> b, size |-> 0]]
  /\ UNCHANGED <<os, regions, stats, free>>

(* mutant: the region is looked up and left in the map *)
LoadRegion(t) ==
  LET p == call[t].block.ptr
  IN  /\ pc[t] = "delete" /\ regions[p] # 0 /\ Goto(t, "subBytes")
      /\ call' = [call EXCEPT ![t].size = regions[p]]
      /\ UNCHANGED <<os, regions, stats, free, held>>

(* regions.LoadAndDelete *)
LoadAndDelete(t) ==
  LET p == call[t].block.ptr
  IN  /\ pc[t] = "delete" /\ regions[p] # 0 /\ Goto(t, "subBytes")
      /\ call' = [call EXCEPT ![t].size = regions[p]]
      /\ regions' = [regions EXCEPT ![p] = 0]
      /\ UNCHANGED <<os, stats, free, held>>

(* "unknown mmap region or already freed" *)
Unknown(t) ==
  /\ pc[t] = "delete" /\ regions[call[t].block.ptr] = 0
  /\ Return(t)
  /\ UNCHANGED <<os, regions, stats, free, held>>

(* mutant: adds the complement without its last one *)
SubBytesOffByOne(t) ==
  /\ pc[t] = "subBytes" /\ Goto(t, "subActive")
  /\ bytesAllocated' = (bytesAllocated + (Word - 1 - call[t].size)) % Word
  /\ UNCHANGED <<os, regions, activeRegions, free, held, call>>

(* AddUint64 of ^uint64(0) - size + 1 *)
SubBytes(t) ==
  /\ pc[t] = "subBytes" /\ Goto(t, "subActive")
  /\ bytesAllocated' = (bytesAllocated + (Word - 1 - call[t].size + 1)) % Word
  /\ UNCHANGED <<os, regions, activeRegions, free, held, call>>

SubActive(t) ==
  /\ pc[t] = "subActive" /\ Goto(t, "unmap")
  /\ activeRegions' = activeRegions - 1
  /\ UNCHANGED <<os, regions, bytesAllocated, free, held, call>>

(* mutant: unmaps the bytes asked for, which may end before the last page *)
MunmapAsked(t) ==
  /\ pc[t] = "unmap" /\ Return(t)
  /\ mapped' = mapped \ PagesOf(call[t].block.ptr, AlignDown(call[t].block.asked))
  /\ UNCHANGED <<orphans, regions, stats, free, held>>

Munmap(t) ==
  /\ pc[t] = "unmap" /\ Return(t)
  /\ mapped' = mapped \ PagesOf(call[t].block.ptr, call[t].size)
  /\ UNCHANGED <<orphans, regions, stats, free, held>>

(* munmap fails: Deallocate returns the error, and the region stays mapped *)
(* though the allocator no longer knows it.                                *)
MunmapFails(t) ==
  /\ pc[t] = "unmap" /\ Return(t)
  /\ orphans' = orphans \cup PagesOf(call[t].block.ptr, call[t].size)
  /\ UNCHANGED <<mapped, regions, stats, free, held>>

Next ==
  \E t \in Threads :
    \/ \E asked \in 1 .. MaxSize : AllocateSlab(t, asked) \/ Mmap(t, asked)
    \/ StoreRegion(t) \/ AddBytes(t) \/ AddActive(t)
    \/ DeallocateSlab(t) \/ Deallocate(t)
    \/ LoadAndDelete(t) \/ Unknown(t) \/ SubBytes(t) \/ SubActive(t)
    \/ Munmap(t) \/ MunmapFails(t)

Spec == Init /\ [][Next]_vars

-----------------------------------------------------------------------------
(* "only one goroutine succeeds": whatever races to free a region, the     *)
(* memory of every block the program holds stays mapped, as long as was    *)
(* asked for, known to the allocator and apart from every other block      *)
(* (Allocate, Deallocate).                                                 *)
HeldBacked ==
  \A b \in held : b.id = Large =>
    /\ b.asked <= regions[b.ptr]
    /\ PagesOf(b.ptr, regions[b.ptr]) \subseteq mapped \ orphans
    /\ \A c \in held \ {b} : c.id = Large =>
         PagesOf(b.ptr, regions[b.ptr]) \cap PagesOf(c.ptr, regions[c.ptr]) = {}

At(steps) == {t \in Threads : pc[t] \in steps}

SizeOf(t) == call[t].size

(* bytesAllocated, in unsigned arithmetic, and activeRegions, which        *)
(* checkReturnToOS and Stats read, are off only by the calls in progress.  *)
StatsExact ==
  /\ bytesAllocated = (MapThenSumSet(LAMBDA p : regions[p], Tracked)
                       + MapThenSumSet(SizeOf, At({"subBytes"}))
                       - MapThenSumSet(SizeOf, At({"addBytes"}))) % Word
  /\ activeRegions = Cardinality(Tracked)
                     + Cardinality(At({"subBytes", "subActive"}))
                     - Cardinality(At({"addBytes", "addActive"}))

(* No mapped page is forgotten: each belongs to a region the allocator     *)
(* knows, to a call that is mapping or unmapping it, or to a region whose  *)
(* munmap failed.                                                          *)
MappedAccounted ==
  mapped = (UNION {PagesOf(p, regions[p]) : p \in Tracked})
           \cup (UNION {PagesOf(call[t].block.ptr, call[t].size) :
                          t \in At({"store", "subBytes", "subActive", "unmap"})})
           \cup orphans
=============================================================================
