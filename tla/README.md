# A verification of slabby

slabby is a Go library of memory allocators: a lock-free allocator of
equal-sized slabs and, on top of it, handles, references, size classes, large
regions, health monitoring and leak detection. This directory holds TLA+ models
of it, the TLC instances that check them, and TLAPS proofs about its core and
what is built on it: every invariant a run checks is also a theorem.

Contents: [the system](#the-system), [the models](#the-models),
[the runs](#the-runs), [the proofs](#the-proofs),
[where the code departs from what it says](#departures),
[what is not modelled](#not-modelled), [the plan](#plan).

To repeat: `tlc -config X.cfg M.tla` for the module and cfg of a run,
`tlapm CountingLemmas.tla` and `tlapm XProof.tla` for the proofs, with X one of
`SlabAlloc`, `CircuitBreaker`, `Clients`, `Sizes`, `ColoredShard`, `Monitoring` and
`Regions`.

<a name="the-system"></a>
## The system

| component (file) | state | operations | hard behaviour | what makes it correct |
|---|---|---|---|---|
| slab allocator (`slabby.go`) | `inUse` of each slab; per-CPU caches (array and count); free stack (mutex); colored lists | `Allocate`, `AllocateFast`, `BatchAllocate`, `Deallocate`, `BatchDeallocate`, `DeallocateFast`, `Reset` | lock-free steps of all goroutines interleave; caches hold stale and duplicate slab IDs on purpose; releases fail half way on a guard check | a slab has one owner; no slab is lost; memory is cleared between owners and left alone in between; calls return |
| memory layout (`slabby.go`) | fixed by `New` | `getSlabBytes`, `zeroSlabMemory`, `checkGuardPages` | int32 arithmetic, rounding, guard pages, pointer arithmetic without bounds checks | slabs are disjoint, in bounds and aligned |
| colored sharded free list (`slabby.go`) | per shard: `head`, `next` of the nodes, `count`; a `sync.Pool` of nodes | `put`, `get`, `push`, `tryPop`, `pop` | CAS loops, a count beside the head, recycled nodes; three formulas for the list of a slab | a shard is a stack; a miss is justified; every list that can hold a slab is looked into |
| references (`slabby.go`) | `allocState` of each `SlabRef`; `refPool` | `createSlabRef`, `Release`, `GetBytes` | double and concurrent `Release`; recycled objects | only the first `Release` counts |
| circuit breaker (`slabby.go`) | `currentState`, two counts, `lastFailureTime` | `isCircuitBreakerOpen`, `recordCircuitBreaker{Failure,Success}`; `AllocateWithTimeout` retries through it | decisions on state read before the lock was released; late reports; retries that open the breaker | the counts fit the state; it does not stay open for ever; a call with a deadline returns |
| handles (`handle.go`) | `generations` of the slabs | `AllocateHandle`, `FreeHandle`, `GetBytes` | stale and copied handles; check and increment are separate; 32-bit generations | an unfreed handle keeps its slab; a stale one is told |
| concurrent handles (`handle.go`) | an array of handle allocators | `AllocateHandle` over the shards; a handle names its shard | the scan starts anywhere while shards fill and empty | handles protect as those of one allocator do; a failure means every shard refused |
| slot arena (`slot_arena.go`) | none of its own | `AllocateSlot` is `AllocateFast`, `FreeSlot` is `DeallocateFast` | bare slab IDs without generations | what makes the slab allocator's fast path correct |
| health-aware allocator (`health_aware.go`) | `state`, `previousState`, observer slice | monitor goroutine, `RegisterObserver`, `UnregisterObserver`, `Close` | the monitor races with Close and with the observers' slice | each change is told once; the state follows the load |
| leak detector (`leak_detector.go`) | sampled counts per stack trace, totals, ring of state changes | `Start`, `Stop`, `OnAllocate`, `OnDeallocate`, `OnStateChange`, `Report`, `Clear` | callbacks without a common lock; two finding a stack new at once; notifications out of order into a ring; restart | totals are those of the sets; one call in N is booked, also past the wrap of the counter; the ring has the last changes; a lasting leak is reported |
| mmap and hybrid allocators (`mmap.go`) | map of regions, statistics | `Allocate`, `Deallocate` | racing frees; addresses the system uses again; failing system calls | held memory stays mapped; mapped memory is accounted for |
| size classes (`size_class.go`) | lookup table, an allocator per class, a large allocator | `Allocate`, `AllocateFast`, releases | boundaries of 28 classes and a threshold | the smallest class that fits |
| statistics (`slabby.go`) | per-CPU counters, latencies | `Stats`, `HealthCheck`, `GetHealthMetrics` | torn snapshots | |

They interact by calls. The slab allocator calls its pools, the breaker and the
layout functions; everything else calls the slab allocator, shares no state with
it, and sees only which slab a call got. So each client is modelled over an
*atomic* pool, and `ImplementsPool` is the fact that makes it legitimate:
`SlabAlloc` with all its interleavings implements `SlabPool`, in which a slab
passes from free to one owner and back. Health
monitoring reads the statistics and calls its observers (callbacks in new
goroutines); a leak detector is one of them. `Monitoring` composes the two.

<a name="the-models"></a>
## The models

| module | models | state and actions |
|---|---|---|
| `SlabPool` | what the allocator promises | `owner[s]`; a slab is claimed, given back, or retired by a failed guard check |
| `SlabAlloc` | the core of `slabby.go`, and with it the slot arena | one variable per shared structure, and `pc`, `slab`, `cpu`, `cnt`, `want` for the locals of each goroutine. One action is one atomic access: `GetLoad`, `GetCas`, `GetRead` are `perCPUCacheArray.get`, `PutLoad`, `PutStore`, `PutCas` its `putInternal`, `Refill` and `RefillUndo` the refill; `StackPop`, `GiveBack` the free stack; `ColoredGet`, `ColoredPut` the lists; `Claim` the CAS on `inUse`; `Deallocate...` and `Fast...` the two release paths in their own order |
| `ColoredShard` | one shard | one action per access of `push`, `pop` and `tryPop`; nodes go back to `shardNodePool` when they are popped and may come out of it for the next push |
| `ColoredLists` | the array of shards | the lists, and the slabs that callers of `get` keep; the constructor, `get`, `put` and the loops of `Reset`, a call per step |
| `Layout` | `New` and all address computations | the allocator `New` made last; `alignToCache` clears bits by a mask (`Common`), whatever the cache line; an int32 runs from -`Half` to `Half` - 1 |
| `SizeClass` | which allocator serves a request | the request served last, over tables and a threshold that are constants |
| `CircuitBreaker` | the breaker, and what each call records with it | `pc` splits `isCircuitBreakerOpen` at the unlock; `Tick` is the clock |
| `TimedAllocate` | `AllocateWithTimeout` | a timer for each goroutine; its calls of `Allocate` are the breaker's |
| `HandleAllocator` | `handle.go` | generations, the handles issued, and the steps of each call |
| `ConcurrentHandles` | `ConcurrentHandleAllocator` | extends `HandleAllocator`: the shard a call began with, how many it asked, which refused |
| `SlabRefs` | `SlabRef`, `refPool` | the objects, the pointers given out, the steps of each call; a `Release` enters (`Release`) and reaches its CAS (`ReleaseCas`) in two of them |
| `HealthAware` | the monitor and the observer slice | the monitor's `checkAndTransition`, `transitionTo` and `notifyStateChange` access by access; the slice is a header and the arrays `append` makes |
| `LeakDetector` | the books of `leak_detector.go` | the sampling counter with its width, the stack sets and the totals; one action per atomic of `OnAllocate`, `OnDeallocate` and `getOrCreateSet`; the report loop, Start, Stop, Clear |
| `TransitionRing` | `OnStateChange` and how `Report` reads it back | the ring and its uint32 index, the notifications not begun and those between index and write; `Transitions` is what `Report` collects |
| `Regions` | `mmap.go` | the pages the system has mapped, the map of regions, the statistics, and the steps of each call |
| `MCSlabAlloc`, `MCSizes`, `MCClients`, `Monitoring` | compositions, and instances for TLC | `MCSizes` puts `Layout`, `SizeClass` with the tables of the source and `ColoredLists` side by side; `MCClients` runs a program that uses handles, concurrent handles, references or the blocks of a `HybridAllocator`; `Monitoring` the monitor with its observers, the monitor behind the ring, or the detector's books |
| `SlabAllocProof`, `CircuitBreakerProof`, `ColoredShardProof` | proofs about the module of that name (the breaker's with `TimedAllocate`) | |
| `ClientsProof`, `RegionsProof`, `SizesProof`, `MonitoringProof` | proofs about `MCClients` (its handles and references; its blocks), `MCSizes` and `Monitoring`, and the components in them | |
| `CountingLemmas` | what the proofs share | sums and cardinalities, remainders, induction over finite sets |

A definition whose comment begins with `mutant:` is a plausible bug of the
definition after it, kept to show that a property would notice.

Abstractions and assumptions, each where it matters:

- *Clients.* A goroutine is sequential, releases only what it holds through
  `Deallocate` and `DeallocateFast`, and writes only inside its slabs. Handles
  and references are values that are copied and used late; `HandleAllocator` and
  `SlabRefs` drop the assumption for them.
- `Allocate` and `AllocateFast` are `BatchAllocate` of one slab. The breaker's
  rejection and the heap fallback touch no slab and are left out of `SlabAlloc`.
- A colored list is an atomic bag in `SlabAlloc`; `ColoredShard` has its steps
  and `StackIsPool` justifies the bag as long as no two `tryPop`s of one shard are
  between their load of head and their swap at once. When they are the bag is
  better than the code (*shard_aba*): then slabs may be lost, or listed while they are in use, which the CAS on `inUse` sorts out.
  The scan over shards is not atomic in the code (`ColoredLists` has its order), so
  `Exhausted` lets an allocation find nothing whenever another call is in progress.
- `Reset` runs with no call in progress, the caution its comment asks for. The switch
  `Secure` keeps its initial value.
- `ConcurrentHandles`: a shard may refuse at any time (it is empty or its breaker
  is open); that it refuses only then is `SlabAlloc`'s business.
- Slots are slab IDs: `AllocateSlot` and `FreeSlot` are `AllocateFast` and
  `DeallocateFast` of `SlabAlloc`, stale copies and lost slabs included. A client does
  not free a slot it does not hold, which nothing in the interface could detect once
  it was given out again; a `FreeSlot` that is refused changes nothing.
- `Layout`: cache lines from 1 up, powers of two or not. `WithCacheLine` validates
  nothing; `New` refuses 0, since every aligned size is then 0, and negative lines
  are left out.
- `LeakDetector`: a call that failed is not told to it; stacks are hashes, and two
  with one hash are one; `Clear` waits for the calls in progress. The interface
  promises callbacks, but no code of the library makes them
  ([departures](#departures)): `Callers` are a program that does.
- `CircuitBreaker`: counts above the threshold and ages above the timeout are
  not told apart by the code, so they saturate.
- `HealthAware`: `Stats` reads its counters in one step; thresholds are numbers
  of slabs instead of ratios. Every state but fallback allocates with
  `AllocateFast`, and fallback does not touch the pool.
- `Regions`: the slab allocator is the pool; `mmap` returns any free
  range, and it and `munmap` may fail at any time.

Seven restrictions of the environment are CONSTANTS, so that what the code does
without them can be seen by changing a cfg: `OverlapPops` (ColoredShard),
`OverlapFrees` (HandleAllocator), `StaleReleases` and `OverlapRepeats` (SlabRefs),
`OverlapUnregister` (HealthAware), `Overtake` (TransitionRing) and `LateFrees`
(Regions), which are FALSE in the passing runs. Each says what the callers do, or
when they do it; none changes what a step of the code does. The code enforces none
of them; what happens when they are TRUE is under [departures](#departures), and
`OverlapPops`, `OverlapFrees` and `OverlapRepeats` have a run of their own.

<a name="the-runs"></a>
## The runs

| run | module, cfg | checks | bounds |
|---|---|---|---|
| shared_cache | MCSlabAlloc, SharedCache | `TypeOK`, `ExclusiveOwnership`, `ImplementsPool`, `SomeCallReturns` | 2 goroutines, 2 slabs, one cache of one element |
| own_caches | MCSlabAlloc, OwnCaches | `NoLostSlab` | the same with a cache for each |
| hardened | MCSlabAlloc, Hardened | `SecureIsolation`, `OwnerDataKept` | 2 goroutines, 3 slabs, batches of 2, guard pages, clearing, no cache |
| sizes | MCSizes, Sizes | `SlabsDisjoint`, `SlabsInBounds`, `SlabsAligned`, `RefusedOnlyAtTop`, `SmallestClass`, `MissMeansEmpty`, `OnOneList` | int32 of 7 bits and sizes past both ends, lines 1, 2, 3, 4, 6, 8 and 60, guard pages of 8 bytes; all requests to 8200; 4 colors, 1 to 3 shards, 3 slabs, every hash |
| shard | ColoredShard, Shard | `TypeOK`, `SomeCallReturns`, `CountMatches`, `MissJustified`, `StackIsPool` | 3 goroutines, 2 slabs, 2 nodes, one `tryPop` at a time between load and swap |
| breaker | TimedAllocate, Breaker | `CountsMatchState`, `KeepsTrying`, `TimedReturns` | 2 goroutines, threshold 4, timeout 2 |
| clients | MCClients, Clients | `HandleProtects`, `StaleDetected`; `EveryShardAsked`; `RefProtects`; `HeldBacked`, `StatsExact`, `MappedAccounted` | 3 goroutines (2 on the shards), 2 slabs, 5 issues, 2 shards, 3 pages of 2 bytes |
| health | Monitoring, Health | `ToldOnce`, `PairIsTransition`, `FollowsLoad`; `RingExact`; `TotalsMatchSets`, `OneInN`, `LeakReported` | 2 observers, 3 slabs, 1 error; ring of 2, index of 4 values, 5 changes of load; 2 callers, 2 stacks, 5 calls, 1 in 3 sampled, a counter of 4 values |
| lost_slab | MCSlabAlloc, VLost | `NoLostSlab` is violated | 2 goroutines on one cache |
| shard_aba | ColoredShard, VAba | `StackIsPool` is violated | 2 goroutines, two `tryPop`s between load and swap |
| double_free_race | HandleAllocator, VFree | `HandleProtects` is violated | frees overlap |
| double_release_race | SlabRefs, VRelease | `RefProtects` is violated | 2 goroutines, 2 slabs, 2 objects; a second `Release` overlaps an `Allocate` |

Why the bounds suffice to be interesting:

- A cache of one element is full and empty at once, so every refill meets a full
  cache; two goroutines on it produce every stale and duplicate copy the protocol
  knows, and loses slabs too (*lost_slab* is this instance). Claims meet copies of
  slabs in use all the time there, which is what `SomeCallReturns` is about.
  `MaxCopies` bounds only how many copies of a slab pile up in the colored lists.
- In *hardened* the cache is off: then a slab is in one place at a time, which is
  what `SecureIsolation` needs (see departures). Three slabs and batches of two
  let one slab lie in the guard page of another, as the layout makes them;
  `GuardHitOf` is computed by `Layout`.
- In *sizes* the word is scaled to 7 bits because the arithmetic is uniform in its
  width, and sizes run from -1 to 136, twice past the end. A call leaves nothing
  a later one reads, so the instance returns to its start after each. The free
  list has 4 colors for 16, and slab sizes from one to six times that number, so
  that slabs fall on either side of the bit that is taken for their color, and New
  is refused for some. Shard counts 1, 2 and 3 (which becomes 4) are all a power of
  two and one that is not. Any hash of the slabs, any order of `get` and `put`.
- Cache lines in *sizes* are powers of two, numbers that are not (3, 6, 60), and one
  above most sizes; guard pages of 8 bytes are whole lines for 1, 2, 4 and 8.
- In *shard* the third goroutine lets two push, and their nodes come and go, between
  the steps of a pop. There is a node for each slab, so every push takes one that
  was popped before, often the one a stalled call looked at.
- The generation in *clients* has 4 bits and 5 issues cannot make it wrap; with 3
  goroutines a free can be in the middle, another on a stale handle, and an
  allocation reuse the slab; and two goroutines can release one reference while
  the third allocates as soon as both are done. Two shards of one slab each make
  either the first or the second to be asked the full one; the theorem
  `ShardsAsked` covers the other counts. For the blocks three pages leave room for
  two of one page or for one large one, so addresses are used again at once; `Word`
  is 8, so that the unsigned counter wraps.
- In *health* the thresholds are 1, 2 and 3 of 3 slabs: every level and every jump.
  Two observers make the slice grow twice (arrays of 1, 2, 4). Five changes of
  load send up to five notifications into a ring of two whose index wraps at
  four: it is overwritten twice and wraps once (`Words` is a multiple of
  `RingSize`, as 2^32 is of 8). Two callers on two stacks meet in
  `getOrCreateSet` in every way. One call in 3 is booked by a counter of 4 values:
  the rate does not divide it, as the default rate of 100 does not divide 2^32, and
  five calls take it past its wrap, with a Clear in between that starts again.

Fairness. `SlabAlloc`, `ColoredShard`: weak fairness of the steps inside a call, for
each goroutine, which is what the Go scheduler gives a runnable goroutine; nobody
has to make a call. `SomeCallReturns` is the lock-free promise, that not all calls in
progress go round for ever; a single one may, overtaken by the others.
`CircuitBreaker`, `TimedAllocate`: the clock, the deadline, the steps inside a call,
and the loop's look at its deadline. The sleep between two
tries is not assumed to end before the deadline.
`HealthAware`: the monitor, whose ticker keeps firing. `LeakDetector`: the report
loop, and the ageing of the sets. `KeepsTrying` assumes in
its statement that goroutines keep calling; `FollowsLoad` that the load settles;
`LeakReported` that a stack's count stays above the threshold of a detector that
was never stopped.
`SlabAlloc` deadlock checking is on: some goroutine can always call.

<a name="the-proofs"></a>
## The proofs

`SlabAllocProof`, for all constants that satisfy the assumptions (any number of
goroutines, slabs and caches, any cache size, caches on or off, any mapping of
goroutines to caches, any guard layout):

- `TypeCorrect`: `Spec => []TypeOK`. `TypeOK` is inductive because `LocalsOK` says
  what each program point knows (a count loaded by `get` is positive, one loaded
  by `put` is below the size): an index passed to the unsafe pointer arithmetic is
  in range even though the count may change between load and use.
- `OwnershipExclusive`: `Spec => []ExclusiveOwnership`, from
  `OwnershipInv == TypeOK /\ NotHeldTwice /\ ExclusiveOwnership`. It does not
  follow from `ExclusiveOwnership` alone: inside `Deallocate` the caller's slab is
  not in `held` any more, but still its own, and `NotHeldTwice` keeps a
  second release from meeting it. The pools do not occur in the invariant: that is the
  design (`inUse` is the single source of truth), and it is why lost and duplicate
  cache entries cannot give a slab two owners. Most steps are `Quiet`
  (they change neither `inUse` nor `held`); the proof treats the other four,
  claim, the two releases and Reset.
- `Implementation`: `Spec => ImplementsPool`, by the refinement mapping
  `OwnerOf`; quiet steps stutter and the others map to one step of `SlabPool`.
- `DataKept` (`OwnerDataKept`) and `Isolated` (`SecureIsolation`, when
  `EnableSecure`), both when `EnableCache` is off: with caches, which keep copies
  of slabs, they are false. `PlacesInv` is the
  invariant: a slab is on the free stack once, or in the colored lists once, or in
  the hand of one call, or in use, and in use and in hand together only inside
  `Deallocate` (`InPoolOnce`, `InHandOnce`). Every step moves one slab from one
  place to another (`HandsKept`, `PopPlaces`, `PushPlaces`). Then `zeroSlabMemory`
  cannot meet a slab that is held; what is in a pool or in hand past the clearing
  is `Clean`, so a claim hands out zeroes.
- `NothingLost`: `NoLostSlab`, unless `EnableGuard` (which retires slabs on purpose)
  and when `Unshared`: there are no caches, or no two goroutines use the same one.
  A refill leaves a copy of its slab in the cache, so a slab has no one place, and
  the proof does not count copies: a copy is dropped only where its claim fails,
  and then the slab is in use. What it needs instead is `OwnCache`: a goroutine
  alone on its cache finds there, at each point of `get` and `put`, the count it
  loaded and, before it publishes, the element it stored; so no CAS fails and
  `RefillUndo`, which could drop a slab, is never reached. On a shared cache
  the read after the CAS breaks this (*lost_slab*). The invariant is
  `CirculationInv == OwnershipInv`, `OwnCache` of all goroutines, and `NoLostSlab`.

`CircuitBreakerProof`: `BreakerCounts`, `Spec => []CountsMatchState` for any number
of goroutines, threshold and timeout, from the invariant `Counts` (which adds that
the successes of a half-open breaker are below what would close it, for every
path that can leave or enter it). `TimedCounts` is the same of `TimedSpec`: every
step of `AllocateWithTimeout` is a step of the breaker or none (`TimedSteps`).

`ClientsProof`, about the ways a program holds on to a slab, each component alone
and the program of `MCClients` that uses one of them:

- `HandlesProtect` (`HandleProtects`) and `StaleHandlesDetected`
  (`StaleDetected`), for any number of slabs and handles and any finite set of
  goroutines, when `Careful` holds: calls of `FreeHandle` on one handle do not overlap
  (without it the code is wrong, run *double_free_race*), and the generations are
  more than twice the handles ever issued, so that they do not wrap (issuing and
  freeing each advance one; a handle kept past the wrap would look current). The
  invariant `HandleInv` adds to the two properties that every handle issued or
  about to be issued is accounted for (`Bounded`), that generations never exceed
  what has been issued and freed (`NoWrap`), that a slab has one owner of those
  who wait for a generation, hold it, or are about to free it (`OneOwner`), and what
  each program point of `FreeHandle` knows of its handle (`FreersOK`). It counts, so
  it needs cardinalities of sets of goroutines, and so a finite `Threads`.
- `ConcurrentImplements`, `ConcurrentSpec => Spec`: the shards of a concurrent
  allocator together behave as one `HandleAllocator`; its refused and abandoned
  scans stutter. Hence `ConcurrentProtects`. `ShardsAsked` (`EveryShardAsked`) is
  about the scan alone, for any number of shards (the code's powers of two are not
  needed): `ScanInv` says that what has refused is the set of the first `asked`
  places counted from `first`, and `Distinct` that these do not repeat.
- `RefsProtect` (`RefProtects`), for any sets of goroutines, slabs and objects,
  unless a reference is released again after its object was given out anew
  (`~StaleReleases`; otherwise false), or a second `Release` that began before is
  still under way when one is allocated (`~OverlapRepeats`; otherwise false, run
  *double_release_race*). Any number of goroutines may then release one reference at
  once. `RefInv` says besides that an object is in one place - the pool, a client, or
  a release on its way - and that the slab a release is about to free belongs to
  nobody else (`CallsOK`, `ClearsOK`, `ObjectsOK`).
- `ClientHandles` and `RefsProtect` are about `MCSpec`, the program the
  run checks: a step belongs to one interface and leaves the state of the others
  alone (`StepOfOne`).

`SizesProof`, about `MCSizes`:

- `Disjoint`, `InBounds` and `Aligned`, for every size, capacity, cache line, guard
  page and width of integers: the theorems do not ask that the sizes fit. The
  invariant `Made` says only that the aligned size is not below the truncated size,
  and a multiple of the line if that is a power of two, which is what `alignToCache`
  ensures for every size `New` accepts; the overflow check does the rest.
  `alignToCache` clears the bits of `line - 1`; `Common` computes them bit by bit, a
  recursive function shown to exist and to be unique by induction on the width
  (`Halves`, `MasksExist`, `MasksUnique`). Whatever the line, the bits cleared are at
  most `line - 1` (`CommonBounds`), so no slab gets shorter; for a power of two they
  are the remainder (`CommonIsRemainder`), so it is aligned. `InBounds` is about
  slabs, not about what lies in the guard pages; `Aligned` needs guard pages of whole
  cache lines.
- `SmallestServes` (`SmallestClass`) and `RefusalsAreAtTop` (`RefusedOnlyAtTop`), for
  any two tables whose classes ascend, any request and any threshold that is no
  larger than some class (the constructor panics on others). The search of the
  lookup table is the least index that is large enough (`LeastClass`, `FirstClass`);
  a class is made exactly if it is of the first table or all before it are below the
  threshold.
- `MissesAreEmpty` (`MissMeansEmpty`) and `ListedOnce` (`OnOneList`), for any number
  of colors, shards and slabs, any slab size and hash, and any order of `get` and
  `put`. `ListsInv` says that the array has a list for each index and a slab is at one
  place of one list or with a caller (`Once`). A miss is justified because the scan
  comes by every list wherever it starts: the shards by their remainders
  (`ScanCovers`), the colors of a shard in the order of `get` (`OrderCovers`). The
  constructor lists each slab once, though it computes the index in another way
  than `put` (`StackedOnce`, `DistributedOnce`).

`ColoredShardProof`: types with no assumption on the callers (`ShardTypes`), and the
rest when no two `tryPop`s of the shard are between their load of head and their
swap at once (`~OverlapPops`; otherwise false, run *shard_aba*), with pushes at any
time and nodes that are handed out again as
soon as they are back, for any number of slabs, nodes and goroutines (finite, for
the two that count): `ShardCountMatches`, `ShardMissJustified`, and the refinement
`ShardIsPool`, `Spec => StackIsPool`. A stack of nodes is a recursion, on which the
prover has no induction, so the invariant `ShardInv` has the chain as a witness:
there are a depth and a function from the depths to nodes such that `head` is its
top, `next` leads down one step, and no node or slab occurs twice (`Stacked`); a node
is in one place, on the stack, in the hand of one call or in the pool, and what a
swap is about to put in the place of the head is still the next of the node it
compares with (`Linked`); and the counter differs from the depth by the swaps not yet
counted (`Counted`). With one pop at a time between load and swap (`OneTaker`) nobody else
can have popped the node it compares with, so that node was neither recycled nor
pushed again: a head that is the same again never left. The value of the recursive function that the properties use is that
chain (`StackNodes`), shown by a least counterexample. A successful swap is the
step of the abstract pool and every other step stutters.

`MonitoringProof`, about `Monitoring`, whose monitor is that of `HealthAware` in every
scene (`ScenesImplement`):

- `PairsAreTransitions` (`PairIsTransition`) for any capacity, thresholds, number of
  observers, in an open allocator and in a closed one, and with `UnregisterObserver`
  at any time. `last` records what the last `transitionTo` overwrote, what it put
  there, and whether Close stored in between; `InStep` follows both states through its
  steps: away from them the states are those of `last`, but for the one store of
  Close (`PairStands`, `StateStands`).
- `ObserversToldOnce` (`ToldOnce`), when none is removed during a notification
  (`~OverlapUnregister`; otherwise false). `SliceOK`: the elements of the slice are
  distinct observers and lie in its array; `TellingOK`: the monitor's copy
  of the header still shows what it showed, although `append` may have written
  behind it or moved on to a larger array, and who has been told are those before
  its index.
- `DetectorBooks` (`TotalsMatchSets`) and `DetectorSamples` (`OneInN`), for any finite
  sets of callers and stacks, any rate and any width of the counter. `BooksInv`
  accounts for each
  call in progress where the books do not show it yet: a set that is created and not
  counted (`SetsCounted`), a set that is counted and not the total (`TotalsKept`,
  `LeaksKept`), a call that is sampled and not booked. What is booked is the quotient
  of the counter and a share for each time it wrapped (`SampledKept`, `ToBook`), which
  `ShareBounds` compares with the number of calls: it is one more for each wrap at
  most.
- `RecordsReported` (`RingExact`), for a ring of any size and an index that wraps at
  any multiple of it, when no notification is overtaken by a whole ring of later
  ones (`~Overtake`; otherwise false). `RingInv`: of the last `RingSize` records each
  is in its place or being written to it, and nothing else is being written. The
  places repeat after `RingSize` numbers and not before, also past the wrap
  (`Places`), so a write meets no other record of the window.

`RegionsProof`, about the blocks of `MCClients`, which handles and references leave
alone (`BlockSteps`): `BlocksBacked` (`HeldBacked`) and `PagesAccounted`
(`MappedAccounted`), for any number of goroutines, pages and sizes, as long as no
address is mapped again under a call that is about to look it up (`~LateFrees`).
`RegionsInv` puts every mapped page in one place: a region of the map, one call
that maps or unmaps it, or the orphans (`Placed`); gives every region in the map
one owner, the program, the call about to return it, or those racing to delete it
(`Owned`); and says what each program point knows of its size (`CallsOK`).
`StatsKept` (`StatsExact`) adds, for finitely many goroutines, that the two
counters differ from the map by what the calls in progress have yet to add and to
subtract, also where the unsigned one wraps (`StatsInv`).

`CountingLemmas`: the library states induction with an operator parameter, which
no prover here can instantiate, and so are its theorems about sums. Here induction
is in first-order form (a set of naturals has a least element, `SetInduction`,
`FiniteInduction`), a sum of weights is the number of pairs of an element and a unit
of its weight (`SumOf`, `Units`), and `SumFunctionIs` shows that the library's sum is
that number. One-step lemmas say what moving one goroutine or raising one weight
makes of a count (`OneMoved`, `OnePlaced`, `SumMoved`, `SumRaised`). `Division`,
`Quotients`, `Remainders` and `RemainderAdds` are what the proofs know of `\div` and `%`.

The theorems assume what the modules assume of their constants, each time TLC
checks the module: `SizesAssumption` (ascending tables, thresholds the constructor
accepts, at least one color, and that `nextPowerOfTwo` of a shard count is
positive, since the prover knows nothing of powers and TLC evaluates it),
`MonitoringAssumption` (finite sets, a positive rate, ring and number of counter
values, the size of the ring divides the number of index values, as 8 divides
2^32), `ClientsAssumption` (with `RegionsAssumption`: positive sizes), `ShardAssumption`,
`HandleAssumption` and those of the core. Where the code keeps a property only in an
environment that behaves, the theorem names the condition on the constants for it
(`Careful`, `~StaleReleases`, `~OverlapRepeats`, `~OverlapUnregister`, `~Overtake`,
`~LateFrees`, `~OverlapPops`, `Unshared`), with the value it has in the run.

Model-checked only: liveness (`SomeCallReturns`, `KeepsTrying`, `TimedReturns`,
`FollowsLoad`, `LeakReported`; the prover has no rules for fairness here).

<a name="departures"></a>
## Where the code departs from what it says

Shown by runs:

- *lost_slab*. `perCPUCacheArray.get` decrements the count and reads the element
  afterwards; a `put` may overwrite it in between, and a slab vanishes. The comment at
  `slabby.go:1395` says the CAS "claims ownership of stack[count-1]".
- *shard_aba*. `tryPop` compares only pointers, and nodes come back through
  `shardNodePool`. When two of one shard are between load and swap, the node that one compares with may
  be popped by the other, recycled and pushed again, and the first installs a `next`
  it read before. `README.md:509` lists "Lock-free stack ABA prevention".
- *double_free_race*. `FreeHandle` loads, compares and increments in separate
  steps; two overlapping calls on one handle free the slab of the next owner.
- *double_release_race*. Two goroutines call `Release` on one reference in time; the
  slower reaches its CAS on `allocState` after the faster has put the object in
  `refPool` and an allocation has taken it out and reset it, succeeds, and frees the
  slab of the new owner. `README.md:25` promises protection from double release.

Seen by changing one value of a cfg, or by checking a definition kept for it:

| what | how to see it | the text it departs from |
|---|---|---|
| `DeallocateFast` clears the memory after it marked the slab free; with a stale copy in a cache the next owner's data is erased | `OwnerDataKept` with `EnableCache` and `EnableSecure` TRUE and a cache each | `handle.go:68` "The data pointer is valid until FreeHandle is called", `README.md:23` "Memory Isolation" |
| `getFastCPUID` depends on the stack depth, so a goroutine may miss the cache its slab is in and get `ErrOutOfMemory` with a slab free | one goroutine with `CpuOf` two caches: `Exhausted` while a slab is not in use | `slabby.go:2406` "MUST return the SAME value" |
| `int32(slabSize)` truncates before the overflow check | `SlabsLongEnough` in `Layout` | `slabby.go:367` "with the specified slab size" |
| guard pages lie among the slabs of later indices | `GuardsApart` in `Layout` | `slabby.go:397`, `README.md:24` |
| a second `Release` after the object was handed out again frees the new owner's slab | `RefProtects` with `StaleReleases` TRUE | `README.md:25` |
| the breaker goes half-open on a failure time that has been renewed | `RecoveryWaits` in `CircuitBreaker` | `slabby.go:1835` |
| 6145 to 8192 bytes have a class but no allocator by default | `EverySizeServed` in `MCSizes` | `size_class.go:13` "covers 8B to 8KB" |
| an error is never forgotten, so fallback may last for ever at no load | `RecoveryAllowed` in `HealthAware` with `FairSpec` | `health_aware.go:49` |
| an observer is skipped or told twice when another is removed during a notification | `ToldOnce` with `OverlapUnregister` TRUE and 3 observers | `health_aware.go:359` |
| `Close` stores a state between `transitionTo`'s load of the state and its own store, and records no transition | `PreviousStateIsPrior` in `HealthAware` | `health_aware.go:264` "the health state before the last transition" |
| the sampling counter is a uint32 and the default rate of 100 does not divide 2^32: one sample comes early at each wrap, which `OneInN` allows for | `OneInN` in `LeakDetector` without the term of `wraps` | `leak_detector.go:181` "Sample 1 in N allocations" |
| a cache line that is no power of two is accepted, and slabs are then not aligned to it | `SlabsAligned` in `Layout` without its premise | `slabby.go:2108` "for memory alignment" |
| a call that has time left is refused when its own retries have opened the breaker | `TriesUntilDeadline` in `TimedAllocate` | `slabby.go:795` "attempts allocation with a specified timeout" |
| the observers may see state changes in any order | `RecordsInOrder` in `TransitionRing` | `leak_detector.go:48` "correlates leak patterns with allocator health" |
| as many notifications as the ring has places, overtaking one, leave a record in the place of another | `RingExact` with `Overtake` TRUE | the same |
| a deallocation is sampled though its allocation was not, and `TotalLeaks` falls below zero | `LeaksCountAllocations` in `LeakDetector` | `leak_detector.go:35` "Net allocations currently active" |
| a detector that was stopped and started again reports nothing: `stopCh` is closed for good (and the second `Stop` panics) | `LeakReportedAfterRestart` in `LeakDetector` | `leak_detector.go:19` "identifies memory leaks" |
| the color of a slab is the bit 16 of its offset, which is 0 on lines of 32 bytes or more; `get` begins with colors no slab has | `SlabColor` in `ColoredLists` | `slabby.go:2357` "tries to get a slab with a different color" |
| on lines of 16 bytes or less the bit may be set; the constructor does not mask it, and `New` panics when the slab's shard is the last | the first conjunct of `New` in `ColoredLists` | `slabby.go:2307` against `2400` |
| a `Deallocate` that is late frees a block mapped since at the same address | `HeldBacked` with `LateFrees` TRUE | `mmap.go:173` "prevents double-free race conditions" |

Seen in reading, about code the library never runs: `maxStackTraces` of the leak
detector is stored and not read (`leak_detector.go:25` "Max unique stacks to
track"); `onLeakDetected` and `notifyAllocate` have no caller, and nothing but tests calls
`OnDeallocate` or `OnMetricsSnapshot`, so that a registered detector is told of
state changes only.

<a name="not-modelled"></a>
## Not modelled

- Statistics, latency and health scores: floating-point summaries no
  allocation decision reads, except the four the monitor does.
- Platform files (`mmap_unix.go`, `mmap_windows.go`): one system call each, external.
- Options, prefetch, finalizers, debug stacks, bit guards: no effect on the state
  that is modelled beyond the flags taken as constants.
- `Reset` and `LeakDetector.Clear` during calls. `Clear` copies a `sync.Map` in
  use, a data race; `Reset` stores to each structure in turn, so a slab claimed
  meanwhile is freed under its owner and a pop in progress leaves a count off
  by one. `Reset` says "use with caution in production", `Clear` says nothing.
- The heap fallback (`WithHeapFallback`): a reference from the heap has slab ID -1
  and takes part in no protocol. A `HandleAllocator` over such an allocator
  panics at `handle.go:78`, which indexes `generations` with it.
- Releases of size classes. `MultiSizeRef.Release` is a release of `SlabRefs` or of
  `Regions`. `AllocateFast` returns a class where `DeallocateFast` wants a slab ID as
  well, so its blocks cannot be given back; `DeallocateFast` refuses the
  extended classes altogether. There is no order of calls to explore in it.
- A `HybridAllocator` sends all sizes up to 8192 to slabs of whatever size it was
  made with (`mmap.go:311`): the block is shorter than asked when that is smaller.
  `HeldBacked` speaks of regions only.
- The routing of `HealthAware.Allocate`: every state but fallback calls
  `AllocateFast`.

<a name="plan"></a>
## The plan

Done: the core and its proofs, the shard and the array of shards, layout, breaker
and timeouts, handles and their shards, references, health, the leak detector
behind it, regions, size classes; and the proofs above, with a theorem
for every invariant and every refinement that a run checks.

Left, the most useful first:

1. A `Reset` in steps, with the weakest condition on the callers under which
   ownership survives it.
2. The heap fallback in `HandleAllocator` and `SlabRefs`, once the code says what a
   handle of a heap block should be.
