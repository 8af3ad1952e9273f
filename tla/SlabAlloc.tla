----------------------------- MODULE SlabAlloc ------------------------------
(***************************************************************************)
(* The allocation core of slabby.go: Allocate, AllocateFast, BatchAllocate,*)
(* Deallocate, DeallocateFast and Reset over the three places a free slab  *)
(* can be: the per-CPU caches, the shared free stack and the colored       *)
(* sharded lists.  One action is one atomic access to shared state, so     *)
(* the interleavings of goroutines are those of the code:                  *)
(*                                                                         *)
(*  - inUse is claimed by compare-and-swap, "the single source of truth";  *)
(*  - a per-CPU cache is an array and a count; get claims an index by a    *)
(*    CAS on count and THEN reads the array, put writes the array and THEN *)
(*    publishes it by a CAS on count;                                      *)
(*  - the free stack is guarded by a mutex: push and pop are atomic;       *)
(*  - a colored list is a lock-free stack, taken here as an atomic bag     *)
(*    (its own steps are ColoredShard's).                                  *)
(*                                                                         *)
(* Clients are well behaved: a goroutine is sequential, releases only what *)
(* it holds, and writes only inside the slabs it holds.                    *)
(***************************************************************************)
EXTENDS Integers, Sequences, FiniteSets

CONSTANTS
  Threads,       \* goroutines
  Capacity,      \* number of slabs
  CacheCount,    \* number of per-CPU caches
  CacheSize,     \* PCCPUCacheSize
  CpuOf,         \* CpuOf[t]: the caches getFastCPUID may select for calls of t
  MaxBatch,      \* largest count given to BatchAllocate (bound of the model)
  MaxCopies,     \* copies of a slab in the colored lists (bound of the model)
  EnableCache,   \* config.enablePCPUCache
  EnableSecure,  \* config.enableSecure
  EnableGuard,   \* config.enableGuardPages
  GuardHit,      \* GuardHit[s]: the slabs in whose guard pages the bytes of s lie
  ClientsWrite   \* whether clients write to the slabs they hold

NoSlab == -1
NoCpu  == -1
Zero   == "zero"   \* the content of cleared memory

Slabs  == 0 .. Capacity - 1
Caches == 0 .. CacheCount - 1

ASSUME CapacityAssumption == Capacity \in Nat \ {0}
ASSUME CacheAssumption ==
  /\ CacheCount \in Nat \ {0}
  /\ CacheSize \in Nat \ {0}
  /\ CpuOf \in [Threads -> SUBSET Caches]
  /\ \A t \in Threads : CpuOf[t] # {}
ASSUME BoundAssumption == MaxBatch \in Nat \ {0} /\ MaxCopies \in Nat \ {0}
ASSUME ConfigAssumption ==
  /\ EnableCache \in BOOLEAN /\ EnableSecure \in BOOLEAN
  /\ EnableGuard \in BOOLEAN /\ ClientsWrite \in BOOLEAN
  /\ GuardHit \in [Slabs -> SUBSET Slabs]
ASSUME ThreadAssumption == Zero \notin Threads

VARIABLES
  inUse,         \* slabMetadata[s].inUse
  cacheCount,    \* caches[c].count
  cacheStack,    \* caches[c].stack
  freeStack,     \* freeStack.slab[0 .. count-1]
  colored,       \* how many times each slab is in the colored lists
  mem,           \* who last wrote to the slab, or Zero
  held,          \* held[t]: the slabs t has allocated and not given back
  \* the local variables of a goroutine inside a call
  pc,            \* its next step
  slab,          \* slabID
  cpu,           \* cpuID & mask
  cnt,           \* the count it loaded
  want           \* len(refs) < count: how many slabs an allocation still wants

shared == <<inUse, cacheCount, cacheStack, freeStack, colored>>
locals == <<slab, cpu, cnt, want>>
vars   == <<inUse, cacheCount, cacheStack, freeStack, colored, mem, held,
            pc, slab, cpu, cnt, want>>

Claims == {"claim_cached", "claim_stacked", "claim_colored"}
Labels == {"idle", "get_load", "get_cas", "get_read", "refill", "refill_undo",
           "put_load", "put_store", "put_cas", "stack_pop", "colored_get",
           "d_zero", "d_clear", "f_zero", "f_guard", "give_back",
           "colored_put"} \cup Claims

(* The ranges of the shared variables and of the locals. *)
PoolsOK ==
  /\ inUse \in [Slabs -> BOOLEAN]
  /\ cacheCount \in [Caches -> 0 .. CacheSize]
  /\ cacheStack \in [Caches -> [0 .. CacheSize - 1 -> Slabs]]
  /\ freeStack \in Seq(Slabs)
  /\ Len(freeStack) <= Capacity
  /\ colored \in [Slabs -> Nat]
  /\ mem \in [Slabs -> Threads \cup {Zero}]
  /\ held \in [Threads -> SUBSET Slabs]

RegistersOK ==
  /\ pc \in [Threads -> Labels]
  /\ slab \in [Threads -> Slabs \cup {NoSlab}]
  /\ cpu \in [Threads -> Caches \cup {NoCpu}]
  /\ cnt \in [Threads -> 0 .. CacheSize]
  /\ want \in [Threads -> 0 .. MaxBatch]

AllocLabels == {"get_load", "get_cas", "get_read", "refill", "refill_undo",
                "stack_pop", "colored_get"} \cup Claims
SlabLabels  == {"refill_undo", "put_load", "put_store", "put_cas", "d_zero",
                "d_clear", "f_zero", "f_guard", "give_back", "colored_put"}
                  \cup Claims
CpuLabels   == {"get_load", "get_cas", "get_read", "refill", "put_load",
                "put_store", "put_cas"}

(* What each label knows of the locals of t: the slab it works on, the     *)
(* cache it chose, and an index inside the array of that cache wherever    *)
(* the code reads or writes an element.                                    *)
LocalsOK(t) ==
  /\ pc[t] \in SlabLabels => slab[t] \in Slabs
  /\ pc[t] \in CpuLabels => cpu[t] \in Caches
  /\ pc[t] \in {"get_cas", "get_read"} => cnt[t] > 0
  /\ pc[t] \in {"put_store", "put_cas"} => cnt[t] < CacheSize
  /\ pc[t] \in AllocLabels => want[t] > 0

(* Every variable has its type, and no step of a call can index a cache    *)
(* array out of bounds or use a slab or cache it has not chosen (get and   *)
(* putInternal compute element addresses with unsafe pointer arithmetic,   *)
(* "validated by caller").                                                 *)
TypeOK == PoolsOK /\ RegistersOK /\ \A t \in Threads : LocalsOK(t)

(* New: empty caches and free stack, every slab in the colored lists. *)
Init ==
  /\ inUse = [s \in Slabs |-> FALSE]
  /\ cacheCount = [c \in Caches |-> 0]
  /\ cacheStack = [c \in Caches |-> [i \in 0 .. CacheSize - 1 |-> 0]]
  /\ freeStack = << >>
  /\ colored = [s \in Slabs |-> 1]
  /\ mem = [s \in Slabs |-> Zero]
  /\ held = [t \in Threads |-> {}]
  /\ pc = [t \in Threads |-> "idle"]
  /\ slab = [t \in Threads |-> NoSlab]
  /\ cpu = [t \in Threads |-> NoCpu]
  /\ cnt = [t \in Threads |-> 0]
  /\ want = [t \in Threads |-> 0]

-----------------------------------------------------------------------------
Goto(t, label) == pc' = [pc EXCEPT ![t] = label]

(* The call returns; its locals are dead. *)
Return(t) ==
  /\ Goto(t, "idle")
  /\ slab' = [slab EXCEPT ![t] = NoSlab]
  /\ cpu' = [cpu EXCEPT ![t] = NoCpu]
  /\ cnt' = [cnt EXCEPT ![t] = 0]
  /\ want' = [want EXCEPT ![t] = 0]

(* perCPUCache.get or .put is called: getFastCPUID picks the cache. *)
PickCpu(t, label) ==
  /\ \E c \in CpuOf[t] : cpu' = [cpu EXCEPT ![t] = c]
  /\ Goto(t, label)

-----------------------------------------------------------------------------
(* Allocation.  Allocate and AllocateFast are batches of one: the loops    *)
(* over cache, free stack and colored lists are the same, and which of the *)
(* three the client called leaves no trace in the pools.                   *)

BeginAllocate(t) ==
  /\ pc[t] = "idle"
  /\ \E n \in 1 .. MaxBatch : want' = [want EXCEPT ![t] = n]
  /\ IF EnableCache THEN PickCpu(t, "get_load")
                    ELSE Goto(t, "stack_pop") /\ UNCHANGED cpu
  /\ UNCHANGED <<shared, mem, held, slab, cnt>>

(* perCPUCacheArray.get: count := Load(cache.count) *)
GetLoad(t) ==
  /\ pc[t] = "get_load"
  /\ IF cacheCount[cpu[t]] = 0
       THEN Goto(t, "refill") /\ UNCHANGED cnt
       ELSE /\ cnt' = [cnt EXCEPT ![t] = cacheCount[cpu[t]]]
            /\ Goto(t, "get_cas")
  /\ UNCHANGED <<shared, mem, held, slab, cpu, want>>

(* CompareAndSwap(cache.count, count, count-1): claims index count-1 *)
GetCas(t) ==
  /\ pc[t] = "get_cas"
  /\ IF cacheCount[cpu[t]] = cnt[t]
       THEN /\ cacheCount' = [cacheCount EXCEPT ![cpu[t]] = cnt[t] - 1]
            /\ Goto(t, "get_read")
       ELSE Goto(t, "get_load") /\ UNCHANGED cacheCount
  /\ UNCHANGED <<inUse, cacheStack, freeStack, colored, mem, held, locals>>

(* ... and only now is the claimed element read *)
GetRead(t) ==
  /\ pc[t] = "get_read"
  /\ slab' = [slab EXCEPT ![t] = cacheStack[cpu[t]][cnt[t] - 1]]
  /\ Goto(t, "claim_cached")
  /\ UNCHANGED <<shared, mem, held, cpu, cnt, want>>

(* mutant: the top of the free stack is read and left in place *)
PopFreePeek == UNCHANGED freeStack

PopFree == freeStack' = SubSeq(freeStack, 1, Len(freeStack) - 1)
TopFree == freeStack[Len(freeStack)]

(* The cache was empty: get pops the free stack ... *)
Refill(t) ==
  /\ pc[t] = "refill"
  /\ IF freeStack = << >>
       THEN Goto(t, "stack_pop") /\ UNCHANGED <<freeStack, slab>>
       ELSE /\ slab' = [slab EXCEPT ![t] = TopFree]
            /\ PopFree
            /\ Goto(t, "put_load")
  /\ UNCHANGED <<inUse, cacheCount, cacheStack, colored, mem, held, cpu, cnt, want>>

(* ... and puts the slab in the cache AND hands it out (PutCas below); if  *)
(* the cache has filled meanwhile the slab goes back to the free stack.    *)
RefillUndo(t) ==
  /\ pc[t] = "refill_undo"
  /\ freeStack' = IF Len(freeStack) < Capacity
                    THEN Append(freeStack, slab[t]) ELSE freeStack
  /\ Goto(t, "stack_pop")
  /\ UNCHANGED <<inUse, cacheCount, cacheStack, colored, mem, held, locals>>

(* freeStack.pop in the allocation loop *)
StackPop(t) ==
  /\ pc[t] = "stack_pop"
  /\ IF freeStack = << >>
       THEN Goto(t, "colored_get") /\ UNCHANGED <<freeStack, slab>>
       ELSE /\ slab' = [slab EXCEPT ![t] = TopFree]
            /\ PopFree
            /\ Goto(t, "claim_stacked")
  /\ UNCHANGED <<inUse, cacheCount, cacheStack, colored, mem, held, cpu, cnt, want>>

(* coloredLists.get: the scan starts at a random shard, so any slab of the *)
(* lists may be the one it finds.                                          *)
ColoredGet(t) ==
  /\ pc[t] = "colored_get"
  /\ \E s \in Slabs :
       /\ colored[s] > 0
       /\ colored' = [colored EXCEPT ![s] = @ - 1]
       /\ slab' = [slab EXCEPT ![t] = s]
  /\ Goto(t, "claim_colored")
  /\ UNCHANGED <<inUse, cacheCount, cacheStack, freeStack, mem, held, cpu, cnt, want>>

(* The scan finds nothing: the lists are empty or, when the goroutine is   *)
(* not alone, others moved slabs behind its back.  Allocate then falls     *)
(* back to the heap (which touches no slab) or fails with ErrOutOfMemory;  *)
(* BatchAllocate returns the slabs it has.                                 *)
Exhausted(t) ==
  /\ pc[t] = "colored_get"
  /\ \/ \A s \in Slabs : colored[s] = 0
     \/ Threads # {t}
  /\ Return(t)
  /\ UNCHANGED <<shared, mem, held>>

(* mutant: inUse is stored, not compared and swapped *)
ClaimSlabUnchecked(t) ==
  /\ inUse' = [inUse EXCEPT ![slab[t]] = TRUE]
  /\ held' = [held EXCEPT ![t] = @ \cup {slab[t]}]

(* inUse.CompareAndSwap(false, true).  A slab whose CAS fails is dropped.  *)
ClaimSlab(t) ==
  /\ inUse' = [inUse EXCEPT ![slab[t]] = TRUE]
  /\ held' = IF inUse[slab[t]] THEN held
             ELSE [held EXCEPT ![t] = @ \cup {slab[t]}]

(* Where the allocation loop goes on after a claim attempt. *)
Resume(t) ==
  CASE pc[t] = "claim_cached"  -> PickCpu(t, "get_load")
    [] pc[t] = "claim_stacked" -> Goto(t, "stack_pop") /\ UNCHANGED cpu
    [] pc[t] = "claim_colored" -> Goto(t, "colored_get") /\ UNCHANGED cpu

Claim(t) ==
  /\ pc[t] \in Claims
  /\ ClaimSlab(t)
  /\ IF ~inUse[slab[t]] /\ want[t] = 1
       THEN Return(t)
       ELSE /\ want' = [want EXCEPT ![t] = IF inUse[slab[t]] THEN @ ELSE @ - 1]
            /\ Resume(t)
            /\ slab' = [slab EXCEPT ![t] = NoSlab]
            /\ UNCHANGED cnt
  /\ UNCHANGED <<cacheCount, cacheStack, freeStack, colored, mem>>

-----------------------------------------------------------------------------
(* perCPUCacheArray.putInternal, for the refill of an allocation (want > 0)*)
(* and for a deallocation (want = 0).                                      *)

(* mutant: the bound check admits one element too many *)
CacheFullOffByOne(c) == cacheCount[c] > CacheSize

CacheFull(c) == cacheCount[c] >= CacheSize

(* count := Load(cache.count) *)
PutLoad(t) ==
  /\ pc[t] = "put_load"
  /\ IF CacheFull(cpu[t])
       THEN /\ Goto(t, IF want[t] > 0 THEN "refill_undo" ELSE "give_back")
            /\ UNCHANGED cnt
       ELSE /\ cnt' = [cnt EXCEPT ![t] = cacheCount[cpu[t]]]
            /\ Goto(t, "put_store")
  /\ UNCHANGED <<shared, mem, held, slab, cpu, want>>

(* "Write data BEFORE publishing" *)
PutStore(t) ==
  /\ pc[t] = "put_store"
  /\ cacheStack' = [cacheStack EXCEPT ![cpu[t]][cnt[t]] = slab[t]]
  /\ Goto(t, "put_cas")
  /\ UNCHANGED <<inUse, cacheCount, freeStack, colored, mem, held, locals>>

(* "Publish with atomic CAS" *)
PutCas(t) ==
  /\ pc[t] = "put_cas"
  /\ IF cacheCount[cpu[t]] = cnt[t]
       THEN /\ cacheCount' = [cacheCount EXCEPT ![cpu[t]] = cnt[t] + 1]
            /\ IF want[t] > 0 THEN Goto(t, "claim_cached") /\ UNCHANGED locals
                              ELSE Return(t)
       ELSE Goto(t, "put_load") /\ UNCHANGED <<cacheCount, locals>>
  /\ UNCHANGED <<inUse, cacheStack, freeStack, colored, mem, held>>

-----------------------------------------------------------------------------
(* Deallocation. *)

(* The guard pages of s contain a byte that is not zero. *)
GuardBroken(s) ==
  EnableGuard /\ \E w \in Slabs : s \in GuardHit[w] /\ mem[w] # Zero

(* "Return to appropriate pool": try the cache first *)
PutBack(t) ==
  IF EnableCache THEN PickCpu(t, "put_load")
                 ELSE Goto(t, "give_back") /\ UNCHANGED cpu

(* Nothing in the code limits how many copies of a slab the colored lists  *)
(* hold; here a client starts a deallocation only while its copy still     *)
(* fits under MaxCopies.                                                   *)
RoomForCopy(s) ==
  colored[s] + Cardinality({t \in Threads : slab[t] = s}) < MaxCopies

(* Deallocate: with a broken guard the reference is dead and the slab      *)
(* stays in use for good.                                                  *)
Deallocate(t) ==
  /\ pc[t] = "idle"
  /\ \E s \in held[t] :
       /\ RoomForCopy(s)
       /\ held' = [held EXCEPT ![t] = @ \ {s}]
       /\ IF GuardBroken(s)
            THEN UNCHANGED <<pc, slab>>
            ELSE /\ slab' = [slab EXCEPT ![t] = s]
                 /\ Goto(t, IF EnableSecure THEN "d_zero" ELSE "d_clear")
  /\ UNCHANGED <<shared, mem, cpu, cnt, want>>

(* zeroSlabMemory, before the slab is marked available *)
DeallocateZero(t) ==
  /\ pc[t] = "d_zero"
  /\ mem' = [mem EXCEPT ![slab[t]] = Zero]
  /\ Goto(t, "d_clear")
  /\ UNCHANGED <<shared, held, locals>>

(* inUse.Store(false) *)
DeallocateClear(t) ==
  /\ pc[t] = "d_clear"
  /\ inUse' = [inUse EXCEPT ![slab[t]] = FALSE]
  /\ PutBack(t)
  /\ UNCHANGED <<cacheCount, cacheStack, freeStack, colored, mem, held, slab, cnt, want>>

(* DeallocateFast: inUse.CompareAndSwap(true, false) comes first.  On a    *)
(* slab that is not in use the call is ErrDoubleDeallocation and changes   *)
(* nothing.                                                                *)
DeallocateFast(t) ==
  /\ pc[t] = "idle"
  /\ \E s \in held[t] :
       /\ RoomForCopy(s)
       /\ inUse[s]
       /\ inUse' = [inUse EXCEPT ![s] = FALSE]
       /\ held' = [held EXCEPT ![t] = @ \ {s}]
       /\ slab' = [slab EXCEPT ![t] = s]
  /\ IF EnableSecure THEN Goto(t, "f_zero") /\ UNCHANGED cpu
     ELSE IF EnableGuard THEN Goto(t, "f_guard") /\ UNCHANGED cpu
     ELSE PutBack(t)
  /\ UNCHANGED <<cacheCount, cacheStack, freeStack, colored, mem, cnt, want>>

(* mutant: the fast path does not clear the slab *)
FastZeroSkipped(t) ==
  /\ pc[t] = "f_zero"
  /\ IF EnableGuard THEN Goto(t, "f_guard") /\ UNCHANGED cpu ELSE PutBack(t)
  /\ UNCHANGED <<shared, mem, held, slab, cnt, want>>

(* zeroSlabMemory, AFTER the slab was marked available *)
FastZero(t) ==
  /\ pc[t] = "f_zero"
  /\ mem' = [mem EXCEPT ![slab[t]] = Zero]
  /\ IF EnableGuard THEN Goto(t, "f_guard") /\ UNCHANGED cpu ELSE PutBack(t)
  /\ UNCHANGED <<shared, held, slab, cnt, want>>

(* checkGuardPages: on a violation the call returns, and the slab, marked  *)
(* available, is in no pool.                                               *)
FastGuard(t) ==
  /\ pc[t] = "f_guard"
  /\ IF GuardBroken(slab[t]) THEN Return(t)
                             ELSE PutBack(t) /\ UNCHANGED <<slab, cnt, want>>
  /\ UNCHANGED <<shared, mem, held>>

(* mutant: a slab that does not fit on the free stack is forgotten *)
GiveBackDrops(t) ==
  /\ pc[t] = "give_back"
  /\ freeStack' = IF Len(freeStack) < Capacity
                    THEN Append(freeStack, slab[t]) ELSE freeStack
  /\ Return(t)
  /\ UNCHANGED <<inUse, cacheCount, cacheStack, colored, mem, held>>

(* mutant: the slab is pushed first and cleared afterwards *)
GiveBackThenZero(t) ==
  /\ pc[t] = "give_back"
  /\ freeStack' = Append(freeStack, slab[t])
  /\ Goto(t, "f_zero")
  /\ UNCHANGED <<inUse, cacheCount, cacheStack, colored, mem, held, locals>>

(* freeStack.push, when there is no cache or it is full *)
GiveBack(t) ==
  /\ pc[t] = "give_back"
  /\ IF Len(freeStack) < Capacity
       THEN freeStack' = Append(freeStack, slab[t]) /\ Return(t)
       ELSE Goto(t, "colored_put") /\ UNCHANGED <<freeStack, locals>>
  /\ UNCHANGED <<inUse, cacheCount, cacheStack, colored, mem, held>>

(* coloredLists.put, when the free stack is full too *)
ColoredPut(t) ==
  /\ pc[t] = "colored_put"
  /\ colored' = [colored EXCEPT ![slab[t]] = @ + 1]
  /\ Return(t)
  /\ UNCHANGED <<inUse, cacheCount, cacheStack, freeStack, mem, held>>

-----------------------------------------------------------------------------
(* A client writes to a slab it holds. *)
Write(t) ==
  /\ ClientsWrite
  /\ pc[t] = "idle"
  /\ \E s \in held[t] : mem' = [mem EXCEPT ![s] = t]
  /\ UNCHANGED <<shared, held, pc, locals>>

(* Reset, called while no other call is in progress; the slabs clients     *)
(* still hold are taken from them.  The array elements of the caches keep  *)
(* their values.                                                           *)
Reset ==
  /\ \A t \in Threads : pc[t] = "idle"
  /\ inUse' = [s \in Slabs |-> FALSE]
  /\ mem' = IF EnableSecure THEN [s \in Slabs |-> Zero] ELSE mem
  /\ cacheCount' = [c \in Caches |-> 0]
  /\ freeStack' = << >>
  /\ colored' = [s \in Slabs |-> 1]
  /\ held' = [t \in Threads |-> {}]
  /\ UNCHANGED <<cacheStack, pc, locals>>

Step(t) ==
  \/ GetLoad(t) \/ GetCas(t) \/ GetRead(t) \/ Refill(t) \/ RefillUndo(t)
  \/ StackPop(t) \/ ColoredGet(t) \/ Exhausted(t) \/ Claim(t)
  \/ PutLoad(t) \/ PutStore(t) \/ PutCas(t)
  \/ DeallocateZero(t) \/ DeallocateClear(t)
  \/ FastZero(t) \/ FastGuard(t) \/ GiveBack(t) \/ ColoredPut(t)

Call(t) == BeginAllocate(t) \/ Deallocate(t) \/ DeallocateFast(t) \/ Write(t)

Next == (\E t \in Threads : Call(t) \/ Step(t)) \/ Reset

Spec == Init /\ [][Next]_vars

(* A goroutine inside a call is scheduled again and again; none is obliged *)
(* to make a call.                                                         *)
FairSpec == Spec /\ \A t \in Threads : WF_vars(Step(t))

-----------------------------------------------------------------------------
(* Properties. *)

(* t is entitled to s: it holds it, or it is inside Deallocate and has not *)
(* yet marked it available.                                                *)
Owns(t, s) == s \in held[t] \/ (slab[t] = s /\ pc[t] \in {"d_zero", "d_clear"})

(* Only one caller can successfully claim a slab (slabby.go, the claim by  *)
(* CAS on inUse): whatever the caches hand out, a slab has at most one     *)
(* owner, and while it has one it is marked in use.                        *)
ExclusiveOwnership ==
  \A s \in Slabs, t \in Threads :
    Owns(t, s) => inUse[s] /\ \A u \in Threads \ {t} : ~Owns(u, s)

(* While Deallocate works on s its caller no longer holds s. *)
NotHeldTwice ==
  \A t \in Threads : pc[t] \in {"d_zero", "d_clear"} => slab[t] \notin held[t]

(* s can be found by an allocation. *)
Pooled(s) ==
  \/ \E c \in Caches : \E i \in 0 .. cacheCount[c] - 1 : cacheStack[c][i] = s
  \/ \E i \in 1 .. Len(freeStack) : freeStack[i] = s
  \/ colored[s] > 0

(* s is on its way between an owner and a pool: in the local variable of a *)
(* call, or in the cache element a get has claimed and not yet read.       *)
InHand(s) ==
  \E t \in Threads :
    \/ slab[t] = s
    \/ pc[t] = "get_read" /\ cacheStack[cpu[t]][cnt[t] - 1] = s

(* No slab drops out of circulation: a slab in use has an owner who can    *)
(* give it back, and any other slab is in a pool or on its way to one (the *)
(* put/get protocols and every "drop" of a slab whose claim failed).       *)
NoLostSlab ==
  \A s \in Slabs : IF inUse[s] THEN \E t \in Threads : Owns(t, s)
                               ELSE Pooled(s) \/ InHand(s)

(* WithSecure: memory is cleared between owners, so the owner of a slab    *)
(* sees zeroes or what it wrote itself (zeroSlabMemory on both paths).     *)
SecureIsolation ==
  \A t \in Threads : \A s \in held[t] : mem[s] \in {Zero, t}

(* The allocator leaves the memory of a held slab alone: while t holds s   *)
(* only t changes its content (zeroSlabMemory runs on released slabs only).*)
OwnerDataKept ==
  [][\A t \in Threads : \A s \in held[t] \cap held'[t] :
       mem'[s] \in {mem[s], t}]_vars

(* As long as a call is in progress some call returns: the claim loops,    *)
(* which meet copies of slabs in use, the refill, which makes more of      *)
(* them, and the cache CASes, which fail when others succeed, do not keep  *)
(* all goroutines going round for ever.  (A single call may be overtaken   *)
(* for ever: a goroutine that takes what the others put back wins.)        *)
SomeCallReturns ==
  \/ []<><<\E t \in Threads : pc[t] # "idle" /\ pc'[t] = "idle">>_vars
  \/ <>[](\A t \in Threads : pc[t] = "idle")

-----------------------------------------------------------------------------
(* The abstract allocator this one implements. *)
OwnerOf(s) ==
  IF \E t \in Threads : Owns(t, s) THEN CHOOSE t \in Threads : Owns(t, s)
  ELSE IF inUse[s] THEN "retired" ELSE "free"

Pool == INSTANCE SlabPool WITH owner <- [s \in Slabs |-> OwnerOf(s)],
                               Free <- "free", Retired <- "retired"

(* Slabs pass from free to one owner and back, by the owner's own call;    *)
(* nothing else the pools do is visible to clients.                        *)
ImplementsPool == Pool!Spec
=============================================================================
