--------------------------- MODULE SlabAllocProof ---------------------------
(***************************************************************************)
(* Proofs about SlabAlloc, for any number of goroutines, slabs and caches  *)
(* and any cache size: types, ownership and the refinement of SlabPool in  *)
(* every configuration; without per-CPU caches, where every slab is in one *)
(* place at a time, the content of the slabs; and, also with caches that   *)
(* goroutines do not share, their circulation.                             *)
(***************************************************************************)
EXTENDS SlabAlloc, TLAPS

(* Popping the non-empty free stack yields a slab and leaves a stack. *)
LEMMA PopTyped ==
  ASSUME PoolsOK, freeStack # << >>
  PROVE  /\ TopFree \in Slabs
         /\ SubSeq(freeStack, 1, Len(freeStack) - 1) \in Seq(Slabs)
         /\ Len(SubSeq(freeStack, 1, Len(freeStack) - 1)) <= Capacity
  BY CapacityAssumption DEF PoolsOK, TopFree

(* Pushing a slab on a free stack with room yields a stack. *)
LEMMA PushTyped ==
  ASSUME PoolsOK, NEW s \in Slabs, Len(freeStack) < Capacity
  PROVE  /\ Append(freeStack, s) \in Seq(Slabs)
         /\ Len(Append(freeStack, s)) <= Capacity
  BY CapacityAssumption DEF PoolsOK

USE DEF Labels, Claims, AllocLabels, SlabLabels, CpuLabels

(* New establishes the type invariant. *)
LEMMA InitTyped == Init => TypeOK
<1> SUFFICES ASSUME Init PROVE TypeOK
  OBVIOUS
<1> USE CapacityAssumption, CacheAssumption, BoundAssumption
    DEF CapacityAssumption, CacheAssumption, BoundAssumption
<1>1. PoolsOK
  BY DEF Init, PoolsOK, Slabs, Caches
<1>2. RegistersOK
  BY DEF Init, RegistersOK
<1>3. \A t \in Threads : LocalsOK(t)
  BY DEF Init, LocalsOK
<1>4. QED
  BY <1>1, <1>2, <1>3 DEF TypeOK

(* A step of one goroutine leaves the locals of every other one alone. *)
Undisturbed(u) == /\ pc'[u] = pc[u] /\ slab'[u] = slab[u] /\ cpu'[u] = cpu[u]
                  /\ cnt'[u] = cnt[u] /\ want'[u] = want[u]

(* A step that changes the locals of t only, and keeps the types, keeps    *)
(* the type invariant.                                                     *)
LEMMA TypedByOne ==
  ASSUME TypeOK, NEW t \in Threads, PoolsOK', RegistersOK', LocalsOK(t)',
         \A u \in Threads \ {t} : Undisturbed(u)
  PROVE  TypeOK'
<1>1. ASSUME NEW u \in Threads \ {t} PROVE LocalsOK(u)'
  BY DEF TypeOK, LocalsOK, Undisturbed
<1>2. QED
  BY <1>1 DEF TypeOK

(* Every step preserves the type invariant. *)
LEMMA NextTyped == TypeOK /\ [Next]_vars => TypeOK'
<1> SUFFICES ASSUME TypeOK, [Next]_vars PROVE TypeOK'
  OBVIOUS
<1> USE DEF shared, locals, Goto
<1> USE CapacityAssumption, CacheAssumption, BoundAssumption
    DEF CapacityAssumption, CacheAssumption, BoundAssumption
<1>1. ASSUME NEW t \in Threads, BeginAllocate(t) PROVE TypeOK'
  <2>1. PoolsOK /\ RegistersOK /\ LocalsOK(t)
    BY DEF TypeOK
  <2>3. PoolsOK'
    BY <2>1, <1>1 DEF BeginAllocate, PoolsOK
  <2>4. RegistersOK'
    <3>1. CASE EnableCache
      BY <2>1, <1>1, <3>1 DEF BeginAllocate, PickCpu, RegistersOK
    <3>2. CASE ~EnableCache
      BY <2>1, <1>1, <3>2 DEF BeginAllocate, PickCpu, RegistersOK
    <3>3. QED
      BY <3>1, <3>2
  <2>5. LocalsOK(t)'
    BY <2>1, <1>1 DEF BeginAllocate, PickCpu, RegistersOK, LocalsOK
  <2>6. ASSUME NEW u \in Threads \ {t} PROVE Undisturbed(u)
    BY <2>1, <1>1 DEF BeginAllocate, PickCpu, RegistersOK, Undisturbed
  <2>7. QED
    BY <2>3, <2>4, <2>5, <2>6, TypedByOne
<1>2. ASSUME NEW t \in Threads, GetLoad(t) PROVE TypeOK'
  <2>1. PoolsOK /\ RegistersOK /\ LocalsOK(t)
    BY DEF TypeOK
  <2>2. cacheCount[cpu[t]] \in 0 .. CacheSize
    BY <2>1, <1>2 DEF GetLoad, PoolsOK, RegistersOK, LocalsOK
  <2>3. PoolsOK'
    BY <2>1, <2>2, <1>2 DEF GetLoad, PoolsOK
  <2>4. RegistersOK'
    BY <2>1, <2>2, <1>2 DEF GetLoad, RegistersOK
  <2>5. LocalsOK(t)'
    BY <2>1, <2>2, <1>2 DEF GetLoad, RegistersOK, LocalsOK
  <2>6. ASSUME NEW u \in Threads \ {t} PROVE Undisturbed(u)
    BY <2>1, <1>2 DEF GetLoad, RegistersOK, Undisturbed
  <2>7. QED
    BY <2>3, <2>4, <2>5, <2>6, TypedByOne
<1>3. ASSUME NEW t \in Threads, GetCas(t) PROVE TypeOK'
  <2>1. PoolsOK /\ RegistersOK /\ LocalsOK(t)
    BY DEF TypeOK
  <2>2. cpu[t] \in Caches /\ cnt[t] - 1 \in 0 .. CacheSize
    BY <2>1, <1>3 DEF GetCas, PoolsOK, RegistersOK, LocalsOK
  <2>3. PoolsOK'
    <3>1. CASE cacheCount[cpu[t]] = cnt[t]
      BY <2>1, <2>2, <1>3, <3>1 DEF GetCas, PoolsOK
    <3>2. CASE cacheCount[cpu[t]] # cnt[t]
      BY <2>1, <2>2, <1>3, <3>2 DEF GetCas, PoolsOK
    <3>3. QED
      BY <3>1, <3>2
  <2>4. RegistersOK'
    BY <2>1, <2>2, <1>3 DEF GetCas, RegistersOK
  <2>5. LocalsOK(t)'
    BY <2>1, <2>2, <1>3 DEF GetCas, RegistersOK, LocalsOK
  <2>6. ASSUME NEW u \in Threads \ {t} PROVE Undisturbed(u)
    BY <2>1, <1>3 DEF GetCas, RegistersOK, Undisturbed
  <2>7. QED
    BY <2>3, <2>4, <2>5, <2>6, TypedByOne
<1>4. ASSUME NEW t \in Threads, GetRead(t) PROVE TypeOK'
  <2>1. PoolsOK /\ RegistersOK /\ LocalsOK(t)
    BY DEF TypeOK
  <2>2. cacheStack[cpu[t]][cnt[t] - 1] \in Slabs
    BY <2>1, <1>4 DEF GetRead, PoolsOK, RegistersOK, LocalsOK
  <2>3. PoolsOK'
    BY <2>1, <2>2, <1>4 DEF GetRead, PoolsOK
  <2>4. RegistersOK'
    BY <2>1, <2>2, <1>4 DEF GetRead, RegistersOK
  <2>5. LocalsOK(t)'
    BY <2>1, <2>2, <1>4 DEF GetRead, RegistersOK, LocalsOK
  <2>6. ASSUME NEW u \in Threads \ {t} PROVE Undisturbed(u)
    BY <2>1, <1>4 DEF GetRead, RegistersOK, Undisturbed
  <2>7. QED
    BY <2>3, <2>4, <2>5, <2>6, TypedByOne
<1>5. ASSUME NEW t \in Threads, Refill(t) PROVE TypeOK'
  <2>1. PoolsOK /\ RegistersOK /\ LocalsOK(t)
    BY DEF TypeOK
  <2>3. PoolsOK'
    BY <2>1, <1>5, PopTyped DEF Refill, PopFree, PoolsOK
  <2>4. RegistersOK'
    BY <2>1, <1>5, PopTyped DEF Refill, PopFree, RegistersOK
  <2>5. LocalsOK(t)'
    BY <2>1, <1>5, PopTyped DEF Refill, PopFree, RegistersOK, LocalsOK
  <2>6. ASSUME NEW u \in Threads \ {t} PROVE Undisturbed(u)
    BY <2>1, <1>5 DEF Refill, PopFree, RegistersOK, Undisturbed
  <2>7. QED
    BY <2>3, <2>4, <2>5, <2>6, TypedByOne
<1>6. ASSUME NEW t \in Threads, RefillUndo(t) PROVE TypeOK'
  <2>1. PoolsOK /\ RegistersOK /\ LocalsOK(t)
    BY DEF TypeOK
  <2>2. slab[t] \in Slabs
    BY <2>1, <1>6 DEF RefillUndo, PoolsOK, RegistersOK, LocalsOK
  <2>3. PoolsOK'
    BY <2>1, <2>2, <1>6, PushTyped DEF RefillUndo, PoolsOK
  <2>4. RegistersOK'
    BY <2>1, <2>2, <1>6 DEF RefillUndo, RegistersOK
  <2>5. LocalsOK(t)'
    BY <2>1, <2>2, <1>6 DEF RefillUndo, RegistersOK, LocalsOK
  <2>6. ASSUME NEW u \in Threads \ {t} PROVE Undisturbed(u)
    BY <2>1, <1>6 DEF RefillUndo, RegistersOK, Undisturbed
  <2>7. QED
    BY <2>3, <2>4, <2>5, <2>6, TypedByOne
<1>7. ASSUME NEW t \in Threads, StackPop(t) PROVE TypeOK'
  <2>1. PoolsOK /\ RegistersOK /\ LocalsOK(t)
    BY DEF TypeOK
  <2>3. PoolsOK'
    BY <2>1, <1>7, PopTyped DEF StackPop, PopFree, PoolsOK
  <2>4. RegistersOK'
    BY <2>1, <1>7, PopTyped DEF StackPop, PopFree, RegistersOK
  <2>5. LocalsOK(t)'
    BY <2>1, <1>7, PopTyped DEF StackPop, PopFree, RegistersOK, LocalsOK
  <2>6. ASSUME NEW u \in Threads \ {t} PROVE Undisturbed(u)
    BY <2>1, <1>7 DEF StackPop, PopFree, RegistersOK, Undisturbed
  <2>7. QED
    BY <2>3, <2>4, <2>5, <2>6, TypedByOne
<1>8. ASSUME NEW t \in Threads, ColoredGet(t) PROVE TypeOK'
  <2>1. PoolsOK /\ RegistersOK /\ LocalsOK(t)
    BY DEF TypeOK
  <2>3. PoolsOK'
    BY <2>1, <1>8 DEF ColoredGet, PoolsOK
  <2>4. RegistersOK'
    BY <2>1, <1>8 DEF ColoredGet, RegistersOK
  <2>5. LocalsOK(t)'
    BY <2>1, <1>8 DEF ColoredGet, RegistersOK, LocalsOK
  <2>6. ASSUME NEW u \in Threads \ {t} PROVE Undisturbed(u)
    BY <2>1, <1>8 DEF ColoredGet, RegistersOK, Undisturbed
  <2>7. QED
    BY <2>3, <2>4, <2>5, <2>6, TypedByOne
<1>9. ASSUME NEW t \in Threads, Exhausted(t) PROVE TypeOK'
  <2>1. PoolsOK /\ RegistersOK /\ LocalsOK(t)
    BY DEF TypeOK
  <2>3. PoolsOK'
    BY <2>1, <1>9 DEF Exhausted, PoolsOK
  <2>4. RegistersOK'
    BY <2>1, <1>9 DEF Exhausted, Return, RegistersOK
  <2>5. LocalsOK(t)'
    BY <2>1, <1>9 DEF Exhausted, Return, RegistersOK, LocalsOK
  <2>6. ASSUME NEW u \in Threads \ {t} PROVE Undisturbed(u)
    BY <2>1, <1>9 DEF Exhausted, Return, RegistersOK, Undisturbed
  <2>7. QED
    BY <2>3, <2>4, <2>5, <2>6, TypedByOne
<1>10. ASSUME NEW t \in Threads, Claim(t) PROVE TypeOK'
  <2>1. PoolsOK /\ RegistersOK /\ LocalsOK(t)
    BY DEF TypeOK
  <2>2. slab[t] \in Slabs /\ want[t] - 1 \in 0 .. MaxBatch
    BY <2>1, <1>10 DEF Claim, PoolsOK, RegistersOK, LocalsOK
  <2>3. PoolsOK'
    BY <2>1, <2>2, <1>10 DEF Claim, ClaimSlab, PoolsOK
  <2>4. RegistersOK'
    <3>1. CASE ~inUse[slab[t]] /\ want[t] = 1
      BY <2>1, <2>2, <1>10, <3>1 DEF Claim, Return, Resume, PickCpu, RegistersOK
    <3>2. CASE ~(~inUse[slab[t]] /\ want[t] = 1) /\ pc[t] = "claim_cached"
      BY <2>1, <2>2, <1>10, <3>2 DEF Claim, Return, Resume, PickCpu, RegistersOK
    <3>3. CASE ~(~inUse[slab[t]] /\ want[t] = 1) /\ pc[t] = "claim_stacked"
      BY <2>1, <2>2, <1>10, <3>3 DEF Claim, Return, Resume, PickCpu, RegistersOK
    <3>4. CASE ~(~inUse[slab[t]] /\ want[t] = 1) /\ pc[t] = "claim_colored"
      BY <2>1, <2>2, <1>10, <3>4 DEF Claim, Return, Resume, PickCpu, RegistersOK
    <3>5. QED
      BY <3>1, <3>2, <3>3, <3>4, <1>10 DEF Claim
  <2>5. LocalsOK(t)'
    <3>1. CASE ~inUse[slab[t]] /\ want[t] = 1
      BY <2>1, <2>2, <1>10, <3>1 DEF Claim, Return, Resume, PickCpu, RegistersOK, LocalsOK
    <3>2. CASE ~(~inUse[slab[t]] /\ want[t] = 1) /\ pc[t] = "claim_cached"
      BY <2>1, <2>2, <1>10, <3>2 DEF Claim, Return, Resume, PickCpu, RegistersOK, LocalsOK
    <3>3. CASE ~(~inUse[slab[t]] /\ want[t] = 1) /\ pc[t] = "claim_stacked"
      BY <2>1, <2>2, <1>10, <3>3 DEF Claim, Return, Resume, PickCpu, RegistersOK, LocalsOK
    <3>4. CASE ~(~inUse[slab[t]] /\ want[t] = 1) /\ pc[t] = "claim_colored"
      BY <2>1, <2>2, <1>10, <3>4 DEF Claim, Return, Resume, PickCpu, RegistersOK, LocalsOK
    <3>5. QED
      BY <3>1, <3>2, <3>3, <3>4, <1>10 DEF Claim
  <2>6. ASSUME NEW u \in Threads \ {t} PROVE Undisturbed(u)
    BY <2>1, <1>10 DEF Claim, Return, Resume, PickCpu, RegistersOK, Undisturbed
  <2>7. QED
    BY <2>3, <2>4, <2>5, <2>6, TypedByOne
<1>11. ASSUME NEW t \in Threads, PutLoad(t) PROVE TypeOK'
  <2>1. PoolsOK /\ RegistersOK /\ LocalsOK(t)
    BY DEF TypeOK
  <2>2. cacheCount[cpu[t]] \in 0 .. CacheSize
    BY <2>1, <1>11 DEF PutLoad, PoolsOK, RegistersOK, LocalsOK
  <2>3. PoolsOK'
    BY <2>1, <2>2, <1>11 DEF PutLoad, PoolsOK
  <2>4. RegistersOK'
    <3>1. CASE CacheFull(cpu[t]) /\ want[t] > 0
      BY <2>1, <2>2, <1>11, <3>1 DEF PutLoad, CacheFull, RegistersOK
    <3>2. CASE CacheFull(cpu[t]) /\ ~(want[t] > 0)
      BY <2>1, <2>2, <1>11, <3>2 DEF PutLoad, CacheFull, RegistersOK
    <3>3. CASE ~CacheFull(cpu[t])
      BY <2>1, <2>2, <1>11, <3>3 DEF PutLoad, CacheFull, RegistersOK
    <3>4. QED
      BY <3>1, <3>2, <3>3
  <2>5. LocalsOK(t)'
    BY <2>1, <2>2, <1>11 DEF PutLoad, CacheFull, RegistersOK, LocalsOK
  <2>6. ASSUME NEW u \in Threads \ {t} PROVE Undisturbed(u)
    BY <2>1, <1>11 DEF PutLoad, CacheFull, RegistersOK, Undisturbed
  <2>7. QED
    BY <2>3, <2>4, <2>5, <2>6, TypedByOne
<1>12. ASSUME NEW t \in Threads, PutStore(t) PROVE TypeOK'
  <2>1. PoolsOK /\ RegistersOK /\ LocalsOK(t)
    BY DEF TypeOK
  <2>2. cpu[t] \in Caches /\ slab[t] \in Slabs /\ cnt[t] \in 0 .. CacheSize - 1
    BY <2>1, <1>12 DEF PutStore, PoolsOK, RegistersOK, LocalsOK
  <2>3. PoolsOK'
    BY <2>1, <2>2, <1>12 DEF PutStore, PoolsOK
  <2>4. RegistersOK'
    BY <2>1, <2>2, <1>12 DEF PutStore, RegistersOK
  <2>5. LocalsOK(t)'
    BY <2>1, <2>2, <1>12 DEF PutStore, RegistersOK, LocalsOK
  <2>6. ASSUME NEW u \in Threads \ {t} PROVE Undisturbed(u)
    BY <2>1, <1>12 DEF PutStore, RegistersOK, Undisturbed
  <2>7. QED
    BY <2>3, <2>4, <2>5, <2>6, TypedByOne
<1>13. ASSUME NEW t \in Threads, PutCas(t) PROVE TypeOK'
  <2>1. PoolsOK /\ RegistersOK /\ LocalsOK(t)
    BY DEF TypeOK
  <2>2. cpu[t] \in Caches /\ cnt[t] + 1 \in 0 .. CacheSize
    BY <2>1, <1>13 DEF PutCas, PoolsOK, RegistersOK, LocalsOK
  <2>3. PoolsOK'
    <3>1. CASE cacheCount[cpu[t]] = cnt[t]
      BY <2>1, <2>2, <1>13, <3>1 DEF PutCas, PoolsOK
    <3>2. CASE cacheCount[cpu[t]] # cnt[t]
      BY <2>1, <2>2, <1>13, <3>2 DEF PutCas, PoolsOK
    <3>3. QED
      BY <3>1, <3>2
  <2>4. RegistersOK'
    <3>1. CASE cacheCount[cpu[t]] # cnt[t]
      BY <2>1, <2>2, <1>13, <3>1 DEF PutCas, Return, RegistersOK
    <3>2. CASE cacheCount[cpu[t]] = cnt[t] /\ want[t] > 0
      BY <2>1, <2>2, <1>13, <3>2 DEF PutCas, Return, RegistersOK
    <3>3. CASE cacheCount[cpu[t]] = cnt[t] /\ ~(want[t] > 0)
      BY <2>1, <2>2, <1>13, <3>3 DEF PutCas, Return, RegistersOK
    <3>4. QED
      BY <3>1, <3>2, <3>3
  <2>5. LocalsOK(t)'
    <3>1. CASE cacheCount[cpu[t]] # cnt[t]
      BY <2>1, <2>2, <1>13, <3>1 DEF PutCas, Return, RegistersOK, LocalsOK
    <3>2. CASE cacheCount[cpu[t]] = cnt[t] /\ want[t] > 0
      BY <2>1, <2>2, <1>13, <3>2 DEF PutCas, Return, RegistersOK, LocalsOK
    <3>3. CASE cacheCount[cpu[t]] = cnt[t] /\ ~(want[t] > 0)
      BY <2>1, <2>2, <1>13, <3>3 DEF PutCas, Return, RegistersOK, LocalsOK
    <3>4. QED
      BY <3>1, <3>2, <3>3
  <2>6. ASSUME NEW u \in Threads \ {t} PROVE Undisturbed(u)
    BY <2>1, <1>13 DEF PutCas, Return, RegistersOK, Undisturbed
  <2>7. QED
    BY <2>3, <2>4, <2>5, <2>6, TypedByOne
<1>14. ASSUME NEW t \in Threads, Deallocate(t) PROVE TypeOK'
  <2>1. PoolsOK /\ RegistersOK /\ LocalsOK(t)
    BY DEF TypeOK
  <2>2. \A s \in held[t] : s \in Slabs
    BY <2>1, <1>14 DEF Deallocate, PoolsOK, RegistersOK, LocalsOK
  <2>3. PoolsOK'
    BY <2>1, <2>2, <1>14 DEF Deallocate, PoolsOK
  <2>4. RegistersOK'
    <3>1. CASE EnableSecure
      BY <2>1, <2>2, <1>14, <3>1 DEF Deallocate, RegistersOK
    <3>2. CASE ~EnableSecure
      BY <2>1, <2>2, <1>14, <3>2 DEF Deallocate, RegistersOK
    <3>3. QED
      BY <3>1, <3>2
  <2>5. LocalsOK(t)'
    BY <2>1, <2>2, <1>14 DEF Deallocate, RegistersOK, LocalsOK
  <2>6. ASSUME NEW u \in Threads \ {t} PROVE Undisturbed(u)
    BY <2>1, <1>14 DEF Deallocate, RegistersOK, Undisturbed
  <2>7. QED
    BY <2>3, <2>4, <2>5, <2>6, TypedByOne
<1>15. ASSUME NEW t \in Threads, DeallocateZero(t) PROVE TypeOK'
  <2>1. PoolsOK /\ RegistersOK /\ LocalsOK(t)
    BY DEF TypeOK
  <2>2. slab[t] \in Slabs
    BY <2>1, <1>15 DEF DeallocateZero, PoolsOK, RegistersOK, LocalsOK
  <2>3. PoolsOK'
    BY <2>1, <2>2, <1>15 DEF DeallocateZero, PoolsOK
  <2>4. RegistersOK'
    BY <2>1, <2>2, <1>15 DEF DeallocateZero, RegistersOK
  <2>5. LocalsOK(t)'
    BY <2>1, <2>2, <1>15 DEF DeallocateZero, RegistersOK, LocalsOK
  <2>6. ASSUME NEW u \in Threads \ {t} PROVE Undisturbed(u)
    BY <2>1, <1>15 DEF DeallocateZero, RegistersOK, Undisturbed
  <2>7. QED
    BY <2>3, <2>4, <2>5, <2>6, TypedByOne
<1>16. ASSUME NEW t \in Threads, DeallocateClear(t) PROVE TypeOK'
  <2>1. PoolsOK /\ RegistersOK /\ LocalsOK(t)
    BY DEF TypeOK
  <2>2. slab[t] \in Slabs
    BY <2>1, <1>16 DEF DeallocateClear, PoolsOK, RegistersOK, LocalsOK
  <2>3. PoolsOK'
    BY <2>1, <2>2, <1>16 DEF DeallocateClear, PoolsOK
  <2>4. RegistersOK'
    BY <2>1, <2>2, <1>16 DEF DeallocateClear, PutBack, PickCpu, RegistersOK
  <2>5. LocalsOK(t)'
    BY <2>1, <2>2, <1>16 DEF DeallocateClear, PutBack, PickCpu, RegistersOK, LocalsOK
  <2>6. ASSUME NEW u \in Threads \ {t} PROVE Undisturbed(u)
    BY <2>1, <1>16 DEF DeallocateClear, PutBack, PickCpu, RegistersOK, Undisturbed
  <2>7. QED
    BY <2>3, <2>4, <2>5, <2>6, TypedByOne
<1>17. ASSUME NEW t \in Threads, DeallocateFast(t) PROVE TypeOK'
  <2>1. PoolsOK /\ RegistersOK /\ LocalsOK(t)
    BY DEF TypeOK
  <2>2. \A s \in held[t] : s \in Slabs
    BY <2>1, <1>17 DEF DeallocateFast, PoolsOK, RegistersOK, LocalsOK
  <2>3. PoolsOK'
    BY <2>1, <2>2, <1>17 DEF DeallocateFast, PoolsOK
  <2>4. RegistersOK'
    <3>1. CASE EnableSecure
      BY <2>1, <2>2, <1>17, <3>1 DEF DeallocateFast, PutBack, PickCpu, RegistersOK
    <3>2. CASE ~EnableSecure /\ EnableGuard
      BY <2>1, <2>2, <1>17, <3>2 DEF DeallocateFast, PutBack, PickCpu, RegistersOK
    <3>3. CASE ~EnableSecure /\ ~EnableGuard /\ EnableCache
      BY <2>1, <2>2, <1>17, <3>3 DEF DeallocateFast, PutBack, PickCpu, RegistersOK
    <3>4. CASE ~EnableSecure /\ ~EnableGuard /\ ~EnableCache
      BY <2>1, <2>2, <1>17, <3>4 DEF DeallocateFast, PutBack, PickCpu, RegistersOK
    <3>5. QED
      BY <3>1, <3>2, <3>3, <3>4
  <2>5. LocalsOK(t)'
    BY <2>1, <2>2, <1>17 DEF DeallocateFast, PutBack, PickCpu, RegistersOK, LocalsOK
  <2>6. ASSUME NEW u \in Threads \ {t} PROVE Undisturbed(u)
    BY <2>1, <1>17 DEF DeallocateFast, PutBack, PickCpu, RegistersOK, Undisturbed
  <2>7. QED
    BY <2>3, <2>4, <2>5, <2>6, TypedByOne
<1>18. ASSUME NEW t \in Threads, FastZero(t) PROVE TypeOK'
  <2>1. PoolsOK /\ RegistersOK /\ LocalsOK(t)
    BY DEF TypeOK
  <2>2. slab[t] \in Slabs
    BY <2>1, <1>18 DEF FastZero, PoolsOK, RegistersOK, LocalsOK
  <2>3. PoolsOK'
    BY <2>1, <2>2, <1>18 DEF FastZero, PoolsOK
  <2>4. RegistersOK'
    BY <2>1, <2>2, <1>18 DEF FastZero, PutBack, PickCpu, RegistersOK
  <2>5. LocalsOK(t)'
    BY <2>1, <2>2, <1>18 DEF FastZero, PutBack, PickCpu, RegistersOK, LocalsOK
  <2>6. ASSUME NEW u \in Threads \ {t} PROVE Undisturbed(u)
    BY <2>1, <1>18 DEF FastZero, PutBack, PickCpu, RegistersOK, Undisturbed
  <2>7. QED
    BY <2>3, <2>4, <2>5, <2>6, TypedByOne
<1>19. ASSUME NEW t \in Threads, FastGuard(t) PROVE TypeOK'
  <2>1. PoolsOK /\ RegistersOK /\ LocalsOK(t)
    BY DEF TypeOK
  <2>3. PoolsOK'
    BY <2>1, <1>19 DEF FastGuard, PoolsOK
  <2>4. RegistersOK'
    <3>1. CASE GuardBroken(slab[t])
      BY <2>1, <1>19, <3>1 DEF FastGuard, PutBack, PickCpu, Return, RegistersOK
    <3>2. CASE ~GuardBroken(slab[t]) /\ EnableCache
      BY <2>1, <1>19, <3>2 DEF FastGuard, PutBack, PickCpu, Return, RegistersOK
    <3>3. CASE ~GuardBroken(slab[t]) /\ ~EnableCache
      BY <2>1, <1>19, <3>3 DEF FastGuard, PutBack, PickCpu, Return, RegistersOK
    <3>4. QED
      BY <3>1, <3>2, <3>3
  <2>5. LocalsOK(t)'
    BY <2>1, <1>19 DEF FastGuard, PutBack, PickCpu, Return, RegistersOK, LocalsOK
  <2>6. ASSUME NEW u \in Threads \ {t} PROVE Undisturbed(u)
    BY <2>1, <1>19 DEF FastGuard, PutBack, PickCpu, Return, RegistersOK, Undisturbed
  <2>7. QED
    BY <2>3, <2>4, <2>5, <2>6, TypedByOne
<1>20. ASSUME NEW t \in Threads, GiveBack(t) PROVE TypeOK'
  <2>1. PoolsOK /\ RegistersOK /\ LocalsOK(t)
    BY DEF TypeOK
  <2>2. slab[t] \in Slabs
    BY <2>1, <1>20 DEF GiveBack, PoolsOK, RegistersOK, LocalsOK
  <2>3. PoolsOK'
    BY <2>1, <2>2, <1>20, PushTyped DEF GiveBack, PoolsOK
  <2>4. RegistersOK'
    <3>1. Return(t) \/ (Goto(t, "colored_put") /\ UNCHANGED locals)
      BY <1>20 DEF GiveBack
    <3>2. QED
      BY <2>1, <3>1 DEF Return, RegistersOK
  <2>5. LocalsOK(t)'
    BY <2>1, <2>2, <1>20 DEF GiveBack, Return, RegistersOK, LocalsOK
  <2>6. ASSUME NEW u \in Threads \ {t} PROVE Undisturbed(u)
    BY <2>1, <1>20 DEF GiveBack, Return, RegistersOK, Undisturbed
  <2>7. QED
    BY <2>3, <2>4, <2>5, <2>6, TypedByOne
<1>21. ASSUME NEW t \in Threads, ColoredPut(t) PROVE TypeOK'
  <2>1. PoolsOK /\ RegistersOK /\ LocalsOK(t)
    BY DEF TypeOK
  <2>2. slab[t] \in Slabs
    BY <2>1, <1>21 DEF ColoredPut, PoolsOK, RegistersOK, LocalsOK
  <2>3. PoolsOK'
    BY <2>1, <2>2, <1>21 DEF ColoredPut, PoolsOK
  <2>4. RegistersOK'
    BY <2>1, <2>2, <1>21 DEF ColoredPut, Return, RegistersOK
  <2>5. LocalsOK(t)'
    BY <2>1, <2>2, <1>21 DEF ColoredPut, Return, RegistersOK, LocalsOK
  <2>6. ASSUME NEW u \in Threads \ {t} PROVE Undisturbed(u)
    BY <2>1, <1>21 DEF ColoredPut, Return, RegistersOK, Undisturbed
  <2>7. QED
    BY <2>3, <2>4, <2>5, <2>6, TypedByOne
<1>22. ASSUME NEW t \in Threads, Write(t) PROVE TypeOK'
  <2>1. PoolsOK /\ RegistersOK /\ LocalsOK(t)
    BY DEF TypeOK
  <2>3. PoolsOK'
    BY <2>1, <1>22 DEF Write, PoolsOK
  <2>4. RegistersOK'
    BY <2>1, <1>22 DEF Write, RegistersOK
  <2>5. LocalsOK(t)'
    BY <2>1, <1>22 DEF Write, RegistersOK, LocalsOK
  <2>6. ASSUME NEW u \in Threads \ {t} PROVE Undisturbed(u)
    BY <2>1, <1>22 DEF Write, RegistersOK, Undisturbed
  <2>7. QED
    BY <2>3, <2>4, <2>5, <2>6, TypedByOne
<1>23. ASSUME Reset PROVE TypeOK'
  <2>1. PoolsOK /\ RegistersOK
    BY DEF TypeOK
  <2>2. PoolsOK' /\ RegistersOK'
    BY <2>1, <1>23 DEF Reset, PoolsOK, RegistersOK
  <2>3. \A t \in Threads : LocalsOK(t)'
    BY <1>23 DEF Reset, TypeOK, LocalsOK
  <2>4. QED
    BY <2>2, <2>3 DEF TypeOK
<1>24. ASSUME UNCHANGED vars PROVE TypeOK'
  BY <1>24 DEF vars, TypeOK, PoolsOK, RegistersOK, LocalsOK
<1>25. QED
  BY <1>1, <1>2, <1>3, <1>4, <1>5, <1>6, <1>7, <1>8, <1>9, <1>10, <1>11, <1>12,
       <1>13, <1>14, <1>15, <1>16, <1>17, <1>18, <1>19, <1>20, <1>21, <1>22, <1>23,
       <1>24 DEF Next, Call, Step

(* The type invariant: in particular no call indexes a cache array out of  *)
(* bounds, whatever the other goroutines do (get and putInternal).         *)
THEOREM TypeCorrect == Spec => []TypeOK
  BY InitTyped, NextTyped, PTL DEF Spec

-----------------------------------------------------------------------------
(* Exclusive ownership.  The invariant is inductive once it says that a    *)
(* slab Deallocate works on is no longer held by its caller.               *)
OwnershipInv == TypeOK /\ NotHeldTwice /\ ExclusiveOwnership

(* u is inside Deallocate and still owns the slab it returns. *)
Returning(u) == pc[u] \in {"d_zero", "d_clear"}

(* A step that changes no ownership. *)
Quiet == /\ inUse' = inUse
         /\ held' = held
         /\ \A u \in Threads : Returning(u)' = Returning(u)
         /\ \A u \in Threads : Returning(u) => slab'[u] = slab[u]

(* All steps but the claim, the releases and Reset are quiet. *)
LEMMA QuietSteps ==
  ASSUME TypeOK, NEW t \in Threads,
         \/ BeginAllocate(t) \/ GetLoad(t) \/ GetCas(t) \/ GetRead(t)
         \/ Refill(t) \/ RefillUndo(t) \/ StackPop(t) \/ ColoredGet(t)
         \/ Exhausted(t) \/ PutLoad(t) \/ PutStore(t) \/ PutCas(t)
         \/ DeallocateZero(t) \/ FastZero(t) \/ FastGuard(t) \/ GiveBack(t)
         \/ ColoredPut(t) \/ Write(t)
  PROVE  Quiet
<1> USE DEF TypeOK, RegistersOK, Quiet, Returning, shared, locals, Goto
<1>1. CASE BeginAllocate(t)
  BY <1>1 DEF BeginAllocate, PickCpu
<1>2. CASE GetLoad(t)
  BY <1>2 DEF GetLoad
<1>3. CASE GetCas(t)
  BY <1>3 DEF GetCas
<1>4. CASE GetRead(t)
  BY <1>4 DEF GetRead
<1>5. CASE Refill(t)
  BY <1>5 DEF Refill
<1>6. CASE RefillUndo(t)
  BY <1>6 DEF RefillUndo
<1>7. CASE StackPop(t)
  BY <1>7 DEF StackPop
<1>8. CASE ColoredGet(t)
  BY <1>8 DEF ColoredGet
<1>9. CASE Exhausted(t)
  BY <1>9 DEF Exhausted, Return
<1>10. CASE PutLoad(t)
  BY <1>10 DEF PutLoad
<1>11. CASE PutStore(t)
  BY <1>11 DEF PutStore
<1>12. CASE PutCas(t)
  BY <1>12 DEF PutCas, Return
<1>13. CASE DeallocateZero(t)
  BY <1>13 DEF DeallocateZero
<1>14. CASE FastZero(t)
  BY <1>14 DEF FastZero, PutBack, PickCpu
<1>15. CASE FastGuard(t)
  BY <1>15 DEF FastGuard, PutBack, PickCpu, Return
<1>16. CASE GiveBack(t)
  BY <1>16 DEF GiveBack, Return
<1>17. CASE ColoredPut(t)
  BY <1>17 DEF ColoredPut, Return
<1>18. CASE Write(t)
  BY <1>18 DEF Write
<1>19. QED
  BY <1>1, <1>2, <1>3, <1>4, <1>5, <1>6, <1>7, <1>8, <1>9, <1>10, <1>11,
     <1>12, <1>13, <1>14, <1>15, <1>16, <1>17, <1>18

(* A quiet step changes no claim of any goroutine.                         *)
LEMMA QuietOwns ==
  ASSUME Quiet, NEW u \in Threads, NEW s \in Slabs
  PROVE  Owns(u, s)' <=> Owns(u, s)
  BY DEF Quiet, Owns, Returning

(* A quiet step preserves the ownership invariant.                         *)
LEMMA QuietKeeps ==
  ASSUME OwnershipInv, TypeOK', Quiet
  PROVE  OwnershipInv'
<1>1. NotHeldTwice'
  BY DEF OwnershipInv, NotHeldTwice, Quiet, Returning
<1>2. ExclusiveOwnership'
  BY QuietOwns DEF OwnershipInv, ExclusiveOwnership, Quiet
<1>3. QED
  BY <1>1, <1>2 DEF OwnershipInv

(* A claim: either the compare-and-swap fails and nothing changes, or the  *)
(* slab was not in use, hence nobody's, and is now t's.                    *)
LEMMA ClaimEffect ==
  ASSUME TypeOK, NEW t \in Threads, Claim(t)
  PROVE  /\ slab[t] \in Slabs
         /\ ~Returning(t) /\ ~Returning(t)'
         /\ \A u \in Threads \ {t} : Undisturbed(u)
         /\ inUse' = [inUse EXCEPT ![slab[t]] = TRUE]
         /\ \/ inUse[slab[t]] /\ held' = held
            \/ ~inUse[slab[t]] /\ held' = [held EXCEPT ![t] = @ \cup {slab[t]}]
<1> USE DEF Goto
<1>1. slab[t] \in Slabs
  BY DEF TypeOK, LocalsOK, Claim
<1>2. ~Returning(t) /\ ~Returning(t)'
  BY DEF Claim, Return, Resume, PickCpu, Returning, TypeOK, RegistersOK
<1>3. \A u \in Threads \ {t} : Undisturbed(u)
  BY DEF Claim, Return, Resume, PickCpu, TypeOK, RegistersOK, Undisturbed
<1>4. QED
  BY <1>1, <1>2, <1>3 DEF Claim, ClaimSlab

(* A claim that fails is a quiet step.                                     *)
LEMMA ClaimQuiet ==
  ASSUME TypeOK, NEW t \in Threads, Claim(t), inUse[slab[t]]
  PROVE  Quiet
<1>1. inUse \in [Slabs -> BOOLEAN]
  BY DEF TypeOK, PoolsOK
<1>2. inUse[slab[t]] = TRUE
  BY <1>1, ClaimEffect
<1>3. inUse' = inUse
  <2>1. inUse' \in [Slabs -> BOOLEAN]
    BY <1>1, ClaimEffect
  <2>2. \A s \in Slabs : inUse'[s] = inUse[s]
    BY <1>1, <1>2, ClaimEffect
  <2>3. QED
    BY <1>1, <2>1, <2>2
<1>4. held' = held
  BY ClaimEffect
<1>5. \A u \in Threads : Returning(u)' = Returning(u) /\ (Returning(u) => slab'[u] = slab[u])
  BY ClaimEffect DEF Returning, Undisturbed
<1>6. QED
  BY <1>3, <1>4, <1>5 DEF Quiet

(* A claim that succeeds adds one owner, of a slab that had none.          *)
LEMMA ClaimOwns ==
  ASSUME TypeOK, NEW t \in Threads, Claim(t), ~inUse[slab[t]],
         NEW u \in Threads, NEW s \in Slabs
  PROVE  Owns(u, s)' <=> (Owns(u, s) \/ (u = t /\ s = slab[t]))
<1>1. CASE u = t
  BY <1>1, ClaimEffect DEF Owns, Returning, TypeOK, PoolsOK
<1>2. CASE u # t
  BY <1>2, ClaimEffect DEF Owns, Returning, Undisturbed, TypeOK, PoolsOK
<1>3. QED
  BY <1>1, <1>2

(* Deallocate: with intact guard pages the caller keeps its claim on the   *)
(* slab until DeallocateClear; with broken ones it loses it.               *)
LEMMA DeallocateEffect ==
  ASSUME TypeOK, NEW t \in Threads, Deallocate(t)
  PROVE  \E s \in held[t] :
           /\ s \in Slabs
           /\ inUse' = inUse
           /\ held' = [held EXCEPT ![t] = @ \ {s}]
           /\ ~Returning(t)
           /\ \/ GuardBroken(s) /\ ~Returning(t)'
              \/ ~GuardBroken(s) /\ Returning(t)' /\ slab'[t] = s
           /\ \A u \in Threads \ {t} : Undisturbed(u)
<1>1. PICK s \in held[t] :
        /\ held' = [held EXCEPT ![t] = @ \ {s}]
        /\ IF GuardBroken(s)
             THEN UNCHANGED <<pc, slab>>
             ELSE /\ slab' = [slab EXCEPT ![t] = s]
                  /\ Goto(t, IF EnableSecure THEN "d_zero" ELSE "d_clear")
  BY DEF Deallocate
<1>2. s \in Slabs
  BY <1>1 DEF TypeOK, PoolsOK
<1>3. ~Returning(t) /\ inUse' = inUse /\ UNCHANGED <<cpu, cnt, want>>
  BY DEF Deallocate, Returning, shared
<1>4. \/ GuardBroken(s) /\ ~Returning(t)'
      \/ ~GuardBroken(s) /\ Returning(t)' /\ slab'[t] = s
  BY <1>1, <1>3 DEF Returning, Goto, TypeOK, RegistersOK
<1>5. \A u \in Threads \ {t} : Undisturbed(u)
  BY <1>1, <1>3 DEF Undisturbed, Goto, TypeOK, RegistersOK
<1>6. QED
  BY <1>1, <1>2, <1>3, <1>4, <1>5

(* DeallocateClear: the caller's last claim on the slab ends. *)
LEMMA ClearEffect ==
  ASSUME TypeOK, NEW t \in Threads, DeallocateClear(t)
  PROVE  /\ slab[t] \in Slabs
         /\ inUse' = [inUse EXCEPT ![slab[t]] = FALSE]
         /\ held' = held
         /\ Returning(t) /\ ~Returning(t)'
         /\ \A u \in Threads \ {t} : Undisturbed(u)
<1>1. slab[t] \in Slabs
  BY DEF TypeOK, LocalsOK, DeallocateClear
<1>2. Returning(t) /\ ~Returning(t)'
  BY DEF DeallocateClear, PutBack, PickCpu, Goto, Returning, TypeOK, RegistersOK
<1>3. \A u \in Threads \ {t} : Undisturbed(u)
  BY DEF DeallocateClear, PutBack, PickCpu, Goto, TypeOK, RegistersOK, Undisturbed
<1>4. QED
  BY <1>1, <1>2, <1>3 DEF DeallocateClear

(* DeallocateFast: the caller's claim ends at once. *)
LEMMA FastEffect ==
  ASSUME TypeOK, NEW t \in Threads, DeallocateFast(t)
  PROVE  \E s \in held[t] :
           /\ s \in Slabs
           /\ inUse' = [inUse EXCEPT ![s] = FALSE]
           /\ held' = [held EXCEPT ![t] = @ \ {s}]
           /\ ~Returning(t) /\ ~Returning(t)'
           /\ \A u \in Threads \ {t} : Undisturbed(u)
<1>1. PICK s \in held[t] :
        /\ inUse' = [inUse EXCEPT ![s] = FALSE]
        /\ held' = [held EXCEPT ![t] = @ \ {s}]
        /\ slab' = [slab EXCEPT ![t] = s]
  BY DEF DeallocateFast
<1>2. s \in Slabs
  BY <1>1 DEF TypeOK, PoolsOK
<1>3. ~Returning(t) /\ ~Returning(t)'
  BY DEF DeallocateFast, PutBack, PickCpu, Goto, Returning, TypeOK, RegistersOK
<1>4. \A u \in Threads \ {t} : Undisturbed(u)
  BY <1>1 DEF DeallocateFast, PutBack, PickCpu, Goto, Undisturbed, TypeOK, RegistersOK
<1>5. QED
  BY <1>1, <1>2, <1>3, <1>4

-----------------------------------------------------------------------------
(* New: nobody owns a slab.                                                *)
LEMMA InitOwnership == Init => OwnershipInv
<1> SUFFICES ASSUME Init PROVE OwnershipInv
  OBVIOUS
<1>1. NotHeldTwice /\ ExclusiveOwnership
  BY DEF Init, NotHeldTwice, ExclusiveOwnership, Owns
<1>2. QED
  BY <1>1, InitTyped DEF OwnershipInv

(* A claim preserves exclusive ownership.                                  *)
LEMMA ClaimKeeps ==
  ASSUME OwnershipInv, TypeOK', NEW t \in Threads, Claim(t)
  PROVE  OwnershipInv'
<1>1. CASE inUse[slab[t]]
  BY <1>1, ClaimQuiet, QuietKeeps DEF OwnershipInv
<1>2. CASE ~inUse[slab[t]]
  <2>1. \A u \in Threads : ~Owns(u, slab[t])
    BY <1>2, ClaimEffect DEF OwnershipInv, ExclusiveOwnership
  <2>2. ASSUME NEW s \in Slabs, NEW u \in Threads, Owns(u, s)'
        PROVE  inUse'[s] /\ \A w \in Threads \ {u} : ~Owns(w, s)'
    <3>1. Owns(u, s) \/ (u = t /\ s = slab[t])
      BY <1>2, <2>2, ClaimOwns DEF OwnershipInv
    <3>2. CASE s = slab[t]
      BY <1>2, <2>1, <3>1, <3>2, ClaimOwns, ClaimEffect DEF OwnershipInv, TypeOK, PoolsOK
    <3>3. CASE s # slab[t]
      BY <1>2, <3>1, <3>3, ClaimOwns, ClaimEffect
      DEF OwnershipInv, ExclusiveOwnership, TypeOK, PoolsOK
    <3>4. QED
      BY <3>2, <3>3
  <2>3. NotHeldTwice'
    BY <1>2, ClaimEffect
    DEF OwnershipInv, NotHeldTwice, Undisturbed, Returning, TypeOK, PoolsOK
  <2>4. QED
    BY <2>2, <2>3 DEF OwnershipInv, ExclusiveOwnership
<1>3. QED
  BY <1>1, <1>2

(* Deallocate preserves exclusive ownership: it adds no claim.             *)
LEMMA DeallocateKeeps ==
  ASSUME OwnershipInv, TypeOK', NEW t \in Threads, Deallocate(t)
  PROVE  OwnershipInv'
<1>1. PICK s \in held[t] :
           /\ s \in Slabs
           /\ inUse' = inUse
           /\ held' = [held EXCEPT ![t] = @ \ {s}]
           /\ ~Returning(t)
           /\ \/ GuardBroken(s) /\ ~Returning(t)'
              \/ ~GuardBroken(s) /\ Returning(t)' /\ slab'[t] = s
           /\ \A u \in Threads \ {t} : Undisturbed(u)
  BY DeallocateEffect DEF OwnershipInv
<1>2. ASSUME NEW u \in Threads, NEW r \in Slabs, Owns(u, r)' PROVE Owns(u, r)
  BY <1>1, <1>2 DEF Owns, Returning, Undisturbed, OwnershipInv, TypeOK, PoolsOK
<1>3. NotHeldTwice'
  BY <1>1 DEF OwnershipInv, NotHeldTwice, Returning, Undisturbed, TypeOK, PoolsOK
<1>4. ExclusiveOwnership'
  BY <1>1, <1>2 DEF OwnershipInv, ExclusiveOwnership
<1>5. QED
  BY <1>3, <1>4 DEF OwnershipInv

(* DeallocateClear ends one claim and no other.                            *)
LEMMA ClearOwns ==
  ASSUME OwnershipInv, NEW t \in Threads, DeallocateClear(t),
         NEW u \in Threads, NEW s \in Slabs
  PROVE  Owns(u, s)' <=> Owns(u, s) /\ s # slab[t]
<1>1. Owns(t, slab[t]) /\ slab[t] \in Slabs
  BY ClearEffect DEF Owns, Returning, OwnershipInv
<1>2. CASE u = t
  BY <1>2, ClearEffect DEF Owns, Returning, OwnershipInv, NotHeldTwice
<1>3. CASE u # t
  BY <1>1, <1>3, ClearEffect
  DEF Owns, Undisturbed, OwnershipInv, ExclusiveOwnership
<1>4. QED
  BY <1>2, <1>3

(* DeallocateClear clears inUse of a slab nobody else owns.                *)
LEMMA ClearKeeps ==
  ASSUME OwnershipInv, TypeOK', NEW t \in Threads, DeallocateClear(t)
  PROVE  OwnershipInv'
<1>1. NotHeldTwice'
  BY ClearEffect DEF OwnershipInv, NotHeldTwice, Returning, Undisturbed
<1>2. ExclusiveOwnership'
  BY ClearOwns, ClearEffect DEF OwnershipInv, ExclusiveOwnership, TypeOK, PoolsOK
<1>3. QED
  BY <1>1, <1>2 DEF OwnershipInv

(* DeallocateFast clears inUse of a slab nobody else owns.                 *)
LEMMA FastKeeps ==
  ASSUME OwnershipInv, TypeOK', NEW t \in Threads, DeallocateFast(t)
  PROVE  OwnershipInv'
<1>1. PICK s \in held[t] :
           /\ s \in Slabs
           /\ inUse' = [inUse EXCEPT ![s] = FALSE]
           /\ held' = [held EXCEPT ![t] = @ \ {s}]
           /\ ~Returning(t) /\ ~Returning(t)'
           /\ \A u \in Threads \ {t} : Undisturbed(u)
  BY FastEffect DEF OwnershipInv
<1>2. ASSUME NEW u \in Threads, NEW r \in Slabs, Owns(u, r)'
      PROVE  Owns(u, r) /\ r # s
  <2>1. Owns(t, s)
    BY <1>1 DEF Owns
  <2>2. CASE u = t
    BY <1>1, <1>2, <2>2 DEF Owns, Returning, OwnershipInv, TypeOK, PoolsOK
  <2>3. CASE u # t
    BY <1>1, <1>2, <2>1, <2>3
    DEF Owns, Undisturbed, OwnershipInv, ExclusiveOwnership, TypeOK, PoolsOK
  <2>4. QED
    BY <2>2, <2>3
<1>3. NotHeldTwice'
  BY <1>1 DEF OwnershipInv, NotHeldTwice, Returning, Undisturbed, TypeOK, PoolsOK
<1>4. ExclusiveOwnership'
  BY <1>1, <1>2 DEF OwnershipInv, ExclusiveOwnership, TypeOK, PoolsOK
<1>5. QED
  BY <1>3, <1>4 DEF OwnershipInv

(* Every step preserves exclusive ownership.                               *)
LEMMA NextOwnership == OwnershipInv /\ [Next]_vars => OwnershipInv'
<1> SUFFICES ASSUME OwnershipInv, [Next]_vars PROVE OwnershipInv'
  OBVIOUS
<1>1. TypeOK /\ TypeOK'
  BY NextTyped DEF OwnershipInv
<1>2. CASE \E t \in Threads : Claim(t)
  BY <1>1, <1>2, ClaimKeeps
<1>3. CASE \E t \in Threads : Deallocate(t)
  BY <1>1, <1>3, DeallocateKeeps
<1>4. CASE \E t \in Threads : DeallocateClear(t)
  BY <1>1, <1>4, ClearKeeps
<1>5. CASE \E t \in Threads : DeallocateFast(t)
  BY <1>1, <1>5, FastKeeps
<1>6. CASE Reset
  <2>1. NotHeldTwice' /\ ExclusiveOwnership'
    BY <1>6 DEF Reset, NotHeldTwice, ExclusiveOwnership, Owns
  <2>2. QED
    BY <1>1, <2>1 DEF OwnershipInv
<1>7. CASE UNCHANGED vars
  <2>1. Quiet
    BY <1>7 DEF vars, Quiet, Returning
  <2>2. QED
    BY <1>1, <2>1, QuietKeeps
<1>8. CASE Quiet
  BY <1>1, <1>8, QuietKeeps
<1>9. QED
  BY <1>1, <1>2, <1>3, <1>4, <1>5, <1>6, <1>7, <1>8, QuietSteps
  DEF Next, Call, Step

(* A slab has at most one owner at a time, and it is marked in use while   *)
(* it has one: the claim by CAS on inUse makes up for every stale or       *)
(* duplicate entry of the caches.                                          *)
THEOREM OwnershipExclusive == Spec => []ExclusiveOwnership
<1>1. OwnershipInv => ExclusiveOwnership
  BY DEF OwnershipInv
<1>2. QED
  BY InitOwnership, NextOwnership, <1>1, PTL DEF Spec

-----------------------------------------------------------------------------
(* Refinement: the owner of a slab, as SlabPool has it, is determined by   *)
(* Owns and inUse, and every step moves it as SlabPool allows.             *)
LEMMA OwnerUnique ==
  ASSUME ExclusiveOwnership, NEW t \in Threads, NEW s \in Slabs, Owns(t, s)
  PROVE  OwnerOf(s) = t
<1>1. \A u \in Threads : Owns(u, s) => u = t
  BY DEF ExclusiveOwnership
<1>2. QED
  BY <1>1 DEF OwnerOf

(* A slab nobody owns is free, or retired if it is still marked in use.    *)
LEMMA OwnerNone ==
  ASSUME NEW s \in Slabs, \A t \in Threads : ~Owns(t, s)
  PROVE  OwnerOf(s) = IF inUse[s] THEN "retired" ELSE "free"
  BY DEF OwnerOf

(* A slab whose owners and whose flag a step leaves alone keeps its owner. *)
LEMMA OwnerKept ==
  ASSUME ExclusiveOwnership, ExclusiveOwnership', NEW s \in Slabs,
         inUse'[s] = inUse[s],
         \A u \in Threads : Owns(u, s)' <=> Owns(u, s)
  PROVE  OwnerOf(s)' = OwnerOf(s)
<1>1. CASE \E t \in Threads : Owns(t, s)
  <2>1. PICK t \in Threads : Owns(t, s)
    BY <1>1
  <2>2. OwnerOf(s) = t
    BY <2>1, OwnerUnique
  <2>3. OwnerOf(s)' = t
    <3>1. Owns(t, s)'
      BY <2>1
    <3>2. \A u \in Threads : Owns(u, s)' => u = t
      BY <3>1 DEF ExclusiveOwnership
    <3>3. QED
      BY <3>1, <3>2 DEF OwnerOf
  <2>4. QED
    BY <2>2, <2>3
<1>2. CASE \A t \in Threads : ~Owns(t, s)
  <2>1. OwnerOf(s) = IF inUse[s] THEN "retired" ELSE "free"
    BY <1>2, OwnerNone
  <2>2. OwnerOf(s)' = IF inUse'[s] THEN "retired" ELSE "free"
    BY <1>2 DEF OwnerOf
  <2>3. QED
    BY <2>1, <2>2
<1>3. QED
  BY <1>1, <1>2

Owners == [s \in Slabs |-> OwnerOf(s)]

(* A step that changes the owner of one slab r only. *)
LEMMA OwnersUpdated ==
  ASSUME NEW r \in Slabs, NEW o, OwnerOf(r)' = o,
         \A s \in Slabs \ {r} : OwnerOf(s)' = OwnerOf(s)
  PROVE  Owners' = [Owners EXCEPT ![r] = o]
  BY DEF Owners

(* To SlabPool a quiet step is a stutter.                                  *)
LEMMA QuietStutters ==
  ASSUME ExclusiveOwnership, ExclusiveOwnership', Quiet
  PROVE  Owners' = Owners
<1>1. \A s \in Slabs : OwnerOf(s)' = OwnerOf(s)
  BY QuietOwns, OwnerKept DEF Quiet
<1>2. QED
  BY <1>1 DEF Owners

(* A successful claim. *)
LEMMA ClaimMaps ==
  ASSUME OwnershipInv, OwnershipInv', NEW t \in Threads, Claim(t),
         NEW r \in Slabs, r = slab[t], ~inUse[r]
  PROVE  Owners[r] = "free" /\ Owners' = [Owners EXCEPT ![r] = t]
<1>1. inUse' = [inUse EXCEPT ![r] = TRUE]
  BY ClaimEffect DEF OwnershipInv
<1>2. \A u \in Threads : ~Owns(u, r)
  BY DEF OwnershipInv, ExclusiveOwnership
<1>3. Owners[r] = "free"
  BY <1>2, OwnerNone DEF Owners
<1>4. \A u \in Threads : Owns(u, r)' <=> u = t
  BY <1>2, ClaimOwns DEF OwnershipInv
<1>5. OwnerOf(r)' = t
  BY <1>4 DEF OwnerOf
<1>6. ASSUME NEW s \in Slabs \ {r} PROVE OwnerOf(s)' = OwnerOf(s)
  <2>1. \A u \in Threads : Owns(u, s)' <=> Owns(u, s)
    BY ClaimOwns DEF OwnershipInv
  <2>2. inUse'[s] = inUse[s]
    BY <1>1 DEF OwnershipInv, TypeOK, PoolsOK
  <2>3. QED
    BY <2>1, <2>2, OwnerKept DEF OwnershipInv
<1>7. QED
  BY <1>3, <1>5, <1>6, OwnersUpdated

(* Deallocate: a stutter, or the slab is retired. *)
LEMMA DeallocateMaps ==
  ASSUME OwnershipInv, OwnershipInv', NEW t \in Threads, Deallocate(t)
  PROVE  \/ Owners' = Owners
         \/ \E r \in Slabs : Owners[r] = t /\ Owners' = [Owners EXCEPT ![r] = "retired"]
<1>1. PICK r \in held[t] :
           /\ r \in Slabs
           /\ inUse' = inUse
           /\ held' = [held EXCEPT ![t] = @ \ {r}]
           /\ ~Returning(t)
           /\ \/ GuardBroken(r) /\ ~Returning(t)'
              \/ ~GuardBroken(r) /\ Returning(t)' /\ slab'[t] = r
           /\ \A u \in Threads \ {t} : Undisturbed(u)
  BY DeallocateEffect DEF OwnershipInv
<1>2. Owns(t, r)
  BY <1>1 DEF Owns
<1>3. ASSUME NEW s \in Slabs \ {r} PROVE OwnerOf(s)' = OwnerOf(s)
  <2>1. \A u \in Threads : Owns(u, s)' <=> Owns(u, s)
    BY <1>1 DEF Owns, Returning, Undisturbed, OwnershipInv, TypeOK, PoolsOK
  <2>2. QED
    BY <1>1, <2>1, OwnerKept DEF OwnershipInv
<1>4. \A u \in Threads \ {t} : ~Owns(u, r) /\ ~Owns(u, r)'
  BY <1>1, <1>2
  DEF OwnershipInv, ExclusiveOwnership, Owns, Undisturbed, TypeOK, PoolsOK
<1>5. CASE Returning(t)'
  <2>1. Owns(t, r)'
    BY <1>1, <1>5 DEF Owns, Returning
  <2>2. OwnerOf(r)' = OwnerOf(r)
    BY <1>1, <1>2, <1>4, <2>1, OwnerKept DEF OwnershipInv
  <2>3. QED
    BY <1>3, <2>2 DEF Owners
<1>6. CASE ~Returning(t)'
  <2>1. ~Owns(t, r)'
    BY <1>1, <1>6 DEF Owns, Returning, OwnershipInv, TypeOK, PoolsOK
  <2>2. inUse'[r]
    BY <1>1, <1>2 DEF OwnershipInv, ExclusiveOwnership
  <2>3. OwnerOf(r)' = "retired"
    BY <1>4, <2>1, <2>2 DEF OwnerOf
  <2>4. Owners[r] = t
    BY <1>1, <1>2, OwnerUnique DEF Owners, OwnershipInv
  <2>5. QED
    BY <1>1, <1>3, <2>3, <2>4, OwnersUpdated
<1>7. QED
  BY <1>5, <1>6

(* DeallocateClear and DeallocateFast: the slab is free again. *)
LEMMA ClearMaps ==
  ASSUME OwnershipInv, OwnershipInv', NEW t \in Threads, DeallocateClear(t),
         NEW r \in Slabs, r = slab[t]
  PROVE  Owners[r] = t /\ Owners' = [Owners EXCEPT ![r] = "free"]
<1>1. inUse' = [inUse EXCEPT ![r] = FALSE]
  BY ClearEffect DEF OwnershipInv
<1>2. Owns(t, r)
  BY ClearEffect DEF Owns, Returning, OwnershipInv
<1>3. \A u \in Threads : ~Owns(u, r)'
  BY ClearOwns
<1>4. ~inUse'[r]
  BY <1>1 DEF OwnershipInv, TypeOK, PoolsOK
<1>5. OwnerOf(r)' = "free"
  BY <1>3, <1>4 DEF OwnerOf
<1>6. ASSUME NEW s \in Slabs \ {r} PROVE OwnerOf(s)' = OwnerOf(s)
  <2>1. \A u \in Threads : Owns(u, s)' <=> Owns(u, s)
    BY ClearOwns
  <2>2. inUse'[s] = inUse[s]
    BY <1>1 DEF OwnershipInv, TypeOK, PoolsOK
  <2>3. QED
    BY <2>1, <2>2, OwnerKept DEF OwnershipInv
<1>7. Owners[r] = t
  BY <1>2, OwnerUnique DEF Owners, OwnershipInv
<1>8. QED
  BY <1>5, <1>6, <1>7, OwnersUpdated

(* DeallocateFast gives the slab back at once.                             *)
LEMMA FastMaps ==
  ASSUME OwnershipInv, OwnershipInv', NEW t \in Threads, DeallocateFast(t)
  PROVE  \E r \in Slabs : Owners[r] = t /\ Owners' = [Owners EXCEPT ![r] = "free"]
<1>1. PICK r \in held[t] :
           /\ r \in Slabs
           /\ inUse' = [inUse EXCEPT ![r] = FALSE]
           /\ held' = [held EXCEPT ![t] = @ \ {r}]
           /\ ~Returning(t) /\ ~Returning(t)'
           /\ \A u \in Threads \ {t} : Undisturbed(u)
  BY FastEffect DEF OwnershipInv
<1>2. Owns(t, r)
  BY <1>1 DEF Owns
<1>3. ~inUse'[r]
  BY <1>1 DEF OwnershipInv, TypeOK, PoolsOK
<1>4. \A u \in Threads : ~Owns(u, r)'
  BY <1>1, <1>3 DEF OwnershipInv, ExclusiveOwnership
<1>5. OwnerOf(r)' = "free"
  BY <1>3, <1>4 DEF OwnerOf
<1>6. ASSUME NEW s \in Slabs \ {r} PROVE OwnerOf(s)' = OwnerOf(s)
  <2>1. \A u \in Threads : Owns(u, s)' <=> Owns(u, s)
    BY <1>1 DEF Owns, Returning, Undisturbed, OwnershipInv, TypeOK, PoolsOK
  <2>2. inUse'[s] = inUse[s]
    BY <1>1 DEF OwnershipInv, TypeOK, PoolsOK
  <2>3. QED
    BY <2>1, <2>2, OwnerKept DEF OwnershipInv
<1>7. Owners[r] = t
  BY <1>1, <1>2, OwnerUnique DEF Owners, OwnershipInv
<1>8. QED
  BY <1>1, <1>5, <1>6, <1>7, OwnersUpdated

(* Reset frees every slab.                                                 *)
LEMMA ResetMaps ==
  ASSUME Reset
  PROVE  Owners' = [s \in Slabs |-> "free"]
<1>1. ASSUME NEW s \in Slabs PROVE OwnerOf(s)' = "free"
  <2>1. \A u \in Threads : ~Owns(u, s)'
    BY DEF Reset, Owns
  <2>2. ~inUse'[s]
    BY DEF Reset
  <2>3. QED
    BY <2>1, <2>2 DEF OwnerOf
<1>2. QED
  BY <1>1 DEF Owners

(* New: every slab is free.                                                *)
LEMMA InitMaps == Init => Pool!Init
<1> SUFFICES ASSUME Init PROVE Pool!Init
  OBVIOUS
<1>1. \A s \in Slabs : OwnerOf(s) = "free"
  BY DEF Init, Owns, OwnerOf
<1>2. QED
  BY <1>1 DEF Pool!Init

(* Every step of the allocator is a step of SlabPool or a stutter. *)
LEMMA NextMaps ==
  OwnershipInv /\ OwnershipInv' /\ [Next]_vars => [Pool!Next]_Owners
<1> SUFFICES ASSUME OwnershipInv, OwnershipInv', [Next]_vars
             PROVE  Pool!Next \/ Owners' = Owners
  BY DEF Owners
<1> USE DEF Pool!Next, Pool!Claim, Pool!GiveBack, Pool!Retire, Pool!ResetAll
<1>1. ASSUME NEW t \in Threads, Claim(t) PROVE Pool!Next \/ Owners' = Owners
  <2>1. CASE inUse[slab[t]]
    BY <1>1, <2>1, ClaimQuiet, QuietStutters DEF OwnershipInv
  <2>2. CASE ~inUse[slab[t]]
    <3>1. PICK r \in Slabs : r = slab[t]
      BY <1>1, ClaimEffect DEF OwnershipInv
    <3>2. Owners[r] = "free" /\ Owners' = [Owners EXCEPT ![r] = t]
      BY <1>1, <2>2, <3>1, ClaimMaps
    <3>3. QED
      BY <3>2 DEF Owners
  <2>3. QED
    BY <2>1, <2>2
<1>2. ASSUME NEW t \in Threads, Deallocate(t) PROVE Pool!Next \/ Owners' = Owners
  BY <1>2, DeallocateMaps DEF Owners
<1>3. ASSUME NEW t \in Threads, DeallocateClear(t) PROVE Pool!Next \/ Owners' = Owners
  <2>1. PICK r \in Slabs : r = slab[t]
    BY <1>3, ClearEffect DEF OwnershipInv
  <2>2. Owners[r] = t /\ Owners' = [Owners EXCEPT ![r] = "free"]
    BY <1>3, <2>1, ClearMaps
  <2>3. QED
    BY <2>2 DEF Owners
<1>4. ASSUME NEW t \in Threads, DeallocateFast(t) PROVE Pool!Next \/ Owners' = Owners
  BY <1>4, FastMaps DEF Owners
<1>5. CASE Reset
  BY <1>5, ResetMaps DEF Owners
<1>6. CASE UNCHANGED vars
  BY <1>6, QuietStutters DEF vars, Quiet, Returning, OwnershipInv
<1>7. CASE Quiet
  BY <1>7, QuietStutters DEF OwnershipInv
<1>8. QED
  BY <1>1, <1>2, <1>3, <1>4, <1>5, <1>6, <1>7, QuietSteps
  DEF Next, Call, Step, OwnershipInv

(* The allocator implements SlabPool: clients see slabs pass from free to  *)
(* one owner and back by that owner's call, and nothing else.              *)
THEOREM Implementation == Spec => ImplementsPool
<1>1. Init => Pool!Init
  BY InitMaps
<1>2. OwnershipInv /\ OwnershipInv' /\ [Next]_vars
        => [Pool!Next]_([s \in Slabs |-> OwnerOf(s)])
  BY NextMaps DEF Owners
<1>3. QED
  BY InitOwnership, NextOwnership, <1>1, <1>2, PTL
  DEF Spec, ImplementsPool, Pool!Spec

-----------------------------------------------------------------------------
(* Without caches.  A slab is then in one place: on the free stack, in the *)
(* colored lists, in the hand of one call, or with its owner.              *)

HandLabels == {"claim_stacked", "claim_colored", "d_zero", "d_clear", "f_zero",
               "f_guard", "give_back", "colored_put"}

Uncached ==
  \A t \in Threads :
    /\ pc[t] \in HandLabels \cup {"idle", "stack_pop", "colored_get"}
    /\ pc[t] \in HandLabels <=> slab[t] # NoSlab

Stacked(s) == \E i \in 1 .. Len(freeStack) : freeStack[i] = s
Listed(s)  == colored[s] # 0

StackedOnce ==
  \A i, j \in 1 .. Len(freeStack) : freeStack[i] = freeStack[j] => i = j

InPoolOnce ==
  /\ StackedOnce
  /\ \A s \in Slabs : colored[s] <= 1
  /\ \A s \in Slabs : ~(Listed(s) /\ Stacked(s))

(* In the hand of t: in no pool, in no other hand, and in use only while   *)
(* Deallocate has not marked it available.                                 *)
InHandOnce ==
  \A t \in Threads : slab[t] # NoSlab =>
    /\ ~Listed(slab[t]) /\ ~Stacked(slab[t])
    /\ \A u \in Threads : slab[u] = slab[t] => u = t
    /\ inUse[slab[t]] => Returning(t)

OnePlace ==
  /\ InPoolOnce /\ InHandOnce
  /\ \A s \in Slabs : inUse[s] => ~Listed(s) /\ ~Stacked(s)

Placed == Uncached /\ OnePlace

PlacesInv == OwnershipInv /\ Placed

(* Whatever is not in use is cleared, unless its release is about to.      *)
Clean ==
  /\ \A s \in Slabs : Listed(s) \/ Stacked(s) => mem[s] = Zero
  /\ \A t \in Threads : pc[t] \in HandLabels \ {"d_zero", "f_zero"} => mem[slab[t]] = Zero

IsolationInv == PlacesInv /\ Clean /\ SecureIsolation

(* The steps of perCPUCache are never taken, and what the others change,   *)
(* with the locals that matter.                                            *)
LEMMA NoCacheSteps ==
  ASSUME Uncached, NEW t \in Threads
  PROVE  ~(GetLoad(t) \/ GetCas(t) \/ GetRead(t) \/ Refill(t) \/ RefillUndo(t)
           \/ PutLoad(t) \/ PutStore(t) \/ PutCas(t))
  BY DEF Uncached, HandLabels, GetLoad, GetCas, GetRead, Refill, RefillUndo, PutLoad,
         PutStore, PutCas

Kept == UNCHANGED <<inUse, freeStack, colored>>

Moves(t, label, s) ==
  pc' = [pc EXCEPT ![t] = label] /\ slab' = [slab EXCEPT ![t] = s]

(* A slab in hand is a slab. *)
LEMMA HandIsSlab ==
  ASSUME TypeOK, Uncached, NEW t \in Threads, slab[t] # NoSlab
  PROVE  slab[t] \in Slabs
  BY DEF TypeOK, Uncached, LocalsOK, HandLabels

(* A slab is not NoSlab. *)
LEMMA SlabIsNotNone == NoSlab \notin Slabs
  BY CapacityAssumption DEF Slabs, NoSlab, CapacityAssumption

(* An allocation begins, goes on to the next pool, or fails.               *)
LEMMA WalkEffect ==
  ASSUME TypeOK, Uncached, ~EnableCache, NEW t \in Threads,
         \/ BeginAllocate(t) \/ Exhausted(t) \/ (StackPop(t) /\ freeStack = << >>)
  PROVE  /\ Kept /\ held' = held /\ mem' = mem
         /\ slab[t] = NoSlab
         /\ \E l \in {"idle", "stack_pop", "colored_get"} : Moves(t, l, NoSlab)
<1> USE DEF Kept, Moves, shared, Goto, TypeOK, RegistersOK, Uncached, HandLabels
<1>1. CASE BeginAllocate(t)
  BY <1>1 DEF BeginAllocate
<1>2. CASE Exhausted(t)
  BY <1>2 DEF Exhausted, Return
<1>3. CASE (StackPop(t) /\ freeStack = << >>)
  BY <1>3 DEF StackPop
<1> QED
  BY <1>1, <1>2, <1>3

(* A slab is taken from the free stack. *)
LEMMA PopEffect ==
  ASSUME TypeOK, Uncached, NEW t \in Threads, StackPop(t), freeStack # << >>
  PROVE  /\ inUse' = inUse /\ colored' = colored /\ held' = held /\ mem' = mem
         /\ slab[t] = NoSlab /\ Moves(t, "claim_stacked", TopFree) /\ TopFree \in Slabs
         /\ PopFree
<1>1. TopFree \in Slabs
  BY PopTyped DEF TypeOK
<1> QED
  BY <1>1 DEF StackPop, Goto, Moves, Uncached, HandLabels

(* A slab is taken from the colored lists. *)
LEMMA GetEffect ==
  ASSUME TypeOK, Uncached, NEW t \in Threads, ColoredGet(t)
  PROVE  /\ inUse' = inUse /\ freeStack' = freeStack /\ held' = held /\ mem' = mem
         /\ slab[t] = NoSlab
         /\ \E s \in Slabs : /\ Listed(s) /\ colored' = [colored EXCEPT ![s] = @ - 1]
                             /\ Moves(t, "claim_colored", s)
<1>1. \A s \in Slabs : colored[s] > 0 => Listed(s)
  BY DEF Listed
<1> QED
  BY <1>1 DEF ColoredGet, Goto, Moves, Uncached, HandLabels

(* A slab in hand is claimed. *)
LEMMA TakeEffect ==
  ASSUME TypeOK, Uncached, NEW t \in Threads, Claim(t)
  PROVE  /\ freeStack' = freeStack /\ colored' = colored /\ mem' = mem
         /\ pc[t] \in {"claim_stacked", "claim_colored"}
         /\ \E l \in {"idle", "stack_pop", "colored_get"} : Moves(t, l, NoSlab)
  BY DEF Claim, Resume, Return, Goto, Moves, Uncached, HandLabels

(* Deallocate of a slab with broken guard pages. *)
LEMMA ReturnEffect ==
  ASSUME TypeOK, Uncached, NEW t \in Threads, Deallocate(t)
  PROVE  /\ Kept /\ mem' = mem /\ slab[t] = NoSlab
         /\ \E s \in held[t] :
              /\ s \in Slabs
              /\ held' = [held EXCEPT ![t] = @ \ {s}]
              /\ \/ GuardBroken(s) /\ UNCHANGED <<pc, slab>>
                 \/ \E l \in {"d_zero", "d_clear"} :
                      Moves(t, l, s) /\ (EnableSecure => l = "d_zero")
<1>1. held[t] \subseteq Slabs
  BY DEF TypeOK, PoolsOK
<1> QED
  BY <1>1 DEF Deallocate, Kept, Goto, Moves, shared, Uncached, HandLabels

(* A slab is cleared, before Deallocate marks it available or after        *)
(* DeallocateFast did, or its guard pages are read.                        *)
LEMMA ZeroEffect ==
  ASSUME TypeOK, Uncached, ~EnableCache, NEW t \in Threads,
         DeallocateZero(t) \/ FastZero(t) \/ FastGuard(t)
  PROVE  /\ Kept /\ held' = held
         /\ \/ pc[t] = "f_guard" /\ mem' = mem
            \/ pc[t] \in {"d_zero", "f_zero"} /\ mem' = [mem EXCEPT ![slab[t]] = Zero]
         /\ \/ Moves(t, "d_clear", slab[t]) /\ pc[t] = "d_zero"
            \/ \E l \in {"f_guard", "give_back"} :
                 Moves(t, l, slab[t]) /\ pc[t] \in {"f_zero", "f_guard"}
            \/ Moves(t, "idle", NoSlab) /\ GuardBroken(slab[t])
<1> USE DEF Kept, Moves, shared, locals, Goto, TypeOK, RegistersOK
<1>1. CASE DeallocateZero(t)
  BY <1>1 DEF DeallocateZero
<1>2. CASE FastZero(t)
  BY <1>2 DEF FastZero, PutBack
<1>3. CASE FastGuard(t)
  BY <1>3 DEF FastGuard, PutBack, Return
<1> QED
  BY <1>1, <1>2, <1>3

(* Deallocate marks its slab available. *)
LEMMA AvailableEffect ==
  ASSUME TypeOK, Uncached, ~EnableCache, NEW t \in Threads, DeallocateClear(t)
  PROVE  /\ freeStack' = freeStack /\ colored' = colored /\ held' = held /\ mem' = mem
         /\ pc[t] = "d_clear" /\ Moves(t, "give_back", slab[t])
         /\ inUse' = [inUse EXCEPT ![slab[t]] = FALSE]
  BY DEF DeallocateClear, PutBack, Moves, Goto, TypeOK, RegistersOK

(* DeallocateFast marks its slab available. *)
LEMMA ReleaseEffect ==
  ASSUME TypeOK, Uncached, ~EnableCache, NEW t \in Threads, DeallocateFast(t)
  PROVE  /\ freeStack' = freeStack /\ colored' = colored /\ mem' = mem
         /\ slab[t] = NoSlab
         /\ \E s \in held[t] :
              /\ s \in Slabs
              /\ held' = [held EXCEPT ![t] = @ \ {s}]
              /\ inUse' = [inUse EXCEPT ![s] = FALSE]
              /\ \E l \in {"f_zero", "f_guard", "give_back"} :
                   Moves(t, l, s) /\ (EnableSecure => l = "f_zero")
<1>1. held[t] \subseteq Slabs
  BY DEF TypeOK, PoolsOK
<1> QED
  BY <1>1 DEF DeallocateFast, PutBack, Goto, Moves, Uncached, HandLabels

(* A slab is given back: pushed, sent on to the colored lists, put there.  *)
LEMMA BackEffect ==
  ASSUME TypeOK, Uncached, NEW t \in Threads, GiveBack(t) \/ ColoredPut(t)
  PROVE  /\ inUse' = inUse /\ held' = held /\ mem' = mem
         /\ pc[t] \in {"give_back", "colored_put"}
         /\ \/ Moves(t, "idle", NoSlab) /\ freeStack' = Append(freeStack, slab[t])
                 /\ colored' = colored
            \/ Moves(t, "colored_put", slab[t]) /\ freeStack' = freeStack /\ colored' = colored
            \/ Moves(t, "idle", NoSlab) /\ freeStack' = freeStack
                 /\ colored' = [colored EXCEPT ![slab[t]] = @ + 1]
<1> USE DEF Moves, locals, Goto, TypeOK, RegistersOK
<1>1. CASE GiveBack(t)
  BY <1>1 DEF GiveBack, Return
<1>2. CASE ColoredPut(t)
  BY <1>2 DEF ColoredPut, Return
<1> QED
  BY <1>1, <1>2

-----------------------------------------------------------------------------
(* r is in no pool after the step. *)
Apart(r) == colored'[r] = 0 /\ \A i \in 1 .. Len(freeStack') : freeStack'[i] # r

(* The same of a slab by name. *)
LEMMA ApartNext == \A r : (~Listed(r)' /\ ~Stacked(r)') => Apart(r)
  BY DEF Apart, Listed, Stacked

(* The beginning of a sequence. *)
LEMMA Popped ==
  ASSUME NEW S, NEW q \in Seq(S), NEW n \in 0 .. Len(q)
  PROVE  /\ Len(SubSeq(q, 1, n)) = n
         /\ \A i \in 1 .. n : SubSeq(q, 1, n)[i] = q[i]
  OBVIOUS

(* Popping the free stack takes its top away from it. *)
LEMMA PopPlaces ==
  ASSUME TypeOK, StackedOnce, freeStack # << >>, PopFree
  PROVE  /\ StackedOnce' /\ Stacked(TopFree)
         /\ \A s : Stacked(s)' <=> Stacked(s) /\ s # TopFree
<1>1. /\ freeStack \in Seq(Slabs) /\ Len(freeStack) \in Nat \ {0}
      /\ Len(freeStack') = Len(freeStack) - 1
      /\ \A i \in 1 .. Len(freeStack) - 1 : freeStack'[i] = freeStack[i]
  <2>1. freeStack \in Seq(Slabs) /\ Len(freeStack) \in Nat \ {0}
    BY DEF TypeOK, PoolsOK
  <2>2. Len(freeStack) - 1 \in 0 .. Len(freeStack)
    BY <2>1
  <2>3. freeStack' = SubSeq(freeStack, 1, Len(freeStack) - 1)
    BY DEF PopFree
  <2>4. /\ Len(SubSeq(freeStack, 1, Len(freeStack) - 1)) = Len(freeStack) - 1
        /\ \A i \in 1 .. Len(freeStack) - 1 :
             SubSeq(freeStack, 1, Len(freeStack) - 1)[i] = freeStack[i]
    BY <2>1, <2>2, Popped, Zenon
  <2> QED
    BY <2>1, <2>3, <2>4
<1>2. StackedOnce'
  BY <1>1 DEF StackedOnce
<1>3. Stacked(TopFree)
  BY <1>1 DEF Stacked, TopFree
<1>4. ASSUME NEW s PROVE Stacked(s)' <=> Stacked(s) /\ s # TopFree
  <2>1. ASSUME Stacked(s)' PROVE Stacked(s) /\ s # TopFree
    BY <1>1, <2>1 DEF Stacked, StackedOnce, TopFree
  <2>2. ASSUME Stacked(s), s # TopFree PROVE Stacked(s)'
    BY <1>1, <2>2 DEF Stacked, TopFree
  <2> QED
    BY <2>1, <2>2
<1> QED
  BY <1>2, <1>3, <1>4

(* Pushing a slab that is not on the free stack puts it there once. *)
LEMMA PushPlaces ==
  ASSUME TypeOK, StackedOnce, NEW r \in Slabs, ~Stacked(r), freeStack' = Append(freeStack, r)
  PROVE  StackedOnce' /\ \A s : Stacked(s)' <=> Stacked(s) \/ s = r
<1>1. /\ freeStack \in Seq(Slabs) /\ Len(freeStack) \in Nat
      /\ Len(freeStack') = Len(freeStack) + 1
      /\ freeStack'[Len(freeStack) + 1] = r
      /\ \A i \in 1 .. Len(freeStack) : freeStack'[i] = freeStack[i]
  BY DEF TypeOK, PoolsOK
<1>2. StackedOnce'
  BY <1>1 DEF StackedOnce, Stacked
<1>3. ASSUME NEW s PROVE Stacked(s)' <=> Stacked(s) \/ s = r
  <2>1. ASSUME Stacked(s)' PROVE Stacked(s) \/ s = r
    BY <1>1, <2>1 DEF Stacked
  <2>2. ASSUME Stacked(s) PROVE Stacked(s)'
    BY <1>1, <2>2 DEF Stacked
  <2>3. ASSUME s = r PROVE Stacked(s)'
    BY <1>1, <2>3 DEF Stacked
  <2> QED
    BY <2>1, <2>2, <2>3
<1> QED
  BY <1>2, <1>3

(* A step that moves t only disturbs no hand, when it leaves what others   *)
(* have in hand out of the pools and does not take it.                     *)
LEMMA HandsKept ==
  ASSUME TypeOK, Uncached, InHandOnce, NEW t \in Threads,
         NEW l \in HandLabels \cup {"idle", "stack_pop", "colored_get"},
         NEW x \in Slabs \cup {NoSlab}, Moves(t, l, x), l \in HandLabels <=> x # NoSlab,
         \A u \in Threads \ {t} : slab[u] # NoSlab =>
           /\ slab[u] # x /\ Apart(slab[u])
           /\ inUse'[slab[u]] => inUse[slab[u]],
         x # NoSlab =>
           /\ Apart(x)
           /\ inUse'[x] => l \in {"d_zero", "d_clear"}
  PROVE  Uncached' /\ InHandOnce'
<1>1. /\ pc'[t] = l /\ slab'[t] = x
      /\ \A u \in Threads \ {t} : pc'[u] = pc[u] /\ slab'[u] = slab[u]
  BY DEF Moves, TypeOK, RegistersOK
<1>2. Uncached'
  BY <1>1 DEF Uncached
<1>3. ASSUME NEW u \in Threads, slab'[u] # NoSlab
      PROVE  /\ Apart(slab'[u])
             /\ \A w \in Threads : slab'[w] = slab'[u] => w = u
             /\ inUse'[slab'[u]] => Returning(u)'
  <2>1. CASE u = t
    BY <1>1, <1>3, <2>1 DEF Returning
  <2>2. CASE u # t
    BY <1>1, <1>3, <2>2 DEF Returning, InHandOnce
  <2> QED
    BY <2>1, <2>2
<1> QED
  BY <1>2, <1>3 DEF InHandOnce, Apart, Listed, Stacked, Returning

USE DEF PlacesInv, Placed, OnePlace, InPoolOnce

(* Steps that leave the pools and inUse as they are, and take no slab. *)
LEMMA StillPlaced ==
  ASSUME PlacesInv, NEW t \in Threads, Kept,
         NEW l \in HandLabels \cup {"idle", "stack_pop", "colored_get"},
         NEW x \in {NoSlab, slab[t]}, Moves(t, l, x), l \in HandLabels <=> x # NoSlab,
         x # NoSlab /\ Returning(t) => l \in {"d_zero", "d_clear"}
  PROVE  Placed'
<1>1. /\ \A s : Listed(s)' = Listed(s) /\ Stacked(s)' = Stacked(s)
      /\ StackedOnce' = StackedOnce
  BY DEF Kept, Listed, Stacked, StackedOnce
<1>2. x \in Slabs \cup {NoSlab}
  BY HandIsSlab DEF OwnershipInv
<1>3. /\ \A u \in Threads : slab[u] # NoSlab => Apart(slab[u])
      /\ \A u \in Threads \ {t} : slab[u] # NoSlab => slab[u] # x
      /\ x # NoSlab => x = slab[t] /\ (inUse[x] => Returning(t))
  BY <1>1, ApartNext DEF InHandOnce
<1>4. inUse' = inUse
  BY DEF Kept
<1>5. Uncached' /\ InHandOnce'
  BY <1>2, <1>3, <1>4, HandsKept DEF OwnershipInv
<1> QED
  BY <1>1, <1>5 DEF Kept

(* A slab leaves the free stack for the hand of an allocation. *)
LEMMA PopPlaced ==
  ASSUME PlacesInv, NEW t \in Threads, StackPop(t), freeStack # << >>
  PROVE  Placed'
<1>1. /\ inUse' = inUse /\ colored' = colored
      /\ Moves(t, "claim_stacked", TopFree) /\ TopFree \in Slabs /\ PopFree
  BY PopEffect DEF OwnershipInv
<1>2. /\ StackedOnce' /\ Stacked(TopFree)
      /\ \A s : Stacked(s)' <=> Stacked(s) /\ s # TopFree
  BY <1>1, PopPlaces DEF OwnershipInv
<1>3. \A s : Listed(s)' = Listed(s)
  BY <1>1 DEF Listed
<1>4. Uncached' /\ InHandOnce'
  <2>1. "claim_stacked" \in HandLabels /\ TopFree # NoSlab
    BY <1>1, SlabIsNotNone DEF HandLabels
  <2>2. Apart(TopFree) /\ ~inUse'[TopFree]
    BY <1>1, <1>2, <1>3, ApartNext
  <2>3. \A u \in Threads \ {t} : slab[u] # NoSlab =>
          /\ slab[u] # TopFree /\ Apart(slab[u])
          /\ inUse'[slab[u]] => inUse[slab[u]]
    BY <1>1, <1>2, <1>3, ApartNext DEF InHandOnce
  <2> QED
    BY <1>1, <2>1, <2>2, <2>3, HandsKept DEF OwnershipInv
<1> QED
  BY <1>1, <1>2, <1>3, <1>4

(* A slab leaves the colored lists for the hand of an allocation. *)
LEMMA GetPlaced ==
  ASSUME PlacesInv, NEW t \in Threads, ColoredGet(t)
  PROVE  Placed'
<1>1. PICK s \in Slabs :
        /\ inUse' = inUse /\ freeStack' = freeStack
        /\ Listed(s) /\ colored' = [colored EXCEPT ![s] = @ - 1]
        /\ Moves(t, "claim_colored", s)
  BY GetEffect DEF OwnershipInv
<1>2. \A r : Stacked(r)' = Stacked(r)
  BY <1>1 DEF Stacked
<1>3. colored \in [Slabs -> Nat]
  BY DEF OwnershipInv, TypeOK, PoolsOK
<1>4. /\ \A r \in Slabs : colored'[r] <= 1
      /\ ~Listed(s)' /\ \A r \in Slabs \ {s} : Listed(r)' = Listed(r)
  BY <1>1, <1>3 DEF Listed
<1>5. Uncached' /\ InHandOnce'
  <2>1. "claim_colored" \in HandLabels /\ s # NoSlab
    BY SlabIsNotNone DEF HandLabels
  <2>2. Apart(s) /\ ~inUse'[s]
    BY <1>1, <1>2, <1>4, ApartNext
  <2>3. ASSUME NEW u \in Threads \ {t}, slab[u] # NoSlab
        PROVE  /\ slab[u] # s /\ Apart(slab[u])
               /\ inUse'[slab[u]] => inUse[slab[u]]
    <3>1. slab[u] \in Slabs
      BY <2>3, HandIsSlab DEF OwnershipInv
    <3> QED
      BY <1>1, <1>2, <1>4, <2>3, <3>1, ApartNext DEF InHandOnce
  <2> QED
    BY <1>1, <1>4, <2>1, <2>2, <2>3, HandsKept DEF OwnershipInv
<1>6. StackedOnce'
  BY <1>1 DEF StackedOnce
<1> QED
  BY <1>1, <1>2, <1>4, <1>5, <1>6

(* A slab in hand is claimed; its claim cannot fail. *)
LEMMA TakePlaced ==
  ASSUME PlacesInv, NEW t \in Threads, Claim(t)
  PROVE  Placed'
<1>1. PICK l \in {"idle", "stack_pop", "colored_get"} :
        /\ freeStack' = freeStack /\ colored' = colored
        /\ pc[t] \in {"claim_stacked", "claim_colored"}
        /\ Moves(t, l, NoSlab)
  BY TakeEffect DEF OwnershipInv
<1>2. /\ slab[t] \in Slabs /\ inUse' = [inUse EXCEPT ![slab[t]] = TRUE]
      /\ inUse \in [Slabs -> BOOLEAN]
  BY ClaimEffect DEF OwnershipInv, TypeOK, PoolsOK
<1>3. /\ \A s : Stacked(s)' = Stacked(s) /\ Listed(s)' = Listed(s)
      /\ StackedOnce' = StackedOnce
  BY <1>1 DEF Stacked, Listed, StackedOnce
<1>4. slab[t] # NoSlab
  BY <1>2, SlabIsNotNone
<1>5. Uncached' /\ InHandOnce'
  <2>1. l \notin HandLabels
    BY DEF HandLabels
  <2>2. ASSUME NEW u \in Threads \ {t}, slab[u] # NoSlab
        PROVE  /\ slab[u] # NoSlab /\ Apart(slab[u])
               /\ inUse'[slab[u]] => inUse[slab[u]]
    <3>1. slab[u] \in Slabs
      BY <2>2, HandIsSlab DEF OwnershipInv
    <3> QED
      BY <1>2, <1>3, <1>4, <2>2, <3>1, ApartNext DEF InHandOnce
  <2> QED
    BY <1>1, <2>1, <2>2, HandsKept DEF OwnershipInv
<1>6. \A s \in Slabs : inUse'[s] => ~Listed(s) /\ ~Stacked(s)
  BY <1>2, <1>4 DEF InHandOnce
<1> QED
  BY <1>1, <1>3, <1>5, <1>6

(* Deallocate takes a slab from its owner into its hand. *)
LEMMA ReturnPlaced ==
  ASSUME PlacesInv, NEW t \in Threads, Deallocate(t)
  PROVE  Placed'
<1>1. PICK s \in held[t] :
        /\ Kept /\ s \in Slabs /\ slab[t] = NoSlab
        /\ \/ UNCHANGED <<pc, slab>>
           \/ \E l \in {"d_zero", "d_clear"} : Moves(t, l, s)
  BY ReturnEffect DEF OwnershipInv
<1>2. /\ \A r : Stacked(r)' = Stacked(r) /\ Listed(r)' = Listed(r)
      /\ StackedOnce' = StackedOnce /\ inUse' = inUse /\ colored' = colored
  BY <1>1 DEF Stacked, Listed, StackedOnce, Kept
<1>3. Uncached' /\ InHandOnce'
  <2>1. CASE UNCHANGED <<pc, slab>>
    BY <1>2, <2>1 DEF Uncached, InHandOnce, Returning
  <2>2. ASSUME NEW l \in {"d_zero", "d_clear"}, Moves(t, l, s) PROVE Uncached' /\ InHandOnce'
    <3>1. Owns(t, s)
      BY <1>1 DEF Owns
    <3>2. inUse[s] /\ \A u \in Threads \ {t} : ~Owns(u, s)
      BY <1>1, <3>1 DEF OwnershipInv, ExclusiveOwnership
    <3>3. \A u \in Threads \ {t} : slab[u] # NoSlab => slab[u] # s
      BY <3>2 DEF InHandOnce, Owns, Returning
    <3>4. l \in HandLabels /\ s # NoSlab
      BY <1>1, SlabIsNotNone DEF HandLabels
    <3>5. \A u \in Threads \ {t} : slab[u] # NoSlab =>
            /\ slab[u] # s /\ Apart(slab[u])
            /\ inUse'[slab[u]] => inUse[slab[u]]
      BY <1>2, <3>3, ApartNext DEF InHandOnce
    <3>6. Apart(s)
      BY <1>1, <1>2, <3>2, ApartNext
    <3> QED
      BY <1>1, <2>2, <3>4, <3>5, <3>6, HandsKept DEF OwnershipInv
  <2> QED
    BY <1>1, <2>1, <2>2
<1> QED
  BY <1>2, <1>3

(* A slab in hand is marked available. *)
LEMMA AvailablePlaced ==
  ASSUME PlacesInv, ~EnableCache, NEW t \in Threads, DeallocateClear(t)
  PROVE  Placed'
<1>1. /\ freeStack' = freeStack /\ colored' = colored
      /\ pc[t] = "d_clear" /\ Moves(t, "give_back", slab[t])
      /\ inUse' = [inUse EXCEPT ![slab[t]] = FALSE]
  BY AvailableEffect DEF OwnershipInv
<1>2. /\ slab[t] \in Slabs /\ slab[t] # NoSlab /\ inUse \in [Slabs -> BOOLEAN]
  BY ClearEffect, SlabIsNotNone DEF OwnershipInv, TypeOK, PoolsOK
<1>3. /\ \A s : Stacked(s)' = Stacked(s) /\ Listed(s)' = Listed(s)
      /\ StackedOnce' = StackedOnce
  BY <1>1 DEF Stacked, Listed, StackedOnce
<1>4. \A s \in Slabs : inUse'[s] => inUse[s] /\ s # slab[t]
  BY <1>1, <1>2
<1>5. Uncached' /\ InHandOnce'
  <2>1. "give_back" \in HandLabels
    BY DEF HandLabels
  <2>2. ASSUME NEW u \in Threads \ {t}, slab[u] # NoSlab
        PROVE  /\ slab[u] # slab[t] /\ Apart(slab[u])
               /\ inUse'[slab[u]] => inUse[slab[u]]
    <3>1. slab[u] \in Slabs
      BY <2>2, HandIsSlab DEF OwnershipInv
    <3> QED
      BY <1>2, <1>3, <1>4, <2>2, <3>1, ApartNext DEF InHandOnce
  <2>3. Apart(slab[t]) /\ ~inUse'[slab[t]]
    BY <1>2, <1>3, <1>4, ApartNext DEF InHandOnce
  <2> QED
    BY <1>1, <1>2, <2>1, <2>2, <2>3, HandsKept DEF OwnershipInv
<1> QED
  BY <1>1, <1>3, <1>4, <1>5

(* DeallocateFast does both at once. *)
LEMMA ReleasePlaced ==
  ASSUME PlacesInv, ~EnableCache, NEW t \in Threads, DeallocateFast(t)
  PROVE  Placed'
<1>1. PICK s \in held[t] :
        /\ freeStack' = freeStack /\ colored' = colored /\ s \in Slabs
        /\ inUse' = [inUse EXCEPT ![s] = FALSE]
        /\ \E l \in {"f_zero", "f_guard", "give_back"} : Moves(t, l, s)
  BY ReleaseEffect DEF OwnershipInv
<1>2. PICK l \in {"f_zero", "f_guard", "give_back"} : Moves(t, l, s)
  BY <1>1
<1>3. /\ \A r : Stacked(r)' = Stacked(r) /\ Listed(r)' = Listed(r)
      /\ StackedOnce' = StackedOnce
  BY <1>1 DEF Stacked, Listed, StackedOnce
<1>4. inUse \in [Slabs -> BOOLEAN]
  BY DEF OwnershipInv, TypeOK, PoolsOK
<1>5. \A r \in Slabs : inUse'[r] => inUse[r] /\ r # s
  BY <1>1, <1>4
<1>6. Owns(t, s)
  BY <1>1 DEF Owns
<1>7. inUse[s] /\ \A u \in Threads \ {t} : ~Owns(u, s)
  BY <1>1, <1>6 DEF OwnershipInv, ExclusiveOwnership
<1>8. Uncached' /\ InHandOnce'
  <2>1. l \in HandLabels /\ s # NoSlab
    BY <1>1, SlabIsNotNone DEF HandLabels
  <2>2. ASSUME NEW u \in Threads \ {t}, slab[u] # NoSlab
        PROVE  /\ slab[u] # s /\ Apart(slab[u])
               /\ inUse'[slab[u]] => inUse[slab[u]]
    <3>1. slab[u] \in Slabs
      BY <2>2, HandIsSlab DEF OwnershipInv
    <3>2. slab[u] # s
      BY <1>7, <2>2 DEF InHandOnce, Owns, Returning
    <3> QED
      BY <1>3, <1>5, <2>2, <3>1, <3>2, ApartNext DEF InHandOnce
  <2>3. Apart(s) /\ ~inUse'[s]
    BY <1>1, <1>3, <1>5, <1>7, ApartNext
  <2> QED
    BY <1>1, <1>2, <2>1, <2>2, <2>3, HandsKept DEF OwnershipInv
<1> QED
  BY <1>1, <1>3, <1>5, <1>8

(* A slab in hand goes to a pool. *)
LEMMA BackPlaced ==
  ASSUME PlacesInv, NEW t \in Threads, GiveBack(t) \/ ColoredPut(t)
  PROVE  Placed'
<1>1. /\ inUse' = inUse /\ pc[t] \in {"give_back", "colored_put"}
      /\ \/ Moves(t, "idle", NoSlab) /\ freeStack' = Append(freeStack, slab[t])
              /\ colored' = colored
         \/ Moves(t, "colored_put", slab[t]) /\ freeStack' = freeStack /\ colored' = colored
         \/ Moves(t, "idle", NoSlab) /\ freeStack' = freeStack
              /\ colored' = [colored EXCEPT ![slab[t]] = @ + 1]
  BY BackEffect DEF OwnershipInv
<1>2. slab[t] # NoSlab
  BY <1>1 DEF Uncached, HandLabels
<1>3. slab[t] \in Slabs
  BY <1>2, HandIsSlab DEF OwnershipInv
<1>4. /\ ~Listed(slab[t]) /\ ~Stacked(slab[t]) /\ ~inUse[slab[t]]
      /\ \A u \in Threads \ {t} : slab[u] # slab[t]
  BY <1>1, <1>2 DEF InHandOnce, Returning
<1>5. "idle" \notin HandLabels
  BY DEF HandLabels
<1>6. CASE Moves(t, "idle", NoSlab) /\ freeStack' = Append(freeStack, slab[t])
           /\ colored' = colored
  <2>1. StackedOnce' /\ \A s : Stacked(s)' <=> Stacked(s) \/ s = slab[t]
    BY <1>3, <1>4, <1>6, PushPlaces DEF OwnershipInv
  <2>2. \A s : Listed(s)' = Listed(s)
    BY <1>6 DEF Listed
  <2>3. \A u \in Threads \ {t} : slab[u] # NoSlab =>
          /\ slab[u] # NoSlab /\ Apart(slab[u])
          /\ inUse'[slab[u]] => inUse[slab[u]]
    BY <1>1, <1>4, <2>1, <2>2, ApartNext DEF InHandOnce
  <2>4. Uncached' /\ InHandOnce'
    BY <1>5, <1>6, <2>3, HandsKept DEF OwnershipInv
  <2> QED
    BY <1>1, <1>3, <1>4, <1>6, <2>1, <2>2, <2>4
<1>7. CASE Moves(t, "colored_put", slab[t]) /\ freeStack' = freeStack /\ colored' = colored
  <2>1. Kept /\ "colored_put" \in HandLabels /\ ~Returning(t)
    BY <1>1, <1>7 DEF Kept, HandLabels, Returning
  <2> QED
    BY <1>2, <1>7, <2>1, StillPlaced
<1>8. CASE Moves(t, "idle", NoSlab) /\ freeStack' = freeStack
           /\ colored' = [colored EXCEPT ![slab[t]] = @ + 1]
  <2>1. colored \in [Slabs -> Nat]
    BY DEF OwnershipInv, TypeOK, PoolsOK
  <2>2. \A s : Stacked(s)' = Stacked(s)
    BY <1>8 DEF Stacked
  <2>3. StackedOnce'
    BY <1>8 DEF StackedOnce
  <2>4. /\ \A s \in Slabs : colored'[s] <= 1
        /\ \A s \in Slabs \ {slab[t]} : Listed(s)' = Listed(s)
    BY <1>3, <1>4, <1>8, <2>1 DEF Listed
  <2>5. ASSUME NEW u \in Threads \ {t}, slab[u] # NoSlab
        PROVE  /\ slab[u] # NoSlab /\ Apart(slab[u])
               /\ inUse'[slab[u]] => inUse[slab[u]]
    <3>1. slab[u] \in Slabs
      BY <2>5, HandIsSlab DEF OwnershipInv
    <3> QED
      BY <1>1, <1>4, <2>2, <2>4, <2>5, <3>1, ApartNext DEF InHandOnce
  <2>6. Uncached' /\ InHandOnce'
    BY <1>5, <1>8, <2>5, HandsKept DEF OwnershipInv
  <2> QED
    BY <1>1, <1>3, <1>4, <2>2, <2>3, <2>4, <2>6
<1> QED
  BY <1>1, <1>6, <1>7, <1>8

(* New and Reset put every slab in the colored lists. *)
LEMMA ResetPlaced ==
  ASSUME PlacesInv, Reset
  PROVE  Placed'
<1>1. \A t \in Threads : slab[t] = NoSlab
  BY DEF Reset, Uncached, HandLabels
<1>2. /\ inUse' = [s \in Slabs |-> FALSE] /\ freeStack' = << >>
      /\ colored' = [s \in Slabs |-> 1] /\ pc' = pc /\ slab' = slab
  BY DEF Reset, locals
<1>3. StackedOnce' /\ \A s : ~Stacked(s)'
  BY <1>2 DEF StackedOnce, Stacked
<1> QED
  BY <1>1, <1>2, <1>3 DEF InHandOnce, Uncached

(* New. *)
LEMMA InitPlaces == Init => PlacesInv
<1> SUFFICES ASSUME Init PROVE PlacesInv
  OBVIOUS
<1>1. StackedOnce /\ \A s : ~Stacked(s)
  BY DEF Init, StackedOnce, Stacked
<1>2. Uncached /\ InHandOnce
  BY DEF Init, Uncached, HandLabels, InHandOnce
<1> QED
  BY <1>1, <1>2, InitOwnership DEF Init, Listed

(* An allocation begins, goes on, or fails. *)
LEMMA WalkPlaced ==
  ASSUME PlacesInv, ~EnableCache, NEW t \in Threads,
         \/ BeginAllocate(t) \/ Exhausted(t) \/ (StackPop(t) /\ freeStack = << >>)
  PROVE  Placed'
<1>1. PICK l \in {"idle", "stack_pop", "colored_get"} :
        Kept /\ slab[t] = NoSlab /\ Moves(t, l, NoSlab)
  BY WalkEffect DEF OwnershipInv
<1>2. l \notin HandLabels
  BY DEF HandLabels
<1> QED
  BY <1>1, <1>2, StillPlaced

(* A slab in hand is cleared or its guard pages are read. *)
LEMMA ZeroPlaced ==
  ASSUME PlacesInv, ~EnableCache, NEW t \in Threads,
         DeallocateZero(t) \/ FastZero(t) \/ FastGuard(t)
  PROVE  Placed'
<1>1. slab[t] # NoSlab
  BY DEF DeallocateZero, FastZero, FastGuard, Uncached, HandLabels
<1>2. PICK l \in HandLabels \cup {"idle"} : \E x \in {NoSlab, slab[t]} :
        /\ Kept /\ Moves(t, l, x) /\ (l \in HandLabels <=> x # NoSlab)
        /\ x # NoSlab /\ Returning(t) => l \in {"d_zero", "d_clear"}
  BY <1>1, ZeroEffect DEF OwnershipInv, Returning, HandLabels
<1> QED
  BY <1>2, StillPlaced

(* Without caches every slab stays in one place. *)
LEMMA NextPlaces ==
  ASSUME ~EnableCache, PlacesInv, [Next]_vars
  PROVE  PlacesInv'
<1>1. OwnershipInv'
  BY NextOwnership
<1>2. CASE UNCHANGED vars
  BY <1>1, <1>2 DEF vars, Uncached, InHandOnce, StackedOnce, Stacked, Listed, Returning
<1>3. CASE Reset
  BY <1>1, <1>3, ResetPlaced
<1>4. ASSUME NEW t \in Threads, Call(t) \/ Step(t) PROVE Placed'
  <2>1. (BeginAllocate(t) \/ Exhausted(t) \/ (StackPop(t) /\ freeStack = << >>)) => Placed'
    BY WalkPlaced
  <2>3. CASE StackPop(t)
    BY <2>1, <2>3, PopPlaced
  <2>4. CASE Write(t)
    BY <2>4 DEF Write, shared, locals, Uncached, InHandOnce, StackedOnce, Stacked, Listed,
                Returning
  <2> HIDE DEF Placed
  <2>11. CASE Call(t)
    BY <2>1, <2>4, <2>11, ReturnPlaced, ReleasePlaced DEF Call
  <2>12. CASE Step(t)
    BY <2>1, <2>3, <2>12, ZeroPlaced, GetPlaced, TakePlaced, AvailablePlaced, BackPlaced,
       NoCacheSteps DEF Step, PlacesInv, Placed
  <2> QED
    BY <1>4, <2>11, <2>12
<1> QED
  BY <1>1, <1>2, <1>3, <1>4 DEF Next

-----------------------------------------------------------------------------
(* Content.  What a step does to the memory of s: nothing, or the release  *)
(* of s clears it, or its holder writes.                                   *)
LEMMA ContentSteps ==
  ASSUME PlacesInv, ~EnableCache, NEW t \in Threads, Call(t) \/ Step(t), NEW s \in Slabs
  PROVE  \/ mem'[s] = mem[s]
         \/ mem'[s] = Zero /\ slab[t] = s /\ pc[t] \in {"d_zero", "f_zero"}
         \/ mem'[s] = t /\ s \in held[t] /\ pc[t] = "idle"
<1> DEFINE Goal == \/ mem'[s] = mem[s]
                   \/ mem'[s] = Zero /\ slab[t] = s /\ pc[t] \in {"d_zero", "f_zero"}
                   \/ mem'[s] = t /\ s \in held[t] /\ pc[t] = "idle"
<1>1. mem \in [Slabs -> Threads \cup {Zero}]
  BY DEF OwnershipInv, TypeOK, PoolsOK
<1>2. CASE Write(t)
  BY <1>1, <1>2 DEF Write
<1>3. CASE DeallocateZero(t) \/ FastZero(t) \/ FastGuard(t)
  BY <1>1, <1>3, ZeroEffect DEF OwnershipInv
<1>4. CASE mem' = mem
  BY <1>4
<1>5. BeginAllocate(t) \/ Deallocate(t) \/ DeallocateFast(t) => mem' = mem
  BY DEF BeginAllocate, Deallocate, DeallocateFast
<1>6. StackPop(t) \/ ColoredGet(t) \/ Exhausted(t) \/ Claim(t) => mem' = mem
  BY DEF StackPop, ColoredGet, Exhausted, Claim
<1>7. DeallocateClear(t) \/ GiveBack(t) \/ ColoredPut(t) => mem' = mem
  BY DEF DeallocateClear, GiveBack, ColoredPut
<1> HIDE DEF Goal
<1>8. Goal
  BY <1>2, <1>3, <1>4, <1>5, <1>6, <1>7, NoCacheSteps DEF Call, Step, Goal
<1> QED
  BY <1>8 DEF Goal

(* While t holds s, only t changes its content. *)
LEMMA HolderWrites ==
  ASSUME PlacesInv, ~EnableCache, NEW u \in Threads, Call(u) \/ Step(u),
         NEW t \in Threads, NEW s \in held[t]
  PROVE  s \in Slabs /\ mem'[s] \in {mem[s], t}
<1>1. s \in Slabs /\ Owns(t, s)
  BY DEF OwnershipInv, TypeOK, PoolsOK, Owns
<1>2. inUse[s] /\ \A w \in Threads \ {t} : ~Owns(w, s)
  BY <1>1 DEF OwnershipInv, ExclusiveOwnership
<1>3. CASE slab[u] = s /\ pc[u] \in {"d_zero", "f_zero"}
  <2>1. s # NoSlab
    BY <1>1, SlabIsNotNone
  <2>2. Returning(u)
    BY <1>2, <1>3, <2>1 DEF InHandOnce
  <2>3. Owns(u, s) /\ s \notin held[u]
    BY <1>3, <2>2 DEF Owns, Returning, OwnershipInv, NotHeldTwice
  <2> QED
    BY <1>2, <2>3
<1>4. s \in held[u] => u = t
  BY <1>2 DEF Owns
<1> QED
  BY <1>1, <1>3, <1>4, ContentSteps

(* Without caches the allocator leaves the memory of a held slab alone, in *)
(* every configuration: zeroSlabMemory runs on slabs nobody has.           *)
THEOREM DataKept == ASSUME ~EnableCache PROVE Spec => OwnerDataKept
<1>1. PlacesInv /\ [Next]_vars =>
        [\A t \in Threads : \A s \in held[t] \cap held'[t] : mem'[s] \in {mem[s], t}]_vars
  <2> SUFFICES ASSUME PlacesInv, Next, NEW t \in Threads, NEW s \in held[t] \cap held'[t]
               PROVE  mem'[s] \in {mem[s], t}
    OBVIOUS
  <2>1. CASE Reset
    BY <2>1 DEF Reset
  <2>2. ASSUME NEW u \in Threads, Call(u) \/ Step(u) PROVE mem'[s] \in {mem[s], t}
    BY <2>2, HolderWrites
  <2> QED
    BY <2>1, <2>2 DEF Next
<1>2. PlacesInv /\ [Next]_vars => PlacesInv'
  BY NextPlaces
<1> QED
  BY InitPlaces, <1>1, <1>2, PTL DEF Spec, OwnerDataKept

(* A slab in a pool after a step was in one, or its release was at its end.*)
LEMMA PoolSteps ==
  ASSUME PlacesInv, ~EnableCache, NEW t \in Threads, Call(t) \/ Step(t),
         NEW s \in Slabs, (Listed(s) \/ Stacked(s))'
  PROVE  \/ Listed(s) \/ Stacked(s)
         \/ slab[t] = s /\ pc[t] \in {"give_back", "colored_put"} /\ mem' = mem
<1> DEFINE Goal == \/ Listed(s) \/ Stacked(s)
                   \/ slab[t] = s /\ pc[t] \in {"give_back", "colored_put"} /\ mem' = mem
<1>1. CASE freeStack' = freeStack /\ colored' = colored
  BY <1>1 DEF Listed, Stacked
<1>2. CASE GiveBack(t) \/ ColoredPut(t)
  <2>1. freeStack \in Seq(Slabs) /\ colored \in [Slabs -> Nat]
    BY DEF OwnershipInv, TypeOK, PoolsOK
  <2>2. slab[t] \in Slabs
    BY <1>2 DEF GiveBack, ColoredPut, OwnershipInv, TypeOK, LocalsOK
  <2>3. ~Stacked(slab[t])
    BY <2>2, SlabIsNotNone DEF InHandOnce
  <2>4. mem' = mem /\ pc[t] \in {"give_back", "colored_put"}
    BY <1>2, BackEffect DEF OwnershipInv
  <2>5. \/ freeStack' = Append(freeStack, slab[t]) /\ colored' = colored
        \/ freeStack' = freeStack /\ colored' = colored
        \/ freeStack' = freeStack /\ colored' = [colored EXCEPT ![slab[t]] = @ + 1]
    BY <1>2, BackEffect DEF OwnershipInv
  <2>6. CASE freeStack' = Append(freeStack, slab[t]) /\ colored' = colored
    <3>1. Stacked(s)' <=> Stacked(s) \/ s = slab[t]
      BY <2>2, <2>3, <2>6, PushPlaces DEF OwnershipInv
    <3> QED
      BY <2>4, <2>6, <3>1 DEF Listed
  <2>7. CASE freeStack' = freeStack /\ colored' = [colored EXCEPT ![slab[t]] = @ + 1]
    <3>1. Stacked(s)' = Stacked(s)
      BY <2>7 DEF Stacked
    <3>2. s # slab[t] => Listed(s)' = Listed(s)
      BY <2>1, <2>7 DEF Listed
    <3> QED
      BY <2>4, <3>1, <3>2
  <2> QED
    BY <1>1, <2>5, <2>6, <2>7
<1>3. CASE StackPop(t)
  <2>1. CASE freeStack = << >>
    BY <1>3, <2>1 DEF StackPop, Listed, Stacked
  <2>2. CASE freeStack # << >>
    <3>1. colored' = colored /\ PopFree
      BY <1>3, <2>2, PopEffect DEF OwnershipInv
    <3>2. Stacked(s)' => Stacked(s)
      BY <2>2, <3>1, PopPlaces DEF OwnershipInv
    <3> QED
      BY <3>1, <3>2 DEF Listed
  <2> QED
    BY <2>1, <2>2
<1>4. CASE ColoredGet(t)
  <2>1. colored \in [Slabs -> Nat]
    BY DEF OwnershipInv, TypeOK, PoolsOK
  <2>2. PICK r \in Slabs : /\ freeStack' = freeStack /\ Listed(r)
                           /\ colored' = [colored EXCEPT ![r] = @ - 1]
    BY <1>4, GetEffect DEF OwnershipInv
  <2> QED
    BY <2>1, <2>2 DEF Listed, Stacked
<1>5. BeginAllocate(t) \/ Deallocate(t) \/ DeallocateFast(t) \/ Write(t)
        => freeStack' = freeStack /\ colored' = colored
  BY DEF BeginAllocate, Deallocate, DeallocateFast, Write, shared
<1>6. Exhausted(t) \/ Claim(t) \/ DeallocateZero(t) \/ DeallocateClear(t) \/ FastZero(t)
        \/ FastGuard(t) => freeStack' = freeStack /\ colored' = colored
  BY DEF Exhausted, Claim, DeallocateZero, DeallocateClear, FastZero, FastGuard, shared
<1> HIDE DEF Goal
<1>7. Goal
  BY <1>1, <1>2, <1>3, <1>4, <1>5, <1>6, NoCacheSteps DEF Call, Step, Goal
<1> QED
  BY <1>7 DEF Goal

ToBeCleared == {"d_zero", "f_zero"}

(* With WithSecure a slab in a hand after a step, where nothing will clear *)
(* it, was there before, or was just cleared, or comes from a pool.        *)
LEMMA HandSteps ==
  ASSUME PlacesInv, ~EnableCache, EnableSecure, NEW t \in Threads, Call(t) \/ Step(t),
         pc'[t] \in HandLabels \ ToBeCleared
  PROVE  \/ slab'[t] = slab[t] /\ pc[t] \in HandLabels \ ToBeCleared
         \/ slab'[t] \in Slabs /\ mem'[slab'[t]] = Zero
         \/ slab'[t] \in Slabs /\ mem' = mem /\ (Listed(slab'[t]) \/ Stacked(slab'[t]))
<1> DEFINE Goal == \/ slab'[t] = slab[t] /\ pc[t] \in HandLabels \ ToBeCleared
                   \/ slab'[t] \in Slabs /\ mem'[slab'[t]] = Zero
                   \/ slab'[t] \in Slabs /\ mem' = mem /\ (Listed(slab'[t]) \/ Stacked(slab'[t]))
<1> USE DEF ToBeCleared
<1>1. \A l, s : Moves(t, l, s) => pc'[t] = l /\ slab'[t] = s
  BY DEF Moves, OwnershipInv, TypeOK, RegistersOK
<1>2. (BeginAllocate(t) \/ Exhausted(t) \/ (StackPop(t) /\ freeStack = << >>)) => Goal
  <2> SUFFICES ASSUME BeginAllocate(t) \/ Exhausted(t) \/ (StackPop(t) /\ freeStack = << >>)
               PROVE  Goal
    OBVIOUS
  <2>1. PICK l \in {"idle", "stack_pop", "colored_get"} : Moves(t, l, NoSlab)
    BY WalkEffect DEF OwnershipInv
  <2> QED
    BY <1>1, <2>1 DEF HandLabels
<1>3. CASE StackPop(t) /\ freeStack # << >>
  <2>1. TopFree \in Slabs /\ PopFree /\ mem' = mem /\ Moves(t, "claim_stacked", TopFree)
    BY <1>3, PopEffect DEF OwnershipInv
  <2>2. Stacked(TopFree)
    BY <1>3, <2>1, PopPlaces DEF OwnershipInv
  <2> QED
    BY <1>1, <2>1, <2>2
<1>4. CASE ColoredGet(t)
  <2>1. PICK s \in Slabs : Listed(s) /\ mem' = mem /\ Moves(t, "claim_colored", s)
    BY <1>4, GetEffect DEF OwnershipInv
  <2> QED
    BY <1>1, <2>1
<1>5. CASE Claim(t)
  <2>1. PICK l \in {"idle", "stack_pop", "colored_get"} : Moves(t, l, NoSlab)
    BY <1>5, TakeEffect DEF OwnershipInv
  <2> QED
    BY <1>1, <2>1 DEF HandLabels
<1>6. CASE Deallocate(t)
  BY <1>1, <1>6, ReturnEffect DEF OwnershipInv, HandLabels, Uncached
<1>7. CASE DeallocateFast(t)
  BY <1>1, <1>7, ReleaseEffect DEF OwnershipInv
<1>8. CASE DeallocateZero(t) \/ FastZero(t) \/ FastGuard(t)
  <2>1. slab[t] \in Slabs /\ mem \in [Slabs -> Threads \cup {Zero}]
    BY <1>8 DEF DeallocateZero, FastZero, FastGuard, OwnershipInv, TypeOK, LocalsOK,
         PoolsOK
  <2>2. pc'[t] # "idle"
    BY DEF HandLabels
  <2>3. slab'[t] = slab[t]
    BY <1>1, <1>8, <2>2, ZeroEffect DEF OwnershipInv
  <2>4. \/ pc[t] = "f_guard"
        \/ mem' = [mem EXCEPT ![slab[t]] = Zero]
    BY <1>8, ZeroEffect DEF OwnershipInv
  <2> QED
    BY <2>1, <2>3, <2>4 DEF HandLabels
<1>9. CASE DeallocateClear(t)
  BY <1>1, <1>9, AvailableEffect DEF OwnershipInv, HandLabels
<1>10. CASE GiveBack(t) \/ ColoredPut(t)
  <2>1. pc'[t] # "idle"
    BY DEF HandLabels
  <2>2. slab'[t] = slab[t] /\ pc[t] \in {"give_back", "colored_put"}
    BY <1>1, <1>10, <2>1, BackEffect DEF OwnershipInv
  <2> QED
    BY <2>2 DEF HandLabels
<1>11. Write(t) => Goal
  BY DEF Write, locals, Uncached, HandLabels
<1> HIDE DEF Goal
<1>12. Goal
  BY <1>2, <1>3, <1>4, <1>5, <1>6, <1>7, <1>8, <1>9, <1>10, <1>11, NoCacheSteps
  DEF Call, Step, Goal
<1> QED
  BY <1>12 DEF Goal

(* A client comes to hold a slab only by claiming the one in its hand. *)
LEMMA HeldSteps ==
  ASSUME PlacesInv, NEW u \in Threads, Call(u) \/ Step(u),
         NEW t \in Threads, NEW s \in held'[t], s \notin held[t]
  PROVE  u = t /\ s = slab[t] /\ pc[t] \in Claims /\ mem' = mem
<1>1. held \in [Threads -> SUBSET Slabs]
  BY DEF OwnershipInv, TypeOK, PoolsOK
<1>2. CASE Claim(u)
  BY <1>1, <1>2 DEF Claim, ClaimSlab
<1>3. CASE Deallocate(u) \/ DeallocateFast(u)
  BY <1>1, <1>3 DEF Deallocate, DeallocateFast
<1>4. held' # held
  OBVIOUS
<1>5. ~(BeginAllocate(u) \/ Write(u) \/ StackPop(u) \/ ColoredGet(u) \/ Exhausted(u))
  BY <1>4 DEF BeginAllocate, Write, StackPop, ColoredGet, Exhausted
<1>6. ~(DeallocateZero(u) \/ DeallocateClear(u) \/ FastZero(u) \/ FastGuard(u)
         \/ GiveBack(u) \/ ColoredPut(u))
  BY <1>4
  DEF DeallocateZero, DeallocateClear, FastZero, FastGuard, GiveBack, ColoredPut
<1> QED
  BY <1>2, <1>3, <1>5, <1>6, NoCacheSteps DEF Call, Step

(* A step of u leaves the hand of every other goroutine alone. *)
LEMMA OtherHands ==
  ASSUME TypeOK, NEW u \in Threads, Call(u) \/ Step(u), NEW t \in Threads, t # u
  PROVE  pc'[t] = pc[t] /\ slab'[t] = slab[t]
<1> USE DEF TypeOK, RegistersOK, Goto, Return, PickCpu, PutBack, locals
<1>1. BeginAllocate(u) \/ Deallocate(u) \/ DeallocateFast(u) \/ Write(u)
        => pc'[t] = pc[t] /\ slab'[t] = slab[t]
  BY DEF BeginAllocate, Deallocate, DeallocateFast, Write
<1>2. GetLoad(u) \/ GetCas(u) \/ GetRead(u) \/ Refill(u) \/ RefillUndo(u)
        => pc'[t] = pc[t] /\ slab'[t] = slab[t]
  BY DEF GetLoad, GetCas, GetRead, Refill, RefillUndo
<1>3. PutLoad(u) \/ PutStore(u) \/ PutCas(u) => pc'[t] = pc[t] /\ slab'[t] = slab[t]
  BY DEF PutLoad, PutStore, PutCas
<1>4. StackPop(u) \/ ColoredGet(u) \/ Exhausted(u) \/ Claim(u)
        => pc'[t] = pc[t] /\ slab'[t] = slab[t]
  BY DEF StackPop, ColoredGet, Exhausted, Claim, Resume
<1>5. DeallocateZero(u) \/ DeallocateClear(u) \/ FastZero(u) \/ FastGuard(u)
        => pc'[t] = pc[t] /\ slab'[t] = slab[t]
  BY DEF DeallocateZero, DeallocateClear, FastZero, FastGuard
<1>6. GiveBack(u) \/ ColoredPut(u) => pc'[t] = pc[t] /\ slab'[t] = slab[t]
  BY DEF GiveBack, ColoredPut
<1> QED
  BY <1>1, <1>2, <1>3, <1>4, <1>5, <1>6 DEF Call, Step

(* What is cleared and nobody's stays cleared. *)
LEMMA StaysCleared ==
  ASSUME PlacesInv, ~EnableCache, NEW u \in Threads, Call(u) \/ Step(u),
         NEW s \in Slabs, mem[s] = Zero, s \notin held[u] \/ pc[u] # "idle"
  PROVE  mem'[s] = Zero
  BY ContentSteps

(* With WithSecure every slab not in use stays cleared, or about to be. *)
LEMMA NextClean ==
  ASSUME ~EnableCache, EnableSecure, IsolationInv, NEW u \in Threads, Call(u) \/ Step(u)
  PROVE  Clean'
<1> USE DEF IsolationInv
<1>1. ASSUME NEW s \in Slabs, (Listed(s) \/ Stacked(s))' PROVE mem'[s] = Zero
  <2>1. CASE Listed(s) \/ Stacked(s)
    <3>1. s \notin held[u]
      BY <2>1 DEF OwnershipInv, ExclusiveOwnership, Owns
    <3> QED
      BY <2>1, <3>1, StaysCleared DEF Clean
  <2>2. CASE slab[u] = s /\ pc[u] \in {"give_back", "colored_put"} /\ mem' = mem
    BY <2>2 DEF Clean, HandLabels
  <2> QED
    BY <1>1, <2>1, <2>2, PoolSteps
<1>2. ASSUME NEW t \in Threads, pc'[t] \in HandLabels \ ToBeCleared
      PROVE  mem'[slab'[t]] = Zero
  <2>1. CASE t # u
    <3>1. pc'[t] = pc[t] /\ slab'[t] = slab[t]
      BY <2>1, OtherHands DEF OwnershipInv
    <3>2. mem[slab[t]] = Zero /\ slab[t] # NoSlab
      BY <1>2, <3>1 DEF Clean, Uncached, ToBeCleared
    <3>3. slab[t] \in Slabs
      BY <3>2, HandIsSlab DEF OwnershipInv
    <3>4. slab[t] \notin held[u]
      <4> SUFFICES ASSUME slab[t] \in held[u] PROVE FALSE
        OBVIOUS
      <4>1. Owns(u, slab[t])
        BY DEF Owns
      <4>2. inUse[slab[t]] /\ ~Owns(t, slab[t])
        BY <2>1, <3>3, <4>1 DEF OwnershipInv, ExclusiveOwnership
      <4> QED
        BY <3>2, <4>2 DEF InHandOnce, Owns, Returning
    <3> QED
      BY <3>1, <3>2, <3>3, <3>4, StaysCleared
  <2>2. CASE t = u
    <3>1. CASE slab'[t] = slab[t] /\ pc[t] \in HandLabels \ ToBeCleared
      <4>1. mem[slab[t]] = Zero /\ slab[t] # NoSlab /\ pc[t] # "idle"
        BY <3>1 DEF Clean, Uncached, HandLabels, ToBeCleared
      <4>2. slab[t] \in Slabs
        BY <4>1, HandIsSlab DEF OwnershipInv
      <4> QED
        BY <2>2, <3>1, <4>1, <4>2, StaysCleared
    <3>2. CASE slab'[t] \in Slabs /\ mem' = mem /\ (Listed(slab'[t]) \/ Stacked(slab'[t]))
      BY <3>2 DEF Clean
    <3> QED
      BY <1>2, <2>2, <3>1, <3>2, HandSteps
  <2> QED
    BY <2>1, <2>2
<1> QED
  BY <1>1, <1>2 DEF Clean, ToBeCleared

(* Without caches, WithSecure isolates: no step shows the holder of a slab *)
(* what another goroutine wrote to it.                                     *)
LEMMA NextIsolation ==
  ASSUME ~EnableCache, EnableSecure, IsolationInv, [Next]_vars
  PROVE  IsolationInv'
<1> USE DEF IsolationInv
<1>1. PlacesInv'
  BY NextPlaces
<1>2. CASE UNCHANGED vars
  BY <1>1, <1>2 DEF vars, Clean, SecureIsolation, Listed, Stacked
<1>3. CASE Reset
  <2>1. Clean'
    <3>1. \A t \in Threads : pc'[t] = "idle"
      BY <1>3 DEF Reset
    <3>2. \A s \in Slabs : mem'[s] = Zero
      BY <1>3 DEF Reset
    <3> QED
      BY <3>1, <3>2 DEF Clean, HandLabels
  <2>2. SecureIsolation'
    BY <1>3 DEF Reset, SecureIsolation
  <2> QED
    BY <1>1, <2>1, <2>2
<1>4. ASSUME NEW u \in Threads, Call(u) \/ Step(u) PROVE Clean' /\ SecureIsolation'
  <2>1. Clean'
    BY <1>4, NextClean
  <2>2. ASSUME NEW t \in Threads, NEW s \in held'[t] PROVE mem'[s] \in {Zero, t}
    <3>1. CASE s \in held[t]
      BY <1>4, <3>1, HolderWrites DEF SecureIsolation
    <3>2. CASE s \notin held[t]
      <4>1. s = slab[t] /\ pc[t] \in Claims /\ mem' = mem
        BY <1>4, <2>2, <3>2, HeldSteps
      <4> QED
        BY <4>1 DEF Clean, HandLabels, Uncached
    <3> QED
      BY <3>1, <3>2
  <2> QED
    BY <2>1, <2>2 DEF SecureIsolation
<1> QED
  BY <1>1, <1>2, <1>3, <1>4 DEF Next

(* Without caches, with WithSecure: the holder of a slab sees zeroes or    *)
(* what it wrote itself, on the paths of Deallocate and DeallocateFast.    *)
THEOREM Isolated == ASSUME ~EnableCache, EnableSecure PROVE Spec => []SecureIsolation
<1>1. Init => IsolationInv
  <2> SUFFICES ASSUME Init PROVE IsolationInv
    OBVIOUS
  <2>1. Clean /\ SecureIsolation
    BY DEF Init, Clean, SecureIsolation, HandLabels
  <2> QED
    BY <2>1, InitPlaces DEF IsolationInv
<1>2. IsolationInv /\ [Next]_vars => IsolationInv'
  BY NextIsolation
<1>3. IsolationInv => SecureIsolation
  BY DEF IsolationInv
<1> QED
  BY <1>1, <1>2, <1>3, PTL DEF Spec

-----------------------------------------------------------------------------
(* Circulation.  A slab that is not in use is in a pool or in a hand, and  *)
(* a slab in use has an owner.  Guard checks may retire a slab, so here    *)
(* there are none; and the caches, if there are any, are not shared.  A    *)
(* slab may have several copies then, and nothing is said of how many: a   *)
(* copy is only dropped when its claim fails, and then its slab is in use. *)
Unshared ==
  EnableCache => \A t, u \in Threads : t # u => CpuOf[t] \cap CpuOf[u] = {}

(* With a cache of its own a goroutine is never overtaken between a load   *)
(* and a CAS, and never finds a cache full that was empty.                 *)
OwnCache(t) ==
  /\ pc[t] # "refill_undo"
  /\ pc[t] \in CpuLabels \cup {"claim_cached"} => EnableCache
  /\ pc[t] \in CpuLabels => cpu[t] \in CpuOf[t]
  /\ pc[t] \in {"get_cas", "put_store", "put_cas"} => cacheCount[cpu[t]] = cnt[t]
  /\ pc[t] = "get_read" => cacheCount[cpu[t]] = cnt[t] - 1
  /\ pc[t] = "refill" \/ (pc[t] = "put_load" /\ want[t] > 0) => cacheCount[cpu[t]] = 0
  /\ pc[t] = "put_cas" => cacheStack[cpu[t]][cnt[t]] = slab[t]
  /\ pc[t] \notin SlabLabels => slab[t] = NoSlab
  /\ pc[t] \in {"idle", "d_zero", "d_clear", "f_zero", "f_guard"} => want[t] = 0

(* The inductive invariant. *)
CirculationInv == OwnershipInv /\ (\A t \in Threads : OwnCache(t)) /\ NoLostSlab

(* A step of one goroutine leaves all locals of the others alone. *)
LEMMA OthersUndisturbed ==
  ASSUME TypeOK, NEW u \in Threads, Call(u) \/ Step(u), NEW t \in Threads, t # u
  PROVE  Undisturbed(t)
<1> USE DEF TypeOK, RegistersOK, Goto, Return, PickCpu, PutBack, locals, Undisturbed
<1>1. BeginAllocate(u) \/ Deallocate(u) \/ DeallocateFast(u) \/ Write(u) => Undisturbed(t)
  BY DEF BeginAllocate, Deallocate, DeallocateFast, Write
<1>2. GetLoad(u) \/ GetCas(u) \/ GetRead(u) \/ Refill(u) \/ RefillUndo(u) => Undisturbed(t)
  BY DEF GetLoad, GetCas, GetRead, Refill, RefillUndo
<1>3. PutLoad(u) \/ PutStore(u) \/ PutCas(u) => Undisturbed(t)
  BY DEF PutLoad, PutStore, PutCas
<1>4. StackPop(u) \/ ColoredGet(u) \/ Exhausted(u) \/ Claim(u) => Undisturbed(t)
  BY DEF StackPop, ColoredGet, Exhausted, Claim, Resume
<1>5. DeallocateZero(u) \/ DeallocateClear(u) \/ FastZero(u) \/ FastGuard(u)
        => Undisturbed(t)
  BY DEF DeallocateZero, DeallocateClear, FastZero, FastGuard
<1>6. GiveBack(u) \/ ColoredPut(u) => Undisturbed(t)
  BY DEF GiveBack, ColoredPut
<1> QED
  BY <1>1, <1>2, <1>3, <1>4, <1>5, <1>6 DEF Call, Step

(* Which steps write to a cache. *)
LEMMA CacheWriters ==
  ASSUME NEW t \in Threads, Call(t) \/ Step(t)
  PROVE  \/ GetCas(t) \/ PutStore(t) \/ PutCas(t)
         \/ cacheCount' = cacheCount /\ cacheStack' = cacheStack
<1> DEFINE Rest == cacheCount' = cacheCount /\ cacheStack' = cacheStack
<1> USE DEF shared
<1>1. BeginAllocate(t) \/ Deallocate(t) \/ DeallocateFast(t) \/ Write(t) => Rest
  BY DEF BeginAllocate, Deallocate, DeallocateFast, Write
<1>2. GetLoad(t) \/ GetRead(t) \/ Refill(t) \/ RefillUndo(t) \/ PutLoad(t) => Rest
  BY DEF GetLoad, GetRead, Refill, RefillUndo, PutLoad
<1>3. StackPop(t) \/ ColoredGet(t) \/ Exhausted(t) \/ Claim(t) => Rest
  BY DEF StackPop, ColoredGet, Exhausted, Claim
<1>4. DeallocateZero(t) \/ DeallocateClear(t) \/ FastZero(t) \/ FastGuard(t) => Rest
  BY DEF DeallocateZero, DeallocateClear, FastZero, FastGuard
<1>5. GiveBack(t) \/ ColoredPut(t) => Rest
  BY DEF GiveBack, ColoredPut
<1> HIDE DEF Rest
<1>6. GetCas(t) \/ PutStore(t) \/ PutCas(t) \/ Rest
  BY <1>1, <1>2, <1>3, <1>4, <1>5, Zenon DEF Call, Step
<1> QED
  BY <1>6 DEF Rest

(* A goroutine writes to the cache it has chosen and to no other. *)
LEMMA OtherCaches ==
  ASSUME TypeOK, NEW t \in Threads, Call(t) \/ Step(t), NEW c \in Caches,
         cacheCount'[c] # cacheCount[c] \/ cacheStack'[c] # cacheStack[c]
  PROVE  pc[t] \in CpuLabels /\ cpu[t] = c
<1> USE DEF TypeOK, PoolsOK
<1>1. CASE GetCas(t)
  BY <1>1 DEF GetCas
<1>2. CASE PutStore(t)
  BY <1>2 DEF PutStore
<1>3. CASE PutCas(t)
  BY <1>3 DEF PutCas
<1> QED
  BY <1>1, <1>2, <1>3, CacheWriters

(* So what another goroutine knows of its cache stays true. *)
LEMMA OtherOwnCache ==
  ASSUME Unshared, TypeOK, \A u \in Threads : OwnCache(u),
         NEW t \in Threads, Call(t) \/ Step(t), NEW u \in Threads, u # t
  PROVE  /\ OwnCache(u)'
         /\ pc[u] \in CpuLabels => cacheStack'[cpu[u]] = cacheStack[cpu[u]]
<1>1. Undisturbed(u)
  BY OthersUndisturbed
<1>2. pc[u] \in CpuLabels => /\ cacheStack'[cpu[u]] = cacheStack[cpu[u]]
                             /\ cacheCount'[cpu[u]] = cacheCount[cpu[u]]
  <2> SUFFICES ASSUME pc[u] \in CpuLabels
               PROVE  ~(\/ cacheCount'[cpu[u]] # cacheCount[cpu[u]]
                        \/ cacheStack'[cpu[u]] # cacheStack[cpu[u]])
    OBVIOUS
  <2>1. EnableCache /\ cpu[u] \in CpuOf[u] /\ cpu[u] \in Caches
    BY DEF OwnCache, TypeOK, LocalsOK
  <2>2. pc[t] \in CpuLabels => cpu[t] \in CpuOf[t]
    BY DEF OwnCache
  <2>3. ~(pc[t] \in CpuLabels /\ cpu[t] = cpu[u])
    BY <2>1, <2>2 DEF Unshared
  <2> QED
    BY <2>1, <2>3, OtherCaches
<1>3. OwnCache(u)
  OBVIOUS
<1>4. OwnCache(u)'
  BY <1>1, <1>2, <1>3 DEF OwnCache, Undisturbed
<1> QED
  BY <1>2, <1>4

(* What t has in hand. *)
Hand(t, s) ==
  \/ slab[t] = s
  \/ pc[t] = "get_read" /\ cacheStack[cpu[t]][cnt[t] - 1] = s

Cached(s) == \E c \in Caches : \E i \in 0 .. cacheCount[c] - 1 : cacheStack[c][i] = s

(* Where a step of t may look for s, and what it must not lose. *)
Within(t, s) == Cached(s) \/ Stacked(s) \/ colored[s] > 0 \/ Hand(t, s)

(* Popping the free stack, which may hold a slab twice. *)
LEMMA PopFinds ==
  ASSUME TypeOK, freeStack # << >>, PopFree, NEW s, Stacked(s), s # TopFree
  PROVE  Stacked(s)'
<1>1. freeStack \in Seq(Slabs) /\ Len(freeStack) \in Nat \ {0}
  BY DEF TypeOK, PoolsOK
<1>2. Len(freeStack) - 1 \in 0 .. Len(freeStack)
  BY <1>1
<1>3. /\ Len(freeStack') = Len(freeStack) - 1
      /\ \A i \in 1 .. Len(freeStack) - 1 : freeStack'[i] = freeStack[i]
  <2>1. /\ Len(SubSeq(freeStack, 1, Len(freeStack) - 1)) = Len(freeStack) - 1
        /\ \A i \in 1 .. Len(freeStack) - 1 :
             SubSeq(freeStack, 1, Len(freeStack) - 1)[i] = freeStack[i]
    BY <1>1, <1>2, Popped, Zenon
  <2> QED
    BY <2>1 DEF PopFree
<1> QED
  BY <1>1, <1>3 DEF Stacked, TopFree

(* Pushing on the free stack. *)
LEMMA PushFinds ==
  ASSUME TypeOK, NEW r \in Slabs, freeStack' = Append(freeStack, r),
         NEW s, Stacked(s) \/ s = r
  PROVE  Stacked(s)'
<1>1. /\ freeStack \in Seq(Slabs) /\ Len(freeStack) \in Nat
      /\ Len(freeStack') = Len(freeStack) + 1
      /\ freeStack'[Len(freeStack) + 1] = r
      /\ \A i \in 1 .. Len(freeStack) : freeStack'[i] = freeStack[i]
  BY DEF TypeOK, PoolsOK
<1> QED
  BY <1>1 DEF Stacked

(* The steps of perCPUCache: an element leaves the cache for the hand of   *)
(* t, or the hand for the cache, and is never overwritten while it counts. *)
LEMMA CacheFinds ==
  ASSUME TypeOK, NEW t \in Threads, OwnCache(t),
         \/ GetLoad(t) \/ GetCas(t) \/ GetRead(t) \/ Refill(t)
         \/ PutLoad(t) \/ PutStore(t) \/ PutCas(t),
         NEW s \in Slabs, Within(t, s)
  PROVE  Within(t, s)'
<1>1. /\ PoolsOK /\ RegistersOK /\ LocalsOK(t)
      /\ CacheSize \in Nat \ {0}
  BY CacheAssumption DEF TypeOK, CacheAssumption
<1>2. cpu[t] \in Caches /\ cnt[t] \in Nat /\ cacheCount \in [Caches -> Nat]
  BY <1>1 DEF RegistersOK, LocalsOK, PoolsOK, GetLoad, GetCas, GetRead, Refill, PutLoad,
     PutStore, PutCas
<1>3. cacheStack \in [Caches -> [0 .. CacheSize - 1 -> Slabs]]
  BY <1>1 DEF PoolsOK
<1>4. s # NoSlab
  BY SlabIsNotNone
<1>5. CASE GetLoad(t) \/ PutLoad(t)
  <2>1. UNCHANGED <<cacheCount, cacheStack, freeStack, colored, slab>> /\ pc[t] # "get_read"
    BY <1>5 DEF GetLoad, PutLoad, shared
  <2> QED
    BY <2>1 DEF Within, Cached, Stacked, Hand
<1>6. CASE GetCas(t)
  <2>1. /\ cacheCount[cpu[t]] = cnt[t] /\ pc[t] = "get_cas" /\ cnt[t] > 0
        /\ cacheCount' = [cacheCount EXCEPT ![cpu[t]] = cnt[t] - 1]
        /\ pc'[t] = "get_read"
        /\ UNCHANGED <<cacheStack, freeStack, colored, slab, cpu, cnt>>
    BY <1>1, <1>6 DEF OwnCache, LocalsOK, GetCas, Goto, RegistersOK, locals
  <2>2. ASSUME NEW c \in Caches, NEW i \in 0 .. cacheCount[c] - 1, cacheStack[c][i] = s
        PROVE  Cached(s)' \/ Hand(t, s)'
    <3>1. CASE c = cpu[t] /\ i = cnt[t] - 1
      BY <2>1, <2>2, <3>1 DEF Hand
    <3>2. CASE ~(c = cpu[t] /\ i = cnt[t] - 1)
      <4>1. i \in 0 .. cacheCount'[c] - 1
        BY <1>2, <2>1, <3>2
      <4> QED
        BY <2>1, <2>2, <4>1 DEF Cached
    <3> QED
      BY <3>1, <3>2
  <2>3. Stacked(s) => Stacked(s)'
    BY <2>1 DEF Stacked
  <2>4. Hand(t, s) => Hand(t, s)'
    BY <2>1 DEF Hand
  <2> QED
    BY <2>1, <2>2, <2>3, <2>4 DEF Within, Cached
<1>7. CASE GetRead(t)
  <2>1. /\ pc[t] = "get_read" /\ slab[t] = NoSlab
        /\ slab'[t] = cacheStack[cpu[t]][cnt[t] - 1]
        /\ UNCHANGED <<cacheCount, cacheStack, freeStack, colored>>
    BY <1>1, <1>7 DEF OwnCache, GetRead, RegistersOK, shared
  <2> QED
    BY <1>4, <2>1 DEF Within, Cached, Stacked, Hand
<1>8. CASE Refill(t)
  <2>1. /\ pc[t] = "refill" /\ slab[t] = NoSlab
        /\ UNCHANGED <<cacheCount, cacheStack, colored>>
    BY <1>8 DEF OwnCache, Refill
  <2>2. CASE freeStack = << >>
    <3>1. freeStack' = freeStack
      BY <1>8, <2>2 DEF Refill
    <3> QED
      BY <1>4, <2>1, <3>1 DEF Within, Cached, Stacked, Hand
  <2>3. CASE freeStack # << >>
    <3>1. PopFree /\ slab'[t] = TopFree
      BY <1>1, <1>8, <2>3 DEF Refill, RegistersOK
    <3>2. Stacked(s) => Stacked(s)' \/ s = slab'[t]
      BY <2>3, <3>1, PopFinds
    <3> QED
      BY <1>4, <2>1, <3>2 DEF Within, Cached, Hand
  <2> QED
    BY <2>2, <2>3
<1>9. CASE PutStore(t)
  <2>1. /\ pc[t] = "put_store" /\ cacheCount[cpu[t]] = cnt[t]
        /\ cacheStack' = [cacheStack EXCEPT ![cpu[t]][cnt[t]] = slab[t]]
        /\ UNCHANGED <<cacheCount, freeStack, colored, slab>>
    BY <1>9 DEF OwnCache, PutStore, locals
  <2>2. ASSUME NEW c \in Caches, NEW i \in 0 .. cacheCount[c] - 1, cacheStack[c][i] = s
        PROVE  cacheStack'[c][i] = s
    <3>1. i # cnt[t] \/ c # cpu[t]
      BY <1>2, <2>1
    <3> QED
      BY <1>2, <1>3, <2>1, <2>2, <3>1
  <2>3. Cached(s) => Cached(s)'
    BY <2>1, <2>2 DEF Cached
  <2> QED
    BY <2>1, <2>3 DEF Within, Stacked, Hand
<1>10. CASE PutCas(t)
  <2>1. /\ pc[t] = "put_cas" /\ cacheCount[cpu[t]] = cnt[t]
        /\ cacheStack[cpu[t]][cnt[t]] = slab[t]
        /\ cacheCount' = [cacheCount EXCEPT ![cpu[t]] = cnt[t] + 1]
        /\ UNCHANGED <<cacheStack, freeStack, colored>>
    BY <1>10 DEF OwnCache, PutCas
  <2>2. cacheCount'[cpu[t]] = cnt[t] + 1
        /\ \A c \in Caches : c # cpu[t] => cacheCount'[c] = cacheCount[c]
    BY <1>2, <2>1
  <2>3. Hand(t, s) => Cached(s)'
    <3>1. cnt[t] \in 0 .. cacheCount'[cpu[t]] - 1
      BY <1>2, <2>2
    <3> QED
      BY <1>2, <2>1, <3>1 DEF Hand, Cached
  <2>4. Cached(s) => Cached(s)'
    <3>1. ASSUME NEW c \in Caches, NEW i \in 0 .. cacheCount[c] - 1
          PROVE  i \in 0 .. cacheCount'[c] - 1
      BY <1>2, <2>1, <2>2
    <3> QED
      BY <2>1, <3>1 DEF Cached
  <2> QED
    BY <2>1, <2>3, <2>4 DEF Within, Stacked
<1> QED
  BY <1>5, <1>6, <1>7, <1>8, <1>9, <1>10

(* The other steps of a call, for a slab that is not in use after them. *)
LEMMA StepFinds ==
  ASSUME TypeOK, ~EnableGuard, NEW t \in Threads, OwnCache(t), Call(t) \/ Step(t),
         NEW s \in Slabs, Within(t, s), ~inUse'[s]
  PROVE  Within(t, s)'
<1>1. PoolsOK /\ RegistersOK /\ LocalsOK(t) /\ s # NoSlab
  BY SlabIsNotNone DEF TypeOK
<1>2. UNCHANGED <<cacheCount, cacheStack>> /\ pc[t] # "get_read" => (Cached(s) => Cached(s)')
  BY DEF Cached
<1> DEFINE Goal == Within(t, s)'
<1>3. CASE BeginAllocate(t) \/ Deallocate(t) \/ DeallocateFast(t) \/ Write(t) \/ Exhausted(t)
  <2>1. /\ UNCHANGED <<cacheCount, cacheStack, freeStack, colored>>
        /\ slab[t] = NoSlab /\ pc[t] # "get_read"
    BY <1>3 DEF BeginAllocate, Deallocate, DeallocateFast, Write, Exhausted, shared,
         OwnCache
  <2> QED
    BY <1>1, <2>1 DEF Within, Cached, Stacked, Hand
<1>4. CASE DeallocateZero(t) \/ DeallocateClear(t) \/ FastZero(t) \/ FastGuard(t)
  <2>1. /\ UNCHANGED <<cacheCount, cacheStack, freeStack, colored, slab>>
        /\ pc[t] # "get_read"
    BY <1>4 DEF DeallocateZero, DeallocateClear, FastZero, FastGuard, GuardBroken,
         shared, locals
  <2> QED
    BY <2>1 DEF Within, Cached, Stacked, Hand
<1>5. CASE StackPop(t)
  <2>1. UNCHANGED <<cacheCount, cacheStack, colored>> /\ slab[t] = NoSlab /\ pc[t] # "get_read"
    BY <1>5 DEF StackPop, OwnCache
  <2>2. CASE freeStack = << >>
    <3>1. freeStack' = freeStack
      BY <1>5, <2>2 DEF StackPop
    <3> QED
      BY <1>1, <2>1, <3>1 DEF Within, Cached, Stacked, Hand
  <2>3. CASE freeStack # << >>
    <3>1. PopFree /\ slab'[t] = TopFree
      BY <1>1, <1>5, <2>3 DEF StackPop, RegistersOK
    <3>2. Stacked(s) => Stacked(s)' \/ s = slab'[t]
      BY <2>3, <3>1, PopFinds
    <3> QED
      BY <1>1, <2>1, <3>2 DEF Within, Cached, Hand
  <2> QED
    BY <2>2, <2>3
<1>6. CASE ColoredGet(t)
  <2>1. PICK r \in Slabs : colored' = [colored EXCEPT ![r] = @ - 1] /\ slab'[t] = r
    BY <1>1, <1>6 DEF ColoredGet, RegistersOK
  <2>2. /\ UNCHANGED <<cacheCount, cacheStack, freeStack>> /\ slab[t] = NoSlab
        /\ pc[t] # "get_read" /\ colored \in [Slabs -> Nat]
    BY <1>1, <1>6 DEF ColoredGet, OwnCache, PoolsOK
  <2> QED
    BY <1>1, <2>1, <2>2 DEF Within, Cached, Stacked, Hand
<1>7. CASE Claim(t)
  <2>1. /\ UNCHANGED <<cacheCount, cacheStack, freeStack, colored>>
        /\ pc[t] # "get_read" /\ s # slab[t]
    BY <1>1, <1>7, ClaimEffect DEF Claim, PoolsOK
  <2> QED
    BY <2>1 DEF Within, Cached, Stacked, Hand
<1>8. CASE GiveBack(t)
  <2>1. /\ UNCHANGED <<cacheCount, cacheStack, colored>> /\ slab[t] \in Slabs
        /\ pc[t] # "get_read"
    BY <1>1, <1>8 DEF GiveBack, LocalsOK
  <2>2. CASE Len(freeStack) < Capacity
    <3>1. freeStack' = Append(freeStack, slab[t])
      BY <1>8, <2>2 DEF GiveBack
    <3>2. Stacked(s) \/ s = slab[t] => Stacked(s)'
      BY <2>1, <3>1, PushFinds
    <3> QED
      BY <2>1, <3>2 DEF Within, Cached, Hand
  <2>3. CASE ~(Len(freeStack) < Capacity)
    <3>1. UNCHANGED <<freeStack, slab>>
      BY <1>8, <2>3 DEF GiveBack, locals
    <3> QED
      BY <2>1, <3>1 DEF Within, Cached, Stacked, Hand
  <2> QED
    BY <2>2, <2>3
<1>9. CASE ColoredPut(t)
  <2>1. /\ UNCHANGED <<cacheCount, cacheStack, freeStack>> /\ slab[t] \in Slabs
        /\ pc[t] # "get_read" /\ colored \in [Slabs -> Nat]
        /\ colored' = [colored EXCEPT ![slab[t]] = @ + 1]
    BY <1>1, <1>9 DEF ColoredPut, LocalsOK, PoolsOK
  <2> QED
    BY <2>1 DEF Within, Cached, Stacked, Hand
<1>10. ~RefillUndo(t)
  BY DEF OwnCache, RefillUndo
<1> HIDE DEF Goal
<1>11. Goal
  BY <1>3, <1>4, <1>5, <1>6, <1>7, <1>8, <1>9, <1>10, CacheFinds DEF Call, Step, Goal
<1> QED
  BY <1>11 DEF Goal

(* A slab that a step of t marks available is in the hand of t. *)
LEMMA FreedFound ==
  ASSUME OwnershipInv, NEW t \in Threads, Call(t) \/ Step(t),
         NEW s \in Slabs, inUse[s], ~inUse'[s]
  PROVE  slab'[t] = s
<1>1. TypeOK /\ inUse \in [Slabs -> BOOLEAN] /\ slab \in [Threads -> Slabs \cup {NoSlab}]
  BY DEF OwnershipInv, TypeOK, PoolsOK, RegistersOK
<1>2. ~Quiet /\ ~Claim(t) /\ ~Deallocate(t)
  BY <1>1, ClaimEffect, DeallocateEffect DEF Quiet
<1>3. CASE DeallocateClear(t)
  <2>1. slab' = slab /\ inUse' = [inUse EXCEPT ![slab[t]] = FALSE]
    BY <1>3 DEF DeallocateClear
  <2> QED
    BY <1>1, <2>1
<1>4. CASE DeallocateFast(t)
  <2>1. PICK r \in held[t] :
          inUse' = [inUse EXCEPT ![r] = FALSE] /\ slab' = [slab EXCEPT ![t] = r]
    BY <1>4 DEF DeallocateFast
  <2> QED
    BY <1>1, <2>1
<1> QED
  BY <1>1, <1>2, <1>3, <1>4, QuietSteps DEF Call, Step

(* What a goroutine knows of its own cache after a step of its own. *)
LEMMA OwnCacheKept ==
  ASSUME TypeOK, NEW t \in Threads, OwnCache(t), Call(t) \/ Step(t)
  PROVE  OwnCache(t)'
<1>1. PoolsOK /\ RegistersOK /\ LocalsOK(t) /\ CacheSize \in Nat \ {0} /\ CpuOf[t] \subseteq Caches
  BY CacheAssumption DEF TypeOK, CacheAssumption
<1>2. /\ pc \in [Threads -> Labels] /\ slab \in [Threads -> Slabs \cup {NoSlab}]
      /\ cpu \in [Threads -> Caches \cup {NoCpu}] /\ cnt \in [Threads -> 0 .. CacheSize]
      /\ want \in [Threads -> 0 .. MaxBatch]
  BY <1>1 DEF RegistersOK
<1>3. /\ cacheCount \in [Caches -> 0 .. CacheSize]
      /\ cacheStack \in [Caches -> [0 .. CacheSize - 1 -> Slabs]]
  BY <1>1 DEF PoolsOK
<1>4. MaxBatch \in Nat
  BY BoundAssumption DEF BoundAssumption
<1> DEFINE Goal == OwnCache(t)'
<1> USE DEF OwnCache, Goto
<1>5. CASE BeginAllocate(t)
  <2>1. slab' = slab /\ slab[t] = NoSlab
    BY <1>5 DEF BeginAllocate
  <2>2. CASE EnableCache
    BY <1>2, <1>5, <2>1, <2>2 DEF BeginAllocate, PickCpu
  <2>3. CASE ~EnableCache
    BY <1>2, <1>5, <2>1, <2>3 DEF BeginAllocate
  <2> QED
    BY <2>2, <2>3
<1>6. CASE GetLoad(t)
  BY <1>1, <1>2, <1>3, <1>6 DEF GetLoad, LocalsOK, shared
<1>7. CASE GetCas(t)
  <2>1. cpu[t] \in Caches /\ cacheCount[cpu[t]] = cnt[t]
    BY <1>1, <1>7 DEF GetCas, LocalsOK
  <2> QED
    BY <1>1, <1>2, <1>3, <1>7, <2>1 DEF GetCas, locals
<1>8. CASE GetRead(t)
  BY <1>1, <1>2, <1>8 DEF GetRead, shared
<1>9. CASE Refill(t)
  BY <1>1, <1>2, <1>9 DEF Refill
<1>10. ~RefillUndo(t)
  BY DEF RefillUndo
<1>11. CASE StackPop(t) \/ ColoredGet(t) \/ Exhausted(t)
  BY <1>1, <1>2, <1>11 DEF StackPop, ColoredGet, Exhausted, Return
<1>12. CASE Claim(t)
  <2>1. CASE ~inUse[slab[t]] /\ want[t] = 1
    BY <1>2, <1>12, <2>1 DEF Claim, Return
  <2>2. CASE ~(~inUse[slab[t]] /\ want[t] = 1)
    <3>1. Resume(t) /\ slab' = [slab EXCEPT ![t] = NoSlab]
      BY <1>12, <2>2 DEF Claim
    <3>2. CASE pc[t] = "claim_cached"
      BY <1>2, <3>1, <3>2 DEF Resume, PickCpu
    <3>3. CASE pc[t] = "claim_stacked"
      BY <1>2, <3>1, <3>3 DEF Resume
    <3>4. CASE pc[t] = "claim_colored"
      BY <1>2, <3>1, <3>4 DEF Resume
    <3> QED
      BY <1>12, <3>2, <3>3, <3>4 DEF Claim
  <2> QED
    BY <2>1, <2>2
<1>13. CASE PutLoad(t)
  <2>1. cpu[t] \in Caches
    BY <1>1, <1>13 DEF PutLoad, LocalsOK
  <2>2. CASE CacheFull(cpu[t])
    <3>1. ~(want[t] > 0)
      BY <1>1, <1>13, <2>2 DEF CacheFull, PutLoad
    <3>2. pc'[t] = "give_back"
      BY <1>2, <1>13, <2>2, <3>1 DEF PutLoad
    <3> QED
      BY <3>2
  <2>3. CASE ~CacheFull(cpu[t])
    BY <1>2, <1>13, <2>3 DEF PutLoad, shared
  <2> QED
    BY <2>2, <2>3
<1>14. CASE PutStore(t)
  <2>1. cpu[t] \in Caches /\ cnt[t] \in 0 .. CacheSize - 1
    BY <1>1, <1>2, <1>14 DEF PutStore, LocalsOK
  <2>2. cacheStack'[cpu[t]][cnt[t]] = slab[t]
    BY <1>3, <1>14, <2>1 DEF PutStore
  <2> QED
    BY <1>2, <1>14, <2>2 DEF PutStore, locals
<1>15. CASE PutCas(t)
  BY <1>2, <1>15 DEF PutCas, Return, locals
<1>16. CASE Deallocate(t) \/ DeallocateZero(t)
  BY <1>2, <1>16 DEF Deallocate, DeallocateZero, locals
<1>17. want[t] = 0 /\ PutBack(t) /\ want' = want => Goal
  <2> SUFFICES ASSUME want[t] = 0, PutBack(t), want' = want PROVE Goal
    OBVIOUS
  <2>1. CASE EnableCache
    BY <1>1, <1>2, <2>1 DEF PutBack, PickCpu
  <2>2. CASE ~EnableCache
    BY <1>1, <1>2, <2>2 DEF PutBack
  <2> QED
    BY <2>1, <2>2
<1>18. CASE DeallocateClear(t)
  <2>1. want[t] = 0 /\ PutBack(t) /\ want' = want
    BY <1>18 DEF DeallocateClear
  <2> QED
    BY <1>17, <2>1
<1>22. CASE DeallocateFast(t)
  <2>1. want[t] = 0 /\ want' = want
    BY <1>22 DEF DeallocateFast
  <2>2. pc'[t] = "f_zero" \/ pc'[t] = "f_guard" \/ PutBack(t)
    BY <1>2, <1>22 DEF DeallocateFast
  <2> QED
    BY <1>2, <1>17, <2>1, <2>2
<1>23. CASE FastZero(t)
  <2>1. want[t] = 0 /\ want' = want
    BY <1>23 DEF FastZero
  <2>2. pc'[t] = "f_guard" \/ PutBack(t)
    BY <1>2, <1>23 DEF FastZero
  <2> QED
    BY <1>2, <1>17, <2>1, <2>2
<1>24. CASE FastGuard(t)
  <2>1. CASE GuardBroken(slab[t])
    BY <1>2, <1>24, <2>1 DEF FastGuard, Return
  <2>2. CASE ~GuardBroken(slab[t])
    <3>1. want[t] = 0 /\ want' = want /\ PutBack(t)
      BY <1>24, <2>2 DEF FastGuard
    <3> QED
      BY <1>17, <3>1
  <2> QED
    BY <2>1, <2>2
<1>19. CASE GiveBack(t) \/ ColoredPut(t)
  BY <1>2, <1>19 DEF GiveBack, ColoredPut, Return
<1>20. CASE Write(t)
  BY <1>20 DEF Write, shared, locals
<1> HIDE DEF Goal
<1>21. Goal
  <2> USE DEF Goal
  <2> HIDE DEF OwnCache
  <2> QED
    BY <1>5, <1>6, <1>7, <1>8, <1>9, <1>10, <1>11, <1>12, <1>13, <1>14, <1>15, <1>16,
       <1>18, <1>19, <1>20, <1>22, <1>23, <1>24 DEF Call, Step
<1> QED
  BY <1>21 DEF Goal

(* A slab in use before and after a step of t still has an owner, and one  *)
(* a claim puts in use has the claimer.                                    *)
LEMMA OwnersKept ==
  ASSUME CirculationInv, ~EnableGuard, NEW t \in Threads, Call(t) \/ Step(t),
         NEW s \in Slabs, inUse'[s]
  PROVE  \E u \in Threads : Owns(u, s)'
<1> DEFINE Goal == \E u \in Threads : Owns(u, s)'
<1>1. TypeOK /\ OwnershipInv /\ inUse \in [Slabs -> BOOLEAN] /\ held \in [Threads -> SUBSET Slabs]
  BY DEF CirculationInv, OwnershipInv, TypeOK, PoolsOK
<1>2. inUse[s] => \E u \in Threads : Owns(u, s)
  BY DEF CirculationInv, NoLostSlab
<1>3. CASE Quiet
  <2>1. inUse[s]
    BY <1>3 DEF Quiet
  <2> QED
    BY <1>2, <1>3, <2>1, QuietOwns
<1>4. CASE Claim(t)
  <2>1. slab[t] \in Slabs /\ ~Returning(t)
    BY <1>1, <1>4, ClaimEffect
  <2>2. CASE inUse[slab[t]]
    BY <1>1, <1>3, <1>4, <2>2, ClaimQuiet
  <2>3. CASE ~inUse[slab[t]]
    <3>1. s # slab[t] => inUse[s]
      BY <1>1, <1>4, ClaimEffect
    <3>2. \A u \in Threads : Owns(u, s)' <=> (Owns(u, s) \/ (u = t /\ s = slab[t]))
      BY <1>1, <1>4, <2>3, ClaimOwns
    <3> QED
      BY <1>2, <3>1, <3>2
  <2> QED
    BY <2>2, <2>3
<1>5. CASE Deallocate(t)
  <2>1. PICK r \in held[t] :
          /\ inUse' = inUse
          /\ held' = [held EXCEPT ![t] = @ \ {r}]
          /\ ~Returning(t) /\ Returning(t)' /\ slab'[t] = r
          /\ \A u \in Threads \ {t} : Undisturbed(u)
    BY <1>1, <1>5, DeallocateEffect DEF GuardBroken
  <2>2. PICK u \in Threads : Owns(u, s)
    BY <1>2, <2>1
  <2>3. Owns(u, s)'
    BY <1>1, <2>1, <2>2 DEF Owns, Returning, Undisturbed
  <2> QED
    BY <2>3
<1>6. CASE DeallocateClear(t)
  <2>1. s # slab[t] /\ inUse[s]
    BY <1>1, <1>6, ClearEffect
  <2> QED
    BY <1>1, <1>2, <1>6, <2>1, ClearOwns
<1>7. CASE DeallocateFast(t)
  <2>1. PICK r \in held[t] :
          /\ r \in Slabs
          /\ inUse' = [inUse EXCEPT ![r] = FALSE]
          /\ held' = [held EXCEPT ![t] = @ \ {r}]
          /\ ~Returning(t) /\ ~Returning(t)'
          /\ \A u \in Threads \ {t} : Undisturbed(u)
    BY <1>1, <1>7, FastEffect
  <2>2. s # r /\ inUse[s]
    BY <1>1, <2>1
  <2>3. PICK u \in Threads : Owns(u, s)
    BY <1>2, <2>2
  <2>4. Owns(u, s)'
    BY <1>1, <2>1, <2>2, <2>3 DEF Owns, Returning, Undisturbed
  <2> QED
    BY <2>4
<1> HIDE DEF Goal
<1>8. Goal
  BY <1>1, <1>3, <1>4, <1>5, <1>6, <1>7, QuietSteps DEF Call, Step, Goal
<1> QED
  BY <1>8 DEF Goal

(* A slab that is free before and after a step of t is found after it. *)
LEMMA FreeFound ==
  ASSUME CirculationInv, Unshared, ~EnableGuard, NEW t \in Threads, Call(t) \/ Step(t),
         NEW s \in Slabs, ~inUse[s], ~inUse'[s]
  PROVE  (Pooled(s) \/ InHand(s))'
<1>1. TypeOK /\ \A u \in Threads : OwnCache(u)
  BY DEF CirculationInv, OwnershipInv
<1>2. Pooled(s) \/ InHand(s)
  BY DEF CirculationInv, NoLostSlab
<1>3. CASE Within(t, s)
  <2>1. Within(t, s)'
    BY <1>1, <1>3, StepFinds
  <2> QED
    BY <2>1 DEF Within, Cached, Stacked, Hand, Pooled, InHand
<1>4. ASSUME NEW u \in Threads, u # t, Hand(u, s) PROVE Hand(u, s)'
  <2>1. Undisturbed(u)
    BY <1>1, <1>4, OthersUndisturbed
  <2>2. pc[u] = "get_read" => cacheStack'[cpu[u]] = cacheStack[cpu[u]]
    BY <1>1, <1>4, OtherOwnCache
  <2> QED
    BY <1>4, <2>1, <2>2 DEF Hand, Undisturbed
<1>5. Within(t, s) \/ \E u \in Threads : u # t /\ Hand(u, s)
  BY <1>2 DEF Within, Cached, Stacked, Hand, Pooled, InHand
<1> QED
  <2>1. (\E u \in Threads : Hand(u, s)') => InHand(s)'
    BY DEF Hand, InHand
  <2> QED
    BY <1>3, <1>4, <1>5, <2>1

(* No step loses a slab. *)
LEMMA NextCirculation ==
  ASSUME Unshared, ~EnableGuard, CirculationInv, [Next]_vars
  PROVE  CirculationInv'
<1>1. OwnershipInv' /\ TypeOK /\ inUse \in [Slabs -> BOOLEAN]
  BY NextOwnership DEF CirculationInv, OwnershipInv, TypeOK, PoolsOK
<1>2. CASE UNCHANGED vars
  <2>1. \A t \in Threads : OwnCache(t)'
    BY <1>2 DEF vars, CirculationInv, OwnCache
  <2>2. NoLostSlab'
    BY <1>2 DEF vars, CirculationInv, NoLostSlab, Pooled, InHand, Owns
  <2> QED
    BY <1>1, <2>1, <2>2 DEF CirculationInv
<1>3. CASE Reset
  <2>1. \A t \in Threads : OwnCache(t)'
    BY <1>3 DEF Reset, CirculationInv, OwnCache, locals
  <2>2. NoLostSlab'
    BY <1>3 DEF Reset, NoLostSlab, Pooled
  <2> QED
    BY <1>1, <2>1, <2>2 DEF CirculationInv
<1>4. ASSUME NEW t \in Threads, Call(t) \/ Step(t) PROVE CirculationInv'
  <2>1. ASSUME NEW u \in Threads PROVE OwnCache(u)'
    BY <1>1, <1>4, OwnCacheKept, OtherOwnCache DEF CirculationInv
  <2>2. ASSUME NEW s \in Slabs, inUse'[s] PROVE \E u \in Threads : Owns(u, s)'
    BY <1>4, <2>2, OwnersKept
  <2>3. ASSUME NEW s \in Slabs, ~inUse'[s] PROVE (Pooled(s) \/ InHand(s))'
    <3>1. CASE inUse[s]
      <4>1. slab'[t] = s
        BY <1>4, <2>3, <3>1, FreedFound DEF CirculationInv
      <4> QED
        BY <4>1 DEF InHand
    <3>2. CASE ~inUse[s]
      BY <1>4, <2>3, <3>2, FreeFound
    <3> QED
      BY <3>1, <3>2
  <2> QED
    BY <1>1, <2>1, <2>2, <2>3 DEF CirculationInv, NoLostSlab
<1> QED
  BY <1>2, <1>3, <1>4 DEF Next

(* Without caches, or with caches that no two goroutines share, and        *)
(* without guard pages, no slab drops out of circulation: every one is     *)
(* with an owner, in a pool, or in the hand of a call, however many copies *)
(* of it the refills of the caches make.                                   *)
THEOREM NothingLost == ASSUME Unshared, ~EnableGuard PROVE Spec => []NoLostSlab
<1>1. Init => CirculationInv
  <2> SUFFICES ASSUME Init PROVE CirculationInv
    OBVIOUS
  <2>1. NoLostSlab /\ \A t \in Threads : OwnCache(t)
    BY DEF Init, NoLostSlab, Pooled, OwnCache
  <2> QED
    BY <2>1, InitOwnership DEF CirculationInv
<1>2. CirculationInv /\ [Next]_vars => CirculationInv'
  BY NextCirculation
<1>3. CirculationInv => NoLostSlab
  BY DEF CirculationInv
<1> QED
  BY <1>1, <1>2, <1>3, PTL DEF Spec
=============================================================================
