---------------------------- MODULE RegionsProof ----------------------------
(***************************************************************************)
(* Proofs about the blocks of a HybridAllocator (Regions), beside the      *)
(* other ways to hold on to memory: for any goroutines, page size,         *)
(* threshold and sizes, when no address is mapped again under a call that  *)
(* names it.                                                               *)
(***************************************************************************)
EXTENDS MCClients, CountingLemmas

USE ClientsAssumption DEF ClientsAssumption, B!RegionsAssumption, B!Large

(* The sizes that regions have. *)
Rounded == {B!AlignSize(n) : n \in {m \in Nat : m > Threshold}}

(* The address that a call is about. *)
Ptr(t) == call[t].block.ptr

(* A call that maps or unmaps a region which is not in the map. *)
Busy(t) == step[t] \in {"store", "subBytes", "subActive", "unmap"}

(* A call that has stored a region and not returned it. *)
Storing(t) == step[t] \in {"addBytes", "addActive"}

(* A call that is about to delete a region. *)
Deleting(t) == step[t] = "delete"

(* The pages of a region, and those that a call works on. *)
Region(p) == B!PagesOf(p, regions[p])
Work(t)   == B!PagesOf(Ptr(t), call[t].size)

(* Types, with the sizes that a region can have. *)
Typed ==
  /\ regions \in [B!Address -> {0} \cup Rounded]
  /\ step \in [Threads -> {"idle", "store", "addBytes", "addActive", "delete",
                         "subBytes", "subActive", "unmap"}]
  /\ call \in [Threads -> [block : [id : Slabs \cup {B!Large}, ptr : Nat, asked : Nat],
                           size : {0} \cup Rounded]]
  /\ held \subseteq [id : Slabs \cup {B!Large}, ptr : Nat, asked : Nat]
  /\ free \subseteq Slabs
  /\ orphans \subseteq mapped

(* What a call knows at each of its steps. *)
CallsOK ==
  \A t \in Threads :
    /\ Busy(t) \/ Storing(t) => call[t].size \in Rounded
    /\ Busy(t) \/ Storing(t) \/ Deleting(t) => call[t].block.id = B!Large /\ Ptr(t) \in B!Address
    /\ step[t] = "store" \/ Storing(t) => call[t].block.asked <= call[t].size
    /\ Storing(t) => regions[Ptr(t)] = call[t].size

(* Every mapped page is in one place, and what is in a place is mapped. *)
Placed ==
  /\ \A p \in B!Tracked : Region(p) \subseteq mapped \ orphans
  /\ \A t \in Threads : Busy(t) => Work(t) \subseteq mapped \ orphans
  /\ \A p, q \in B!Tracked : p # q => Region(p) \cap Region(q) = {}
  /\ \A p \in B!Tracked, t \in Threads : Busy(t) => Region(p) \cap Work(t) = {}
  /\ \A t, u \in Threads : Busy(t) /\ Busy(u) /\ t # u => Work(t) \cap Work(u) = {}
  /\ \A x \in mapped : \/ x \in orphans
                       \/ \E p \in B!Tracked : x \in Region(p)
                       \/ \E t \in Threads : Busy(t) /\ x \in Work(t)

(* A region in the map has one owner: the block the program holds, the     *)
(* call that is about to return it, or those that are about to delete it.  *)
Owned ==
  /\ \A b \in held : b.id = B!Large =>
       /\ b.ptr \in B!Tracked /\ b.asked <= regions[b.ptr]
       /\ \A c \in held : c.id = B!Large /\ c.ptr = b.ptr => c = b
       /\ \A t \in Threads : Storing(t) \/ Deleting(t) => Ptr(t) # b.ptr
  /\ \A t, u \in Threads : Storing(t) /\ Storing(u) /\ Ptr(t) = Ptr(u) => t = u
  /\ \A t, u \in Threads : Deleting(t) /\ (Storing(u) \/ step[u] = "store") => Ptr(t) # Ptr(u)

(* The inductive invariant. *)
RegionsInv == Typed /\ CallsOK /\ Placed /\ Owned

(* A rounded size is as long as was asked for and has at least one page.   *)
LEMMA Rounding ==
  ASSUME NEW m \in Nat \ {0}
  PROVE  /\ B!AlignSize(m) \in Nat \ {0} /\ m <= B!AlignSize(m)
         /\ \A p \in Nat : p \in B!PagesOf(p, B!AlignSize(m))
<1>1. PICK x \in Nat : x = m + PageSize - 1
  OBVIOUS
<1>a. /\ x \div PageSize \in Int /\ x % PageSize \in 0 .. PageSize - 1
      /\ x = PageSize * (x \div PageSize) + (x % PageSize)
  <2>1. PageSize \in Nat \ {0} /\ x \in Int
    OBVIOUS
  <2> QED
    BY <2>1, Division
<1>b. PICK k \in Int : k = x \div PageSize
  BY <1>a
<1>c. PICK r \in 0 .. PageSize - 1 : r = x % PageSize
  BY <1>a
<1>2. k = x \div PageSize /\ x = PageSize * k + r
  BY <1>a, <1>b, <1>c
<1>3. PICK a \in Int : a = k * PageSize
  OBVIOUS
<1>4. B!AlignSize(m) = a /\ m <= a
  BY <1>1, <1>2, <1>3 DEF B!AlignSize
<1>5. k >= 1
  BY <1>3, <1>4
<1>6. a \div PageSize = k
  BY <1>3
<1> QED
  BY <1>3, <1>4, <1>5, <1>6 DEF B!PagesOf

(* The same of the sizes that regions have. *)
LEMMA RoundedHolds ==
  ASSUME NEW n \in Rounded
  PROVE  n \in Nat /\ n # 0 /\ \A p \in Nat : p \in B!PagesOf(p, n)
<1>1. PICK m \in Nat \ {0} : n = B!AlignSize(m)
  BY DEF Rounded
<1> QED
  BY <1>1, Rounding

(* At first nothing is mapped. *)
LEMMA InitRegions == B!Init => RegionsInv
<1> SUFFICES ASSUME B!Init PROVE RegionsInv
  OBVIOUS
<1>1. B!Tracked = {}
  BY DEF B!Init, B!Tracked
<1>2. Typed
  BY DEF B!Init, Typed, B!NoCall, B!Slab
<1> QED
  BY <1>1, <1>2 DEF B!Init, RegionsInv, CallsOK, Placed, Owned, Busy, Storing, Deleting

(* A goroutine whose call has not moved. *)
Same(u) ==
  /\ Busy(u)' <=> Busy(u)
  /\ Storing(u)' <=> Storing(u)
  /\ Deleting(u)' <=> Deleting(u)
  /\ (step[u] = "store")' <=> (step[u] = "store")
  /\ call'[u] = call[u] /\ Ptr(u)' = Ptr(u) /\ Work(u)' = Work(u)

(* Whatever else moves, such a call is as before. *)
LEMMA Unmoved ==
  ASSUME NEW u, step'[u] = step[u], call'[u] = call[u] PROVE Same(u)
  BY DEF Same, Busy, Storing, Deleting, Ptr, Work

(* The region map is as before. *)
LEMMA SameMap ==
  ASSUME UNCHANGED regions
  PROVE  B!Tracked' = B!Tracked /\ \A p : Region(p)' = Region(p)
  BY DEF B!Tracked, Region

(* Regions in the map and the addresses of calls are typed. *)
LEMMA Sizes ==
  ASSUME Typed
  PROVE  /\ \A p \in B!Tracked : /\ p \in B!Address /\ p \in Nat /\ regions[p] \in Rounded
                               /\ p \in Region(p)
         /\ \A t \in Threads : call[t].size \in Rounded => Ptr(t) \in Work(t)
<1>1. ASSUME NEW p \in B!Tracked PROVE p \in B!Address /\ p \in Nat /\ regions[p] \in Rounded
  <2>1. p \in B!Address /\ regions[p] # 0
    BY DEF B!Tracked
  <2>2. regions[p] \in {0} \cup Rounded
    BY <2>1 DEF Typed
  <2> QED
    BY <2>1, <2>2 DEF B!Address
<1>2. ASSUME NEW t \in Threads PROVE Ptr(t) \in Nat
  BY DEF Typed, Ptr
<1> QED
  BY <1>1, <1>2, RoundedHolds DEF Region, Work

USE DEF B!Goto, B!os, B!stats

(* HybridAllocator with a slab: no region is concerned. *)
LEMMA SlabKeeps ==
  ASSUME RegionsInv, NEW t \in Threads,
         B!DeallocateSlab(t) \/ \E wanted \in 1 .. MaxSize : B!AllocateSlab(t, wanted)
  PROVE  RegionsInv'
<1> USE DEF RegionsInv
<1>1. UNCHANGED <<mapped, orphans, regions, step, call>>
  BY DEF B!DeallocateSlab, B!AllocateSlab
<1>2. \A u \in Threads : Same(u)
  BY <1>1, Unmoved
<1>3. \A b \in held' : b.id = B!Large => b \in held
  BY DEF B!DeallocateSlab, B!AllocateSlab, B!Slab, Typed
<1>4. Typed'
  <2>1. CASE B!DeallocateSlab(t)
    BY <1>1, <2>1 DEF Typed, B!DeallocateSlab
  <2>2. ASSUME NEW wanted \in 1 .. MaxSize, B!AllocateSlab(t, wanted) PROVE Typed'
    BY <1>1, <2>2 DEF Typed, B!AllocateSlab, B!Slab
  <2> QED
    BY <2>1, <2>2
<1>5. CallsOK' /\ Placed'
  BY <1>1, <1>2, SameMap DEF CallsOK, Placed, Same
<1>6. Owned'
  BY <1>1, <1>2, <1>3, SameMap DEF Owned, Same
<1> QED
  BY <1>4, <1>5, <1>6

(* Allocate: the pages that mmap returns were nobody's. *)
LEMMA MmapKeeps ==
  ASSUME RegionsInv, ~LateFrees, NEW t \in Threads, NEW wanted \in 1 .. MaxSize,
         B!Mmap(t, wanted)
  PROVE  RegionsInv'
<1> USE DEF RegionsInv
<1>1. PICK size \in Rounded : size = B!AlignSize(wanted) /\ wanted <= size
  BY Rounding DEF B!Mmap, Rounded
<1>2. PICK p \in B!Address :
        /\ B!PagesOf(p, size) \subseteq B!Address \ mapped /\ p \notin B!Named
        /\ mapped' = mapped \cup B!PagesOf(p, size)
        /\ call' = [call EXCEPT ![t] = [block |-> B!Block(p, wanted), size |-> size]]
  BY <1>1 DEF B!Mmap
<1>3. /\ step[t] = "idle" /\ step' = [step EXCEPT ![t] = "store"]
      /\ UNCHANGED <<orphans, regions, free, held>>
  BY DEF B!Mmap
<1>4. \A u \in Threads \ {t} : Same(u)
  BY <1>2, <1>3, Unmoved DEF Typed
<1>5. /\ call'[t] = [block |-> B!Block(p, wanted), size |-> size] /\ step'[t] = "store"
      /\ Ptr(t)' = p /\ Work(t)' = B!PagesOf(p, size)
  BY <1>2, <1>3 DEF Typed, Ptr, Work, B!Block
<1>6. Typed'
  BY <1>2, <1>3 DEF Typed, B!Block, B!Address
<1>7. CallsOK'
  BY <1>1, <1>3, <1>4, <1>5 DEF CallsOK, Same, Busy, Storing, Deleting, B!Block
<1>8. \A x \in B!PagesOf(p, size) : x \notin mapped /\ x \notin orphans
  BY <1>2 DEF Typed
<1>9. Busy(t)' /\ ~Storing(t)' /\ ~Deleting(t)' /\ ~Busy(t)
  BY <1>3, <1>5 DEF Busy, Storing, Deleting
<1>10. Placed'
  BY <1>2, <1>3, <1>4, <1>5, <1>8, <1>9, SameMap DEF Placed, Same
<1>11. \A u \in Threads : Deleting(u) => Ptr(u) # p
  BY <1>2 DEF B!Named, Deleting, Ptr
<1>12. Owned'
  BY <1>3, <1>4, <1>5, <1>9, <1>11, SameMap DEF Owned, Same
<1> QED
  BY <1>6, <1>7, <1>10, <1>12

(* The map and the memory are not concerned by the counters. *)
LEMMA CountKeeps ==
  ASSUME RegionsInv, NEW t \in Threads, B!AddBytes(t) \/ B!SubBytes(t) \/ B!SubActive(t)
  PROVE  RegionsInv'
<1> USE DEF RegionsInv
<1>1. UNCHANGED <<mapped, orphans, regions, free, held, call>>
  BY DEF B!AddBytes, B!SubBytes, B!SubActive
<1>2. \/ step[t] = "addBytes" /\ step' = [step EXCEPT ![t] = "addActive"]
      \/ step[t] = "subBytes" /\ step' = [step EXCEPT ![t] = "subActive"]
      \/ step[t] = "subActive" /\ step' = [step EXCEPT ![t] = "unmap"]
  BY DEF B!AddBytes, B!SubBytes, B!SubActive
<1>3. \A u \in Threads : Same(u)
  BY <1>1, <1>2 DEF Typed, Same, Busy, Storing, Deleting, Ptr, Work
<1>4. Typed'
  BY <1>1, <1>2 DEF Typed
<1>5. CallsOK' /\ Placed' /\ Owned'
  BY <1>1, <1>3, SameMap DEF CallsOK, Placed, Owned, Same
<1> QED
  BY <1>4, <1>5

(* regions.Store: the pages pass from the call to the map. *)
LEMMA StoreKeeps ==
  ASSUME RegionsInv, NEW t \in Threads, B!StoreRegion(t) PROVE RegionsInv'
<1> USE DEF RegionsInv
<1>1. PICK p \in B!Address, n \in Rounded : p = Ptr(t) /\ n = call[t].size
  BY DEF B!StoreRegion, CallsOK, Busy
<1>2. /\ step[t] = "store" /\ step' = [step EXCEPT ![t] = "addBytes"]
      /\ regions' = [regions EXCEPT ![p] = n]
      /\ UNCHANGED <<mapped, orphans, free, held, call>>
  BY <1>1 DEF B!StoreRegion, Ptr
<1>3. Typed' /\ regions'[p] = n
  BY <1>1, <1>2 DEF Typed
<1>4. p \in Work(t) /\ n # 0 /\ Work(t) = B!PagesOf(p, n) /\ Busy(t) /\ ~Storing(t)
  BY <1>1, <1>2, Sizes, RoundedHolds DEF Busy, Storing, Work, Ptr
<1>5. p \notin B!Tracked
  BY <1>4, Sizes DEF Placed
<1>6. /\ B!Tracked' = B!Tracked \cup {p} /\ Region(p)' = Work(t)
      /\ \A q \in B!Tracked : Region(q)' = Region(q)
  BY <1>2, <1>3, <1>4, <1>5 DEF Typed, B!Tracked, Region
<1>7. \A u \in Threads \ {t} : Same(u)
  BY <1>2, Unmoved DEF Typed
<1>8. ~Busy(t)' /\ Storing(t)' /\ ~Deleting(t)' /\ Ptr(t)' = p /\ call'[t] = call[t]
  BY <1>1, <1>2 DEF Typed, Busy, Storing, Deleting, Ptr
<1>9. \A u \in Threads \ {t} : Storing(u) => Ptr(u) \in B!Tracked
  BY RoundedHolds DEF CallsOK, B!Tracked
<1>10. CallsOK'
  <2>1. ASSUME NEW u \in Threads \ {t}, Storing(u)
        PROVE  regions'[Ptr(u)] = call[u].size
    BY <1>2, <1>5, <1>9, <2>1 DEF CallsOK, Typed, B!Tracked
  <2>2. (step[t] # "store")' /\ call[t].block.id = B!Large /\ call[t].block.asked <= n
    BY <1>1, <1>2, <1>4 DEF CallsOK, Typed
  <2> QED
    BY <1>1, <1>3, <1>7, <1>8, <2>1, <2>2 DEF CallsOK, Same
<1>11. Placed'
  <2>1. /\ \A q \in B!Tracked' : Region(q)' \subseteq mapped' \ orphans'
        /\ \A u \in Threads : Busy(u)' => Work(u)' \subseteq mapped' \ orphans'
    BY <1>2, <1>4, <1>6, <1>7, <1>8 DEF Placed, Same
  <2>2. \A q, r \in B!Tracked' : q # r => Region(q)' \cap Region(r)' = {}
    BY <1>4, <1>5, <1>6 DEF Placed
  <2>3. \A q \in B!Tracked', u \in Threads : Busy(u)' => Region(q)' \cap Work(u)' = {}
    BY <1>4, <1>6, <1>7, <1>8 DEF Placed, Same
  <2>4. \A u, v \in Threads : Busy(u)' /\ Busy(v)' /\ u # v => Work(u)' \cap Work(v)' = {}
    BY <1>7, <1>8 DEF Placed, Same
  <2>5. ASSUME NEW x \in mapped'
        PROVE  \/ x \in orphans'
               \/ \E q \in B!Tracked' : x \in Region(q)'
               \/ \E u \in Threads : Busy(u)' /\ x \in Work(u)'
    BY <1>2, <1>6, <1>7 DEF Placed, Same
  <2> QED
    BY <2>1, <2>2, <2>3, <2>4, <2>5 DEF Placed
<1>12. Owned'
  <2>1. ASSUME NEW b \in held', b.id = B!Large
        PROVE  /\ b \in held /\ b.ptr \in B!Tracked /\ b.ptr # p
               /\ regions'[b.ptr] = regions[b.ptr]
    BY <1>2, <1>5, <2>1 DEF Owned, Typed
  <2>2. \A u \in Threads \ {t} : Deleting(u) \/ Storing(u) => Ptr(u) # p
    BY <1>1, <1>2, <1>5, <1>9 DEF Owned
  <2> QED
    BY <1>2, <1>6, <1>7, <1>8, <2>1, <2>2 DEF Owned, Same
<1> QED
  BY <1>3, <1>10, <1>11, <1>12

(* Allocate returns: the region is the program's. *)
LEMMA ReturnKeeps ==
  ASSUME RegionsInv, NEW t \in Threads, B!AddActive(t) PROVE RegionsInv'
<1> USE DEF RegionsInv
<1>1. /\ step[t] = "addActive" /\ step' = [step EXCEPT ![t] = "idle"]
      /\ call' = [call EXCEPT ![t] = B!NoCall] /\ held' = held \cup {call[t].block}
      /\ UNCHANGED <<mapped, orphans, regions, free>>
  BY DEF B!AddActive, B!Return
<1>2. Typed'
  BY <1>1 DEF Typed, B!NoCall, B!Slab
<1>3. \A u \in Threads \ {t} : Same(u)
  BY <1>1, Unmoved DEF Typed
<1>4. /\ ~Busy(t)' /\ ~Storing(t)' /\ ~Deleting(t)' /\ ~Busy(t) /\ Storing(t)
      /\ ~(step[t] = "store")'
  BY <1>1 DEF Typed, Busy, Storing, Deleting
<1>5. CallsOK'
  BY <1>1, <1>3, <1>4 DEF CallsOK, Same
<1>6. Placed'
  BY <1>1, <1>3, <1>4, SameMap DEF Placed, Same
<1>7. /\ call[t].block.id = B!Large /\ Ptr(t) \in B!Tracked
      /\ call[t].block.asked <= regions[Ptr(t)]
  BY <1>4, RoundedHolds DEF CallsOK, B!Tracked
<1>8. Owned'
  BY <1>1, <1>3, <1>4, <1>7, SameMap DEF Owned, Same, Ptr
<1> QED
  BY <1>2, <1>5, <1>6, <1>8

(* Deallocate begins: the region is the program's no more. *)
LEMMA DeallocateKeeps ==
  ASSUME RegionsInv, NEW t \in Threads, B!Deallocate(t) PROVE RegionsInv'
<1> USE DEF RegionsInv
<1>1. PICK b \in held \cup {call[u].block : u \in {v \in Threads : step[v] = "delete"}} :
        /\ b.id = B!Large /\ held' = held \ {b}
        /\ call' = [call EXCEPT ![t] = [block |-> b, size |-> 0]]
  BY DEF B!Deallocate
<1>2. /\ step[t] = "idle" /\ step' = [step EXCEPT ![t] = "delete"]
      /\ UNCHANGED <<mapped, orphans, regions, free>>
  BY DEF B!Deallocate
<1>3. /\ b \in [id : Slabs \cup {B!Large}, ptr : Nat, asked : Nat] /\ b.ptr \in B!Address
      /\ \A c \in held \ {b} : c.id = B!Large => c.ptr # b.ptr
      /\ \A u \in Threads : Storing(u) \/ step[u] = "store" => Ptr(u) # b.ptr
  <2>1. CASE b \in held
    <3>1. b.ptr \in B!Tracked
      BY <1>1, <2>1 DEF Owned
    <3>2. ASSUME NEW u \in Threads, step[u] = "store" PROVE Ptr(u) # b.ptr
      BY <3>1, <3>2, Sizes DEF Placed, CallsOK, Busy
    <3> QED
      BY <1>1, <2>1, <3>1, <3>2, Sizes DEF Owned, Typed
  <2>2. ASSUME NEW u \in Threads, step[u] = "delete", b = call[u].block
        PROVE  /\ b \in [id : Slabs \cup {B!Large}, ptr : Nat, asked : Nat]
               /\ b.ptr \in B!Address
               /\ \A c \in held \ {b} : c.id = B!Large => c.ptr # b.ptr
               /\ \A v \in Threads : Storing(v) \/ step[v] = "store" => Ptr(v) # b.ptr
    BY <2>2 DEF Owned, CallsOK, Typed, Deleting, Ptr
  <2> QED
    BY <2>1, <2>2
<1>4. Typed'
  BY <1>1, <1>2, <1>3 DEF Typed
<1>5. \A u \in Threads \ {t} : Same(u)
  BY <1>1, <1>2, Unmoved DEF Typed
<1>6. /\ ~Busy(t)' /\ ~Storing(t)' /\ Deleting(t)' /\ ~(step[t] = "store")'
      /\ ~Busy(t) /\ ~Storing(t)
      /\ call'[t].block = b /\ Ptr(t)' = b.ptr
  BY <1>1, <1>2 DEF Typed, Busy, Storing, Deleting, Ptr
<1>7. CallsOK'
  BY <1>1, <1>2, <1>3, <1>5, <1>6 DEF CallsOK, Same
<1>8. Placed'
  BY <1>2, <1>5, <1>6, SameMap DEF Placed, Same
<1>9. Owned'
  BY <1>1, <1>2, <1>3, <1>5, <1>6, SameMap DEF Owned, Same
<1> QED
  BY <1>4, <1>7, <1>8, <1>9

(* regions.LoadAndDelete: the pages pass from the map to the call. *)
LEMMA DeleteKeeps ==
  ASSUME RegionsInv, NEW t \in Threads, B!LoadAndDelete(t) PROVE RegionsInv'
<1> USE DEF RegionsInv
<1>1. PICK p \in B!Address : p = Ptr(t)
  BY DEF B!LoadAndDelete, CallsOK, Deleting
<1>2. /\ step[t] = "delete" /\ step' = [step EXCEPT ![t] = "subBytes"]
      /\ regions[p] # 0 /\ regions' = [regions EXCEPT ![p] = 0]
      /\ call' = [call EXCEPT ![t].size = regions[p]]
      /\ UNCHANGED <<mapped, orphans, free, held>>
  BY <1>1 DEF B!LoadAndDelete, Ptr
<1>3. /\ p \in B!Tracked /\ regions[p] \in Rounded
      /\ ~Busy(t) /\ ~Storing(t) /\ Deleting(t)
  BY <1>2, Sizes DEF Busy, Storing, Deleting, B!Tracked
<1>4. Typed'
  BY <1>2, <1>3 DEF Typed
<1>5. /\ call'[t].size = regions[p] /\ call'[t].block = call[t].block
      /\ Ptr(t)' = p /\ Work(t)' = Region(p)
      /\ Busy(t)' /\ ~Storing(t)' /\ ~Deleting(t)' /\ ~(step[t] = "store")'
  BY <1>1, <1>2 DEF Typed, Busy, Storing, Deleting, Ptr, Work, Region
<1>6. \A u \in Threads \ {t} : Same(u)
  BY <1>2, Unmoved DEF Typed
<1>7. B!Tracked' = B!Tracked \ {p} /\ \A q \in B!Tracked' : Region(q)' = Region(q)
  BY <1>2 DEF Typed, B!Tracked, Region
<1>8. \A u \in Threads : Storing(u) => Ptr(u) # p
  BY <1>1, <1>3 DEF Owned
<1>9. CallsOK'
  <2>1. ASSUME NEW u \in Threads \ {t}, Storing(u)
        PROVE  regions'[Ptr(u)] = call[u].size
    BY <1>2, <1>8, <2>1 DEF CallsOK, Typed
  <2>2. call[t].block.id = B!Large
    BY <1>3 DEF CallsOK
  <2> QED
    BY <1>1, <1>3, <1>5, <1>6, <2>1, <2>2 DEF CallsOK, Same
<1>10. Placed'
  <2>1. /\ \A q \in B!Tracked' : Region(q)' \subseteq mapped' \ orphans'
        /\ \A u \in Threads : Busy(u)' => Work(u)' \subseteq mapped' \ orphans'
    BY <1>2, <1>3, <1>5, <1>6, <1>7 DEF Placed, Same
  <2>2. \A q, r \in B!Tracked' : q # r => Region(q)' \cap Region(r)' = {}
    BY <1>7 DEF Placed
  <2>3. \A q \in B!Tracked', u \in Threads : Busy(u)' => Region(q)' \cap Work(u)' = {}
    BY <1>3, <1>5, <1>6, <1>7 DEF Placed, Same
  <2>4. \A u, v \in Threads : Busy(u)' /\ Busy(v)' /\ u # v => Work(u)' \cap Work(v)' = {}
    BY <1>3, <1>5, <1>6 DEF Placed, Same
  <2>5. ASSUME NEW x \in mapped'
        PROVE  \/ x \in orphans'
               \/ \E q \in B!Tracked' : x \in Region(q)'
               \/ \E u \in Threads : Busy(u)' /\ x \in Work(u)'
    <3>1. CASE x \in Region(p)
      BY <1>5, <3>1
    <3>2. ASSUME NEW u \in Threads, Busy(u), x \in Work(u)
          PROVE  \E v \in Threads : Busy(v)' /\ x \in Work(v)'
      BY <1>3, <1>6, <3>2 DEF Same
    <3>3. ASSUME NEW q \in B!Tracked, q # p, x \in Region(q)
          PROVE  \E r \in B!Tracked' : x \in Region(r)'
      BY <1>7, <3>3
    <3> QED
      BY <1>2, <3>1, <3>2, <3>3 DEF Placed
  <2> QED
    BY <2>1, <2>2, <2>3, <2>4, <2>5 DEF Placed
<1>11. Owned'
  <2>1. ASSUME NEW b \in held', b.id = B!Large
        PROVE  /\ b \in held /\ b.ptr \in B!Tracked' /\ regions'[b.ptr] = regions[b.ptr]
               /\ b.ptr # p
    BY <1>1, <1>2, <1>3, <1>7, <2>1 DEF Owned, Typed, B!Tracked
  <2> QED
    BY <1>2, <1>5, <1>6, <2>1 DEF Owned, Same
<1> QED
  BY <1>4, <1>9, <1>10, <1>11

(* A call that finds its region gone returns. *)
LEMMA UnknownKeeps ==
  ASSUME RegionsInv, NEW t \in Threads, B!Unknown(t) PROVE RegionsInv'
<1> USE DEF RegionsInv
<1>1. /\ step[t] = "delete" /\ step' = [step EXCEPT ![t] = "idle"]
      /\ call' = [call EXCEPT ![t] = B!NoCall]
      /\ UNCHANGED <<mapped, orphans, regions, free, held>>
  BY DEF B!Unknown, B!Return
<1>2. Typed'
  BY <1>1 DEF Typed, B!NoCall, B!Slab
<1>3. \A u \in Threads \ {t} : Same(u)
  BY <1>1, Unmoved DEF Typed
<1>4. /\ ~Busy(t)' /\ ~Storing(t)' /\ ~Deleting(t)' /\ ~Busy(t)
      /\ ~(step[t] = "store")'
  BY <1>1 DEF Typed, Busy, Storing, Deleting
<1>5. CallsOK' /\ Placed' /\ Owned'
  BY <1>1, <1>3, <1>4, SameMap DEF CallsOK, Placed, Owned, Same
<1> QED
  BY <1>2, <1>5

(* munmap: the pages are unmapped, or stay mapped and nobody's. *)
LEMMA UnmapKeeps ==
  ASSUME RegionsInv, NEW t \in Threads, B!Munmap(t) \/ B!MunmapFails(t) PROVE RegionsInv'
<1> USE DEF RegionsInv
<1>1. /\ step[t] = "unmap" /\ step' = [step EXCEPT ![t] = "idle"]
      /\ call' = [call EXCEPT ![t] = B!NoCall]
      /\ UNCHANGED <<regions, free, held>>
  BY DEF B!Munmap, B!MunmapFails, B!Return
<1>2. \/ mapped' = mapped \ Work(t) /\ orphans' = orphans
      \/ mapped' = mapped /\ orphans' = orphans \cup Work(t)
  BY DEF B!Munmap, B!MunmapFails, Work, Ptr
<1>3. Busy(t) /\ Work(t) \subseteq mapped \ orphans
  BY <1>1 DEF Busy, Placed
<1>4. Typed' /\ mapped' \ orphans' = (mapped \ orphans) \ Work(t)
  BY <1>1, <1>2, <1>3 DEF Typed, B!NoCall, B!Slab
<1>5. \A u \in Threads \ {t} : Same(u)
  BY <1>1, Unmoved DEF Typed
<1>6. ~Busy(t)' /\ ~Storing(t)' /\ ~Deleting(t)' /\ ~(step[t] = "store")'
  BY <1>1 DEF Typed, Busy, Storing, Deleting
<1>7. CallsOK' /\ Owned'
  BY <1>1, <1>5, <1>6, SameMap DEF CallsOK, Owned, Same
<1>8. Placed'
  <2>1. \A q \in B!Tracked : Region(q) \subseteq (mapped \ orphans) \ Work(t)
    BY <1>3 DEF Placed
  <2>2. \A u \in Threads \ {t} : Busy(u) => Work(u) \subseteq (mapped \ orphans) \ Work(t)
    BY <1>3 DEF Placed
  <2>3. ASSUME NEW x \in mapped'
        PROVE  \/ x \in orphans'
               \/ \E q \in B!Tracked : x \in Region(q)
               \/ \E u \in Threads \ {t} : Busy(u) /\ x \in Work(u)
    <3>1. CASE x \in Work(t)
      BY <1>2, <3>1
    <3>2. CASE x \notin Work(t)
      BY <1>2, <3>2 DEF Placed
    <3> QED
      BY <3>1, <3>2
  <2>4. /\ \A q \in B!Tracked' : Region(q)' \subseteq mapped' \ orphans'
        /\ \A u \in Threads : Busy(u)' => Work(u)' \subseteq mapped' \ orphans'
    BY <1>1, <1>4, <1>5, <1>6, <2>1, <2>2, SameMap DEF Same
  <2>5. /\ \A q, r \in B!Tracked' : q # r => Region(q)' \cap Region(r)' = {}
        /\ \A q \in B!Tracked', u \in Threads : Busy(u)' => Region(q)' \cap Work(u)' = {}
    BY <1>1, <1>5, <1>6, SameMap DEF Placed, Same
  <2>6. \A u, v \in Threads : Busy(u)' /\ Busy(v)' /\ u # v => Work(u)' \cap Work(v)' = {}
    BY <1>5, <1>6 DEF Placed, Same
  <2>7. \A x \in mapped' : \/ x \in orphans'
                           \/ \E q \in B!Tracked' : x \in Region(q)'
                           \/ \E u \in Threads : Busy(u)' /\ x \in Work(u)'
    BY <1>1, <1>5, <2>3, SameMap DEF Same
  <2> QED
    BY <2>4, <2>5, <2>6, <2>7 DEF Placed
<1> QED
  BY <1>4, <1>7, <1>8

(* Every step keeps the invariant. *)
LEMMA NextRegions ==
  ASSUME RegionsInv, ~LateFrees, [B!Next]_(B!vars) PROVE RegionsInv'
<1>1. CASE UNCHANGED B!vars
  <2>1. \A u \in Threads : Same(u)
    BY <1>1, Unmoved DEF B!vars
  <2>2. Typed'
    BY <1>1 DEF RegionsInv, Typed, B!vars
  <2>3. CallsOK' /\ Placed' /\ Owned'
    BY <1>1, <2>1, SameMap DEF RegionsInv, CallsOK, Placed, Owned, Same, B!vars
  <2> QED
    BY <2>2, <2>3 DEF RegionsInv
<1>2. CASE B!Next
  <2>1. PICK t \in Threads :
          \/ \E wanted \in 1 .. MaxSize : B!AllocateSlab(t, wanted) \/ B!Mmap(t, wanted)
          \/ B!StoreRegion(t) \/ B!AddBytes(t) \/ B!AddActive(t)
          \/ B!DeallocateSlab(t) \/ B!Deallocate(t)
          \/ B!LoadAndDelete(t) \/ B!Unknown(t) \/ B!SubBytes(t) \/ B!SubActive(t)
          \/ B!Munmap(t) \/ B!MunmapFails(t)
    BY <1>2 DEF B!Next
  <2>2. CASE B!DeallocateSlab(t) \/ \E wanted \in 1 .. MaxSize : B!AllocateSlab(t, wanted)
    BY <2>2, SlabKeeps
  <2>3. ASSUME NEW wanted \in 1 .. MaxSize, B!Mmap(t, wanted) PROVE RegionsInv'
    BY <2>3, MmapKeeps
  <2>4. CASE B!StoreRegion(t)
    BY <2>4, StoreKeeps
  <2>5. CASE B!AddBytes(t) \/ B!SubBytes(t) \/ B!SubActive(t)
    BY <2>5, CountKeeps
  <2>6. CASE B!AddActive(t)
    BY <2>6, ReturnKeeps
  <2>7. CASE B!Deallocate(t)
    BY <2>7, DeallocateKeeps
  <2>8. CASE B!LoadAndDelete(t)
    BY <2>8, DeleteKeeps
  <2>9. CASE B!Unknown(t)
    BY <2>9, UnknownKeeps
  <2>10. CASE B!Munmap(t) \/ B!MunmapFails(t)
    BY <2>10, UnmapKeeps
  <2> QED
    BY <2>1, <2>2, <2>3, <2>4, <2>5, <2>6, <2>7, <2>8, <2>9, <2>10
<1> QED
  BY <1>1, <1>2

allVars == <<vars, scanVars, api, refVars, blockVars>>

(* What is done with handles and references leaves the blocks alone. *)
LEMMA BlockSteps == [MCNext]_allVars => [B!Next]_(B!vars)
<1>1. UNCHANGED blockVars => UNCHANGED B!vars
  BY DEF blockVars, B!vars
<1>2. MCNext => B!Next \/ UNCHANGED blockVars
  BY DEF MCNext
<1>3. UNCHANGED allVars => UNCHANGED blockVars
  BY DEF allVars
<1> QED
  BY <1>1, <1>2, <1>3

(* The invariant holds in every state. *)
LEMMA RegionsAlways ==
  ASSUME ~LateFrees PROVE MCSpec => []RegionsInv
<1>1. MCInit => RegionsInv
  BY InitRegions DEF MCInit
<1>2. RegionsInv /\ [MCNext]_allVars => RegionsInv'
  BY BlockSteps, NextRegions
<1>3. MCSpec => MCInit /\ [][MCNext]_allVars
  BY DEF MCSpec, allVars
<1> QED
  BY <1>1, <1>2, <1>3, PTL

(* The memory of every block the program holds stays mapped, long enough   *)
(* and apart from the others, however calls race to free regions.          *)
THEOREM BlocksBacked ==
  ASSUME ~LateFrees PROVE MCSpec => []HeldBacked
<1>1. RegionsInv => HeldBacked
  BY DEF RegionsInv, Owned, Placed, Region, HeldBacked, B!HeldBacked
<1> QED
  BY <1>1, RegionsAlways, PTL

(* No mapped page is forgotten, but those whose munmap failed. *)
THEOREM PagesAccounted ==
  ASSUME ~LateFrees PROVE MCSpec => []MappedAccounted
<1>1. ASSUME RegionsInv PROVE MappedAccounted
  <2>1. \A t \in Threads : Busy(t) <=> t \in B!At({"store", "subBytes", "subActive", "unmap"})
    BY DEF Busy, B!At
  <2>2. \A p \in B!Tracked : Region(p) = B!PagesOf(p, regions[p])
    BY DEF Region
  <2>3. \A t \in Threads : Work(t) = B!PagesOf(call[t].block.ptr, call[t].size)
    BY DEF Work, Ptr
  <2>4. orphans \subseteq mapped
    BY <1>1 DEF RegionsInv, Typed
  <2> DEFINE S == UNION {B!PagesOf(p, regions[p]) : p \in B!Tracked}
             T == UNION {B!PagesOf(call[t].block.ptr, call[t].size) :
                           t \in B!At({"store", "subBytes", "subActive", "unmap"})}
  <2>5. S \subseteq mapped
    BY <1>1, <2>2 DEF RegionsInv, Placed
  <2>6. T \subseteq mapped
    BY <1>1, <2>1, <2>3 DEF RegionsInv, Placed, B!At
  <2>7. ASSUME NEW x \in mapped PROVE x \in S \cup T \cup orphans
    <3>1. CASE x \in orphans
      BY <3>1
    <3>2. ASSUME NEW p \in B!Tracked, x \in Region(p) PROVE x \in S
      BY <2>2, <3>2
    <3>3. ASSUME NEW t \in Threads, Busy(t), x \in Work(t) PROVE x \in T
      BY <2>1, <2>3, <3>3
    <3> HIDE DEF S, T
    <3> QED
      BY <1>1, <3>1, <3>2, <3>3 DEF RegionsInv, Placed
  <2> HIDE DEF S, T
  <2>8. mapped = S \cup T \cup orphans
    BY <2>4, <2>5, <2>6, <2>7
  <2> QED
    BY <2>8 DEF MappedAccounted, B!MappedAccounted, S, T
<1> QED
  BY <1>1, RegionsAlways, PTL

-----------------------------------------------------------------------------
(* The address space is finite. *)
LEMMA AddressFinite == IsFiniteSet(B!Address)
<1>1. 1 \in Int /\ Pages \in Int
  OBVIOUS
<1>2. IsFiniteSet(1 .. Pages)
  BY <1>1, FS_Interval
<1> QED
  BY <1>2 DEF B!Address

(* The blocks' own instance of the library's operator. *)
LEMMA BlockCardinality == \A S : B!Cardinality(S) = Cardinality(S)
  BY DEF B!Cardinality, Cardinality

(* The statistics: the size that each call is about. *)
Sized == [t \in Threads |-> call[t].size]

(* The sizes of the regions in the map, of those that have left it and of  *)
(* those that are there before they are counted, and how many they are.    *)
Recorded == SumOf(regions, B!Tracked)
Leaving  == SumOf(Sized, B!At({"subBytes"}))
Coming   == SumOf(Sized, B!At({"addBytes"}))
Fewer    == Cardinality(B!At({"subBytes", "subActive"}))
More     == Cardinality(B!At({"addBytes", "addActive"}))

(* The inductive invariant: what StatsExact says, with the sums as counts. *)
StatsInv ==
  /\ bytesAllocated = (Recorded + Leaving - Coming) % Word
  /\ activeRegions = Cardinality(B!Tracked) + Fewer - More

(* The library's sums over the map and over the calls are such counts. *)
LEMMA SumsCounted ==
  ASSUME Typed, IsFiniteSet(Threads)
  PROVE  /\ B!MapThenSumSet(LAMBDA p : regions[p], B!Tracked) = Recorded
         /\ \A steps : B!MapThenSumSet(B!SizeOf, B!At(steps)) = SumOf(Sized, B!At(steps))
<1>1. B!MapThenSumSet(LAMBDA p : regions[p], B!Tracked) = Recorded
  <2> DEFINE it == CHOOSE it : SumsUp(it, regions, B!Tracked)
  <2>1. IsFiniteSet(B!Tracked) /\ \A p \in B!Tracked : regions[p] \in Nat
    <3>1. IsFiniteSet(B!Address)
      BY AddressFinite
    <3> QED
      BY <3>1, FS_Subset, Sizes, RoundedHolds DEF B!Tracked
  <2>2. SumsUp(it, regions, B!Tracked)
    <3>1. \E g : SumsUp(g, regions, B!Tracked)
      BY <2>1, SumSolves
    <3> QED
      BY <3>1
  <2>3. it[B!Tracked] = Recorded
    <3> HIDE DEF it
    <3> QED
      BY <2>1, <2>2, SumSolves DEF Recorded
  <2>4. B!MapThenSumSet(LAMBDA p : regions[p], B!Tracked) = it[B!Tracked]
    BY DEF B!MapThenSumSet, B!MapThenFoldSet, SumsUp
  <2> QED
    BY <2>3, <2>4
<1>2. ASSUME NEW steps PROVE B!MapThenSumSet(B!SizeOf, B!At(steps)) = SumOf(Sized, B!At(steps))
  <2> DEFINE S == B!At(steps)
             Fold(g) == g = [s \in SUBSET S |->
                               IF s = {} THEN 0
                               ELSE call[CHOOSE x \in s : TRUE].size
                                      + g[s \ {CHOOSE x \in s : TRUE}]]
             it == CHOOSE it : Fold(it)
  <2>1. IsFiniteSet(S) /\ S \subseteq Threads
    BY FS_Subset DEF B!At
  <2>2. \A t \in S : Sized[t] \in Nat
    BY <2>1, RoundedHolds DEF Sized, Typed
  <2>3. ASSUME NEW g PROVE Fold(g) <=> SumsUp(g, Sized, S)
    <3>1. \A s \in SUBSET S : s # {} =>
            call[CHOOSE x \in s : TRUE].size = Sized[CHOOSE x \in s : TRUE]
      BY <2>1 DEF Sized
    <3> HIDE DEF S
    <3> QED
      BY <3>1 DEF SumsUp
  <2>4. Fold(it)
    <3>1. \E g : Fold(g)
      <4>1. \E g : SumsUp(g, Sized, S)
        BY <2>1, <2>2, SumSolves
      <4> HIDE DEF Fold
      <4> QED
        BY <4>1, <2>3
    <3> HIDE DEF Fold
    <3> QED
      BY <3>1
  <2>5. it[S] = SumOf(Sized, S)
    <3> HIDE DEF it, Fold, S
    <3> QED
      BY <2>1, <2>2, <2>3, <2>4, SumSolves
  <2>6. B!MapThenSumSet(B!SizeOf, S) = it[S]
    BY DEF B!MapThenSumSet, B!MapThenFoldSet, B!SizeOf
  <2> QED
    BY <2>5, <2>6
<1> QED
  BY <1>1, <1>2

(* What a step of t makes of the counts of calls. *)
LEMMA CallMoves ==
  ASSUME IsFiniteSet(Threads), NEW t \in Threads,
         Sized \in [Threads -> Nat], Sized' \in [Threads -> Nat],
         \A u \in Threads \ {t} : step[u] = step'[u] /\ Sized[u] = Sized'[u]
  PROVE  \A steps :
           /\ Changes(SumOf(Sized, B!At(steps)), SumOf(Sized, B!At(steps))',
                      IF step[t] \in steps THEN Sized[t] ELSE 0,
                      IF step'[t] \in steps THEN Sized'[t] ELSE 0)
           /\ Changes(Cardinality(B!At(steps)), Cardinality(B!At(steps))',
                      Flag(step[t] \in steps), Flag(step'[t] \in steps))
<1> TAKE steps
<1>1. PICK T, p, q, v, w, A, D :
        /\ T = Threads /\ p = step /\ q = step' /\ v = Sized /\ w = Sized'
        /\ A = B!At(steps) /\ D = B!At(steps)'
  OBVIOUS
<1>2. A = Here(T, p, steps) /\ D = Here(T, q, steps)
  BY <1>1 DEF B!At, Here
<1>3. MovesOne(T, t, p, q, v, w)
  BY <1>1 DEF MovesOne
<1>4. /\ Changes(SumOf(v, A), SumOf(w, D), IF p[t] \in steps THEN v[t] ELSE 0,
                                          IF q[t] \in steps THEN w[t] ELSE 0)
      /\ Changes(Cardinality(A), Cardinality(D), Flag(p[t] \in steps), Flag(q[t] \in steps))
  BY <1>2, <1>3, OnePlaced
<1>5. SumOf(Sized, B!At(steps))' = SumOf(w, D) /\ SumOf(Sized, B!At(steps)) = SumOf(v, A)
  BY <1>1
<1>6. Cardinality(B!At(steps))' = Cardinality(D) /\ Cardinality(B!At(steps)) = Cardinality(A)
  BY <1>1
<1>7. v[t] = Sized[t] /\ w[t] = Sized'[t] /\ p[t] = step[t] /\ q[t] = step'[t]
  BY <1>1
<1> QED
  BY <1>4, <1>5, <1>6, <1>7

(* What a step that stores n at p makes of the counts of regions. *)
LEMMA MapMoves ==
  ASSUME NEW p \in B!Address, NEW n \in Nat,
         \A q \in B!Address : regions[q] \in Nat, regions \in [B!Address -> Int],
         regions' = [regions EXCEPT ![p] = n]
  PROVE  /\ Recorded \in Nat /\ Recorded' = Recorded - regions[p] + n
         /\ Cardinality(B!Tracked) \in Nat
         /\ Cardinality(B!Tracked)' = Cardinality(B!Tracked)
              - Flag(regions[p] # 0) + Flag(n # 0)
<1>1. IsFiniteSet(B!Address)
  BY AddressFinite
<1>2. /\ IsFiniteSet(B!Tracked) /\ B!Tracked \in SUBSET B!Address /\ B!Tracked' \in SUBSET B!Address
      /\ B!Tracked \ {p} = B!Tracked' \ {p}
      /\ (p \in B!Tracked <=> regions[p] # 0) /\ (p \in B!Tracked' <=> n # 0)
  BY <1>1, FS_Subset DEF B!Tracked
<1>3. Cardinality(B!Tracked)' = Cardinality(B!Tracked) - Flag(p \in B!Tracked) + Flag(p \in B!Tracked')
  BY <1>2, OneMoved
<1>4. \A q \in B!Address : /\ regions[q] \in Nat /\ regions'[q] \in Nat
                         /\ (q # p => regions[q] = regions'[q])
  OBVIOUS
<1>5. /\ Recorded \in Nat
      /\ Recorded' = Recorded - (IF p \in B!Tracked THEN regions[p] ELSE 0)
                              + (IF p \in B!Tracked' THEN regions'[p] ELSE 0)
  <2>1. PICK E, D, C, v, w :
          /\ E = B!Address /\ D = B!Tracked /\ C = B!Tracked' /\ v = regions /\ w = regions'
    OBVIOUS
  <2>2. /\ SumOf(v, D) \in Nat
        /\ SumOf(w, C) = SumOf(v, D) - (IF p \in D THEN v[p] ELSE 0)
                                     + (IF p \in C THEN w[p] ELSE 0)
    <3>1. /\ IsFiniteSet(E) /\ D \in SUBSET E /\ C \in SUBSET E /\ p \in E
          /\ D \ {p} = C \ {p}
          /\ \A q \in E : v[q] \in Nat /\ w[q] \in Nat /\ (q # p => v[q] = w[q])
      BY <1>1, <1>2, <1>4, <2>1
    <3> QED
      BY ONLY <3>1, SumMoved
  <2> QED
    BY <2>1, <2>2 DEF Recorded
<1>6. regions'[p] = n
  OBVIOUS
<1> QED
  BY <1>2, <1>3, <1>5, <1>6, FS_CardinalityType DEF Flag

(* What each step of a goroutine makes of all the counts of calls. *)
LEMMA StepCounts ==
  ASSUME IsFiniteSet(Threads), NEW t \in Threads, Typed, Typed',
         \A u \in Threads \ {t} : step'[u] = step[u] /\ call'[u] = call[u]
  PROVE  /\ Changes(Leaving, Leaving', IF step[t] = "subBytes" THEN call[t].size ELSE 0,
                                      IF step'[t] = "subBytes" THEN call'[t].size ELSE 0)
         /\ Changes(Coming, Coming', IF step[t] = "addBytes" THEN call[t].size ELSE 0,
                                    IF step'[t] = "addBytes" THEN call'[t].size ELSE 0)
         /\ Changes(Fewer, Fewer', Flag(step[t] \in {"subBytes", "subActive"}),
                                  Flag(step'[t] \in {"subBytes", "subActive"}))
         /\ Changes(More, More', Flag(step[t] \in {"addBytes", "addActive"}),
                                Flag(step'[t] \in {"addBytes", "addActive"}))
         /\ call[t].size \in Nat /\ call'[t].size \in Nat
<1>1. \A n \in {0} \cup Rounded : n \in Nat
  BY RoundedHolds
<1>2. Sized \in [Threads -> Nat]
  BY <1>1 DEF Sized, Typed
<1>3. Sized' \in [Threads -> Nat]
  BY <1>1 DEF Sized, Typed
<1>4. \A u \in Threads \ {t} : step[u] = step'[u] /\ Sized[u] = Sized'[u]
  BY DEF Sized
<1>5. Sized[t] = call[t].size /\ Sized'[t] = call'[t].size
  BY DEF Sized
<1>6. \A steps :
        /\ Changes(SumOf(Sized, B!At(steps)), SumOf(Sized, B!At(steps))',
                   IF step[t] \in steps THEN Sized[t] ELSE 0,
                   IF step'[t] \in steps THEN Sized'[t] ELSE 0)
        /\ Changes(Cardinality(B!At(steps)), Cardinality(B!At(steps))',
                   Flag(step[t] \in steps), Flag(step'[t] \in steps))
  BY <1>2, <1>3, <1>4, CallMoves
<1>7. /\ Changes(Leaving, Leaving', IF step[t] \in {"subBytes"} THEN Sized[t] ELSE 0,
                                   IF step'[t] \in {"subBytes"} THEN Sized'[t] ELSE 0)
      /\ Changes(Coming, Coming', IF step[t] \in {"addBytes"} THEN Sized[t] ELSE 0,
                                 IF step'[t] \in {"addBytes"} THEN Sized'[t] ELSE 0)
  BY <1>6 DEF Leaving, Coming
<1>8. /\ Changes(Fewer, Fewer', Flag(step[t] \in {"subBytes", "subActive"}),
                               Flag(step'[t] \in {"subBytes", "subActive"}))
      /\ Changes(More, More', Flag(step[t] \in {"addBytes", "addActive"}),
                             Flag(step'[t] \in {"addBytes", "addActive"}))
  BY <1>6 DEF Fewer, More
<1>9. \A s, l : s \in {l} <=> s = l
  OBVIOUS
<1> QED
  BY <1>2, <1>3, <1>5, <1>7, <1>8, <1>9

(* The steps that count. *)
Counting == {"addBytes", "addActive", "subBytes", "subActive"}

(* A step that counts nothing. *)
LEMMA QuietCounts ==
  ASSUME IsFiniteSet(Threads), NEW t \in Threads, Typed, Typed', StatsInv,
         \A u \in Threads \ {t} : step'[u] = step[u] /\ call'[u] = call[u],
         step[t] \notin Counting, step'[t] \notin Counting, UNCHANGED <<regions, B!stats>>
  PROVE  StatsInv'
<1>1. Leaving' = Leaving /\ Coming' = Coming /\ Fewer' = Fewer /\ More' = More
  BY StepCounts DEF Changes, Flag, Counting
<1>2. Recorded' = Recorded /\ B!Tracked' = B!Tracked
  BY DEF Recorded, B!Tracked
<1> QED
  BY <1>1, <1>2 DEF StatsInv

(* The pages of the map: what MapMoves needs. *)
LEMMA MapTyped ==
  ASSUME Typed
  PROVE  regions \in [B!Address -> Int] /\ \A q \in B!Address : regions[q] \in Nat
<1>1. \A n \in {0} \cup Rounded : n \in Nat
  BY RoundedHolds
<1> QED
  BY <1>1 DEF Typed

(* The counts of the map are numbers. *)
LEMMA RecordedNat ==
  ASSUME Typed PROVE Recorded \in Nat /\ Cardinality(B!Tracked) \in Nat
<1>1. IsFiniteSet(B!Address)
  BY AddressFinite
<1>2. IsFiniteSet(B!Tracked) /\ B!Tracked \subseteq B!Address
  BY <1>1, FS_Subset DEF B!Tracked
<1>3. \A p \in B!Address : regions[p] \in Nat
  BY MapTyped
<1>4. SumOf(regions, B!Tracked) \in Nat
  BY <1>1, <1>2, <1>3, SumFacts
<1> QED
  BY <1>2, <1>4, FS_CardinalityType DEF Recorded

(* A region that is stored is counted as coming. *)
LEMMA StoreCounts ==
  ASSUME IsFiniteSet(Threads), NEW t \in Threads, RegionsInv, Typed', StatsInv,
         B!StoreRegion(t)
  PROVE  StatsInv'
<1> USE DEF RegionsInv
<1>1. PICK p \in B!Address, n \in Rounded : p = Ptr(t) /\ n = call[t].size
  BY DEF B!StoreRegion, CallsOK, Busy
<1>2. /\ step[t] = "store" /\ step' = [step EXCEPT ![t] = "addBytes"]
      /\ regions' = [regions EXCEPT ![p] = n]
      /\ UNCHANGED <<B!stats, call>>
  BY <1>1 DEF B!StoreRegion, Ptr
<1>3. n \in Nat /\ n # 0 /\ p \in Work(t) /\ Busy(t)
  BY <1>1, <1>2, Sizes, RoundedHolds DEF Busy
<1>4. p \notin B!Tracked
  BY <1>3, Sizes DEF Placed
<1>5. regions[p] = 0
  BY <1>4 DEF B!Tracked
<1>6. /\ Recorded \in Nat /\ Recorded' = Recorded + n
      /\ Cardinality(B!Tracked) \in Nat /\ Cardinality(B!Tracked)' = Cardinality(B!Tracked) + 1
  <2>1. regions' = [regions EXCEPT ![p] = n] /\ p \in B!Address /\ n \in Nat
    BY <1>2, <1>3
  <2>2. regions \in [B!Address -> Int] /\ \A q \in B!Address : regions[q] \in Nat
    BY MapTyped
  <2>3. /\ Recorded \in Nat /\ Recorded' = Recorded - regions[p] + n
        /\ Cardinality(B!Tracked) \in Nat
        /\ Cardinality(B!Tracked)' = Cardinality(B!Tracked) - Flag(regions[p] # 0) + Flag(n # 0)
    BY <2>1, <2>2, MapMoves
  <2> QED
    BY <1>3, <1>5, <2>3 DEF Flag
<1>7. step'[t] = "addBytes" /\ \A u \in Threads \ {t} : step'[u] = step[u] /\ call'[u] = call[u]
  BY <1>2 DEF Typed
<1>8. /\ Leaving \in Nat /\ Leaving' = Leaving /\ Coming \in Nat /\ Coming' = Coming + n
      /\ Fewer \in Nat /\ Fewer' = Fewer /\ More \in Nat /\ More' = More + 1
  BY <1>1, <1>2, <1>3, <1>7, StepCounts DEF Changes, Flag
<1>9. (Recorded + Leaving - Coming)' = Recorded + Leaving - Coming
  BY <1>3, <1>6, <1>8
<1> QED
  BY <1>2, <1>6, <1>8, <1>9 DEF StatsInv

(* A region that is counted comes no more. *)
LEMMA AddCounts ==
  ASSUME IsFiniteSet(Threads), NEW t \in Threads, RegionsInv, Typed', StatsInv,
         B!AddBytes(t)
  PROVE  StatsInv'
<1> USE DEF RegionsInv
<1>1. /\ step[t] = "addBytes" /\ step' = [step EXCEPT ![t] = "addActive"]
      /\ bytesAllocated' = (bytesAllocated + call[t].size) % Word
      /\ UNCHANGED <<regions, activeRegions, call>>
  BY DEF B!AddBytes
<1>2. step'[t] = "addActive" /\ \A u \in Threads \ {t} : step'[u] = step[u] /\ call'[u] = call[u]
  BY <1>1 DEF Typed
<1>3. PICK n \in Nat : n = call[t].size
  BY <1>2, StepCounts
<1>4. /\ Leaving \in Nat /\ Leaving' = Leaving /\ Coming \in Nat /\ Coming' = Coming - n
      /\ Fewer' = Fewer /\ More \in Nat /\ More' = More
  BY <1>1, <1>2, <1>3, StepCounts DEF Changes, Flag
<1>5. Recorded' = Recorded /\ B!Tracked' = B!Tracked /\ Recorded \in Nat
  BY <1>1, RecordedNat DEF Recorded, B!Tracked
<1>6. PICK x \in Int : x = Recorded + Leaving - Coming
  BY <1>4, <1>5
<1>7. ((x % Word) + n) % Word = (x + n) % Word
  BY RemainderAdds
<1>8. (Recorded + Leaving - Coming)' = x + n
  BY <1>4, <1>5, <1>6
<1>9. bytesAllocated' = (x + n) % Word
  BY <1>1, <1>3, <1>6, <1>7 DEF StatsInv
<1> QED
  BY <1>1, <1>4, <1>5, <1>8, <1>9 DEF StatsInv

(* Allocate returns a region that is counted. *)
LEMMA ReturnCounts ==
  ASSUME IsFiniteSet(Threads), NEW t \in Threads, RegionsInv, Typed', StatsInv,
         B!AddActive(t)
  PROVE  StatsInv'
<1> USE DEF RegionsInv
<1>1. /\ step[t] = "addActive" /\ step' = [step EXCEPT ![t] = "idle"]
      /\ activeRegions' = activeRegions + 1 /\ UNCHANGED <<regions, bytesAllocated>>
      /\ call' = [call EXCEPT ![t] = B!NoCall]
  BY DEF B!AddActive, B!Return
<1>2. step'[t] = "idle" /\ \A u \in Threads \ {t} : step'[u] = step[u] /\ call'[u] = call[u]
  BY <1>1 DEF Typed
<1>3. /\ Leaving' = Leaving /\ Coming' = Coming
      /\ Fewer \in Nat /\ Fewer' = Fewer /\ More \in Nat /\ More' = More - 1
  BY <1>1, <1>2, StepCounts DEF Changes, Flag
<1>4. Recorded' = Recorded /\ B!Tracked' = B!Tracked /\ Cardinality(B!Tracked) \in Nat
  BY <1>1, RecordedNat DEF Recorded, B!Tracked
<1>5. activeRegions' = (Cardinality(B!Tracked) + Fewer - More)'
  BY <1>1, <1>3, <1>4 DEF StatsInv
<1> QED
  BY <1>1, <1>3, <1>4, <1>5 DEF StatsInv

(* regions.LoadAndDelete: the region is leaving. *)
LEMMA DeleteCounts ==
  ASSUME IsFiniteSet(Threads), NEW t \in Threads, RegionsInv, Typed', StatsInv,
         B!LoadAndDelete(t)
  PROVE  StatsInv'
<1> USE DEF RegionsInv
<1>1. PICK p \in B!Address : p = Ptr(t)
  BY DEF B!LoadAndDelete, CallsOK, Deleting
<1>2. PICK n \in Nat : n = regions[p]
  BY <1>1, MapTyped
<1>3. /\ step[t] = "delete" /\ step' = [step EXCEPT ![t] = "subBytes"] /\ n # 0
      /\ call' = [call EXCEPT ![t].size = n]
      /\ regions' = [regions EXCEPT ![p] = 0] /\ UNCHANGED B!stats
  BY <1>1, <1>2 DEF B!LoadAndDelete, Ptr
<1>4. /\ step'[t] = "subBytes" /\ call'[t].size = n
      /\ \A u \in Threads \ {t} : step'[u] = step[u] /\ call'[u] = call[u]
  BY <1>3 DEF Typed
<1>5. /\ Recorded \in Nat /\ Recorded' = Recorded - n
      /\ Cardinality(B!Tracked) \in Nat /\ Cardinality(B!Tracked)' = Cardinality(B!Tracked) - 1
  <2>1. regions' = [regions EXCEPT ![p] = 0] /\ p \in B!Address /\ 0 \in Nat
    BY <1>3
  <2>2. regions \in [B!Address -> Int] /\ \A q \in B!Address : regions[q] \in Nat
    BY MapTyped
  <2>3. /\ Recorded \in Nat /\ Recorded' = Recorded - regions[p] + 0
        /\ Cardinality(B!Tracked) \in Nat
        /\ Cardinality(B!Tracked)' = Cardinality(B!Tracked) - Flag(regions[p] # 0) + Flag(0 # 0)
    BY <2>1, <2>2, MapMoves
  <2> QED
    BY <1>2, <1>3, <2>3 DEF Flag
<1>6. /\ Leaving \in Nat /\ Leaving' = Leaving + n /\ Coming \in Nat /\ Coming' = Coming
      /\ Fewer \in Nat /\ Fewer' = Fewer + 1 /\ More \in Nat /\ More' = More
  BY <1>3, <1>4, StepCounts DEF Changes, Flag
<1>7. (Recorded + Leaving - Coming)' = Recorded + Leaving - Coming
  BY <1>5, <1>6
<1>8. (Cardinality(B!Tracked) + Fewer - More)' = Cardinality(B!Tracked) + Fewer - More
  BY <1>5, <1>6
<1> QED
  BY <1>3, <1>7, <1>8 DEF StatsInv

(* The addition of a complement subtracts. *)
LEMMA SubCounts ==
  ASSUME IsFiniteSet(Threads), NEW t \in Threads, RegionsInv, Typed', StatsInv,
         B!SubBytes(t)
  PROVE  StatsInv'
<1> USE DEF RegionsInv
<1>1. /\ step[t] = "subBytes" /\ step' = [step EXCEPT ![t] = "subActive"]
      /\ bytesAllocated' = (bytesAllocated + (Word - 1 - call[t].size + 1)) % Word
      /\ UNCHANGED <<regions, activeRegions, call>>
  BY DEF B!SubBytes
<1>2. step'[t] = "subActive" /\ \A u \in Threads \ {t} : step'[u] = step[u] /\ call'[u] = call[u]
  BY <1>1 DEF Typed
<1>3. PICK n \in Nat : n = call[t].size
  BY <1>2, StepCounts
<1>4. /\ Leaving \in Nat /\ Leaving' = Leaving - n /\ Coming \in Nat /\ Coming' = Coming
      /\ Fewer' = Fewer /\ More' = More
  BY <1>1, <1>2, <1>3, StepCounts DEF Changes, Flag
<1>5. Recorded' = Recorded /\ B!Tracked' = B!Tracked /\ Recorded \in Nat
  BY <1>1, RecordedNat DEF Recorded, B!Tracked
<1>6. PICK x \in Int : x = Recorded + Leaving - Coming
  BY <1>4, <1>5
<1>7. PICK y \in Int : y = Word - n
  OBVIOUS
<1>8. ((x % Word) + y) % Word = (x - n) % Word
  <2>1. ((x % Word) + y) % Word = (x + y) % Word
    BY RemainderAdds
  <2>2. x + y = Word * 1 + (x - n)
    BY <1>7
  <2>3. (Word * 1 + (x - n)) % Word = (x - n) % Word
    <3>1. PICK z \in Int : z = x - n
      OBVIOUS
    <3>2. PICK q \in Int, r \in 0 .. Word - 1 : z = Word * q + r
      BY Division
    <3>3. Word * (q + 1) = Word * q + Word * 1 /\ q + 1 \in Int /\ Word * q \in Int
      BY Distributes
    <3>4. Word * 1 + z = Word * (q + 1) + r /\ Word * 1 + z \in Int
      BY <3>2, <3>3
    <3>5. Word \in Nat \ {0}
      OBVIOUS
    <3>6. z % Word = r
      BY <3>2, <3>5, Quotients
    <3>7. (Word * 1 + z) % Word = r
      BY <3>3, <3>4, <3>5, Quotients
    <3> QED
      BY <3>1, <3>6, <3>7
  <2> QED
    BY <2>1, <2>2, <2>3
<1>9. (Recorded + Leaving - Coming)' = x - n
  BY <1>4, <1>5, <1>6
<1>10. bytesAllocated' = (x - n) % Word
  <2>1. Word - 1 - n + 1 = y
    BY <1>7
  <2>2. bytesAllocated = x % Word
    BY <1>6 DEF StatsInv
  <2> QED
    BY <1>1, <1>3, <1>8, <2>1, <2>2
<1> QED
  BY <1>1, <1>4, <1>5, <1>9, <1>10 DEF StatsInv

(* The region is counted no more. *)
LEMMA LeftCounts ==
  ASSUME IsFiniteSet(Threads), NEW t \in Threads, RegionsInv, Typed', StatsInv,
         B!SubActive(t)
  PROVE  StatsInv'
<1> USE DEF RegionsInv
<1>1. /\ step[t] = "subActive" /\ step' = [step EXCEPT ![t] = "unmap"]
      /\ activeRegions' = activeRegions - 1 /\ UNCHANGED <<regions, bytesAllocated, call>>
  BY DEF B!SubActive
<1>2. step'[t] = "unmap" /\ \A u \in Threads \ {t} : step'[u] = step[u] /\ call'[u] = call[u]
  BY <1>1 DEF Typed
<1>3. /\ Leaving' = Leaving /\ Coming' = Coming
      /\ Fewer \in Nat /\ Fewer' = Fewer - 1 /\ More \in Nat /\ More' = More
  BY <1>1, <1>2, StepCounts DEF Changes, Flag
<1>4. Recorded' = Recorded /\ B!Tracked' = B!Tracked /\ Cardinality(B!Tracked) \in Nat
  BY <1>1, RecordedNat DEF Recorded, B!Tracked
<1>5. activeRegions' = (Cardinality(B!Tracked) + Fewer - More)'
  BY <1>1, <1>3, <1>4 DEF StatsInv
<1> QED
  BY <1>1, <1>3, <1>4, <1>5 DEF StatsInv

(* At first there is nothing to count. *)
LEMMA InitCounts == B!Init => StatsInv
<1> SUFFICES ASSUME B!Init PROVE StatsInv
  OBVIOUS
<1>1. B!Tracked = {} /\ \A steps : "idle" \notin steps => B!At(steps) = {}
  BY DEF B!Init, B!Tracked, B!At
<1>2. \A w : SumOf(w, {}) = 0
  BY SumZero
<1>3. Cardinality({}) = 0
  BY FS_EmptySet
<1>4. Recorded = 0 /\ Leaving = 0 /\ Coming = 0
  BY <1>1, <1>2 DEF Recorded, Leaving, Coming
<1>5. Cardinality(B!Tracked) = 0 /\ Fewer = 0 /\ More = 0
  BY <1>1, <1>3 DEF Fewer, More
<1>6. 0 = 0 % Word /\ bytesAllocated = 0 /\ activeRegions = 0
  BY DEF B!Init
<1> QED
  BY <1>4, <1>5, <1>6 DEF StatsInv

(* Every step counts what it does. *)
LEMMA NextCounts ==
  ASSUME IsFiniteSet(Threads), RegionsInv, Typed', StatsInv, [B!Next]_(B!vars)
  PROVE  StatsInv'
<1>0. Typed
  BY DEF RegionsInv
<1>1. CASE UNCHANGED B!vars
  BY <1>1 DEF B!vars, StatsInv, Recorded, Leaving, Coming, Fewer, More, Sized,
       B!Tracked, B!At
<1>2. ASSUME NEW t \in Threads, NEW wanted \in 1 .. MaxSize, B!AllocateSlab(t, wanted)
      PROVE  StatsInv'
  <2>1. step[t] = "idle" /\ UNCHANGED <<regions, B!stats, step, call>>
    BY <1>2 DEF B!AllocateSlab
  <2> QED
    BY <1>0, <2>1, QuietCounts DEF Counting
<1>3. ASSUME NEW t \in Threads, NEW wanted \in 1 .. MaxSize, B!Mmap(t, wanted)
      PROVE  StatsInv'
  <2>1. /\ step[t] = "idle" /\ step'[t] = "store" /\ UNCHANGED <<regions, B!stats>>
        /\ \A u \in Threads \ {t} : step'[u] = step[u] /\ call'[u] = call[u]
    BY <1>0, <1>3 DEF B!Mmap, Typed
  <2> QED
    BY <1>0, <2>1, QuietCounts DEF Counting
<1>4. ASSUME NEW t \in Threads, B!DeallocateSlab(t) PROVE StatsInv'
  <2>1. step[t] = "idle" /\ UNCHANGED <<regions, B!stats, step, call>>
    BY <1>4 DEF B!DeallocateSlab
  <2> QED
    BY <1>0, <2>1, QuietCounts DEF Counting
<1>5. ASSUME NEW t \in Threads, B!Deallocate(t) PROVE StatsInv'
  <2>1. /\ step[t] = "idle" /\ step'[t] = "delete" /\ UNCHANGED <<regions, B!stats>>
        /\ \A u \in Threads \ {t} : step'[u] = step[u] /\ call'[u] = call[u]
    BY <1>0, <1>5 DEF B!Deallocate, Typed
  <2> QED
    BY <1>0, <2>1, QuietCounts DEF Counting
<1>6. ASSUME NEW t \in Threads, B!Unknown(t) PROVE StatsInv'
  <2>1. /\ step[t] = "delete" /\ step'[t] = "idle" /\ UNCHANGED <<regions, B!stats>>
        /\ \A u \in Threads \ {t} : step'[u] = step[u] /\ call'[u] = call[u]
    BY <1>0, <1>6 DEF B!Unknown, B!Return, Typed
  <2> QED
    BY <1>0, <2>1, QuietCounts DEF Counting
<1>7. ASSUME NEW t \in Threads, B!Munmap(t) \/ B!MunmapFails(t) PROVE StatsInv'
  <2>1. /\ step[t] = "unmap" /\ step'[t] = "idle" /\ UNCHANGED <<regions, B!stats>>
        /\ \A u \in Threads \ {t} : step'[u] = step[u] /\ call'[u] = call[u]
    BY <1>0, <1>7 DEF B!Munmap, B!MunmapFails, B!Return, Typed
  <2> QED
    BY <1>0, <2>1, QuietCounts DEF Counting
<1>8. ASSUME NEW t \in Threads,
             \/ B!StoreRegion(t) \/ B!AddBytes(t) \/ B!AddActive(t)
             \/ B!LoadAndDelete(t) \/ B!SubBytes(t) \/ B!SubActive(t)
      PROVE  StatsInv'
  BY <1>8, StoreCounts, AddCounts, ReturnCounts, DeleteCounts, SubCounts, LeftCounts
<1> QED
  BY <1>1, <1>2, <1>3, <1>4, <1>5, <1>6, <1>7, <1>8 DEF B!Next

(* bytesAllocated and activeRegions, whatever calls interleave, are off    *)
(* only by the calls in progress (Allocate and Deallocate of mmap.go).     *)
THEOREM StatsKept ==
  ASSUME ~LateFrees, IsFiniteSet(Threads) PROVE MCSpec => []StatsExact
<1>1. MCInit => StatsInv
  BY InitCounts DEF MCInit
<1>2. RegionsInv /\ RegionsInv' /\ StatsInv /\ [MCNext]_allVars => StatsInv'
  BY BlockSteps, NextCounts DEF RegionsInv
<1>3. ASSUME RegionsInv, StatsInv PROVE StatsExact
  <2>1. Typed
    BY <1>3 DEF RegionsInv
  <2>2. /\ B!MapThenSumSet(LAMBDA p : regions[p], B!Tracked) = Recorded
        /\ B!MapThenSumSet(B!SizeOf, B!At({"subBytes"})) = Leaving
        /\ B!MapThenSumSet(B!SizeOf, B!At({"addBytes"})) = Coming
    BY <2>1, SumsCounted DEF Leaving, Coming
  <2>3. /\ bytesAllocated = (Recorded + Leaving - Coming) % Word
        /\ activeRegions = Cardinality(B!Tracked)
                           + Cardinality(B!At({"subBytes", "subActive"}))
                           - Cardinality(B!At({"addBytes", "addActive"}))
    BY <1>3 DEF StatsInv, Fewer, More
  <2> QED
    BY <2>2, <2>3, BlockCardinality DEF StatsExact, B!StatsExact
<1>4. MCSpec => MCInit /\ [][MCNext]_allVars
  BY DEF MCSpec, allVars
<1> QED
  BY <1>1, <1>2, <1>3, <1>4, RegionsAlways, PTL
=============================================================================
