---------------------------- MODULE ClientsProof ----------------------------
(***************************************************************************)
(* Proofs about the ways a program holds on to a slab, for any sets of     *)
(* slabs, goroutines and reference objects and any number of shards:       *)
(* HandleAllocator, with any number of handles below half of the number of *)
(* generations, when no two calls of FreeHandle on one handle overlap;     *)
(* ConcurrentHandleAllocator; SlabRef, when no client releases a reference *)
(* whose object was handed out again or allocates while a second Release   *)
(* of a reference is in progress; and all of them put together.            *)
(***************************************************************************)
EXTENDS MCClients, CountingLemmas

-----------------------------------------------------------------------------
(* HandleAllocator *)

(* The clients the theorems are about: see hazard handle.go:87 for more    *)
(* handles, and run double_free_race for calls that overlap.               *)
Careful == ~OverlapFrees /\ 2 * MaxIssued < Generations /\ IsFiniteSet(Threads)

(* The calls that have claimed a slab and issue a handle for it. *)
Issuers == {t \in Threads : pc[t] = "issue"}

(* The slab and the generation of handle k, and whether it is current. *)
Id(k)  == handles[k].id
Gen(k) == handles[k].gen
Cur(k) == k \in DOMAIN handles /\ generations[Id(k)] = Gen(k)

(* Who calls FreeHandle has a handle that is not live, and to itself. *)
FreersOK ==
  /\ \A t \in Threads : (handle[t] # 0) <=> (pc[t] \in {"free_load", "free_bump", "free_slab"})
  /\ \A t \in Threads : handle[t] # 0 => handle[t] \in (DOMAIN handles) \ live
  /\ \A t, u \in Threads : handle[t] # 0 /\ handle[t] = handle[u] => t = u
  /\ \A t \in Threads : pc[t] = "issue" => slab[t] \in Slabs

(* Each of the handles so far advanced its slab at most twice, and no      *)
(* handle is ahead of its slab.                                            *)
NoWrap ==
  /\ \A k \in DOMAIN handles : Gen(k) <= 2 * k - 1 /\ Gen(k) <= generations[Id(k)]
  /\ \A s \in Slabs : generations[s] <= 2 * Len(handles)

(* The bound on handles counts those about to be issued. *)
Bounded == Len(handles) + Cardinality(Issuers) <= MaxIssued

(* The generation of a slab tells its current handle from all others. *)
Marked ==
  /\ \A k \in live : Cur(k)
  /\ \A t \in Threads : pc[t] = "free_bump" => Cur(handle[t])
  /\ \A k \in DOMAIN handles : Cur(k) => Id(k) \in inUse
  /\ \A j, k \in DOMAIN handles : Cur(j) /\ Cur(k) /\ Id(j) = Id(k) => j = k

(* A slab in use has one owner: the call that is about to issue a handle   *)
(* for it, its current handle, or the call that is about to release it.    *)
Issuing ==
  \A t \in Threads : pc[t] = "issue" =>
    /\ slab[t] \in inUse
    /\ \A k \in DOMAIN handles : Cur(k) => Id(k) # slab[t]
    /\ \A u \in Threads : pc[u] = "issue" /\ slab[u] = slab[t] => u = t
    /\ \A u \in Threads : pc[u] = "free_slab" => Id(handle[u]) # slab[t]

(* Likewise a slab that is about to be released. *)
Releasing ==
  \A t \in Threads : pc[t] = "free_slab" =>
    /\ Id(handle[t]) \in inUse
    /\ \A k \in DOMAIN handles : Cur(k) => Id(k) # Id(handle[t])
    /\ \A u \in Threads : pc[u] = "free_slab" /\ Id(handle[u]) = Id(handle[t]) => u = t

(* So every slab in use has one owner. *)
OneOwner == Marked /\ Issuing /\ Releasing

(* The inductive invariant. *)
HandleInv ==
  TypeOK /\ FreersOK /\ NoWrap /\ Bounded /\ OneOwner /\ StaleDetected

(* Arithmetic modulo m does not show below m. *)
LEMMA ModSmall == ASSUME NEW m \in Nat \ {0}, NEW x \in 0 .. m - 1 PROVE x % m = x
  OBVIOUS

(* The elements of a sequence. *)
LEMMA Elements ==
  ASSUME NEW S, NEW q \in Seq(S), NEW k \in DOMAIN q PROVE q[k] \in S
  OBVIOUS

USE HandleAssumption DEF HandleAssumption, None, Gens

(* A new allocator has issued nothing. *)
LEMMA InitHandles == Careful /\ Init => HandleInv
<1> SUFFICES ASSUME Careful, Init PROVE HandleInv
  OBVIOUS
<1>1. TypeOK
  BY DEF Init, TypeOK
<1>2. Issuers = {}
  BY DEF Init, Issuers
<1>3. Bounded
  BY <1>2, FS_EmptySet DEF Init, Bounded
<1>4. FreersOK /\ NoWrap /\ StaleDetected
  BY DEF Init, FreersOK, NoWrap, StaleDetected
<1>5. OneOwner
  BY DEF Init, OneOwner, Marked, Issuing, Releasing
<1> QED
  BY <1>1, <1>3, <1>4, <1>5 DEF HandleInv

(* A slab claimed for a handle that is yet to be issued has no owner. *)
LEMMA AllocateKeeps ==
  ASSUME Careful, HandleInv, NEW t \in Threads, AllocateHandle(t)
  PROVE  HandleInv'
<1> PICK s \in Slabs \ inUse : /\ inUse' = inUse \cup {s}
                               /\ slab' = [slab EXCEPT ![t] = s]
  BY DEF AllocateHandle, AllocateFrom
<1> USE DEF HandleInv
<1>1. /\ pc[t] = "idle" /\ pc' = [pc EXCEPT ![t] = "issue"]
      /\ Len(handles) + Cardinality(Issuers) < MaxIssued
      /\ UNCHANGED <<generations, handles, live, handle>>
  BY DEF AllocateHandle, AllocateFrom, Goto, Issuers
<1>2. TypeOK'
  BY <1>1 DEF TypeOK
<1>3. FreersOK'
  BY <1>1 DEF TypeOK, FreersOK
<1>4. NoWrap'
  BY <1>1 DEF NoWrap, Gen, Id
<1>5. Bounded'
  <2>1. Issuers' = Issuers \cup {t} /\ t \notin Issuers
    BY <1>1 DEF TypeOK, Issuers
  <2>2. IsFiniteSet(Issuers)
    BY FS_Subset DEF Careful, Issuers
  <2>3. Cardinality(Issuers') = Cardinality(Issuers) + 1 /\ Cardinality(Issuers) \in Nat
    BY <2>1, <2>2, FS_AddElement, FS_CardinalityType
  <2> QED
    BY <1>1, <2>3 DEF Bounded, TypeOK
<1>6. \A k \in DOMAIN handles : (Cur(k)' <=> Cur(k)) /\ Id(k)' = Id(k)
  BY <1>1 DEF Cur, Id, Gen
<1>7. Marked'
  BY <1>1, <1>6 DEF OneOwner, Marked, TypeOK, FreersOK
<1>8. Issuing' /\ Releasing'
  BY <1>1, <1>6 DEF OneOwner, Marked, Issuing, Releasing, TypeOK, FreersOK
<1>9. StaleDetected'
  BY <1>1 DEF StaleDetected, Current, TypeOK
<1> QED
  BY <1>2, <1>3, <1>4, <1>5, <1>7, <1>8, <1>9 DEF OneOwner

(* The new handle is the only one that carries the generation of its slab. *)
LEMMA IssueKeeps ==
  ASSUME Careful, HandleInv, NEW t \in Threads, Issue(t)
  PROVE  HandleInv'
<1> USE DEF HandleInv
<1>a. PICK s \in Slabs : s = slab[t] /\ s \in inUse
  BY DEF Issue, FreersOK, OneOwner, Issuing
<1>b. PICK n \in Nat : n = Len(handles) + 1
  BY DEF TypeOK
<1>1. /\ pc[t] = "issue" /\ pc' = [pc EXCEPT ![t] = "idle"]
      /\ generations' = [generations EXCEPT ![s] = AddGeneration(s)]
      /\ handles' = Append(handles, [id |-> s, gen |-> AddGeneration(s)])
      /\ live' = live \cup {n} /\ slab' = [slab EXCEPT ![t] = None]
      /\ UNCHANGED <<inUse, handle>>
  BY <1>a, <1>b DEF Issue, Goto
<1>2. s \in Slabs /\ s \in inUse /\ slab[t] = s
  BY <1>a
<1>3. Bounded' /\ Len(handles) < MaxIssued
  <2>1. Issuers' = Issuers \ {t} /\ t \in Issuers
    BY <1>1 DEF TypeOK, Issuers
  <2>2. IsFiniteSet(Issuers)
    BY FS_Subset DEF Careful, Issuers
  <2>3. /\ Cardinality(Issuers') = Cardinality(Issuers) - 1
        /\ Cardinality(Issuers) \in Nat /\ Cardinality(Issuers') \in Nat
    BY <2>1, <2>2, FS_RemoveElement, FS_CardinalityType
  <2>4. Len(handles') = Len(handles) + 1 /\ Len(handles) \in Nat
    BY <1>1 DEF TypeOK
  <2> QED
    BY <2>3, <2>4 DEF Bounded
<1>4. AddGeneration(s) = generations[s] + 1 /\ AddGeneration(s) <= 2 * n - 1
      /\ AddGeneration(s) \in Gens
  <2>1. generations[s] \in Nat /\ generations[s] <= 2 * n - 2 /\ n <= MaxIssued
    BY <1>b, <1>3 DEF NoWrap, TypeOK
  <2>2. generations[s] + 1 \in 0 .. Generations - 1
    BY <2>1 DEF Careful
  <2>3. AddGeneration(s) = generations[s] + 1
    BY <2>2, ModSmall DEF AddGeneration
  <2> QED
    BY <2>1, <2>2, <2>3
<1>5. /\ DOMAIN handles' = DOMAIN handles \cup {n} /\ n \notin DOMAIN handles
      /\ n \in Nat /\ Len(handles') = n
      /\ \A k \in DOMAIN handles : k \in Nat /\ Id(k)' = Id(k) /\ Gen(k)' = Gen(k)
      /\ Id(n)' = s /\ Gen(n)' = AddGeneration(s)
  <2>1. /\ DOMAIN handles = 1 .. Len(handles) /\ Len(handles) \in Nat
        /\ DOMAIN handles' = 1 .. n /\ Len(handles') = n
        /\ \A k \in 1 .. Len(handles) : handles'[k] = handles[k]
        /\ handles'[n] = [id |-> s, gen |-> AddGeneration(s)]
    BY <1>1, <1>b DEF TypeOK
  <2> QED
    BY <2>1, <1>b DEF Id, Gen
<1>6. TypeOK'
  <2>1. [id |-> s, gen |-> AddGeneration(s)] \in [id : Slabs, gen : Gens]
    BY <1>2, <1>4
  <2>2. handles' \in Seq([id : Slabs, gen : Gens])
    BY <1>1, <2>1 DEF TypeOK
  <2>3. generations' \in [Slabs -> Gens]
    BY <1>1, <1>2, <1>4 DEF TypeOK
  <2> QED
    BY <1>1, <1>5, <2>2, <2>3 DEF TypeOK
<1>7. FreersOK'
  BY <1>1, <1>5 DEF TypeOK, FreersOK
<1>8. \A k \in DOMAIN handles : Id(k) \in Slabs /\ Gen(k) \in Gens
  <2>1. ASSUME NEW k \in DOMAIN handles PROVE handles[k] \in [id : Slabs, gen : Gens]
    BY Elements DEF TypeOK
  <2> QED
    BY <2>1 DEF Id, Gen
<1>9. NoWrap'
  <2>1. \A r \in Slabs : generations[r] \in Nat /\ generations[r] <= generations'[r]
                           /\ generations'[r] \in Nat
    BY <1>1, <1>2, <1>4 DEF TypeOK
  <2>2. generations'[s] = AddGeneration(s)
    BY <1>1, <1>2 DEF TypeOK
  <2>3. ASSUME NEW k \in DOMAIN handles
        PROVE  Gen(k)' <= 2 * k - 1 /\ Gen(k)' <= (generations')[Id(k)']
    BY <2>1, <2>3, <1>5, <1>8 DEF NoWrap
  <2>4. Gen(n)' <= 2 * n - 1 /\ Gen(n)' <= (generations')[Id(n)']
    BY <2>1, <2>2, <1>4, <1>5
  <2>5. ASSUME NEW r \in Slabs PROVE generations'[r] <= 2 * n
    BY <2>1, <2>2, <1>1, <1>2, <1>4, <1>b DEF NoWrap, TypeOK
  <2> QED
    BY <2>3, <2>4, <2>5, <1>5 DEF NoWrap
<1>10. /\ \A k \in DOMAIN handles : Cur(k)' <=> Cur(k)
       /\ Cur(n)'
  <2>1. ASSUME NEW k \in DOMAIN handles, Id(k) # s PROVE Cur(k)' <=> Cur(k)
    BY <1>1, <1>5, <1>8, <2>1 DEF Cur, TypeOK
  <2>2. ASSUME NEW k \in DOMAIN handles, Id(k) = s PROVE ~Cur(k) /\ ~Cur(k)'
    <3>1. Gen(k) <= generations[s]
      BY <2>2 DEF NoWrap
    <3>2. generations'[s] = generations[s] + 1
      BY <1>1, <1>2, <1>4 DEF TypeOK
    <3> QED
      BY <1>1, <1>2, <1>5, <1>8, <2>2, <3>1, <3>2
         DEF Cur, TypeOK, OneOwner, Issuing
  <2>3. Cur(n)'
    BY <1>1, <1>2, <1>5 DEF Cur, TypeOK
  <2> QED
    BY <2>1, <2>2, <2>3
<1>11. Marked'
  <2>1. \A k \in live' : Cur(k)'
    BY <1>1, <1>5, <1>10 DEF OneOwner, Marked, TypeOK
  <2>2. ASSUME NEW u \in Threads, (pc[u] = "free_bump")' PROVE Cur(handle[u])'
    <3>1. PICK k \in Nat : k = handle[u]
      BY DEF TypeOK
    <3>2. k \in DOMAIN handles /\ Cur(k) /\ handle'[u] = k
      BY <1>1, <2>2, <3>1 DEF OneOwner, Marked, TypeOK, Cur
    <3>3. Cur(k)'
      BY <1>10, <3>2
    <3> QED
      BY <3>2, <3>3 DEF Cur, Id, Gen
  <2>3. \A k \in DOMAIN handles' : Cur(k)' => Id(k)' \in inUse'
    BY <1>1, <1>2, <1>5, <1>10 DEF OneOwner, Marked
  <2>4. \A j, k \in DOMAIN handles' : Cur(j)' /\ Cur(k)' /\ Id(j)' = Id(k)' => j = k
    BY <1>1, <1>2, <1>5, <1>10 DEF OneOwner, Marked, Issuing
  <2> QED
    BY <2>1, <2>2, <2>3, <2>4 DEF Marked
<1>12. \A u \in Threads : pc[u] = "free_slab" =>
         handle[u] \in DOMAIN handles /\ Id(handle[u])' = Id(handle[u])
  BY <1>1, <1>5 DEF FreersOK, Id, TypeOK
<1>13. Issuing' /\ Releasing'
  <2>1. ASSUME NEW u \in Threads, (pc[u] = "issue")'
        PROVE  u # t /\ pc[u] = "issue" /\ slab'[u] = slab[u] /\ slab[u] # s
    BY <1>1, <1>2, <2>1 DEF OneOwner, Issuing, TypeOK
  <2>2. ASSUME NEW u \in Threads, (pc[u] = "free_slab")'
        PROVE  pc[u] = "free_slab" /\ Id(handle[u]) # s
    BY <1>1, <1>2, <2>2 DEF OneOwner, Issuing, TypeOK
  <2>3. Issuing'
    BY <1>1, <1>5, <1>10, <1>12, <2>1, <2>2 DEF OneOwner, Issuing
  <2>4. Releasing'
    BY <1>1, <1>5, <1>10, <1>12, <2>2 DEF OneOwner, Releasing
  <2> QED
    BY <2>3, <2>4
<1>14. StaleDetected'
  BY <1>1, <1>5, <1>10 DEF StaleDetected, Current, Cur, Id, Gen, TypeOK
<1> QED
  BY <1>3, <1>6, <1>7, <1>9, <1>11, <1>13, <1>14 DEF OneOwner

(* Steps that leave the generations, the handles and the slabs alone. *)
LEMMA SameMarks ==
  ASSUME UNCHANGED <<inUse, generations, handles>>
  PROVE  /\ \A k : (Cur(k)' <=> Cur(k)) /\ Id(k)' = Id(k) /\ Gen(k)' = Gen(k)
         /\ NoWrap' <=> NoWrap
  BY DEF Cur, Id, Gen, NoWrap

(* Handing a handle to FreeHandle takes it from its client. *)
LEMMA FreeKeeps ==
  ASSUME Careful, HandleInv, NEW t \in Threads, FreeHandle(t)
  PROVE  HandleInv'
<1> USE DEF HandleInv
<1>1. PICK k \in DOMAIN handles : /\ \A u \in Threads : handle[u] # k
                                  /\ handle' = [handle EXCEPT ![t] = k]
                                  /\ live' = live \ {k}
  BY DEF FreeHandle, Careful
<1>2. /\ pc[t] = "idle" /\ pc' = [pc EXCEPT ![t] = "free_load"]
      /\ UNCHANGED <<inUse, generations, handles, slab>>
  BY DEF FreeHandle, Goto
<1>3. k \in Nat \ {0}
  BY DEF TypeOK
<1>4. TypeOK' /\ FreersOK'
  BY <1>1, <1>2, <1>3 DEF TypeOK, FreersOK
<1>5. NoWrap' /\ Bounded'
  <2>1. Issuers' = Issuers
    BY <1>2 DEF TypeOK, Issuers
  <2> QED
    BY <1>2, <2>1, SameMarks DEF Bounded
<1>6. Marked'
  BY <1>1, <1>2 DEF OneOwner, Marked, TypeOK, Cur, Id, Gen
<1>7. Issuing' /\ Releasing'
  BY <1>1, <1>2 DEF OneOwner, Issuing, Releasing, TypeOK, Cur, Id, Gen
<1>8. StaleDetected'
  BY <1>1, <1>2 DEF StaleDetected, Current, TypeOK
<1> QED
  BY <1>4, <1>5, <1>6, <1>7, <1>8 DEF OneOwner

(* FreeHandle goes on only with the current handle of a slab. *)
LEMMA LoadKeeps ==
  ASSUME Careful, HandleInv, NEW t \in Threads, FreeLoad(t)
  PROVE  HandleInv'
<1> USE DEF HandleInv
<1>1. /\ pc[t] = "free_load" /\ handle[t] \in DOMAIN handles
      /\ UNCHANGED <<inUse, generations, handles, live, slab>>
  BY DEF FreeLoad, FreersOK
<1>2. Issuers' = Issuers
  BY <1>1 DEF FreeLoad, Goto, Done, TypeOK, Issuers
<1>3. NoWrap' /\ Bounded'
  BY <1>1, <1>2, SameMarks DEF Bounded
<1>4. CASE Current(handles[handle[t]])
  <2>1. pc' = [pc EXCEPT ![t] = "free_bump"] /\ UNCHANGED handle
    BY <1>4 DEF FreeLoad, Goto
  <2>2. TypeOK' /\ FreersOK'
    BY <1>1, <2>1 DEF TypeOK, FreersOK
  <2>3. Marked'
    BY <1>1, <1>4, <2>1 DEF OneOwner, Marked, TypeOK, Cur, Id, Gen, Current
  <2>4. Issuing' /\ Releasing'
    BY <1>1, <2>1 DEF OneOwner, Issuing, Releasing, TypeOK, Cur, Id, Gen
  <2>5. StaleDetected'
    BY <1>1, <2>1 DEF StaleDetected, Current, TypeOK
  <2> QED
    BY <1>3, <2>2, <2>3, <2>4, <2>5 DEF OneOwner
<1>5. CASE ~Current(handles[handle[t]])
  <2>1. pc' = [pc EXCEPT ![t] = "idle"] /\ handle' = [handle EXCEPT ![t] = 0]
    BY <1>5 DEF FreeLoad, Goto, Done
  <2>2. TypeOK' /\ FreersOK'
    BY <1>1, <2>1 DEF TypeOK, FreersOK
  <2>3. Marked'
    BY <1>1, <2>1 DEF OneOwner, Marked, TypeOK, Cur, Id, Gen
  <2>4. Issuing' /\ Releasing'
    BY <1>1, <2>1 DEF OneOwner, Issuing, Releasing, TypeOK, Cur, Id, Gen
  <2>5. StaleDetected'
    BY <1>1, <1>5, <2>1 DEF StaleDetected, Current, TypeOK
  <2> QED
    BY <1>3, <2>2, <2>3, <2>4, <2>5 DEF OneOwner
<1> QED
  BY <1>4, <1>5

(* Once the generation has advanced, no handle of the slab is current, and *)
(* the slab is the caller's to release.                                    *)
LEMMA BumpKeeps ==
  ASSUME Careful, HandleInv, NEW t \in Threads, FreeBump(t)
  PROVE  HandleInv'
<1> USE DEF HandleInv
<1>1. PICK k \in DOMAIN handles : handle[t] = k /\ k \notin live
  BY DEF FreeBump, FreersOK
<1>2. PICK s \in Slabs : s = Id(k)
  <2>1. handles[k] \in [id : Slabs, gen : Gens]
    BY Elements DEF TypeOK
  <2> QED
    BY <2>1 DEF Id
<1>3. /\ pc[t] = "free_bump" /\ pc' = [pc EXCEPT ![t] = "free_slab"]
      /\ generations' = [generations EXCEPT ![s] = AddGeneration(s)]
      /\ UNCHANGED <<inUse, handles, live, slab, handle>>
  BY <1>1, <1>2 DEF FreeBump, Goto, Id
<1>4. Cur(k) /\ k \in Nat /\ k <= Len(handles) /\ Len(handles) \in Nat
  BY <1>1, <1>3 DEF OneOwner, Marked, TypeOK
<1>5. Bounded'
  <2>1. Issuers' = Issuers
    BY <1>3 DEF TypeOK, Issuers
  <2> QED
    BY <1>3, <2>1 DEF Bounded
<1>6. AddGeneration(s) = generations[s] + 1 /\ AddGeneration(s) <= 2 * Len(handles)
      /\ AddGeneration(s) \in Gens
  <2>1. generations[s] \in Nat /\ generations[s] <= 2 * k - 1
    BY <1>2, <1>4 DEF Cur, NoWrap, TypeOK
  <2>2. Cardinality(Issuers) \in Nat
    BY FS_Subset, FS_CardinalityType DEF Careful, Issuers
  <2>3. generations[s] + 1 \in 0 .. Generations - 1
    BY <1>4, <2>1, <2>2 DEF Careful, Bounded
  <2>4. AddGeneration(s) = generations[s] + 1
    BY <2>3, ModSmall DEF AddGeneration
  <2> QED
    BY <1>4, <2>1, <2>3, <2>4
<1>7. TypeOK' /\ FreersOK'
  BY <1>1, <1>2, <1>3, <1>6 DEF TypeOK, FreersOK
<1>8. /\ \A r \in Slabs : generations[r] \in Nat /\ generations'[r] \in Nat
      /\ \A r \in Slabs \ {s} : generations'[r] = generations[r]
      /\ generations'[s] = generations[s] + 1
  BY <1>3, <1>6 DEF TypeOK
<1>9. \A j \in DOMAIN handles : Id(j) \in Slabs /\ Gen(j) \in Nat
                                /\ Id(j)' = Id(j) /\ Gen(j)' = Gen(j)
  <2>1. \A j \in DOMAIN handles : handles[j] \in [id : Slabs, gen : Gens]
    BY Elements DEF TypeOK
  <2> QED
    BY <1>3, <2>1 DEF Id, Gen
<1>10. NoWrap'
  <2>1. \A j \in DOMAIN handles : Gen(j)' <= 2 * j - 1 /\ Gen(j)' <= (generations')[Id(j)']
    BY <1>8, <1>9 DEF NoWrap
  <2>2. \A r \in Slabs : generations'[r] <= 2 * Len(handles)
    BY <1>6, <1>8 DEF NoWrap
  <2> QED
    BY <1>3, <2>1, <2>2 DEF NoWrap
<1>11. \A j \in DOMAIN handles : (Cur(j)' <=> Cur(j) /\ j # k) /\ (Cur(j)' => Id(j) # s)
  <2>1. ASSUME NEW j \in DOMAIN handles, Id(j) = s PROVE ~Cur(j)' /\ (Cur(j) => j = k)
    BY <1>2, <1>4, <1>8, <1>9, <2>1 DEF Cur, NoWrap, OneOwner, Marked
  <2>2. ASSUME NEW j \in DOMAIN handles, Id(j) # s PROVE (Cur(j)' <=> Cur(j)) /\ j # k
    BY <1>2, <1>3, <1>8, <1>9, <2>2 DEF Cur
  <2> QED
    BY <1>2, <2>1, <2>2
<1>12. \A u \in Threads : pc'[u] = "free_bump" => handle[u] # k /\ pc[u] = "free_bump"
  BY <1>1, <1>3 DEF TypeOK, FreersOK
<1>13. Marked'
  <2>1. \A j \in live' : Cur(j)'
    BY <1>1, <1>3, <1>11 DEF OneOwner, Marked, TypeOK
  <2>2. \A u \in Threads : (pc[u] = "free_bump")' => Cur(handle[u])'
    BY <1>3, <1>11, <1>12, <1>7 DEF OneOwner, Marked, FreersOK, Cur, Id, Gen
  <2>3. \A j \in DOMAIN handles' : Cur(j)' => Id(j)' \in inUse'
    BY <1>3, <1>9, <1>11 DEF OneOwner, Marked
  <2>4. \A i, j \in DOMAIN handles' : Cur(i)' /\ Cur(j)' /\ Id(i)' = Id(j)' => i = j
    BY <1>3, <1>9, <1>11 DEF OneOwner, Marked
  <2> QED
    BY <2>1, <2>2, <2>3, <2>4 DEF Marked
<1>14. \A u \in Threads : (pc[u] = "free_slab")' =>
         /\ handle[u] \in DOMAIN handles /\ Id(handle[u])' = Id(handle[u])
         /\ IF u = t THEN Id(handle[u]) = s
            ELSE pc[u] = "free_slab" /\ Id(handle[u]) # s
  BY <1>1, <1>2, <1>3, <1>4, <1>7 DEF FreersOK, Id, TypeOK, OneOwner, Releasing
<1>15. Issuing'
  BY <1>2, <1>3, <1>4, <1>9, <1>11, <1>14 DEF OneOwner, Issuing, TypeOK
<1>16. Releasing'
  BY <1>1, <1>2, <1>3, <1>4, <1>9, <1>11, <1>14 DEF OneOwner, Marked, Releasing
<1>17. StaleDetected'
  <2>1. ASSUME NEW j \in DOMAIN handles, Current(handles[j])'
        PROVE  j # k /\ Current(handles[j])
    BY <1>3, <1>11, <2>1 DEF Cur, Current, Id, Gen
  <2> QED
    BY <1>1, <1>3, <2>1 DEF StaleDetected, TypeOK
<1> QED
  BY <1>5, <1>7, <1>10, <1>13, <1>15, <1>16, <1>17 DEF OneOwner

(* The slab released is nobody else's. *)
LEMMA SlabKeeps ==
  ASSUME Careful, HandleInv, NEW t \in Threads, FreeSlab(t)
  PROVE  HandleInv'
<1> USE DEF HandleInv
<1>1. PICK s : s = Id(handle[t])
  OBVIOUS
<1>2. /\ pc[t] = "free_slab" /\ pc' = [pc EXCEPT ![t] = "idle"]
      /\ handle' = [handle EXCEPT ![t] = 0] /\ inUse' = inUse \ {s}
      /\ UNCHANGED <<generations, handles, live, slab>>
  BY <1>1 DEF FreeSlab, Goto, Done, Id
<1>3. TypeOK' /\ FreersOK'
  BY <1>2 DEF TypeOK, FreersOK
<1>4. NoWrap' /\ Bounded'
  <2>1. Issuers' = Issuers
    BY <1>2 DEF TypeOK, Issuers
  <2> QED
    BY <1>2, <2>1 DEF Bounded, NoWrap, Id, Gen
<1>5. \A k \in DOMAIN handles : /\ (Cur(k)' <=> Cur(k)) /\ Id(k)' = Id(k)
                                /\ Cur(k) => Id(k) # s
  BY <1>1, <1>2 DEF Cur, Id, Gen, OneOwner, Releasing
<1>6. Marked'
  BY <1>2, <1>5 DEF OneOwner, Marked, TypeOK, Cur, Id, Gen
<1>7. Issuing'
  BY <1>1, <1>2, <1>5 DEF OneOwner, Issuing, TypeOK, Id
<1>8. Releasing'
  BY <1>1, <1>2, <1>5 DEF OneOwner, Releasing, TypeOK, Id
<1>9. StaleDetected'
  BY <1>2 DEF StaleDetected, Current, TypeOK
<1> QED
  BY <1>3, <1>4, <1>6, <1>7, <1>8, <1>9 DEF OneOwner

(* Every step keeps the invariant. *)
LEMMA NextHandles == Careful /\ HandleInv /\ [Next]_vars => HandleInv'
<1>1. ASSUME Careful, HandleInv, UNCHANGED vars PROVE HandleInv'
  <2>1. Issuers' = Issuers /\ NoWrap'
    BY <1>1 DEF vars, Issuers, HandleInv, NoWrap, Id, Gen
  <2> QED
    BY <1>1, <2>1 DEF vars, HandleInv, TypeOK, FreersOK, Bounded, OneOwner, Marked,
                      Issuing, Releasing, StaleDetected, Current, Cur, Id, Gen
<1> QED
  BY <1>1, AllocateKeeps, IssueKeeps, FreeKeeps, LoadKeeps, BumpKeeps, SlabKeeps DEF Next

(* What the invariant says of the handles. *)
LEMMA HandlesGood == HandleInv => HandleProtects /\ StaleDetected
  BY DEF HandleInv, OneOwner, Marked, HandleProtects, Cur, Current, Id, Gen, TypeOK

(* Whatever is done with stale handles, one that nobody has freed keeps    *)
(* its slab to itself (FreeHandle and GetBytes compare generations), as    *)
(* long as the uint32 generations have not been used up.                   *)
THEOREM HandlesProtect == ASSUME Careful PROVE Spec => []HandleProtects
  BY InitHandles, NextHandles, HandlesGood, PTL DEF Spec

(* Every handle that was freed is told from the current one (ErrStaleHandle)*)
THEOREM StaleHandlesDetected == ASSUME Careful PROVE Spec => []StaleDetected
  BY InitHandles, NextHandles, HandlesGood, PTL DEF Spec

-----------------------------------------------------------------------------
(* ConcurrentHandleAllocator *)

USE ShardAssumption DEF ShardAssumption

(* Every step of a ConcurrentHandleAllocator is a step of a                *)
(* HandleAllocator that has the slabs of all shards, or none.              *)
LEMMA ScanMaps == [\E t \in Threads : ScanNext(t)]_<<vars, scanVars>> => [Next]_vars
<1> USE DEF Next
<1>1. ASSUME NEW t \in Threads, Begin(t) PROVE UNCHANGED vars
  BY <1>1 DEF Begin
<1>2. ASSUME NEW t \in Threads, Refused(t) PROVE UNCHANGED vars
  BY <1>2 DEF Refused
<1>3. ASSUME NEW t \in Threads, Fail(t) PROVE UNCHANGED vars
  BY <1>3 DEF Fail
<1>4. ASSUME NEW t \in Threads, Granted(t) PROVE AllocateHandle(t)
  BY <1>4 DEF Granted, AllocateHandle, AllocateFrom
<1>5. ASSUME NEW t \in Threads, Forward(t) PROVE Next
  BY <1>5 DEF Forward
<1> QED
  BY <1>1, <1>2, <1>3, <1>4, <1>5 DEF ScanNext

(* The concurrent allocator implements the plain one.                      *)
THEOREM ConcurrentImplements == ConcurrentSpec => Spec
  BY ScanMaps, PTL DEF ConcurrentSpec, Spec

(* So a handle nobody has freed keeps its slab whatever shard it is of     *)
(* (ConcurrentHandleAllocator.FreeHandle and GetBytes).                    *)
THEOREM ConcurrentProtects ==
  ASSUME Careful PROVE ConcurrentSpec => [](HandleProtects /\ StaleDetected)
  BY ConcurrentImplements, HandlesProtect, StaleHandlesDetected, PTL

-----------------------------------------------------------------------------
(* The scan comes by no shard twice. *)
LEMMA Distinct ==
  ASSUME NEW n \in Nat \ {0}, NEW f \in 0 .. n - 1, NEW a \in 0 .. n - 1,
         NEW i \in 0 .. n - 1, i < a
  PROVE  (f + a) % n # (f + i) % n
<1>1. ASSUME NEW x \in 0 .. n - 1 PROVE (f + x) % n = (IF f + x < n THEN f + x ELSE f + x - n)
  OBVIOUS
<1> QED
  BY <1>1

(* The shards that refused a call are the first asked[t] of its scan. *)
Asked(t) == {(first[t] + i) % ShardCount : i \in 0 .. asked[t] - 1}

(* The inductive invariant of the scan. *)
ScanInv ==
  /\ first \in [Threads -> Shards \cup {None}]
  /\ asked \in [Threads -> 0 .. ShardCount]
  /\ refused \in [Threads -> SUBSET Shards]
  /\ \A t \in Threads :
       /\ IsFiniteSet(refused[t]) /\ Cardinality(refused[t]) = asked[t]
       /\ first[t] # None => refused[t] = Asked(t)
       /\ first[t] = None => asked[t] = 0

(* The shards are numbered from 0, so none of them is None. *)
LEMMA NoneIsNoShard == None \notin Shards
  BY DEF Shards, None

(* At first no call is in progress. *)
LEMMA InitScan == ScanInit => ScanInv
<1>1. Cardinality({}) = 0 /\ IsFiniteSet({})
  BY FS_EmptySet
<1> QED
  BY <1>1 DEF ScanInit, ScanInv

(* A call begins with an empty list of refusals. *)
LEMMA BeginScans == ASSUME ScanInv, NEW t \in Threads, Begin(t) PROVE ScanInv'
<1>1. PICK s \in Shards : /\ first[t] = None /\ first' = [first EXCEPT ![t] = s]
                          /\ UNCHANGED <<asked, refused>>
  BY DEF Begin
<1>2. first' \in [Threads -> Shards \cup {None}] /\ first'[t] = s
  BY <1>1 DEF ScanInv
<1>3. asked[t] = 0 /\ refused[t] = {}
  <2>1. IsFiniteSet(refused[t]) /\ Cardinality(refused[t]) = 0 /\ asked[t] = 0
    BY <1>1 DEF ScanInv
  <2> QED
    BY <2>1, FS_EmptySet
<1>4. Asked(t)' = {}
  <2>1. 0 .. asked'[t] - 1 = {}
    BY <1>1, <1>3
  <2> QED
    BY <2>1 DEF Asked
<1>5. ASSUME NEW u \in Threads, u # t PROVE Asked(u)' = Asked(u) /\ first'[u] = first[u]
  BY <1>1, <1>5 DEF Asked, ScanInv
<1> QED
  BY <1>1, <1>2, <1>3, <1>4, <1>5, NoneIsNoShard DEF ScanInv

(* A shard that refuses has not refused this call before. *)
LEMMA RefusedScans == ASSUME ScanInv, NEW t \in Threads, Refused(t) PROVE ScanInv'
<1>1. /\ first[t] # None /\ asked[t] < ShardCount
      /\ asked' = [asked EXCEPT ![t] = @ + 1]
      /\ refused' = [refused EXCEPT ![t] = @ \cup {ShardAsked(t)}]
      /\ UNCHANGED first
  BY DEF Refused
<1>2. PICK a \in 0 .. ShardCount - 1 : a = asked[t]
  BY <1>1 DEF ScanInv
<1>3. PICK f \in Shards : f = first[t]
  BY <1>1 DEF ScanInv
<1>4. refused[t] = {(f + i) % ShardCount : i \in 0 .. a - 1}
  BY <1>1, <1>2, <1>3 DEF ScanInv, Asked
<1>5. ShardAsked(t) = (f + a) % ShardCount /\ ShardAsked(t) \in Shards
  BY <1>2, <1>3 DEF ShardAsked, Shards
<1>6. ShardAsked(t) \notin refused[t]
  <2>1. \A i \in 0 .. a - 1 : (f + a) % ShardCount # (f + i) % ShardCount
    BY <1>2, <1>3, Distinct DEF Shards
  <2> QED
    BY <1>4, <1>5, <2>1
<1>7. /\ IsFiniteSet(refused'[t]) /\ Cardinality(refused'[t]) = a + 1
      /\ asked'[t] = a + 1 /\ a + 1 \in 0 .. ShardCount
  <2>1. refused'[t] = refused[t] \cup {ShardAsked(t)} /\ asked'[t] = a + 1
    BY <1>1, <1>2 DEF ScanInv
  <2>2. IsFiniteSet(refused[t]) /\ Cardinality(refused[t]) = a
    BY <1>2 DEF ScanInv
  <2>3. PICK n : n = ShardAsked(t)
    OBVIOUS
  <2>4. IsFiniteSet(refused[t] \cup {n}) /\ Cardinality(refused[t] \cup {n}) = a + 1
    BY <1>6, <2>2, <2>3, FS_AddElement
  <2>5. a + 1 \in 0 .. ShardCount
    BY <1>2
  <2> QED
    BY <2>1, <2>3, <2>4, <2>5
<1>8. refused'[t] = Asked(t)'
  <2>1. refused'[t] = refused[t] \cup {(f + a) % ShardCount}
    BY <1>1, <1>5 DEF ScanInv
  <2>2. 0 .. asked'[t] - 1 = (0 .. a - 1) \cup {a} /\ first'[t] = f
    BY <1>1, <1>2, <1>3, <1>7
  <2> QED
    BY <1>4, <2>1, <2>2 DEF Asked
<1>9. ASSUME NEW u \in Threads, u # t
      PROVE  /\ Asked(u)' = Asked(u) /\ asked'[u] = asked[u]
             /\ refused'[u] = refused[u] /\ first'[u] = first[u]
  BY <1>1, <1>9 DEF Asked, ScanInv
<1>10. /\ asked' \in [Threads -> 0 .. ShardCount]
       /\ refused' \in [Threads -> SUBSET Shards]
  BY <1>1, <1>2, <1>5, <1>7 DEF ScanInv
<1> QED
  BY <1>1, <1>7, <1>8, <1>9, <1>10 DEF ScanInv

(* The end of a call, whether a shard granted it or all have refused. *)
LEMMA EndScans == ASSUME ScanInv, NEW t \in Threads, EndScan(t) PROVE ScanInv'
<1>1. Cardinality({}) = 0 /\ IsFiniteSet({})
  BY FS_EmptySet
<1>2. ASSUME NEW u \in Threads, u # t
      PROVE  /\ Asked(u)' = Asked(u) /\ asked'[u] = asked[u]
             /\ refused'[u] = refused[u] /\ first'[u] = first[u]
  BY <1>2 DEF EndScan, Asked, ScanInv
<1>3. first'[t] = None /\ asked'[t] = 0 /\ refused'[t] = {}
  BY DEF EndScan, ScanInv
<1>4. /\ first' \in [Threads -> Shards \cup {None}]
      /\ asked' \in [Threads -> 0 .. ShardCount]
      /\ refused' \in [Threads -> SUBSET Shards]
  BY DEF EndScan, ScanInv
<1> QED
  BY <1>1, <1>2, <1>3, <1>4 DEF ScanInv

(* Every step of every call. *)
LEMMA ScanKept ==
  ASSUME ScanInv, [\E t \in Threads : ScanNext(t)]_scanVars PROVE ScanInv'
<1>1. ASSUME UNCHANGED scanVars PROVE ScanInv'
  BY <1>1 DEF scanVars, ScanInv, Asked
<1>2. ASSUME NEW t \in Threads, ScanNext(t) PROVE ScanInv'
  <2>1. CASE Begin(t)
    BY <2>1, BeginScans
  <2>2. CASE Refused(t)
    BY <2>2, RefusedScans
  <2>3. CASE Granted(t) \/ Fail(t)
    BY <2>3, EndScans DEF Granted, Fail
  <2>4. CASE Forward(t)
    BY <1>1, <2>4 DEF Forward
  <2> QED
    BY <1>2, <2>1, <2>2, <2>3, <2>4 DEF ScanNext
<1> QED
  BY <1>1, <1>2

(* AllocateHandle gives up when it has asked every shard, and asks none    *)
(* twice, for any number of shards and whichever getFastCPUID names.       *)
THEOREM ShardsAsked == ConcurrentSpec => []EveryShardAsked
<1>1. ScanInv => EveryShardAsked
  BY DEF ScanInv, EveryShardAsked
<1>2. ScanInv /\ [\E t \in Threads : ScanNext(t)]_<<vars, scanVars>> => ScanInv'
  BY ScanKept
<1> QED
  BY <1>1, <1>2, InitScan, PTL DEF ConcurrentSpec

-----------------------------------------------------------------------------
(* SlabRef *)

(* The object and the slab of reference k. *)
Obj(k)  == issued[k].ref
Held(k) == issued[k].slab

(* Every goroutine in the middle of a call has what it works on, and to    *)
(* itself.                                                                 *)
CallsOK ==
  /\ \A t \in Threads : pc[t] = "create" =>
       /\ slab[t] \in inUse
       /\ \A u \in Threads : pc[u] = "create" /\ slab[u] = slab[t] => u = t
  /\ \A t \in Threads : pc[t] \in {"clear", "put"} =>
       /\ ref[t] \in Refs \ spare
       /\ allocState[ref[t]] = 1
       /\ \A u \in Threads : pc[u] \in {"clear", "put"} /\ ref[u] = ref[t] => u = t

(* A Release that has not swapped the state yet works on an object that no *)
(* unreleased reference has, and one that will be refused does not meet an *)
(* allocation.                                                             *)
PendingOK ==
  /\ \A t \in Threads : pc[t] = "release" =>
       ref[t] \in Refs /\ \A k \in unreleased : Obj(k) # ref[t]
  /\ R!RepeatPending => \A t \in Threads : pc[t] # "create"

(* The objects whose slab a Release is about to free. *)
Ending == {r \in Refs : \E t \in Threads :
             /\ ref[t] = r
             /\ pc[t] = "clear" \/ (pc[t] = "release" /\ allocState[r] = 0)}

(* The slab that a Release is about to free has no other owner. *)
EndsOK ==
  \A r \in Ending :
    /\ r \notin spare /\ slabID[r] \in inUse
    /\ \A k \in unreleased : Held(k) # slabID[r]
    /\ \A u \in Threads : pc[u] = "create" => slab[u] # slabID[r]
    /\ \A q \in Ending : slabID[q] = slabID[r] => q = r

(* The object of a live reference serves no later allocation and is not    *)
(* about to; an object that serves its last allocation is live, released,  *)
(* or in the hand of a Release.                                            *)
ObjectsOK ==
  /\ \A k \in unreleased : /\ ~R!Reissued(k) /\ Obj(k) \notin spare
                     /\ \A t \in Threads : pc[t] = "create" => slab[t] # Held(k)
  /\ \A k \in DOMAIN issued : ~R!Reissued(k) /\ allocState[Obj(k)] = 0 =>
       k \in unreleased \/ Obj(k) \in Ending

(* The inductive invariant. *)
RefInv == R!TypeOK /\ CallsOK /\ PendingOK /\ EndsOK /\ ObjectsOK /\ R!RefProtects

(* The elements of the sequence of issued pointers. *)
LEMMA Issued ==
  ASSUME R!TypeOK
  PROVE  /\ Len(issued) \in Nat /\ DOMAIN issued = 1 .. Len(issued)
         /\ \A k \in DOMAIN issued : k \in Nat /\ Obj(k) \in Refs /\ Held(k) \in Slabs
<1>1. ASSUME NEW S, NEW q \in Seq(S), NEW k \in DOMAIN q PROVE q[k] \in S
  OBVIOUS
<1>2. \A k \in DOMAIN issued : issued[k] \in [ref : Refs, slab : Slabs]
  BY <1>1 DEF R!TypeOK
<1> QED
  BY <1>2 DEF R!TypeOK, Obj, Held

(* A new allocator has issued nothing. *)
LEMMA InitRefs == R!Init => RefInv
  BY DEF R!Init, RefInv, R!TypeOK, CallsOK, PendingOK, R!RepeatPending, Ending, EndsOK,
         ObjectsOK, R!RefProtects

USE DEF R!Goto, R!None

(* A slab claimed for a reference is nobody else's. *)
LEMMA AllocateRefKeeps ==
  ASSUME ~OverlapRepeats, RefInv, NEW t \in Threads, R!Allocate(t) PROVE RefInv'
<1> USE DEF RefInv
<1>1. PICK s \in Slabs \ inUse : /\ inUse' = inUse \cup {s}
                                 /\ slab' = [slab EXCEPT ![t] = s]
  BY DEF R!Allocate
<1>2. /\ pc[t] = "idle" /\ pc' = [pc EXCEPT ![t] = "create"] /\ ~R!RepeatPending
      /\ UNCHANGED <<allocState, slabID, spare, issued, unreleased, ref>>
  BY DEF R!Allocate
<1>3. R!TypeOK'
  BY <1>1, <1>2 DEF R!TypeOK
<1>4. CallsOK'
  BY <1>1, <1>2 DEF R!TypeOK, CallsOK
<1>5. \A k \in unreleased : Held(k) # s
  BY <1>1, <1>2 DEF R!RefProtects, Held
<1>6. \A u \in Threads : pc'[u] \in {"release", "clear"} <=> pc[u] \in {"release", "clear"}
                         /\ (pc'[u] = "release" <=> pc[u] = "release")
  BY <1>2 DEF R!TypeOK
<1>7. PendingOK'
  <2>1. ~R!RepeatPending'
    BY <1>2, <1>6 DEF R!RepeatPending
  <2> QED
    BY <1>2, <1>6, <2>1 DEF PendingOK, Obj
<1>8. EndsOK'
  <2>1. Ending' = Ending
    BY <1>2 DEF R!TypeOK, Ending
  <2>2. \A r \in Ending : slabID[r] # s
    BY <1>1 DEF EndsOK
  <2> QED
    BY <1>1, <1>2, <2>1, <2>2 DEF R!TypeOK, EndsOK, Held
<1>9. ObjectsOK'
  <2>1. Ending' = Ending
    BY <1>2 DEF R!TypeOK, Ending
  <2> QED
    BY <1>1, <1>2, <1>5, <2>1 DEF R!TypeOK, ObjectsOK, R!Reissued, Obj, Held
<1>10. R!RefProtects'
  BY <1>1, <1>2 DEF R!RefProtects
<1> QED
  BY <1>3, <1>4, <1>7, <1>8, <1>9, <1>10

(* The object filled in comes from refPool, so no live reference has it. *)
LEMMA CreateKeeps == ASSUME RefInv, NEW t \in Threads, R!CreateSlabRef(t) PROVE RefInv'
<1> USE DEF RefInv
<1>1. PICK s \in Slabs : s = slab[t] /\ s \in inUse
  BY DEF R!CreateSlabRef, R!TypeOK, CallsOK
<1>2. PICK r \in spare : /\ spare' = spare \ {r}
                         /\ allocState' = [allocState EXCEPT ![r] = 0]
                         /\ slabID' = [slabID EXCEPT ![r] = s]
                         /\ issued' = Append(issued, [ref |-> r, slab |-> s])
  BY <1>1 DEF R!CreateSlabRef
<1>3. PICK n \in Nat : n = Len(issued) + 1
  BY Issued
<1>4. /\ pc[t] = "create" /\ pc' = [pc EXCEPT ![t] = "idle"]
      /\ slab' = [slab EXCEPT ![t] = R!None]
      /\ unreleased' = unreleased \cup {n} /\ UNCHANGED <<inUse, ref>>
  BY <1>3 DEF R!CreateSlabRef
<1>5. r \in Refs
  BY DEF R!TypeOK
<1>6. /\ DOMAIN issued' = DOMAIN issued \cup {n} /\ n \notin DOMAIN issued
      /\ \A k \in DOMAIN issued : /\ k < n /\ k \in Nat
                                  /\ Obj(k)' = Obj(k) /\ Held(k)' = Held(k)
      /\ issued'[n] = [ref |-> r, slab |-> s]
  <2>1. /\ DOMAIN issued = 1 .. Len(issued) /\ Len(issued) \in Nat
        /\ DOMAIN issued' = 1 .. n
        /\ \A k \in 1 .. Len(issued) : issued'[k] = issued[k]
        /\ issued'[n] = [ref |-> r, slab |-> s]
    BY <1>2, <1>3, Issued DEF R!TypeOK
  <2> QED
    BY <1>3, <2>1 DEF Obj, Held
<1>7. R!TypeOK'
  <2>1. issued' \in Seq([ref : Refs, slab : Slabs])
    BY <1>1, <1>2, <1>5 DEF R!TypeOK
  <2> QED
    BY <1>1, <1>2, <1>4, <1>5, <1>6, <2>1 DEF R!TypeOK
<1>8. CallsOK'
  BY <1>2, <1>4, <1>5 DEF R!TypeOK, CallsOK
<1>9. \A k \in unreleased : Obj(k) # r /\ Held(k) # s
  BY <1>1, <1>4 DEF ObjectsOK
<1>10. /\ \A u \in Threads : pc[u] \in {"clear", "put", "release"} => ref[u] # r
       /\ ~R!RepeatPending /\ r \notin Ending
  <2>1. ~R!RepeatPending
    BY <1>4 DEF PendingOK
  <2>2. ASSUME NEW u \in Threads, pc[u] = "release", ref[u] = r PROVE FALSE
    <3>1. allocState[r] = 0
      BY <1>5, <2>1, <2>2 DEF R!RepeatPending, R!TypeOK
    <3>2. r \in Ending
      BY <1>5, <2>2, <3>1 DEF Ending
    <3> QED
      BY <1>2, <3>2 DEF EndsOK
  <2> QED
    BY <1>2, <2>1, <2>2 DEF CallsOK, EndsOK
<1>16. Ending' = Ending
  <2>1. \A u \in Threads : /\ pc'[u] \in {"clear", "release"} => pc'[u] = pc[u]
                           /\ pc[u] \in {"clear", "release"} => pc'[u] = pc[u]
    BY <1>4 DEF R!TypeOK
  <2>2. \A q \in Refs \ {r} : allocState'[q] = allocState[q]
    BY <1>2 DEF R!TypeOK
  <2>3. r \notin Ending'
    BY <1>4, <1>10, <2>1 DEF Ending
  <2>4. ASSUME NEW q \in Refs \ {r} PROVE q \in Ending' <=> q \in Ending
    BY <1>4, <2>1, <2>2 DEF Ending
  <2> QED
    BY <1>10, <2>3, <2>4 DEF Ending
<1>11. EndsOK'
  <2>1. ASSUME NEW q \in Ending
        PROVE  q # r /\ slabID'[q] = slabID[q] /\ slabID[q] # s
    BY <1>1, <1>2, <1>4, <1>10 DEF R!TypeOK, Ending, EndsOK
  <2>2. \A k \in unreleased' : Held(k)' = (IF k = n THEN s ELSE Held(k))
                               /\ (k = n \/ k \in unreleased)
    BY <1>4, <1>6 DEF R!TypeOK, Held
  <2>3. \A u \in Threads : pc'[u] = "create" => pc[u] = "create" /\ slab'[u] = slab[u]
    BY <1>4 DEF R!TypeOK
  <2> QED
    BY <1>2, <1>4, <1>16, <2>1, <2>2, <2>3 DEF EndsOK
<1>17. PendingOK'
  <2>1. \A u \in Threads : pc'[u] = "release" =>
          pc[u] = "release" /\ ref'[u] = ref[u] /\ ref[u] # r
    BY <1>4, <1>10 DEF R!TypeOK
  <2>2. ~R!RepeatPending'
    <3>1. \A q \in Refs : q # r => allocState'[q] = allocState[q]
      BY <1>2 DEF R!TypeOK
    <3>2. \A u \in Threads : pc[u] = "release" => ref[u] \in Refs
      BY DEF PendingOK
    <3> QED
      BY <1>10, <2>1, <3>1, <3>2 DEF R!RepeatPending
  <2>3. \A k \in unreleased' : Obj(k)' = (IF k = n THEN r ELSE Obj(k))
                               /\ (k = n \/ k \in unreleased)
    BY <1>4, <1>6 DEF R!TypeOK, Obj
  <2> QED
    BY <2>1, <2>2, <2>3 DEF PendingOK
<1>12. \A k \in DOMAIN issued : R!Reissued(k)' <=> R!Reissued(k) \/ Obj(k) = r
  <2>1. \A k \in DOMAIN issued' : k \in Nat /\ (k = n \/ k \in DOMAIN issued)
    BY <1>6
  <2>2. \A k \in DOMAIN issued : issued'[k].ref = issued[k].ref
    BY <1>6 DEF Obj
  <2> QED
    BY <1>6, <2>1, <2>2 DEF R!Reissued, Obj
<1>13. ~R!Reissued(n)'
  BY <1>6 DEF R!Reissued
<1>14. ObjectsOK'
  <2>1. ASSUME NEW k \in unreleased'
        PROVE  /\ ~R!Reissued(k)' /\ (Obj(k) \notin spare)'
               /\ \A u \in Threads : pc'[u] = "create" => slab'[u] # Held(k)'
    <3>1. CASE k = n
      BY <1>1, <1>2, <1>4, <1>6, <1>13, <3>1 DEF R!TypeOK, CallsOK, Obj, Held
    <3>2. CASE k \in unreleased
      BY <1>2, <1>4, <1>6, <1>9, <1>12, <3>2 DEF R!TypeOK, ObjectsOK
    <3> QED
      BY <1>4, <3>1, <3>2
  <2>2. ASSUME NEW k \in DOMAIN issued', ~R!Reissued(k)', (allocState[Obj(k)] = 0)'
        PROVE  k \in unreleased' \/ (Obj(k) \in Ending)'
    <3>1. CASE k = n
      BY <1>4, <3>1
    <3>2. CASE k \in DOMAIN issued
      BY <1>2, <1>4, <1>6, <1>12, <1>16, <2>2, <3>2, Issued DEF R!TypeOK, ObjectsOK
    <3> QED
      BY <1>6, <3>1, <3>2
  <2> QED
    BY <2>1, <2>2 DEF ObjectsOK
<1>15. R!RefProtects'
  <2>1. \A k \in unreleased : /\ k \in DOMAIN issued /\ k # n
                        /\ issued'[k].ref = issued[k].ref /\ issued'[k].slab = issued[k].slab
                        /\ issued[k].ref # r /\ issued[k].slab # s
                        /\ issued[k].ref \in Refs
    BY <1>6, <1>9, Issued DEF R!TypeOK, Obj, Held
  <2>2. \A k \in unreleased : /\ allocState'[issued[k].ref] = 0
                        /\ slabID'[issued[k].ref] = issued[k].slab
                        /\ issued[k].slab \in inUse'
    BY <1>2, <1>4, <2>1 DEF R!TypeOK, R!RefProtects
  <2>3. allocState'[r] = 0 /\ slabID'[r] = s /\ s \in inUse'
    BY <1>1, <1>2, <1>4, <1>5 DEF R!TypeOK
  <2> QED
    BY <1>4, <1>6, <2>1, <2>2, <2>3 DEF R!RefProtects
<1> QED
  BY <1>7, <1>8, <1>11, <1>14, <1>15, <1>17

(* A Release begins.  With the first of a reference its slab is about to   *)
(* be freed; a later one finds the object released, or about to be.        *)
LEMMA ReleaseKeeps ==
  ASSUME RefInv, ~StaleReleases, ~OverlapRepeats, NEW t \in Threads, R!Release(t)
  PROVE  RefInv'
<1> USE DEF RefInv
<1>1. PICK k \in DOMAIN issued :
        /\ ~R!Reissued(k) /\ unreleased' = unreleased \ {k}
        /\ k \in unreleased \/ \A u \in Threads : pc[u] # "create"
        /\ ref' = [ref EXCEPT ![t] = issued[k].ref]
  BY DEF R!Release
<1>2. PICK r \in Refs : r = Obj(k) /\ r = issued[k].ref
  BY Issued DEF Obj
<1>3. /\ pc[t] = "idle" /\ pc' = [pc EXCEPT ![t] = "release"]
      /\ UNCHANGED <<inUse, allocState, slabID, spare, issued, slab>>
  BY DEF R!Release
<1>4. \A j \in unreleased \ {k} : Obj(j) # r
  <2>1. ASSUME NEW j \in unreleased \ {k}, Obj(j) = r PROVE FALSE
    <3>1. j \in DOMAIN issued /\ ~R!Reissued(j) /\ j \in Nat /\ k \in Nat
      BY Issued DEF R!TypeOK, ObjectsOK
    <3> QED
      BY <1>1, <1>2, <2>1, <3>1 DEF R!Reissued, Obj
  <2> QED
    BY <2>1
<1>5. R!TypeOK'
  BY <1>1, <1>2, <1>3 DEF R!TypeOK
<1>6. R!RefProtects'
  BY <1>1, <1>3 DEF R!TypeOK, R!RefProtects
<1>7. CallsOK'
  BY <1>1, <1>3 DEF R!TypeOK, CallsOK
<1>8. ref' = [ref EXCEPT ![t] = r]
  BY <1>1, <1>2
<1>9. Ending' = IF allocState[r] = 0 THEN Ending \cup {r} ELSE Ending
  BY <1>3, <1>8 DEF R!TypeOK, Ending
<1>10. k \in unreleased => /\ allocState[r] = 0 /\ slabID[r] = Held(k)
                           /\ Held(k) \in inUse /\ r \notin spare
  BY <1>2 DEF R!RefProtects, ObjectsOK, Held
<1>11. k \notin unreleased /\ allocState[r] = 0 => r \in Ending
  BY <1>1, <1>2 DEF ObjectsOK
<1>12. PendingOK'
  <2>1. ASSUME NEW u \in Threads, pc'[u] = "release"
        PROVE  ref'[u] \in Refs /\ \A j \in unreleased' : Obj(j)' # ref'[u]
    <3>1. CASE u = t
      BY <1>1, <1>3, <1>4, <1>8, <3>1 DEF R!TypeOK, Obj
    <3>2. CASE u # t
      BY <1>1, <1>3, <1>8, <2>1, <3>2 DEF R!TypeOK, PendingOK, Obj
    <3> QED
      BY <3>1, <3>2
  <2>2. ASSUME R!RepeatPending', NEW v \in Threads, pc'[v] = "create" PROVE FALSE
    <3>1. pc[v] = "create" /\ k \in unreleased
      BY <1>1, <1>3, <2>2 DEF R!TypeOK
    <3>2. ~R!RepeatPending /\ \A u \in Threads : pc[u] = "release" => ref[u] # r
      BY <1>2, <3>1 DEF PendingOK
    <3>3. PICK u \in Threads :
            /\ pc'[u] = "release"
            /\ \/ allocState[ref'[u]] = 1
               \/ \E w \in Threads \ {u} : pc'[w] = "release" /\ ref'[w] = ref'[u]
      BY <1>3, <2>2 DEF R!RepeatPending
    <3>4. ref'[t] = r /\ allocState[r] = 0
      BY <1>8, <1>10, <3>1 DEF R!TypeOK
    <3>5. \A w \in Threads \ {t} : pc'[w] = pc[w] /\ ref'[w] = ref[w]
      BY <1>3, <1>8 DEF R!TypeOK
    <3> QED
      BY <3>2, <3>3, <3>4, <3>5 DEF R!RepeatPending
  <2> QED
    BY <2>1, <2>2 DEF PendingOK
<1>13. EndsOK'
  <2>1. ASSUME k \in unreleased PROVE EndsOK'
    <3>1. Ending' = Ending \cup {r}
      BY <1>9, <1>10, <2>1
    <3>2. \A q \in Ending : slabID[q] # slabID[r]
      BY <1>10, <2>1 DEF EndsOK
    <3>3. \A j \in unreleased' : j \in unreleased /\ Held(j) # slabID[r]
      BY <1>1, <1>10, <2>1 DEF R!RefProtects, Held
    <3>4. \A u \in Threads : pc[u] = "create" => slab[u] # slabID[r]
      BY <1>10, <2>1 DEF ObjectsOK
    <3>5. \A u \in Threads : pc'[u] = "create" => pc[u] = "create"
      BY <1>3 DEF R!TypeOK
    <3> QED
      BY <1>3, <1>10, <2>1, <3>1, <3>2, <3>3, <3>4, <3>5 DEF EndsOK, Held
  <2>2. ASSUME k \notin unreleased PROVE EndsOK'
    <3>1. Ending' = Ending
      BY <1>9, <1>11, <2>2
    <3>2. \A u \in Threads : pc'[u] = "create" => pc[u] = "create"
      BY <1>3 DEF R!TypeOK
    <3> QED
      BY <1>1, <1>3, <3>1, <3>2 DEF EndsOK, Held
  <2> QED
    BY <2>1, <2>2
<1>14. ObjectsOK'
  <2>1. \A j \in DOMAIN issued' : R!Reissued(j)' <=> R!Reissued(j)
    BY <1>3 DEF R!Reissued
  <2>2. \A u \in Threads : pc'[u] = "create" => pc[u] = "create"
    BY <1>3 DEF R!TypeOK
  <2>3. Ending \subseteq Ending' /\ (allocState[r] = 0 => r \in Ending')
    BY <1>9
  <2> QED
    BY <1>1, <1>2, <1>3, <2>1, <2>2, <2>3 DEF R!TypeOK, ObjectsOK, Obj, Held
<1> QED
  BY <1>5, <1>6, <1>7, <1>12, <1>13, <1>14

(* The Release that wins frees the slab; any other of its reference is     *)
(* refused.                                                                *)
LEMMA ReleaseCasKeeps ==
  ASSUME RefInv, NEW t \in Threads, R!ReleaseCas(t) PROVE RefInv'
<1> USE DEF RefInv
<1>1. PICK r \in Refs : r = ref[t] /\ \A k \in unreleased : Obj(k) # r
  BY DEF R!ReleaseCas, PendingOK
<1>2. /\ pc[t] = "release" /\ allocState' = [allocState EXCEPT ![r] = 1]
      /\ UNCHANGED <<inUse, slabID, spare, issued, unreleased, slab>>
  BY <1>1 DEF R!ReleaseCas
<1>3. R!RefProtects'
  BY <1>1, <1>2 DEF R!TypeOK, R!RefProtects, Obj
<1>4. \A j \in DOMAIN issued : /\ R!Reissued(j)' <=> R!Reissued(j)
                               /\ Obj(j)' = Obj(j) /\ Held(j)' = Held(j)
  BY <1>2 DEF R!Reissued, Obj, Held
<1>5. CASE allocState[r] = 0
  <2>1. pc' = [pc EXCEPT ![t] = "clear"] /\ UNCHANGED ref
    BY <1>1, <1>5 DEF R!ReleaseCas
  <2>2. R!TypeOK'
    BY <1>2, <2>1 DEF R!TypeOK
  <2>3. r \in Ending /\ r \notin spare
    BY <1>1, <1>2, <1>5 DEF Ending, EndsOK
  <2>4. CallsOK'
    BY <1>1, <1>2, <1>5, <2>1, <2>3 DEF R!TypeOK, CallsOK
  <2>5. Ending' = Ending
    <3>1. ASSUME NEW q \in Refs, q # r PROVE q \in Ending' <=> q \in Ending
      BY <1>1, <1>2, <2>1, <3>1 DEF R!TypeOK, Ending
    <3>2. r \in Ending'
      BY <1>1, <2>1 DEF R!TypeOK, Ending
    <3> QED
      BY <2>3, <3>1, <3>2 DEF Ending
  <2>6. \A u \in Threads : /\ pc'[u] = "create" <=> pc[u] = "create"
                           /\ pc'[u] = "release" <=> pc[u] = "release" /\ u # t
    BY <1>2, <2>1 DEF R!TypeOK
  <2>7. R!RepeatPending' => R!RepeatPending
    <3>1. ASSUME NEW u \in Threads, pc'[u] = "release", allocState'[ref[u]] = 1
          PROVE  R!RepeatPending
      <4>1. CASE ref[u] = r
        BY <1>1, <1>2, <2>6, <3>1, <4>1 DEF R!RepeatPending
      <4>2. CASE ref[u] # r
        BY <1>2, <2>6, <3>1, <4>2 DEF R!TypeOK, R!RepeatPending, PendingOK
      <4> QED
        BY <4>1, <4>2
    <3>2. ASSUME NEW u \in Threads, pc'[u] = "release",
                 NEW v \in Threads \ {u}, pc'[v] = "release", ref[v] = ref[u]
          PROVE  R!RepeatPending
      BY <2>6, <3>2 DEF R!RepeatPending
    <3> QED
      BY <2>1, <3>1, <3>2 DEF R!RepeatPending
  <2>8. PendingOK'
    BY <1>2, <2>1, <2>6, <2>7 DEF PendingOK, Obj
  <2>9. EndsOK'
    BY <1>2, <2>5, <2>6 DEF EndsOK, Held
  <2>10. ObjectsOK'
    BY <1>2, <1>4, <2>3, <2>5, <2>6, Issued DEF R!TypeOK, ObjectsOK
  <2> QED
    BY <1>3, <2>2, <2>4, <2>8, <2>9, <2>10
<1>6. CASE allocState[r] # 0
  <2>1. /\ pc' = [pc EXCEPT ![t] = "idle"] /\ ref' = [ref EXCEPT ![t] = R!None]
        /\ allocState[r] = 1 /\ allocState' = allocState
    BY <1>1, <1>2, <1>6 DEF R!ReleaseCas, R!TypeOK
  <2>2. R!TypeOK'
    BY <1>2, <2>1 DEF R!TypeOK
  <2>3. \A u \in Threads : /\ pc'[u] # "idle" => pc'[u] = pc[u] /\ ref'[u] = ref[u]
                           /\ u # t => pc'[u] = pc[u] /\ ref'[u] = ref[u]
    BY <1>2, <2>1 DEF R!TypeOK
  <2>4. Ending' = Ending
    BY <1>1, <1>2, <2>1, <2>3 DEF Ending
  <2>5. CallsOK'
    BY <1>2, <2>1, <2>3 DEF CallsOK
  <2>6. PendingOK'
    BY <1>2, <2>1, <2>3 DEF PendingOK, R!RepeatPending, Obj
  <2>7. EndsOK'
    BY <1>2, <2>3, <2>4 DEF EndsOK, Held
  <2>8. ObjectsOK'
    BY <1>2, <1>4, <2>1, <2>3, <2>4 DEF R!TypeOK, ObjectsOK
  <2> QED
    BY <1>3, <2>2, <2>5, <2>6, <2>7, <2>8
<1> QED
  BY <1>5, <1>6

(* The slab that is freed is nobody else's. *)
LEMMA ClearKeeps == ASSUME RefInv, NEW t \in Threads, R!Clear(t) PROVE RefInv'
<1> USE DEF RefInv
<1>1. PICK r \in Refs : r = ref[t] /\ r \in Ending /\ allocState[r] = 1
  BY DEF R!Clear, CallsOK, Ending
<1>2. /\ pc[t] = "clear" /\ pc' = [pc EXCEPT ![t] = "put"]
      /\ inUse' = inUse \ {slabID[r]}
      /\ UNCHANGED <<allocState, slabID, spare, issued, unreleased, slab, ref>>
  BY <1>1 DEF R!Clear
<1>3. R!TypeOK'
  BY <1>2 DEF R!TypeOK
<1>4. \A u \in Threads : /\ pc'[u] = "create" <=> pc[u] = "create"
                         /\ pc'[u] = "release" <=> pc[u] = "release"
                         /\ pc'[u] \in {"clear", "put"} <=> pc[u] \in {"clear", "put"}
                         /\ pc'[u] = "clear" <=> pc[u] = "clear" /\ u # t
  BY <1>2 DEF R!TypeOK
<1>5. Ending' = Ending \ {r}
  BY <1>1, <1>2, <1>4 DEF Ending, CallsOK
<1>6. CallsOK'
  BY <1>1, <1>2, <1>4 DEF CallsOK, EndsOK
<1>7. PendingOK'
  BY <1>2, <1>4 DEF PendingOK, R!RepeatPending, Obj
<1>8. EndsOK'
  BY <1>1, <1>2, <1>4, <1>5 DEF EndsOK, Held
<1>9. ObjectsOK'
  BY <1>1, <1>2, <1>4, <1>5 DEF ObjectsOK, R!Reissued, Obj, Held
<1>10. R!RefProtects'
  BY <1>1, <1>2 DEF R!RefProtects, EndsOK, Held
<1> QED
  BY <1>3, <1>6, <1>7, <1>8, <1>9, <1>10

(* The object that goes back to refPool is released. *)
LEMMA PutKeeps == ASSUME RefInv, NEW t \in Threads, R!Put(t) PROVE RefInv'
<1> USE DEF RefInv
<1>1. PICK r \in Refs : r = ref[t] /\ allocState[r] = 1
  BY DEF R!Put, CallsOK
<1>2. /\ pc[t] = "put" /\ pc' = [pc EXCEPT ![t] = "idle"]
      /\ spare' = spare \cup {r} /\ ref' = [ref EXCEPT ![t] = R!None]
      /\ UNCHANGED <<inUse, allocState, slabID, issued, unreleased, slab>>
  BY <1>1 DEF R!Put
<1>3. R!TypeOK'
  BY <1>1, <1>2 DEF R!TypeOK
<1>4. \A u \in Threads : /\ pc'[u] # "idle" => u # t /\ pc'[u] = pc[u] /\ ref'[u] = ref[u]
                         /\ u # t => pc'[u] = pc[u] /\ ref'[u] = ref[u]
  BY <1>2 DEF R!TypeOK
<1>5. Ending' = Ending /\ r \notin Ending
  <2>1. r \notin Ending
    BY <1>1, <1>2 DEF Ending, CallsOK
  <2>2. Ending' = Ending
    BY <1>2, <1>4 DEF Ending
  <2> QED
    BY <2>1, <2>2
<1>6. CallsOK'
  BY <1>1, <1>2, <1>4 DEF CallsOK
<1>7. PendingOK'
  BY <1>2, <1>4 DEF PendingOK, R!RepeatPending, Obj
<1>8. EndsOK'
  BY <1>2, <1>4, <1>5 DEF EndsOK, Held
<1>9. ObjectsOK'
  BY <1>1, <1>2, <1>4, <1>5 DEF ObjectsOK, R!Reissued, Obj, Held, R!RefProtects
<1>10. R!RefProtects'
  BY <1>2 DEF R!RefProtects
<1> QED
  BY <1>3, <1>6, <1>7, <1>8, <1>9, <1>10

(* Every step keeps the invariant. *)
LEMMA NextRefs ==
  ASSUME ~StaleReleases, ~OverlapRepeats PROVE RefInv /\ [R!Next]_R!vars => RefInv'
<1>1. ASSUME RefInv, UNCHANGED R!vars PROVE RefInv'
  BY <1>1 DEF R!vars, RefInv, R!TypeOK, CallsOK, PendingOK, R!RepeatPending, Ending,
       EndsOK,
              ObjectsOK, R!RefProtects, R!Reissued, Obj, Held
<1> QED
  BY <1>1, AllocateRefKeeps, CreateKeeps, ReleaseKeeps, ReleaseCasKeeps, ClearKeeps,
       PutKeeps
     DEF R!Next

-----------------------------------------------------------------------------
(* The interfaces together, a program using one of them. *)

(* All the variables of the scene. *)
allVars == <<vars, scanVars, api, refVars, blockVars>>

(* What a step is to each interface: a step of its own, or none.           *)
LEMMA StepOfOne ==
  ASSUME [MCNext]_allVars
  PROVE  /\ UNCHANGED api
         /\ api \in {"handle", "concurrent"} => [Next]_vars
         /\ api \notin {"handle", "concurrent"} => UNCHANGED <<handles, live>>
         /\ api = "reference" => [R!Next]_R!vars
         /\ api # "reference" => UNCHANGED unreleased
         /\ [\E t \in Threads : ScanNext(t)]_scanVars
<1>1. ASSUME \E t \in Few : ScanNext(t) PROVE \E t \in Threads : ScanNext(t)
  BY <1>1, ClientsAssumption DEF ClientsAssumption
<1>2. (\E t \in Threads : ScanNext(t)) => [Next]_vars
  BY ScanMaps
<1> QED
  BY <1>1, <1>2 DEF MCNext, allVars, vars, refVars, handleVars, R!vars

(* The interface in use keeps its invariant; the others give out nothing.  *)
HandleScene == IF api \in {"handle", "concurrent"} THEN HandleInv
                                                   ELSE handles = << >> /\ live = {}
RefScene  == IF api = "reference" THEN RefInv ELSE unreleased = {}

(* However they are freed, and whatever the program uses, handles protect  *)
(* their slabs and stale ones are told (HandleAllocator and                *)
(* ConcurrentHandleAllocator).                                             *)
THEOREM ClientHandles ==
  ASSUME Careful PROVE MCSpec => [](HandleProtects /\ StaleDetected)
<1>1. MCInit => HandleScene
  BY InitHandles DEF MCInit, Init, HandleScene
<1>2. HandleScene /\ [MCNext]_allVars => HandleScene'
  BY StepOfOne, NextHandles DEF HandleScene
<1>3. HandleScene => HandleProtects /\ StaleDetected
  <2>1. HandleInv => HandleProtects /\ StaleDetected
    BY HandlesGood
  <2>2. handles = << >> /\ live = {} => HandleProtects /\ StaleDetected
    BY DEF HandleProtects, StaleDetected
  <2> QED
    BY <2>1, <2>2 DEF HandleScene
<1> QED
  BY <1>1, <1>2, <1>3, PTL DEF MCSpec, allVars

(* RefProtects: a reference nobody has released stays valid and its slab   *)
(* stays its own, however often and from however many goroutines others    *)
(* are released (Deallocate, createSlabRef, invalidateReference), if no    *)
(* second Release is in progress when a reference is allocated.            *)
THEOREM RefsProtect ==
  ASSUME ~StaleReleases, ~OverlapRepeats PROVE MCSpec => []RefProtects
<1>1. MCInit => RefScene
  BY InitRefs DEF MCInit, R!Init, RefScene
<1>2. RefScene /\ [MCNext]_allVars => RefScene'
  BY StepOfOne, NextRefs DEF RefScene
<1>3. RefScene => RefProtects
  BY DEF RefScene, RefInv, RefProtects, R!RefProtects
<1> QED
  BY <1>1, <1>2, <1>3, PTL DEF MCSpec, allVars
=============================================================================
