------------------------------ MODULE SlabRefs ------------------------------
(***************************************************************************)
(* The life of a SlabRef: createSlabRef takes an object from refPool (a    *)
(* sync.Pool) and fills it in for a claimed slab; Deallocate kills it by a *)
(* compare-and-swap of allocState, releases its slab and Puts the object   *)
(* back for the next allocation.                                           *)
(*                                                                         *)
(* A client keeps a pointer to the object.  Nothing takes the pointer away *)
(* from it when it has called Release, so any goroutine may call Release   *)
(* again, at any time.  What the code cannot tell is a second Release that *)
(* meets the object after it was handed out again: because it was called   *)
(* then (StaleReleases says whether clients do that), or because it was    *)
(* called before and was overtaken, between its entry and its              *)
(* compare-and-swap, by an allocation that got the object (OverlapRepeats  *)
(* says whether clients let that come about).                              *)
(***************************************************************************)
EXTENDS Integers, Sequences, FiniteSets

CONSTANTS
  Threads,       \* goroutines
  Slabs,         \* slab IDs
  Refs,          \* the SlabRef objects that can be made (bound of the model)
  MaxIssued,     \* allocations in a behaviour (bound of the model)
  StaleReleases, \* whether Release is called on a reference after its object
                 \* was handed out for a later allocation
  OverlapRepeats \* whether a second Release of a reference is in progress at
                 \* the same time as an Allocate

VARIABLES
  inUse,       \* the slabs in use, in the slab allocator
  allocState,  \* ref.allocState: 0 live, 1 released
  slabID,      \* ref.slabID
  spare,       \* the objects refPool.Get can return
  issued,      \* the pointers returned so far, with the slab each was for
  live,        \* those on which Release has not been called
  pc,          \* where a goroutine is
  slab,        \* the slab its Allocate claimed, or the one its Release clears
  ref          \* the object its Release works on

vars == <<inUse, allocState, slabID, spare, issued, live, pc, slab, ref>>

None == -1

TypeOK ==
  /\ inUse \subseteq Slabs
  /\ allocState \in [Refs -> {0, 1}]
  /\ slabID \in [Refs -> Slabs \cup {None}]
  /\ spare \subseteq Refs
  /\ issued \in Seq([ref : Refs, slab : Slabs])
  /\ live \subseteq DOMAIN issued
  /\ pc \in [Threads -> {"idle", "create", "release", "clear", "put"}]
  /\ slab \in [Threads -> Slabs \cup {None}]
  /\ ref \in [Threads -> Refs \cup {None}]

Init ==
  /\ inUse = {}
  /\ allocState = [r \in Refs |-> 0]
  /\ slabID = [r \in Refs |-> None]
  /\ spare = Refs
  /\ issued = << >>
  /\ live = {}
  /\ pc = [t \in Threads |-> "idle"]
  /\ slab = [t \in Threads |-> None]
  /\ ref = [t \in Threads |-> None]

Goto(t, label) == pc' = [pc EXCEPT ![t] = label]

(* A Release is in progress that is not the first of its reference. *)
RepeatPending ==
  \E u \in Threads :
    /\ pc[u] = "release"
    /\ \/ allocState[ref[u]] = 1
       \/ \E v \in Threads \ {u} : pc[v] = "release" /\ ref[v] = ref[u]

(* Allocate claims a slab. *)
Allocate(t) ==
  /\ pc[t] = "idle"
  /\ OverlapRepeats \/ ~RepeatPending
  /\ Len(issued) + Cardinality({u \in Threads : pc[u] = "create"}) < MaxIssued
  /\ \E s \in Slabs \ inUse :
       /\ inUse' = inUse \cup {s}
       /\ slab' = [slab EXCEPT ![t] = s]
  /\ Goto(t, "create")
  /\ UNCHANGED <<allocState, slabID, spare, issued, live, ref>>

(* createSlabRef: Get an object and "reset all fields". *)
CreateSlabRef(t) ==
  /\ pc[t] = "create"
  /\ \E r \in spare :
       /\ spare' = spare \ {r}
       /\ allocState' = [allocState EXCEPT ![r] = 0]
       /\ slabID' = [slabID EXCEPT ![r] = slab[t]]
       /\ issued' = Append(issued, [ref |-> r, slab |-> slab[t]])
  /\ live' = live \cup {Len(issued) + 1}
  /\ slab' = [slab EXCEPT ![t] = None]
  /\ Goto(t, "idle")
  /\ UNCHANGED <<inUse, ref>>

(* The object of the k-th allocation serves a later one. *)
Reissued(k) == \E j \in DOMAIN issued : j > k /\ issued[j].ref = issued[k].ref

(* Release, or Deallocate: the reference is not nil and of this allocator. *)
Release(t) ==
  /\ pc[t] = "idle"
  /\ \E k \in DOMAIN issued :
       /\ StaleReleases \/ ~Reissued(k)
       /\ OverlapRepeats \/ k \in live \/ \A u \in Threads : pc[u] # "create"
       /\ live' = live \ {k}
       /\ ref' = [ref EXCEPT ![t] = issued[k].ref]
  /\ Goto(t, "release")
  /\ UNCHANGED <<inUse, allocState, slabID, spare, issued, slab>>

(* mutant: a released reference is not refused *)
ReleaseCasUnchecked(t) ==
  /\ pc[t] = "release"
  /\ allocState' = [allocState EXCEPT ![ref[t]] = 1]
  /\ Goto(t, "clear")
  /\ UNCHANGED <<inUse, slabID, spare, issued, live, slab, ref>>

(* CompareAndSwap(&allocState, 0, 1), or else ErrDoubleDeallocation. *)
ReleaseCas(t) ==
  /\ pc[t] = "release"
  /\ allocState' = [allocState EXCEPT ![ref[t]] = 1]
  /\ IF allocState[ref[t]] = 0
       THEN Goto(t, "clear") /\ UNCHANGED ref
       ELSE Goto(t, "idle") /\ ref' = [ref EXCEPT ![t] = None]
  /\ UNCHANGED <<inUse, slabID, spare, issued, live, slab>>

(* inUse.Store(false) for ref.slabID; the slab goes back to its pool. *)
Clear(t) ==
  /\ pc[t] = "clear"
  /\ inUse' = inUse \ {slabID[ref[t]]}
  /\ Goto(t, "put")
  /\ UNCHANGED <<allocState, slabID, spare, issued, live, slab, ref>>

(* invalidateReference: the object goes back to refPool. *)
Put(t) ==
  /\ pc[t] = "put"
  /\ spare' = spare \cup {ref[t]}
  /\ ref' = [ref EXCEPT ![t] = None]
  /\ Goto(t, "idle")
  /\ UNCHANGED <<inUse, allocState, slabID, issued, live, slab>>

Next == \E t \in Threads :
  Allocate(t) \/ CreateSlabRef(t) \/ Release(t) \/ ReleaseCas(t) \/ Clear(t) \/ Put(t)

Spec == Init /\ [][Next]_vars

-----------------------------------------------------------------------------
(* A reference nobody has released stays valid: GetBytes sees it live and  *)
(* for the slab it was made for, that slab is in use, and no other         *)
(* unreleased reference is for it ("prevents use-after-free and            *)
(* double-free").  In particular a second Release, racing with the first   *)
(* or with the return of the object to refPool, changes nothing.           *)
RefProtects ==
  \A k \in live : LET r == issued[k].ref IN
    /\ allocState[r] = 0
    /\ slabID[r] = issued[k].slab
    /\ issued[k].slab \in inUse
    /\ \A j \in live \ {k} : issued[j].slab # issued[k].slab
=============================================================================
