--------------------------- MODULE HandleAllocator --------------------------
(***************************************************************************)
(* handle.go: a HandleAllocator wraps a slab allocator and gives out       *)
(* handles, pairs of a slab ID and the generation the slab had when it was *)
(* allocated.  Every AllocateHandle and every FreeHandle advances the      *)
(* generation, and a handle is good while its generation is the slab's.    *)
(*                                                                         *)
(* The slab allocator underneath is what SlabAlloc implements: a slab not  *)
(* in use may be claimed, and DeallocateFast releases one in use.          *)
(*                                                                         *)
(* Handles are values a program may copy, keep and use again: any          *)
(* goroutine may call FreeHandle on any handle ever issued.                *)
(***************************************************************************)
EXTENDS Integers, Sequences, FiniteSets

CONSTANTS
  Threads,      \* goroutines
  Slabs,        \* slab IDs
  Generations,  \* values of a uint32: 2 ^ handleGenBits
  MaxIssued,    \* handles issued in a behaviour (bound of the model)
  OverlapFrees  \* whether two calls of FreeHandle on one handle may overlap

ASSUME HandleAssumption ==
  Generations \in Nat \ {0} /\ MaxIssued \in Nat /\ OverlapFrees \in BOOLEAN

VARIABLES
  inUse,        \* the slabs in use, in the slab allocator
  generations,  \* generations[s], a uint32
  handles,      \* the handles issued so far
  live,         \* those on which FreeHandle has not been called
  pc,           \* where a goroutine is
  slab,         \* the slab ID its AllocateHandle got
  handle        \* the handle its FreeHandle was given, as its place in handles

vars == <<inUse, generations, handles, live, pc, slab, handle>>

None  == -1
Gens  == 0 .. Generations - 1

TypeOK ==
  /\ inUse \subseteq Slabs
  /\ generations \in [Slabs -> Gens]
  /\ handles \in Seq([id : Slabs, gen : Gens])
  /\ live \subseteq DOMAIN handles
  /\ pc \in [Threads -> {"idle", "issue", "free_load", "free_bump", "free_slab"}]
  /\ slab \in [Threads -> Slabs \cup {None}]
  /\ handle \in [Threads -> Nat]

Init ==
  /\ inUse = {}
  /\ generations = [s \in Slabs |-> 0]
  /\ handles = << >>
  /\ live = {}
  /\ pc = [t \in Threads |-> "idle"]
  /\ slab = [t \in Threads |-> None]
  /\ handle = [t \in Threads |-> 0]

Goto(t, label) == pc' = [pc EXCEPT ![t] = label]

(* atomic.AddUint32(&generations[s], 1) *)
AddGeneration(s) == (generations[s] + 1) % Generations

(* AllocateFast, or else Allocate, claims one of the slabs S. *)
AllocateFrom(t, S) ==
  /\ pc[t] = "idle"
  /\ Len(handles) + Cardinality({u \in Threads : pc[u] = "issue"}) < MaxIssued
  /\ \E s \in S \ inUse :
       /\ inUse' = inUse \cup {s}
       /\ slab' = [slab EXCEPT ![t] = s]
  /\ Goto(t, "issue")
  /\ UNCHANGED <<generations, handles, live, handle>>

AllocateHandle(t) == AllocateFrom(t, Slabs)

(* The generation advances and the handle is made from the result. *)
Issue(t) ==
  /\ pc[t] = "issue"
  /\ generations' = [generations EXCEPT ![slab[t]] = AddGeneration(slab[t])]
  /\ handles' = Append(handles, [id |-> slab[t], gen |-> AddGeneration(slab[t])])
  /\ live' = live \cup {Len(handles) + 1}
  /\ slab' = [slab EXCEPT ![t] = None]
  /\ Goto(t, "idle")
  /\ UNCHANGED <<inUse, handle>>

FreeHandle(t) ==
  /\ pc[t] = "idle"
  /\ \E k \in DOMAIN handles :
       /\ OverlapFrees \/ \A u \in Threads : handle[u] # k
       /\ handle' = [handle EXCEPT ![t] = k]
       /\ live' = live \ {k}
  /\ Goto(t, "free_load")
  /\ UNCHANGED <<inUse, generations, handles, slab>>

Done(t) == Goto(t, "idle") /\ handle' = [handle EXCEPT ![t] = 0]

Current(h) == generations[h.id] = h.gen

(* mutant: the generation is not compared *)
FreeLoadUnchecked(t) ==
  /\ pc[t] = "free_load"
  /\ Goto(t, "free_bump")
  /\ UNCHANGED <<inUse, generations, handles, live, slab, handle>>

(* "Check generation mismatch" *)
FreeLoad(t) ==
  /\ pc[t] = "free_load"
  /\ IF Current(handles[handle[t]]) THEN Goto(t, "free_bump") /\ UNCHANGED handle
                                    ELSE Done(t)   \* ErrStaleHandle
  /\ UNCHANGED <<inUse, generations, handles, live, slab>>

(* mutant: freeing does not advance the generation *)
FreeBumpSkipped(t) ==
  /\ pc[t] = "free_bump"
  /\ Goto(t, "free_slab")
  /\ UNCHANGED <<inUse, generations, handles, live, slab, handle>>

(* "Increment generation to invalidate any stale handles" *)
FreeBump(t) ==
  /\ pc[t] = "free_bump"
  /\ LET s == handles[handle[t]].id
     IN  generations' = [generations EXCEPT ![s] = AddGeneration(s)]
  /\ Goto(t, "free_slab")
  /\ UNCHANGED <<inUse, handles, live, slab, handle>>

(* slab.DeallocateFast; on a slab not in use it changes nothing. *)
FreeSlab(t) ==
  /\ pc[t] = "free_slab"
  /\ inUse' = inUse \ {handles[handle[t]].id}
  /\ Done(t)
  /\ UNCHANGED <<generations, handles, live, slab>>

Next == \E t \in Threads :
  \/ AllocateHandle(t) \/ Issue(t)
  \/ FreeHandle(t) \/ FreeLoad(t) \/ FreeBump(t) \/ FreeSlab(t)

Spec == Init /\ [][Next]_vars

-----------------------------------------------------------------------------
(* A handle nobody has freed stays good: its slab is in use, its generation*)
(* is the slab's, and no other unfreed handle is for the same slab.  No    *)
(* call on a stale handle takes the slab away from the owner of the new    *)
(* one ("Handles prevent use-after-free", handle.go).                      *)
HandleProtects ==
  \A k \in live :
    /\ handles[k].id \in inUse
    /\ Current(handles[k])
    /\ \A j \in live \ {k} : handles[j].id # handles[k].id

(* The comparison in FreeHandle and GetBytes tells every stale handle: only*)
(* a live handle, or one whose FreeHandle has yet to advance the           *)
(* generation, compares equal ("Returns ErrStaleHandle if the handle has   *)
(* been recycled").                                                        *)
StaleDetected ==
  \A k \in DOMAIN handles : Current(handles[k]) =>
    \/ k \in live
    \/ \E t \in Threads : handle[t] = k /\ pc[t] \in {"free_load", "free_bump"}
=============================================================================
