----------------------------- MODULE MCClients ------------------------------
(***************************************************************************)
(* The ways a program holds on to memory, for TLC: handles, of one         *)
(* HandleAllocator or of a ConcurrentHandleAllocator, references, and the  *)
(* blocks of a HybridAllocator.  A program uses one of them, chosen at the *)
(* start; the slabs and the goroutines are the same.                       *)
(***************************************************************************)
EXTENDS ConcurrentHandles

CONSTANTS Refs, StaleReleases, OverlapRepeats,
          Pages, PageSize, Threshold, MaxSize, Word, LateFrees,
          Few     \* the goroutines that use the ConcurrentHandleAllocator

VARIABLES api, allocState, slabID, spare, issued, unreleased, ref,
          mapped, orphans, regions, bytesAllocated, activeRegions, free, held, step, call

R == INSTANCE SlabRefs WITH live <- unreleased
B == INSTANCE Regions WITH pc <- step

(* Slab IDs are the indices of an array; -1 is none of them. *)
ASSUME ClientsAssumption ==
  Few \subseteq Threads /\ None \notin Slabs /\ B!RegionsAssumption

refVars    == <<allocState, slabID, spare, issued, unreleased, ref>>
blockVars  == <<mapped, orphans, regions, bytesAllocated, activeRegions, free, held,
                step, call>>
handleVars == <<generations, handles, live, handle>>

(* Slab s is in shard s. *)
OwnShard == [s \in Slabs |-> s]

MCInit ==
  /\ api \in {"handle", "concurrent", "reference", "block"}
  /\ Init /\ ScanInit /\ R!Init /\ B!Init

MCNext ==
  /\ UNCHANGED api
  /\ \/ api = "handle" /\ Next /\ UNCHANGED <<scanVars, refVars, blockVars>>
     \/ api = "concurrent" /\ (\E t \in Few : ScanNext(t)) /\ UNCHANGED <<refVars, blockVars>>
     \/ api = "reference" /\ R!Next /\ UNCHANGED <<handleVars, scanVars, blockVars>>
     \/ api = "block" /\ B!Next /\ UNCHANGED <<vars, scanVars, refVars>>

MCSpec == MCInit /\ [][MCNext]_<<vars, scanVars, api, refVars, blockVars>>

(* Nothing done to a released reference disturbs one that is still held    *)
(* (SlabRef.Release and GetBytes).                                         *)
RefProtects == R!RefProtects

(* A block the program holds keeps its memory, whatever calls race to free *)
(* (MmapAllocator.Allocate and Deallocate).                                *)
HeldBacked == B!HeldBacked

(* The statistics are off only by the calls in progress (Stats).           *)
StatsExact == B!StatsExact

(* No mapped page is forgotten (MmapAllocator.Deallocate).                 *)
MappedAccounted == B!MappedAccounted
=============================================================================
