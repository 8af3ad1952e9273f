-------------------------- MODULE ConcurrentHandles -------------------------
(***************************************************************************)
(* handle.go: a ConcurrentHandleAllocator is an array of HandleAllocators, *)
(* its shards, each with slabs and generations of its own.  AllocateHandle *)
(* begins with the shard that getFastCPUID names and goes on to the others *)
(* while they refuse; a handle names its shard, which FreeHandle and       *)
(* GetBytes call.                                                          *)
(*                                                                         *)
(* A slab here is a slab of one of the shards, so that the handles and     *)
(* generations of HandleAllocator are those of all shards together.        *)
(***************************************************************************)
EXTENDS HandleAllocator

CONSTANTS
  ShardCount,  \* nextPowerOfTwo(shards)
  ShardOf      \* the shard a slab belongs to: 0 .. ShardCount - 1

ASSUME ShardAssumption ==
  ShardCount \in Nat \ {0} /\ \A s \in Slabs : ShardOf[s] \in 0 .. ShardCount - 1

VARIABLES
  first,    \* the shard a call of AllocateHandle began with, or None
  asked,    \* how many shards it has asked
  refused   \* which shards refused it

scanVars == <<first, asked, refused>>

Shards == 0 .. ShardCount - 1

ScanTypeOK ==
  /\ first \in [Threads -> Shards \cup {None}]
  /\ asked \in [Threads -> 0 .. ShardCount]
  /\ refused \in [Threads -> SUBSET Shards]

ScanInit ==
  /\ first = [t \in Threads |-> None]
  /\ asked = [t \in Threads |-> 0]
  /\ refused = [t \in Threads |-> {}]

(* shard := getFastCPUID() & shardMask *)
Begin(t) ==
  /\ pc[t] = "idle" /\ first[t] = None
  /\ \E s \in Shards : first' = [first EXCEPT ![t] = s]
  /\ UNCHANGED <<vars, asked, refused>>

EndScan(t) ==
  /\ first' = [first EXCEPT ![t] = None]
  /\ asked' = [asked EXCEPT ![t] = 0]
  /\ refused' = [refused EXCEPT ![t] = {}]

(* mutant: the other shards are counted from shard 0 *)
ShardAskedFromZero(t) == IF asked[t] = 0 THEN first[t] ELSE asked[t]

(* The first shard, and then (shard + i) & shardMask; the loop skips the   *)
(* shard it began with, for i = 0.                                         *)
ShardAsked(t) == (first[t] + asked[t]) % ShardCount

(* The shard has a slab for the call. *)
Granted(t) ==
  /\ first[t] # None /\ asked[t] < ShardCount
  /\ AllocateFrom(t, {s \in Slabs : ShardOf[s] = ShardAsked(t)})
  /\ EndScan(t)

(* It has not, or its circuit breaker is open. *)
Refused(t) ==
  /\ first[t] # None /\ asked[t] < ShardCount
  /\ asked' = [asked EXCEPT ![t] = @ + 1]
  /\ refused' = [refused EXCEPT ![t] = @ \cup {ShardAsked(t)}]
  /\ UNCHANGED <<vars, first>>

(* The last error is returned. *)
Fail(t) ==
  /\ first[t] # None /\ asked[t] = ShardCount
  /\ EndScan(t)
  /\ UNCHANGED vars

(* h.allocator.FreeHandle(h), and the rest of the call that got a slab *)
Forward(t) ==
  /\ first[t] = None
  /\ FreeHandle(t) \/ FreeLoad(t) \/ FreeBump(t) \/ FreeSlab(t) \/ Issue(t)
  /\ UNCHANGED scanVars

ScanNext(t) == Begin(t) \/ Granted(t) \/ Refused(t) \/ Fail(t) \/ Forward(t)

ConcurrentSpec ==
  Init /\ ScanInit /\ [][\E t \in Threads : ScanNext(t)]_<<vars, scanVars>>

-----------------------------------------------------------------------------
(* A call fails only when every shard has refused it: no shard is left out *)
(* and none is asked twice, whichever it began with ("try another shard",  *)
(* ConcurrentHandleAllocator.AllocateHandle).                              *)
EveryShardAsked ==
  \A t \in Threads : Cardinality(refused[t]) = asked[t]
=============================================================================
