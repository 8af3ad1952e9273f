---------------------------- MODULE ColoredShard ----------------------------
(***************************************************************************)
(* One shard of the colored sharded free list: a lock-free stack of nodes  *)
(* (push and pop swap head by compare-and-swap) with an element count that *)
(* is kept beside it and tells tryPop whether the stack is worth a look.   *)
(* The nodes come from shardNodePool, a sync.Pool, and go back to it: the  *)
(* node of a push may be one that was popped a moment ago.                 *)
(*                                                                         *)
(* One action is one access to shared memory.  The stack starts with every *)
(* slab in it; a goroutine takes slabs out by tryPop and puts back those   *)
(* it took.                                                                *)
(***************************************************************************)
EXTENDS Integers, FiniteSets

CONSTANTS
  Threads,    \* goroutines
  SlabCount,  \* the slabs of this shard
  NodeCount,  \* the shardNodes that can be made (bound of the model)
  OverlapPops \* whether two tryPops of the shard may both be between their
              \* load of head and their swap (the code does not prevent it)

Slabs == 0 .. SlabCount - 1
Nodes == 0 .. NodeCount - 1
Nil   == -1   \* the nil pointer
None  == -2   \* no node, no slab

ASSUME ShardAssumption ==
  /\ SlabCount \in Nat /\ NodeCount \in Nat /\ SlabCount <= NodeCount
  /\ OverlapPops \in BOOLEAN

VARIABLES
  head,    \* shard.head
  next,    \* node.next
  item,    \* node.slabID
  count,   \* shard.count
  spare,   \* spare[n]: how often shardNodePool holds node n
  held,    \* held[t]: the slabs t took out and has not begun to put back
  pc,      \* the next step of a goroutine inside a call
  node,    \* the node it pushes, or oldHead
  below    \* the oldHead of push, or the next of pop

stack  == <<head, next, item>>
locals == <<node, below>>
vars   == <<head, next, item, count, spare, held, pc, node, below>>

Pushing == {"push_load", "push_link", "push_cas"}
Popped  == {"pop_count", "pop_read"}
Taking  == {"pop_next", "pop_cas"}   \* from the load of head to the swap
Working == Pushing \cup Popped \cup Taking \cup {"push_count"}
Labels  == {"idle", "pop_look", "pop_head"} \cup Working

(* Every variable has its type, and no step of push or pop works on a nil  *)
(* node.                                                                   *)
TypeOK ==
  /\ head \in Nodes \cup {Nil}
  /\ next \in [Nodes -> Nodes \cup {Nil}]
  /\ item \in [Nodes -> Slabs \cup {None}]
  /\ count \in Int
  /\ spare \in [Nodes -> Nat]
  /\ held \in [Threads -> SUBSET Slabs]
  /\ pc \in [Threads -> Labels]
  /\ node \in [Threads -> Nodes \cup {None}]
  /\ below \in [Threads -> Nodes \cup {Nil, None}]
  /\ \A t \in Threads : pc[t] \in Working => node[t] \in Nodes

(* New pushes every slab, each in a node of its own. *)
Init ==
  /\ head = SlabCount - 1
  /\ next = [n \in Nodes |-> IF n \in Slabs THEN n - 1 ELSE Nil]
  /\ item = [n \in Nodes |-> IF n \in Slabs THEN n ELSE None]
  /\ count = SlabCount
  /\ spare = [n \in Nodes |-> IF n \in Slabs THEN 0 ELSE 1]
  /\ held = [t \in Threads |-> {}]
  /\ pc = [t \in Threads |-> "idle"]
  /\ node = [t \in Threads |-> None]
  /\ below = [t \in Threads |-> None]

-----------------------------------------------------------------------------
Goto(t, label) == pc' = [pc EXCEPT ![t] = label]

Return(t) ==
  /\ Goto(t, "idle")
  /\ node' = [node EXCEPT ![t] = None]
  /\ below' = [below EXCEPT ![t] = None]

(* push: Get a node and fill it in. *)
Push(t) ==
  /\ pc[t] = "idle"
  /\ \E s \in held[t], n \in Nodes :
       /\ spare[n] > 0
       /\ held' = [held EXCEPT ![t] = @ \ {s}]
       /\ spare' = [spare EXCEPT ![n] = @ - 1]
       /\ item' = [item EXCEPT ![n] = s]
       /\ next' = [next EXCEPT ![n] = Nil]
       /\ node' = [node EXCEPT ![t] = n]
  /\ Goto(t, "push_load")
  /\ UNCHANGED <<head, count, below>>

(* oldHead := head.Load() *)
PushLoad(t) ==
  /\ pc[t] = "push_load"
  /\ below' = [below EXCEPT ![t] = head]
  /\ Goto(t, "push_link")
  /\ UNCHANGED <<stack, count, spare, held, node>>

(* node.next.Store(oldHead) *)
PushLink(t) ==
  /\ pc[t] = "push_link"
  /\ next' = [next EXCEPT ![node[t]] = below[t]]
  /\ Goto(t, "push_cas")
  /\ UNCHANGED <<head, item, count, spare, held, locals>>

(* mutant: head is stored, not compared and swapped *)
PushStore(t) ==
  /\ pc[t] = "push_cas"
  /\ head' = node[t]
  /\ Goto(t, "push_count")
  /\ UNCHANGED <<next, item, count, spare, held, locals>>

(* mutant: push tries again with the head it loaded first *)
PushCasStale(t) ==
  /\ pc[t] = "push_cas"
  /\ IF head = below[t] THEN head' = node[t] /\ Goto(t, "push_count")
                        ELSE Goto(t, "push_link") /\ UNCHANGED head
  /\ UNCHANGED <<next, item, count, spare, held, locals>>

(* head.CompareAndSwap(oldHead, node) *)
PushCas(t) ==
  /\ pc[t] = "push_cas"
  /\ IF head = below[t] THEN head' = node[t] /\ Goto(t, "push_count")
                        ELSE Goto(t, "push_load") /\ UNCHANGED head
  /\ UNCHANGED <<next, item, count, spare, held, locals>>

(* mutant: the count is not incremented *)
PushUncounted(t) ==
  /\ pc[t] = "push_count"
  /\ Return(t)
  /\ UNCHANGED <<stack, count, spare, held>>

(* The slab is in the stack; only now is it counted. *)
PushCount(t) ==
  /\ pc[t] = "push_count"
  /\ count' = count + 1
  /\ Return(t)
  /\ UNCHANGED <<stack, spare, held>>

(* tryPop, by a goroutine that looks for a slab *)
TryPop(t) ==
  /\ pc[t] = "idle"
  /\ Goto(t, "pop_look")
  /\ UNCHANGED <<stack, count, spare, held, locals>>

(* The shard counts no element: tryPop returns without looking further. *)
NothingCounted(t) ==
  /\ pc[t] = "pop_look"
  /\ count <= 0
  /\ Return(t)
  /\ UNCHANGED <<stack, count, spare, held>>

PopLook(t) ==
  /\ pc[t] = "pop_look"
  /\ count > 0
  /\ Goto(t, "pop_head")
  /\ UNCHANGED <<stack, count, spare, held, locals>>

Alone == OverlapPops \/ \A t \in Threads : pc[t] \notin Taking

(* mutant: head is not compared with nil *)
PopHeadUnchecked(t) ==
  /\ pc[t] = "pop_head" /\ Alone
  /\ node' = [node EXCEPT ![t] = head]
  /\ Goto(t, "pop_next")
  /\ UNCHANGED <<stack, count, spare, held, below>>

(* oldHead := head.Load() *)
PopHead(t) ==
  /\ pc[t] = "pop_head" /\ Alone
  /\ head # Nil
  /\ node' = [node EXCEPT ![t] = head]
  /\ Goto(t, "pop_next")
  /\ UNCHANGED <<stack, count, spare, held, below>>

NothingThere(t) ==
  /\ pc[t] = "pop_head"
  /\ head = Nil
  /\ Return(t)
  /\ UNCHANGED <<stack, count, spare, held>>

(* next := oldHead.next.Load() *)
PopNext(t) ==
  /\ pc[t] = "pop_next"
  /\ below' = [below EXCEPT ![t] = next[node[t]]]
  /\ Goto(t, "pop_cas")
  /\ UNCHANGED <<stack, count, spare, held, node>>

(* head.CompareAndSwap(oldHead, next) *)
PopCas(t) ==
  /\ pc[t] = "pop_cas"
  /\ IF head = node[t] THEN head' = below[t] /\ Goto(t, "pop_count")
                       ELSE Goto(t, "pop_head") /\ UNCHANGED head
  /\ UNCHANGED <<next, item, count, spare, held, locals>>

(* The slab is out of the stack; only now is it discounted. *)
PopCount(t) ==
  /\ pc[t] = "pop_count"
  /\ count' = count - 1
  /\ Goto(t, "pop_read")
  /\ UNCHANGED <<stack, spare, held, locals>>

(* slabID is read and the node is Put back. *)
PopRead(t) ==
  /\ pc[t] = "pop_read"
  /\ held' = [held EXCEPT ![t] = @ \cup {item[node[t]]}]
  /\ spare' = [spare EXCEPT ![node[t]] = @ + 1]
  /\ Return(t)
  /\ UNCHANGED <<stack, count>>

Miss(t) == NothingCounted(t) \/ NothingThere(t)

Step(t) ==
  \/ PushLoad(t) \/ PushLink(t) \/ PushCas(t) \/ PushCount(t)
  \/ PopLook(t) \/ PopHead(t) \/ PopNext(t) \/ PopCas(t)
  \/ PopCount(t) \/ PopRead(t) \/ Miss(t)

Next == \E t \in Threads : Push(t) \/ TryPop(t) \/ Step(t)

Spec == Init /\ [][Next]_vars

(* A goroutine that is in a call goes on; none has to begin one. *)
FairSpec == Spec /\ \A t \in Threads : WF_vars(Step(t))

-----------------------------------------------------------------------------
(* The nodes at depth i of the stack, counted from the top; Cardinality of *)
(* Nodes levels see the whole stack, and more would be a cycle.            *)
Depths == 0 .. Cardinality(Nodes)
NodeAt[i \in Depths] ==
  IF i = 0 THEN head
  ELSE IF NodeAt[i - 1] = Nil THEN Nil ELSE next[NodeAt[i - 1]]
InStack == {NodeAt[i] : i \in Depths} \ {Nil}

(* t has s: it took it, or it is still to put it in place. *)
Has(t, s) ==
  \/ s \in held[t]
  \/ pc[t] \in Pushing \cup Popped /\ item[node[t]] = s

(* As long as a call is in progress some call returns: a compare-and-swap  *)
(* fails only because another one succeeded, whatever the recycled nodes   *)
(* have made of the stack (the loops of push and pop).                     *)
SomeCallReturns ==
  \/ []<><<\E t \in Threads : pc[t] # "idle" /\ pc'[t] = "idle">>_vars
  \/ <>[](\A t \in Threads : pc[t] = "idle")

(* The count differs from the length of the stack only by the pushes and   *)
(* pops that have swapped the head and not yet counted it.                 *)
CountMatches ==
  count = Cardinality(InStack)
          - Cardinality({t \in Threads : pc[t] = "push_count"})
          + Cardinality({t \in Threads : pc[t] = "pop_count"})

(* tryPop gives up only if the stack is empty or another goroutine is in   *)
(* the middle of a call (what the scan of coloredLists.get relies on).     *)
MissJustified ==
  [][\A t \in Threads : Miss(t) =>
       \/ InStack = {}
       \/ \E u \in Threads \ {t} : pc[u] # "idle"]_vars

(* The stack never loses a slab and never gives one to two goroutines: it  *)
(* implements the abstract pool, whose free slabs are those in the stack.  *)
WhereIs(s) ==
  IF \E n \in InStack : item[n] = s THEN "free"
  ELSE IF \E t \in Threads : Has(t, s) THEN CHOOSE t \in Threads : Has(t, s)
  ELSE "retired"

Owners == [s \in Slabs |-> WhereIs(s)]

Pool == INSTANCE SlabPool WITH owner <- Owners, Free <- "free", Retired <- "retired"

(* No Retire and no Reset: a slab is in the stack or with a goroutine.     *)
StackIsPool ==
  Pool!Init /\ [][\E t \in Threads, s \in Slabs :
                    Pool!Claim(t, s) \/ Pool!GiveBack(t, s)]_Owners
=============================================================================
