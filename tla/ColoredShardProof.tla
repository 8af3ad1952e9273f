------------------------- MODULE ColoredShardProof --------------------------
(***************************************************************************)
(* Proofs about ColoredShard, for any set of goroutines and any numbers of *)
(* slabs and nodes.  Types hold however the calls overlap; that the stack  *)
(* is a stack, that its count is right and that it owns every slab once is *)
(* proved when no two tryPops are between their load of head and their     *)
(* swap at once.  Pushes, and the rest of a tryPop, may overlap anything,  *)
(* and the nodes are recycled as the code recycles them.                   *)
(***************************************************************************)
EXTENDS ColoredShard, CountingLemmas

-----------------------------------------------------------------------------
(* Types. *)

(* A node that carries a slab. *)
Full(n) == item[n] \in Slabs

(* The stack and every goroutine in a call reach only nodes with a slab,   *)
(* and what push links and pop installs has been read.                     *)
Reached ==
  /\ head # Nil => Full(head)
  /\ \A n \in Nodes : next[n] # Nil => Full(next[n])
  /\ \A t \in Threads :
       /\ pc[t] \in Working => Full(node[t])
       /\ pc[t] \in {"push_link", "push_cas", "pop_cas"} =>
            below[t] # None /\ (below[t] # Nil => Full(below[t]))

(* Types, and the nodes that are reached are filled. *)
TypeInv == TypeOK /\ Reached

-----------------------------------------------------------------------------
(* The stack of k nodes f[1], ..., f[k], the last of them at its head.     *)
Chain(k, f) ==
  /\ k \in Nat
  /\ f \in [1 .. k -> Nodes]
  /\ \A i, j \in 1 .. k : f[i] = f[j] => i = j
  /\ head = IF k = 0 THEN Nil ELSE f[k]
  /\ \A i \in 1 .. k : next[f[i]] = IF i = 1 THEN Nil ELSE f[i - 1]

(* The nodes of that stack. *)
On(k, f) == {f[i] : i \in 1 .. k}

(* A node is in the stack S, with the one goroutine that fills it, links   *)
(* it or has taken it out, or in the pool, and there once.  The node that  *)
(* a pop is about to take is still in the stack: another pop would have to *)
(* take it first.                                                          *)
Apart(S) ==
  /\ \A n \in S : spare[n] = 0
  /\ \A n \in Nodes : spare[n] <= 1
  /\ \A t \in Threads :
       /\ pc[t] \in Pushing \cup Popped => spare[node[t]] = 0 /\ node[t] \notin S
       /\ pc[t] \in {"pop_next", "pop_cas"} => node[t] \in S
  /\ \A t, u \in Threads :
       t # u /\ pc[t] \in Pushing \cup Popped /\ pc[u] \in Pushing \cup Popped =>
         node[t] # node[u]

(* No two pops are about to swap the head at once. *)
OneTaker == \A t, u \in Threads : pc[t] \in Taking /\ pc[u] \in Taking => t = u

(* What push and pop swap head for is still the next of their node: the    *)
(* swap cannot be fooled by a head that changed and changed back.          *)
Linked ==
  \A t \in Threads :
    pc[t] \in {"push_cas", "pop_cas"} => next[node[t]] = below[t]

(* A slab is in one node of the stack, or with one goroutine, once.        *)
OnePlace(S) ==
  /\ \A m, n \in S : item[m] = item[n] => m = n
  /\ \A t \in Threads, s \in Slabs : Has(t, s) =>
       /\ \A n \in S : item[n] # s
       /\ \A u \in Threads : Has(u, s) => u = t
  /\ \A t \in Threads :
       pc[t] \in Pushing \cup Popped => item[node[t]] \notin held[t]

(* The swaps that are not counted yet. *)
Unpushed == {t \in Threads : pc[t] = "push_count"}
Unpopped == {t \in Threads : pc[t] = "pop_count"}

(* The length of the stack, as count gives it. *)
Counted(k) == count = k - Cardinality(Unpushed) + Cardinality(Unpopped)

(* The stack is f, and what is in it is nowhere else. *)
Stacked(k, f) == Chain(k, f) /\ Apart(On(k, f)) /\ OnePlace(On(k, f))

-----------------------------------------------------------------------------
(* A new shard: every slab in its node, nobody in a call. *)
LEMMA InitTypes == Init => TypeInv
<1> SUFFICES ASSUME Init PROVE TypeInv
  OBVIOUS
<1>1. /\ SlabCount \in Nat /\ NodeCount \in Nat /\ SlabCount <= NodeCount
      /\ Slabs \subseteq Nodes
  BY ShardAssumption DEF Slabs, Nodes
<1>2. \A n \in Nodes : n \in Int /\ n >= 0
  BY DEF Nodes
<1>3. head \in Nodes \cup {Nil} /\ (head # Nil => head \in Slabs)
  BY <1>1 DEF Init, Nodes, Slabs, Nil
<1>4. \A n \in Nodes : next[n] # Nil => next[n] \in Slabs
  BY <1>1 DEF Init, Nodes, Slabs, Nil
<1>5. next \in [Nodes -> Nodes \cup {Nil}]
  BY <1>1, <1>4 DEF Init, Nil
<1>6. \A n \in Slabs : Full(n)
  BY <1>1 DEF Init, Full
<1>7. TypeOK
  BY <1>1, <1>3, <1>5 DEF Init, TypeOK, Labels, Taking, Working, Pushing, Popped
<1>8. Reached
  BY <1>3, <1>4, <1>6 DEF Init, Reached, Working, Taking, Pushing, Popped
<1> QED
  BY <1>7, <1>8 DEF TypeInv

(* The labels of a call, each different from the others. *)
LEMMA LabelSets ==
  /\ Pushing = {"push_load", "push_link", "push_cas"}
  /\ Popped = {"pop_count", "pop_read"}
  /\ Working = {"push_load", "push_link", "push_cas", "push_count",
                "pop_next", "pop_cas", "pop_count", "pop_read"}
  /\ Taking = {"pop_next", "pop_cas"}
  /\ Labels = Working \cup {"idle", "pop_look", "pop_head"}
  BY DEF Pushing, Popped, Working, Taking, Labels

(* nil and none are no nodes. *)
LEMMA NoNode == Nil \notin Nodes /\ None \notin Nodes /\ None # Nil
  BY ShardAssumption DEF Nil, None, Nodes

(* A node that gets its slab was not reachable without one. *)
LEMMA PushTypes == ASSUME TypeInv, NEW t \in Threads, Push(t) PROVE TypeInv'
<1> USE DEF TypeInv, TypeOK, Goto
<1>1. PICK s \in held[t], n \in Nodes :
        /\ spare[n] > 0
        /\ held' = [held EXCEPT ![t] = @ \ {s}]
        /\ spare' = [spare EXCEPT ![n] = @ - 1]
        /\ item' = [item EXCEPT ![n] = s]
        /\ next' = [next EXCEPT ![n] = Nil]
        /\ node' = [node EXCEPT ![t] = n]
  BY DEF Push
<1>2. s \in Slabs /\ n \in Nodes
  OBVIOUS
<1>3. pc' = [pc EXCEPT ![t] = "push_load"] /\ UNCHANGED <<head, count, below>>
  BY DEF Push
<1>4. item' \in [Nodes -> Slabs \cup {None}] /\ \A m \in Nodes : Full(m) => Full(m)'
  BY <1>1, <1>2 DEF Full
<1>5. TypeOK'
  BY <1>1, <1>2, <1>3, <1>4, LabelSets
<1>6. Full(n)'
  BY <1>1, <1>2 DEF Full
<1>7. Reached'
  <2>1. (head # Nil => Full(head))'
    BY <1>3, <1>4 DEF Reached
  <2>2. ASSUME NEW m \in Nodes PROVE (next[m] # Nil => Full(next[m]))'
    BY <1>1, <1>4 DEF Reached
  <2>3. ASSUME NEW u \in Threads
        PROVE  (/\ pc[u] \in Working => Full(node[u])
                /\ pc[u] \in {"push_link", "push_cas", "pop_cas"} =>
                     below[u] # None /\ (below[u] # Nil => Full(below[u])))'
    BY <1>1, <1>2, <1>3, <1>4, <1>6, LabelSets DEF Reached
  <2> QED
    BY <2>1, <2>2, <2>3 DEF Reached
<1> QED
  BY <1>5, <1>7

(* No other step fills a node: what was reached is full. *)
LEMMA StepTypes ==
  ASSUME TypeInv, NEW t \in Threads, TryPop(t) \/ Step(t) PROVE TypeInv'
<1> USE LabelSets DEF TypeInv, TypeOK, Goto, Reached, Full, stack, locals
<1>1. CASE PushLoad(t)
  BY <1>1, NoNode DEF PushLoad
<1>2. CASE PushLink(t)
  BY <1>2 DEF PushLink
<1>3. CASE PushCas(t)
  BY <1>3 DEF PushCas
<1>4. CASE PushCount(t)
  BY <1>4 DEF PushCount, Return
<1>5. CASE TryPop(t)
  BY <1>5 DEF TryPop
<1>6. CASE Miss(t)
  BY <1>6 DEF Miss, NothingCounted, NothingThere, Return
<1>7. CASE PopLook(t)
  BY <1>7 DEF PopLook
<1>8. CASE PopHead(t)
  BY <1>8 DEF PopHead
<1>9. CASE PopNext(t)
  BY <1>9, NoNode DEF PopNext
<1>10. CASE PopCas(t)
  BY <1>10 DEF PopCas
<1>11. CASE PopCount(t)
  BY <1>11 DEF PopCount
<1>12. CASE PopRead(t)
  BY <1>12 DEF PopRead, Return
<1> QED
  BY <1>1, <1>2, <1>3, <1>4, <1>5, <1>6, <1>7, <1>8, <1>9, <1>10, <1>11, <1>12
     DEF Step

(* TypeOK: however pushes and pops overlap, none works on a nil node, and  *)
(* a node that is popped carries a slab (push, pop and tryPop).            *)
THEOREM ShardTypes == Spec => []TypeOK
<1>1. TypeInv /\ [Next]_vars => TypeInv'
  <2>1. ASSUME TypeInv, UNCHANGED vars PROVE TypeInv'
    BY <2>1 DEF TypeInv, TypeOK, Reached, Full, vars
  <2> QED
    BY <2>1, PushTypes, StepTypes DEF Next
<1>2. TypeInv => TypeOK
  BY DEF TypeInv
<1> QED
  BY InitTypes, <1>1, <1>2, PTL DEF Spec

-----------------------------------------------------------------------------
(* The stack. *)

(* The nodes of the shard are finitely many. *)
LEMMA NodesFinite ==
  /\ IsFiniteSet(Nodes) /\ Cardinality(Nodes) \in Nat
  /\ Depths = 0 .. Cardinality(Nodes)
<1>1. NodeCount - 1 \in Int /\ 0 \in Int
  BY ShardAssumption
<1>2. IsFiniteSet(0 .. NodeCount - 1)
  BY <1>1, FS_Interval
<1> QED
  BY <1>2, FS_CardinalityType DEF Nodes, Depths

(* A chain has no more nodes than there are, and its nodes are a finite    *)
(* set.                                                                    *)
LEMMA ChainFinite ==
  ASSUME NEW k, NEW f, Chain(k, f)
  PROVE  /\ k <= Cardinality(Nodes)
         /\ IsFiniteSet(On(k, f)) /\ Cardinality(On(k, f)) = k
<1>1. k \in Nat /\ f \in [1 .. k -> Nodes] /\ IsInjective(f)
  BY DEF Chain, IsInjective
<1>2. IsFiniteSet(1 .. k) /\ Cardinality(1 .. k) = k
  BY <1>1, FS_Interval
<1>3. f \in Injection(1 .. k, Nodes)
  BY <1>1 DEF Injection
<1>4. k <= Cardinality(Nodes)
  BY <1>2, <1>3, NodesFinite, FS_Injection
<1>5. f \in Bijection(1 .. k, On(k, f))
  BY <1>1 DEF Bijection, Injection, Surjection, On
<1>6. ExistsBijection(1 .. k, On(k, f))
  BY <1>5 DEF ExistsBijection
<1>7. IsFiniteSet(On(k, f)) /\ Cardinality(On(k, f)) = Cardinality(1 .. k)
  BY <1>2, <1>6, FS_Bijection
<1> QED
  BY <1>2, <1>4, <1>7

(* What the recursive definition of InStack collects are the nodes of the  *)
(* chain: at depth i of k nodes is f[k - i].                               *)
ChainIsStack == \A k, f : Chain(k, f) => InStack = On(k, f)

(* By induction on the depth. *)
LEMMA StackNodes == ChainIsStack
<1> SUFFICES ASSUME NEW k, NEW f, Chain(k, f) PROVE InStack = On(k, f)
  BY DEF ChainIsStack
<1> DEFINE N == Cardinality(Nodes)
           g == [i \in Depths |-> IF i < k THEN f[k - i] ELSE Nil]
           S == {i \in Nat : i \in Depths => NodeAt[i] = g[i]}
<1>1. N \in Nat /\ Depths = 0 .. N /\ k <= N
  BY NodesFinite, ChainFinite
<1>2. /\ k \in Nat /\ \A i \in 1 .. k : f[i] \in Nodes /\ f[i] # Nil
      /\ head = IF k = 0 THEN Nil ELSE f[k]
      /\ \A i \in 1 .. k : next[f[i]] = IF i = 1 THEN Nil ELSE f[i - 1]
  BY NoNode DEF Chain
<1> HIDE DEF N
<1>3. ASSUME NEW i \in Depths
      PROVE  g[i] = IF i = 0 THEN head
                    ELSE IF g[i - 1] = Nil THEN Nil ELSE next[g[i - 1]]
  <2>1. CASE i = 0
    BY <1>1, <1>2, <2>1
  <2>2. CASE i > 0 /\ i - 1 < k
    <3>1. i - 1 \in Depths /\ i \in Nat /\ g[i - 1] = f[k - (i - 1)] /\ k - (i - 1) \in 1 .. k
      BY <1>1, <1>2, <2>2
    <3>2. next[f[k - (i - 1)]] = IF k - (i - 1) = 1 THEN Nil ELSE f[k - (i - 1) - 1]
      BY <1>2, <3>1
    <3>3. k - (i - 1) - 1 = k - i /\ (k - (i - 1) = 1 <=> ~(i < k))
      BY <1>2, <2>2, <3>1
    <3>4. g[i] = next[g[i - 1]]
      BY <3>1, <3>2, <3>3
    <3>5. g[i - 1] # Nil
      BY <1>2, <3>1
    <3> QED
      BY <2>2, <3>4, <3>5
  <2>3. CASE i > 0 /\ ~(i - 1 < k)
    BY <1>1, <1>2, <2>3
  <2> QED
    BY <1>1, <2>1, <2>2, <2>3
<1>4. g = [i \in Depths |-> IF i = 0 THEN head
                            ELSE IF g[i - 1] = Nil THEN Nil ELSE next[g[i - 1]]]
  BY <1>3
<1>5. NodeAt = [i \in Depths |-> IF i = 0 THEN head
                  ELSE IF NodeAt[i - 1] = Nil THEN Nil ELSE next[NodeAt[i - 1]]]
  <2> HIDE DEF g
  <2> QED
    BY <1>4 DEF NodeAt
<1> HIDE DEF g
<1>6. 0 \in S
  BY <1>1, <1>3, <1>5
<1>7. ASSUME NEW n \in Nat, n \in S PROVE n + 1 \in S
  <2> SUFFICES ASSUME n + 1 \in Depths PROVE NodeAt[n + 1] = g[n + 1]
    OBVIOUS
  <2>1. n \in Depths /\ n + 1 # 0 /\ n + 1 - 1 = n
    BY <1>1
  <2>2. NodeAt[n] = g[n]
    BY <1>7, <2>1
  <2> QED
    BY <1>3, <1>5, <2>1, <2>2
<1>8. \A i \in Depths : NodeAt[i] = g[i]
  <2>1. Nat \subseteq S
    <3> HIDE DEF S
    <3> QED
      BY <1>6, <1>7, SetInduction
  <2> QED
    BY <1>1, <2>1
<1>9. ASSUME NEW n \in InStack PROVE n \in On(k, f)
  <2>1. PICK i \in Depths : n = NodeAt[i] /\ n # Nil
    BY DEF InStack
  <2>2. n = f[k - i] /\ k - i \in 1 .. k
    BY <1>1, <1>2, <1>8, <2>1 DEF g
  <2> QED
    BY <2>2 DEF On
<1>10. ASSUME NEW i \in 1 .. k PROVE f[i] \in InStack
  <2>1. k - i \in Depths /\ k - i < k /\ k - (k - i) = i
    BY <1>1, <1>2
  <2>2. NodeAt[k - i] = f[i] /\ f[i] # Nil
    BY <1>2, <1>8, <2>1 DEF g
  <2> QED
    BY <2>1, <2>2 DEF InStack
<1> QED
  BY <1>9, <1>10 DEF On

-----------------------------------------------------------------------------
(* One lemma per group of steps: what a step makes of the chain.           *)
Busy == Pushing \cup Popped

(* A new shard is the chain of its slabs, in the order of their numbers.   *)
LEMMA InitChain ==
  Init => /\ Linked
          /\ \E k, f : /\ Stacked(k, f) /\ Counted(k)
                       /\ \A s \in Slabs : s \in On(k, f) /\ item[s] = s
<1> SUFFICES ASSUME Init
             PROVE  /\ Linked
                    /\ \E k, f : /\ Stacked(k, f) /\ Counted(k)
                                 /\ \A s \in Slabs : s \in On(k, f) /\ item[s] = s
  OBVIOUS
<1> DEFINE f == [i \in 1 .. SlabCount |-> i - 1]
<1>1. SlabCount \in Nat /\ NodeCount \in Nat /\ SlabCount <= NodeCount
  BY ShardAssumption
<1>2. \A i \in 1 .. SlabCount : i \in Int /\ f[i] = i - 1 /\ f[i] \in Slabs /\ f[i] \in Nodes
  BY <1>1 DEF Slabs, Nodes
<1>3. Chain(SlabCount, f)
  <2>1. f \in [1 .. SlabCount -> Nodes] /\ \A i, j \in 1 .. SlabCount : f[i] = f[j] => i = j
    BY <1>2
  <2>2. head = IF SlabCount = 0 THEN Nil ELSE f[SlabCount]
    BY <1>1 DEF Init, Nil
  <2>3. ASSUME NEW i \in 1 .. SlabCount
        PROVE  next[f[i]] = IF i = 1 THEN Nil ELSE f[i - 1]
    <3>1. next[f[i]] = i - 1 - 1
      BY <1>2 DEF Init
    <3> QED
      BY <1>1, <3>1 DEF Nil
  <2> QED
    BY <1>1, <2>1, <2>2, <2>3 DEF Chain
<1>4. On(SlabCount, f) \subseteq Slabs
  BY <1>2 DEF On
<1>9. ASSUME NEW s \in Slabs PROVE s \in On(SlabCount, f) /\ item[s] = s
  <2>1. s + 1 \in 1 .. SlabCount /\ f[s + 1] = s /\ s \in Nodes
    BY <1>1 DEF Slabs, Nodes
  <2> HIDE DEF f
  <2> QED
    BY <2>1 DEF On, Init
<1> HIDE DEF f
<1>5. Apart(On(SlabCount, f))
  BY <1>1, <1>4 DEF Init, Apart, Slabs, Nodes, Working, Pushing, Popped
<1>6. OnePlace(On(SlabCount, f))
  <2>1. \A t \in Threads, s \in Slabs : ~Has(t, s)
    BY DEF Init, Has, Pushing, Popped
  <2>2. \A n \in On(SlabCount, f) : item[n] = n
    BY <1>1, <1>4 DEF Init, Slabs, Nodes
  <2> QED
    BY <2>1, <2>2 DEF OnePlace, Init, Pushing, Popped
<1>7. Linked
  BY DEF Init, Linked
<1>8. Counted(SlabCount)
  <2>1. Unpushed = {} /\ Unpopped = {}
    BY DEF Init, Unpushed, Unpopped
  <2> QED
    BY <1>1, <2>1, FS_EmptySet DEF Init, Counted
<1> QED
  BY <1>3, <1>5, <1>6, <1>7, <1>8, <1>9 DEF Stacked

(* No slab enters or leaves the nodes S, or changes hands. *)
Unmoved(S) ==
  /\ \A n \in S : item'[n] = item[n]
  /\ \A u \in Threads, s \in Slabs : Has(u, s)' <=> Has(u, s)

(* A step that takes no slab anywhere leaves it in one place. *)
LEMMA SamePlaces ==
  ASSUME NEW S, OnePlace(S), UNCHANGED <<item, held>>,
         \A u \in Threads : /\ pc'[u] \in Busy <=> pc[u] \in Busy
                            /\ pc[u] \in Busy => node'[u] = node[u]
  PROVE  OnePlace(S)' /\ Unmoved(S)
  BY DEF OnePlace, Has, Busy, Unmoved

(* Reads of head and next, and the counting, change nothing of the stack.  *)
LEMMA ReadsKeep ==
  ASSUME TypeInv, Linked, NEW k, NEW f, Stacked(k, f), NEW t \in Threads,
         \/ PushLoad(t) \/ PushCount(t) \/ TryPop(t) \/ PopLook(t)
         \/ PopHead(t) \/ PopNext(t) \/ PopCount(t) \/ Miss(t)
  PROVE  Linked' /\ Stacked(k, f)' /\ Unmoved(On(k, f))
<1>1. UNCHANGED <<head, next, item, spare, held>>
  BY DEF PushLoad, PushCount, TryPop, PopLook, PopHead, PopNext, PopCount, Miss,
         NothingCounted, NothingThere, stack
<1>2. Chain(k, f)'
  BY <1>1 DEF Stacked, Chain
<1>3. k \in Nat /\ f \in [1 .. k -> Nodes]
  BY DEF Stacked, Chain
<1>4. head # Nil => head \in On(k, f)
  BY <1>3 DEF Stacked, Chain, On
<1> DEFINE S == On(k, f)
<1>5. Apart(S) /\ OnePlace(S)
  BY DEF Stacked
<1> HIDE DEF S
<1>6. \A u \in Threads : /\ pc'[u] \in Busy <=> pc[u] \in Busy
                         /\ pc[u] \in Busy => node'[u] = node[u]
  BY LabelSets DEF Busy, TypeInv, TypeOK, Goto, Return, locals,
         PushLoad, PushCount, TryPop, PopLook, PopHead, PopNext, PopCount, Miss,
         NothingCounted, NothingThere
<1>7. OnePlace(S)' /\ Unmoved(S)
  BY <1>1, <1>5, <1>6, SamePlaces
<1>8. Apart(S)'
  <2> USE <1>1, <1>5, LabelSets DEF Apart, TypeInv, TypeOK, Goto, Return, locals
  <2>1. CASE PushLoad(t)
    BY <2>1 DEF PushLoad
  <2>2. CASE PushCount(t)
    BY <2>2 DEF PushCount
  <2>3. CASE TryPop(t)
    BY <2>3 DEF TryPop
  <2>4. CASE PopLook(t)
    BY <2>4 DEF PopLook
  <2>5. CASE PopHead(t)
    <3>1. head \in S
      BY <1>4, <2>5 DEF PopHead, S
    <3> QED
      BY <2>5, <3>1 DEF PopHead
  <2>6. CASE PopNext(t)
    BY <2>6 DEF PopNext
  <2>7. CASE PopCount(t)
    BY <2>7 DEF PopCount
  <2>8. CASE Miss(t)
    BY <2>8 DEF Miss, NothingCounted, NothingThere
  <2> QED
    BY <2>1, <2>2, <2>3, <2>4, <2>5, <2>6, <2>7, <2>8
<1>9. Linked'
  BY <1>1 DEF Linked, TypeInv, TypeOK, Goto, Return, locals,
         PushLoad, PushCount, TryPop, PopLook, PopHead, PopNext, PopCount, Miss,
         NothingCounted, NothingThere
<1> QED
  BY <1>2, <1>7, <1>8, <1>9 DEF Stacked, S

(* Push fills a node that is nowhere else. *)
LEMMA PushKeeps ==
  ASSUME TypeInv, Linked, NEW k, NEW f, Stacked(k, f), NEW t \in Threads, Push(t)
  PROVE  Linked' /\ Stacked(k, f)' /\ Unmoved(On(k, f))
<1>1. PICK s \in held[t], n \in Nodes :
        /\ spare[n] > 0
        /\ held' = [held EXCEPT ![t] = @ \ {s}]
        /\ spare' = [spare EXCEPT ![n] = @ - 1]
        /\ item' = [item EXCEPT ![n] = s]
        /\ next' = [next EXCEPT ![n] = Nil]
        /\ node' = [node EXCEPT ![t] = n]
  BY DEF Push
<1>2. /\ pc[t] = "idle" /\ pc' = [pc EXCEPT ![t] = "push_load"]
      /\ UNCHANGED <<head, count, below>>
  BY DEF Push, Goto
<1> DEFINE S == On(k, f)
<1>3. k \in Nat /\ f \in [1 .. k -> Nodes] /\ \A i \in 1 .. k : f[i] \in S
  BY DEF Stacked, Chain, On
<1>4. Apart(S) /\ OnePlace(S) /\ S \subseteq Nodes
  BY <1>3 DEF Stacked, On
<1>5. Chain(k, f)'
  BY <1>1, <1>2, <1>3, <1>4 DEF Stacked, Chain, Apart, TypeInv, TypeOK
<1> HIDE DEF S
<1>6. s \in Slabs /\ n \in Nodes /\ n \notin S
  BY <1>1, <1>4 DEF TypeInv, TypeOK, Apart
<1>7. Apart(S)'
  <2>1. spare[n] = 1 /\ spare' \in [Nodes -> Nat] /\ spare'[n] = 0
    BY <1>1, <1>4, <1>6 DEF Apart, TypeInv, TypeOK
  <2>2. \A m \in Nodes : spare'[m] <= 1 /\ (m \in S => spare'[m] = 0)
    BY <1>1, <1>4, <1>6, <2>1 DEF Apart, TypeInv, TypeOK
  <2>3. ASSUME NEW u \in Threads
        PROVE  /\ pc'[u] \in Pushing \cup Popped => spare'[node'[u]] = 0 /\ node'[u] \notin S
               /\ pc'[u] \in {"pop_next", "pop_cas"} => node'[u] \in S
    BY <1>1, <1>2, <1>4, <1>6, <2>1, LabelSets DEF Apart, TypeInv, TypeOK
  <2>4. ASSUME NEW u \in Threads, NEW v \in Threads, u # v,
               pc'[u] \in Pushing \cup Popped, pc'[v] \in Pushing \cup Popped
        PROVE  node'[u] # node'[v]
    <3>1. ASSUME NEW w \in Threads, w # t, pc'[w] \in Pushing \cup Popped
          PROVE  node'[w] = node[w] /\ node[w] # n /\ pc[w] = pc'[w]
      BY <1>1, <1>2, <1>4, <2>1, <3>1 DEF Apart, TypeInv, TypeOK
    <3>2. node'[t] = n
      BY <1>1 DEF TypeInv, TypeOK
    <3> QED
      BY <1>4, <2>4, <3>1, <3>2 DEF Apart
  <2> QED
    BY <1>4, <2>2, <2>3, <2>4 DEF Apart
<1>8. OnePlace(S)' /\ Unmoved(S)
  <2>1. \A m \in S : item'[m] = item[m]
    BY <1>1, <1>4, <1>6 DEF TypeInv, TypeOK
  <2>2. Has(t, s) /\ \A m \in S : item[m] # s
    BY <1>4, <1>6 DEF Has, OnePlace
  <2>3. \A u \in Threads : u # t => ~Has(u, s)
    BY <1>4, <1>6, <2>2 DEF OnePlace
  <2>4. ASSUME NEW u \in Threads, NEW r \in Slabs PROVE Has(u, r)' <=> Has(u, r)
    <3>1. CASE u = t
      BY <1>1, <1>2, <1>6, <3>1, LabelSets DEF Has, TypeInv, TypeOK
    <3>2. CASE u # t
      <4>1. /\ pc'[u] = pc[u] /\ node'[u] = node[u] /\ held'[u] = held[u]
            /\ pc[u] \in Busy => node[u] \in Nodes /\ node[u] # n
        BY <1>1, <1>2, <1>4, <3>2, LabelSets DEF TypeInv, TypeOK, Apart, Busy
      <4>2. pc[u] \in Busy => item'[node'[u]] = item[node[u]]
        BY <1>1, <1>6, <4>1 DEF TypeInv, TypeOK
      <4> QED
        BY <4>1, <4>2 DEF Has, Busy
    <3> QED
      BY <3>1, <3>2
  <2>5. ASSUME NEW u \in Threads, pc'[u] \in Busy PROVE item'[node'[u]] \notin held'[u]
    <3>1. CASE u = t
      BY <1>1, <1>2, <1>6, <3>1 DEF TypeInv, TypeOK
    <3>2. CASE u # t
      <4>1. /\ pc'[u] = pc[u] /\ node'[u] = node[u] /\ held'[u] = held[u]
            /\ node[u] \in Nodes /\ node[u] # n
        BY <1>1, <1>2, <1>4, <2>5, <3>2, LabelSets DEF TypeInv, TypeOK, Apart, Busy
      <4>2. item'[node'[u]] = item[node[u]]
        BY <1>1, <1>6, <4>1 DEF TypeInv, TypeOK
      <4> QED
        BY <1>4, <2>5, <4>1, <4>2 DEF OnePlace, Busy
    <3> QED
      BY <3>1, <3>2
  <2> QED
    BY <1>4, <2>1, <2>4, <2>5 DEF OnePlace, Busy, Unmoved
<1>9. Linked'
  BY <1>1, <1>2, <1>4, <1>6, LabelSets DEF Linked, Apart, TypeInv, TypeOK
<1> QED
  BY <1>5, <1>7, <1>8, <1>9 DEF Stacked, S

(* Only the goroutine that fills a node writes its next. *)
LEMMA LinkKeeps ==
  ASSUME TypeInv, Linked, NEW k, NEW f, Stacked(k, f), NEW t \in Threads, PushLink(t)
  PROVE  Linked' /\ Stacked(k, f)' /\ Unmoved(On(k, f))
<1>1. /\ pc[t] = "push_link" /\ pc' = [pc EXCEPT ![t] = "push_cas"]
      /\ next' = [next EXCEPT ![node[t]] = below[t]]
      /\ UNCHANGED <<head, item, count, spare, held, node, below>>
  BY DEF PushLink, Goto, locals
<1> DEFINE S == On(k, f)
<1>2. k \in Nat /\ f \in [1 .. k -> Nodes] /\ \A i \in 1 .. k : f[i] \in S
  BY DEF Stacked, Chain, On
<1>3. Apart(S) /\ OnePlace(S)
  BY DEF Stacked
<1> HIDE DEF S
<1>4. node[t] \in Nodes /\ node[t] \notin S
  BY <1>1, <1>3, LabelSets DEF Apart, TypeInv, TypeOK
<1>5. Chain(k, f)'
  BY <1>1, <1>2, <1>4 DEF Stacked, Chain, TypeInv, TypeOK
<1>6. Apart(S)'
  BY <1>1, <1>3, LabelSets DEF Apart, TypeInv, TypeOK
<1>7. OnePlace(S)' /\ Unmoved(S)
  BY <1>1, <1>3, SamePlaces, LabelSets DEF Busy, TypeInv, TypeOK
<1>8. Linked'
  <2> SUFFICES ASSUME NEW u \in Threads, pc'[u] \in {"push_cas", "pop_cas"}
               PROVE  next'[node'[u]] = below'[u]
    BY DEF Linked
  <2>1. CASE u = t
    BY <1>1, <1>4, <2>1 DEF TypeInv, TypeOK
  <2>2. CASE u # t
    <3>1. node[u] \in Nodes /\ node[u] # node[t] /\ pc[u] = pc'[u]
      BY <1>1, <1>3, <2>2, LabelSets DEF Apart, TypeInv, TypeOK
    <3> QED
      BY <1>1, <3>1 DEF Linked, TypeInv, TypeOK
  <2> QED
    BY <2>1, <2>2
<1> QED
  BY <1>5, <1>6, <1>7, <1>8 DEF Stacked, S

(* A swap that fails changes nothing. *)
LEMMA FailedSwapKeeps ==
  ASSUME TypeInv, Linked, NEW k, NEW f, Stacked(k, f), NEW t \in Threads,
         \/ PushCas(t) /\ head # below[t]
         \/ PopCas(t) /\ head # node[t]
  PROVE  Linked' /\ Stacked(k, f)' /\ Unmoved(On(k, f))
<1>1. /\ \/ pc[t] = "push_cas" /\ pc' = [pc EXCEPT ![t] = "push_load"]
         \/ pc[t] = "pop_cas" /\ pc' = [pc EXCEPT ![t] = "pop_head"]
      /\ UNCHANGED <<head, next, item, count, spare, held, node, below>>
  BY DEF PushCas, PopCas, Goto, locals
<1> DEFINE S == On(k, f)
<1>2. Apart(S) /\ OnePlace(S)
  BY DEF Stacked
<1> HIDE DEF S
<1>3. Chain(k, f)'
  BY <1>1 DEF Stacked, Chain
<1>4. Apart(S)'
  BY <1>1, <1>2, LabelSets DEF Apart, TypeInv, TypeOK
<1>5. OnePlace(S)' /\ Unmoved(S)
  BY <1>1, <1>2, SamePlaces, LabelSets DEF Busy, TypeInv, TypeOK
<1>6. Linked'
  BY <1>1 DEF Linked, TypeInv, TypeOK
<1> QED
  BY <1>3, <1>4, <1>5, <1>6 DEF Stacked, S

(* The swap of push puts its node on top of the chain. *)
LEMMA PushSwapKeeps ==
  ASSUME TypeInv, Linked, NEW k, NEW f, Stacked(k, f), NEW t \in Threads,
         PushCas(t), head = below[t]
  PROVE  /\ Linked'
         /\ \E g : Stacked(k + 1, g)' /\ On(k + 1, g) = On(k, f) \cup {node[t]}
         /\ UNCHANGED item /\ item[node[t]] \in Slabs /\ Has(t, item[node[t]])
         /\ \A u \in Threads, s \in Slabs :
              Has(u, s)' <=> Has(u, s) /\ s # item[node[t]]
<1>1. /\ pc[t] = "push_cas" /\ pc' = [pc EXCEPT ![t] = "push_count"]
      /\ head' = node[t]
      /\ UNCHANGED <<next, item, count, spare, held, node, below>>
  BY DEF PushCas, Goto, locals
<1> DEFINE S == On(k, f)
<1>0. PICK g : g = [i \in 1 .. k + 1 |-> IF i = k + 1 THEN node[t] ELSE f[i]]
  OBVIOUS
<1>2. /\ k \in Nat /\ f \in [1 .. k -> Nodes] /\ \A i \in 1 .. k : f[i] \in S
      /\ \A i, j \in 1 .. k : f[i] = f[j] => i = j
  BY DEF Stacked, Chain, On
<1>3. Apart(S) /\ OnePlace(S)
  BY DEF Stacked
<1>4. node[t] \in Nodes /\ node[t] \notin S /\ spare[node[t]] = 0
  BY <1>1, <1>3, LabelSets DEF Apart, TypeInv, TypeOK
<1>5. next[node[t]] = head
  BY <1>1 DEF Linked
<1>6. On(k + 1, g) = S \cup {node[t]}
  <2>1. \A i \in 1 .. k : g[i] = f[i] /\ i \in 1 .. k + 1
    BY <1>0, <1>2
  <2>2. g[k + 1] = node[t] /\ k + 1 \in 1 .. k + 1
    BY <1>0, <1>2
  <2>3. \A i \in 1 .. k + 1 : i = k + 1 \/ i \in 1 .. k
    BY <1>2
  <2> QED
    BY <2>1, <2>2, <2>3 DEF On
<1>7. Chain(k + 1, g)'
  <2>1. k + 1 \in Nat /\ k + 1 # 0 /\ g \in [1 .. k + 1 -> Nodes] /\ g[k + 1] = node[t]
    BY <1>0, <1>2, <1>4
  <2>2. \A i, j \in 1 .. k + 1 : g[i] = g[j] => i = j
    BY <1>0, <1>2, <1>4
  <2>3. ASSUME NEW i \in 1 .. k + 1
        PROVE  next[g[i]] = IF i = 1 THEN Nil ELSE g[i - 1]
    <3>1. CASE i = k + 1
      <4>1. next[g[i]] = IF k = 0 THEN Nil ELSE f[k]
        BY <1>2, <1>5, <2>1, <3>1 DEF Stacked, Chain
      <4>2. k # 0 => g[i - 1] = f[k] /\ i # 1
        BY <1>0, <1>2, <3>1
      <4> QED
        BY <1>2, <3>1, <4>1, <4>2
    <3>2. CASE i # k + 1
      <4>1. i \in 1 .. k /\ g[i] = f[i] /\ (i # 1 => g[i - 1] = f[i - 1])
        BY <1>0, <1>2, <3>2
      <4> QED
        BY <4>1 DEF Stacked, Chain
    <3> QED
      BY <3>1, <3>2
  <2> QED
    BY <1>1, <2>1, <2>2, <2>3 DEF Chain
<1> HIDE DEF S
<1>8. Apart(On(k + 1, g))'
  BY <1>1, <1>3, <1>4, <1>6, LabelSets DEF Apart, TypeInv, TypeOK, On
<1>9. item[node[t]] \in Slabs /\ Has(t, item[node[t]]) /\ item[node[t]] \notin held[t]
  BY <1>1, <1>3, LabelSets DEF TypeInv, Reached, Full, Has, OnePlace
<1>10. ASSUME NEW u \in Threads, NEW s \in Slabs
       PROVE  Has(u, s)' <=> Has(u, s) /\ s # item[node[t]]
  <2>1. CASE u = t
    BY <1>1, <1>9, <2>1, LabelSets DEF Has, TypeInv, TypeOK
  <2>2. CASE u # t
    BY <1>1, <1>3, <1>9, <2>2, LabelSets DEF Has, OnePlace, TypeInv, TypeOK
  <2> QED
    BY <2>1, <2>2
<1>11. OnePlace(On(k + 1, g))'
  <2>3. \A m, n \in S \cup {node[t]} : item[m] = item[n] => m = n
    BY <1>3, <1>9 DEF OnePlace
  <2>4. \A u \in Threads : pc'[u] \in Busy => pc[u] \in Busy
    BY <1>1, LabelSets DEF Busy, TypeInv, TypeOK
  <2>5. \A u \in Threads, s \in Slabs : Has(u, s)' =>
          /\ \A n \in S \cup {node[t]} : item[n] # s
          /\ \A v \in Threads : Has(v, s)' => v = u
    BY <1>3, <1>10 DEF OnePlace
  <2> QED
    BY <1>1, <1>3, <1>6, <2>3, <2>4, <2>5 DEF OnePlace, Busy, On
<1>12. Linked'
  BY <1>1 DEF Linked, TypeInv, TypeOK
<1> QED
  BY <1>1, <1>6, <1>7, <1>8, <1>9, <1>10, <1>11, <1>12 DEF Stacked, S

(* The swap of pop takes the top off the chain: its next was read while    *)
(* the node was in the stack, and nobody else has taken it since.          *)
LEMMA PopSwapKeeps ==
  ASSUME TypeInv, Linked, OneTaker, NEW k, NEW f, Stacked(k, f), NEW t \in Threads,
         PopCas(t), head = node[t]
  PROVE  /\ Linked' /\ k > 0
         /\ \E g : Stacked(k - 1, g)' /\ On(k - 1, g) = On(k, f) \ {node[t]}
         /\ UNCHANGED item /\ item[node[t]] \in Slabs /\ node[t] \in On(k, f)
         /\ \A u \in Threads, s \in Slabs :
              Has(u, s)' <=> Has(u, s) \/ (u = t /\ s = item[node[t]])
<1>1. /\ pc[t] = "pop_cas" /\ pc' = [pc EXCEPT ![t] = "pop_count"]
      /\ head' = below[t]
      /\ UNCHANGED <<next, item, count, spare, held, node, below>>
  BY DEF PopCas, Goto, locals
<1> DEFINE S == On(k, f)
           g == [i \in 1 .. k - 1 |-> f[i]]
<1>2. /\ k \in Nat /\ f \in [1 .. k -> Nodes] /\ \A i \in 1 .. k : f[i] \in S
      /\ \A i, j \in 1 .. k : f[i] = f[j] => i = j
  BY DEF Stacked, Chain, On
<1>3. Apart(S) /\ OnePlace(S)
  BY DEF Stacked
<1>4. node[t] \in Nodes /\ head # Nil /\ below[t] = next[node[t]]
  BY <1>1, LabelSets, NoNode DEF Linked, TypeInv, TypeOK
<1>5. k > 0 /\ k \in 1 .. k /\ node[t] = f[k] /\ node[t] \in S
  BY <1>2, <1>4 DEF Stacked, Chain
<1>6. On(k - 1, g) = S \ {node[t]}
  <2>1. \A i \in 1 .. k - 1 : g[i] = f[i] /\ i \in 1 .. k /\ i # k
    BY <1>2
  <2>2. \A i \in 1 .. k : i = k \/ i \in 1 .. k - 1
    BY <1>2
  <2> HIDE DEF g
  <2> QED
    BY <1>2, <1>5, <2>1, <2>2 DEF On
<1>7. Chain(k - 1, g)'
  <2>1. k - 1 \in Nat /\ g \in [1 .. k - 1 -> Nodes]
    BY <1>2, <1>5
  <2>2. \A i, j \in 1 .. k - 1 : g[i] = g[j] => i = j
    BY <1>2
  <2>3. below[t] = IF k - 1 = 0 THEN Nil ELSE g[k - 1]
    BY <1>2, <1>4, <1>5 DEF Stacked, Chain
  <2>4. ASSUME NEW i \in 1 .. k - 1
        PROVE  next[g[i]] = IF i = 1 THEN Nil ELSE g[i - 1]
    <3>1. i \in 1 .. k /\ g[i] = f[i] /\ (i # 1 => g[i - 1] = f[i - 1])
      BY <1>2
    <3> QED
      BY <3>1 DEF Stacked, Chain
  <2> HIDE DEF g
  <2> QED
    BY <1>1, <2>1, <2>2, <2>3, <2>4 DEF Chain
<1> HIDE DEF S, g
<1>8. Apart(On(k - 1, g))'
  <2>1. \A u \in Threads : pc'[u] \in {"pop_next", "pop_cas"} => u # t /\ pc[u] = pc'[u]
    BY <1>1 DEF TypeInv, TypeOK
  <2>2. \A u \in Threads : pc'[u] \notin {"pop_next", "pop_cas"}
    BY <1>1, <2>1, LabelSets DEF OneTaker
  <2>3. spare[node[t]] = 0 /\ \A u \in Threads : pc[u] \in Busy => node[u] # node[t]
    BY <1>3, <1>5 DEF Apart, Busy
  <2>4. \A u \in Threads : pc'[u] \in Busy => u = t \/ pc[u] \in Busy
    BY <1>1 DEF Busy, TypeInv, TypeOK
  <2>5. /\ \A n \in S \ {node[t]} : spare[n] = 0
        /\ \A n \in Nodes : spare[n] <= 1
    BY <1>3 DEF Apart
  <2>6. \A u \in Threads : pc'[u] \in Busy =>
          spare[node[u]] = 0 /\ node[u] \notin S \ {node[t]}
    BY <1>3, <2>3, <2>4 DEF Apart, Busy
  <2>7. \A u, v \in Threads : u # v /\ pc'[u] \in Busy /\ pc'[v] \in Busy =>
          node[u] # node[v]
    BY <1>3, <2>3, <2>4 DEF Apart, Busy
  <2>8. On(k - 1, g)' = S \ {node[t]}
    BY <1>6 DEF On
  <2> QED
    BY <1>1, <2>2, <2>5, <2>6, <2>7, <2>8 DEF Apart, Busy
<1>9. item[node[t]] \in Slabs /\ \A u \in Threads : ~Has(u, item[node[t]])
  BY <1>1, <1>3, <1>5, LabelSets DEF TypeInv, Reached, Full, OnePlace
<1>10. ASSUME NEW u \in Threads, NEW s \in Slabs
       PROVE  Has(u, s)' <=> Has(u, s) \/ (u = t /\ s = item[node[t]])
  <2>1. CASE u = t
    BY <1>1, <2>1, LabelSets DEF Has, TypeInv, TypeOK
  <2>2. CASE u # t
    BY <1>1, <2>2, LabelSets DEF Has, TypeInv, TypeOK
  <2> QED
    BY <2>1, <2>2
<1>11. OnePlace(On(k - 1, g))'
  <2>1. \A n \in S \ {node[t]} : item[n] # item[node[t]]
    BY <1>3, <1>5 DEF OnePlace
  <2>2. \A m, n \in S \ {node[t]} : item[m] = item[n] => m = n
    BY <1>3 DEF OnePlace
  <2>3. \A u \in Threads, s \in Slabs : Has(u, s)' =>
          /\ \A n \in S \ {node[t]} : item[n] # s
          /\ \A v \in Threads : Has(v, s)' => v = u
    BY <1>3, <1>9, <1>10, <2>1 DEF OnePlace
  <2>4. ASSUME NEW u \in Threads, pc'[u] \in Busy PROVE item[node[u]] \notin held[u]
    <3>1. CASE u = t
      BY <1>9, <3>1 DEF Has
    <3>2. CASE u # t
      BY <1>1, <1>3, <2>4, <3>2 DEF OnePlace, Busy, TypeInv, TypeOK
    <3> QED
      BY <3>1, <3>2
  <2> QED
    BY <1>1, <1>6, <2>2, <2>3, <2>4 DEF OnePlace, Busy, On
<1>12. Linked'
  BY <1>1 DEF Linked, TypeInv, TypeOK
<1> QED
  BY <1>1, <1>5, <1>6, <1>7, <1>8, <1>9, <1>10, <1>11, <1>12 DEF Stacked, S

(* The slab of a popped node becomes the goroutine's, and the node goes    *)
(* back to the pool: nobody else has it.                                   *)
LEMMA PopReadKeeps ==
  ASSUME TypeInv, Linked, NEW k, NEW f, Stacked(k, f), NEW t \in Threads, PopRead(t)
  PROVE  Linked' /\ Stacked(k, f)' /\ Unmoved(On(k, f))
<1>1. /\ pc[t] = "pop_read" /\ pc' = [pc EXCEPT ![t] = "idle"]
      /\ held' = [held EXCEPT ![t] = @ \cup {item[node[t]]}]
      /\ node' = [node EXCEPT ![t] = None] /\ below' = [below EXCEPT ![t] = None]
      /\ spare' = [spare EXCEPT ![node[t]] = @ + 1]
      /\ UNCHANGED <<head, next, item, count>>
  BY DEF PopRead, Goto, Return, stack
<1> DEFINE S == On(k, f)
<1>2. Apart(S) /\ OnePlace(S)
  BY DEF Stacked
<1>7. S \subseteq Nodes
  BY DEF Stacked, Chain, On
<1> HIDE DEF S
<1>3. Chain(k, f)'
  BY <1>1 DEF Stacked, Chain
<1>4. Apart(S)'
  <2>1. node[t] \in Nodes /\ spare[node[t]] = 0 /\ node[t] \notin S
    BY <1>1, <1>2, LabelSets DEF Apart, TypeInv, TypeOK
  <2>2. /\ \A n \in S : spare'[n] = 0
        /\ \A n \in Nodes : spare'[n] <= 1
    BY <1>1, <1>2, <2>1, <1>7 DEF Apart, TypeInv, TypeOK
  <2>3. ASSUME NEW u \in Threads, pc'[u] \in Working
        PROVE  u # t /\ pc[u] = pc'[u] /\ node'[u] = node[u] /\ node[u] \in Nodes
    BY <1>1, <2>3, LabelSets DEF TypeInv, TypeOK
  <2>4. ASSUME NEW u \in Threads, pc'[u] \in Pushing \cup Popped
        PROVE  spare'[node'[u]] = 0 /\ node'[u] \notin S
    <3>1. node[u] # node[t] /\ spare[node[u]] = 0 /\ node[u] \notin S
      BY <1>1, <1>2, <2>3, <2>4, LabelSets DEF Apart
    <3> QED
      BY <1>1, <2>1, <2>3, <2>4, <3>1, LabelSets DEF TypeInv, TypeOK
  <2> QED
    BY <1>2, <2>2, <2>3, <2>4, LabelSets DEF Apart
<1>5. OnePlace(S)' /\ Unmoved(S)
  <2>1. item[node[t]] \in Slabs
    BY <1>1, LabelSets DEF TypeInv, Reached, Full
  <2>2. ASSUME NEW u \in Threads, NEW s \in Slabs PROVE Has(u, s)' <=> Has(u, s)
    <3>1. CASE u = t
      BY <1>1, <2>1, <3>1, LabelSets DEF Has, TypeInv, TypeOK
    <3>2. CASE u # t
      BY <1>1, <3>2, LabelSets DEF Has, TypeInv, TypeOK
    <3> QED
      BY <3>1, <3>2
  <2>3. \A u \in Threads : pc'[u] \in Busy =>
          u # t /\ pc[u] \in Busy /\ node'[u] = node[u] /\ held'[u] = held[u]
    BY <1>1, LabelSets DEF Busy, TypeInv, TypeOK
  <2> QED
    BY <1>1, <1>2, <2>2, <2>3 DEF OnePlace, Busy, Unmoved
<1>6. Linked'
  BY <1>1 DEF Linked, TypeInv, TypeOK
<1> QED
  BY <1>3, <1>4, <1>5, <1>6 DEF Stacked, S

-----------------------------------------------------------------------------
(* The count. *)

(* Which swaps are not counted after a step. *)
LEMMA SwapsCounted ==
  ASSUME TypeInv, NEW t \in Threads, Push(t) \/ TryPop(t) \/ Step(t)
  PROVE  \/ PushCas(t) /\ head = below[t] /\ t \notin Unpushed /\ count' = count
            /\ Unpushed' = Unpushed \cup {t} /\ Unpopped' = Unpopped
         \/ PushCount(t) /\ t \in Unpushed /\ count' = count + 1
            /\ Unpushed' = Unpushed \ {t} /\ Unpopped' = Unpopped
         \/ PopCas(t) /\ head = node[t] /\ t \notin Unpopped /\ count' = count
            /\ Unpushed' = Unpushed /\ Unpopped' = Unpopped \cup {t}
         \/ PopCount(t) /\ t \in Unpopped /\ count' = count - 1
            /\ Unpushed' = Unpushed /\ Unpopped' = Unpopped \ {t}
         \/ /\ count' = count /\ Unpushed' = Unpushed /\ Unpopped' = Unpopped
            /\ ~(PushCas(t) /\ head = below[t]) /\ ~(PopCas(t) /\ head = node[t])
<1> USE DEF TypeInv, TypeOK, Goto, Return, stack, locals, Unpushed, Unpopped
<1>1. CASE Push(t)
  BY <1>1 DEF Push, PushCas, PopCas
<1>2. CASE TryPop(t) \/ PushLoad(t) \/ PushLink(t) \/ PopLook(t) \/ PopHead(t)
           \/ PopNext(t) \/ PopRead(t) \/ Miss(t)
  BY <1>2 DEF TryPop, PushLoad, PushLink, PopLook, PopHead, PopNext, PopRead, Miss,
              NothingCounted, NothingThere, PushCas, PopCas
<1>3. CASE PushCas(t)
  BY <1>3 DEF PushCas, PopCas
<1>4. CASE PopCas(t)
  BY <1>4 DEF PushCas, PopCas
<1>5. CASE PushCount(t)
  BY <1>5 DEF PushCount
<1>6. CASE PopCount(t)
  BY <1>6 DEF PopCount
<1> QED
  BY <1>1, <1>2, <1>3, <1>4, <1>5, <1>6 DEF Step

(* The inductive invariant. *)
ShardInv ==
  /\ TypeInv /\ Linked /\ OneTaker
  /\ \E k, f : Stacked(k, f) /\ (IsFiniteSet(Threads) => Counted(k))

(* The steps that leave the chain alone, together. *)
LEMMA NoSwapKeeps ==
  ASSUME TypeInv, Linked, NEW k, NEW f, Stacked(k, f), NEW t \in Threads,
         Push(t) \/ TryPop(t) \/ Step(t),
         ~(PushCas(t) /\ head = below[t]), ~(PopCas(t) /\ head = node[t])
  PROVE  Linked' /\ Stacked(k, f)' /\ Unmoved(On(k, f))
<1>1. \/ PushLoad(t) \/ PushCount(t) \/ TryPop(t) \/ PopLook(t)
      \/ PopHead(t) \/ PopNext(t) \/ PopCount(t) \/ Miss(t)
      \/ Push(t) \/ PushLink(t) \/ PopRead(t)
      \/ (PushCas(t) /\ head # below[t])
      \/ (PopCas(t) /\ head # node[t])
  BY DEF Step
<1> QED
  BY <1>1, ReadsKeep, PushKeeps, LinkKeeps, FailedSwapKeeps, PopReadKeeps

(* A pop loads the head only when no other is about to swap it. *)
LEMMA OneTakerKept ==
  ASSUME ~OverlapPops, TypeInv, OneTaker, NEW t \in Threads,
         Push(t) \/ TryPop(t) \/ Step(t)
  PROVE  OneTaker'
<1>1. ASSUME NEW u \in Threads, u # t PROVE pc'[u] = pc[u]
  BY <1>1 DEF TypeInv, TypeOK, Goto, Return, Push, TryPop, Step, PushLoad, PushLink,
     PushCas, PushCount, PopLook, PopHead, PopNext, PopCas, PopCount, PopRead, Miss,
     NothingCounted, NothingThere
<1>2. pc'[t] \in Taking => pc[t] \in Taking \/ \A u \in Threads : pc[u] \notin Taking
  BY LabelSets DEF Alone, TypeInv, TypeOK, Goto, Return, Push, TryPop, Step, PushLoad, PushLink,
     PushCas, PushCount, PopLook, PopHead, PopNext, PopCas, PopCount, PopRead, Miss,
     NothingCounted, NothingThere
<1> QED
  BY <1>1, <1>2 DEF OneTaker

(* Every step of a goroutine keeps the invariant. *)
LEMMA ShardStep ==
  ASSUME ~OverlapPops, ShardInv, NEW t \in Threads, Push(t) \/ TryPop(t) \/ Step(t)
  PROVE  ShardInv'
<1>1. PICK k, f : Stacked(k, f) /\ (IsFiniteSet(Threads) => Counted(k))
  BY DEF ShardInv
<1>2. TypeInv /\ Linked /\ OneTaker /\ k \in Nat /\ count \in Int
  BY <1>1 DEF ShardInv, Stacked, Chain, TypeInv, TypeOK
<1>3. TypeInv' /\ OneTaker'
  BY <1>2, PushTypes, StepTypes, OneTakerKept
<1>4. IsFiniteSet(Threads) =>
        /\ IsFiniteSet(Unpushed) /\ Cardinality(Unpushed) \in Nat
        /\ IsFiniteSet(Unpopped) /\ Cardinality(Unpopped) \in Nat
  BY FS_Subset, FS_CardinalityType DEF Unpushed, Unpopped
<1>5. CASE PushCas(t) /\ head = below[t]
  <2>1. Linked' /\ \E g : Stacked(k + 1, g)'
    BY <1>1, <1>2, <1>5, PushSwapKeeps
  <2>2. t \notin Unpushed /\ count' = count /\ Unpushed' = Unpushed \cup {t}
        /\ Unpopped' = Unpopped
    BY <1>2, <1>5, SwapsCounted DEF PushCas, PopCas, PushCount, PopCount, Unpushed
  <2>3. IsFiniteSet(Threads) => Cardinality(Unpushed') = Cardinality(Unpushed) + 1
    BY <1>4, <2>2, FS_AddElement
  <2>4. IsFiniteSet(Threads) => Counted(k + 1)'
    BY <1>1, <1>2, <1>4, <2>2, <2>3 DEF Counted
  <2> QED
    BY <1>3, <2>1, <2>4 DEF ShardInv
<1>6. CASE PopCas(t) /\ head = node[t]
  <2>1. Linked' /\ k > 0 /\ \E g : Stacked(k - 1, g)'
    BY <1>1, <1>2, <1>6, PopSwapKeeps
  <2>2. t \notin Unpopped /\ count' = count /\ Unpopped' = Unpopped \cup {t}
        /\ Unpushed' = Unpushed
    BY <1>2, <1>6, SwapsCounted DEF PushCas, PopCas, PushCount, PopCount, Unpopped
  <2>3. IsFiniteSet(Threads) => Cardinality(Unpopped') = Cardinality(Unpopped) + 1
    BY <1>4, <2>2, FS_AddElement
  <2>4. IsFiniteSet(Threads) => Counted(k - 1)'
    BY <1>1, <1>2, <1>4, <2>2, <2>3 DEF Counted
  <2> QED
    BY <1>3, <2>1, <2>4 DEF ShardInv
<1>7. CASE ~(PushCas(t) /\ head = below[t]) /\ ~(PopCas(t) /\ head = node[t])
  <2>1. Linked' /\ Stacked(k, f)'
    BY <1>1, <1>2, <1>7, NoSwapKeeps
  <2>2. \/ /\ t \in Unpushed /\ count' = count + 1
           /\ Unpushed' = Unpushed \ {t} /\ Unpopped' = Unpopped
        \/ /\ t \in Unpopped /\ count' = count - 1
           /\ Unpushed' = Unpushed /\ Unpopped' = Unpopped \ {t}
        \/ count' = count /\ Unpushed' = Unpushed /\ Unpopped' = Unpopped
    BY <1>2, <1>7, SwapsCounted
  <2>3. IsFiniteSet(Threads) /\ t \in Unpushed =>
          Cardinality(Unpushed \ {t}) = Cardinality(Unpushed) - 1
    BY <1>4, FS_RemoveElement
  <2>4. IsFiniteSet(Threads) /\ t \in Unpopped =>
          Cardinality(Unpopped \ {t}) = Cardinality(Unpopped) - 1
    BY <1>4, FS_RemoveElement
  <2>5. IsFiniteSet(Threads) => Counted(k)'
    <3> SUFFICES ASSUME IsFiniteSet(Threads)
                 PROVE  count' = k - Cardinality(Unpushed') + Cardinality(Unpopped')
      BY DEF Counted
    <3>1. count = k - Cardinality(Unpushed) + Cardinality(Unpopped)
      BY <1>1 DEF Counted
    <3> DEFINE p == Cardinality(Unpushed)
               q == Cardinality(Unpopped)
    <3>2. p \in Nat /\ q \in Nat
      BY <1>4
    <3>3. \/ count' = count + 1 /\ Cardinality(Unpushed') = p - 1
             /\ Cardinality(Unpopped') = q
          \/ count' = count - 1 /\ Cardinality(Unpushed') = p
             /\ Cardinality(Unpopped') = q - 1
          \/ count' = count /\ Cardinality(Unpushed') = p /\ Cardinality(Unpopped') = q
      BY <2>2, <2>3, <2>4
    <3>4. count = k - p + q
      BY <3>1
    <3> HIDE DEF p, q
    <3> QED
      BY <1>2, <3>2, <3>3, <3>4
  <2> QED
    BY <1>3, <2>1, <2>5 DEF ShardInv
<1> QED
  BY <1>5, <1>6, <1>7

(* The invariant holds in every state. *)
LEMMA ShardInvariant == ASSUME ~OverlapPops PROVE Spec => []ShardInv
<1>1. Init => ShardInv
  <2>1. Init => OneTaker
    BY LabelSets DEF Init, OneTaker
  <2> QED
    BY <2>1, InitTypes, InitChain DEF ShardInv
<1>2. ShardInv /\ [Next]_vars => ShardInv'
  <2>1. ASSUME ShardInv, UNCHANGED vars PROVE ShardInv'
    <3>1. PICK k, f : Stacked(k, f) /\ (IsFiniteSet(Threads) => Counted(k))
      BY <2>1 DEF ShardInv
    <3>2. TypeInv' /\ Linked' /\ OneTaker'
      BY <2>1 DEF ShardInv, TypeInv, TypeOK, Reached, Full, Linked, OneTaker, vars
    <3>3. Chain(k, f)' /\ (IsFiniteSet(Threads) => Counted(k)')
      BY <2>1, <3>1 DEF Stacked, Chain, Counted, Unpushed, Unpopped, vars
    <3>4. Apart(On(k, f))' /\ OnePlace(On(k, f))'
      BY <2>1, <3>1 DEF Stacked, Apart, OnePlace, Has, On, vars
    <3> QED
      BY <3>1, <3>2, <3>3, <3>4 DEF ShardInv, Stacked
  <2> QED
    BY <2>1, ShardStep DEF Next
<1> QED
  BY <1>1, <1>2, PTL DEF Spec

(* CountMatches: however pushes and pops interleave, the count is the      *)
(* length of the stack but for the swaps that are not counted yet, so      *)
(* tryPop is told of every slab in it (push and tryPop).                   *)
THEOREM ShardCountMatches ==
  ASSUME ~OverlapPops, IsFiniteSet(Threads) PROVE Spec => []CountMatches
<1>1. ShardInv => CountMatches
  <2> SUFFICES ASSUME ShardInv PROVE CountMatches
    OBVIOUS
  <2>1. PICK k, f : Stacked(k, f) /\ Counted(k)
    BY DEF ShardInv
  <2>2. Cardinality(InStack) = k
    BY <2>1, StackNodes, ChainFinite DEF ChainIsStack, Stacked
  <2> QED
    BY <2>1, <2>2 DEF Counted, CountMatches, Unpushed, Unpopped
<1> QED
  BY <1>1, ShardInvariant, PTL

(* MissJustified: tryPop returns empty-handed only if the stack is empty   *)
(* or another goroutine is in a call (tryPop, coloredLists.get).           *)
THEOREM ShardMissJustified ==
  ASSUME ~OverlapPops, IsFiniteSet(Threads) PROVE Spec => MissJustified
<1>1. ASSUME ShardInv, NEW t \in Threads, Miss(t),
             \A u \in Threads \ {t} : pc[u] = "idle"
      PROVE  InStack = {}
  <2>1. PICK k, f : Stacked(k, f) /\ Counted(k)
    BY <1>1 DEF ShardInv
  <2>2. k \in Nat /\ InStack = On(k, f)
    BY <2>1, StackNodes DEF ChainIsStack, Stacked, Chain
  <2>3. Unpushed = {} /\ Unpopped = {}
    BY <1>1 DEF Unpushed, Unpopped, Miss, NothingCounted, NothingThere
  <2>4. count = k
    BY <2>1, <2>2, <2>3, FS_EmptySet DEF Counted
  <2>5. k = 0
    <3>1. CASE NothingCounted(t)
      BY <2>2, <2>4, <3>1 DEF NothingCounted
    <3>2. CASE NothingThere(t)
      BY <2>1, <2>2, <3>2, NoNode DEF NothingThere, Stacked, Chain
    <3> QED
      BY <1>1, <3>1, <3>2 DEF Miss
  <2> QED
    BY <2>2, <2>5 DEF On
<1>2. ShardInv /\ [Next]_vars =>
        [\A t \in Threads : Miss(t) =>
           \/ InStack = {}
           \/ \E u \in Threads \ {t} : pc[u] # "idle"]_vars
  BY <1>1
<1> QED
  BY <1>2, ShardInvariant, PTL DEF Spec, MissJustified

-----------------------------------------------------------------------------
(* The stack is a pool. *)

(* Where WhereIs finds a slab, of which at most one place is true. *)
Located ==
  \A k, f : Stacked(k, f) =>
    \A s \in Slabs :
      /\ (\E n \in On(k, f) : item[n] = s) => Owners[s] = "free"
      /\ \A t \in Threads : Has(t, s) => Owners[s] = t
      /\ (\A n \in On(k, f) : item[n] # s) /\ (\A t \in Threads : ~Has(t, s))
           => Owners[s] = "retired"

(* It does so because a slab is in one place. *)
LEMMA OwnersLocated == Located
<1> SUFFICES ASSUME NEW k, NEW f, Stacked(k, f), NEW s \in Slabs
             PROVE  /\ (\E n \in On(k, f) : item[n] = s) => Owners[s] = "free"
                    /\ \A t \in Threads : Has(t, s) => Owners[s] = t
                    /\ (\A n \in On(k, f) : item[n] # s) /\ (\A t \in Threads : ~Has(t, s))
                         => Owners[s] = "retired"
  BY DEF Located
<1>1. InStack = On(k, f) /\ Owners[s] = WhereIs(s)
  BY StackNodes DEF ChainIsStack, Stacked, Owners
<1>2. ASSUME NEW t \in Threads, Has(t, s) PROVE Owners[s] = t
  <2>1. \A n \in InStack : item[n] # s
    BY <1>1, <1>2 DEF Stacked, OnePlace
  <2>2. \A u \in Threads : Has(u, s) => u = t
    BY <1>2 DEF Stacked, OnePlace
  <2>3. (CHOOSE u \in Threads : Has(u, s)) = t
    BY <1>2, <2>2
  <2> QED
    BY <1>1, <1>2, <2>1, <2>3 DEF WhereIs
<1> QED
  BY <1>1, <1>2 DEF WhereIs

(* A step that moves no slab, one that pops and one that pushes, seen from *)
(* the pool.                                                               *)
LEMMA UnmovedOwners ==
  ASSUME NEW k, NEW f, Stacked(k, f), Stacked(k, f)', Unmoved(On(k, f))
  PROVE  Owners' = Owners
<1>1. Located /\ Located'
  BY OwnersLocated, PTL
<1>2. ASSUME NEW s \in Slabs PROVE Owners'[s] = Owners[s]
  <2>1. CASE \E n \in On(k, f) : item[n] = s
    <3>1. PICK n \in On(k, f) : item[n] = s /\ item'[n] = s
      BY <2>1 DEF Unmoved
    <3> QED
      BY <1>1, <3>1 DEF Located, On
  <2>2. CASE \E t \in Threads : Has(t, s)
    BY <1>1, <2>2 DEF Located, Unmoved
  <2>3. CASE (\A n \in On(k, f) : item[n] # s) /\ (\A t \in Threads : ~Has(t, s))
    <3>1. (\A n \in On(k, f) : item'[n] # s) /\ (\A t \in Threads : ~Has(t, s)')
      BY <2>3 DEF Unmoved
    <3> QED
      BY <1>1, <2>3, <3>1 DEF Located, On
  <2> QED
    BY <2>1, <2>2, <2>3
<1> QED
  BY <1>2 DEF Owners

(* The swap of pop takes a slab that was free: a Claim of the pool. *)
LEMMA PopClaims ==
  ASSUME TypeInv, Linked, OneTaker, NEW k, NEW f, Stacked(k, f), NEW t \in Threads,
         PopCas(t), head = node[t]
  PROVE  Pool!Claim(t, item[node[t]])
<1>1. PICK g : Stacked(k - 1, g)' /\ On(k - 1, g) = On(k, f) \ {node[t]}
  BY PopSwapKeeps
<1> DEFINE r == item[node[t]]
<1>2. /\ UNCHANGED item /\ r \in Slabs /\ node[t] \in On(k, f)
      /\ \A u \in Threads, s \in Slabs : Has(u, s)' <=> Has(u, s) \/ (u = t /\ s = r)
  BY PopSwapKeeps
<1>3. Located /\ Located'
  BY OwnersLocated, PTL
<1>4. Owners[r] = "free"
  BY <1>2, <1>3 DEF Located
<1>5. Owners'[r] = t
  BY <1>1, <1>2, <1>3 DEF Located
<1>6. ASSUME NEW s \in Slabs, s # r PROVE Owners'[s] = Owners[s]
  <2>1. (\E n \in On(k - 1, g) : item'[n] = s) <=> \E n \in On(k, f) : item[n] = s
    BY <1>1, <1>2, <1>6
  <2>2. CASE \E n \in On(k, f) : item[n] = s
    <3>1. Owners[s] = "free"
      BY <1>3, <2>2 DEF Located
    <3>2. Owners'[s] = "free"
      BY <1>1, <1>3, <2>1, <2>2 DEF Located, On
    <3> QED
      BY <3>1, <3>2
  <2>3. CASE \E u \in Threads : Has(u, s)
    <3>1. PICK u \in Threads : Has(u, s) /\ Has(u, s)'
      BY <1>2, <2>3
    <3> QED
      BY <1>1, <1>3, <3>1 DEF Located
  <2>4. CASE (\A n \in On(k, f) : item[n] # s) /\ (\A u \in Threads : ~Has(u, s))
    <3>1. (\A n \in On(k - 1, g) : item'[n] # s) /\ (\A u \in Threads : ~Has(u, s)')
      BY <1>2, <1>6, <2>1, <2>4
    <3>2. Owners[s] = "retired"
      BY <1>3, <2>4 DEF Located
    <3>3. Owners'[s] = "retired"
      BY <1>1, <1>3, <3>1 DEF Located, On
    <3> QED
      BY <3>2, <3>3
  <2> QED
    BY <2>2, <2>3, <2>4
<1> HIDE DEF r
<1>7. Owners' = [Owners EXCEPT ![r] = t]
  BY <1>2, <1>5, <1>6 DEF Owners
<1> QED
  BY <1>4, <1>7 DEF Pool!Claim, r

(* The swap of push makes the slab free: a Release of the pool. *)
LEMMA PushGivesBack ==
  ASSUME TypeInv, Linked, NEW k, NEW f, Stacked(k, f), NEW t \in Threads,
         PushCas(t), head = below[t]
  PROVE  Pool!GiveBack(t, item[node[t]])
<1>1. PICK g : Stacked(k + 1, g)' /\ On(k + 1, g) = On(k, f) \cup {node[t]}
  BY PushSwapKeeps
<1> DEFINE r == item[node[t]]
<1>2. /\ UNCHANGED item /\ r \in Slabs /\ Has(t, r)
      /\ \A u \in Threads, s \in Slabs : Has(u, s)' <=> Has(u, s) /\ s # r
  BY PushSwapKeeps
<1>3. Located /\ Located'
  BY OwnersLocated, PTL
<1>4. Owners[r] = t
  BY <1>2, <1>3 DEF Located
<1>5. Owners'[r] = "free"
  <2>1. item'[node[t]] = r /\ node[t] \in On(k + 1, g)
    BY <1>1, <1>2
  <2> QED
    BY <1>1, <1>2, <1>3, <2>1 DEF Located, On
<1>6. ASSUME NEW s \in Slabs, s # r PROVE Owners'[s] = Owners[s]
  <2>1. (\E n \in On(k + 1, g) : item'[n] = s) <=> \E n \in On(k, f) : item[n] = s
    BY <1>1, <1>2, <1>6
  <2>2. CASE \E n \in On(k, f) : item[n] = s
    <3>1. Owners[s] = "free"
      BY <1>3, <2>2 DEF Located
    <3>2. Owners'[s] = "free"
      BY <1>1, <1>3, <2>1, <2>2 DEF Located, On
    <3> QED
      BY <3>1, <3>2
  <2>3. CASE \E u \in Threads : Has(u, s)
    <3>1. PICK u \in Threads : Has(u, s) /\ Has(u, s)'
      BY <1>2, <1>6, <2>3
    <3> QED
      BY <1>1, <1>3, <3>1 DEF Located
  <2>4. CASE (\A n \in On(k, f) : item[n] # s) /\ (\A u \in Threads : ~Has(u, s))
    <3>1. (\A n \in On(k + 1, g) : item'[n] # s) /\ (\A u \in Threads : ~Has(u, s)')
      BY <1>2, <2>1, <2>4
    <3>2. Owners[s] = "retired"
      BY <1>3, <2>4 DEF Located
    <3>3. Owners'[s] = "retired"
      BY <1>1, <1>3, <3>1 DEF Located, On
    <3> QED
      BY <3>2, <3>3
  <2> QED
    BY <2>2, <2>3, <2>4
<1> HIDE DEF r
<1>7. Owners' = [Owners EXCEPT ![r] = "free"]
  BY <1>2, <1>5, <1>6 DEF Owners
<1> QED
  BY <1>4, <1>7 DEF Pool!GiveBack, r

(* StackIsPool: the shard implements the abstract pool.  The swap of tryPop*)
(* is the moment a slab is claimed, the swap of push the moment it is given*)
(* back, and no other step moves a slab.                                   *)
THEOREM ShardIsPool == ASSUME ~OverlapPops PROVE Spec => StackIsPool
<1>1. Init => Pool!Init
  <2> SUFFICES ASSUME Init PROVE Owners = [s \in Slabs |-> "free"]
    BY DEF Pool!Init
  <2>1. PICK k, f : Stacked(k, f) /\ \A s \in Slabs : s \in On(k, f) /\ item[s] = s
    BY InitChain
  <2>2. \A s \in Slabs : Owners[s] = "free"
    BY <2>1, OwnersLocated DEF Located
  <2> QED
    BY <2>2 DEF Owners
<1> DEFINE Moves == \E t \in Threads, s \in Slabs :
                      Pool!Claim(t, s) \/ Pool!GiveBack(t, s)
<1>2. ASSUME ShardInv, NEW t \in Threads, Push(t) \/ TryPop(t) \/ Step(t)
      PROVE  Moves \/ Owners' = Owners
  <2>1. PICK k, f : Stacked(k, f)
    BY <1>2 DEF ShardInv
  <2>2. CASE PushCas(t) /\ head = below[t]
    <3>1. item[node[t]] \in Slabs
      BY <1>2, <2>1, <2>2, PushSwapKeeps DEF ShardInv
    <3>2. Pool!GiveBack(t, item[node[t]])
      BY <1>2, <2>1, <2>2, PushGivesBack DEF ShardInv
    <3> QED
      BY <3>1, <3>2
  <2>3. CASE PopCas(t) /\ head = node[t]
    <3>1. item[node[t]] \in Slabs
      BY <1>2, <2>1, <2>3, PopSwapKeeps DEF ShardInv
    <3>2. Pool!Claim(t, item[node[t]])
      BY <1>2, <2>1, <2>3, PopClaims DEF ShardInv
    <3> QED
      BY <3>1, <3>2
  <2>4. CASE ~(PushCas(t) /\ head = below[t]) /\ ~(PopCas(t) /\ head = node[t])
    <3>1. Stacked(k, f)' /\ Unmoved(On(k, f))
      BY <1>2, <2>1, <2>4, NoSwapKeeps DEF ShardInv
    <3> QED
      BY <2>1, <3>1, UnmovedOwners
  <2> QED
    BY <2>2, <2>3, <2>4
<1>3. UNCHANGED vars => Owners' = Owners
  <2> SUFFICES ASSUME UNCHANGED vars PROVE Owners' = Owners
    OBVIOUS
  <2>1. InStack' = InStack
    BY DEF InStack, NodeAt, vars
  <2>2. \A u \in Threads, s \in Slabs : Has(u, s)' <=> Has(u, s)
    BY DEF Has, vars
  <2> QED
    BY <2>1, <2>2 DEF Owners, WhereIs, Has, vars
<1>4. ShardInv /\ [Next]_vars => [Moves]_Owners
  <2> HIDE DEF Moves
  <2> QED
    BY <1>2, <1>3 DEF Next
<1> QED
  BY <1>1, <1>4, ShardInvariant, PTL DEF Spec, StackIsPool
=============================================================================
