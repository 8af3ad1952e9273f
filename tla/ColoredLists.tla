---------------------------- MODULE ColoredLists ----------------------------
(***************************************************************************)
(* coloredShardedFreeList: which of its lists a slab is put on, and the    *)
(* order in which get looks through them.  The array holds CacheColorCount *)
(* lists for every shard.  ColoredShard models one of the lists and its    *)
(* compare-and-swaps; here every call is one step.                         *)
(*                                                                         *)
(* A slab's color is a bit of its offset, and the bit, that of             *)
(* CacheColorCount itself, is never a color: it is 0 for every slab when   *)
(* slabs start on lines of 32 bytes or more, and the "different colors"    *)
(* that get tries first (slabby.go:2357) are lists where no slab is ever   *)
(* put.  On shorter lines the bit can be set, the constructor, unlike put  *)
(* and Reset, does not mask it, and New panics when the last shard is hit. *)
(***************************************************************************)
EXTENDS Integers, FiniteSets, SequencesExt

CONSTANTS
  Colors,       \* CacheColorCount
  ShardCounts,  \* what WithShards may be given, or GOMAXPROCS
  Aligned,      \* aligned slab sizes
  Capacity      \* the number of slabs

VARIABLE lists  \* the free list, or NoLists; missed: whether the last get failed

NoLists == [shards |-> 0, aligned |-> 0, hash |-> <<>>, array |-> <<>>,
            kept |-> {}, missed |-> FALSE]

Slabs == 0 .. Capacity - 1

(* nextPowerOfTwo *)
NextPowerOfTwo(n) == CHOOSE p \in {2 ^ k : k \in 0 .. n} :
                       p >= n /\ \A k \in 0 .. n : 2 ^ k >= n => p <= 2 ^ k

(* getSlabColor: the offset & Colors, for Colors a power of two *)
SlabColor(slab, aligned) == (((slab * aligned) \div Colors) % 2) * Colors

(* getColoredShardIndex: any function of the slab, below the shard count *)
ShardIndex(l, slab) == l.hash[slab] % l.shards

(* The list a slab is put on, by the constructor and by put and Reset *)
IndexWhenMade(l) ==
  [s \in Slabs |-> ShardIndex(l, s) * Colors + SlabColor(s, l.aligned)]
IndexWhenPut(l) ==
  [s \in Slabs |-> ShardIndex(l, s) * Colors + (SlabColor(s, l.aligned) % Colors)]

(* The slabs are pushed in order, so the last is on top. *)
Stacked(S) == CHOOSE q \in [1 .. Cardinality(S) -> S] :
                \A j, k \in 1 .. Cardinality(S) : j < k => q[j] > q[k]

Distributed(l, index) ==
  [i \in 0 .. l.shards * Colors - 1 |-> Stacked({s \in Slabs : index[s] = i})]

Init == lists = NoLists

(* newColoredShardedFreeList; indexing past the array is a panic *)
New(count, aligned, hash) ==
  LET l == [NoLists EXCEPT !.shards = NextPowerOfTwo(count), !.aligned = aligned,
                           !.hash = hash]
  IN  /\ \A s \in Slabs : IndexWhenMade(l)[s] < l.shards * Colors
      /\ lists' = [l EXCEPT !.array = Distributed(l, IndexWhenMade(l))]

(* mutant: the scan stops one color early *)
ScanShort(l, start, last) ==
  [k \in 1 .. l.shards * (Colors - 1) |->
     ((start + k) % l.shards) * Colors + ((last + 1 + (k - 1) \div l.shards) % Colors)]

(* The lists get looks into, in order: color after color, and for each the *)
(* shards from a random one on, over and over.                             *)
Scan(l, start, last) ==
  [k \in 1 .. l.shards * Colors |->
     ((start + k - 1) % l.shards) * Colors
       + ((last + 1 + (k - 1) \div l.shards) % Colors)]

(* get's last resort indexes the array by shard, without the colors *)
LastResort(l, start) == [k \in 1 .. l.shards |-> (start + k - 1) % l.shards]

Get(start, last) ==
  LET order == Scan(lists, start, last) \o LastResort(lists, start)
      k     == SelectInSeq(order, LAMBDA i : lists.array[i] # <<>>)
  IN  lists' = IF k = 0 THEN [lists EXCEPT !.missed = TRUE]
               ELSE [lists EXCEPT !.array[order[k]] = Tail(@),
                                  !.kept = @ \cup {Head(lists.array[order[k]])},
                                  !.missed = FALSE]

Put(slab) ==
  /\ slab \in lists.kept
  /\ lists' = [lists EXCEPT !.array[IndexWhenPut(lists)[slab]] = <<slab>> \o @,
                            !.kept = @ \ {slab}, !.missed = FALSE]

(* mutant: the shards are not emptied before the slabs are pushed again *)
Refilled(l) ==
  [i \in DOMAIN l.array |-> Distributed(l, IndexWhenPut(l))[i] \o l.array[i]]

(* Reset's loops over the shards: empty them, then push every slab *)
Redistributed(l) == Distributed(l, IndexWhenPut(l))

(* Reset, with no slab taken: see SlabAlloc for one that is *)
Reset ==
  /\ lists.kept = {}
  /\ lists' = [lists EXCEPT !.array = Redistributed(lists), !.missed = FALSE]

Make == lists = NoLists /\ \E count \in ShardCounts, aligned \in Aligned,
                              hash \in [Slabs -> 0 .. 3] : New(count, aligned, hash)

Use ==
  /\ lists # NoLists
  /\ \/ \E start \in 0 .. lists.shards - 1 : Get(start, 0)
     \/ \E slab \in Slabs : Put(slab)
     \/ Reset

-----------------------------------------------------------------------------
(* get fails only when every list is empty: whatever list the constructor, *)
(* put or Reset chose for a slab, the scan comes by it.                    *)
MissMeansEmpty == lists.missed => \A i \in DOMAIN lists.array : lists.array[i] = <<>>

(* Every slab is on one list, once, or with a caller of get; put never     *)
(* sends a slab to one list while it is left on another, though New and    *)
(* put do not compute the same index for it.                               *)
OnOneList ==
  lists # NoLists => \A s \in Slabs :
    Cardinality({e \in UNION {{i} \X DOMAIN lists.array[i] : i \in DOMAIN lists.array} :
                   lists.array[e[1]][e[2]] = s})
      = (IF s \in lists.kept THEN 0 ELSE 1)
=============================================================================
