------------------------------ MODULE SlabPool ------------------------------
(***************************************************************************)
(* What a slab allocator promises its clients, whatever it is built from:  *)
(* every slab has at most one owner, only its owner gives it back, and a   *)
(* slab that fails its integrity check on the way back is withdrawn from   *)
(* circulation until the next Reset.                                       *)
(*                                                                         *)
(* SlabAlloc is shown to implement this specification.                     *)
(***************************************************************************)
CONSTANTS Threads,   \* the goroutines that use the allocator
          Slabs,     \* the slabs it manages
          Free,      \* the owner of a slab nobody holds
          Retired    \* the owner of a slab withdrawn from circulation

VARIABLE owner       \* owner[s] is the thread that holds s, Free or Retired

PoolTypeOK == owner \in [Slabs -> Threads \cup {Free, Retired}]

Init == owner = [s \in Slabs |-> Free]

(* An allocation takes effect. *)
Claim(t, s) == /\ owner[s] = Free
               /\ owner' = [owner EXCEPT ![s] = t]

(* A deallocation takes effect. *)
GiveBack(t, s) == /\ owner[s] = t
                  /\ owner' = [owner EXCEPT ![s] = Free]

(* A deallocation whose integrity check fails: the client loses the slab   *)
(* and the allocator does not get it back.                                 *)
Retire(t, s) == /\ owner[s] = t
                /\ owner' = [owner EXCEPT ![s] = Retired]

(* Every slab becomes free again, whoever held it. *)
ResetAll == owner' = [s \in Slabs |-> Free]

Next == \/ \E t \in Threads, s \in Slabs :
             Claim(t, s) \/ GiveBack(t, s) \/ Retire(t, s)
        \/ ResetAll

Spec == Init /\ [][Next]_owner
=============================================================================
