----------------------------- MODULE MCHashmap -----------------------------
(***************************************************************************)
(* Hashmap in a program that sets and deletes certain keys.                *)
(***************************************************************************)
EXTENDS Hashmap

CONSTANT Callers  \* the keys each of some programs sets, and those it deletes

ASSUME CallersAssumption == Callers \subseteq [sets : SUBSET Keys, deletes : SUBSET Keys]

VARIABLE caller  \* the one that uses the map

MCHash(k) == k % 16

MCInit == Init /\ caller \in Callers

MCNext == /\ \/ \E k \in caller.sets, v \in Values : Set(k, v)
             \/ \E k \in caller.deletes : Delete(k)
             \/ Hashmap_set
          /\ UNCHANGED caller

MCSpec == MCInit /\ [][MCNext]_<<vars, caller>> /\ Fairness

(***************************************************************************)
(* The first program resizes within the loop of a resize that has nodes    *)
(* left to set again.  In the second the keys 4 and 20 have one hash: they *)
(* take the buckets 4 and 3 of every large array, and 3 has its home there.*)
(* The third deletes keys that share a home in any order, which leaves     *)
(* copies of them behind.                                                  *)
(***************************************************************************)
MCCallers == {[sets |-> {0, 3, 4, 7, 12}, deletes |-> {3, 4}],
              [sets |-> {3, 4, 20},       deletes |-> {3, 20}],
              [sets |-> {0, 2, 4},        deletes |-> {0, 2, 4}]}

(* Two keys that collide in the map as it is created. *)
MCColliding == {[sets |-> {0, 8}, deletes |-> {0, 8}]}
============================================================================
