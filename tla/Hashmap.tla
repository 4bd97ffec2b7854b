------------------------------ MODULE Hashmap ------------------------------
(***************************************************************************)
(* The open-addressing map of hashmap.c: Hashmap_new, Hashmap_set with its *)
(* resizing, Hashmap_get and Hashmap_delete, beside the dictionary it is   *)
(* meant to be.  A key stands for its bytes and length, and hash is the    *)
(* function pointer the map is created with.                               *)
(*                                                                         *)
(* Hashmap_set calls itself: a resize sets the old nodes again, each of    *)
(* which may need a resize of its own.  The calls that have not returned   *)
(* are a stack of frames, innermost last.                                  *)
(***************************************************************************)
EXTENDS Integers, FiniteSets, SequencesExt

CONSTANTS Keys,              \* keys given to set, get and delete
          Values,            \* value pointers
          NULL,              \* the null pointer
          hash(_),           \* the hash function of the map
          STARTING_BUCKETS,  \* initial capacity
          MaxDoublings       \* how often the array can double before memory is used up

ASSUME HashmapAssumption ==
    /\ NULL \notin Keys \cup Values
    /\ \A k \in Keys : hash(k) \in Nat
    /\ STARTING_BUCKETS \in Nat \ {0}
    /\ MaxDoublings \in Nat

(* The largest array that calloc can allocate. *)
MaxBuckets == STARTING_BUCKETS * 2 ^ MaxDoublings

VARIABLES map,      \* cap, arr and size of the Hashmap
          calls,    \* the calls of Hashmap_set under way, innermost last
          ref,      \* ref[k]: the value last set for k and not deleted, or NULL
          deleting  \* whether Hashmap_delete has been called

vars == <<map, calls, ref, deleting>>

(* calloc: every node is empty. *)
Node(status, key, value, hv) == [status |-> status, key |-> key, value |-> value, hash |-> hv]
Fresh(cap) == [cap |-> cap, size |-> 0,
               arr |-> [s \in 0 .. cap - 1 |-> Node("EMPTY", NULL, NULL, 0)]]

Hashmap_new == Fresh(STARTING_BUCKETS)

(* The power of two that is not below n and below 2 * n. *)
next_power_of_2(n) == CHOOSE p \in n .. 2 * n - 1 : \E j \in 0 .. n : p = 2 ^ j

Home(m, k) == hash(k) % m.cap

(* The slots a key may be in: its home, then those of the probing loops    *)
(* (>> binds weaker than + in C), skipping what lies beyond the array.     *)
Probe(m, k, i) == IF i = 0 THEN Home(m, k)
                  ELSE ((Home(m, k) + i + i * i) \div 2) % next_power_of_2(m.cap)

Turns(m, k) == {i \in 0 .. next_power_of_2(m.cap) : Probe(m, k, i) \in 0 .. m.cap - 1}

------------------------------------------------------------------------------
(* What Hashmap_set makes of the node in a slot. *)
probing(m, k, s) ==
    LET node == m.arr[s]
    IN  CASE node.status = "EMPTY" -> "FOUND"
          [] node.status # "EMPTY" /\ node.hash # Home(m, k) -> "NEED_RESIZE"
          [] node.status = "DELETED" /\ node.hash = Home(m, k) -> "FOUND"
          [] node.status = "OCCUPIED" /\ node.hash = Home(m, k) ->
                IF node.key = k THEN "REPLACE" ELSE "HAS_NEXT"

(* The turns at which probing ends, and the slot it ends at. *)
SetEnds(m, k) == {i \in Turns(m, k) : probing(m, k, Probe(m, k, i)) # "HAS_NEXT"}
SetSlot(m, k) == Probe(m, k, Min(SetEnds(m, k)))

(* The slot is free or holds the key. *)
HasPlace(m, k) == SetEnds(m, k) # {} /\ probing(m, k, SetSlot(m, k)) # "NEED_RESIZE"

(* Mutant of node_set: the hash is stored before its reduction to a slot. *)
node_set_unreduced(m, k, v, s) ==
    [m EXCEPT !.arr[s] = Node("OCCUPIED", k, v, hash(k)),
              !.size = IF probing(m, k, s) = "FOUND" THEN @ + 1 ELSE @]

node_set(m, k, v, s) ==
    [m EXCEPT !.arr[s] = Node("OCCUPIED", k, v, Home(m, k)),
              !.size = IF probing(m, k, s) = "FOUND" THEN @ + 1 ELSE @]

(* Mutant of Reinserted: the last bucket of the old array is left behind. *)
ReinsertedShort(m) == {s \in 0 .. m.cap - 2 : m.arr[s].status = "OCCUPIED"}

(* The nodes of the old array that a resize sets again, in slot order. *)
Reinserted(m) == {s \in 0 .. m.cap - 1 : m.arr[s].status = "OCCUPIED"}

(* A call of Hashmap_set: its arguments and, once it resizes, old_arr and  *)
(* the slots of it that are still to be set again.                         *)
Call(k, v) == [key |-> k, value |-> v, at |-> "probing", old |-> << >>, left |-> {}]

------------------------------------------------------------------------------
(* What Hashmap_get and Hashmap_delete make of the node in a slot. *)
probing2(m, k, s) ==
    LET node == m.arr[s]
    IN  CASE node.status = "EMPTY" \/ node.hash # Home(m, k) -> "STOP"
          [] node.status # "EMPTY" /\ node.hash = Home(m, k) ->
                IF node.status = "DELETED" \/ node.key # k THEN "CONTINUE" ELSE "FOUND"

(* The turns at which their probing ends, and the slot of the first or -1. *)
GetEnds(m, k) == {i \in Turns(m, k) : probing2(m, k, Probe(m, k, i)) # "CONTINUE"}
SlotOf(m, k) ==
    LET ends == GetEnds(m, k)
        slot == Probe(m, k, Min(ends))
    IN  IF ends # {} /\ probing2(m, k, slot) = "FOUND" THEN slot ELSE -1

Hashmap_get(m, k) == LET s == SlotOf(m, k) IN IF s = -1 THEN NULL ELSE m.arr[s].value

(* Mutant of node_delete: the node is emptied, which ends probe sequences. *)
node_clear(m, s) == [m EXCEPT !.arr[s] = Node("EMPTY", NULL, NULL, 0), !.size = @ - 1]

(* The home stays; key and value of a deleted node are not looked at again. *)
node_delete(m, s) == [m EXCEPT !.arr[s] = Node("DELETED", NULL, NULL, @.hash), !.size = @ - 1]

Hashmap_delete(m, k) == LET s == SlotOf(m, k) IN IF s = -1 THEN m ELSE node_delete(m, s)

------------------------------------------------------------------------------
Init == /\ map = Hashmap_new
        /\ calls = << >>
        /\ ref = [k \in Keys |-> NULL]
        /\ deleting = FALSE

(* The caller calls Hashmap_set. *)
Set(k, v) == /\ calls = << >>
             /\ calls' = << Call(k, v) >>
             /\ ref' = [ref EXCEPT ![k] = v]
             /\ UNCHANGED <<map, deleting>>

Top == Last(calls)
At(where) == calls # << >> /\ Top.at = where

(* The innermost call goes on as f. *)
Moved(f) == [calls EXCEPT ![Len(calls)] = f]

(* Hashmap_set finds its slot and returns. *)
Place == /\ At("probing") /\ HasPlace(map, Top.key)
         /\ map' = node_set(map, Top.key, Top.value, SetSlot(map, Top.key))
         /\ calls' = Front(calls)
         /\ UNCHANGED <<ref, deleting>>

(* Mutant of Resize: the capacity stays. *)
ResizeNot == /\ At("probing") /\ ~HasPlace(map, Top.key)
             /\ 2 * map.cap <= MaxBuckets
             /\ map' = Fresh(map.cap)
             /\ calls' = Moved([Top EXCEPT !.at = "resizing", !.old = map.arr,
                                           !.left = Reinserted(map)])
             /\ UNCHANGED <<ref, deleting>>

(* There is none, or a node with another home comes first. *)
Resize == /\ At("probing") /\ ~HasPlace(map, Top.key)
          /\ 2 * map.cap <= MaxBuckets
          /\ map' = Fresh(2 * map.cap)
          /\ calls' = Moved([Top EXCEPT !.at = "resizing", !.old = map.arr,
                                        !.left = Reinserted(map)])
          /\ UNCHANGED <<ref, deleting>>

(* calloc returns NULL, which the next call of probing dereferences. *)
ResizeFails == /\ At("probing") /\ ~HasPlace(map, Top.key)
               /\ 2 * map.cap > MaxBuckets
               /\ calls' = Moved([Top EXCEPT !.at = "crashed"])
               /\ UNCHANGED <<map, ref, deleting>>

(* The loop over the old array calls Hashmap_set for its next node. *)
Reinsert == /\ At("resizing") /\ Top.left # {}
            /\ LET s == Min(Top.left)
               IN calls' = Append(Moved([Top EXCEPT !.left = @ \ {s}]),
                                  Call(Top.old[s].key, Top.old[s].value))
            /\ UNCHANGED <<map, ref, deleting>>

(* The loop ends: the old array is freed, and the key is set anew. *)
EndResize == /\ At("resizing") /\ Top.left = {}
             /\ calls' = Moved(Call(Top.key, Top.value))
             /\ UNCHANGED <<map, ref, deleting>>

Delete(k) == /\ calls = << >>
             /\ map' = Hashmap_delete(map, k)
             /\ ref' = [ref EXCEPT ![k] = NULL]
             /\ deleting' = TRUE
             /\ UNCHANGED calls

Hashmap_set == Place \/ Resize \/ ResizeFails \/ Reinsert \/ EndResize

Next == \/ \E k \in Keys, v \in Values : Set(k, v)
        \/ \E k \in Keys : Delete(k)
        \/ Hashmap_set

Spec == Init /\ [][Next]_vars

(* A call that has begun is executed: the weak fairness of Hashmap_set,    *)
(* which is enabled exactly while a call is under way in a live program.   *)
Fairness == []<>(calls = << >> \/ At("crashed")) \/ []<><<Hashmap_set>>_vars
------------------------------------------------------------------------------
Present == {k \in Keys : ref[k] # NULL}

(* What the nodes of an array may hold: an occupied one stores the home of *)
(* its key, which probing compares instead of the hash itself.             *)
TypeOK == /\ map.cap \in Nat \ {0}
          /\ map.size \in Nat
          /\ DOMAIN map.arr = 0 .. map.cap - 1
          /\ \A s \in 0 .. map.cap - 1 :
                /\ map.arr[s].status \in {"EMPTY", "OCCUPIED", "DELETED"}
                /\ map.arr[s].status = "OCCUPIED" =>
                      /\ map.arr[s].key \in Keys
                      /\ map.arr[s].value \in Values
                      /\ map.arr[s].hash = Home(map, map.arr[s].key)
          /\ ref \in [Keys -> Values \cup {NULL}]
          /\ \A c \in DOMAIN calls : calls[c].key \in Keys /\ calls[c].value \in Values

(***************************************************************************)
(* Until the first deletion the map is a dictionary, through collisions,   *)
(* probing and any number of resizes: when no call is under way, get       *)
(* returns the value last set, and size is the number of keys.             *)
(***************************************************************************)
SetsMakeADictionary ==
    calls = << >> /\ ~deleting =>
        /\ \A k \in Keys : Hashmap_get(map, k) = ref[k]
        /\ map.size = Cardinality(Present)

(***************************************************************************)
(* A key that was set and not deleted since is always found, whatever was  *)
(* deleted from the slots before it (its value may be an older one: see    *)
(* MakesADictionary).                                                      *)
(***************************************************************************)
NeverLost == calls = << >> => \A k \in Present : Hashmap_get(map, k) # NULL

(* The keys that are in the map, or that a call under way has yet to set. *)
Held == {map.arr[s].key : s \in Reinserted(map)}
        \cup {calls[c].key : c \in DOMAIN calls}
        \cup UNION {{calls[c].old[s].key : s \in calls[c].left} : c \in DOMAIN calls}

HashesDiffer == \A j, k \in Held : hash(j) = hash(k) => j = k

(* The array can double, and with memory used up has a bucket for every hash. *)
HasMemory == 2 * map.cap <= MaxBuckets /\ \A k \in Held : hash(k) < MaxBuckets

(***************************************************************************)
(* Hashmap_set returns: a resize, with the resizes inside of it, ends in   *)
(* an array in which the keys find their places, whatever was deleted      *)
(* before.  This takes memory, and hashes that differ: of two keys with    *)
(* one hash, the second lies in the same bucket of every large array, a    *)
(* key that has its home there finds no place in any of them, and the map  *)
(* doubles until calloc fails.                                             *)
(***************************************************************************)
SetReturns == calls # << >> /\ HashesDiffer /\ HasMemory ~> calls = << >>

(***************************************************************************)
(* The map is a dictionary, deletions included: get returns the value last *)
(* set ("using the same key should override the previous value",           *)
(* hashmap.c:228), and NULL for a key that was deleted ("basic delete      *)
(* functionality", hashmap.c:233).                                         *)
(***************************************************************************)
MakesADictionary == calls = << >> => \A k \in Keys : Hashmap_get(map, k) = ref[k]
=============================================================================
