------------------------------ MODULE Dynarray ------------------------------
(***************************************************************************)
(* The dynamic array (dynarray.c) as functions from an array to an array.  *)
(* ok turns FALSE at an access outside the allocated cells.                *)
(***************************************************************************)
EXTENDS Integers, Sequences

CONSTANTS STARTING_CAPACITY,
          NULL

(* An array of capacity 1 would never grow: 1 * 1.5 is 1. *)
ASSUME CapacityAssumption == STARTING_CAPACITY \in Nat \ {0, 1}

DA_new == [cap |-> STARTING_CAPACITY, size |-> 0,
           arr |-> [i \in 0 .. STARTING_CAPACITY - 1 |-> NULL], ok |-> TRUE]

StoreCell(da, i, x) == IF i \in DOMAIN da.arr THEN [da EXCEPT !.arr[i] = x]
                   ELSE [da EXCEPT !.ok = FALSE]

(* Mutant of Grow: a quarter more, rounded down. *)
GrowQuarter(da) == LET cap == (da.cap * 5) \div 4
                   IN [da EXCEPT !.cap = cap,
                                 !.arr = [i \in 0 .. cap - 1 |->
                                             IF i < da.cap THEN da.arr[i] ELSE NULL]]

(* cap *= 1.5 truncates; realloc keeps what is there. *)
Grow(da) == LET cap == (da.cap * 3) \div 2
            IN [da EXCEPT !.cap = cap,
                          !.arr = [i \in 0 .. cap - 1 |->
                                      IF i < da.cap THEN da.arr[i] ELSE NULL]]

DA_push(da, x) == LET d == IF da.size = da.cap THEN Grow(da) ELSE da
                  IN [StoreCell(d, d.size, x) EXCEPT !.size = @ + 1]

(* The array after DA_pop and what it returns. *)
DA_pop(da) == IF da.size = 0 THEN [da |-> da, ret |-> NULL]
              ELSE [da  |-> [da EXCEPT !.size = @ - 1, !.ok = @ /\ da.size - 1 < da.cap],
                    ret |-> IF da.size - 1 < da.cap THEN da.arr[da.size - 1] ELSE NULL]

DA_set(da, x, i) == IF 0 <= i /\ i < da.size THEN StoreCell(da, i, x) ELSE da

DA_get(da, i) == IF 0 <= i /\ i < da.size THEN da.arr[i] ELSE NULL
=============================================================================
