----------------------------- MODULE MCMergesort -----------------------------
(* mergesort.c on every short array of a few values, and on longer ones     *)
(* whose parts have two items, in every schedule.                           *)
EXTENDS Mergesort

CONSTANTS MaxLen,  \* the lengths checked with every content
          Values   \* the items of these arrays

MCInputs == UNION {[1..m -> Values] : m \in 0..MaxLen}
            \cup {<<8, 7, 6, 5, 4, 3, 2, 1>>, <<2, 1, 1, 2, 3, 1, 2>>}
=============================================================================
