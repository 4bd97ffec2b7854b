------------------------------ MODULE Mergesort ------------------------------
(***************************************************************************)
(* The multi-threaded merge sort (mergesort.c): sort() hands its left part *)
(* to a new thread, sorts the right part itself with one thread fewer,     *)
(* joins the thread and merges, all of it in one array without a lock.     *)
(*                                                                         *)
(* A thread is a stack of calls of sort(), innermost last; a thread whose  *)
(* stack is empty has not been created or has ended.  merge() takes the    *)
(* items one by one, and then writes them back.  The CPU affinity the      *)
(* threads ask for does not change what they compute.                      *)
(***************************************************************************)
EXTENDS Integers, SequencesExt

CONSTANTS Tcnt,   \* threads sort() is called for, the calling one included
          Inputs  \* the arrays it is called with

ASSUME TcntAssumption == Tcnt \in Nat \ {0}
ASSUME InputsAssumption == Inputs \subseteq Seq(Int)

VARIABLES input,  \* the array as it was
          arr,    \* the array
          stack,  \* stack[t]: the calls of thread t, 0 is the main thread
          x,      \* the items the merge of each thread has taken,
          left,   \* how many of them from the left part,
          right,  \* and where in its part it is in the right one
          ntid    \* threads created

merge == <<x, left, right>>
vars == <<input, arr, stack, merge, ntid>>

Threads == 0 .. Tcnt - 1

(* A call: its part of the array, its threads, where it is, whom it joins. *)
Call(lo, n, tcnt) == [lo |-> lo, n |-> n, tcnt |-> tcnt, at |-> "sort", tid |-> 0]

Init == /\ input \in Inputs
        /\ arr = input
        /\ stack = [t \in Threads |-> IF t = 0 THEN <<Call(0, Len(input), Tcnt)>> ELSE << >>]
        /\ x = [t \in Threads |-> << >>]
        /\ left = [t \in Threads |-> 0] /\ right = [t \in Threads |-> 0]
        /\ ntid = 0

------------------------------------------------------------------------------
Border(n, tcnt) == IF tcnt > 2 THEN n \div tcnt ELSE n \div 2

LeftPart(f) == Call(f.lo, Border(f.n, f.tcnt), 1)

(* Mutant of RightPart: half, for an odd n as well. *)
RightPartHalf(f) == Call(f.lo + Border(f.n, f.tcnt), IF f.tcnt > 2 THEN f.n - Border(f.n, f.tcnt)
                                                     ELSE f.n \div 2,
                         IF f.tcnt > 2 THEN f.tcnt - 1 ELSE 1)

RightPart(f) == Call(f.lo + Border(f.n, f.tcnt), f.n - Border(f.n, f.tcnt),
                     IF f.tcnt > 2 THEN f.tcnt - 1 ELSE 1)

Top(t) == Last(stack[t])
At(t, where) == stack[t] # << >> /\ Top(t).at = where

(* The call's frame moves on. *)
Moved(t, f) == [stack[t] EXCEPT ![Len(stack[t])] = f]

------------------------------------------------------------------------------
(* Nothing to sort. *)
SortNothing(t) ==
    /\ At(t, "sort") /\ Top(t).n < 2
    /\ stack' = [stack EXCEPT ![t] = Front(@)]
    /\ UNCHANGED <<input, arr, merge, ntid>>

(* mt_sort: a new thread runs routine() on the left part. *)
MtSort(t) ==
    /\ At(t, "sort") /\ Top(t).n >= 2 /\ Top(t).tcnt > 1
    /\ ntid' = ntid + 1
    /\ stack' = [stack EXCEPT ![t] = Moved(t, [Top(t) EXCEPT !.at = "right", !.tid = ntid + 1]),
                              ![ntid + 1] = <<LeftPart(Top(t))>>]
    /\ UNCHANGED <<input, arr, merge>>

SortLeft(t) ==
    /\ At(t, "sort") /\ Top(t).n >= 2 /\ Top(t).tcnt <= 1
    /\ stack' = [stack EXCEPT ![t] = Append(Moved(t, [Top(t) EXCEPT !.at = "right"]),
                                            LeftPart(Top(t)))]
    /\ UNCHANGED <<input, arr, merge, ntid>>

SortRight(t) ==
    /\ At(t, "right")
    /\ stack' = [stack EXCEPT ![t] = Append(Moved(t, [Top(t) EXCEPT !.at = "join"]),
                                            RightPart(Top(t)))]
    /\ UNCHANGED <<input, arr, merge, ntid>>

(* merge() begins. *)
Merge(t) ==
    /\ stack' = [stack EXCEPT ![t] = Moved(t, [Top(t) EXCEPT !.at = "merge"])]
    /\ left' = [left EXCEPT ![t] = 0]
    /\ right' = [right EXCEPT ![t] = Border(Top(t).n, Top(t).tcnt)]
    /\ UNCHANGED <<input, arr, x, ntid>>

(* Mutant of Join: the thread is not waited for. *)
JoinNot(t) == At(t, "join") /\ Merge(t)

(* Mutant of Join: all threads created are joined, the one that joins as well. *)
JoinAll(t) == /\ At(t, "join")
              /\ \A u \in 1..ntid : stack[u] = << >>
              /\ Merge(t)

Join(t) == /\ At(t, "join")
           /\ Top(t).tid # 0 => stack[Top(t).tid] = << >>
           /\ Merge(t)

(* The next item is the right part's if the left one has none or a larger one. *)
TakesRight(t) ==
    LET f == Top(t)
    IN  /\ right[t] # f.n
        /\ \/ left[t] = Border(f.n, f.tcnt)
           \/ arr[f.lo + right[t] + 1] < arr[f.lo + left[t] + 1]

MergeCopy(t) ==
    /\ At(t, "merge") /\ Len(x[t]) < Top(t).n
    /\ \/ /\ TakesRight(t)
          /\ x' = [x EXCEPT ![t] = Append(@, arr[Top(t).lo + right[t] + 1])]
          /\ right' = [right EXCEPT ![t] = @ + 1]
          /\ UNCHANGED left
       \/ /\ ~TakesRight(t)
          /\ x' = [x EXCEPT ![t] = Append(@, arr[Top(t).lo + left[t] + 1])]
          /\ left' = [left EXCEPT ![t] = @ + 1]
          /\ UNCHANGED right
    /\ UNCHANGED <<input, arr, stack, ntid>>

(* ... and back: sort returns, the last sort of a thread ends it. *)
MergeBack(t) ==
    /\ At(t, "merge") /\ Len(x[t]) = Top(t).n
    /\ LET f == Top(t)
       IN arr' = [i \in DOMAIN arr |-> IF i \in f.lo + 1 .. f.lo + f.n THEN x[t][i - f.lo]
                                       ELSE arr[i]]
    /\ x' = [x EXCEPT ![t] = << >>]
    /\ stack' = [stack EXCEPT ![t] = Front(@)]
    /\ UNCHANGED <<input, left, right, ntid>>

Step(t) == \/ SortNothing(t) \/ MtSort(t) \/ SortLeft(t) \/ SortRight(t)
           \/ Join(t) \/ MergeCopy(t) \/ MergeBack(t)

Next == \E t \in Threads : Step(t)

Spec == Init /\ [][Next]_vars

(* The scheduler runs every thread that can run. *)
FairSpec == Spec /\ \A t \in Threads : WF_vars(Step(t))
------------------------------------------------------------------------------
(* What a thread is reading or writing. *)
Touched(t) == IF At(t, "merge") THEN Top(t).lo + 1 .. Top(t).lo + Top(t).n ELSE {}

(***************************************************************************)
(* No data race: while a thread merges a part of the array, no other       *)
(* thread reads or writes an item of it, whatever the length of the array  *)
(* (with fewer items than threads, some parts are empty); and a thread is  *)
(* given a part that its creator does not touch until it has ended.        *)
(***************************************************************************)
NoRace == \A t, u \in Threads : t # u => Touched(t) \cap Touched(u) = {}

IsSortOf(s, of) ==
    /\ Len(s) = Len(of)
    /\ \A i \in 1 .. Len(s) - 1 : s[i] <= s[i + 1]
    /\ \A v \in ToSet(of) : Cardinality({i \in DOMAIN s : s[i] = v})
                            = Cardinality({i \in DOMAIN of : of[i] = v})

(***************************************************************************)
(* What main() asserts, and more: when sort() has returned, no thread is   *)
(* left behind, and the array has the items it had, in order, however the  *)
(* threads were scheduled and whatever the lengths of their parts.         *)
(***************************************************************************)
EndsSorted ==
    stack[0] = << >> => IsSortOf(arr, input) /\ \A t \in Threads : stack[t] = << >>

(* sort() returns: no thread waits for one that does not end. *)
SortReturns == <>(stack[0] = << >>)
=============================================================================
