---------------------------- MODULE BottomUpSort ----------------------------
(***************************************************************************)
(* The bottom-up merge sort (merge_sort.c): passes that merge runs of      *)
(* sz / 2 items from one buffer into the other, and a copy back when the   *)
(* number of passes was odd, which the code reads off the bits of sz.      *)
(***************************************************************************)
EXTENDS Integers, SequencesExt

(* The two buffers, which of them arr and wk point to, and the logarithm of sz. *)
Start(a) == [mem |-> [caller |-> a, work |-> [i \in DOMAIN a |-> 0]],
             arr |-> "caller", wk |-> "work", lg |-> 1]

(* The left run's item goes first only if it is strictly smaller. *)
RECURSIVE merge(_, _)
merge(left, right) ==
    IF left = << >> THEN right
    ELSE IF right = << >> THEN left
    ELSE IF Head(left) < Head(right) THEN <<Head(left)>> \o merge(Tail(left), right)
    ELSE <<Head(right)>> \o merge(left, Tail(right))

(* The inner loop from s on; m and e do not pass the end of the array. *)
RECURSIVE MergeRuns(_, _, _, _)
MergeRuns(src, dst, s, sz) ==
    IF s >= Len(src) THEN dst
    ELSE LET m == Min({s + sz \div 2, Len(src)})
             e == Min({s + sz, Len(src)})
             merged == merge(SubSeq(src, s + 1, m), SubSeq(src, m + 1, e))
         IN MergeRuns(src, [i \in DOMAIN dst |-> IF i \in s + 1 .. s + Len(merged)
                                                 THEN merged[i - s] ELSE dst[i]],
                      s + sz, sz)

Swap(q) == [q EXCEPT !.arr = q.wk, !.wk = q.arr]

Pass(q) == [Swap(q) EXCEPT !.mem[q.wk] = MergeRuns(q.mem[q.arr], q.mem[q.wk], 0, 2^q.lg),
                           !.lg = @ + 1]

RECURSIVE Passes(_)
Passes(q) == IF 2^q.lg < 2 * Len(q.mem.caller) THEN Passes(Pass(q)) ELSE q

(* Mutant of IsInWork: the other bits. *)
IsInWorkNot(lg) == lg % 2 = 1

(* 0x5555555555555555 & sz: the even bits. *)
IsInWork(lg) == lg % 2 = 0

CopyBack(q) == IF IsInWork(q.lg) THEN [Swap(q) EXCEPT !.mem[q.wk] = q.mem[q.arr]] ELSE q

(* The end of sort: the array of the caller, and the buffer that is freed. *)
Sort(a) == LET q == CopyBack(Passes(Start(a))) IN [arr |-> q.mem.caller, freed |-> q.wk]
=============================================================================
