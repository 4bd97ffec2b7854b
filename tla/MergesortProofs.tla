--------------------------- MODULE MergesortProofs ---------------------------
(***************************************************************************)
(* Proofs about Mergesort, for any number of threads and any arrays.       *)
(***************************************************************************)
EXTENDS Mergesort, FiniteSetTheorems, FunctionTheorems, SequenceTheorems, TLAPS

------------------------------------------------------------------------------
(* The inductive invariant: the calls. *)

Frame == [lo : Nat, n : Nat, tcnt : 1 .. Tcnt, at : {"sort", "right", "join", "merge"},
          tid : Threads]

(* A call's part of the array and the two parts of it, as sets of indices. *)
Cut(f) == f.lo + Border(f.n, f.tcnt)
Span(f) == f.lo + 1 .. f.lo + f.n
LeftSpan(f) == f.lo + 1 .. Cut(f)
RightSpan(f) == Cut(f) + 1 .. f.lo + f.n

(* A call that has called sort() for one of its parts, and for which. *)
Open == {"right", "join"}
Below(f) == IF f.at = "right" THEN LeftSpan(f) ELSE RightSpan(f)

Items == 1 .. Len(input)

Types == /\ stack \in [Threads -> Seq(Frame)]
         /\ ntid \in Threads

(* A call has a thread to join if it was called for several, which only main is; *)
(* the calls for several threads are as many as there are threads left to create. *)
CallOK(t, f) == /\ Span(f) \subseteq Items
                /\ IF f.at = "sort" THEN f.tid = 0 ELSE f.tid # 0 <=> f.tcnt > 1
                /\ f.tid <= ntid
                /\ t # 0 => f.tcnt = 1
                /\ f.tcnt > 1 /\ f.at = "sort" => ntid = Tcnt - f.tcnt
                /\ f.tcnt > 1 /\ f.at = "right" => ntid = Tcnt - f.tcnt + 1

CallsOK == \A t \in Threads : \A c \in DOMAIN stack[t] : CallOK(t, stack[t][c])

(* g is called, at some depth, by f. *)
Within(f, g) == /\ f.at \in Open
                /\ f.at = "right" => f.tcnt = 1
                /\ Span(g) \subseteq Below(f)

Nested == \A t \in Threads : \A c, d \in DOMAIN stack[t] :
              c < d => /\ Within(stack[t][c], stack[t][d])
                       /\ d = c + 1 => Span(stack[t][d]) = Below(stack[t][c])

(* f waits for thread u, or will. *)
Awaits(f, u) == f.at \in Open /\ f.tid = u

(* main sorts everything, every other thread the left part of a call that awaits it. *)
Roots == /\ stack[0] # << >> => Span(stack[0][1]) = Items
         /\ \A u \in Threads : u > ntid => stack[u] = << >>
         /\ \A u \in Threads \ {0} : stack[u] # << >> =>
               \E d \in DOMAIN stack[0] : Awaits(stack[0][d], u)
         /\ \A u \in Threads \ {0} : \A d \in DOMAIN stack[0] :
               stack[u] # << >> /\ Awaits(stack[0][d], u) =>
                   Span(stack[u][1]) = LeftSpan(stack[0][d])

StackInv == Types /\ CallsOK /\ Nested /\ Roots

------------------------------------------------------------------------------
(* The inductive invariant: the array. *)

ArrayTypes == /\ input \in Inputs
              /\ arr \in [Items -> Int]
              /\ x \in [Threads -> Seq(Int)]
              /\ left \in [Threads -> Nat] /\ right \in [Threads -> Nat]

Sorted(a, S) == \A i, j \in S : i <= j => a[i] <= a[j]

(* The left part is sorted once its call has returned, or its thread has ended. *)
LeftReturned(t, c) == IF stack[t][c].tid # 0 THEN stack[stack[t][c].tid] = << >>
                      ELSE stack[t][c].at = "join" \/ c = Len(stack[t])

LeftDone(t, c) == stack[t][c].at \in Open /\ LeftReturned(t, c)
                      => Sorted(arr, LeftSpan(stack[t][c]))

(* The right part is sorted once its call has returned. *)
RightDone(t, c) == stack[t][c].at = "join" /\ c = Len(stack[t])
                       => Sorted(arr, RightSpan(stack[t][c]))

PartsDone == \A t \in Threads : \A c \in DOMAIN stack[t] : LeftDone(t, c) /\ RightDone(t, c)

AllDone == stack[0] = << >> => Sorted(arr, Items)

(* What a merge has taken from the two parts, and what it has not. *)
Taken(f, l, r) == (f.lo + 1 .. f.lo + l) \cup (Cut(f) + 1 .. f.lo + r)
Untaken(f, l, r) == (f.lo + l + 1 .. Cut(f)) \cup (f.lo + r + 1 .. f.lo + f.n)

(* The items of y at D are items of a at S, no two of them the same one. *)
Drawn(a, y, D, S) == \E q \in [D -> S] : /\ \A i, j \in D : q[i] = q[j] => i = j
                                         /\ \A i \in D : y[i] = a[q[i]]

(* The items y a merge has taken are sorted and not larger than the others. *)
MergeOK(a, f, y, l, r) ==
    /\ Sorted(a, LeftSpan(f)) /\ Sorted(a, RightSpan(f))
    /\ l \in 0 .. Border(f.n, f.tcnt) /\ r \in Border(f.n, f.tcnt) .. f.n
    /\ Len(y) = l + r - Border(f.n, f.tcnt)
    /\ Sorted(y, 1 .. Len(y))
    /\ \A k \in 1 .. Len(y) : \A i \in Untaken(f, l, r) : y[k] <= a[i]
    /\ Drawn(a, y, 1 .. Len(y), Taken(f, l, r))

Merging == \A t \in Threads :
               IF At(t, "merge") THEN MergeOK(arr, Top(t), x[t], left[t], right[t])
                                 ELSE x[t] = << >>

(* The array has the items it had. *)
SameItems == Drawn(input, arr, Items, Items)

ArrayInv == ArrayTypes /\ PartsDone /\ AllDone /\ Merging /\ SameItems

------------------------------------------------------------------------------
(* Parts of the array *)

LEMMA BorderType ==
    ASSUME NEW n \in Nat, NEW tcnt \in Nat \ {0}
    PROVE  Border(n, tcnt) \in 0 .. n
<1>1. n \div tcnt \in 0 .. n
  OBVIOUS
<1>2. n \div 2 \in 0 .. n
  OBVIOUS
<1>3. QED
  BY <1>1, <1>2 DEF Border

LEMMA Parts ==
    ASSUME NEW f \in Frame
    PROVE  /\ Border(f.n, f.tcnt) \in 0 .. f.n
           /\ Cut(f) = f.lo + Border(f.n, f.tcnt)
           /\ LeftSpan(f) \subseteq Span(f) /\ RightSpan(f) \subseteq Span(f)
           /\ \A i \in Span(f) : i \in LeftSpan(f) \/ i \in RightSpan(f)
           /\ \A i \in LeftSpan(f) : i \notin RightSpan(f)
<1>1. f.lo \in Nat /\ f.n \in Nat /\ f.tcnt \in Nat \ {0}
  BY TcntAssumption DEF Frame
<1>2. Border(f.n, f.tcnt) \in 0 .. f.n
  BY <1>1, BorderType
<1>3. QED
  BY <1>1, <1>2 DEF Cut, Span, LeftSpan, RightSpan

LEMMA LeftPartOf ==
    ASSUME NEW f \in Frame
    PROVE  /\ LeftPart(f) \in Frame
           /\ Span(LeftPart(f)) = LeftSpan(f)
           /\ LeftPart(f).at = "sort" /\ LeftPart(f).tid = 0 /\ LeftPart(f).tcnt = 1
<1>1. Border(f.n, f.tcnt) \in 0 .. f.n /\ f.lo \in Nat /\ f.n \in Nat
  BY Parts DEF Frame
<1>2. 0 \in Threads /\ 1 \in 1 .. Tcnt
  BY TcntAssumption DEF Threads
<1>3. QED
  BY <1>1, <1>2 DEF LeftPart, Call, Frame, Span, LeftSpan, Cut

LEMMA RightPartOf ==
    ASSUME NEW f \in Frame
    PROVE  /\ RightPart(f) \in Frame
           /\ Span(RightPart(f)) = RightSpan(f)
           /\ RightPart(f).at = "sort" /\ RightPart(f).tid = 0
           /\ RightPart(f).tcnt = IF f.tcnt > 2 THEN f.tcnt - 1 ELSE 1
<1>1. /\ Border(f.n, f.tcnt) \in 0 .. f.n /\ f.lo \in Nat /\ f.n \in Nat
      /\ f.tcnt \in 1 .. Tcnt
  BY Parts DEF Frame
<1>2. 0 \in Threads /\ 1 \in 1 .. Tcnt /\ Tcnt \in Nat
  BY TcntAssumption DEF Threads
<1> DEFINE b == Border(f.n, f.tcnt)
           k == IF f.tcnt > 2 THEN f.tcnt - 1 ELSE 1
<1>3. k \in 1 .. Tcnt
  BY <1>1, <1>2
<1>4. f.n - b \in Nat /\ f.lo + b \in Nat /\ f.lo + b + (f.n - b) = f.lo + f.n
  BY <1>1
<1>5. RightPart(f) = [lo |-> f.lo + b, n |-> f.n - b, tcnt |-> k, at |-> "sort", tid |-> 0]
  BY DEF RightPart, Call
<1> HIDE DEF b, k
<1>6. RightPart(f) \in Frame /\ RightPart(f).at = "sort" /\ RightPart(f).tid = 0
      /\ RightPart(f).tcnt = k
  BY <1>2, <1>3, <1>4, <1>5 DEF Frame
<1>7. Span(RightPart(f)) = f.lo + b + 1 .. f.lo + f.n
  BY <1>4, <1>5 DEF Span
<1>8. QED
  BY <1>6, <1>7 DEF RightSpan, Cut, b, k

(* Where a call is does not change its parts. *)
LEMMA SameParts ==
    ASSUME NEW f, NEW g, g.lo = f.lo, g.n = f.n, g.tcnt = f.tcnt
    PROVE  Span(g) = Span(f) /\ LeftSpan(g) = LeftSpan(f) /\ RightSpan(g) = RightSpan(f)
  BY DEF Span, LeftSpan, RightSpan, Cut

LEMMA FrontOf ==
    ASSUME NEW S, NEW q \in Seq(S), q # << >>
    PROVE  /\ Front(q) \in Seq(S)
           /\ Len(Front(q)) = Len(q) - 1
           /\ DOMAIN Front(q) = 1 .. Len(q) - 1
           /\ \A c \in 1 .. Len(q) - 1 : Front(q)[c] = q[c]
<1> DEFINE l == Len(q) - 1
<1>1. l \in Nat /\ \A c \in 1 .. l : q[c] \in S
  BY EmptySeq, ElementOfSeq
<1>2. Front(q) = SubSeq(q, 1, l)
  BY DEF Front
<1> HIDE DEF l
<1>3. /\ Front(q) \in Seq(S)
      /\ Len(Front(q)) = (IF 1 <= l THEN l - 1 + 1 ELSE 0)
      /\ \A c \in 1 .. l - 1 + 1 : Front(q)[c] = q[1 + c - 1]
  BY <1>1, <1>2, SubSeqProperties
<1>4. Len(Front(q)) = l
  BY <1>1, <1>3
<1>5. \A c \in 1 .. l : Front(q)[c] = q[c]
  BY <1>1, <1>3
<1>6. DOMAIN Front(q) = 1 .. l
  BY <1>3, <1>4, LenProperties
<1>7. QED
  BY <1>3, <1>4, <1>5, <1>6 DEF l

LEMMA MovedOf ==
    ASSUME NEW S, NEW q \in Seq(S), q # << >>, NEW f \in S,
           NEW r, r = [q EXCEPT ![Len(q)] = f]
    PROVE  /\ r \in Seq(S)
           /\ Len(r) = Len(q)
           /\ DOMAIN r = 1 .. Len(q)
           /\ r[Len(q)] = f
           /\ \A c \in 1 .. Len(q) - 1 : r[c] = q[c]
<1> DEFINE l == Len(q)
<1>1. l \in Nat \ {0} /\ l \in 1 .. Len(q)
  BY EmptySeq
<1>2. /\ r \in Seq(S) /\ Len(r) = Len(q)
      /\ \A c \in 1 .. Len(q) : r[c] = IF c = l THEN f ELSE q[c]
  BY <1>1, ExceptSeq
<1>3. DOMAIN r = 1 .. Len(q)
  BY <1>2, LenProperties
<1> HIDE DEF l
<1>4. \A c \in 1 .. l : r[c] = IF c = l THEN f ELSE q[c]
  BY <1>2 DEF l
<1>5. r[l] = f /\ \A c \in 1 .. l - 1 : r[c] = q[c]
  BY <1>1, <1>4
<1>6. QED
  BY <1>2, <1>3, <1>5 DEF l

LEMMA PushedOf ==
    ASSUME NEW S, NEW q \in Seq(S), q # << >>, NEW f \in S, NEW g \in S,
           NEW r, r = Append([q EXCEPT ![Len(q)] = f], g)
    PROVE  /\ r \in Seq(S)
           /\ Len(r) = Len(q) + 1
           /\ DOMAIN r = 1 .. Len(q) + 1
           /\ r[Len(q) + 1] = g
           /\ r[Len(q)] = f
           /\ \A c \in 1 .. Len(q) - 1 : r[c] = q[c]
<1> DEFINE l == Len(q)
           m == [q EXCEPT ![Len(q)] = f]
<1>1. l \in Nat \ {0}
  BY EmptySeq
<1>2. m \in Seq(S) /\ Len(m) = l /\ m[l] = f /\ \A c \in 1 .. l - 1 : m[c] = q[c]
  BY MovedOf
<1>3. r = Append(m, g)
  OBVIOUS
<1> HIDE DEF l, m
<1>4. r \in Seq(S) /\ Len(r) = l + 1 /\ r[l + 1] = g /\ \A c \in 1 .. l : r[c] = m[c]
  BY <1>2, <1>3, AppendProperties
<1>5. DOMAIN r = 1 .. l + 1
  BY <1>4, LenProperties
<1>6. r[l] = f /\ \A c \in 1 .. l - 1 : r[c] = q[c]
  BY <1>1, <1>2, <1>4
<1>7. QED
  BY <1>4, <1>5, <1>6 DEF l

LEMMA EmptyLen ==
    ASSUME NEW S, NEW q \in Seq(S)
    PROVE  Len(q) \in Nat /\ (q = << >> <=> Len(q) = 0)
  BY EmptySeq, LenProperties

LEMMA TopOf ==
    ASSUME Types, NEW t \in Threads, stack[t] # << >>
    PROVE  /\ Len(stack[t]) \in Nat \ {0} /\ DOMAIN stack[t] = 1 .. Len(stack[t])
           /\ Top(t) = stack[t][Len(stack[t])] /\ Top(t) \in Frame
           /\ Len(stack[t]) \in DOMAIN stack[t] /\ 1 \in DOMAIN stack[t]
<1>1. stack[t] \in Seq(Frame)
  BY DEF Types
<1>2. Len(stack[t]) \in Nat \ {0} /\ DOMAIN stack[t] = 1 .. Len(stack[t])
  BY <1>1, EmptySeq, LenProperties
<1>3. Top(t) = stack[t][Len(stack[t])]
  BY DEF Top, Last
<1>4. QED
  BY <1>1, <1>2, <1>3, ElementOfSeq

------------------------------------------------------------------------------
(* The three ways a step changes the stack of one thread *)

Others(t) == \A u \in Threads : u # t => stack'[u] = stack[u]

LEMMA Popped ==
    ASSUME Types, NEW t \in Threads, stack[t] # << >>,
           stack' = [stack EXCEPT ![t] = Front(@)], ntid' = ntid
    PROVE  /\ Types' /\ Others(t)
           /\ Len(stack'[t]) = Len(stack[t]) - 1
           /\ DOMAIN stack'[t] = 1 .. Len(stack[t]) - 1
           /\ \A c \in 1 .. Len(stack[t]) - 1 : stack'[t][c] = stack[t][c]
           /\ stack'[t] = << >> <=> Len(stack[t]) = 1
<1>1. stack[t] \in Seq(Frame)
  BY DEF Types
<1>2. stack'[t] = Front(stack[t])
  BY DEF Types
<1>3. /\ stack'[t] \in Seq(Frame)
      /\ Len(stack'[t]) = Len(stack[t]) - 1
      /\ DOMAIN stack'[t] = 1 .. Len(stack[t]) - 1
      /\ \A c \in 1 .. Len(stack[t]) - 1 : stack'[t][c] = stack[t][c]
  BY <1>1, <1>2, FrontOf
<1>4. Len(stack[t]) \in Nat \ {0}
  BY TopOf
<1>5. stack'[t] = << >> <=> Len(stack[t]) = 1
  <2>1. stack'[t] = << >> <=> Len(stack'[t]) = 0
    BY <1>3, EmptyLen
  <2> DEFINE l == Len(stack[t])
             m == Len(stack'[t])
  <2>2. l \in Nat \ {0} /\ m = l - 1
    BY <1>3, <1>4, Zenon
  <2> HIDE DEF l, m
  <2>3. m = 0 <=> l = 1
    BY <2>2
  <2>4. QED
    BY <2>1, <2>3, Zenon DEF l, m
<1>6. Types' /\ Others(t)
  BY <1>2, <1>3 DEF Types, Others
<1>7. QED
  BY <1>3, <1>5, <1>6

LEMMA MovedOn ==
    ASSUME Types, NEW t \in Threads, stack[t] # << >>, NEW f \in Frame,
           stack' = [stack EXCEPT ![t] = Moved(t, f)], ntid' = ntid
    PROVE  /\ Types' /\ Others(t)
           /\ Len(stack'[t]) = Len(stack[t])
           /\ DOMAIN stack'[t] = DOMAIN stack[t]
           /\ stack'[t][Len(stack[t])] = f
           /\ \A c \in 1 .. Len(stack[t]) - 1 : stack'[t][c] = stack[t][c]
           /\ stack'[t] # << >>
<1>1. stack[t] \in Seq(Frame)
  BY DEF Types
<1>2. stack'[t] = [stack[t] EXCEPT ![Len(stack[t])] = f]
  BY DEF Types, Moved
<1>3. /\ stack'[t] \in Seq(Frame)
      /\ Len(stack'[t]) = Len(stack[t])
      /\ DOMAIN stack'[t] = 1 .. Len(stack[t])
      /\ stack'[t][Len(stack[t])] = f
      /\ \A c \in 1 .. Len(stack[t]) - 1 : stack'[t][c] = stack[t][c]
  BY <1>1, <1>2, MovedOf
<1>4. Len(stack[t]) \in Nat \ {0} /\ DOMAIN stack[t] = 1 .. Len(stack[t])
  BY TopOf
<1>5. stack'[t] # << >>
  BY <1>3, <1>4, EmptyLen
<1>6. Types' /\ Others(t)
  BY <1>2, <1>3 DEF Types, Others, Moved
<1>7. QED
  BY <1>3, <1>4, <1>5, <1>6

LEMMA Pushed ==
    ASSUME Types, NEW t \in Threads, stack[t] # << >>, NEW f \in Frame, NEW g \in Frame,
           stack' = [stack EXCEPT ![t] = Append(Moved(t, f), g)], ntid' = ntid
    PROVE  /\ Types' /\ Others(t)
           /\ Len(stack'[t]) = Len(stack[t]) + 1
           /\ DOMAIN stack'[t] = 1 .. Len(stack[t]) + 1
           /\ stack'[t][Len(stack[t]) + 1] = g
           /\ stack'[t][Len(stack[t])] = f
           /\ \A c \in 1 .. Len(stack[t]) - 1 : stack'[t][c] = stack[t][c]
           /\ stack'[t] # << >>
<1>1. stack[t] \in Seq(Frame)
  BY DEF Types
<1>2. stack'[t] = Append([stack[t] EXCEPT ![Len(stack[t])] = f], g)
  BY DEF Types, Moved
<1>3. /\ stack'[t] \in Seq(Frame)
      /\ Len(stack'[t]) = Len(stack[t]) + 1
      /\ DOMAIN stack'[t] = 1 .. Len(stack[t]) + 1
      /\ stack'[t][Len(stack[t]) + 1] = g
      /\ stack'[t][Len(stack[t])] = f
      /\ \A c \in 1 .. Len(stack[t]) - 1 : stack'[t][c] = stack[t][c]
  <2> DEFINE q == stack[t]
             r == stack'[t]
  <2>1. q \in Seq(Frame) /\ q # << >> /\ r = Append([q EXCEPT ![Len(q)] = f], g)
    BY <1>1, <1>2
  <2> HIDE DEF q, r
  <2>2. /\ r \in Seq(Frame)
        /\ Len(r) = Len(q) + 1
        /\ DOMAIN r = 1 .. Len(q) + 1
        /\ r[Len(q) + 1] = g
        /\ r[Len(q)] = f
        /\ \A c \in 1 .. Len(q) - 1 : r[c] = q[c]
    BY <2>1, PushedOf
  <2>3. QED
    BY <2>2 DEF q, r
<1>4. Len(stack[t]) \in Nat \ {0}
  BY TopOf
<1>5. stack'[t] # << >>
  BY <1>3, <1>4, EmptyLen
<1>6. Types' /\ Others(t)
  BY <1>2, <1>3 DEF Types, Others, Moved
<1>7. QED
  BY <1>3, <1>5, <1>6

------------------------------------------------------------------------------
(* Every step keeps the stacks in order *)

LEMMA InitStack == Init => StackInv
<1> SUFFICES ASSUME Init PROVE StackInv
  OBVIOUS
<1> DEFINE f == Call(0, Len(input), Tcnt)
<1>1. input \in Seq(Int) /\ Len(input) \in Nat
  BY InputsAssumption, LenProperties DEF Init
<1>2. 0 \in Threads /\ Tcnt \in 1 .. Tcnt /\ Threads \subseteq Nat
  BY TcntAssumption DEF Threads
<1>3. f \in Frame /\ f.lo = 0 /\ f.n = Len(input) /\ f.tcnt = Tcnt /\ f.at = "sort" /\ f.tid = 0
  BY <1>1, <1>2 DEF Call, Frame
<1>4. Span(f) = Items
  BY <1>1, <1>3 DEF Span, Items
<1> HIDE DEF f
<1>5. /\ stack = [t \in Threads |-> IF t = 0 THEN << f >> ELSE << >>]
      /\ ntid = 0
  BY DEF Init, f
<1>6. /\ << f >> \in Seq(Frame) /\ << f >> # << >> /\ << f >>[1] = f /\ DOMAIN << f >> = {1}
      /\ << >> \in Seq(Frame) /\ DOMAIN << >> = {}
  BY <1>3
<1>7. /\ stack[0] = << f >> /\ \A u \in Threads \ {0} : stack[u] = << >>
      /\ \A t \in Threads : \A c \in DOMAIN stack[t] : t = 0 /\ c = 1 /\ stack[t][c] = f
  BY <1>2, <1>5, <1>6
<1>8. Types
  BY <1>2, <1>5, <1>6 DEF Types
<1>9. CallsOK
  <2>1. CallOK(0, f)
    BY <1>3, <1>4, <1>5, TcntAssumption DEF CallOK
  <2>2. QED
    BY <2>1, <1>7 DEF CallsOK
<1>10. Nested
  BY <1>7 DEF Nested
<1>11. Roots
  BY <1>2, <1>4, <1>5, <1>6, <1>7 DEF Roots
<1>12. QED
  BY <1>8, <1>9, <1>10, <1>11 DEF StackInv

(* sort() returns: from nothing to sort, or from the merge. *)
LEMMA PopStack ==
    ASSUME StackInv, NEW t \in Threads, stack[t] # << >>, Top(t).at \notin Open,
           stack' = [stack EXCEPT ![t] = Front(@)], ntid' = ntid, input' = input
    PROVE  StackInv'
<1> DEFINE l == Len(stack[t])
<1>1. Types /\ CallsOK /\ Nested /\ Roots
  BY DEF StackInv
<1>2. /\ l \in Nat \ {0} /\ DOMAIN stack[t] = 1 .. l /\ Top(t) = stack[t][l]
      /\ 0 \in Threads
  BY <1>1, TopOf, TcntAssumption DEF Threads
<1>3. /\ Types' /\ Others(t) /\ Len(stack'[t]) = l - 1 /\ DOMAIN stack'[t] = 1 .. l - 1
      /\ \A c \in 1 .. l - 1 : stack'[t][c] = stack[t][c]
      /\ stack'[t] = << >> <=> l = 1
  BY <1>1, Popped
<1> HIDE DEF l
<1>4. \A u \in Threads : \A c \in DOMAIN stack'[u] :
          c \in DOMAIN stack[u] /\ stack'[u][c] = stack[u][c]
  BY <1>2, <1>3 DEF Others
<1>5. \A u \in Threads : stack'[u] # << >> => stack[u] # << >> /\ stack'[u][1] = stack[u][1]
  BY <1>2, <1>3 DEF Others
<1>6. Items' = Items
  BY DEF Items
<1>7. CallsOK'
  <2>1. \A u \in Threads : \A c \in DOMAIN stack'[u] : CallOK(u, stack[u][c])
    BY <1>1, <1>4 DEF CallsOK
  <2>2. QED
    BY <1>4, <1>6, <2>1 DEF CallsOK, CallOK
<1>8. Nested'
  <2> SUFFICES ASSUME NEW u \in Threads, NEW c \in DOMAIN stack'[u], NEW d \in DOMAIN stack'[u],
                      c < d
               PROVE  /\ Within(stack'[u][c], stack'[u][d])
                      /\ d = c + 1 => Span(stack'[u][d]) = Below(stack'[u][c])
    BY DEF Nested
  <2>1. /\ Within(stack[u][c], stack[u][d])
        /\ d = c + 1 => Span(stack[u][d]) = Below(stack[u][c])
    BY <1>1, <1>4 DEF Nested
  <2>2. QED
    BY <1>4, <2>1
<1>9. Roots'
  <2>1. stack'[0] # << >> => Span(stack'[0][1]) = Items'
    BY <1>1, <1>2, <1>5, <1>6 DEF Roots
  <2>2. \A u \in Threads : u > ntid' => stack'[u] = << >>
    BY <1>1, <1>5 DEF Roots
  <2>3. ASSUME NEW u \in Threads \ {0}, stack'[u] # << >>
        PROVE  \E d \in DOMAIN stack'[0] : Awaits(stack'[0][d], u)
    <3>1. PICK d \in DOMAIN stack[0] : Awaits(stack[0][d], u)
      BY <1>1, <1>5, <2>3 DEF Roots
    <3>2. d \in DOMAIN stack'[0] /\ stack'[0][d] = stack[0][d]
      BY <1>2, <1>3, <3>1 DEF Others, Awaits
    <3>3. QED
      BY <3>1, <3>2
  <2>4. ASSUME NEW u \in Threads \ {0}, NEW d \in DOMAIN stack'[0],
               stack'[u] # << >>, Awaits(stack'[0][d], u)
        PROVE  Span(stack'[u][1]) = LeftSpan(stack'[0][d])
    <3>1. Span(stack[u][1]) = LeftSpan(stack[0][d])
      BY <1>1, <1>2, <1>4, <1>5, <2>4 DEF Roots
    <3>2. QED
      BY <1>2, <1>4, <1>5, <2>4, <3>1
  <2>5. QED
    BY <2>1, <2>2, <2>3, <2>4 DEF Roots
<1>10. QED
  BY <1>3, <1>7, <1>8, <1>9 DEF StackInv

(* pthread_join returns: the call awaits no thread any more. *)
LEMMA JoinStack ==
    ASSUME StackInv, NEW t \in Threads, Join(t)
    PROVE  StackInv'
<1> DEFINE l == Len(stack[t])
           f == [Top(t) EXCEPT !.at = "merge"]
<1>1. Types /\ CallsOK /\ Nested /\ Roots
  BY DEF StackInv
<1>2. /\ stack[t] # << >> /\ Top(t).at = "join"
      /\ Top(t).tid # 0 => stack[Top(t).tid] = << >>
      /\ stack' = [stack EXCEPT ![t] = Moved(t, f)] /\ ntid' = ntid /\ input' = input
  BY DEF Join, Merge, At
<1>3. /\ l \in Nat \ {0} /\ DOMAIN stack[t] = 1 .. l /\ Top(t) = stack[t][l]
      /\ Top(t) \in Frame /\ 0 \in Threads
  BY <1>1, <1>2, TopOf, TcntAssumption DEF Threads
<1>4. /\ f \in Frame /\ f.at = "merge" /\ f.tid = Top(t).tid /\ f.tcnt = Top(t).tcnt
      /\ f.lo = Top(t).lo /\ f.n = Top(t).n
  BY <1>3 DEF Frame
<1> HIDE DEF f
<1>5. /\ Types' /\ Others(t) /\ DOMAIN stack'[t] = DOMAIN stack[t]
      /\ stack'[t][l] = f /\ \A c \in 1 .. l - 1 : stack'[t][c] = stack[t][c]
      /\ stack'[t] # << >>
  BY <1>1, <1>2, <1>4, MovedOn
<1>6. Span(f) = Span(Top(t))
  BY <1>4, SameParts
<1> HIDE DEF l
<1>7. \A u \in Threads : \A c \in DOMAIN stack'[u] :
          c \in DOMAIN stack[u] /\ Span(stack'[u][c]) = Span(stack[u][c])
  BY <1>3, <1>5, <1>6 DEF Others
<1>8. \A u \in Threads : stack'[u] # << >> <=> stack[u] # << >>
  BY <1>2, <1>5 DEF Others
<1>9. Items' = Items
  BY <1>2 DEF Items
<1>10. CallsOK'
  <2> SUFFICES ASSUME NEW u \in Threads, NEW c \in DOMAIN stack'[u]
               PROVE  CallOK(u, stack[u][c])'
    BY DEF CallsOK
  <2>1. CallOK(u, stack[u][c])
    BY <1>1, <1>7 DEF CallsOK
  <2>2. CASE u = t /\ c = l
    BY <2>1, <2>2, <1>2, <1>3, <1>4, <1>5, <1>6, <1>9 DEF CallOK
  <2>3. CASE ~(u = t /\ c = l)
    <3>1. stack'[u][c] = stack[u][c]
      BY <2>3, <1>3, <1>5 DEF Others
    <3>2. QED
      BY <2>1, <3>1, <1>2, <1>9 DEF CallOK
  <2>4. QED
    BY <2>2, <2>3
<1>11. Nested'
  <2> SUFFICES ASSUME NEW u \in Threads, NEW c \in DOMAIN stack'[u], NEW d \in DOMAIN stack'[u],
                      c < d
               PROVE  /\ Within(stack'[u][c], stack'[u][d])
                      /\ d = c + 1 => Span(stack'[u][d]) = Below(stack'[u][c])
    BY DEF Nested
  <2>1. /\ Within(stack[u][c], stack[u][d])
        /\ d = c + 1 => Span(stack[u][d]) = Below(stack[u][c])
    BY <1>1, <1>7 DEF Nested
  <2>2. stack'[u][c] = stack[u][c]
    BY <1>3, <1>5 DEF Others
  <2>3. QED
    BY <1>7, <2>1, <2>2 DEF Within
<1>12. Roots'
  <2>1. stack'[0] # << >> => Span(stack'[0][1]) = Items'
    <3>1. stack'[0] # << >> => 1 \in DOMAIN stack'[0]
      BY <1>5, <1>3, TopOf DEF Types, Others
    <3>2. QED
      BY <3>1, <1>1, <1>3, <1>7, <1>8, <1>9 DEF Roots
  <2>2. \A u \in Threads : u > ntid' => stack'[u] = << >>
    BY <1>1, <1>2, <1>8 DEF Roots
  <2>3. ASSUME NEW u \in Threads \ {0}, NEW d \in DOMAIN stack'[0], stack[u] # << >>
        PROVE  Awaits(stack'[0][d], u) <=> Awaits(stack[0][d], u)
    <3>1. CASE t = 0 /\ d = l
      BY <2>3, <3>1, <1>2, <1>3, <1>4, <1>5 DEF Awaits, Open
    <3>2. CASE ~(t = 0 /\ d = l)
      BY <3>2, <1>3, <1>5 DEF Others
    <3>3. QED
      BY <3>1, <3>2
  <2>4. ASSUME NEW u \in Threads \ {0}, stack'[u] # << >>
        PROVE  \E d \in DOMAIN stack'[0] : Awaits(stack'[0][d], u)
    <3>1. PICK d \in DOMAIN stack[0] : Awaits(stack[0][d], u)
      BY <1>1, <1>8, <2>4 DEF Roots
    <3>2. d \in DOMAIN stack'[0]
      BY <1>3, <1>5 DEF Others
    <3>3. QED
      BY <3>1, <3>2, <2>3, <2>4, <1>8
  <2>5. ASSUME NEW u \in Threads \ {0}, NEW d \in DOMAIN stack'[0],
               stack'[u] # << >>, Awaits(stack'[0][d], u)
        PROVE  Span(stack'[u][1]) = LeftSpan(stack'[0][d])
    <3>1. Awaits(stack[0][d], u) /\ d \in DOMAIN stack[0]
      BY <2>3, <2>5, <1>3, <1>7, <1>8
    <3>2. Span(stack[u][1]) = LeftSpan(stack[0][d])
      BY <1>1, <1>8, <2>5, <3>1 DEF Roots
    <3>3. stack'[0][d] = stack[0][d]
      BY <2>5, <1>2, <1>3, <1>4, <1>5 DEF Others, Awaits, Open
    <3>4. 1 \in DOMAIN stack'[u]
      BY <1>5, <2>5, <1>3, TopOf DEF Types, Others
    <3>5. QED
      BY <3>2, <3>3, <3>4, <1>7
  <2>6. QED
    BY <2>1, <2>2, <2>4, <2>5 DEF Roots
<1>13. QED
  BY <1>5, <1>10, <1>11, <1>12 DEF StackInv

(* sort() is called for the part g of the call on top, which has moved on to f. *)
LEMMA PushStack ==
    ASSUME StackInv, NEW t \in Threads, stack[t] # << >>, NEW f \in Frame, NEW g \in Frame,
           stack' = [stack EXCEPT ![t] = Append(Moved(t, f), g)], ntid' = ntid, input' = input,
           f.lo = Top(t).lo, f.n = Top(t).n, f.tcnt = Top(t).tcnt,
           CallOK(t, f), CallOK(t, g), Within(f, g), Span(g) = Below(f), g.at = "sort",
           \A u \in Threads \ {0} : Awaits(f, u) <=> Awaits(Top(t), u)
    PROVE  StackInv'
<1> DEFINE l == Len(stack[t])
<1>1. Types /\ CallsOK /\ Nested /\ Roots
  BY DEF StackInv
<1>2. /\ l \in Nat \ {0} /\ DOMAIN stack[t] = 1 .. l /\ Top(t) = stack[t][l]
      /\ Top(t) \in Frame /\ 0 \in Threads
  BY <1>1, TopOf, TcntAssumption DEF Threads
<1>3. /\ Types' /\ Others(t) /\ DOMAIN stack'[t] = 1 .. l + 1
      /\ stack'[t][l + 1] = g /\ stack'[t][l] = f
      /\ \A c \in 1 .. l - 1 : stack'[t][c] = stack[t][c]
      /\ stack'[t] # << >>
  BY <1>1, Pushed, ZenonT(40)
<1>4. Span(f) = Span(Top(t)) /\ LeftSpan(f) = LeftSpan(Top(t)) /\ Span(g) \subseteq Span(f)
  BY SameParts, Parts DEF Below
<1> HIDE DEF l
<1>5. \A u \in Threads : \A c \in DOMAIN stack'[u] :
          \/ u = t /\ c = l + 1 /\ stack'[u][c] = g
          \/ u = t /\ c = l /\ stack'[u][c] = f /\ stack[u][c] = Top(t) /\ c \in DOMAIN stack[u]
          \/ /\ stack'[u][c] = stack[u][c] /\ c \in DOMAIN stack[u]
             /\ u = t => c < l
  BY <1>2, <1>3 DEF Others
<1>6. Items' = Items
  BY DEF Items
<1>7. CallsOK'
  <2> SUFFICES ASSUME NEW u \in Threads, NEW c \in DOMAIN stack'[u]
               PROVE  CallOK(u, stack[u][c])'
    BY DEF CallsOK
  <2>1. CallOK(u, stack'[u][c])
    BY <1>1, <1>5 DEF CallsOK
  <2>2. QED
    BY <2>1, <1>6 DEF CallOK
<1>8. Nested'
  <2> SUFFICES ASSUME NEW u \in Threads, NEW c \in DOMAIN stack'[u], NEW d \in DOMAIN stack'[u],
                      c < d
               PROVE  /\ Within(stack'[u][c], stack'[u][d])
                      /\ d = c + 1 => Span(stack'[u][d]) = Below(stack'[u][c])
    BY DEF Nested
  <2>1. CASE u = t /\ d = l + 1
    <3>1. CASE c = l
      BY <2>1, <3>1, <1>3
    <3>2. CASE c # l
      <4>1. c \in 1 .. l - 1 /\ c \in DOMAIN stack[u] /\ l \in DOMAIN stack[u] /\ c < l
        BY <2>1, <3>2, <1>2, <1>3
      <4>2. Within(stack[u][c], Top(t))
        BY <4>1, <2>1, <1>1, <1>2 DEF Nested
      <4>3. stack'[u][c] = stack[u][c] /\ d # c + 1 /\ stack'[u][d] = g
        BY <4>1, <2>1, <1>2, <1>3
      <4>4. QED
        BY <4>2, <4>3, <1>4 DEF Within
    <3>3. QED
      BY <3>1, <3>2
  <2>2. CASE ~(u = t /\ d = l + 1)
    <3>1. /\ c \in DOMAIN stack[u] /\ d \in DOMAIN stack[u]
          /\ stack'[u][c] = stack[u][c] /\ Span(stack'[u][d]) = Span(stack[u][d])
      BY <2>2, <1>2, <1>3, <1>4, <1>5 DEF Others
    <3>2. /\ Within(stack[u][c], stack[u][d])
          /\ d = c + 1 => Span(stack[u][d]) = Below(stack[u][c])
      BY <3>1, <1>1 DEF Nested
    <3>3. QED
      BY <3>1, <3>2 DEF Within
  <2>3. QED
    BY <2>1, <2>2
<1>9. Roots'
  <2>1. \A u \in Threads : /\ stack'[u] # << >> <=> stack[u] # << >>
                           /\ stack[u] # << >> => Span(stack'[u][1]) = Span(stack[u][1])
    BY <1>2, <1>3, <1>4 DEF Others
  <2>2. stack'[0] # << >> => Span(stack'[0][1]) = Items'
    BY <2>1, <1>1, <1>2, <1>6 DEF Roots
  <2>3. \A u \in Threads : u > ntid' => stack'[u] = << >>
    BY <2>1, <1>1 DEF Roots
  <2>4. ASSUME NEW u \in Threads \ {0}, stack'[u] # << >>
        PROVE  \E d \in DOMAIN stack'[0] : Awaits(stack'[0][d], u)
    <3>1. PICK d \in DOMAIN stack[0] : Awaits(stack[0][d], u)
      BY <1>1, <2>1, <2>4 DEF Roots
    <3>2. d \in DOMAIN stack'[0] /\ Awaits(stack'[0][d], u)
      BY <3>1, <1>2, <1>3 DEF Others
    <3>3. QED
      BY <3>2
  <2>5. ASSUME NEW u \in Threads \ {0}, NEW d \in DOMAIN stack'[0],
               stack'[u] # << >>, Awaits(stack'[0][d], u)
        PROVE  Span(stack'[u][1]) = LeftSpan(stack'[0][d])
    <3>1. ~(t = 0 /\ d = l + 1)
      BY <2>5, <1>3 DEF Awaits, Open
    <3>2. /\ Awaits(stack[0][d], u) /\ d \in DOMAIN stack[0]
          /\ LeftSpan(stack'[0][d]) = LeftSpan(stack[0][d])
      BY <2>5, <3>1, <1>2, <1>4, <1>5
    <3>3. Span(stack[u][1]) = LeftSpan(stack[0][d])
      BY <3>2, <2>1, <2>5, <1>1 DEF Roots
    <3>4. QED
      BY <3>2, <3>3, <2>1, <2>5
  <2>6. QED
    BY <2>2, <2>3, <2>4, <2>5 DEF Roots
<1>10. QED
  BY <1>3, <1>7, <1>8, <1>9 DEF StackInv

LEMMA SortLeftStack ==
    ASSUME StackInv, NEW t \in Threads, SortLeft(t)
    PROVE  StackInv'
<1> DEFINE f == [Top(t) EXCEPT !.at = "right"]
           g == LeftPart(Top(t))
<1>1. /\ stack[t] # << >> /\ Top(t).at = "sort" /\ Top(t).tcnt <= 1
      /\ stack' = [stack EXCEPT ![t] = Append(Moved(t, f), g)] /\ ntid' = ntid /\ input' = input
  BY DEF SortLeft, At
<1>2. Top(t) \in Frame /\ CallOK(t, Top(t)) /\ ntid \in Nat
  BY <1>1, TopOf, TcntAssumption DEF StackInv, CallsOK, Types, Threads
<1>3. /\ f \in Frame /\ f.at = "right" /\ f.tid = Top(t).tid /\ f.tcnt = Top(t).tcnt
      /\ f.lo = Top(t).lo /\ f.n = Top(t).n /\ f.tcnt = 1
  BY <1>1, <1>2, TcntAssumption DEF Frame
<1>4. /\ g \in Frame /\ g.at = "sort" /\ g.tid = 0 /\ g.tcnt = 1
      /\ Span(g) = LeftSpan(Top(t))
  BY <1>2, LeftPartOf
<1> HIDE DEF f, g
<1>5. LeftSpan(f) = LeftSpan(Top(t)) /\ Span(f) = Span(Top(t)) /\ Span(g) \subseteq Span(f)
  BY <1>2, <1>3, <1>4, SameParts, Parts
<1>6. CallOK(t, f) /\ CallOK(t, g)
  BY <1>1, <1>2, <1>3, <1>4, <1>5 DEF CallOK
<1>7. Within(f, g) /\ Span(g) = Below(f)
  BY <1>3, <1>4, <1>5 DEF Within, Below, Open
<1>8. \A u \in Threads \ {0} : Awaits(f, u) <=> Awaits(Top(t), u)
  BY <1>1, <1>2, <1>3 DEF Awaits, CallOK
<1>9. QED
  BY <1>1, <1>3, <1>4, <1>6, <1>7, <1>8, PushStack

LEMMA SortRightStack ==
    ASSUME StackInv, NEW t \in Threads, SortRight(t)
    PROVE  StackInv'
<1> DEFINE f == [Top(t) EXCEPT !.at = "join"]
           g == RightPart(Top(t))
<1>1. /\ stack[t] # << >> /\ Top(t).at = "right"
      /\ stack' = [stack EXCEPT ![t] = Append(Moved(t, f), g)] /\ ntid' = ntid /\ input' = input
  BY DEF SortRight, At
<1>2. Top(t) \in Frame /\ CallOK(t, Top(t)) /\ ntid \in Nat
  BY <1>1, TopOf, TcntAssumption DEF StackInv, CallsOK, Types, Threads
<1>3. /\ f \in Frame /\ f.at = "join" /\ f.tid = Top(t).tid /\ f.tcnt = Top(t).tcnt
      /\ f.lo = Top(t).lo /\ f.n = Top(t).n /\ f.tcnt \in 1 .. Tcnt
  BY <1>2 DEF Frame
<1>4. /\ g \in Frame /\ g.at = "sort" /\ g.tid = 0
      /\ g.tcnt = (IF Top(t).tcnt > 2 THEN Top(t).tcnt - 1 ELSE 1)
      /\ Span(g) = RightSpan(Top(t))
  BY <1>2, RightPartOf
<1> HIDE DEF f, g
<1>5. RightSpan(f) = RightSpan(Top(t)) /\ Span(f) = Span(Top(t)) /\ Span(g) \subseteq Span(f)
  BY <1>2, <1>3, <1>4, SameParts, Parts
<1>6. CallOK(t, f)
  BY <1>1, <1>2, <1>3, <1>5 DEF CallOK
<1>7. CallOK(t, g)
  <2>1. t # 0 => g.tcnt = 1
    BY <1>2, <1>4 DEF CallOK
  <2>2. g.tcnt > 1 => ntid = Tcnt - g.tcnt
    BY <1>1, <1>2, <1>3, <1>4, TcntAssumption DEF CallOK
  <2>3. QED
    BY <2>1, <2>2, <1>2, <1>4, <1>5 DEF CallOK
<1>8. Within(f, g) /\ Span(g) = Below(f)
  BY <1>3, <1>4, <1>5 DEF Within, Below, Open
<1>9. \A u \in Threads \ {0} : Awaits(f, u) <=> Awaits(Top(t), u)
  BY <1>1, <1>2, <1>3 DEF Awaits, Open
<1>10. QED
  BY <1>1, <1>3, <1>4, <1>6, <1>7, <1>8, <1>9, PushStack

(* Only main creates threads, and the next one has not been created yet. *)
LEMMA MtSortFacts ==
    ASSUME StackInv, NEW t \in Threads, MtSort(t)
    PROVE  /\ t = 0 /\ ntid + 1 \in Threads \ {0} /\ ntid' = ntid + 1 /\ input' = input
           /\ stack[0] # << >> /\ stack[ntid + 1] = << >>
           /\ Top(0).at = "sort" /\ Top(0).tcnt > 1 /\ ntid + 1 = Tcnt - Top(0).tcnt + 1
           /\ LET f == [Top(0) EXCEPT !.at = "right", !.tid = ntid + 1]
              IN  /\ stack'[0] = Moved(0, f)
                  /\ stack'[ntid + 1] = << LeftPart(Top(0)) >>
                  /\ \A u \in Threads : u # 0 /\ u # ntid + 1 => stack'[u] = stack[u]
                  /\ DOMAIN stack' = Threads
<1>1. Types /\ CallsOK /\ Roots
  BY DEF StackInv
<1>2. stack[t] # << >> /\ Top(t).at = "sort" /\ Top(t).tcnt > 1
  BY DEF MtSort, At
<1>3. Top(t) \in Frame /\ CallOK(t, Top(t)) /\ ntid \in Nat
  BY <1>1, <1>2, TopOf, TcntAssumption DEF CallsOK, Types, Threads
<1>4. Top(t).tcnt \in 1 .. Tcnt /\ ntid = Tcnt - Top(t).tcnt /\ t = 0
  BY <1>2, <1>3 DEF CallOK, Frame
<1>5. ntid + 1 \in Threads \ {0}
  BY <1>2, <1>3, <1>4, TcntAssumption DEF Threads
<1>6. stack[ntid + 1] = << >>
  BY <1>1, <1>3, <1>5 DEF Roots
<1>7. /\ stack' = [stack EXCEPT ![0] = Moved(0, [Top(0) EXCEPT !.at = "right", !.tid = ntid + 1]),
                                ![ntid + 1] = << LeftPart(Top(0)) >>]
      /\ ntid' = ntid + 1 /\ input' = input
  BY <1>4 DEF MtSort
<1>8. LET f == [Top(0) EXCEPT !.at = "right", !.tid = ntid + 1]
      IN  /\ stack'[0] = Moved(0, f)
          /\ stack'[ntid + 1] = << LeftPart(Top(0)) >>
          /\ \A u \in Threads : u # 0 /\ u # ntid + 1 => stack'[u] = stack[u]
          /\ DOMAIN stack' = Threads
  BY <1>1, <1>4, <1>5, <1>7 DEF Types
<1>9. QED
  BY <1>2, <1>4, <1>5, <1>6, <1>7, <1>8

LEMMA MtSortStack ==
    ASSUME StackInv, NEW t \in Threads, MtSort(t)
    PROVE  StackInv'
<1> DEFINE f == [Top(0) EXCEPT !.at = "right", !.tid = ntid + 1]
           g == LeftPart(Top(0))
           l == Len(stack[0])
           n == ntid + 1
<1>1. Types /\ CallsOK /\ Nested /\ Roots
  BY DEF StackInv
<1>2. /\ t = 0 /\ n \in Threads \ {0} /\ ntid' = n /\ input' = input
      /\ stack[0] # << >> /\ stack[n] = << >>
      /\ Top(0).at = "sort" /\ Top(0).tcnt > 1 /\ n = Tcnt - Top(0).tcnt + 1
      /\ stack'[0] = Moved(0, f) /\ stack'[n] = << g >>
      /\ \A u \in Threads : u # 0 /\ u # n => stack'[u] = stack[u]
      /\ DOMAIN stack' = Threads
  BY MtSortFacts
<1>3. /\ l \in Nat \ {0} /\ DOMAIN stack[0] = 1 .. l /\ Top(0) = stack[0][l]
      /\ Top(0) \in Frame /\ 0 \in Threads /\ ntid \in Nat
  BY <1>1, <1>2, TopOf, TcntAssumption, SMTT(20) DEF Threads, Types
<1>4. /\ f \in Frame /\ f.at = "right" /\ f.tid = n /\ f.tcnt = Top(0).tcnt
      /\ f.lo = Top(0).lo /\ f.n = Top(0).n
  BY <1>2, <1>3 DEF Frame
<1>5. /\ g \in Frame /\ g.at = "sort" /\ g.tid = 0 /\ g.tcnt = 1
      /\ Span(g) = LeftSpan(Top(0))
  BY <1>3, LeftPartOf
<1>6. n = ntid + 1 /\ CallOK(0, Top(0))
  BY <1>1, <1>3 DEF CallsOK
<1>7. stack'[0] = [stack[0] EXCEPT ![l] = f]
  BY <1>2 DEF Moved
<1> HIDE DEF f, g, n
<1>8. /\ stack'[0] \in Seq(Frame) /\ Len(stack'[0]) = l /\ DOMAIN stack'[0] = 1 .. l
      /\ stack'[0][l] = f /\ \A c \in 1 .. l - 1 : stack'[0][c] = stack[0][c]
  <2>1. stack[0] \in Seq(Frame)
    BY <1>1, <1>3 DEF Types
  <2>2. QED
    BY <2>1, <1>2, <1>4, <1>7, MovedOf
<1> HIDE DEF l
<1>9. /\ stack'[n] \in Seq(Frame) /\ stack'[n] # << >> /\ DOMAIN stack'[n] = {1} /\ stack'[n][1] = g
  BY <1>2, <1>5
<1>10. stack'[0] # << >>
  BY <1>3, <1>8, EmptyLen
<1>11. Types'
  <2>1. \A u \in Threads : stack'[u] \in Seq(Frame)
    BY <1>1, <1>2, <1>8, <1>9 DEF Types
  <2>2. stack' = [u \in Threads |-> stack'[u]]
    BY <1>1, <1>2, <1>3 DEF Types, MtSort
  <2>3. stack' \in [Threads -> Seq(Frame)]
    BY <2>1, <2>2, Zenon
  <2>4. QED
    BY <2>3, <1>2 DEF Types
<1>12. \A u \in Threads : \A c \in DOMAIN stack'[u] :
          \/ u = n /\ c = 1 /\ stack'[u][c] = g
          \/ u = 0 /\ c = l /\ stack'[u][c] = f /\ stack[u][c] = Top(0) /\ c \in DOMAIN stack[u]
          \/ /\ stack'[u][c] = stack[u][c] /\ c \in DOMAIN stack[u] /\ u # n
             /\ u = 0 => c < l
  BY <1>2, <1>3, <1>8, <1>9
<1>13. Items' = Items
  BY <1>2 DEF Items
<1>14. Span(f) = Span(Top(0)) /\ LeftSpan(f) = LeftSpan(Top(0)) /\ Span(g) \subseteq Span(f)
  BY <1>3, <1>4, <1>5, SameParts, Parts
<1>15. CallsOK'
  <2> SUFFICES ASSUME NEW u \in Threads, NEW c \in DOMAIN stack'[u]
               PROVE  CallOK(u, stack[u][c])'
    BY DEF CallsOK
  <2>1. CASE u = n /\ stack'[u][c] = g
    BY <2>1, <1>2, <1>3, <1>5, <1>6, <1>13, <1>14 DEF CallOK
  <2>2. CASE u = 0 /\ stack'[u][c] = f
    BY <2>2, <1>2, <1>3, <1>4, <1>6, <1>13, <1>14 DEF CallOK
  <2>3. CASE stack'[u][c] = stack[u][c] /\ c \in DOMAIN stack[u] /\ (u = 0 => c < l)
    <3>1. CallOK(u, stack[u][c]) /\ stack[u][c] \in Frame
      BY <2>3, <1>1, ElementOfSeq DEF CallsOK, Types
    <3>2. stack[u][c].tcnt > 1 => stack[u][c].at \in Open /\ stack[u][c].at # "right"
      <4>1. CASE u = 0
        <5>1. Within(stack[0][c], stack[0][l])
          BY <4>1, <2>3, <1>1, <1>3 DEF Nested
        <5>2. QED
          BY <4>1, <5>1 DEF Within
      <4>2. CASE u # 0
        BY <4>2, <3>1 DEF CallOK
      <4>3. QED
        BY <4>1, <4>2
    <3>3. stack[u][c].tid <= n
      <4>1. stack[u][c].tid <= ntid /\ stack[u][c].tid \in Nat
        BY <3>1, TcntAssumption DEF CallOK, Frame, Threads
      <4>2. QED
        BY <4>1, <1>3, <1>6
    <3>4. QED
      BY <2>3, <3>1, <3>2, <3>3, <1>2, <1>13 DEF CallOK, Open
  <2>4. QED
    BY <2>1, <2>2, <2>3, <1>12
<1>16. Nested'
  <2> SUFFICES ASSUME NEW u \in Threads, NEW c \in DOMAIN stack'[u], NEW d \in DOMAIN stack'[u],
                      c < d
               PROVE  /\ Within(stack'[u][c], stack'[u][d])
                      /\ d = c + 1 => Span(stack'[u][d]) = Below(stack'[u][c])
    BY DEF Nested
  <2>1. u # n
    BY <1>9
  <2>2. /\ c \in DOMAIN stack[u] /\ d \in DOMAIN stack[u]
        /\ stack'[u][c] = stack[u][c] /\ Span(stack'[u][d]) = Span(stack[u][d])
    BY <2>1, <1>3, <1>8, <1>12, <1>14
  <2>3. /\ Within(stack[u][c], stack[u][d])
        /\ d = c + 1 => Span(stack[u][d]) = Below(stack[u][c])
    BY <2>2, <1>1 DEF Nested
  <2>4. QED
    BY <2>2, <2>3 DEF Within
<1>17. Roots'
  <2>1. stack'[0] # << >> => Span(stack'[0][1]) = Items'
    <3>1. Span(stack'[0][1]) = Span(stack[0][1])
      BY <1>3, <1>8, <1>14
    <3>2. QED
      BY <3>1, <1>1, <1>2, <1>13 DEF Roots
  <2>2. ASSUME NEW u \in Threads, u > n PROVE stack'[u] = << >>
    <3>1. u > ntid /\ u # 0 /\ u # n
      BY <2>2, <1>3, <1>6, TcntAssumption DEF Threads
    <3>2. QED
      BY <3>1, <1>1, <1>2 DEF Roots
  <2>3. ASSUME NEW u \in Threads \ {0}, stack'[u] # << >>
        PROVE  \E d \in DOMAIN stack'[0] : Awaits(stack'[0][d], u)
    <3>1. CASE u = n
      BY <3>1, <1>3, <1>4, <1>8 DEF Awaits, Open
    <3>2. CASE u # n
      <4>1. PICK d \in DOMAIN stack[0] : Awaits(stack[0][d], u)
        BY <3>2, <2>3, <1>1, <1>2 DEF Roots
      <4>2. d \in DOMAIN stack'[0] /\ stack'[0][d] = stack[0][d]
        BY <4>1, <1>2, <1>3, <1>8 DEF Awaits, Open
      <4>3. QED
        BY <4>1, <4>2
    <3>3. QED
      BY <3>1, <3>2
  <2>4. ASSUME NEW u \in Threads \ {0}, NEW d \in DOMAIN stack'[0],
               stack'[u] # << >>, Awaits(stack'[0][d], u)
        PROVE  Span(stack'[u][1]) = LeftSpan(stack'[0][d])
    <3>1. CASE d = l
      BY <3>1, <2>4, <1>4, <1>5, <1>8, <1>9, <1>14 DEF Awaits
    <3>2. CASE d # l
      <4>1. stack'[0][d] = stack[0][d] /\ d \in DOMAIN stack[0]
        BY <3>2, <1>3, <1>8
      <4>2. u # n
        <5>1. CallOK(0, stack[0][d]) /\ stack[0][d].tid = u
          BY <4>1, <2>4, <1>1, <1>3 DEF CallsOK, Awaits
        <5>2. QED
          BY <5>1, <1>3, <1>6 DEF CallOK
      <4>3. stack'[u] = stack[u]
        BY <4>2, <1>2
      <4>4. QED
        BY <4>1, <4>3, <2>4, <1>1 DEF Roots
    <3>3. QED
      BY <3>1, <3>2
  <2>5. QED
    BY <2>1, <2>2, <2>3, <2>4, <1>2 DEF Roots
<1>18. QED
  BY <1>11, <1>15, <1>16, <1>17 DEF StackInv

LEMMA StackStep == StackInv /\ [Next]_vars => StackInv'
<1> SUFFICES ASSUME StackInv, [Next]_vars PROVE StackInv'
  OBVIOUS
<1>1. ASSUME NEW t \in Threads, SortNothing(t) PROVE StackInv'
  BY <1>1, PopStack DEF SortNothing, At, Open
<1>2. ASSUME NEW t \in Threads, MergeBack(t) PROVE StackInv'
  BY <1>2, PopStack DEF MergeBack, At, Open
<1>3. ASSUME UNCHANGED <<input, stack, ntid>> PROVE StackInv'
  BY <1>3 DEF StackInv, Types, CallsOK, CallOK, Nested, Roots, Items
<1>4. ASSUME NEW t \in Threads, MergeCopy(t) PROVE StackInv'
  BY <1>3, <1>4 DEF MergeCopy
<1>5. CASE UNCHANGED vars
  BY <1>3, <1>5 DEF vars
<1>6. QED
  BY <1>1, <1>2, <1>4, <1>5, MtSortStack, SortLeftStack, SortRightStack, JoinStack
  DEF Next, Step

------------------------------------------------------------------------------
(* No data race *)

(* What a thread but main works on lies in the left part of a call of main. *)
LEMMA InLeftSpan ==
    ASSUME StackInv, NEW t \in Threads \ {0}, NEW c \in DOMAIN stack[t]
    PROVE  \E d \in DOMAIN stack[0] : /\ Awaits(stack[0][d], t)
                                      /\ Span(stack[t][c]) \subseteq LeftSpan(stack[0][d])
<1>1. Types /\ Nested /\ Roots
  BY DEF StackInv
<1>2. stack[t] \in Seq(Frame) /\ stack[t] # << >>
  BY <1>1 DEF Types
<1>3. 1 \in DOMAIN stack[t] /\ DOMAIN stack[t] = 1 .. Len(stack[t]) /\ stack[t][1] \in Frame
  BY <1>1, <1>2, TopOf, ElementOfSeq
<1>4. PICK d \in DOMAIN stack[0] : Awaits(stack[0][d], t)
  BY <1>1, <1>2 DEF Roots
<1>5. Span(stack[t][1]) = LeftSpan(stack[0][d])
  BY <1>1, <1>2, <1>4 DEF Roots
<1>6. Span(stack[t][c]) \subseteq Span(stack[t][1])
  <2>1. CASE c = 1
    BY <2>1
  <2>2. CASE c # 1
    <3>1. Within(stack[t][1], stack[t][c])
      BY <2>2, <1>1, <1>3 DEF Nested
    <3>2. QED
      BY <3>1, <1>3, Parts DEF Within, Below
  <2>3. QED
    BY <2>1, <2>2
<1>7. QED
  BY <1>4, <1>5, <1>6

(* What main works on above a call that awaits a thread lies in its right part. *)
LEMMA InRightSpan ==
    ASSUME StackInv, NEW t \in Threads \ {0}, NEW d \in DOMAIN stack[0], Awaits(stack[0][d], t),
           NEW c \in DOMAIN stack[0], d < c
    PROVE  Span(stack[0][c]) \subseteq RightSpan(stack[0][d])
<1>1. 0 \in Threads
  BY TcntAssumption DEF Threads
<1>2. Within(stack[0][d], stack[0][c]) /\ CallOK(0, stack[0][d])
  BY <1>1 DEF StackInv, Nested, CallsOK
<1>3. stack[0][d].at = "join"
  BY <1>2, TcntAssumption DEF Within, Awaits, CallOK, Open
<1>4. QED
  BY <1>2, <1>3 DEF Within, Below

(* A thread that merges is apart from all that other threads but main work on. *)
LEMMA Apart ==
    ASSUME StackInv, NEW t \in Threads, At(t, "merge"), NEW u \in Threads \ {0}, u # t,
           NEW c \in DOMAIN stack[u]
    PROVE  \A i \in Span(Top(t)) : i \notin Span(stack[u][c])
<1>1. Types /\ stack[t] # << >> /\ Top(t).at = "merge"
  BY DEF StackInv, At
<1>2. /\ Len(stack[t]) \in DOMAIN stack[t] /\ Top(t) = stack[t][Len(stack[t])]
      /\ DOMAIN stack[t] = 1 .. Len(stack[t]) /\ Len(stack[t]) \in Nat
  BY <1>1, TopOf
<1>3. PICK d \in DOMAIN stack[0] : /\ Awaits(stack[0][d], u)
                                   /\ Span(stack[u][c]) \subseteq LeftSpan(stack[0][d])
  BY InLeftSpan
<1>4. 0 \in Threads /\ stack[0] \in Seq(Frame)
  BY <1>1, TcntAssumption DEF Threads, Types
<1>5. \A e \in DOMAIN stack[0] : stack[0][e] \in Frame /\ e \in Int
  BY <1>4, ElementOfSeq, LenProperties
<1>6. CASE t = 0
  <2>1. d < Len(stack[0])
    BY <1>1, <1>2, <1>3, <1>6 DEF Awaits, Open
  <2>2. Span(Top(t)) \subseteq RightSpan(stack[0][d])
    BY <2>1, <1>2, <1>3, <1>6, InRightSpan
  <2>3. QED
    BY <2>2, <1>3, <1>5, Parts
<1>7. CASE t # 0
  <2>1. PICK e \in DOMAIN stack[0] : /\ Awaits(stack[0][e], t)
                                     /\ Span(Top(t)) \subseteq LeftSpan(stack[0][e])
    BY <1>2, <1>7, InLeftSpan
  <2>2. e # d
    BY <2>1, <1>3 DEF Awaits
  <2>3. CASE e < d
    <3>1. Span(stack[0][d]) \subseteq RightSpan(stack[0][e])
      BY <2>1, <2>3, <1>3, <1>7, InRightSpan
    <3>2. QED
      BY <3>1, <2>1, <1>3, <1>5, Parts
  <2>4. CASE d < e
    <3>1. Span(stack[0][e]) \subseteq RightSpan(stack[0][d])
      BY <2>1, <2>4, <1>3, <1>7, InRightSpan
    <3>2. QED
      BY <3>1, <2>1, <1>3, <1>5, Parts
  <2>5. QED
    BY <2>2, <2>3, <2>4, <1>5
<1>8. QED
  BY <1>6, <1>7

LEMMA NoRaceFollows == StackInv => NoRace
<1> SUFFICES ASSUME StackInv, NEW t \in Threads, NEW u \in Threads, t # u,
                    At(t, "merge"), At(u, "merge")
             PROVE  \A i \in Span(Top(t)) : i \notin Span(Top(u))
  BY DEF NoRace, Touched, Span
<1>1. ASSUME NEW v \in Threads, At(v, "merge")
      PROVE  Len(stack[v]) \in DOMAIN stack[v] /\ Top(v) = stack[v][Len(stack[v])]
  BY <1>1, TopOf DEF StackInv, At
<1>2. CASE u # 0
  BY <1>1, <1>2, Apart
<1>3. CASE u = 0
  <2>1. \A i \in Span(Top(u)) : i \notin Span(Top(t))
    BY <1>1, <1>3, Apart
  <2>2. QED
    BY <2>1
<1>4. QED
  BY <1>2, <1>3

(***************************************************************************)
(* No two threads touch one item at a time, for any number of threads and  *)
(* any array: the part that a thread merges is given to it alone, from its *)
(* creation to the return of pthread_join.                                 *)
(***************************************************************************)
THEOREM NoRaceCorrect == Spec => []NoRace
  BY InitStack, StackStep, NoRaceFollows, PTL DEF Spec

------------------------------------------------------------------------------
(* Merging *)

LEMMA SortedKept ==
    ASSUME NEW a, NEW b, NEW S, Sorted(a, S), \A i \in S : b[i] = a[i]
    PROVE  Sorted(b, S)
  BY DEF Sorted

(* What a call has taken and what it has not, when nothing or all is taken. *)
LEMMA TakenOf ==
    ASSUME NEW f \in Frame, NEW l \in 0 .. Border(f.n, f.tcnt),
           NEW r \in Border(f.n, f.tcnt) .. f.n
    PROVE  /\ Taken(f, l, r) \subseteq Span(f) /\ Untaken(f, l, r) \subseteq Span(f)
           /\ \A i \in Taken(f, l, r) : i \notin Untaken(f, l, r)
<1>1. f.lo \in Nat /\ f.n \in Nat /\ Border(f.n, f.tcnt) \in 0 .. f.n
      /\ Cut(f) = f.lo + Border(f.n, f.tcnt)
  BY Parts DEF Frame
<1>2. QED
  BY <1>1 DEF Taken, Untaken, Span

LEMMA MergeKept ==
    ASSUME NEW a, NEW b, NEW f \in Frame, NEW y, NEW l, NEW r,
           MergeOK(a, f, y, l, r), \A i \in Span(f) : b[i] = a[i]
    PROVE  MergeOK(b, f, y, l, r)
<1>1. /\ Taken(f, l, r) \subseteq Span(f) /\ Untaken(f, l, r) \subseteq Span(f)
      /\ LeftSpan(f) \subseteq Span(f) /\ RightSpan(f) \subseteq Span(f)
  BY TakenOf, Parts DEF MergeOK
<1>2. Sorted(b, LeftSpan(f)) /\ Sorted(b, RightSpan(f))
  BY <1>1, SortedKept DEF MergeOK
<1>3. \A k \in 1 .. Len(y) : \A i \in Untaken(f, l, r) : y[k] <= b[i]
  BY <1>1 DEF MergeOK
<1>4. Drawn(b, y, 1 .. Len(y), Taken(f, l, r))
  <2>1. Drawn(a, y, 1 .. Len(y), Taken(f, l, r))
    BY DEF MergeOK
  <2> HIDE DEF MergeOK
  <2>2. QED
    BY <1>1, <2>1 DEF Drawn
<1>5. QED
  BY <1>2, <1>3, <1>4 DEF MergeOK

(* A merge that begins has taken nothing. *)
LEMMA MergeBegins ==
    ASSUME NEW a, NEW f \in Frame, NEW y, y = << >>,
           Sorted(a, LeftSpan(f)), Sorted(a, RightSpan(f))
    PROVE  MergeOK(a, f, y, 0, Border(f.n, f.tcnt))
<1>1. f.n \in Nat /\ Border(f.n, f.tcnt) \in 0 .. f.n
  BY Parts DEF Frame
<1>2. Len(y) = 0 /\ 1 .. Len(y) = {}
  OBVIOUS
<1>3. Sorted(y, 1 .. Len(y))
  BY <1>2 DEF Sorted
<1>4. Drawn(a, y, 1 .. Len(y), Taken(f, 0, Border(f.n, f.tcnt)))
  <2> DEFINE q == [i \in {} |-> 0]
  <2>1. q \in [1 .. Len(y) -> Taken(f, 0, Border(f.n, f.tcnt))]
    BY <1>2
  <2>2. QED
    BY <2>1, <1>2 DEF Drawn
<1>5. QED
  BY <1>1, <1>2, <1>3, <1>4 DEF MergeOK

LEMMA TakenMore ==
    ASSUME NEW f \in Frame, NEW l \in 0 .. Border(f.n, f.tcnt),
           NEW r \in Border(f.n, f.tcnt) .. f.n
    PROVE  /\ l < Border(f.n, f.tcnt) =>
                 /\ Untaken(f, l + 1, r) \subseteq Untaken(f, l, r)
                 /\ Taken(f, l, r) \subseteq Taken(f, l + 1, r)
                 /\ f.lo + l + 1 \in Taken(f, l + 1, r)
           /\ r < f.n =>
                 /\ Untaken(f, l, r + 1) \subseteq Untaken(f, l, r)
                 /\ Taken(f, l, r) \subseteq Taken(f, l, r + 1)
                 /\ f.lo + r + 1 \in Taken(f, l, r + 1)
<1>1. f.lo \in Nat /\ f.n \in Nat /\ Border(f.n, f.tcnt) \in 0 .. f.n
      /\ Cut(f) = f.lo + Border(f.n, f.tcnt)
  BY Parts DEF Frame
<1>2. \A i, k, m : /\ i \in Taken(f, k, m) <=> \/ i \in f.lo + 1 .. f.lo + k
                                               \/ i \in Cut(f) + 1 .. f.lo + m
                   /\ i \in Untaken(f, k, m) <=> \/ i \in f.lo + k + 1 .. Cut(f)
                                                 \/ i \in f.lo + m + 1 .. f.lo + f.n
  BY DEF Taken, Untaken
<1>3. ASSUME l < Border(f.n, f.tcnt)
      PROVE  /\ Untaken(f, l + 1, r) \subseteq Untaken(f, l, r)
             /\ Taken(f, l, r) \subseteq Taken(f, l + 1, r)
             /\ f.lo + l + 1 \in Taken(f, l + 1, r)
  BY <1>1, <1>2, <1>3
<1>4. ASSUME r < f.n
      PROVE  /\ Untaken(f, l, r + 1) \subseteq Untaken(f, l, r)
             /\ Taken(f, l, r) \subseteq Taken(f, l, r + 1)
             /\ f.lo + r + 1 \in Taken(f, l, r + 1)
  BY <1>1, <1>2, <1>4
<1>5. QED
  BY <1>3, <1>4

(* Taking the least of the items not taken, from the front of either part. *)
LEMMA MergeTakes ==
    ASSUME NEW I, NEW a \in [I -> Int], NEW f \in Frame, Span(f) \subseteq I,
           NEW y \in Seq(Int), NEW l, NEW r, MergeOK(a, f, y, l, r),
           NEW i \in Untaken(f, l, r), \A j \in Untaken(f, l, r) : a[i] <= a[j],
           NEW l2, NEW r2,
           \/ i = f.lo + l + 1 /\ l < Border(f.n, f.tcnt) /\ l2 = l + 1 /\ r2 = r
           \/ i = f.lo + r + 1 /\ r < f.n /\ l2 = l /\ r2 = r + 1,
           NEW z, z = Append(y, a[i])
    PROVE  MergeOK(a, f, z, l2, r2)
<1> DEFINE b == Border(f.n, f.tcnt)
           m == Len(y)
<1>1. f.lo \in Nat /\ f.n \in Nat /\ b \in 0 .. f.n /\ Cut(f) = f.lo + b
  BY Parts DEF Frame
<1>2. /\ l \in 0 .. b /\ r \in b .. f.n /\ m = l + r - b /\ m \in Nat
      /\ Sorted(a, LeftSpan(f)) /\ Sorted(a, RightSpan(f)) /\ Sorted(y, 1 .. m)
      /\ \A k \in 1 .. m : \A j \in Untaken(f, l, r) : y[k] <= a[j]
      /\ Drawn(a, y, 1 .. m, Taken(f, l, r))
  BY LenProperties DEF MergeOK
<1>3. Untaken(f, l, r) \subseteq I /\ i \in I /\ a[i] \in Int /\ i \notin Taken(f, l, r)
  BY <1>2, TakenOf
<1>4. /\ \A k \in 1 .. m : y[k] \in Int
      /\ Len(z) = m + 1 /\ z[m + 1] = a[i] /\ \A k \in 1 .. m : z[k] = y[k]
  BY <1>3, ElementOfSeq, AppendProperties
<1> DEFINE FromLeft == i = f.lo + l + 1 /\ l < b /\ l2 = l + 1 /\ r2 = r
           FromRight == i = f.lo + r + 1 /\ r < f.n /\ l2 = l /\ r2 = r + 1
<1>0. FromLeft \/ FromRight
  OBVIOUS
<1> HIDE DEF b, m, FromLeft, FromRight
<1>5. l2 \in 0 .. b /\ r2 \in b .. f.n /\ m + 1 = l2 + r2 - b
  <2>1. CASE FromLeft
    BY <2>1, <1>1, <1>2 DEF FromLeft
  <2>2. CASE FromRight
    BY <2>2, <1>1, <1>2 DEF FromRight
  <2>3. QED
    BY <2>1, <2>2, <1>0
<1>6. /\ Untaken(f, l2, r2) \subseteq Untaken(f, l, r)
      /\ Taken(f, l, r) \subseteq Taken(f, l2, r2) /\ i \in Taken(f, l2, r2)
  BY <1>0, <1>1, <1>2, TakenMore DEF FromLeft, FromRight, b
<1>7. \A k \in 1 .. m + 1 : k = m + 1 \/ k \in 1 .. m
  BY <1>2
<1>8. Sorted(z, 1 .. m + 1)
  <2> SUFFICES ASSUME NEW j \in 1 .. m + 1, NEW k \in 1 .. m + 1, j <= k
               PROVE  z[j] <= z[k]
    BY DEF Sorted
  <2>1. CASE j \in 1 .. m /\ k \in 1 .. m
    BY <2>1, <1>2, <1>4 DEF Sorted
  <2>2. CASE j \in 1 .. m /\ k = m + 1
    BY <2>2, <1>2, <1>4
  <2>3. CASE j = m + 1
    <3>1. k = m + 1
      BY <2>3, <1>2
    <3>2. QED
      BY <2>3, <3>1, <1>3, <1>4
  <2>4. QED
    BY <2>1, <2>2, <2>3, <1>7
<1>9. \A k \in 1 .. m + 1 : \A j \in Untaken(f, l2, r2) : z[k] <= a[j]
  BY <1>2, <1>4, <1>6, <1>7
<1>10. Drawn(a, z, 1 .. m + 1, Taken(f, l2, r2))
  <2>1. PICK q \in [1 .. m -> Taken(f, l, r)] :
            /\ \A j, k \in 1 .. m : q[j] = q[k] => j = k
            /\ \A k \in 1 .. m : y[k] = a[q[k]]
    BY <1>2 DEF Drawn
  <2> DEFINE p == [k \in 1 .. m + 1 |-> IF k \in 1 .. m THEN q[k] ELSE i]
  <2>2. m + 1 \notin 1 .. m
    BY <1>2
  <2>3. p[m + 1] = i /\ \A k \in 1 .. m : p[k] = q[k] /\ p[k] \in Taken(f, l, r)
    <3>1. m + 1 \in 1 .. m + 1 /\ \A k \in 1 .. m : k \in 1 .. m + 1
      BY <1>2
    <3>2. p[m + 1] = i /\ \A k \in 1 .. m : p[k] = q[k]
      BY <2>2, <3>1, Zenon
    <3>3. QED
      BY <3>2, <2>1
  <2>4. p \in [1 .. m + 1 -> Taken(f, l2, r2)]
    BY <2>1, <1>6
  <2> HIDE DEF p
  <2>5. \A j, k \in 1 .. m + 1 : p[j] = p[k] => j = k
    BY <2>1, <2>3, <1>3, <1>7
  <2>6. \A k \in 1 .. m + 1 : z[k] = a[p[k]]
    BY <2>1, <2>3, <1>4, <1>7
  <2>7. QED
    BY <2>4, <2>5, <2>6 DEF Drawn
<1>11. QED
  BY <1>2, <1>4, <1>5, <1>8, <1>9, <1>10 DEF MergeOK, b

(* A merge that has taken n items has taken all. *)
LEMMA MergeEnds ==
    ASSUME NEW a, NEW f \in Frame, NEW y, NEW l, NEW r, MergeOK(a, f, y, l, r), Len(y) = f.n
    PROVE  Sorted(y, 1 .. f.n) /\ Drawn(a, y, 1 .. f.n, Span(f))
<1>1. f.lo \in Nat /\ f.n \in Nat /\ Border(f.n, f.tcnt) \in 0 .. f.n
      /\ Cut(f) = f.lo + Border(f.n, f.tcnt)
  BY Parts DEF Frame
<1>2. /\ l \in 0 .. Border(f.n, f.tcnt) /\ r \in Border(f.n, f.tcnt) .. f.n
      /\ Sorted(y, 1 .. f.n) /\ Drawn(a, y, 1 .. f.n, Taken(f, l, r))
  BY DEF MergeOK
<1>3. Taken(f, l, r) \subseteq Span(f)
  BY <1>2, TakenOf
<1>4. Drawn(a, y, 1 .. f.n, Span(f))
  BY <1>2, <1>3 DEF Drawn
<1>5. QED
  BY <1>2, <1>4

(* Writing them back sorts the part, and keeps the items. *)
LEMMA BackSorts ==
    ASSUME NEW a, NEW b, NEW y, NEW lo \in Nat, NEW n \in Nat, Sorted(y, 1 .. n),
           \A i \in lo + 1 .. lo + n : b[i] = y[i - lo]
    PROVE  Sorted(b, lo + 1 .. lo + n)
<1> SUFFICES ASSUME NEW i \in lo + 1 .. lo + n, NEW j \in lo + 1 .. lo + n, i <= j
             PROVE  b[i] <= b[j]
  BY DEF Sorted
<1>1. i - lo \in 1 .. n /\ j - lo \in 1 .. n /\ i - lo <= j - lo
  OBVIOUS
<1>2. QED
  BY <1>1 DEF Sorted

Written(b, a, y, lo, n, I) == /\ \A i \in lo + 1 .. lo + n : b[i] = y[i - lo]
                              /\ \A i \in I : i \notin lo + 1 .. lo + n => b[i] = a[i]

LEMMA BackKeeps ==
    ASSUME NEW I, NEW c, NEW a, NEW b, NEW y, NEW lo \in Nat, NEW n \in Nat,
           lo + 1 .. lo + n \subseteq I, Drawn(c, a, I, I),
           Drawn(a, y, 1 .. n, lo + 1 .. lo + n),
           Written(b, a, y, lo, n, I)
    PROVE  Drawn(c, b, I, I)
<1> DEFINE S == lo + 1 .. lo + n
<1>1. PICK p \in [I -> I] : /\ \A i, j \in I : p[i] = p[j] => i = j
                            /\ \A i \in I : a[i] = c[p[i]]
  BY DEF Drawn
<1>2. PICK q \in [1 .. n -> S] : /\ \A i, j \in 1 .. n : q[i] = q[j] => i = j
                                 /\ \A i \in 1 .. n : y[i] = a[q[i]]
  BY DEF Drawn
<1>3. \A i \in S : i - lo \in 1 .. n
  OBVIOUS
<1>4. \A i, j \in S : i - lo = j - lo => i = j
  OBVIOUS
<1> DEFINE s == [i \in I |-> IF i \in S THEN q[i - lo] ELSE i]
<1>5. S \subseteq I /\ \A i \in S : b[i] = y[i - lo]
  BY DEF Written
<1> HIDE DEF S
<1>6. \A i \in S : q[i - lo] \in S
  BY <1>2, <1>3
<1>7. s \in [I -> I] /\ \A i \in I : s[i] \in S <=> i \in S
  BY <1>5, <1>6
<1>8. ASSUME NEW i \in I, NEW j \in I, s[i] = s[j] PROVE i = j
  <2>1. CASE i \in S
    <3>1. j \in S /\ q[i - lo] = q[j - lo]
      BY <2>1, <1>7, <1>8
    <3>2. i - lo = j - lo
      BY <2>1, <3>1, <1>2, <1>3
    <3>3. QED
      BY <2>1, <3>1, <3>2, <1>4
  <2>2. CASE i \notin S
    BY <2>2, <1>7, <1>8
  <2>3. QED
    BY <2>1, <2>2
<1>9. ASSUME NEW i \in I PROVE b[i] = a[s[i]]
  <2>1. CASE i \in S
    BY <2>1, <1>2, <1>3, <1>5
  <2>2. CASE i \notin S
    BY <2>2 DEF S, Written
  <2>3. QED
    BY <2>1, <2>2
<1> DEFINE u == [i \in I |-> p[s[i]]]
<1> HIDE DEF s
<1>10. u \in [I -> I] /\ (\A i, j \in I : u[i] = u[j] => i = j) /\ \A i \in I : b[i] = c[u[i]]
  BY <1>1, <1>7, <1>8, <1>9
<1> HIDE DEF u
<1>11. QED
  BY <1>10 DEF Drawn

------------------------------------------------------------------------------
(* Every step keeps the array in order *)

LEMMA InitArray == Init => ArrayInv
<1> SUFFICES ASSUME Init PROVE ArrayInv
  OBVIOUS
<1>1. StackInv /\ 0 \in Threads
  BY InitStack, TcntAssumption DEF Threads
<1>2. input \in Inputs /\ input \in Seq(Int) /\ arr = input
  BY InputsAssumption DEF Init
<1>3. input \in [Items -> Int]
  BY <1>2 DEF Items
<1>4. ArrayTypes
  <2>1. << >> \in Seq(Int) /\ 0 \in Nat
    OBVIOUS
  <2>2. QED
    BY <2>1, <1>2, <1>3 DEF Init, ArrayTypes
<1>5. /\ stack[0] = << Call(0, Len(input), Tcnt) >> /\ \A u \in Threads \ {0} : stack[u] = << >>
      /\ \A t \in Threads : x[t] = << >>
  BY <1>1 DEF Init
<1>6. stack[0] # << >> /\ Len(stack[0]) = 1 /\ DOMAIN stack[0] = {1} /\ stack[0][1].at = "sort"
  BY <1>5 DEF Call
<1>7. \A t \in Threads : \A c \in DOMAIN stack[t] : stack[t][c].at = "sort"
  BY <1>5, <1>6
<1>8. PartsDone
  BY <1>7 DEF PartsDone, LeftDone, RightDone, Open
<1>9. AllDone
  BY <1>6 DEF AllDone
<1>10. Merging
  <2>1. \A t \in Threads : ~At(t, "merge")
    BY <1>1, <1>7, TopOf DEF At, StackInv
  <2>2. QED
    BY <2>1, <1>5 DEF Merging
<1>11. SameItems
  <2> DEFINE p == [i \in Items |-> i]
  <2>1. p \in [Items -> Items] /\ (\A i, j \in Items : p[i] = p[j] => i = j)
        /\ \A i \in Items : arr[i] = input[p[i]]
    BY <1>2
  <2>2. QED
    BY <2>1 DEF SameItems, Drawn
<1>12. QED
  BY <1>4, <1>8, <1>9, <1>10, <1>11 DEF ArrayInv

LEMMA CallType ==
    ASSUME Types, NEW u \in Threads, NEW c \in DOMAIN stack[u]
    PROVE  stack[u][c] \in Frame /\ stack[u][c].tid \in Threads
<1>1. stack[u] \in Seq(Frame)
  BY DEF Types
<1>2. stack[u][c] \in Frame
  BY <1>1, ElementOfSeq, LenProperties
<1>3. QED
  BY <1>2 DEF Frame

(* A thread whose stack stays as it is goes on with its merge. *)
LEMMA OtherMerges ==
    ASSUME NEW t \in Threads, NEW u \in Threads, stack'[u] = stack[u]
    PROVE  Top(u)' = Top(u) /\ (At(u, "merge")' <=> At(u, "merge"))
  BY DEF Top, At

LEMMA PushArray ==
    ASSUME StackInv, ArrayInv, NEW t \in Threads, stack[t] # << >>,
           NEW f \in Frame, NEW g \in Frame,
           stack' = [stack EXCEPT ![t] = Append(Moved(t, f), g)], ntid' = ntid,
           UNCHANGED <<input, arr, x, left, right>>,
           f.lo = Top(t).lo, f.n = Top(t).n, f.tcnt = Top(t).tcnt, f.tid = Top(t).tid,
           g.at = "sort",
           \/ Top(t).at = "sort" /\ f.at = "right" /\ f.tid = 0
           \/ Top(t).at = "right" /\ f.at = "join"
    PROVE  ArrayInv'
<1> DEFINE l == Len(stack[t])
<1>1. Types /\ ArrayTypes /\ PartsDone /\ AllDone /\ Merging /\ SameItems
  BY DEF StackInv, ArrayInv
<1>2. /\ l \in Nat \ {0} /\ DOMAIN stack[t] = 1 .. l /\ Top(t) = stack[t][l]
      /\ Top(t) \in Frame /\ 0 \in Threads
  BY <1>1, TopOf, TcntAssumption DEF Threads
<1>3. /\ Others(t) /\ Len(stack'[t]) = l + 1 /\ DOMAIN stack'[t] = 1 .. l + 1
      /\ stack'[t][l + 1] = g /\ stack'[t][l] = f
      /\ \A c \in 1 .. l - 1 : stack'[t][c] = stack[t][c]
      /\ stack'[t] # << >>
  BY <1>1, Pushed, ZenonT(40)
<1>4. LeftSpan(f) = LeftSpan(Top(t)) /\ f.tid \in Threads
  BY SameParts DEF Frame
<1> HIDE DEF l
<1>5. \A u \in Threads : stack'[u] = << >> <=> stack[u] = << >>
  BY <1>3 DEF Others
<1>6. PartsDone'
  <2> SUFFICES ASSUME NEW u \in Threads, NEW c \in DOMAIN stack'[u]
               PROVE  LeftDone(u, c)' /\ RightDone(u, c)'
    BY DEF PartsDone
  <2>1. CASE u = t /\ c = l + 1
    BY <2>1, <1>3 DEF LeftDone, RightDone, Open
  <2>2. CASE u = t /\ c = l
    <3>1. RightDone(u, c)'
      BY <2>2, <1>2, <1>3 DEF RightDone
    <3>2. CASE f.at = "right"
      <4>1. Top(t).at = "sort" /\ f.tid = 0
        BY <3>2
      <4>2. ~LeftReturned(u, c)'
        BY <4>1, <2>2, <3>2, <1>2, <1>3 DEF LeftReturned
      <4>3. QED
        BY <3>1, <4>2 DEF LeftDone
    <3>3. CASE f.at = "join"
      <4>1. Top(t).at = "right" /\ LeftDone(t, l)
        BY <3>3, <1>1, <1>2 DEF PartsDone
      <4>2. LeftReturned(u, c)' => LeftReturned(t, l)
        BY <2>2, <1>2, <1>3, <1>4, <1>5 DEF LeftReturned, l
      <4>3. LeftReturned(t, l) => Sorted(arr, LeftSpan(Top(t)))
        BY <4>1, <1>2 DEF LeftDone, Open
      <4>4. QED
        BY <3>1, <4>2, <4>3, <2>2, <1>3, <1>4 DEF LeftDone
    <3>4. QED
      BY <3>2, <3>3
  <2>3. CASE ~(u = t /\ c \in {l, l + 1})
    <3>1. /\ stack'[u][c] = stack[u][c] /\ c \in DOMAIN stack[u]
          /\ c = Len(stack'[u]) => c = Len(stack[u])
      BY <2>3, <1>2, <1>3 DEF Others
    <3>2. stack[u][c].tid \in Threads
      BY <3>1, <1>1, CallType
    <3>3. LeftReturned(u, c)' => LeftReturned(u, c)
      BY <3>1, <3>2, <1>5 DEF LeftReturned
    <3>4. LeftDone(u, c) /\ RightDone(u, c)
      BY <3>1, <1>1 DEF PartsDone
    <3>5. QED
      BY <3>1, <3>3, <3>4 DEF LeftDone, RightDone
  <2>4. QED
    BY <2>1, <2>2, <2>3
<1>7. AllDone'
  BY <1>1, <1>2, <1>5 DEF AllDone, Items
<1>8. Merging'
  <2>1. x[t] = << >> /\ ~At(t, "merge")'
    <3>1. ~At(t, "merge") /\ Top(t)' = g
      BY <1>3 DEF At, Top, Last
    <3>2. QED
      BY <3>1, <1>1 DEF Merging, At
  <2>2. \A u \in Threads : u # t => Top(u)' = Top(u) /\ (At(u, "merge")' <=> At(u, "merge"))
    BY <1>3, OtherMerges DEF Others
  <2>3. QED
    BY <2>1, <2>2, <1>1 DEF Merging
<1>9. ArrayTypes' /\ SameItems'
  BY <1>1 DEF ArrayTypes, SameItems, Items
<1>10. QED
  BY <1>6, <1>7, <1>8, <1>9 DEF ArrayInv

LEMMA SortLeftArray ==
    ASSUME StackInv, ArrayInv, NEW t \in Threads, SortLeft(t)
    PROVE  ArrayInv'
<1> DEFINE f == [Top(t) EXCEPT !.at = "right"]
           g == LeftPart(Top(t))
<1>1. /\ stack[t] # << >> /\ Top(t).at = "sort"
      /\ stack' = [stack EXCEPT ![t] = Append(Moved(t, f), g)] /\ ntid' = ntid
      /\ UNCHANGED <<input, arr, x, left, right>>
  BY DEF SortLeft, At, merge
<1>2. Top(t) \in Frame /\ CallOK(t, Top(t))
  BY <1>1, TopOf DEF StackInv, CallsOK
<1>3. /\ f \in Frame /\ f.at = "right" /\ f.tid = Top(t).tid /\ f.tcnt = Top(t).tcnt
      /\ f.lo = Top(t).lo /\ f.n = Top(t).n /\ f.tid = 0
  BY <1>1, <1>2 DEF Frame, CallOK
<1>4. g \in Frame /\ g.at = "sort"
  BY <1>2, LeftPartOf
<1> HIDE DEF f, g
<1>5. QED
  BY <1>1, <1>3, <1>4, PushArray

LEMMA SortRightArray ==
    ASSUME StackInv, ArrayInv, NEW t \in Threads, SortRight(t)
    PROVE  ArrayInv'
<1> DEFINE f == [Top(t) EXCEPT !.at = "join"]
           g == RightPart(Top(t))
<1>1. /\ stack[t] # << >> /\ Top(t).at = "right"
      /\ stack' = [stack EXCEPT ![t] = Append(Moved(t, f), g)] /\ ntid' = ntid
      /\ UNCHANGED <<input, arr, x, left, right>>
  BY DEF SortRight, At, merge
<1>2. Top(t) \in Frame
  BY <1>1, TopOf DEF StackInv
<1>3. /\ f \in Frame /\ f.at = "join" /\ f.tid = Top(t).tid /\ f.tcnt = Top(t).tcnt
      /\ f.lo = Top(t).lo /\ f.n = Top(t).n
  BY <1>2 DEF Frame
<1>4. g \in Frame /\ g.at = "sort"
  BY <1>2, RightPartOf
<1> HIDE DEF f, g
<1>5. QED
  BY <1>1, <1>3, <1>4, PushArray

(* Both parts are sorted when the merge begins. *)
LEMMA JoinArray ==
    ASSUME StackInv, ArrayInv, NEW t \in Threads, Join(t)
    PROVE  ArrayInv'
<1> DEFINE l == Len(stack[t])
           f == [Top(t) EXCEPT !.at = "merge"]
<1>1. Types /\ ArrayTypes /\ PartsDone /\ AllDone /\ Merging /\ SameItems
  BY DEF StackInv, ArrayInv
<1>2. /\ stack[t] # << >> /\ Top(t).at = "join"
      /\ Top(t).tid # 0 => stack[Top(t).tid] = << >>
      /\ stack' = [stack EXCEPT ![t] = Moved(t, f)] /\ ntid' = ntid
      /\ left' = [left EXCEPT ![t] = 0]
      /\ right' = [right EXCEPT ![t] = Border(Top(t).n, Top(t).tcnt)]
      /\ UNCHANGED <<input, arr, x>>
  BY DEF Join, Merge, At
<1>3. /\ l \in Nat \ {0} /\ DOMAIN stack[t] = 1 .. l /\ Top(t) = stack[t][l]
      /\ Top(t) \in Frame /\ 0 \in Threads
  BY <1>1, <1>2, TopOf, TcntAssumption DEF Threads
<1>4. /\ f \in Frame /\ f.at = "merge" /\ f.tcnt = Top(t).tcnt
      /\ f.lo = Top(t).lo /\ f.n = Top(t).n
  BY <1>3 DEF Frame
<1> HIDE DEF f
<1>5. /\ Others(t) /\ Len(stack'[t]) = l /\ DOMAIN stack'[t] = DOMAIN stack[t]
      /\ stack'[t][l] = f /\ \A c \in 1 .. l - 1 : stack'[t][c] = stack[t][c]
      /\ stack'[t] # << >>
  BY <1>1, <1>2, <1>4, MovedOn
<1>6. /\ Sorted(arr, LeftSpan(f)) /\ Sorted(arr, RightSpan(f))
  <2>1. LeftDone(t, l) /\ RightDone(t, l)
    BY <1>1, <1>3 DEF PartsDone
  <2>2. LeftReturned(t, l)
    BY <1>2, <1>3 DEF LeftReturned
  <2>3. Sorted(arr, LeftSpan(Top(t))) /\ Sorted(arr, RightSpan(Top(t)))
    BY <2>1, <2>2, <1>2, <1>3 DEF LeftDone, RightDone, Open
  <2>4. QED
    BY <2>3, <1>4, SameParts
<1> HIDE DEF l
<1>7. \A u \in Threads : stack'[u] = << >> <=> stack[u] = << >>
  BY <1>2, <1>5 DEF Others
<1>8. PartsDone'
  <2> SUFFICES ASSUME NEW u \in Threads, NEW c \in DOMAIN stack'[u]
               PROVE  LeftDone(u, c)' /\ RightDone(u, c)'
    BY DEF PartsDone
  <2>1. CASE u = t /\ c = l
    BY <2>1, <1>4, <1>5 DEF LeftDone, RightDone, Open
  <2>2. CASE ~(u = t /\ c = l)
    <3>1. /\ stack'[u][c] = stack[u][c] /\ c \in DOMAIN stack[u]
          /\ c = Len(stack'[u]) => c = Len(stack[u])
      BY <2>2, <1>3, <1>5 DEF Others
    <3>2. stack[u][c].tid \in Threads
      BY <3>1, <1>1, CallType
    <3>3. LeftReturned(u, c)' => LeftReturned(u, c)
      BY <3>1, <3>2, <1>7 DEF LeftReturned
    <3>4. LeftDone(u, c) /\ RightDone(u, c)
      BY <3>1, <1>1 DEF PartsDone
    <3>5. QED
      BY <3>1, <3>3, <3>4, <1>2 DEF LeftDone, RightDone
  <2>3. QED
    BY <2>1, <2>2
<1>9. AllDone'
  BY <1>1, <1>2, <1>3, <1>7 DEF AllDone, Items
<1>10. Merging'
  <2>1. x'[t] = << >> /\ left'[t] = 0 /\ right'[t] = Border(f.n, f.tcnt) /\ Top(t)' = f
    <3>1. x[t] = << >>
      BY <1>1, <1>2 DEF Merging, At
    <3>2. QED
      BY <3>1, <1>1, <1>2, <1>4, <1>5 DEF ArrayTypes, Top, Last
  <2>2. MergeOK(arr', Top(t)', x'[t], left'[t], right'[t])
    BY <2>1, <1>2, <1>4, <1>6, MergeBegins
  <2>3. ASSUME NEW u \in Threads, u # t
        PROVE  /\ Top(u)' = Top(u) /\ (At(u, "merge")' <=> At(u, "merge"))
               /\ x'[u] = x[u] /\ left'[u] = left[u] /\ right'[u] = right[u]
    BY <2>3, <1>1, <1>2, <1>5, OtherMerges DEF Others, ArrayTypes
  <2>4. At(t, "merge")'
    BY <2>1, <1>4, <1>5 DEF At
  <2>5. QED
    BY <2>2, <2>3, <2>4, <1>1, <1>2 DEF Merging
<1>11. ArrayTypes' /\ SameItems'
  <2>1. Border(Top(t).n, Top(t).tcnt) \in Nat
    BY <1>3, Parts DEF Frame
  <2>2. QED
    BY <2>1, <1>1, <1>2 DEF ArrayTypes, SameItems, Items
<1>12. QED
  BY <1>8, <1>9, <1>10, <1>11 DEF ArrayInv

LEMMA MtSortArray ==
    ASSUME StackInv, ArrayInv, NEW t \in Threads, MtSort(t)
    PROVE  ArrayInv'
<1> DEFINE f == [Top(0) EXCEPT !.at = "right", !.tid = ntid + 1]
           g == LeftPart(Top(0))
           l == Len(stack[0])
           n == ntid + 1
<1>1. Types /\ CallsOK /\ ArrayTypes /\ PartsDone /\ AllDone /\ Merging /\ SameItems
  BY DEF StackInv, ArrayInv
<1>2. /\ n \in Threads \ {0} /\ stack[0] # << >> /\ stack[n] = << >> /\ Top(0).at = "sort"
      /\ stack'[0] = Moved(0, f) /\ stack'[n] = << g >>
      /\ \A u \in Threads : u # 0 /\ u # n => stack'[u] = stack[u]
  BY MtSortFacts
<1>3. UNCHANGED <<input, arr, x, left, right>>
  BY DEF MtSort, merge
<1>4. /\ l \in Nat \ {0} /\ DOMAIN stack[0] = 1 .. l /\ Top(0) = stack[0][l]
      /\ Top(0) \in Frame /\ 0 \in Threads /\ ntid \in Nat
  <2>1. 0 \in Threads /\ ntid \in Nat
    BY <1>1, TcntAssumption DEF Threads, Types
  <2>2. QED
    BY <2>1, <1>1, <1>2, TopOf
<1>5. f \in Frame /\ f.at = "right" /\ f.tid = n
  BY <1>2, <1>4 DEF Frame
<1>6. g.at = "sort" /\ n = ntid + 1
  BY <1>4, LeftPartOf
<1>7. stack'[0] = [stack[0] EXCEPT ![l] = f]
  BY <1>2 DEF Moved
<1> HIDE DEF f, g, n
<1>8. /\ stack'[0] \in Seq(Frame) /\ Len(stack'[0]) = l /\ DOMAIN stack'[0] = 1 .. l
      /\ stack'[0][l] = f /\ \A c \in 1 .. l - 1 : stack'[0][c] = stack[0][c]
  <2>1. stack[0] \in Seq(Frame)
    BY <1>1, <1>4 DEF Types
  <2>2. QED
    BY <2>1, <1>2, <1>5, <1>7, MovedOf
<1>9. /\ stack'[n] # << >> /\ DOMAIN stack'[n] = {1} /\ stack'[n][1] = g /\ Len(stack'[n]) = 1
  BY <1>2
<1>10. stack'[0] # << >>
  BY <1>4, <1>8, EmptyLen
<1>11. Len(stack'[0]) = Len(stack[0])
  BY <1>8
<1> HIDE DEF l
<1>12. \A u \in Threads : stack'[u] = << >> => stack[u] = << >>
  BY <1>2, <1>10
<1>13. PartsDone'
  <2> SUFFICES ASSUME NEW u \in Threads, NEW c \in DOMAIN stack'[u]
               PROVE  LeftDone(u, c)' /\ RightDone(u, c)'
    BY DEF PartsDone
  <2>1. CASE u = n
    BY <2>1, <1>6, <1>9 DEF LeftDone, RightDone, Open
  <2>2. CASE u = 0 /\ c = l
    BY <2>2, <1>2, <1>5, <1>8, <1>9 DEF LeftDone, RightDone, LeftReturned
  <2>3. CASE u # n /\ ~(u = 0 /\ c = l)
    <3>1. /\ stack'[u][c] = stack[u][c] /\ c \in DOMAIN stack[u]
          /\ c = Len(stack'[u]) => c = Len(stack[u])
      BY <2>3, <1>2, <1>4, <1>8, <1>11
    <3>2. stack[u][c].tid \in Threads
      BY <3>1, <1>1, CallType
    <3>3. LeftReturned(u, c)' => LeftReturned(u, c)
      BY <3>1, <3>2, <1>12 DEF LeftReturned
    <3>4. LeftDone(u, c) /\ RightDone(u, c)
      BY <3>1, <1>1 DEF PartsDone
    <3>5. QED
      BY <3>1, <3>3, <3>4, <1>3 DEF LeftDone, RightDone
  <2>4. QED
    BY <2>1, <2>2, <2>3
<1>14. AllDone'
  BY <1>10 DEF AllDone
<1>15. Merging'
  <2>1. ~At(0, "merge") /\ ~At(n, "merge")
    BY <1>2 DEF At
  <2>2. ~At(0, "merge")'
    BY <1>5, <1>8, <1>10 DEF At, Top, Last
  <2>3. ASSUME NEW u \in Threads, u = n PROVE ~At(u, "merge")'
    BY <2>3, <1>6, <1>9 DEF At, Top, Last
  <2>4. \A u \in Threads : u # 0 /\ u # n =>
            Top(u)' = Top(u) /\ (At(u, "merge")' <=> At(u, "merge"))
    BY <1>2, OtherMerges
  <2>5. QED
    BY <2>1, <2>2, <2>3, <2>4, <1>1, <1>3 DEF Merging
<1>16. ArrayTypes' /\ SameItems'
  BY <1>1, <1>3 DEF ArrayTypes, SameItems, Items
<1>17. QED
  BY <1>13, <1>14, <1>15, <1>16 DEF ArrayInv


------------------------------------------------------------------------------
(* A call returns *)

(* What a thread merges is apart from the sorted parts of the others' calls. *)
LEMMA Elsewhere ==
    ASSUME StackInv, NEW t \in Threads, At(t, "merge"), NEW u \in Threads, u # t,
           NEW c \in DOMAIN stack[u], stack[u][c].at \in Open
    PROVE  /\ LeftReturned(u, c) => \A i \in LeftSpan(stack[u][c]) : i \notin Span(Top(t))
           /\ stack[u][c].at = "join" /\ c = Len(stack[u]) =>
                  \A i \in RightSpan(stack[u][c]) : i \notin Span(Top(t))
<1>1. Types /\ CallsOK /\ Nested /\ stack[t] # << >>
  BY DEF StackInv, At
<1>2. stack[u][c] \in Frame
  BY <1>1, CallType
<1>3. CASE u # 0
  BY <1>2, <1>3, Apart, Parts
<1>4. CASE u = 0
  <2>1. Len(stack[t]) \in DOMAIN stack[t] /\ Top(t) = stack[t][Len(stack[t])]
    BY <1>1, TopOf
  <2>2. PICK d \in DOMAIN stack[0] : /\ Awaits(stack[0][d], t)
                                     /\ Span(Top(t)) \subseteq LeftSpan(stack[0][d])
    BY <2>1, <1>4, InLeftSpan
  <2>3. stack[0][d] \in Frame /\ stack[0] \in Seq(Frame)
    BY <2>2, <1>1, <1>4, CallType DEF Types
  <2>4. DOMAIN stack[0] = 1 .. Len(stack[0]) /\ Len(stack[0]) \in Nat
    BY <2>3, LenProperties
  <2>5. CASE d < c
    <3>1. Span(stack[0][c]) \subseteq RightSpan(stack[0][d])
      BY <2>2, <2>5, <1>4, InRightSpan
    <3>2. QED
      BY <3>1, <2>2, <2>3, <1>2, <1>4, Parts
  <2>6. CASE d = c
    <3>1. ~LeftReturned(u, c)
      BY <2>2, <2>6, <1>1, <1>4 DEF LeftReturned, Awaits
    <3>2. QED
      BY <3>1, <2>2, <2>3, <2>6, <1>4, Parts
  <2>7. CASE c < d
    <3>1. Within(stack[0][c], stack[0][d]) /\ CallOK(0, stack[0][c])
      BY <2>2, <2>7, <1>1, <1>4 DEF Nested, CallsOK
    <3>2. c # Len(stack[u])
      BY <2>2, <2>4, <2>7, <1>4
    <3>3. CASE stack[0][c].at = "right"
      <4>1. stack[0][c].tid = 0
        BY <3>1, <3>3 DEF Within, CallOK
      <4>2. ~LeftReturned(u, c)
        BY <4>1, <3>2, <3>3, <1>4 DEF LeftReturned
      <4>3. QED
        BY <4>2, <3>2
    <3>4. CASE stack[0][c].at = "join"
      <4>1. Span(stack[0][d]) \subseteq RightSpan(stack[0][c])
        BY <3>1, <3>4 DEF Within, Below
      <4>2. QED
        BY <4>1, <3>2, <2>2, <2>3, <1>2, <1>4, Parts
    <3>5. QED
      BY <3>3, <3>4, <1>4 DEF Open
  <2>8. QED
    BY <2>4, <2>5, <2>6, <2>7, <1>4
<1>5. QED
  BY <1>3, <1>4

(* A call that has sorted its part and nothing else returns. *)
LEMMA PopArray ==
    ASSUME StackInv, ArrayInv, NEW t \in Threads, stack[t] # << >>, Top(t).at \notin Open,
           stack' = [stack EXCEPT ![t] = Front(@)], ntid' = ntid, input' = input,
           Sorted(arr', Span(Top(t))), arr' = arr \/ At(t, "merge"),
           \A i \in Items : i \notin Span(Top(t)) => arr'[i] = arr[i]
    PROVE  PartsDone' /\ AllDone'
<1> DEFINE l == Len(stack[t])
<1>1. Types /\ CallsOK /\ Nested /\ Roots /\ PartsDone /\ AllDone
  BY DEF StackInv, ArrayInv
<1>2. /\ l \in Nat \ {0} /\ DOMAIN stack[t] = 1 .. l /\ Top(t) = stack[t][l]
      /\ 0 \in Threads
  BY <1>1, TopOf, TcntAssumption DEF Threads
<1>3. /\ Others(t) /\ Len(stack'[t]) = l - 1 /\ DOMAIN stack'[t] = 1 .. l - 1
      /\ \A c \in 1 .. l - 1 : stack'[t][c] = stack[t][c]
      /\ stack'[t] = << >> <=> l = 1
  BY <1>1, Popped
<1>5. ASSUME NEW u \in Threads, NEW c \in DOMAIN stack[u]
      PROVE  /\ stack[u][c] \in Frame /\ stack[u][c].tid \in Threads /\ CallOK(u, stack[u][c])
             /\ LeftDone(u, c) /\ RightDone(u, c)
             /\ LeftSpan(stack[u][c]) \subseteq Items /\ RightSpan(stack[u][c]) \subseteq Items
             /\ \A i \in LeftSpan(stack[u][c]) : i \notin RightSpan(stack[u][c])
  <2>1. stack[u][c] \in Frame /\ stack[u][c].tid \in Threads
    BY <1>1, CallType
  <2>2. CallOK(u, stack[u][c]) /\ LeftDone(u, c) /\ RightDone(u, c)
    BY <1>1 DEF CallsOK, PartsDone
  <2>3. Span(stack[u][c]) \subseteq Items
    BY <2>2 DEF CallOK
  <2>4. QED
    BY <2>1, <2>2, <2>3, Parts
<1>6. stack[t][l] \in Frame /\ l \in DOMAIN stack[t]
  BY <1>2, <1>5
<1>7. ASSUME NEW S, S \subseteq Items, Sorted(arr, S), \A i \in S : i \notin Span(Top(t))
      PROVE  Sorted(arr', S)
  BY <1>7, SortedKept
<1>8. \A u \in Threads : u # t => stack'[u] = stack[u]
  BY <1>3 DEF Others
<1> HIDE DEF l
<1>9. ASSUME NEW c \in DOMAIN stack'[t]
      PROVE  LeftDone(t, c)' /\ RightDone(t, c)'
  <2>1. c \in DOMAIN stack[t] /\ stack'[t][c] = stack[t][c] /\ c < l
    BY <1>2, <1>3, <1>9
  <2> DEFINE f == stack[t][c]
  <2>2. /\ f \in Frame /\ f.tid \in Threads /\ CallOK(t, f) /\ LeftDone(t, c)
        /\ LeftSpan(f) \subseteq Items /\ \A i \in LeftSpan(f) : i \notin RightSpan(f)
    BY <2>1, <1>5
  <2>3. Within(f, Top(t)) /\ (l = c + 1 => Span(Top(t)) = Below(f))
    BY <2>1, <1>1, <1>2, <1>6 DEF Nested
  <2>4. RightDone(t, c)'
    <3>1. c = Len(stack'[t]) => l = c + 1
      BY <1>2, <1>3
    <3>2. f.at = "join" /\ l = c + 1 => Sorted(arr', RightSpan(f))
      BY <2>3 DEF Below
    <3>3. QED
      BY <3>1, <3>2, <2>1 DEF RightDone
  <2>5. LeftDone(t, c)'
    <3>1. CASE f.at = "right"
      <4>1. f.tid = 0
        BY <3>1, <2>2, <2>3 DEF Within, CallOK
      <4>2. c = Len(stack'[t]) => l = c + 1
        BY <1>2, <1>3
      <4>3. LeftReturned(t, c)' => l = c + 1
        BY <4>1, <4>2, <3>1, <2>1 DEF LeftReturned
      <4>4. l = c + 1 => Sorted(arr', LeftSpan(f))
        BY <3>1, <2>3 DEF Below
      <4>5. QED
        BY <4>3, <4>4, <2>1 DEF LeftDone
    <3>2. CASE f.at = "join"
      <4>1. f.tid # 0 => t = 0
        BY <3>2, <2>2, TcntAssumption DEF CallOK
      <4>2. LeftReturned(t, c)' => LeftReturned(t, c)
        BY <4>1, <3>2, <2>1, <2>2, <1>8 DEF LeftReturned
      <4>3. \A i \in LeftSpan(f) : i \notin Span(Top(t))
        BY <3>2, <2>2, <2>3 DEF Within, Below
      <4>4. LeftReturned(t, c) => Sorted(arr', LeftSpan(f))
        BY <4>3, <3>2, <2>2, <1>7 DEF LeftDone, Open
      <4>5. QED
        BY <4>2, <4>4, <2>1 DEF LeftDone
    <3>3. QED
      BY <3>1, <3>2, <2>3 DEF Within, Open
  <2>6. QED
    BY <2>4, <2>5
<1>10. ASSUME NEW u \in Threads, u # t, NEW c \in DOMAIN stack'[u]
       PROVE  LeftDone(u, c)' /\ RightDone(u, c)'
  <2>1. stack'[u] = stack[u] /\ c \in DOMAIN stack[u]
    BY <1>8, <1>10
  <2> DEFINE f == stack[u][c]
  <2>2. /\ f \in Frame /\ f.tid \in Threads /\ CallOK(u, f) /\ LeftDone(u, c) /\ RightDone(u, c)
        /\ LeftSpan(f) \subseteq Items /\ RightSpan(f) \subseteq Items
    BY <2>1, <1>5
  <2>3. f.at = "join" /\ c = Len(stack[u]) => Sorted(arr', RightSpan(f))
    <3> SUFFICES ASSUME f.at = "join", c = Len(stack[u]) PROVE Sorted(arr', RightSpan(f))
      OBVIOUS
    <3>1. Sorted(arr, RightSpan(f))
      BY <2>2 DEF RightDone
    <3>2. CASE arr' = arr
      BY <3>1, <3>2
    <3>3. CASE At(t, "merge")
      <4>1. \A i \in RightSpan(f) : i \notin Span(Top(t))
        BY <3>3, <2>1, <1>10, Elsewhere DEF Open
      <4>2. QED
        BY <4>1, <3>1, <2>2, <1>7
    <3>4. QED
      BY <3>2, <3>3
  <2>4. f.at \in Open /\ LeftReturned(u, c) => Sorted(arr', LeftSpan(f))
    <3> SUFFICES ASSUME f.at \in Open, LeftReturned(u, c) PROVE Sorted(arr', LeftSpan(f))
      OBVIOUS
    <3>1. Sorted(arr, LeftSpan(f))
      BY <2>2 DEF LeftDone
    <3>2. CASE arr' = arr
      BY <3>1, <3>2
    <3>3. CASE At(t, "merge")
      <4>1. \A i \in LeftSpan(f) : i \notin Span(Top(t))
        BY <3>3, <2>1, <1>10, Elsewhere
      <4>2. QED
        BY <4>1, <3>1, <2>2, <1>7
    <3>4. QED
      BY <3>2, <3>3
  <2>5. f.at \in Open /\ LeftReturned(u, c)' => Sorted(arr', LeftSpan(f))
    <3>1. CASE f.tid # t \/ f.tid = 0
      <4>1. LeftReturned(u, c)' => LeftReturned(u, c)
        BY <3>1, <2>1, <2>2, <1>8 DEF LeftReturned
      <4>2. QED
        BY <4>1, <2>4
    <3>2. CASE f.tid = t /\ t # 0
      <4> SUFFICES ASSUME f.at \in Open, LeftReturned(u, c)' PROVE Sorted(arr', LeftSpan(f))
        OBVIOUS
      <4>1. u = 0
        BY <3>2, <2>2, TcntAssumption DEF CallOK, Open
      <4>2. l = 1
        BY <3>2, <2>1, <1>3 DEF LeftReturned
      <4>3. Awaits(stack[0][c], t)
        BY <3>2, <4>1 DEF Awaits
      <4>4. Span(stack[t][1]) = LeftSpan(stack[0][c])
        BY <3>2, <4>1, <4>3, <2>1, <1>1 DEF Roots
      <4>5. QED
        BY <4>1, <4>2, <4>4, <1>2
    <3>3. QED
      BY <3>1, <3>2
  <2>6. QED
    BY <2>1, <2>3, <2>5 DEF LeftDone, RightDone
<1>11. PartsDone'
  BY <1>9, <1>10 DEF PartsDone
<1>12. AllDone'
  <2> SUFFICES ASSUME stack'[0] = << >> PROVE Sorted(arr', Items)
    BY DEF AllDone, Items
  <2>1. CASE t = 0
    BY <2>1, <1>1, <1>2, <1>3 DEF Roots
  <2>2. CASE t # 0
    <3>1. stack[0] = << >> /\ DOMAIN stack[0] = {}
      BY <2>2, <1>2, <1>8
    <3>2. QED
      BY <3>1, <2>2, <1>1 DEF Roots
  <2>3. QED
    BY <2>1, <2>2
<1>13. QED
  BY <1>11, <1>12

(* The call returned to does not merge yet: it has a part to sort or a thread to join. *)
LEMMA PoppedNotMerging ==
    ASSUME StackInv, NEW t \in Threads, stack[t] # << >>,
           stack' = [stack EXCEPT ![t] = Front(@)], ntid' = ntid
    PROVE  ~At(t, "merge")'
<1> DEFINE l == Len(stack[t])
<1>1. Types /\ Nested
  BY DEF StackInv
<1>2. l \in Nat \ {0} /\ DOMAIN stack[t] = 1 .. l
  BY <1>1, TopOf
<1>3. /\ Len(stack'[t]) = l - 1
      /\ \A c \in 1 .. l - 1 : stack'[t][c] = stack[t][c]
      /\ stack'[t] = << >> <=> l = 1
  BY <1>1, Popped
<1>4. Top(t)' = stack'[t][l - 1]
  BY <1>3 DEF Top, Last
<1> HIDE DEF l
<1>5. CASE l = 1
  BY <1>5, <1>3 DEF At
<1>6. CASE l # 1
  <2>1. l - 1 \in 1 .. l - 1 /\ l - 1 \in DOMAIN stack[t] /\ l \in DOMAIN stack[t] /\ l - 1 < l
    BY <1>6, <1>2
  <2>2. stack[t][l - 1].at \in Open
    BY <2>1, <1>1 DEF Nested, Within
  <2>3. QED
    BY <2>1, <2>2, <1>3, <1>4 DEF At, Open
<1>7. QED
  BY <1>5, <1>6

LEMMA SortNothingArray ==
    ASSUME StackInv, ArrayInv, NEW t \in Threads, SortNothing(t)
    PROVE  ArrayInv'
<1>1. /\ stack[t] # << >> /\ Top(t).at = "sort" /\ Top(t).n < 2
      /\ stack' = [stack EXCEPT ![t] = Front(@)] /\ ntid' = ntid
      /\ UNCHANGED <<input, arr, x, left, right>>
  BY DEF SortNothing, At, merge
<1>2. Types /\ ArrayTypes /\ Merging /\ SameItems
  BY DEF StackInv, ArrayInv
<1>3. Top(t) \in Frame /\ Span(Top(t)) \subseteq Items
  BY <1>1, <1>2, TopOf DEF StackInv, CallsOK, CallOK
<1>4. Sorted(arr', Span(Top(t)))
  <2> SUFFICES ASSUME NEW i \in Span(Top(t)), NEW j \in Span(Top(t)) PROVE arr[i] <= arr[j]
    BY <1>1 DEF Sorted
  <2>1. i = j
    BY <1>1, <1>3 DEF Span, Frame
  <2>2. arr[i] \in Int
    BY <1>2, <1>3 DEF ArrayTypes
  <2>3. QED
    BY <2>1, <2>2
<1>5. PartsDone' /\ AllDone'
  BY <1>1, <1>4, PopArray DEF Open
<1>6. Merging'
  <2>1. x'[t] = << >> /\ ~At(t, "merge")
    BY <1>1, <1>2 DEF Merging, At
  <2>2. ~At(t, "merge")'
    BY <1>1, PoppedNotMerging DEF Open
  <2>3. Others(t)
    BY <1>1, <1>2, Popped
  <2>4. \A u \in Threads : u # t => Top(u)' = Top(u) /\ (At(u, "merge")' <=> At(u, "merge"))
    BY <2>3, OtherMerges DEF Others
  <2>5. QED
    BY <2>1, <2>2, <2>4, <1>1, <1>2 DEF Merging
<1>7. ArrayTypes' /\ SameItems'
  BY <1>1, <1>2 DEF ArrayTypes, SameItems, Items
<1>8. QED
  BY <1>5, <1>6, <1>7 DEF ArrayInv

(* The item that merge() takes is the least of those not taken. *)
LEMMA LeastRight ==
    ASSUME NEW I, NEW a \in [I -> Int], NEW f \in Frame, Span(f) \subseteq I,
           Sorted(a, LeftSpan(f)), Sorted(a, RightSpan(f)),
           NEW l \in 0 .. Border(f.n, f.tcnt), NEW r \in Border(f.n, f.tcnt) .. f.n,
           r # f.n, l = Border(f.n, f.tcnt) \/ a[f.lo + r + 1] < a[f.lo + l + 1]
    PROVE  /\ f.lo + r + 1 \in Untaken(f, l, r)
           /\ \A j \in Untaken(f, l, r) : a[f.lo + r + 1] <= a[j]
<1> DEFINE b == Border(f.n, f.tcnt)
           i == f.lo + r + 1
<1>1. f.lo \in Nat /\ f.n \in Nat /\ b \in 0 .. f.n /\ Cut(f) = f.lo + b
  BY Parts DEF Frame
<1> HIDE DEF b
<1>2. l \in 0 .. b /\ r \in b .. f.n /\ (l = b \/ a[i] < a[f.lo + l + 1])
  BY DEF b
<1>3. i \in RightSpan(f) /\ i \in Untaken(f, l, r)
  BY <1>1, <1>2, SMTT(20) DEF RightSpan, Untaken
<1>4. ASSUME NEW j \in Untaken(f, l, r) PROVE a[i] <= a[j]
  <2>1. CASE j \in f.lo + r + 1 .. f.lo + f.n
    <3>1. j \in RightSpan(f) /\ i <= j
      BY <2>1, <1>1, <1>2 DEF RightSpan
    <3>2. QED
      BY <3>1, <1>3 DEF Sorted
  <2>2. CASE j \in f.lo + l + 1 .. Cut(f)
    <3> DEFINE k == f.lo + l + 1
    <3>0. f.lo \in Nat /\ l \in Nat /\ b \in Nat /\ j \in f.lo + l + 1 .. f.lo + b
      BY <2>2, <1>1, <1>2
    <3>1. j \in LeftSpan(f) /\ k \in LeftSpan(f) /\ k <= j /\ l # b
      <4>1. j \in f.lo + 1 .. f.lo + b /\ k \in f.lo + 1 .. f.lo + b /\ k <= j /\ l # b
        BY ONLY <3>0 DEF k
      <4>2. QED
        BY <4>1, <1>1 DEF LeftSpan
    <3>2. a[k] <= a[j] /\ a[i] < a[k]
      BY <3>1, <1>2 DEF Sorted
    <3>3. a[i] \in Int /\ a[j] \in Int /\ a[k] \in Int
      BY <3>1, <1>3, Parts
    <3> HIDE DEF k, i
    <3>4. QED
      BY <3>2, <3>3
  <2>3. QED
    BY <1>4, <2>1, <2>2 DEF Untaken
<1>5. QED
  BY <1>3, <1>4

LEMMA LeastLeft ==
    ASSUME NEW I, NEW a \in [I -> Int], NEW f \in Frame, Span(f) \subseteq I,
           Sorted(a, LeftSpan(f)), Sorted(a, RightSpan(f)),
           NEW l \in 0 .. Border(f.n, f.tcnt), NEW r \in Border(f.n, f.tcnt) .. f.n,
           l # Border(f.n, f.tcnt), r = f.n \/ ~(a[f.lo + r + 1] < a[f.lo + l + 1])
    PROVE  /\ f.lo + l + 1 \in Untaken(f, l, r)
           /\ \A j \in Untaken(f, l, r) : a[f.lo + l + 1] <= a[j]
<1> DEFINE b == Border(f.n, f.tcnt)
           i == f.lo + l + 1
<1>1. f.lo \in Nat /\ f.n \in Nat /\ b \in 0 .. f.n /\ Cut(f) = f.lo + b
  BY Parts DEF Frame
<1> HIDE DEF b
<1>2. l \in 0 .. b /\ r \in b .. f.n /\ l # b /\ (r = f.n \/ ~(a[f.lo + r + 1] < a[i]))
  BY DEF b
<1>3. i \in LeftSpan(f) /\ i \in Untaken(f, l, r)
  BY <1>1, <1>2, SMTT(20) DEF LeftSpan, Untaken
<1>4. ASSUME NEW j \in Untaken(f, l, r) PROVE a[i] <= a[j]
  <2>1. CASE j \in f.lo + l + 1 .. Cut(f)
    <3>1. j \in LeftSpan(f) /\ i <= j
      BY <2>1, <1>1, <1>2 DEF LeftSpan
    <3>2. QED
      BY <3>1, <1>3 DEF Sorted
  <2>2. CASE j \in f.lo + r + 1 .. f.lo + f.n
    <3> DEFINE k == f.lo + r + 1
    <3>0. f.lo \in Nat /\ r \in Nat /\ b \in Nat /\ b <= r /\ f.n \in Nat
          /\ j \in f.lo + r + 1 .. f.lo + f.n
      BY <2>2, <1>1, <1>2
    <3>1. j \in RightSpan(f) /\ k \in RightSpan(f) /\ k <= j /\ r # f.n
      <4>1. /\ j \in f.lo + b + 1 .. f.lo + f.n /\ k \in f.lo + b + 1 .. f.lo + f.n
            /\ k <= j /\ r # f.n
        BY ONLY <3>0 DEF k
      <4>2. QED
        BY <4>1, <1>1 DEF RightSpan
    <3>2. a[k] <= a[j] /\ ~(a[k] < a[i])
      BY <3>1, <1>2 DEF Sorted
    <3>3. a[i] \in Int /\ a[j] \in Int /\ a[k] \in Int
      BY <3>1, <1>3, Parts
    <3> HIDE DEF k, i
    <3>4. QED
      BY <3>2, <3>3
  <2>3. QED
    BY <1>4, <2>1, <2>2 DEF Untaken
<1>5. QED
  BY <1>3, <1>4

LEMMA MergeCopyArray ==
    ASSUME StackInv, ArrayInv, NEW t \in Threads, MergeCopy(t)
    PROVE  ArrayInv'
<1> DEFINE f == Top(t)
           b == Border(f.n, f.tcnt)
           i == IF TakesRight(t) THEN f.lo + right[t] + 1 ELSE f.lo + left[t] + 1
<1>1. Types /\ ArrayTypes /\ PartsDone /\ AllDone /\ Merging /\ SameItems
  BY DEF StackInv, ArrayInv
<1>2. /\ stack[t] # << >> /\ At(t, "merge") /\ Len(x[t]) < f.n
      /\ UNCHANGED <<input, arr, stack, ntid>>
  BY DEF MergeCopy, At
<1>3. f \in Frame /\ Span(f) \subseteq Items
  BY <1>1, <1>2, TopOf DEF StackInv, CallsOK, CallOK
<1>4. MergeOK(arr, f, x[t], left[t], right[t]) /\ arr \in [Items -> Int] /\ x[t] \in Seq(Int)
      /\ left[t] \in Nat /\ right[t] \in Nat
  BY <1>1, <1>2 DEF Merging, ArrayTypes
<1>5. /\ Sorted(arr, LeftSpan(f)) /\ Sorted(arr, RightSpan(f)) /\ f.n \in Nat /\ b \in 0 .. f.n
      /\ left[t] \in 0 .. b /\ right[t] \in b .. f.n /\ Len(x[t]) = left[t] + right[t] - b
  BY <1>3, <1>4, Parts DEF MergeOK, Frame
<1>6. /\ i \in Untaken(f, left[t], right[t])
      /\ \A j \in Untaken(f, left[t], right[t]) : arr[i] <= arr[j]
      /\ \/ ~TakesRight(t) /\ i = f.lo + left[t] + 1 /\ left[t] < b
         \/ TakesRight(t) /\ i = f.lo + right[t] + 1 /\ right[t] < f.n
  <2>1. CASE TakesRight(t)
    <3>1. /\ right[t] # f.n /\ right[t] < f.n
          /\ left[t] = b \/ arr[f.lo + right[t] + 1] < arr[f.lo + left[t] + 1]
      BY <2>1, <1>5 DEF TakesRight
    <3>2. QED
      BY <2>1, <3>1, <1>3, <1>4, <1>5, LeastRight
  <2>2. CASE ~TakesRight(t)
    <3> HIDE DEF f, b
    <3>1. /\ left[t] # b /\ left[t] < b
          /\ right[t] = f.n \/ ~(arr[f.lo + right[t] + 1] < arr[f.lo + left[t] + 1])
      <4>1. right[t] = f.n => left[t] # b
        BY <1>2, <1>5
      <4>2. right[t] = f.n \/ ~(\/ left[t] = b
                                 \/ arr[f.lo + right[t] + 1] < arr[f.lo + left[t] + 1])
        BY <2>2 DEF TakesRight, f, b
      <4>3. left[t] # b
        BY <4>1, <4>2
      <4>4. QED
        BY <4>2, <4>3, <1>5
    <3>2. /\ f.lo + left[t] + 1 \in Untaken(f, left[t], right[t])
          /\ \A j \in Untaken(f, left[t], right[t]) : arr[f.lo + left[t] + 1] <= arr[j]
      BY <3>1, <1>3, <1>4, <1>5, LeastLeft DEF b
    <3>3. QED
      BY <2>2, <3>1, <3>2
  <2>3. QED
    BY <2>1, <2>2
<1>7. /\ x' = [x EXCEPT ![t] = Append(@, arr[i])]
      /\ IF TakesRight(t) THEN left' = left /\ right' = [right EXCEPT ![t] = @ + 1]
                          ELSE left' = [left EXCEPT ![t] = @ + 1] /\ right' = right
  BY DEF MergeCopy
<1> HIDE DEF i
<1>8. /\ x'[t] = Append(x[t], arr[i]) /\ \A u \in Threads : u # t => x'[u] = x[u]
      /\ TakesRight(t) => left'[t] = left[t] /\ right'[t] = right[t] + 1
      /\ ~TakesRight(t) => left'[t] = left[t] + 1 /\ right'[t] = right[t]
      /\ \A u \in Threads : u # t => left'[u] = left[u] /\ right'[u] = right[u]
  BY <1>1, <1>7 DEF ArrayTypes
<1>9. MergeOK(arr, f, x'[t], left'[t], right'[t])
  <2> DEFINE y == x[t]
             z == x'[t]
             l == left[t]
             r == right[t]
             l2 == left'[t]
             r2 == right'[t]
  <2>1. \/ i = f.lo + l + 1 /\ l < b /\ l2 = l + 1 /\ r2 = r
        \/ i = f.lo + r + 1 /\ r < f.n /\ l2 = l /\ r2 = r + 1
    BY <1>6, <1>8
  <2>2. /\ z = Append(y, arr[i]) /\ y \in Seq(Int) /\ MergeOK(arr, f, y, l, r)
        /\ i \in Untaken(f, l, r) /\ \A j \in Untaken(f, l, r) : arr[i] <= arr[j]
    BY <1>4, <1>6, <1>8
  <2> HIDE DEF f, y, z, l, r, l2, r2
  <2>3. MergeOK(arr, f, z, l2, r2)
    BY <2>1, <2>2, <1>3, <1>4, MergeTakes DEF b
  <2>4. QED
    BY <2>3 DEF z, l2, r2
<1>10. Merging'
  <2>1. \A u \in Threads : Top(u)' = Top(u) /\ (At(u, "merge")' <=> At(u, "merge"))
    BY <1>2, OtherMerges
  <2>2. MergeOK(arr', Top(t)', x'[t], left'[t], right'[t]) /\ At(t, "merge")'
    BY <2>1, <1>2, <1>9
  <2>3. \A u \in Threads \ {t} :
            IF At(u, "merge")' THEN MergeOK(arr', Top(u)', x'[u], left'[u], right'[u])
                               ELSE x'[u] = << >>
    BY <2>1, <1>1, <1>2, <1>8 DEF Merging
  <2>4. QED
    BY <2>2, <2>3 DEF Merging
<1>11. ArrayTypes'
  <2>1. i \in Items
    BY <1>3, <1>5, <1>6, TakenOf
  <2>2. Append(x[t], arr[i]) \in Seq(Int) /\ left[t] + 1 \in Nat /\ right[t] + 1 \in Nat
    BY <2>1, <1>4, AppendProperties
  <2>3. QED
    BY <2>2, <1>1, <1>2, <1>7 DEF ArrayTypes, Items
<1>12. PartsDone' /\ AllDone' /\ SameItems'
  BY <1>1, <1>2 DEF PartsDone, LeftDone, LeftReturned, RightDone, AllDone, SameItems, Items
<1>13. QED
  BY <1>10, <1>11, <1>12 DEF ArrayInv

(* sort() returns from a merge: its part is sorted, and the others' are as they were. *)
LEMMA MergeBackArray ==
    ASSUME StackInv, ArrayInv, NEW t \in Threads, MergeBack(t)
    PROVE  ArrayInv'
<1> DEFINE f == Top(t)
           y == x[t]
<1>1. Types /\ ArrayTypes /\ Merging /\ SameItems
  BY DEF StackInv, ArrayInv
<1>2. /\ stack[t] # << >> /\ f.at = "merge" /\ At(t, "merge") /\ Len(y) = f.n
      /\ arr' = [i \in DOMAIN arr |-> IF i \in f.lo + 1 .. f.lo + f.n THEN y[i - f.lo] ELSE arr[i]]
      /\ x' = [x EXCEPT ![t] = << >>]
      /\ stack' = [stack EXCEPT ![t] = Front(@)]
      /\ UNCHANGED <<input, left, right, ntid>>
  BY DEF MergeBack, At
<1>3. f \in Frame /\ Span(f) \subseteq Items /\ f.lo \in Nat /\ f.n \in Nat
  BY <1>1, <1>2, TopOf DEF StackInv, CallsOK, CallOK, Frame
<1>4. /\ MergeOK(arr, f, y, left[t], right[t]) /\ arr \in [Items -> Int] /\ y \in Seq(Int)
      /\ Items' = Items
  BY <1>1, <1>2 DEF Merging, ArrayTypes, Items
<1>5. Span(f) = f.lo + 1 .. f.lo + f.n
  BY DEF Span
<1>6. \A i \in Span(f) : i - f.lo \in 1 .. f.n
  BY <1>3, <1>5
<1> HIDE DEF f, y
<1>7. /\ arr' \in [Items -> Int]
      /\ \A i \in Span(f) : arr'[i] = y[i - f.lo]
      /\ \A i \in Items : i \notin Span(f) => arr'[i] = arr[i]
  <2>1. \A k \in 1 .. f.n : y[k] \in Int
    BY <1>2, <1>4, ElementOfSeq
  <2>2. arr' = [i \in Items |-> IF i \in Span(f) THEN y[i - f.lo] ELSE arr[i]]
    BY <1>2, <1>4, <1>5
  <2>3. \A i \in Span(f) : y[i - f.lo] \in Int
    BY <2>1, <1>6
  <2>4. QED
    BY <2>2, <2>3, <1>3, <1>4
<1>8. Sorted(y, 1 .. f.n) /\ Drawn(arr, y, 1 .. f.n, Span(f))
  BY <1>2, <1>3, <1>4, MergeEnds
<1>9. Sorted(arr', Span(f))
  BY <1>3, <1>5, <1>7, <1>8, BackSorts
<1>10. SameItems'
  <2>1. Drawn(input, arr', Items, Items)
    <3> DEFINE b == arr'
               lo == f.lo
               n == f.n
    <3>1. /\ lo \in Nat /\ n \in Nat /\ lo + 1 .. lo + n \subseteq Items
          /\ Drawn(arr, y, 1 .. n, lo + 1 .. lo + n) /\ Drawn(input, arr, Items, Items)
      BY <1>1, <1>3, <1>5, <1>8 DEF SameItems
    <3>2. Written(b, arr, y, lo, n, Items)
      BY <1>5, <1>7 DEF Written
    <3> HIDE DEF b, lo, n
    <3>3. Drawn(input, b, Items, Items)
      BY <3>1, <3>2, BackKeeps
    <3>4. QED
      BY <3>3 DEF b
  <2>2. QED
    BY <2>1, <1>2, <1>4 DEF SameItems
<1>11. PartsDone' /\ AllDone'
  BY <1>2, <1>7, <1>9, PopArray DEF Open, f
<1>12. Merging'
  <2>1. x'[t] = << >> /\ ~At(t, "merge")'
    BY <1>1, <1>2, PoppedNotMerging DEF ArrayTypes
  <2>2. ASSUME NEW u \in Threads, u # t
        PROVE  IF At(u, "merge")' THEN MergeOK(arr', Top(u)', x'[u], left'[u], right'[u])
                                  ELSE x'[u] = << >>
    <3>1. Others(t)
      BY <1>1, <1>2, Popped
    <3>2. /\ Top(u)' = Top(u) /\ (At(u, "merge")' <=> At(u, "merge"))
          /\ x'[u] = x[u] /\ left'[u] = left[u] /\ right'[u] = right[u]
      BY <2>2, <3>1, <1>1, <1>2, OtherMerges DEF Others, ArrayTypes
    <3>3. CASE ~At(u, "merge")
      BY <3>2, <3>3, <1>1 DEF Merging
    <3>4. CASE At(u, "merge")
      <4>1. Top(u) \in Frame /\ Span(Top(u)) \subseteq Items
        BY <3>4, <1>1, TopOf DEF At, StackInv, CallsOK, CallOK
      <4>2. \A i \in Span(Top(u)) : i \notin Span(f)
        BY <2>2, <3>4, <1>2, NoRaceFollows DEF NoRace, Touched, Span, f
      <4>3. \A i \in Span(Top(u)) : arr'[i] = arr[i]
        BY <4>1, <4>2, <1>7
      <4>4. MergeOK(arr, Top(u), x[u], left[u], right[u])
        BY <3>4, <1>1 DEF Merging
      <4>5. MergeOK(arr', Top(u), x[u], left[u], right[u])
        BY <4>1, <4>3, <4>4, MergeKept
      <4>6. QED
        BY <3>2, <3>4, <4>5
    <3>5. QED
      BY <3>3, <3>4
  <2>3. QED
    BY <2>1, <2>2 DEF Merging
<1>13. ArrayTypes'
  BY <1>1, <1>2, <1>4, <1>7 DEF ArrayTypes
<1>14. QED
  BY <1>10, <1>11, <1>12, <1>13 DEF ArrayInv

LEMMA ArrayStep == StackInv /\ ArrayInv /\ [Next]_vars => ArrayInv'
<1> SUFFICES ASSUME StackInv, ArrayInv, [Next]_vars PROVE ArrayInv'
  OBVIOUS
<1>1. CASE UNCHANGED vars
  BY <1>1 DEF vars, merge, ArrayInv, ArrayTypes, PartsDone, LeftDone, LeftReturned, RightDone,
              AllDone, Merging, At, Top, SameItems, Items
<1>2. QED
  BY <1>1, SortNothingArray, MtSortArray, SortLeftArray, SortRightArray, JoinArray,
     MergeCopyArray, MergeBackArray DEF Next, Step

------------------------------------------------------------------------------
(* The array is sorted when sort() has returned *)

Count(a, D, v) == Cardinality({i \in D : a[i] = v})

(* Items drawn one to one from as many are the same items, as often each. *)
LEMMA SameCount ==
    ASSUME NEW n \in Nat, NEW a, NEW c, Drawn(c, a, 1 .. n, 1 .. n), NEW v
    PROVE  Count(a, 1 .. n, v) = Count(c, 1 .. n, v)
<1> DEFINE I == 1 .. n
           A == {i \in I : a[i] = v}
           C == {i \in I : c[i] = v}
<1>1. IsFiniteSet(I)
  BY FS_Interval
<1>2. Drawn(c, a, I, I)
  OBVIOUS
<1> HIDE DEF I
<1>3. PICK p \in [I -> I] : /\ \A i, j \in I : p[i] = p[j] => i = j
                            /\ \A i \in I : a[i] = c[p[i]]
  BY <1>2 DEF Drawn
<1>4. p \in Injection(I, I)
  BY <1>3 DEF Injection, IsInjective
<1>5. p \in Surjection(I, I)
  BY <1>1, <1>4, FS_Injection
<1>6. \A j \in I : \E i \in I : p[i] = j
  BY <1>5 DEF Surjection
<1> DEFINE q == [i \in A |-> p[i]]
<1>7. q \in [A -> C]
  BY <1>3
<1>8. \A i, j \in A : q[i] = q[j] => i = j
  BY <1>3
<1>9. \A j \in C : \E i \in A : q[i] = j
  BY <1>3, <1>6
<1>10. IsFiniteSet(A)
  BY <1>1, FS_Subset
<1> HIDE DEF q, A, C
<1>11. q \in Bijection(A, C)
  BY <1>7, <1>8, <1>9 DEF Bijection, Injection, Surjection, IsInjective
<1>12. ExistsBijection(A, C)
  BY <1>11 DEF ExistsBijection
<1>13. QED
  BY <1>10, <1>12, FS_Bijection DEF Count, A, C, I

LEMMA EndsSortedFollows == StackInv /\ ArrayInv => EndsSorted
<1> SUFFICES ASSUME StackInv, ArrayInv, stack[0] = << >>
             PROVE  IsSortOf(arr, input) /\ \A t \in Threads : stack[t] = << >>
  BY DEF EndsSorted
<1>1. Roots /\ ArrayTypes /\ AllDone /\ SameItems
  BY DEF StackInv, ArrayInv
<1>2. \A t \in Threads : stack[t] = << >>
  <2>1. DOMAIN stack[0] = {}
    OBVIOUS
  <2>2. QED
    BY <2>1, <1>1 DEF Roots
<1> DEFINE n == Len(input)
<1>3. input \in Seq(Int) /\ n \in Nat /\ Items = 1 .. n /\ arr \in [1 .. n -> Int]
  BY <1>1, InputsAssumption, LenProperties DEF ArrayTypes, Items
<1>4. DOMAIN input = 1 .. n /\ DOMAIN arr = 1 .. n
  BY <1>3, LenProperties
<1> HIDE DEF n
<1>5. Len(arr) = n
  BY <1>3
<1>6. \A i \in 1 .. n - 1 : arr[i] <= arr[i + 1]
  <2>1. Sorted(arr, 1 .. n)
    BY <1>1, <1>3 DEF AllDone
  <2>2. ASSUME NEW i \in 1 .. n - 1 PROVE i \in 1 .. n /\ i + 1 \in 1 .. n /\ i <= i + 1
    BY <1>3
  <2>3. QED
    BY <2>1, <2>2 DEF Sorted
<1>7. \A v : Cardinality({i \in DOMAIN arr : arr[i] = v})
             = Cardinality({i \in DOMAIN input : input[i] = v})
  <2>1. Drawn(input, arr, 1 .. n, 1 .. n)
    BY <1>1, <1>3 DEF SameItems
  <2>2. \A v : Count(arr, 1 .. n, v) = Count(input, 1 .. n, v)
    BY <2>1, <1>3, SameCount
  <2>3. QED
    BY <2>2, <1>4 DEF Count
<1>8. IsSortOf(arr, input)
  BY <1>5, <1>6, <1>7 DEF IsSortOf, n
<1>9. QED
  BY <1>2, <1>8

(***************************************************************************)
(* The parallel sort is correct, for any number of threads and any array,  *)
(* of any length: when sort() has returned, the array holds the items it   *)
(* held, as often each, in order, and every thread it created has ended.   *)
(***************************************************************************)
THEOREM SortCorrect == Spec => []EndsSorted
<1>1. Init => StackInv /\ ArrayInv
  BY InitStack, InitArray
<1>2. StackInv /\ ArrayInv /\ [Next]_vars => (StackInv /\ ArrayInv)'
  BY StackStep, ArrayStep
<1>3. QED
  BY <1>1, <1>2, EndsSortedFollows, PTL DEF Spec
=============================================================================
