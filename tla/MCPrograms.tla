----------------------------- MODULE MCPrograms -----------------------------
(***************************************************************************)
(* The small programs over every small input: a behaviour picks a program  *)
(* and an input and runs it.  The sequential ones run in one step and are  *)
(* held against a reference; the threads of counter.c are scheduled.       *)
(***************************************************************************)
EXTENDS BottomUpSort, Dynarray, ListenFds, LowLevel, Counter

CONSTANTS MaxArray,  \* the longest array of two values; three values go half as far
          MaxOps,    \* operations on a dynamic array
          MaxAddrs   \* addresses getaddrinfo returns

VARIABLES task,  \* the program and its input
          out    \* what it has computed

Arrays == UNION {[1..m -> 1..2] : m \in 0..MaxArray}
          \cup UNION {[1..m -> 1..3] : m \in 0 .. MaxArray \div 2}

(* Pushes of two values, pops, and sets within the array and on both sides of it. *)
Ops == [op : {"push"}, x : {1, 2}] \cup [op : {"pop"}] \cup [op : {"set"}, x : {3}, i : {-1, 1, 3}]

Startups == [addrs : UNION {[1..m -> Fails] : m \in 0..MaxAddrs},
             bad : {0, 2}, call : {"fcntl", "listen"}]

Registers == 0 .. 2^Width - 1

(* The alphabet without a few letters, in one case, and one char more. *)
Letters == 1..26
Extras == {0, 64, 91, 96, 122, 127, 128 + 65}
Lines == [without : {{}, {1}, {13}, {26}, {1, 26}}, upper : BOOLEAN, extra : Extras]
Text(l) == LET letters == SelectSeq([j \in Letters |-> j], LAMBDA n : n \notin l.without)
           IN Append([j \in DOMAIN letters |-> letters[j] + (IF l.upper THEN 64 ELSE 96)], l.extra)

Tasks == [prog : {"sort"}, in : Arrays]
         \cup [prog : {"dynarray"}, in : UNION {[1..m -> Ops] : m \in 0..MaxOps}]
         \cup [prog : {"startup"}, in : Startups]
         \cup [prog : {"sum"}, in : Registers]
         \cup [prog : {"matrix"}, in : (1..4) \X (1..4) \X (0..3) \X (0..3)]
         \cup [prog : {"binary"}, in : UNION {[1..m -> {48, 49}] : m \in 0 .. Width + 1}]
         \cup [prog : {"fib"}, in : 0..16]
         \cup [prog : {"pangram"}, in : Lines]
         \cup [prog : {"counter"}]

Init == task \in Tasks /\ out = << >> /\ CounterInit

------------------------------------------------------------------------------
(* An operation on the dynamic array and, beside it, on a sequence. *)
Apply(q, o) ==
    CASE o.op = "push" -> [da |-> DA_push(q.da, o.x), seq |-> Append(q.seq, o.x), same |-> q.same]
      [] o.op = "pop"  -> LET p == DA_pop(q.da)
                          IN [da   |-> p.da,
                              seq  |-> IF q.seq = << >> THEN q.seq ELSE Front(q.seq),
                              same |-> /\ q.same
                                       /\ p.ret = IF q.seq = << >> THEN NULL ELSE Last(q.seq)]
      [] o.op = "set"  -> [da   |-> DA_set(q.da, o.x, o.i),
                           seq  |-> IF o.i + 1 \in DOMAIN q.seq
                                    THEN [q.seq EXCEPT ![o.i + 1] = o.x] ELSE q.seq,
                           same |-> q.same]

RunSort == task.prog = "sort" /\ out' = <<Sort(task.in)>>

RunDynarray ==
    /\ task.prog = "dynarray"
    /\ out' = <<FoldLeft(Apply, [da |-> DA_new, seq |-> << >>, same |-> TRUE], task.in)>>

RunStartup ==
    /\ task.prog = "startup"
    /\ out' = <<Serve(task.in.addrs, task.in.bad, task.in.call)>>

RunLowLevel ==
    \/ task.prog = "sum" /\ out' = <<sum_to_n(task.in), sum_to_n_2(task.in)>>
    \/ task.prog = "matrix" /\ out' = <<index(task.in[2], task.in[3], task.in[4])>>
    \/ task.prog = "binary" /\ out' = <<binary_convert(task.in)>>
    \/ task.prog = "fib" /\ out' = <<fib(task.in)>>
    \/ task.prog = "pangram" /\ out' = <<ispangram(Text(task.in)), pangram(Text(task.in))>>

Run == RunSort \/ RunDynarray \/ RunStartup \/ RunLowLevel

Next == \/ out = << >> /\ Run /\ UNCHANGED <<task, counterVars>>
        \/ task.prog = "counter" /\ CounterNext /\ UNCHANGED <<task, out>>

Spec == Init /\ [][Next]_<<task, out, counterVars>>

------------------------------------------------------------------------------
(* References *)

IsSortOf(s, of) ==
    /\ Len(s) = Len(of)
    /\ \A j \in 1 .. Len(s) - 1 : s[j] <= s[j + 1]
    /\ \A v \in ToSet(of) : Cardinality({j \in DOMAIN s : s[j] = v})
                            = Cardinality({j \in DOMAIN of : of[j] = v})

Bound(addrs) == {j \in DOMAIN addrs : addrs[j] = "none"}

Triangle(n) == (n * (n + 1)) \div 2

Fibonacci(n) == LET f[k \in Nat] == IF k < 2 THEN k ELSE f[k - 1] + f[k - 2] IN f[n]

Value(s) == LET v[k \in Nat] == IF k = 0 THEN 0 ELSE 2 * v[k - 1] + s[k] - 48 IN v[Len(s)]

(***************************************************************************)
(* Every program computes what it is for, at every length, capacity and    *)
(* width.  The caller's array is sorted whichever buffer the last pass     *)
(* wrote; the dynamic array is a sequence; the server listens on the first *)
(* addresses that work.  The loop of sum_to_n is right modulo the width,   *)
(* the formula of sum_to_n_2 as long as n (n + 1) fits.  The assembly      *)
(* filter finds the lines that find_pangrams.py finds, the C filter all of *)
(* these (that it finds no others is FindsPangrams, below).                *)
(***************************************************************************)
ResultsRight == out # << >> =>
    LET r == out[1]  in == task.in
    IN CASE task.prog = "sort" -> IsSortOf(r.arr, in)
         [] task.prog = "dynarray" ->
                /\ r.same
                /\ r.da.size = Len(r.seq)
                /\ \A j \in -1 .. r.da.cap :
                      DA_get(r.da, j) = IF j + 1 \in DOMAIN r.seq THEN r.seq[j + 1] ELSE NULL
         [] task.prog = "startup" ->
                /\ \A j \in Bound(in.addrs) :
                      j \in ToSet(r.lfds) <=> Cardinality(Bound(in.addrs) \cap 1..j)
                                              <= MAX_LISTEN_SOCK_FDS
                /\ r.ret = 0 => r.lfds # << >> /\ in.bad \notin ToSet(r.lfds)
         [] task.prog = "sum" ->
                /\ Signed(in) >= 0 => r = Reg(Triangle(in))
                /\ in * (in + 1) < 2^Width => out[2] = r
         [] task.prog = "matrix" ->
                in[3] < in[1] /\ in[4] < in[2] => r = 4 * (in[3] * in[2] + in[4])
         [] task.prog = "binary" -> r = Reg(Value(in))
         [] task.prog = "fib" -> r = Reg(Fibonacci(in))
         [] task.prog = "pangram" ->
                /\ out[2] = is_pangram(Text(in))
                /\ is_pangram(Text(in)) => r

(***************************************************************************)
(* No program goes astray: the dynamic array touches no cell outside what  *)
(* it has allocated, however often it has grown; the sort frees its own    *)
(* buffer and never the caller's; the server keeps no socket it does not   *)
(* listen on, and no more than its array of descriptors has room for.      *)
(***************************************************************************)
NothingAstray == out # << >> =>
    LET r == out[1]
    IN CASE task.prog = "dynarray" -> r.da.ok
         [] task.prog = "sort" -> r.freed = "work"
         [] task.prog = "startup" -> /\ r.open = ToSet(r.lfds)
                                     /\ Len(r.lfds) <= MAX_LISTEN_SOCK_FDS
         [] OTHER -> TRUE

(***************************************************************************)
(* The C filter finds the lines that find_pangrams.py finds, the script it *)
(* is a faster version of: those with all 26 letters (find_pangrams.py:5,  *)
(* "== 26").                                                               *)
(***************************************************************************)
FindsPangrams == task.prog = "pangram" /\ out # << >> => out[1] = is_pangram(Text(task.in))
=============================================================================
