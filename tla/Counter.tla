------------------------------- MODULE Counter -------------------------------
(***************************************************************************)
(* counter.c: two threads increment a shared int EACH_COUNT times each     *)
(* under a mutex, and main prints it once it has joined both.  counter++   *)
(* on a volatile int is a load and a store, each a step of its own.        *)
(***************************************************************************)
EXTENDS Integers

CONSTANTS EACH_COUNT,  \* turns of each thread's loop
          IntWidth,    \* bits of an int
          NoThread     \* no thread

Routines == {1, 2}

Wrap(x) == ((x + 2 ^ (IntWidth - 1)) % 2 ^ IntWidth) - 2 ^ (IntWidth - 1)

ASSUME CountAssumption == EACH_COUNT \in Nat
ASSUME NoThreadAssumption == NoThread \notin Routines

(* What makes EACH_COUNT = 1000000000 right for an int of 32 bits. *)
ASSUME NoOverflowAssumption ==
    /\ IntWidth \in Nat \ {0}
    /\ \A x \in 0 .. 2 * EACH_COUNT : Wrap(x) = x

VARIABLES counter,  \* the shared counter
          lock,     \* owner of the mutex, or NoThread
          cpc,      \* where each thread is in routine
          i,        \* the loop variable of each thread
          reg,      \* the value each thread has loaded
          main      \* the thread main joins, or 3 when it has joined both

counterVars == <<counter, lock, cpc, i, reg, main>>

CounterInit == /\ counter = 0
               /\ lock = NoThread
               /\ cpc = [t \in Routines |-> "test"]
               /\ i = [t \in Routines |-> 0]
               /\ reg = [t \in Routines |-> 0]
               /\ main = 1

At(t, from) == cpc[t] = from
Goto(t, to) == cpc' = [cpc EXCEPT ![t] = to]

TestCount(t) == /\ At(t, "test")
                /\ Goto(t, IF i[t] < EACH_COUNT THEN "lock" ELSE "done")
                /\ UNCHANGED <<counter, lock, i, reg, main>>

(* Mutant of LockCounter: the mutex is not taken. *)
LockNothing(t) == /\ At(t, "lock")
                  /\ Goto(t, "load")
                  /\ UNCHANGED <<counter, lock, i, reg, main>>

LockCounter(t) == /\ At(t, "lock")
                  /\ lock = NoThread
                  /\ lock' = t
                  /\ Goto(t, "load")
                  /\ UNCHANGED <<counter, i, reg, main>>

Load(t) == /\ At(t, "load")
           /\ reg' = [reg EXCEPT ![t] = counter]
           /\ Goto(t, "store")
           /\ UNCHANGED <<counter, lock, i, main>>

Store(t) == /\ At(t, "store")
            /\ counter' = Wrap(reg[t] + 1)
            /\ Goto(t, "unlock")
            /\ UNCHANGED <<lock, i, reg, main>>

UnlockCounter(t) == /\ At(t, "unlock")
                    /\ lock' = NoThread
                    /\ i' = [i EXCEPT ![t] = @ + 1]
                    /\ Goto(t, "test")
                    /\ UNCHANGED <<counter, reg, main>>

(* pthread_join of p1, then of p2. *)
Join == /\ main \in Routines
        /\ At(main, "done")
        /\ main' = main + 1
        /\ UNCHANGED <<counter, lock, cpc, i, reg>>

Routine(t) == TestCount(t) \/ LockCounter(t) \/ Load(t) \/ Store(t) \/ UnlockCounter(t)

CounterNext == (\E t \in Routines : Routine(t)) \/ Join

CounterSpec == CounterInit /\ [][CounterNext]_counterVars
------------------------------------------------------------------------------
(* No thread makes more than EACH_COUNT turns; only a thread owns the mutex. *)
CounterTypeOK == /\ counter \in Int
                 /\ lock \in Routines \cup {NoThread}
                 /\ cpc \in [Routines -> {"test", "lock", "load", "store", "unlock", "done"}]
                 /\ i \in [Routines -> 0 .. EACH_COUNT]
                 /\ reg \in [Routines -> Int]
                 /\ main \in 1 .. 3

(***************************************************************************)
(* No update is lost: what main prints once both threads are joined is     *)
(* what the program says it expects, 2 * EACH_COUNT.                       *)
(***************************************************************************)
FinalCount == main = 3 => counter = 2 * EACH_COUNT
=============================================================================
