------------------------------ MODULE FizzBuzz ------------------------------
(***************************************************************************)
(* The three threads of fizzbuzz.c: main publishes a number, fizz then     *)
(* buzz comment on it, main goes on.  One mutex, three condition variables *)
(* and three flags.  One action is one pthread call, or the accesses to    *)
(* the shared variables between two of them.                               *)
(***************************************************************************)
EXTENDS Integers, Sequences

CONSTANTS Numbers,   \* what rand() & 0xf can give
          Spurious,  \* the threads whose cond_wait may return unsignalled
          None       \* no thread

Threads == {"main", "fizz", "buzz"}

ASSUME NumbersAssumption == Numbers \subseteq Nat
ASSUME SpuriousAssumption == Spurious \subseteq Threads
ASSUME NoneAssumption == None \notin Threads

VARIABLES mutex,      \* owner of the mutex, or None
          new_numb,   \* the flags the threads wait for
          fizz_done,
          buzz_done,
          n,          \* the current number, -1 before the first
          pc,         \* where each thread is in its loop
          line        \* what has been said about n: who, and whether it printed

vars == <<mutex, new_numb, fizz_done, buzz_done, n, pc, line>>

Positions == {"lock", "test", "waiting", "woken", "work", "signal", "unlock"}

Held == {"test", "work", "signal", "unlock"}

Init == /\ mutex = None
        /\ new_numb = FALSE
        /\ fizz_done = FALSE
        /\ buzz_done = FALSE
        /\ n = -1
        /\ pc = [t \in Threads |-> "lock"]
        /\ line = << >>

(* The negations of the conditions of the three while loops. *)
Ready(t) == CASE t = "main" -> n = -1 \/ buzz_done
              [] t = "fizz" -> new_numb
              [] t = "buzz" -> fizz_done

(* The thread that waits on the condition variable t signals. *)
Successor(t) == CASE t = "main" -> "fizz"
                  [] t = "fizz" -> "buzz"
                  [] t = "buzz" -> "main"

(* Mutant of Lock: an if instead of a while around pthread_cond_wait. *)
LockNoRetest(t) ==
    /\ pc[t] \in {"lock", "woken"}
    /\ mutex = None
    /\ mutex' = t
    /\ pc' = [pc EXCEPT ![t] = IF @ = "woken" THEN "work" ELSE "test"]
    /\ UNCHANGED <<new_numb, fizz_done, buzz_done, n, line>>

(* pthread_mutex_lock, also on the way out of pthread_cond_wait. *)
Lock(t) == /\ pc[t] \in {"lock", "woken"}
           /\ mutex = None
           /\ mutex' = t
           /\ pc' = [pc EXCEPT ![t] = "test"]
           /\ UNCHANGED <<new_numb, fizz_done, buzz_done, n, line>>

(* The while loop: leave it, or release the mutex and wait. *)
Test(t) == /\ pc[t] = "test"
           /\ \/ /\ Ready(t)
                 /\ pc' = [pc EXCEPT ![t] = "work"]
                 /\ UNCHANGED mutex
              \/ /\ ~Ready(t)
                 /\ pc' = [pc EXCEPT ![t] = "waiting"]
                 /\ mutex' = None
           /\ UNCHANGED <<new_numb, fizz_done, buzz_done, n, line>>

MainWork == /\ pc["main"] = "work"
            /\ buzz_done' = FALSE
            /\ \E r \in Numbers : n' = r
            /\ line' = << >>
            /\ new_numb' = TRUE
            /\ pc' = [pc EXCEPT !["main"] = "signal"]
            /\ UNCHANGED <<mutex, fizz_done>>

Remark(t, shouts) == [by |-> t, shouts |-> shouts]

FizzWork == /\ pc["fizz"] = "work"
            /\ new_numb' = FALSE
            /\ line' = Append(line, Remark("fizz", n % 3 = 0))
            /\ fizz_done' = TRUE
            /\ pc' = [pc EXCEPT !["fizz"] = "signal"]
            /\ UNCHANGED <<mutex, buzz_done, n>>

BuzzWork == /\ pc["buzz"] = "work"
            /\ fizz_done' = FALSE
            /\ line' = Append(line, Remark("buzz", n % 5 = 0))
            /\ buzz_done' = TRUE
            /\ pc' = [pc EXCEPT !["buzz"] = "signal"]
            /\ UNCHANGED <<mutex, new_numb, n>>

(* Mutant of Signal: the wrong condition variable is signalled. *)
SignalWrong(t) ==
    /\ pc[t] = "signal"
    /\ LET u == Successor(Successor(t))
       IN  pc' = [pc EXCEPT ![t] = "unlock", ![u] = IF @ = "waiting" THEN "woken" ELSE @]
    /\ UNCHANGED <<mutex, new_numb, fizz_done, buzz_done, n, line>>

(* pthread_cond_signal: lost if nobody waits. *)
Signal(t) ==
    /\ pc[t] = "signal"
    /\ LET u == Successor(t)
       IN  pc' = [pc EXCEPT ![t] = "unlock", ![u] = IF @ = "waiting" THEN "woken" ELSE @]
    /\ UNCHANGED <<mutex, new_numb, fizz_done, buzz_done, n, line>>

(* pthread_mutex_unlock; main also sleeps for 100 ms before it locks again. *)
Unlock(t) == /\ pc[t] = "unlock"
             /\ mutex' = None
             /\ pc' = [pc EXCEPT ![t] = "lock"]
             /\ UNCHANGED <<new_numb, fizz_done, buzz_done, n, line>>

(* pthread_cond_wait returns although nobody signalled. *)
WakeSpuriously(t) == /\ pc[t] = "waiting"
                     /\ pc' = [pc EXCEPT ![t] = "woken"]
                     /\ UNCHANGED <<mutex, new_numb, fizz_done, buzz_done, n, line>>

Work(t) == \/ t = "main" /\ MainWork
           \/ t = "fizz" /\ FizzWork
           \/ t = "buzz" /\ BuzzWork

Thread(t) == Lock(t) \/ Test(t) \/ Work(t) \/ Signal(t) \/ Unlock(t)

Next == \/ \E t \in Threads : Thread(t)
        \/ \E t \in Spurious : WakeSpuriously(t)

Spec == Init /\ [][Next]_vars

(* The scheduler runs every thread that can run, and pthread_cond_wait does *)
(* not return unsignalled for ever.                                         *)
FairSpec == /\ Spec
            /\ \A t \in Threads : WF_vars(Thread(t))
            /\ <>[][\A t \in Threads : ~WakeSpuriously(t)]_vars
------------------------------------------------------------------------------
(* The number is one rand() & 0xf can give, or -1 before the first turn. *)
TypeOK == /\ mutex \in Threads \cup {None}
          /\ new_numb \in BOOLEAN
          /\ fizz_done \in BOOLEAN
          /\ buzz_done \in BOOLEAN
          /\ n \in Numbers \cup {-1}
          /\ pc \in [Threads -> Positions]
          /\ line \in Seq([by : Threads, shouts : BOOLEAN])

(* What the two threads have to say about the number k, in order. *)
Remarks(k) == << Remark("fizz", k % 3 = 0), Remark("buzz", k % 5 = 0) >>

(***************************************************************************)
(* Every number gets its remarks once each, fizz before buzz, and both     *)
(* before main replaces it, although a thread may wake up without a signal *)
(* and a signal may find nobody waiting.                                   *)
(***************************************************************************)
LineInOrder ==
    IF n = -1 THEN line = << >>
              ELSE /\ line \in {<< >>, << Head(Remarks(n)) >>, Remarks(n)}
                   /\ pc["main"] = "work" => line = Remarks(n)

(***************************************************************************)
(* No wake-up is lost: a thread does not sleep on its condition variable   *)
(* while its condition holds, unless the signal is just about to be sent.  *)
(***************************************************************************)
NoLostWakeup ==
    \A t \in Threads :
        Ready(t) /\ pc[t] = "waiting" =>
            \E u \in Threads : Successor(u) = t /\ pc[u] = "signal"

(***************************************************************************)
(* The program never stops: main publishes numbers for ever.               *)
(***************************************************************************)
NumbersForever == []<>(pc["main"] = "signal")
=============================================================================
