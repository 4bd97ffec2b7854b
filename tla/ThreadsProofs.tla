--------------------------- MODULE ThreadsProofs ----------------------------
(***************************************************************************)
(* Proofs about the two programs whose threads meet at one mutex.          *)
(* FizzBuzz: for any set of numbers and with spurious wake-ups of any of   *)
(* the threads.  Counter, in the second half: for any number of turns that *)
(* the int can hold.                                                       *)
(***************************************************************************)
EXTENDS FizzBuzz, Counter, SequenceTheorems, TLAPS

USE NumbersAssumption, SpuriousAssumption, NoneAssumption

LEMMA TypeInductive == TypeOK /\ [Next]_vars => TypeOK'
<1> SUFFICES ASSUME TypeOK, [Next]_vars PROVE TypeOK'
  OBVIOUS
<1> USE DEF TypeOK, Threads, Positions
<1>1. ASSUME NEW t \in Threads, Lock(t) PROVE TypeOK'
  BY <1>1 DEF Lock
<1>2. ASSUME NEW t \in Threads, Test(t) PROVE TypeOK'
  BY <1>2 DEF Test
<1>3. CASE MainWork
  BY <1>3, EmptySeq DEF MainWork
<1>4. CASE FizzWork
  <2>1. Remark("fizz", n % 3 = 0) \in [by : Threads, shouts : BOOLEAN]
    BY DEF Remark
  <2>2. line' \in Seq([by : Threads, shouts : BOOLEAN])
    BY <1>4, <2>1, AppendProperties DEF FizzWork
  <2>3. QED
    BY <1>4, <2>2 DEF FizzWork
<1>5. CASE BuzzWork
  <2>1. Remark("buzz", n % 5 = 0) \in [by : Threads, shouts : BOOLEAN]
    BY DEF Remark
  <2>2. line' \in Seq([by : Threads, shouts : BOOLEAN])
    BY <1>5, <2>1, AppendProperties DEF BuzzWork
  <2>3. QED
    BY <1>5, <2>2 DEF BuzzWork
<1>6. ASSUME NEW t \in Threads, Signal(t) PROVE TypeOK'
  BY <1>6 DEF Signal, Successor
<1>7. ASSUME NEW t \in Threads, Unlock(t) PROVE TypeOK'
  BY <1>7 DEF Unlock
<1>8. ASSUME NEW t \in Threads, WakeSpuriously(t) PROVE TypeOK'
  BY <1>8 DEF WakeSpuriously
<1>9. CASE UNCHANGED vars
  BY <1>9 DEF vars
<1>10. QED
  BY <1>1, <1>2, <1>3, <1>4, <1>5, <1>6, <1>7, <1>8, <1>9 DEF Next, Thread, Work

(* The shared variables keep their types, whoever wakes up when. *)
THEOREM TypeCorrect == Spec => []TypeOK
<1>1. Init => TypeOK
  BY EmptySeq DEF Init, TypeOK, Threads, Positions
<1>2. QED
  BY <1>1, TypeInductive, PTL DEF Spec

------------------------------------------------------------------------------
(* The mutex is owned by the thread that is between lock and unlock. *)
MutexInv == \A t \in Threads : pc[t] \in Held <=> mutex = t

LEMMA MutexInductive == TypeOK /\ MutexInv /\ [Next]_vars => MutexInv'
<1> SUFFICES ASSUME TypeOK, MutexInv, [Next]_vars PROVE MutexInv'
  OBVIOUS
<1> USE DEF TypeOK, Threads, Positions, MutexInv, Held
<1>1. ASSUME NEW t \in Threads, Lock(t) PROVE MutexInv'
  BY <1>1 DEF Lock
<1>2. ASSUME NEW t \in Threads, Test(t) PROVE MutexInv'
  BY <1>2 DEF Test
<1>3. CASE MainWork \/ FizzWork \/ BuzzWork
  BY <1>3 DEF MainWork, FizzWork, BuzzWork
<1>4. ASSUME NEW t \in Threads, Signal(t) PROVE MutexInv'
  BY <1>4 DEF Signal, Successor
<1>5. ASSUME NEW t \in Threads, Unlock(t) PROVE MutexInv'
  BY <1>5 DEF Unlock
<1>6. ASSUME NEW t \in Threads, WakeSpuriously(t) PROVE MutexInv'
  BY <1>6 DEF WakeSpuriously
<1>7. CASE UNCHANGED vars
  BY <1>7 DEF vars
<1>8. QED
  BY <1>1, <1>2, <1>3, <1>4, <1>5, <1>6, <1>7 DEF Next, Thread, Work

(***************************************************************************)
(* No wake-up is lost, for any set of threads that wake up spuriously.     *)
(* NoLostWakeup is inductive: a flag is raised by the thread that is then  *)
(* about to signal, and a thread goes to sleep only when its flag is down. *)
(***************************************************************************)
THEOREM WakeupCorrect == Spec => []NoLostWakeup
<1>1. Init => NoLostWakeup
  BY DEF Init, NoLostWakeup
<1>2. TypeOK /\ NoLostWakeup /\ [Next]_vars => NoLostWakeup'
  <2> SUFFICES ASSUME TypeOK, NoLostWakeup, [Next]_vars PROVE NoLostWakeup'
    OBVIOUS
  <2> USE DEF TypeOK, Threads, Positions, NoLostWakeup, Ready, Successor
  <2>1. ASSUME NEW t \in Threads, Lock(t) PROVE NoLostWakeup'
    BY <2>1, ZenonT(30) DEF Lock
  <2>2. ASSUME NEW t \in Threads, Test(t) PROVE NoLostWakeup'
    <3>1. CASE Ready(t) /\ pc' = [pc EXCEPT ![t] = "work"]
      BY <2>2, <3>1, ZenonT(30) DEF Test
    <3>2. CASE ~Ready(t) /\ pc' = [pc EXCEPT ![t] = "waiting"]
      BY <2>2, <3>2 DEF Test
    <3>3. QED
      BY <2>2, <3>1, <3>2 DEF Test
  <2>3. CASE MainWork
    BY <2>3 DEF MainWork
  <2>4. CASE FizzWork
    BY <2>4 DEF FizzWork
  <2>5. CASE BuzzWork
    BY <2>5 DEF BuzzWork
  <2>6. ASSUME NEW t \in Threads, Signal(t) PROVE NoLostWakeup'
    BY <2>6, ZenonT(30) DEF Signal
  <2>7. ASSUME NEW t \in Threads, Unlock(t) PROVE NoLostWakeup'
    BY <2>7 DEF Unlock
  <2>8. ASSUME NEW t \in Threads, WakeSpuriously(t) PROVE NoLostWakeup'
    BY <2>8 DEF WakeSpuriously
  <2>9. CASE UNCHANGED vars
    BY <2>9 DEF vars
  <2>10. QED
    BY <2>1, <2>2, <2>3, <2>4, <2>5, <2>6, <2>7, <2>8, <2>9 DEF Next, Thread, Work
<1>3. QED
  BY <1>1, <1>2, TypeCorrect, PTL DEF Spec

------------------------------------------------------------------------------
(***************************************************************************)
(* Whose turn it is: at most one flag is up, and how far the line has got  *)
(* says which.  A thread past its while loop still has its condition.      *)
(***************************************************************************)
TurnInv ==
    /\ n = -1 => ~new_numb /\ ~fizz_done /\ ~buzz_done /\ line = << >>
    /\ n # -1 => \/ new_numb /\ ~fizz_done /\ ~buzz_done /\ line = << >>
                 \/ ~new_numb /\ fizz_done /\ ~buzz_done
                    /\ line = << Remark("fizz", n % 3 = 0) >>
                 \/ ~new_numb /\ ~fizz_done /\ buzz_done /\ line = Remarks(n)

WorkInv == \A t \in Threads : pc[t] = "work" => Ready(t)

LEMMA AppendFirst == ASSUME NEW a PROVE Append(<< >>, a) = << a >>
  OBVIOUS

LEMMA AppendSecond == ASSUME NEW a, NEW b PROVE Append(<< a >>, b) = << a, b >>
<1>1. << a >> \in Seq({a, b}) /\ Len(<< a >>) = 1 /\ << a >>[1] = a
  OBVIOUS
<1>2. << a, b >> \in Seq({a, b}) /\ Len(<< a, b >>) = 2 /\ << a, b >>[1] = a /\ << a, b >>[2] = b
  OBVIOUS
<1>3. /\ Append(<< a >>, b) \in Seq({a, b})
      /\ Len(Append(<< a >>, b)) = 2
      /\ Append(<< a >>, b)[1] = a
      /\ Append(<< a >>, b)[2] = b
  BY <1>1, AppendProperties
<1>4. \A j \in 1 .. 2 : Append(<< a >>, b)[j] = << a, b >>[j]
  <2> SUFFICES ASSUME NEW j \in 1 .. 2 PROVE Append(<< a >>, b)[j] = << a, b >>[j]
    OBVIOUS
  <2>1. j = 1 \/ j = 2
    OBVIOUS
  <2>2. QED
    BY <1>2, <1>3, <2>1, Zenon
<1>5. QED
  <2> DEFINE s == Append(<< a >>, b)
             t == << a, b >>
  <2>1. s \in Seq({a, b}) /\ t \in Seq({a, b}) /\ Len(s) = 2 /\ Len(t) = 2
    BY <1>2, <1>3
  <2>2. \A j \in 1 .. 2 : s[j] = t[j]
    BY <1>4
  <2> HIDE DEF s, t
  <2>3. s = t
    BY <2>1, <2>2, SeqEqual
  <2>4. QED
    BY <2>3 DEF s, t

LEMMA TurnInductive == TypeOK /\ WorkInv /\ TurnInv /\ [Next]_vars => TurnInv'
<1> SUFFICES ASSUME TypeOK, WorkInv, TurnInv, [Next]_vars PROVE TurnInv'
  OBVIOUS
<1> USE DEF TypeOK, Threads
<1>1. CASE UNCHANGED <<new_numb, fizz_done, buzz_done, n, line>>
  BY <1>1 DEF TurnInv, Remarks
<1>2. CASE MainWork
  BY <1>2 DEF MainWork, TurnInv, WorkInv, Ready
<1>3. CASE FizzWork
  <2>1. new_numb /\ n # -1
    BY <1>3 DEF FizzWork, TurnInv, WorkInv, Ready
  <2>2. line = << >> /\ ~fizz_done /\ ~buzz_done
    BY <2>1 DEF TurnInv
  <2>3. line' = << Remark("fizz", n % 3 = 0) >>
    BY <1>3, <2>2, AppendFirst DEF FizzWork
  <2>4. QED
    BY <1>3, <2>1, <2>2, <2>3 DEF FizzWork, TurnInv
<1>4. CASE BuzzWork
  <2>1. fizz_done /\ n # -1
    BY <1>4 DEF BuzzWork, TurnInv, WorkInv, Ready
  <2>2. line = << Remark("fizz", n % 3 = 0) >> /\ ~new_numb /\ ~buzz_done
    BY <2>1 DEF TurnInv
  <2>3. line' = Remarks(n)
    BY <1>4, <2>2, AppendSecond DEF BuzzWork, Remarks
  <2>4. n' = n /\ Remarks(n)' = Remarks(n)
    BY <1>4 DEF BuzzWork, Remarks, Remark
  <2>5. QED
    BY <1>4, <2>1, <2>2, <2>3, <2>4 DEF BuzzWork, TurnInv
<1>5. QED
  BY <1>1, <1>2, <1>3, <1>4
  DEF Next, Thread, Work, vars, Lock, Test, Signal, Unlock, WakeSpuriously

LEMMA WorkInductive ==
    TypeOK /\ MutexInv /\ WorkInv /\ TurnInv /\ [Next]_vars => WorkInv'
<1> SUFFICES ASSUME TypeOK, MutexInv, WorkInv, TurnInv, [Next]_vars PROVE WorkInv'
  OBVIOUS
<1> USE DEF TypeOK, Threads, Positions, MutexInv, Held, WorkInv, Ready
<1>1. ASSUME NEW t \in Threads, Lock(t) PROVE WorkInv'
  BY <1>1 DEF Lock
<1>2. ASSUME NEW t \in Threads, Test(t) PROVE WorkInv'
  BY <1>2 DEF Test
<1>3. CASE MainWork
  BY <1>3 DEF MainWork
<1>4. CASE FizzWork
  BY <1>4 DEF FizzWork
<1>5. CASE BuzzWork
  BY <1>5 DEF BuzzWork
<1>6. ASSUME NEW t \in Threads, Signal(t) PROVE WorkInv'
  BY <1>6 DEF Signal, Successor
<1>7. ASSUME NEW t \in Threads, Unlock(t) PROVE WorkInv'
  BY <1>7 DEF Unlock
<1>8. ASSUME NEW t \in Threads, WakeSpuriously(t) PROVE WorkInv'
  BY <1>8 DEF WakeSpuriously
<1>9. CASE UNCHANGED vars
  BY <1>9 DEF vars
<1>10. QED
  BY <1>1, <1>2, <1>3, <1>4, <1>5, <1>6, <1>7, <1>8, <1>9 DEF Next, Thread, Work

(***************************************************************************)
(* Every number gets its two remarks, once each and in order, before main  *)
(* replaces it.                                                            *)
(***************************************************************************)
THEOREM LineCorrect == Spec => []LineInOrder
<1>1. Init => MutexInv /\ WorkInv /\ TurnInv
  BY NoneAssumption DEF Init, MutexInv, WorkInv, TurnInv, Threads, Held
<1>2. TypeOK /\ WorkInv /\ TurnInv => LineInOrder
  <2> SUFFICES ASSUME TypeOK, WorkInv, TurnInv PROVE LineInOrder
    OBVIOUS
  <2>1. CASE n = -1
    BY <2>1 DEF TurnInv, LineInOrder
  <2>2. CASE n # -1
    <3>1. Head(Remarks(n)) = Remark("fizz", n % 3 = 0)
      BY DEF Remarks
    <3>2. line \in {<< >>, << Head(Remarks(n)) >>, Remarks(n)}
      BY <2>2, <3>1 DEF TurnInv
    <3>3. pc["main"] = "work" => line = Remarks(n)
      BY <2>2 DEF TurnInv, WorkInv, Ready, Threads
    <3>4. QED
      BY <2>2, <3>2, <3>3 DEF LineInOrder
  <2>3. QED
    BY <2>1, <2>2
<1>3. QED
  BY <1>1, <1>2, TypeCorrect, MutexInductive, TurnInductive, WorkInductive, PTL DEF Spec

------------------------------------------------------------------------------
(***************************************************************************)
(* The threads of counter.c, which share nothing with those of fizzbuzz.c. *)
(***************************************************************************)
USE CountAssumption, NoThreadAssumption

Holding == {"load", "store", "unlock"}

(* A thread that has stored has done its turn, though i does not count it yet. *)
Turns(t) == IF cpc[t] = "unlock" THEN i[t] + 1 ELSE i[t]

(* The mutex is owned by the thread that is between lock and unlock. *)
OwnerInv == \A t \in Routines : cpc[t] \in Holding <=> lock = t

(* What a thread holds in its register is still the counter when it stores. *)
FreshInv == \A t \in Routines : cpc[t] = "store" => reg[t] = counter

LoopInv == \A t \in Routines : /\ cpc[t] \in Holding \cup {"lock"} => i[t] < EACH_COUNT
                               /\ cpc[t] = "done" => i[t] = EACH_COUNT
                               /\ t < main => cpc[t] = "done"

CountInv == counter = Turns(1) + Turns(2)

CountingInv == CounterTypeOK /\ OwnerInv /\ FreshInv /\ LoopInv /\ CountInv

LEMMA CountingInit == CounterInit => CountingInv
  BY DEF CounterInit,
         CountingInv, CounterTypeOK, OwnerInv, FreshInv, LoopInv, CountInv, Turns,
         Routines, Holding

(* counter++ does not overflow, and adds to what the other thread has counted. *)
LEMMA StoreCounts ==
    ASSUME CountingInv, NEW t \in Routines, Store(t)
    PROVE  counter' = counter + 1
<1> USE DEF CountingInv, CounterTypeOK, Routines
<1>1. reg[t] = counter /\ i[t] < EACH_COUNT /\ cpc[t] = "store"
  BY DEF Store, At, FreshInv, LoopInv, Holding
<1>2. \A u \in Routines : Turns(u) \in 0 .. EACH_COUNT
  BY DEF Turns, LoopInv, Holding
<1>3. Turns(t) = i[t]
  BY <1>1 DEF Turns
<1>4. counter + 1 \in 0 .. 2 * EACH_COUNT
  <2>1. CASE t = 1
    <3>1. Turns(1) < EACH_COUNT /\ Turns(1) \in 0 .. EACH_COUNT /\ Turns(2) \in 0 .. EACH_COUNT
      BY <2>1, <1>1, <1>2, <1>3
    <3>2. QED
      BY <3>1 DEF CountInv
  <2>2. CASE t = 2
    <3>1. Turns(2) < EACH_COUNT /\ Turns(1) \in 0 .. EACH_COUNT /\ Turns(2) \in 0 .. EACH_COUNT
      BY <2>2, <1>1, <1>2, <1>3
    <3>2. QED
      BY <3>1 DEF CountInv
  <2>3. QED
    BY <2>1, <2>2
<1>5. Wrap(counter + 1) = counter + 1
  BY <1>4, NoOverflowAssumption
<1>6. QED
  BY <1>1, <1>5 DEF Store

LEMMA CountingStep == CountingInv /\ [CounterNext]_counterVars => CountingInv'
<1> SUFFICES ASSUME CountingInv, [CounterNext]_counterVars PROVE CountingInv'
  OBVIOUS
<1> USE DEF CounterTypeOK, OwnerInv, FreshInv, LoopInv,
            CountInv, Turns, Routines, Holding, At, Goto
<1>1. ASSUME NEW t \in Routines, TestCount(t) PROVE CountingInv'
  BY <1>1 DEF CountingInv, TestCount
<1>2. ASSUME NEW t \in Routines, LockCounter(t) PROVE CountingInv'
  BY <1>2 DEF CountingInv, LockCounter
<1>3. ASSUME NEW t \in Routines, Load(t) PROVE CountingInv'
  BY <1>3 DEF CountingInv, Load
<1>4. ASSUME NEW t \in Routines, Store(t) PROVE CountingInv'
  <2>1. counter' = counter + 1
    BY <1>4, StoreCounts
  <2>2. cpc[t] = "store" /\ cpc' = [cpc EXCEPT ![t] = "unlock"]
        /\ UNCHANGED <<lock, i, reg, main>>
    BY <1>4 DEF Store
  <2>3. \A u \in Routines : u # t => cpc[u] \notin Holding
    BY <2>2 DEF CountingInv
  <2>4. QED
    BY <2>1, <2>2, <2>3 DEF CountingInv
<1>5. ASSUME NEW t \in Routines, UnlockCounter(t) PROVE CountingInv'
  BY <1>5 DEF CountingInv, UnlockCounter
<1>6. CASE Join
  BY <1>6 DEF CountingInv, Join
<1>7. CASE UNCHANGED counterVars
  BY <1>7 DEF CountingInv, counterVars
<1>8. QED
  BY <1>1, <1>2, <1>3, <1>4, <1>5, <1>6, <1>7 DEF CounterNext, Routine

(* No thread turns more than EACH_COUNT times, for any EACH_COUNT that fits. *)
THEOREM CounterTypeCorrect == CounterSpec => []CounterTypeOK
<1>1. CountingInv => CounterTypeOK
  BY DEF CountingInv
<1>2. QED
  BY <1>1, CountingInit, CountingStep, PTL DEF CounterSpec

(***************************************************************************)
(* main prints exactly twice EACH_COUNT: the two loads and stores of a     *)
(* counter++ cannot be interleaved, so counter is at any time the number   *)
(* of turns whose store is done (CountInv).                                *)
(***************************************************************************)
THEOREM CountCorrect == CounterSpec => []FinalCount
<1>1. CountingInv => FinalCount
  <2> SUFFICES ASSUME CountingInv, main = 3 PROVE counter = 2 * EACH_COUNT
    BY DEF FinalCount
  <2>1. \A t \in Routines : cpc[t] = "done" /\ i[t] = EACH_COUNT
    BY DEF CountingInv, LoopInv, Routines
  <2>2. QED
    BY <2>1 DEF CountingInv, CountInv, Turns, Routines
<1>2. QED
  BY <1>1, CountingInit, CountingStep, PTL DEF CounterSpec
=============================================================================
