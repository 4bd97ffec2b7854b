------------------------ MODULE BlockingQueueProofs ------------------------
(***************************************************************************)
(* Proofs about BlockingQueue, for any finite sets of producers, consumers *)
(* and mortal threads, any set of values and any positive capacity.        *)
(***************************************************************************)
EXTENDS BlockingQueue, FiniteSetTheorems, SequenceTheorems, TLAPS

USE CapacityAssumption

(* % Capacity on the sums of an index and a count that the ring computes. *)
LEMMA ModCapacity ==
    ASSUME NEW x \in 0 .. 2 * Capacity - 1
    PROVE  x % Capacity = IF x < Capacity THEN x ELSE x - Capacity
  OBVIOUS

LEMMA RingSum ==
    ASSUME NEW h \in 0 .. Capacity - 1, NEW k \in 0 .. Capacity
    PROVE  (h + k) % Capacity = IF h + k < Capacity THEN h + k ELSE h + k - Capacity
<1>1. h + k \in 0 .. 2 * Capacity - 1
  OBVIOUS
<1>2. QED
  BY <1>1, ModCapacity

LEMMA RingNext ==
    ASSUME NEW h \in 0 .. Capacity - 1
    PROVE  (h + 1) % Capacity = IF h + 1 < Capacity THEN h + 1 ELSE 0
<1>1. 1 \in 0 .. Capacity
  OBVIOUS
<1>2. (h + 1) % Capacity = IF h + 1 < Capacity THEN h + 1 ELSE h + 1 - Capacity
  BY <1>1, RingSum
<1>3. QED
  BY <1>2

(* A subset of a finite set gains or loses the one element that moves. *)
LEMMA CountOneMore ==
    ASSUME NEW S, IsFiniteSet(S), NEW x, x \notin S
    PROVE  Cardinality(S \cup {x}) = Cardinality(S) + 1
  BY FS_AddElement

LEMMA CountOneLess ==
    ASSUME NEW S, IsFiniteSet(S), NEW x, x \in S
    PROVE  Cardinality(S \ {x}) = Cardinality(S) - 1
  BY FS_RemoveElement

(* The four sets that hold tokens are finite, so Stored and Free add up. *)
LEMMA CountsAreNaturals ==
    /\ IsFiniteSet(Filling) /\ Cardinality(Filling) \in Nat
    /\ IsFiniteSet(Filled) /\ Cardinality(Filled) \in Nat
    /\ IsFiniteSet(Emptying) /\ Cardinality(Emptying) \in Nat
    /\ IsFiniteSet(Emptied) /\ Cardinality(Emptied) \in Nat
<1>1. /\ Filling \subseteq Producers
      /\ Filled \subseteq Producers
      /\ Emptying \subseteq Consumers
      /\ Emptied \subseteq Consumers
  BY DEF Filling, Filled, Emptying, Emptied
<1>2. /\ IsFiniteSet(Filling)
      /\ IsFiniteSet(Filled)
      /\ IsFiniteSet(Emptying)
      /\ IsFiniteSet(Emptied)
  BY <1>1, ThreadsAssumption, FS_Subset
<1>3. QED
  BY <1>2, FS_CardinalityType

------------------------------------------------------------------------------
(***************************************************************************)
(* The type invariant of the queue is an invariant: in particular the      *)
(* indices stay in the ring and the semaphores never go below zero.        *)
(***************************************************************************)
LEMMA TypeInductive == TypeOK /\ [Next]_vars => TypeOK'
<1> SUFFICES ASSUME TypeOK, [Next]_vars PROVE TypeOK'
  OBVIOUS
<1> USE DEF TypeOK, At, Goto, Threads, Positions, Slots
<1>1. ASSUME NEW p \in Producers, NEW v \in Values, PutWaitSpace(p, v) PROVE TypeOK'
  BY <1>1 DEF PutWaitSpace
<1>2. ASSUME NEW p \in Producers, PutLock(p) PROVE TypeOK'
  BY <1>2 DEF PutLock
<1>3. ASSUME NEW p \in Producers, PutStore(p) PROVE TypeOK'
  BY <1>3 DEF PutStore
<1>4. ASSUME NEW p \in Producers, PutAdvance(p) PROVE TypeOK'
  <2>1. (tail + 1) % Capacity \in Slots
    BY ModCapacity
  <2>2. QED
    BY <1>4, <2>1 DEF PutAdvance
<1>5. ASSUME NEW p \in Producers, PutUnlock(p) PROVE TypeOK'
  BY <1>5 DEF PutUnlock
<1>6. ASSUME NEW p \in Producers, PutPostElement(p) PROVE TypeOK'
  BY <1>6 DEF PutPostElement
<1>7. ASSUME NEW c \in Consumers, TakeWaitElement(c) PROVE TypeOK'
  BY <1>7 DEF TakeWaitElement
<1>8. ASSUME NEW c \in Consumers, TakeLock(c) PROVE TypeOK'
  BY <1>8 DEF TakeLock
<1>9. ASSUME NEW c \in Consumers, TakeLoad(c) PROVE TypeOK'
  BY <1>9 DEF TakeLoad
<1>10. ASSUME NEW c \in Consumers, TakeAdvance(c) PROVE TypeOK'
  <2>1. (head + 1) % Capacity \in Slots
    BY ModCapacity
  <2>2. QED
    BY <1>10, <2>1 DEF TakeAdvance
<1>11. ASSUME NEW c \in Consumers, TakeUnlock(c) PROVE TypeOK'
  BY <1>11 DEF TakeUnlock
<1>12. ASSUME NEW c \in Consumers, TakePostSpace(c) PROVE TypeOK'
  BY <1>12 DEF TakePostSpace
<1>13. ASSUME NEW t \in Mortal, Die(t) PROVE TypeOK'
  BY <1>13, ThreadsAssumption DEF Die
<1>14. CASE UNCHANGED vars
  BY <1>14 DEF vars
<1>15. QED
  BY <1>1, <1>2, <1>3, <1>4, <1>5, <1>6, <1>7, <1>8, <1>9, <1>10, <1>11, <1>12,
     <1>13, <1>14 DEF Next, Producer, Consumer

THEOREM TypeCorrect == Spec => []TypeOK
<1>1. Init => TypeOK
  BY DEF Init, TypeOK, Slots, Positions
<1>2. QED
  BY <1>1, TypeInductive, PTL DEF Spec

------------------------------------------------------------------------------
(* A step of one thread moves only that thread between the token sets. *)
LEMMA ProducerMoves ==
    ASSUME TypeOK, NEW p \in Producers, NEW to \in Positions, Goto(p, to)
    PROVE  /\ Filling' = IF to \in BeforeAdvance THEN Filling \cup {p} ELSE Filling \ {p}
           /\ Filled' = IF to \in AfterAdvance THEN Filled \cup {p} ELSE Filled \ {p}
           /\ Emptying' = Emptying
           /\ Emptied' = Emptied
  BY ThreadsAssumption
  DEF TypeOK, Threads, Goto, Filling, Filled, Emptying, Emptied

LEMMA ConsumerMoves ==
    ASSUME TypeOK, NEW c \in Consumers, NEW to \in Positions, Goto(c, to)
    PROVE  /\ Emptying' = IF to \in BeforeAdvance THEN Emptying \cup {c} ELSE Emptying \ {c}
           /\ Emptied' = IF to \in AfterAdvance THEN Emptied \cup {c} ELSE Emptied \ {c}
           /\ Filling' = Filling
           /\ Filled' = Filled
  BY ThreadsAssumption
  DEF TypeOK, Threads, Goto, Filling, Filled, Emptying, Emptied

(* Only the steps that move an index turn a free slot into a stored one, or back. *)
LEMMA PutAdvanceTokens ==
    ASSUME TypeOK, NEW p \in Producers, PutAdvance(p)
    PROVE  Stored' = Stored + 1 /\ Free' = Free - 1
<1> USE DEF Positions, BeforeAdvance, AfterAdvance
<1>0. /\ sem_element \in Nat /\ sem_space \in Nat
      /\ IsFiniteSet(Filling) /\ Cardinality(Filling) \in Nat
      /\ IsFiniteSet(Filled) /\ Cardinality(Filled) \in Nat
      /\ IsFiniteSet(Emptying) /\ Cardinality(Emptying) \in Nat
      /\ IsFiniteSet(Emptied) /\ Cardinality(Emptied) \in Nat
  BY CountsAreNaturals DEF TypeOK
<1>1. /\ p \in Filling
      /\ p \notin Filled
  BY DEF PutAdvance, At, Filling, Filled
<1>2. /\ Filling' = Filling \ {p}
      /\ Filled' = Filled \cup {p}
      /\ Emptying' = Emptying
      /\ Emptied' = Emptied
  BY ProducerMoves DEF PutAdvance
<1>3. /\ Cardinality(Filling') = Cardinality(Filling) - 1
      /\ Cardinality(Filled') = Cardinality(Filled) + 1
      /\ Cardinality(Emptying') = Cardinality(Emptying)
      /\ Cardinality(Emptied') = Cardinality(Emptied)
  BY <1>1, <1>2, <1>0, CountOneMore, CountOneLess
<1>4. sem_element' = sem_element /\ sem_space' = sem_space
  BY DEF PutAdvance
<1>5. QED
  BY <1>0, <1>3, <1>4 DEF Stored, Free

LEMMA TakeAdvanceTokens ==
    ASSUME TypeOK, NEW c \in Consumers, TakeAdvance(c)
    PROVE  Stored' = Stored - 1 /\ Free' = Free + 1
<1> USE DEF Positions, BeforeAdvance, AfterAdvance
<1>0. /\ sem_element \in Nat /\ sem_space \in Nat
      /\ IsFiniteSet(Filling) /\ Cardinality(Filling) \in Nat
      /\ IsFiniteSet(Filled) /\ Cardinality(Filled) \in Nat
      /\ IsFiniteSet(Emptying) /\ Cardinality(Emptying) \in Nat
      /\ IsFiniteSet(Emptied) /\ Cardinality(Emptied) \in Nat
  BY CountsAreNaturals DEF TypeOK
<1>1. /\ c \in Emptying
      /\ c \notin Emptied
  BY DEF TakeAdvance, At, Emptying, Emptied
<1>2. /\ Emptying' = Emptying \ {c}
      /\ Emptied' = Emptied \cup {c}
      /\ Filling' = Filling
      /\ Filled' = Filled
  BY ConsumerMoves DEF TakeAdvance
<1>3. /\ Cardinality(Emptying') = Cardinality(Emptying) - 1
      /\ Cardinality(Emptied') = Cardinality(Emptied) + 1
      /\ Cardinality(Filling') = Cardinality(Filling)
      /\ Cardinality(Filled') = Cardinality(Filled)
  BY <1>1, <1>2, <1>0, CountOneMore, CountOneLess
<1>4. sem_element' = sem_element /\ sem_space' = sem_space
  BY DEF TakeAdvance
<1>5. QED
  BY <1>0, <1>3, <1>4 DEF Stored, Free

(* A put that waits, locks, stores, unlocks or posts only moves its token. *)
PutOther(p) == \/ \E v \in Values : PutWaitSpace(p, v)
               \/ PutLock(p)
               \/ PutStore(p)
               \/ PutUnlock(p)
               \/ PutPostElement(p)

TakeOther(c) == \/ TakeWaitElement(c)
                \/ TakeLock(c)
                \/ TakeLoad(c)
                \/ TakeUnlock(c)
                \/ TakePostSpace(c)

LEMMA PutOtherTokens ==
    ASSUME TypeOK, NEW p \in Producers, PutOther(p)
    PROVE  Stored' = Stored /\ Free' = Free
<1> USE DEF Positions, BeforeAdvance, AfterAdvance
<1>0. /\ sem_element \in Nat /\ sem_space \in Nat
      /\ IsFiniteSet(Filling) /\ Cardinality(Filling) \in Nat
      /\ IsFiniteSet(Filled) /\ Cardinality(Filled) \in Nat
      /\ IsFiniteSet(Emptying) /\ Cardinality(Emptying) \in Nat
      /\ IsFiniteSet(Emptied) /\ Cardinality(Emptied) \in Nat
  BY CountsAreNaturals DEF TypeOK
<1>1. ASSUME NEW v \in Values, PutWaitSpace(p, v) PROVE Stored' = Stored /\ Free' = Free
  <2>1. p \notin Filling /\ p \notin Filled
    BY <1>1 DEF PutWaitSpace, At, Filling, Filled
  <2>2. /\ Filling' = Filling \cup {p}
        /\ Filled' = Filled \ {p}
        /\ Emptying' = Emptying
        /\ Emptied' = Emptied
    BY <1>1, ProducerMoves DEF PutWaitSpace
  <2>3. Filled' = Filled
    BY <2>1, <2>2
  <2>4. /\ Cardinality(Filling') = Cardinality(Filling) + 1
        /\ Cardinality(Filled') = Cardinality(Filled)
        /\ Cardinality(Emptying') = Cardinality(Emptying)
        /\ Cardinality(Emptied') = Cardinality(Emptied)
    BY <2>1, <2>2, <2>3, <1>0, CountOneMore
  <2>5. /\ sem_element' = sem_element
        /\ sem_space' = sem_space - 1
    BY <1>1 DEF PutWaitSpace
  <2>6. QED
    BY <1>0, <2>4, <2>5 DEF Stored, Free
<1>2. CASE PutLock(p) \/ PutStore(p) \/ PutUnlock(p)
  <2>1. /\ Filling' = Filling
        /\ Filled' = Filled
        /\ Emptying' = Emptying
        /\ Emptied' = Emptied
    <3>1. CASE PutLock(p) \/ PutStore(p)
      <4>1. p \in Filling /\ p \notin Filled
        BY <3>1 DEF PutLock, PutStore, At, Filling, Filled
      <4>2. /\ Filling' = Filling \cup {p}
            /\ Filled' = Filled \ {p}
            /\ Emptying' = Emptying
            /\ Emptied' = Emptied
        BY <3>1, ProducerMoves DEF PutLock, PutStore
      <4>3. QED
        BY <4>1, <4>2
    <3>2. CASE PutUnlock(p)
      <4>1. p \notin Filling /\ p \in Filled
        BY <3>2 DEF PutUnlock, At, Filling, Filled
      <4>2. /\ Filling' = Filling \ {p}
            /\ Filled' = Filled \cup {p}
            /\ Emptying' = Emptying
            /\ Emptied' = Emptied
        BY <3>2, ProducerMoves DEF PutUnlock
      <4>3. QED
        BY <4>1, <4>2
    <3>3. QED
      BY <1>2, <3>1, <3>2
  <2>2. sem_element' = sem_element /\ sem_space' = sem_space
    BY <1>2 DEF PutLock, PutStore, PutUnlock
  <2>3. QED
    BY <2>1, <2>2 DEF Stored, Free
<1>3. CASE PutPostElement(p)
  <2>1. p \notin Filling /\ p \in Filled
    BY <1>3 DEF PutPostElement, At, Filling, Filled
  <2>2. /\ Filling' = Filling \ {p}
        /\ Filled' = Filled \ {p}
        /\ Emptying' = Emptying
        /\ Emptied' = Emptied
    BY <1>3, ProducerMoves DEF PutPostElement
  <2>3. Filling' = Filling
    BY <2>1, <2>2
  <2>4. /\ Cardinality(Filled') = Cardinality(Filled) - 1
        /\ Cardinality(Filling') = Cardinality(Filling)
        /\ Cardinality(Emptying') = Cardinality(Emptying)
        /\ Cardinality(Emptied') = Cardinality(Emptied)
    BY <2>1, <2>2, <2>3, <1>0, CountOneLess
  <2>5. /\ sem_element' = sem_element + 1
        /\ sem_space' = sem_space
    BY <1>3 DEF PutPostElement
  <2>6. QED
    BY <1>0, <2>4, <2>5 DEF Stored, Free
<1>4. QED
  BY <1>1, <1>2, <1>3 DEF PutOther

LEMMA TakeOtherTokens ==
    ASSUME TypeOK, NEW c \in Consumers, TakeOther(c)
    PROVE  Stored' = Stored /\ Free' = Free
<1> USE DEF Positions, BeforeAdvance, AfterAdvance
<1>0. /\ sem_element \in Nat /\ sem_space \in Nat
      /\ IsFiniteSet(Filling) /\ Cardinality(Filling) \in Nat
      /\ IsFiniteSet(Filled) /\ Cardinality(Filled) \in Nat
      /\ IsFiniteSet(Emptying) /\ Cardinality(Emptying) \in Nat
      /\ IsFiniteSet(Emptied) /\ Cardinality(Emptied) \in Nat
  BY CountsAreNaturals DEF TypeOK
<1>1. CASE TakeWaitElement(c)
  <2>1. c \notin Emptying /\ c \notin Emptied
    BY <1>1 DEF TakeWaitElement, At, Emptying, Emptied
  <2>2. /\ Emptying' = Emptying \cup {c}
        /\ Emptied' = Emptied \ {c}
        /\ Filling' = Filling
        /\ Filled' = Filled
    BY <1>1, ConsumerMoves DEF TakeWaitElement
  <2>3. Emptied' = Emptied
    BY <2>1, <2>2
  <2>4. /\ Cardinality(Emptying') = Cardinality(Emptying) + 1
        /\ Cardinality(Filling') = Cardinality(Filling)
        /\ Cardinality(Filled') = Cardinality(Filled)
        /\ Cardinality(Emptied') = Cardinality(Emptied)
    BY <2>1, <2>2, <2>3, <1>0, CountOneMore
  <2>5. /\ sem_element' = sem_element - 1
        /\ sem_space' = sem_space
    BY <1>1 DEF TakeWaitElement
  <2>6. QED
    BY <1>0, <2>4, <2>5 DEF Stored, Free
<1>2. CASE TakeLock(c) \/ TakeLoad(c) \/ TakeUnlock(c)
  <2>1. /\ Emptying' = Emptying
        /\ Emptied' = Emptied
        /\ Filling' = Filling
        /\ Filled' = Filled
    <3>1. CASE TakeLock(c) \/ TakeLoad(c)
      <4>1. c \in Emptying /\ c \notin Emptied
        BY <3>1 DEF TakeLock, TakeLoad, At, Emptying, Emptied
      <4>2. /\ Emptying' = Emptying \cup {c}
            /\ Emptied' = Emptied \ {c}
            /\ Filling' = Filling
            /\ Filled' = Filled
        BY <3>1, ConsumerMoves DEF TakeLock, TakeLoad
      <4>3. QED
        BY <4>1, <4>2
    <3>2. CASE TakeUnlock(c)
      <4>1. c \notin Emptying /\ c \in Emptied
        BY <3>2 DEF TakeUnlock, At, Emptying, Emptied
      <4>2. /\ Emptying' = Emptying \ {c}
            /\ Emptied' = Emptied \cup {c}
            /\ Filling' = Filling
            /\ Filled' = Filled
        BY <3>2, ConsumerMoves DEF TakeUnlock
      <4>3. QED
        BY <4>1, <4>2
    <3>3. QED
      BY <1>2, <3>1, <3>2
  <2>2. sem_element' = sem_element /\ sem_space' = sem_space
    BY <1>2 DEF TakeLock, TakeLoad, TakeUnlock
  <2>3. QED
    BY <2>1, <2>2 DEF Stored, Free
<1>3. CASE TakePostSpace(c)
  <2>1. c \notin Emptying /\ c \in Emptied
    BY <1>3 DEF TakePostSpace, At, Emptying, Emptied
  <2>2. /\ Emptying' = Emptying \ {c}
        /\ Emptied' = Emptied \ {c}
        /\ Filling' = Filling
        /\ Filled' = Filled
    BY <1>3, ConsumerMoves DEF TakePostSpace
  <2>3. Emptying' = Emptying
    BY <2>1, <2>2
  <2>4. /\ Cardinality(Emptied') = Cardinality(Emptied) - 1
        /\ Cardinality(Filling') = Cardinality(Filling)
        /\ Cardinality(Filled') = Cardinality(Filled)
        /\ Cardinality(Emptying') = Cardinality(Emptying)
    BY <2>1, <2>2, <2>3, <1>0, CountOneLess
  <2>5. /\ sem_element' = sem_element
        /\ sem_space' = sem_space + 1
    BY <1>3 DEF TakePostSpace
  <2>6. QED
    BY <1>0, <2>4, <2>5 DEF Stored, Free
<1>4. QED
  BY <1>1, <1>2, <1>3 DEF TakeOther

(* The counts are naturals; a put before its index update owns a free slot, *)
(* a take before its own a stored one.                                      *)
LEMMA TokenBounds ==
    ASSUME TypeOK
    PROVE  /\ Stored \in Nat
           /\ Free \in Nat
           /\ \A p \in Producers : pc[p] \in BeforeAdvance => Free >= 1
           /\ \A c \in Consumers : pc[c] \in BeforeAdvance => Stored >= 1
<1>1. /\ sem_element \in Nat /\ sem_space \in Nat
      /\ Cardinality(Filling) \in Nat /\ Cardinality(Filled) \in Nat
      /\ Cardinality(Emptying) \in Nat /\ Cardinality(Emptied) \in Nat
  BY CountsAreNaturals DEF TypeOK
<1>2. Stored \in Nat /\ Free \in Nat
  BY <1>1 DEF Stored, Free
<1>3. ASSUME NEW p \in Producers, pc[p] \in BeforeAdvance PROVE Free >= 1
  <2>1. Cardinality(Filling) # 0
    BY <1>3, CountsAreNaturals, FS_EmptySet DEF Filling
  <2>2. Cardinality(Filling) >= 1
    BY <1>1, <2>1
  <2>3. QED
    BY <1>1, <2>2 DEF Free
<1>4. ASSUME NEW c \in Consumers, pc[c] \in BeforeAdvance PROVE Stored >= 1
  <2>1. Cardinality(Emptying) # 0
    BY <1>4, CountsAreNaturals, FS_EmptySet DEF Emptying
  <2>2. QED
    BY <1>1, <2>1 DEF Stored
<1>5. QED
  BY <1>2, <1>3, <1>4

(***************************************************************************)
(* The semaphores and the indices agree.                                   *)
(***************************************************************************)
LEMMA AccountingInductive ==
    TypeOK /\ SlotAccounting /\ [Next]_vars => SlotAccounting'
<1> SUFFICES ASSUME TypeOK, SlotAccounting, [Next]_vars PROVE SlotAccounting'
  OBVIOUS
<1>0. /\ Stored \in 0 .. Capacity /\ Free \in 0 .. Capacity
      /\ Stored + Free = Capacity
      /\ head \in 0 .. Capacity - 1 /\ tail \in 0 .. Capacity - 1
      /\ tail = (head + Stored) % Capacity
  BY TokenBounds DEF TypeOK, SlotAccounting, Slots
<1>1. ASSUME NEW p \in Producers, PutAdvance(p) PROVE SlotAccounting'
  <2>1. Stored' = Stored + 1 /\ Free' = Free - 1
    BY <1>1, PutAdvanceTokens
  <2>2. Free >= 1
    BY <1>1, TokenBounds DEF PutAdvance, At, BeforeAdvance
  <2>3. head' = head /\ tail' = (tail + 1) % Capacity
    BY <1>1 DEF PutAdvance
  <2>4. (tail + 1) % Capacity = (head + (Stored + 1)) % Capacity
    BY <1>0, <2>2, ModCapacity
  <2>5. QED
    BY <1>0, <2>1, <2>2, <2>3, <2>4 DEF SlotAccounting
<1>2. ASSUME NEW c \in Consumers, TakeAdvance(c) PROVE SlotAccounting'
  <2>1. Stored' = Stored - 1 /\ Free' = Free + 1
    BY <1>2, TakeAdvanceTokens
  <2>2. Stored >= 1
    BY <1>2, TokenBounds DEF TakeAdvance, At, BeforeAdvance
  <2>3. tail' = tail /\ head' = (head + 1) % Capacity
    BY <1>2 DEF TakeAdvance
  <2>4. (((head + 1) % Capacity) + (Stored - 1)) % Capacity = (head + Stored) % Capacity
    BY <1>0, <2>2, ModCapacity
  <2>5. QED
    BY <1>0, <2>1, <2>2, <2>3, <2>4 DEF SlotAccounting
<1>3. ASSUME NEW p \in Producers, PutOther(p) PROVE SlotAccounting'
  <2>1. head' = head /\ tail' = tail
    BY <1>3 DEF PutOther, PutWaitSpace, PutLock, PutStore, PutUnlock, PutPostElement
  <2>2. QED
    BY <1>3, <2>1, PutOtherTokens DEF SlotAccounting
<1>4. ASSUME NEW c \in Consumers, TakeOther(c) PROVE SlotAccounting'
  <2>1. head' = head /\ tail' = tail
    BY <1>4 DEF TakeOther, TakeWaitElement, TakeLock, TakeLoad, TakeUnlock, TakePostSpace
  <2>2. QED
    BY <1>4, <2>1, TakeOtherTokens DEF SlotAccounting
<1>5. ASSUME NEW t \in Mortal, Die(t) PROVE SlotAccounting'
  BY <1>5 DEF Die, SlotAccounting, Stored, Free, Filling, Filled, Emptying, Emptied
<1>6. CASE UNCHANGED vars
  BY <1>6 DEF vars, SlotAccounting, Stored, Free, Filling, Filled, Emptying, Emptied
<1>7. QED
  BY <1>1, <1>2, <1>3, <1>4, <1>5, <1>6
  DEF Next, Producer, Consumer, PutOther, TakeOther

(***************************************************************************)
(* No slot is lost or counted twice, and tail is always Stored slots ahead *)
(* of head, whichever threads die and wherever they do.                    *)
(***************************************************************************)
THEOREM AccountingCorrect == Spec => []SlotAccounting
<1>1. Init => SlotAccounting
  <2> SUFFICES ASSUME Init PROVE SlotAccounting
    OBVIOUS
  <2>1. Filling = {} /\ Filled = {} /\ Emptying = {} /\ Emptied = {}
    BY DEF Init, Threads, Filling, Filled, Emptying, Emptied, BeforeAdvance, AfterAdvance
  <2>2. Stored = 0 /\ Free = Capacity
    BY <2>1, FS_EmptySet DEF Init, Stored, Free
  <2>3. QED
    BY <2>2, ModCapacity DEF Init, SlotAccounting
<1>2. QED
  BY <1>1, TypeCorrect, AccountingInductive, PTL DEF Spec

------------------------------------------------------------------------------
(***************************************************************************)
(* Mutual exclusion: a live thread between lock and unlock owns the mutex, *)
(* which survives the recovery of a mutex whose owner has died.            *)
(***************************************************************************)
MutexInv ==
    /\ \A p \in Producers : alive[p] /\ pc[p] \in InMutex => mutex_tail = p
    /\ \A c \in Consumers : alive[c] /\ pc[c] \in InMutex => mutex_head = c

LEMMA MutexInductive == TypeOK /\ MutexInv /\ [Next]_vars => MutexInv'
<1> SUFFICES ASSUME TypeOK, MutexInv, [Next]_vars PROVE MutexInv'
  OBVIOUS
<1> USE ThreadsAssumption, NoneAssumption
    DEF TypeOK, MutexInv, At, Goto, Threads, InMutex, CanLock
<1>1. ASSUME NEW p \in Producers, NEW v \in Values, PutWaitSpace(p, v) PROVE MutexInv'
  BY <1>1 DEF PutWaitSpace
<1>2. ASSUME NEW p \in Producers, PutLock(p) PROVE MutexInv'
  BY <1>2 DEF PutLock
<1>3. ASSUME NEW p \in Producers, PutStore(p) PROVE MutexInv'
  BY <1>3 DEF PutStore
<1>4. ASSUME NEW p \in Producers, PutAdvance(p) PROVE MutexInv'
  BY <1>4 DEF PutAdvance
<1>5. ASSUME NEW p \in Producers, PutUnlock(p) PROVE MutexInv'
  BY <1>5 DEF PutUnlock
<1>6. ASSUME NEW p \in Producers, PutPostElement(p) PROVE MutexInv'
  BY <1>6 DEF PutPostElement
<1>7. ASSUME NEW c \in Consumers, TakeWaitElement(c) PROVE MutexInv'
  BY <1>7 DEF TakeWaitElement
<1>8. ASSUME NEW c \in Consumers, TakeLock(c) PROVE MutexInv'
  BY <1>8 DEF TakeLock
<1>9. ASSUME NEW c \in Consumers, TakeLoad(c) PROVE MutexInv'
  BY <1>9 DEF TakeLoad
<1>10. ASSUME NEW c \in Consumers, TakeAdvance(c) PROVE MutexInv'
  BY <1>10 DEF TakeAdvance
<1>11. ASSUME NEW c \in Consumers, TakeUnlock(c) PROVE MutexInv'
  BY <1>11 DEF TakeUnlock
<1>12. ASSUME NEW c \in Consumers, TakePostSpace(c) PROVE MutexInv'
  BY <1>12 DEF TakePostSpace
<1>13. ASSUME NEW t \in Mortal, Die(t) PROVE MutexInv'
  BY <1>13 DEF Die
<1>14. CASE UNCHANGED vars
  BY <1>14 DEF vars
<1>15. QED
  BY <1>1, <1>2, <1>3, <1>4, <1>5, <1>6, <1>7, <1>8, <1>9, <1>10, <1>11, <1>12,
     <1>13, <1>14 DEF Next, Producer, Consumer

LEMMA MutexCorrect == Spec => []MutexInv
<1>1. Init => MutexInv
  BY DEF Init, MutexInv, InMutex, Threads
<1>2. QED
  BY <1>1, TypeCorrect, MutexInductive, PTL DEF Spec

(***************************************************************************)
(* Where the i-th stored element is, relative to the two indices.          *)
(***************************************************************************)
LEMMA RingGeometry ==
    ASSUME TypeOK, SlotAccounting
    PROVE  /\ Stored \in 0 .. Capacity
           /\ \A i \in 1 .. Stored : SlotOf(i) \in Slots
           /\ Free >= 1 => /\ Stored < Capacity
                           /\ SlotOf(Stored + 1) = tail
                           /\ \A i \in 1 .. Stored : SlotOf(i) # tail
           /\ Stored >= 1 => SlotOf(1) = head
           /\ \A i \in 1 .. Stored - 1 :
                 (((head + 1) % Capacity) + i - 1) % Capacity = SlotOf(i + 1)
<1>1. /\ Stored \in Nat /\ Free \in Nat
      /\ Stored + Free = Capacity
      /\ head \in 0 .. Capacity - 1 /\ tail \in 0 .. Capacity - 1
      /\ tail = (head + Stored) % Capacity
  BY TokenBounds DEF TypeOK, SlotAccounting, Slots
<1>2. Stored \in 0 .. Capacity /\ (Free >= 1 => Stored < Capacity)
  BY <1>1
<1>3. ASSUME NEW i \in 1 .. Stored PROVE SlotOf(i) \in Slots
  BY <1>1, <1>2, <1>3, ModCapacity DEF SlotOf, Slots
<1>4. ASSUME Free >= 1 PROVE SlotOf(Stored + 1) = tail
  BY <1>1 DEF SlotOf
<1>5. ASSUME Free >= 1, NEW i \in 1 .. Stored PROVE SlotOf(i) # tail
  <2>1. SlotOf(i) = IF head + i - 1 < Capacity THEN head + i - 1
                                               ELSE head + i - 1 - Capacity
    BY <1>1, <1>2, ModCapacity, SMTT(20) DEF SlotOf
  <2>2. tail = IF head + Stored < Capacity THEN head + Stored
                                           ELSE head + Stored - Capacity
    BY <1>1, <1>2, <1>5, ModCapacity, SMTT(20)
  <2>3. QED
    BY <1>1, <1>2, <1>5, <2>1, <2>2
<1>6. ASSUME Stored >= 1 PROVE SlotOf(1) = head
  BY <1>1, ModCapacity DEF SlotOf
<1>7. ASSUME NEW i \in 1 .. Stored - 1
      PROVE  (((head + 1) % Capacity) + i - 1) % Capacity = SlotOf(i + 1)
  <2>1. (head + 1) % Capacity = IF head + 1 < Capacity THEN head + 1 ELSE 0
    <3>1. head \in 0 .. Capacity - 1
      BY <1>1
    <3>2. QED
      BY <3>1, RingNext
  <2>2. SlotOf(i + 1) = IF head + i < Capacity THEN head + i ELSE head + i - Capacity
    <3>1. head \in 0 .. Capacity - 1 /\ i \in 0 .. Capacity
      BY <1>1, <1>2
    <3>2. SlotOf(i + 1) = (head + i) % Capacity
      BY <3>1 DEF SlotOf
    <3>3. QED
      BY <3>1, <3>2, RingSum
  <2>3. CASE head + 1 < Capacity
    <3>1. ((head + 1) % Capacity) + i - 1 = head + i
      BY <1>1, <2>1, <2>3
    <3>2. (head + i) % Capacity = SlotOf(i + 1)
      BY <1>1, <1>2, <2>2, ModCapacity, SMTT(20)
    <3>3. QED
      BY <3>1, <3>2
  <2>4. CASE head + 1 >= Capacity
    BY <1>1, <1>2, <2>1, <2>2, <2>4, ModCapacity
  <2>5. QED
    BY <1>1, <2>3, <2>4
<1>8. QED
  BY <1>2, <1>3, <1>4, <1>5, <1>6, <1>7

(***************************************************************************)
(* The two mutexes never let a store and a load meet: the semaphores keep  *)
(* the indices apart, and each mutex keeps the threads of its side apart.  *)
(***************************************************************************)
THEOREM NoRaceCorrect == Spec => []NoSlotRace
<1>1. TypeOK /\ SlotAccounting /\ MutexInv => NoSlotRace
  <2> SUFFICES ASSUME TypeOK, SlotAccounting, MutexInv PROVE NoSlotRace
    OBVIOUS
  <2>1. ASSUME NEW p \in Producers, NEW c \in Consumers,
               At(p, "access"), At(c, "access")
        PROVE  head # tail
    <3>1. Free >= 1 /\ Stored >= 1
      BY <2>1, TokenBounds DEF At, BeforeAdvance
    <3>2. 1 \in 1 .. Stored
      BY <3>1, TokenBounds
    <3>3. QED
      BY <3>1, <3>2, RingGeometry
  <2>2. ASSUME NEW S \in {Producers, Consumers}, NEW t \in S, NEW u \in S,
               alive[t], pc[t] \in InMutex, alive[u], pc[u] \in InMutex
        PROVE  t = u
    BY <2>2 DEF MutexInv
  <2>3. QED
    BY <2>1, <2>2 DEF NoSlotRace
<1>2. QED
  BY <1>1, TypeCorrect, AccountingCorrect, MutexCorrect, PTL

------------------------------------------------------------------------------
(***************************************************************************)
(* What the slots and the locals hold: every stored slot holds a value; a  *)
(* put still owns the value it was given, and a take past its index update *)
(* the value it removed; between store and advance, or load and advance,   *)
(* a live thread's local and its slot agree.                               *)
(***************************************************************************)
LocalsInv == /\ \A p \in Producers : pc[p] \in BeforeAdvance => e[p] \in Values
             /\ \A c \in Consumers : pc[c] \in AfterAdvance => e[c] \in Values

StoredInv == \A i \in 1 .. Stored : buffer[SlotOf(i)] \in Values

AgreeInv == /\ \A p \in Producers : At(p, "advance") => buffer[tail] = e[p]
            /\ \A c \in Consumers : At(c, "advance") => e[c] = buffer[head]

ContentInv == LocalsInv /\ StoredInv /\ AgreeInv

(* The inductive invariant of the refinement proof. *)
IInv == TypeOK /\ SlotAccounting /\ MutexInv /\ ContentInv

(* What a consumer between load and advance holds is the oldest element. *)
LEMMA HeadHolds ==
    ASSUME IInv, NEW c \in Consumers, At(c, "advance")
    PROVE  Stored >= 1 /\ SlotOf(1) = head /\ e[c] = buffer[SlotOf(1)] /\ e[c] \in Values
<1>1. Stored >= 1 /\ Stored \in Nat
  BY TokenBounds DEF IInv, At, BeforeAdvance
<1>2. SlotOf(1) = head
  BY <1>1, RingGeometry DEF IInv
<1>3. e[c] = buffer[head]
  BY DEF IInv, ContentInv, AgreeInv
<1>4. 1 \in 1 .. Stored
  BY <1>1
<1>5. buffer[SlotOf(1)] \in Values
  BY <1>4 DEF IInv, ContentInv, StoredInv
<1>6. QED
  BY <1>1, <1>2, <1>3, <1>5

(* Puts and takes that move no index leave the stored elements alone. *)
LEMMA PutOtherContent ==
    ASSUME IInv, NEW p \in Producers, PutOther(p)
    PROVE  /\ Stored' = Stored
           /\ \A i \in 1 .. Stored : buffer'[SlotOf(i)'] = buffer[SlotOf(i)]
<1>1. Stored' = Stored
  BY PutOtherTokens DEF IInv
<1>2. head' = head
  BY DEF PutOther, PutWaitSpace, PutLock, PutStore, PutUnlock, PutPostElement
<1>3. \A i \in 1 .. Stored : SlotOf(i)' = SlotOf(i)
  BY <1>2 DEF SlotOf
<1>4. CASE PutStore(p)
  <2>1. Free >= 1
    BY <1>4, TokenBounds DEF IInv, PutStore, At, BeforeAdvance
  <2>2. \A i \in 1 .. Stored : SlotOf(i) \in Slots /\ SlotOf(i) # tail
    BY <2>1, RingGeometry DEF IInv
  <2>3. buffer' = [buffer EXCEPT ![tail] = e[p]] /\ buffer \in [Slots -> Values \cup {None}]
    BY <1>4 DEF PutStore, IInv, TypeOK
  <2>4. QED
    BY <1>1, <1>3, <2>2, <2>3
<1>5. CASE ~PutStore(p)
  <2>1. buffer' = buffer
    BY <1>5 DEF PutOther, PutWaitSpace, PutLock, PutUnlock, PutPostElement
  <2>2. QED
    BY <1>1, <1>3, <2>1
<1>6. QED
  BY <1>4, <1>5

LEMMA TakeOtherContent ==
    ASSUME IInv, NEW c \in Consumers, TakeOther(c)
    PROVE  /\ Stored' = Stored
           /\ \A i \in 1 .. Stored : buffer'[SlotOf(i)'] = buffer[SlotOf(i)]
<1>1. Stored' = Stored
  BY TakeOtherTokens DEF IInv
<1>2. head' = head /\ buffer' = buffer
  BY DEF TakeOther, TakeWaitElement, TakeLock, TakeLoad, TakeUnlock, TakePostSpace
<1>3. \A i \in 1 .. Stored : SlotOf(i)' = SlotOf(i)
  BY <1>2 DEF SlotOf
<1>4. QED
  BY <1>1, <1>2, <1>3

(* Moving tail appends the value of the put to the stored elements. *)
LEMMA PutAdvanceContent ==
    ASSUME IInv, NEW p \in Producers, PutAdvance(p)
    PROVE  /\ Stored < Capacity
           /\ Stored' = Stored + 1
           /\ \A i \in 1 .. Stored + 1 :
                 buffer'[SlotOf(i)'] = IF i = Stored + 1 THEN e[p] ELSE buffer[SlotOf(i)]
<1>1. Free >= 1
  BY TokenBounds DEF IInv, PutAdvance, At, BeforeAdvance
<1>2. Stored < Capacity /\ SlotOf(Stored + 1) = tail
  BY <1>1, RingGeometry DEF IInv
<1>3. Stored' = Stored + 1
  BY PutAdvanceTokens DEF IInv
<1>4. head' = head /\ buffer' = buffer
  BY DEF PutAdvance
<1>5. buffer[tail] = e[p]
  BY DEF IInv, ContentInv, AgreeInv, PutAdvance
<1>6. \A i \in 1 .. Stored + 1 : SlotOf(i)' = SlotOf(i)
  BY <1>4 DEF SlotOf
<1>7. QED
  BY <1>2, <1>3, <1>4, <1>5, <1>6

(* Moving head removes the oldest of the stored elements. *)
LEMMA TakeAdvanceContent ==
    ASSUME IInv, NEW c \in Consumers, TakeAdvance(c)
    PROVE  /\ Stored' = Stored - 1
           /\ \A i \in 1 .. Stored - 1 : buffer'[SlotOf(i)'] = buffer[SlotOf(i + 1)]
<1>1. Stored' = Stored - 1
  BY TakeAdvanceTokens DEF IInv
<1>2. head' = (head + 1) % Capacity /\ buffer' = buffer
  BY DEF TakeAdvance
<1>3. \A i \in 1 .. Stored - 1 : SlotOf(i)' = SlotOf(i + 1)
  <2>1. \A i \in 1 .. Stored - 1 : SlotOf(i)' = (((head + 1) % Capacity) + i - 1) % Capacity
    BY <1>2 DEF SlotOf
  <2>2. QED
    BY <2>1, RingGeometry DEF IInv
<1>4. QED
  BY <1>1, <1>2, <1>3

LEMMA StoredInductive == IInv /\ [Next]_vars => StoredInv'
<1> SUFFICES ASSUME IInv, [Next]_vars PROVE StoredInv'
  OBVIOUS
<1>0. Stored \in Nat /\ StoredInv
  BY TokenBounds DEF IInv, ContentInv
<1>1. ASSUME NEW p \in Producers, PutOther(p) PROVE StoredInv'
  BY <1>0, <1>1, PutOtherContent DEF StoredInv
<1>2. ASSUME NEW c \in Consumers, TakeOther(c) PROVE StoredInv'
  BY <1>0, <1>2, TakeOtherContent DEF StoredInv
<1>3. ASSUME NEW p \in Producers, PutAdvance(p) PROVE StoredInv'
  <2>1. e[p] \in Values
    BY <1>3 DEF IInv, ContentInv, LocalsInv, PutAdvance, At, BeforeAdvance
  <2>2. QED
    BY <1>0, <1>3, <2>1, PutAdvanceContent DEF StoredInv
<1>4. ASSUME NEW c \in Consumers, TakeAdvance(c) PROVE StoredInv'
  BY <1>0, <1>4, TakeAdvanceContent DEF StoredInv
<1>5. CASE UNCHANGED vars \/ \E t \in Mortal : Die(t)
  BY <1>0, <1>5 DEF vars, Die, StoredInv, SlotOf, Stored, Filled, Emptying
<1>6. QED
  BY <1>1, <1>2, <1>3, <1>4, <1>5 DEF Next, Producer, Consumer, PutOther, TakeOther

LEMMA LocalsInductive == IInv /\ [Next]_vars => LocalsInv'
<1> SUFFICES ASSUME IInv, [Next]_vars PROVE LocalsInv'
  OBVIOUS
<1>0. TypeOK /\ LocalsInv
  BY DEF IInv, ContentInv
<1> USE <1>0, ThreadsAssumption
    DEF TypeOK, LocalsInv, At, Goto, Threads, BeforeAdvance, AfterAdvance
<1>1. ASSUME NEW p \in Producers, PutOther(p) \/ PutAdvance(p) PROVE LocalsInv'
  <2>1. ASSUME NEW v \in Values, PutWaitSpace(p, v) PROVE LocalsInv'
    BY <2>1 DEF PutWaitSpace
  <2>2. CASE PutLock(p) \/ PutStore(p) \/ PutAdvance(p)
    BY <2>2 DEF PutLock, PutStore, PutAdvance
  <2>3. CASE PutUnlock(p) \/ PutPostElement(p)
    BY <2>3 DEF PutUnlock, PutPostElement
  <2>4. QED
    BY <1>1, <2>1, <2>2, <2>3 DEF PutOther
<1>2. ASSUME NEW c \in Consumers, TakeOther(c) \/ TakeAdvance(c) PROVE LocalsInv'
  <2>1. CASE TakeWaitElement(c) \/ TakeLock(c)
    BY <2>1 DEF TakeWaitElement, TakeLock
  <2>2. CASE TakeLoad(c)
    BY <2>2 DEF TakeLoad
  <2>3. CASE TakeAdvance(c)
    <3>1. e[c] \in Values
      BY <2>3, HeadHolds DEF TakeAdvance
    <3>2. QED
      BY <2>3, <3>1 DEF TakeAdvance
  <2>4. CASE TakeUnlock(c) \/ TakePostSpace(c)
    BY <2>4 DEF TakeUnlock, TakePostSpace
  <2>5. QED
    BY <1>2, <2>1, <2>2, <2>3, <2>4 DEF TakeOther
<1>3. CASE UNCHANGED vars \/ \E t \in Mortal : Die(t)
  BY <1>3 DEF vars, Die
<1>4. QED
  BY <1>1, <1>2, <1>3 DEF Next, Producer, Consumer, PutOther, TakeOther

LEMMA AgreeInductive == IInv /\ [Next]_vars => AgreeInv'
<1> SUFFICES ASSUME IInv, [Next]_vars PROVE AgreeInv'
  OBVIOUS
<1>0. TypeOK /\ AgreeInv /\ MutexInv
  BY DEF IInv, ContentInv
<1> USE <1>0, ThreadsAssumption DEF TypeOK, AgreeInv, At, Goto, Threads
<1>1. ASSUME NEW p \in Producers, PutOther(p) PROVE AgreeInv'
  <2>1. ASSUME NEW v \in Values, PutWaitSpace(p, v) PROVE AgreeInv'
    BY <2>1 DEF PutWaitSpace
  <2>2. CASE PutLock(p) \/ PutUnlock(p) \/ PutPostElement(p)
    BY <2>2 DEF PutLock, PutUnlock, PutPostElement
  <2>3. CASE PutStore(p)
    <3>1. \A q \in Producers : At(q, "advance")' => q = p
      BY <2>3 DEF PutStore, MutexInv, InMutex
    <3>2. ASSUME NEW c \in Consumers, At(c, "advance") PROVE buffer'[head] = buffer[head]
      <4>1. SlotOf(1) = head /\ Stored >= 1 /\ Stored \in Nat
        BY <3>2, HeadHolds, TokenBounds
      <4>2. 1 \in 1 .. Stored
        BY <4>1
      <4>3. buffer'[SlotOf(1)'] = buffer[SlotOf(1)]
        BY <2>3, <4>2, PutOtherContent DEF PutOther
      <4>4. SlotOf(1)' = SlotOf(1)
        BY <2>3 DEF PutStore, SlotOf
      <4>5. QED
        BY <4>1, <4>3, <4>4
    <3>3. QED
      BY <2>3, <3>1, <3>2 DEF PutStore
  <2>4. QED
    BY <1>1, <2>1, <2>2, <2>3 DEF PutOther
<1>2. ASSUME NEW p \in Producers, PutAdvance(p) PROVE AgreeInv'
  <2>1. \A q \in Producers : ~At(q, "advance")'
    BY <1>2 DEF PutAdvance, MutexInv, InMutex
  <2>2. QED
    BY <1>2, <2>1 DEF PutAdvance
<1>3. ASSUME NEW c \in Consumers, TakeOther(c) PROVE AgreeInv'
  <2>1. CASE TakeLoad(c)
    BY <2>1 DEF TakeLoad
  <2>2. CASE TakeWaitElement(c) \/ TakeLock(c) \/ TakeUnlock(c) \/ TakePostSpace(c)
    BY <2>2 DEF TakeWaitElement, TakeLock, TakeUnlock, TakePostSpace
  <2>3. QED
    BY <1>3, <2>1, <2>2 DEF TakeOther
<1>4. ASSUME NEW c \in Consumers, TakeAdvance(c) PROVE AgreeInv'
  <2>1. \A d \in Consumers : ~At(d, "advance")'
    BY <1>4 DEF TakeAdvance, MutexInv, InMutex
  <2>2. QED
    BY <1>4, <2>1 DEF TakeAdvance
<1>5. CASE UNCHANGED vars \/ \E t \in Mortal : Die(t)
  BY <1>5 DEF vars, Die
<1>6. QED
  BY <1>1, <1>2, <1>3, <1>4, <1>5 DEF Next, Producer, Consumer, PutOther, TakeOther

LEMMA IInvCorrect == Spec => []IInv
<1>1. Init => ContentInv
  <2> SUFFICES ASSUME Init PROVE ContentInv
    OBVIOUS
  <2>1. Filled = {} /\ Emptying = {}
    BY DEF Init, Threads, Filled, Emptying, BeforeAdvance, AfterAdvance
  <2>2. Stored = 0
    BY <2>1, FS_EmptySet DEF Init, Stored
  <2>3. QED
    BY <2>2 DEF Init, ContentInv, LocalsInv, StoredInv, AgreeInv, At, Threads,
                BeforeAdvance, AfterAdvance
<1>2. IInv /\ [Next]_vars => ContentInv'
  BY StoredInductive, LocalsInductive, AgreeInductive DEF ContentInv
<1>3. QED
  BY <1>1, <1>2, TypeCorrect, AccountingCorrect, MutexCorrect, PTL DEF Spec, IInv

------------------------------------------------------------------------------
(***************************************************************************)
(* Every step of the ring is a step of the bounded FIFO queue or leaves it *)
(* unchanged.                                                              *)
(***************************************************************************)
LEMMA QueueMapSeq ==
    ASSUME IInv
    PROVE  /\ QueueMap \in Seq(Values)
           /\ Len(QueueMap) = Stored
           /\ Stored \in Nat
<1>1. Stored \in Nat
  BY TokenBounds DEF IInv
<1>2. \A i \in 1 .. Stored : buffer[SlotOf(i)] \in Values
  BY DEF IInv, ContentInv, StoredInv
<1>3. QED
  BY <1>1, <1>2 DEF QueueMap

LEMMA StepsImplementFifo == IInv /\ IInv' /\ [Next]_vars => [Fifo!Next]_(Fifo!vars)
<1> SUFFICES ASSUME IInv, IInv', [Next]_vars PROVE [Fifo!Next]_(Fifo!vars)
  OBVIOUS
<1>0. /\ TypeOK /\ LocalsInv
      /\ Stored \in Nat
      /\ QueueMap \in Seq(Values) /\ Len(QueueMap) = Stored
      /\ None \notin Values
  BY QueueMapSeq, NoneAssumption DEF IInv, ContentInv
<1> USE <1>0, ThreadsAssumption
<1>1. ASSUME NEW p \in Producers, PutOther(p)
      PROVE  /\ QueueMap' = QueueMap
             /\ GotMap' = GotMap
  <2>1. QueueMap' = QueueMap
    BY <1>1, PutOtherContent DEF QueueMap
  <2>2. \A c \in Consumers : pc'[c] = pc[c] /\ e'[c] = e[c]
    BY <1>1 DEF PutOther, PutWaitSpace, PutLock, PutStore, PutUnlock, PutPostElement,
                TypeOK, Threads, Goto
  <2>3. QED
    BY <2>1, <2>2 DEF GotMap
<1>2. ASSUME NEW c \in Consumers, TakeOther(c)
      PROVE  /\ QueueMap' = QueueMap
             /\ PendMap' = PendMap
  <2>1. QueueMap' = QueueMap
    BY <1>2, TakeOtherContent DEF QueueMap
  <2>2. \A p \in Producers : pc'[p] = pc[p] /\ e'[p] = e[p]
    BY <1>2 DEF TakeOther, TakeWaitElement, TakeLock, TakeLoad, TakeUnlock, TakePostSpace,
                TypeOK, Threads, Goto
  <2>3. QED
    BY <2>1, <2>2 DEF PendMap
<1>3. ASSUME NEW p \in Producers, NEW v \in Values, PutWaitSpace(p, v)
      PROVE  Fifo!CallPut(p, v)
  <2>1. PendMap[p] = None
    BY <1>3 DEF PutWaitSpace, At, PendMap, BeforeAdvance
  <2>2. PendMap' = [PendMap EXCEPT ![p] = v]
    BY <1>3 DEF PutWaitSpace, Goto, TypeOK, Threads, PendMap, BeforeAdvance
  <2>3. QED
    BY <1>1, <1>3, <2>1, <2>2 DEF PutOther, Fifo!CallPut
<1>4. ASSUME NEW p \in Producers,
             PutLock(p) \/ PutStore(p) \/ PutUnlock(p) \/ PutPostElement(p)
      PROVE  UNCHANGED Fifo!vars
  <2>1. PendMap' = PendMap
    <3>1. e' = e
      BY <1>4 DEF PutLock, PutStore, PutUnlock, PutPostElement
    <3>2. \A q \in Producers : pc'[q] \in BeforeAdvance <=> pc[q] \in BeforeAdvance
      BY <1>4 DEF PutLock, PutStore, PutUnlock, PutPostElement, At, Goto, TypeOK,
                  Threads, BeforeAdvance
    <3>3. QED
      BY <3>1, <3>2 DEF PendMap
  <2>2. QED
    BY <1>1, <1>4, <2>1 DEF PutOther, Fifo!vars
<1>5. ASSUME NEW p \in Producers, PutAdvance(p) PROVE Fifo!Put(p)
  <2>1. PendMap[p] = e[p] /\ e[p] \in Values
    BY <1>5 DEF PutAdvance, At, PendMap, BeforeAdvance, LocalsInv
  <2>2. PendMap' = [PendMap EXCEPT ![p] = None]
    BY <1>5 DEF PutAdvance, Goto, TypeOK, Threads, PendMap, BeforeAdvance
  <2>3. GotMap' = GotMap
    BY <1>5 DEF PutAdvance, Goto, TypeOK, Threads, GotMap
  <2>4. Len(QueueMap) < Capacity
    BY <1>5, PutAdvanceContent
  <2>5. QueueMap' = Append(QueueMap, e[p])
    <3>1. QueueMap' = [i \in 1 .. Stored + 1 |->
                         IF i = Stored + 1 THEN e[p] ELSE buffer[SlotOf(i)]]
      BY <1>5, PutAdvanceContent DEF QueueMap
    <3>2. \A i \in 1 .. Stored : QueueMap[i] = buffer[SlotOf(i)] /\ buffer[SlotOf(i)] \in Values
      BY DEF QueueMap, IInv, ContentInv, StoredInv
    <3>3. QueueMap' \in Seq(Values) /\ Len(QueueMap') = Stored + 1
      BY <2>1, <3>1, <3>2
    <3>4. \A i \in 1 .. Stored + 1 : QueueMap'[i] = Append(QueueMap, e[p])[i]
      BY <2>1, <3>1, <3>2, AppendProperties
    <3>5. Append(QueueMap, e[p]) \in Seq(Values) /\ Len(Append(QueueMap, e[p])) = Stored + 1
      BY <2>1, AppendProperties
    <3>6. QED
      BY <3>3, <3>4, <3>5, SeqEqual
  <2>6. QED
    BY <2>1, <2>2, <2>3, <2>4, <2>5 DEF Fifo!Put
<1>6. ASSUME NEW c \in Consumers, TakeAdvance(c) PROVE Fifo!Take(c)
  <2>1. Stored >= 1 /\ e[c] = buffer[SlotOf(1)] /\ e[c] \in Values
    BY <1>6, HeadHolds DEF TakeAdvance
  <2>2. GotMap[c] = None
    BY <1>6 DEF TakeAdvance, At, GotMap, AfterAdvance
  <2>3. QueueMap # << >> /\ Head(QueueMap) = e[c]
    BY <2>1 DEF QueueMap
  <2>4. GotMap' = [GotMap EXCEPT ![c] = Head(QueueMap)]
    BY <1>6, <2>3 DEF TakeAdvance, Goto, TypeOK, Threads, GotMap, AfterAdvance
  <2>5. PendMap' = PendMap
    BY <1>6 DEF TakeAdvance, Goto, TypeOK, Threads, PendMap
  <2>6. QueueMap' = Tail(QueueMap)
    <3>1. QueueMap' = [i \in 1 .. Stored - 1 |-> buffer[SlotOf(i + 1)]]
      BY <1>6, TakeAdvanceContent DEF QueueMap
    <3>2. \A i \in 1 .. Stored : QueueMap[i] = buffer[SlotOf(i)] /\ buffer[SlotOf(i)] \in Values
      BY DEF QueueMap, IInv, ContentInv, StoredInv
    <3>3. QueueMap' \in Seq(Values) /\ Len(QueueMap') = Stored - 1
      BY <2>1, <3>1, <3>2
    <3>4. Tail(QueueMap) \in Seq(Values) /\ Len(Tail(QueueMap)) = Stored - 1
      BY <2>3, HeadTailProperties
    <3>5. \A i \in 1 .. Stored - 1 : QueueMap'[i] = Tail(QueueMap)[i]
      BY <2>3, <3>1, <3>2, <3>4, HeadTailProperties
    <3>6. QED
      BY <3>3, <3>4, <3>5, SeqEqual
  <2>7. QED
    BY <2>2, <2>3, <2>4, <2>5, <2>6 DEF Fifo!Take
<1>7. ASSUME NEW c \in Consumers, TakePostSpace(c) PROVE Fifo!Return(c)
  <2>1. GotMap[c] # None
    BY <1>7 DEF TakePostSpace, At, GotMap, AfterAdvance, LocalsInv
  <2>2. GotMap' = [GotMap EXCEPT ![c] = None]
    BY <1>7 DEF TakePostSpace, Goto, TypeOK, Threads, GotMap, AfterAdvance
  <2>3. QED
    BY <1>2, <1>7, <2>1, <2>2 DEF TakeOther, Fifo!Return
<1>8. ASSUME NEW c \in Consumers,
             TakeWaitElement(c) \/ TakeLock(c) \/ TakeLoad(c) \/ TakeUnlock(c)
      PROVE  UNCHANGED Fifo!vars
  <2>1. GotMap' = GotMap
    <3>1. \A d \in Consumers : pc[d] \in AfterAdvance => e'[d] = e[d]
      BY <1>8 DEF TakeWaitElement, TakeLock, TakeLoad, TakeUnlock, At, TypeOK,
                  Threads, AfterAdvance
    <3>2. \A d \in Consumers : pc'[d] \in AfterAdvance <=> pc[d] \in AfterAdvance
      BY <1>8 DEF TakeWaitElement, TakeLock, TakeLoad, TakeUnlock, At, Goto, TypeOK,
                  Threads, AfterAdvance
    <3>3. QED
      BY <3>1, <3>2 DEF GotMap
  <2>2. QED
    BY <1>2, <1>8, <2>1 DEF TakeOther, Fifo!vars
<1>9. CASE UNCHANGED vars \/ \E t \in Mortal : Die(t)
  BY <1>9 DEF vars, Die, Fifo!vars, QueueMap, PendMap, GotMap, SlotOf, Stored, Filled,
              Emptying
<1>10. QED
  BY <1>3, <1>4, <1>5, <1>6, <1>7, <1>8, <1>9 DEF Next, Producer, Consumer, Fifo!Next

(***************************************************************************)
(* The ring buffer with its two semaphores and two mutexes implements the  *)
(* bounded FIFO queue, for any number of threads and any capacity, and     *)
(* with any of the threads dying between any two of their steps.           *)
(***************************************************************************)
THEOREM FifoCorrect == Spec => ImplementsFifo
<1>1. Init => Fifo!Init
  <2> SUFFICES ASSUME Init PROVE Fifo!Init
    OBVIOUS
  <2>1. Filled = {} /\ Emptying = {}
    BY DEF Init, Threads, Filled, Emptying, BeforeAdvance, AfterAdvance
  <2>2. Stored = 0
    BY <2>1, FS_EmptySet DEF Init, Stored
  <2>3. QueueMap = << >>
    BY <2>2 DEF QueueMap
  <2>4. QED
    BY <2>3 DEF Init, Fifo!Init, PendMap, GotMap, Threads, BeforeAdvance, AfterAdvance
<1>2. QED
  BY <1>1, IInvCorrect, StepsImplementFifo, PTL DEF Spec, ImplementsFifo, Fifo!Spec
=============================================================================
