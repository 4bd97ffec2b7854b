---------------------------- MODULE BlockingQueue ----------------------------
(***************************************************************************)
(* The blocking ring buffer with two counting semaphores and two mutexes.  *)
(* The repository has it three times, with the same put and take:          *)
(*   ring_buffer_posix.c   threads, POSIX semaphores                       *)
(*   ring_buffer_sysv.c    threads, System V semaphores                    *)
(*   shm_blocking_queue.c  processes sharing a mapping, robust mutexes     *)
(*                                                                         *)
(* One action is one blocking call or one access to shared memory, so that *)
(* other threads run, and processes die, between any two of them.  The     *)
(* threads in Mortal may die at any point, as a process attached to the    *)
(* shared-memory queue may; Mortal = {} gives the two queues whose threads *)
(* live in one process.                                                    *)
(***************************************************************************)
EXTENDS Integers, FiniteSets, Sequences

CONSTANTS Producers,  \* threads calling put in a loop
          Consumers,  \* threads calling take in a loop
          Mortal,     \* threads that may die
          Capacity,   \* number of slots
          Values,     \* pointers that are put
          None        \* no thread, no value, content of a slot never written

Threads == Producers \cup Consumers

ASSUME ThreadsAssumption ==
    /\ IsFiniteSet(Producers)
    /\ IsFiniteSet(Consumers)
    /\ Producers \cap Consumers = {}
    /\ Mortal \subseteq Threads

ASSUME CapacityAssumption == Capacity \in Nat \ {0}

ASSUME NoneAssumption == None \notin Threads \cup Values

VARIABLES buffer,       \* the slots 0 .. Capacity - 1
          head,         \* index of the next slot to take
          tail,         \* index of the next slot to fill
          mutex_head,   \* owner of the mutex over head, or None
          mutex_tail,   \* owner of the mutex over tail, or None
          sem_element,  \* value of the semaphore counting elements
          sem_space,    \* value of the semaphore counting free slots
          pc,           \* where each thread is in put or take
          e,            \* the local e of put (argument) and take (result)
          alive         \* FALSE once a thread has died; its pc is frozen

vars == <<buffer, head, tail, mutex_head, mutex_tail,
          sem_element, sem_space, pc, e, alive>>

Slots == 0 .. Capacity - 1

(***************************************************************************)
(* Positions in put and take.  "idle": at the first semaphore; "lock": has *)
(* a token, wants the mutex; "access": about to touch the slot;            *)
(* "advance": about to move the index; "unlock"; "post": about to post the *)
(* other semaphore.                                                        *)
(***************************************************************************)
Positions == {"idle", "lock", "access", "advance", "unlock", "post"}

BeforeAdvance == {"lock", "access", "advance"}
AfterAdvance  == {"unlock", "post"}
InMutex       == {"access", "advance", "unlock"}

At(t, from)   == alive[t] /\ pc[t] = from
Goto(t, to)   == pc' = [pc EXCEPT ![t] = to]

(* The buffer comes from malloc or ftruncate: its slots hold no value yet. *)
Init == /\ buffer = [s \in Slots |-> None]
        /\ head = 0
        /\ tail = 0
        /\ mutex_head = None
        /\ mutex_tail = None
        /\ sem_element = 0
        /\ sem_space = Capacity
        /\ pc = [t \in Threads |-> "idle"]
        /\ e = [t \in Threads |-> None]
        /\ alive = [t \in Threads |-> TRUE]

(* Mutant of CanLock: a plain mutex, which a dead owner keeps. *)
CanLockNotRobust(m) == m = None

(***************************************************************************)
(* pthread_mutex_lock returns 0 when the mutex is free, and EOWNERDEAD,    *)
(* answered with pthread_mutex_consistent, when its owner has died.        *)
(***************************************************************************)
CanLock(m) == m = None \/ (m \in Threads /\ ~alive[m])

------------------------------------------------------------------------------
(* blocking_queue_put *)

PutWaitSpace(p, v) ==
    /\ At(p, "idle")
    /\ sem_space > 0
    /\ sem_space' = sem_space - 1
    /\ e' = [e EXCEPT ![p] = v]
    /\ Goto(p, "lock")
    /\ UNCHANGED <<buffer, head, tail, mutex_head, mutex_tail, sem_element, alive>>

PutLock(p) ==
    /\ At(p, "lock")
    /\ CanLock(mutex_tail)
    /\ mutex_tail' = p
    /\ Goto(p, "access")
    /\ UNCHANGED <<buffer, head, tail, mutex_head, sem_element, sem_space, e, alive>>

(* Mutant of PutStore: the slot is chosen by head. *)
PutStoreAtHead(p) ==
    /\ At(p, "access")
    /\ buffer' = [buffer EXCEPT ![head] = e[p]]
    /\ Goto(p, "advance")
    /\ UNCHANGED <<head, tail, mutex_head, mutex_tail, sem_element, sem_space, e, alive>>

PutStore(p) ==
    /\ At(p, "access")
    /\ buffer' = [buffer EXCEPT ![tail] = e[p]]
    /\ Goto(p, "advance")
    /\ UNCHANGED <<head, tail, mutex_head, mutex_tail, sem_element, sem_space, e, alive>>

(* Mutant of PutAdvance: tail is not wrapped. *)
PutAdvanceNoWrap(p) ==
    /\ At(p, "advance")
    /\ tail' = tail + 1
    /\ Goto(p, "unlock")
    /\ UNCHANGED <<buffer, head, mutex_head, mutex_tail, sem_element, sem_space, e, alive>>

PutAdvance(p) ==
    /\ At(p, "advance")
    /\ tail' = (tail + 1) % Capacity
    /\ Goto(p, "unlock")
    /\ UNCHANGED <<buffer, head, mutex_head, mutex_tail, sem_element, sem_space, e, alive>>

PutUnlock(p) ==
    /\ At(p, "unlock")
    /\ mutex_tail' = None
    /\ Goto(p, "post")
    /\ UNCHANGED <<buffer, head, tail, mutex_head, sem_element, sem_space, e, alive>>

PutPostElement(p) ==
    /\ At(p, "post")
    /\ sem_element' = sem_element + 1
    /\ Goto(p, "idle")
    /\ UNCHANGED <<buffer, head, tail, mutex_head, mutex_tail, sem_space, e, alive>>

------------------------------------------------------------------------------
(* blocking_queue_take *)

(* Mutant of TakeWaitElement: take does not wait for an element. *)
TakeNoWait(c) ==
    /\ At(c, "idle")
    /\ Goto(c, "lock")
    /\ UNCHANGED <<buffer, head, tail, mutex_head, mutex_tail,
                   sem_element, sem_space, e, alive>>

TakeWaitElement(c) ==
    /\ At(c, "idle")
    /\ sem_element > 0
    /\ sem_element' = sem_element - 1
    /\ Goto(c, "lock")
    /\ UNCHANGED <<buffer, head, tail, mutex_head, mutex_tail, sem_space, e, alive>>

TakeLock(c) ==
    /\ At(c, "lock")
    /\ CanLock(mutex_head)
    /\ mutex_head' = c
    /\ Goto(c, "access")
    /\ UNCHANGED <<buffer, head, tail, mutex_tail, sem_element, sem_space, e, alive>>

TakeLoad(c) ==
    /\ At(c, "access")
    /\ e' = [e EXCEPT ![c] = buffer[head]]
    /\ Goto(c, "advance")
    /\ UNCHANGED <<buffer, head, tail, mutex_head, mutex_tail, sem_element, sem_space, alive>>

TakeAdvance(c) ==
    /\ At(c, "advance")
    /\ head' = (head + 1) % Capacity
    /\ Goto(c, "unlock")
    /\ UNCHANGED <<buffer, tail, mutex_head, mutex_tail, sem_element, sem_space, e, alive>>

TakeUnlock(c) ==
    /\ At(c, "unlock")
    /\ mutex_head' = None
    /\ Goto(c, "post")
    /\ UNCHANGED <<buffer, head, tail, mutex_tail, sem_element, sem_space, e, alive>>

(* Mutant of TakePostSpace: take posts the semaphore it waited on. *)
TakePostElement(c) ==
    /\ At(c, "post")
    /\ sem_element' = sem_element + 1
    /\ Goto(c, "idle")
    /\ UNCHANGED <<buffer, head, tail, mutex_head, mutex_tail, sem_space, e, alive>>

TakePostSpace(c) ==
    /\ At(c, "post")
    /\ sem_space' = sem_space + 1
    /\ Goto(c, "idle")
    /\ UNCHANGED <<buffer, head, tail, mutex_head, mutex_tail, sem_element, e, alive>>

------------------------------------------------------------------------------
(* A process attached to the shared-memory queue dies where it stands. *)
Die(t) ==
    /\ alive[t]
    /\ alive' = [alive EXCEPT ![t] = FALSE]
    /\ UNCHANGED <<buffer, head, tail, mutex_head, mutex_tail,
                   sem_element, sem_space, pc, e>>

Producer(p) == \/ \E v \in Values : PutWaitSpace(p, v)
               \/ PutLock(p)
               \/ PutStore(p)
               \/ PutAdvance(p)
               \/ PutUnlock(p)
               \/ PutPostElement(p)

Consumer(c) == \/ TakeWaitElement(c)
               \/ TakeLock(c)
               \/ TakeLoad(c)
               \/ TakeAdvance(c)
               \/ TakeUnlock(c)
               \/ TakePostSpace(c)

Next == \/ \E p \in Producers : Producer(p)
        \/ \E c \in Consumers : Consumer(c)
        \/ \E t \in Mortal : Die(t)

Spec == Init /\ [][Next]_vars

(* The scheduler runs every thread that can run; nothing makes a thread die. *)
FairSpec == /\ Spec
            /\ \A p \in Producers : WF_vars(Producer(p))
            /\ \A c \in Consumers : WF_vars(Consumer(c))
------------------------------------------------------------------------------
(***************************************************************************)
(* Where the Capacity tokens are.  A token counts a filled slot when it is *)
(* in sem_element, or with a put past its tail update, or with a take      *)
(* before its head update; it counts a free slot otherwise.  The tokens of *)
(* a dead thread stay with it for ever.                                    *)
(***************************************************************************)
Filling   == {p \in Producers : pc[p] \in BeforeAdvance}
Filled    == {p \in Producers : pc[p] \in AfterAdvance}
Emptying  == {c \in Consumers : pc[c] \in BeforeAdvance}
Emptied   == {c \in Consumers : pc[c] \in AfterAdvance}

Stored == sem_element + Cardinality(Filled) + Cardinality(Emptying)
Free   == sem_space + Cardinality(Filling) + Cardinality(Emptied)

(* The i-th oldest stored element is in slot SlotOf(i), i = 1 .. Stored. *)
SlotOf(i) == (head + i - 1) % Capacity

(* The indices stay inside the ring, and slots and locals hold nothing but *)
(* values that were put: no step of put or take leaves these sets.          *)
TypeOK == /\ buffer \in [Slots -> Values \cup {None}]
          /\ head \in Slots
          /\ tail \in Slots
          /\ mutex_head \in Consumers \cup {None}
          /\ mutex_tail \in Producers \cup {None}
          /\ sem_element \in Nat
          /\ sem_space \in Nat
          /\ pc \in [Threads -> Positions]
          /\ e \in [Threads -> Values \cup {None}]
          /\ alive \in [Threads -> BOOLEAN]

(***************************************************************************)
(* The two semaphores and the two indices, which no single lock protects   *)
(* together, always agree: no slot is lost or counted twice, and tail is   *)
(* exactly Stored slots ahead of head.  Deaths at any point included.      *)
(***************************************************************************)
SlotAccounting == /\ Stored + Free = Capacity
                  /\ tail = (head + Stored) % Capacity

(***************************************************************************)
(* The slot accesses of put (under mutex_tail) and take (under mutex_head) *)
(* hold different locks, so only the semaphores keep them apart: a live    *)
(* producer about to store and a live consumer about to load are never at  *)
(* the same slot, and two live producers, or consumers, are never both     *)
(* between lock and unlock, even after an owner died and the mutex was     *)
(* recovered.                                                              *)
(***************************************************************************)
NoSlotRace ==
    /\ \A p \in Producers, c \in Consumers :
          At(p, "access") /\ At(c, "access") => head # tail
    /\ \A S \in {Producers, Consumers} : \A t, u \in S :
          (/\ alive[t] /\ pc[t] \in InMutex
           /\ alive[u] /\ pc[u] \in InMutex) => t = u

(* The refinement mapping to BoundedFifo. *)
QueueMap == [i \in 1 .. Stored |-> buffer[SlotOf(i)]]
PendMap  == [p \in Producers |-> IF pc[p] \in BeforeAdvance THEN e[p] ELSE None]
GotMap   == [c \in Consumers |-> IF pc[c] \in AfterAdvance THEN e[c] ELSE None]

Fifo == INSTANCE BoundedFifo WITH q <- QueueMap, pend <- PendMap, got <- GotMap

(***************************************************************************)
(* The queue is a bounded first-in first-out queue: every value put is     *)
(* appended once, by the put that was given it, and taken at most once, in *)
(* order; a put takes effect when tail moves, a take when head moves.      *)
(***************************************************************************)
ImplementsFifo == Fifo!Spec

(***************************************************************************)
(* Put and take never block one another for ever, whichever threads win    *)
(* the two semaphores and the two mutexes, and what the robust mutexes of  *)
(* shm_blocking_queue.c buy: as long as somebody is left on either side    *)
(* and fewer than Capacity threads have died, each death costing the queue *)
(* at most one token for good, the others keep passing elements.  Head     *)
(* comes back to every slot again and again, so (the queue being first-in  *)
(* first-out) every element put is taken.                                  *)
(***************************************************************************)
EveryElementTaken ==
    [](/\ Cardinality({t \in Threads : ~alive[t]}) < Capacity
       /\ \A S \in {Producers, Consumers} : \E t \in S : alive[t])
       => \A s \in Slots : []<>(head = s)
==============================================================================
