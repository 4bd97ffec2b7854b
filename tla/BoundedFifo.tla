----------------------------- MODULE BoundedFifo -----------------------------
(***************************************************************************)
(* What a blocking queue promises to its callers, without semaphores,      *)
(* mutexes, a ring or indices: a first-in first-out queue of at most       *)
(* Capacity values.                                                        *)
(*                                                                         *)
(* A put is admitted with the value it was given (CallPut) and later       *)
(* appends exactly that value, once (Put).  A take removes the oldest      *)
(* value (Take) and later hands that value to its caller (Return).  A      *)
(* caller that dies simply takes no further step.                          *)
(***************************************************************************)
EXTENDS Naturals, Sequences

CONSTANTS Producers,  \* threads that put
          Consumers,  \* threads that take
          Capacity,   \* most values the queue holds
          Values,     \* values that can be put
          None        \* no value

VARIABLES q,     \* the queue, oldest value first
          pend,  \* pend[p]: the value an admitted put of p has yet to append
          got    \* got[c]: the value a take of c has removed and not returned

vars == <<q, pend, got>>

Init == /\ q = << >>
        /\ pend = [p \in Producers |-> None]
        /\ got = [c \in Consumers |-> None]

CallPut(p, v) == /\ pend[p] = None
                 /\ pend' = [pend EXCEPT ![p] = v]
                 /\ UNCHANGED <<q, got>>

Put(p) == /\ pend[p] # None
          /\ Len(q) < Capacity
          /\ q' = Append(q, pend[p])
          /\ pend' = [pend EXCEPT ![p] = None]
          /\ UNCHANGED got

Take(c) == /\ got[c] = None
           /\ q # << >>
           /\ got' = [got EXCEPT ![c] = Head(q)]
           /\ q' = Tail(q)
           /\ UNCHANGED pend

Return(c) == /\ got[c] # None
             /\ got' = [got EXCEPT ![c] = None]
             /\ UNCHANGED <<q, pend>>

Next == \/ \E p \in Producers : Put(p) \/ \E v \in Values : CallPut(p, v)
        \/ \E c \in Consumers : Take(c) \/ Return(c)

Spec == Init /\ [][Next]_vars
==============================================================================
