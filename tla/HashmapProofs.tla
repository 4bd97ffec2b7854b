---------------------------- MODULE HashmapProofs ----------------------------
(***************************************************************************)
(* Proofs about Hashmap, for any set of keys, any hash function, any       *)
(* number of buckets to start with and any sequence of calls.              *)
(***************************************************************************)
EXTENDS Hashmap, FiniteSetTheorems, FunctionTheorems, WellFoundedInduction,
        SequenceTheorems, TLAPS

------------------------------------------------------------------------------
(* The inductive invariant. *)

Nodes == [status : {"EMPTY", "OCCUPIED", "DELETED"}, key : Keys \cup {NULL},
          value : Values \cup {NULL}, hash : Nat]

IsMap(m) == m \in [cap : Nat \ {0}, size : Nat, arr : [0 .. m.cap - 1 -> Nodes]]

(* An occupied node holds a key with its home, and a value. *)
Homed(m) == \A s \in Reinserted(m) : /\ m.arr[s].key \in Keys
                                     /\ m.arr[s].value \in Values
                                     /\ m.arr[s].hash = Home(m, m.arr[s].key)

(* A slot is in use, now or once, for keys of k's home. *)
OnPath(m, k, s) == m.arr[s].status # "EMPTY" /\ m.arr[s].hash = Home(m, k)

(* Turn i leads to slot s, and no turn before it ends the search for k. *)
Leads(m, k, i, s) == /\ i \in Turns(m, k)
                     /\ Probe(m, k, i) = s
                     /\ \A j \in Turns(m, k) : j < i => OnPath(m, k, Probe(m, k, j))

Reachable(m) == \A s \in Reinserted(m) : \E i \in Turns(m, m.arr[s].key) : Leads(m, m.arr[s].key, i, s)

Counted(m) == m.size = Cardinality(Reinserted(m))

Sound(m) == IsMap(m) /\ Homed(m) /\ Reachable(m) /\ Counted(m)

KeysOf(m) == {m.arr[s].key : s \in Reinserted(m)}

(* The frames of Hashmap_set; what a resize has yet to set are keys and values. *)
Arrays == (UNION {[0 .. c - 1 -> Nodes] : c \in Nat}) \cup {<< >>}

Frame == [key : Keys, value : Values, at : {"probing", "resizing", "crashed"},
          old : Arrays, left : SUBSET Nat]

LeftOK(f) == /\ \A s \in f.left : f.old[s].key \in Keys /\ f.old[s].value \in Values
             /\ f.at # "resizing" => f.left = {}

Calls == /\ calls \in Seq(Frame)
         /\ \A c \in DOMAIN calls : LeftOK(calls[c])

(* A call still has to set k, as its own key or from the old array. *)
Pending(f, k) == f.key = k \/ \E s \in f.left : f.old[s].key = k

Kept == \A k \in Present : k \in KeysOf(map) \/ \E c \in DOMAIN calls : Pending(calls[c], k)

Dictionary == ref \in [Keys -> Values \cup {NULL}] /\ deleting \in BOOLEAN

(* v is the value of k in d, unless k is what the outermost call of q sets. *)
Current(q, d, k, v) == v = d[k] \/ (q # << >> /\ k = q[1].key)

(* Until the first deletion: no deleted nodes, no key twice, and everything *)
(* that is stored or will be stored again is up to date.                    *)
Undeleted == \A s \in 0 .. map.cap - 1 : map.arr[s].status # "DELETED"

NoTwins == \A r, s \in Reinserted(map) : map.arr[r].key = map.arr[s].key => r = s

UpToDate == /\ \A s \in Reinserted(map) : Current(calls, ref, map.arr[s].key, map.arr[s].value)
            /\ calls # << >> => calls[1].value = ref[calls[1].key]
            /\ \A c \in DOMAIN calls :
                  /\ Current(calls, ref, calls[c].key, calls[c].value)
                  /\ \A s \in calls[c].left : Current(calls, ref, calls[c].old[s].key, calls[c].old[s].value)

Clean == ~deleting => Undeleted /\ NoTwins /\ UpToDate

Inv == Dictionary /\ Sound(map) /\ Calls /\ Kept /\ Clean

------------------------------------------------------------------------------
(* Operators of the map *)

LEMMA MinNat ==
    ASSUME NEW S \in SUBSET Nat, S # {}
    PROVE  Min(S) \in S /\ \A y \in S : Min(S) <= y
<1> DEFINE R == {p \in Nat \X Nat : p[1] < p[2]}
<1>1. IsWellFoundedOn(R, Nat)
  BY NatLessThanWellFounded, Zenon DEF OpToRel
<1>2. PICK x \in S : \A y \in S : <<y, x>> \notin R
  <2> HIDE DEF R
  <2>1. QED
    BY <1>1, WFMin
<1>3. ASSUME NEW y \in S PROVE x <= y
  <2>1. x \in Nat /\ y \in Nat
    OBVIOUS
  <2>2. y < x => <<y, x>> \in R
    BY <2>1
  <2>3. QED
    BY <1>2, <2>1, <2>2
<1>4. QED
  BY <1>3 DEF Min

LEMMA HomeType ==
    ASSUME NEW m, IsMap(m), NEW k \in Keys
    PROVE  Home(m, k) \in 0 .. m.cap - 1 /\ Home(m, k) \in Nat
<1>1. hash(k) \in Nat /\ m.cap \in Nat \ {0}
  BY HashmapAssumption DEF IsMap
<1>2. QED
  BY <1>1 DEF Home

LEMMA TurnType ==
    ASSUME NEW m, NEW k, NEW i \in Turns(m, k)
    PROVE  i \in Nat /\ Probe(m, k, i) \in 0 .. m.cap - 1
  BY DEF Turns

(* A fresh array has no key in it. *)
LEMMA FreshSound ==
    ASSUME NEW c \in Nat \ {0}
    PROVE  /\ Sound(Fresh(c)) /\ Reinserted(Fresh(c)) = {}
           /\ \A s \in 0 .. Fresh(c).cap - 1 : Fresh(c).arr[s].status = "EMPTY"
<1> DEFINE m == Fresh(c)
<1>1. m.cap = c /\ m.size = 0 /\ m.arr = [s \in 0 .. c - 1 |-> Node("EMPTY", NULL, NULL, 0)]
  BY DEF Fresh
<1>2. Node("EMPTY", NULL, NULL, 0) \in Nodes /\ Node("EMPTY", NULL, NULL, 0).status = "EMPTY"
  BY DEF Node, Nodes
<1>3. IsMap(m)
  <2>1. m.arr \in [0 .. m.cap - 1 -> Nodes]
    BY <1>1, <1>2
  <2>2. QED
    BY <2>1, <1>1 DEF IsMap, Fresh
<1>4. \A s \in 0 .. m.cap - 1 : m.arr[s].status = "EMPTY"
  BY <1>1, <1>2
<1>5. Reinserted(m) = {}
  BY <1>4 DEF Reinserted
<1>6. QED
  BY <1>1, <1>3, <1>4, <1>5, FS_EmptySet DEF Sound, Homed, Reachable, Counted

(* What probing answers. *)
LEMMA ProbingCases ==
    ASSUME NEW m, IsMap(m), NEW k, NEW s \in 0 .. m.cap - 1
    PROVE  /\ probing(m, k, s) = "FOUND" <=>
                 m.arr[s].status = "EMPTY" \/ (m.arr[s].status = "DELETED" /\ OnPath(m, k, s))
           /\ probing(m, k, s) = "REPLACE" <=>
                 m.arr[s].status = "OCCUPIED" /\ OnPath(m, k, s) /\ m.arr[s].key = k
           /\ probing(m, k, s) = "HAS_NEXT" <=>
                 m.arr[s].status = "OCCUPIED" /\ OnPath(m, k, s) /\ m.arr[s].key # k
           /\ probing(m, k, s) \in {"FOUND", "REPLACE", "HAS_NEXT", "NEED_RESIZE"}
<1>1. m.arr[s].status \in {"EMPTY", "OCCUPIED", "DELETED"}
  BY DEF IsMap, Nodes
<1>2. QED
  BY <1>1 DEF probing, OnPath

LEMMA Probing2Cases ==
    ASSUME NEW m, IsMap(m), NEW k, NEW s \in 0 .. m.cap - 1
    PROVE  /\ probing2(m, k, s) = "FOUND" <=>
                 m.arr[s].status = "OCCUPIED" /\ OnPath(m, k, s) /\ m.arr[s].key = k
           /\ OnPath(m, k, s) => probing2(m, k, s) \in {"FOUND", "CONTINUE"}
<1>1. m.arr[s].status \in {"EMPTY", "OCCUPIED", "DELETED"}
  BY DEF IsMap, Nodes
<1>2. QED
  BY <1>1 DEF probing2, OnPath

(* Where Hashmap_set puts a key: in a slot of its own or a free one, to    *)
(* which its probe sequence leads past occupied nodes of other keys.       *)
LEMMA PlaceFound ==
    ASSUME NEW m, IsMap(m), NEW k, HasPlace(m, k)
    PROVE  LET s == SetSlot(m, k)
           IN /\ s \in 0 .. m.cap - 1
              /\ probing(m, k, s) \in {"FOUND", "REPLACE"}
              /\ \E i \in Turns(m, k) :
                    /\ Leads(m, k, i, s)
                    /\ \A j \in Turns(m, k) : j < i => m.arr[Probe(m, k, j)].status = "OCCUPIED"
                                                       /\ m.arr[Probe(m, k, j)].key # k
<1> DEFINE E == SetEnds(m, k)
           i == Min(E)
<1>1. E \in SUBSET Nat /\ E # {} /\ E \subseteq Turns(m, k)
  BY TurnType DEF SetEnds, HasPlace
<1>2. i \in E /\ \A y \in E : i <= y
  <2> HIDE DEF E
  <2>1. QED
    BY <1>1, MinNat
<1>3. i \in Turns(m, k) /\ i \in Nat /\ SetSlot(m, k) = Probe(m, k, i)
      /\ SetSlot(m, k) \in 0 .. m.cap - 1
  BY <1>1, <1>2, TurnType DEF SetSlot
<1>4. probing(m, k, SetSlot(m, k)) \in {"FOUND", "REPLACE"}
  <2>1. probing(m, k, SetSlot(m, k)) # "HAS_NEXT"
    BY <1>2, <1>3 DEF SetEnds
  <2>2. probing(m, k, SetSlot(m, k)) # "NEED_RESIZE"
    BY DEF HasPlace
  <2>3. QED
    BY <2>1, <2>2, <1>3, ProbingCases
<1>5. ASSUME NEW j \in Turns(m, k), j < i
      PROVE  /\ m.arr[Probe(m, k, j)].status = "OCCUPIED"
             /\ OnPath(m, k, Probe(m, k, j))
             /\ m.arr[Probe(m, k, j)].key # k
  <2>1. j \in Nat /\ Probe(m, k, j) \in 0 .. m.cap - 1
    BY TurnType
  <2>2. j \notin E
    BY <1>2, <1>3, <1>5, <2>1
  <2>3. probing(m, k, Probe(m, k, j)) = "HAS_NEXT"
    BY <2>2 DEF SetEnds
  <2>4. QED
    BY <2>1, <2>3, ProbingCases
<1>6. Leads(m, k, i, SetSlot(m, k))
  BY <1>3, <1>5 DEF Leads
<1>7. QED
  BY <1>3, <1>4, <1>5, <1>6

(* node_set changes one node, and counts it if it was not occupied. *)
LEMMA NodeSet ==
    ASSUME NEW m, IsMap(m), NEW k \in Keys, NEW v \in Values, NEW s \in 0 .. m.cap - 1,
           NEW n, n = node_set(m, k, v, s)
    PROVE  /\ IsMap(n)
           /\ n.cap = m.cap
           /\ n.size = (IF probing(m, k, s) = "FOUND" THEN m.size + 1 ELSE m.size)
           /\ \A r \in 0 .. m.cap - 1 : r # s => n.arr[r] = m.arr[r]
           /\ n.arr[s].status = "OCCUPIED" /\ n.arr[s].key = k /\ n.arr[s].value = v
           /\ n.arr[s].hash = Home(m, k)
<1> DEFINE x == Node("OCCUPIED", k, v, Home(m, k))
<1>1. x \in Nodes /\ x.status = "OCCUPIED" /\ x.key = k /\ x.value = v /\ x.hash = Home(m, k)
  BY HomeType DEF Node, Nodes
<1>2. m.arr \in [0 .. m.cap - 1 -> Nodes] /\ m.size \in Nat /\ m.cap \in Nat \ {0}
  BY DEF IsMap
<1>3. /\ n = [m EXCEPT !.arr = [m.arr EXCEPT ![s] = x],
                       !.size = IF probing(m, k, s) = "FOUND" THEN m.size + 1 ELSE m.size]
  BY DEF node_set
<1> HIDE DEF x
<1>4. /\ n.cap = m.cap /\ n.arr = [m.arr EXCEPT ![s] = x]
      /\ n.size = (IF probing(m, k, s) = "FOUND" THEN m.size + 1 ELSE m.size)
  BY <1>3 DEF IsMap
<1>5. n.arr \in [0 .. m.cap - 1 -> Nodes]
  BY <1>1, <1>2, <1>4
<1>6. IsMap(n)
  <2>1. n.cap \in Nat \ {0} /\ n.size \in Nat /\ n.arr \in [0 .. n.cap - 1 -> Nodes]
    BY <1>2, <1>4, <1>5
  <2>2. n = [cap |-> n.cap, size |-> n.size, arr |-> n.arr]
    BY <1>3 DEF IsMap
  <2>3. QED
    BY <2>1, <2>2 DEF IsMap
<1>7. QED
  BY <1>1, <1>2, <1>4, <1>6

(* Homes, probe sequences and turns depend on the capacity only. *)
LEMMA SameCap ==
    ASSUME NEW m, NEW n, n.cap = m.cap, NEW k
    PROVE  /\ Home(n, k) = Home(m, k) /\ Turns(n, k) = Turns(m, k)
           /\ \A i : Probe(n, k, i) = Probe(m, k, i)
  BY DEF Home, Turns, Probe

(* Nodes do not become empty and keep their hash: no search ends earlier. *)
LEMMA LeadsKept ==
    ASSUME NEW m, NEW n, n.cap = m.cap, NEW k, NEW i, NEW s, Leads(m, k, i, s),
           \A r \in 0 .. m.cap - 1 : m.arr[r].status # "EMPTY" =>
              n.arr[r].status # "EMPTY" /\ n.arr[r].hash = m.arr[r].hash
    PROVE  Leads(n, k, i, s)
<1>1. Home(n, k) = Home(m, k) /\ Turns(n, k) = Turns(m, k)
      /\ \A j : Probe(n, k, j) = Probe(m, k, j)
  BY SameCap
<1>2. ASSUME NEW j \in Turns(m, k), j < i PROVE OnPath(n, k, Probe(m, k, j))
  <2>1. Probe(m, k, j) \in 0 .. m.cap - 1 /\ OnPath(m, k, Probe(m, k, j))
    BY <1>2, TurnType DEF Leads
  <2>2. QED
    BY <1>1, <2>1 DEF OnPath
<1>3. QED
  BY <1>1, <1>2 DEF Leads

LEMMA OccupiedFinite ==
    ASSUME NEW m, IsMap(m)
    PROVE  IsFiniteSet(Reinserted(m)) /\ Cardinality(Reinserted(m)) \in Nat
<1>1. m.cap \in Nat /\ Reinserted(m) \subseteq 0 .. m.cap - 1
  BY DEF IsMap, Reinserted
<1>2. IsFiniteSet(0 .. m.cap - 1)
  BY <1>1, FS_Interval
<1>3. IsFiniteSet(Reinserted(m))
  BY <1>1, <1>2, FS_Subset
<1>4. QED
  BY <1>3, FS_CardinalityType

(* Hashmap_set stores its key, in a sound map, and loses no other. *)
LEMMA PlaceSound ==
    ASSUME NEW m, Sound(m), NEW k \in Keys, NEW v \in Values, HasPlace(m, k),
           NEW n, n = node_set(m, k, v, SetSlot(m, k))
    PROVE  /\ Sound(n) /\ n.cap = m.cap
           /\ SetSlot(m, k) \in 0 .. m.cap - 1
           /\ Reinserted(n) = Reinserted(m) \cup {SetSlot(m, k)}
           /\ n.arr[SetSlot(m, k)].key = k /\ n.arr[SetSlot(m, k)].value = v
           /\ \A r \in 0 .. m.cap - 1 : r # SetSlot(m, k) => n.arr[r] = m.arr[r]
           /\ SetSlot(m, k) \in Reinserted(m) => m.arr[SetSlot(m, k)].key = k
<1> DEFINE s == SetSlot(m, k)
<1>1. IsMap(m) /\ Homed(m) /\ Reachable(m) /\ Counted(m)
  BY DEF Sound
<1>2. s \in 0 .. m.cap - 1 /\ probing(m, k, s) \in {"FOUND", "REPLACE"}
  BY <1>1, PlaceFound
<1>3. PICK i \in Turns(m, k) : Leads(m, k, i, s)
  BY <1>1, PlaceFound
<1>4. /\ probing(m, k, s) = "FOUND" => s \notin Reinserted(m)
      /\ probing(m, k, s) = "REPLACE" => s \in Reinserted(m) /\ m.arr[s].key = k
      /\ m.arr[s].status # "EMPTY" => m.arr[s].hash = Home(m, k)
  BY <1>1, <1>2, ProbingCases DEF Reinserted, OnPath
<1> HIDE DEF s
<1>5. /\ IsMap(n) /\ n.cap = m.cap
      /\ n.size = (IF probing(m, k, s) = "FOUND" THEN m.size + 1 ELSE m.size)
      /\ \A r \in 0 .. m.cap - 1 : r # s => n.arr[r] = m.arr[r]
      /\ n.arr[s].status = "OCCUPIED" /\ n.arr[s].key = k /\ n.arr[s].value = v
      /\ n.arr[s].hash = Home(m, k)
  BY <1>1, <1>2, NodeSet DEF s
<1>6. Reinserted(n) = Reinserted(m) \cup {s}
  BY <1>2, <1>5 DEF Reinserted
<1>7. \A r \in 0 .. m.cap - 1 : m.arr[r].status # "EMPTY" =>
         n.arr[r].status # "EMPTY" /\ n.arr[r].hash = m.arr[r].hash
  BY <1>4, <1>5
<1>8. \A h : Home(n, h) = Home(m, h) /\ Turns(n, h) = Turns(m, h)
  BY <1>5, SameCap
<1>9. Homed(n)
  <2> SUFFICES ASSUME NEW r \in Reinserted(n)
               PROVE  n.arr[r].key \in Keys /\ n.arr[r].value \in Values
                      /\ n.arr[r].hash = Home(n, n.arr[r].key)
    BY DEF Homed
  <2>1. CASE r = s
    BY <2>1, <1>5, <1>8
  <2>2. CASE r # s
    <3>1. r \in Reinserted(m) /\ n.arr[r] = m.arr[r]
      BY <2>2, <1>5, <1>6 DEF Reinserted
    <3>2. QED
      BY <3>1, <1>1, <1>8 DEF Homed
  <2>3. QED
    BY <2>1, <2>2
<1>10. Reachable(n)
  <2> SUFFICES ASSUME NEW r \in Reinserted(n)
               PROVE  \E j \in Turns(n, n.arr[r].key) : Leads(n, n.arr[r].key, j, r)
    BY DEF Reachable
  <2>1. CASE r = s
    <3>1. Leads(n, k, i, s)
      BY <1>3, <1>5, <1>7, LeadsKept
    <3>2. QED
      BY <2>1, <3>1, <1>3, <1>5, <1>8
  <2>2. CASE r # s
    <3>1. r \in Reinserted(m) /\ n.arr[r] = m.arr[r]
      BY <2>2, <1>5, <1>6 DEF Reinserted
    <3>2. PICK j \in Turns(m, m.arr[r].key) : Leads(m, m.arr[r].key, j, r)
      BY <3>1, <1>1 DEF Reachable
    <3>3. Leads(n, m.arr[r].key, j, r)
      BY <3>2, <1>5, <1>7, LeadsKept
    <3>4. QED
      BY <3>1, <3>2, <3>3, <1>8
  <2>3. QED
    BY <2>1, <2>2
<1>11. Counted(n)
  <2>1. IsFiniteSet(Reinserted(m)) /\ m.size = Cardinality(Reinserted(m)) /\ m.size \in Nat
    BY <1>1, OccupiedFinite DEF Counted
  <2>2. CASE probing(m, k, s) = "FOUND"
    BY <2>1, <2>2, <1>4, <1>5, <1>6, FS_AddElement, ZenonT(40) DEF Counted
  <2>3. CASE probing(m, k, s) = "REPLACE"
    <3>1. Reinserted(n) = Reinserted(m)
      BY <2>3, <1>4, <1>6
    <3>2. QED
      BY <2>1, <2>3, <3>1, <1>5 DEF Counted
  <2>4. QED
    BY <1>2, <2>2, <2>3 DEF s
<1>12. Sound(n)
  BY <1>5, <1>9, <1>10, <1>11 DEF Sound
<1>13. QED
  BY <1>2, <1>4, <1>5, <1>6, <1>12 DEF s

(* get and delete find a key that is stored ... *)
LEMMA StoredIsFound ==
    ASSUME NEW m, Sound(m), NEW k, NEW s \in Reinserted(m), m.arr[s].key = k
    PROVE  SlotOf(m, k) # -1
<1> DEFINE E == GetEnds(m, k)
           slot == Probe(m, k, Min(E))
<1>1. IsMap(m) /\ Homed(m) /\ Reachable(m)
  BY DEF Sound
<1>2. PICK i \in Turns(m, k) : Leads(m, k, i, s)
  BY <1>1 DEF Reachable
<1>3. s \in 0 .. m.cap - 1 /\ m.arr[s].status = "OCCUPIED" /\ OnPath(m, k, s)
  BY <1>1 DEF Homed, Reinserted, OnPath
<1>4. probing2(m, k, s) = "FOUND"
  BY <1>1, <1>3, Probing2Cases
<1>5. i \in E
  BY <1>2, <1>4 DEF GetEnds, Leads
<1>6. E \in SUBSET Nat /\ E \subseteq Turns(m, k)
  BY TurnType DEF GetEnds
<1>7. Min(E) \in E /\ Min(E) <= i
  <2> HIDE DEF E
  <2>1. QED
    BY <1>5, <1>6, MinNat
<1>8. slot \in 0 .. m.cap - 1 /\ probing2(m, k, slot) # "CONTINUE"
  BY <1>6, <1>7, TurnType DEF GetEnds
<1>9. OnPath(m, k, slot)
  <2>1. CASE Min(E) = i
    BY <2>1, <1>2, <1>3 DEF Leads
  <2>2. CASE Min(E) < i
    BY <2>2, <1>2, <1>6, <1>7 DEF Leads
  <2>3. QED
    <3>1. Min(E) \in Nat /\ i \in Nat
      BY <1>5, <1>6, <1>7
    <3>2. QED
      BY <1>7, <2>1, <2>2, <3>1
<1>10. probing2(m, k, slot) = "FOUND"
  BY <1>1, <1>8, <1>9, Probing2Cases
<1>11. SlotOf(m, k) = slot
  BY <1>5, <1>10 DEF SlotOf
<1>12. QED
  BY <1>8, <1>11 DEF IsMap

(* ... and nothing else. *)
LEMMA FoundIsStored ==
    ASSUME NEW m, IsMap(m), NEW k, SlotOf(m, k) # -1
    PROVE  SlotOf(m, k) \in Reinserted(m) /\ m.arr[SlotOf(m, k)].key = k
<1> DEFINE E == GetEnds(m, k)
           slot == Probe(m, k, Min(E))
<1>1. E # {} /\ probing2(m, k, slot) = "FOUND" /\ SlotOf(m, k) = slot
  BY DEF SlotOf
<1>2. E \in SUBSET Nat /\ E \subseteq Turns(m, k)
  BY TurnType DEF GetEnds
<1>3. Min(E) \in E
  <2> HIDE DEF E
  <2>1. QED
    BY <1>1, <1>2, MinNat
<1>4. slot \in 0 .. m.cap - 1
  BY <1>2, <1>3, TurnType
<1>5. QED
  BY <1>1, <1>4, Probing2Cases DEF Reinserted

(* Hashmap_delete takes one node out and breaks no probe sequence. *)
LEMMA DeleteSound ==
    ASSUME NEW m, Sound(m), NEW k, NEW n, n = Hashmap_delete(m, k)
    PROVE  /\ Sound(n)
           /\ KeysOf(m) \ {k} \subseteq KeysOf(n)
<1>1. IsMap(m) /\ Homed(m) /\ Reachable(m) /\ Counted(m)
  BY DEF Sound
<1>2. CASE SlotOf(m, k) = -1
  <2>1. n = m
    BY <1>2 DEF Hashmap_delete
  <2>2. QED
    BY <2>1
<1>3. CASE SlotOf(m, k) # -1
  <2> DEFINE s == SlotOf(m, k)
             x == Node("DELETED", NULL, NULL, m.arr[s].hash)
  <2>1. s \in Reinserted(m) /\ s \in 0 .. m.cap - 1 /\ m.arr[s].key = k
    BY <1>1, <1>3, FoundIsStored DEF Reinserted
  <2>2. n = [m EXCEPT !.arr = [m.arr EXCEPT ![s] = x], !.size = m.size - 1]
    BY <1>3 DEF Hashmap_delete, node_delete
  <2>3. m.arr \in [0 .. m.cap - 1 -> Nodes] /\ m.size \in Nat /\ m.cap \in Nat \ {0}
    BY <1>1 DEF IsMap
  <2>4. m.arr[s] \in Nodes
    BY <2>1, <2>3
  <2>5. x \in Nodes /\ x.status = "DELETED" /\ x.hash = m.arr[s].hash
    BY <2>4 DEF Node, Nodes
  <2> HIDE DEF s, x
  <2>6. n.cap = m.cap /\ n.arr = [m.arr EXCEPT ![s] = x] /\ n.size = m.size - 1
    BY <2>2, <1>1 DEF IsMap
  <2>7. n.arr[s] = x /\ \A r \in 0 .. m.cap - 1 : r # s => n.arr[r] = m.arr[r]
    BY <2>1, <2>3, <2>6
  <2>8. Reinserted(n) = Reinserted(m) \ {s}
    BY <2>1, <2>5, <2>6, <2>7 DEF Reinserted
  <2>9. IsFiniteSet(Reinserted(m)) /\ Cardinality(Reinserted(m)) \in Nat
    BY <1>1, OccupiedFinite
  <2>10. Cardinality(Reinserted(n)) = m.size - 1 /\ Cardinality(Reinserted(n)) \in Nat
    <3>1. Cardinality(Reinserted(n)) = Cardinality(Reinserted(m)) - 1
      BY <2>1, <2>8, <2>9, FS_RemoveElement
    <3>2. IsFiniteSet(Reinserted(n))
      BY <2>8, <2>9, FS_Subset
    <3>3. QED
      BY <1>1, <3>1, <3>2, FS_CardinalityType DEF Counted
  <2>11. IsMap(n)
    <3>1. n.cap \in Nat \ {0} /\ n.size \in Nat /\ n.arr \in [0 .. n.cap - 1 -> Nodes]
      BY <2>3, <2>5, <2>6, <2>10
    <3>2. n = [cap |-> n.cap, size |-> n.size, arr |-> n.arr]
      BY <2>2, <1>1 DEF IsMap
    <3>3. QED
      BY <3>1, <3>2 DEF IsMap
  <2>12. \A r \in 0 .. m.cap - 1 : m.arr[r].status # "EMPTY" =>
            n.arr[r].status # "EMPTY" /\ n.arr[r].hash = m.arr[r].hash
    BY <2>5, <2>7
  <2>13. \A h : Home(n, h) = Home(m, h) /\ Turns(n, h) = Turns(m, h)
    BY <2>6, SameCap
  <2>14. \A r \in Reinserted(n) : r \in Reinserted(m) /\ n.arr[r] = m.arr[r]
    BY <2>7, <2>8 DEF Reinserted
  <2>15. Homed(n)
    BY <1>1, <2>13, <2>14 DEF Homed
  <2>16. Reachable(n)
    <3> SUFFICES ASSUME NEW r \in Reinserted(n)
                 PROVE  \E j \in Turns(n, n.arr[r].key) : Leads(n, n.arr[r].key, j, r)
      BY DEF Reachable
    <3>1. PICK j \in Turns(m, m.arr[r].key) : Leads(m, m.arr[r].key, j, r)
      BY <2>14, <1>1 DEF Reachable
    <3>2. n.cap = m.cap
      BY <2>6
    <3>3. Leads(n, m.arr[r].key, j, r)
      BY <3>1, <3>2, <2>12, LeadsKept
    <3>4. QED
      BY <2>13, <2>14, <3>1, <3>3
  <2>17. Counted(n)
    BY <2>6, <2>10 DEF Counted
  <2>18. KeysOf(m) \ {k} \subseteq KeysOf(n)
    <3> SUFFICES ASSUME NEW r \in Reinserted(m), m.arr[r].key # k
                 PROVE  m.arr[r].key \in KeysOf(n)
      BY DEF KeysOf
    <3>1. r \in Reinserted(n) /\ n.arr[r] = m.arr[r]
      BY <2>1, <2>7, <2>8 DEF Reinserted
    <3>2. QED
      BY <3>1 DEF KeysOf
  <2>19. QED
    BY <2>11, <2>15, <2>16, <2>17, <2>18 DEF Sound
<1>4. QED
  BY <1>2, <1>3

------------------------------------------------------------------------------
(* The stack of calls *)

LEMMA TopFacts ==
    ASSUME Calls, calls # << >>
    PROVE  /\ Len(calls) \in Nat \ {0} /\ DOMAIN calls = 1 .. Len(calls)
           /\ Len(calls) \in DOMAIN calls /\ 1 \in DOMAIN calls
           /\ Top = calls[Len(calls)] /\ Top \in Frame /\ LeftOK(Top)
<1>1. calls \in Seq(Frame)
  BY DEF Calls
<1>2. Len(calls) \in Nat \ {0} /\ DOMAIN calls = 1 .. Len(calls)
  BY <1>1, EmptySeq, LenProperties
<1>3. Top = calls[Len(calls)]
  BY DEF Top, Last
<1>4. Top \in Frame
  BY <1>1, <1>2, <1>3, ElementOfSeq
<1>5. QED
  BY <1>2, <1>3, <1>4 DEF Calls

LEMMA FrontOf ==
    ASSUME NEW S, NEW q \in Seq(S), q # << >>
    PROVE  /\ Front(q) \in Seq(S)
           /\ Len(Front(q)) = Len(q) - 1
           /\ DOMAIN Front(q) = 1 .. Len(q) - 1
           /\ \A c \in 1 .. Len(q) - 1 : Front(q)[c] = q[c]
<1> DEFINE l == Len(q) - 1
<1>1. l \in Nat /\ \A c \in 1 .. l : q[c] \in S
  BY EmptySeq, ElementOfSeq
<1>2. Front(q) = SubSeq(q, 1, l)
  BY DEF Front
<1> HIDE DEF l
<1>3. /\ Front(q) \in Seq(S)
      /\ Len(Front(q)) = (IF 1 <= l THEN l - 1 + 1 ELSE 0)
      /\ \A c \in 1 .. l - 1 + 1 : Front(q)[c] = q[1 + c - 1]
  BY <1>1, <1>2, SubSeqProperties
<1>4. Len(Front(q)) = l
  BY <1>1, <1>3
<1>5. \A c \in 1 .. l : Front(q)[c] = q[c]
  BY <1>1, <1>3
<1>6. DOMAIN Front(q) = 1 .. l
  BY <1>3, <1>4, LenProperties
<1>7. QED
  BY <1>3, <1>4, <1>5, <1>6 DEF l

LEMMA MovedOf ==
    ASSUME NEW S, NEW q \in Seq(S), q # << >>, NEW f \in S,
           NEW r, r = [q EXCEPT ![Len(q)] = f]
    PROVE  /\ r \in Seq(S)
           /\ Len(r) = Len(q)
           /\ DOMAIN r = 1 .. Len(q)
           /\ r[Len(q)] = f
           /\ \A c \in 1 .. Len(q) - 1 : r[c] = q[c]
<1> DEFINE l == Len(q)
<1>1. l \in Nat \ {0} /\ l \in 1 .. Len(q)
  BY EmptySeq
<1>2. /\ r \in Seq(S) /\ Len(r) = Len(q)
      /\ \A c \in 1 .. Len(q) : r[c] = IF c = l THEN f ELSE q[c]
  BY <1>1, ExceptSeq
<1>3. DOMAIN r = 1 .. Len(q)
  BY <1>2, LenProperties
<1> HIDE DEF l
<1>4. \A c \in 1 .. l : r[c] = IF c = l THEN f ELSE q[c]
  BY <1>2 DEF l
<1>5. r[l] = f /\ \A c \in 1 .. l - 1 : r[c] = q[c]
  BY <1>1, <1>4
<1>6. QED
  BY <1>2, <1>3, <1>5 DEF l

LEMMA CallType ==
    ASSUME NEW k \in Keys, NEW v \in Values
    PROVE  /\ Call(k, v) \in Frame /\ LeftOK(Call(k, v))
           /\ Call(k, v).key = k /\ Call(k, v).value = v /\ Call(k, v).left = {}
           /\ Call(k, v).at = "probing"
<1>1. << >> \in Arrays
  BY DEF Arrays
<1>2. QED
  BY <1>1 DEF Call, Frame, LeftOK

------------------------------------------------------------------------------
(* Every action keeps the invariant *)

LEMMA InitInv == Init => Inv
<1> SUFFICES ASSUME Init PROVE Inv
  OBVIOUS
<1>1. Sound(map) /\ Reinserted(map) = {}
      /\ \A s \in 0 .. map.cap - 1 : map.arr[s].status = "EMPTY"
  BY FreshSound, HashmapAssumption DEF Init, Hashmap_new
<1>2. Dictionary /\ Present = {}
  BY DEF Init, Dictionary, Present
<1>3. calls = << >> /\ calls \in Seq(Frame) /\ DOMAIN calls = {}
  BY EmptySeq DEF Init
<1>4. Calls /\ Kept
  BY <1>2, <1>3 DEF Calls, Kept
<1>5. Clean
  BY <1>1, <1>3 DEF Clean, Undeleted, NoTwins, UpToDate
<1>6. QED
  BY <1>1, <1>2, <1>4, <1>5 DEF Inv

(* A new call: whatever the map holds for its key is out of date. *)
LEMMA SetInv ==
    ASSUME Inv, NEW k \in Keys, NEW v \in Values, Set(k, v)
    PROVE  Inv'
<1>1. /\ calls = << >> /\ calls' = << Call(k, v) >>
      /\ ref' = [ref EXCEPT ![k] = v] /\ map' = map /\ deleting' = deleting
  BY DEF Set
<1>2. Dictionary /\ Sound(map) /\ Calls /\ Kept /\ Clean
  BY DEF Inv
<1>3. /\ ref' \in [Keys -> Values \cup {NULL}] /\ ref'[k] = v
      /\ \A h \in Keys : h # k => ref'[h] = ref[h]
  BY <1>1, <1>2 DEF Dictionary
<1>4. /\ calls' \in Seq(Frame) /\ DOMAIN calls' = {1} /\ calls'[1] = Call(k, v) /\ calls' # << >>
  BY <1>1, CallType
<1>5. Calls'
  BY <1>4, CallType DEF Calls
<1>6. Kept'
  <2> SUFFICES ASSUME NEW h \in Present'
               PROVE  h \in KeysOf(map') \/ \E c \in DOMAIN calls' : Pending(calls'[c], h)
    BY DEF Kept
  <2>1. CASE h = k
    <3>1. Pending(calls'[1], h)
      BY <2>1, <1>4, CallType DEF Pending
    <3>2. QED
      BY <3>1, <1>4
  <2>2. CASE h # k
    <3>1. h \in Present
      BY <2>2, <1>3 DEF Present
    <3>2. DOMAIN calls = {}
      BY <1>1, EmptySeq
    <3>3. h \in KeysOf(map)
      BY <3>1, <3>2, <1>2 DEF Kept
    <3>4. QED
      BY <3>3, <1>1
  <2>3. QED
    BY <2>1, <2>2
<1>7. Clean'
  <2> SUFFICES ASSUME ~deleting' PROVE (Undeleted /\ NoTwins /\ UpToDate)'
    BY DEF Clean
  <2>1. Undeleted /\ NoTwins /\ UpToDate
    BY <1>1, <1>2 DEF Clean
  <2>2. Undeleted' /\ NoTwins'
    BY <2>1, <1>1 DEF Undeleted, NoTwins
  <2>3. ASSUME NEW s \in Reinserted(map) PROVE Current(calls', ref', map.arr[s].key, map.arr[s].value)
    <3>1. map.arr[s].key \in Keys /\ map.arr[s].value = ref[map.arr[s].key]
      BY <1>1, <1>2, <2>1 DEF UpToDate, Current, Sound, Homed
    <3>2. CASE map.arr[s].key = k
      BY <3>2, <1>1, <1>4, CallType DEF Current
    <3>3. CASE map.arr[s].key # k
      BY <3>1, <3>3, <1>1, <1>3 DEF Current
    <3>4. QED
      BY <3>2, <3>3
  <2>4. calls'[1].key = k /\ calls'[1].value = v /\ calls'[1].left = {}
    BY <1>4, CallType
  <2>5. UpToDate'
    BY <2>3, <2>4, <1>1, <1>3, <1>4 DEF UpToDate, Current
  <2>6. QED
    BY <2>2, <2>5
<1>8. Sound(map)' /\ Dictionary'
  BY <1>1, <1>2, <1>3 DEF Dictionary
<1>9. QED
  BY <1>5, <1>6, <1>7, <1>8 DEF Inv

LEMMA DeleteInv ==
    ASSUME Inv, NEW k \in Keys, Delete(k)
    PROVE  Inv'
<1>1. /\ calls = << >> /\ calls' = calls /\ deleting' = TRUE
      /\ ref' = [ref EXCEPT ![k] = NULL] /\ map' = Hashmap_delete(map, k)
  BY DEF Delete
<1>2. Dictionary /\ Sound(map) /\ Calls /\ Kept
  BY DEF Inv
<1>3. Sound(map') /\ KeysOf(map) \ {k} \subseteq KeysOf(map')
  BY <1>1, <1>2, DeleteSound
<1>4. /\ ref' \in [Keys -> Values \cup {NULL}] /\ ref'[k] = NULL
      /\ \A h \in Keys : h # k => ref'[h] = ref[h]
  BY <1>1, <1>2 DEF Dictionary
<1>5. Kept'
  <2> SUFFICES ASSUME NEW h \in Present' PROVE h \in KeysOf(map')
    BY DEF Kept
  <2>1. h \in Present /\ h # k
    BY <1>4 DEF Present
  <2>2. DOMAIN calls = {}
    BY <1>1, EmptySeq
  <2>3. QED
    BY <2>1, <2>2, <1>2, <1>3 DEF Kept
<1>6. Calls' /\ Dictionary' /\ Clean'
  BY <1>1, <1>2, <1>4 DEF Calls, Dictionary, Clean
<1>7. QED
  BY <1>3, <1>5, <1>6 DEF Inv

(* Before any deletion, a key that is stored is where Hashmap_set puts it. *)
LEMMA OneSlot ==
    ASSUME Sound(map), Undeleted, NoTwins, NEW k, HasPlace(map, k),
           NEW r \in Reinserted(map), map.arr[r].key = k
    PROVE  r = SetSlot(map, k)
<1> DEFINE s == SetSlot(map, k)
<1>1. IsMap(map) /\ Reachable(map)
  BY DEF Sound
<1>2. s \in 0 .. map.cap - 1 /\ probing(map, k, s) \in {"FOUND", "REPLACE"}
  BY <1>1, PlaceFound
<1>3. PICK i \in Turns(map, k) :
         /\ Leads(map, k, i, s)
         /\ \A j \in Turns(map, k) : j < i => map.arr[Probe(map, k, j)].key # k
  BY <1>1, PlaceFound
<1>4. PICK i2 \in Turns(map, k) : Leads(map, k, i2, r)
  BY <1>1 DEF Reachable
<1>5. i \in Nat /\ i2 \in Nat
  BY TurnType
<1>6. CASE i2 < i
  BY <1>3, <1>4, <1>6 DEF Leads
<1>7. CASE i2 = i
  BY <1>3, <1>4, <1>7 DEF Leads
<1>8. CASE i < i2
  <2>1. OnPath(map, k, s)
    BY <1>3, <1>4, <1>8 DEF Leads
  <2>2. map.arr[s].status \notin {"EMPTY", "DELETED"}
    BY <2>1, <1>2 DEF OnPath, Undeleted
  <2>3. probing(map, k, s) = "REPLACE"
    BY <2>2, <1>1, <1>2, ProbingCases
  <2>4. s \in Reinserted(map) /\ map.arr[s].key = k
    BY <2>3, <1>1, <1>2, ProbingCases DEF Reinserted
  <2>5. QED
    BY <2>4 DEF NoTwins
<1>9. QED
  BY <1>5, <1>6, <1>7, <1>8

LEMMA PlaceInv == Inv /\ Place => Inv'
<1> SUFFICES ASSUME Inv, Place PROVE Inv'
  OBVIOUS
<1> DEFINE k == Top.key
           v == Top.value
           s == SetSlot(map, k)
           l == Len(calls)
<1>1. Dictionary /\ Sound(map) /\ Calls /\ Kept /\ Clean
  BY DEF Inv
<1>2. /\ calls # << >> /\ Top.at = "probing" /\ HasPlace(map, k)
      /\ map' = node_set(map, k, v, s) /\ calls' = Front(calls)
      /\ ref' = ref /\ deleting' = deleting
  BY DEF Place, At
<1>3. /\ l \in Nat \ {0} /\ DOMAIN calls = 1 .. l
      /\ Top = calls[l] /\ k \in Keys /\ v \in Values /\ Top.left = {}
  BY <1>1, <1>2, TopFacts DEF Frame, LeftOK
<1>4. /\ calls' \in Seq(Frame) /\ Len(calls') = l - 1 /\ DOMAIN calls' = 1 .. l - 1
      /\ \A c \in 1 .. l - 1 : calls'[c] = calls[c]
  BY <1>1, <1>2, FrontOf DEF Calls
<1> HIDE DEF k, v, s, l
<1>5. /\ Sound(map') /\ map'.cap = map.cap
      /\ s \in 0 .. map.cap - 1
      /\ Reinserted(map') = Reinserted(map) \cup {s}
      /\ map'.arr[s].key = k /\ map'.arr[s].value = v
      /\ \A r \in 0 .. map.cap - 1 : r # s => map'.arr[r] = map.arr[r]
      /\ s \in Reinserted(map) => map.arr[s].key = k
  BY <1>1, <1>2, <1>3, PlaceSound DEF s
<1>6. \A r \in Reinserted(map) : r \in 0 .. map.cap - 1 /\ r \in Reinserted(map')
                                 /\ map'.arr[r].key = map.arr[r].key
  BY <1>5 DEF Reinserted
<1>7. Calls'
  BY <1>1, <1>3, <1>4 DEF Calls
<1>8. Kept'
  <2> SUFFICES ASSUME NEW h \in Present
               PROVE  h \in KeysOf(map') \/ \E c \in DOMAIN calls' : Pending(calls'[c], h)
    BY <1>2 DEF Kept, Present
  <2>1. CASE h \in KeysOf(map)
    BY <2>1, <1>6 DEF KeysOf
  <2>2. ASSUME NEW c \in DOMAIN calls, Pending(calls[c], h)
        PROVE  h \in KeysOf(map') \/ \E d \in DOMAIN calls' : Pending(calls'[d], h)
    <3>1. CASE c = l
      <4>1. h = k
        BY <2>2, <3>1, <1>3 DEF Pending, k
      <4>2. QED
        BY <4>1, <1>5 DEF KeysOf
    <3>2. CASE c # l
      <4>1. c \in DOMAIN calls' /\ calls'[c] = calls[c]
        BY <3>2, <1>3, <1>4
      <4>2. QED
        BY <2>2, <4>1
    <3>3. QED
      BY <3>1, <3>2
  <2>3. QED
    BY <2>1, <2>2, <1>1 DEF Kept
<1>9. Clean'
  <2> SUFFICES ASSUME ~deleting PROVE (Undeleted /\ NoTwins /\ UpToDate)'
    BY <1>2 DEF Clean
  <2>1. Undeleted /\ NoTwins /\ UpToDate
    BY <1>1 DEF Clean
  <2>2. \A r \in Reinserted(map) : map.arr[r].key = k => r = s
    BY <1>1, <1>2, <2>1, OneSlot DEF s
  <2>3. Undeleted'
    <3>1. map'.arr[s].status = "OCCUPIED"
      BY <1>5 DEF Reinserted
    <3>2. QED
      BY <3>1, <1>5, <2>1 DEF Undeleted
  <2>4. \A r \in Reinserted(map') : r # s => r \in Reinserted(map) /\ map'.arr[r] = map.arr[r]
                                             /\ map.arr[r].key # k
    BY <1>5, <1>6, <2>2
  <2>5. NoTwins'
    BY <2>1, <2>4, <1>5 DEF NoTwins
  <2>6. CASE l = 1
    <3>1. v = ref[k] /\ calls[1].key = k
      BY <2>1, <2>6, <1>2, <1>3 DEF UpToDate, k, v
    <3>2. DOMAIN calls' = {} /\ calls' = << >>
      BY <2>6, <1>4, EmptySeq
    <3>3. \A r \in Reinserted(map') : map'.arr[r].value = ref[map'.arr[r].key]
      BY <2>1, <2>4, <1>5, <3>1 DEF UpToDate, Current
    <3>4. QED
      BY <2>3, <2>5, <3>2, <3>3, <1>2 DEF UpToDate, Current
  <2>7. CASE l # 1
    <3>1. 1 \in 1 .. l - 1 /\ calls'[1] = calls[1] /\ calls' # << >>
      BY <2>7, <1>3, <1>4, EmptySeq
    <3>2. \A a, b : Current(calls', ref', a, b) <=> Current(calls, ref, a, b)
      BY <3>1, <1>2 DEF Current
    <3>3. Current(calls, ref, k, v)
      BY <2>1, <1>3 DEF UpToDate, k, v
    <3>4. \A r \in Reinserted(map') : Current(calls', ref', map'.arr[r].key, map'.arr[r].value)
      BY <2>1, <2>4, <1>5, <3>2, <3>3 DEF UpToDate
    <3>5. \A c \in DOMAIN calls' :
             /\ Current(calls, ref, calls[c].key, calls[c].value)
             /\ \A r \in calls[c].left : Current(calls, ref, calls[c].old[r].key, calls[c].old[r].value)
      BY <2>1, <1>3, <1>4 DEF UpToDate
    <3>6. calls[1].value = ref[calls[1].key]
      BY <2>1, <1>2 DEF UpToDate
    <3>7. UpToDate'
      BY <3>1, <3>2, <3>4, <3>5, <3>6, <1>2, <1>4 DEF UpToDate
    <3>8. QED
      BY <2>3, <2>5, <3>7
  <2>8. QED
    BY <2>6, <2>7
<1>10. QED
  BY <1>1, <1>2, <1>5, <1>7, <1>8, <1>9 DEF Inv, Dictionary

(* What the map held is left to the frame, which keeps its key. *)
LEMMA ResizeInv == Inv /\ Resize => Inv'
<1> SUFFICES ASSUME Inv, Resize PROVE Inv'
  OBVIOUS
<1> DEFINE l == Len(calls)
           f == [Top EXCEPT !.at = "resizing", !.old = map.arr, !.left = Reinserted(map)]
<1>1. Dictionary /\ Sound(map) /\ Calls /\ Kept /\ Clean
  BY DEF Inv
<1>2. /\ calls # << >> /\ Top.at = "probing" /\ calls' = Moved(f)
      /\ map' = Fresh(2 * map.cap) /\ ref' = ref /\ deleting' = deleting
  BY DEF Resize, At
<1>3. /\ l \in Nat \ {0} /\ DOMAIN calls = 1 .. l /\ Top = calls[l] /\ Top \in Frame
      /\ Top.left = {}
  BY <1>1, <1>2, TopFacts DEF LeftOK
<1>4. map.cap \in Nat \ {0} /\ map.arr \in [0 .. map.cap - 1 -> Nodes] /\ Homed(map)
  BY <1>1 DEF Sound, IsMap
<1>5. /\ f.key = Top.key /\ f.value = Top.value /\ f.at = "resizing" /\ f.old = map.arr
      /\ f.left = Reinserted(map) /\ f \in Frame
  <2>1. map.arr \in Arrays /\ Reinserted(map) \in SUBSET Nat
    BY <1>4 DEF Arrays, Reinserted
  <2>2. QED
    BY <2>1, <1>3 DEF Frame
<1> HIDE DEF f
<1>6. /\ calls' \in Seq(Frame) /\ DOMAIN calls' = 1 .. l /\ calls'[l] = f
      /\ \A c \in 1 .. l - 1 : calls'[c] = calls[c]
  BY <1>1, <1>2, <1>5, MovedOf DEF Calls, Moved
<1> HIDE DEF l
<1>7. /\ Sound(map') /\ Reinserted(map') = {}
      /\ \A s \in 0 .. map'.cap - 1 : map'.arr[s].status = "EMPTY"
  BY <1>2, <1>4, FreshSound
<1>8. calls' # << >> /\ calls'[1].key = calls[1].key /\ calls'[1].value = calls[1].value
  BY <1>3, <1>5, <1>6, EmptySeq
<1>9. LeftOK(f)
  BY <1>4, <1>5 DEF LeftOK, Homed
<1>10. Calls'
  <2>1. \A c \in 1 .. l : c = l \/ c \in 1 .. l - 1
    BY <1>3
  <2>2. QED
    BY <2>1, <1>1, <1>3, <1>6, <1>9 DEF Calls
<1>11. Kept'
  <2> SUFFICES ASSUME NEW h \in Present PROVE \E c \in DOMAIN calls' : Pending(calls'[c], h)
    BY <1>2 DEF Kept, Present
  <2>1. CASE h \in KeysOf(map)
    <3>1. Pending(f, h)
      BY <2>1, <1>5 DEF KeysOf, Pending
    <3>2. QED
      BY <3>1, <1>3, <1>6
  <2>2. ASSUME NEW c \in DOMAIN calls, Pending(calls[c], h)
        PROVE  \E d \in DOMAIN calls' : Pending(calls'[d], h)
    <3>1. CASE c = l
      <4>1. Pending(f, h)
        BY <2>2, <3>1, <1>3, <1>5 DEF Pending
      <4>2. QED
        BY <4>1, <1>3, <1>6
    <3>2. CASE c # l
      <4>1. c \in DOMAIN calls' /\ calls'[c] = calls[c]
        BY <3>2, <1>3, <1>6
      <4>2. QED
        BY <2>2, <4>1
    <3>3. QED
      BY <3>1, <3>2
  <2>3. QED
    BY <2>1, <2>2, <1>1 DEF Kept
<1>12. Clean'
  <2> SUFFICES ASSUME ~deleting PROVE (Undeleted /\ NoTwins /\ UpToDate)'
    BY <1>2 DEF Clean
  <2>1. UpToDate
    BY <1>1 DEF Clean
  <2>2. Undeleted' /\ NoTwins'
    BY <1>7 DEF Undeleted, NoTwins
  <2>3. \A a, b : Current(calls', ref', a, b) <=> Current(calls, ref, a, b)
    BY <1>2, <1>8 DEF Current
  <2>4. ASSUME NEW c \in DOMAIN calls'
        PROVE  /\ Current(calls, ref, calls'[c].key, calls'[c].value)
               /\ \A s \in calls'[c].left : Current(calls, ref, calls'[c].old[s].key,
                                                    calls'[c].old[s].value)
    <3>1. CASE c = l
      BY <3>1, <2>1, <1>3, <1>5, <1>6 DEF UpToDate
    <3>2. CASE c # l
      <4>1. c \in DOMAIN calls /\ calls'[c] = calls[c]
        BY <3>2, <1>3, <1>6
      <4>2. QED
        BY <4>1, <2>1 DEF UpToDate
    <3>3. QED
      BY <3>1, <3>2
  <2>5. calls'[1].value = ref'[calls'[1].key]
    BY <2>1, <1>2, <1>8 DEF UpToDate
  <2>6. UpToDate'
    BY <2>3, <2>4, <2>5, <1>7 DEF UpToDate
  <2>7. QED
    BY <2>2, <2>6
<1>13. QED
  BY <1>1, <1>2, <1>7, <1>10, <1>11, <1>12 DEF Inv, Dictionary

(* A node moves from the frame to a call of its own. *)
LEMMA ReinsertInv == Inv /\ Reinsert => Inv'
<1> SUFFICES ASSUME Inv, Reinsert PROVE Inv'
  OBVIOUS
<1> DEFINE l == Len(calls)
           s == Min(Top.left)
           f == [Top EXCEPT !.left = Top.left \ {s}]
           g == Call(Top.old[s].key, Top.old[s].value)
<1>1. Dictionary /\ Sound(map) /\ Calls /\ Kept /\ Clean
  BY DEF Inv
<1>2. /\ calls # << >> /\ Top.at = "resizing" /\ Top.left # {}
      /\ calls' = Append(Moved(f), g)
      /\ map' = map /\ ref' = ref /\ deleting' = deleting
  BY DEF Reinsert, At
<1>3. /\ l \in Nat \ {0} /\ DOMAIN calls = 1 .. l /\ Top = calls[l] /\ Top \in Frame
      /\ LeftOK(Top) /\ Top.left \in SUBSET Nat
  BY <1>1, <1>2, TopFacts DEF Frame
<1>4. s \in Top.left
  BY <1>2, <1>3, MinNat
<1>5. /\ f.key = Top.key /\ f.value = Top.value /\ f.at = "resizing" /\ f.old = Top.old
      /\ f.left = Top.left \ {s} /\ f \in Frame
  BY <1>2, <1>3 DEF Frame
<1>6. /\ g \in Frame /\ g.key = Top.old[s].key /\ g.value = Top.old[s].value
      /\ g.left = {} /\ LeftOK(g)
  <2> HIDE DEF s
  <2>1. Top.old[s].key \in Keys /\ Top.old[s].value \in Values
    BY <1>3, <1>4 DEF LeftOK
  <2>2. QED
    BY <2>1, CallType
<1>7. LeftOK(f)
  BY <1>3, <1>5 DEF LeftOK
<1> HIDE DEF f, g, s
<1>8. /\ Moved(f) \in Seq(Frame) /\ Len(Moved(f)) = l /\ Moved(f)[l] = f
      /\ \A c \in 1 .. l - 1 : Moved(f)[c] = calls[c]
  BY <1>1, <1>2, <1>5, MovedOf DEF Calls, Moved
<1> HIDE DEF l
<1>9. /\ calls' \in Seq(Frame) /\ DOMAIN calls' = 1 .. l + 1 /\ calls' # << >>
      /\ calls'[l + 1] = g /\ \A c \in 1 .. l : calls'[c] = Moved(f)[c]
  <2>1. /\ calls' \in Seq(Frame) /\ Len(calls') = l + 1 /\ calls' # << >>
        /\ calls'[l + 1] = g /\ \A c \in 1 .. l : calls'[c] = Moved(f)[c]
    BY <1>2, <1>6, <1>8, AppendProperties
  <2>2. QED
    BY <2>1, LenProperties
<1>10. calls'[l] = f /\ calls'[l + 1] = g /\ \A c \in 1 .. l - 1 : calls'[c] = calls[c]
  BY <1>3, <1>8, <1>9
<1>11. calls'[1].key = calls[1].key /\ calls'[1].value = calls[1].value
  BY <1>3, <1>5, <1>10
<1>12. \A c \in DOMAIN calls' : c = l + 1 \/ c = l \/ (c \in 1 .. l - 1 /\ c \in DOMAIN calls)
  BY <1>3, <1>9
<1>13. Calls'
  BY <1>1, <1>6, <1>7, <1>9, <1>10, <1>12 DEF Calls
<1>14. Kept'
  <2> SUFFICES ASSUME NEW h \in Present
               PROVE  h \in KeysOf(map) \/ \E c \in DOMAIN calls' : Pending(calls'[c], h)
    BY <1>2 DEF Kept, Present
  <2>1. ASSUME NEW c \in DOMAIN calls, Pending(calls[c], h)
        PROVE  \E d \in DOMAIN calls' : Pending(calls'[d], h)
    <3>1. CASE c = l
      <4>1. Pending(f, h) \/ Pending(g, h)
        BY <2>1, <3>1, <1>3, <1>5, <1>6 DEF Pending
      <4>2. l \in DOMAIN calls' /\ l + 1 \in DOMAIN calls'
        BY <1>3, <1>9
      <4>3. QED
        BY <4>1, <4>2, <1>10
    <3>2. CASE c # l
      <4>1. c \in DOMAIN calls' /\ calls'[c] = calls[c]
        BY <3>2, <1>3, <1>9, <1>10
      <4>2. QED
        BY <2>1, <4>1
    <3>3. QED
      BY <3>1, <3>2
  <2>2. QED
    BY <2>1, <1>1 DEF Kept
<1>15. Clean'
  <2> SUFFICES ASSUME ~deleting PROVE (Undeleted /\ NoTwins /\ UpToDate)'
    BY <1>2 DEF Clean
  <2>1. Undeleted /\ NoTwins /\ UpToDate
    BY <1>1 DEF Clean
  <2>2. Undeleted' /\ NoTwins'
    BY <2>1, <1>2 DEF Undeleted, NoTwins
  <2>3. \A a, b : Current(calls', ref', a, b) <=> Current(calls, ref, a, b)
    BY <1>2, <1>9, <1>11 DEF Current
  <2>4. /\ Current(calls, ref, Top.key, Top.value)
        /\ \A r \in Top.left : Current(calls, ref, Top.old[r].key, Top.old[r].value)
    BY <2>1, <1>3 DEF UpToDate
  <2>5. ASSUME NEW c \in DOMAIN calls'
        PROVE  /\ Current(calls, ref, calls'[c].key, calls'[c].value)
               /\ \A r \in calls'[c].left : Current(calls, ref, calls'[c].old[r].key,
                                                    calls'[c].old[r].value)
    <3>1. CASE c = l
      BY <3>1, <2>4, <1>5, <1>10
    <3>2. CASE c = l + 1
      BY <3>2, <2>4, <1>4, <1>6, <1>10
    <3>3. CASE c \in 1 .. l - 1 /\ c \in DOMAIN calls
      BY <3>3, <2>1, <1>10 DEF UpToDate
    <3>4. QED
      BY <3>1, <3>2, <3>3, <1>12
  <2>6. calls'[1].value = ref'[calls'[1].key]
    BY <2>1, <1>2, <1>11 DEF UpToDate
  <2>7. \A r \in Reinserted(map') : Current(calls, ref, map'.arr[r].key, map'.arr[r].value)
    BY <2>1, <1>2 DEF UpToDate
  <2>8. UpToDate'
    BY <2>3, <2>5, <2>6, <2>7 DEF UpToDate
  <2>9. QED
    BY <2>2, <2>8
<1>16. QED
  BY <1>1, <1>2, <1>13, <1>14, <1>15 DEF Inv, Dictionary

(* The innermost call, which has no node left to set again, goes on as f. *)
LEMMA MovedInv ==
    ASSUME Inv, NEW f \in Frame, LeftOK(f), f.left = {},
           calls # << >>, Top.left = {}, f.key = Top.key, f.value = Top.value,
           calls' = Moved(f), map' = map, ref' = ref, deleting' = deleting
    PROVE  Inv'
<1> DEFINE l == Len(calls)
<1>1. Dictionary /\ Sound(map) /\ Calls /\ Kept /\ Clean
  BY DEF Inv
<1>2. /\ calls # << >> /\ Top.left = {} /\ calls' = Moved(f)
      /\ map' = map /\ ref' = ref /\ deleting' = deleting
  OBVIOUS
<1>3. l \in Nat \ {0} /\ DOMAIN calls = 1 .. l /\ Top = calls[l]
  BY <1>1, <1>2, TopFacts
<1>4. f \in Frame /\ LeftOK(f) /\ f.key = Top.key /\ f.value = Top.value /\ f.left = {}
  OBVIOUS
<1>5. /\ calls' \in Seq(Frame) /\ DOMAIN calls' = 1 .. l /\ calls'[l] = f
      /\ \A c \in 1 .. l - 1 : calls'[c] = calls[c]
  BY <1>1, <1>2, <1>4, MovedOf DEF Calls, Moved
<1> HIDE DEF l
<1>6. calls' # << >> /\ calls'[1].key = calls[1].key /\ calls'[1].value = calls[1].value
  BY <1>3, <1>4, <1>5, EmptySeq
<1>7. \A c \in DOMAIN calls' : c \in DOMAIN calls /\ (c = l \/ calls'[c] = calls[c])
  BY <1>3, <1>5
<1>8. Calls'
  BY <1>1, <1>4, <1>5, <1>7 DEF Calls
<1>9. Kept'
  <2>1. \A c \in DOMAIN calls : \A h : Pending(calls[c], h) => Pending(calls'[c], h)
    BY <1>2, <1>3, <1>4, <1>5, <1>7 DEF Pending
  <2>2. QED
    BY <2>1, <1>1, <1>2, <1>3, <1>5 DEF Kept, Present
<1>10. Clean'
  <2> SUFFICES ASSUME ~deleting PROVE (Undeleted /\ NoTwins /\ UpToDate)'
    BY <1>2 DEF Clean
  <2>1. Undeleted /\ NoTwins /\ UpToDate
    BY <1>1 DEF Clean
  <2>2. Undeleted' /\ NoTwins'
    BY <2>1, <1>2 DEF Undeleted, NoTwins
  <2>3. \A a, b : Current(calls', ref', a, b) <=> Current(calls, ref, a, b)
    BY <1>2, <1>6 DEF Current
  <2>4. ASSUME NEW c \in DOMAIN calls'
        PROVE  /\ Current(calls, ref, calls'[c].key, calls'[c].value)
               /\ \A r \in calls'[c].left : Current(calls, ref, calls'[c].old[r].key,
                                                    calls'[c].old[r].value)
    <3>1. CASE c = l
      BY <3>1, <2>1, <1>3, <1>4, <1>5 DEF UpToDate
    <3>2. CASE c # l
      BY <3>2, <2>1, <1>7 DEF UpToDate
    <3>3. QED
      BY <3>1, <3>2
  <2>5. calls'[1].value = ref'[calls'[1].key]
    BY <2>1, <1>2, <1>6 DEF UpToDate
  <2>6. \A r \in Reinserted(map') : Current(calls, ref, map'.arr[r].key, map'.arr[r].value)
    BY <2>1, <1>2 DEF UpToDate
  <2>7. UpToDate'
    BY <2>3, <2>4, <2>5, <2>6 DEF UpToDate
  <2>8. QED
    BY <2>2, <2>7
<1>11. QED
  BY <1>1, <1>2, <1>8, <1>9, <1>10 DEF Inv, Dictionary

LEMMA EndResizeInv == Inv /\ EndResize => Inv'
<1> SUFFICES ASSUME Inv, EndResize PROVE Inv'
  OBVIOUS
<1> DEFINE f == Call(Top.key, Top.value)
<1>1. /\ calls # << >> /\ Top.left = {} /\ calls' = Moved(f)
      /\ map' = map /\ ref' = ref /\ deleting' = deleting
  BY DEF EndResize, At
<1>2. Top.key \in Keys /\ Top.value \in Values
  BY <1>1, TopFacts DEF Inv, Frame
<1>3. f \in Frame /\ LeftOK(f) /\ f.key = Top.key /\ f.value = Top.value /\ f.left = {}
  BY <1>2, CallType
<1> HIDE DEF f
<1>4. QED
  BY <1>1, <1>3, MovedInv

LEMMA ResizeFailsInv == Inv /\ ResizeFails => Inv'
<1> SUFFICES ASSUME Inv, ResizeFails PROVE Inv'
  OBVIOUS
<1> DEFINE f == [Top EXCEPT !.at = "crashed"]
<1>1. /\ calls # << >> /\ Top.at = "probing" /\ calls' = Moved(f)
      /\ map' = map /\ ref' = ref /\ deleting' = deleting
  BY DEF ResizeFails, At
<1>2. Top \in Frame /\ Top.left = {}
  BY <1>1, TopFacts DEF Inv, LeftOK
<1>3. f \in Frame /\ f.key = Top.key /\ f.value = Top.value /\ f.left = {}
  BY <1>2 DEF Frame
<1>4. LeftOK(f)
  BY <1>3 DEF LeftOK
<1> HIDE DEF f
<1>5. QED
  BY <1>1, <1>2, <1>3, <1>4, MovedInv

LEMMA InvInductive == Inv /\ [Next]_vars => Inv'
<1> SUFFICES ASSUME Inv, [Next]_vars PROVE Inv'
  OBVIOUS
<1>1. CASE UNCHANGED vars
  BY <1>1 DEF vars, Inv, Dictionary, Calls, Kept, Present, Clean, Undeleted, NoTwins, UpToDate
<1>2. QED
  BY <1>1, SetInv, DeleteInv, PlaceInv, ResizeInv, ResizeFailsInv, ReinsertInv,
     EndResizeInv
  DEF Next, Hashmap_set

LEMMA Invariant == Spec => []Inv
  BY InitInv, InvInductive, PTL DEF Spec

------------------------------------------------------------------------------
(***************************************************************************)
(* Every node of the map is one that probing can interpret: what is stored *)
(* as the hash of an occupied node is the home of its key in the array it  *)
(* is in, through all resizes.                                             *)
(***************************************************************************)
THEOREM TypeCorrect == Spec => []TypeOK
<1>1. Inv => TypeOK
  <2> SUFFICES ASSUME Inv PROVE TypeOK
    OBVIOUS
  <2>1. IsMap(map) /\ Homed(map) /\ Dictionary /\ Calls
    BY DEF Inv, Sound
  <2>2. /\ map.cap \in Nat \ {0} /\ map.size \in Nat /\ DOMAIN map.arr = 0 .. map.cap - 1
        /\ \A s \in 0 .. map.cap - 1 : map.arr[s].status \in {"EMPTY", "OCCUPIED", "DELETED"}
    BY <2>1 DEF IsMap, Nodes
  <2>3. \A s \in 0 .. map.cap - 1 : map.arr[s].status = "OCCUPIED" => s \in Reinserted(map)
    BY DEF Reinserted
  <2>4. \A c \in DOMAIN calls : calls[c].key \in Keys /\ calls[c].value \in Values
    <3>1. \A c \in DOMAIN calls : calls[c] \in Frame
      BY <2>1, LenProperties DEF Calls
    <3>2. QED
      BY <3>1 DEF Frame
  <2>5. QED
    BY <2>1, <2>2, <2>3, <2>4 DEF TypeOK, Homed, Dictionary
<1>2. QED
  BY <1>1, Invariant, PTL

(***************************************************************************)
(* A key that was set is found until it is deleted, for any hash function, *)
(* any keys that collide, any deletions before it and any resizes: nodes   *)
(* never become empty again nor change their hash, so that no search ends  *)
(* before it has come to the key (LeadsKept).                              *)
(***************************************************************************)
THEOREM NeverLostCorrect == Spec => []NeverLost
<1>1. Inv => NeverLost
  <2> SUFFICES ASSUME Inv, calls = << >>, NEW k \in Present PROVE Hashmap_get(map, k) # NULL
    BY DEF NeverLost
  <2>1. Sound(map) /\ Kept /\ IsMap(map) /\ Homed(map)
    BY DEF Inv, Sound
  <2>2. DOMAIN calls = {}
    BY EmptySeq
  <2>3. k \in KeysOf(map)
    BY <2>1, <2>2 DEF Kept
  <2>4. PICK s \in Reinserted(map) : map.arr[s].key = k
    BY <2>3 DEF KeysOf
  <2>5. SlotOf(map, k) # -1
    BY <2>1, <2>4, StoredIsFound
  <2>6. SlotOf(map, k) \in Reinserted(map)
    BY <2>1, <2>5, FoundIsStored
  <2>7. map.arr[SlotOf(map, k)].value \in Values
    BY <2>1, <2>6 DEF Homed
  <2>8. QED
    BY <2>5, <2>7, HashmapAssumption DEF Hashmap_get
<1>2. QED
  BY <1>1, Invariant, PTL

(***************************************************************************)
(* A map that is only set into is a dictionary: get returns what was set   *)
(* last, or NULL, and size counts the keys.  Keys and occupied slots then  *)
(* correspond one to one (NoTwins).                                        *)
(***************************************************************************)
THEOREM DictionaryCorrect == Spec => []SetsMakeADictionary
<1>1. Inv => SetsMakeADictionary
  <2> SUFFICES ASSUME Inv, calls = << >>, ~deleting
               PROVE  /\ \A k \in Keys : Hashmap_get(map, k) = ref[k]
                      /\ map.size = Cardinality(Present)
    BY DEF SetsMakeADictionary
  <2>1. /\ Sound(map) /\ IsMap(map) /\ Homed(map) /\ Counted(map) /\ Kept /\ Dictionary
        /\ NoTwins /\ UpToDate
    BY DEF Inv, Sound, Clean
  <2>2. DOMAIN calls = {}
    BY EmptySeq
  <2>3. \A s \in Reinserted(map) : /\ map.arr[s].key \in Keys
                                   /\ map.arr[s].value = ref[map.arr[s].key]
                                   /\ map.arr[s].value \in Values
    BY <2>1 DEF UpToDate, Current, Homed
  <2>4. \A s \in Reinserted(map) : map.arr[s].key \in Present
    BY <2>3, HashmapAssumption DEF Present
  <2>5. \A k \in Present : \E s \in Reinserted(map) : map.arr[s].key = k
    BY <2>1, <2>2 DEF Kept, KeysOf
  <2>6. ASSUME NEW k \in Keys PROVE Hashmap_get(map, k) = ref[k]
    <3>1. CASE SlotOf(map, k) = -1
      <4>1. k \notin Present
        BY <2>1, <2>5, <3>1, StoredIsFound
      <4>2. QED
        BY <4>1, <3>1 DEF Present, Hashmap_get
    <3>2. CASE SlotOf(map, k) # -1
      <4>1. SlotOf(map, k) \in Reinserted(map) /\ map.arr[SlotOf(map, k)].key = k
        BY <2>1, <3>2, FoundIsStored
      <4>2. QED
        BY <2>3, <4>1, <3>2 DEF Hashmap_get
    <3>3. QED
      BY <3>1, <3>2
  <2>7. map.size = Cardinality(Present)
    <3> DEFINE b == [s \in Reinserted(map) |-> map.arr[s].key]
    <3>1. b \in Bijection(Reinserted(map), Present)
      <4>1. b \in [Reinserted(map) -> Present]
        BY <2>4
      <4>2. \A r, s \in Reinserted(map) : b[r] = b[s] => r = s
        BY <2>1 DEF NoTwins
      <4>3. \A k \in Present : \E s \in Reinserted(map) : b[s] = k
        BY <2>5
      <4>4. QED
        BY <4>1, <4>2, <4>3, Fun_IsBij
    <3>2. IsFiniteSet(Reinserted(map))
      BY <2>1, OccupiedFinite
    <3>3. Cardinality(Present) = Cardinality(Reinserted(map))
      <4> HIDE DEF b
      <4>1. ExistsBijection(Reinserted(map), Present)
        BY <3>1 DEF ExistsBijection
      <4>2. QED
        BY <3>2, <4>1, FS_Bijection
    <3>4. QED
      BY <2>1, <3>3 DEF Counted
  <2>8. QED
    BY <2>6, <2>7
<1>2. QED
  BY <1>1, Invariant, PTL
=============================================================================
