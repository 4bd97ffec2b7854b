--------------------------- MODULE ShoutEpollProofs ---------------------------
(***************************************************************************)
(* Proofs about ShoutEpoll, for any number of connections, listeners and   *)
(* bytes and any size of the buffers, the queues and the event array.      *)
(***************************************************************************)
EXTENDS ShoutEpoll, FiniteSetTheorems, SequenceTheorems, TLAPS

USE SocketsAssumption, BufferAssumption, EventsAssumption

------------------------------------------------------------------------------
(***************************************************************************)
(* The stream of one connection: o was handed to send, of the buffer b the *)
(* first t bytes are handed over as well, r bytes have been received and x *)
(* says that a do_send called send three times.                            *)
(***************************************************************************)
Echo(o, b, t, r, x) ==
    /\ Len(o) + Len(b) = r + t
    /\ ~x => /\ \A k \in 1 .. Len(o) : o[k] = k
             /\ \A k \in 1 .. Len(b) : b[k] = r - Len(b) + k

(* Its counters: bytes sent, received and drained, and the capacities. *)
Bounded(ns, nr, o, d, b) ==
    /\ nr <= ns /\ ns <= MaxBytes
    /\ d <= Len(o) /\ Len(o) - d <= SendCap
    /\ Len(b) <= BufCap

(* Before it is accepted nothing was received; while it is not open nothing *)
(* is buffered.                                                             *)
Fresh(s, nr, o, b) ==
    /\ s \in {"none", "backlog"} => nr = 0 /\ o = << >>
    /\ s # "open" => b = << >>

Items == Conns \cup Listeners
Events == [item : Items, events : SUBSET {"EPOLLIN", "EPOLLOUT", "EPOLLRDHUP"}]
Locals == [path : {"read", "write"}, fd : Conns, sent : Nat, left : Nat, total : Nat, calls : Nat]

(* Nothing is in s twice. *)
Distinct(s) == \A j, k \in 1 .. Len(s) : s[j] = s[k] => j = k
Has(s, i) == \E k \in 1 .. Len(s) : s[k] = i

------------------------------------------------------------------------------
(* The inductive invariant. *)

Types ==
    /\ st \in [Conns -> {"none", "backlog", "open", "closed"}]
    /\ backlog \in [Listeners -> Seq(Conns)]
    /\ nsent \in [Conns -> Nat] /\ nread \in [Conns -> Nat] /\ drained \in [Conns -> Nat]
    /\ fin \in [Conns -> BOOLEAN] /\ rst \in [Conns -> BOOLEAN]
    /\ thrice \in [Conns -> BOOLEAN] /\ nospace \in [Conns -> BOOLEAN]
    /\ out \in [Conns -> Seq(Bytes)] /\ buf \in [Conns -> Seq(Bytes)]
    /\ rdlist \in Seq(Items)
    /\ evs \in Seq(Events)
    /\ pc \in {"wait", "dispatch", "accept", "recv", "send", "killed"}
    /\ faults \in 0 .. MaxFaults

Counters == \A c \in Conns : Bounded(nsent[c], nread[c], out[c], drained[c], buf[c])

Freshness == \A c \in Conns : Fresh(st[c], nread[c], out[c], buf[c])

(* A queued connection is in the backlog of one listener, once. *)
Queued ==
    /\ \A l \in Listeners : Len(backlog[l]) <= Backlog
    /\ \A l \in Listeners : \A k \in 1 .. Len(backlog[l]) :
          /\ st[backlog[l][k]] = "backlog"
          /\ \A m \in Listeners : \A j \in 1 .. Len(backlog[m]) :
                backlog[l][k] = backlog[m][j] => l = m /\ k = j

(* The ready list holds registered sockets, each once. *)
Ready == /\ Distinct(rdlist)
         /\ \A c \in Conns : Has(rdlist, c) => st[c] = "open"

(* Where the server is: an event is handled while one is left, and the     *)
(* locals of do_send are in use only there.                                *)
Located ==
    /\ evs = << >> <=> pc \in {"wait", "killed"}
    /\ pc = "accept" => cur \in Listeners
    /\ pc \in {"recv", "send"} => cur \in Conns
    /\ pc # "send" => snd = Idle
    /\ pc = "send" => snd \in Locals /\ snd.fd = cur

Input(c) == Unread(c) > 0 \/ fin[c] \/ rst[c]
Hangup(c) == fin[c] \/ rst[c]

(* What do_send has done of its buffer.  The offset of its next send is    *)
(* right for the first two; the first one of a write event finds room, and *)
(* input the event does not report has made the connection ready again.    *)
Sent ==
    pc = "send" =>
        /\ snd.left >= 1 /\ snd.total + snd.left = Len(buf[cur])
        /\ snd.sent <= snd.total
        /\ snd.calls = 0 => snd.total = 0
        /\ snd.calls <= 1 => snd.sent = snd.total
        /\ snd.calls >= 3 => thrice[cur]
        /\ snd.path = "write" /\ snd.total = 0 => Space(cur) > 0 \/ rst[cur]
        /\ snd.path = "write" /\ Input(cur) => "EPOLLIN" \in ev \/ Has(rdlist, cur)

(* An event with mask e for c that is yet to be dispatched: what it does   *)
(* not report has made c ready again or, for space, will; it reports no    *)
(* hangup and no room that there is not.                                   *)
Covers(e, c) ==
    /\ Input(c) => "EPOLLIN" \in e \/ Has(rdlist, c)
    /\ Hangup(c) => "EPOLLRDHUP" \in e \/ Has(rdlist, c)
    /\ "EPOLLOUT" \notin e => nospace[c] \/ Has(rdlist, c)
    /\ "EPOLLRDHUP" \in e => Hangup(c)
    /\ "EPOLLOUT" \in e => Space(c) > 0 \/ rst[c]

Undispatched(k) == k > 1 \/ pc = "dispatch"

(* The events of the batch: for registered sockets, one each. *)
Batch ==
    \A k \in 1 .. Len(evs) :
        /\ evs[k].item \in Conns =>
              /\ st[evs[k].item] = "open"
              /\ Undispatched(k) => Covers(evs[k].events, evs[k].item)
        /\ \A j \in 1 .. Len(evs) : evs[j].item = evs[k].item => j = k

(* The socket of which an event is being handled. *)
Busy(i) == pc \in {"accept", "recv", "send"} /\ cur = i

(* An event for i is left. *)
Left(i) == \E k \in 1 .. Len(evs) : Undispatched(k) /\ evs[k].item = i

(* A connection with something to do is ready, or waits for space. *)
Rests(c) == Input(c) \/ buf[c] # << >> => Has(rdlist, c) \/ (buf[c] # << >> /\ nospace[c])

Attended ==
    /\ \A c \in Conns : st[c] = "open" => Rests(c) \/ Busy(c) \/ Left(c)
    /\ \A l \in Listeners : backlog[l] # << >> => Has(rdlist, l) \/ faults > 0 \/ Busy(l) \/ Left(l)

Handed(c) == IF pc = "send" /\ cur = c THEN snd.total ELSE 0

Echoes == \A c \in Conns :
              st[c] = "open" => Echo(out[c], buf[c], Handed(c), nread[c], thrice[c])

(* An empty buffer is received into. *)
Receiving == pc = "recv" => buf[cur] = << >>

Inv == /\ Types /\ Counters /\ Freshness /\ Queued /\ Ready /\ Located /\ Sent
       /\ Batch /\ Attended /\ Echoes /\ Receiving

------------------------------------------------------------------------------
(* Facts about the stream of a connection. *)

LEMMA MinOfTwo ==
    ASSUME NEW a \in Nat, NEW b \in Nat
    PROVE  Min({a, b}) = IF a <= b THEN a ELSE b
<1>1. \E x \in {a, b} : \A y \in {a, b} : x =< y
  OBVIOUS
<1>2. Min({a, b}) \in {a, b} /\ \A y \in {a, b} : Min({a, b}) =< y
  BY <1>1, Zenon DEF Min
<1>3. QED
  BY <1>2

LEMMA EchoNothing ==
    ASSUME NEW x PROVE Echo(<< >>, << >>, 0, 0, x)
  BY DEF Echo

(* recv fills the empty buffer. *)
LEMMA EchoReceived ==
    ASSUME NEW o \in Seq(Bytes), NEW r \in Nat, NEW x, NEW n \in Nat, r + n <= MaxBytes,
           Echo(o, << >>, 0, r, x)
    PROVE  LET b == [k \in 1 .. n |-> r + k]
           IN  /\ b \in Seq(Bytes) /\ Len(b) = n
               /\ Echo(o, b, 0, r + n, x)
<1> DEFINE b == [k \in 1 .. n |-> r + k]
<1>1. b \in Seq(Bytes) /\ Len(b) = n /\ \A k \in 1 .. n : b[k] = r + k
  BY DEF Bytes
<1> HIDE DEF b
<1>2. Len(o) \in Nat /\ Len(o) = r
  BY LenProperties DEF Echo
<1>3. \A k \in 1 .. Len(b) : b[k] = (r + n) - Len(b) + k
  BY <1>1
<1>4. Len(o) + Len(b) = (r + n) + 0
  BY <1>1, <1>2
<1>5. Echo(o, b, 0, r + n, x)
  BY <1>3, <1>4 DEF Echo
<1>6. QED
  BY <1>1, <1>5 DEF b

(* send takes n bytes at offset s of the buffer, where t is the right one. *)
LEMMA EchoTaken ==
    ASSUME NEW o \in Seq(Bytes), NEW b \in Seq(Bytes), NEW r \in Nat, NEW x, NEW y,
           NEW s \in Nat, NEW t \in Nat, NEW n \in Nat, s + n <= Len(b), t + n <= Len(b),
           Echo(o, b, t, r, x), ~y => ~x /\ s = t
    PROVE  LET p == o \o SubSeq(b, s + 1, s + n)
           IN  /\ p \in Seq(Bytes) /\ Len(p) = Len(o) + n
               /\ Echo(p, b, t + n, r, y)
<1> DEFINE u == SubSeq(b, s + 1, s + n)
           p == o \o u
<1>1. Len(b) \in Nat /\ Len(o) \in Nat
  BY LenProperties
<1>2. /\ u \in Seq(Bytes) /\ Len(u) = n
      /\ \A k \in 1 .. n : u[k] = b[s + k]
  <2>1. s + 1 \in 1 .. Len(b) + 1 /\ s + n \in (s + 1) - 1 .. Len(b)
    BY <1>1
  <2>2. u \in Seq(Bytes) /\ Len(u) = (s + n) - (s + 1) + 1
        /\ \A i \in 1 .. (s + n) - (s + 1) + 1 : u[i] = b[(s + 1) + i - 1]
    BY <2>1, SubSeqProperties
  <2>3. (s + n) - (s + 1) + 1 = n /\ \A k \in 1 .. n : (s + 1) + k - 1 = s + k
    OBVIOUS
  <2>4. QED
    BY <2>2, <2>3
<1> HIDE DEF u
<1>3. /\ p \in Seq(Bytes) /\ Len(p) = Len(o) + n
      /\ \A k \in 1 .. Len(o) : p[k] = o[k]
      /\ \A k \in 1 .. n : p[Len(o) + k] = u[k]
  <2>1. /\ p \in Seq(Bytes) /\ Len(p) = Len(o) + Len(u)
        /\ \A i \in 1 .. Len(o) + Len(u) : p[i] = IF i <= Len(o) THEN o[i] ELSE u[i - Len(o)]
    BY <1>2, ConcatProperties
  <2> HIDE DEF p
  <2>2. \A k \in 1 .. n : /\ Len(o) + k \in 1 .. Len(o) + n /\ ~(Len(o) + k <= Len(o))
                          /\ (Len(o) + k) - Len(o) = k
    BY <1>1
  <2>3. \A k \in 1 .. Len(o) : k \in 1 .. Len(o) + n /\ k <= Len(o)
    BY <1>1
  <2>4. QED
    BY <1>2, <2>1, <2>2, <2>3
<1> HIDE DEF p
<1>4. Len(p) + Len(b) = r + (t + n)
  <2>1. \A i, j \in Nat : i + j = r + t => (i + n) + j = r + (t + n)
    OBVIOUS
  <2>2. Len(o) + Len(b) = r + t
    BY DEF Echo
  <2>3. (Len(o) + n) + Len(b) = r + (t + n)
    BY <1>1, <2>1, <2>2
  <2>4. Len(p) = Len(o) + n
    BY <1>3
  <2>5. QED
    BY <2>3, <2>4
<1>5. ASSUME ~y PROVE /\ \A k \in 1 .. Len(p) : p[k] = k
                      /\ \A k \in 1 .. Len(b) : b[k] = r - Len(b) + k
  <2>1. ~x /\ s = t
    BY <1>5
  <2>2. /\ \A k \in 1 .. Len(o) : o[k] = k
        /\ \A k \in 1 .. Len(b) : b[k] = r - Len(b) + k
        /\ Len(o) + Len(b) = r + t
    BY <2>1 DEF Echo
  <2>3. ASSUME NEW k \in 1 .. n PROVE p[Len(o) + k] = Len(o) + k
    <3>1. p[Len(o) + k] = b[t + k]
      BY <1>2, <1>3, <2>1, <2>3
    <3>2. t + k \in 1 .. Len(b)
      BY <1>1
    <3>3. b[t + k] = r - Len(b) + (t + k)
      BY <2>2, <3>2
    <3>4. \A i, j \in Nat : i + j = r + t => r - j + (t + k) = i + k
      OBVIOUS
    <3>5. QED
      BY <1>1, <2>2, <3>1, <3>3, <3>4
  <2>4. ASSUME NEW k \in 1 .. Len(p) PROVE p[k] = k
    <3>1. CASE k \in 1 .. Len(o)
      BY <1>3, <2>2, <3>1
    <3>2. CASE ~(k \in 1 .. Len(o))
      <4>1. k - Len(o) \in 1 .. n /\ Len(o) + (k - Len(o)) = k
        BY <1>1, <1>3, <3>2
      <4>2. QED
        BY <2>3, <4>1
    <3>3. QED
      BY <3>1, <3>2
  <2>5. QED
    BY <2>2, <2>4
<1>6. Echo(p, b, t + n, r, y)
  BY <1>4, <1>5 DEF Echo
<1>7. QED
  BY <1>3, <1>6 DEF p, u

(* do_send has returned t: the caller drops these bytes from the buffer. *)
LEMMA EchoReturned ==
    ASSUME NEW o \in Seq(Bytes), NEW b \in Seq(Bytes), NEW r \in Nat, NEW x,
           NEW t \in Nat, t <= Len(b), Echo(o, b, t, r, x)
    PROVE  LET d == SubSeq(b, t + 1, Len(b))
           IN  /\ d \in Seq(Bytes) /\ Len(d) = Len(b) - t
               /\ Echo(o, d, 0, r, x)
<1> DEFINE d == SubSeq(b, t + 1, Len(b))
<1>1. Len(b) \in Nat /\ Len(o) \in Nat
  BY LenProperties
<1>2. /\ d \in Seq(Bytes) /\ Len(d) = Len(b) - t
      /\ \A k \in 1 .. Len(d) : d[k] = b[t + k]
  <2>1. t + 1 \in 1 .. Len(b) + 1 /\ Len(b) \in (t + 1) - 1 .. Len(b)
    BY <1>1
  <2>2. d \in Seq(Bytes) /\ Len(d) = Len(b) - (t + 1) + 1
        /\ \A i \in 1 .. Len(b) - (t + 1) + 1 : d[i] = b[(t + 1) + i - 1]
    BY <2>1, SubSeqProperties
  <2>3. Len(b) - (t + 1) + 1 = Len(b) - t /\ \A k \in 1 .. Len(b) - t : (t + 1) + k - 1 = t + k
    BY <1>1
  <2> HIDE DEF d
  <2>4. Len(d) = Len(b) - t
    BY <2>2, <2>3
  <2>5. QED
    BY <2>2, <2>3, <2>4
<1> HIDE DEF d
<1>3. Len(o) + Len(d) = r + 0
  BY <1>1, <1>2 DEF Echo
<1>4. ASSUME ~x PROVE /\ \A k \in 1 .. Len(o) : o[k] = k
                      /\ \A k \in 1 .. Len(d) : d[k] = r - Len(d) + k
  <2>1. \A k \in 1 .. Len(o) : o[k] = k
    BY <1>4 DEF Echo
  <2>2. ASSUME NEW k \in 1 .. Len(d) PROVE d[k] = r - Len(d) + k
    <3>1. t + k \in 1 .. Len(b)
      BY <1>1, <1>2
    <3>2. b[t + k] = r - Len(b) + (t + k)
      BY <1>4, <3>1 DEF Echo
    <3>3. QED
      BY <1>1, <1>2, <3>2
  <2>3. QED
    BY <2>1, <2>2
<1>5. Echo(o, d, 0, r, x)
  BY <1>3, <1>4 DEF Echo
<1>6. QED
  BY <1>2, <1>5 DEF d

(* When do_send has sent the whole buffer, the buffer is empty. *)
LEMMA EchoAll ==
    ASSUME NEW o \in Seq(Bytes), NEW b \in Seq(Bytes), NEW r \in Nat, NEW x,
           Echo(o, b, Len(b), r, x)
    PROVE  Echo(o, << >>, 0, r, x)
<1>1. Len(b) \in Nat /\ Len(o) \in Nat
  BY LenProperties
<1>2. Len(o) + 0 = r + 0
  BY <1>1 DEF Echo
<1>3. QED
  BY <1>2 DEF Echo

(* What Echo says of the bytes that have passed through the server. *)
LEMMA EchoSays ==
    ASSUME NEW o \in Seq(Bytes), NEW b \in Seq(Bytes), NEW r \in Nat, NEW x,
           Echo(o, b, 0, r, x)
    PROVE  /\ Len(o \o b) = r
           /\ ~x => o \o b = [k \in 1 .. r |-> k]
<1>1. Len(b) \in Nat /\ Len(o) \in Nat /\ Len(o) + Len(b) = r
  BY LenProperties DEF Echo
<1>2. /\ o \o b \in Seq(Bytes) /\ Len(o \o b) = Len(o) + Len(b)
      /\ \A k \in 1 .. Len(o) : (o \o b)[k] = o[k]
      /\ \A k \in 1 .. Len(b) : (o \o b)[Len(o) + k] = b[k]
  BY ConcatProperties
<1>3. ASSUME ~x, NEW k \in 1 .. r PROVE (o \o b)[k] = k
  <2>1. CASE k \in 1 .. Len(o)
    BY <1>2, <1>3, <2>1 DEF Echo
  <2>2. CASE ~(k \in 1 .. Len(o))
    <3>1. k - Len(o) \in 1 .. Len(b) /\ Len(o) + (k - Len(o)) = k
      BY <1>1, <2>2
    <3>2. (o \o b)[k] = b[k - Len(o)]
      BY <1>2, <3>1
    <3>3. b[k - Len(o)] = r - Len(b) + (k - Len(o))
      BY <1>3, <3>1 DEF Echo
    <3>4. QED
      BY <1>1, <3>2, <3>3
  <2>3. QED
    BY <2>1, <2>2
<1>4. o \o b \in [1 .. r -> Bytes]
  BY <1>1, <1>2, LenProperties
<1>5. QED
  BY <1>1, <1>2, <1>3, <1>4

------------------------------------------------------------------------------
(* Facts about the ready list. *)

LEMMA RangeHas ==
    ASSUME NEW S, NEW s \in Seq(S), NEW i
    PROVE  i \in Range(s) <=> Has(s, i)
  BY LenProperties DEF Range, Has

LEMMA Appended ==
    ASSUME NEW s \in Seq(Items), NEW i \in Items
    PROVE  /\ Append(s, i) \in Seq(Items)
           /\ \A j : Has(Append(s, i), j) <=> Has(s, j) \/ j = i
           /\ Distinct(s) /\ ~Has(s, i) => Distinct(Append(s, i))
<1> DEFINE t == Append(s, i)
<1>1. /\ t \in Seq(Items) /\ Len(t) = Len(s) + 1 /\ Len(s) \in Nat
      /\ \A k \in 1 .. Len(s) : t[k] = s[k]
      /\ t[Len(s) + 1] = i
  BY AppendProperties, LenProperties
<1> HIDE DEF t
<1>2. \A k \in 1 .. Len(t) : k \in 1 .. Len(s) \/ k = Len(s) + 1
  BY <1>1
<1>3. Len(s) + 1 \in 1 .. Len(t) /\ \A k \in 1 .. Len(s) : k \in 1 .. Len(t)
  BY <1>1
<1>4. \A j : Has(t, j) <=> Has(s, j) \/ j = i
  BY <1>1, <1>2, <1>3 DEF Has
<1>5. ASSUME Distinct(s), ~Has(s, i) PROVE Distinct(t)
  BY <1>1, <1>2, <1>5 DEF Distinct, Has
<1>6. QED
  BY <1>1, <1>4, <1>5 DEF t

(* A member of a sequence without repetitions is taken out of it. *)
LEMMA Removed ==
    ASSUME NEW s \in Seq(Items), NEW i, Distinct(s)
    PROVE  /\ RemoveFirst(s, i) \in Seq(Items)
           /\ \A j : Has(RemoveFirst(s, i), j) <=> Has(s, j) /\ j # i
           /\ Distinct(RemoveFirst(s, i))
<1>1. CASE ~Has(s, i)
  <2>1. RemoveFirst(s, i) = s
    BY <1>1 DEF RemoveFirst, Has
  <2>2. QED
    BY <1>1, <2>1
<1>2. CASE Has(s, i)
  <2>1. PICK n \in 1 .. Len(s) : s[n] = i
    BY <1>2 DEF Has
  <2>2. \A k \in 1 .. Len(s) : s[k] = i <=> k = n
    BY <2>1 DEF Distinct
  <2>3. {k \in 1 .. Len(s) : s[k] = i} = {n}
    BY <2>2
  <2>4. Len(s) \in Nat /\ n \in Nat
    BY LenProperties
  <2>5. Min({n}) = n
    BY <2>4 DEF Min
  <2>6. RemoveFirst(s, i) = RemoveAt(s, n)
    <3>1. SelectInSeq(s, LAMBDA v : v = i) = n
      BY <2>3, <2>5 DEF SelectInSeq
    <3>2. QED
      BY <2>1, <3>1 DEF RemoveFirst
  <2> DEFINE a == SubSeq(s, 1, n - 1)
             b == SubSeq(s, n + 1, Len(s))
             t == a \o b
  <2>7. /\ a \in Seq(Items) /\ Len(a) = n - 1
        /\ \A k \in 1 .. n - 1 : a[k] = s[k]
    <3>1. \A k \in 1 .. n - 1 : s[k] \in Items /\ 1 + k - 1 = k
      BY <2>4, ElementOfSeq
    <3>2. /\ a \in Seq(Items) /\ Len(a) = IF 1 <= n - 1 THEN (n - 1) - 1 + 1 ELSE 0
          /\ \A k \in 1 .. (n - 1) - 1 + 1 : a[k] = s[1 + k - 1]
      BY <2>4, <3>1, SubSeqProperties
    <3>3. (n - 1) - 1 + 1 = n - 1 /\ (~(1 <= n - 1) => n - 1 = 0)
      BY <2>4
    <3>4. QED
      BY <3>1, <3>2, <3>3
  <2>8. /\ b \in Seq(Items) /\ Len(b) = Len(s) - n
        /\ \A k \in 1 .. Len(s) - n : b[k] = s[n + k]
    <3>1. \A k \in n + 1 .. Len(s) : s[k] \in Items
      BY <2>4, ElementOfSeq
    <3>2. /\ b \in Seq(Items) /\ Len(b) = IF n + 1 <= Len(s) THEN Len(s) - (n + 1) + 1 ELSE 0
          /\ \A k \in 1 .. Len(s) - (n + 1) + 1 : b[k] = s[(n + 1) + k - 1]
      BY <2>4, <3>1, SubSeqProperties
    <3>3. /\ Len(s) - (n + 1) + 1 = Len(s) - n /\ (~(n + 1 <= Len(s)) => Len(s) - n = 0)
          /\ \A k \in 1 .. Len(s) - n : (n + 1) + k - 1 = n + k
      BY <2>4
    <3>4. QED
      BY <3>2, <3>3
  <2> HIDE DEF a, b
  <2>9. /\ t \in Seq(Items) /\ Len(t) = Len(s) - 1
        /\ \A k \in 1 .. Len(s) - 1 : t[k] = IF k <= n - 1 THEN s[k] ELSE s[k + 1]
    <3>1. /\ t \in Seq(Items) /\ Len(t) = Len(a) + Len(b)
          /\ \A k \in 1 .. Len(a) + Len(b) : t[k] = IF k <= Len(a) THEN a[k] ELSE b[k - Len(a)]
      BY <2>7, <2>8, ConcatProperties
    <3> HIDE DEF t
    <3>2. (n - 1) + (Len(s) - n) = Len(s) - 1
      BY <2>4
    <3>3. \A k \in 1 .. Len(s) - 1 : t[k] = IF k <= n - 1 THEN a[k] ELSE b[k - (n - 1)]
      BY <2>7, <2>8, <3>1, <3>2
    <3>4. ASSUME NEW k \in 1 .. Len(s) - 1 PROVE t[k] = IF k <= n - 1 THEN s[k] ELSE s[k + 1]
      <4>1. CASE k <= n - 1
        BY <2>4, <2>7, <3>3, <4>1
      <4>2. CASE ~(k <= n - 1)
        <5>1. k - (n - 1) \in 1 .. Len(s) - n /\ n + (k - (n - 1)) = k + 1
          BY <2>4, <4>2
        <5>2. QED
          BY <2>8, <3>3, <4>2, <5>1
      <4>3. QED
        BY <4>1, <4>2
    <3>5. QED
      BY <2>7, <2>8, <3>1, <3>2, <3>4
  <2>10. RemoveFirst(s, i) = t
    BY <2>6 DEF RemoveAt, a, b
  <2> HIDE DEF t
  <2> DEFINE At(k) == IF k <= n - 1 THEN k ELSE k + 1
  <2>11. ASSUME NEW k \in 1 .. Len(t)
         PROVE  At(k) \in 1 .. Len(s) /\ At(k) # n /\ t[k] = s[At(k)]
    <3>1. k \in 1 .. Len(s) - 1
      BY <2>9
    <3>2. At(k) \in 1 .. Len(s) /\ At(k) # n
      BY <2>4, <3>1
    <3>3. QED
      BY <2>9, <3>1, <3>2
  <2>12. \A m \in 1 .. Len(s) : m # n => \E k \in 1 .. Len(t) : t[k] = s[m]
    <3> SUFFICES ASSUME NEW m \in 1 .. Len(s), m # n PROVE \E k \in 1 .. Len(t) : t[k] = s[m]
      OBVIOUS
    <3>1. CASE m <= n - 1
      <4>1. m \in 1 .. Len(t) /\ t[m] = s[m]
        BY <2>4, <2>9, <3>1
      <4>2. QED
        BY <4>1
    <3>2. CASE ~(m <= n - 1)
      <4>1. m - 1 \in 1 .. Len(t) /\ ~(m - 1 <= n - 1) /\ (m - 1) + 1 = m
        BY <2>4, <2>9, <3>2
      <4>2. t[m - 1] = s[m]
        BY <2>9, <4>1
      <4>3. QED
        BY <4>1, <4>2
    <3>3. QED
      BY <3>1, <3>2
  <2>13. \A j : Has(t, j) <=> Has(s, j) /\ j # i
    BY <2>2, <2>11, <2>12 DEF Has
  <2>14. Distinct(t)
    <3>1. ASSUME NEW j \in 1 .. Len(t), NEW k \in 1 .. Len(t), t[j] = t[k] PROVE j = k
      <4>1. At(j) = At(k)
        BY <2>11, <3>1 DEF Distinct
      <4>2. QED
        BY <2>4, <4>1
    <3>2. QED
      BY <3>1 DEF Distinct
  <2>15. QED
    BY <2>9, <2>10, <2>13, <2>14
<1>3. QED
  BY <1>1, <1>2

(* The ready list after a wake-up of i. *)
LEMMA WokenHas ==
    ASSUME Types, Ready, NEW i \in Items
    PROVE  /\ Woken(i) \in Seq(Items)
           /\ \A j : Has(Woken(i), j) <=> Has(rdlist, j) \/ (j = i /\ Registered(i))
           /\ Distinct(Woken(i))
<1>1. rdlist \in Seq(Items) /\ (i \in Range(rdlist) <=> Has(rdlist, i))
  BY RangeHas DEF Types
<1>2. CASE Registered(i) /\ ~Has(rdlist, i)
  <2>1. Woken(i) = Append(rdlist, i)
    BY <1>1, <1>2 DEF Woken
  <2>2. QED
    BY <1>1, <1>2, <2>1, Appended DEF Ready
<1>3. CASE ~(Registered(i) /\ ~Has(rdlist, i))
  <2>1. Woken(i) = rdlist
    BY <1>1, <1>3 DEF Woken
  <2>2. QED
    BY <1>1, <1>3, <2>1 DEF Ready
<1>4. QED
  BY <1>2, <1>3

(* The events a socket has. *)
LEMMA Masks ==
    /\ \A c \in Conns :
          /\ Mask(c) \in SUBSET {"EPOLLIN", "EPOLLOUT", "EPOLLRDHUP"}
          /\ "EPOLLIN" \in Mask(c) <=> Input(c)
          /\ "EPOLLOUT" \in Mask(c) <=> Writable(c)
          /\ "EPOLLRDHUP" \in Mask(c) <=> Hangup(c)
    /\ \A l \in Listeners :
          /\ Mask(l) \in SUBSET {"EPOLLIN", "EPOLLOUT", "EPOLLRDHUP"}
          /\ Mask(l) = {} <=> backlog[l] = << >>
<1>1. ASSUME NEW c \in Conns
      PROVE  /\ Mask(c) \in SUBSET {"EPOLLIN", "EPOLLOUT", "EPOLLRDHUP"}
             /\ "EPOLLIN" \in Mask(c) <=> Input(c)
             /\ "EPOLLOUT" \in Mask(c) <=> Writable(c)
             /\ "EPOLLRDHUP" \in Mask(c) <=> Hangup(c)
  <2>1. c \notin Listeners
    OBVIOUS
  <2>2. Mask(c) = (IF Input(c) THEN {"EPOLLIN"} ELSE {})
                  \cup (IF Writable(c) THEN {"EPOLLOUT"} ELSE {})
                  \cup (IF Hangup(c) THEN {"EPOLLRDHUP"} ELSE {})
    BY <2>1 DEF Mask, Input, Hangup
  <2>3. QED
    BY <2>2
<1>2. QED
  BY <1>1 DEF Mask

------------------------------------------------------------------------------
(* Facts about the batch of events. *)

LEMMA CurrentEvent ==
    ASSUME Types, evs # << >>
    PROVE  /\ Len(evs) \in Nat \ {0} /\ Head(evs) = evs[1] /\ evs[1] \in Events
           /\ cur = evs[1].item /\ ev = evs[1].events /\ cur \in Items
<1>1. Len(evs) \in Nat \ {0} /\ Head(evs) = evs[1]
  BY EmptySeq DEF Types
<1>2. evs[1] \in Events
  BY <1>1, ElementOfSeq DEF Types
<1>3. QED
  BY <1>1, <1>2 DEF cur, ev, Events

LEMMA TailOfBatch ==
    ASSUME Types, evs # << >>
    PROVE  /\ Tail(evs) \in Seq(Events) /\ Len(Tail(evs)) = Len(evs) - 1
           /\ \A k \in 1 .. Len(Tail(evs)) : k + 1 \in 1 .. Len(evs) /\ Tail(evs)[k] = evs[k + 1]
           /\ Tail(evs) = << >> <=> Len(evs) = 1
<1>1. Len(evs) \in Nat \ {0}
  BY CurrentEvent
<1>2. /\ Tail(evs) \in Seq(Events) /\ Len(Tail(evs)) = Len(evs) - 1
      /\ \A k \in 1 .. Len(Tail(evs)) : Tail(evs)[k] = evs[k + 1]
  BY HeadTailProperties DEF Types
<1>3. Tail(evs) = << >> <=> Len(Tail(evs)) = 0
  BY <1>2, EmptySeq
<1>4. \A k \in 1 .. Len(Tail(evs)) : k + 1 \in 1 .. Len(evs)
  BY <1>1, <1>2
<1>5. QED
  BY <1>1, <1>2, <1>3, <1>4

(* The connection of the current event is open. *)
LEMMA CurrentOpen ==
    ASSUME Inv, evs # << >>
    PROVE  /\ cur \in Conns => st[cur] = "open"
           /\ \A k \in 2 .. Len(evs) : evs[k].item # cur
<1>1. Len(evs) \in Nat \ {0} /\ evs[1].item = cur
  BY CurrentEvent DEF Inv
<1>2. 1 \in 1 .. Len(evs) /\ \A k \in 2 .. Len(evs) : k \in 1 .. Len(evs) /\ k # 1
  BY <1>1
<1>3. QED
  BY <1>1, <1>2 DEF Inv, Batch

(* What is said of a connection stays so while nothing of it changes but   *)
(* that it becomes ready.                                                  *)
LEMMA Kept ==
    ASSUME NEW c, NEW e,
           nsent'[c] = nsent[c], nread'[c] = nread[c], fin'[c] = fin[c], rst'[c] = rst[c],
           out'[c] = out[c], drained'[c] = drained[c], buf'[c] = buf[c], nospace'[c] = nospace[c],
           Has(rdlist, c) => Has(rdlist, c)'
    PROVE  /\ Covers(e, c) => Covers(e, c)'
           /\ Rests(c) => Rests(c)'
<1>1. (Input(c)' <=> Input(c)) /\ (Hangup(c)' <=> Hangup(c)) /\ Space(c)' = Space(c)
  BY DEF Input, Hangup, Space, Unread
<1>2. QED
  BY <1>1 DEF Covers, Rests

(* The step to the next event, when only the current socket changed. *)
LEMMA Advanced ==
    ASSUME Inv, evs # << >>, NextEvent, snd' = Idle, NEW u, u = cur,
           \A c \in Conns : c # u =>
               /\ st'[c] = "open" <=> st[c] = "open"
               /\ nsent'[c] = nsent[c] /\ nread'[c] = nread[c] /\ fin'[c] = fin[c]
               /\ rst'[c] = rst[c] /\ out'[c] = out[c] /\ drained'[c] = drained[c]
               /\ buf'[c] = buf[c] /\ nospace'[c] = nospace[c],
           \A i \in Items : i # u /\ Has(rdlist, i) => Has(rdlist, i)',
           u \in Conns /\ st'[u] = "open" => Rests(u)',
           \A l \in Listeners : l # u => backlog'[l] = backlog[l],
           u \in Listeners => backlog'[u] = << >> \/ faults' > 0 \/ Has(rdlist, u)',
           faults > 0 => faults' > 0
    PROVE  /\ evs' \in Seq(Events) /\ pc' \in {"wait", "dispatch"}
           /\ Located' /\ Sent' /\ Batch' /\ Attended' /\ Receiving'
<1>1. /\ evs' \in Seq(Events) /\ Len(evs') = Len(evs) - 1
      /\ \A k \in 1 .. Len(evs') : k + 1 \in 1 .. Len(evs) /\ evs'[k] = evs[k + 1]
      /\ evs' = << >> <=> Len(evs) = 1
  BY TailOfBatch DEF Inv, NextEvent
<1>2. pc' \in {"wait", "dispatch"} /\ (pc' = "wait" <=> evs' = << >>)
  BY <1>1 DEF NextEvent
<1>3. Located' /\ Sent' /\ Receiving'
  BY <1>2 DEF Located, Sent, Receiving
<1>4. Len(evs) \in Nat \ {0} /\ evs[1].item = u /\ u \in Items
  BY CurrentEvent DEF Inv
<1>5. ASSUME NEW c \in Conns, NEW e, c # u
      PROVE  (Covers(e, c) => Covers(e, c)') /\ (Rests(c) => Rests(c)')
  BY <1>5, Kept DEF Items
<1>6. Batch'
  <2> SUFFICES ASSUME NEW k \in 1 .. Len(evs')
               PROVE  /\ evs'[k].item \in Conns =>
                            st'[evs'[k].item] = "open" /\ Covers(evs[k].events, evs[k].item)'
                      /\ \A j \in 1 .. Len(evs') : evs'[j].item = evs'[k].item => j = k
    BY Zenon DEF Batch
  <2>1. PICK n \in 1 .. Len(evs) : n = k + 1
    BY <1>1
  <2>2. evs'[k] = evs[n] /\ n > 1
    BY <1>1, <2>1
  <2>3. PICK i : i = evs[n].item
    OBVIOUS
  <2>4. PICK e : e = evs[n].events
    OBVIOUS
  <2>5. evs'[k].item = i /\ evs'[k].events = e
    BY <2>2, <2>3, <2>4
  <2>6. /\ i \in Conns => st[i] = "open" /\ Covers(e, i)
        /\ \A j \in 1 .. Len(evs) : evs[j].item = i => j = n
    BY <2>2, <2>3, <2>4 DEF Inv, Batch, Undispatched
  <2>7. i # u
    <3>1. 1 \in 1 .. Len(evs) /\ 1 # n
      BY <1>4, <2>2
    <3>2. QED
      BY <1>4, <2>6, <3>1
  <2>8. i \in Conns => st'[i] = "open" /\ Covers(e, i)'
    BY <1>5, <2>6, <2>7
  <2>9. ASSUME NEW j \in 1 .. Len(evs'), evs'[j].item = i PROVE j = k
    <3>1. j + 1 \in 1 .. Len(evs) /\ evs'[j] = evs[j + 1]
      BY <1>1
    <3>2. j + 1 = k + 1
      BY <2>1, <2>6, <2>9, <3>1
    <3>3. QED
      BY <3>2
  <2>10. QED
    BY <2>5, <2>8, <2>9 DEF Covers
<1>7. ASSUME NEW i, i # u, Left(i) PROVE Left(i)'
  <2>1. PICK k \in 1 .. Len(evs) : evs[k].item = i
    BY <1>7 DEF Left
  <2>2. k # 1
    BY <1>4, <1>7, <2>1
  <2>3. k - 1 \in 1 .. Len(evs') /\ (k - 1) + 1 = k
    BY <1>1, <1>4, <2>2
  <2>4. evs'[k - 1] = evs[k] /\ evs' # << >>
    BY <1>1, <1>4, <2>1, <2>3
  <2>5. pc' = "dispatch"
    BY <1>2, <2>4
  <2>6. QED
    BY <2>1, <2>3, <2>4, <2>5 DEF Left, Undispatched
<1>8. Attended'
  <2>1. ASSUME NEW c \in Conns, st'[c] = "open" PROVE Rests(c)' \/ Left(c)'
    <3>1. CASE c = u
      BY <2>1, <3>1
    <3>2. CASE c # u
      <4>1. Rests(c) \/ Left(c)
        BY <2>1, <3>2 DEF Inv, Attended, Busy
      <4>2. QED
        BY <1>5, <1>7, <3>2, <4>1
    <3>3. QED
      BY <3>1, <3>2
  <2>2. ASSUME NEW l \in Listeners, backlog'[l] # << >>
        PROVE  Has(rdlist, l)' \/ faults' > 0 \/ Left(l)'
    <3>1. CASE l = u
      BY <2>2, <3>1
    <3>2. CASE l # u
      <4>1. Has(rdlist, l) \/ faults > 0 \/ Left(l)
        BY <2>2, <3>2 DEF Inv, Attended, Busy
      <4>2. QED
        BY <1>7, <3>2, <4>1 DEF Items
    <3>3. QED
      BY <3>1, <3>2
  <2>3. QED
    BY <2>1, <2>2 DEF Attended
<1>9. QED
  BY <1>1, <1>2, <1>3, <1>6, <1>8

------------------------------------------------------------------------------
(* epoll_wait. *)

LEMMA EpollWaitInv == Inv /\ EpollWait => Inv'
<1> SUFFICES ASSUME Inv, EpollWait PROVE Inv'
  OBVIOUS
<1>1. PICK p \in 1 .. Len(rdlist) :
        /\ \E at \in SetToSeqs(Live(p)) :
              evs' = [k \in DOMAIN at |-> [item |-> rdlist[at[k]], events |-> Mask(rdlist[at[k]])]]
        /\ rdlist' = SubSeq(rdlist, p + 1, Len(rdlist))
        /\ nospace' = [c \in Conns |->
              nospace[c] \/ (~Writable(c) /\ \E k \in 1 .. p : rdlist[k] = c)]
        /\ pc' = IF Live(p) = {} THEN "wait" ELSE "dispatch"
  BY DEF EpollWait
<1>2. PICK at \in SetToSeqs(Live(p)) :
        evs' = [k \in DOMAIN at |-> [item |-> rdlist[at[k]], events |-> Mask(rdlist[at[k]])]]
  BY <1>1
<1> DEFINE n == Cardinality(Live(p))
<1>3. rdlist \in Seq(Items) /\ Len(rdlist) \in Nat /\ Distinct(rdlist) /\ p \in Nat
  BY LenProperties DEF Inv, Types, Ready
<1>4. \A k \in 1 .. Len(rdlist) : rdlist[k] \in Items
  BY <1>3, ElementOfSeq
<1>5. IsFiniteSet(Live(p)) /\ n \in Nat /\ (n = 0 <=> Live(p) = {}) /\ Live(p) \subseteq 1 .. Len(rdlist)
  <2>1. Live(p) \subseteq 1 .. p /\ Live(p) \subseteq 1 .. Len(rdlist)
    BY <1>3 DEF Live
  <2>2. IsFiniteSet(1 .. p)
    BY <1>3, FS_Interval
  <2>3. QED
    BY <2>1, <2>2, FS_Subset, FS_EmptySet, FS_CardinalityType
<1>6. /\ at \in [1 .. n -> Live(p)]
      /\ \A j, k \in 1 .. n : at[j] = at[k] => j = k
      /\ \A m \in Live(p) : \E k \in 1 .. n : at[k] = m
  <2>1. at \in [1 .. n -> Live(p)] /\ \A j, k \in 1 .. n : at[j] = at[k] => j = k
    BY DEF SetToSeqs
  <2> HIDE DEF n
  <2>2. at \in Injection(1 .. n, Live(p))
    BY <2>1 DEF Injection, IsInjective
  <2>3. Cardinality(1 .. n) = n
    BY <1>5, FS_Interval
  <2>4. at \in Surjection(1 .. n, Live(p))
    BY <1>5, <2>2, <2>3, FS_Injection DEF n
  <2>5. QED
    BY <2>1, <2>4 DEF Surjection
<1> HIDE DEF n
<1>7. \A i \in Items : Mask(i) \in SUBSET {"EPOLLIN", "EPOLLOUT", "EPOLLRDHUP"}
  BY Masks DEF Items
<1>8. /\ evs' \in Seq(Events) /\ Len(evs') = n
      /\ \A k \in 1 .. n : /\ at[k] \in Live(p) /\ at[k] \in 1 .. Len(rdlist)
                           /\ evs'[k].item = rdlist[at[k]]
                           /\ evs'[k].events = Mask(rdlist[at[k]])
  <2>1. DOMAIN at = 1 .. n
    BY <1>6
  <2>2. \A k \in 1 .. n : at[k] \in Live(p) /\ at[k] \in 1 .. Len(rdlist) /\ rdlist[at[k]] \in Items
    BY <1>4, <1>5, <1>6
  <2>3. \A k \in 1 .. n : [item |-> rdlist[at[k]], events |-> Mask(rdlist[at[k]])] \in Events
    BY <1>7, <2>2 DEF Events
  <2>4. evs' = [k \in 1 .. n |-> [item |-> rdlist[at[k]], events |-> Mask(rdlist[at[k]])]]
    BY <1>2, <2>1
  <2>5. evs' \in [1 .. n -> Events]
    BY <2>3, <2>4
  <2>6. evs' \in Seq(Events) /\ Len(evs') = n
    BY <1>5, <2>5
  <2>7. QED
    BY <2>2, <2>4, <2>6
<1>9. pc = "wait" /\ pc' \in {"wait", "dispatch"} /\ (pc' = "wait" <=> evs' = << >>)
  <2>1. evs' = << >> <=> n = 0
    BY <1>5, <1>8, EmptySeq
  <2>2. pc' = IF Live(p) = {} THEN "wait" ELSE "dispatch"
    BY <1>1
  <2>3. QED
    BY <1>5, <2>1, <2>2 DEF EpollWait
<1>10. /\ rdlist' \in Seq(Items) /\ Len(rdlist') = Len(rdlist) - p
       /\ \A k \in 1 .. Len(rdlist') : p + k \in 1 .. Len(rdlist) /\ rdlist'[k] = rdlist[p + k]
  <2>1. \A k \in p + 1 .. Len(rdlist) : rdlist[k] \in Items
    BY <1>3, <1>4
  <2>2. /\ rdlist' \in Seq(Items)
        /\ Len(rdlist') = IF p + 1 <= Len(rdlist) THEN Len(rdlist) - (p + 1) + 1 ELSE 0
        /\ \A k \in 1 .. Len(rdlist) - (p + 1) + 1 : rdlist'[k] = rdlist[(p + 1) + k - 1]
    BY <1>1, <1>3, <2>1, SubSeqProperties
  <2>3. /\ Len(rdlist) - (p + 1) + 1 = Len(rdlist) - p
        /\ ~(p + 1 <= Len(rdlist)) => Len(rdlist) - p = 0
        /\ \A k \in 1 .. Len(rdlist) - p : (p + 1) + k - 1 = p + k /\ p + k \in 1 .. Len(rdlist)
    BY <1>3
  <2>4. Len(rdlist') = Len(rdlist) - p
    BY <2>2, <2>3
  <2>5. QED
    BY <2>2, <2>3, <2>4
<1>11. \A k \in 1 .. Len(rdlist) : k \in 1 .. p \/ \E j \in 1 .. Len(rdlist') : rdlist'[j] = rdlist[k]
  <2> SUFFICES ASSUME NEW k \in 1 .. Len(rdlist), k \notin 1 .. p
               PROVE  \E j \in 1 .. Len(rdlist') : rdlist'[j] = rdlist[k]
    OBVIOUS
  <2>1. k - p \in 1 .. Len(rdlist') /\ p + (k - p) = k
    BY <1>3, <1>10
  <2>2. QED
    BY <1>10, <2>1
<1>12. /\ nospace' \in [Conns -> BOOLEAN]
       /\ \A c \in Conns : /\ nospace[c] => nospace'[c]
                           /\ ~Writable(c) /\ (\E k \in 1 .. p : rdlist[k] = c) => nospace'[c]
  BY <1>1
<1>13. UNCHANGED <<sockets, buf, snd, faults, thrice>>
  BY DEF EpollWait
<1> USE DEF sockets
<1>14. Types'
  BY <1>8, <1>9, <1>10, <1>12, <1>13 DEF Inv, Types
<1>15. Counters' /\ Freshness' /\ Queued'
  BY <1>13 DEF Inv, Counters, Freshness, Queued
<1>16. \A i : Has(rdlist, i)' => Has(rdlist, i)
  BY <1>10 DEF Has
<1>17. Ready'
  <2>1. Distinct(rdlist)'
    <3>1. ASSUME NEW j \in 1 .. Len(rdlist'), NEW k \in 1 .. Len(rdlist'), rdlist'[j] = rdlist'[k]
          PROVE  j = k
      <4>1. p + j = p + k
        BY <1>3, <1>10, <3>1 DEF Distinct
      <4>2. j \in Int /\ k \in Int
        BY <1>10
      <4>3. QED
        BY <1>3, <4>1, <4>2
    <3>2. QED
      BY <3>1 DEF Distinct
  <2>2. QED
    BY <1>13, <1>16, <2>1 DEF Inv, Ready
<1>18. Located' /\ Sent' /\ Receiving'
  BY <1>9, <1>13 DEF Inv, Located, Sent, Receiving
<1>19. \A c \in Conns : /\ Input(c)' <=> Input(c)
                        /\ Hangup(c)' <=> Hangup(c)
                        /\ Space(c)' = Space(c)
                        /\ Writable(c)' <=> Writable(c)
  BY <1>13 DEF Input, Hangup, Space, Unread, Writable
<1>20. Batch'
  <2> SUFFICES ASSUME NEW k \in 1 .. Len(evs')
               PROVE  /\ evs'[k].item \in Conns =>
                            st'[evs'[k].item] = "open" /\ Covers(evs[k].events, evs[k].item)'
                      /\ \A j \in 1 .. Len(evs') : evs'[j].item = evs'[k].item => j = k
    BY Zenon DEF Batch
  <2>1. PICK i : i = evs'[k].item
    OBVIOUS
  <2>2. PICK e : e = evs'[k].events
    OBVIOUS
  <2>3. at[k] \in 1 .. p /\ at[k] \in 1 .. Len(rdlist) /\ i = rdlist[at[k]] /\ e = Mask(i)
    BY <1>8, <2>1, <2>2 DEF Live
  <2>4. ASSUME i \in Conns PROVE st'[i] = "open" /\ Covers(e, i)'
    <3>1. st'[i] = "open"
      BY <1>13, <2>3, <2>4 DEF Inv, Ready, Has
    <3>2. Writable(i) => Space(i) > 0 \/ rst[i]
      <4>1. Space(i) \in Int
        BY <2>4, LenProperties DEF Inv, Types, Space
      <4>2. QED
        BY <4>1 DEF Writable
    <3>3. /\ Input(i) => "EPOLLIN" \in e
          /\ Hangup(i) <=> "EPOLLRDHUP" \in e
          /\ Writable(i) <=> "EPOLLOUT" \in e
      BY <2>3, <2>4, Masks
    <3>4. QED
      BY <1>12, <1>13, <1>19, <2>3, <2>4, <3>1, <3>2, <3>3 DEF Covers
  <2>5. ASSUME NEW j \in 1 .. Len(evs'), evs'[j].item = i PROVE j = k
    <3>1. at[j] \in 1 .. Len(rdlist) /\ rdlist[at[j]] = rdlist[at[k]]
      BY <1>8, <2>3, <2>5 DEF Live
    <3>2. at[j] = at[k]
      BY <1>3, <2>3, <3>1 DEF Distinct
    <3>3. QED
      BY <1>6, <1>8, <3>2
  <2>6. QED
    BY <2>1, <2>2, <2>4, <2>5 DEF Covers
<1>21. ASSUME NEW i \in Items, Has(rdlist, i), ~Has(rdlist, i)'
       PROVE  /\ \E k \in 1 .. p : rdlist[k] = i
              /\ Mask(i) # {} => Left(i)'
  <2>1. PICK m \in 1 .. Len(rdlist) : rdlist[m] = i
    BY <1>21 DEF Has
  <2>2. m \in 1 .. p
    BY <1>11, <1>21, <2>1 DEF Has
  <2>3. ASSUME Mask(i) # {} PROVE Left(i)'
    <3>1. m \in Live(p)
      BY <2>1, <2>2, <2>3 DEF Live
    <3>2. PICK k \in 1 .. n : at[k] = m
      BY <1>6, <3>1
    <3>3. k \in 1 .. Len(evs') /\ evs'[k].item = i /\ pc' = "dispatch"
      <4>1. k \in 1 .. Len(evs') /\ evs'[k].item = i
        BY <1>8, <2>1, <3>2
      <4>2. evs' # << >>
        BY <1>5, <1>8, EmptySeq
      <4>3. QED
        BY <1>9, <4>1, <4>2
    <3>4. QED
      BY <3>3 DEF Left, Undispatched
  <2>4. QED
    BY <2>1, <2>2, <2>3
<1>22. Attended'
  <2>1. \A i \in Items : ~Busy(i) /\ ~Left(i)
    <3>1. Len(evs) = 0
      BY <1>9, EmptySeq DEF Inv, Located
    <3>2. QED
      BY <1>9, <3>1 DEF Busy, Left
  <2>2. ASSUME NEW c \in Conns, st'[c] = "open" PROVE Rests(c)' \/ Left(c)'
    <3>1. Rests(c) /\ c \in Items
      BY <1>13, <2>1, <2>2 DEF Inv, Attended, Items
    <3>2. CASE Has(rdlist, c) /\ ~Has(rdlist, c)'
      <4>1. CASE Mask(c) # {}
        BY <1>21, <3>1, <3>2, <4>1
      <4>2. CASE Mask(c) = {}
        <5>1. ~Input(c) /\ ~Writable(c)
          BY <4>2, Masks
        <5>2. nospace'[c]
          BY <1>12, <1>21, <3>1, <3>2, <5>1
        <5>3. QED
          BY <1>13, <1>19, <5>1, <5>2 DEF Rests
      <4>3. QED
        BY <4>1, <4>2
    <3>3. CASE ~(Has(rdlist, c) /\ ~Has(rdlist, c)')
      BY <1>12, <1>13, <1>19, <3>1, <3>3 DEF Rests
    <3>4. QED
      BY <3>2, <3>3
  <2>3. ASSUME NEW l \in Listeners, backlog'[l] # << >>
        PROVE  Has(rdlist, l)' \/ faults' > 0 \/ Left(l)'
    <3>1. Mask(l) # {} /\ l \in Items
      BY <1>13, <2>3, Masks DEF Items
    <3>2. Has(rdlist, l) \/ faults > 0
      BY <1>13, <2>1, <2>3, <3>1 DEF Inv, Attended
    <3>3. QED
      BY <1>13, <1>21, <3>1, <3>2
  <2>4. QED
    BY <2>2, <2>3 DEF Attended
<1>23. Echoes'
  BY <1>9, <1>13 DEF Inv, Echoes, Handed
<1>24. QED
  BY <1>14, <1>15, <1>17, <1>18, <1>20, <1>22, <1>23 DEF Inv

------------------------------------------------------------------------------
(* The steps of clients. *)

(* They leave the server alone, make room, input and resets, open nothing, *)
(* and make ready whom they give something to do.                          *)
LEMMA ClientKeeps ==
    ASSUME Inv, UNCHANGED <<evs, pc, buf, snd, faults, thrice>>, out' = out, nread' = nread,
           \A c \in Conns : st'[c] = "open" <=> st[c] = "open",
           \A c \in Conns : (rst[c] => rst'[c]) /\ (fin[c] => fin'[c]),
           \A c \in Conns : Space(c) > 0 => Space(c)' > 0,
           \A i \in Items : Has(rdlist, i) => Has(rdlist, i)',
           \A c \in Conns : st[c] = "open" =>
               /\ Input(c)' => Input(c) \/ Has(rdlist, c)'
               /\ Hangup(c)' => Hangup(c) \/ Has(rdlist, c)'
               /\ nospace[c] => nospace'[c] \/ Has(rdlist, c)',
           \A l \in Listeners : backlog'[l] # << >> => backlog[l] # << >> \/ Has(rdlist, l)'
    PROVE  Located' /\ Sent' /\ Batch' /\ Attended' /\ Echoes' /\ Receiving'
<1>1. /\ cur' = cur /\ ev' = ev
      /\ \A i : (Busy(i)' <=> Busy(i)) /\ (Left(i)' <=> Left(i))
      /\ \A k : Undispatched(k)' <=> Undispatched(k)
  BY DEF cur, ev, Busy, Left, Undispatched
<1>2. Located' /\ Receiving'
  BY <1>1 DEF Inv, Located, Receiving
<1>3. ASSUME pc = "send" PROVE Sent'
  <2>1. evs # << >> /\ cur \in Conns /\ cur \in Items /\ st[cur] = "open"
    BY <1>3, CurrentOpen DEF Inv, Located, Items
  <2>2. Space(cur) > 0 \/ rst[cur] => Space(cur)' > 0 \/ rst'[cur]
    BY <1>1, <2>1 DEF Space
  <2>3. PICK u \in Conns : u = cur
    BY <2>1
  <2>4. snd.path = "write" /\ Input(u)' => "EPOLLIN" \in ev \/ Has(rdlist, u)'
    BY <1>3, <2>1, <2>3 DEF Inv, Sent
  <2>5. snd.path = "write" /\ snd.total = 0 => Space(u)' > 0 \/ rst'[u]
    BY <1>3, <2>1, <2>3 DEF Inv, Sent
  <2>6. u = cur'
    BY <1>1, <2>3
  <2>7. QED
    BY <1>1, <1>3, <2>3, <2>4, <2>5, <2>6 DEF Inv, Sent, Input, Has, Space, Unread
<1>4. Sent'
  BY <1>3 DEF Sent
<1>5. ASSUME NEW c \in Conns, NEW e, st[c] = "open", Covers(e, c) PROVE Covers(e, c)'
  <2>1. c \in Items
    BY DEF Items
  <2>2. Hangup(c) => Hangup(c)'
    BY DEF Hangup
  <2>3. QED
    BY <1>5, <2>1, <2>2 DEF Covers
<1>6. Batch'
  <2> SUFFICES ASSUME NEW k \in 1 .. Len(evs)
               PROVE  /\ evs[k].item \in Conns =>
                            /\ st'[evs[k].item] = "open"
                            /\ Undispatched(k) => Covers(evs[k].events, evs[k].item)'
                      /\ \A j \in 1 .. Len(evs) : evs[j].item = evs[k].item => j = k
    BY <1>1, Zenon DEF Batch
  <2>1. PICK i, e : i = evs[k].item /\ e = evs[k].events
    OBVIOUS
  <2>2. /\ i \in Conns => st[i] = "open" /\ (Undispatched(k) => Covers(e, i))
        /\ \A j \in 1 .. Len(evs) : evs[j].item = i => j = k
    BY <2>1 DEF Inv, Batch
  <2>3. i \in Conns => st'[i] = "open" /\ (Undispatched(k) => Covers(e, i)')
    BY <1>5, <2>2
  <2>4. i = evs'[k].item /\ e = evs'[k].events
    BY <2>1
  <2>5. QED
    BY <2>1, <2>2, <2>3, <2>4 DEF Covers
<1>7. Attended'
  <2>1. ASSUME NEW c \in Conns, st[c] = "open", Rests(c) PROVE Rests(c)'
    BY <2>1 DEF Rests, Items
  <2>2. ASSUME NEW l \in Listeners, Has(rdlist, l) PROVE Has(rdlist, l)'
    BY <2>2 DEF Items
  <2>3. QED
    BY <1>1, <2>1, <2>2 DEF Inv, Attended
<1>8. Echoes'
  BY <1>1 DEF Inv, Echoes, Handed
<1>9. QED
  BY <1>2, <1>4, <1>6, <1>7, <1>8

(* The ready list after the wake-up of a client step. *)
LEMMA WokenReady ==
    ASSUME Inv, NEW i \in Items, rdlist' = Woken(i),
           \A c \in Conns : st'[c] = "open" <=> st[c] = "open"
    PROVE  /\ rdlist' \in Seq(Items) /\ Ready'
           /\ \A j \in Items : Has(rdlist, j) => Has(rdlist, j)'
           /\ Registered(i) => Has(rdlist, i)'
<1>1. /\ Woken(i) \in Seq(Items) /\ Distinct(Woken(i))
      /\ \A j : Has(Woken(i), j) <=> Has(rdlist, j) \/ (j = i /\ Registered(i))
  BY WokenHas DEF Inv
<1>2. /\ rdlist' \in Seq(Items) /\ Distinct(rdlist)'
      /\ \A j : Has(rdlist, j)' <=> Has(rdlist, j) \/ (j = i /\ Registered(i))
  BY <1>1 DEF Distinct, Has
<1>3. Ready'
  BY <1>2 DEF Inv, Ready, Registered
<1>4. QED
  BY <1>2, <1>3

LEMMA ConnectInv ==
    ASSUME Inv, NEW c \in Conns, NEW l \in Listeners, Connect(c, l), rdlist' = Woken(l),
           UNCHANGED <<nospace, evs, pc, buf, snd, faults, thrice>>
    PROVE  Inv'
<1> USE DEF Connect
<1> DEFINE b == Append(backlog[l], c)
<1>1. /\ backlog[l] \in Seq(Conns) /\ Len(backlog[l]) \in Nat
      /\ b \in Seq(Conns) /\ Len(b) = Len(backlog[l]) + 1
      /\ \A k \in 1 .. Len(backlog[l]) : b[k] = backlog[l][k]
      /\ b[Len(backlog[l]) + 1] = c
  BY AppendProperties, LenProperties DEF Inv, Types
<1>2. backlog' = [backlog EXCEPT ![l] = b]
  OBVIOUS
<1> HIDE DEF b
<1>3. /\ st' \in [Conns -> {"none", "backlog", "open", "closed"}]
      /\ \A d \in Conns : st'[d] = "open" <=> st[d] = "open"
  <2>1. st \in [Conns -> {"none", "backlog", "open", "closed"}]
    BY DEF Inv, Types
  <2>2. QED
    BY <2>1
<1>4. /\ rdlist' \in Seq(Items) /\ Ready' /\ Has(rdlist, l)'
      /\ \A j \in Items : Has(rdlist, j) => Has(rdlist, j)'
  BY <1>3, WokenReady DEF Items, Registered
<1>5. Types'
  <2>1. backlog' \in [Listeners -> Seq(Conns)]
    BY <1>1, <1>2 DEF Inv, Types
  <2>2. QED
    BY <1>3, <1>4, <2>1 DEF Inv, Types
<1>6. Counters' /\ Freshness'
  BY DEF Inv, Types, Counters, Freshness, Fresh
<1>7. Queued'
  <2>1. \A m \in Listeners : Len(backlog'[m]) <= Backlog
    BY <1>1, <1>2 DEF Inv, Types, Queued
  <2>2. \A m \in Listeners : \A k \in 1 .. Len(backlog[m]) : backlog[m][k] # c
    BY DEF Inv, Queued
  <2>3. ASSUME NEW m \in Listeners, NEW k \in 1 .. Len(backlog'[m])
        PROVE  /\ m = l /\ k = Len(backlog[l]) + 1 /\ backlog'[m][k] = c
               \/ /\ k \in 1 .. Len(backlog[m]) /\ backlog'[m][k] = backlog[m][k]
                  /\ st[backlog[m][k]] = "backlog" /\ backlog[m][k] # c
                  /\ backlog[m][k] \in Conns
    <3>1. CASE m # l
      <4>1. backlog'[m] = backlog[m] /\ backlog[m] \in Seq(Conns)
        BY <1>2, <3>1 DEF Inv, Types
      <4>2. backlog[m][k] \in Conns
        BY <4>1, ElementOfSeq
      <4>3. QED
        BY <2>2, <4>1, <4>2 DEF Inv, Queued
    <3>2. CASE m = l /\ k = Len(backlog[l]) + 1
      BY <1>1, <1>2, <3>2 DEF Inv, Types
    <3>3. CASE m = l /\ k # Len(backlog[l]) + 1
      <4>1. backlog'[m] = b
        BY <1>2, <3>3 DEF Inv, Types
      <4>2. k \in 1 .. Len(backlog[l]) + 1
        BY <1>1, <4>1
      <4>3. k \in 1 .. Len(backlog[l])
        BY <1>1, <3>3, <4>2
      <4>4. QED
        BY <1>1, <2>2, <3>3, <4>1, <4>3, ElementOfSeq DEF Inv, Queued
    <3>4. QED
      BY <3>1, <3>2, <3>3
  <2>4. ASSUME NEW m \in Listeners, NEW k \in 1 .. Len(backlog'[m])
        PROVE  st'[backlog'[m][k]] = "backlog"
    <3>1. \A d \in Conns : st[d] = "backlog" \/ d = c => st'[d] = "backlog"
      BY DEF Inv, Types
    <3>2. QED
      BY <2>3, <3>1
  <2>5. ASSUME NEW m \in Listeners, NEW k \in 1 .. Len(backlog'[m]),
               NEW n \in Listeners, NEW j \in 1 .. Len(backlog'[n]),
               backlog'[m][k] = backlog'[n][j]
        PROVE  m = n /\ k = j
    BY <2>3, <2>5 DEF Inv, Queued
  <2>6. QED
    BY <2>1, <2>4, <2>5 DEF Queued
<1>8. \A d \in Conns : /\ Space(d)' = Space(d) /\ rst'[d] = rst[d] /\ fin'[d] = fin[d]
                       /\ Input(d)' <=> Input(d)
                       /\ Hangup(d)' <=> Hangup(d)
  BY DEF Space, Input, Hangup, Unread
<1>9. \A m \in Listeners : backlog'[m] # << >> => backlog[m] # << >> \/ Has(rdlist, m)'
  <2>1. \A m \in Listeners : m # l => backlog'[m] = backlog[m]
    BY <1>2 DEF Inv, Types
  <2>2. QED
    BY <1>4, <2>1
<1>10. Located' /\ Sent' /\ Batch' /\ Attended' /\ Echoes' /\ Receiving'
  BY <1>3, <1>4, <1>8, <1>9, ClientKeeps
<1>11. QED
  BY <1>4, <1>5, <1>6, <1>7, <1>10 DEF Inv

LEMMA ClientSendInv ==
    ASSUME Inv, NEW c \in Conns, ClientSend(c), rdlist' = Woken(c),
           UNCHANGED <<nospace, evs, pc, buf, snd, faults, thrice>>
    PROVE  Inv'
<1> USE DEF ClientSend
<1>1. nsent[c] \in Nat /\ nsent[c] + 1 \in Nat /\ nsent' = [nsent EXCEPT ![c] = nsent[c] + 1]
  BY DEF Inv, Types
<1>2. /\ rdlist' \in Seq(Items) /\ Ready' /\ (st[c] = "open" => Has(rdlist, c)')
      /\ \A j \in Items : Has(rdlist, j) => Has(rdlist, j)'
  BY WokenReady DEF Items, Registered
<1>3. Types'
  <2>1. nsent' \in [Conns -> Nat]
    BY <1>1 DEF Inv, Types
  <2>2. QED
    BY <1>2, <2>1 DEF Inv, Types
<1>4. Counters'
  <2>1. nread[c] \in Nat
    BY DEF Inv, Types
  <2>2. Bounded(nsent[c] + 1, nread[c], out[c], drained[c], buf[c])
    BY <1>1, <2>1 DEF Inv, Counters, Bounded
  <2>3. QED
    BY <1>1, <2>2 DEF Inv, Types, Counters
<1>5. Freshness' /\ Queued'
  BY DEF Inv, Freshness, Queued
<1>6. \A d \in Conns : /\ Space(d)' = Space(d) /\ rst'[d] = rst[d] /\ fin'[d] = fin[d] /\ st'[d] = st[d]
                       /\ d # c => (Input(d)' <=> Input(d))
                       /\ Hangup(d)' <=> Hangup(d)
  BY <1>1 DEF Space, Input, Hangup, Unread, Inv, Types
<1>7. Located' /\ Sent' /\ Batch' /\ Attended' /\ Echoes' /\ Receiving'
  BY <1>2, <1>6, ClientKeeps
<1>8. QED
  BY <1>2, <1>3, <1>4, <1>5, <1>7 DEF Inv

LEMMA ClientLeavesInv ==
    ASSUME Inv, NEW c \in Conns, ClientShutdown(c) \/ ClientReset(c), rdlist' = Woken(c),
           UNCHANGED <<nospace, evs, pc, buf, snd, faults, thrice>>
    PROVE  Inv'
<1> USE DEF ClientShutdown, ClientReset
<1>1. /\ rdlist' \in Seq(Items) /\ Ready' /\ (st[c] = "open" => Has(rdlist, c)')
      /\ \A j \in Items : Has(rdlist, j) => Has(rdlist, j)'
  BY WokenReady DEF Items, Registered
<1>2. Types'
  BY <1>1 DEF Inv, Types
<1>3. Counters' /\ Freshness' /\ Queued'
  BY DEF Inv, Counters, Freshness, Queued
<1>4. \A d \in Conns : /\ Space(d)' = Space(d) /\ st'[d] = st[d]
                       /\ (rst[d] => rst'[d]) /\ (fin[d] => fin'[d])
                       /\ d # c => rst'[d] = rst[d] /\ fin'[d] = fin[d]
  BY DEF Space, Inv, Types
<1>5. \A d \in Conns : d # c => (Input(d)' <=> Input(d)) /\ (Hangup(d)' <=> Hangup(d))
  BY <1>4 DEF Input, Hangup, Unread
<1>6. Located' /\ Sent' /\ Batch' /\ Attended' /\ Echoes' /\ Receiving'
  BY <1>1, <1>4, <1>5, ClientKeeps
<1>7. QED
  BY <1>1, <1>2, <1>3, <1>6 DEF Inv

LEMMA DrainInv ==
    ASSUME Inv, NEW c \in Conns, Drain(c)
    PROVE  Inv'
<1> USE DEF ClientDrain
<1> DEFINE wake == nospace[c] /\ Space(c) + 1 >= LowWater
<1>1. /\ drained[c] \in Nat /\ drained[c] + 1 \in Nat /\ Len(out[c]) \in Nat
      /\ drained' = [drained EXCEPT ![c] = drained[c] + 1]
      /\ UNCHANGED <<st, backlog, nsent, nread, fin, rst, out, evs, pc, buf, snd, faults, thrice>>
      /\ rdlist' = IF wake THEN Woken(c) ELSE rdlist
      /\ nospace' = [nospace EXCEPT ![c] = @ /\ ~wake]
  BY LenProperties DEF Inv, Types, Drain
<1>2. st[c] = "open"
  <2>1. st[c] = "backlog" => Len(out[c]) = 0
    BY EmptySeq DEF Inv, Freshness, Fresh
  <2>2. QED
    BY <1>1, <2>1 DEF Drain, Reachable
<1>3. /\ rdlist' \in Seq(Items) /\ Ready' /\ (wake => Has(rdlist, c)')
      /\ \A j \in Items : Has(rdlist, j) => Has(rdlist, j)'
  <2>1. CASE wake
    BY <1>1, <1>2, <2>1, WokenReady DEF Items, Registered
  <2>2. CASE ~wake
    BY <1>1, <2>2 DEF Inv, Types, Ready, Distinct, Has
  <2>3. QED
    BY <2>1, <2>2
<1>4. /\ nospace' \in [Conns -> BOOLEAN]
      /\ \A d \in Conns : nospace[d] => nospace'[d] \/ (d = c /\ wake)
  BY <1>1 DEF Inv, Types
<1> HIDE DEF wake
<1>5. Types'
  BY <1>1, <1>3, <1>4 DEF Inv, Types
<1>6. Counters'
  <2>1. Bounded(nsent[c], nread[c], out[c], drained[c] + 1, buf[c])
    BY <1>1 DEF Inv, Counters, Bounded, Drain
  <2>2. QED
    BY <1>1, <2>1 DEF Inv, Types, Counters
<1>7. Freshness' /\ Queued'
  BY <1>1 DEF Inv, Freshness, Queued
<1>8. ASSUME NEW d \in Conns, Space(d) > 0 PROVE Space(d)' > 0
  <2>1. CASE d = c
    <3>1. SendCap - (Len(out[c]) - (drained[c] + 1)) > 0
      BY <1>1, <1>8, <2>1 DEF Space
    <3>2. QED
      BY <1>1, <2>1, <3>1 DEF Space, Inv, Types
  <2>2. CASE d # c
    BY <1>1, <1>8, <2>2 DEF Space, Inv, Types
  <2>3. QED
    BY <2>1, <2>2
<1>9. \A d \in Conns : (Input(d)' <=> Input(d)) /\ (Hangup(d)' <=> Hangup(d))
  BY <1>1 DEF Input, Hangup, Unread
<1>10. Located' /\ Sent' /\ Batch' /\ Attended' /\ Echoes' /\ Receiving'
  BY <1>1, <1>3, <1>4, <1>8, <1>9, ClientKeeps
<1>11. QED
  BY <1>3, <1>5, <1>6, <1>7, <1>10 DEF Inv

------------------------------------------------------------------------------
(* The steps of the server. *)

(* A step that goes on with the current event: only its socket changed, and *)
(* what became open was attended to.                                        *)
LEMMA Handling ==
    ASSUME Inv, evs # << >>, evs' = evs, pc' \in {"accept", "recv", "send"}, NEW u, u = cur,
           \A c \in Conns : c # u =>
               /\ st[c] = "open" => st'[c] = "open"
               /\ st'[c] = "open" => st[c] = "open" \/ Rests(c)'
               /\ nsent'[c] = nsent[c] /\ nread'[c] = nread[c] /\ fin'[c] = fin[c]
               /\ rst'[c] = rst[c] /\ out'[c] = out[c] /\ drained'[c] = drained[c]
               /\ buf'[c] = buf[c] /\ nospace'[c] = nospace[c],
           \A i \in Items : i # u /\ Has(rdlist, i) => Has(rdlist, i)',
           u \in Conns => st'[u] = "open",
           \A l \in Listeners : l # u => backlog'[l] = backlog[l],
           faults > 0 => faults' > 0
    PROVE  cur' = u /\ ev' = ev /\ Batch' /\ Attended'
<1>1. cur' = u /\ ev' = ev /\ Busy(u)'
  BY DEF cur, ev, Busy
<1>2. Len(evs) \in Nat \ {0} /\ evs[1].item = u /\ u \in Items
  BY CurrentEvent DEF Inv
<1>3. ASSUME NEW c \in Conns, NEW e, c # u
      PROVE  (Covers(e, c) => Covers(e, c)') /\ (Rests(c) => Rests(c)')
  BY <1>3, Kept DEF Items
<1>4. Batch'
  <2> SUFFICES ASSUME NEW k \in 1 .. Len(evs)
               PROVE  /\ evs'[k].item \in Conns =>
                            /\ st'[evs'[k].item] = "open"
                            /\ k > 1 => Covers(evs[k].events, evs[k].item)'
                      /\ \A j \in 1 .. Len(evs) : evs'[j].item = evs'[k].item => j = k
    BY Zenon DEF Batch, Undispatched
  <2>1. PICK i : i = evs[k].item
    OBVIOUS
  <2>2. PICK e : e = evs[k].events
    OBVIOUS
  <2>3. evs'[k].item = i /\ evs'[k].events = e
    BY <2>1, <2>2
  <2>4. /\ i \in Conns => st[i] = "open" /\ (k > 1 => Covers(e, i))
        /\ \A j \in 1 .. Len(evs) : evs[j].item = i => j = k
    BY <2>1, <2>2 DEF Inv, Batch, Undispatched
  <2>5. i \in Conns => st'[i] = "open"
    BY <2>4
  <2>6. k > 1 => i # u
    <3>1. 1 \in 1 .. Len(evs)
      BY <1>2
    <3>2. QED
      BY <1>2, <2>4, <3>1
  <2>7. i \in Conns /\ k > 1 => Covers(e, i)'
    BY <1>3, <2>4, <2>6
  <2>8. QED
    BY <2>3, <2>4, <2>5, <2>7 DEF Covers
<1>5. ASSUME NEW i, i # u, Left(i) PROVE Left(i)'
  <2>1. PICK k \in 1 .. Len(evs) : evs[k].item = i
    BY <1>5 DEF Left
  <2>2. k > 1
    BY <1>2, <1>5, <2>1
  <2>3. QED
    BY <2>1, <2>2 DEF Left, Undispatched
<1>6. Attended'
  <2>1. ASSUME NEW c \in Conns, st'[c] = "open" PROVE Rests(c)' \/ Busy(c)' \/ Left(c)'
    <3>1. CASE c = u
      BY <1>1, <3>1
    <3>2. CASE c # u
      <4>1. CASE st[c] # "open"
        BY <2>1, <3>2, <4>1
      <4>2. CASE st[c] = "open"
        <5>1. Rests(c) \/ Left(c)
          BY <3>2, <4>2 DEF Inv, Attended, Busy
        <5>2. QED
          BY <1>3, <1>5, <3>2, <5>1
      <4>3. QED
        BY <4>1, <4>2
    <3>3. QED
      BY <3>1, <3>2
  <2>2. ASSUME NEW l \in Listeners, backlog'[l] # << >>
        PROVE  Has(rdlist, l)' \/ faults' > 0 \/ Busy(l)' \/ Left(l)'
    <3>1. CASE l = u
      BY <1>1, <3>1
    <3>2. CASE l # u
      <4>1. Has(rdlist, l) \/ faults > 0 \/ Left(l)
        BY <2>2, <3>2 DEF Inv, Attended, Busy
      <4>2. QED
        BY <1>5, <3>2, <4>1 DEF Items
    <3>3. QED
      BY <3>1, <3>2
  <2>3. QED
    BY <2>1, <2>2 DEF Attended
<1>7. QED
  BY <1>1, <1>4, <1>6

(* What an event to be dispatched says of its connection. *)
LEMMA CurrentCovers ==
    ASSUME Inv, pc = "dispatch", cur \in Conns
    PROVE  evs # << >> /\ st[cur] = "open" /\ Covers(ev, cur)
<1>1. evs # << >>
  BY DEF Inv, Located
<1>2. 1 \in 1 .. Len(evs) /\ cur = evs[1].item /\ ev = evs[1].events
  BY <1>1, CurrentEvent DEF Inv
<1>3. QED
  BY <1>1, <1>2 DEF Inv, Batch, Undispatched

LEMMA DispatchInv ==
    ASSUME Inv, DispatchListener \/ DispatchRead
    PROVE  Inv'
<1> USE DEF DispatchListener, DispatchRead, sockets
<1>1. evs # << >> /\ pc = "dispatch" /\ pc' \in {"accept", "recv"}
  BY DEF Inv, Located
<1>2. /\ pc' = "accept" => cur \in Listeners
      /\ pc' = "recv" => cur \in Conns /\ buf[cur] = << >>
      /\ cur' = cur
  BY DEF cur
<1>3. Types'
  BY <1>1 DEF Inv, Types
<1>4. Counters' /\ Freshness' /\ Queued' /\ Ready'
  BY DEF Inv, Counters, Freshness, Queued, Ready, Has, Distinct
<1>5. Located' /\ Sent' /\ Receiving'
  BY <1>1, <1>2 DEF Inv, Located, Sent, Receiving
<1>6. Batch' /\ Attended'
  <2>1. PICK u : u = cur
    OBVIOUS
  <2>2. u \in Conns => st'[u] = "open"
    BY <1>1, <2>1, CurrentOpen
  <2>3. \A i \in Items : Has(rdlist, i) => Has(rdlist, i)'
    BY DEF Has
  <2>4. QED
    BY <1>1, <2>1, <2>2, <2>3, Handling
<1>7. Echoes'
  BY <1>1 DEF Inv, Echoes, Handed
<1>8. QED
  BY <1>3, <1>4, <1>5, <1>6, <1>7 DEF Inv

LEMMA DispatchWriteInv ==
    ASSUME Inv, DispatchWrite
    PROVE  Inv'
<1> USE DEF DispatchWrite, sockets
<1>1. /\ evs # << >> /\ pc = "dispatch" /\ pc' = "send" /\ cur \in Conns
      /\ cur' = cur /\ ev' = ev
  BY DEF Inv, Located, cur, ev
<1>2. st[cur] = "open" /\ buf[cur] \in Seq(Bytes) /\ Len(buf[cur]) \in Nat \ {0}
  BY <1>1, CurrentOpen, EmptySeq DEF Inv, Types
<1>3. /\ snd' \in Locals /\ snd'.fd = cur /\ snd'.path = "write" /\ snd'.sent = 0
      /\ snd'.left = Len(buf[cur]) /\ snd'.total = 0 /\ snd'.calls = 0
  BY <1>1, <1>2 DEF CallSend, Locals
<1>4. Types'
  BY <1>1 DEF Inv, Types
<1>5. Counters' /\ Freshness' /\ Queued' /\ Ready' /\ Receiving'
  BY <1>1 DEF Inv, Counters, Freshness, Queued, Ready, Has, Distinct, Receiving
<1>6. Located'
  BY <1>1, <1>3 DEF Inv, Located
<1>7. Sent'
  <2>1. PICK u \in Conns : u = cur
    BY <1>1
  <2>2. Covers(ev, u)
    BY <1>1, <2>1, CurrentCovers
  <2>3. (Space(u) > 0 \/ rst[u]) /\ (Input(u) => "EPOLLIN" \in ev \/ Has(rdlist, u))
    BY <2>2 DEF Covers
  <2>4. /\ Space(u)' > 0 \/ rst'[u]
        /\ Input(u)' => "EPOLLIN" \in ev' \/ Has(rdlist, u)'
    BY <1>1, <2>3 DEF Space, Input, Unread, Has
  <2>5. u = cur' /\ buf' = buf /\ thrice' = thrice
    BY <1>1, <2>1
  <2>6. /\ Space(cur)' > 0 \/ rst'[cur']
        /\ Input(cur)' => "EPOLLIN" \in ev' \/ Has(rdlist, cur)'
    BY <2>4, <2>5 DEF Space, Input, Unread, Has
  <2>7. QED
    BY <1>1, <1>2, <1>3, <2>5, <2>6 DEF Sent
<1>8. Batch' /\ Attended'
  <2>1. PICK u : u = cur
    OBVIOUS
  <2>2. \A i \in Items : Has(rdlist, i) => Has(rdlist, i)'
    BY DEF Has
  <2>3. QED
    BY <1>1, <1>2, <2>1, <2>2, Handling
<1>9. Echoes'
  BY <1>1, <1>3 DEF Inv, Echoes, Handed
<1>10. QED
  BY <1>4, <1>5, <1>6, <1>7, <1>8, <1>9 DEF Inv

LEMMA DispatchNothingInv ==
    ASSUME Inv, DispatchNothing
    PROVE  Inv'
<1> USE DEF DispatchNothing, sockets
<1>1. /\ evs # << >> /\ pc = "dispatch" /\ cur \in Conns /\ Covers(ev, cur) /\ snd' = Idle
      /\ UNCHANGED <<st, backlog, nsent, nread, fin, rst, out, drained,
                     rdlist, nospace, buf, faults, thrice>>
  BY CurrentCovers DEF Inv, Located
<1>2. PICK u \in Conns : u = cur
  BY <1>1
<1>3. Rests(u)
  <2>1. CASE buf[u] = << >>
    <3>1. "EPOLLIN" \notin ev
      BY <1>2, <2>1
    <3>2. QED
      BY <1>1, <1>2, <2>1, <3>1 DEF Covers, Rests
  <2>2. CASE buf[u] # << >>
    <3>1. "EPOLLOUT" \notin ev
      BY <1>2, <2>2
    <3>2. QED
      BY <1>1, <1>2, <2>2, <3>1 DEF Covers, Rests
  <2>3. QED
    BY <2>1, <2>2
<1>4. Rests(u)' /\ \A i \in Items : Has(rdlist, i) => Has(rdlist, i)'
  BY <1>1, <1>3 DEF Rests, Input, Unread, Has
<1>5. /\ evs' \in Seq(Events) /\ pc' \in {"wait", "dispatch"}
      /\ Located' /\ Sent' /\ Batch' /\ Attended' /\ Receiving'
  BY <1>1, <1>2, <1>4, Advanced
<1>6. Types'
  BY <1>5 DEF Inv, Types
<1>7. Counters' /\ Freshness' /\ Queued' /\ Ready'
  BY DEF Inv, Counters, Freshness, Queued, Ready, Has, Distinct
<1>8. Echoes'
  BY <1>1, <1>5 DEF Inv, Echoes, Handed
<1>9. QED
  BY <1>5, <1>6, <1>7, <1>8 DEF Inv

(* accept takes the first connection of a backlog, whatever comes of it. *)
LEMMA TakenFromBacklog ==
    ASSUME Inv, NEW l \in Listeners, backlog[l] # << >>, NEW s \in {"open", "closed"},
           st' = [st EXCEPT ![Head(backlog[l])] = s],
           backlog' = [backlog EXCEPT ![l] = Tail(@)]
    PROVE  /\ Head(backlog[l]) \in Conns /\ st[Head(backlog[l])] = "backlog"
           /\ st' \in [Conns -> {"none", "backlog", "open", "closed"}]
           /\ st'[Head(backlog[l])] = s
           /\ \A c \in Conns : c # Head(backlog[l]) => st'[c] = st[c]
           /\ backlog' \in [Listeners -> Seq(Conns)]
           /\ Queued'
<1> DEFINE h == Head(backlog[l])
           b == Tail(backlog[l])
<1>1. backlog[l] \in Seq(Conns) /\ Len(backlog[l]) \in Nat \ {0}
  BY EmptySeq DEF Inv, Types
<1>2. /\ h = backlog[l][1] /\ h \in Conns
      /\ b \in Seq(Conns) /\ Len(b) = Len(backlog[l]) - 1
      /\ \A k \in 1 .. Len(b) : b[k] = backlog[l][k + 1]
  BY <1>1, HeadTailProperties
<1>3. st' = [st EXCEPT ![h] = s] /\ backlog' = [backlog EXCEPT ![l] = b]
  OBVIOUS
<1> HIDE DEF h, b
<1>4. 1 \in 1 .. Len(backlog[l]) /\ st[h] = "backlog"
  BY <1>1, <1>2 DEF Inv, Queued
<1>5. /\ st' \in [Conns -> {"none", "backlog", "open", "closed"}]
      /\ st'[h] = s /\ \A c \in Conns : c # h => st'[c] = st[c]
  <2>1. st \in [Conns -> {"none", "backlog", "open", "closed"}]
    BY DEF Inv, Types
  <2>2. QED
    BY <1>2, <1>3, <2>1
<1>6. backlog' \in [Listeners -> Seq(Conns)]
  BY <1>2, <1>3 DEF Inv, Types
<1>7. /\ backlog'[l] = b /\ \A m \in Listeners : m # l => backlog'[m] = backlog[m]
  BY <1>3 DEF Inv, Types
<1>8. ASSUME NEW m \in Listeners, NEW k \in 1 .. Len(backlog'[m])
      PROVE  \E i \in 1 .. Len(backlog[m]) :
                /\ i = (IF m = l THEN k + 1 ELSE k) /\ backlog'[m][k] = backlog[m][i]
                /\ backlog[m][i] # h /\ backlog[m][i] \in Conns
  <2>1. PICK i \in 1 .. Len(backlog[m]) : /\ i = (IF m = l THEN k + 1 ELSE k)
                                          /\ backlog'[m][k] = backlog[m][i]
    <3>1. CASE m = l
      <4>1. k \in 1 .. Len(b)
        BY <1>7, <3>1
      <4>2. k + 1 \in 1 .. Len(backlog[l])
        BY <1>1, <1>2, <4>1
      <4>3. QED
        BY <1>2, <1>7, <3>1, <4>1, <4>2
    <3>2. CASE m # l
      BY <1>7, <3>2
    <3>3. QED
      BY <3>1, <3>2
  <2>2. m = l => i # 1
    BY <2>1
  <2>3. backlog[m][i] # h
    BY <1>2, <1>4, <2>2 DEF Inv, Queued
  <2>4. backlog[m][i] \in Conns
    BY ElementOfSeq DEF Inv, Types
  <2>5. QED
    BY <2>1, <2>3, <2>4
<1>9. Queued'
  <2>1. \A m \in Listeners : Len(backlog'[m]) <= Backlog
    <3>1. Len(b) <= Backlog
      BY <1>1, <1>2 DEF Inv, Queued
    <3>2. QED
      BY <1>7, <3>1 DEF Inv, Queued
  <2>2. ASSUME NEW m \in Listeners, NEW k \in 1 .. Len(backlog'[m])
        PROVE  st'[backlog'[m][k]] = "backlog"
    BY <1>5, <1>8 DEF Inv, Queued
  <2>3. ASSUME NEW m \in Listeners, NEW k \in 1 .. Len(backlog'[m])
        PROVE  /\ st'[backlog'[m][k]] = "backlog"
               /\ \A n \in Listeners : \A j \in 1 .. Len(backlog'[n]) :
                     backlog'[m][k] = backlog'[n][j] => m = n /\ k = j
    <3>1. PICK i \in 1 .. Len(backlog[m]) : /\ i = (IF m = l THEN k + 1 ELSE k)
                                            /\ backlog'[m][k] = backlog[m][i]
      BY <1>8
    <3>2. ASSUME NEW n \in Listeners, NEW j \in 1 .. Len(backlog'[n]),
                 backlog'[m][k] = backlog'[n][j]
          PROVE  m = n /\ k = j
      <4>1. PICK i2 \in 1 .. Len(backlog[n]) : /\ i2 = (IF n = l THEN j + 1 ELSE j)
                                               /\ backlog'[n][j] = backlog[n][i2]
        BY <1>8
      <4>2. m = n /\ i = i2
        BY <3>1, <3>2, <4>1 DEF Inv, Queued
      <4>3. QED
        BY <3>1, <4>1, <4>2
    <3>3. QED
      BY <2>2, <3>2, Zenon
  <2>4. QED
    BY <2>1, <2>3, Zenon DEF Queued
<1>10. QED
  BY <1>2, <1>4, <1>5, <1>6, <1>9 DEF h

LEMMA AcceptInv ==
    ASSUME Inv, Accept
    PROVE  Inv'
<1> USE DEF Accept
<1>1. pc = "accept" /\ evs # << >> /\ cur \in Listeners /\ cur \notin Conns /\ cur' = cur
  BY DEF Inv, Located, cur
<1> PICK c : c = Head(backlog[cur])
  OBVIOUS
<1>2. /\ c \in Conns /\ st[c] = "backlog"
      /\ st' \in [Conns -> {"none", "backlog", "open", "closed"}]
      /\ st'[c] = "open" /\ \A d \in Conns : d # c => st'[d] = st[d]
      /\ backlog' \in [Listeners -> Seq(Conns)]
      /\ Queued'
  BY <1>1, TakenFromBacklog
<1>3. rdlist' = IF Mask(c) # {} THEN Append(rdlist, c) ELSE rdlist
  OBVIOUS
<1>4. nread[c] = 0 /\ out[c] = << >> /\ buf[c] = << >> /\ ~Has(rdlist, c)
  BY <1>2 DEF Inv, Freshness, Fresh, Ready
<1>5. /\ rdlist' \in Seq(Items) /\ Distinct(rdlist)'
      /\ \A i : Has(rdlist, i) => Has(rdlist, i)'
      /\ \A i : Has(rdlist, i)' => Has(rdlist, i) \/ i = c
      /\ Mask(c) # {} => Has(rdlist, c)'
  <2>1. rdlist \in Seq(Items) /\ Distinct(rdlist) /\ c \in Items
    BY <1>2 DEF Inv, Types, Ready, Items
  <2>2. CASE Mask(c) # {}
    <3>1. rdlist' = Append(rdlist, c)
      BY <1>3, <2>2
    <3>2. /\ Append(rdlist, c) \in Seq(Items) /\ Distinct(Append(rdlist, c))
          /\ \A i : Has(Append(rdlist, c), i) <=> Has(rdlist, i) \/ i = c
      BY <1>4, <2>1, Appended
    <3>3. QED
      BY <3>1, <3>2, SMTT(20) DEF Has, Distinct
  <2>3. CASE Mask(c) = {}
    <3>1. rdlist' = rdlist
      BY <1>3, <2>3
    <3>2. QED
      BY <2>1, <2>3, <3>1 DEF Has, Distinct
  <2>4. QED
    BY <2>2, <2>3
<1>6. Types'
  BY <1>2, <1>5 DEF Inv, Types
<1>7. Counters'
  BY DEF Inv, Counters
<1>8. Freshness' /\ Ready'
  BY <1>2, <1>5 DEF Inv, Freshness, Fresh, Ready
<1>9. Located' /\ Sent' /\ Receiving'
  BY <1>1 DEF Inv, Located, Sent, Receiving
<1>10. Batch' /\ Attended'
  <2>1. PICK u : u = cur
    OBVIOUS
  <2>2. Rests(c)'
    <3>1. Input(c) => Has(rdlist, c)'
      BY <1>2, <1>5, Masks
    <3>2. (Input(c)' <=> Input(c)) /\ buf'[c] = << >>
      BY <1>4 DEF Input, Unread
    <3>3. QED
      BY <3>1, <3>2 DEF Rests
  <2>3. \A l \in Listeners : l # u => backlog'[l] = backlog[l]
    BY <2>1 DEF Inv, Types
  <2>4. \A d \in Conns : /\ st[d] = "open" => st'[d] = "open"
                         /\ st'[d] = "open" => st[d] = "open" \/ Rests(d)'
    BY <1>2, <2>2
  <2>5. QED
    BY <1>1, <1>5, <2>1, <2>3, <2>4, Handling
<1>11. Echoes'
  BY <1>1, <1>2, <1>4, EchoNothing DEF Inv, Echoes, Handed
<1>12. QED
  BY <1>2, <1>6, <1>7, <1>8, <1>9, <1>10, <1>11 DEF Inv

LEMMA AcceptEndsInv ==
    ASSUME Inv, AcceptEmpty \/ AcceptFails
    PROVE  Inv'
<1>1. pc = "accept" /\ evs # << >> /\ cur \in Listeners /\ cur \notin Conns
  BY DEF Inv, Located, AcceptEmpty, AcceptFails
<1>2. \/ UNCHANGED <<st, backlog>>
      \/ /\ backlog[cur] # << >>
         /\ st' = [st EXCEPT ![Head(backlog[cur])] = "closed"]
         /\ backlog' = [backlog EXCEPT ![cur] = Tail(@)]
  BY DEF AcceptEmpty, AcceptFails, sockets
<1>3. /\ st' \in [Conns -> {"none", "backlog", "open", "closed"}]
      /\ \A c \in Conns : /\ st'[c] = "open" <=> st[c] = "open"
                          /\ st'[c] \in {"none", "backlog"} => st[c] \in {"none", "backlog"}
      /\ backlog' \in [Listeners -> Seq(Conns)] /\ Queued'
  <2>1. CASE UNCHANGED <<st, backlog>>
    BY <2>1 DEF Inv, Types, Queued
  <2>2. CASE /\ backlog[cur] # << >>
             /\ st' = [st EXCEPT ![Head(backlog[cur])] = "closed"]
             /\ backlog' = [backlog EXCEPT ![cur] = Tail(@)]
    BY <1>1, <2>2, TakenFromBacklog
  <2>3. QED
    BY <1>2, <2>1, <2>2
<1>4. NextEvent /\ UNCHANGED <<nsent, nread, fin, rst, out, drained,
                               rdlist, nospace, buf, snd, thrice>>
  BY DEF AcceptEmpty, AcceptFails, sockets
<1>5. /\ faults' \in 0 .. MaxFaults /\ (faults > 0 => faults' > 0)
      /\ backlog'[cur] = << >> \/ faults' > 0
  <2>1. \A n \in 0 .. MaxFaults : n < MaxFaults => n + 1 \in 0 .. MaxFaults /\ n + 1 > 0
    OBVIOUS
  <2>2. faults \in 0 .. MaxFaults
    BY DEF Inv, Types
  <2>3. QED
    BY <2>1, <2>2 DEF AcceptEmpty, AcceptFails, sockets
<1>6. snd' = Idle
  BY <1>1, <1>4 DEF Inv, Located
<1>7. /\ evs' \in Seq(Events) /\ pc' \in {"wait", "dispatch"}
      /\ Located' /\ Sent' /\ Batch' /\ Attended' /\ Receiving'
  <2>1. PICK u : u = cur
    OBVIOUS
  <2>2. \A l \in Listeners : l # u => backlog'[l] = backlog[l]
    BY <1>2, <2>1 DEF Inv, Types
  <2>3. \A i \in Items : Has(rdlist, i) => Has(rdlist, i)'
    BY <1>4 DEF Has
  <2>4. u \notin Conns /\ (backlog'[u] = << >> \/ faults' > 0)
    BY <1>1, <1>5, <2>1
  <2>5. QED
    BY <1>1, <1>3, <1>4, <1>5, <1>6, <2>1, <2>2, <2>3, <2>4, Advanced
<1>8. Types'
  BY <1>3, <1>4, <1>5, <1>7 DEF Inv, Types
<1>9. Counters' /\ Freshness' /\ Ready'
  BY <1>3, <1>4 DEF Inv, Counters, Freshness, Fresh, Ready, Has, Distinct
<1>10. Echoes'
  BY <1>1, <1>3, <1>4, <1>7 DEF Inv, Echoes, Handed
<1>11. QED
  BY <1>3, <1>7, <1>8, <1>9, <1>10 DEF Inv

(* The current connection is given up. *)
LEMMA CleanupInv ==
    ASSUME Inv, evs # << >>, cur \in Conns, Cleanup(cur), NextEvent,
           snd' = Idle, UNCHANGED <<faults, thrice>>, nospace' \in [Conns -> BOOLEAN],
           NEW u, u = cur, \A c \in Conns : c # u => nospace'[c] = nospace[c]
    PROVE  Inv'
<1> USE DEF Cleanup
<1>1. u \in Conns /\ st[u] = "open"
  BY CurrentOpen DEF Inv, Located
<1>2. /\ st' \in [Conns -> {"none", "backlog", "open", "closed"}]
      /\ st'[u] = "closed" /\ \A c \in Conns : c # u => st'[c] = st[c]
  <2>1. st \in [Conns -> {"none", "backlog", "open", "closed"}]
    BY DEF Inv, Types
  <2>2. QED
    BY <1>1, <2>1
<1>3. /\ rdlist' \in Seq(Items) /\ Distinct(rdlist)'
      /\ \A i : Has(rdlist, i)' <=> Has(rdlist, i) /\ i # u
  <2>1. /\ RemoveFirst(rdlist, u) \in Seq(Items) /\ Distinct(RemoveFirst(rdlist, u))
        /\ \A i : Has(RemoveFirst(rdlist, u), i) <=> Has(rdlist, i) /\ i # u
    BY Removed DEF Inv, Types, Ready
  <2>2. rdlist' = RemoveFirst(rdlist, u)
    OBVIOUS
  <2>3. QED
    BY <2>1, <2>2 DEF Has, Distinct
<1>4. /\ buf' \in [Conns -> Seq(Bytes)] /\ buf'[u] = << >>
      /\ \A c \in Conns : c # u => buf'[c] = buf[c]
  <2>1. buf \in [Conns -> Seq(Bytes)] /\ << >> \in Seq(Bytes)
    BY EmptySeq DEF Inv, Types
  <2>2. QED
    BY <1>1, <2>1
<1>5. UNCHANGED <<backlog, nsent, nread, fin, rst, out, drained>>
  OBVIOUS
<1> HIDE DEF Cleanup
<1>6. /\ evs' \in Seq(Events) /\ pc' \in {"wait", "dispatch"}
      /\ Located' /\ Sent' /\ Batch' /\ Attended' /\ Receiving'
  BY <1>1, <1>2, <1>3, <1>4, <1>5, Advanced
<1>7. Types'
  BY <1>2, <1>3, <1>4, <1>5, <1>6 DEF Inv, Types
<1>8. Counters'
  <2>1. Bounded(nsent[u], nread[u], out[u], drained[u], << >>)
    BY <1>1, EmptySeq DEF Inv, Counters, Bounded
  <2>2. QED
    BY <1>4, <1>5, <2>1 DEF Inv, Counters
<1>9. Freshness' /\ Ready'
  <2>1. Ready'
    BY <1>2, <1>3 DEF Inv, Ready
  <2>2. Freshness'
    BY <1>2, <1>4, <1>5 DEF Inv, Freshness, Fresh
  <2>3. QED
    BY <2>1, <2>2
<1>10. Queued'
  <2>1. \A l \in Listeners : \A k \in 1 .. Len(backlog[l]) :
            backlog[l][k] \in Conns /\ backlog[l][k] # u
    <3>1. \A l \in Listeners : backlog[l] \in Seq(Conns)
      BY DEF Inv, Types
    <3>2. \A l \in Listeners : \A k \in 1 .. Len(backlog[l]) : backlog[l][k] \in Conns
      BY <3>1, ElementOfSeq
    <3>3. QED
      BY <1>1, <3>2 DEF Inv, Queued
  <2>2. QED
    BY <1>2, <1>5, <2>1 DEF Inv, Queued
<1>11. Echoes'
  BY <1>2, <1>4, <1>5, <1>6 DEF Inv, Echoes, Handed
<1>12. QED
  BY <1>6, <1>7, <1>8, <1>9, <1>10, <1>11 DEF Inv

LEMMA DispatchHangupInv == Inv /\ DispatchHangup => Inv'
<1> SUFFICES ASSUME Inv, DispatchHangup PROVE Inv'
  OBVIOUS
<1>1. evs # << >> /\ cur \in Conns /\ snd' = Idle /\ nospace' \in [Conns -> BOOLEAN]
  BY DEF DispatchHangup, Inv, Located, Types
<1>2. QED
  BY <1>1, CleanupInv DEF DispatchHangup

LEMMA RecvEndInv == Inv /\ RecvEnd => Inv'
<1> SUFFICES ASSUME Inv, RecvEnd PROVE Inv'
  OBVIOUS
<1>1. evs # << >> /\ cur \in Conns /\ snd' = Idle /\ nospace' \in [Conns -> BOOLEAN]
  BY DEF RecvEnd, Inv, Located, Types
<1>2. QED
  BY <1>1, CleanupInv DEF RecvEnd

LEMMA RecvAgainInv == Inv /\ RecvAgain => Inv'
<1> SUFFICES ASSUME Inv, RecvAgain PROVE Inv'
  OBVIOUS
<1> USE DEF RecvAgain, sockets
<1>1. /\ evs # << >> /\ cur \in Conns /\ snd' = Idle
      /\ UNCHANGED <<st, backlog, nsent, nread, fin, rst, out, drained,
                     rdlist, nospace, buf, faults, thrice>>
  BY DEF Inv, Located
<1>2. PICK u \in Conns : u = cur
  BY <1>1
<1>3. ~Input(u) /\ buf[u] = << >>
  BY <1>2 DEF Input, Inv, Receiving
<1>4. Rests(u)' /\ \A i \in Items : Has(rdlist, i) => Has(rdlist, i)'
  BY <1>1, <1>3 DEF Rests, Input, Unread, Has
<1>5. /\ evs' \in Seq(Events) /\ pc' \in {"wait", "dispatch"}
      /\ Located' /\ Sent' /\ Batch' /\ Attended' /\ Receiving'
  BY <1>1, <1>2, <1>4, Advanced
<1>6. Types'
  BY <1>5 DEF Inv, Types
<1>7. Counters' /\ Freshness' /\ Queued' /\ Ready'
  BY DEF Inv, Counters, Freshness, Queued, Ready, Has, Distinct
<1>8. Echoes'
  BY <1>1, <1>5 DEF Inv, Echoes, Handed
<1>9. QED
  BY <1>5, <1>6, <1>7, <1>8 DEF Inv

LEMMA RecvDataInv == Inv /\ RecvData => Inv'
<1> SUFFICES ASSUME Inv, RecvData PROVE Inv'
  OBVIOUS
<1> DEFINE n == Min({BufCap, Unread(cur)})
           b == [k \in 1 .. n |-> nread[cur] + k]
<1>1. /\ pc = "recv" /\ pc' = "send" /\ evs # << >> /\ cur \in Conns /\ st[cur] = "open"
      /\ cur' = cur /\ evs' = evs
  BY CurrentOpen DEF RecvData, Inv, Located, cur
<1>2. /\ nread[cur] \in Nat /\ nsent[cur] \in Nat /\ nread[cur] < nsent[cur]
      /\ nsent[cur] <= MaxBytes /\ buf[cur] = << >> /\ out[cur] \in Seq(Bytes)
  BY <1>1 DEF Inv, Types, Counters, Bounded, Receiving, RecvData, Unread
<1>3. n \in Nat \ {0} /\ n <= BufCap /\ nread[cur] + n <= nsent[cur] /\ nread[cur] + n \in Nat
  <2>1. nsent[cur] - nread[cur] \in Nat \ {0}
    BY <1>2
  <2>2. n = IF BufCap <= nsent[cur] - nread[cur] THEN BufCap ELSE nsent[cur] - nread[cur]
    BY <2>1, MinOfTwo DEF Unread
  <2>3. QED
    BY <1>2, <2>1, <2>2
<1>4. /\ buf' = [buf EXCEPT ![cur] = b] /\ nread' = [nread EXCEPT ![cur] = nread[cur] + n]
      /\ snd' = [path |-> "read", fd |-> cur, sent |-> 0, left |-> n, total |-> 0, calls |-> 0]
  BY DEF RecvData, CallSend
<1>5. UNCHANGED <<st, backlog, nsent, fin, rst, out, drained, rdlist, nospace, faults, thrice>>
  BY DEF RecvData
<1> HIDE DEF n
<1>6. /\ b \in Seq(Bytes) /\ Len(b) = n
      /\ Echo(out[cur], b, 0, nread[cur] + n, thrice[cur])
  <2>1. Echo(out[cur], << >>, 0, nread[cur], thrice[cur])
    BY <1>1, <1>2 DEF Inv, Echoes, Handed
  <2>2. nread[cur] + n <= MaxBytes
    BY <1>2, <1>3
  <2>3. QED
    BY <1>2, <1>3, <2>1, <2>2, EchoReceived
<1> HIDE DEF b
<1>7. /\ buf' \in [Conns -> Seq(Bytes)] /\ buf'[cur] = b
      /\ nread' \in [Conns -> Nat] /\ nread'[cur] = nread[cur] + n
      /\ \A c \in Conns : c # cur => buf'[c] = buf[c] /\ nread'[c] = nread[c]
  <2>1. buf \in [Conns -> Seq(Bytes)] /\ nread \in [Conns -> Nat]
    BY DEF Inv, Types
  <2>2. QED
    BY <1>1, <1>3, <1>4, <1>6, <2>1
<1>8. b # << >>
  BY <1>3, <1>6
<1>9. /\ snd' \in Locals /\ snd'.fd = cur /\ snd'.path = "read" /\ snd'.sent = 0
      /\ snd'.left = n /\ snd'.total = 0 /\ snd'.calls = 0
  BY <1>1, <1>3, <1>4 DEF Locals
<1>10. Types'
  BY <1>1, <1>5, <1>7 DEF Inv, Types
<1>11. Counters'
  <2>1. Bounded(nsent[cur], nread[cur] + n, out[cur], drained[cur], b)
    BY <1>1, <1>3, <1>6 DEF Inv, Counters, Bounded
  <2>2. QED
    BY <1>5, <1>7, <2>1 DEF Inv, Counters
<1>12. Freshness' /\ Queued' /\ Ready'
  <2>1. \A c \in Conns : Fresh(st[c], nread[c], out[c], buf[c])
    BY DEF Inv, Freshness
  <2>2. Fresh(st[cur], nread[cur] + n, out[cur], b)
    BY <1>1 DEF Fresh
  <2>3. Freshness'
    BY <1>5, <1>7, <2>1, <2>2 DEF Freshness
  <2>4. Queued' /\ Ready'
    BY <1>5 DEF Inv, Queued, Ready, Has, Distinct
  <2>5. QED
    BY <2>3, <2>4
<1>13. Located' /\ Receiving'
  BY <1>1, <1>5, <1>9 DEF Inv, Located, Receiving
<1>14. Sent'
  <2>1. n >= 1 /\ 0 + n = n
    BY <1>3
  <2>2. QED
    BY <1>1, <1>6, <1>7, <1>9, <2>1 DEF Sent
<1>15. Batch' /\ Attended'
  <2>1. PICK u : u = cur
    OBVIOUS
  <2>2. \A i \in Items : Has(rdlist, i) => Has(rdlist, i)'
    BY <1>5 DEF Has
  <2>3. QED
    BY <1>1, <1>5, <1>7, <2>1, <2>2, Handling
<1>16. Echoes'
  <2>1. \A c \in Conns : Handed(c)' = 0 /\ Handed(c) = 0
    BY <1>1, <1>9 DEF Handed
  <2>2. QED
    BY <1>5, <1>6, <1>7, <2>1 DEF Inv, Echoes
<1>17. QED
  BY <1>10, <1>11, <1>12, <1>13, <1>14, <1>15, <1>16 DEF Inv

(* A send that takes something takes part of what is left, or all of it. *)
LEMMA SendTakes ==
    ASSUME Inv, Send
    PROVE  /\ pc = "send" /\ evs # << >> /\ cur \in Conns /\ st[cur] = "open"
           /\ snd \in Locals /\ snd.fd = cur /\ buf[cur] \in Seq(Bytes)
           /\ Taken \in Nat \ {0} /\ Taken <= snd.left
           /\ out' \in [Conns -> Seq(Bytes)] /\ thrice' \in [Conns -> BOOLEAN]
           /\ \A c \in Conns : c # cur => out'[c] = out[c] /\ thrice'[c] = thrice[c]
           /\ Bounded(nsent[cur], nread[cur], out'[cur], drained[cur], buf[cur])
           /\ thrice'[cur] <=> thrice[cur] \/ snd.calls = 2
           /\ Echo(out'[cur], buf[cur], snd.total + Taken, nread[cur], thrice'[cur])
<1>1. /\ pc = "send" /\ evs # << >> /\ cur \in Conns /\ st[cur] = "open"
      /\ snd \in Locals /\ snd.fd = cur
  BY CurrentOpen DEF Send, Inv, Located
<1>2. /\ snd.sent \in Nat /\ snd.left \in Nat \ {0} /\ snd.total \in Nat /\ snd.calls \in Nat
      /\ snd.total + snd.left = Len(buf[cur]) /\ snd.sent <= snd.total
      /\ snd.calls <= 1 => snd.sent = snd.total
      /\ snd.calls >= 3 => thrice[cur]
  BY <1>1 DEF Locals, Inv, Sent
<1>3. /\ out[cur] \in Seq(Bytes) /\ buf[cur] \in Seq(Bytes) /\ Len(out[cur]) \in Nat
      /\ Len(buf[cur]) \in Nat /\ drained[cur] \in Nat /\ nread[cur] \in Nat
  BY <1>1, LenProperties DEF Inv, Types
<1>4. Space(cur) \in Nat \ {0} /\ Space(cur) = SendCap - (Len(out[cur]) - drained[cur])
  BY <1>3 DEF Send, Space
<1>5. Taken \in Nat \ {0} /\ Taken <= snd.left /\ Taken <= Space(cur)
  <2>1. Taken = IF snd.left <= Space(cur) THEN snd.left ELSE Space(cur)
    BY <1>1, <1>2, <1>4, MinOfTwo DEF Taken
  <2>2. QED
    BY <1>2, <1>4, <2>1
<1> DEFINE n == Taken
           p == out[cur] \o SubSeq(buf[cur], snd.sent + 1, snd.sent + n)
           y == thrice[cur] \/ snd.calls = 2
<1>6. out' = [out EXCEPT ![cur] = p] /\ thrice' = [thrice EXCEPT ![cur] = y]
  BY <1>1 DEF Send, SendBytes
<1>7. n \in Nat \ {0} /\ snd.sent + n <= Len(buf[cur]) /\ snd.total + n <= Len(buf[cur])
  BY <1>2, <1>3, <1>5
<1>8. ~y => ~thrice[cur] /\ snd.sent = snd.total
  BY <1>2
<1>9. Echo(out[cur], buf[cur], snd.total, nread[cur], thrice[cur])
  BY <1>1 DEF Inv, Echoes, Handed
<1> HIDE DEF n, y
<1>10. p \in Seq(Bytes) /\ Len(p) = Len(out[cur]) + n /\ Echo(p, buf[cur], snd.total + n, nread[cur], y)
  BY <1>2, <1>3, <1>7, <1>8, <1>9, EchoTaken, ZenonT(40)
<1> HIDE DEF p
<1>11. /\ out' \in [Conns -> Seq(Bytes)] /\ out'[cur] = p
       /\ \A c \in Conns : c # cur => out'[c] = out[c]
  <2>1. out \in [Conns -> Seq(Bytes)]
    BY DEF Inv, Types
  <2>2. QED
    BY <1>1, <1>6, <1>10, <2>1
<1>12. /\ thrice' \in [Conns -> BOOLEAN] /\ (thrice'[cur] <=> y)
       /\ \A c \in Conns : c # cur => thrice'[c] = thrice[c]
  <2>1. thrice \in [Conns -> BOOLEAN]
    BY DEF Inv, Types
  <2>2. y \in BOOLEAN
    BY DEF y
  <2>3. QED
    BY <1>1, <1>6, <2>1, <2>2
<1>13. Bounded(nsent[cur], nread[cur], p, drained[cur], buf[cur])
  <2>1. Bounded(nsent[cur], nread[cur], out[cur], drained[cur], buf[cur])
    BY <1>1 DEF Inv, Counters
  <2>2. drained[cur] <= Len(out[cur]) + n /\ (Len(out[cur]) + n) - drained[cur] <= SendCap
    BY <1>3, <1>4, <1>5, <1>7, <2>1 DEF Bounded, n
  <2>3. QED
    BY <1>10, <2>1, <2>2 DEF Bounded
<1>14. Echo(p, buf[cur], snd.total + n, nread[cur], thrice'[cur])
  BY <1>10, <1>12 DEF Echo
<1>15. QED
  BY <1>1, <1>3, <1>5, <1>11, <1>12, <1>13, <1>14 DEF n, y

(* Only the current connection may run out of space. *)
LEMMA SendNospace ==
    ASSUME Inv, Send \/ SendAgain
    PROVE  /\ nospace' \in [Conns -> BOOLEAN]
           /\ \A c \in Conns : c # cur => nospace'[c] = nospace[c]
           /\ SendAgain => nospace'[cur]
<1>1. nospace \in [Conns -> BOOLEAN] /\ cur \in Conns
  BY DEF Inv, Types, Located, Send, SendAgain
<1>2. PICK b \in BOOLEAN : nospace' = [nospace EXCEPT ![cur] = b] /\ (SendAgain => b)
  <2>1. CASE SendAgain
    BY <2>1 DEF SendAgain
  <2>2. CASE Send /\ ~SendAgain
    <3>1. nospace' = [nospace EXCEPT ![cur] = nospace[cur] \/ Taken < snd.left]
      BY <2>2 DEF Send
    <3>2. QED
      BY <2>2, <3>1
  <2>3. QED
    BY <2>1, <2>2
<1>3. QED
  BY <1>1, <1>2

LEMMA SendMoreInv ==
    ASSUME Inv, Send, Taken < snd.left, SendMore,
           UNCHANGED <<st, backlog, nsent, nread, fin, rst, drained,
                       rdlist, evs, pc, buf, faults>>
    PROVE  Inv'
<1> DEFINE n == Taken
<1>1. /\ pc = "send" /\ evs # << >> /\ cur \in Conns /\ st[cur] = "open"
      /\ snd \in Locals /\ snd.fd = cur
      /\ n \in Nat \ {0} /\ n < snd.left
      /\ out' \in [Conns -> Seq(Bytes)] /\ thrice' \in [Conns -> BOOLEAN]
      /\ \A c \in Conns : c # cur => out'[c] = out[c] /\ thrice'[c] = thrice[c]
      /\ Bounded(nsent[cur], nread[cur], out'[cur], drained[cur], buf[cur])
      /\ thrice'[cur] <=> thrice[cur] \/ snd.calls = 2
      /\ Echo(out'[cur], buf[cur], snd.total + n, nread[cur], thrice'[cur])
  BY SendTakes
<1>2. snd' = [snd EXCEPT !.sent = n, !.left = @ - n, !.total = @ + n, !.calls = @ + 1]
  BY DEF SendMore
<1> HIDE DEF n
<1>3. snd.sent \in Nat /\ snd.left \in Nat /\ snd.total \in Nat /\ snd.calls \in Nat
  BY <1>1 DEF Locals
<1>4. /\ snd' \in Locals /\ snd'.fd = cur /\ snd'.path = snd.path /\ snd'.sent = n
      /\ snd'.left = snd.left - n /\ snd'.total = snd.total + n /\ snd'.calls = snd.calls + 1
  <2>1. snd.left - n \in Nat /\ snd.total + n \in Nat /\ snd.calls + 1 \in Nat
    BY <1>1, <1>3
  <2>2. QED
    BY <1>1, <1>2, <2>1 DEF Locals
<1>5. cur' = cur /\ ev' = ev /\ nospace' \in [Conns -> BOOLEAN]
      /\ \A c \in Conns : c # cur => nospace'[c] = nospace[c]
  BY SendNospace DEF cur, ev
<1>6. Types'
  BY <1>1, <1>5 DEF Inv, Types
<1>7. Counters'
  BY <1>1 DEF Inv, Counters
<1>8. Freshness' /\ Queued' /\ Ready' /\ Receiving'
  <2>1. Freshness'
    BY <1>1 DEF Inv, Freshness, Fresh
  <2>2. Queued'
    BY DEF Inv, Queued
  <2>3. Ready'
    BY DEF Inv, Ready, Has, Distinct
  <2>4. Receiving'
    BY <1>1 DEF Receiving
  <2>5. QED
    BY <2>1, <2>2, <2>3, <2>4
<1>9. Located'
  BY <1>1, <1>4, <1>5 DEF Inv, Located
<1>10. Sent'
  <2>1. /\ snd.left - n >= 1 /\ (snd.total + n) + (snd.left - n) = Len(buf[cur])
        /\ n <= snd.total + n /\ snd.total + n # 0 /\ snd.calls + 1 # 0
        /\ snd.calls + 1 <= 1 => n = snd.total + n
        /\ snd.calls + 1 >= 3 => thrice'[cur]
    <3>1. /\ snd.total + snd.left = Len(buf[cur]) /\ (snd.calls = 0 => snd.total = 0)
          /\ snd.calls >= 3 => thrice[cur]
      BY <1>1 DEF Inv, Sent
    <3>2. snd.calls + 1 >= 3 => snd.calls = 2 \/ snd.calls >= 3
      BY <1>3
    <3>3. snd.calls + 1 >= 3 => thrice'[cur]
      BY <1>1, <3>1, <3>2
    <3>4. Len(buf[cur]) \in Nat
      BY <1>1, LenProperties DEF Inv, Types
    <3>5. /\ snd.left - n >= 1 /\ (snd.total + n) + (snd.left - n) = snd.total + snd.left
          /\ n <= snd.total + n /\ snd.total + n # 0 /\ snd.calls + 1 # 0
          /\ snd.calls + 1 <= 1 => snd.calls = 0
      <4>1. PICK a, t, c : a = snd.left /\ t = snd.total /\ c = snd.calls
        OBVIOUS
      <4>2. a \in Nat /\ t \in Nat /\ c \in Nat /\ n \in Nat \ {0} /\ n < a
        BY <1>1, <1>3, <4>1
      <4>3. /\ a - n >= 1 /\ (t + n) + (a - n) = t + a /\ n <= t + n /\ t + n # 0 /\ c + 1 # 0
            /\ c + 1 <= 1 => c = 0
        BY <4>2
      <4>4. QED
        BY <4>1, <4>3
    <3>6. snd.total = 0 => n = snd.total + n
      BY <1>1
    <3>7. QED
      BY <3>1, <3>3, <3>5, <3>6
  <2>2. snd.path = "write" /\ Input(cur) => "EPOLLIN" \in ev \/ Has(rdlist, cur)
    BY <1>1 DEF Inv, Sent
  <2>3. snd'.path = "write" /\ Input(cur)' => "EPOLLIN" \in ev' \/ Has(rdlist, cur)'
    <3>1. (Input(cur)' <=> Input(cur)) /\ (Has(rdlist, cur)' <=> Has(rdlist, cur))
      BY <1>5 DEF Input, Unread, Has
    <3>2. QED
      BY <1>4, <1>5, <2>2, <3>1
  <2>4. QED
    BY <1>4, <1>5, <2>1, <2>3 DEF Sent
<1>11. Batch' /\ Attended'
  <2>1. PICK u : u = cur
    OBVIOUS
  <2>2. \A i \in Items : Has(rdlist, i) => Has(rdlist, i)'
    BY DEF Has
  <2>3. QED
    BY <1>1, <1>5, <2>1, <2>2, Handling
<1>12. Echoes'
  BY <1>1, <1>4, <1>5 DEF Inv, Echoes, Handed
<1>13. QED
  BY <1>6, <1>7, <1>8, <1>9, <1>10, <1>11, <1>12 DEF Inv

(* The send that takes all that is left: the buffer is empty. *)
LEMMA SendAllInv ==
    ASSUME Inv, Send, Taken = snd.left, ReturnedAll, snd' = Idle, faults' = faults
    PROVE  Inv'
<1>1. /\ pc = "send" /\ evs # << >> /\ cur \in Conns /\ st[cur] = "open"
      /\ snd \in Locals /\ snd.fd = cur /\ buf[cur] \in Seq(Bytes)
      /\ out' \in [Conns -> Seq(Bytes)] /\ thrice' \in [Conns -> BOOLEAN]
      /\ \A c \in Conns : c # cur => out'[c] = out[c] /\ thrice'[c] = thrice[c]
      /\ Bounded(nsent[cur], nread[cur], out'[cur], drained[cur], buf[cur])
      /\ Echo(out'[cur], buf[cur], snd.total + snd.left, nread[cur], thrice'[cur])
  BY SendTakes
<1>2. /\ nospace' \in [Conns -> BOOLEAN]
      /\ \A c \in Conns : c # cur => nospace'[c] = nospace[c]
  BY SendNospace
<1>3. UNCHANGED <<st, backlog, nsent, nread, fin, rst, drained, rdlist>>
  BY DEF ReturnedAll
<1>4. /\ buf' \in [Conns -> Seq(Bytes)] /\ buf'[cur] = << >>
      /\ \A c \in Conns : c # cur => buf'[c] = buf[c]
  <2>1. buf \in [Conns -> Seq(Bytes)] /\ << >> \in Seq(Bytes)
    BY EmptySeq DEF Inv, Types
  <2>2. QED
    BY <1>1, <2>1 DEF ReturnedAll
<1>5. PICK u \in Conns : u = cur
  BY <1>1
<1>6. \A i \in Items : Has(rdlist, i) => Has(rdlist, i)'
  BY <1>3 DEF Has
<1>7. /\ evs' \in Seq(Events) /\ pc' \in {"wait", "dispatch", "recv"}
      /\ Located' /\ Sent' /\ Batch' /\ Attended' /\ Receiving'
  <2>1. CASE snd.path = "read" \/ "EPOLLIN" \in ev
    <3>1. pc' = "recv" /\ evs' = evs
      BY <2>1 DEF ReturnedAll
    <3>2. cur' = u /\ Batch' /\ Attended'
      BY <1>1, <1>2, <1>3, <1>4, <1>5, <1>6, <3>1, Handling
    <3>3. Located' /\ Sent' /\ Receiving'
      <4>1. u \in Conns /\ buf'[u] = << >>
        BY <1>4, <1>5
      <4>2. QED
        BY <1>1, <3>1, <3>2, <4>1 DEF Located, Sent, Receiving
    <3>4. QED
      BY <3>1, <3>2, <3>3 DEF Inv, Types
  <2>2. CASE ~(snd.path = "read" \/ "EPOLLIN" \in ev)
    <3>1. NextEvent
      BY <2>2 DEF ReturnedAll
    <3>2. Input(u) => Has(rdlist, u)
      <4>1. snd.path = "write"
        BY <1>1, <2>2 DEF Locals
      <4>2. QED
        BY <1>1, <1>5, <2>2, <4>1 DEF Inv, Sent
    <3>3. Rests(u)'
      <4>1. (Input(u)' <=> Input(u)) /\ buf'[u] = << >> /\ u \in Items
        BY <1>3, <1>4, <1>5 DEF Input, Unread, Items
      <4>2. QED
        BY <1>6, <3>2, <4>1 DEF Rests
    <3>4. QED
      BY <1>1, <1>2, <1>3, <1>4, <1>5, <1>6, <3>1, <3>3, Advanced
  <2>3. QED
    BY <2>1, <2>2
<1>8. Types'
  BY <1>1, <1>2, <1>3, <1>4, <1>7 DEF Inv, Types
<1>9. Counters'
  <2>1. Bounded(nsent[cur], nread[cur], out'[cur], drained[cur], << >>)
    BY <1>1, EmptySeq DEF Bounded
  <2>2. QED
    BY <1>1, <1>3, <1>4, <2>1 DEF Inv, Counters
<1>10. Freshness' /\ Queued' /\ Ready'
  <2>1. Freshness'
    BY <1>1, <1>3, <1>4 DEF Inv, Freshness, Fresh
  <2>2. Queued'
    BY <1>3 DEF Inv, Queued
  <2>3. Ready'
    BY <1>3 DEF Inv, Ready, Has, Distinct
  <2>4. QED
    BY <2>1, <2>2, <2>3
<1>11. Echoes'
  <2>1. snd.total + snd.left = Len(buf[cur]) /\ nread[cur] \in Nat /\ out'[cur] \in Seq(Bytes)
    BY <1>1 DEF Inv, Sent, Types
  <2>2. Echo(out'[cur], << >>, 0, nread[cur], thrice'[cur])
    BY <1>1, <2>1, EchoAll
  <2>3. pc' # "send" /\ \A c \in Conns : Handed(c)' = 0 /\ (c # cur => Handed(c) = 0)
    BY <1>7 DEF Handed
  <2>4. ASSUME NEW c \in Conns, st[c] = "open", c # cur
        PROVE  Echo(out'[c], buf'[c], 0, nread[c], thrice'[c])
    <3>1. Echo(out[c], buf[c], 0, nread[c], thrice[c])
      BY <2>3, <2>4 DEF Inv, Echoes
    <3>2. QED
      BY <1>1, <1>4, <2>4, <3>1
  <2>5. ASSUME NEW c \in Conns, st[c] = "open"
        PROVE  Echo(out'[c], buf'[c], 0, nread[c], thrice'[c])
    BY <1>4, <2>2, <2>4, <2>5
  <2>6. QED
    BY <1>3, <2>3, <2>5 DEF Echoes
<1>12. QED
  BY <1>7, <1>8, <1>9, <1>10, <1>11 DEF Inv

LEMMA SendInv == Inv /\ Send => Inv'
<1> SUFFICES ASSUME Inv, Send PROVE Inv'
  OBVIOUS
<1>1. CASE Taken = snd.left /\ Returned(snd.total + Taken)
  <2>1. /\ snd.total \in Nat /\ snd.left \in Nat \ {0} /\ snd.total + snd.left = Len(buf[cur])
    BY DEF Send, Inv, Located, Locals, Sent
  <2>2. snd.total + Taken # 0 /\ ~(snd.total + Taken \in 1 .. Len(buf[cur]) - 1)
        /\ snd.total + Taken = Len(buf[cur])
    BY <1>1, <2>1
  <2>3. snd' = Idle /\ ReturnedAll
    BY <1>1, <2>2 DEF Returned
  <2>4. QED
    BY <1>1, <2>3, SendAllInv DEF Send
<1>2. CASE /\ Taken < snd.left /\ SendMore
           /\ UNCHANGED <<st, backlog, nsent, nread, fin, rst, drained,
                          rdlist, evs, pc, buf>>
  BY <1>2, SendMoreInv DEF Send
<1>3. QED
  BY <1>1, <1>2 DEF Send

(* do_send has sent part of the buffer. *)
LEMMA SendPartInv ==
    ASSUME Inv, pc = "send", snd.total \in 1 .. Len(buf[cur]) - 1, ReturnedPart(snd.total),
           SendAgain, snd' = Idle, UNCHANGED <<out, faults, thrice>>
    PROVE  Inv'
<1> DEFINE d == SubSeq(buf[cur], snd.total + 1, Len(buf[cur]))
<1>1. /\ evs # << >> /\ cur \in Conns /\ st[cur] = "open" /\ snd \in Locals
      /\ snd.path \in {"read", "write"} /\ snd.total \in Nat
  BY CurrentOpen DEF Inv, Located, Locals
<1>2. /\ out[cur] \in Seq(Bytes) /\ buf[cur] \in Seq(Bytes) /\ nread[cur] \in Nat
      /\ Len(buf[cur]) \in Nat
  BY <1>1, LenProperties DEF Inv, Types
<1>3. /\ d \in Seq(Bytes) /\ Len(d) = Len(buf[cur]) - snd.total
      /\ Echo(out[cur], d, 0, nread[cur], thrice[cur])
  <2>1. Echo(out[cur], buf[cur], snd.total, nread[cur], thrice[cur])
    BY <1>1 DEF Inv, Echoes, Handed
  <2>2. snd.total <= Len(buf[cur])
    BY <1>1, <1>2
  <2>3. QED
    BY <1>1, <1>2, <2>1, <2>2, EchoReturned
<1>4. buf' = [buf EXCEPT ![cur] = d]
  BY DEF ReturnedPart
<1> HIDE DEF d
<1>5. Len(d) \in Nat \ {0} /\ Len(d) <= BufCap /\ d # << >>
  <2>1. Len(buf[cur]) <= BufCap
    BY <1>1 DEF Inv, Counters, Bounded
  <2>2. Len(d) \in Nat \ {0} /\ Len(d) <= BufCap
    BY <1>1, <1>2, <1>3, <2>1
  <2>3. QED
    BY <2>2
<1>6. /\ buf' \in [Conns -> Seq(Bytes)] /\ buf'[cur] = d
      /\ \A c \in Conns : c # cur => buf'[c] = buf[c]
  <2>1. buf \in [Conns -> Seq(Bytes)]
    BY DEF Inv, Types
  <2>2. QED
    BY <1>1, <1>3, <1>4, <2>1
<1>7. UNCHANGED <<st, backlog, nsent, nread, fin, rst, drained, rdlist>> /\ NextEvent
  BY DEF ReturnedPart
<1>8. /\ nospace' \in [Conns -> BOOLEAN] /\ nospace'[cur]
      /\ \A c \in Conns : c # cur => nospace'[c] = nospace[c]
  BY SendNospace
<1>9. /\ evs' \in Seq(Events) /\ pc' \in {"wait", "dispatch"}
      /\ Located' /\ Sent' /\ Batch' /\ Attended' /\ Receiving'
  <2>1. PICK u \in Conns : u = cur
    BY <1>1
  <2>2. Rests(u)'
    <3>1. buf'[u] # << >> /\ nospace'[u]
      BY <1>5, <1>6, <1>8, <2>1
    <3>2. QED
      BY <3>1 DEF Rests
  <2>3. \A i \in Items : Has(rdlist, i) => Has(rdlist, i)'
    BY <1>7 DEF Has
  <2>4. QED
    BY <1>1, <1>6, <1>7, <1>8, <2>1, <2>2, <2>3, Advanced
<1>10. Types'
  BY <1>6, <1>7, <1>8, <1>9 DEF Inv, Types
<1>11. Counters'
  <2>1. Bounded(nsent[cur], nread[cur], out[cur], drained[cur], d)
    BY <1>1, <1>5 DEF Inv, Counters, Bounded
  <2>2. QED
    BY <1>6, <1>7, <2>1 DEF Inv, Counters
<1>12. Freshness'
  BY <1>1, <1>6, <1>7 DEF Inv, Freshness, Fresh
<1>13. Queued' /\ Ready'
  BY <1>7 DEF Inv, Queued, Ready, Has, Distinct
<1>14. Echoes'
  <2>1. \A c \in Conns : Handed(c)' = 0 /\ (c # cur => Handed(c) = 0)
    BY <1>9 DEF Handed
  <2>2. QED
    BY <1>3, <1>6, <1>7, <2>1 DEF Inv, Echoes
<1>15. QED
  BY <1>9, <1>10, <1>11, <1>12, <1>13, <1>14 DEF Inv

LEMMA SendAgainInv == Inv /\ SendAgain => Inv'
<1> SUFFICES ASSUME Inv, SendAgain PROVE Inv'
  OBVIOUS
<1>1. /\ pc = "send" /\ snd.total \in Nat /\ snd.left \in Nat \ {0}
      /\ evs # << >> /\ cur \in Conns
      /\ snd.total + snd.left = Len(buf[cur])
  BY DEF SendAgain, Inv, Located, Locals, Sent
<1>2. CASE snd.total = 0
  <2>1. ~(snd.total \in 1 .. Len(buf[cur]) - 1) /\ snd.total # Len(buf[cur])
    BY <1>1, <1>2
  <2>2. snd' = Idle /\ ReturnedNothing
    BY <1>2, <2>1 DEF SendAgain, Returned
  <2>3. QED
    BY <1>1, <2>2, SendNospace, CleanupInv DEF ReturnedNothing, SendAgain
<1>3. CASE snd.total # 0
  <2>1. snd.total \in 1 .. Len(buf[cur]) - 1 /\ snd.total # Len(buf[cur])
    BY <1>1, <1>3
  <2>2. snd' = Idle /\ ReturnedPart(snd.total)
    BY <1>3, <2>1 DEF SendAgain, Returned
  <2>3. QED
    BY <1>1, <2>1, <2>2, SendPartInv DEF SendAgain
<1>4. QED
  BY <1>2, <1>3

LEMMA SendFailsInv == Inv /\ SendFails => Inv'
<1> SUFFICES ASSUME Inv, SendFails PROVE Inv'
  OBVIOUS
<1>1. /\ pc = "send" /\ evs # << >> /\ cur \in Conns
      /\ snd' = Idle /\ UNCHANGED <<nospace, faults, thrice>> /\ nospace' \in [Conns -> BOOLEAN]
  BY DEF SendFails, Inv, Located, Types
<1>2. CASE Cleanup(cur) /\ NextEvent
  BY <1>1, <1>2, CleanupInv
<1>3. CASE /\ pc' = "killed"
           /\ evs' = << >>
           /\ rdlist' = << >>
           /\ st' = [c \in Conns |-> "closed"]
           /\ backlog' = [l \in Listeners |-> << >>]
           /\ buf' = [c \in Conns |-> << >>]
           /\ UNCHANGED <<nsent, nread, fin, rst, out, drained>>
  <2>1. /\ << >> \in Seq(Conns) /\ << >> \in Seq(Events) /\ << >> \in Seq(Bytes)
        /\ << >> \in Seq(Items) /\ Len(<< >>) = 0
    BY EmptySeq
  <2>2. /\ backlog' \in [Listeners -> Seq(Conns)] /\ evs' \in Seq(Events)
        /\ buf' \in [Conns -> Seq(Bytes)] /\ rdlist' \in Seq(Items)
    BY <1>3, <2>1
  <2>3. Types'
    BY <1>1, <1>3, <2>2 DEF Inv, Types
  <2>4. Counters'
    <3>1. ASSUME NEW c \in Conns PROVE Bounded(nsent[c], nread[c], out[c], drained[c], << >>)
      BY <2>1 DEF Inv, Counters, Bounded
    <3>2. QED
      BY <1>3, <3>1 DEF Counters
  <2>5. Freshness' /\ Queued' /\ Ready'
    BY <1>3, <2>1 DEF Freshness, Fresh, Queued, Ready, Has, Distinct
  <2>6. Located' /\ Sent' /\ Batch' /\ Attended' /\ Echoes' /\ Receiving'
    BY <1>1, <1>3, <2>1 DEF Located, Sent, Batch, Attended, Echoes, Receiving
  <2>7. QED
    BY <2>3, <2>4, <2>5, <2>6 DEF Inv
<1>4. QED
  BY <1>2, <1>3 DEF SendFails

------------------------------------------------------------------------------
LEMMA InitInv == Init => Inv
<1> SUFFICES ASSUME Init PROVE Inv
  OBVIOUS
<1> USE DEF Init, SocketsInit, SendInit
<1>1. /\ << >> \in Seq(Conns) /\ << >> \in Seq(Events) /\ << >> \in Seq(Bytes)
      /\ << >> \in Seq(Items) /\ Len(<< >>) = 0
  BY EmptySeq
<1>2. Types
  BY <1>1 DEF Types
<1>3. Counters /\ Freshness /\ Queued /\ Ready
  BY <1>1 DEF Counters, Bounded, Freshness, Fresh, Queued, Ready, Has, Distinct
<1>4. Located /\ Sent /\ Batch /\ Attended /\ Echoes /\ Receiving
  BY <1>1 DEF Located, Sent, Batch, Attended, Echoes, Receiving
<1>5. QED
  BY <1>2, <1>3, <1>4 DEF Inv

LEMMA InvInductive == Inv /\ [Next]_vars => Inv'
<1> SUFFICES ASSUME Inv, [Next]_vars PROVE Inv'
  OBVIOUS
<1>1. CASE Client
  BY <1>1, ConnectInv, ClientSendInv, ClientLeavesInv DEF Client
<1>2. ASSUME NEW c \in Conns, Drain(c) PROVE Inv'
  BY <1>2, DrainInv
<1>3. CASE EpollWait
  BY <1>3, EpollWaitInv
<1>4. CASE DispatchListener \/ DispatchRead
  BY <1>4, DispatchInv
<1>5. CASE DispatchWrite
  BY <1>5, DispatchWriteInv
<1>6. CASE DispatchNothing
  BY <1>6, DispatchNothingInv
<1>7. CASE DispatchHangup
  BY <1>7, DispatchHangupInv
<1>8. CASE Accept
  BY <1>8, AcceptInv
<1>9. CASE AcceptEmpty \/ AcceptFails
  BY <1>9, AcceptEndsInv
<1>10. CASE RecvData
  BY <1>10, RecvDataInv
<1>11. CASE RecvEnd
  BY <1>11, RecvEndInv
<1>12. CASE RecvAgain
  BY <1>12, RecvAgainInv
<1>13. CASE Send
  BY <1>13, SendInv
<1>14. CASE SendAgain
  BY <1>14, SendAgainInv
<1>15. CASE SendFails
  BY <1>15, SendFailsInv
<1>16. CASE UNCHANGED vars
  <2>1. UNCHANGED server /\ UNCHANGED sockets
    BY <1>16 DEF vars
  <2>2. Types' /\ Counters' /\ Freshness' /\ Queued'
    BY <2>1 DEF server, sockets, Inv, Types, Counters, Freshness, Queued
  <2>3. Ready' /\ \A i : Has(rdlist, i)' <=> Has(rdlist, i)
    BY <2>1 DEF server, sockets, Inv, Ready, Has, Distinct
  <2>4. Located' /\ Sent' /\ Batch' /\ Attended' /\ Echoes' /\ Receiving'
    BY <2>1, <2>3, ClientKeeps DEF sockets, server, Space, Input, Hangup, Unread
  <2>5. QED
    BY <2>2, <2>3, <2>4 DEF Inv
<1>17. QED
  BY <1>1, <1>2, <1>3, <1>4, <1>5, <1>6, <1>7, <1>8, <1>9, <1>10, <1>11, <1>12,
     <1>13, <1>14, <1>15, <1>16 DEF Next, Server

LEMMA Invariant == Spec => []Inv
  BY InitInv, InvInductive, PTL DEF Spec

(***************************************************************************)
(* The server never holds more than BUF_CAPACITY bytes of a connection,    *)
(* never counts more bytes than were sent and never overfills a queue,     *)
(* whatever the sizes: the buffer arithmetic of poll() stays in bounds.    *)
(***************************************************************************)
THEOREM TypeCorrect == Spec => []TypeOK
<1>1. Inv => TypeOK
  <2> SUFFICES ASSUME Inv PROVE TypeOK
    OBVIOUS
  <2>1. ASSUME NEW S, NEW s \in Seq(S) PROVE Range(s) \subseteq S
    BY LenProperties DEF Range
  <2>2. \A l \in Listeners : Len(backlog[l]) <= Backlog /\ Range(backlog[l]) \subseteq Conns
    BY <2>1 DEF Inv, Types, Queued
  <2>3. ASSUME NEW c \in Conns
        PROVE  /\ nread[c] \in 0 .. nsent[c] /\ nsent[c] \in 0 .. MaxBytes
               /\ drained[c] \in 0 .. Len(out[c])
               /\ Space(c) \in 0 .. SendCap
               /\ Range(out[c]) \subseteq Bytes
               /\ Range(buf[c]) \subseteq Bytes /\ Len(buf[c]) <= BufCap
    <3>1. /\ nread[c] \in Nat /\ nsent[c] \in Nat /\ drained[c] \in Nat
          /\ out[c] \in Seq(Bytes) /\ buf[c] \in Seq(Bytes) /\ Len(out[c]) \in Nat
      BY LenProperties DEF Inv, Types
    <3>2. Bounded(nsent[c], nread[c], out[c], drained[c], buf[c])
      BY DEF Inv, Counters
    <3>3. Range(out[c]) \subseteq Bytes /\ Range(buf[c]) \subseteq Bytes
      BY <2>1, <3>1
    <3>4. QED
      BY <3>1, <3>2, <3>3 DEF Bounded, Space
  <2>4. (snd = Idle) <=> pc # "send"
    <3>1. \A r \in Locals : r.path # "none" /\ r # Idle
      BY DEF Locals, Idle
    <3>2. QED
      BY <3>1 DEF Inv, Located
  <2>5. (evs = << >>) <=> pc \in {"wait", "killed"}
    BY DEF Inv, Located
  <2>6. QED
    BY <2>2, <2>3, <2>4, <2>5 DEF TypeOK, Inv, Types
<1>2. QED
  BY <1>1, Invariant, PTL

(***************************************************************************)
(* Whatever the interleaving of clients, partial sends and events, what    *)
(* send accepted and what is still buffered is what recv returned: by      *)
(* length always, byte for byte unless a do_send called send three times.  *)
(***************************************************************************)
THEOREM EchoCorrect == Spec => []EchoIntact
<1>1. Inv => EchoIntact
  <2> SUFFICES ASSUME Inv, NEW c \in Conns, st[c] = "open"
               PROVE  /\ Len(out[c] \o Pending(c)) = nread[c]
                      /\ ~thrice[c] => out[c] \o Pending(c) = [k \in 1 .. nread[c] |-> k]
    BY DEF EchoIntact
  <2>1. out[c] \in Seq(Bytes) /\ buf[c] \in Seq(Bytes) /\ nread[c] \in Nat /\ Len(buf[c]) \in Nat
    BY LenProperties DEF Inv, Types
  <2>2. \A r \in Locals : r.path # "none" /\ r # Idle
    BY DEF Locals, Idle
  <2>3. Sending(c) <=> pc = "send" /\ cur = c
    BY <2>2 DEF Sending, Inv, Located
  <2>4. Echo(out[c], buf[c], Handed(c), nread[c], thrice[c])
    BY DEF Inv, Echoes
  <2>5. Pending(c) \in Seq(Bytes) /\ Echo(out[c], Pending(c), 0, nread[c], thrice[c])
    <3>1. CASE pc = "send" /\ cur = c
      <4>1. snd.total \in Nat /\ snd.total <= Len(buf[c])
        BY <2>1, <3>1 DEF Inv, Located, Locals, Sent
      <4>2. Echo(out[c], buf[c], snd.total, nread[c], thrice[c])
        BY <2>4, <3>1 DEF Handed
      <4>3. Pending(c) = SubSeq(buf[c], snd.total + 1, Len(buf[c]))
        BY <2>3, <3>1 DEF Pending
      <4>4. QED
        BY <2>1, <4>1, <4>2, <4>3, EchoReturned
    <3>2. CASE ~(pc = "send" /\ cur = c)
      BY <2>1, <2>3, <2>4, <3>2 DEF Pending, Handed
    <3>3. QED
      BY <3>1, <3>2
  <2>6. QED
    BY <2>1, <2>5, EchoSays
<1>2. QED
  BY <1>1, Invariant, PTL

(***************************************************************************)
(* No use after free, whatever the size of the event array: the user_data  *)
(* the kernel can hand out and those left in evs belong to connections     *)
(* that cleanup has not freed, and none is in evs twice.                   *)
(***************************************************************************)
THEOREM AliveCorrect == Spec => []EventsAlive
<1>1. Inv => EventsAlive
  <2> SUFFICES ASSUME Inv PROVE EventsAlive
    OBVIOUS
  <2>1. rdlist \in Seq(Items) /\ evs \in Seq(Events) /\ DOMAIN evs = 1 .. Len(evs)
    BY LenProperties DEF Inv, Types
  <2>2. ASSUME NEW i \in Range(rdlist) PROVE Registered(i)
    <3>1. Has(rdlist, i)
      BY <2>1, <2>2, RangeHas
    <3>2. i \in Items
      BY <2>1, <3>1, ElementOfSeq DEF Has
    <3>3. QED
      BY <3>1, <3>2 DEF Inv, Ready, Registered, Items
  <2>3. ASSUME NEW k \in DOMAIN evs PROVE Registered(evs[k].item)
    <3>1. evs[k] \in Events
      BY <2>1, ElementOfSeq
    <3>2. evs[k].item \in Items
      BY <3>1 DEF Events
    <3>3. QED
      BY <2>1, <3>2 DEF Inv, Batch, Registered, Items
  <2>4. \A j, k \in DOMAIN evs : evs[j].item = evs[k].item => j = k
    BY <2>1 DEF Inv, Batch
  <2>5. QED
    BY <2>2, <2>3, <2>4 DEF EventsAlive
<1>2. QED
  BY <1>1, Invariant, PTL

(***************************************************************************)
(* Edge triggering strands nothing: when poll() calls epoll_wait, every    *)
(* open connection with input, an end of file or unsent output is on the   *)
(* ready list or waits for space with its wake-up armed, and so is every   *)
(* listener with connections unless an accept loop was broken off.         *)
(***************************************************************************)
THEOREM StrandedCorrect == Spec => []NothingStranded
<1>1. Inv => NothingStranded
  <2> SUFFICES ASSUME Inv, pc = "wait" PROVE NothingStranded
    BY DEF NothingStranded
  <2>1. rdlist \in Seq(Items) /\ \A i : i \in Range(rdlist) <=> Has(rdlist, i)
    BY RangeHas DEF Inv, Types
  <2>2. Len(evs) = 0
    BY EmptySeq DEF Inv, Located
  <2>3. \A i : ~Busy(i) /\ ~Left(i)
    BY <2>2 DEF Busy, Left
  <2>4. ASSUME NEW c \in Conns, st[c] = "open", Mask(c) \ {"EPOLLOUT"} # {} \/ buf[c] # << >>
        PROVE  c \in Range(rdlist) \/ (buf[c] # << >> /\ nospace[c])
    <3>1. Rests(c)
      BY <2>3, <2>4 DEF Inv, Attended
    <3>2. Mask(c) \ {"EPOLLOUT"} # {} => Input(c)
      <4>1. Hangup(c) => Input(c)
        BY DEF Hangup, Input
      <4>2. QED
        BY <4>1, Masks
    <3>3. QED
      BY <2>1, <2>4, <3>1, <3>2 DEF Rests
  <2>5. ASSUME NEW l \in Listeners, backlog[l] # << >> PROVE l \in Range(rdlist) \/ faults > 0
    BY <2>1, <2>3, <2>5 DEF Inv, Attended
  <2>6. QED
    BY <2>4, <2>5 DEF NothingStranded
<1>2. QED
  BY <1>1, Invariant, PTL

(***************************************************************************)
(* While the server lives, a client that has neither shut down nor reset   *)
(* is dropped in one case only: recv got its data when the send queue was  *)
(* full, so that do_send returned 0.  Never for what another client does,  *)
(* and never while unsent output waits for EPOLLOUT.                       *)
(***************************************************************************)
THEOREM HealthyCorrect == Spec => HealthyKept
<1>1. ASSUME Inv, [Next]_vars, NEW c \in Conns, st[c] = "open", st'[c] = "closed",
             ~fin[c], ~rst[c], pc' # "killed"
      PROVE  /\ Sending(c) /\ snd.path = "read" /\ snd.total = 0
             /\ Space(c) = 0
  <2>1. st \in [Conns -> {"none", "backlog", "open", "closed"}]
    BY <1>1 DEF Inv, Types
  <2>2. st' # st
    BY <1>1
  <2>3. ~RecvEnd /\ ~DispatchHangup
    <3>1. ASSUME RecvEnd PROVE FALSE
      <4>1. cur \in Conns /\ Cleanup(cur) /\ (fin[cur] \/ rst[cur])
        BY <1>1, <3>1 DEF RecvEnd, Inv, Located
      <4>2. c = cur
        BY <1>1, <2>1, <4>1 DEF Cleanup
      <4>3. QED
        BY <1>1, <4>1, <4>2
    <3>2. ASSUME DispatchHangup PROVE FALSE
      <4>1. pc = "dispatch" /\ cur \in Conns /\ Cleanup(cur) /\ "EPOLLRDHUP" \in ev
        BY <1>1, <3>2 DEF DispatchHangup
      <4>2. c = cur
        BY <1>1, <2>1, <4>1 DEF Cleanup
      <4>3. Covers(ev, cur)
        BY <1>1, <4>1, CurrentCovers
      <4>4. Hangup(cur)
        BY <4>1, <4>3 DEF Covers
      <4>5. QED
        BY <1>1, <4>2, <4>4 DEF Hangup
    <3>3. QED
      BY <3>1, <3>2
  <2>4. ASSUME SendAgain
        PROVE  Sending(c) /\ snd.path = "read" /\ snd.total = 0 /\ Space(c) = 0
    <3>1. /\ pc = "send" /\ cur \in Conns /\ snd \in Locals /\ snd.fd = cur /\ snd.path # "none"
      BY <1>1, <2>4 DEF SendAgain, Inv, Located, Locals
    <3>2. /\ snd.total \in Nat /\ snd.left \in Nat \ {0}
          /\ snd.total + snd.left = Len(buf[cur])
          /\ snd.path = "write" /\ snd.total = 0 => Space(cur) > 0 \/ rst[cur]
      BY <1>1, <3>1 DEF Inv, Sent, Locals
    <3>3. snd.total = 0 /\ Cleanup(cur)
      <4>1. CASE snd.total = 0
        <5>1. ~(snd.total \in 1 .. Len(buf[cur]) - 1) /\ snd.total # Len(buf[cur])
          BY <3>2, <4>1
        <5>2. QED
          BY <2>4, <4>1, <5>1 DEF SendAgain, Returned, ReturnedNothing
      <4>2. CASE snd.total # 0
        <5>1. snd.total \in 1 .. Len(buf[cur]) - 1 /\ snd.total # Len(buf[cur])
          BY <3>2, <4>2
        <5>2. st' = st
          BY <2>4, <4>2, <5>1 DEF SendAgain, Returned, ReturnedPart
        <5>3. QED
          BY <2>2, <5>2
      <4>3. QED
        BY <4>1, <4>2
    <3>4. c = cur
      BY <1>1, <2>1, <3>1, <3>3 DEF Cleanup
    <3>5. snd # Idle
      BY <3>1 DEF Idle
    <3>6. snd.path = "read"
      BY <1>1, <2>4, <3>1, <3>2, <3>3, <3>4 DEF SendAgain, Locals
    <3>7. QED
      BY <2>4, <3>1, <3>3, <3>4, <3>5, <3>6 DEF SendAgain, Sending
  <2>5. ~Send
    <3> SUFFICES ASSUME Send PROVE FALSE
      OBVIOUS
    <3>1. /\ snd.total \in Nat /\ snd.left \in Nat \ {0} /\ snd.total + snd.left = Len(buf[cur])
      BY <1>1 DEF Send, Inv, Located, Locals, Sent
    <3>2. CASE Taken = snd.left
      <4>1. snd.total + Taken # 0 /\ ~(snd.total + Taken \in 1 .. Len(buf[cur]) - 1)
            /\ snd.total + Taken = Len(buf[cur])
        BY <3>1, <3>2
      <4>2. st' = st
        BY <3>2, <4>1 DEF Send, Returned, ReturnedAll
      <4>3. QED
        BY <2>2, <4>2
    <3>3. CASE Taken # snd.left
      BY <2>2, <3>3 DEF Send
    <3>4. QED
      BY <3>2, <3>3
  <2>6. ~SendFails
    <3> SUFFICES ASSUME SendFails PROVE FALSE
      OBVIOUS
    <3>1. cur \in Conns /\ rst[cur] /\ Cleanup(cur)
      BY <1>1 DEF SendFails, Inv, Located
    <3>2. c = cur
      BY <1>1, <2>1, <3>1 DEF Cleanup
    <3>3. QED
      BY <1>1, <3>1, <3>2
  <2>7. ~Accept /\ ~AcceptFails
    <3>1. ASSUME Accept PROVE FALSE
      <4>1. cur \in Listeners
        BY <1>1, <3>1 DEF Accept, Inv, Located
      <4>2. st'[c] = st[c] \/ st'[c] = "open"
        BY <2>1, <3>1 DEF Accept
      <4>3. QED
        BY <1>1, <4>2
    <3>2. ASSUME AcceptFails PROVE FALSE
      <4>1. cur \in Listeners /\ backlog[cur] # << >>
        BY <1>1, <3>2 DEF AcceptFails, Inv, Located
      <4>2. /\ st' = [st EXCEPT ![Head(backlog[cur])] = "closed"]
            /\ backlog' = [backlog EXCEPT ![cur] = Tail(@)]
        BY <2>2, <3>2 DEF AcceptFails, sockets
      <4>3. /\ st[Head(backlog[cur])] = "backlog"
            /\ \A d \in Conns : d # Head(backlog[cur]) => st'[d] = st[d]
        BY <1>1, <4>1, <4>2, TakenFromBacklog
      <4>4. QED
        BY <1>1, <4>3
    <3>3. QED
      BY <3>1, <3>2
  <2>8. ~Client
    BY <1>1, <2>1 DEF Client, Connect, ClientSend, ClientShutdown, ClientReset
  <2>9. SendAgain
    BY <1>1, <2>2, <2>3, <2>5, <2>6, <2>7, <2>8
       DEF Next, Server, Drain, ClientDrain, EpollWait, DispatchListener, DispatchWrite,
           DispatchRead, DispatchNothing, AcceptEmpty, RecvData, RecvAgain, sockets, vars
  <2>10. QED
    BY <2>4, <2>9
<1>2. Inv /\ [Next]_vars =>
        [\A c \in Conns :
            (/\ st[c] = "open" /\ st'[c] = "closed"
             /\ ~fin[c] /\ ~rst[c] /\ pc' # "killed") =>
                /\ Sending(c) /\ snd.path = "read" /\ snd.total = 0
                /\ Space(c) = 0]_vars
  BY <1>1, Zenon
<1>3. QED
  BY <1>2, Invariant, PTL DEF Spec, HealthyKept
=============================================================================
