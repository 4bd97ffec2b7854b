-------------------------- MODULE ShoutKqueueProofs --------------------------
(***************************************************************************)
(* Proofs about ShoutKqueue, for any number of connections, listeners and  *)
(* bytes and any size of the buffers, the queues and the event array.      *)
(***************************************************************************)
EXTENDS ShoutKqueue, FiniteSetTheorems, SequenceTheorems, TLAPS

USE SocketsAssumption, BufferAssumption, EventsAssumption

------------------------------------------------------------------------------
(***************************************************************************)
(* The stream of one connection: o was handed to send, of the buffer b the *)
(* first t bytes are handed over as well, r bytes have been received and x *)
(* says that a do_send called send three times.                            *)
(***************************************************************************)
Echo(o, b, t, r, x) ==
    /\ Len(o) + Len(b) = r + t
    /\ ~x => /\ \A k \in 1 .. Len(o) : o[k] = k
             /\ \A k \in 1 .. Len(b) : b[k] = r - Len(b) + k

(* Its counters: bytes sent, received and drained, and the capacities. *)
Bounded(ns, nr, o, d, b) ==
    /\ nr <= ns /\ ns <= MaxBytes
    /\ d <= Len(o) /\ Len(o) - d <= SendCap
    /\ Len(b) <= BufCap

(* Before it is accepted nothing was received; while it is not open nothing *)
(* is buffered or watched.                                                  *)
Fresh(s, nr, o, b, r, w) ==
    /\ s \in {"none", "backlog"} => nr = 0 /\ o = << >>
    /\ s # "open" => b = << >> /\ r = "none" /\ w = "none"

(* What is watched between two events. *)
Watched(b, r, w) == IF b = << >> THEN r = "on" /\ w # "on" ELSE r = "off" /\ w = "on"

(* An event with filter f that is yet to be dispatched fits the buffer, and *)
(* one for output finds room, or the reset.                                 *)
Due(f, b, o, d, x) == /\ f = "READ" <=> b = << >>
                      /\ f = "WRITE" => SendCap - (Len(o) - d) > 0 \/ x

Events == [item : Conns \cup Listeners, filter : {"READ", "WRITE"}]
Locals == [path : {"read", "write"}, fd : Conns, sent : Nat, left : Nat, total : Nat, calls : Nat]
LastWrite == << [filter |-> "WRITE", to |-> "on"] >>
LastRead == << [filter |-> "READ", to |-> "on"] >>

------------------------------------------------------------------------------
(* The inductive invariant. *)

Types ==
    /\ st \in [Conns -> {"none", "backlog", "open", "closed", "leaked"}]
    /\ backlog \in [Listeners -> Seq(Conns)]
    /\ nsent \in [Conns -> Nat] /\ nread \in [Conns -> Nat] /\ drained \in [Conns -> Nat]
    /\ fin \in [Conns -> BOOLEAN] /\ rst \in [Conns -> BOOLEAN] /\ thrice \in [Conns -> BOOLEAN]
    /\ out \in [Conns -> Seq(Bytes)] /\ buf \in [Conns -> Seq(Bytes)]
    /\ kread \in [Conns -> {"none", "on", "off"}] /\ kwrite \in [Conns -> {"none", "on", "off"}]
    /\ evs \in Seq(Events)
    /\ pc \in {"wait", "dispatch", "accept", "recv", "send", "change", "killed"}
    /\ faults \in 0 .. MaxFaults

Counters == \A c \in Conns : Bounded(nsent[c], nread[c], out[c], drained[c], buf[c])

Freshness == \A c \in Conns : Fresh(st[c], nread[c], out[c], buf[c], kread[c], kwrite[c])

(* A queued connection is in the backlog of one listener, once. *)
Queued ==
    /\ \A l \in Listeners : Len(backlog[l]) <= Backlog
    /\ \A l \in Listeners : \A k \in 1 .. Len(backlog[l]) :
          /\ st[backlog[l][k]] = "backlog"
          /\ \A m \in Listeners : \A j \in 1 .. Len(backlog[m]) :
                backlog[l][k] = backlog[m][j] => l = m /\ k = j

(* The connection of which an event is being handled. *)
Busy(c) == pc \in {"recv", "send", "change"} /\ cur = c

(* Where the server is: an event is handled while one is left, and the     *)
(* locals of do_send and the remaining kq_changes are in use only there.   *)
Located ==
    /\ evs = << >> <=> pc \in {"wait", "killed"}
    /\ pc = "accept" => cur \in Listeners
    /\ pc \in {"recv", "send", "change"} => cur \in Conns
    /\ pc # "send" => snd = Idle
    /\ pc = "send" => snd \in Locals /\ snd.fd = cur
    /\ pc = "change" => chg \in {ToWrite, LastWrite, ToRead, LastRead}
    /\ pc # "change" => chg = << >>

(* What do_send has done of its buffer.  The offset of its next send is    *)
(* right for the first two; the first one of a write event finds room.     *)
Sent ==
    pc = "send" =>
        /\ snd.left >= 1 /\ snd.total + snd.left = Len(buf[cur])
        /\ snd.sent <= snd.total
        /\ snd.calls = 0 => snd.total = 0
        /\ snd.calls <= 1 => snd.sent = snd.total
        /\ snd.calls >= 3 => thrice[cur]
        /\ snd.path = "write" /\ snd.total = 0 => Space(cur) > 0 \/ rst[cur]

(* The filters, between events and while one is handled. *)
Filters ==
    /\ \A c \in Conns : st[c] = "open" /\ ~Busy(c) => Watched(buf[c], kread[c], kwrite[c])
    /\ pc = "recv" => buf[cur] = << >> /\ kread[cur] = "on" /\ kwrite[cur] # "on"
    /\ pc = "send" => IF snd.path = "read" THEN kread[cur] = "on" /\ kwrite[cur] # "on"
                                           ELSE kread[cur] = "off" /\ kwrite[cur] = "on"
    /\ pc = "change" =>
          /\ chg = ToWrite => buf[cur] # << >> /\ kread[cur] = "on" /\ kwrite[cur] # "on"
          /\ chg = LastWrite => buf[cur] # << >> /\ kread[cur] = "off" /\ kwrite[cur] # "on"
          /\ chg = ToRead => buf[cur] = << >> /\ kread[cur] = "off" /\ kwrite[cur] = "on"
          /\ chg = LastRead => buf[cur] = << >> /\ kread[cur] = "off" /\ kwrite[cur] = "off"

(* The events of the batch: for open connections, one each, and those not  *)
(* yet dispatched as the size of the buffer has it.                        *)
Batch ==
    \A k \in 1 .. Len(evs) : evs[k].item \in Conns =>
        /\ st[evs[k].item] = "open"
        /\ k > 1 \/ pc = "dispatch" =>
              Due(evs[k].filter, buf[evs[k].item], out[evs[k].item],
                  drained[evs[k].item], rst[evs[k].item])
        /\ \A j \in 1 .. Len(evs) : evs[j].item = evs[k].item => j = k

Handed(c) == IF pc = "send" /\ cur = c THEN snd.total ELSE 0

Echoes == \A c \in Conns :
              st[c] = "open" => Echo(out[c], buf[c], Handed(c), nread[c], thrice[c])

Inv == /\ Types /\ Counters /\ Freshness /\ Queued /\ Located /\ Sent /\ Filters
       /\ Batch /\ Echoes

------------------------------------------------------------------------------
(* Facts about the stream of a connection. *)

LEMMA MinOfTwo ==
    ASSUME NEW a \in Nat, NEW b \in Nat
    PROVE  Min({a, b}) = IF a <= b THEN a ELSE b
<1>1. \E x \in {a, b} : \A y \in {a, b} : x =< y
  OBVIOUS
<1>2. Min({a, b}) \in {a, b} /\ \A y \in {a, b} : Min({a, b}) =< y
  BY <1>1, Zenon DEF Min
<1>3. QED
  BY <1>2

LEMMA EchoNothing ==
    ASSUME NEW x PROVE Echo(<< >>, << >>, 0, 0, x)
  BY DEF Echo

(* recv fills the empty buffer. *)
LEMMA EchoReceived ==
    ASSUME NEW o \in Seq(Bytes), NEW r \in Nat, NEW x, NEW n \in Nat, r + n <= MaxBytes,
           Echo(o, << >>, 0, r, x)
    PROVE  LET b == [k \in 1 .. n |-> r + k]
           IN  /\ b \in Seq(Bytes) /\ Len(b) = n
               /\ Echo(o, b, 0, r + n, x)
<1> DEFINE b == [k \in 1 .. n |-> r + k]
<1>1. b \in Seq(Bytes) /\ Len(b) = n /\ \A k \in 1 .. n : b[k] = r + k
  BY DEF Bytes
<1> HIDE DEF b
<1>2. Len(o) \in Nat /\ Len(o) = r
  BY LenProperties DEF Echo
<1>3. \A k \in 1 .. Len(b) : b[k] = (r + n) - Len(b) + k
  BY <1>1
<1>4. Len(o) + Len(b) = (r + n) + 0
  BY <1>1, <1>2
<1>5. Echo(o, b, 0, r + n, x)
  BY <1>3, <1>4 DEF Echo
<1>6. QED
  BY <1>1, <1>5 DEF b

(* send takes n bytes at offset s of the buffer, where t is the right one. *)
LEMMA EchoTaken ==
    ASSUME NEW o \in Seq(Bytes), NEW b \in Seq(Bytes), NEW r \in Nat, NEW x, NEW y,
           NEW s \in Nat, NEW t \in Nat, NEW n \in Nat, s + n <= Len(b), t + n <= Len(b),
           Echo(o, b, t, r, x), ~y => ~x /\ s = t
    PROVE  LET p == o \o SubSeq(b, s + 1, s + n)
           IN  /\ p \in Seq(Bytes) /\ Len(p) = Len(o) + n
               /\ Echo(p, b, t + n, r, y)
<1> DEFINE u == SubSeq(b, s + 1, s + n)
           p == o \o u
<1>1. Len(b) \in Nat /\ Len(o) \in Nat
  BY LenProperties
<1>2. /\ u \in Seq(Bytes) /\ Len(u) = n
      /\ \A k \in 1 .. n : u[k] = b[s + k]
  <2>1. s + 1 \in 1 .. Len(b) + 1 /\ s + n \in (s + 1) - 1 .. Len(b)
    BY <1>1
  <2>2. u \in Seq(Bytes) /\ Len(u) = (s + n) - (s + 1) + 1
        /\ \A i \in 1 .. (s + n) - (s + 1) + 1 : u[i] = b[(s + 1) + i - 1]
    BY <2>1, SubSeqProperties
  <2>3. (s + n) - (s + 1) + 1 = n /\ \A k \in 1 .. n : (s + 1) + k - 1 = s + k
    OBVIOUS
  <2>4. QED
    BY <2>2, <2>3
<1> HIDE DEF u
<1>3. /\ p \in Seq(Bytes) /\ Len(p) = Len(o) + n
      /\ \A k \in 1 .. Len(o) : p[k] = o[k]
      /\ \A k \in 1 .. n : p[Len(o) + k] = u[k]
  <2>1. /\ p \in Seq(Bytes) /\ Len(p) = Len(o) + Len(u)
        /\ \A i \in 1 .. Len(o) + Len(u) : p[i] = IF i <= Len(o) THEN o[i] ELSE u[i - Len(o)]
    BY <1>2, ConcatProperties
  <2> HIDE DEF p
  <2>2. \A k \in 1 .. n : /\ Len(o) + k \in 1 .. Len(o) + n /\ ~(Len(o) + k <= Len(o))
                          /\ (Len(o) + k) - Len(o) = k
    BY <1>1
  <2>3. \A k \in 1 .. Len(o) : k \in 1 .. Len(o) + n /\ k <= Len(o)
    BY <1>1
  <2>4. QED
    BY <1>2, <2>1, <2>2, <2>3
<1> HIDE DEF p
<1>4. Len(p) + Len(b) = r + (t + n)
  <2>1. \A i, j \in Nat : i + j = r + t => (i + n) + j = r + (t + n)
    OBVIOUS
  <2>2. Len(o) + Len(b) = r + t
    BY DEF Echo
  <2>3. (Len(o) + n) + Len(b) = r + (t + n)
    BY <1>1, <2>1, <2>2
  <2>4. Len(p) = Len(o) + n
    BY <1>3
  <2>5. QED
    BY <2>3, <2>4
<1>5. ASSUME ~y PROVE /\ \A k \in 1 .. Len(p) : p[k] = k
                      /\ \A k \in 1 .. Len(b) : b[k] = r - Len(b) + k
  <2>1. ~x /\ s = t
    BY <1>5
  <2>2. /\ \A k \in 1 .. Len(o) : o[k] = k
        /\ \A k \in 1 .. Len(b) : b[k] = r - Len(b) + k
        /\ Len(o) + Len(b) = r + t
    BY <2>1 DEF Echo
  <2>3. ASSUME NEW k \in 1 .. n PROVE p[Len(o) + k] = Len(o) + k
    <3>1. p[Len(o) + k] = b[t + k]
      BY <1>2, <1>3, <2>1, <2>3
    <3>2. t + k \in 1 .. Len(b)
      BY <1>1
    <3>3. b[t + k] = r - Len(b) + (t + k)
      BY <2>2, <3>2
    <3>4. \A i, j \in Nat : i + j = r + t => r - j + (t + k) = i + k
      OBVIOUS
    <3>5. QED
      BY <1>1, <2>2, <3>1, <3>3, <3>4
  <2>4. ASSUME NEW k \in 1 .. Len(p) PROVE p[k] = k
    <3>1. CASE k \in 1 .. Len(o)
      BY <1>3, <2>2, <3>1
    <3>2. CASE ~(k \in 1 .. Len(o))
      <4>1. k - Len(o) \in 1 .. n /\ Len(o) + (k - Len(o)) = k
        BY <1>1, <1>3, <3>2
      <4>2. QED
        BY <2>3, <4>1
    <3>3. QED
      BY <3>1, <3>2
  <2>5. QED
    BY <2>2, <2>4
<1>6. Echo(p, b, t + n, r, y)
  BY <1>4, <1>5 DEF Echo
<1>7. QED
  BY <1>3, <1>6 DEF p, u

(* do_send has returned t: the caller drops these bytes from the buffer. *)
LEMMA EchoReturned ==
    ASSUME NEW o \in Seq(Bytes), NEW b \in Seq(Bytes), NEW r \in Nat, NEW x,
           NEW t \in Nat, t <= Len(b), Echo(o, b, t, r, x)
    PROVE  LET d == SubSeq(b, t + 1, Len(b))
           IN  /\ d \in Seq(Bytes) /\ Len(d) = Len(b) - t
               /\ Echo(o, d, 0, r, x)
<1> DEFINE d == SubSeq(b, t + 1, Len(b))
<1>1. Len(b) \in Nat /\ Len(o) \in Nat
  BY LenProperties
<1>2. /\ d \in Seq(Bytes) /\ Len(d) = Len(b) - t
      /\ \A k \in 1 .. Len(d) : d[k] = b[t + k]
  <2>1. t + 1 \in 1 .. Len(b) + 1 /\ Len(b) \in (t + 1) - 1 .. Len(b)
    BY <1>1
  <2>2. d \in Seq(Bytes) /\ Len(d) = Len(b) - (t + 1) + 1
        /\ \A i \in 1 .. Len(b) - (t + 1) + 1 : d[i] = b[(t + 1) + i - 1]
    BY <2>1, SubSeqProperties
  <2>3. Len(b) - (t + 1) + 1 = Len(b) - t /\ \A k \in 1 .. Len(b) - t : (t + 1) + k - 1 = t + k
    BY <1>1
  <2> HIDE DEF d
  <2>4. Len(d) = Len(b) - t
    BY <2>2, <2>3
  <2>5. QED
    BY <2>2, <2>3, <2>4
<1> HIDE DEF d
<1>3. Len(o) + Len(d) = r + 0
  BY <1>1, <1>2 DEF Echo
<1>4. ASSUME ~x PROVE /\ \A k \in 1 .. Len(o) : o[k] = k
                      /\ \A k \in 1 .. Len(d) : d[k] = r - Len(d) + k
  <2>1. \A k \in 1 .. Len(o) : o[k] = k
    BY <1>4 DEF Echo
  <2>2. ASSUME NEW k \in 1 .. Len(d) PROVE d[k] = r - Len(d) + k
    <3>1. t + k \in 1 .. Len(b)
      BY <1>1, <1>2
    <3>2. b[t + k] = r - Len(b) + (t + k)
      BY <1>4, <3>1 DEF Echo
    <3>3. QED
      BY <1>1, <1>2, <3>2
  <2>3. QED
    BY <2>1, <2>2
<1>5. Echo(o, d, 0, r, x)
  BY <1>3, <1>4 DEF Echo
<1>6. QED
  BY <1>2, <1>5 DEF d

(* When do_send has sent the whole buffer, the buffer is empty. *)
LEMMA EchoAll ==
    ASSUME NEW o \in Seq(Bytes), NEW b \in Seq(Bytes), NEW r \in Nat, NEW x,
           Echo(o, b, Len(b), r, x)
    PROVE  Echo(o, << >>, 0, r, x)
<1>1. Len(b) \in Nat /\ Len(o) \in Nat
  BY LenProperties
<1>2. Len(o) + 0 = r + 0
  BY <1>1 DEF Echo
<1>3. QED
  BY <1>2 DEF Echo

(* What Echo says of the bytes that have passed through the server. *)
LEMMA EchoSays ==
    ASSUME NEW o \in Seq(Bytes), NEW b \in Seq(Bytes), NEW r \in Nat, NEW x,
           Echo(o, b, 0, r, x)
    PROVE  /\ Len(o \o b) = r
           /\ ~x => o \o b = [k \in 1 .. r |-> k]
<1>1. Len(b) \in Nat /\ Len(o) \in Nat /\ Len(o) + Len(b) = r
  BY LenProperties DEF Echo
<1>2. /\ o \o b \in Seq(Bytes) /\ Len(o \o b) = Len(o) + Len(b)
      /\ \A k \in 1 .. Len(o) : (o \o b)[k] = o[k]
      /\ \A k \in 1 .. Len(b) : (o \o b)[Len(o) + k] = b[k]
  BY ConcatProperties
<1>3. ASSUME ~x, NEW k \in 1 .. r PROVE (o \o b)[k] = k
  <2>1. CASE k \in 1 .. Len(o)
    BY <1>2, <1>3, <2>1 DEF Echo
  <2>2. CASE ~(k \in 1 .. Len(o))
    <3>1. k - Len(o) \in 1 .. Len(b) /\ Len(o) + (k - Len(o)) = k
      BY <1>1, <2>2
    <3>2. (o \o b)[k] = b[k - Len(o)]
      BY <1>2, <3>1
    <3>3. b[k - Len(o)] = r - Len(b) + (k - Len(o))
      BY <1>3, <3>1 DEF Echo
    <3>4. QED
      BY <1>1, <3>2, <3>3
  <2>3. QED
    BY <2>1, <2>2
<1>4. o \o b \in [1 .. r -> Bytes]
  BY <1>1, <1>2, LenProperties
<1>5. QED
  BY <1>1, <1>2, <1>3, <1>4

------------------------------------------------------------------------------
(* Facts about the batch of events. *)

LEMMA CurrentEvent ==
    ASSUME Types, evs # << >>
    PROVE  /\ Len(evs) \in Nat \ {0} /\ Head(evs) = evs[1] /\ evs[1] \in Events
           /\ cur \in Conns \cup Listeners /\ filter \in {"READ", "WRITE"}
<1>1. Len(evs) \in Nat \ {0} /\ Head(evs) = evs[1]
  BY EmptySeq DEF Types
<1>2. evs[1] \in Events
  BY <1>1, ElementOfSeq DEF Types
<1>3. QED
  BY <1>1, <1>2 DEF cur, filter, Events

LEMMA TailOfBatch ==
    ASSUME Types, evs # << >>
    PROVE  /\ Tail(evs) \in Seq(Events) /\ Len(Tail(evs)) = Len(evs) - 1
           /\ \A k \in 1 .. Len(Tail(evs)) : k + 1 \in 1 .. Len(evs) /\ Tail(evs)[k] = evs[k + 1]
           /\ Tail(evs) = << >> <=> Len(evs) = 1
<1>1. Len(evs) \in Nat \ {0}
  BY CurrentEvent
<1>2. /\ Tail(evs) \in Seq(Events) /\ Len(Tail(evs)) = Len(evs) - 1
      /\ \A k \in 1 .. Len(Tail(evs)) : Tail(evs)[k] = evs[k + 1]
  BY HeadTailProperties DEF Types
<1>3. Tail(evs) = << >> <=> Len(Tail(evs)) = 0
  BY <1>2, EmptySeq
<1>4. \A k \in 1 .. Len(Tail(evs)) : k + 1 \in 1 .. Len(evs)
  BY <1>1, <1>2
<1>5. QED
  BY <1>1, <1>2, <1>3, <1>4

(* The connection of the current event is open. *)
LEMMA CurrentOpen ==
    ASSUME Inv, evs # << >>, cur \in Conns
    PROVE  st[cur] = "open" /\ \A k \in 2 .. Len(evs) : evs[k].item # cur
<1>1. Len(evs) \in Nat \ {0} /\ evs[1].item = cur
  BY CurrentEvent DEF Inv, cur
<1>2. 1 \in 1 .. Len(evs) /\ \A k \in 2 .. Len(evs) : k \in 1 .. Len(evs) /\ k # 1
  BY <1>1
<1>3. QED
  BY <1>1, <1>2 DEF Inv, Batch

(* The step to the next event, when only the current connection changed. *)
LEMMA Advanced ==
    ASSUME Inv, evs # << >>, NextEvent, snd' = Idle, chg' = << >>,
           \A c \in Conns : c # cur => /\ st'[c] = "open" <=> st[c] = "open"
                                       /\ buf'[c] = buf[c] /\ rst'[c] = rst[c]
                                       /\ kread'[c] = kread[c] /\ kwrite'[c] = kwrite[c]
                                       /\ out'[c] = out[c] /\ drained'[c] = drained[c],
           cur \in Conns /\ st'[cur] = "open" => Watched(buf'[cur], kread'[cur], kwrite'[cur]),
           \A c \in Conns : c # cur => ~Busy(c)
    PROVE  /\ evs' \in Seq(Events) /\ pc' \in {"wait", "dispatch"}
           /\ Located' /\ Sent' /\ Filters' /\ Batch'
<1>1. /\ evs' \in Seq(Events) /\ Len(evs') = Len(evs) - 1
      /\ \A k \in 1 .. Len(evs') : k + 1 \in 1 .. Len(evs) /\ evs'[k] = evs[k + 1]
      /\ evs' = << >> <=> Len(evs) = 1
  BY TailOfBatch DEF Inv, NextEvent
<1>2. pc' \in {"wait", "dispatch"} /\ (pc' = "wait" <=> evs' = << >>)
  BY <1>1 DEF NextEvent
<1>3. Located'
  BY <1>2 DEF Located
<1>4. Sent'
  BY <1>2 DEF Sent
<1>5. Filters'
  <2>1. ASSUME NEW c \in Conns, st'[c] = "open" PROVE Watched(buf'[c], kread'[c], kwrite'[c])
    <3>1. CASE c = cur
      BY <2>1, <3>1
    <3>2. CASE c # cur
      BY <2>1, <3>2 DEF Inv, Filters
    <3>3. QED
      BY <3>1, <3>2
  <2>2. QED
    BY <1>2, <2>1 DEF Filters
<1>6. Batch'
  <2> SUFFICES ASSUME NEW k \in 1 .. Len(evs'), evs'[k].item \in Conns
               PROVE  /\ st'[evs'[k].item] = "open"
                      /\ Due(evs'[k].filter, buf'[evs'[k].item], out'[evs'[k].item],
                             drained'[evs'[k].item], rst'[evs'[k].item])
                      /\ \A j \in 1 .. Len(evs') : evs'[j].item = evs'[k].item => j = k
    BY Zenon DEF Batch
  <2>1. PICK n \in 1 .. Len(evs) : n = k + 1
    BY <1>1
  <2>2. evs'[k] = evs[n] /\ n > 1 /\ evs[n].item \in Conns
    BY <1>1, <2>1
  <2> DEFINE i == evs[n].item
  <2>3. /\ st[i] = "open" /\ Due(evs[n].filter, buf[i], out[i], drained[i], rst[i])
        /\ \A j \in 1 .. Len(evs) : evs[j].item = i => j = n
    BY <2>2 DEF Inv, Batch
  <2>4. i # cur
    <3>1. Len(evs) \in Nat \ {0} /\ evs[1].item = cur
      BY CurrentEvent DEF Inv, cur
    <3>2. 1 \in 1 .. Len(evs) /\ 1 # n
      BY <3>1, <2>2
    <3>3. QED
      BY <2>3, <3>1, <3>2
  <2>5. /\ st'[i] = "open" /\ buf'[i] = buf[i] /\ rst'[i] = rst[i]
        /\ out'[i] = out[i] /\ drained'[i] = drained[i]
    BY <2>2, <2>3, <2>4
  <2>6. ASSUME NEW j \in 1 .. Len(evs'), evs'[j].item = i PROVE j = k
    <3>1. j + 1 \in 1 .. Len(evs) /\ evs'[j] = evs[j + 1]
      BY <1>1
    <3>2. j + 1 = k + 1
      BY <2>1, <2>3, <2>6, <3>1
    <3>3. QED
      BY <3>2
  <2>7. QED
    BY <2>2, <2>3, <2>5, <2>6
<1>7. QED
  BY <1>1, <1>2, <1>3, <1>4, <1>5, <1>6

------------------------------------------------------------------------------
(* kevent. *)

LEMMA ActiveFinite == IsFiniteSet(Active)
<1>1. ASSUME NEW S \in SUBSET (Conns \cup Listeners), NEW x
      PROVE  IsFiniteSet({[item |-> i, filter |-> x] : i \in S})
  <2> DEFINE f == [i \in S |-> [item |-> i, filter |-> x]]
             T == {[item |-> i, filter |-> x] : i \in S}
  <2>1. IsFiniteSet(Conns \cup Listeners)
    BY FS_Union
  <2>2. IsFiniteSet(S)
    BY <2>1, FS_Subset
  <2>3. f \in Surjection(S, T)
    BY DEF Surjection
  <2>4. QED
    BY <2>2, <2>3, FS_Surjection
<1> DEFINE R == {m \in Listeners : backlog[m] # << >>}
           S == {d \in Conns : kread[d] = "on" /\ (Unread(d) > 0 \/ fin[d] \/ rst[d])}
           T == {d \in Conns : kwrite[d] = "on" /\ (Space(d) >= LowWater \/ rst[d])}
<1>2. /\ IsFiniteSet({[item |-> l, filter |-> "READ"] : l \in R})
      /\ IsFiniteSet({[item |-> c, filter |-> "READ"] : c \in S})
      /\ IsFiniteSet({[item |-> c, filter |-> "WRITE"] : c \in T})
  BY <1>1
<1>3. QED
  BY <1>2, FS_Union DEF Active

(* An active filter is one of an open connection, and its only one. *)
LEMMA ActiveDue ==
    ASSUME Inv, pc = "wait"
    PROVE  /\ Active \subseteq Events
           /\ \A e \in Active : e.item \in Conns =>
                 /\ st[e.item] = "open"
                 /\ Due(e.filter, buf[e.item], out[e.item], drained[e.item], rst[e.item])
           /\ \A e, f \in Active : e.item = f.item => e = f
<1>1. \A e \in Active : /\ e = [item |-> e.item, filter |-> e.filter]
                        /\ e.item \in Conns \cup Listeners /\ e.filter \in {"READ", "WRITE"}
                        /\ e.item \in Listeners => e.filter = "READ"
                        /\ e.item \in Conns /\ e.filter = "READ" => kread[e.item] = "on"
                        /\ e.item \in Conns /\ e.filter = "WRITE" =>
                              kwrite[e.item] = "on" /\ (Space(e.item) >= LowWater \/ rst[e.item])
  BY DEF Active
<1>2. \A c \in Conns : kread[c] = "on" \/ kwrite[c] = "on" =>
          st[c] = "open" /\ Watched(buf[c], kread[c], kwrite[c])
  BY DEF Inv, Freshness, Fresh, Filters, Busy
<1>3. ASSUME NEW e \in Active, e.item \in Conns
      PROVE  /\ st[e.item] = "open"
             /\ Due(e.filter, buf[e.item], out[e.item], drained[e.item], rst[e.item])
  <2>1. st[e.item] = "open" /\ (e.filter = "READ" <=> buf[e.item] = << >>)
    BY <1>1, <1>2, <1>3 DEF Watched
  <2>2. ASSUME e.filter = "WRITE", ~rst[e.item]
        PROVE  SendCap - (Len(out[e.item]) - drained[e.item]) > 0
    <3>1. Space(e.item) >= LowWater
      BY <1>1, <1>3, <2>2
    <3>2. Len(out[e.item]) \in Nat /\ drained[e.item] \in Nat
      BY <1>3, LenProperties DEF Inv, Types
    <3>3. QED
      BY <3>1, <3>2 DEF Space
  <2>3. QED
    BY <2>1, <2>2 DEF Due
<1>4. ASSUME NEW e \in Active, NEW f \in Active, e.item = f.item PROVE e = f
  <2>1. e.filter = f.filter
    BY <1>1, <1>2, <1>4 DEF Watched
  <2>2. QED
    BY <1>1, <1>4, <2>1
<1>5. Active \subseteq Events
  BY <1>1 DEF Events
<1>6. QED
  BY <1>3, <1>4, <1>5

LEMMA KeventWaitInv == Inv /\ KeventWait => Inv'
<1> SUFFICES ASSUME Inv, KeventWait PROVE Inv'
  OBVIOUS
<1>1. PICK B \in kSubset(Min({MaxEvents, Cardinality(Active)}), Active) : evs' \in SetToSeqs(B)
  BY DEF KeventWait
<1>2. /\ IsFiniteSet(B) /\ Cardinality(B) \in Nat \ {0} /\ B \subseteq Active
  <2>1. Cardinality(Active) \in Nat \ {0}
    BY ActiveFinite, FS_CardinalityType, FS_EmptySet DEF KeventWait
  <2>2. Min({MaxEvents, Cardinality(Active)}) \in Nat \ {0}
    BY <2>1, MinOfTwo
  <2>3. B \subseteq Active /\ Cardinality(B) = Min({MaxEvents, Cardinality(Active)})
    BY <1>1 DEF kSubset
  <2>4. QED
    BY <2>2, <2>3, ActiveFinite, FS_Subset
<1>3. /\ evs' \in [1 .. Cardinality(B) -> B]
      /\ \A j, k \in 1 .. Cardinality(B) : j # k => evs'[j] # evs'[k]
  BY <1>1 DEF SetToSeqs
<1>4. /\ evs' \in Seq(Events) /\ Len(evs') = Cardinality(B) /\ evs' # << >>
      /\ \A k \in 1 .. Len(evs') : evs'[k] \in Active
  <2>1. evs' \in Seq(Active) /\ Len(evs') = Cardinality(B)
    BY <1>2, <1>3
  <2>2. Active \subseteq Events
    BY ActiveDue DEF KeventWait
  <2>3. evs' \in Seq(Events)
    BY <2>1, <2>2
  <2>4. QED
    BY <1>2, <1>3, <2>1, <2>3
<1>5. pc = "wait" /\ pc' = "dispatch"
  BY DEF KeventWait
<1> USE DEF KeventWait, sockets
<1>6. Types'
  BY <1>4 DEF Inv, Types
<1>7. Counters' /\ Freshness' /\ Queued'
  BY DEF Inv, Counters, Freshness, Queued
<1>8. Located' /\ Sent'
  BY <1>4, <1>5 DEF Inv, Located, Sent
<1>9. Filters'
  BY <1>5 DEF Inv, Filters, Busy
<1>10. Batch'
  <2> SUFFICES ASSUME NEW k \in 1 .. Len(evs'), evs'[k].item \in Conns
               PROVE  /\ st'[evs'[k].item] = "open"
                      /\ Due(evs'[k].filter, buf'[evs'[k].item], out'[evs'[k].item],
                             drained'[evs'[k].item], rst'[evs'[k].item])
                      /\ \A j \in 1 .. Len(evs') : evs'[j].item = evs'[k].item => j = k
    BY Zenon DEF Batch
  <2>1. evs'[k] \in Active
    BY <1>4
  <2>2. /\ st[evs'[k].item] = "open"
        /\ Due(evs'[k].filter, buf[evs'[k].item], out[evs'[k].item],
               drained[evs'[k].item], rst[evs'[k].item])
    BY <1>5, <2>1, ActiveDue
  <2>3. ASSUME NEW j \in 1 .. Len(evs'), evs'[j].item = evs'[k].item PROVE j = k
    <3>1. evs'[j] = evs'[k]
      BY <1>4, <1>5, <2>3, ActiveDue
    <3>2. QED
      BY <1>3, <1>4, <3>1
  <2>4. QED
    BY <2>2, <2>3
<1>11. Echoes'
  BY <1>5 DEF Inv, Echoes, Handed
<1>12. QED
  BY <1>6, <1>7, <1>8, <1>9, <1>10, <1>11 DEF Inv

------------------------------------------------------------------------------
(* The steps of clients. *)

(* They leave the server alone, make room and resets, and open nothing. *)
LEMMA ClientKeeps ==
    ASSUME Inv, UNCHANGED server, out' = out, nread' = nread,
           \A c \in Conns : st'[c] = "open" <=> st[c] = "open",
           \A c \in Conns : rst[c] => rst'[c],
           \A c \in Conns : Space(c) > 0 => Space(c)' > 0
    PROVE  Located' /\ Sent' /\ Filters' /\ Batch' /\ Echoes'
<1> USE DEF server
<1>1. cur' = cur /\ (\A c \in Conns : Busy(c)' <=> Busy(c))
  BY DEF cur, Busy
<1>2. Located'
  BY <1>1 DEF Inv, Located
<1>3. Sent'
  BY <1>1, <1>2 DEF Inv, Sent, Located
<1>4. Filters'
  BY <1>1 DEF Inv, Filters
<1>5. Batch'
  <2> SUFFICES ASSUME NEW k \in 1 .. Len(evs), evs[k].item \in Conns
               PROVE  /\ st'[evs[k].item] = "open"
                      /\ k > 1 \/ pc = "dispatch" =>
                            Due(evs[k].filter, buf[evs[k].item], out[evs[k].item],
                                drained'[evs[k].item], rst'[evs[k].item])
                      /\ \A j \in 1 .. Len(evs) : evs[j].item = evs[k].item => j = k
    BY Zenon DEF Batch
  <2>1. ASSUME NEW c \in Conns, Due(evs[k].filter, buf[c], out[c], drained[c], rst[c])
        PROVE  Due(evs[k].filter, buf[c], out[c], drained'[c], rst'[c])
    BY <2>1 DEF Due, Space
  <2>2. QED
    BY <2>1 DEF Inv, Batch
<1>6. Echoes'
  BY <1>1 DEF Inv, Echoes, Handed
<1>7. QED
  BY <1>2, <1>3, <1>4, <1>5, <1>6

LEMMA ConnectInv ==
    ASSUME Inv, NEW c \in Conns, NEW l \in Listeners, Connect(c, l), UNCHANGED server
    PROVE  Inv'
<1> USE DEF Connect, server
<1> DEFINE b == Append(backlog[l], c)
<1>1. /\ backlog[l] \in Seq(Conns) /\ Len(backlog[l]) \in Nat
      /\ b \in Seq(Conns) /\ Len(b) = Len(backlog[l]) + 1
      /\ \A k \in 1 .. Len(backlog[l]) : b[k] = backlog[l][k]
      /\ b[Len(backlog[l]) + 1] = c
  BY AppendProperties, LenProperties DEF Inv, Types
<1>2. backlog' = [backlog EXCEPT ![l] = b]
  OBVIOUS
<1> HIDE DEF b
<1>3. Types'
  <2>1. backlog' \in [Listeners -> Seq(Conns)]
    BY <1>1, <1>2 DEF Inv, Types
  <2>2. st' \in [Conns -> {"none", "backlog", "open", "closed", "leaked"}]
    BY DEF Inv, Types
  <2>3. QED
    BY <2>1, <2>2 DEF Inv, Types
<1>4. Counters'
  BY DEF Inv, Counters
<1>5. Freshness'
  BY DEF Inv, Types, Freshness, Fresh
<1>6. Queued'
  <2>1. \A m \in Listeners : Len(backlog'[m]) <= Backlog
    BY <1>1, <1>2 DEF Inv, Types, Queued
  <2>2. \A m \in Listeners : \A k \in 1 .. Len(backlog[m]) : backlog[m][k] # c
    BY DEF Inv, Queued
  <2>3. ASSUME NEW m \in Listeners, NEW k \in 1 .. Len(backlog'[m])
        PROVE  /\ m = l /\ k = Len(backlog[l]) + 1 /\ backlog'[m][k] = c
               \/ /\ k \in 1 .. Len(backlog[m]) /\ backlog'[m][k] = backlog[m][k]
                  /\ st[backlog[m][k]] = "backlog" /\ backlog[m][k] # c
                  /\ backlog[m][k] \in Conns
    <3>1. CASE m # l
      <4>1. backlog'[m] = backlog[m] /\ backlog[m] \in Seq(Conns)
        BY <1>2, <3>1 DEF Inv, Types
      <4>2. backlog[m][k] \in Conns
        BY <4>1, ElementOfSeq
      <4>3. QED
        BY <2>2, <4>1, <4>2 DEF Inv, Queued
    <3>2. CASE m = l /\ k = Len(backlog[l]) + 1
      BY <1>1, <1>2, <3>2 DEF Inv, Types
    <3>3. CASE m = l /\ k # Len(backlog[l]) + 1
      <4>1. backlog'[m] = b
        BY <1>2, <3>3 DEF Inv, Types
      <4>2. k \in 1 .. Len(backlog[l]) + 1
        BY <1>1, <4>1
      <4>3. k \in 1 .. Len(backlog[l])
        BY <1>1, <3>3, <4>2
      <4>4. QED
        BY <1>1, <2>2, <3>3, <4>1, <4>3, ElementOfSeq DEF Inv, Queued
    <3>4. QED
      BY <3>1, <3>2, <3>3
  <2>4. ASSUME NEW m \in Listeners, NEW k \in 1 .. Len(backlog'[m])
        PROVE  st'[backlog'[m][k]] = "backlog"
    <3>1. \A d \in Conns : st[d] = "backlog" \/ d = c => st'[d] = "backlog"
      BY DEF Inv, Types
    <3>2. QED
      BY <2>3, <3>1
  <2>5. ASSUME NEW m \in Listeners, NEW k \in 1 .. Len(backlog'[m]),
               NEW n \in Listeners, NEW j \in 1 .. Len(backlog'[n]),
               backlog'[m][k] = backlog'[n][j]
        PROVE  m = n /\ k = j
    BY <2>3, <2>5 DEF Inv, Queued
  <2>6. QED
    BY <2>1, <2>4, <2>5 DEF Queued
<1>7. \A d \in Conns : st'[d] = "open" <=> st[d] = "open"
  BY DEF Inv, Types
<1>8. \A d \in Conns : Space(d)' = Space(d) /\ rst'[d] = rst[d]
  BY DEF Space
<1>9. QED
  BY <1>3, <1>4, <1>5, <1>6, <1>7, <1>8, ClientKeeps DEF Inv

LEMMA ClientSendInv ==
    ASSUME Inv, NEW c \in Conns, ClientSend(c), UNCHANGED server
    PROVE  Inv'
<1> USE DEF ClientSend, server
<1>1. nsent[c] \in Nat /\ nsent[c] + 1 \in Nat /\ nsent' = [nsent EXCEPT ![c] = nsent[c] + 1]
  BY DEF Inv, Types
<1>2. Types'
  BY <1>1 DEF Inv, Types
<1>3. Counters'
  <2>1. nread[c] \in Nat
    BY DEF Inv, Types
  <2>2. Bounded(nsent[c] + 1, nread[c], out[c], drained[c], buf[c])
    BY <1>1, <2>1 DEF Inv, Counters, Bounded
  <2>3. QED
    BY <1>1, <2>2 DEF Inv, Types, Counters
<1>4. Freshness' /\ Queued'
  BY DEF Inv, Freshness, Queued
<1>5. \A d \in Conns : Space(d)' = Space(d) /\ rst'[d] = rst[d] /\ st'[d] = st[d]
  BY DEF Space
<1>6. QED
  BY <1>2, <1>3, <1>4, <1>5, ClientKeeps DEF Inv

LEMMA ClientLeavesInv ==
    ASSUME Inv, NEW c \in Conns, ClientShutdown(c) \/ ClientReset(c), UNCHANGED server
    PROVE  Inv'
<1> USE DEF ClientShutdown, ClientReset, server
<1>1. Types'
  BY DEF Inv, Types
<1>2. Counters' /\ Freshness' /\ Queued'
  BY DEF Inv, Counters, Freshness, Queued
<1>3. \A d \in Conns : Space(d)' = Space(d) /\ (rst[d] => rst'[d]) /\ st'[d] = st[d]
  BY DEF Space, Inv, Types
<1>4. QED
  BY <1>1, <1>2, <1>3, ClientKeeps DEF Inv

LEMMA DrainInv ==
    ASSUME Inv, NEW c \in Conns, Drain(c)
    PROVE  Inv'
<1> USE DEF Drain, ClientDrain, server
<1>1. /\ drained[c] \in Nat /\ drained[c] + 1 \in Nat /\ Len(out[c]) \in Nat
      /\ drained' = [drained EXCEPT ![c] = drained[c] + 1]
  BY LenProperties DEF Inv, Types
<1>2. Types'
  BY <1>1 DEF Inv, Types
<1>3. Counters'
  <2>1. Bounded(nsent[c], nread[c], out[c], drained[c] + 1, buf[c])
    BY <1>1 DEF Inv, Counters, Bounded
  <2>2. QED
    BY <1>1, <2>1 DEF Inv, Types, Counters
<1>4. Freshness' /\ Queued'
  BY DEF Inv, Freshness, Queued
<1>5. ASSUME NEW d \in Conns, Space(d) > 0 PROVE Space(d)' > 0
  <2>1. CASE d = c
    <3>1. SendCap - (Len(out[c]) - (drained[c] + 1)) > 0
      BY <1>1, <1>5, <2>1 DEF Space
    <3>2. QED
      BY <1>1, <2>1, <3>1 DEF Space, Inv, Types
  <2>2. CASE d # c
    BY <1>1, <1>5, <2>2 DEF Space, Inv, Types
  <2>3. QED
    BY <2>1, <2>2
<1>6. QED
  BY <1>2, <1>3, <1>4, <1>5, ClientKeeps DEF Inv

------------------------------------------------------------------------------
(* The steps of the server. *)

LEMMA DispatchInv ==
    ASSUME Inv, DispatchListener \/ DispatchRead
    PROVE  Inv'
<1> USE DEF DispatchListener, DispatchRead, sockets
<1>1. evs # << >> /\ pc = "dispatch" /\ pc' \in {"accept", "recv"}
  BY DEF Inv, Located
<1>2. /\ pc' = "accept" => cur \in Listeners
      /\ pc' = "recv" => cur \in Conns /\ buf[cur] = << >>
      /\ cur' = cur
  BY DEF cur
<1>3. Types'
  BY <1>1 DEF Inv, Types
<1>4. Counters' /\ Freshness' /\ Queued'
  BY DEF Inv, Counters, Freshness, Queued
<1>5. Located' /\ Sent'
  BY <1>1, <1>2 DEF Inv, Located, Sent
<1>6. Filters'
  <2>1. \A c \in Conns : st[c] = "open" => Watched(buf[c], kread[c], kwrite[c])
    BY <1>1 DEF Inv, Filters, Busy
  <2>2. cur \in Conns => st[cur] = "open"
    BY <1>1, CurrentOpen
  <2>3. pc' = "recv" => kread[cur] = "on" /\ kwrite[cur] # "on"
    BY <1>2, <2>1, <2>2 DEF Watched
  <2>4. QED
    BY <1>1, <1>2, <2>1, <2>3 DEF Filters
<1>7. Batch'
  BY <1>1 DEF Inv, Batch
<1>8. Echoes'
  BY <1>1 DEF Inv, Echoes, Handed
<1>9. QED
  BY <1>3, <1>4, <1>5, <1>6, <1>7, <1>8 DEF Inv

LEMMA DispatchWriteInv ==
    ASSUME Inv, DispatchWrite
    PROVE  Inv'
<1> USE DEF DispatchWrite, sockets
<1>1. evs # << >> /\ pc = "dispatch" /\ pc' = "send" /\ cur \in Conns /\ cur' = cur
  BY DEF Inv, Located, cur
<1>2. st[cur] = "open" /\ buf[cur] \in Seq(Bytes) /\ Len(buf[cur]) \in Nat \ {0}
  BY <1>1, CurrentOpen, EmptySeq DEF Inv, Types
<1>3. /\ snd' \in Locals /\ snd'.fd = cur /\ snd'.path = "write" /\ snd'.sent = 0
      /\ snd'.left = Len(buf[cur]) /\ snd'.total = 0 /\ snd'.calls = 0
  BY <1>1, <1>2 DEF CallSend, Locals
<1>4. Types'
  BY <1>1 DEF Inv, Types
<1>5. Counters' /\ Freshness' /\ Queued'
  BY DEF Inv, Counters, Freshness, Queued
<1>6. Located'
  BY <1>1, <1>3 DEF Inv, Located
<1>7. Sent'
  <2>1. Space(cur) > 0 \/ rst[cur]
    <3>1. evs[1] = Head(evs) /\ 1 \in 1 .. Len(evs)
      BY <1>1, CurrentEvent DEF Inv
    <3>2. Due(filter, buf[cur], out[cur], drained[cur], rst[cur])
      BY <1>1, <3>1 DEF Inv, Batch, cur, filter
    <3>3. QED
      BY <3>2 DEF Due, Space
  <2>2. Space(cur)' = Space(cur)
    BY <1>1 DEF Space
  <2>3. QED
    BY <1>1, <1>2, <1>3, <2>1, <2>2 DEF Sent
<1>8. Filters'
  <2>1. \A c \in Conns : st[c] = "open" => Watched(buf[c], kread[c], kwrite[c])
    BY <1>1 DEF Inv, Filters, Busy
  <2>2. kread[cur] = "off" /\ kwrite[cur] = "on"
    BY <1>1, <1>2, <2>1 DEF Watched
  <2>3. QED
    BY <1>1, <1>3, <2>1, <2>2 DEF Filters
<1>9. Batch'
  BY <1>1 DEF Inv, Batch
<1>10. Echoes'
  BY <1>1, <1>3 DEF Inv, Echoes, Handed
<1>11. QED
  BY <1>4, <1>5, <1>6, <1>7, <1>8, <1>9, <1>10 DEF Inv

(* accept takes the first connection of a backlog, whatever comes of it. *)
LEMMA TakenFromBacklog ==
    ASSUME Inv, NEW l \in Listeners, backlog[l] # << >>, NEW s \in {"open", "closed", "leaked"},
           st' = [st EXCEPT ![Head(backlog[l])] = s],
           backlog' = [backlog EXCEPT ![l] = Tail(@)]
    PROVE  /\ Head(backlog[l]) \in Conns /\ st[Head(backlog[l])] = "backlog"
           /\ st' \in [Conns -> {"none", "backlog", "open", "closed", "leaked"}]
           /\ st'[Head(backlog[l])] = s
           /\ \A c \in Conns : c # Head(backlog[l]) => st'[c] = st[c]
           /\ backlog' \in [Listeners -> Seq(Conns)]
           /\ Queued'
<1> DEFINE h == Head(backlog[l])
           b == Tail(backlog[l])
<1>1. backlog[l] \in Seq(Conns) /\ Len(backlog[l]) \in Nat \ {0}
  BY EmptySeq DEF Inv, Types
<1>2. /\ h = backlog[l][1] /\ h \in Conns
      /\ b \in Seq(Conns) /\ Len(b) = Len(backlog[l]) - 1
      /\ \A k \in 1 .. Len(b) : b[k] = backlog[l][k + 1]
  BY <1>1, HeadTailProperties
<1>3. st' = [st EXCEPT ![h] = s] /\ backlog' = [backlog EXCEPT ![l] = b]
  OBVIOUS
<1> HIDE DEF h, b
<1>4. 1 \in 1 .. Len(backlog[l]) /\ st[h] = "backlog"
  BY <1>1, <1>2 DEF Inv, Queued
<1>5. /\ st' \in [Conns -> {"none", "backlog", "open", "closed", "leaked"}]
      /\ st'[h] = s /\ \A c \in Conns : c # h => st'[c] = st[c]
  <2>1. st \in [Conns -> {"none", "backlog", "open", "closed", "leaked"}]
    BY DEF Inv, Types
  <2>2. QED
    BY <1>2, <1>3, <2>1
<1>6. backlog' \in [Listeners -> Seq(Conns)]
  BY <1>2, <1>3 DEF Inv, Types
<1>7. /\ backlog'[l] = b /\ \A m \in Listeners : m # l => backlog'[m] = backlog[m]
  BY <1>3 DEF Inv, Types
<1>8. ASSUME NEW m \in Listeners, NEW k \in 1 .. Len(backlog'[m])
      PROVE  \E i \in 1 .. Len(backlog[m]) :
                /\ i = (IF m = l THEN k + 1 ELSE k) /\ backlog'[m][k] = backlog[m][i]
                /\ backlog[m][i] # h /\ backlog[m][i] \in Conns
  <2>1. PICK i \in 1 .. Len(backlog[m]) : /\ i = (IF m = l THEN k + 1 ELSE k)
                                          /\ backlog'[m][k] = backlog[m][i]
    <3>1. CASE m = l
      <4>1. k \in 1 .. Len(b)
        BY <1>7, <3>1
      <4>2. k + 1 \in 1 .. Len(backlog[l])
        BY <1>1, <1>2, <4>1
      <4>3. QED
        BY <1>2, <1>7, <3>1, <4>1, <4>2
    <3>2. CASE m # l
      BY <1>7, <3>2
    <3>3. QED
      BY <3>1, <3>2
  <2>2. m = l => i # 1
    BY <2>1
  <2>3. backlog[m][i] # h
    BY <1>2, <1>4, <2>2 DEF Inv, Queued
  <2>4. backlog[m][i] \in Conns
    BY ElementOfSeq DEF Inv, Types
  <2>5. QED
    BY <2>1, <2>3, <2>4
<1>9. Queued'
  <2>1. \A m \in Listeners : Len(backlog'[m]) <= Backlog
    <3>1. Len(b) <= Backlog
      BY <1>1, <1>2 DEF Inv, Queued
    <3>2. QED
      BY <1>7, <3>1 DEF Inv, Queued
  <2>2. ASSUME NEW m \in Listeners, NEW k \in 1 .. Len(backlog'[m])
        PROVE  st'[backlog'[m][k]] = "backlog"
    BY <1>5, <1>8 DEF Inv, Queued
  <2>3. ASSUME NEW m \in Listeners, NEW k \in 1 .. Len(backlog'[m])
        PROVE  /\ st'[backlog'[m][k]] = "backlog"
               /\ \A n \in Listeners : \A j \in 1 .. Len(backlog'[n]) :
                     backlog'[m][k] = backlog'[n][j] => m = n /\ k = j
    <3>1. PICK i \in 1 .. Len(backlog[m]) : /\ i = (IF m = l THEN k + 1 ELSE k)
                                            /\ backlog'[m][k] = backlog[m][i]
      BY <1>8
    <3>2. ASSUME NEW n \in Listeners, NEW j \in 1 .. Len(backlog'[n]),
                 backlog'[m][k] = backlog'[n][j]
          PROVE  m = n /\ k = j
      <4>1. PICK i2 \in 1 .. Len(backlog[n]) : /\ i2 = (IF n = l THEN j + 1 ELSE j)
                                               /\ backlog'[n][j] = backlog[n][i2]
        BY <1>8
      <4>2. m = n /\ i = i2
        BY <3>1, <3>2, <4>1 DEF Inv, Queued
      <4>3. QED
        BY <3>1, <4>1, <4>2
    <3>3. QED
      BY <2>2, <3>2, Zenon
  <2>4. QED
    BY <2>1, <2>3, Zenon DEF Queued
<1>10. QED
  BY <1>2, <1>4, <1>5, <1>6, <1>9 DEF h

LEMMA AcceptInv ==
    ASSUME Inv, Accept
    PROVE  Inv'
<1> DEFINE c == Head(backlog[cur])
<1> USE DEF Accept
<1>1. pc = "accept" /\ evs # << >> /\ cur \in Listeners /\ cur \notin Conns /\ cur' = cur
  BY DEF Inv, Located, cur
<1>2. /\ c \in Conns /\ st[c] = "backlog"
      /\ st' \in [Conns -> {"none", "backlog", "open", "closed", "leaked"}]
      /\ st'[c] = "open" /\ \A d \in Conns : d # c => st'[d] = st[d]
      /\ backlog' \in [Listeners -> Seq(Conns)]
      /\ Queued'
  BY <1>1, TakenFromBacklog
<1>3. kread' = [kread EXCEPT ![c] = "on"]
  OBVIOUS
<1> HIDE DEF c
<1>4. nread[c] = 0 /\ out[c] = << >> /\ buf[c] = << >> /\ kwrite[c] = "none"
  BY <1>2 DEF Inv, Freshness, Fresh
<1>5. /\ kread' \in [Conns -> {"none", "on", "off"}] /\ kread'[c] = "on"
      /\ \A d \in Conns : d # c => kread'[d] = kread[d]
  <2>1. kread \in [Conns -> {"none", "on", "off"}]
    BY DEF Inv, Types
  <2>2. QED
    BY <1>2, <1>3, <2>1
<1>6. Types'
  BY <1>2, <1>5 DEF Inv, Types
<1>7. Counters'
  BY DEF Inv, Counters
<1>8. Freshness'
  BY <1>2, <1>5 DEF Inv, Freshness, Fresh
<1>9. Located' /\ Sent'
  BY <1>1 DEF Inv, Located, Sent
<1>10. Filters'
  BY <1>1, <1>2, <1>4, <1>5 DEF Inv, Filters, Busy, Watched
<1>11. Batch'
  <2>1. \A d \in Conns : st[d] = "open" => st'[d] = "open"
    BY <1>2
  <2>2. QED
    BY <2>1 DEF Inv, Batch
<1>12. Echoes'
  BY <1>1, <1>2, <1>4, EchoNothing DEF Inv, Echoes, Handed
<1>13. QED
  BY <1>2, <1>6, <1>7, <1>8, <1>9, <1>10, <1>11, <1>12 DEF Inv

LEMMA AcceptEndsInv ==
    ASSUME Inv, AcceptEmpty \/ AcceptFails
    PROVE  Inv'
<1>1. pc = "accept" /\ evs # << >> /\ cur \in Listeners /\ cur \notin Conns
  BY DEF Inv, Located, AcceptEmpty, AcceptFails
<1> DEFINE Gone == \E s \in {"closed", "leaked"} :
                      /\ backlog[cur] # << >>
                      /\ st' = [st EXCEPT ![Head(backlog[cur])] = s]
                      /\ backlog' = [backlog EXCEPT ![cur] = Tail(@)]
<1>2. UNCHANGED <<st, backlog>> \/ Gone
  BY DEF AcceptEmpty, AcceptFails, sockets
<1>3. /\ st' \in [Conns -> {"none", "backlog", "open", "closed", "leaked"}]
      /\ \A c \in Conns : /\ st'[c] = "open" <=> st[c] = "open"
                          /\ st'[c] \in {"none", "backlog"} => st[c] \in {"none", "backlog"}
      /\ backlog' \in [Listeners -> Seq(Conns)] /\ Queued'
  <2>1. CASE UNCHANGED <<st, backlog>>
    BY <2>1 DEF Inv, Types, Queued
  <2>2. CASE Gone
    BY <1>1, <2>2, TakenFromBacklog
  <2>3. QED
    BY <1>2, <2>1, <2>2
<1>4. NextEvent /\ UNCHANGED <<nsent, nread, fin, rst, out, drained,
                               kread, kwrite, buf, snd, chg, thrice>>
  BY DEF AcceptEmpty, AcceptFails, sockets
<1>5. faults' \in 0 .. MaxFaults
  <2>1. \A n \in 0 .. MaxFaults : n < MaxFaults => n + 1 \in 0 .. MaxFaults
    OBVIOUS
  <2>2. faults \in 0 .. MaxFaults
    BY DEF Inv, Types
  <2>3. QED
    BY <2>1, <2>2 DEF AcceptEmpty, AcceptFails
<1>6. snd' = Idle /\ chg' = << >> /\ \A c \in Conns : ~Busy(c)
  BY <1>1, <1>4 DEF Inv, Located, Busy
<1>7. /\ evs' \in Seq(Events) /\ pc' \in {"wait", "dispatch"}
      /\ Located' /\ Sent' /\ Filters' /\ Batch'
  BY <1>1, <1>3, <1>4, <1>6, Advanced
<1>8. Types'
  BY <1>3, <1>4, <1>5, <1>7 DEF Inv, Types
<1>9. Counters' /\ Freshness'
  BY <1>3, <1>4 DEF Inv, Counters, Freshness, Fresh
<1>10. Echoes'
  BY <1>1, <1>3, <1>4, <1>7 DEF Inv, Echoes, Handed
<1>11. QED
  BY <1>3, <1>7, <1>8, <1>9, <1>10 DEF Inv

(* The current connection is given up. *)
LEMMA CleanupInv ==
    ASSUME Inv, pc \in {"recv", "send", "change"}, Cleanup(cur), NextEvent,
           snd' = Idle, chg' = << >>, thrice' = thrice, faults' \in 0 .. MaxFaults
    PROVE  Inv'
<1> USE DEF Cleanup
<1>1. evs # << >> /\ cur \in Conns /\ st[cur] = "open"
  BY CurrentOpen DEF Inv, Located
<1>2. /\ st' \in [Conns -> {"none", "backlog", "open", "closed", "leaked"}]
      /\ st'[cur] = "closed" /\ \A c \in Conns : c # cur => st'[c] = st[c]
  <2>1. st \in [Conns -> {"none", "backlog", "open", "closed", "leaked"}]
    BY DEF Inv, Types
  <2>2. QED
    BY <1>1, <2>1
<1>3. /\ kread' \in [Conns -> {"none", "on", "off"}] /\ kwrite' \in [Conns -> {"none", "on", "off"}]
      /\ kread'[cur] = "none" /\ kwrite'[cur] = "none"
      /\ \A c \in Conns : c # cur => kread'[c] = kread[c] /\ kwrite'[c] = kwrite[c]
  <2>1. kread \in [Conns -> {"none", "on", "off"}] /\ kwrite \in [Conns -> {"none", "on", "off"}]
    BY DEF Inv, Types
  <2>2. QED
    BY <1>1, <2>1
<1>4. /\ buf' \in [Conns -> Seq(Bytes)] /\ buf'[cur] = << >>
      /\ \A c \in Conns : c # cur => buf'[c] = buf[c]
  <2>1. buf \in [Conns -> Seq(Bytes)] /\ << >> \in Seq(Bytes)
    BY EmptySeq DEF Inv, Types
  <2>2. QED
    BY <1>1, <2>1
<1>5. UNCHANGED <<backlog, nsent, nread, fin, rst, out, drained>>
  OBVIOUS
<1> HIDE DEF Cleanup
<1>6. /\ evs' \in Seq(Events) /\ pc' \in {"wait", "dispatch"}
      /\ Located' /\ Sent' /\ Filters' /\ Batch'
  BY <1>1, <1>2, <1>3, <1>4, <1>5, Advanced DEF Busy
<1>7. Types'
  BY <1>2, <1>3, <1>4, <1>5, <1>6 DEF Inv, Types
<1>8. Counters'
  <2>1. Bounded(nsent[cur], nread[cur], out[cur], drained[cur], << >>)
    BY <1>1, EmptySeq DEF Inv, Counters, Bounded
  <2>2. QED
    BY <1>4, <1>5, <2>1 DEF Inv, Counters
<1>9. Freshness'
  <2>1. ASSUME NEW c \in Conns
        PROVE  Fresh(st'[c], nread[c], out[c], buf'[c], kread'[c], kwrite'[c])
    <3>1. CASE c = cur
      BY <1>2, <1>3, <1>4, <3>1 DEF Fresh
    <3>2. CASE c # cur
      BY <1>2, <1>3, <1>4, <3>2 DEF Inv, Freshness
    <3>3. QED
      BY <3>1, <3>2
  <2>2. QED
    BY <1>5, <2>1 DEF Freshness
<1>10. Queued'
  <2>1. \A l \in Listeners : \A k \in 1 .. Len(backlog[l]) :
            backlog[l][k] \in Conns /\ backlog[l][k] # cur
    <3>1. \A l \in Listeners : backlog[l] \in Seq(Conns)
      BY DEF Inv, Types
    <3>2. \A l \in Listeners : \A k \in 1 .. Len(backlog[l]) : backlog[l][k] \in Conns
      BY <3>1, ElementOfSeq
    <3>3. QED
      BY <1>1, <3>2 DEF Inv, Queued
  <2>2. QED
    BY <1>2, <1>5, <2>1 DEF Inv, Queued
<1>11. Echoes'
  BY <1>2, <1>4, <1>5, <1>6 DEF Inv, Echoes, Handed
<1>12. QED
  BY <1>6, <1>7, <1>8, <1>9, <1>10, <1>11 DEF Inv

LEMMA RecvEndInv == Inv /\ RecvEnd => Inv'
  BY CleanupInv DEF RecvEnd, Inv, Located, Types

LEMMA RecvAgainInv == Inv /\ RecvAgain => Inv'
<1> SUFFICES ASSUME Inv, RecvAgain PROVE Inv'
  OBVIOUS
<1> USE DEF RecvAgain, sockets
<1>1. evs # << >> /\ cur \in Conns /\ snd' = Idle /\ chg' = << >>
  BY DEF Inv, Located
<1>2. Watched(buf'[cur], kread'[cur], kwrite'[cur])
  BY DEF Inv, Filters, Watched
<1>3. /\ evs' \in Seq(Events) /\ pc' \in {"wait", "dispatch"}
      /\ Located' /\ Sent' /\ Filters' /\ Batch'
  BY <1>1, <1>2, Advanced DEF Busy
<1>4. Types'
  BY <1>3 DEF Inv, Types
<1>5. Counters' /\ Freshness' /\ Queued'
  BY DEF Inv, Counters, Freshness, Queued
<1>6. Echoes'
  BY <1>3 DEF Inv, Echoes, Handed
<1>7. QED
  BY <1>3, <1>4, <1>5, <1>6 DEF Inv

LEMMA RecvDataInv == Inv /\ RecvData => Inv'
<1> SUFFICES ASSUME Inv, RecvData PROVE Inv'
  OBVIOUS
<1> DEFINE n == Min({BufCap, Unread(cur)})
           b == [k \in 1 .. n |-> nread[cur] + k]
<1>1. /\ pc = "recv" /\ pc' = "send" /\ evs # << >> /\ cur \in Conns /\ st[cur] = "open"
      /\ cur' = cur /\ evs' = evs
  BY CurrentOpen DEF RecvData, Inv, Located, cur
<1>2. /\ nread[cur] \in Nat /\ nsent[cur] \in Nat /\ nread[cur] < nsent[cur]
      /\ nsent[cur] <= MaxBytes /\ buf[cur] = << >> /\ out[cur] \in Seq(Bytes)
  BY <1>1 DEF Inv, Types, Counters, Bounded, Filters, RecvData, Unread
<1>3. n \in Nat \ {0} /\ n <= BufCap /\ nread[cur] + n <= nsent[cur] /\ nread[cur] + n \in Nat
  <2>1. nsent[cur] - nread[cur] \in Nat \ {0}
    BY <1>2
  <2>2. n = IF BufCap <= nsent[cur] - nread[cur] THEN BufCap ELSE nsent[cur] - nread[cur]
    BY <2>1, MinOfTwo DEF Unread
  <2>3. QED
    BY <1>2, <2>1, <2>2
<1>4. /\ buf' = [buf EXCEPT ![cur] = b] /\ nread' = [nread EXCEPT ![cur] = nread[cur] + n]
      /\ snd' = [path |-> "read", fd |-> cur, sent |-> 0, left |-> n, total |-> 0, calls |-> 0]
  BY DEF RecvData, CallSend
<1>5. UNCHANGED <<st, backlog, nsent, fin, rst, out, drained, kread, kwrite, chg, faults, thrice>>
  BY DEF RecvData
<1> HIDE DEF n
<1>6. /\ b \in Seq(Bytes) /\ Len(b) = n
      /\ Echo(out[cur], b, 0, nread[cur] + n, thrice[cur])
  <2>1. Echo(out[cur], << >>, 0, nread[cur], thrice[cur])
    BY <1>1, <1>2 DEF Inv, Echoes, Handed
  <2>2. nread[cur] + n <= MaxBytes
    BY <1>2, <1>3
  <2>3. QED
    BY <1>2, <1>3, <2>1, <2>2, EchoReceived
<1> HIDE DEF b
<1>7. /\ buf' \in [Conns -> Seq(Bytes)] /\ buf'[cur] = b
      /\ nread' \in [Conns -> Nat] /\ nread'[cur] = nread[cur] + n
      /\ \A c \in Conns : c # cur => buf'[c] = buf[c] /\ nread'[c] = nread[c]
  <2>1. buf \in [Conns -> Seq(Bytes)] /\ nread \in [Conns -> Nat]
    BY DEF Inv, Types
  <2>2. QED
    BY <1>1, <1>3, <1>4, <1>6, <2>1
<1>8. b # << >>
  BY <1>3, <1>6
<1>9. /\ snd' \in Locals /\ snd'.fd = cur /\ snd'.path = "read" /\ snd'.sent = 0
      /\ snd'.left = n /\ snd'.total = 0 /\ snd'.calls = 0
  BY <1>1, <1>3, <1>4 DEF Locals
<1>10. Types'
  BY <1>1, <1>5, <1>7 DEF Inv, Types
<1>11. Counters'
  <2>1. Bounded(nsent[cur], nread[cur] + n, out[cur], drained[cur], b)
    BY <1>1, <1>3, <1>6 DEF Inv, Counters, Bounded
  <2>2. QED
    BY <1>5, <1>7, <2>1 DEF Inv, Counters
<1>12. Freshness' /\ Queued'
  <2>1. \A c \in Conns : Fresh(st[c], nread[c], out[c], buf[c], kread[c], kwrite[c])
    BY DEF Inv, Freshness
  <2>2. Fresh(st[cur], nread[cur] + n, out[cur], b, kread[cur], kwrite[cur])
    BY <1>1 DEF Fresh
  <2>3. Freshness'
    BY <1>5, <1>7, <2>1, <2>2 DEF Freshness
  <2>4. Queued'
    BY <1>5 DEF Inv, Queued
  <2>5. QED
    BY <2>3, <2>4
<1>13. Located'
  BY <1>1, <1>5, <1>9 DEF Inv, Located
<1>14. Sent'
  <2>1. n >= 1 /\ 0 + n = n
    BY <1>3
  <2>2. QED
    BY <1>1, <1>6, <1>7, <1>9, <2>1 DEF Sent
<1>15. Filters'
  BY <1>1, <1>5, <1>7, <1>9 DEF Inv, Filters, Busy
<1>16. Batch'
  <2>1. Len(evs) \in Nat /\ evs[1].item = cur
    BY <1>1, CurrentEvent DEF Inv, cur
  <2>2. \A k \in 1 .. Len(evs) : k > 1 \/ k = 1
    BY <2>1
  <2>3. \A k \in 1 .. Len(evs) : k > 1 => evs[k].item # cur
    BY <1>1, <2>1, CurrentOpen
  <2>4. QED
    BY <1>1, <1>5, <1>7, <2>1, <2>2, <2>3 DEF Inv, Batch
<1>17. Echoes'
  <2>1. \A c \in Conns : Handed(c)' = 0 /\ Handed(c) = 0
    BY <1>1, <1>9 DEF Handed
  <2>2. QED
    BY <1>5, <1>6, <1>7, <2>1 DEF Inv, Echoes
<1>18. QED
  BY <1>10, <1>11, <1>12, <1>13, <1>14, <1>15, <1>16, <1>17 DEF Inv

(* A send that takes something takes part of what is left, or all of it. *)
LEMMA SendTakes ==
    ASSUME Inv, Send
    PROVE  /\ pc = "send" /\ evs # << >> /\ cur \in Conns /\ st[cur] = "open"
           /\ snd \in Locals /\ snd.fd = cur /\ buf[cur] \in Seq(Bytes)
           /\ Taken \in Nat \ {0} /\ Taken <= snd.left
           /\ out' \in [Conns -> Seq(Bytes)] /\ thrice' \in [Conns -> BOOLEAN]
           /\ \A c \in Conns : c # cur => out'[c] = out[c] /\ thrice'[c] = thrice[c]
           /\ Bounded(nsent[cur], nread[cur], out'[cur], drained[cur], buf[cur])
           /\ thrice'[cur] <=> thrice[cur] \/ snd.calls = 2
           /\ Echo(out'[cur], buf[cur], snd.total + Taken, nread[cur], thrice'[cur])
<1>1. /\ pc = "send" /\ evs # << >> /\ cur \in Conns /\ st[cur] = "open"
      /\ snd \in Locals /\ snd.fd = cur
  BY CurrentOpen DEF Send, Inv, Located
<1>2. /\ snd.sent \in Nat /\ snd.left \in Nat \ {0} /\ snd.total \in Nat /\ snd.calls \in Nat
      /\ snd.total + snd.left = Len(buf[cur]) /\ snd.sent <= snd.total
      /\ snd.calls <= 1 => snd.sent = snd.total
      /\ snd.calls >= 3 => thrice[cur]
  BY <1>1 DEF Locals, Inv, Sent
<1>3. /\ out[cur] \in Seq(Bytes) /\ buf[cur] \in Seq(Bytes) /\ Len(out[cur]) \in Nat
      /\ Len(buf[cur]) \in Nat /\ drained[cur] \in Nat /\ nread[cur] \in Nat
  BY <1>1, LenProperties DEF Inv, Types
<1>4. Space(cur) \in Nat \ {0} /\ Space(cur) = SendCap - (Len(out[cur]) - drained[cur])
  BY <1>3 DEF Send, Space
<1>5. Taken \in Nat \ {0} /\ Taken <= snd.left /\ Taken <= Space(cur)
  <2>1. Taken = IF snd.left <= Space(cur) THEN snd.left ELSE Space(cur)
    BY <1>1, <1>2, <1>4, MinOfTwo DEF Taken
  <2>2. QED
    BY <1>2, <1>4, <2>1
<1> DEFINE n == Taken
           p == out[cur] \o SubSeq(buf[cur], snd.sent + 1, snd.sent + n)
           y == thrice[cur] \/ snd.calls = 2
<1>6. out' = [out EXCEPT ![cur] = p] /\ thrice' = [thrice EXCEPT ![cur] = y]
  BY <1>1 DEF Send, SendBytes
<1>7. n \in Nat \ {0} /\ snd.sent + n <= Len(buf[cur]) /\ snd.total + n <= Len(buf[cur])
  BY <1>2, <1>3, <1>5
<1>8. ~y => ~thrice[cur] /\ snd.sent = snd.total
  BY <1>2
<1>9. Echo(out[cur], buf[cur], snd.total, nread[cur], thrice[cur])
  BY <1>1 DEF Inv, Echoes, Handed
<1> HIDE DEF n, y
<1>10. p \in Seq(Bytes) /\ Len(p) = Len(out[cur]) + n /\ Echo(p, buf[cur], snd.total + n, nread[cur], y)
  BY <1>2, <1>3, <1>7, <1>8, <1>9, EchoTaken, ZenonT(40)
<1> HIDE DEF p
<1>11. /\ out' \in [Conns -> Seq(Bytes)] /\ out'[cur] = p
       /\ \A c \in Conns : c # cur => out'[c] = out[c]
  <2>1. out \in [Conns -> Seq(Bytes)]
    BY DEF Inv, Types
  <2>2. QED
    BY <1>1, <1>6, <1>10, <2>1
<1>12. /\ thrice' \in [Conns -> BOOLEAN] /\ (thrice'[cur] <=> y)
       /\ \A c \in Conns : c # cur => thrice'[c] = thrice[c]
  <2>1. thrice \in [Conns -> BOOLEAN]
    BY DEF Inv, Types
  <2>2. y \in BOOLEAN
    BY DEF y
  <2>3. QED
    BY <1>1, <1>6, <2>1, <2>2
<1>13. Bounded(nsent[cur], nread[cur], p, drained[cur], buf[cur])
  <2>1. Bounded(nsent[cur], nread[cur], out[cur], drained[cur], buf[cur])
    BY <1>1 DEF Inv, Counters
  <2>2. drained[cur] <= Len(out[cur]) + n /\ (Len(out[cur]) + n) - drained[cur] <= SendCap
    BY <1>3, <1>4, <1>5, <1>7, <2>1 DEF Bounded, n
  <2>3. QED
    BY <1>10, <2>1, <2>2 DEF Bounded
<1>14. Echo(p, buf[cur], snd.total + n, nread[cur], thrice'[cur])
  BY <1>10, <1>12 DEF Echo
<1>15. QED
  BY <1>1, <1>3, <1>5, <1>11, <1>12, <1>13, <1>14 DEF n, y

LEMMA SendMoreInv ==
    ASSUME Inv, Send, Taken < snd.left, SendMore,
           UNCHANGED <<st, backlog, nsent, nread, fin, rst, drained,
                       kread, kwrite, evs, pc, buf, chg, faults>>
    PROVE  Inv'
<1> DEFINE n == Taken
<1>1. /\ pc = "send" /\ evs # << >> /\ cur \in Conns /\ st[cur] = "open"
      /\ snd \in Locals /\ snd.fd = cur
      /\ n \in Nat \ {0} /\ n < snd.left
      /\ out' \in [Conns -> Seq(Bytes)] /\ thrice' \in [Conns -> BOOLEAN]
      /\ \A c \in Conns : c # cur => out'[c] = out[c] /\ thrice'[c] = thrice[c]
      /\ Bounded(nsent[cur], nread[cur], out'[cur], drained[cur], buf[cur])
      /\ thrice'[cur] <=> thrice[cur] \/ snd.calls = 2
      /\ Echo(out'[cur], buf[cur], snd.total + n, nread[cur], thrice'[cur])
  BY SendTakes
<1>2. snd' = [snd EXCEPT !.sent = n, !.left = @ - n, !.total = @ + n, !.calls = @ + 1]
  BY DEF SendMore
<1> HIDE DEF n
<1>3. snd.sent \in Nat /\ snd.left \in Nat /\ snd.total \in Nat /\ snd.calls \in Nat
  BY <1>1 DEF Locals
<1>4. /\ snd' \in Locals /\ snd'.fd = cur /\ snd'.path = snd.path /\ snd'.sent = n
      /\ snd'.left = snd.left - n /\ snd'.total = snd.total + n /\ snd'.calls = snd.calls + 1
  <2>1. snd.left - n \in Nat /\ snd.total + n \in Nat /\ snd.calls + 1 \in Nat
    BY <1>1, <1>3
  <2>2. QED
    BY <1>1, <1>2, <2>1 DEF Locals
<1>5. cur' = cur
  BY DEF cur
<1>6. Types'
  BY <1>1 DEF Inv, Types
<1>7. Counters'
  BY <1>1 DEF Inv, Counters
<1>8. Freshness' /\ Queued'
  <2>1. Freshness'
    BY <1>1 DEF Inv, Freshness, Fresh
  <2>2. Queued'
    BY DEF Inv, Queued
  <2>3. QED
    BY <2>1, <2>2
<1>9. Located'
  BY <1>1, <1>4, <1>5 DEF Inv, Located
<1>10. Sent'
  <2>1. /\ snd.left - n >= 1 /\ (snd.total + n) + (snd.left - n) = Len(buf[cur])
        /\ n <= snd.total + n /\ snd.total + n # 0 /\ snd.calls + 1 # 0
        /\ snd.calls + 1 <= 1 => n = snd.total + n
        /\ snd.calls + 1 >= 3 => thrice'[cur]
    <3>1. /\ snd.total + snd.left = Len(buf[cur]) /\ (snd.calls = 0 => snd.total = 0)
          /\ snd.calls >= 3 => thrice[cur]
      BY <1>1 DEF Inv, Sent
    <3>2. snd.calls + 1 >= 3 => snd.calls = 2 \/ snd.calls >= 3
      BY <1>3
    <3>3. snd.calls + 1 >= 3 => thrice'[cur]
      BY <1>1, <3>1, <3>2
    <3>4. Len(buf[cur]) \in Nat
      BY <1>1, LenProperties DEF Inv, Types
    <3>5. /\ snd.left - n >= 1 /\ (snd.total + n) + (snd.left - n) = snd.total + snd.left
          /\ n <= snd.total + n /\ snd.total + n # 0 /\ snd.calls + 1 # 0
          /\ snd.calls + 1 <= 1 => snd.calls = 0
      <4>1. PICK a, t, c : a = snd.left /\ t = snd.total /\ c = snd.calls
        OBVIOUS
      <4>2. a \in Nat /\ t \in Nat /\ c \in Nat /\ n \in Nat \ {0} /\ n < a
        BY <1>1, <1>3, <4>1
      <4>3. /\ a - n >= 1 /\ (t + n) + (a - n) = t + a /\ n <= t + n /\ t + n # 0 /\ c + 1 # 0
            /\ c + 1 <= 1 => c = 0
        BY <4>2
      <4>4. QED
        BY <4>1, <4>3
    <3>6. snd.total = 0 => n = snd.total + n
      BY <1>1
    <3>7. QED
      BY <3>1, <3>3, <3>5, <3>6
  <2>2. QED
    BY <1>4, <1>5, <2>1 DEF Sent
<1>11. Filters'
  BY <1>1, <1>4, <1>5 DEF Inv, Filters, Busy
<1>12. Batch'
  <2>1. Len(evs) \in Nat /\ evs[1].item = cur
    BY <1>1, CurrentEvent DEF Inv, cur
  <2>2. \A k \in 1 .. Len(evs) : k > 1 \/ k = 1
    BY <2>1
  <2>3. \A k \in 1 .. Len(evs) : k > 1 => evs[k].item # cur
    BY <1>1, <2>1, CurrentOpen
  <2>4. QED
    BY <1>1, <2>1, <2>2, <2>3 DEF Inv, Batch
<1>13. Echoes'
  BY <1>1, <1>4, <1>5 DEF Inv, Echoes, Handed
<1>14. QED
  BY <1>6, <1>7, <1>8, <1>9, <1>10, <1>11, <1>12, <1>13 DEF Inv

LEMMA Changes ==
    /\ Head(ToWrite) = [filter |-> "READ", to |-> "off"] /\ Tail(ToWrite) = LastWrite
    /\ Head(LastWrite) = [filter |-> "WRITE", to |-> "on"] /\ Tail(LastWrite) = << >>
    /\ Head(ToRead) = [filter |-> "WRITE", to |-> "off"] /\ Tail(ToRead) = LastRead
    /\ Head(LastRead) = [filter |-> "READ", to |-> "on"] /\ Tail(LastRead) = << >>
    /\ Len(ToWrite) = 2 /\ Len(LastWrite) = 1 /\ Len(ToRead) = 2 /\ Len(LastRead) = 1
    /\ ToWrite # ToRead /\ LastWrite # LastRead
  BY DEF ToWrite, LastWrite, ToRead, LastRead

(* The send that takes all that is left: the buffer is empty. *)
LEMMA SendAllInv ==
    ASSUME Inv, Send, Taken = snd.left, ReturnedAll, snd' = Idle, faults' = faults
    PROVE  Inv'
<1>1. /\ pc = "send" /\ evs # << >> /\ cur \in Conns /\ st[cur] = "open"
      /\ snd \in Locals /\ snd.fd = cur /\ buf[cur] \in Seq(Bytes)
      /\ out' \in [Conns -> Seq(Bytes)] /\ thrice' \in [Conns -> BOOLEAN]
      /\ \A c \in Conns : c # cur => out'[c] = out[c] /\ thrice'[c] = thrice[c]
      /\ Bounded(nsent[cur], nread[cur], out'[cur], drained[cur], buf[cur])
      /\ Echo(out'[cur], buf[cur], snd.total + snd.left, nread[cur], thrice'[cur])
  BY SendTakes
<1>2. \/ snd.path = "read" /\ pc' = "recv" /\ chg' = chg
      \/ snd.path = "write" /\ pc' = "change" /\ chg' = ToRead
  <2>1. snd.path \in {"read", "write"}
    BY <1>1 DEF Locals
  <2>2. QED
    BY <2>1 DEF ReturnedAll
<1>3. UNCHANGED <<st, backlog, nsent, nread, fin, rst, drained, kread, kwrite, evs>> /\ cur' = cur
  BY DEF ReturnedAll, cur
<1>4. /\ buf' \in [Conns -> Seq(Bytes)] /\ buf'[cur] = << >>
      /\ \A c \in Conns : c # cur => buf'[c] = buf[c]
  <2>1. buf \in [Conns -> Seq(Bytes)] /\ << >> \in Seq(Bytes)
    BY EmptySeq DEF Inv, Types
  <2>2. QED
    BY <1>1, <2>1 DEF ReturnedAll
<1>5. Types'
  BY <1>1, <1>2, <1>3, <1>4 DEF Inv, Types
<1>6. Counters'
  <2>1. Bounded(nsent[cur], nread[cur], out'[cur], drained[cur], << >>)
    BY <1>1, EmptySeq DEF Bounded
  <2>2. QED
    BY <1>1, <1>3, <1>4, <2>1 DEF Inv, Counters
<1>7. Freshness' /\ Queued'
  <2>1. Freshness'
    BY <1>1, <1>3, <1>4 DEF Inv, Freshness, Fresh
  <2>2. Queued'
    BY <1>3 DEF Inv, Queued
  <2>3. QED
    BY <2>1, <2>2
<1>8. Located' /\ Sent'
  BY <1>1, <1>2, <1>3 DEF Inv, Located, Sent
<1>9. Filters'
  <2>1. pc' # "send" /\ \A c \in Conns : Busy(c)' <=> Busy(c)
    BY <1>1, <1>2, <1>3 DEF Busy
  <2>2. \A c \in Conns : st'[c] = "open" /\ ~Busy(c)' => Watched(buf'[c], kread'[c], kwrite'[c])
    BY <1>1, <1>3, <1>4, <2>1 DEF Inv, Filters, Busy
  <2>3. pc' = "recv" => kread[cur] = "on" /\ kwrite[cur] # "on"
    BY <1>1, <1>2 DEF Inv, Filters
  <2>4. ToRead # ToWrite /\ ToRead # LastWrite /\ ToRead # LastRead
    BY Changes
  <2>5. pc' = "change" => chg' = ToRead /\ kread[cur] = "off" /\ kwrite[cur] = "on"
    BY <1>1, <1>2 DEF Inv, Filters
  <2>6. QED
    BY <1>3, <1>4, <2>1, <2>2, <2>3, <2>4, <2>5 DEF Filters
<1>10. Batch'
  <2>1. Len(evs) \in Nat /\ evs[1].item = cur
    BY <1>1, CurrentEvent DEF Inv, cur
  <2>2. \A k \in 1 .. Len(evs) : k > 1 \/ k = 1
    BY <2>1
  <2>3. \A k \in 1 .. Len(evs) : k > 1 => evs[k].item # cur
    BY <1>1, <2>1, CurrentOpen
  <2>4. QED
    BY <1>1, <1>2, <1>3, <1>4, <2>1, <2>2, <2>3 DEF Inv, Batch
<1>11. Echoes'
  <2>1. snd.total + snd.left = Len(buf[cur]) /\ nread[cur] \in Nat /\ out'[cur] \in Seq(Bytes)
    BY <1>1 DEF Inv, Sent, Types
  <2>2. Echo(out'[cur], << >>, 0, nread[cur], thrice'[cur])
    BY <1>1, <2>1, EchoAll
  <2>3. pc' # "send" /\ \A c \in Conns : Handed(c)' = 0 /\ (c # cur => Handed(c) = 0)
    BY <1>2 DEF Handed
  <2>4. ASSUME NEW c \in Conns, st[c] = "open", c # cur
        PROVE  Echo(out'[c], buf'[c], 0, nread[c], thrice'[c])
    <3>1. Echo(out[c], buf[c], 0, nread[c], thrice[c])
      BY <2>3, <2>4 DEF Inv, Echoes
    <3>2. QED
      BY <1>1, <1>4, <2>4, <3>1
  <2>5. ASSUME NEW c \in Conns, st[c] = "open"
        PROVE  Echo(out'[c], buf'[c], 0, nread[c], thrice'[c])
    BY <1>4, <2>2, <2>4, <2>5
  <2>6. QED
    BY <1>3, <2>3, <2>5 DEF Echoes
<1>12. QED
  BY <1>5, <1>6, <1>7, <1>8, <1>9, <1>10, <1>11 DEF Inv

LEMMA SendInv == Inv /\ Send => Inv'
<1> SUFFICES ASSUME Inv, Send PROVE Inv'
  OBVIOUS
<1>1. CASE Taken = snd.left /\ Returned(snd.total + Taken)
  <2>1. /\ snd.total \in Nat /\ snd.left \in Nat \ {0} /\ snd.total + snd.left = Len(buf[cur])
    BY DEF Send, Inv, Located, Locals, Sent
  <2>2. snd.total + Taken # 0 /\ ~(snd.total + Taken \in 1 .. Len(buf[cur]) - 1)
        /\ snd.total + Taken = Len(buf[cur])
    BY <1>1, <2>1
  <2>3. snd' = Idle /\ ReturnedAll
    BY <1>1, <2>2 DEF Returned
  <2>4. QED
    BY <1>1, <2>3, SendAllInv DEF Send
<1>2. CASE /\ Taken < snd.left /\ SendMore
           /\ UNCHANGED <<st, backlog, nsent, nread, fin, rst, drained,
                          kread, kwrite, evs, pc, buf, chg>>
  BY <1>2, SendMoreInv DEF Send
<1>3. QED
  BY <1>1, <1>2 DEF Send

(* do_send has sent part of the buffer. *)
LEMMA SendPartInv ==
    ASSUME Inv, pc = "send", snd.total \in 1 .. Len(buf[cur]) - 1, ReturnedPart(snd.total),
           snd' = Idle, UNCHANGED <<out, faults, thrice>>
    PROVE  Inv'
<1> DEFINE d == SubSeq(buf[cur], snd.total + 1, Len(buf[cur]))
<1>1. /\ evs # << >> /\ cur \in Conns /\ st[cur] = "open" /\ snd \in Locals /\ chg = << >>
      /\ snd.path \in {"read", "write"} /\ snd.total \in Nat
  BY CurrentOpen DEF Inv, Located, Locals
<1>2. /\ out[cur] \in Seq(Bytes) /\ buf[cur] \in Seq(Bytes) /\ nread[cur] \in Nat
      /\ Len(buf[cur]) \in Nat
  BY <1>1, LenProperties DEF Inv, Types
<1>3. /\ d \in Seq(Bytes) /\ Len(d) = Len(buf[cur]) - snd.total
      /\ Echo(out[cur], d, 0, nread[cur], thrice[cur])
  <2>1. Echo(out[cur], buf[cur], snd.total, nread[cur], thrice[cur])
    BY <1>1 DEF Inv, Echoes, Handed
  <2>2. snd.total <= Len(buf[cur])
    BY <1>1, <1>2
  <2>3. QED
    BY <1>1, <1>2, <2>1, <2>2, EchoReturned
<1>4. buf' = [buf EXCEPT ![cur] = d]
  BY DEF ReturnedPart
<1> HIDE DEF d
<1>5. Len(d) \in Nat \ {0} /\ Len(d) <= BufCap /\ d # << >>
  <2>1. Len(buf[cur]) <= BufCap
    BY <1>1 DEF Inv, Counters, Bounded
  <2>2. Len(d) \in Nat \ {0} /\ Len(d) <= BufCap
    BY <1>1, <1>2, <1>3, <2>1
  <2>3. QED
    BY <2>2
<1>6. /\ buf' \in [Conns -> Seq(Bytes)] /\ buf'[cur] = d
      /\ \A c \in Conns : c # cur => buf'[c] = buf[c]
  <2>1. buf \in [Conns -> Seq(Bytes)]
    BY DEF Inv, Types
  <2>2. QED
    BY <1>1, <1>3, <1>4, <2>1
<1>7. UNCHANGED <<st, backlog, nsent, nread, fin, rst, drained, kread, kwrite>>
  BY DEF ReturnedPart
<1>8. evs' \in Seq(Events) /\ pc' \in {"wait", "dispatch", "change"}
      /\ Located' /\ Sent' /\ Filters' /\ Batch'
  <2>1. CASE snd.path = "read"
    <3>1. pc' = "change" /\ chg' = ToWrite /\ evs' = evs /\ cur' = cur
      BY <2>1 DEF ReturnedPart, cur
    <3>2. Located' /\ Sent'
      BY <1>1, <3>1 DEF Inv, Located, Sent
    <3>3. Filters'
      <4>1. \A c \in Conns : Busy(c)' <=> Busy(c)
        BY <3>1 DEF Busy
      <4>2. \A c \in Conns : st'[c] = "open" /\ ~Busy(c)' => Watched(buf'[c], kread'[c], kwrite'[c])
        BY <1>1, <1>6, <1>7, <4>1 DEF Inv, Filters, Busy
      <4>3. ToWrite # ToRead /\ ToWrite # LastWrite /\ ToWrite # LastRead
        BY Changes
      <4>4. kread[cur] = "on" /\ kwrite[cur] # "on"
        BY <2>1 DEF Inv, Filters
      <4>5. QED
        BY <1>5, <1>6, <1>7, <3>1, <4>2, <4>3, <4>4 DEF Filters
    <3>4. Batch'
      <4>1. Len(evs) \in Nat /\ evs[1].item = cur
        BY <1>1, CurrentEvent DEF Inv, cur
      <4>2. \A k \in 1 .. Len(evs) : k > 1 \/ k = 1
        BY <4>1
      <4>3. \A k \in 1 .. Len(evs) : k > 1 => evs[k].item # cur
        BY <1>1, <4>1, CurrentOpen
      <4>4. QED
        BY <1>1, <1>6, <1>7, <3>1, <4>1, <4>2, <4>3 DEF Inv, Batch
    <3>5. QED
      BY <3>1, <3>2, <3>3, <3>4 DEF Inv, Types
  <2>2. CASE snd.path = "write"
    <3>1. NextEvent /\ chg' = << >>
      BY <1>1, <2>2 DEF ReturnedPart
    <3>2. Watched(buf'[cur], kread'[cur], kwrite'[cur])
      <4>1. kread[cur] = "off" /\ kwrite[cur] = "on"
        BY <2>2 DEF Inv, Filters
      <4>2. QED
        BY <1>5, <1>6, <1>7, <4>1 DEF Watched
    <3>3. QED
      BY <1>1, <1>6, <1>7, <3>1, <3>2, Advanced DEF Busy
  <2>3. QED
    BY <1>1, <2>1, <2>2
<1>9. Types'
  BY <1>6, <1>7, <1>8 DEF Inv, Types
<1>10. Counters'
  <2>1. Bounded(nsent[cur], nread[cur], out[cur], drained[cur], d)
    BY <1>1, <1>5 DEF Inv, Counters, Bounded
  <2>2. QED
    BY <1>6, <1>7, <2>1 DEF Inv, Counters
<1>11. Freshness'
  BY <1>1, <1>6, <1>7 DEF Inv, Freshness, Fresh
<1>12. Queued'
  BY <1>7 DEF Inv, Queued
<1>13. Echoes'
  <2>1. \A c \in Conns : Handed(c)' = 0 /\ (c # cur => Handed(c) = 0)
    BY <1>8 DEF Handed
  <2>2. QED
    BY <1>3, <1>6, <1>7, <2>1 DEF Inv, Echoes
<1>14. QED
  BY <1>8, <1>9, <1>10, <1>11, <1>12, <1>13 DEF Inv

LEMMA SendAgainInv == Inv /\ SendAgain => Inv'
<1> SUFFICES ASSUME Inv, SendAgain PROVE Inv'
  OBVIOUS
<1>1. /\ pc = "send" /\ snd.total \in Nat /\ snd.left \in Nat \ {0} /\ chg = << >>
      /\ snd.total + snd.left = Len(buf[cur])
  BY DEF SendAgain, Inv, Located, Locals, Sent
<1>2. CASE snd.total = 0
  <2>1. ~(snd.total \in 1 .. Len(buf[cur]) - 1) /\ snd.total # Len(buf[cur])
    BY <1>1, <1>2
  <2>2. snd' = Idle /\ ReturnedNothing
    BY <1>2, <2>1 DEF SendAgain, Returned
  <2>3. QED
    BY <1>1, <2>2, CleanupInv DEF ReturnedNothing, SendAgain, Inv, Types
<1>3. CASE snd.total # 0
  <2>1. snd.total \in 1 .. Len(buf[cur]) - 1 /\ snd.total # Len(buf[cur])
    BY <1>1, <1>3
  <2>2. snd' = Idle /\ ReturnedPart(snd.total)
    BY <1>3, <2>1 DEF SendAgain, Returned
  <2>3. QED
    BY <1>1, <2>1, <2>2, SendPartInv DEF SendAgain
<1>4. QED
  BY <1>2, <1>3

LEMMA SendFailsInv == Inv /\ SendFails => Inv'
<1> SUFFICES ASSUME Inv, SendFails PROVE Inv'
  OBVIOUS
<1>1. pc = "send" /\ snd' = Idle /\ chg' = << >> /\ thrice' = thrice /\ faults' \in 0 .. MaxFaults
  BY DEF SendFails, Inv, Located, Types
<1>2. CASE Cleanup(cur) /\ NextEvent
  BY <1>1, <1>2, CleanupInv
<1>3. CASE /\ pc' = "killed"
           /\ evs' = << >>
           /\ st' = [c \in Conns |-> "closed"]
           /\ backlog' = [l \in Listeners |-> << >>]
           /\ kread' = [c \in Conns |-> "none"]
           /\ kwrite' = [c \in Conns |-> "none"]
           /\ buf' = [c \in Conns |-> << >>]
           /\ UNCHANGED <<nsent, nread, fin, rst, out, drained>>
  <2>1. << >> \in Seq(Conns) /\ << >> \in Seq(Events) /\ << >> \in Seq(Bytes) /\ Len(<< >>) = 0
    BY EmptySeq
  <2>2. /\ backlog' \in [Listeners -> Seq(Conns)] /\ evs' \in Seq(Events)
        /\ buf' \in [Conns -> Seq(Bytes)]
    BY <1>3, <2>1
  <2>3. Types'
    BY <1>1, <1>3, <2>2 DEF Inv, Types
  <2>4. Counters'
    <3>1. ASSUME NEW c \in Conns PROVE Bounded(nsent[c], nread[c], out[c], drained[c], << >>)
      BY <2>1 DEF Inv, Counters, Bounded
    <3>2. QED
      BY <1>3, <3>1 DEF Counters
  <2>5. Freshness' /\ Queued'
    BY <1>3, <2>1 DEF Freshness, Fresh, Queued
  <2>6. Located' /\ Sent' /\ Filters' /\ Batch' /\ Echoes'
    BY <1>1, <1>3, <2>1 DEF Located, Sent, Filters, Batch, Echoes
  <2>7. QED
    BY <2>3, <2>4, <2>5, <2>6 DEF Inv
<1>4. QED
  BY <1>2, <1>3 DEF SendFails

LEMMA ChangeFailsInv == Inv /\ ChangeFails => Inv'
<1> SUFFICES ASSUME Inv, ChangeFails PROVE Inv'
  OBVIOUS
<1>1. faults' \in 0 .. MaxFaults
  <2>1. \A n \in 0 .. MaxFaults : n < MaxFaults => n + 1 \in 0 .. MaxFaults
    OBVIOUS
  <2>2. QED
    BY <2>1 DEF ChangeFails, Inv, Types
<1>2. snd' = Idle
  BY DEF ChangeFails, Inv, Located
<1>3. QED
  BY <1>1, <1>2, CleanupInv DEF ChangeFails

LEMMA ChangeInv == Inv /\ Change => Inv'
<1> SUFFICES ASSUME Inv, Change PROVE Inv'
  OBVIOUS
<1>1. /\ pc = "change" /\ evs # << >> /\ cur \in Conns /\ st[cur] = "open" /\ snd' = Idle
      /\ chg \in {ToWrite, LastWrite, ToRead, LastRead}
  BY CurrentOpen DEF Change, Inv, Located
<1>2. UNCHANGED <<st, backlog, nsent, nread, fin, rst, out, drained, buf, faults, thrice>>
  BY DEF Change, sockets
<1>3. /\ kread' \in [Conns -> {"none", "on", "off"}] /\ kwrite' \in [Conns -> {"none", "on", "off"}]
      /\ \A c \in Conns : c # cur => kread'[c] = kread[c] /\ kwrite'[c] = kwrite[c]
      /\ chg \in {ToWrite, LastRead} => kwrite'[cur] = kwrite[cur]
      /\ chg \in {ToRead, LastWrite} => kread'[cur] = kread[cur]
      /\ chg = ToWrite => kread'[cur] = "off"
      /\ chg = LastWrite => kwrite'[cur] = "on"
      /\ chg = ToRead => kwrite'[cur] = "off"
      /\ chg = LastRead => kread'[cur] = "on"
  <2>1. kread \in [Conns -> {"none", "on", "off"}] /\ kwrite \in [Conns -> {"none", "on", "off"}]
    BY DEF Inv, Types
  <2>2. CASE chg = ToWrite
    <3>1. kread' = [kread EXCEPT ![cur] = "off"] /\ kwrite' = kwrite
      BY <2>2, Changes DEF Change
    <3>2. QED
      BY <1>1, <2>1, <2>2, <3>1, Changes
  <2>3. CASE chg = LastWrite
    <3>1. kwrite' = [kwrite EXCEPT ![cur] = "on"] /\ kread' = kread
      BY <2>3, Changes DEF Change
    <3>2. QED
      BY <1>1, <2>1, <2>3, <3>1, Changes
  <2>4. CASE chg = ToRead
    <3>1. kwrite' = [kwrite EXCEPT ![cur] = "off"] /\ kread' = kread
      BY <2>4, Changes DEF Change
    <3>2. QED
      BY <1>1, <2>1, <2>4, <3>1, Changes
  <2>5. CASE chg = LastRead
    <3>1. kread' = [kread EXCEPT ![cur] = "on"] /\ kwrite' = kwrite
      BY <2>5, Changes DEF Change
    <3>2. QED
      BY <1>1, <2>1, <2>5, <3>1, Changes
  <2>6. QED
    BY <1>1, <2>2, <2>3, <2>4, <2>5
<1>4. evs' \in Seq(Events) /\ pc' \in {"wait", "dispatch", "change"}
      /\ Located' /\ Sent' /\ Filters' /\ Batch'
  <2>1. CASE chg \in {ToWrite, ToRead}
    <3>1. /\ pc' = pc /\ evs' = evs /\ cur' = cur
          /\ chg = ToWrite => chg' = LastWrite
          /\ chg = ToRead => chg' = LastRead
      BY <2>1, Changes DEF Change, cur
    <3>2. Located' /\ Sent'
      BY <1>1, <2>1, <3>1 DEF Inv, Located, Sent
    <3>3. Filters'
      <4>1. \A c \in Conns : st[c] = "open" /\ c # cur => Watched(buf[c], kread[c], kwrite[c])
        BY DEF Inv, Filters, Busy
      <4>2. LastWrite # LastRead /\ LastWrite # ToRead /\ LastWrite # ToWrite
            /\ LastRead # ToRead /\ LastRead # ToWrite
        BY Changes
      <4>3. CASE chg = ToWrite
        <5>1. buf[cur] # << >> /\ kread'[cur] = "off" /\ kwrite'[cur] # "on" /\ chg' = LastWrite
          BY <1>1, <1>3, <3>1, <4>3 DEF Inv, Filters
        <5>2. QED
          BY <1>1, <1>2, <1>3, <3>1, <4>1, <4>2, <5>1 DEF Filters, Busy
      <4>4. CASE chg = ToRead
        <5>1. buf[cur] = << >> /\ kread'[cur] = "off" /\ kwrite'[cur] = "off" /\ chg' = LastRead
          BY <1>1, <1>3, <3>1, <4>4 DEF Inv, Filters
        <5>2. QED
          BY <1>1, <1>2, <1>3, <3>1, <4>1, <4>2, <5>1 DEF Filters, Busy
      <4>5. QED
        BY <2>1, <4>3, <4>4
    <3>4. Batch'
      BY <1>2, <3>1 DEF Inv, Batch
    <3>5. QED
      BY <1>1, <3>1, <3>2, <3>3, <3>4 DEF Inv, Types
  <2>2. CASE chg \in {LastWrite, LastRead}
    <3>1. NextEvent /\ chg' = << >>
      BY <2>2, Changes DEF Change
    <3>2. Watched(buf'[cur], kread'[cur], kwrite'[cur])
      BY <1>1, <1>2, <1>3, <2>2 DEF Inv, Filters, Watched
    <3>3. QED
      BY <1>1, <1>2, <1>3, <3>1, <3>2, Advanced DEF Busy
  <2>3. QED
    BY <1>1, <2>1, <2>2
<1>5. Types'
  BY <1>2, <1>3, <1>4 DEF Inv, Types
<1>6. Counters' /\ Queued'
  BY <1>2 DEF Inv, Counters, Queued
<1>7. Freshness'
  BY <1>1, <1>2, <1>3 DEF Inv, Freshness, Fresh
<1>8. Echoes'
  BY <1>1, <1>2, <1>4 DEF Inv, Echoes, Handed
<1>9. QED
  BY <1>4, <1>5, <1>6, <1>7, <1>8 DEF Inv

------------------------------------------------------------------------------
LEMMA InitInv == Init => Inv
<1> SUFFICES ASSUME Init PROVE Inv
  OBVIOUS
<1> USE DEF Init, SocketsInit, SendInit
<1>1. << >> \in Seq(Conns) /\ << >> \in Seq(Events) /\ << >> \in Seq(Bytes) /\ Len(<< >>) = 0
  BY EmptySeq
<1>2. Types
  BY <1>1 DEF Types
<1>3. Counters /\ Freshness /\ Queued
  BY <1>1 DEF Counters, Bounded, Freshness, Fresh, Queued
<1>4. Located /\ Sent /\ Filters /\ Batch /\ Echoes
  BY <1>1 DEF Located, Sent, Filters, Batch, Echoes
<1>5. QED
  BY <1>2, <1>3, <1>4 DEF Inv

LEMMA InvInductive == Inv /\ [Next]_vars => Inv'
<1> SUFFICES ASSUME Inv, [Next]_vars PROVE Inv'
  OBVIOUS
<1>1. CASE Client
  BY <1>1, ConnectInv, ClientSendInv, ClientLeavesInv DEF Client
<1>2. ASSUME NEW c \in Conns, Drain(c) PROVE Inv'
  BY <1>2, DrainInv
<1>3. CASE KeventWait
  BY <1>3, KeventWaitInv
<1>4. CASE DispatchListener \/ DispatchRead
  BY <1>4, DispatchInv
<1>5. CASE DispatchWrite
  BY <1>5, DispatchWriteInv
<1>6. CASE Accept
  BY <1>6, AcceptInv
<1>7. CASE AcceptEmpty \/ AcceptFails
  BY <1>7, AcceptEndsInv
<1>8. CASE RecvData
  BY <1>8, RecvDataInv
<1>9. CASE RecvEnd
  BY <1>9, RecvEndInv
<1>10. CASE RecvAgain
  BY <1>10, RecvAgainInv
<1>11. CASE Send
  BY <1>11, SendInv
<1>12. CASE SendAgain
  BY <1>12, SendAgainInv
<1>13. CASE SendFails
  BY <1>13, SendFailsInv
<1>14. CASE Change
  BY <1>14, ChangeInv
<1>15. CASE ChangeFails
  BY <1>15, ChangeFailsInv
<1>16. CASE UNCHANGED vars
  <2>1. UNCHANGED server /\ UNCHANGED sockets
    BY <1>16 DEF vars
  <2>2. Types' /\ Counters' /\ Freshness' /\ Queued'
    BY <2>1 DEF server, sockets, Inv, Types, Counters, Freshness, Queued
  <2>3. Located' /\ Sent' /\ Filters' /\ Batch' /\ Echoes'
    BY <2>1, ClientKeeps DEF sockets, server, Space
  <2>4. QED
    BY <2>2, <2>3 DEF Inv
<1>17. QED
  BY <1>1, <1>2, <1>3, <1>4, <1>5, <1>6, <1>7, <1>8, <1>9, <1>10, <1>11, <1>12,
     <1>13, <1>14, <1>15, <1>16 DEF Next, Server

LEMMA Invariant == Spec => []Inv
  BY InitInv, InvInductive, PTL DEF Spec

(***************************************************************************)
(* The server never holds more than BUF_CAPACITY bytes of a connection,    *)
(* never counts more bytes than were sent and never overfills a queue,     *)
(* whatever the sizes: the buffer arithmetic of queue() stays in bounds.   *)
(***************************************************************************)
THEOREM TypeCorrect == Spec => []TypeOK
<1>1. Inv => TypeOK
  <2> SUFFICES ASSUME Inv PROVE TypeOK
    OBVIOUS
  <2>1. ASSUME NEW S, NEW s \in Seq(S) PROVE Range(s) \subseteq S
    BY LenProperties DEF Range
  <2>2. \A l \in Listeners : Len(backlog[l]) <= Backlog /\ Range(backlog[l]) \subseteq Conns
    BY <2>1 DEF Inv, Types, Queued
  <2>3. ASSUME NEW c \in Conns
        PROVE  /\ nread[c] \in 0 .. nsent[c] /\ nsent[c] \in 0 .. MaxBytes
               /\ drained[c] \in 0 .. Len(out[c])
               /\ Space(c) \in 0 .. SendCap
               /\ Range(out[c]) \subseteq Bytes
               /\ Range(buf[c]) \subseteq Bytes /\ Len(buf[c]) <= BufCap
    <3>1. /\ nread[c] \in Nat /\ nsent[c] \in Nat /\ drained[c] \in Nat
          /\ out[c] \in Seq(Bytes) /\ buf[c] \in Seq(Bytes) /\ Len(out[c]) \in Nat
      BY LenProperties DEF Inv, Types
    <3>2. Bounded(nsent[c], nread[c], out[c], drained[c], buf[c])
      BY DEF Inv, Counters
    <3>3. Range(out[c]) \subseteq Bytes /\ Range(buf[c]) \subseteq Bytes
      BY <2>1, <3>1
    <3>4. QED
      BY <3>1, <3>2, <3>3, SMTT(20) DEF Bounded, Space
  <2>4. QED
    BY <2>2, <2>3 DEF TypeOK, Inv, Types
<1>2. QED
  BY <1>1, Invariant, PTL

(***************************************************************************)
(* Whatever the interleaving of clients, partial sends and events, what    *)
(* send accepted and what is still buffered is what recv returned: by      *)
(* length always, byte for byte unless a do_send called send three times.  *)
(***************************************************************************)
THEOREM EchoCorrect == Spec => []EchoIntact
<1>1. Inv => EchoIntact
  <2> SUFFICES ASSUME Inv, NEW c \in Conns, st[c] = "open"
               PROVE  /\ Len(out[c] \o Pending(c)) = nread[c]
                      /\ ~thrice[c] => out[c] \o Pending(c) = [k \in 1 .. nread[c] |-> k]
    BY DEF EchoIntact
  <2>1. out[c] \in Seq(Bytes) /\ buf[c] \in Seq(Bytes) /\ nread[c] \in Nat /\ Len(buf[c]) \in Nat
    BY LenProperties DEF Inv, Types
  <2>2. \A r \in Locals : r.path # "none" /\ r # Idle
    BY DEF Locals, Idle
  <2>3. Sending(c) <=> pc = "send" /\ cur = c
    BY <2>2 DEF Sending, Inv, Located
  <2>4. Echo(out[c], buf[c], Handed(c), nread[c], thrice[c])
    BY DEF Inv, Echoes
  <2>5. Pending(c) \in Seq(Bytes) /\ Echo(out[c], Pending(c), 0, nread[c], thrice[c])
    <3>1. CASE pc = "send" /\ cur = c
      <4>1. snd.total \in Nat /\ snd.total <= Len(buf[c])
        BY <2>1, <3>1 DEF Inv, Located, Locals, Sent
      <4>2. Echo(out[c], buf[c], snd.total, nread[c], thrice[c])
        BY <2>4, <3>1 DEF Handed
      <4>3. Pending(c) = SubSeq(buf[c], snd.total + 1, Len(buf[c]))
        BY <2>3, <3>1 DEF Pending
      <4>4. QED
        BY <2>1, <4>1, <4>2, <4>3, EchoReturned
    <3>2. CASE ~(pc = "send" /\ cur = c)
      BY <2>1, <2>3, <2>4, <3>2 DEF Pending, Handed
    <3>3. QED
      BY <3>1, <3>2
  <2>6. QED
    BY <2>1, <2>5, EchoSays
<1>2. QED
  BY <1>1, Invariant, PTL

(***************************************************************************)
(* The filters of every connection agree with its buffer between events,   *)
(* and every event still in the batch agrees with both: the last branch of *)
(* queue(), which ends the server, is unreachable.                         *)
(***************************************************************************)
THEOREM FiltersCorrect == Spec => []FiltersFollowSize
<1>1. Inv => FiltersFollowSize
  <2> SUFFICES ASSUME Inv PROVE FiltersFollowSize
    OBVIOUS
  <2>1. ASSUME NEW c \in Conns
        PROVE  IF st[c] # "open" THEN kread[c] = "none" /\ kwrite[c] = "none"
               ELSE pc \in {"wait", "dispatch", "accept"} =>
                       IF buf[c] = << >> THEN kread[c] = "on" /\ kwrite[c] # "on"
                                         ELSE kread[c] = "off" /\ kwrite[c] = "on"
    BY DEF Inv, Freshness, Fresh, Filters, Busy, Watched
  <2>2. DOMAIN evs = 1 .. Len(evs)
    BY LenProperties DEF Inv, Types
  <2>3. ASSUME NEW k \in DOMAIN evs, evs[k].item \in Conns
        PROVE  /\ st[evs[k].item] = "open"
               /\ k > 1 \/ pc = "dispatch" => (evs[k].filter = "READ" <=> buf[evs[k].item] = << >>)
               /\ \A j \in DOMAIN evs : evs[j].item = evs[k].item => j = k
    BY <2>2, <2>3 DEF Inv, Batch, Due
  <2>4. QED
    BY <2>1, <2>3 DEF FiltersFollowSize
<1>2. QED
  BY <1>1, Invariant, PTL

(***************************************************************************)
(* While the server lives and no kq_change fails, a client that did not    *)
(* reset is closed only when it has shut down and all it sent is echoed,   *)
(* or when do_send could hand over nothing of new input: never for what    *)
(* another client does, and never while its output waits for room.         *)
(***************************************************************************)
THEOREM ClosedCorrect == Spec => ClosedWhenDone
<1>1. ASSUME Inv, [Next]_vars, NEW c \in Conns, st[c] = "open", st'[c] = "closed",
             ~rst[c], pc' # "killed", faults' = faults
      PROVE  \/ fin[c] /\ nread[c] = nsent[c] /\ Len(out[c]) = nsent[c]
             \/ /\ Sending(c) /\ snd.path = "read" /\ snd.total = 0
                /\ Space(c) = 0
  <2>1. faults \in Int /\ st \in [Conns -> {"none", "backlog", "open", "closed", "leaked"}]
    BY <1>1 DEF Inv, Types
  <2>2. st' # st
    BY <1>1
  <2>3. ASSUME RecvEnd PROVE fin[c] /\ nread[c] = nsent[c] /\ Len(out[c]) = nsent[c]
    <3>1. cur \in Conns /\ pc = "recv" /\ Cleanup(cur)
      BY <1>1, <2>3 DEF RecvEnd, Inv, Located
    <3>2. c = cur
      BY <1>1, <2>1, <3>1 DEF Cleanup
    <3>3. /\ nread[c] \in Nat /\ nsent[c] \in Nat /\ buf[c] = << >>
          /\ Echo(out[c], buf[c], 0, nread[c], thrice[c])
          /\ Len(out[c]) \in Nat
      BY <1>1, <3>1, <3>2, LenProperties DEF Inv, Types, Filters, Echoes, Handed
    <3>4. Len(out[c]) = nread[c]
      BY <3>3, EmptySeq DEF Echo
    <3>5. QED
      BY <1>1, <2>3, <3>2, <3>3, <3>4 DEF RecvEnd, Unread
  <2>4. ASSUME SendAgain
        PROVE  Sending(c) /\ snd.path = "read" /\ snd.total = 0 /\ Space(c) = 0
    <3>1. /\ pc = "send" /\ cur \in Conns /\ snd \in Locals /\ snd.fd = cur /\ snd.path # "none"
      BY <1>1, <2>4 DEF SendAgain, Inv, Located, Locals
    <3>2. /\ snd.total \in Nat /\ snd.left \in Nat \ {0}
          /\ snd.total + snd.left = Len(buf[cur])
          /\ snd.path = "write" /\ snd.total = 0 => Space(cur) > 0 \/ rst[cur]
      BY <1>1, <3>1 DEF Inv, Sent, Locals
    <3>3. snd.total = 0 /\ Cleanup(cur)
      <4>1. CASE snd.total = 0
        <5>1. ~(snd.total \in 1 .. Len(buf[cur]) - 1) /\ snd.total # Len(buf[cur])
          BY <3>2, <4>1
        <5>2. QED
          BY <2>4, <4>1, <5>1 DEF SendAgain, Returned, ReturnedNothing
      <4>2. CASE snd.total # 0
        <5>1. snd.total \in 1 .. Len(buf[cur]) - 1 /\ snd.total # Len(buf[cur])
          BY <3>2, <4>2
        <5>2. st' = st
          BY <2>4, <4>2, <5>1 DEF SendAgain, Returned, ReturnedPart
        <5>3. QED
          BY <2>2, <5>2
      <4>3. QED
        BY <4>1, <4>2
    <3>4. c = cur
      BY <1>1, <2>1, <3>1, <3>3 DEF Cleanup
    <3>5. snd # Idle
      BY <3>1 DEF Idle
    <3>6. snd.path = "read"
      BY <1>1, <2>4, <3>1, <3>2, <3>3, <3>4 DEF SendAgain, Locals
    <3>7. QED
      BY <2>4, <3>1, <3>3, <3>4, <3>5, <3>6 DEF SendAgain, Sending
  <2>5. ~Send
    <3> SUFFICES ASSUME Send PROVE FALSE
      OBVIOUS
    <3>1. /\ snd.total \in Nat /\ snd.left \in Nat \ {0} /\ snd.total + snd.left = Len(buf[cur])
      BY <1>1 DEF Send, Inv, Located, Locals, Sent
    <3>2. CASE Taken = snd.left
      <4>1. snd.total + Taken # 0 /\ ~(snd.total + Taken \in 1 .. Len(buf[cur]) - 1)
            /\ snd.total + Taken = Len(buf[cur])
        BY <3>1, <3>2
      <4>2. st' = st
        BY <3>2, <4>1 DEF Send, Returned, ReturnedAll
      <4>3. QED
        BY <2>2, <4>2
    <3>3. CASE Taken # snd.left
      BY <2>2, <3>3 DEF Send
    <3>4. QED
      BY <3>2, <3>3
  <2>6. ~SendFails
    <3> SUFFICES ASSUME SendFails PROVE FALSE
      OBVIOUS
    <3>1. cur \in Conns /\ rst[cur] /\ Cleanup(cur)
      BY <1>1 DEF SendFails, Inv, Located
    <3>2. c = cur
      BY <1>1, <2>1, <3>1 DEF Cleanup
    <3>3. QED
      BY <1>1, <3>1, <3>2
  <2>7. ~Accept /\ ~AcceptFails
    <3>1. ASSUME Accept PROVE FALSE
      <4>1. cur \in Listeners
        BY <1>1, <3>1 DEF Accept, Inv, Located
      <4>2. st'[c] = st[c] \/ st'[c] = "open"
        BY <2>1, <3>1 DEF Accept
      <4>3. QED
        BY <1>1, <4>2
    <3>2. ~AcceptFails
      BY <1>1, <2>1 DEF AcceptFails
    <3>3. QED
      BY <3>1, <3>2
  <2>8. ~ChangeFails
    BY <1>1, <2>1 DEF ChangeFails
  <2>9. ~Client
    BY <1>1, <2>1 DEF Client, Connect, ClientSend, ClientShutdown, ClientReset
  <2>10. RecvEnd \/ SendAgain
    BY <1>1, <2>2, <2>5, <2>6, <2>7, <2>8, <2>9
       DEF Next, Server, Drain, ClientDrain, KeventWait, DispatchListener, DispatchWrite,
           DispatchRead, AcceptEmpty, RecvData, RecvAgain, Change, sockets, vars
  <2>11. QED
    BY <2>3, <2>4, <2>10
<1>2. Inv /\ [Next]_vars =>
        [\A c \in Conns :
            (/\ st[c] = "open" /\ st'[c] = "closed"
             /\ ~rst[c] /\ pc' # "killed" /\ faults' = faults) =>
                \/ fin[c] /\ nread[c] = nsent[c] /\ Len(out[c]) = nsent[c]
                \/ /\ Sending(c) /\ snd.path = "read" /\ snd.total = 0
                   /\ Space(c) = 0]_vars
  BY <1>1, Zenon
<1>3. QED
  BY <1>2, Invariant, PTL DEF Spec, ClosedWhenDone
=============================================================================
