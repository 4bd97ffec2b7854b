--------------------------- MODULE ShmStreamProofs ---------------------------
(***************************************************************************)
(* Proofs about ShmStream, for any number of clients, any length of the    *)
(* stream and any capacity of the queue.                                   *)
(***************************************************************************)
EXTENDS ShmStream, SequenceTheorems, TLAPS

USE StreamAssumption

------------------------------------------------------------------------------
(***************************************************************************)
(* What the queue carries: s after g is the start of the stream, p long.   *)
(***************************************************************************)
Carried(g, s, p) ==
    /\ Len(g) + Len(s) = p
    /\ \A k \in 1 .. Len(g) : g[k] = k
    /\ \A k \in 1 .. Len(s) : s[k] = Len(g) + k

LEMMA CarriedNone == Carried(<< >>, << >>, 0)
  BY DEF Carried

(* A put extends what is carried at its end. *)
LEMMA PutCarries ==
    ASSUME NEW g \in Seq(Nat), NEW s \in Seq(Nat), NEW p \in Nat, Carried(g, s, p)
    PROVE  /\ Append(s, p + 1) \in Seq(Nat)
           /\ Len(Append(s, p + 1)) = Len(s) + 1
           /\ Carried(g, Append(s, p + 1), p + 1)
<1> DEFINE t == Append(s, p + 1)
<1>1. /\ t \in Seq(Nat) /\ Len(t) = Len(s) + 1
      /\ \A k \in 1 .. Len(s) : t[k] = s[k]
      /\ t[Len(s) + 1] = p + 1
  BY AppendProperties
<1>2. Len(s) \in Nat /\ Len(g) \in Nat
  BY LenProperties
<1> HIDE DEF t
<1>3. \A k \in 1 .. Len(t) : t[k] = Len(g) + k
  <2> SUFFICES ASSUME NEW k \in 1 .. Len(t) PROVE t[k] = Len(g) + k
    OBVIOUS
  <2>1. CASE k \in 1 .. Len(s)
    BY <1>1, <1>2, <2>1 DEF Carried
  <2>2. CASE k = Len(s) + 1
    BY <1>1, <1>2, <2>2, SMTT(20) DEF Carried
  <2>3. QED
    BY <1>1, <1>2, <2>1, <2>2
<1>4. Len(g) + Len(t) = p + 1
  BY <1>1, <1>2 DEF Carried
<1>5. QED
  BY <1>1, <1>3, <1>4 DEF Carried, t

(* A take moves the first integer from the queue to what was taken. *)
LEMMA TakeCarries ==
    ASSUME NEW g \in Seq(Nat), NEW s \in Seq(Nat), NEW p \in Nat, Carried(g, s, p), s # << >>
    PROVE  /\ Append(g, Head(s)) \in Seq(Nat) /\ Tail(s) \in Seq(Nat)
           /\ Len(Append(g, Head(s))) = Len(g) + 1 /\ Len(Tail(s)) = Len(s) - 1
           /\ Carried(Append(g, Head(s)), Tail(s), p)
<1> DEFINE h == Append(g, Head(s))
           t == Tail(s)
<1>1. Len(s) \in Nat \ {0} /\ Len(g) \in Nat
  BY LenProperties, EmptySeq
<1>2. /\ Head(s) \in Nat /\ Head(s) = s[1]
      /\ t \in Seq(Nat) /\ Len(t) = Len(s) - 1
      /\ \A k \in 1 .. Len(t) : t[k] = s[k + 1]
  BY HeadTailProperties, <1>1
<1>3. /\ h \in Seq(Nat) /\ Len(h) = Len(g) + 1
      /\ \A k \in 1 .. Len(g) : h[k] = g[k]
      /\ h[Len(g) + 1] = Head(s)
  BY <1>2, AppendProperties
<1> HIDE DEF h, t
<1>4. s[1] = Len(g) + 1
  BY <1>1 DEF Carried
<1>5. \A k \in 1 .. Len(h) : h[k] = k
  <2> SUFFICES ASSUME NEW k \in 1 .. Len(h) PROVE h[k] = k
    OBVIOUS
  <2>1. CASE k \in 1 .. Len(g)
    BY <1>3, <2>1 DEF Carried
  <2>2. CASE k = Len(g) + 1
    BY <1>2, <1>3, <1>4, <2>2
  <2>3. QED
    BY <1>1, <1>3, <2>1, <2>2
<1>6. \A k \in 1 .. Len(t) : t[k] = Len(h) + k
  <2> SUFFICES ASSUME NEW k \in 1 .. Len(t) PROVE t[k] = Len(h) + k
    OBVIOUS
  <2>1. k + 1 \in 1 .. Len(s)
    BY <1>1, <1>2
  <2>2. s[k + 1] = Len(g) + (k + 1)
    BY <2>1 DEF Carried
  <2>3. QED
    BY <1>1, <1>2, <1>3, <2>2
<1>7. Len(h) + Len(t) = p
  <2>1. Len(g) + Len(s) = p
    BY DEF Carried
  <2>2. PICK a, b : a = Len(g) /\ b = Len(s)
    OBVIOUS
  <2>3. a \in Int /\ b \in Int /\ a + b = p
    BY <1>1, <2>1, <2>2
  <2>4. (a + 1) + (b - 1) = a + b
    BY <2>3
  <2>5. Len(h) = a + 1 /\ Len(t) = b - 1
    BY <1>2, <1>3, <2>2
  <2>6. QED
    BY <2>3, <2>4, <2>5
<1>8. QED
  BY <1>2, <1>3, <1>5, <1>6, <1>7 DEF Carried, h, t

(* Who has taken Max integers has the stream, and left nothing. *)
LEMMA AllCarried ==
    ASSUME NEW g \in Seq(Nat), NEW s \in Seq(Nat), NEW p \in 0 .. Max, Carried(g, s, p),
           Len(g) = Max
    PROVE  g = Stream /\ s = << >> /\ p = Max
<1>1. Len(s) \in Nat /\ Max \in Nat
  BY LenProperties
<1>2. Len(s) = 0 /\ p = Max
  BY <1>1 DEF Carried
<1>3. s = << >>
  BY <1>2, EmptySeq
<1>4. g \in [1 .. Max -> Nat]
  BY LenProperties
<1>5. g = [k \in 1 .. Max |-> k]
  BY <1>4 DEF Carried
<1>6. QED
  BY <1>2, <1>3, <1>5 DEF Stream

------------------------------------------------------------------------------
(* The inductive invariant. *)

Early == {"create", "refused", "truncate", "format", "attach", "connect"}
Attached == {"connect", "send_max", "send_name", "take", "recv", "disconnect"}
Late == {"disconnect", "destroy", "unlink", "done"}
Busy == {"recv_max", "recv_name", "connect", "put", "send"}

Types ==
    /\ name \in Clients \cup {None}
    /\ obj \in [Clients -> {"none", "empty", "sized", "ready", "destroyed"}]
    /\ q \in [Clients -> Seq(Nat)] /\ got \in [Clients -> Seq(Nat)]
    /\ cmap \in [Clients -> Clients \cup {None}]
    /\ cpc \in [Clients -> {"create"} \cup Holding \cup Ended]
    /\ mail \in [Clients -> Seq({"max", "name"})]
    /\ over \in [Clients -> BOOLEAN]
    /\ spc \in Busy \cup {"accept", "exited"}
    /\ conn \in Clients \cup {None}
    /\ max \in {0, Max} /\ fname \in BOOLEAN /\ i \in 0 .. Max

(* The name belongs to the one client between Create and Unlink, or to one *)
(* that died there; only that client has its object mapped.                *)
Naming ==
    /\ \A c \in Clients : cpc[c] \in Holding => name = c
    /\ name # None => cpc[name] \in Holding \cup {"dead"}
    /\ \A c \in Clients : cmap[c] = IF cpc[c] \in Attached THEN c ELSE None
    /\ \A c \in Clients : /\ cpc[c] = "format" => obj[c] = "sized"
                          /\ cpc[c] \in {"attach", "connect"} => obj[c] = "ready"

(* At most one connection waits or is served, that of the owner of the     *)
(* name, from its Connect to its end message.                              *)
Connection ==
    /\ backlog # << >> => name # None /\ backlog = << name >> /\ spc = "accept"
    /\ conn # None => conn = name
    /\ conn # None <=> spc \in Busy
    /\ \A c \in Clients :
          /\ cpc[c] \in Early => conn # c /\ backlog # << c >> /\ ~over[c]
          /\ conn = c \/ backlog = << c >> => obj[c] = "ready" /\ ~over[c]
          /\ cpc[c] \in Late => over[c]

(* What the server has in its locals, and that it had all of it before it  *)
(* served anybody.                                                         *)
Locals ==
    /\ fname => max = Max
    /\ spc = "recv_name" /\ max # Max => mail[conn] = << >> /\ cpc[conn] = "dead"
    /\ spc = "put" => fname
    /\ spc = "send" => fname
    /\ smap = IF spc = "put" THEN conn ELSE None
    /\ \A c \in Clients : over[c] => fname

(* How many integers have been put for c. *)
PutFor(c) == IF over[c] \/ (conn = c /\ spc = "send") THEN Max
             ELSE IF conn = c /\ spc = "put" THEN i ELSE 0

StreamTo(c) ==
    /\ Carried(got[c], q[c], PutFor(c))
    /\ Len(q[c]) <= Capacity
    /\ cpc[c] \in Early \cup {"send_max", "send_name"} => Len(got[c]) = 0
    /\ cpc[c] = "take" => Len(got[c]) < Max
    /\ cpc[c] \in Late \cup {"recv"} => Len(got[c]) = Max
    /\ Len(got[c]) <= Max

Streaming == \A c \in Clients : StreamTo(c)

Inv == Types /\ Naming /\ Connection /\ Locals /\ Streaming

(* Facts about the one connection that may wait. *)
LEMMA Singleton ==
    ASSUME NEW a
    PROVE  /\ Append(<< >>, a) = << a >> /\ Head(<< a >>) = a /\ Tail(<< a >>) = << >>
           /\ << a >> # << >> /\ \A b : << a >> = << b >> => a = b
  OBVIOUS

LEMMA PutForInt == Types => \A c \in Clients : PutFor(c) \in 0 .. Max
  BY DEF Types, PutFor

(* A take by c, from its own queue. *)
LEMMA TakeStep ==
    ASSUME Inv, NEW c \in Clients, Take(c)
    PROVE  /\ q' = [q EXCEPT ![c] = Tail(q[c])] /\ q'[c] \in Seq(Nat)
           /\ got' = [got EXCEPT ![c] = Append(got[c], Head(q[c]))] /\ got'[c] \in Seq(Nat)
           /\ Len(got'[c]) = Len(got[c]) + 1 /\ Len(q'[c]) = Len(q[c]) - 1
           /\ Carried(got'[c], q'[c], PutFor(c))
           /\ cpc' = [cpc EXCEPT ![c] = IF Len(got[c]) + 1 < Max THEN "take" ELSE "recv"]
<1>1. cmap[c] = c
  BY DEF Inv, Naming, Take, At, Attached
<1>2. q[c] # << >> /\ q[c] \in Seq(Nat) /\ got[c] \in Seq(Nat)
  BY <1>1 DEF Inv, Types, Take
<1>3. PutFor(c) \in Nat
  BY PutForInt DEF Inv
<1>4. Carried(got[c], q[c], PutFor(c))
  BY DEF Inv, Streaming, StreamTo
<1>5. /\ Append(got[c], Head(q[c])) \in Seq(Nat) /\ Tail(q[c]) \in Seq(Nat)
      /\ Len(Append(got[c], Head(q[c]))) = Len(got[c]) + 1 /\ Len(Tail(q[c])) = Len(q[c]) - 1
      /\ Carried(Append(got[c], Head(q[c])), Tail(q[c]), PutFor(c))
  BY <1>2, <1>3, <1>4, TakeCarries
<1>6. /\ q' = [q EXCEPT ![c] = Tail(q[c])]
      /\ got' = [got EXCEPT ![c] = Append(got[c], Head(q[c]))]
  BY <1>1 DEF Take
<1>7. q'[c] = Tail(q[c]) /\ got'[c] = Append(got[c], Head(q[c]))
  BY <1>6 DEF Inv, Types
<1>8. QED
  BY <1>5, <1>6, <1>7 DEF Take, Goto

(* A put, into the queue of the client that is served. *)
LEMMA PutStep ==
    ASSUME Inv, ServerPut
    PROVE  /\ conn \in Clients /\ conn = name /\ smap = conn
           /\ i \in 0 .. Max - 1 /\ i' = i + 1
           /\ q' = [q EXCEPT ![conn] = Append(q[conn], i + 1)] /\ q'[conn] \in Seq(Nat)
           /\ Len(q'[conn]) <= Capacity
           /\ Carried(got[conn], q'[conn], i + 1)
<1>1. conn \in Clients /\ conn = name /\ smap = conn /\ ~over[conn]
  BY DEF Inv, Types, Connection, Locals, ServerPut, Busy
<1>2. i \in 0 .. Max - 1 /\ i' = i + 1
  BY DEF Inv, Types, Locals, ServerPut
<1>3. /\ q[conn] \in Seq(Nat) /\ got[conn] \in Seq(Nat)
      /\ Len(q[conn]) < Capacity
  BY <1>1 DEF Inv, Types, ServerPut
<1>4. Carried(got[conn], q[conn], i)
  BY <1>1 DEF Inv, Streaming, StreamTo, PutFor, ServerPut
<1>5. /\ Append(q[conn], i + 1) \in Seq(Nat)
      /\ Len(Append(q[conn], i + 1)) = Len(q[conn]) + 1
      /\ Carried(got[conn], Append(q[conn], i + 1), i + 1)
  BY <1>2, <1>3, <1>4, PutCarries
<1>6. q' = [q EXCEPT ![conn] = Append(q[conn], i + 1)]
  BY <1>1 DEF ServerPut
<1>7. q'[conn] = Append(q[conn], i + 1)
  BY <1>1, <1>6 DEF Inv, Types
<1>8. Len(q[conn]) + 1 <= Capacity
  BY <1>3, LenProperties
<1>9. QED
  BY <1>1, <1>2, <1>5, <1>6, <1>7, <1>8

(* The server takes a message from a connection. *)
LEMMA ReceivedType ==
    ASSUME Types, conn \in Clients, Received
    PROVE  mail' \in [Clients -> Seq({"max", "name"})]
<1>1. ASSUME mail[conn] # << >> PROVE Tail(mail[conn]) \in Seq({"max", "name"})
  BY <1>1, HeadTailProperties DEF Types
<1>2. QED
  BY <1>1 DEF Types, Received, Arrived

LEMMA TypesInductive == Inv /\ [Next]_vars => Types'
<1> SUFFICES ASSUME Inv, [Next]_vars PROVE Types'
  OBVIOUS
<1> USE DEF Inv, Types, Holding, Ended, Busy, At, Goto, objects, client, tcp, server
<1>1. ASSUME NEW c \in Clients, Create(c) PROVE Types'
  BY <1>1 DEF Create
<1>2. ASSUME NEW c \in Clients, CreateRefused(c) PROVE Types'
  BY <1>2 DEF CreateRefused
<1>3. ASSUME NEW c \in Clients, Truncate(c) PROVE Types'
  BY <1>3 DEF Truncate
<1>4. ASSUME NEW c \in Clients, Format(c) PROVE Types'
  BY <1>4 DEF Format
<1>5. ASSUME NEW c \in Clients, Attach(c) PROVE Types'
  BY <1>5 DEF Attach
<1>6. ASSUME NEW c \in Clients, Connect(c) PROVE Types'
  BY <1>6 DEF Connect
<1>7. ASSUME NEW c \in Clients, SendMax(c) PROVE Types'
  BY <1>7 DEF SendMax
<1>8. ASSUME NEW c \in Clients, SendName(c) PROVE Types'
  BY <1>8 DEF SendName
<1>9. ASSUME NEW c \in Clients, Take(c) PROVE Types'
  <2>1. q' \in [Clients -> Seq(Nat)] /\ got' \in [Clients -> Seq(Nat)]
    BY <1>9, TakeStep
  <2>2. QED
    BY <1>9, <2>1 DEF Take
<1>10. ASSUME NEW c \in Clients, RecvEnd(c) PROVE Types'
  BY <1>10 DEF RecvEnd
<1>11. ASSUME NEW c \in Clients, Disconnect(c) PROVE Types'
  BY <1>11 DEF Disconnect
<1>12. ASSUME NEW c \in Clients, Destroy(c) PROVE Types'
  BY <1>12 DEF Destroy
<1>13. ASSUME NEW c \in Clients, Unlink(c) PROVE Types'
  BY <1>13 DEF Unlink
<1>14. ASSUME NEW c \in Clients, Die(c) PROVE Types'
  BY <1>14 DEF Die
<1>15. CASE Accept
  <2>1. Head(backlog) \in Clients
    BY <1>15, Singleton DEF Accept, Connection
  <2>2. QED
    BY <1>15, <2>1 DEF Accept
<1>16. CASE AcceptFails
  BY <1>16 DEF AcceptFails
<1>17. CASE ServerRecvMax
  BY <1>17, ReceivedType DEF ServerRecvMax, Connection
<1>18. CASE ServerRecvName
  BY <1>18, ReceivedType DEF ServerRecvName, Connection
<1>19. CASE ServerConnect
  BY <1>19 DEF ServerConnect, CanMap
<1>20. CASE ServerExits
  BY <1>20 DEF ServerExits, CanMap
<1>21. CASE ServerPut
  <2>1. q' \in [Clients -> Seq(Nat)]
    BY <1>21, PutStep
  <2>2. i' \in 0 .. Max
    BY <1>21, PutStep
  <2>3. QED
    BY <1>21, <2>1, <2>2 DEF ServerPut
<1>22. CASE ServerDisconnect
  BY <1>22 DEF ServerDisconnect
<1>23. CASE ServerSendEnd
  BY <1>23 DEF ServerSendEnd
<1>24. CASE UNCHANGED vars
  BY <1>24 DEF vars
<1>25. QED
  BY <1>1, <1>2, <1>3, <1>4, <1>5, <1>6, <1>7, <1>8, <1>9, <1>10, <1>11, <1>12,
     <1>13, <1>14, <1>15, <1>16, <1>17, <1>18, <1>19, <1>20, <1>21, <1>22, <1>23, <1>24
     DEF Next, Client, Server

LEMMA NamingInductive == Inv /\ [Next]_vars => Naming'
<1> SUFFICES ASSUME Inv, [Next]_vars PROVE Naming'
  OBVIOUS
<1> USE DEF Inv, Types, Naming, Connection, Holding, Ended, Attached, Early, Late, At, Goto, objects, client, tcp, server
<1>1. ASSUME NEW c \in Clients, Create(c) PROVE Naming'
  BY <1>1 DEF Create
<1>2. ASSUME NEW c \in Clients, CreateRefused(c) PROVE Naming'
  BY <1>2 DEF CreateRefused
<1>3. ASSUME NEW c \in Clients, Truncate(c) PROVE Naming'
  BY <1>3 DEF Truncate
<1>4. ASSUME NEW c \in Clients, Format(c) PROVE Naming'
  BY <1>4 DEF Format
<1>5. ASSUME NEW c \in Clients, Attach(c) PROVE Naming'
  BY <1>5 DEF Attach
<1>6. ASSUME NEW c \in Clients, Connect(c) PROVE Naming'
  BY <1>6 DEF Connect
<1>7. ASSUME NEW c \in Clients, SendMax(c) PROVE Naming'
  BY <1>7 DEF SendMax
<1>8. ASSUME NEW c \in Clients, SendName(c) PROVE Naming'
  BY <1>8 DEF SendName
<1>9. ASSUME NEW c \in Clients, Take(c) PROVE Naming'
  BY <1>9 DEF Take
<1>10. ASSUME NEW c \in Clients, RecvEnd(c) PROVE Naming'
  BY <1>10 DEF RecvEnd
<1>11. ASSUME NEW c \in Clients, Disconnect(c) PROVE Naming'
  BY <1>11 DEF Disconnect
<1>12. ASSUME NEW c \in Clients, Destroy(c) PROVE Naming'
  BY <1>12 DEF Destroy
<1>13. ASSUME NEW c \in Clients, Unlink(c) PROVE Naming'
  BY <1>13 DEF Unlink
<1>14. ASSUME NEW c \in Clients, Die(c) PROVE Naming'
  BY <1>14 DEF Die
<1>15. CASE Accept
  BY <1>15 DEF Accept
<1>16. CASE AcceptFails
  BY <1>16 DEF AcceptFails
<1>17. CASE ServerRecvMax
  BY <1>17 DEF ServerRecvMax, Arrived, Gone, Received
<1>18. CASE ServerRecvName
  BY <1>18 DEF ServerRecvName, Arrived, Gone, Received
<1>19. CASE ServerConnect
  BY <1>19 DEF ServerConnect, CanMap
<1>20. CASE ServerExits
  BY <1>20 DEF ServerExits, CanMap
<1>21. CASE ServerPut
  BY <1>21 DEF ServerPut
<1>22. CASE ServerDisconnect
  BY <1>22 DEF ServerDisconnect
<1>23. CASE ServerSendEnd
  BY <1>23 DEF ServerSendEnd
<1>24. CASE UNCHANGED vars
  BY <1>24 DEF vars
<1>25. QED
  BY <1>1, <1>2, <1>3, <1>4, <1>5, <1>6, <1>7, <1>8, <1>9, <1>10, <1>11, <1>12,
     <1>13, <1>14, <1>15, <1>16, <1>17, <1>18, <1>19, <1>20, <1>21, <1>22, <1>23, <1>24
     DEF Next, Client, Server

LEMMA ConnectionInductive == Inv /\ [Next]_vars => Connection'
<1> SUFFICES ASSUME Inv, [Next]_vars PROVE Connection'
  OBVIOUS
<1> USE DEF Inv, Types, Naming, Connection, Holding, Ended, Early, Late, Busy, At, Goto, objects, client, tcp, server
<1>1. ASSUME NEW c \in Clients, Create(c) PROVE Connection'
  BY <1>1 DEF Create
<1>2. ASSUME NEW c \in Clients, CreateRefused(c) PROVE Connection'
  BY <1>2 DEF CreateRefused
<1>3. ASSUME NEW c \in Clients, Truncate(c) PROVE Connection'
  BY <1>3 DEF Truncate
<1>4. ASSUME NEW c \in Clients, Format(c) PROVE Connection'
  BY <1>4 DEF Format
<1>5. ASSUME NEW c \in Clients, Attach(c) PROVE Connection'
  BY <1>5 DEF Attach
<1>6. ASSUME NEW c \in Clients, Connect(c) PROVE Connection'
  <2>1. backlog = << >> /\ backlog' = << c >> /\ conn = None /\ spc = "accept" /\ name = c
    BY <1>6, Singleton DEF Connect
  <2>2. QED
    BY <1>6, <2>1, Singleton DEF Connect
<1>7. ASSUME NEW c \in Clients, SendMax(c) PROVE Connection'
  BY <1>7 DEF SendMax
<1>8. ASSUME NEW c \in Clients, SendName(c) PROVE Connection'
  BY <1>8 DEF SendName
<1>9. ASSUME NEW c \in Clients, Take(c) PROVE Connection'
  BY <1>9 DEF Take
<1>10. ASSUME NEW c \in Clients, RecvEnd(c) PROVE Connection'
  <2>1. PutFor(c) = Max
    BY <1>10, AllCarried, PutForInt DEF RecvEnd, Streaming, StreamTo
  <2>2. over[c]
    BY <1>10, <2>1 DEF RecvEnd, PutFor
  <2>3. QED
    BY <1>10, <2>2 DEF RecvEnd
<1>11. ASSUME NEW c \in Clients, Disconnect(c) PROVE Connection'
  BY <1>11 DEF Disconnect
<1>12. ASSUME NEW c \in Clients, Destroy(c) PROVE Connection'
  BY <1>12 DEF Destroy
<1>13. ASSUME NEW c \in Clients, Unlink(c) PROVE Connection'
  BY <1>13 DEF Unlink
<1>14. ASSUME NEW c \in Clients, Die(c) PROVE Connection'
  BY <1>14 DEF Die
<1>15. CASE Accept
  <2>1. backlog = << name >> /\ name \in Clients
    BY <1>15 DEF Accept
  <2>2. conn' = name /\ backlog' = << >>
    BY <1>15, <2>1, Singleton DEF Accept
  <2>3. QED
    BY <1>15, <2>1, <2>2, Singleton DEF Accept
<1>16. CASE AcceptFails
  BY <1>16 DEF AcceptFails
<1>17. CASE ServerRecvMax
  BY <1>17 DEF ServerRecvMax, Arrived, Gone, Received
<1>18. CASE ServerRecvName
  BY <1>18 DEF ServerRecvName, Arrived, Gone, Received
<1>19. CASE ServerConnect
  BY <1>19 DEF ServerConnect, CanMap
<1>20. CASE ServerExits
  BY <1>20 DEF ServerExits, CanMap
<1>21. CASE ServerPut
  BY <1>21 DEF ServerPut
<1>22. CASE ServerDisconnect
  BY <1>22 DEF ServerDisconnect
<1>23. CASE ServerSendEnd
  <2>1. backlog = << >> /\ conn \in Clients
    BY <1>23 DEF ServerSendEnd
  <2>2. QED
    BY <1>23, <2>1, Singleton DEF ServerSendEnd
<1>24. CASE UNCHANGED vars
  BY <1>24 DEF vars
<1>25. QED
  BY <1>1, <1>2, <1>3, <1>4, <1>5, <1>6, <1>7, <1>8, <1>9, <1>10, <1>11, <1>12,
     <1>13, <1>14, <1>15, <1>16, <1>17, <1>18, <1>19, <1>20, <1>21, <1>22, <1>23, <1>24
     DEF Next, Client, Server

LEMMA LocalsInductive == Inv /\ [Next]_vars => Locals'
<1> SUFFICES ASSUME Inv, [Next]_vars PROVE Locals'
  OBVIOUS
<1> USE DEF Inv, Types, Naming, Connection, Locals, Holding, Ended, Early, Late, Busy, At, Goto, objects, client, tcp, server
<1>1. ASSUME NEW c \in Clients, Create(c) PROVE Locals'
  BY <1>1 DEF Create
<1>2. ASSUME NEW c \in Clients, CreateRefused(c) PROVE Locals'
  BY <1>2 DEF CreateRefused
<1>3. ASSUME NEW c \in Clients, Truncate(c) PROVE Locals'
  BY <1>3 DEF Truncate
<1>4. ASSUME NEW c \in Clients, Format(c) PROVE Locals'
  BY <1>4 DEF Format
<1>5. ASSUME NEW c \in Clients, Attach(c) PROVE Locals'
  BY <1>5 DEF Attach
<1>6. ASSUME NEW c \in Clients, Connect(c) PROVE Locals'
  BY <1>6 DEF Connect
<1>7. ASSUME NEW c \in Clients, SendMax(c) PROVE Locals'
  BY <1>7 DEF SendMax
<1>8. ASSUME NEW c \in Clients, SendName(c) PROVE Locals'
  BY <1>8 DEF SendName
<1>9. ASSUME NEW c \in Clients, Take(c) PROVE Locals'
  BY <1>9 DEF Take
<1>10. ASSUME NEW c \in Clients, RecvEnd(c) PROVE Locals'
  BY <1>10 DEF RecvEnd
<1>11. ASSUME NEW c \in Clients, Disconnect(c) PROVE Locals'
  BY <1>11 DEF Disconnect
<1>12. ASSUME NEW c \in Clients, Destroy(c) PROVE Locals'
  BY <1>12 DEF Destroy
<1>13. ASSUME NEW c \in Clients, Unlink(c) PROVE Locals'
  BY <1>13 DEF Unlink
<1>14. ASSUME NEW c \in Clients, Die(c) PROVE Locals'
  BY <1>14 DEF Die
<1>15. CASE Accept
  BY <1>15 DEF Accept
<1>16. CASE AcceptFails
  BY <1>16 DEF AcceptFails
<1>17. CASE ServerRecvMax
  BY <1>17 DEF ServerRecvMax, Arrived, Gone, Received
<1>18. CASE ServerRecvName
  <2>1. CASE Arrived
    <3>1. max = Max /\ max' = max
      BY <1>18, <2>1 DEF ServerRecvName, Arrived
    <3>2. fname' \in {fname, TRUE}
      BY <1>18, <2>1 DEF ServerRecvName, Gone, Arrived
    <3>3. fname => fname'
      BY <3>2, Zenon
    <3>4. QED
      BY <1>18, <3>1, <3>3 DEF ServerRecvName
  <2>2. CASE Gone
    BY <1>18, <2>2 DEF ServerRecvName, Arrived, Gone
  <2>3. QED
    BY <1>18, <2>1, <2>2 DEF ServerRecvName
<1>19. CASE ServerConnect
  BY <1>19 DEF ServerConnect, CanMap
<1>20. CASE ServerExits
  BY <1>20 DEF ServerExits, CanMap
<1>21. CASE ServerPut
  BY <1>21 DEF ServerPut
<1>22. CASE ServerDisconnect
  BY <1>22 DEF ServerDisconnect
<1>23. CASE ServerSendEnd
  BY <1>23 DEF ServerSendEnd
<1>24. CASE UNCHANGED vars
  BY <1>24 DEF vars
<1>25. QED
  BY <1>1, <1>2, <1>3, <1>4, <1>5, <1>6, <1>7, <1>8, <1>9, <1>10, <1>11, <1>12,
     <1>13, <1>14, <1>15, <1>16, <1>17, <1>18, <1>19, <1>20, <1>21, <1>22, <1>23, <1>24
     DEF Next, Client, Server

LEMMA StreamingInductive == Inv /\ [Next]_vars => Streaming'
<1> SUFFICES ASSUME Inv, [Next]_vars PROVE Streaming'
  OBVIOUS
<1> USE DEF Inv, Types, Naming, Connection, Locals, Streaming, StreamTo, PutFor, Holding, Ended, Early, Late, Busy, Attached, At, Goto, objects, client, tcp, server
<1>1. ASSUME NEW c \in Clients, Create(c) PROVE Streaming'
  BY <1>1 DEF Create
<1>2. ASSUME NEW c \in Clients, CreateRefused(c) PROVE Streaming'
  BY <1>2 DEF CreateRefused
<1>3. ASSUME NEW c \in Clients, Truncate(c) PROVE Streaming'
  BY <1>3 DEF Truncate
<1>4. ASSUME NEW c \in Clients, Format(c) PROVE Streaming'
  BY <1>4 DEF Format
<1>5. ASSUME NEW c \in Clients, Attach(c) PROVE Streaming'
  BY <1>5 DEF Attach
<1>6. ASSUME NEW c \in Clients, Connect(c) PROVE Streaming'
  BY <1>6, SMTT(20) DEF Connect
<1>7. ASSUME NEW c \in Clients, SendMax(c) PROVE Streaming'
  BY <1>7 DEF SendMax
<1>8. ASSUME NEW c \in Clients, SendName(c) PROVE Streaming'
  BY <1>8 DEF SendName
<1>9. ASSUME NEW c \in Clients, Take(c) PROVE Streaming'
  <2>1. \A d \in Clients : PutFor(d)' = PutFor(d)
    BY <1>9 DEF Take
  <2> HIDE DEF PutFor
  <2>2. ASSUME NEW d \in Clients, d # c PROVE got'[d] = got[d] /\ q'[d] = q[d] /\ cpc'[d] = cpc[d]
    BY <1>9, <2>2, TakeStep, SMTT(20)
  <2>3. Len(q[c]) \in Nat /\ Len(got[c]) \in Nat /\ cpc[c] = "take"
    BY <1>9, LenProperties DEF Take
  <2>4. /\ Carried(got'[c], q'[c], PutFor(c)')
        /\ Len(got'[c]) = Len(got[c]) + 1 /\ Len(q'[c]) = Len(q[c]) - 1
        /\ cpc'[c] = IF Len(got[c]) + 1 < Max THEN "take" ELSE "recv"
    <3>1. cpc'[c] = IF Len(got[c]) + 1 < Max THEN "take" ELSE "recv"
      BY <1>9 DEF Take
    <3>2. QED
      BY <1>9, <2>1, <3>1, TakeStep
  <2>5. /\ Len(q'[c]) <= Capacity
        /\ cpc'[c] \in {"take", "recv"}
        /\ cpc'[c] = "take" => Len(got'[c]) < Max
        /\ cpc'[c] = "recv" => Len(got'[c]) = Max
        /\ Len(got'[c]) <= Max
    BY <2>3, <2>4
  <2>6. ASSUME NEW d \in Clients, d # c
        PROVE  StreamTo(d)'
    BY <2>1, <2>2, <2>6
  <2>7. StreamTo(c)'
    BY <2>4, <2>5
  <2> HIDE DEF StreamTo
  <2>8. QED
    BY <2>6, <2>7
<1>10. ASSUME NEW c \in Clients, RecvEnd(c) PROVE Streaming'
  BY <1>10 DEF RecvEnd
<1>11. ASSUME NEW c \in Clients, Disconnect(c) PROVE Streaming'
  BY <1>11 DEF Disconnect
<1>12. ASSUME NEW c \in Clients, Destroy(c) PROVE Streaming'
  BY <1>12 DEF Destroy
<1>13. ASSUME NEW c \in Clients, Unlink(c) PROVE Streaming'
  BY <1>13 DEF Unlink
<1>14. ASSUME NEW c \in Clients, Die(c) PROVE Streaming'
  BY <1>14 DEF Die
<1>15. CASE Accept
  BY <1>15 DEF Accept
<1>16. CASE AcceptFails
  BY <1>16 DEF AcceptFails
<1>17. CASE ServerRecvMax
  BY <1>17 DEF ServerRecvMax, Arrived, Gone, Received
<1>18. CASE ServerRecvName
  BY <1>18 DEF ServerRecvName, Arrived, Gone, Received
<1>19. CASE ServerConnect
  BY <1>19 DEF ServerConnect, CanMap
<1>20. CASE ServerExits
  BY <1>20 DEF ServerExits, CanMap
<1>21. CASE ServerPut
  <2>1. PutFor(conn)' = i + 1
    BY <1>21, PutStep DEF ServerPut
  <2>2. ASSUME NEW d \in Clients, d # conn PROVE PutFor(d)' = PutFor(d) /\ q'[d] = q[d]
    BY <1>21, <2>2, PutStep DEF ServerPut
  <2>3. QED
    BY <1>21, <2>1, <2>2, PutStep DEF ServerPut
<1>22. CASE ServerDisconnect
  BY <1>22 DEF ServerDisconnect
<1>23. CASE ServerSendEnd
  BY <1>23 DEF ServerSendEnd
<1>24. CASE UNCHANGED vars
  BY <1>24 DEF vars
<1>25. QED
  BY <1>1, <1>2, <1>3, <1>4, <1>5, <1>6, <1>7, <1>8, <1>9, <1>10, <1>11, <1>12,
     <1>13, <1>14, <1>15, <1>16, <1>17, <1>18, <1>19, <1>20, <1>21, <1>22, <1>23, <1>24
     DEF Next, Client, Server

LEMMA InitInv == Init => Inv
<1> SUFFICES ASSUME Init PROVE Inv
  OBVIOUS
<1>1. << >> \in Seq(Nat) /\ << >> \in Seq({"max", "name"}) /\ Len(<< >>) = 0
  BY EmptySeq
<1>2. Types
  <2>1. /\ q \in [Clients -> Seq(Nat)] /\ got \in [Clients -> Seq(Nat)]
        /\ mail \in [Clients -> Seq({"max", "name"})]
    BY <1>1 DEF Init
  <2>2. over \in [Clients -> BOOLEAN] /\ fname \in BOOLEAN
    BY DEF Init
  <2>3. /\ obj \in [Clients -> {"none", "empty", "sized", "ready", "destroyed"}]
        /\ cmap \in [Clients -> Clients \cup {None}]
        /\ cpc \in [Clients -> {"create"} \cup Holding \cup Ended]
    BY DEF Init
  <2>4. QED
    BY <2>1, <2>2, <2>3 DEF Init, Types
<1>3. Naming /\ Locals
  BY DEF Init, Naming, Locals, Holding, Attached
<1>4. Connection
  BY Singleton DEF Init, Connection, Busy, Late
<1>5. \A c \in Clients : PutFor(c) = 0
  BY DEF Init, PutFor
<1>6. Streaming
  <2> SUFFICES ASSUME NEW c \in Clients PROVE StreamTo(c)
    BY DEF Streaming
  <2>1. got[c] = << >> /\ q[c] = << >> /\ cpc[c] = "create"
    BY DEF Init
  <2>2. Carried(got[c], q[c], PutFor(c))
    BY <1>5, <2>1, CarriedNone
  <2>3. QED
    BY <1>1, <2>1, <2>2 DEF StreamTo, Early, Late
<1>7. QED
  BY <1>2, <1>3, <1>4, <1>6 DEF Inv

LEMMA Invariant == Spec => []Inv
<1>1. Inv /\ [Next]_vars => Inv'
  BY TypesInductive, NamingInductive, ConnectionInductive, LocalsInductive,
     StreamingInductive DEF Inv
<1>2. QED
  BY <1>1, InitInv, PTL DEF Spec

------------------------------------------------------------------------------
(* The queue never holds more than its capacity, and the server counts to  *)
(* no max and looks up no name but one it has received.                    *)
THEOREM TypeCorrect == Spec => []TypeOK
<1>1. Inv => TypeOK
  <2> SUFFICES ASSUME Inv PROVE TypeOK
    OBVIOUS
  <2>1. \A c \in Clients : Len(q[c]) <= Capacity /\ Len(got[c]) <= Max
    BY DEF Inv, Streaming, StreamTo
  <2>2. smap \in Clients \cup {None} /\ (spc = "put" => fname /\ max = Max)
    BY DEF Inv, Types, Locals
  <2>3. QED
    BY <2>1, <2>2 DEF Inv, Types, TypeOK, Busy
<1>2. QED
  BY <1>1, Invariant, PTL

(***************************************************************************)
(* SHM_FNAME has one owner from shm_open with O_EXCL to shm_unlink, and    *)
(* the server always maps the formatted object of the client it talks to,  *)
(* however many clients run and die.                                       *)
(***************************************************************************)
THEOREM OwnNameCorrect == Spec => []OwnName
<1>1. Inv => OwnName
  BY DEF Inv, Types, Naming, Connection, Locals, OwnName, Busy
<1>2. QED
  BY <1>1, Invariant, PTL

(***************************************************************************)
(* When a client destroys its queue nobody has it mapped, it is empty, and *)
(* the client has taken the whole stream in order.                         *)
(***************************************************************************)
THEOREM DestroyedCorrect == Spec => []DestroyedAfterUse
<1>1. Inv => DestroyedAfterUse
  <2> SUFFICES ASSUME Inv, NEW c \in Clients, cpc[c] \in {"destroy", "unlink", "done"}
               PROVE  /\ smap # c /\ \A d \in Clients : cmap[d] # c
                      /\ q[c] = << >> /\ got[c] = Stream
    BY DEF DestroyedAfterUse
  <2>1. over[c] /\ smap # c
    BY DEF Inv, Connection, Locals, Late
  <2>2. \A d \in Clients : cmap[d] # c
    BY DEF Inv, Naming, Attached
  <2>3. Carried(got[c], q[c], PutFor(c)) /\ Len(got[c]) = Max
    BY DEF Inv, Streaming, StreamTo, Late
  <2>4. PutFor(c) \in 0 .. Max /\ got[c] \in Seq(Nat) /\ q[c] \in Seq(Nat)
    BY PutForInt DEF Inv, Types
  <2>5. QED
    BY <2>1, <2>2, <2>3, <2>4, AllCarried
<1>2. QED
  BY <1>1, Invariant, PTL

(***************************************************************************)
(* The server exits in the service of no client after the first: the first *)
(* end message is sent with max and shm_fname filled, and they stay so.    *)
(***************************************************************************)
THEOREM SurvivesCorrect == Spec => ServerSurvives
<1>1. ASSUME Inv, [Next]_vars, spc # "exited", spc' = "exited"
      PROVE  \A c \in Clients : ~over[c]
  <2>1. CASE AcceptFails
    BY <1>1, <2>1 DEF AcceptFails, Inv, Locals
  <2>2. CASE ServerExits
    <3>1. name \in Clients /\ obj[name] = "ready"
      BY <1>1, <2>2 DEF ServerExits, Inv, Types, Connection, Busy
    <3>2. ~fname
      BY <2>2, <3>1 DEF ServerExits, CanMap
    <3>3. QED
      BY <1>1, <3>2 DEF Inv, Locals
  <2>3. AcceptFails \/ ServerExits
    BY <1>1 DEF Next, Client, Server, Die, Create, CreateRefused, Truncate, Format, Attach,
       Connect, SendMax, SendName, Take, RecvEnd, Disconnect, Destroy, Unlink,
       Accept, ServerRecvMax, ServerRecvName, ServerConnect, ServerPut, ServerDisconnect,
       ServerSendEnd, vars, server
  <2>4. QED
    BY <2>1, <2>2, <2>3
<1>2. QED
  BY <1>1, Invariant, PTL DEF Spec, ServerSurvives
=============================================================================
