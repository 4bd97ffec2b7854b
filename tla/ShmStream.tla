----------------------------- MODULE ShmStream -----------------------------
(***************************************************************************)
(* client.c and server.c around the shared-memory queue: a client creates  *)
(* the queue under the one name SHM_FNAME, tells the server over TCP how   *)
(* many integers it wants and where, takes them, waits for the end message *)
(* and destroys the queue.                                                 *)
(*                                                                         *)
(* A client is one run of the program; several may run, one after another  *)
(* or at once.  It may die at any point, which is also what exit_err_on    *)
(* does, and a SIGPIPE.  A put or a take is one step here: BlockingQueue   *)
(* shows that the queue is first-in first-out whatever happens inside.     *)
(***************************************************************************)
EXTENDS Integers, Sequences

CONSTANTS Clients,   \* runs of client.c
          Max,       \* max: integers the client asks for
          Capacity,  \* slots of the queue
          None       \* no client

ASSUME StreamAssumption == /\ Max \in Nat \ {0}
                           /\ Capacity \in Nat \ {0}
                           /\ None \notin Clients

VARIABLES name,     \* the client whose object SHM_FNAME refers to, or None
          obj,      \* obj[c]: the object c has created: none, empty, sized, ready, destroyed
          q,        \* q[c]: what is in the queue of that object
          cmap,     \* cmap[c]: the object c has mapped, or None
          cpc,      \* cpc[c]: where c is in main of client.c
          got,      \* got[c]: the integers c has taken
          backlog,  \* connections the server has yet to accept
          mail,     \* mail[c]: what c has sent and the server not received
          over,     \* over[c]: the server has sent the end message to c
          spc,      \* where the server is in its loop
          conn,     \* the client whose connection it has accepted
          max,      \* its local max: 0 stands for not initialised
          fname,    \* its local shm_fname is the name, or not (yet)
          smap,     \* the object it has mapped, or None
          i         \* integers it has put

objects == <<name, obj, q>>
client == <<cmap, cpc, got>>
tcp == <<backlog, mail, over>>
server == <<spc, conn, max, fname, smap, i>>
vars == <<objects, client, tcp, server>>

(* The k-th integer of a stream is k. *)
Stream == [k \in 1 .. Max |-> k]

Init == /\ name = None
        /\ obj = [c \in Clients |-> "none"]
        /\ q = [c \in Clients |-> << >>]
        /\ cmap = [c \in Clients |-> None]
        /\ cpc = [c \in Clients |-> "create"]
        /\ got = [c \in Clients |-> << >>]
        /\ backlog = << >>
        /\ mail = [c \in Clients |-> << >>]
        /\ over = [c \in Clients |-> FALSE]
        /\ spc = "accept"
        /\ conn = None
        /\ max = 0
        /\ fname = FALSE
        /\ smap = None
        /\ i = 0

At(c, from) == cpc[c] = from
Goto(c, to) == cpc' = [cpc EXCEPT ![c] = to]

------------------------------------------------------------------------------
(* main of client.c: shm_blocking_queue_init, in the order the object changes. *)

(* Mutant of Create: without O_EXCL an object that exists is opened. *)
CreateAnyway(c) ==
    /\ At(c, "create")
    /\ name' = IF name = None THEN c ELSE name
    /\ obj' = [obj EXCEPT ![name'] = IF name = None THEN "empty" ELSE @]
    /\ Goto(c, "truncate")
    /\ UNCHANGED <<q, cmap, got, tcp, server>>

Create(c) ==
    /\ At(c, "create")
    /\ name = None
    /\ name' = c
    /\ obj' = [obj EXCEPT ![c] = "empty"]
    /\ Goto(c, "truncate")
    /\ UNCHANGED <<q, cmap, got, tcp, server>>

(* O_EXCL: the name is taken, the client exits. *)
CreateRefused(c) ==
    /\ At(c, "create")
    /\ name # None
    /\ Goto(c, "refused")
    /\ UNCHANGED <<objects, cmap, got, tcp, server>>

Truncate(c) ==
    /\ At(c, "truncate")
    /\ obj' = [obj EXCEPT ![c] = "sized"]
    /\ Goto(c, "format")
    /\ UNCHANGED <<name, q, cmap, got, tcp, server>>

Format(c) ==
    /\ At(c, "format")
    /\ obj' = [obj EXCEPT ![c] = "ready"]
    /\ Goto(c, "attach")
    /\ UNCHANGED <<name, q, cmap, got, tcp, server>>

(* shm_blocking_queue_connect, by name; OwnName says that it finds the object. *)
Attach(c) ==
    /\ At(c, "attach")
    /\ name # None
    /\ cmap' = [cmap EXCEPT ![c] = name]
    /\ Goto(c, "connect")
    /\ UNCHANGED <<objects, got, tcp, server>>

(* connect; without a server the send after it raises SIGPIPE. *)
Connect(c) ==
    /\ At(c, "connect")
    /\ spc # "exited"
    /\ backlog' = Append(backlog, c)
    /\ Goto(c, "send_max")
    /\ UNCHANGED <<objects, cmap, got, mail, over, server>>

SendMax(c) ==
    /\ At(c, "send_max")
    /\ mail' = [mail EXCEPT ![c] = Append(@, "max")]
    /\ Goto(c, "send_name")
    /\ UNCHANGED <<objects, cmap, got, backlog, over, server>>

SendName(c) ==
    /\ At(c, "send_name")
    /\ mail' = [mail EXCEPT ![c] = Append(@, "name")]
    /\ Goto(c, "take")
    /\ UNCHANGED <<objects, cmap, got, backlog, over, server>>

Take(c) ==
    /\ At(c, "take")
    /\ q[cmap[c]] # << >>
    /\ got' = [got EXCEPT ![c] = Append(@, Head(q[cmap[c]]))]
    /\ q' = [q EXCEPT ![cmap[c]] = Tail(@)]
    /\ Goto(c, IF Len(got[c]) + 1 < Max THEN "take" ELSE "recv")
    /\ UNCHANGED <<name, obj, cmap, tcp, server>>

(* Mutant of RecvEnd: the client does not wait for the end message. *)
RecvEndAtOnce(c) ==
    /\ At(c, "recv")
    /\ Goto(c, "disconnect")
    /\ UNCHANGED <<objects, cmap, got, tcp, server>>

(* recv returns with the end message or the end of the connection; close. *)
RecvEnd(c) ==
    /\ At(c, "recv")
    /\ over[c] \/ spc = "exited"
    /\ Goto(c, "disconnect")
    /\ UNCHANGED <<objects, cmap, got, tcp, server>>

Disconnect(c) ==
    /\ At(c, "disconnect")
    /\ cmap' = [cmap EXCEPT ![c] = None]
    /\ Goto(c, "destroy")
    /\ UNCHANGED <<objects, got, tcp, server>>

(* shm_blocking_queue_destroy: semaphores and mutexes, then the name. *)
Destroy(c) ==
    /\ At(c, "destroy")
    /\ name # None
    /\ obj' = [obj EXCEPT ![name] = "destroyed"]
    /\ Goto(c, "unlink")
    /\ UNCHANGED <<name, q, cmap, got, tcp, server>>

Unlink(c) ==
    /\ At(c, "unlink")
    /\ name' = None
    /\ Goto(c, "done")
    /\ UNCHANGED <<obj, q, cmap, got, tcp, server>>

Ended == {"refused", "dead", "done"}

(* A failing call, a signal, or the SIGPIPE of a send without a server.  What *)
(* the client has sent stays with the server, its object under the name.      *)
Die(c) ==
    /\ cpc[c] \notin Ended
    /\ cmap' = [cmap EXCEPT ![c] = None]
    /\ Goto(c, "dead")
    /\ UNCHANGED <<objects, got, tcp, server>>

Client(c) == \/ Create(c) \/ CreateRefused(c) \/ Truncate(c) \/ Format(c)
             \/ Attach(c) \/ Connect(c) \/ SendMax(c) \/ SendName(c)
             \/ Take(c) \/ RecvEnd(c) \/ Disconnect(c) \/ Destroy(c) \/ Unlink(c)

------------------------------------------------------------------------------
(* main of server.c *)

Accept ==
    /\ spc = "accept"
    /\ backlog # << >>
    /\ conn' = Head(backlog)
    /\ backlog' = Tail(backlog)
    /\ spc' = "recv_max"
    /\ UNCHANGED <<objects, client, mail, over, max, fname, smap, i>>

(* The first accept may reject the uninitialised clientlen.  The recvs and the *)
(* shm_open after it fail then, and the server exits.                          *)
AcceptFails ==
    /\ spc = "accept"
    /\ backlog # << >>
    /\ max = 0
    /\ spc' = "exited"
    /\ backlog' = << >>
    /\ UNCHANGED <<objects, client, mail, over, conn, max, fname, smap, i>>

(* What the client sent arrives, or it has died without: recv returns 0. *)
Arrived == mail[conn] # << >>
Gone == mail[conn] = << >> /\ cpc[conn] = "dead"

Received == mail' = [mail EXCEPT ![conn] = IF Arrived THEN Tail(@) ELSE @]

ServerRecvMax ==
    /\ spc = "recv_max"
    /\ \/ Arrived /\ max' = Max
       \/ Gone /\ UNCHANGED max
    /\ Received
    /\ spc' = "recv_name"
    /\ UNCHANGED <<objects, client, backlog, over, conn, fname, smap, i>>

(* The name comes without a terminator and perhaps in pieces: what was in  *)
(* the buffer follows it.  That is the name itself, once it was received.  *)
ServerRecvName ==
    /\ spc = "recv_name"
    /\ \/ Arrived /\ fname' \in {fname, TRUE}
       \/ Gone /\ UNCHANGED fname
    /\ Received
    /\ spc' = "connect"
    /\ UNCHANGED <<objects, client, backlog, over, conn, max, smap, i>>

CanMap == fname /\ name # None /\ obj[name] # "empty"

ServerConnect ==
    /\ spc = "connect"
    /\ CanMap
    /\ smap' = name
    /\ i' = 0
    /\ spc' = "put"
    /\ UNCHANGED <<objects, client, tcp, conn, max, fname>>

(* shm_open finds nothing under that name: exit_err_on. *)
ServerExits ==
    /\ spc = "connect"
    /\ ~CanMap
    /\ spc' = "exited"
    /\ conn' = None
    /\ backlog' = << >>
    /\ UNCHANGED <<objects, client, mail, over, max, fname, smap, i>>

ServerPut ==
    /\ spc = "put"
    /\ i < max
    /\ obj[smap] = "ready" /\ Len(q[smap]) < Capacity
    /\ q' = [q EXCEPT ![smap] = Append(@, i + 1)]
    /\ i' = i + 1
    /\ UNCHANGED <<name, obj, client, tcp, spc, conn, max, fname, smap>>

(* Mutant of ServerDisconnect: the loop ends one turn early. *)
ServerDisconnectOneLess ==
    /\ spc = "put"
    /\ i >= max - 1
    /\ smap' = None
    /\ spc' = "send"
    /\ UNCHANGED <<objects, client, tcp, conn, max, fname, i>>

ServerDisconnect ==
    /\ spc = "put"
    /\ i >= max
    /\ smap' = None
    /\ spc' = "send"
    /\ UNCHANGED <<objects, client, tcp, conn, max, fname, i>>

(* Mutant of ServerSendEnd: the name is cleared for the next connection. *)
ServerSendEndClears ==
    /\ spc = "send"
    /\ over' = [over EXCEPT ![conn] = TRUE]
    /\ conn' = None
    /\ fname' = FALSE
    /\ spc' = "accept"
    /\ UNCHANGED <<objects, client, backlog, mail, max, smap, i>>

(* send, close; the locals keep their values. *)
ServerSendEnd ==
    /\ spc = "send"
    /\ over' = [over EXCEPT ![conn] = TRUE]
    /\ conn' = None
    /\ spc' = "accept"
    /\ UNCHANGED <<objects, client, backlog, mail, max, fname, smap, i>>

Server == \/ Accept \/ AcceptFails \/ ServerRecvMax \/ ServerRecvName
          \/ ServerConnect \/ ServerExits
          \/ ServerPut \/ ServerDisconnect \/ ServerSendEnd

Next == \/ \E c \in Clients : Client(c) \/ Die(c)
        \/ Server

Spec == Init /\ [][Next]_vars

(* The scheduler runs the server and every client; nothing makes one die. *)
FairSpec == Spec /\ WF_vars(Server) /\ \A c \in Clients : WF_vars(Client(c))
------------------------------------------------------------------------------
(* Where a client is between the creation of its object and its end. *)
Holding == {"truncate", "format", "attach", "connect", "send_max", "send_name",
            "take", "recv", "disconnect", "destroy", "unlink"}

(* The queue holds at most Capacity integers, and the server never counts  *)
(* to a max, or looks up a name, that it has not received.                 *)
TypeOK == /\ name \in Clients \cup {None}
          /\ obj \in [Clients -> {"none", "empty", "sized", "ready", "destroyed"}]
          /\ \A c \in Clients : Len(q[c]) <= Capacity /\ Len(got[c]) <= Max
          /\ cmap \in [Clients -> Clients \cup {None}]
          /\ cpc \in [Clients -> {"create"} \cup Holding \cup Ended]
          /\ over \in [Clients -> BOOLEAN]
          /\ spc \in {"accept", "recv_max", "recv_name", "connect", "put", "send", "exited"}
          /\ conn \in Clients \cup {None}
          /\ smap \in Clients \cup {None}
          /\ fname \in BOOLEAN /\ max \in {0, Max} /\ i \in 0 .. Max
          /\ spc = "put" => fname /\ max = Max

(***************************************************************************)
(* O_EXCL and the order in client.c give the name one owner: a client that *)
(* has created its object finds it, and only it, under the name until it   *)
(* unlinks it; only a client that died keeps the name after its end.  The  *)
(* server, who looks the name up by itself, perhaps from an older message, *)
(* always maps the formatted object of the client it talks to.             *)
(***************************************************************************)
OwnName ==
    /\ \A c \in Clients : cpc[c] \in Holding => name = c
    /\ name # None => cpc[name] \in Holding \cup {"dead"}
    /\ spc = "put" => smap = conn /\ obj[conn] = "ready"

(***************************************************************************)
(* The end message orders the last put before the destruction: when a      *)
(* client destroys its queue, nobody has it mapped, nothing is left in it, *)
(* and the client has the whole stream, in order (so the two checksums     *)
(* agree).                                                                 *)
(***************************************************************************)
DestroyedAfterUse ==
    \A c \in Clients : cpc[c] \in {"destroy", "unlink", "done"} =>
        /\ smap # c /\ \A d \in Clients : cmap[d] # c
        /\ q[c] = << >>
        /\ got[c] = Stream

(***************************************************************************)
(* The server ends only before it has served anybody, when clientlen is    *)
(* rejected, when what lies behind the first name in the uninitialised     *)
(* shm_fname makes it another name, or when its client died before sending *)
(* one.  Later clients may die at any point: the name left in shm_fname is *)
(* theirs, and leads to an object that is still there.                     *)
(***************************************************************************)
ServerSurvives ==
    [][spc # "exited" /\ spc' = "exited" => \A c \in Clients : ~over[c]]_vars

(***************************************************************************)
(* A client that gets the name gets the stream and finishes, unless it     *)
(* dies itself or the server has exited: the deaths of other clients,      *)
(* however much they leave behind, do not keep it waiting.                 *)
(***************************************************************************)
Served ==
    \A c \in Clients : cpc[c] \in Holding ~> cpc[c] \in Ended \/ spc = "exited"
=============================================================================
