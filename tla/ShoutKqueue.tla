---------------------------- MODULE ShoutKqueue ----------------------------
(***************************************************************************)
(* The BSD event loop of the shout server: queue(), kq_change() and        *)
(* cleanup() of shout_server.c, over level-triggered kqueue filters.       *)
(*                                                                         *)
(* One step is one system call with the code that follows it up to the     *)
(* next one, as in ShoutEpoll.  The code looks for EV_EOF and EV_ERROR in  *)
(* fflags, where the kernel puts the error of the socket and neither bit   *)
(* can be set: its first branch is dead, and the end of a stream is left   *)
(* to recv and send.                                                       *)
(***************************************************************************)
EXTENDS ShoutSend

CONSTANTS MaxEvents,  \* MAX_EVENTS
          MaxFaults   \* bound: failures of accept, fcntl, calloc, kevent

ASSUME EventsAssumption == MaxEvents \in Nat \ {0} /\ MaxFaults \in Nat

VARIABLES kread,   \* kread[c]: EVFILT_READ of c is "none", "on" or "off"
          kwrite,  \* kwrite[c]: the same for EVFILT_WRITE
          evs,     \* events of the last kevent left to handle, current first
          pc,      \* "wait", "dispatch", "accept", "recv", "send", "change", "killed"
          chg,     \* the calls of kq_change that remain of a pair
          faults   \* failures so far

server == <<kread, kwrite, evs, pc, buf, snd, chg, faults, thrice>>
vars == <<sockets, server>>

(* queue(), up to the loop: the listeners are registered, nobody has connected. *)
Init == /\ SocketsInit
        /\ SendInit
        /\ kread = [c \in Conns |-> "none"]
        /\ kwrite = [c \in Conns |-> "none"]
        /\ evs = << >>
        /\ pc = "wait"
        /\ chg = << >>
        /\ faults = 0

------------------------------------------------------------------------------
(* kqueue, external: the enabled filters whose condition holds now. *)
Active ==
    {[item |-> l, filter |-> "READ"] : l \in {m \in Listeners : backlog[m] # << >>}}
    \cup {[item |-> c, filter |-> "READ"] :
             c \in {d \in Conns : kread[d] = "on" /\ (Unread(d) > 0 \/ fin[d] \/ rst[d])}}
    \cup {[item |-> c, filter |-> "WRITE"] :
             c \in {d \in Conns : kwrite[d] = "on" /\ (Space(d) >= LowWater \/ rst[d])}}

Client ==
    /\ \/ \E c \in Conns, l \in Listeners : Connect(c, l)
       \/ \E c \in Conns : ClientSend(c)
       \/ \E c \in Conns : ClientShutdown(c)
       \/ \E c \in Conns : ClientReset(c)
    /\ UNCHANGED server

Drain(c) == ClientDrain(c) /\ UNCHANGED server

(* kevent: as many active filters as fit, in any order. *)
KeventWait ==
    /\ pc = "wait"
    /\ Active # {}
    /\ \E B \in kSubset(Min({MaxEvents, Cardinality(Active)}), Active) :
          \E order \in SetToSeqs(B) : evs' = order
    /\ pc' = "dispatch"
    /\ UNCHANGED <<sockets, kread, kwrite, buf, snd, chg, faults, thrice>>

------------------------------------------------------------------------------
cur == Head(evs).item
filter == Head(evs).filter

NextEvent == /\ evs' = Tail(evs)
             /\ pc' = IF Len(evs) = 1 THEN "wait" ELSE "dispatch"

(* cleanup: both filters are deleted, the socket closed, the buffer freed. *)
Cleanup(c) == /\ st' = [st EXCEPT ![c] = "closed"]
              /\ kread' = [kread EXCEPT ![c] = "none"]
              /\ kwrite' = [kwrite EXCEPT ![c] = "none"]
              /\ buf' = [buf EXCEPT ![c] = << >>]
              /\ UNCHANGED <<backlog, nsent, nread, fin, rst, out, drained>>

(***************************************************************************)
(* The branches on the filter and on size.  There is no action for the     *)
(* last one, which ends the server: FiltersFollowSize says it is never     *)
(* reached.                                                                *)
(***************************************************************************)
DispatchListener ==
    /\ pc = "dispatch"
    /\ cur \in Listeners
    /\ pc' = "accept"
    /\ UNCHANGED <<sockets, kread, kwrite, evs, buf, snd, chg, faults, thrice>>

DispatchWrite ==
    /\ pc = "dispatch"
    /\ cur \in Conns
    /\ filter = "WRITE" /\ buf[cur] # << >>
    /\ pc' = "send"
    /\ CallSend(cur, "write", Len(buf[cur]))
    /\ UNCHANGED <<sockets, kread, kwrite, evs, buf, chg, faults, thrice>>

DispatchRead ==
    /\ pc = "dispatch"
    /\ cur \in Conns
    /\ filter = "READ" /\ buf[cur] = << >>
    /\ pc' = "recv"
    /\ UNCHANGED <<sockets, kread, kwrite, evs, buf, snd, chg, faults, thrice>>

------------------------------------------------------------------------------
Accept ==
    /\ pc = "accept"
    /\ backlog[cur] # << >>
    /\ LET c == Head(backlog[cur])
       IN  /\ st' = [st EXCEPT ![c] = "open"]
           /\ kread' = [kread EXCEPT ![c] = "on"]
    /\ backlog' = [backlog EXCEPT ![cur] = Tail(@)]
    /\ UNCHANGED <<nsent, nread, fin, rst, out, drained,
                   kwrite, evs, pc, buf, snd, chg, faults, thrice>>

AcceptEmpty ==
    /\ pc = "accept"
    /\ backlog[cur] = << >>
    /\ NextEvent
    /\ UNCHANGED <<sockets, kread, kwrite, buf, snd, chg, faults, thrice>>

(* Mutant of AcceptFails: a failing accept ends the server. *)
AcceptFailsEnds ==
    /\ pc = "accept"
    /\ backlog[cur] # << >>
    /\ faults < MaxFaults
    /\ faults' = faults + 1
    /\ evs' = << >> /\ pc' = "killed"
    /\ UNCHANGED <<sockets, kread, kwrite, buf, snd, chg, thrice>>

(* accept fails, or fcntl or kevent after it, or calloc, which leaves the  *)
(* connection open and watched by nobody.  The accept loop ends.           *)
AcceptFails ==
    /\ pc = "accept"
    /\ backlog[cur] # << >>
    /\ faults < MaxFaults
    /\ faults' = faults + 1
    /\ \/ UNCHANGED sockets
       \/ /\ \E fate \in {"closed", "leaked"} :
                st' = [st EXCEPT ![Head(backlog[cur])] = fate]
          /\ backlog' = [backlog EXCEPT ![cur] = Tail(@)]
          /\ UNCHANGED <<nsent, nread, fin, rst, out, drained>>
    /\ NextEvent
    /\ UNCHANGED <<kread, kwrite, buf, snd, chg, thrice>>

------------------------------------------------------------------------------
RecvData ==
    /\ pc = "recv"
    /\ Unread(cur) > 0
    /\ LET n == Min({BufCap, Unread(cur)})
       IN  /\ buf' = [buf EXCEPT ![cur] = [k \in 1 .. n |-> nread[cur] + k]]
           /\ nread' = [nread EXCEPT ![cur] = @ + n]
           /\ CallSend(cur, "read", n)
    /\ pc' = "send"
    /\ UNCHANGED <<st, backlog, nsent, fin, rst, out, drained,
                   kread, kwrite, evs, chg, faults, thrice>>

(* Mutant of RecvEnd: the connection is closed as soon as the client is done. *)
RecvEndEarly ==
    /\ pc = "recv"
    /\ fin[cur] \/ rst[cur]
    /\ Cleanup(cur)
    /\ NextEvent
    /\ UNCHANGED <<snd, chg, faults, thrice>>

RecvEnd ==
    /\ pc = "recv"
    /\ Unread(cur) = 0
    /\ fin[cur] \/ rst[cur]
    /\ Cleanup(cur)
    /\ NextEvent
    /\ UNCHANGED <<snd, chg, faults, thrice>>

RecvAgain ==
    /\ pc = "recv"
    /\ Unread(cur) = 0
    /\ ~fin[cur] /\ ~rst[cur]
    /\ NextEvent
    /\ UNCHANGED <<sockets, kread, kwrite, buf, snd, chg, faults, thrice>>

------------------------------------------------------------------------------
(* The two pairs of kq_change: from receiving to sending the rest, and back. *)

(* Mutant of ToWrite: input keeps being reported while output is pending. *)
ToWriteBoth == << [filter |-> "WRITE", to |-> "on"] >>

(* Mutant of ToWrite: the write filter is not enabled. *)
ToWriteNever == << [filter |-> "READ", to |-> "off"] >>

ToWrite == << [filter |-> "READ", to |-> "off"], [filter |-> "WRITE", to |-> "on"] >>

ToRead == << [filter |-> "WRITE", to |-> "off"], [filter |-> "READ", to |-> "on"] >>

Change ==
    /\ pc = "change"
    /\ IF Head(chg).filter = "READ"
       THEN kread' = [kread EXCEPT ![cur] = Head(chg).to] /\ UNCHANGED kwrite
       ELSE kwrite' = [kwrite EXCEPT ![cur] = Head(chg).to] /\ UNCHANGED kread
    /\ chg' = Tail(chg)
    /\ IF Len(chg) = 1 THEN NextEvent ELSE UNCHANGED <<evs, pc>>
    /\ UNCHANGED <<sockets, buf, snd, faults, thrice>>

ChangeFails ==
    /\ pc = "change"
    /\ faults < MaxFaults
    /\ faults' = faults + 1
    /\ chg' = << >>
    /\ Cleanup(cur)
    /\ NextEvent
    /\ UNCHANGED <<snd, thrice>>

------------------------------------------------------------------------------
(* What the caller of do_send does with the total it returns. *)

ReturnedNothing == Cleanup(cur) /\ NextEvent /\ UNCHANGED chg

(* Mutant of ReturnedPart: the size is reduced, the data not moved. *)
ReturnedPartUnmoved(total) ==
    /\ buf' = [buf EXCEPT ![cur] = SubSeq(@, 1, Len(@) - total)]
    /\ IF snd.path = "read"
       THEN pc' = "change" /\ chg' = ToWrite /\ UNCHANGED evs
       ELSE NextEvent /\ UNCHANGED chg
    /\ UNCHANGED <<st, backlog, nsent, nread, fin, rst, drained, kread, kwrite>>

ReturnedPart(total) ==
    /\ buf' = [buf EXCEPT ![cur] = SubSeq(@, total + 1, Len(@))]
    /\ IF snd.path = "read"
       THEN pc' = "change" /\ chg' = ToWrite /\ UNCHANGED evs
       ELSE NextEvent /\ UNCHANGED chg
    /\ UNCHANGED <<st, backlog, nsent, nread, fin, rst, drained, kread, kwrite>>

ReturnedAll ==
    /\ buf' = [buf EXCEPT ![cur] = << >>]
    /\ IF snd.path = "read"
       THEN pc' = "recv" /\ UNCHANGED chg
       ELSE pc' = "change" /\ chg' = ToRead
    /\ UNCHANGED <<st, backlog, nsent, nread, fin, rst, drained, kread, kwrite, evs>>

Returned(total) == /\ snd' = Idle
                   /\ CASE total = 0 -> ReturnedNothing
                        [] total \in 1 .. Len(buf[cur]) - 1 -> ReturnedPart(total)
                        [] total = Len(buf[cur]) -> ReturnedAll

Send ==
    /\ pc = "send"
    /\ ~rst[cur]
    /\ Space(cur) > 0
    /\ SendBytes
    /\ \/ /\ Taken = snd.left
          /\ Returned(snd.total + Taken)
       \/ /\ Taken < snd.left
          /\ SendMore
          /\ UNCHANGED <<st, backlog, nsent, nread, fin, rst, drained,
                         kread, kwrite, evs, pc, buf, chg>>
    /\ UNCHANGED faults

SendAgain ==
    /\ pc = "send"
    /\ ~rst[cur]
    /\ Space(cur) = 0
    /\ Returned(snd.total)
    /\ UNCHANGED <<out, faults, thrice>>

(* send on a connection its client has reset: an error, or SIGPIPE as well. *)
SendFails ==
    /\ pc = "send"
    /\ rst[cur]
    /\ snd' = Idle
    /\ \/ Cleanup(cur) /\ NextEvent
       \/ /\ pc' = "killed"
          /\ evs' = << >>
          /\ st' = [c \in Conns |-> "closed"]
          /\ backlog' = [l \in Listeners |-> << >>]
          /\ kread' = [c \in Conns |-> "none"]
          /\ kwrite' = [c \in Conns |-> "none"]
          /\ buf' = [c \in Conns |-> << >>]
          /\ UNCHANGED <<nsent, nread, fin, rst, out, drained>>
    /\ UNCHANGED <<chg, faults, thrice>>

Server == \/ KeventWait
          \/ DispatchListener \/ DispatchWrite \/ DispatchRead
          \/ Accept \/ AcceptEmpty \/ AcceptFails
          \/ RecvData \/ RecvEnd \/ RecvAgain
          \/ Send \/ SendAgain \/ SendFails
          \/ Change \/ ChangeFails

Next == Client \/ (\E c \in Conns : Drain(c)) \/ Server

Spec == Init /\ [][Next]_vars

(* The server thread runs, and clients read what is sent to them; nothing *)
(* makes a client connect, send or leave.                                 *)
FairSpec == /\ Spec
            /\ WF_vars(Server)
            /\ \A c \in Conns : WF_vars(Drain(c))
------------------------------------------------------------------------------
(***************************************************************************)
(* The server never holds more than BUF_CAPACITY bytes of a connection and *)
(* never sends a byte it did not receive.                                  *)
(***************************************************************************)
TypeOK ==
    /\ st \in [Conns -> {"none", "backlog", "open", "closed", "leaked"}]
    /\ \A l \in Listeners : Len(backlog[l]) <= Backlog /\ Range(backlog[l]) \subseteq Conns
    /\ \A c \in Conns : /\ nread[c] \in 0 .. nsent[c] /\ nsent[c] \in 0 .. MaxBytes
                        /\ drained[c] \in 0 .. Len(out[c])
                        /\ Space(c) \in 0 .. SendCap
                        /\ Range(out[c]) \subseteq Bytes
                        /\ Range(buf[c]) \subseteq Bytes /\ Len(buf[c]) <= BufCap
    /\ {fin, rst, thrice} \subseteq [Conns -> BOOLEAN]
    /\ {kread, kwrite} \subseteq [Conns -> {"none", "on", "off"}]
    /\ pc \in {"wait", "dispatch", "accept", "recv", "send", "change", "killed"}
    /\ faults \in 0 .. MaxFaults

(***************************************************************************)
(* The two filters of a connection, switched by separate calls that may    *)
(* fail, follow the size of its buffer: between two events a connection    *)
(* with an empty buffer is watched for input only, one with unsent output  *)
(* for room only.  No event left in the batch is for a connection that has *)
(* been freed, none contradicts the size, and none is for a connection     *)
(* that has another: the last branch of queue(), which ends the server, is *)
(* never reached.                                                          *)
(***************************************************************************)
FiltersFollowSize ==
    /\ \A c \in Conns :
          IF st[c] # "open" THEN kread[c] = "none" /\ kwrite[c] = "none"
          ELSE pc \in {"wait", "dispatch", "accept"} =>
                  IF buf[c] = << >> THEN kread[c] = "on" /\ kwrite[c] # "on"
                                    ELSE kread[c] = "off" /\ kwrite[c] = "on"
    /\ \A k \in DOMAIN evs : evs[k].item \in Conns =>
          /\ st[evs[k].item] = "open"
          /\ k > 1 \/ pc = "dispatch" => (evs[k].filter = "READ" <=> buf[evs[k].item] = << >>)
          /\ \A j \in DOMAIN evs : evs[j].item = evs[k].item => j = k

(***************************************************************************)
(* While the server lives and no kq_change fails, a client that does not   *)
(* reset its connection is closed in two cases only: it has shut down, and *)
(* everything it sent before was received and echoed; or do_send returned  *)
(* 0 for new input because the send queue was full to the last byte.       *)
(***************************************************************************)
ClosedWhenDone ==
    [][\A c \in Conns :
          (/\ st[c] = "open" /\ st'[c] = "closed"
           /\ ~rst[c] /\ pc' # "killed" /\ faults' = faults) =>
              \/ fin[c] /\ nread[c] = nsent[c] /\ Len(out[c]) = nsent[c]
              \/ /\ Sending(c) /\ snd.path = "read" /\ snd.total = 0
                 /\ Space(c) = 0]_vars

(***************************************************************************)
(* Every queued connection is accepted (or closed, or leaked when calloc   *)
(* fails), also after an accept loop that a failure broke off.             *)
(***************************************************************************)
BacklogServed == \A c \in Conns : st[c] = "backlog" ~> st[c] # "backlog"
=============================================================================
