----------------------------- MODULE ShoutEpoll -----------------------------
(***************************************************************************)
(* The Linux event loop of the shout server: poll(), ep_add() and          *)
(* cleanup() of shout_server.c, over edge-triggered epoll.                 *)
(*                                                                         *)
(* One step is one system call with the code that follows it up to the     *)
(* next one; clients act between any two steps.  Connections and their     *)
(* user_data are the same thing: cleanup frees both.  to_upper_case does   *)
(* nothing in the code, so bytes are echoed as they are.                   *)
(***************************************************************************)
EXTENDS ShoutSend

CONSTANTS MaxEvents,  \* MAX_EVENTS
          MaxFaults   \* bound: failures of accept, fcntl, calloc, epoll_ctl

ASSUME EventsAssumption == MaxEvents \in Nat \ {0} /\ MaxFaults \in Nat

VARIABLES rdlist,   \* epoll's ready list
          nospace,  \* nospace[c]: SOCK_NOSPACE, a wake is due when space is freed
          evs,      \* events of the last epoll_wait left to handle, current first
          pc,       \* "wait", "dispatch", "accept", "recv", "send" or "killed"
          faults    \* failures so far

server == <<rdlist, nospace, evs, pc, buf, snd, faults, thrice>>
vars == <<sockets, server>>

(* poll(), up to the loop: the listeners are registered, nobody has connected. *)
Init == /\ SocketsInit
        /\ SendInit
        /\ rdlist = << >>
        /\ nospace = [c \in Conns |-> FALSE]
        /\ evs = << >>
        /\ pc = "wait"
        /\ faults = 0

------------------------------------------------------------------------------
(* epoll, external: the events a registered socket has now, and who is woken. *)

Writable(c) == rst[c] \/ Space(c) >= LowWater

Mask(i) == IF i \in Listeners
           THEN IF backlog[i] = << >> THEN {} ELSE {"EPOLLIN"}
           ELSE (IF Unread(i) > 0 \/ fin[i] \/ rst[i] THEN {"EPOLLIN"} ELSE {})
                \cup (IF Writable(i) THEN {"EPOLLOUT"} ELSE {})
                \cup (IF fin[i] \/ rst[i] THEN {"EPOLLRDHUP"} ELSE {})

Registered(i) == i \in Listeners \/ st[i] = "open"

Woken(i) == IF Registered(i) /\ i \notin Range(rdlist)
            THEN Append(rdlist, i) ELSE rdlist

(* A client step and the wake-up it causes. *)
Client ==
    /\ \/ \E c \in Conns, l \in Listeners : Connect(c, l) /\ rdlist' = Woken(l)
       \/ \E c \in Conns : ClientSend(c) /\ rdlist' = Woken(c)
       \/ \E c \in Conns : ClientShutdown(c) /\ rdlist' = Woken(c)
       \/ \E c \in Conns : ClientReset(c) /\ rdlist' = Woken(c)
    /\ UNCHANGED <<nospace, evs, pc, buf, snd, faults, thrice>>

(* The wake-up of a writer: only when it ran out of space, and enough is free. *)
Drain(c) ==
    /\ ClientDrain(c)
    /\ LET wake == nospace[c] /\ Space(c) + 1 >= LowWater
       IN  /\ rdlist' = IF wake THEN Woken(c) ELSE rdlist
           /\ nospace' = [nospace EXCEPT ![c] = @ /\ ~wake]
    /\ UNCHANGED <<evs, pc, buf, snd, faults, thrice>>

(* The positions among the first p of the ready list that have an event. *)
Live(p) == {k \in 1 .. p : Mask(rdlist[k]) # {}}

(***************************************************************************)
(* epoll_wait: the ready list is walked up to its end, or to the last of   *)
(* MaxEvents events.  Each item passed is removed (EPOLLET) and polled,    *)
(* which arms the wake-up of one without space.                            *)
(***************************************************************************)
EpollWait ==
    /\ pc = "wait"
    /\ rdlist # << >>
    /\ \E p \in 1 .. Len(rdlist) :
          /\ IF Cardinality(Live(p)) < MaxEvents THEN p = Len(rdlist)
             ELSE Cardinality(Live(p)) = MaxEvents /\ p \in Live(p)
          /\ \E at \in SetToSeqs(Live(p)) :
                /\ \A j, k \in DOMAIN at : j < k => at[j] < at[k]
                /\ evs' = [k \in DOMAIN at |->
                              [item |-> rdlist[at[k]], events |-> Mask(rdlist[at[k]])]]
          /\ rdlist' = SubSeq(rdlist, p + 1, Len(rdlist))
          /\ nospace' = [c \in Conns |->
                nospace[c] \/ (~Writable(c) /\ \E k \in 1 .. p : rdlist[k] = c)]
          /\ pc' = IF Live(p) = {} THEN "wait" ELSE "dispatch"
    /\ UNCHANGED <<sockets, buf, snd, faults, thrice>>

------------------------------------------------------------------------------
cur == Head(evs).item
ev  == Head(evs).events

(* Mutant of NextEvent: the loop runs on past the last event. *)
NextEventOverrun == evs' = Tail(evs) /\ pc' = "dispatch"

(* The loop over evs goes on to the next event, or back to epoll_wait. *)
NextEvent == /\ evs' = Tail(evs)
             /\ pc' = IF Len(evs) = 1 THEN "wait" ELSE "dispatch"

(* Mutant of Cleanup: the memory is freed and the socket left registered. *)
CleanupFreesOnly(c) ==
    /\ st' = [st EXCEPT ![c] = "closed"]
    /\ buf' = [buf EXCEPT ![c] = << >>]
    /\ UNCHANGED <<backlog, nsent, nread, fin, rst, out, drained, rdlist>>

(* cleanup: EPOLL_CTL_DEL, close, free. *)
Cleanup(c) == /\ st' = [st EXCEPT ![c] = "closed"]
              /\ rdlist' = RemoveFirst(rdlist, c)
              /\ buf' = [buf EXCEPT ![c] = << >>]
              /\ UNCHANGED <<backlog, nsent, nread, fin, rst, out, drained>>

------------------------------------------------------------------------------
(* The branches on ev: which loop or call handles this event. *)

DispatchListener ==
    /\ pc = "dispatch"
    /\ cur \in Listeners
    /\ pc' = "accept"
    /\ UNCHANGED <<sockets, rdlist, nospace, evs, buf, snd, faults, thrice>>

DispatchHangup ==
    /\ pc = "dispatch"
    /\ cur \in Conns
    /\ "EPOLLRDHUP" \in ev
    /\ Cleanup(cur)
    /\ NextEvent
    /\ UNCHANGED <<nospace, snd, faults, thrice>>

DispatchWrite ==
    /\ pc = "dispatch"
    /\ cur \in Conns
    /\ "EPOLLRDHUP" \notin ev
    /\ "EPOLLOUT" \in ev /\ buf[cur] # << >>
    /\ pc' = "send"
    /\ CallSend(cur, "write", Len(buf[cur]))
    /\ UNCHANGED <<sockets, rdlist, nospace, evs, buf, faults, thrice>>

DispatchRead ==
    /\ pc = "dispatch"
    /\ cur \in Conns
    /\ "EPOLLRDHUP" \notin ev
    /\ "EPOLLIN" \in ev /\ buf[cur] = << >>
    /\ pc' = "recv"
    /\ UNCHANGED <<sockets, rdlist, nospace, evs, buf, snd, faults, thrice>>

(* Input while output is pending and not writable, or room while there is none. *)
DispatchNothing ==
    /\ pc = "dispatch"
    /\ cur \in Conns
    /\ ev = IF buf[cur] = << >> THEN {"EPOLLOUT"} ELSE {"EPOLLIN"}
    /\ NextEvent
    /\ UNCHANGED <<sockets, rdlist, nospace, buf, snd, faults, thrice>>

------------------------------------------------------------------------------
(* Mutant of Accept: one connection per event, as with level triggering. *)
AcceptOne ==
    /\ pc = "accept"
    /\ backlog[cur] # << >>
    /\ LET c == Head(backlog[cur])
       IN  /\ st' = [st EXCEPT ![c] = "open"]
           /\ rdlist' = IF Mask(c) # {} THEN Append(rdlist, c) ELSE rdlist
    /\ backlog' = [backlog EXCEPT ![cur] = Tail(@)]
    /\ NextEvent
    /\ UNCHANGED <<nsent, nread, fin, rst, out, drained,
                   nospace, buf, snd, faults, thrice>>

(* One turn of the accept loop that succeeds: the connection is registered, *)
(* and is ready at once if it already has an event.                         *)
Accept ==
    /\ pc = "accept"
    /\ backlog[cur] # << >>
    /\ LET c == Head(backlog[cur])
       IN  /\ st' = [st EXCEPT ![c] = "open"]
           /\ rdlist' = IF Mask(c) # {} THEN Append(rdlist, c) ELSE rdlist
    /\ backlog' = [backlog EXCEPT ![cur] = Tail(@)]
    /\ UNCHANGED <<nsent, nread, fin, rst, out, drained,
                   nospace, evs, pc, buf, snd, faults, thrice>>

(* The turn on which accept returns EAGAIN. *)
AcceptEmpty ==
    /\ pc = "accept"
    /\ backlog[cur] = << >>
    /\ NextEvent
    /\ UNCHANGED <<sockets, rdlist, nospace, buf, snd, faults, thrice>>

(* accept fails for another reason, or a call after it does: the loop ends. *)
AcceptFails ==
    /\ pc = "accept"
    /\ backlog[cur] # << >>
    /\ faults < MaxFaults
    /\ faults' = faults + 1
    /\ \/ UNCHANGED sockets
       \/ /\ st' = [st EXCEPT ![Head(backlog[cur])] = "closed"]
          /\ backlog' = [backlog EXCEPT ![cur] = Tail(@)]
          /\ UNCHANGED <<nsent, nread, fin, rst, out, drained>>
    /\ NextEvent
    /\ UNCHANGED <<rdlist, nospace, buf, snd, thrice>>

------------------------------------------------------------------------------
(* recv: data first, then the end of file or the error of a reset, else EAGAIN. *)

RecvData ==
    /\ pc = "recv"
    /\ Unread(cur) > 0
    /\ LET n == Min({BufCap, Unread(cur)})
       IN  /\ buf' = [buf EXCEPT ![cur] = [k \in 1 .. n |-> nread[cur] + k]]
           /\ nread' = [nread EXCEPT ![cur] = @ + n]
           /\ CallSend(cur, "read", n)
    /\ pc' = "send"
    /\ UNCHANGED <<st, backlog, nsent, fin, rst, out, drained,
                   rdlist, nospace, evs, faults, thrice>>

RecvEnd ==
    /\ pc = "recv"
    /\ Unread(cur) = 0
    /\ fin[cur] \/ rst[cur]
    /\ Cleanup(cur)
    /\ NextEvent
    /\ UNCHANGED <<nospace, snd, faults, thrice>>

(* Mutant of RecvAgain: EAGAIN is taken for an error. *)
RecvAgainDrops ==
    /\ pc = "recv"
    /\ Unread(cur) = 0
    /\ ~fin[cur] /\ ~rst[cur]
    /\ Cleanup(cur)
    /\ NextEvent
    /\ UNCHANGED <<nospace, snd, faults, thrice>>

RecvAgain ==
    /\ pc = "recv"
    /\ Unread(cur) = 0
    /\ ~fin[cur] /\ ~rst[cur]
    /\ NextEvent
    /\ UNCHANGED <<sockets, rdlist, nospace, buf, snd, faults, thrice>>

------------------------------------------------------------------------------
(* What the caller of do_send does with the total it returns. *)

(* Nothing was sent: the connection is dropped. *)
ReturnedNothing == Cleanup(cur) /\ NextEvent

(* Mutant of ReturnedPart: the size is reduced, the data not moved. *)
ReturnedPartUnmoved(total) ==
    /\ buf' = [buf EXCEPT ![cur] = SubSeq(@, 1, Len(@) - total)]
    /\ NextEvent
    /\ UNCHANGED <<st, backlog, nsent, nread, fin, rst, drained, rdlist>>

(* The unsent rest is moved to the front of the buffer. *)
ReturnedPart(total) ==
    /\ buf' = [buf EXCEPT ![cur] = SubSeq(@, total + 1, Len(@))]
    /\ NextEvent
    /\ UNCHANGED <<st, backlog, nsent, nread, fin, rst, drained, rdlist>>

(* Mutant of ReturnedAll: an event is for output or for input, not both. *)
ReturnedAllEither ==
    /\ buf' = [buf EXCEPT ![cur] = << >>]
    /\ IF snd.path = "read"
       THEN pc' = "recv" /\ UNCHANGED evs
       ELSE NextEvent
    /\ UNCHANGED <<st, backlog, nsent, nread, fin, rst, drained, rdlist>>

(* The buffer is empty, and the server receives (on). *)
ReturnedAll ==
    /\ buf' = [buf EXCEPT ![cur] = << >>]
    /\ IF snd.path = "read" \/ "EPOLLIN" \in ev
       THEN pc' = "recv" /\ UNCHANGED evs
       ELSE NextEvent
    /\ UNCHANGED <<st, backlog, nsent, nread, fin, rst, drained, rdlist>>

Returned(total) == /\ snd' = Idle
                   /\ CASE total = 0 -> ReturnedNothing
                        [] total \in 1 .. Len(buf[cur]) - 1 -> ReturnedPart(total)
                        [] total = Len(buf[cur]) -> ReturnedAll

(* A send that takes something: the last one, or one that is cut short. *)
Send ==
    /\ pc = "send"
    /\ ~rst[cur]
    /\ Space(cur) > 0
    /\ SendBytes
    /\ nospace' = [nospace EXCEPT ![cur] = @ \/ Taken < snd.left]
    /\ \/ /\ Taken = snd.left
          /\ Returned(snd.total + Taken)
       \/ /\ Taken < snd.left
          /\ SendMore
          /\ UNCHANGED <<st, backlog, nsent, nread, fin, rst, drained,
                         rdlist, evs, pc, buf>>
    /\ UNCHANGED faults

(* send has no room: EAGAIN, and do_send returns what it has sent so far. *)
SendAgain ==
    /\ pc = "send"
    /\ ~rst[cur]
    /\ Space(cur) = 0
    /\ nospace' = [nospace EXCEPT ![cur] = TRUE]
    /\ Returned(snd.total)
    /\ UNCHANGED <<out, faults, thrice>>

(***************************************************************************)
(* send on a connection its client has reset: do_send returns -1, or, when *)
(* the client had shut down before, SIGPIPE ends the server (send is       *)
(* called without MSG_NOSIGNAL and no handler is installed).               *)
(***************************************************************************)
SendFails ==
    /\ pc = "send"
    /\ rst[cur]
    /\ snd' = Idle
    /\ IF fin[cur]
       THEN /\ pc' = "killed"
            /\ evs' = << >>
            /\ rdlist' = << >>
            /\ st' = [c \in Conns |-> "closed"]
            /\ backlog' = [l \in Listeners |-> << >>]
            /\ buf' = [c \in Conns |-> << >>]
            /\ UNCHANGED <<nsent, nread, fin, rst, out, drained>>
       ELSE Cleanup(cur) /\ NextEvent
    /\ UNCHANGED <<nospace, faults, thrice>>

Server == \/ EpollWait
          \/ DispatchListener \/ DispatchHangup
          \/ DispatchWrite \/ DispatchRead \/ DispatchNothing
          \/ Accept \/ AcceptEmpty \/ AcceptFails
          \/ RecvData \/ RecvEnd \/ RecvAgain
          \/ Send \/ SendAgain \/ SendFails

Next == Client \/ (\E c \in Conns : Drain(c)) \/ Server

Spec == Init /\ [][Next]_vars

(* The server thread runs, and clients read what is sent to them; nothing *)
(* makes a client connect, send or leave.                                 *)
FairSpec == /\ Spec
            /\ WF_vars(Server)
            /\ \A c \in Conns : WF_vars(Drain(c))
------------------------------------------------------------------------------
(***************************************************************************)
(* The server never holds more than BUF_CAPACITY bytes of a connection and *)
(* never sends a byte it did not receive; it is in do_send exactly while   *)
(* its locals are in use, and handles an event exactly while one is left.  *)
(***************************************************************************)
TypeOK ==
    /\ st \in [Conns -> {"none", "backlog", "open", "closed"}]
    /\ \A l \in Listeners : Len(backlog[l]) <= Backlog /\ Range(backlog[l]) \subseteq Conns
    /\ \A c \in Conns : /\ nread[c] \in 0 .. nsent[c] /\ nsent[c] \in 0 .. MaxBytes
                        /\ drained[c] \in 0 .. Len(out[c])
                        /\ Space(c) \in 0 .. SendCap
                        /\ Range(out[c]) \subseteq Bytes
                        /\ Range(buf[c]) \subseteq Bytes /\ Len(buf[c]) <= BufCap
    /\ {fin, rst, nospace, thrice} \subseteq [Conns -> BOOLEAN]
    /\ pc \in {"wait", "dispatch", "accept", "recv", "send", "killed"}
    /\ (evs = << >>) <=> pc \in {"wait", "killed"}
    /\ (snd = Idle) <=> pc # "send"
    /\ faults \in 0 .. MaxFaults

(***************************************************************************)
(* No use after free: the user_data pointers the kernel can still hand out *)
(* and those left in evs all belong to connections cleanup has not freed,  *)
(* and no connection is in evs twice, so that handling one event can not   *)
(* free the user_data of a later one.                                      *)
(***************************************************************************)
EventsAlive ==
    /\ \A i \in Range(rdlist) : Registered(i)
    /\ \A k \in DOMAIN evs : Registered(evs[k].item)
    /\ \A j, k \in DOMAIN evs : evs[j].item = evs[k].item => j = k

(***************************************************************************)
(* Edge triggering loses nothing: whenever the server is about to sleep in *)
(* epoll_wait, an open connection with unread input, an end of file or     *)
(* unsent output is on the ready list, or waits for the space it needs     *)
(* with its wake-up armed; and a listener with connections is on the list, *)
(* unless an accept loop has been broken off by a failure.                 *)
(***************************************************************************)
NothingStranded ==
    pc = "wait" =>
        /\ \A c \in Conns :
              st[c] = "open" /\ (Mask(c) \ {"EPOLLOUT"} # {} \/ buf[c] # << >>) =>
                  c \in Range(rdlist) \/ (buf[c] # << >> /\ nospace[c])
        /\ \A l \in Listeners :
              backlog[l] # << >> => l \in Range(rdlist) \/ faults > 0

(***************************************************************************)
(* While the server lives (SIGPIPE may kill it, see SendFails), a client   *)
(* that has neither shut down nor reset is dropped in one case only: recv  *)
(* got more of its data when the send queue was full to the last byte, so  *)
(* that do_send returned 0, which poll() takes for an error.  Never while  *)
(* its unsent output waits for EPOLLOUT.                                   *)
(***************************************************************************)
HealthyKept ==
    [][\A c \in Conns :
          (/\ st[c] = "open" /\ st'[c] = "closed"
           /\ ~fin[c] /\ ~rst[c] /\ pc' # "killed") =>
              /\ Sending(c) /\ snd.path = "read" /\ snd.total = 0
              /\ Space(c) = 0]_vars

(***************************************************************************)
(* Every queued connection is accepted, as long as no call of the accept   *)
(* loop fails (a failure strands the rest until another client connects).  *)
(***************************************************************************)
BacklogServed ==
    \A c \in Conns :
        st[c] = "backlog" ~> st[c] # "backlog" \/ faults > 0
=============================================================================
