---------------------------- MODULE ShoutSockets ----------------------------
(***************************************************************************)
(* The TCP sockets under the shout server, and its clients: what the       *)
(* kernel does between two system calls of shout_server.c.  External to    *)
(* the repository; modelled from how poll() and do_send() use it.          *)
(*                                                                         *)
(* The k-th byte a client sends is the number k, so a byte stream that is  *)
(* echoed intact reads 1, 2, 3, ...                                        *)
(***************************************************************************)
EXTENDS Integers, Sequences, SequencesExt, FiniteSets, FiniteSetsExt

CONSTANTS Conns,      \* the connections clients open, each at most once
          Listeners,  \* the listening sockets, one per address of the host
          MaxBytes,   \* bound: bytes one client sends
          Talkers,    \* bound: the clients that send so much, the others one byte
          SendCap,    \* bytes a send queue holds
          LowWater,   \* free space at which poll reports a socket writable
          Backlog,    \* LISTEN_BACKLOG: connections a listener queues
          Resets      \* the connections whose client may reset them

ASSUME SocketsAssumption ==
    /\ IsFiniteSet(Conns) /\ IsFiniteSet(Listeners)
    /\ Conns \cap Listeners = {}
    /\ MaxBytes \in Nat \ {0} /\ SendCap \in Nat /\ Backlog \in Nat \ {0}
    /\ LowWater \in 1 .. SendCap
    /\ Resets \subseteq Conns /\ Talkers \subseteq Conns

VARIABLES st,       \* "none", "backlog", "open" (the server has it) or "closed"
          backlog,  \* backlog[l]: the connections l has yet to accept
          nsent,    \* nsent[c]: bytes the client has sent
          nread,    \* nread[c]: how many of them the server has received
          fin,      \* fin[c]: the client has shut down its sending side
          rst,      \* rst[c]: the client has reset the connection
          out,      \* out[c]: every byte the server's send has accepted
          drained   \* drained[c]: how many of those the client has read

sockets == <<st, backlog, nsent, nread, fin, rst, out, drained>>

SocketsInit == /\ st = [c \in Conns |-> "none"]
               /\ backlog = [l \in Listeners |-> << >>]
               /\ nsent = [c \in Conns |-> 0]
               /\ nread = [c \in Conns |-> 0]
               /\ fin = [c \in Conns |-> FALSE]
               /\ rst = [c \in Conns |-> FALSE]
               /\ out = [c \in Conns |-> << >>]
               /\ drained = [c \in Conns |-> 0]

Unread(c) == nsent[c] - nread[c]
Space(c)  == SendCap - (Len(out[c]) - drained[c])
Reachable(c) == st[c] \in {"backlog", "open"} /\ ~rst[c]

Connect(c, l) == /\ st[c] = "none"
                 /\ Len(backlog[l]) < Backlog
                 /\ st' = [st EXCEPT ![c] = "backlog"]
                 /\ backlog' = [backlog EXCEPT ![l] = Append(@, c)]
                 /\ UNCHANGED <<nsent, nread, fin, rst, out, drained>>

ClientSend(c) == /\ Reachable(c) /\ ~fin[c]
                 /\ nsent[c] < IF c \in Talkers THEN MaxBytes ELSE 1
                 /\ nsent' = [nsent EXCEPT ![c] = @ + 1]
                 /\ UNCHANGED <<st, backlog, nread, fin, rst, out, drained>>

ClientShutdown(c) == /\ Reachable(c) /\ ~fin[c]
                     /\ fin' = [fin EXCEPT ![c] = TRUE]
                     /\ UNCHANGED <<st, backlog, nsent, nread, rst, out, drained>>

ClientReset(c) == /\ Reachable(c) /\ c \in Resets
                  /\ rst' = [rst EXCEPT ![c] = TRUE]
                  /\ UNCHANGED <<st, backlog, nsent, nread, fin, out, drained>>

ClientDrain(c) == /\ Reachable(c)
                  /\ drained[c] < Len(out[c])
                  /\ drained' = [drained EXCEPT ![c] = @ + 1]
                  /\ UNCHANGED <<st, backlog, nsent, nread, fin, rst, out>>
=============================================================================
