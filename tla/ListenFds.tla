------------------------------ MODULE ListenFds ------------------------------
(***************************************************************************)
(* The start of the shout server (shout_server.c): a listening socket for  *)
(* each address getaddrinfo returns, up to MAX_LISTEN_SOCK_FDS, then       *)
(* O_NONBLOCK and listen for each.  An address stands for how far its      *)
(* calls get; the socket opened for the i-th address is i.                 *)
(***************************************************************************)
EXTENDS Integers, SequencesExt

CONSTANT MAX_LISTEN_SOCK_FDS

(* The call that fails for an address, or "none". *)
Fails == {"socket", "setsockopt 0", "setsockopt 1", "bind", "none"}

(* One address: a socket that fails after it was opened is closed again. *)
AddSocket(q, i, fails) ==
    LET opened == q.open \cup {i}
    IN CASE fails = "socket" -> q
         [] fails \in {"setsockopt 0", "setsockopt 1", "bind"} -> [q EXCEPT !.open = opened \ {i}]
         [] fails = "none" -> [open |-> opened, lfds |-> Append(q.lfds, i)]

(* The loop over the addresses from i on; no address stands for a failing getaddrinfo. *)
RECURSIVE init_listen_fds(_, _, _)
init_listen_fds(addrs, i, q) ==
    IF i > Len(addrs) \/ MAX_LISTEN_SOCK_FDS <= Len(q.lfds) THEN q
    ELSE init_listen_fds(addrs, i + 1, AddSocket(q, i, addrs[i]))

(* bad is a socket that fcntl or listen, whichever call is, fails on. *)
set_nonblocking(fd, bad, call) == IF fd = bad /\ call = "fcntl" THEN -1 ELSE 0
listen(fd, bad, call) == IF fd = bad /\ call = "listen" THEN -1 ELSE 0

(* main: what it returns before it serves, or 0 when it serves. *)
Serve(addrs, bad, call) ==
    LET q == init_listen_fds(addrs, 1, [open |-> {}, lfds |-> << >>])
    IN [ret  |-> IF q.lfds = << >> THEN 1
                 ELSE IF \E fd \in ToSet(q.lfds) : set_nonblocking(fd, bad, call) < 0 THEN 2
                 ELSE IF \E fd \in ToSet(q.lfds) : listen(fd, bad, call) < 0 THEN 3
                 ELSE 0,
        lfds |-> q.lfds,
        open |-> q.open]
=============================================================================
