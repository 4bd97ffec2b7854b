------------------------------ MODULE ShoutSend ------------------------------
(***************************************************************************)
(* What the two event loops of the shout server share: the buffer of a     *)
(* connection and do_send(), which hands its content to send().            *)
(***************************************************************************)
EXTENDS ShoutSockets

CONSTANT BufCap  \* BUF_CAPACITY

ASSUME BufferAssumption == BufCap \in Nat \ {0}

VARIABLES buf,    \* buf[c]: the first size bytes of the connection's buffer
          snd,    \* the locals of do_send and the path that called it, or Idle
          thrice  \* thrice[c]: some do_send on c has called send three times

Idle == [path |-> "none"]

SendInit == /\ buf = [c \in Conns |-> << >>]
            /\ snd = Idle
            /\ thrice = [c \in Conns |-> FALSE]

(* do_send is called for the first n bytes of the buffer of c. *)
CallSend(c, path, n) ==
    snd' = [path |-> path, fd |-> c, sent |-> 0, left |-> n, total |-> 0, calls |-> 0]

(* What the next send takes: as much as fits. *)
Taken == Min({snd.left, Space(snd.fd)})

(* It takes it from data + sent: from its third call on, at the wrong byte. *)
SendBytes ==
    /\ out' = [out EXCEPT ![snd.fd] =
                  @ \o SubSeq(buf[snd.fd], snd.sent + 1, snd.sent + Taken)]
    /\ thrice' = [thrice EXCEPT ![snd.fd] = @ \/ snd.calls = 2]

(* Something is left: do_send calls send again. *)
SendMore == snd' = [snd EXCEPT !.sent = Taken, !.left = @ - Taken,
                               !.total = @ + Taken, !.calls = @ + 1]

------------------------------------------------------------------------------
Bytes == 1 .. MaxBytes
Sending(c) == snd # Idle /\ snd.fd = c

(* What the server has received on c and not handed to send. *)
Pending(c) == IF Sending(c) THEN SubSeq(buf[c], snd.total + 1, Len(buf[c])) ELSE buf[c]

(***************************************************************************)
(* Echoing: what send has accepted on a connection, followed by what is    *)
(* still in its buffer, has the length of what was received, however often *)
(* the send queue filled up in between; and it is what was received, byte  *)
(* for byte, as long as no do_send on the connection has called send three *)
(* times.  (do_send computes data + sent from the last count, not from the *)
(* total, so its third call resends some bytes and skips others.)          *)
(***************************************************************************)
EchoIntact ==
    \A c \in Conns : st[c] = "open" =>
        /\ Len(out[c] \o Pending(c)) = nread[c]
        /\ ~thrice[c] => out[c] \o Pending(c) = [k \in 1 .. nread[c] |-> k]

(***************************************************************************)
(* Whatever a client has sent on an accepted connection, the server gets   *)
(* even with it again and again, unless the connection is closed (which    *)
(* properties of the loops limit): every byte is echoed in the end.        *)
(***************************************************************************)
EchoedOrClosed ==
    \A c \in Conns : []<>(st[c] = "open" => Len(out[c]) = nsent[c])
=============================================================================
