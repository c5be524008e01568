----------------------------- MODULE MCWireIO -----------------------------
(***************************************************************************)
(* Small instances of WireIO: a two-cell header, so that a frame can be    *)
(* torn inside its header and inside its payload, and a message as long as *)
(* a frame may be.                                                         *)
(***************************************************************************)
EXTENDS WireIO

CONSTANTS ping, register, huge

Lengths == [m \in Messages |-> CASE m = ping -> 1 [] m = register -> 3 [] m = huge -> 4]

Link(w, c, f) == [whole |-> w, cancel |-> c, foreign |-> f]

\* Handshakes with either kind of peer, and a control loop over TLS.
HandshakesAndTls == {Link(FALSE, FALSE, FALSE), Link(FALSE, FALSE, TRUE), Link(TRUE, TRUE, FALSE)}

\* A control loop over QUIC.
Quic == {Link(FALSE, TRUE, FALSE)}

=============================================================================
