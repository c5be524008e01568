----------------------------- MODULE MCIngress -----------------------------
(***************************************************************************)
(* Instances of Ingress: releases with different capabilities, one with    *)
(* another major version, and every transport.                             *)
(***************************************************************************)
EXTENDS Ingress

Release(major, caps) == [major |-> major, caps |-> caps]
Ends(transport, serves, client, server, token, certificate, proxy) ==
  [transport |-> transport, serves |-> serves, client |-> client, server |-> server,
   token |-> token, certificate |-> certificate, proxy |-> proxy]

Plain(t, client, server) == Ends(t, t, client, server, TRUE, TRUE, FALSE)
Current == Release(1, {1, 2})

MCSetups ==
  {Plain("tcp_tls", Current, Release(1, {2, 3})), Plain("tcp_tls", Release(2, {}), Current),
   Plain("websocket_tls", Current, Current), Plain("quic", Release(1, {}), Current),
   Plain("quic", Current, Release(1, {2, 3})),
   Ends("tcp_tls", "tcp_tls", Current, Current, FALSE, TRUE, TRUE),
   Ends("tcp_tls", "tcp_tls", Current, Current, TRUE, FALSE, FALSE),
   Ends("tcp_tls", "websocket_tls", Current, Current, TRUE, TRUE, FALSE),
   Ends("websocket_tls", "tcp_tls", Current, Current, TRUE, TRUE, FALSE),
   Ends("quic", "quic", Current, Current, FALSE, TRUE, FALSE)}

=============================================================================
