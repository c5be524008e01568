------------------------------- MODULE MCCli -------------------------------
(***************************************************************************)
(* Instances of Cli: a good file of either kind, changed in at most two    *)
(* fields, and inputs of which one may change at any moment.               *)
(***************************************************************************)
EXTENDS Cli

Plain == {"alnum"}
Host == Text(9, Plain)
N(n) == [name |-> n]

At(form, host, digits, port) == [form |-> form, host |-> host, digits |-> digits, port |-> port]
Service(i) ==
  [id |-> i, name |-> Text(i, Plain), target_host |-> Host, target_port |-> 80, bind_port |-> 0]

Bare ==
  [mode |-> "client", transport |-> "tcp_tls", token_env |-> N("TOKEN"),
   listen_addr |-> None, tls_cert |-> None, tls_key |-> None, client_ca |-> None,
   allow_public_service_binds |-> FALSE, server_addr |-> None, tls_server_name |-> None,
   ca_cert |-> None, outbound_proxy_env |-> None, client_cert |-> None, client_key |-> None,
   services |-> <<>>]
GoodClient == [Bare EXCEPT !.server_addr = At("plain", Host, TRUE, 443),
                           !.tls_server_name = Host, !.services = <<Service(1)>>]
GoodServer == [Bare EXCEPT !.mode = "server", !.listen_addr = [valid |-> TRUE],
                           !.tls_cert = N("cert"), !.tls_key = N("key")]

\* Changes of the fields of a file.
Set(f, v) == [g \in {f} |-> v]
Both(d, e) == [g \in DOMAIN d \cup DOMAIN e |-> IF g \in DOMAIN d THEN d[g] ELSE e[g]]

Ends ==
  {Set("server_addr", v) :
     v \in {None, At("bare", Host, TRUE, 443), At("plain", EmptyText, TRUE, 443),
            At("plain", Ipv6Text, TRUE, 443), At("bracketed", Host, TRUE, 443),
            At("bracketed", Ipv6Text, TRUE, 443), At("plain", Text(9, {"url"}), TRUE, 443),
            At("plain", Host, FALSE, 443), At("plain", Host, TRUE, 0),
            At("plain", Host, TRUE, 65536), At("plain", Text(254, Plain), TRUE, 443)}}
  \cup {Set("tls_server_name", v) : v \in {None, EmptyText, Text(253, Plain), Text(254, Plain)}}
  \cup {Set("listen_addr", v) : v \in {None, [valid |-> FALSE]}}
  \cup {Set("services", v) :
          v \in {<<>>, <<Service(1), Service(1)>>, <<Service(1), Service(2)>>,
                 [i \in 1..65 |-> Service(i)],
                 <<[Service(1) EXCEPT !.name = Text(129, Plain)]>>,
                 <<[Service(1) EXCEPT !.target_host = Text(2, {"format"})]>>,
                 <<[Service(1) EXCEPT !.target_port = 0]>>}}
  \cup {Set("mode", "other"), Set("token_env", N("")), Set("outbound_proxy_env", N("")),
        Set("tls_key", None), Set("client_key", N("client_key"))}

Features ==
  {Set("transport", t) : t \in {"quic", "websocket_tls", "other"}}
  \cup {Set("ca_cert", N("ca")), Set("outbound_proxy_env", N("PROXY")),
        Set("client_ca", N("client_ca")), Set("allow_public_service_binds", TRUE),
        Both(Set("client_cert", N("client_cert")), Set("client_key", N("client_key")))}

MCFiles ==
  {Overridden(c, d) : c \in {GoodClient, GoodServer}, d \in Ends \cup Features \cup {Empty}}
  \cup {Overridden(c, Both(d, e)) : c \in {GoodClient, GoodServer}, d \in Features, e \in Features}
MCSpoiled == {Unreadable, GoodServer}

Pem(len, certs, keys) ==
  [len |-> len, certs |-> certs, keys |-> keys, sane |-> TRUE, dir |-> FALSE, readable |-> TRUE]
Good(n) == IF n \in {"key", "client_key"} THEN Pem(MaxFrameBytes, 0, 1) ELSE Pem(900, 1, 0)
Secrets == {"TOKEN", "PROXY"}
Paths == {"cert", "key", "client_ca", "ca", "client_cert", "client_key"}

MCWorld == [n \in Secrets \cup Paths |->
              IF n = "TOKEN" THEN Text(4096, Plain)
              ELSE IF n = "PROXY" THEN Text(9, {"chain"}) ELSE Good(n)]
MCContents == [n \in Secrets \cup Paths |->
  IF n \in Secrets THEN {None, EmptyText, Text(3, {"space"}), Text(4097, Plain)}
  ELSE {None, Pem(0, 0, 0), Pem(MaxFrameBytes + 1, 1, 1), Pem(900, 33, 2),
        [Pem(900, 1, 1) EXCEPT !.dir = TRUE], [Pem(900, 1, 1) EXCEPT !.readable = FALSE]}]

Run(verb, over, interval, json) ==
  [verb |-> verb, over |-> over, interval |-> interval, json |-> json]
MCCommands ==
  {Run("check", Empty, 5, FALSE),
   Run("client", Empty, 5, TRUE), Run("client", Set("bind_port", 7000), 60, FALSE),
   Run("client", Set("token_env", N("PROXY")), 4, TRUE),
   Run("server", Empty, 60, FALSE), Run("server", Set("transport", "quic"), 5, TRUE),
   Run("server", Set("allow_public_service_binds", TRUE), 5, TRUE)}

MCRequests == {<<"::1", 7000>>, <<"127", 0>>, <<"public", 7000>>}

=============================================================================
