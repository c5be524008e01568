------------------------------ MODULE Settings ------------------------------
(***************************************************************************)
(* What the library accepts before it opens anything: tokens, names, hosts *)
(* and endpoints (common.rs, endpoint.rs, eggtunnel-proto), bind policy,   *)
(* limits and timeouts (common.rs), the transport profiles of client and   *)
(* server (client.rs, client/config.rs, server/config.rs) and PEM material *)
(* (pem.rs, server/tls.rs).  Constant operators only.                      *)
(*                                                                         *)
(* Text is its length and the kinds of character in it; PEM material is    *)
(* its length and the blocks it holds.  What rustls and Eggress make of    *)
(* well-formed material is left open.                                      *)
(***************************************************************************)
EXTENDS Integers, Sequences, FiniteSets

MaxFrameBytes == 1024 * 1024
MaxNameBytes == 128
MaxTargetHostBytes == 253
MaxAuthTokenBytes == 4096

None == [kind |-> "none"]
Given(x) == x # None

\* Ordered checks, each a pair of what must hold and the error if it does not:
\* the first that fails decides.
FirstError(checks) ==
  LET failed == {i \in DOMAIN checks : ~checks[i][1]}
  IN  IF failed = {} THEN "ok"
      ELSE checks[CHOOSE i \in failed : \A j \in failed : i <= j][2]

(***************************************************************************)
(* Text.                                                                   *)
(***************************************************************************)
Text(n, cs) == [len |-> n, chars |-> cs, ipv6 |-> FALSE]
Ipv6Text == [len |-> 3, chars |-> {"alnum", "colon"}, ipv6 |-> TRUE]
EmptyText == Text(0, {})

\* SecretToken::new.
SecretToken(t) == t.len \in 1..MaxAuthTokenBytes

\* ServiceName::new.
ServiceName(t) == t.len \in 1..MaxNameBytes /\ t.chars \subseteq {"alnum", "mark"}

\* validate_target_host: "url" are the characters with a meaning in a URL
\* authority, "format" the invisible ones of is_format_char.
TargetHost(t) ==
  /\ t.len \in 1..MaxTargetHostBytes
  /\ t.chars \cap {"space", "control", "format", "url"} = {}
  /\ "colon" \in t.chars => t.ipv6

\* TcpTarget::new.
TcpTarget(host, port) == TargetHost(host) /\ port # 0

\* Endpoint::parse of a text that is cut into host and port, with or without
\* brackets, or that has no port to cut off.
EndpointParse(e) == FirstError(<<
  <<e.form # "bare", "MissingPort">>,
  <<e.host.len # 0, "EmptyHost">>,
  <<e.form = "bracketed" => e.host.ipv6, "AmbiguousHost">>,
  <<e.form = "plain" => "colon" \notin e.host.chars, "UnbracketedIpv6">>,
  <<TargetHost(e.host), "AmbiguousHost">>,
  <<e.digits /\ e.port \in 1..65535, "InvalidPort">> >>)

Endpoint(e) == EndpointParse(e) = "ok"

(***************************************************************************)
(* Bind policy.  An address is "::1", "127" (any mapped 127.0.0.0/8) or    *)
(* "public".                                                               *)
(***************************************************************************)
BindPolicyDefault ==
  [allow_public |-> FALSE, addresses |-> {}, ranges |-> {}, ephemeral |-> TRUE,
   max_services |-> 64]

BindPolicyValid(p) ==
  /\ p.max_services \in 1..65536
  /\ Cardinality(p.addresses) <= 1024
  /\ \A r \in p.ranges : r[1] # 0 /\ r[1] <= r[2]

IsLoopback(a) == a \in {"::1", "127"}

\* Seeded fault: an address on the allowlist is permitted whatever else is set.
PermitsListed(p, a) == p.allow_public \/ IsLoopback(a) \/ p.addresses = {} \/ a \in p.addresses

PermitsAddress(p, a) ==
  /\ IsLoopback(a) \/ p.allow_public
  /\ p.addresses = {} \/ a \in p.addresses

PermitsPort(p, port) ==
  IF port = 0 THEN p.ephemeral
  ELSE p.ranges = {} \/ \E r \in p.ranges : port \in r[1]..r[2]

\* bind_to_socket: a Loopback request asks for "::1".
BindToSocket(p, a, port) == PermitsAddress(p, a) /\ PermitsPort(p, port)

(***************************************************************************)
(* Runtime policy, with its defaults; times in milliseconds.               *)
(***************************************************************************)
DefaultLimits ==
  [sessions |-> 128, services_per_session |-> 64, pending_per_session |-> 128,
   active_connections_per_session |-> 128, accepted_handshakes |-> 64,
   client_open_tasks |-> 128, control_queue |-> 128, client_command_queue |-> 32]

LimitsValid(l) == \A f \in DOMAIN l : l[f] \in 1..65536

DefaultTimeouts ==
  [connect |-> 10000, handshake |-> 10000, control_idle |-> 90000,
   pending_connection |-> 30000, relay_drain |-> 15000, shutdown_grace |-> 1000,
   reconnect_initial |-> 500, reconnect_max |-> 30000, heartbeat_interval |-> 20000]

TimeoutsValid(t) ==
  /\ \A f \in DOMAIN t : t[f] \in 1..86400000
  /\ t.reconnect_initial <= t.reconnect_max
  /\ t.heartbeat_interval < t.control_idle

RuntimeDefault == [limits |-> DefaultLimits, timeouts |-> DefaultTimeouts]
RuntimeValid(r) == LimitsValid(r.limits) /\ TimeoutsValid(r.timeouts)

(***************************************************************************)
(* PEM material: whether every block parses, and how many there are.       *)
(***************************************************************************)
Certificates(m) == m.sane /\ m.certs \in 1..32
PrivateKey(m) == m.len <= MaxFrameBytes /\ m.sane /\ m.keys = 1

(***************************************************************************)
(* Profiles.  Each refusal below is TunnelError::Configuration.            *)
(***************************************************************************)
\* validate_config of client.rs.
ClientConfigValid(c, policy) ==
  /\ Endpoint(c.server_addr)
  /\ c.tls_server_name.len \in 1..253
  /\ Len(c.services) <= policy.limits.services_per_session
  /\ \A i, j \in DOMAIN c.services :
       i # j => /\ c.services[i].id # c.services[j].id
                /\ c.services[i].name # c.services[j].name
  /\ Given(c.ca_pem) => c.ca_pem.len <= MaxFrameBytes

\* External: what OutboundConnector::from_pproxy_uri accepts.
ProxyChain(t) == "chain" \in t.chars

\* validate_client_profile.
ClientProfileValid(c, policy) ==
  /\ RuntimeValid(policy)
  /\ ClientConfigValid(c, policy)
  /\ c.transport = "quic" =>
       ~Given(c.ca_pem) /\ ~Given(c.identity) /\ ~Given(c.outbound_proxy)
  /\ c.transport = "websocket_tls" => ~Given(c.identity)
  /\ ~(Given(c.identity) /\ Given(c.outbound_proxy))
  /\ Given(c.outbound_proxy) => ProxyChain(c.outbound_proxy)

\* validate_config of server/config.rs.
ServerConfigValid(s) ==
  {s.certificate_pem.len, s.private_key_pem.len} \subseteq 1..MaxFrameBytes

\* validate_server_profile, with the bind policy the builder holds.
ServerProfileValid(s, bind, policy) ==
  /\ RuntimeValid(policy)
  /\ BindPolicyValid(bind)
  /\ bind.allow_public = s.allow_public_service_binds
  /\ ServerConfigValid(s)
  /\ Given(s.client_ca) => s.client_ca.len # 0 /\ s.transport = "tcp_tls"

\* ServerBuilder::new, then bind_policy: the switch of the configuration
\* follows that of the policy.
WithBindPolicy(s, bind) == [s EXCEPT !.allow_public_service_binds = bind.allow_public]

\* What build_mtls_tls_config demands of the material itself.
ClientMaterial(c) ==
  Given(c.identity) => /\ Given(c.ca_pem) => Certificates(c.ca_pem)
                       /\ Certificates(c.identity.cert) /\ PrivateKey(c.identity.key)

\* What build_mtls_server_config demands of it.
ServerMaterial(s) ==
  Given(s.client_ca) => /\ Certificates(s.certificate_pem) /\ PrivateKey(s.private_key_pem)
                        /\ Certificates(s.client_ca)

=============================================================================
