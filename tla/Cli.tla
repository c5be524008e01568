-------------------------------- MODULE Cli --------------------------------
(***************************************************************************)
(* The standalone program (eggtunnel-cli/src/main.rs): an operator may     *)
(* check a configuration, then starts a client or a server, whose inputs   *)
(* are read once each, one after the other, while the operator or another  *)
(* program may still change them; the process then reports what the        *)
(* runtime does until a signal ends it.                                    *)
(*                                                                         *)
(* What the library validates is module Settings; the runtime it starts is *)
(* reduced to what the program samples of it: the table of effective binds *)
(* of a server, the counters of a client.  Output is reduced to the lines  *)
(* that announce a bind or a change of the Session.                        *)
(***************************************************************************)
EXTENDS Settings

CONSTANTS
  Files,      \* contents the configuration file may have at first
  Spoiled,    \* contents the operator may replace it with
  World,      \* what the named variables and files hold at first
  Contents,   \* Contents[n]: what input n may be changed to
  Commands,   \* the invocations: verb, overrides and interval
  Requests,   \* binds that clients ask for, as <<address, port>>
  MaxChanges, \* bound: changes of the inputs
  MaxBinds,   \* bound: Services bound while a server runs
  MaxSessions \* bound: Sessions of a client

Unreadable == [kind |-> "unreadable"]
MinSnapshotInterval == 5
Empty == [f \in {} |-> None]

\* The keys of a file; serde refuses any other, and fills in those left out.
FileFields ==
  {"mode", "transport", "token_env", "listen_addr", "tls_cert", "tls_key", "client_ca",
   "allow_public_service_binds", "server_addr", "tls_server_name", "ca_cert",
   "outbound_proxy_env", "client_cert", "client_key", "services"}

\* A file that parses has every field, what an input holds has a length, and
\* check takes no overrides.
ASSUME CliAssumption ==
  /\ \A c \in Files \cup Spoiled : c # Unreadable => DOMAIN c = FileFields
  /\ \A n \in DOMAIN World : \A v \in {World[n]} \cup Contents[n] : Given(v) => v.len \in Nat
  /\ \A c \in Commands :
       /\ Given(c) /\ c.verb \in {"check", "client", "server"} /\ c.interval \in Nat
       /\ c.verb = "check" => c.over = Empty

VARIABLES
  file,     \* the configuration file
  world,    \* world[n]: what variable or file n holds, None if it is missing
  changes,  \* changes so far
  touched,  \* inputs have changed since check began
  checked,  \* verdict and report of check, or None
  cmd,      \* the invocation under way
  pc,       \* where it is
  cfg,      \* FileConfig, overrides applied
  asked,    \* history: the file as read or a flag allows public binds
  todo,     \* inputs still to read: their field and name
  taken,    \* taken[f]: what was read for field f
  verdict,  \* "ok" or the category of the error
  running,  \* what was started: transport and options, or None
  policy,   \* the bind policy the server holds
  handler,  \* SIGINT: "none" (kills), "live" or "idle" (no one listens)
  signal,   \* a signal the loop has not seen yet
  signalled,\* history: a signal was sent
  binds,    \* Counters::binds of a server
  bound,    \* Sessions that have bound a Service
  printed,  \* run_server: keys already printed
  announced,\* history: binds whose line was printed
  link,     \* a client's counters: connected, services, cause, and its stage
  sample,   \* run_client: connected as loaded by the snapshot under way
  was,      \* run_client: was_connected
  event     \* history: the Session event printed last

inputVars == <<file, world, changes, touched>>
resolveVars == <<cfg, asked, todo, taken>>
signalVars == <<handler, signal, signalled>>
bindVars == <<binds, bound, printed, announced>>
linkVars == <<link, sample, was, event>>
vars == <<inputVars, checked, cmd, pc, resolveVars, verdict, running, policy,
          signalVars, bindVars, linkVars>>
loopVars == <<signalVars, bindVars, linkVars>>

Away == [connected |-> FALSE, services |-> 0, cause |-> "none", stage |-> "away", session |-> 0]

Init ==
  /\ file \in Files /\ world = World /\ changes = 0 /\ touched = FALSE
  /\ checked = None /\ cmd = None /\ pc = "idle"
  /\ cfg = None /\ asked = FALSE /\ todo = <<>> /\ taken = Empty
  /\ verdict = "ok" /\ running = None /\ policy = BindPolicyDefault
  /\ handler = "none" /\ signal = FALSE /\ signalled = FALSE
  /\ binds = {} /\ bound = 0 /\ printed = {} /\ announced = {}
  /\ link = Away /\ sample = None /\ was = FALSE /\ event = "none"

(***************************************************************************)
(* The configuration.                                                      *)
(***************************************************************************)
ServerFields == {"listen_addr", "tls_cert", "tls_key", "client_ca"}
InputFields == {"token_env", "outbound_proxy_env", "tls_cert", "tls_key", "client_ca",
                "ca_cert", "client_cert", "client_key"}
ClientFields == {"server_addr", "tls_server_name", "ca_cert", "client_cert", "client_key"}

\* apply_client_overrides and apply_server_overrides: flags win over the file;
\* --bind-port is the port of the only Service.
Overridden(c, o) ==
  LET flags == [f \in DOMAIN c |-> IF f \in DOMAIN o THEN o[f] ELSE c[f]]
  IN  IF "bind_port" \in DOMAIN o
      THEN [flags EXCEPT !.services = <<[@[1] EXCEPT !.bind_port = o["bind_port"]]>>]
      ELSE flags

Overridable(c, o) == "bind_port" \in DOMAIN o => Len(c.services) = 1

Transports == {"tcp_tls", "quic", "websocket_tls"}

\* resolve_client_with up to its first read.
ClientStructure(c) == FirstError(<<
  <<c.mode = "client", "config_resolution">>,
  <<~c.allow_public_service_binds /\ \A f \in ServerFields : ~Given(c[f]), "config_resolution">>,
  <<c.transport \in Transports, "transport">>,
  <<Given(c.server_addr), "config_resolution">>,
  <<Given(c.server_addr) => Endpoint(c.server_addr), "bind_validation">>,
  <<Given(c.tls_server_name) /\ c.tls_server_name # EmptyText, "config_resolution">>,
  <<Given(c.client_cert) <=> Given(c.client_key), "config_resolution">>,
  <<c.outbound_proxy_env # [name |-> ""], "config_resolution">> >>)

\* resolve_server_with up to its first read.
ServerStructure(c) == FirstError(<<
  <<c.mode = "server", "config_resolution">>,
  <<~Given(c.outbound_proxy_env), "config_resolution">>,
  <<c.services = <<>> /\ \A f \in ClientFields : ~Given(c[f]), "config_resolution">>,
  <<c.transport \in Transports, "transport">>,
  <<Given(c.listen_addr), "config_resolution">>,
  <<Given(c.listen_addr) => c.listen_addr.valid, "bind_validation">> >>)

\* run_check looks at the mode first; client and server do what they are told.
Structure(verb, c) ==
  CASE verb = "client" -> ClientStructure(c)
    [] verb = "server" -> ServerStructure(c)
    [] verb = "check" -> IF c.mode = "client" THEN ClientStructure(c)
                         ELSE IF c.mode = "server" THEN ServerStructure(c)
                         ELSE "config_resolution"

\* The inputs in the order in which they are read.
Input(f, c) == [field |-> f, name |-> c[f]]
Optional(f, c) == IF Given(c[f]) THEN <<Input(f, c)>> ELSE <<>>
ClientInputs(c) ==
  <<Input("token_env", c)>> \o Optional("ca_cert", c) \o Optional("outbound_proxy_env", c)
    \o Optional("client_cert", c) \o Optional("client_key", c)
ServerInputs(c) ==
  <<Input("token_env", c), Input("tls_cert", c), Input("tls_key", c)>> \o Optional("client_ca", c)
Inputs(c) == IF c.mode = "client" THEN ClientInputs(c) ELSE ServerInputs(c)

\* resolve_client_services.
ServicesResolve(c) ==
  c.mode = "client" =>
    /\ c.services # <<>>
    /\ \A i \in DOMAIN c.services :
         /\ ServiceName(c.services[i].name)
         /\ TcpTarget(c.services[i].target_host, c.services[i].target_port)

(***************************************************************************)
(* Inputs.                                                                 *)
(***************************************************************************)
IsVariable(f) == f \in {"token_env", "outbound_proxy_env"}

\* load_token_with, and the proxy variable of resolve_client_with.
VariableError(i, v) ==
  IF i.field = "token_env"
  THEN FirstError(<<
         <<i.name # [name |-> ""], "config_resolution">>,
         <<Given(v), "missing_secret_reference">>,
         <<Given(v) => SecretToken(v), "config_resolution">> >>)
  ELSE FirstError(<<
         <<Given(v), "missing_secret_reference">>,
         <<Given(v) => ~(v.chars \subseteq {"space"}), "config_resolution">> >>)

\* read_material: what the metadata say ...
StatError(m) == FirstError(<<
  <<Given(m), "config_resolution">>,
  <<Given(m) => ~m.dir, "config_resolution">>,
  <<Given(m) => m.len <= MaxFrameBytes, "tls_material">> >>)

\* Seeded fault: what the metadata said is not checked again.
TrustMetadata(m) == FirstError(<<
  <<Given(m), "config_resolution">>,
  <<Given(m) => m.readable /\ ~m.dir, "config_resolution">>,
  <<Given(m) => m.len # 0, "tls_material">> >>)

\* ... and what is then read.
BytesError(m) == FirstError(<<
  <<Given(m), "config_resolution">>,
  <<Given(m) => m.readable /\ ~m.dir, "config_resolution">>,
  <<Given(m) => m.len <= MaxFrameBytes, "tls_material">>,
  <<Given(m) => m.len # 0, "tls_material">> >>)

\* What input i is while the variables and files are w, what was read for field f.
Held(i, w) == IF Given(i.name) /\ i.name.name \in DOMAIN w THEN w[i.name.name] ELSE None
Got(f, t) == IF f \in DOMAIN t THEN t[f] ELSE None

(***************************************************************************)
(* The library, given the configuration c and what was read, t.            *)
(***************************************************************************)
\* client_builder: the resolved snapshot as ClientConfig and profile.
ClientSettings(c, t) ==
  [server_addr |-> c.server_addr, tls_server_name |-> c.tls_server_name,
   ca_pem |-> Got("ca_cert", t), services |-> c.services, transport |-> c.transport,
   outbound_proxy |-> Got("outbound_proxy_env", t),
   identity |-> IF Given(c.client_cert)
                THEN [cert |-> Got("client_cert", t), key |-> Got("client_key", t)] ELSE None]

\* server_builder: ServerConfig and profile; its bind policy.
ServerSettings(c, t) ==
  [certificate_pem |-> Got("tls_cert", t), private_key_pem |-> Got("tls_key", t),
   client_ca |-> Got("client_ca", t), transport |-> c.transport,
   allow_public_service_binds |-> c.allow_public_service_binds]
ServerPolicy(c) == [BindPolicyDefault EXCEPT !.allow_public = c.allow_public_service_binds]

\* ClientBuilder::validate and ServerBuilder::validate.
ClientValidates(c, t) == ClientProfileValid(ClientSettings(c, t), RuntimeDefault)
ServerValidates(c, t) ==
  ServerProfileValid(WithBindPolicy(ServerSettings(c, t), ServerPolicy(c)), ServerPolicy(c), RuntimeDefault)
Validates(c, t) == IF c.mode = "client" THEN ClientValidates(c, t) ELSE ServerValidates(c, t)

\* Seeded fault: the start goes straight to the transport.
StartTrusts(c, t) == TRUE

\* Client::start_profile and ServerBuilder::bind validate before anything else.
StartValidates(c, t) == Validates(c, t)

\* start_profile and bind_profile, before a socket is opened: a client over
\* QUIC builds its TLS configuration only when it connects.
Builds(c, t) ==
  IF c.mode = "client" THEN ClientMaterial(ClientSettings(c, t))
  ELSE ServerMaterial(ServerSettings(c, t))
LateTls(c) == c.mode = "client" /\ c.transport = "quic"

\* From<TunnelError>: the category of an error of the library.
Category(error) ==
  CASE error = "Tls" -> "tls_material"
    [] error = "Configuration" -> "profile_validation"
    [] error = "Io" -> "runtime_start"

\* bind_with_tls_profile and bind_quic_profile: the error of a bind that fails.
BindFailure(c) == IF c.transport = "quic" THEN "Tls" ELSE "Io"

\* check_report_ok, check_report_err, and the options of what is started.  Only
\* the fields of its mode count; those of an unknown mode all do.
CaFields(mode) ==
  CASE mode = "client" -> {"ca_cert"}
    [] mode = "server" -> {}
    [] OTHER -> {"ca_cert", "client_ca"}
MtlsFields(mode) ==
  CASE mode = "client" -> {"client_cert", "client_key"}
    [] mode = "server" -> {"client_ca"}
    [] OTHER -> {"client_cert", "client_ca"}
Options(c) ==
  [mode |-> c.mode, transport |-> c.transport, services |-> Len(c.services),
   custom_ca |-> \E f \in CaFields(c.mode) : Given(c[f]),
   mtls |-> \E f \in MtlsFields(c.mode) : Given(c[f]),
   outbound_proxy |-> Given(c.outbound_proxy_env)]

(***************************************************************************)
(* An invocation.                                                          *)
(***************************************************************************)
\* The process ends with an error, or check with its verdict.
End(v) ==
  /\ verdict' = v
  /\ IF cmd.verb = "check"
     THEN /\ checked' = [verdict |-> v, options |-> IF Given(cfg) THEN Options(cfg) ELSE None]
          /\ pc' = "idle"
     ELSE pc' = "failed" /\ UNCHANGED checked
  /\ cfg' = None /\ todo' = <<>> /\ taken' = Empty
  /\ UNCHANGED asked

\* main; the interval is validated before anything is read.
Launch(c) ==
  /\ pc = "idle" /\ (c.verb = "check" => ~Given(cmd))
  /\ cmd' = c
  /\ touched' = IF c.verb = "check" THEN FALSE ELSE touched
  /\ IF c.interval < MinSnapshotInterval
     THEN verdict' = "config_resolution" /\ pc' = "failed"
     ELSE verdict' = "ok" /\ pc' = "parse"
  /\ UNCHANGED <<file, world, changes, checked, resolveVars, running, policy, loopVars>>

\* read_config, then the overrides.
ReadConfig ==
  /\ pc = "parse"
  /\ IF file = Unreadable THEN End("config_parse")
     ELSE IF ~Overridable(file, cmd.over) THEN End("config_resolution")
     ELSE /\ cfg' = Overridden(file, cmd.over)
          /\ asked' = (\/ file.allow_public_service_binds
                       \/ "allow_public_service_binds" \in DOMAIN cmd.over)
          /\ pc' = "resolve"
          /\ UNCHANGED <<checked, verdict, todo, taken>>
  /\ UNCHANGED <<inputVars, cmd, running, policy, loopVars>>

\* The checks that need no input.
Resolve ==
  /\ pc = "resolve"
  /\ LET v == Structure(cmd.verb, cfg)
     IN  IF v # "ok" THEN End(v)
         ELSE /\ todo' = Inputs(cfg) /\ pc' = "inputs"
              /\ UNCHANGED <<checked, verdict, cfg, asked, taken>>
  /\ UNCHANGED <<inputVars, cmd, running, policy, loopVars>>

Take(i) ==
  /\ taken' = [f \in DOMAIN taken \cup {i.field} |->
                 IF f = i.field THEN Held(i, world) ELSE taken[f]]
  /\ todo' = Tail(todo) /\ pc' = "inputs"
  /\ UNCHANGED <<checked, verdict, cfg, asked>>

\* The next input is a variable.
ReadVariable ==
  /\ pc = "inputs" /\ todo # <<>> /\ IsVariable(Head(todo).field)
  /\ LET v == VariableError(Head(todo), Held(Head(todo), world))
     IN  IF v = "ok" THEN Take(Head(todo)) ELSE End(v)
  /\ UNCHANGED <<inputVars, cmd, running, policy, loopVars>>

\* The next input is a file: its metadata come first ...
StatFile ==
  /\ pc = "inputs" /\ todo # <<>> /\ ~IsVariable(Head(todo).field)
  /\ LET v == StatError(Held(Head(todo), world))
     IN  IF v = "ok" THEN pc' = "read" /\ UNCHANGED <<checked, verdict, resolveVars>>
         ELSE End(v)
  /\ UNCHANGED <<inputVars, cmd, running, policy, loopVars>>

\* ... and it may be another file by the time it is read.
ReadFile ==
  /\ pc = "read"
  /\ LET v == BytesError(Held(Head(todo), world))
     IN  IF v = "ok" THEN Take(Head(todo)) ELSE End(v)
  /\ UNCHANGED <<inputVars, cmd, running, policy, loopVars>>

\* Everything is read: the Services are resolved, the builder validates.
Lower ==
  /\ pc = "inputs" /\ todo = <<>>
  /\ IF ~ServicesResolve(cfg) THEN End("config_resolution")
     ELSE IF cmd.verb = "check"
     THEN End(IF Validates(cfg, taken) THEN "ok" ELSE Category("Configuration"))
     ELSE IF ~StartValidates(cfg, taken) THEN End(Category("Configuration"))
     ELSE pc' = "build" /\ UNCHANGED <<checked, verdict, resolveVars>>
  /\ UNCHANGED <<inputVars, cmd, running, policy, loopVars>>

\* The TLS configuration is built from the material.
Build ==
  /\ pc = "build"
  /\ \/ /\ LateTls(cfg) \/ Builds(cfg, taken)
        /\ pc' = "open" /\ UNCHANGED <<checked, verdict, resolveVars>>
     \/ ~LateTls(cfg) /\ End(Category("Tls"))
  /\ UNCHANGED <<inputVars, cmd, running, policy, loopVars>>

BindFails ==
  /\ cfg.mode = "server" /\ End(Category(BindFailure(cfg)))
  /\ UNCHANGED <<running, policy>>

\* The runtime runs with what was resolved, which the process then lets go of.
Started ==
  /\ running' = Options(cfg) /\ policy' = ServerPolicy(cfg)
  /\ pc' = "up"
  /\ cfg' = None /\ todo' = <<>> /\ taken' = Empty
  /\ UNCHANGED <<checked, verdict, asked>>

\* A server binds its socket; a client starts its supervisor.
Open ==
  /\ pc = "open"
  /\ BindFails \/ Started
  /\ UNCHANGED <<inputVars, cmd, loopVars>>

Resolving == ReadConfig \/ Resolve \/ ReadVariable \/ StatFile \/ ReadFile \/ Lower \/ Build \/ Open

(***************************************************************************)
(* The loop.                                                               *)
(***************************************************************************)
Serving == pc = "loop" /\ running.mode = "server"
Dialling == pc = "loop" /\ running.mode = "client"

\* The startup lines are printed and the loop polls its arms for the first
\* time: only now does the process handle SIGINT.  A tick that wins the first
\* select! before ctrl_c was polled is still on the way to it.  The report of check
\* has been compared with the start and is forgotten.
EnterLoop ==
  /\ pc = "up" \/ (pc = "loop" /\ handler = "idle")
  /\ pc' = "loop" /\ handler' = "live"
  /\ checked' = None /\ touched' = TRUE
  /\ UNCHANGED <<file, world, changes, cmd, resolveVars, verdict, running, policy,
                 signal, signalled, bindVars, linkVars>>

\* Seeded fault: ctrl_c() is called again in every round of the loop.
RebuildListener == "idle"

\* One ctrl_c() for the whole loop: it goes on listening between the rounds.
KeepListener == "live"

\* Seeded fault: a bind is recognised by its address alone.
KeyOfAddress(b) == <<b.address, b.port>>

Key(b) == b

\* run_server: forget the keys that are gone, print the new ones.
RefreshBinds ==
  /\ Serving /\ handler = "live"
  /\ LET live == {Key(b) : b \in binds}
         kept == printed \cap live
     IN  /\ printed' = kept \cup live
         /\ announced' = announced \cup {b \in binds : Key(b) \notin kept}
  /\ handler' = KeepListener
  /\ UNCHANGED <<inputVars, checked, cmd, pc, resolveVars, verdict, running, policy,
                 signal, signalled, binds, bound, linkVars>>

\* run_client under --json: the snapshot loads connected first ...
LoadConnected ==
  /\ Dialling /\ cmd.json /\ handler = "live" /\ sample = None
  /\ sample' = [connected |-> link.connected]
  /\ UNCHANGED <<inputVars, checked, cmd, pc, resolveVars, verdict, running, policy,
                 signalVars, bindVars, link, was, event>>

\* ... then the rest, and a change of connected is reported.
ReportSession ==
  /\ Dialling /\ Given(sample)
  /\ event' = IF sample.connected /\ ~was
              THEN IF link.services = 0 THEN "ready without Services" ELSE "ready"
              ELSE IF ~sample.connected /\ was
              THEN IF link.cause = "none" THEN "lost without cause" ELSE "lost"
              ELSE event
  /\ was' = sample.connected
  /\ sample' = None
  /\ handler' = KeepListener
  /\ UNCHANGED <<inputVars, checked, cmd, pc, resolveVars, verdict, running, policy,
                 signal, signalled, bindVars, link>>

\* The loop sees the signal and asks the runtime to shut down.
Break ==
  /\ pc = "loop" /\ signal
  /\ pc' = "stopping" /\ signal' = FALSE
  /\ UNCHANGED <<inputVars, checked, cmd, resolveVars, verdict, running, policy,
                 handler, signalled, bindVars, linkVars>>

\* Server::shutdown or Client::shutdown returns (modules Admission, Reconnect).
Exit ==
  /\ pc = "stopping"
  /\ pc' = "exited"
  /\ binds' = {} /\ printed' = {} /\ link' = Away /\ sample' = None
  /\ UNCHANGED <<inputVars, checked, cmd, resolveVars, verdict, running, policy, signalVars,
                 bound, announced, was, event>>

(***************************************************************************)
(* The environment.                                                        *)
(***************************************************************************)
\* The inputs that may still be read: those the file or a flag names, and once
\* resolution has begun those it has not come to yet.
Unread ==
  IF pc \in {"inputs", "read"}
  THEN {n \in DOMAIN world : \E i \in DOMAIN todo : todo[i].name = [name |-> n]}
  ELSE {n \in DOMAIN world :
          \/ file # Unreadable /\ \E f \in InputFields : file[f] = [name |-> n]
          \/ Given(cmd) /\ \E f \in InputFields \cap DOMAIN cmd.over : cmd.over[f] = [name |-> n]}

\* An input, or the file itself, changes while it may still be read.
Change ==
  /\ changes < MaxChanges
  /\ changes' = changes + 1 /\ touched' = TRUE
  /\ \/ /\ pc \in {"idle", "parse", "resolve", "inputs", "read"}
        /\ \E n \in Unread : \E v \in Contents[n] \ {world[n]} :
             world' = [world EXCEPT ![n] = v]
        /\ UNCHANGED file
     \/ /\ pc \in {"idle", "parse"}
        /\ file' \in Spoiled \ {file} /\ UNCHANGED world
  /\ UNCHANGED <<checked, cmd, pc, resolveVars, verdict, running, policy, loopVars>>

\* SIGINT: it kills a process that has not asked for it; one that has ignores it
\* while nobody listens.
Signal ==
  /\ Given(cmd) /\ cmd.verb # "check" /\ ~signalled
  /\ pc \in {"parse", "resolve", "inputs", "read", "build", "open", "up", "loop"}
  /\ signalled' = TRUE
  /\ IF handler = "none"
     THEN /\ pc' = "killed" /\ cfg' = None /\ todo' = <<>> /\ taken' = Empty
          /\ UNCHANGED <<asked, signal>>
     ELSE signal' = (pc = "loop" /\ handler = "live") /\ UNCHANGED <<pc, resolveVars>>
  /\ UNCHANGED <<inputVars, checked, cmd, verdict, running, policy, handler,
                 bindVars, linkVars>>

\* A Session asks the server for a bind, which the policy permits or not; each has
\* one Service, so that the Session stands for the ServiceId of the key too.
Bind(r) ==
  /\ Serving /\ bound < MaxBinds
  /\ BindToSocket(policy, r[1], r[2])
  /\ r[2] = 0 \/ \A b \in binds : <<b.address, b.port>> # r
  /\ bound' = bound + 1
  /\ binds' = binds \cup {[session |-> bound', address |-> r[1], port |-> r[2]]}
  /\ UNCHANGED <<inputVars, checked, cmd, pc, resolveVars, verdict, running, policy,
                 signalVars, printed, announced, linkVars>>

\* A Service is unregistered or its Session ends.
Unbind ==
  /\ Serving
  /\ \E b \in binds : binds' = binds \ {b}
  /\ UNCHANGED <<inputVars, checked, cmd, pc, resolveVars, verdict, running, policy,
                 signalVars, bound, printed, announced, linkVars>>

\* The client's Session, one store at a time: connected, then the Services when
\* it is ready; connected, the Services and the cause when it has ended, after
\* which the supervisor tries again or stops for good.
Store ==
  /\ Dialling
  /\ \/ /\ link.stage = "away" /\ link.session < MaxSessions
        /\ link' = [link EXCEPT !.connected = TRUE, !.stage = "ready", !.session = @ + 1]
     \/ /\ link.stage = "ready"
        /\ link' = [link EXCEPT !.services = running.services, !.stage = "registered"]
     \/ /\ link.stage = "registered"
        /\ link' = [link EXCEPT !.connected = FALSE, !.stage = "lost"]
     \/ /\ link.stage = "lost"
        /\ link' = [link EXCEPT !.services = 0, !.stage = "cleared"]
     \/ /\ link.stage = "cleared"
        /\ \E c \in {"cause"}, s \in {"away", "stopped"} :
             link' = [link EXCEPT !.cause = c, !.stage = s]
     \/ /\ link.stage = "away"
        /\ link' = [link EXCEPT !.cause = "cause", !.stage = "stopped"]
  /\ UNCHANGED <<inputVars, checked, cmd, pc, resolveVars, verdict, running, policy,
                 signalVars, bindVars, sample, was, event>>

(***************************************************************************)
(* The specification.                                                      *)
(***************************************************************************)
Next ==
  \/ \E c \in Commands : Launch(c)
  \/ Resolving \/ EnterLoop \/ RefreshBinds \/ LoadConnected \/ ReportSession
  \/ Break \/ Exit
  \/ Change \/ Signal \/ (\E r \in Requests : Bind(r)) \/ Unbind \/ Store

Spec == Init /\ [][Next]_vars

\* The process runs and its timers fire; operators, signals, Sessions and
\* changes of the inputs come or do not come.
Fairness == WF_vars(Resolving \/ EnterLoop \/ Break \/ Exit)
            /\ WF_vars(RefreshBinds \/ LoadConnected \/ ReportSession)

FairSpec == Spec /\ Fairness

(***************************************************************************)
(* Properties.                                                             *)
(***************************************************************************)
Finished == pc \in {"failed", "up", "loop", "stopping", "exited"}

\* What check says is what a start without flags would meet, if nothing has
\* changed in between: the same error, or none but those of building the TLS
\* configuration and binding the socket, and the options it reports.
CheckPredictsStart ==
  (/\ Finished /\ Given(checked) /\ ~touched
   /\ cmd.over = Empty /\ cmd.interval >= MinSnapshotInterval
   /\ Given(checked.options) => checked.options.mode = cmd.verb)
  => IF checked.verdict = "ok"
     THEN /\ verdict \in {"ok", "tls_material", "runtime_start"}
          /\ Given(running) => running = checked.options
     ELSE verdict = checked.verdict

\* main.rs: "Later stages consume the snapshot and never re-read inputs".  The
\* library only ever gets a usable token and material that is neither empty nor
\* beyond the cap, however the inputs change between metadata and read.
SnapshotSound ==
  pc \in {"build", "open"} =>
    /\ SecretToken(taken["token_env"])
    /\ \A f \in DOMAIN taken : ~IsVariable(f) => taken[f].len \in 1..MaxFrameBytes

\* A listener on a public address exists only if the file or a flag asked for it,
\* through overrides, resolution, builder and bind policy.
PublicOnlyByConsent == \A b \in binds : IsLoopback(b.address) \/ asked

\* While the program runs, every bind that stays is announced and every change of
\* the Session that lasts is reported.
Announced ==
  /\ (Serving /\ ~(binds \subseteq announced)) ~> (pc # "loop" \/ binds \subseteq announced)
  /\ (Dialling /\ cmd.json /\ link.connected # was) ~> (pc # "loop" \/ link.connected = was)

\* No signal falls between two rounds of the loop: once one was sent the process
\* is dead, is shutting down, or its loop is going to see it.
NoSignalLost ==
  signalled => pc \in {"killed", "stopping", "exited"} \/ (pc = "loop" /\ signal)

\* A signal ends the process, whenever it comes.
SignalEnds == signalled ~> pc \in {"killed", "exited", "failed"}

\* OPERATIONS.md: "Client stops retrying and exits".
StoppedClientExits == (link.stage = "stopped") ~> (pc \in {"killed", "exited"})

\* OPERATIONS.md: session_ready carries the registered Services, session_lost the
\* termination category.
EventsComplete == event \notin {"ready without Services", "lost without cause"}

=============================================================================
