------------------------------ MODULE Ingress ------------------------------
(***************************************************************************)
(* From a connection to a Session, over every transport: a client that     *)
(* establishes (client/reconnect.rs) and runs the handshake of run_session *)
(* (client.rs), the server's handle_connection and handle_quic_connection  *)
(* (server/accept.rs) and its serve_control (server/control.rs), a task of *)
(* its own under QUIC.                                                     *)
(*                                                                         *)
(* TLS and the WebSocket upgrade are an exchange of messages of their own. *)
(* Writes of a handshake fit the buffers of the transport; frames are      *)
(* whole (module WireIO has their parts and the write timeouts).  The      *)
(* slots of admission are those of Admission, the limiter is AuthLimiter:  *)
(* here it may call any source blocked.  A Session is reduced to how it    *)
(* ends, a data stream to the task that waits for its DataHello.           *)
(***************************************************************************)
EXTENDS Integers, Sequences, FiniteSets

CONSTANTS
  Setups,      \* the two ends: transports, releases, token, certificate, proxy
  MaxAttempts, \* bound: attempts of the client
  MaxSessions, \* sessions
  MaxStreams,  \* data streams a QUIC connection may have under way
  MaxOpened    \* bound: data streams open at a time

ASSUME IngressAssumption ==
  /\ MaxAttempts \in Nat /\ MaxSessions \in Nat /\ MaxStreams \in Nat /\ MaxOpened \in Nat

VARIABLES
  setup,     \* the one of Setups that holds
  attempt,   \* the client's attempt, which also names the connection it makes
  stage,     \* where the client is
  outcome,   \* outcome[n]: how attempt n ended
  agreed,    \* the capabilities run_session has negotiated
  slot,      \* QuicTransport: the attempt whose client is in the slot, or 0
  dialled,   \* QUIC clients that have not been closed
  up, down,  \* up[n], down[n]: messages to the server, to the client
  left,      \* connections the client has dropped
  lost,      \* connections that are broken or closed for both ends
  handler,   \* handler[n]: where the task of connection n is
  control,   \* control[n]: where serve_control is
  offer,     \* offer[n]: the ClientHello
  granted,   \* granted[n]: the capabilities serve_control has negotiated
  registry,  \* Sessions
  opened,    \* opened[n]: data streams not accepted yet
  streams,   \* streams[n]: data stream tasks
  dropped,   \* connections whose JoinSet of data stream tasks was dropped, not joined
  shutdown,  \* "up", "draining" or "stopped"
  cut,       \* Sessions whose cancel token is cancelled
  why,       \* history: why[n], what the server had against n
  told,      \* history: Sessions that were sent Drain
  disturbed  \* history: connections hit by a loss, a timer, a shutdown

clientVars == <<attempt, stage, outcome, agreed, slot, dialled>>
serverVars == <<handler, control, offer, granted, registry, opened, streams, dropped,
                shutdown, cut, why, told>>
vars == <<setup, clientVars, up, down, left, lost, serverVars, disturbed>>

Attempts == 1..MaxAttempts
Quic == setup.transport = "quic"
None == [kind |-> "none"]

Init ==
  /\ setup \in Setups
  /\ attempt = 0 /\ stage = "idle" /\ outcome = [n \in Attempts |-> "none"]
  /\ agreed = {} /\ slot = 0 /\ dialled = {}
  /\ up = [n \in Attempts |-> <<>>] /\ down = [n \in Attempts |-> <<>>]
  /\ left = {} /\ lost = {}
  /\ handler = [n \in Attempts |-> "none"] /\ control = [n \in Attempts |-> "none"]
  /\ offer = [n \in Attempts |-> None] /\ granted = [n \in Attempts |-> {}]
  /\ registry = {}
  /\ opened = [n \in Attempts |-> 0] /\ streams = [n \in Attempts |-> 0]
  /\ dropped = {}
  /\ shutdown = "up" /\ cut = {}
  /\ why = [n \in Attempts |-> "nothing"] /\ told = {} /\ disturbed = {}

(***************************************************************************)
(* The wire.                                                               *)
(***************************************************************************)
Msg(k) == [kind |-> k]
Hello(k, major, caps) == [kind |-> k, major |-> major, caps |-> caps]

\* Capabilities::intersect: identifiers unknown to either drop out.
Intersect(mine, theirs) == mine \cap theirs

\* The server has no task left that holds the stream.
Gone(n) == handler[n] = "done" /\ control[n] \in {"none", "ended"}

\* Nothing gets through once a connection is broken; what was sent before and not
\* read yet may or may not have.
Break(n) ==
  /\ lost' = lost \cup {n}
  /\ up' \in {up, [up EXCEPT ![n] = <<>>]}
  /\ down' \in {down, [down EXCEPT ![n] = <<>>]}

(***************************************************************************)
(* The client.                                                             *)
(***************************************************************************)
\* Seeded fault: the QUIC client is given up only once it was established.
CloseEstablished == IF stage = "get" THEN dialled ELSE dialled \ {attempt}

\* Transport::close.
CloseClient == dialled \ {attempt}

\* run_session or establish returns, close, finish: an error that is terminal
\* stops the supervisor.  Dropping a stream leaves what was sent; closing a QUIC
\* connection breaks it.
Finish(how) ==
  /\ stage' = IF how \in {"stopped", "cancelled"} THEN "done" ELSE "idle"
  /\ outcome' = [outcome EXCEPT ![attempt] = how]
  /\ dialled' = CloseClient /\ slot' = 0
  /\ left' = left \cup {attempt}
  /\ IF Quic THEN Break(attempt)
     ELSE down' = [down EXCEPT ![attempt] = <<>>] /\ UNCHANGED <<lost, up>>
  /\ UNCHANGED <<setup, attempt, agreed, serverVars>>

Say(n, ms) == up' = [up EXCEPT ![n] = IF n \in lost THEN @ ELSE @ \o ms]
Heard(n) == down' = [down EXCEPT ![n] = Tail(@)]
Greeting == Hello("ClientHello", setup.client.major, setup.client.caps)

\* A step of establish or the handshake that goes on.
Proceeds == UNCHANGED <<setup, attempt, outcome, slot, dialled, left, lost, serverVars, disturbed>>

\* server_loop and quic_server_loop: a handler for the connection.
TcpHandler(n) == handler' = [handler EXCEPT ![n] = "tls"]
QuicHandler(n) == handler' = [handler EXCEPT ![n] = "stream"]

\* drive: the next attempt.
Attempt ==
  /\ stage = "idle" /\ attempt < MaxAttempts
  /\ attempt' = attempt + 1 /\ stage' = "connect" /\ agreed' = {}
  /\ UNCHANGED <<setup, outcome, slot, dialled, up, down, left, lost, serverVars, disturbed>>

\* connect_tcp, straight or through a proxy, and server_loop's accept.
ConnectTcp ==
  /\ stage = "connect" /\ ~Quic /\ shutdown = "up"
  /\ stage' = "tls" /\ Say(attempt, <<Msg("tls")>>)
  /\ TcpHandler(attempt)
  /\ UNCHANGED <<setup, attempt, outcome, agreed, slot, dialled, down, left, lost, control,
                 offer, granted, registry, opened, streams, dropped, shutdown, cut, why, told,
                 disturbed>>

\* connect_tcp: the proxy refuses credentials or the destination.
ProxyRefuses ==
  /\ stage = "connect" /\ ~Quic /\ setup.proxy
  /\ Finish("stopped") /\ UNCHANGED disturbed

\* QuicTransport::establish: the client goes into the slot before its connection
\* is asked for; quic_server_loop accepts.
ConnectQuic ==
  /\ stage = "connect" /\ Quic /\ shutdown = "up"
  /\ stage' = "get" /\ slot' = attempt /\ dialled' = dialled \cup {attempt}
  /\ QuicHandler(attempt)
  /\ UNCHANGED <<setup, attempt, outcome, agreed, up, down, left, lost, control, offer,
                 granted, registry, opened, streams, dropped, shutdown, cut, why, told, disturbed>>

\* ... then the control stream, on which run_session writes ClientHello.
OpenControlStream ==
  /\ stage = "get" /\ attempt \notin lost
  /\ stage' = "hello" /\ Say(attempt, <<Greeting>>)
  /\ UNCHANGED <<agreed, down>> /\ Proceeds

Receives(s) == stage = s /\ down[attempt] # <<>>
Message == Head(down[attempt])

\* tls_connect succeeds; the upgrade or ClientHello follows.
TlsConnected ==
  /\ Receives("tls") /\ Message.kind = "tls"
  /\ stage' = IF setup.transport = "websocket_tls" THEN "upgrade" ELSE "hello"
  /\ Say(attempt, <<Msg("finished"),
                    IF setup.transport = "websocket_tls" THEN Msg("upgrade") ELSE Greeting>>)
  /\ Heard(attempt)
  /\ UNCHANGED agreed /\ Proceeds

\* connect_over_stream_with_config succeeds.
Upgraded ==
  /\ Receives("upgrade")
  /\ stage' = "hello" /\ Say(attempt, <<Greeting>>) /\ Heard(attempt)
  /\ UNCHANGED agreed /\ Proceeds

\* run_session: only what both advertise counts as negotiated.
ReadServerHello ==
  /\ Receives("hello")
  /\ IF Message.kind = "ServerHello" /\ Message.major = setup.client.major
     THEN /\ agreed' = Intersect(setup.client.caps, Message.caps)
          /\ stage' = "auth" /\ Say(attempt, <<Msg("Auth")>>) /\ Heard(attempt)
          /\ UNCHANGED <<setup, attempt, outcome, slot, dialled, left, lost, serverVars>>
     ELSE Finish("failed")
  /\ UNCHANGED disturbed

\* Anything but AuthOk is an authentication failure, which is terminal.
ReadAuthOk ==
  /\ Receives("auth")
  /\ IF Message.kind = "AuthOk"
     THEN /\ stage' = "session" /\ Heard(attempt)
          /\ UNCHANGED <<setup, attempt, outcome, agreed, slot, dialled, up, left, lost,
                         serverVars>>
     ELSE Finish("stopped")
  /\ UNCHANGED disturbed

\* Drain ends the Session, and another attempt follows.
ReadDrain ==
  /\ Receives("session")
  /\ Finish("ended") /\ UNCHANGED disturbed

\* The stream ends or breaks.
ClientReadFails ==
  /\ stage \in {"get", "tls", "upgrade", "hello", "auth", "session"} /\ down[attempt] = <<>>
  /\ Gone(attempt) \/ attempt \in lost
  /\ Finish(IF stage = "session" THEN "ended" ELSE "failed")
  /\ UNCHANGED disturbed

\* The connection cannot be made, or a timeout of establish or the handshake
\* runs out.
ClientTimeout ==
  /\ stage \in {"connect", "get", "tls", "upgrade", "hello", "auth"}
  /\ Finish("failed")
  /\ disturbed' = disturbed \cup {attempt}

\* Client::shutdown, seen by the select! of drive.
ClientCancel ==
  /\ stage \notin {"idle", "done"}
  /\ Finish("cancelled")
  /\ disturbed' = disturbed \cup {attempt}

\* A data stream of the Session.
OpenDataStream ==
  /\ stage = "session" /\ Quic /\ attempt \notin lost
  /\ opened[attempt] + streams[attempt] < MaxOpened
  /\ opened' = [opened EXCEPT ![attempt] = @ + 1]
  /\ UNCHANGED <<setup, clientVars, up, down, left, lost, handler, control, offer, granted,
                 registry, streams, dropped, shutdown, cut, why, told, disturbed>>

ClientStep ==
  \/ OpenControlStream \/ TlsConnected \/ Upgraded \/ ReadServerHello
  \/ ReadAuthOk \/ ReadDrain \/ ClientReadFails

(***************************************************************************)
(* The connection's task on the server.                                    *)
(***************************************************************************)
Got(n, h) == handler[n] = h /\ up[n] # <<>>
Read(n) == up' = [up EXCEPT ![n] = Tail(@)]
Answer(n, ms) == down' = [down EXCEPT ![n] = IF n \in lost THEN @ ELSE @ \o ms]
At(n, h) == handler' = [handler EXCEPT ![n] = h]
Blame(n, w) == why' = [why EXCEPT ![n] = w]

\* A step of the task of n that is no end of it.
Goes(n) ==
  UNCHANGED <<setup, clientVars, left, lost, control, offer, granted, registry, opened,
              streams, dropped, shutdown, cut, told, disturbed>>

\* accept_tls: the server's part comes before it has seen the client's certificate.
AcceptTls(n) ==
  /\ Got(n, "tls")
  /\ At(n, "finished") /\ Read(n) /\ Answer(n, <<Msg("tls")>>)
  /\ UNCHANGED why /\ Goes(n)

\* accept_tls returns: with mTLS the certificate may be refused.
TlsAccepted(n) ==
  /\ Got(n, "finished") /\ Read(n)
  /\ IF setup.certificate
     THEN /\ At(n, IF setup.serves = "websocket_tls" THEN "upgrade" ELSE "first")
          /\ UNCHANGED why
     ELSE At(n, "done") /\ Blame(n, "certificate")
  /\ UNCHANGED down /\ Goes(n)

\* upgrade_websocket.
UpgradeWebsocket(n) ==
  /\ Got(n, "upgrade") /\ Read(n)
  /\ IF Head(up[n]).kind = "upgrade"
     THEN At(n, "first") /\ Answer(n, <<Msg("upgraded")>>) /\ UNCHANGED why
     ELSE At(n, "done") /\ Blame(n, "transport") /\ UNCHANGED down
  /\ Goes(n)

\* handle_quic_connection: the first stream is the control stream.
AcceptControlStream(n) ==
  /\ Got(n, "stream")
  /\ At(n, "first")
  /\ UNCHANGED <<up, down, why>> /\ Goes(n)

\* serve_control is called, or under QUIC spawned.
StartControl(n) ==
  /\ control' = [control EXCEPT ![n] = "hello"]
  /\ offer' = [offer EXCEPT ![n] = Head(up[n])]

\* decode_frame: no frame of this protocol, or one of another major version.
Unreadable(m) ==
  IF m.kind # "ClientHello" THEN "transport"
  ELSE IF m.major # setup.server.major THEN "version" ELSE "nothing"

\* The first message decides the role; a DataHello is Correlation's.  One that cannot
\* be read ends the task without an answer.
ReadFirst(n) ==
  /\ Got(n, "first") /\ Read(n)
  /\ IF Unreadable(Head(up[n])) = "nothing"
     THEN /\ At(n, IF Quic THEN "loop" ELSE "control")
          /\ StartControl(n)
          /\ UNCHANGED why
     ELSE /\ At(n, "done") /\ Blame(n, Unreadable(Head(up[n])))
          /\ UNCHANGED <<control, offer>>
  /\ UNCHANGED <<setup, clientVars, down, left, lost, granted, registry, opened, streams,
                 dropped, shutdown, cut, told, disturbed>>

Waiting(n) == handler[n] \in {"tls", "finished", "upgrade", "stream", "first"}

\* A read ends or breaks; accept_tls and the wait for the control stream also
\* watch the cancel token.
HandlerFails(n) ==
  /\ Waiting(n)
  /\ \/ up[n] = <<>> /\ n \in left \cup lost
     \/ shutdown # "up" /\ handler[n] \in {"tls", "finished", "stream"}
  /\ At(n, "done")
  /\ UNCHANGED <<up, down, why>> /\ Goes(n)

HandlerTimeout(n) ==
  /\ Waiting(n)
  /\ At(n, "done") /\ disturbed' = disturbed \cup {n}
  /\ UNCHANGED <<setup, clientVars, up, down, left, lost, control, offer, granted, registry,
                 opened, streams, dropped, shutdown, cut, why, told>>

(***************************************************************************)
(* serve_control.                                                          *)
(***************************************************************************)
To(n, c) == control' = [control EXCEPT ![n] = c]

ControlFrame ==
  UNCHANGED <<setup, clientVars, left, lost, offer, opened, streams, dropped, shutdown, cut>>

\* It returns: its guards are dropped, and over a stream so is the connection.
Return(n) ==
  /\ To(n, "ended")
  /\ registry' = registry \ {n}
  /\ handler' = [handler EXCEPT ![n] = IF @ = "control" THEN "done" ELSE @]

\* Seeded fault: the server grants all it has.
GrantAll(n) == setup.server.caps

Negotiate(n) == Intersect(setup.server.caps, offer[n].caps)

\* Seeded fault: Auth must be there before ServerHello is written.
ControlHelloLate(n) ==
  /\ control[n] = "hello" /\ up[n] # <<>>
  /\ granted' = [granted EXCEPT ![n] = Negotiate(n)]
  /\ Answer(n, <<Hello("ServerHello", setup.server.major, granted'[n])>>)
  /\ To(n, "auth")
  /\ UNCHANGED <<up, handler, registry, why, told, disturbed>> /\ ControlFrame

\* The version in the ClientHello is looked at once more; a peer whose frames could
\* be read has the server's.  ServerHello goes out before the token is read.
ControlHello(n) ==
  /\ control[n] = "hello"
  /\ IF offer[n].major # setup.server.major
     THEN To(n, "rejecting") /\ Blame(n, "version") /\ UNCHANGED <<granted, down>>
     ELSE /\ granted' = [granted EXCEPT ![n] = Negotiate(n)]
          /\ Answer(n, <<Hello("ServerHello", setup.server.major, granted'[n])>>)
          /\ To(n, "auth") /\ UNCHANGED why
  /\ UNCHANGED <<up, handler, registry, told, disturbed>> /\ ControlFrame

\* The token is verified and the source looked up.
ControlAuth(n) ==
  /\ control[n] = "auth" /\ up[n] # <<>> /\ Read(n)
  /\ \/ setup.token /\ To(n, "enter") /\ UNCHANGED why
     \/ To(n, "rejecting") /\ Blame(n, "refused")
  /\ UNCHANGED <<down, handler, granted, registry, told, disturbed>> /\ ControlFrame

\* reject_authentication: the delay, the answer, the error.
ControlReject(n) ==
  /\ control[n] = "rejecting"
  /\ Answer(n, <<Msg("Error")>>) /\ Return(n)
  /\ UNCHANGED <<up, granted, why, told, disturbed>> /\ ControlFrame

\* The cancel token of the connection: a child of the server's.
Cancelled(n) == shutdown # "up" \/ handler[n] = "joining"

\* Seeded fault: a server at its limit answers as it does to a bad token.
EnterAnswered(n) ==
  /\ control[n] = "enter"
  /\ IF Cancelled(n) \/ Cardinality(registry) >= MaxSessions
     THEN Return(n) /\ Blame(n, "unavailable") /\ Answer(n, <<Msg("Error")>>)
     ELSE /\ registry' = registry \cup {n} /\ To(n, "welcome") /\ UNCHANGED <<handler, down, why>>
  /\ UNCHANGED <<up, granted, told, disturbed>> /\ ControlFrame

\* The Session is registered, if there is room, before the client hears of it.
ControlEnter(n) ==
  /\ control[n] = "enter"
  /\ IF Cancelled(n) \/ Cardinality(registry) >= MaxSessions
     THEN Return(n) /\ Blame(n, "unavailable")
     ELSE registry' = registry \cup {n} /\ To(n, "welcome") /\ UNCHANGED <<handler, why>>
  /\ UNCHANGED <<up, down, granted, told, disturbed>> /\ ControlFrame

ControlWelcome(n) ==
  /\ control[n] = "welcome"
  /\ Answer(n, <<Msg("AuthOk")>>) /\ To(n, "serving")
  /\ UNCHANGED <<up, handler, granted, registry, why, told, disturbed>> /\ ControlFrame

\* Seeded fault: a connection that breaks is not noticed by those who read.
BrokenIfLeft(n) == up[n] = <<>> /\ n \in left \ lost

Broken(n) == up[n] = <<>> /\ n \in left \cup lost

\* A read ends or breaks, or the drain has cancelled the Session.
ControlFails(n) ==
  /\ \/ control[n] \in {"auth", "serving"} /\ Broken(n)
     \/ control[n] = "serving" /\ n \in cut
  /\ Return(n)
  /\ UNCHANGED <<up, down, granted, why, told, disturbed>> /\ ControlFrame

\* The handshake timeout, or the idle timeout of the Session.
ControlTimeout(n) ==
  /\ control[n] \in {"auth", "serving"}
  /\ Return(n) /\ disturbed' = disturbed \cup {n}
  /\ UNCHANGED <<up, down, granted, why, told>> /\ ControlFrame

\* The Drain message of the shutdown is written, and the loop ends.
ControlDrain(n) ==
  /\ control[n] = "serving" /\ shutdown = "draining"
  /\ Answer(n, <<Msg("Drain")>>) /\ told' = told \cup {n} /\ Return(n)
  /\ UNCHANGED <<up, granted, why, disturbed>> /\ ControlFrame

(***************************************************************************)
(* handle_quic_connection, once serve_control is a task of its own.        *)
(***************************************************************************)
\* Seeded fault: the stream tasks are spawned without the JoinSet.
DetachStreams(n) == dropped

QuicFrame == UNCHANGED <<setup, clientVars, left, offer, granted, shutdown, cut, why, told>>

\* Dropping a JoinSet tells its tasks to stop and does not wait for them.
AbortStreams(n) == dropped \cup {n}

\* A data stream, if a permit of stream_admission is free.
QuicAccept(n) ==
  /\ handler[n] = "loop" /\ opened[n] > 0 /\ n \notin lost
  /\ opened' = [opened EXCEPT ![n] = @ - 1]
  /\ streams' = IF streams[n] < MaxStreams THEN [streams EXCEPT ![n] = @ + 1] ELSE streams
  /\ UNCHANGED <<up, down, lost, handler, control, registry, dropped, disturbed>> /\ QuicFrame

\* handle_quic_data_stream ends: claimed, refused, out of time, cancelled or aborted.
StreamEnds(n) ==
  /\ streams[n] > 0
  /\ streams' = [streams EXCEPT ![n] = @ - 1]
  /\ UNCHANGED <<up, down, lost, handler, control, registry, opened, dropped, disturbed>>
  /\ QuicFrame

\* accept_stream fails and `?` returns: the JoinSet is dropped, and so is the
\* handle of serve_control, which runs on.
QuicAcceptFails(n) ==
  /\ handler[n] = "loop" /\ n \in lost
  /\ At(n, "done") /\ dropped' = AbortStreams(n)
  /\ UNCHANGED <<up, down, lost, control, registry, opened, streams, disturbed>> /\ QuicFrame

\* The cancel token or the end of serve_control: the token is cancelled, the
\* connection closed and the stream tasks told to stop ...
QuicClose(n) ==
  /\ handler[n] = "loop" /\ (Cancelled(n) \/ control[n] = "ended")
  /\ At(n, "joining") /\ Break(n)
  /\ UNCHANGED <<control, registry, opened, streams, dropped, disturbed>> /\ QuicFrame

\* Seeded fault: serve_control is ended before the stream tasks were joined.
QuicJoinAtOnce(n) ==
  /\ handler[n] = "joining"
  /\ To(n, "ended") /\ registry' = registry \ {n} /\ At(n, "done")
  /\ UNCHANGED <<up, down, lost, opened, streams, dropped, disturbed>> /\ QuicFrame

\* ... and joined, then serve_control is.
QuicJoin(n) ==
  /\ handler[n] = "joining" /\ streams[n] = 0
  /\ To(n, "ended") /\ registry' = registry \ {n} /\ At(n, "done")
  /\ UNCHANGED <<up, down, lost, opened, streams, dropped, disturbed>> /\ QuicFrame

HandlerStep(n) ==
  \/ AcceptTls(n) \/ TlsAccepted(n) \/ UpgradeWebsocket(n) \/ AcceptControlStream(n)
  \/ ReadFirst(n) \/ HandlerFails(n)
  \/ QuicAccept(n) \/ QuicAcceptFails(n) \/ QuicClose(n) \/ QuicJoin(n)
ControlStep(n) ==
  \/ ControlHello(n) \/ ControlAuth(n) \/ ControlReject(n) \/ ControlEnter(n)
  \/ ControlWelcome(n) \/ ControlFails(n) \/ ControlDrain(n)

(***************************************************************************)
(* The environment.                                                        *)
(***************************************************************************)
\* A connection breaks, for whatever reason; closing the listener of a QUIC server
\* may do it too.
Lose(n) ==
  /\ handler[n] # "none" /\ n \notin lost /\ ~Gone(n)
  /\ Break(n) /\ disturbed' = disturbed \cup {n}
  /\ UNCHANGED <<setup, clientVars, left, serverVars>>

\* Server::shutdown.
Shutdown ==
  /\ shutdown = "up" /\ shutdown' = "draining"
  /\ disturbed' = Attempts
  /\ UNCHANGED <<setup, clientVars, up, down, left, lost, handler, control, offer, granted,
                 registry, opened, streams, dropped, cut, why, told>>

\* The grace period is over: drain cancels the Sessions, aborts the handlers and
\* joins them, which drops what they own: the stream tasks of a QUIC connection are
\* told to stop, a serve_control that is a task of its own is not even that.
ForceStop ==
  /\ shutdown = "draining" /\ shutdown' = "stopped"
  /\ cut' = registry
  /\ handler' = [n \in Attempts |-> IF handler[n] = "none" THEN "none" ELSE "done"]
  /\ dropped' = dropped \cup {n \in Attempts : handler[n] \in {"loop", "joining"}}
  /\ IF Quic THEN UNCHANGED <<control, registry>>
     ELSE /\ control' = [n \in Attempts |-> IF control[n] = "none" THEN "none" ELSE "ended"]
          /\ registry' = {}
  /\ UNCHANGED <<setup, clientVars, up, down, left, lost, offer, granted, opened, streams, why,
                 told, disturbed>>

Next ==
  \/ Attempt \/ ConnectTcp \/ ProxyRefuses \/ ConnectQuic \/ ClientStep
  \/ ClientTimeout \/ ClientCancel \/ OpenDataStream
  \/ \E n \in Attempts : \/ HandlerStep(n) \/ ControlStep(n) \/ StreamEnds(n)
                         \/ HandlerTimeout(n) \/ ControlTimeout(n) \/ Lose(n)
  \/ Shutdown \/ ForceStop

Spec == Init /\ [][Next]_vars

\* An aborted task stops at its next await.
StreamAborted(n) == (handler[n] = "joining" \/ n \in dropped) /\ StreamEnds(n)

\* Tasks that can go on do, and aborted ones stop.  No timer is counted on: a
\* handshake must not need one.
Fairness ==
  /\ WF_vars(ClientStep)
  /\ \A n \in Attempts : /\ WF_vars(HandlerStep(n)) /\ WF_vars(ControlStep(n))
                         /\ WF_vars(StreamAborted(n))

FairSpec == Spec /\ Fairness

(***************************************************************************)
(* Properties.                                                             *)
(***************************************************************************)
\* control.rs: "a client never observes a Session the server will not serve", and
\* both ends go on with the same capabilities, none of which is foreign to either,
\* although each computes them for itself and the releases differ.
SessionAgreed ==
  stage = "session" =>
    /\ agreed = granted[attempt]
    /\ agreed \subseteq setup.client.caps \cap setup.server.caps
    /\ control[attempt] \in {"serving", "ended"}

\* A client stops for good only if the server judged its token or source, or a
\* proxy refused it: not for a version, a limit or a broken connection.  And an
\* attempt fails only for one of these, or because something disturbed it.
OutcomeExplained ==
  \A n \in Attempts :
    /\ outcome[n] = "stopped" => why[n] = "refused" \/ setup.proxy
    /\ outcome[n] = "failed" /\ n \notin disturbed => why[n] # "nothing"

\* accept.rs: no data stream task is left to itself.  One that runs belongs to a
\* handler that will join it, or its JoinSet was dropped by a handler that returned
\* early or was aborted, so that it has been told to stop: a connection that was
\* closed in order has none left.  Over a stream serve_control ends with the handler.
StreamsOwned ==
  \A n \in Attempts :
    /\ streams[n] > 0 => handler[n] \in {"loop", "joining"} \/ n \in dropped
    /\ n \in dropped => handler[n] = "done"
    /\ handler[n] = "done" /\ ~Quic => control[n] \in {"none", "ended"}

\* reconnect.rs: "`close` always releases the old client".
OldClientReleased ==
  /\ dialled \subseteq {slot}
  /\ slot # 0 => slot = attempt /\ stage \notin {"idle", "done"}

TasksOwned == StreamsOwned /\ OldClientReleased

InHandshake ==
  stage \in {"get", "tls", "upgrade", "hello", "auth"} /\ attempt \notin disturbed

\* A handshake that nothing disturbs comes to an end without a timer: the two ends
\* never wait for each other.
HandshakeEnds == InHandshake ~> ~InHandshake

\* When the task of a connection has ended, so do the tasks it leaves behind, its
\* data streams and its serve_control, detached or not, and its Session leaves the
\* registry, without a timer.
TasksReleased ==
  \A n \in Attempts :
    (handler[n] = "done") ~>
      (control[n] \in {"none", "ended"} /\ n \notin registry /\ streams[n] = 0)

\* accept.rs: "force-cancel and reap every child task".
AllReaped ==
  shutdown = "stopped" =>
    \A n \in Attempts : control[n] \in {"none", "ended"} /\ streams[n] = 0

\* OPERATIONS.md and API.md: a Session is sent Drain before a shutdown cuts it.
DrainedFirst ==
  \A n \in Attempts :
    shutdown = "draining" /\ handler[n] = "joining" => control[n] # "serving"

=============================================================================
