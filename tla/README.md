# Eggtunnel in TLA+

Eggtunnel exposes services of a private host through a public server. A client
dials the server and keeps one authenticated control stream (a *Session*); it
registers *Services*, for each of which the server opens a listener; an external
connection to a listener is announced to the client by `Open`, the client dials
its target and opens a *Data Connection* back to the server, and the two are
relayed. Everything runs as tokio tasks: a step can be interleaved with any
other at every `await`, a task can be aborted there, and a `select!` drops the
futures that lose.

The modules here model that runtime (`crates/eggtunnel`), the framing and
negotiation of its protocol (`crates/eggtunnel-proto`) and the program that wraps
it (`crates/eggtunnel-cli`). TLC checks them on small instances, TLAPS
proves the central invariants for every value of the constants.

## 1. Inventory

| Component | State | Operations | What is hard | What makes it correct |
|---|---|---|---|---|
| Server data plane (`server/service.rs`, `pending.rs`, parts of `control.rs`, `session.rs`) | pending table, connection permits, listeners, relay tasks, gauges, bind table | accept, insert, `Open`, `DataHello`, `OpenReject`, expiry, unregister, teardown, drop | eight places remove an entry; tasks are aborted anywhere; a ServiceId is reused | a ConnectionId is used once and by whom it was issued to; gauges and permits are conserved; everything is freed |
| Registration (`client.rs`, `client/service_state.rs`, `server/control.rs`) | desired and active Services, transactions, tombstones, callers' replies; services and listeners per Session | initial registration, register, unregister, ack, reject, error, expiry, abandon, reconnect | two wire modes; late answers; callers that leave; two Sessions of one client at the server | both ends agree when the stream is quiet; answers belong to their requests; callers are answered |
| Authentication throttle (`server/auth.rs`) | sliding window of failures per source | judge, record, prune | check and record are separate; clock read before the lock | blocked for a reason; bounded memory; bounded guesses |
| Admission and shutdown (`server/accept.rs`, `session.rs`) | semaphore, handshake and Session gauges, registry, drain progress | admit, handshake, register, serve, drain, abort | gauge and semaphore are separate; registration races the drain | limits hold; shutdown ends and leaves nothing |
| Client supervisor (`client/reconnect.rs`, `client.rs`, `client/open.rs`) | attempt, backoff delay, Open tasks and permits | establish, Session, leave, back off, shut down | two `select!`s on one token; tasks that outlive their Session | paced retries; terminal errors are final; shutdown ends |
| Heartbeat (`client/heartbeat.rs`, `common.rs`, `control.rs`) | outstanding probe, ticker, idle timer, health record | tick, Ping, Pong, idle timeout, snapshot | slow Pongs, full queue, two-step reset | one probe, always accounted for; a working Session stays alive |
| Framing (`wire_io.rs`, `eggtunnel-proto`) | bytes in flight, the read and the write under way | encode, write, read, decode, cancel, time out | cancellation in the middle of a frame, torn frames | messages arrive as written or the stream fails; bounded memory |
| Handshake and transports (`server/accept.rs`, `control.rs`, `server/tls.rs`, `server/ws.rs`, `client/reconnect.rs`, `client.rs`) | phase of either end, bytes on the way, tasks of a connection, the QUIC client in its slot, negotiated capabilities | connect, TLS, upgrade, hello, auth, refuse, serve, close, join, shut down | each end negotiates for itself; a QUIC connection has three kinds of task; a refusal may be lost with its connection | both ends agree on the Session; the client stops only for what is final; no end waits for the other for ever; nothing outlives its connection |
| Configuration and bind policy (`common.rs`, `endpoint.rs`, `client/config.rs`, `server/config.rs`, `pem.rs`) | none | validate, permit | many options that exclude each other, bounds, mapped addresses | one definition of what is valid, the same for check and start |
| Command line (`eggtunnel-cli/src/main.rs`) | configuration, inputs read so far, the running handle, printed binds, last seen state | parse, override, resolve, read, check, start, report, stop | inputs change while they are read; signals at any time; sampled counters | check predicts start; no public bind without consent; every bind is announced; a signal ends it |
| Messages (`eggtunnel-proto`) | none | postcard, names, targets | - | bounds in Settings; encoding fuzzed in the repository |
| Relay (`eggress-relay`) | outside the repository | - | - | not modelled |

How they interact: *Admission* hands a connection to a control loop, whose
registrations are *Registration* and whose connections are *Correlation*;
*AuthLimiter* gives the verdict *Admission* leaves open; *Ingress* follows both
ends of a connection from its first byte to its Session, which *Admission* and
*Reconnect* see from one end each; on the client *Reconnect* starts and ends the Sessions in which *Registration* and *Heartbeat*
run; all of them send their messages through *WireIO*. *Cli* starts a client or a
server once *Settings* accepts its configuration. Each module abstracts its
neighbours to every behaviour they may show, so no module relies on a property
of another.

## 2. Modules and the code

**Correlation** - one control task per Session, one listener task per
registration, one relay task per connection, one handler per `DataHello`. A step
ends where the code awaits, releases the lock of the pending table or touches
something another thread reads. `Accept`, `InsertPending`, `SendOpen` and
`RollBack` are the accept arm of `run_service`; `Wake`, `Unlink`, `FinishRelay`,
`AbortRelay` and `ReleasePermit` the relay task with its guard; `ReceiveHello`,
`TakeEntry` and `SettleHello` are `accept_data_hello`; the rest is
`serve_control` and the destructors. ConnectionIds are 128 random bits and do
not collide in the model; time is the set of expired entries.

**Ticket** - what Correlation promises: a ConnectionId is a ticket for one
Session and Service, issued once, used at most once before it is void.
`ImplementsTicket` maps the pending table and the handlers to it.

**Registration** - `ServiceState` variable by variable, the arms of
`run_session` that touch it, the supervisor's handling of a Session's end, the
application's calls (callers may give up), and the server's `register_service`
and teardown for every generation, so that an old Session's listeners overlap
the next Session. A write that timed out left nothing, everything or part of its
frame.

**AuthLimiter** - attempts read the clock and later take the lock; queues need
not be sorted.

**Admission** - the handler of a connection as its phases, the guards dropped
and counters updated one at a time, and `AcceptContext::drain` as its loop: list,
visit, wait, rescan, deadline, abort, join. `SessionContext::register` is two
steps, `Enter` under the lock of the registry and `Signal` after it. What happens on a connection between
accept and Session is left open here and modelled in Ingress.

**Reconnect** - `drive` with both of its `select!`s, `run_session` as its life
cycle, the backoff arithmetic with saturation and jitter, and the Open tasks with
permit and guard.

**Heartbeat** - discrete time with punctual timers and messages that take up to
`MaxLatency` per direction; nonces wrap, the count of misses saturates. `dropped`
is a history variable: the probes of a Session the full control queue refused.

**WireIO** - one direction of a control stream as cells. The variable `link` says
whether a frame arrives in one piece (one TLS record) or in any pieces (QUIC),
whether `read_message` is an arm of a `select!`, and whether the writer is a
foreign peer that does not check lengths; `BestEffort` names the messages whose
write timeout the loop survives.

**Ingress** - both ends of up to `MaxAttempts` connections. The client is
`establish` and the handshake of `run_session` (`ConnectTcp`, `ProxyRefuses`,
`ConnectQuic`, `TlsConnected`, `Upgraded`, `ReadServerHello`, `ReadAuthOk`); every
way out of it is `Finish`, which also is `Transport::close` with the slot of
`QuicTransport`. On the server `handler` is `handle_connection` or
`handle_quic_connection`, `control` is `serve_control`: called by the handler over
a stream, a task of its own under QUIC (`StartControl`), beside the tasks of data
streams (`QuicAccept`, `StreamEnds`). `QuicClose` and `QuicJoin` are the orderly
end: the stream tasks are told to stop and joined, then `serve_control` is. On the
early return `QuicAcceptFails`, and when `ForceStop` at the end of the drain aborts a
handler, the `JoinSet` is `dropped`: its tasks are told to stop and nobody waits for
them, and `serve_control` is detached. A frame of another major version is refused
by `decode_frame` (`Unreadable`), before `serve_control` begins and without an answer. TLS and the upgrade are exchanges of abstract messages;
`Break` closes a connection, after which unread messages may or may not arrive;
`disturbed` is a history variable of what a loss, a timer or a shutdown hit.

**Settings** - constant operators for every check the library makes before it
opens anything: text, endpoints, bind policy, limits, timeouts, PEM material, the
profiles of both builders. Text is a length with the kinds of character in it.

**Cli** - an invocation as the program runs it: `ReadConfig`, `Resolve` (the
structural checks in their order, which decides the category of the error),
`ReadVariable`, `StatFile` and `ReadFile` (one input at a time, metadata before
contents), `Lower`, `Build`, `Open`, then the loop of `run_server` (`RefreshBinds`)
or `run_client` (`LoadConnected`, `ReportSession`), `Break` and `Exit`. `Change` is
whoever edits the inputs meanwhile, `Signal` is SIGINT, which kills a process that
does not listen yet. The runtime is reduced to what the program samples: `Bind` and
`Unbind` by Sessions, `Store` for a client's counters, one store at a time.

**MC...** modules hold model values, maps and symmetry; **...Proofs** the
theorems. In the modules an operator marked *seeded fault* is a wrong variant of
the definition below it, kept to show that a property would notice.

## 3. Runs

Passing runs.

| Run | Checks | Instance |
|---|---|---|
| correlation_safe | `GaugesExact`, `PermitsConserved`, `SingleClaim`, `RelayIsAuthorised`, `NothingLeaks` | 1 Session, a ServiceId registered twice, 2 connections, 2 DataHellos that name it or another, all limits 1 |
| correlation_live | `PendingBounded`, `ImplementsTicket`, `ConnectionsSettle`, `ContextFreed` | 2 connections, a table of 1, a DataHello of either of 2 Principals |
| registration_safe | `TablesSound`, `CallersServed`, `QuietAgreement` | a boot Service and two attempts at another, both modes, 2 generations, an unregistration |
| registration_live | `CallSettles`, `PortReleased` | a server that may stall, with room for one of two Services; a fixed port |
| auth | `BlocksExactly`, `GuessesBounded`, `Bounded` | 2 sources, room for 1, 5 attempts, skew 1 |
| admission | `GaugesBounded`, `DrainSound`, `NobodyHoldsUp` | 3 connections, 2 permits, 1 Session |
| reconnect | `OpensAccounted`, `BackoffAccounted`, `ClientEnds`, `TriesAgain` | 4 attempts, 2 Opens, 1 permit; delay 4 up to 10 |
| heartbeat | `ProbeAccounted`, `KeptAlive`, `MissesExplained` | interval 2, idle 9, latency up to 3, up to 2 probes refused |
| wire | `InOrder`, `FailsClosed`, `AllArrive` | 3 frames of 3 lengths, one of them too long; handshakes in pieces with either kind of peer, control loops over TLS |
| ingress | `SessionAgreed`, `OutcomeExplained`, `TasksOwned`, `HandshakeEnds`, `TasksReleased` | 2 attempts, room for 1 Session, 1 data stream under way; 10 pairs of ends: each transport, releases that differ, a bad token, a refused certificate, a proxy, a transport the server does not speak |
| cli | `CheckPredictsStart`, `SnapshotSound`, `PublicOnlyByConsent`, `Announced`, `SignalEnds` | a good file of either kind with up to two deviations, 7 invocations, 1 change of an input at any moment, 2 binds, 1 Session |

What they show, in the order of the table: a ConnectionId is used once and only for
what it was issued for, and nothing it held is leaked; the two ends of a
registration agree once the stream is quiet, and callers are answered; blocking is
right up to the skew of the clocks; limits hold, and a shutdown ends, overlooks no Session that registers meanwhile and
leaves nothing; retries are paced and a shutdown ends them; a working Session is kept
alive; frames arrive as written or the stream fails; a handshake cannot deadlock
over any transport and both ends mean the same Session by it; the program does what
its check announced.

Some properties join parts that one change of the code would break together:
`GaugesExact` is `PendingCountExact` and `ServicesCountExact`; `NothingLeaks` is
`EntryHasRemover` and `FreedIsClean`; `ConnectionsSettle` is `PendingResolved` and
`PermitReturns`; `TablesSound` is `Distinct`, `CurrentGeneration` and `WithinLimits`; `QuietAgreement`
is `ClientSettled` and `ListenersAgree` of every quiet Session; `CallersServed` is
`DesiredWasAcknowledged` and `NoCallForgotten`; `DrainSound` is `NoneOverlooked` and
`StoppedClean`; `OpensAccounted` is `OpensConserved` and `NoOrphans`;
`BlocksExactly` is `BlockedForReason` and `ReasonBlocks`; `GaugesBounded` is
`HandshakesBounded` and `SessionsBounded`; `NobodyHoldsUp` is `DrainEnds` and
`SlotReturned`; `FailsClosed` is `ErrorExplained` and `BufferBounded`;
`BackoffAccounted` is `BackoffPaced` and `ReconnectsExact`; `ClientEnds` is
`ShutdownEnds` and `TasksEnd`; `TasksOwned` is `StreamsOwned` and
`OldClientReleased`.

`CorrelationTicket.cfg` is a further instance of `ImplementsTicket`, with two
Sessions of two Principals. The modules state a few plainer properties that no
run spends its time on and section 5 proves: the `TypeOK` of Correlation, Admission,
Registration, Reconnect and Heartbeat, `TerminalIsFinal` of Reconnect and `NoSignalLost` of Cli.

`CHECK_DEADLOCK FALSE` everywhere: connections, calls and attempts are finite in
an instance and a stopped client or server really stops.

**Bounds.** Two connections, two claimants and limits of one make every limit
bind and every pair of tasks race; a third adds no new pair. Two generations are
needed for anything to be stale, two registrations of one ServiceId for a reuse,
three for a reuse beside another Service. `MaxUnregisters`, `WireCap`,
`MaxAttempts`, `MaxTime`, `MaxSkew`, `MaxLatency`, `MaxFrames`, `Window`,
`MaxOpened`, `MaxChanges`, `MaxBinds` and `MaxSessions` are named in the modules.
In `Ingress` the second attempt is the one that can meet what the first left behind;
in `Cli` one change is enough to come between any two reads, two deviations of a file
to show which check comes first, two binds to confuse one with the other. Idle and interval keep the ratio of the defaults (90 s to
20 s). `TimeoutPolicy::validate` demands only that the interval be the shorter:
for a round trip that with the interval exceeds the idle timeout `KeptAlive`
would not hold, and the theorem about it assumes `RoundTripFits`.

**Fairness.** Weak fairness for what tokio schedules (a task that can run is
polled, an aborted task is dropped) and for timers, which bound every wait of
the handshakes, the drain, the pending entries and the backoff. None for what
applications, users, peers or the network do: clients need not leave, callers
need not call, a server may stall (`ClientSpec`). `PortReleased` is stated
under `ServerFairness`, for a server that does not stall. In `WireIO` bytes move
and the reader is polled: the peer is alive until it closes or resets. `Ingress`
counts on tasks alone, aborted ones included (`StreamAborted`), on no timer: a handshake that needs its timeout to end has
two ends waiting for each other. `Cli` has two conditions, one for the way to the
loop and out of it, one for the interval arm of the loop; signals, Sessions and
changes of the inputs need not come.

## 4. Disagreements between the code and its documentation

Each configuration below checks one sentence of a comment or a document; TLC
finds an execution of the code that contradicts it. The first is a run of the
project, and `PROJECT.json` quotes what it refutes; for the others the comment
above the property does.

| Configuration | Property | What happens |
|---|---|---|
| `RegistrationTimeout.cfg` (run registration_timeout) | `TimeoutSparesSession` | the late answer to an expired correlated registration ends the Session: expiry leaves no tombstone |
| `AdmissionNotify.cfg` | `ServedWasNotified` | a Session seen before it has its control queue is marked notified and never told to drain (`accept.rs:85`) |
| `WireIOCancel.cfg` | `InOrder` | a control loop over a transport that delivers frames in pieces loses bytes of a frame when another arm is ready, and after two such losses a whole message without an error (`architecture/transports-wire-io.md:117`) |
| `IngressReap.cfg` | `AllReaped` | a shutdown that cuts the handler of a QUIC connection leaves its `serve_control` running when it returns, and tasks of its data streams that are told to stop but not joined: the abort reaches the handler, which drops its `JoinSet`, not the tasks it spawned (`accept.rs:77-78`, `architecture/server.md:451-453`) |
| `IngressDrain.cfg` | `DrainedFirst` | a shutdown closes a QUIC connection whose Session was not sent `Drain` yet: the handler's loop ends on the server's token at once, closes the connection and aborts `serve_control`, which waits for the message `drain` queues for it (`docs/API.md:61`, `docs/OPERATIONS.md:5`) |
| `CliExits.cfg` | `StoppedClientExits` | the program waits for a signal after its client has stopped for good (`docs/OPERATIONS.md:56`: "Client stops retrying and exits") |
| `CliEvents.cfg` | `EventsComplete` | a snapshot between two stores reports a Session ready without its Services, or lost without its cause (`docs/OPERATIONS.md:24-26`) |
| `CorrelationReuse.cfg` | `TeardownRemovesOwn` | the teardown of a removed Service removes pending entries of its successor with the same ServiceId (`service.rs:146`) |
| `RegistrationOpen.cfg` | `StopsOnlyIfRefused` | an `Open` or `Drain` between two initial acknowledgements stops the client for good (`client.rs:787`) |
| `RegistrationRejoin.cfg` | `RestoredAfterReconnect` | a reconnecting client finds its fixed port still held by its own previous Session and stops for good |
| `RegistrationSerial.cfg` | `SingleOutstanding` | unregistering a pending registration lets a second one be outstanding in the serial mode |
| `RegistrationCommit.cfg` | `CommitsOwnAnswer` | the late answer to an abandoned registration commits a later one of the same ServiceId |
| `RegistrationDrained.cfg` | `DrainedBetweenSessions` | after an error return callers wait through the backoff instead of being answered |
| `AdmissionReject.cfg` | `RejectingIsFree` | a refused client keeps its admission slot through the throttle delay |
| `ReconnectJoin.cfg`, `ReconnectFarewell.cfg` | `ShutdownJoinsTasks`, `ReadySaysFarewell` | the outer `select!` of `drive` may drop the Session on shutdown before it sends `Drain` and joins its tasks |
| `HeartbeatSnapshot.cfg` | `SnapshotIsCurrent` | a snapshot can show the previous Session's health under the new generation |

Seen in `Ingress` without contradicting anything written: over QUIC the `Error`
frame of a refusal may be discarded by the close of the connection, so that a
refused client tries again; a client with a valid token stops for good when its
source is blocked; a version that does not match is retried for ever, and the
answer `control.rs:98` has for it is never sent, since the header is refused first;
what an early return of `handle_quic_connection` leaves behind, stream tasks and a
detached `serve_control`, ends by itself (`TasksReleased`).

Two more without a property: `architecture/server.md:379-381` describes an order
of admission `accept.rs:275-281` no longer has, and `session.rs:60` calls the
control loop's reference to the `SessionContext` the only strong one, while
listeners, relays and handlers hold others (`ContextFreed` shows that they let
go).

## 5. Proofs

All theorems are checked by TLAPS from the named assumptions on the constants, for
any number of everything: finite sets of connections, listeners, sources, attempts
and registrations; limits that are naturals; total maps; connections and listeners
that are different things (`SetAssumption` of Correlation). Two assumptions are facts
of arithmetic that the provers have no theory for: `PowersOfTwo` of Reconnect, which
TLC evaluates as far as an instance goes, and that `2 ^ NonceWidth` is a positive number. Two
theorems have a hypothesis besides. `RoundTripFits` (`SessionKeptAlive`) is met by the default timeouts but not
by all that `TimeoutPolicy::validate` accepts; `CancelledWhole` (WireIOProofs)
excludes the one kind of stream for which `WireIOCancel.cfg` refutes `InOrder`.

None of the properties is inductive alone. What each needs:

*CorrelationProofs.* `IInv` joins
`Types`; `Owned`, that exactly the connections that were accepted have an owner;
`Claims`, which follows a ConnectionId through its life - an entry exists only
for a connection that was given one, a handler past the look-up has matched its
Principal, no two handlers hold one connection, what is taken is no longer in the
table, what was delivered matches what was issued; `PendingCountExact` and
`PendingBounded`; `UniqueServices`, without which an unregistration might remove
two bind entries and subtract one; `SlotsExact`, that the free permits and
the gauge complement the connections in the phases that hold them; and `Lifetimes`,
which says what is left of a task when its listener, control loop or context is
gone. Each conjunct has a lemma for the actions that touch it and one that the others leave it
alone. From it follow `TypeCorrect`, `PendingCounted` and `ServicesCounted` (together
`GaugesCorrect`), `PendingLimited`, `PermitsKeptWhole`, `ClaimedOnce`,
`RelaysAuthorised` and `NothingLeft`. `Refinement` shows that Correlation implements
Ticket: a ticket is issued by the insertion (`InsertPending`) and claimed where
`accept_data_hello` hands its stream over (`SettleHello`); every other step can only
void tickets.

*RegistrationProofs*, first part. An action does one of three things to the
client's tables: it only removes (`Shrinks`, the end of a Session included), begins
one transaction (`Grows`) or commits one (`Moves`); `Kept` is that list, and every arm
of `run_session` is shown to be on it before the invariant is considered.
From `IInv` follow `TypeCorrect`, `TablesAlwaysSound` and `DesiredAcknowledged`.

*RegistrationProofs*, second part: why two ends that exchange messages, give up on
them and tear frames agree in the end. The streams of the current generation are
reduced to sets: what was sent, revoked, acknowledged, answered. `Owed` are the
registrations whose answer is still to come. `QInv` says that every transaction is
owed its answer (`Answerable`); that every Service of the server is known to the
client, will be, or is being withdrawn (`Covered`); that a Service routed by its own
acknowledgement stays (`OwnBound`), in the order of the stream (`InTurn`); and that a
Service routed by *another's* acknowledgement, which the code allows
(`RegistrationCommit.cfg`), leaves an answer nobody awaits (`Borrowed`). In the
correlated mode such an answer ends the Session when it is read. In the legacy mode
answers carry no request; there a count decides (`InDebt`): answers still owed exceed
the slot and the tombstones that could absorb them, so the stream cannot become quiet.
Hence `QuietAgreed`, and `OwnAnswersWhenQuiet`: the sentence that
`RegistrationCommit.cfg` refutes of single moments holds of every quiet Session.

*RegistrationProofs*, third part. A step takes transactions and answers their callers
(`Settles`), and moves the queue up (`Places`); only `Register` makes a caller wait, with
a deadline unless the Session ends in the same step. With `Routed`, that a Session
begins with no transaction, this gives `CallersRemembered`: the safety part of
`CallSettles`, which adds only that the loop takes commands and that timers fire.

*AdmissionProofs*, the part on AuthLimiter. `MemoryBounded`: pruning never adds a source, a new one is
added only below the limit, and trimming cuts back to the threshold. For the verdicts
`Ledgers` maps the entries of a source's queue one to one to the attempts that
recorded them; queues are sorted but for the skew (`InOrder`); a failure of late is
in the queue or was pushed out by `Threshold` later ones (`Remembered`). With
`OnTime` and `Sequenced`, how far an attempt's clock may lag, follows
`BlocksAsConfigured`; counting the attempts that passed the check and those under way
gives `GuessesLimited`. What pruning keeps of a queue is found with the least-number
principle, stated for sets (`Least`), which needs no induction over sequences.

*AdmissionProofs*, the part on Admission. `Exact` says which phases hold a permit, a handshake count, a
registry entry and a Session count, so that the gauges are cardinalities of sets
of handlers; the order in which guards are dropped makes the sets nested, which
gives `HandshakesLimited` and `SessionsLimited`, together `GaugesLimited`. With `drain = "stopped"` implying
that no handler lives, `ShutdownClean` follows. `Overseen` is the argument of the
comment at `accept.rs:85`: while no wake-up is pending, a listed Session that this
pass has not visited is on its list, or its handler has yet to signal. It gives
`NobodyOverlooked`, and with `ShutdownClean` `DrainCorrect`. Being visited is not being
told: `AdmissionNotify.cfg` (section 4) shows the difference.

*ReconnectProofs.* `Counted` ties attempts, backoffs and the reconnect counter,
`Owned` the permits to the tasks of the current Session, `Final` a terminal result to
the worker that has stopped: `RetriesPaced`, `PermitsOfSession`, `StopsForGood`. `NoOrphans` is inductive
with them: `TasksOfSession`, and with `PermitsOfSession` `OpensSettled`.

*HeartbeatProofs.* `Flight`: either nothing is on its way and nothing tracked, or
exactly the tracked probe is, and it was sent as long ago as its age tells; `Ticks`:
misses no full queue accounts for are ticks since then. With `Lasts`, that the idle
timer outlasts what must happen before the next Ping: `ProbesAccounted`,
`MissesBounded`, `SessionKeptAlive`.

*IngressProofs.* `Dialogue` lists, for each point of the server in a handshake,
where the client may be and what may be on the way in either direction, over each
transport; `Linked` ties `serve_control` to its handler and the
stream tasks to a handler that will join them or to a dropped `JoinSet`; `Undisturbed` says that
messages are only missing where a loss, timer or shutdown is on record. From them
`NoPhantomSession`, `FailuresHaveReasons`, `NoOrphans`, for any releases and any
number of attempts.

*WireIOProofs.* What the reader holds, what is on its way and what the writer has
left is one line of cells. `Linked`: a cell is followed by the next of its frame, or by
the first of the next frame of which anything was sent; `Last`: the line ends with
the last frame begun; `InStep`: until all frames before a torn one have been read, the
reader holds the beginning of the frame it is due; `Uncut`: where frames come whole,
no cancellation finds half of one. Hence `ReadAsWritten` and `ReaderFailsClosed`.

*CliProofs.* What an invocation meets, if file and inputs stay as they are, is a
function of the two (`Meets`): the structural checks, then the first unusable input in
the order of `Inputs`, then the Services, then the library. `Halfway` says how far
the reading has come: the inputs left are those after the p-th, and while nothing has
changed what was taken is what a single look would give. `Foretold` carries that to
the verdict of a start and to the report of `check`, which agree (`CheckForetells`).
`Usable`, which holds whatever changes, says that what was taken was judged by the bytes
taken and not by earlier metadata (`SnapshotUsable`); `Consented` follows the permission
of public binds from the file or flag through configuration, policy and bind
(`PublicBindsConsented`). The first unusable input is found with the least-number
principle; no induction over the list is needed. `Listens` is separate: the process has
a listener for SIGINT exactly from the first round of its loop on, hence `SignalsHeard`,
the safety part of `SignalEnds`. `CliAssumption` is what the parser ensures: a file that
parses has every field (absent ones as `None`), lengths are naturals, `check` takes no
overrides.

Every invariant that a run checks is proved. Only model-checked are the liveness
properties, which are outside the prover's reach (fairness, `ENABLED`); of
`TasksEnd`, `CallSettles`, `SignalEnds`, `ConnectionsSettle` and `ContextFreed` the
safety part, that somebody is left who will take the step, is proved
(`TasksOfSession`, `CallersRemembered`, `SignalsHeard`, `NothingLeft`).

## 6. Not modelled

In `Correlation` a step is a synchronous section, or several that nothing can tell
apart but an unlocked read of the counters: `GaugesExact` is about the states
between them. In `WireIO` messages have a payload, as all of the protocol have, and
a foreign peer exceeds the frame limit but sends no garbage; the arm of a `select!`
that drops a read is harmless over TLS because a frame is one record there, an
assumption of `link.whole`. In `Cli` a tick that wins the first `select!` counts as
part of the startup.

Left out:
The postcard encoding of payloads (stateless, fuzzed in the repository); the
insides of rustls, tungstenite and Eggress, reduced to the exchanges and outcomes
the runtime sees; the relay (`eggress-relay`, outside the repository); the syntax of
arguments and TOML and the wording of output; statistics that nothing reads back
(rejections, high-water marks, bytes).

## 7. Plan

Done, in this order: Correlation with Ticket (the security-relevant core),
Registration (the richest protocol), AuthLimiter, Admission, Reconnect,
Heartbeat, WireIO; proofs of Correlation, AuthLimiter and Admission; Settings and
Cli; Ingress with QUIC and negotiation; proofs of Heartbeat, Reconnect, Ingress,
Registration and WireIO, the refinement of Ticket and the verdicts of AuthLimiter;
proofs of Cli, and of what the liveness properties rest on.

Next:

1. what the proofs showed to hold and no run states: that a Session in which a foreign
   answer was committed cannot become quiet again, as a property of its own;
2. a composition of Reconnect with Registration, so that the supervisor's races
   and the registration state are explored together.
