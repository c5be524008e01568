----------------------------- MODULE Admission -----------------------------
(***************************************************************************)
(* Accepting connections and shutting down (server/accept.rs), with the    *)
(* authentication part of serve_control (server/control.rs) and the        *)
(* Session registry and guards (server/session.rs).                        *)
(*                                                                         *)
(* One handler task per accepted connection, and the accept loop, which    *)
(* turns into the drain loop on shutdown.  Guards are dropped and counters *)
(* updated one at a time: other tasks see the states in between.           *)
(*                                                                         *)
(* Abstractions: TLS, WebSocket and the wire are reduced to their outcome; *)
(* what the limiter answers is open (module AuthLimiter); a Session's      *)
(* control loop is reduced to writing Drain and ending (Correlation and    *)
(* Registration have the rest).  This is the TCP/TLS path: over QUIC       *)
(* serve_control takes the same guards but is a task of its own, which the *)
(* drain does not join (module Ingress).                                   *)
(***************************************************************************)
EXTENDS Integers, FiniteSets

CONSTANTS
  Conn,          \* accepted transport connections, and their handler tasks
  MaxHandshakes, \* accepted_handshakes
  MaxSessions,   \* sessions
  QueueFull      \* may a Session's control queue be full: subset of BOOLEAN

ASSUME AdmissionAssumption ==
  /\ IsFiniteSet(Conn)
  /\ MaxHandshakes \in Nat /\ MaxSessions \in Nat
  /\ QueueFull \subseteq BOOLEAN /\ QueueFull # {}

VARIABLES
  phase,      \* phase[c]: where the handler of c is
  permits,    \* free permits of the admission semaphore
  handshakes, \* Counters::handshakes
  registry,   \* the Session registry: handlers whose Session is listed
  sessions,   \* Counters::sessions
  drain,      \* "off", "asked", "list", "wait", "forced" or "stopped"
  roster,     \* drain: Sessions of this pass not yet visited
  notified,   \* drain: Sessions visited in any pass
  woken,      \* drain: a Session registered since interest was declared
  queued,     \* Sessions whose control queue got the Drain message
  told,       \* Sessions whose client was sent Drain
  cut         \* Sessions that were being served when the grace period ended

vars == <<phase, permits, handshakes, registry, sessions, drain, roster,
          notified, woken, queued, told, cut>>
drainVars == <<drain, roster, notified, woken, queued, cut>>
slotVars == <<permits, handshakes>>
tableVars == <<registry, sessions>>

\* The connection holds a permit of the admission semaphore.
PermitPhases == {"permitted", "hello", "data", "auth", "rejecting",
                 "passed", "failed", "passing", "leaving"}
\* Its Session is counted.
CountedPhases == {"registered", "greeted", "serving", "closing"}
SessionPhases == CountedPhases \cup {"listed", "entered", "uncounted"}
Phases == PermitPhases \cup SessionPhases \cup {"new", "verified", "cleared", "turned", "done"}
\* The handler task exists.
Live == {c \in Conn : phase[c] \notin {"new", "turned", "done"}}

Init ==
  /\ phase = [c \in Conn |-> "new"]
  /\ permits = MaxHandshakes /\ handshakes = 0
  /\ registry = {} /\ sessions = 0
  /\ drain = "off" /\ roster = {} /\ notified = {} /\ woken = FALSE
  /\ queued = {} /\ told = {} /\ cut = {}

Goto(c, p) == phase' = [phase EXCEPT ![c] = p]

(***************************************************************************)
(* The accept loop and the handshake.                                      *)
(***************************************************************************)

\* The accept loop still runs; after a cancellation it may serve one more peer.
Accepting == drain \in {"off", "asked"}

Admits == permits > 0

\* admit: take a permit, then count the handshake.
Admit(c) ==
  /\ phase[c] = "new" /\ Accepting /\ Admits
  /\ permits' = permits - 1
  /\ Goto(c, "permitted")
  /\ UNCHANGED <<handshakes, tableVars, drainVars, told>>

TurnAway(c) ==
  /\ phase[c] = "new" /\ Accepting /\ ~Admits
  /\ Goto(c, "turned")
  /\ UNCHANGED <<slotVars, tableVars, drainVars, told>>

\* HandshakeGuard::new, and the handler is spawned.
Spawn(c) ==
  /\ phase[c] = "permitted"
  /\ handshakes' = handshakes + 1
  /\ Goto(c, "hello")
  /\ UNCHANGED <<permits, tableVars, drainVars, told>>

\* The first message decides the role of the connection.
FirstMessage(c) ==
  /\ phase[c] = "hello"
  /\ \E role \in {"data", "auth"} : Goto(c, role)
  /\ UNCHANGED <<slotVars, tableVars, drainVars, told>>

\* Seeded fault: the answer to a refused peer is written without a budget.
FailUntimed(c) ==
  /\ phase[c] \in {"hello", "auth", "data"}
  /\ Goto(c, "failed")
  /\ UNCHANGED <<slotVars, tableVars, drainVars, told>>

\* TLS or upgrade failure, timeout, unexpected message, cancellation; the end
\* of accept_data_hello; the end of the delay of reject_authentication.
Fail(c) ==
  /\ phase[c] \in {"hello", "auth", "data", "rejecting"}
  /\ Goto(c, "failed")
  /\ UNCHANGED <<slotVars, tableVars, drainVars, told>>

\* Wrong version, message or token, or a blocked source: the delay begins.
Refuse(c) ==
  /\ phase[c] = "auth"
  /\ Goto(c, "rejecting")
  /\ UNCHANGED <<slotVars, tableVars, drainVars, told>>

\* The token verified and the source is not blocked.
Pass(c) ==
  /\ phase[c] = "auth"
  /\ Goto(c, "passed")
  /\ UNCHANGED <<slotVars, tableVars, drainVars, told>>

\* Seeded fault: the permit is given back before the handshake is uncounted.
ReleasePermitFirst(c) ==
  /\ \/ /\ phase[c] \in {"passed", "failed"}
        /\ permits' = permits + 1
        /\ Goto(c, IF phase[c] = "passed" THEN "passing" ELSE "leaving")
        /\ UNCHANGED handshakes
     \/ /\ phase[c] \in {"passing", "leaving"}
        /\ handshakes' = handshakes - 1
        /\ Goto(c, IF phase[c] = "passing" THEN "verified" ELSE "done")
        /\ UNCHANGED permits
  /\ UNCHANGED <<tableVars, drainVars, told>>

\* Both guards go, the handshake counter's first: a later admission finds the
\* permit only when the handshake is no longer counted.
Release(c) ==
  /\ \/ /\ phase[c] \in {"passed", "failed"}
        /\ handshakes' = handshakes - 1
        /\ Goto(c, IF phase[c] = "passed" THEN "passing" ELSE "leaving")
        /\ UNCHANGED permits
     \/ /\ phase[c] \in {"passing", "leaving"}
        /\ permits' = permits + 1
        /\ Goto(c, IF phase[c] = "passing" THEN "verified" ELSE "done")
        /\ UNCHANGED handshakes
  /\ UNCHANGED <<tableVars, drainVars, told>>

(***************************************************************************)
(* The Session.                                                            *)
(***************************************************************************)

RegistryFull == Cardinality(registry) >= MaxSessions

\* The last look at the shutdown token before the Session is registered.
CheckCancel(c) ==
  /\ phase[c] = "verified"
  /\ Goto(c, IF drain = "off" THEN "cleared" ELSE "done")
  /\ UNCHANGED <<slotVars, tableVars, drainVars, told>>

\* SessionContext::register lists the Session and releases the lock,
Enter(c) ==
  /\ phase[c] = "cleared"
  /\ IF RegistryFull
     THEN Goto(c, "done") /\ UNCHANGED registry
     ELSE registry' = registry \cup {c} /\ Goto(c, "listed")
  /\ UNCHANGED <<slotVars, sessions, drainVars, told>>

\* Seeded fault: the drain loop declares its interest only when it waits.
SignalWaiting(c) ==
  /\ phase[c] = "listed"
  /\ woken' = (woken \/ drain = "wait")
  /\ Goto(c, "entered")
  /\ UNCHANGED <<slotVars, tableVars, drain, roster, notified, queued, told, cut>>

\* then wakes a drain loop that has declared its interest.
Signal(c) ==
  /\ phase[c] = "listed"
  /\ woken' = (woken \/ drain \in {"list", "wait"})
  /\ Goto(c, "entered")
  /\ UNCHANGED <<slotVars, tableVars, drain, roster, notified, queued, told, cut>>

\* SessionGuard::new.
Count(c) ==
  /\ phase[c] = "entered"
  /\ sessions' = sessions + 1
  /\ Goto(c, "registered")
  /\ UNCHANGED <<slotVars, registry, drainVars, told>>

\* AuthOk is written, then the control queue is published in the context.
Greet(c) ==
  /\ phase[c] \in {"registered", "greeted"}
  /\ Goto(c, IF phase[c] = "registered" THEN "greeted" ELSE "serving")
  /\ UNCHANGED <<slotVars, tableVars, drainVars, told>>

\* The control loop writes the queued Drain and breaks.
WriteDrain(c) ==
  /\ phase[c] = "serving" /\ c \in queued
  /\ told' = told \cup {c}
  /\ Goto(c, "closing")
  /\ UNCHANGED <<slotVars, tableVars, drainVars>>

\* The peer left, idled out or was cancelled, or AuthOk could not be written.
EndSession(c) ==
  /\ phase[c] \in {"registered", "greeted", "serving"}
  /\ Goto(c, "closing")
  /\ UNCHANGED <<slotVars, tableVars, drainVars, told>>

\* Seeded fault: the registry entry goes first, the counter second.
UnlistFirst(c) ==
  \/ /\ phase[c] = "closing"
     /\ registry' = registry \ {c}
     /\ Goto(c, "uncounted")
     /\ UNCHANGED <<slotVars, sessions, drainVars, told>>
  \/ /\ phase[c] = "uncounted"
     /\ sessions' = sessions - 1
     /\ Goto(c, "done")
     /\ UNCHANGED <<slotVars, registry, drainVars, told>>

\* SessionGuard::drop: uncount, then take the entry out of the registry.
DropSession(c) ==
  \/ /\ phase[c] = "closing"
     /\ sessions' = sessions - 1
     /\ Goto(c, "uncounted")
     /\ UNCHANGED <<slotVars, registry, drainVars, told>>
  \/ /\ phase[c] = "uncounted"
     /\ registry' = registry \ {c}
     /\ Goto(c, "done")
     /\ UNCHANGED <<slotVars, sessions, drainVars, told>>

(***************************************************************************)
(* Shutdown.                                                               *)
(***************************************************************************)

\* Declare interest in registrations, then list the live Sessions.
Enumerate ==
  /\ drain' = "list"
  /\ roster' = registry
  /\ woken' = FALSE

\* ServerHandle::shutdown cancels the token that every handler looks at.
AskShutdown ==
  /\ drain = "off"
  /\ drain' = "asked"
  /\ UNCHANGED <<phase, slotVars, tableVars, roster, notified, woken, queued, told, cut>>

\* The accept loop notices, drops its listener and begins to drain.
StartDrain ==
  /\ drain = "asked"
  /\ \A c \in Conn : phase[c] # "permitted"
  /\ Enumerate
  /\ UNCHANGED <<phase, slotVars, tableVars, notified, queued, told, cut>>

\* Visit one Session of the pass: it is notified once, if its queue is published
\* (a Session that is closing no longer reads it).
Visit(c) ==
  /\ drain = "list" /\ c \in roster
  /\ roster' = roster \ {c}
  /\ notified' = notified \cup {c}
  /\ \E full \in QueueFull :
       queued' = IF c \notin notified /\ phase[c] = "serving" /\ ~full
                 THEN queued \cup {c} ELSE queued
  /\ UNCHANGED <<phase, slotVars, tableVars, drain, woken, told, cut>>

Wait ==
  /\ drain = "list" /\ roster = {}
  /\ drain' = "wait"
  /\ UNCHANGED <<phase, slotVars, tableVars, roster, notified, woken, queued, told, cut>>

\* A registration during this pass starts another one.
Rescan ==
  /\ drain = "wait" /\ woken
  /\ Enumerate
  /\ UNCHANGED <<phase, slotVars, tableVars, notified, queued, told, cut>>

\* The grace period ends with no registration to look at (timeout_at polls the
\* notification first): live Sessions are cancelled, handlers aborted.
Deadline ==
  /\ drain = "wait" /\ ~woken
  /\ drain' = "forced"
  /\ cut' = {c \in Conn : phase[c] = "serving"}
  /\ UNCHANGED <<phase, slotVars, tableVars, roster, notified, woken, queued, told>>

\* Seeded fault: handlers are aborted, but a Session that is served is not.
AbortHandshakes(c) ==
  /\ drain = "forced"
  /\ phase[c] \in {"hello", "data", "auth", "rejecting"}
  /\ Goto(c, "failed")
  /\ UNCHANGED <<slotVars, tableVars, drainVars, told>>

\* A cancelled Session or an aborted handler is dropped, its guards with it.
Abort(c) ==
  /\ drain = "forced"
  /\ \/ phase[c] \in {"hello", "data", "auth", "rejecting"} /\ Goto(c, "failed")
     \/ phase[c] \in {"registered", "greeted", "serving"} /\ Goto(c, "closing")
  /\ UNCHANGED <<slotVars, tableVars, drainVars, told>>

\* Seeded fault: shutdown returns without joining the aborted handlers.
StopUnjoined ==
  /\ drain = "forced"
  /\ drain' = "stopped"
  /\ UNCHANGED <<phase, slotVars, tableVars, roster, notified, woken, queued, told, cut>>

\* Every handler has been joined.
Stop ==
  /\ drain = "forced" /\ Live = {}
  /\ drain' = "stopped"
  /\ UNCHANGED <<phase, slotVars, tableVars, roster, notified, woken, queued, told, cut>>

(***************************************************************************)
(* The specification.                                                      *)
(***************************************************************************)
Handshake(c) ==
  \/ Spawn(c) \/ FirstMessage(c) \/ Fail(c) \/ Refuse(c) \/ Pass(c) \/ Release(c)
  \/ CheckCancel(c) \/ Enter(c) \/ Signal(c) \/ Count(c) \/ Greet(c)

Shutdown == (\E c \in Conn : Visit(c)) \/ StartDrain \/ Wait \/ Rescan \/ Deadline \/ Stop

Next ==
  \/ \E c \in Conn : \/ Admit(c) \/ TurnAway(c) \/ Handshake(c)
                     \/ WriteDrain(c) \/ EndSession(c) \/ DropSession(c) \/ Abort(c)
  \/ AskShutdown \/ Shutdown

Spec == Init /\ [][Next]_vars

\* Handlers and the drain loop are scheduled and every wait of theirs is timed;
\* clients need not leave and nobody need ask for a shutdown.
Fairness ==
  /\ \A c \in Conn : /\ WF_vars(Handshake(c))
                     /\ WF_vars(DropSession(c))
                     /\ WF_vars(Abort(c))
  /\ WF_vars(Shutdown)

FairSpec == Spec /\ Fairness

(***************************************************************************)
(* Properties.                                                             *)
(***************************************************************************)
\* Every variable has its type; the semaphore never gives more than it has.
TypeOK ==
  /\ phase \in [Conn -> Phases]
  /\ permits \in 0..MaxHandshakes
  /\ handshakes \in Int /\ sessions \in Int
  /\ registry \subseteq Conn /\ roster \subseteq Conn /\ notified \subseteq Conn
  /\ queued \subseteq Conn /\ told \subseteq Conn /\ cut \subseteq Conn
  /\ drain \in {"off", "asked", "list", "wait", "forced", "stopped"}
  /\ woken \in BOOLEAN

\* Counters::handshakes stays between 0 and accepted_handshakes although it and
\* the semaphore are updated one after the other, on every path out.
HandshakesBounded == handshakes \in 0..MaxHandshakes

\* Counters::sessions stays between 0 and the Session limit, although the
\* registry and the counter are updated one after the other.
SessionsBounded == sessions \in 0..MaxSessions

\* Neither gauge ever shows more than its limit, or wraps.
GaugesBounded == HandshakesBounded /\ SessionsBounded

\* When shutdown returns nothing is left: no permit taken, no handshake counted,
\* no Session listed or counted.
StoppedClean ==
  drain = "stopped" =>
    /\ permits = MaxHandshakes /\ handshakes = 0
    /\ registry = {} /\ sessions = 0

\* accept.rs:85: "a Session that registers concurrently is always seen by this
\* or a later pass".  A drain loop that waits with no wake-up pending has visited
\* every listed Session but those whose handler is yet to signal, however
\* registrations fell between the steps of a pass.
NoneOverlooked ==
  drain = "wait" /\ ~woken =>
    \A c \in registry : c \in notified \/ phase[c] = "listed"

\* The drain passes nobody by while it waits and leaves nothing when it is over.
DrainSound == NoneOverlooked /\ StoppedClean

\* A shutdown that has begun ends, whatever clients do.
DrainEnds == (drain # "off") ~> (drain = "stopped")

\* A handshake slot is never kept: an admitted connection gives it back.
SlotReturned ==
  \A c \in Conn : (phase[c] \in PermitPhases) ~> (phase[c] \notin PermitPhases)

\* Neither the drain nor a slot waits for a client for ever.
NobodyHoldsUp == DrainEnds /\ SlotReturned

\* accept.rs:85: "a Session that registers concurrently is always seen by this
\* or a later pass"; architecture/server.md: "a Session that appears mid-grace
\* still gets notified".  Every Session served at the deadline was notified.
ServedWasNotified == drain \in {"forced", "stopped"} => cut \subseteq queued

\* auth.rs:107: reject_authentication is said to "release the caller's
\* admission slots, apply the fixed throttle delay".
RejectingIsFree ==
  permits + Cardinality({c \in Conn : phase[c] \in PermitPhases \ {"rejecting"}})
    = MaxHandshakes

=============================================================================
