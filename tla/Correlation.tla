---------------------------- MODULE Correlation ----------------------------
(***************************************************************************)
(* The data plane of the tunnel server: how an external connection that    *)
(* arrives on a Service listener is correlated with the Data Connection    *)
(* the client opens for it (server/service.rs, server/pending.rs, and the  *)
(* part of server/control.rs and server/session.rs that owns both).        *)
(*                                                                         *)
(* Tasks.  One control task per Session (serve_control), one listener task *)
(* per registration (run_service), one relay task per admitted external    *)
(* connection (spawned by run_service), and one handler per incoming       *)
(* DataHello (accept_data_hello).  A step ends where the code awaits,      *)
(* releases the pending lock, or touches state another thread can see.     *)
(*                                                                         *)
(* Abstractions.                                                           *)
(*  - An external connection is identified with the random 128-bit         *)
(*    ConnectionId issued for it: ids never collide.                       *)
(*  - A listener task is an incarnation: registering a ServiceId again     *)
(*    starts another Listener with the same ServiceOf.                     *)
(*  - Time is the set "expired" of connections whose lifetime has passed.  *)
(*    The relay task starts its timer after the entry's "expires" was      *)
(*    computed, so it times out only once its entry has expired.           *)
(*  - tokio aborts a task at an await point; a task that is being polled   *)
(*    runs on until then, so a task marked for abortion may still step.    *)
(*  - Rejections are a phase or a handler outcome; the statistics counters *)
(*    (rejected, high-water marks, bytes) are left out.                    *)
(***************************************************************************)
EXTENDS Integers, Sequences, FiniteSets

CONSTANTS
  Session,        \* authenticated control Sessions
  ServiceId,      \* service identifiers chosen by the client
  Principal,      \* TLS client identities
  Listener,       \* run_service incarnations
  Conn,           \* external connections and their ConnectionIds
  Hello,          \* DataHello messages that reach the server
  PrincipalOf,    \* the Principal that owns a Session
  SessionOf,      \* the Session that registers a listener
  ServiceOf,      \* the ServiceId a listener serves
  MaxServices,    \* min(max_services_per_session, services_per_session)
  MaxConnections, \* active_connections_per_session
  MaxPending,     \* pending_per_session
  QueueCapacity,  \* control_queue
  NoListener,     \* owner of a connection nobody has accepted
  NoHello,        \* an empty oneshot channel
  NoMessage       \* a DataHello that has not arrived yet

ASSUME SetAssumption ==
  /\ IsFiniteSet(Conn)
  /\ IsFiniteSet(Listener)
  /\ Conn \cap Listener = {}
  /\ NoListener \notin Listener
  /\ NoHello \notin Hello
  /\ NoMessage \notin [sess : Session, svc : ServiceId, conn : Conn, prin : Principal]

ASSUME MapAssumption ==
  /\ PrincipalOf \in [Session -> Principal]
  /\ SessionOf \in [Listener -> Session]
  /\ ServiceOf \in [Listener -> ServiceId]

ASSUME LimitAssumption ==
  /\ MaxServices \in Nat
  /\ MaxConnections \in Nat
  /\ MaxPending \in Nat
  /\ QueueCapacity \in Nat

VARIABLES
  control,      \* control[s]: where serve_control of Session s is
  listener,     \* listener[l]: where run_service of listener l is
  services,     \* the control loops' service maps, as a set of listeners
  binds,        \* the shared effective-bind table
  servicesCount,\* Counters::services
  cancelled,    \* listeners whose CancellationToken is cancelled
  doomed,       \* listeners and relay tasks marked for abortion
  opens,        \* opens[s]: the bounded queue of Open messages
  offered,      \* connections whose Open the client has been sent
  owner,        \* owner[c]: the listener that accepted c
  phase,        \* phase[c]: progress of c through its listener and relay
  pending,      \* the pending tables, as a set of connections
  pendingCount, \* Counters::pending
  expired,      \* connections whose pending lifetime has passed
  permits,      \* permits[s]: free permits of connection_admission
  active,       \* Counters::active_connections
  delivered,    \* delivered[c]: the DataHello whose stream is in the oneshot
  matched,      \* connections whose relay task received a stream
  message,      \* message[h]: the content of DataHello h
  handler       \* handler[h]: the progress of the handler of h

vars == <<control, listener, services, binds, servicesCount, cancelled, doomed,
          opens, offered, owner, phase, pending, pendingCount, expired,
          permits, active, delivered, matched, message, handler>>

tableVars == <<services, binds, servicesCount>>
taskVars  == <<listener, cancelled, doomed>>
entryVars == <<pending, pendingCount>>
slotVars  == <<permits, active>>
dataVars  == <<delivered, matched>>
helloVars == <<message, handler>>

ControlStates  == {"new", "up", "drain", "stop", "swept", "ended", "freed"}
ListenerStates == {"unused", "run", "joining", "done"}
Phases == {"idle", "admitted", "inserted", "unsent", "waiting", "woken",
           "unlinked", "releasing", "closed", "refused"}
HandlerStates == {"idle", "upgraded", "taken", "accepted", "rejected", "cancelled"}
Messages == [sess : Session, svc : ServiceId, conn : Conn, prin : Principal]

(***************************************************************************)
(* Who is who.                                                             *)
(***************************************************************************)
ListenersOf(s) == {l \in Listener : SessionOf[l] = s}
ConnsOf(l)     == {c \in Conn : owner[c] = l}
SessionConns(s) == {c \in Conn : owner[c] \in ListenersOf(s)}

\* Phases in which the relay task of a connection exists and holds its guard.
RelayPhases == {"waiting", "woken", "unlinked"}
\* Phases in which a connection holds a permit of connection_admission.
PermitPhases == {"admitted", "inserted", "unsent", "releasing"} \cup RelayPhases
\* Phases in which run_service is still inside its accept arm for c.
AcceptPhases == {"admitted", "inserted", "unsent"}

\* Seeded fault: relay tasks detached from their listener.
DetachedRelays(l) == {}

\* The JoinSet of relay tasks of a listener.
RelaySet(l) == ConnsOf(l)

\* The connections remove_service_pending of listener l's ServiceId reaches.
ServiceConns(l) ==
  {c \in SessionConns(SessionOf[l]) : ServiceOf[owner[c]] = ServiceOf[l]}

\* run_service is at its select!, not inside the accept arm.
AtSelect(l) ==
  /\ listener[l] = "run"
  /\ \A c \in ConnsOf(l) : phase[c] \notin AcceptPhases

\* Seeded fault: subtract one per id named, present or not.
RemovePendingBlindly(R) ==
  /\ pending' = pending \ R
  /\ pendingCount' = pendingCount - Cardinality(R)

\* Every removal from the pending table subtracts exactly what it removed.
RemovePending(R) ==
  /\ pending' = pending \ R
  /\ pendingCount' = pendingCount - Cardinality(pending \cap R)

(***************************************************************************)
(* The control task.                                                       *)
(***************************************************************************)

\* Authentication succeeded: the Session is registered and its guard held.
Establish(s) ==
  /\ control[s] = "new"
  /\ control' = [control EXCEPT ![s] = "up"]
  /\ UNCHANGED <<tableVars, taskVars, opens, offered, owner, phase, entryVars,
                 expired, slotVars, dataVars, helloVars>>

\* RegisterService admitted: listener bound, run_service spawned, counted.
RegisterService(l) ==
  LET s == SessionOf[l] IN
  /\ control[s] = "up"
  /\ listener[l] = "unused"
  /\ Cardinality(services \cap ListenersOf(s)) < MaxServices
  /\ \A m \in services \cap ListenersOf(s) : ServiceOf[m] # ServiceOf[l]
  /\ listener' = [listener EXCEPT ![l] = "run"]
  /\ services' = services \cup {l}
  /\ binds' = binds \cup {l}
  /\ servicesCount' = servicesCount + 1
  /\ UNCHANGED <<control, cancelled, doomed, opens, offered, owner, phase,
                 entryVars, expired, slotVars, dataVars, helloVars>>

\* Seeded fault: the bind of an unregistered service stays published.
KeptBinds(l) == binds

\* The bind table without the Session's entry for l's ServiceId.
OtherBinds(l) ==
  {m \in binds : SessionOf[m] # SessionOf[l] \/ ServiceOf[m] # ServiceOf[l]}

\* UnregisterService: cancel the token, forget the service, then
\* remove_service_pending for its ServiceId, once it has the lock: a claim that
\* gets it first is one before this step.
UnregisterService(l) ==
  LET s == SessionOf[l] IN
  /\ control[s] = "up"
  /\ l \in services
  /\ services' = services \ {l}
  /\ binds' = OtherBinds(l)
  /\ servicesCount' = servicesCount - 1
  /\ cancelled' = cancelled \cup {l}
  /\ RemovePending(ServiceConns(l))
  /\ UNCHANGED <<control, listener, doomed, opens, offered, owner, phase,
                 expired, slotVars, dataVars, helloVars>>

\* The control loop takes the next Open from its queue and writes it.
WriteOpen(s) ==
  /\ control[s] = "up"
  /\ opens[s] # <<>>
  /\ opens' = [opens EXCEPT ![s] = Tail(@)]
  /\ offered' = offered \cup {Head(opens[s])}
  /\ UNCHANGED <<control, tableVars, taskVars, owner, phase, entryVars,
                 expired, slotVars, dataVars, helloVars>>

\* The client refuses an Open: the entry, and with it data_tx, is dropped.
OpenReject(s, c) ==
  /\ control[s] = "up"
  /\ c \in offered
  /\ RemovePending({c} \cap SessionConns(s))
  /\ UNCHANGED <<control, tableVars, taskVars, opens, offered, owner, phase,
                 expired, slotVars, dataVars, helloVars>>

\* A peer Drain with a negotiated deadline: the loop has ended, listeners and
\* relays run on, and nobody reads the Open queue any more.
PeerDrain(s) ==
  /\ control[s] = "up"
  /\ control' = [control EXCEPT ![s] = "drain"]
  /\ UNCHANGED <<tableVars, taskVars, opens, offered, owner, phase, entryVars,
                 expired, slotVars, dataVars, helloVars>>

\* Server shutdown cancels the Session token and every listener below it; the
\* control loop notices later.
ForceCancel(s) ==
  /\ control[s] \in {"up", "drain", "stop", "swept"}
  /\ cancelled' = cancelled \cup ListenersOf(s)
  /\ UNCHANGED <<control, tableVars, listener, doomed, opens, offered, owner,
                 phase, entryVars, expired, slotVars, dataVars, helloVars>>

\* The loop ends (cancel, idle timeout, Drain) or the drain deadline passes:
\* cancel every registered service and abort every child task.
StopChildren(s) ==
  /\ control[s] \in {"up", "drain"}
  /\ control' = [control EXCEPT ![s] = "stop"]
  /\ cancelled' = cancelled \cup (services \cap ListenersOf(s))
  /\ doomed' = doomed \cup ListenersOf(s)
  /\ UNCHANGED <<tableVars, listener, opens, offered, owner, phase, entryVars,
                 expired, slotVars, dataVars, helloVars>>

\* Every child has been joined: remove_all_pending.
SweepSession(s) ==
  /\ control[s] = "stop"
  /\ \A l \in ListenersOf(s) : listener[l] \in {"unused", "done"}
  /\ control' = [control EXCEPT ![s] = "swept"]
  /\ RemovePending(SessionConns(s))
  /\ UNCHANGED <<tableVars, taskVars, opens, offered, owner, phase,
                 expired, slotVars, dataVars, helloVars>>

\* serve_control returns: the JoinSet of children is dropped (abort), then
\* SessionGuard::drop cancels, settles the counters and leaves the registry.
CloseSession(s) ==
  /\ control' = [control EXCEPT ![s] = "ended"]
  /\ doomed' = doomed \cup ListenersOf(s)
  /\ cancelled' = cancelled \cup ListenersOf(s)
  /\ services' = services \ ListenersOf(s)
  /\ binds' = binds \ ListenersOf(s)
  /\ servicesCount' = servicesCount - Cardinality(binds \cap ListenersOf(s))
  /\ opens' = [opens EXCEPT ![s] = <<>>]
  /\ UNCHANGED <<listener, offered, owner, phase, entryVars, expired, slotVars,
                 dataVars, helloVars>>

\* The normal return at the end of serve_control.
ReturnFromControl(s) ==
  /\ control[s] = "swept"
  /\ CloseSession(s)

\* An error return out of the loop (a failed write, a protocol error), or the
\* handler task aborted by the accept loop's drain: no sweep takes place.
AbandonControl(s) ==
  /\ control[s] \in {"up", "drain", "stop"}
  /\ CloseSession(s)

\* Seeded fault: listeners that do not keep the context alive.
ContextHeldByRelays(s) ==
  \/ \E c \in SessionConns(s) : phase[c] \in RelayPhases \cup {"releasing"}
  \/ \E h \in Hello : handler[h] \in {"upgraded", "taken"} /\ message[h].sess = s

\* Tasks that hold an Arc<SessionContext> of s beside the control task.  The drain's
\* own list of contexts is not among them: it goes with the grace period.
ContextHeld(s) ==
  \/ \E l \in ListenersOf(s) : listener[l] \in {"run", "joining"}
  \/ \E c \in SessionConns(s) : phase[c] \in RelayPhases \cup {"releasing"}
  \/ \E h \in Hello : handler[h] \in {"upgraded", "taken"} /\ message[h].sess = s

\* The last Arc is released: SessionContext::drop settles what is left.
DropContext(s) ==
  /\ control[s] = "ended"
  /\ ~ContextHeld(s)
  /\ control' = [control EXCEPT ![s] = "freed"]
  /\ RemovePending(SessionConns(s))
  /\ UNCHANGED <<tableVars, taskVars, opens, offered, owner, phase,
                 expired, slotVars, dataVars, helloVars>>

(***************************************************************************)
(* The listener task.                                                      *)
(***************************************************************************)

\* Seeded fault: an off-by-one in the permit test.
PermitFreeOffByOne(s) == permits[s] >= 0

\* try_acquire_owned on connection_admission succeeds.
PermitFree(s) == permits[s] > 0

\* An external connection is accepted: take a permit or refuse it.
Accept(l, c) ==
  LET s == SessionOf[l] IN
  /\ AtSelect(l)
  /\ phase[c] = "idle"
  /\ owner' = [owner EXCEPT ![c] = l]
  /\ IF PermitFree(s)
       THEN /\ phase' = [phase EXCEPT ![c] = "admitted"]
            /\ permits' = [permits EXCEPT ![s] = @ - 1]
       ELSE /\ phase' = [phase EXCEPT ![c] = "refused"]
            /\ UNCHANGED permits
  /\ UNCHANGED <<control, tableVars, taskVars, opens, offered, entryVars,
                 expired, active, dataVars, helloVars>>

\* Seeded fault: an off-by-one in the table bound.
TableFullOffByOne(s) == Cardinality(pending \cap SessionConns(s)) > MaxPending

\* pending.len() has reached pending_per_session.
TableFull(s) == Cardinality(pending \cap SessionConns(s)) >= MaxPending

\* Under the pending lock: refuse when the table is full, else insert.
InsertPending(l, c) ==
  LET s == SessionOf[l] IN
  /\ listener[l] = "run"
  /\ owner[c] = l
  /\ phase[c] = "admitted"
  /\ IF TableFull(s)
       THEN /\ phase' = [phase EXCEPT ![c] = "refused"]
            /\ permits' = [permits EXCEPT ![s] = @ + 1]
            /\ UNCHANGED entryVars
       ELSE /\ phase' = [phase EXCEPT ![c] = "inserted"]
            /\ pending' = pending \cup {c}
            /\ pendingCount' = pendingCount + 1
            /\ UNCHANGED permits
  /\ UNCHANGED <<control, tableVars, taskVars, opens, offered, owner, expired,
                 active, dataVars, helloVars>>

\* The receiver lives in serve_control and the channel is bounded.
QueueHasRoom(s) ==
  /\ control[s] \notin {"ended", "freed"}
  /\ Len(opens[s]) < QueueCapacity

\* try_send of Open: a full or closed queue rolls back, else a relay task is
\* spawned with the permit inside its guard.
SendOpen(l, c) ==
  LET s == SessionOf[l] IN
  /\ listener[l] = "run"
  /\ owner[c] = l
  /\ phase[c] = "inserted"
  /\ IF QueueHasRoom(s)
       THEN /\ opens' = [opens EXCEPT ![s] = Append(@, c)]
            /\ phase' = [phase EXCEPT ![c] = "waiting"]
            /\ active' = active + 1
       ELSE /\ phase' = [phase EXCEPT ![c] = "unsent"]
            /\ UNCHANGED <<opens, active>>
  /\ UNCHANGED <<control, tableVars, taskVars, offered, owner, entryVars,
                 expired, permits, dataVars, helloVars>>

\* The rollback takes the pending lock a second time.
RollBack(l, c) ==
  /\ listener[l] = "run"
  /\ owner[c] = l
  /\ phase[c] = "unsent"
  /\ RemovePending({c})
  /\ phase' = [phase EXCEPT ![c] = "closed"]
  /\ permits' = [permits EXCEPT ![SessionOf[l]] = @ + 1]
  /\ UNCHANGED <<control, tableVars, taskVars, opens, offered, owner, expired,
                 active, dataVars, helloVars>>

\* The loop sees its cancellation and aborts its relay tasks.
StopListener(l) ==
  /\ AtSelect(l)
  /\ l \in cancelled
  /\ listener' = [listener EXCEPT ![l] = "joining"]
  /\ doomed' = doomed \cup RelaySet(l)
  /\ UNCHANGED <<control, tableVars, cancelled, opens, offered, owner, phase,
                 entryVars, expired, slotVars, dataVars, helloVars>>

\* Seeded fault: run_service exits without its last sweep.
FinishListenerUnswept(l) ==
  /\ listener[l] = "joining"
  /\ \A c \in RelaySet(l) : phase[c] \notin RelayPhases \cup {"releasing"}
  /\ listener' = [listener EXCEPT ![l] = "done"]
  /\ UNCHANGED <<control, tableVars, cancelled, doomed, opens, offered, owner,
                 phase, entryVars, expired, slotVars, dataVars, helloVars>>

\* Every relay task has been joined: remove_service_pending, by ServiceId.
FinishListener(l) ==
  /\ listener[l] = "joining"
  /\ \A c \in RelaySet(l) : phase[c] \notin RelayPhases \cup {"releasing"}
  /\ listener' = [listener EXCEPT ![l] = "done"]
  /\ RemovePending(ServiceConns(l))
  /\ UNCHANGED <<control, tableVars, cancelled, doomed, opens, offered, owner,
                 phase, expired, slotVars, dataVars, helloVars>>

\* The listener task is dropped at an await point: the permit of a connection
\* in its accept arm returns, its entry stays, its relay tasks are aborted.
AbortListener(l) ==
  LET s == SessionOf[l]
      stranded == {c \in ConnsOf(l) : phase[c] \in {"admitted", "unsent"}}
  IN
  /\ l \in doomed
  /\ listener[l] \in {"run", "joining"}
  /\ \A c \in ConnsOf(l) : phase[c] # "inserted"
  /\ listener' = [listener EXCEPT ![l] = "done"]
  /\ doomed' = doomed \cup RelaySet(l)
  /\ phase' = [c \in Conn |->
                 IF c \notin stranded THEN phase[c]
                 ELSE IF phase[c] = "admitted" THEN "refused" ELSE "closed"]
  /\ permits' = [permits EXCEPT ![s] = @ + Cardinality(stranded)]
  /\ UNCHANGED <<control, tableVars, cancelled, opens, offered, owner,
                 entryVars, expired, active, dataVars, helloVars>>

(***************************************************************************)
(* The relay task.                                                         *)
(***************************************************************************)

\* The entry's sender is gone: nobody can fill the oneshot of c any more.
SenderGone(c) ==
  /\ c \notin pending
  /\ delivered[c] = NoHello
  /\ \A h \in Hello : handler[h] = "taken" => message[h].conn # c

\* Seeded fault: no timeout around the oneshot receiver.
WakeEmptyUntimed(c) == owner[c] \in cancelled \/ SenderGone(c)

\* The relay task stops waiting without a stream.
WakeEmpty(c) ==
  \/ owner[c] \in cancelled
  \/ c \in expired /\ delivered[c] = NoHello
  \/ SenderGone(c)

\* The select! of the relay task ends with a stream, or with none on cancel,
\* timeout or a dropped sender.
Wake(c, some) ==
  /\ phase[c] = "waiting"
  /\ IF some THEN delivered[c] # NoHello ELSE WakeEmpty(c)
  /\ phase' = [phase EXCEPT ![c] = "woken"]
  /\ matched' = IF some THEN matched \cup {c} ELSE matched
  /\ UNCHANGED <<control, tableVars, taskVars, opens, offered, owner,
                 entryVars, expired, slotVars, delivered, helloVars>>

\* Whatever the outcome, the relay task removes its own entry if still there.
Unlink(c) ==
  /\ phase[c] = "woken"
  /\ RemovePending({c})
  /\ phase' = [phase EXCEPT ![c] = "unlinked"]
  /\ UNCHANGED <<control, tableVars, taskVars, opens, offered, owner, expired,
                 slotVars, dataVars, helloVars>>

\* ActiveConnectionGuard::drop: first the counter, then the permit.
ReleaseGuard(c) ==
  /\ phase' = [phase EXCEPT ![c] = "releasing"]
  /\ active' = active - 1
  /\ UNCHANGED <<control, tableVars, taskVars, opens, offered, owner, entryVars,
                 expired, permits, dataVars, helloVars>>

\* The relay task has nothing to relay, or its relay ends.
FinishRelay(c) ==
  /\ phase[c] = "unlinked"
  /\ ReleaseGuard(c)

\* Seeded fault: the counter is settled by the task body, not by the guard.
AbortRelayUncounted(c) ==
  /\ c \in doomed
  /\ phase[c] \in RelayPhases
  /\ phase' = [phase EXCEPT ![c] = "releasing"]
  /\ UNCHANGED <<control, tableVars, taskVars, opens, offered, owner, entryVars,
                 expired, slotVars, dataVars, helloVars>>

\* The relay task is dropped at an await point, its entry left behind.
AbortRelay(c) ==
  /\ c \in doomed
  /\ phase[c] \in RelayPhases
  /\ ReleaseGuard(c)

ReleasePermit(c) ==
  /\ phase[c] = "releasing"
  /\ phase' = [phase EXCEPT ![c] = "closed"]
  /\ permits' = [permits EXCEPT ![SessionOf[owner[c]]] = @ + 1]
  /\ UNCHANGED <<control, tableVars, taskVars, opens, offered, owner, entryVars,
                 expired, active, dataVars, helloVars>>

\* The lifetime of a pending connection passes.
Expire(c) ==
  /\ phase[c] \in {"inserted", "unsent", "waiting", "woken"}
  /\ c \notin expired
  /\ expired' = expired \cup {c}
  /\ UNCHANGED <<control, tableVars, taskVars, opens, offered, owner, phase,
                 entryVars, slotVars, dataVars, helloVars>>

(***************************************************************************)
(* The DataHello handler.                                                  *)
(***************************************************************************)

\* Seeded fault: the Principal is not compared.
AnyPrincipal(m) == TRUE

\* The Data Connection presents the Principal of the control Session.
PrincipalMatches(m) == m.prin = PrincipalOf[m.sess]

\* A peer that was sent an Open presents a DataHello naming any Session and
\* Service: look the Session up and compare the Principal.
ReceiveHello(h, m) ==
  /\ handler[h] = "idle"
  /\ m.conn \in offered
  /\ message' = [message EXCEPT ![h] = m]
  /\ handler' = [handler EXCEPT ![h] =
                   IF /\ control[m.sess] \in {"up", "drain", "stop", "swept"}
                      /\ PrincipalMatches(m)
                     THEN "upgraded" ELSE "rejected"]
  /\ UNCHANGED <<control, tableVars, taskVars, opens, offered, owner, phase,
                 entryVars, expired, slotVars, dataVars>>

\* Seeded fault: the entry is looked up and left in the table.
PeekEntry(h) ==
  /\ handler[h] = "upgraded"
  /\ handler' = [handler EXCEPT ![h] =
       IF message[h].conn \in pending \cap SessionConns(message[h].sess)
         THEN "taken" ELSE "rejected"]
  /\ UNCHANGED <<control, tableVars, taskVars, opens, offered, owner, phase,
                 entryVars, expired, slotVars, dataVars, message>>

\* Under the pending lock: the entry is consumed whatever follows.
TakeEntry(h) ==
  LET c == message[h].conn IN
  /\ handler[h] = "upgraded"
  /\ IF c \in pending \cap SessionConns(message[h].sess)
       THEN /\ RemovePending({c})
            /\ handler' = [handler EXCEPT ![h] = "taken"]
       ELSE /\ handler' = [handler EXCEPT ![h] = "rejected"]
            /\ UNCHANGED entryVars
  /\ UNCHANGED <<control, tableVars, taskVars, opens, offered, owner, phase,
                 expired, slotVars, dataVars, message>>

\* The receiver of the oneshot still exists.
ReceiverAlive(c) == phase[c] \in {"inserted", "unsent", "waiting"}

\* Seeded fault: the Service is not compared.
UnexpiredEntry(h) == message[h].conn \notin expired

\* The entry is for the requested Service and has not expired.
ValidEntry(h) ==
  LET c == message[h].conn IN
  ServiceOf[owner[c]] = message[h].svc /\ c \notin expired

\* Compare the Service and the expiry, then hand the stream over.
SettleHello(h) ==
  LET c == message[h].conn IN
  /\ handler[h] = "taken"
  /\ IF ValidEntry(h) /\ ReceiverAlive(c)
       THEN /\ delivered' = [delivered EXCEPT ![c] = h]
            /\ handler' = [handler EXCEPT ![h] = "accepted"]
       ELSE /\ handler' = [handler EXCEPT ![h] =
                           IF ValidEntry(h) THEN "cancelled" ELSE "rejected"]
            /\ UNCHANGED delivered
  /\ UNCHANGED <<control, tableVars, taskVars, opens, offered, owner, phase,
                 entryVars, expired, slotVars, matched, message>>

\* The handler is aborted while it waits for the pending lock.
AbortHello(h) ==
  /\ handler[h] = "upgraded"
  /\ handler' = [handler EXCEPT ![h] = "rejected"]
  /\ UNCHANGED <<control, tableVars, taskVars, opens, offered, owner, phase,
                 entryVars, expired, slotVars, dataVars, message>>

-----------------------------------------------------------------------------
Init ==
  /\ control = [s \in Session |-> "new"]
  /\ listener = [l \in Listener |-> "unused"]
  /\ services = {}
  /\ binds = {}
  /\ servicesCount = 0
  /\ cancelled = {}
  /\ doomed = {}
  /\ opens = [s \in Session |-> <<>>]
  /\ offered = {}
  /\ owner = [c \in Conn |-> NoListener]
  /\ phase = [c \in Conn |-> "idle"]
  /\ pending = {}
  /\ pendingCount = 0
  /\ expired = {}
  /\ permits = [s \in Session |-> MaxConnections]
  /\ active = 0
  /\ delivered = [c \in Conn |-> NoHello]
  /\ matched = {}
  /\ message = [h \in Hello |-> NoMessage]
  /\ handler = [h \in Hello |-> "idle"]

ControlStep(s) ==
  \/ Establish(s)
  \/ WriteOpen(s)
  \/ \E c \in Conn : OpenReject(s, c)
  \/ PeerDrain(s)
  \/ ForceCancel(s)
  \/ StopChildren(s)
  \/ SweepSession(s)
  \/ ReturnFromControl(s)
  \/ AbandonControl(s)
  \/ DropContext(s)

ListenerStep(l) ==
  \/ RegisterService(l)
  \/ UnregisterService(l)
  \/ \E c \in Conn : \/ Accept(l, c)
                     \/ InsertPending(l, c)
                     \/ SendOpen(l, c)
                     \/ RollBack(l, c)
  \/ StopListener(l)
  \/ FinishListener(l)
  \/ AbortListener(l)

RelayStep(c) ==
  \/ \E some \in BOOLEAN : Wake(c, some)
  \/ Unlink(c)
  \/ FinishRelay(c)
  \/ AbortRelay(c)
  \/ ReleasePermit(c)
  \/ Expire(c)

HelloStep(h) ==
  \/ \E m \in Messages : ReceiveHello(h, m)
  \/ TakeEntry(h)
  \/ SettleHello(h)
  \/ AbortHello(h)

Next ==
  \/ \E s \in Session : ControlStep(s)
  \/ \E l \in Listener : ListenerStep(l)
  \/ \E c \in Conn : RelayStep(c)
  \/ \E h \in Hello : HelloStep(h)

Spec == Init /\ [][Next]_vars

(***************************************************************************)
(* tokio polls a task that can run, its timers fire, and an aborted task   *)
(* is dropped.  Nothing is assumed of the peers: registrations, external   *)
(* connections, OpenReject, DataHello, Drain, and the end of a relay that  *)
(* has both streams may or may not come.                                   *)
(***************************************************************************)
ControlFairness(s) ==
  /\ WF_vars(control[s] = "drain" /\ StopChildren(s))
  /\ WF_vars(SweepSession(s))
  /\ WF_vars(ReturnFromControl(s))
  /\ WF_vars(DropContext(s))

ListenerFairness(l) ==
  /\ WF_vars(\E c \in Conn : InsertPending(l, c) \/ SendOpen(l, c) \/ RollBack(l, c))
  /\ WF_vars(StopListener(l))
  /\ WF_vars(FinishListener(l))
  /\ WF_vars(AbortListener(l))

RelayFairness(c) ==
  /\ WF_vars(\E some \in BOOLEAN : Wake(c, some))
  /\ WF_vars(Unlink(c))
  /\ WF_vars(c \notin matched /\ FinishRelay(c))
  /\ WF_vars(AbortRelay(c))
  /\ WF_vars(ReleasePermit(c))
  /\ WF_vars(Expire(c))

HandlerFairness(h) == WF_vars(TakeEntry(h)) /\ WF_vars(SettleHello(h))

FairSpec ==
  /\ Spec
  /\ \A s \in Session : ControlFairness(s)
  /\ \A l \in Listener : ListenerFairness(l)
  /\ \A c \in Conn : RelayFairness(c)
  /\ \A h \in Hello : HandlerFairness(h)

-----------------------------------------------------------------------------
(***************************************************************************)
(* Safety.                                                                 *)
(***************************************************************************)

\* Every variable has its type; in particular the usize counters and the
\* semaphores never go below zero.
TypeOK ==
  /\ control \in [Session -> ControlStates]
  /\ listener \in [Listener -> ListenerStates]
  /\ services \subseteq Listener
  /\ binds \subseteq Listener
  /\ servicesCount \in Nat
  /\ cancelled \subseteq Listener
  /\ doomed \subseteq Listener \cup Conn
  /\ opens \in [Session -> Seq(Conn)]
  /\ offered \subseteq Conn
  /\ owner \in [Conn -> Listener \cup {NoListener}]
  /\ phase \in [Conn -> Phases]
  /\ pending \subseteq Conn
  /\ pendingCount \in Nat
  /\ expired \subseteq Conn
  /\ permits \in [Session -> Nat]
  /\ active \in Nat
  /\ delivered \in [Conn -> Hello \cup {NoHello}]
  /\ matched \subseteq Conn
  /\ message \in [Hello -> Messages \cup {NoMessage}]
  /\ handler \in [Hello -> HandlerStates]

\* The pending_connections counter is the number of entries in the pending
\* tables, whichever of claim, refusal, expiry, rollback, unregistration,
\* teardown and SessionContext::drop removed the others, and in any order.
PendingCountExact == pendingCount = Cardinality(pending)

\* The registered_services counter is the number of published binds, and an
\* established Session publishes exactly the services in its control loop's
\* map: unregistration and SessionGuard::drop never settle a bind twice.
ServicesCountExact ==
  /\ servicesCount = Cardinality(binds)
  /\ binds = services

\* Both gauges are exact, whoever removes what they count, whenever no synchronous
\* section that moves table and gauge together is under way; a snapshot loads them
\* without a lock and may see the middle of one.
GaugesExact == PendingCountExact /\ ServicesCountExact

\* No pending entry is stranded: while the entry exists, its accept arm or
\* its relay task will still remove it, or the listener will remove it when
\* it has joined its relays, or the control task will sweep the Session, or
\* the SessionContext is about to be dropped.
EntryHasRemover ==
  \A c \in pending :
    LET l == owner[c] IN
    \/ phase[c] \in {"inserted", "unsent", "waiting", "woken"}
    \/ listener[l] = "joining"
    \/ listener[l] = "done" /\ control[SessionOf[l]] \in {"stop", "ended"}

\* The pending table of a Session never exceeds pending_per_session, though
\* the permit is taken before the table is locked and measured.
PendingBounded ==
  \A s \in Session : Cardinality(pending \cap SessionConns(s)) <= MaxPending

\* Permits are conserved, through refusals, rollbacks and aborted tasks; and
\* since a guard gives back its counter before its permit, the
\* active_connections counter never exceeds the permits taken.
PermitsConserved ==
  /\ \A s \in Session :
       permits[s] = MaxConnections
                    - Cardinality({c \in SessionConns(s) : phase[c] \in PermitPhases})
  /\ active = Cardinality({c \in Conn : phase[c] \in RelayPhases})

\* A ConnectionId is claimed at most once: two accepted DataHellos never
\* name the same connection, however their handlers interleave.
SingleClaim ==
  \A g, h \in Hello :
    (handler[g] = "accepted" /\ handler[h] = "accepted" /\ g # h)
      => message[g].conn # message[h].conn

\* A relay only ever carries a stream from the Principal of the connection's
\* own Session, presented for the connection's own Service.
RelayIsAuthorised ==
  \A c \in matched : \E h \in Hello :
    /\ handler[h] = "accepted"
    /\ message[h].conn = c
    /\ message[h].sess = SessionOf[owner[c]]
    /\ message[h].svc = ServiceOf[owner[c]]
    /\ message[h].prin = PrincipalOf[message[h].sess]

\* Once its SessionContext is dropped a Session leaves nothing behind: no
\* entry, no bind, no permit in use, no task.
FreedIsClean ==
  \A s \in Session : control[s] = "freed" =>
    /\ pending \cap SessionConns(s) = {}
    /\ binds \cap ListenersOf(s) = {}
    /\ permits[s] = MaxConnections
    /\ \A l \in ListenersOf(s) : listener[l] \in {"unused", "done"}

\* Nothing leaks: what is in a table has someone left to remove it, and what is
\* freed has left nothing.
NothingLeaks == EntryHasRemover /\ FreedIsClean

\* The teardown of an unregistered listener removes "its pending
\* ConnectionIds" (architecture/server.md:838) and nobody else's.
TeardownRemovesOwn ==
  [][\A l \in Listener : listener[l] = "joining" /\ listener'[l] = "done"
       => \A c \in pending \ pending' : owner[c] = l]_vars

(***************************************************************************)
(* Liveness.                                                               *)
(***************************************************************************)

\* No entry stays in a pending table for ever, even when the client never
\* answers the Open, the queue is full, or tasks are aborted midway.
PendingResolved == \A c \in Conn : c \in pending ~> c \notin pending

\* A Session whose control task has returned is eventually freed: no task
\* keeps its Arc<SessionContext> alive.
ContextFreed ==
  \A s \in Session : control[s] = "ended" ~> control[s] = "freed"

\* An admitted connection eventually has a stream to relay or gives its
\* permit back.
PermitReturns ==
  \A c \in Conn : phase[c] = "admitted" ~> \/ c \in matched
                                          \/ phase[c] \in {"closed", "refused"}

\* No connection is stuck, in the table or on the way to it.
ConnectionsSettle == PendingResolved /\ PermitReturns

(***************************************************************************)
(* Refinement: each ConnectionId is a ticket.                              *)
(***************************************************************************)
NoScope == [sess |-> NoListener, svc |-> NoListener]

Issued(c) == phase[c] \notin {"idle", "admitted", "refused"}

\* A DataHello handler has taken the entry and not yet settled it.
Held(c) == \E h \in Hello : handler[h] = "taken" /\ message[h].conn = c

ticketState == [c \in Conn |->
  IF ~Issued(c) THEN "unissued"
  ELSE IF delivered[c] # NoHello THEN "claimed"
  ELSE IF c \in pending \/ Held(c) THEN "open"
  ELSE "void"]

ticketScope == [c \in Conn |->
  IF Issued(c) THEN [sess |-> SessionOf[owner[c]], svc |-> ServiceOf[owner[c]]]
  ELSE NoScope]

ticketClaim == [c \in Conn |->
  IF delivered[c] = NoHello THEN NoMessage ELSE message[delivered[c]]]

T == INSTANCE Ticket WITH ticket <- ticketState, scope <- ticketScope,
                          claim <- ticketClaim

\* The tables, locks and tasks implement the ticket: issued once, claimed at
\* most once and only by the right DataHello, never reopened.
ImplementsTicket == T!Spec
=============================================================================
