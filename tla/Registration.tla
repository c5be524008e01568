---------------------------- MODULE Registration ----------------------------
(***************************************************************************)
(* How Services are registered: the client's ServiceState and Session loop *)
(* (client/service_state.rs, run_session in client.rs), the supervisor's   *)
(* handling of a Session that ended (client/reconnect.rs) and, at the      *)
(* other end of the control stream, register_service (server/control.rs).  *)
(*                                                                         *)
(* One client; its Sessions are numbered by their generation.  The server  *)
(* side of an old Session lives on until it notices that its client left,  *)
(* so two generations may hold listeners at once.                          *)
(*                                                                         *)
(* Abstractions.                                                           *)
(*  - A registration (Reg) is one use of a service descriptor: a boot      *)
(*    service of the configuration or one register_service call.  The wire *)
(*    carries its ServiceId and name only; two Regs may share either.      *)
(*    Responses name the Reg they answer so that properties can; the       *)
(*    client looks at IdOf and the code alone.                             *)
(*  - The handshake is one step.  Deadlines may pass at any time.          *)
(*  - A timed-out write left nothing, the whole frame or part of it in the *)
(*    stream; part of a frame makes what follows undecodable.              *)
(*  - The order of desired is left open; the code uses insertion order.    *)
(*  - Counters other than the bind table are left out, and so are Ping,    *)
(*    Pong and OpenReject: they change none of this state.                 *)
(***************************************************************************)
EXTENDS Integers, Sequences, FiniteSets

CONSTANTS
  ServiceId, Name,
  Reg,            \* registrations
  Boot,           \* the registrations of the configuration file
  IdOf, NameOf,   \* what a registration asks for
  Denied,         \* registrations the bind policy refuses
  FixedPort,      \* services that ask for one definite port
  Modes,          \* wire modes the servers of this run may negotiate
  MaxGen,         \* the last Session generation (u64::MAX in the code)
  MaxInFlight,    \* client_command_queue, the ceiling of correlated mode
  ClientLimit,    \* services_per_session of the client
  ServerLimit,    \* min(max_services_per_session, services_per_session)
  MaxTombs,       \* 256 in the code
  CommandQueue,   \* capacity of the command channel
  MaxUnregisters, \* bound: unregister_service calls
  WireCap,        \* bound: Opens are sent while the stream holds fewer
  None

ASSUME RegAssumption ==
  /\ IsFiniteSet(Reg)
  /\ Boot \subseteq Reg
  /\ Denied \subseteq Reg
  /\ FixedPort \subseteq ServiceId
  /\ IdOf \in [Reg -> ServiceId]
  /\ NameOf \in [Reg -> Name]
  /\ Modes \subseteq {"legacy", "correlated"}
  /\ None \notin Reg

\* validate_config refuses a configuration with two services of one id or name.
ASSUME BootAssumption ==
  \A r, q \in Boot : r # q => IdOf[r] # IdOf[q] /\ NameOf[r] # NameOf[q]

ASSUME BoundAssumption ==
  /\ {MaxGen, MaxInFlight, ClientLimit, ServerLimit, MaxTombs, CommandQueue,
      MaxUnregisters, WireCap} \subseteq Nat
  /\ Cardinality(Boot) <= ClientLimit
  /\ MaxInFlight >= 1

VARIABLES
  client,    \* "down" (no Session), "init", "ready" or "stopped"
  gen,       \* Counters::session_generation
  mode,      \* ServiceState::mode
  todo,      \* init: desired registrations not yet acknowledged
  asked,     \* init: the registration whose answer is awaited
  desired,   \* ServiceState::desired
  active,    \* ServiceState::active
  slot,      \* ServiceState::pending, the legacy transaction
  inFlight,  \* ServiceState::in_flight
  armed,     \* transactions whose deadline is set
  born,      \* born[r]: the generation stamped on r's transaction
  tombs,     \* ServiceState::abandoned: pairs <<id, generation>>
  reply,     \* reply[r]: the oneshot a register_service caller waits on
  commands,  \* the bounded command channel of the worker
  asks,      \* unregister_service calls so far
  binds,     \* Counters::binds: pairs <<registration, listener it names>>
  leaked,    \* ids whose best-effort UnregisterService was not written
  cause,     \* why the last Session ended, and the registration involved
  srv,       \* srv[g]: serve_control of generation g
  services,  \* services[g]: the control loop's service map
  bound,     \* pairs <<g, r>>: listening sockets that are open
  toServer,  \* toServer[g], toClient[g]: the control stream
  toClient

clientVars  == <<client, gen, mode, todo, asked>>
txnVars     == <<slot, inFlight, armed, born>>
stateVars   == <<desired, active, tombs, binds, leaked>>
callVars    == <<reply, commands, asks>>
serverVars  == <<srv, services, bound>>
wireVars    == <<toServer, toClient>>
vars == <<clientVars, txnVars, stateVars, callVars, cause, serverVars, wireVars>>

Gen      == 1..MaxGen
Waiting  == {"queued", "waiting"}
Failures == {"exists", "exhausted", "authorization", "timeout", "cancelled",
             "disconnected"}
Replies  == {"idle", "ok", "missed", "dropped"} \cup Waiting \cup Failures
Codes    == {1, 2, 3, 5}
Causes   == {"none", "left", "refused", "listener", "open", "drain",
             "unexpected", "unattributed", "spent", "cancelled"}
ToServer == [kind : {"register"}, reg : Reg]
              \cup [kind : {"unregister"}, id : ServiceId]
              \cup [kind : {"drain", "garbled"}]
ToClient == [kind : {"ack", "open"}, reg : Reg]
              \cup [kind : {"error", "reject"}, reg : Reg, code : Codes]
              \cup [kind : {"drain"}]
Command  == [op : {"register"}, reg : Reg] \cup [op : {"unregister"}, id : ServiceId]

Same(r, q) == IdOf[r] = IdOf[q] \/ NameOf[r] = NameOf[q]
ById(S, id) == {r \in S : IdOf[r] = id}
Connected == client \in {"init", "ready"}

Init ==
  /\ client = "down" /\ gen = 0 /\ mode = "legacy"
  /\ todo = {} /\ asked = None
  /\ desired = Boot /\ active = {}
  /\ slot = None /\ inFlight = {} /\ armed = {}
  /\ born = [r \in Reg |-> 0]
  /\ tombs = {}
  /\ reply = [r \in Reg |-> "idle"]
  /\ commands = <<>> /\ asks = 0
  /\ binds = {} /\ leaked = {}
  /\ cause = [why |-> "none", reg |-> None]
  /\ srv = [g \in Gen |-> "none"]
  /\ services = [g \in Gen |-> {}]
  /\ bound = {}
  /\ toServer = [g \in Gen |-> <<>>]
  /\ toClient = [g \in Gen |-> <<>>]

(***************************************************************************)
(* ServiceState.                                                           *)
(***************************************************************************)

\* Every transaction without an acknowledgement.
Unacknowledged == inFlight \cup ({slot} \ {None})

\* Send a result to those of R that still hold an open reply channel.
Answer(R, result) ==
  reply' = [r \in Reg |->
              IF r \in R /\ reply[r] \in Waiting THEN result ELSE reply[r]]

Release(R) ==
  /\ slot' = IF slot \in R THEN None ELSE slot
  /\ inFlight' = inFlight \ R
  /\ armed' = armed \ R

\* Seeded fault: only what is being registered is compared.
ClashPending(r) == \E q \in Unacknowledged : Same(r, q)

\* begin refuses an id or a name that is desired or being registered.
Clash(r) == \E q \in desired \cup Unacknowledged : Same(r, q)

\* begin refuses a second legacy transaction, and correlated ones at the ceiling.
NoRoom ==
  IF mode = "legacy" THEN slot # None ELSE Cardinality(inFlight) >= MaxInFlight

\* The Session loop refuses what would exceed services_per_session.
LimitReached ==
  Cardinality(desired) + Cardinality(Unacknowledged) >= ClientLimit

\* take_transaction: a legacy transaction for another id hides the rest.
Found(id) ==
  IF slot = None THEN ById(inFlight, id)
                 ELSE IF IdOf[slot] = id THEN {slot} ELSE {}

TombsOf(id) == {t \in tombs : t[1] = id}

\* Tombstones are bounded: a full table is emptied first.
WithTomb(id, g) ==
  (IF Cardinality(tombs) >= MaxTombs THEN {} ELSE tombs \ TombsOf(id))
    \cup {<<id, g>>}

\* unregister: cancel its transaction (a legacy one leaves a tombstone),
\* forget the desired and the active Service.
Unregister(id) ==
  LET cancelled == ById(Unacknowledged, id)
  IN  /\ Release(cancelled)
      /\ Answer(cancelled, "cancelled")
      /\ tombs' = IF slot \in cancelled THEN WithTomb(id, born[slot]) ELSE tombs
      /\ desired' = desired \ ById(desired, id)
      /\ active' = active \ ById(active, id)

(***************************************************************************)
(* How run_session ends.                                                   *)
(***************************************************************************)

\* finish_pending and clear_active: the loop was left with break.  R are callers
\* whose transaction has been taken already.
LeaveClean(R, result, why) ==
  /\ client' = "down"
  /\ Answer(Unacknowledged \cup R, result)
  /\ Release(Unacknowledged)
  /\ tombs' = {} /\ active' = {} /\ binds' = {}
  /\ cause' = [why |-> why, reg |-> None]

\* return Err of an error that is retried: nothing is finished.
LeaveDirty(why, r) ==
  /\ client' = "down"
  /\ binds' = {}
  /\ cause' = [why |-> why, reg |-> r]

\* return Err of an error the supervisor does not retry: its state is dropped,
\* and every caller sees its reply channel or the command channel closed.
LeaveForGood(why, r) ==
  /\ client' = "stopped"
  /\ binds' = {}
  /\ Answer(Reg, "disconnected")
  /\ cause' = [why |-> why, reg |-> r]

(***************************************************************************)
(* The client's Session.                                                   *)
(***************************************************************************)
\* What is written to a server that has left the loop is lost.
Send(msgs) ==
  toServer' = IF srv[gen] = "up" THEN [toServer EXCEPT ![gen] = @ \o msgs] ELSE toServer

Incoming(kinds) ==
  /\ toClient[gen] # <<>>
  /\ Head(toClient[gen]).kind \in kinds

\* The head is read; what else was received is lost if the Session ends here.
Consume ==
  toClient' = [toClient EXCEPT ![gen] = IF client' = client THEN Tail(@) ELSE <<>>]

HangUp == IF gen = 0 THEN UNCHANGED toClient
                     ELSE toClient' = [toClient EXCEPT ![gen] = <<>>]

\* What a write that ran into its timeout may have left in the stream.
LateWrites(m) == {<<>>, <<m>>, <<[kind |-> "garbled"]>>}

\* Seeded fault: transactions of the previous Session are carried over.
SetModeOnly(m) ==
  /\ UNCHANGED <<slot, inFlight, armed, reply>>
  /\ tombs' = {}
  /\ mode' = m

\* set_mode fails what the previous Session left and forgets its tombstones.
SetMode(m) ==
  /\ Answer(Unacknowledged, "disconnected")
  /\ Release(Unacknowledged)
  /\ tombs' = {}
  /\ mode' = m

\* begin_session: checked_add on the generation counter.
CanNumber == gen < MaxGen

\* The handshake succeeded: begin_session, set_mode, clear_active.
Connect(m) ==
  /\ client = "down" /\ CanNumber
  /\ client' = "init"
  /\ gen' = gen + 1
  /\ SetMode(m)
  /\ active' = {} /\ leaked' = {}
  /\ todo' = desired /\ asked' = None
  /\ srv' = [srv EXCEPT ![gen + 1] = "up"]
  /\ UNCHANGED <<born, desired, binds, commands, asks, cause, services, bound, wireVars>>

\* begin_session cannot number another Session.
GenerationSpent ==
  /\ client = "down" /\ ~CanNumber
  /\ LeaveForGood("spent", None)
  /\ UNCHANGED <<gen, mode, todo, asked, txnVars, desired, active, tombs, leaked,
                 commands, asks, serverVars, wireVars>>

\* Initial registration: one request at a time, in both modes.
InitRegister(r) ==
  /\ client = "init" /\ asked = None /\ r \in todo
  /\ asked' = r
  /\ Send(<<[kind |-> "register", reg |-> r]>>)
  /\ UNCHANGED <<client, gen, mode, todo, txnVars, stateVars, callVars, cause,
                 serverVars, toClient>>

InitAck ==
  /\ client = "init" /\ asked # None /\ Incoming({"ack"})
  /\ LET m == Head(toClient[gen])
     IN  IF IdOf[m.reg] = IdOf[asked]
         THEN /\ binds' = binds \cup {<<asked, m.reg>>}
              /\ todo' = todo \ {asked} /\ asked' = None
              /\ UNCHANGED <<client, reply, cause>>
         ELSE /\ LeaveForGood("unexpected", m.reg)
              /\ UNCHANGED <<todo, asked>>
  /\ UNCHANGED <<gen, mode, txnVars, desired, active, tombs, leaked, commands, asks,
                 serverVars, toServer>>
  /\ Consume

\* Any other message while an acknowledgement is awaited ends the client.
InitOther ==
  /\ client = "init" /\ asked # None
  /\ Incoming({"error", "reject", "open", "drain"})
  /\ LET m == Head(toClient[gen])
     IN  LeaveForGood(CASE m.kind \in {"open", "drain"} -> m.kind
                        [] m.code = 3 -> "listener"
                        [] OTHER -> "refused", asked)
  /\ UNCHANGED <<gen, mode, todo, asked, txnVars, desired, active, tombs, leaked,
                 commands, asks, serverVars, toServer>>
  /\ Consume

\* Every desired Service is acknowledged: activate_initial, connected = 1.
Activate ==
  /\ client = "init" /\ asked = None /\ todo = {}
  /\ client' = "ready"
  /\ active' = desired
  /\ UNCHANGED <<gen, mode, todo, asked, txnVars, desired, tombs, binds, leaked,
                 callVars, cause, serverVars, wireVars>>

\* Best-effort UnregisterService: a write that fails or stalls is ignored.
Cleanup(id) ==
  LET m == [kind |-> "unregister", id |-> id]
  IN  \/ /\ Send(<<m>>)
         /\ UNCHANGED leaked
      \/ /\ \E late \in LateWrites(m) : Send(late)
         /\ leaked' = leaked \cup {id}

\* Seeded fault: a caller that has gone away is not noticed.
AlwaysCommits(r) == TRUE

\* take_ack commits for a caller that still waits.
Commits(r) == reply[r] \in Waiting

\* commit, and the reply; the caller may go away in between.
Commit(r, m) ==
  /\ active' = active \cup {r}
  /\ desired' = desired \cup {r}
  /\ binds' = binds \cup {<<r, m.reg>>}
  /\ \E result \in {"ok", "missed"} : Answer({r}, result)

\* RegisterAck for a transaction of this Session.
AckFound ==
  /\ client = "ready" /\ Incoming({"ack"})
  /\ LET m == Head(toClient[gen])
         id == IdOf[m.reg]
     IN  \E r \in Found(id) :
           /\ Release({r})
           /\ IF born[r] # gen
              THEN /\ Answer({r}, "disconnected")
                   /\ UNCHANGED <<desired, active, binds, leaked, toServer>>
              ELSE IF Commits(r)
              THEN Commit(r, m) /\ UNCHANGED <<leaked, toServer>>
              ELSE Cleanup(id) /\ UNCHANGED <<desired, active, binds, reply>>
  /\ UNCHANGED <<clientVars, born, tombs, commands, asks, cause, serverVars>>
  /\ Consume

\* RegisterAck without a transaction: benign if it is tombstoned.
AckMissing ==
  /\ client = "ready" /\ Incoming({"ack"})
  /\ LET m == Head(toClient[gen])
         id == IdOf[m.reg]
     IN  /\ Found(id) = {}
         /\ tombs' = tombs \ TombsOf(id)
         /\ IF TombsOf(id) = {}
            THEN LeaveDirty("unexpected", m.reg) /\ UNCHANGED <<leaked, toServer>>
            ELSE /\ IF <<id, gen>> \in tombs THEN Cleanup(id)
                                             ELSE UNCHANGED <<leaked, toServer>>
                 /\ UNCHANGED <<client, binds, cause>>
  /\ UNCHANGED <<gen, mode, todo, asked, txnVars, desired, active, callVars, serverVars>>
  /\ Consume

\* registration_error_code.
ErrorOf(code) == CASE code = 1 -> "exists" [] code = 5 -> "exhausted"
                   [] OTHER -> "authorization"

\* Generic Error: it answers the legacy transaction, whatever that is.
ReadError ==
  /\ client = "ready" /\ Incoming({"error"})
  /\ LET m == Head(toClient[gen])
     IN  IF slot # None
         THEN /\ Release({slot})
              /\ Answer({slot}, ErrorOf(m.code))
              /\ UNCHANGED <<client, binds, cause>>
         ELSE /\ LeaveForGood("unattributed", m.reg)
              /\ UNCHANGED <<slot, inFlight, armed>>
  /\ UNCHANGED <<gen, mode, todo, asked, born, desired, active, tombs, leaked,
                 commands, asks, serverVars, toServer>>
  /\ Consume

\* RegisterReject: it answers the transaction of its id.  The server sends one only
\* where correlation was negotiated, so that the loop's check of it never fails.
ReadReject ==
  /\ client = "ready" /\ Incoming({"reject"})
  /\ LET m == Head(toClient[gen])
         id == IdOf[m.reg]
         found == Found(id)
     IN  /\ Release(found)
         /\ Answer(found, IF \A r \in found : born[r] = gen
                          THEN ErrorOf(m.code) ELSE "disconnected")
         /\ tombs' = IF found = {} THEN tombs \ TombsOf(id) ELSE tombs
         /\ IF found = {} /\ TombsOf(id) = {}
            THEN LeaveDirty("unexpected", m.reg)
            ELSE UNCHANGED <<client, binds, cause>>
  /\ UNCHANGED <<gen, mode, todo, asked, born, desired, active, leaked, commands,
                 asks, serverVars, toServer>>
  /\ Consume

\* An Open for a ready Session starts a task or is rejected: nothing here changes.
ReadOpen ==
  /\ client = "ready" /\ Incoming({"open"})
  /\ UNCHANGED <<clientVars, txnVars, stateVars, callVars, cause, serverVars, toServer>>
  /\ Consume

ReadDrain ==
  /\ client = "ready" /\ Incoming({"drain"})
  /\ LeaveClean({}, "disconnected", "drain")
  /\ UNCHANGED <<gen, mode, todo, asked, born, desired, leaked, commands, asks,
                 serverVars, toServer>>
  /\ Consume

\* Seeded fault: a correlated deadline is never set.
ArmedLegacy(r) == IF mode = "legacy" THEN {r} ELSE {}

\* The acknowledgement deadline is set once the request is written.
Armed(r) == {r}

\* expire_overdue: legacy ends the Session, correlated fails the callers only.
ExpireOverdue(R) ==
  /\ client = "ready" /\ R # {} /\ R \subseteq armed
  /\ IF slot \in R
     THEN LeaveClean({}, "timeout", "left") /\ HangUp
     ELSE /\ Release(R)
          /\ Answer(R, "timeout")
          /\ UNCHANGED <<client, active, tombs, binds, cause, toClient>>
  /\ UNCHANGED <<gen, mode, todo, asked, born, desired, leaked, commands, asks,
                 serverVars, toServer>>

(***************************************************************************)
(* Commands of the application, taken by the Session loop or, without a    *)
(* Session, by the supervisor.                                             *)
(***************************************************************************)
NextCommand(op) == commands # <<>> /\ Head(commands).op = op

\* Register is answered at once, or its caller is gone.
RefuseRegister ==
  /\ client = "ready" /\ NextCommand("register")
  /\ commands' = Tail(commands)
  /\ LET r == Head(commands).reg
     IN  /\ \/ LimitReached /\ Answer({r}, "exhausted") /\ UNCHANGED tombs
            \/ ~LimitReached /\ reply[r] = "dropped" /\ UNCHANGED <<reply, tombs>>
            \/ /\ ~LimitReached /\ reply[r] # "dropped"
               /\ Clash(r) /\ Answer({r}, "exists") /\ UNCHANGED tombs
            \/ /\ ~LimitReached /\ reply[r] # "dropped" /\ ~Clash(r)
               /\ NoRoom /\ Answer({r}, "exhausted")
               /\ tombs' = tombs \ TombsOf(IdOf[r])
  /\ UNCHANGED <<clientVars, txnVars, desired, active, binds, leaked, asks, cause,
                 serverVars, wireVars>>

\* begin succeeds for the command at the head of the queue.
Begins(r) ==
  /\ client = "ready" /\ NextCommand("register")
  /\ r = Head(commands).reg
  /\ ~LimitReached /\ reply[r] # "dropped" /\ ~Clash(r) /\ ~NoRoom

\* begin, RegisterService is written and the deadline set.
Register(r) ==
  /\ Begins(r)
  /\ commands' = Tail(commands)
  /\ slot' = IF mode = "legacy" THEN r ELSE slot
  /\ inFlight' = IF mode = "legacy" THEN inFlight ELSE inFlight \cup {r}
  /\ armed' = armed \cup Armed(r)
  /\ born' = [born EXCEPT ![r] = gen]
  /\ reply' = [reply EXCEPT ![r] = "waiting"]
  /\ tombs' = tombs \ TombsOf(IdOf[r])
  /\ Send(<<[kind |-> "register", reg |-> r]>>)
  /\ UNCHANGED <<clientVars, desired, active, binds, leaked, asks, cause,
                 serverVars, toClient>>

\* begin, and the write fails: the Session is left as it is.  A server
\* that still gets the frame loses the Service with the Session.
RegisterWriteError(r) ==
  /\ Begins(r)
  /\ commands' = Tail(commands)
  /\ slot' = IF mode = "legacy" THEN r ELSE slot
  /\ inFlight' = IF mode = "legacy" THEN inFlight ELSE inFlight \cup {r}
  /\ born' = [born EXCEPT ![r] = gen]
  /\ reply' = [reply EXCEPT ![r] = "waiting"]
  /\ tombs' = tombs \ TombsOf(IdOf[r])
  /\ LeaveDirty("left", r) /\ HangUp
  /\ UNCHANGED <<gen, mode, todo, asked, armed, desired, active, leaked, asks,
                 serverVars, toServer>>

\* begin, and the write times out: legacy ends the Session, and the frame with it;
\* correlated abandons this transaction and leaves a tombstone.
RegisterWriteTimeout(r) ==
  /\ Begins(r)
  /\ commands' = Tail(commands)
  /\ born' = [born EXCEPT ![r] = gen]
  /\ IF mode = "legacy"
     THEN LeaveClean({r}, "timeout", "left") /\ HangUp /\ UNCHANGED toServer
     ELSE /\ tombs' = WithTomb(IdOf[r], gen)
          /\ \E late \in LateWrites([kind |-> "register", reg |-> r]) : Send(late)
          /\ Answer({r}, "timeout")
          /\ UNCHANGED <<client, active, binds, cause, slot, inFlight, armed, toClient>>
  /\ UNCHANGED <<gen, mode, todo, asked, desired, leaked, asks, serverVars>>

\* Unregister an active Service: the write must succeed.
UnregisterActive ==
  /\ client = "ready" /\ NextCommand("unregister")
  /\ commands' = Tail(commands)
  /\ LET id == Head(commands).id
     IN  /\ ById(active, id) # {}
         /\ Unregister(id)
         /\ \/ /\ Send(<<[kind |-> "unregister", id |-> id]>>)
               /\ binds' = {b \in binds : IdOf[b[1]] # id}
               /\ UNCHANGED <<client, cause, toClient>>
            \/ LeaveDirty("left", None) /\ HangUp /\ UNCHANGED toServer
  /\ UNCHANGED <<gen, mode, todo, asked, born, leaked, asks, serverVars>>

\* Unregister anything else: best effort.
UnregisterOther ==
  /\ client = "ready" /\ NextCommand("unregister")
  /\ commands' = Tail(commands)
  /\ LET id == Head(commands).id
     IN  /\ ById(active, id) = {}
         /\ Unregister(id)
         /\ Cleanup(id)
  /\ UNCHANGED <<clientVars, born, binds, asks, cause, serverVars, toClient>>

\* apply_disconnected_command.
OfflineCommand ==
  /\ client = "down" /\ commands # <<>>
  /\ commands' = Tail(commands)
  /\ LET c == Head(commands)
     IN  IF c.op = "register"
         THEN Answer({c.reg}, "disconnected")
                /\ UNCHANGED <<slot, inFlight, armed, tombs, desired, active>>
         ELSE Unregister(c.id)
  /\ UNCHANGED <<clientVars, born, binds, leaked, asks, cause, serverVars, wireVars>>

\* The control stream fails, or a handshake read or write times out.
LoseConnection ==
  /\ Connected
  /\ LeaveDirty("left", None) /\ HangUp
  /\ UNCHANGED <<gen, mode, todo, asked, txnVars, desired, active, tombs, leaked,
                 callVars, serverVars, toServer>>

\* The peer closed the stream and everything before that has been read.
PeerClosed == Connected /\ srv[gen] = "gone" /\ toClient[gen] = <<>> /\ LoseConnection

\* Client::shutdown: a ready Session may still write its Drain.
Shutdown ==
  /\ client # "stopped"
  /\ client' = "stopped"
  /\ Answer(Reg, "cancelled")
  /\ binds' = {}
  /\ HangUp
  /\ cause' = [why |-> "cancelled", reg |-> None]
  /\ \/ UNCHANGED toServer
     \/ client = "ready" /\ Send(<<[kind |-> "drain"]>>)
  /\ UNCHANGED <<gen, mode, todo, asked, txnVars, desired, active, tombs, leaked,
                 commands, asks, serverVars>>

\* ClientHandle::register_service.
CallRegister(r) ==
  /\ r \notin Boot /\ reply[r] = "idle" /\ client # "stopped"
  /\ IF client = "ready"
     THEN /\ Len(commands) < CommandQueue
          /\ commands' = Append(commands, [op |-> "register", reg |-> r])
          /\ reply' = [reply EXCEPT ![r] = "queued"]
     ELSE reply' = [reply EXCEPT ![r] = "disconnected"] /\ UNCHANGED commands
  /\ UNCHANGED <<clientVars, txnVars, stateVars, asks, cause, serverVars, wireVars>>

\* ClientHandle::unregister_service.
CallUnregister(id) ==
  /\ client # "stopped" /\ asks < MaxUnregisters /\ Len(commands) < CommandQueue
  /\ asks' = asks + 1
  /\ commands' = Append(commands, [op |-> "unregister", id |-> id])
  /\ UNCHANGED <<clientVars, txnVars, stateVars, reply, cause, serverVars, wireVars>>

\* A caller drops its future.
GiveUp(r) ==
  /\ reply[r] \in Waiting
  /\ reply' = [reply EXCEPT ![r] = "dropped"]
  /\ UNCHANGED <<clientVars, txnVars, stateVars, commands, asks, cause, serverVars, wireVars>>

(***************************************************************************)
(* The server's side of generation g.                                      *)
(***************************************************************************)
Received(g, kind) ==
  /\ srv[g] = "up" /\ toServer[g] # <<>>
  /\ Head(toServer[g]).kind = kind

Took(g) == toServer' = [toServer EXCEPT ![g] = Tail(@)]
ClientLeft(g) == g < gen \/ ~Connected
\* What is written to a client that has left is lost.
Reply(g, m) ==
  toClient' = IF ClientLeft(g) THEN toClient ELSE [toClient EXCEPT ![g] = Append(@, m)]

CapacityReached(g) == Cardinality(services[g]) >= ServerLimit

\* TcpListener::bind fails while another listener holds the port.
PortTaken(r) ==
  /\ IdOf[r] \in FixedPort
  /\ \E b \in bound : IdOf[b[2]] = IdOf[r]

\* The refusals of register_service, in their order; 0 admits.
Verdict(g, r) ==
  CASE CapacityReached(g) -> 5
    [] \E q \in services[g] : Same(r, q) -> 1
    [] r \in Denied -> 2
    [] PortTaken(r) -> 3
    [] OTHER -> 0

SrvAdmit(g) ==
  /\ Received(g, "register")
  /\ LET r == Head(toServer[g]).reg
     IN  /\ Verdict(g, r) = 0
         /\ services' = [services EXCEPT ![g] = @ \cup {r}]
         /\ bound' = bound \cup {<<g, r>>}
         /\ Reply(g, [kind |-> "ack", reg |-> r])
  /\ Took(g)
  /\ UNCHANGED <<clientVars, txnVars, stateVars, callVars, cause, srv>>

\* write_registration_response: the mode of the Session decides its form.
SrvRefuse(g) ==
  /\ Received(g, "register")
  /\ LET r == Head(toServer[g]).reg
         kind == IF mode = "legacy" THEN "error" ELSE "reject"
     IN  /\ Verdict(g, r) # 0
         /\ Reply(g, [kind |-> kind, reg |-> r, code |-> Verdict(g, r)])
  /\ Took(g)
  /\ UNCHANGED <<clientVars, txnVars, stateVars, callVars, cause, serverVars>>

\* Seeded fault: the Service stays in the control loop's map.
ForgetNothing(g, id) == UNCHANGED services

\* UnregisterService: idempotent; the listener closes some time later.
Forget(g, id) ==
  services' = [services EXCEPT ![g] = @ \ ById(@, id)]

SrvUnregister(g) ==
  /\ Received(g, "unregister")
  /\ Forget(g, Head(toServer[g]).id)
  /\ Took(g)
  /\ UNCHANGED <<clientVars, txnVars, stateVars, callVars, cause, srv, bound, toClient>>

\* Seeded fault: a listener outlives its cancelled token.
StaysOpen(g, r) == FALSE

\* run_service has seen its token cancelled and drops the listener.
MayClose(g, r) == srv[g] = "up" /\ r \notin services[g]

CloseListener(g, r) ==
  /\ <<g, r>> \in bound
  /\ MayClose(g, r)
  /\ bound' = bound \ {<<g, r>>}
  /\ UNCHANGED <<clientVars, txnVars, stateVars, callVars, cause, srv, services, wireVars>>

\* An external connection to a Service is announced to the client.
SrvOpen(g, r) ==
  /\ srv[g] = "up" /\ <<g, r>> \in bound /\ r \in services[g]
  /\ ~ClientLeft(g) /\ Len(toClient[g]) < WireCap
  /\ Reply(g, [kind |-> "open", reg |-> r])
  /\ UNCHANGED <<clientVars, txnVars, stateVars, callVars, cause, serverVars, toServer>>

\* Server shutdown: Drain is written and the loop left.
SrvShutdown(g) ==
  /\ srv[g] = "up"
  /\ srv' = [srv EXCEPT ![g] = "closing"]
  /\ Reply(g, [kind |-> "drain"])
  /\ toServer' = [toServer EXCEPT ![g] = <<>>]
  /\ UNCHANGED <<clientVars, txnVars, stateVars, callVars, cause, services, bound>>

\* The loop is left: the client closed the stream, sent Drain or something
\* that cannot be decoded, or the Session idled out or was cancelled.
SrvStop(g) ==
  /\ srv[g] = "up"
  /\ srv' = [srv EXCEPT ![g] = "closing"]
  /\ toServer' = [toServer EXCEPT ![g] = <<>>]
  /\ UNCHANGED <<clientVars, txnVars, stateVars, callVars, cause, services, bound, toClient>>

\* What the loop reads next ends it.
SrvMustStop(g) ==
  IF toServer[g] = <<>> THEN ClientLeft(g)
  ELSE CASE Head(toServer[g]).kind = "drain" -> TRUE
         [] Head(toServer[g]).kind = "garbled" -> ClientLeft(g) \/ Len(toServer[g]) > 1
         [] OTHER -> FALSE

\* Teardown joins the listener tasks, so their sockets are closed.
SrvGone(g) ==
  /\ srv[g] = "closing"
  /\ srv' = [srv EXCEPT ![g] = "gone"]
  /\ services' = [services EXCEPT ![g] = {}]
  /\ bound' = {b \in bound : b[1] # g}
  /\ UNCHANGED <<clientVars, txnVars, stateVars, callVars, cause, wireVars>>

(***************************************************************************)
(* The specification.                                                      *)
(***************************************************************************)
ReadMessage == AckFound \/ AckMissing \/ ReadError \/ ReadReject \/ ReadOpen \/ ReadDrain
TakeCommand ==
  \/ RefuseRegister
  \/ \E r \in Reg : Register(r) \/ RegisterWriteError(r) \/ RegisterWriteTimeout(r)
  \/ UnregisterActive \/ UnregisterOther \/ OfflineCommand
InitStep == (\E r \in Reg : InitRegister(r)) \/ InitAck \/ InitOther \/ Activate
ServerReads(g) == SrvAdmit(g) \/ SrvRefuse(g) \/ SrvUnregister(g)

Next ==
  \/ \E m \in Modes : Connect(m)
  \/ GenerationSpent
  \/ InitStep
  \/ ReadMessage
  \/ \E R \in SUBSET Reg : ExpireOverdue(R)
  \/ TakeCommand
  \/ LoseConnection
  \/ Shutdown
  \/ \E r \in Reg : CallRegister(r) \/ GiveUp(r)
  \/ \E id \in ServiceId : CallUnregister(id)
  \/ \E g \in Gen :
       \/ ServerReads(g) \/ SrvShutdown(g) \/ SrvStop(g) \/ SrvGone(g)
       \/ \E r \in Reg : CloseListener(g, r) \/ SrvOpen(g, r)

Spec == Init /\ [][Next]_vars

\* Weak fairness of what tokio schedules and of timers; none of what the
\* application, the network and the external users do.
ClientFairness ==
  /\ WF_vars(\E m \in Modes : Connect(m))
  /\ WF_vars(InitStep)
  /\ WF_vars(ReadMessage)
  /\ WF_vars(TakeCommand)
  /\ WF_vars(ExpireOverdue(armed))
  /\ WF_vars(PeerClosed)

ServerFairness ==
  \A g \in Gen :
    /\ WF_vars(ServerReads(g))
    /\ WF_vars(SrvMustStop(g) /\ SrvStop(g))
    /\ WF_vars(SrvGone(g))
    /\ \A r \in Reg : WF_vars(CloseListener(g, r))

\* A client whose server may stall at any point.
ClientSpec == Spec /\ ClientFairness

(***************************************************************************)
(* Properties.                                                             *)
(***************************************************************************)

\* Every variable holds a value its declaration in the code admits.
TypeOK ==
  /\ client \in {"down", "init", "ready", "stopped"}
  /\ gen \in 0..MaxGen /\ mode \in {"legacy", "correlated"}
  /\ todo \subseteq Reg /\ asked \in Reg \cup {None}
  /\ desired \subseteq Reg /\ active \subseteq Reg
  /\ slot \in Reg \cup {None} /\ inFlight \subseteq Reg /\ armed \subseteq Reg
  /\ born \in [Reg -> 0..MaxGen]
  /\ tombs \subseteq ServiceId \X Gen
  /\ reply \in [Reg -> Replies]
  /\ commands \in Seq(Command) /\ asks \in 0..MaxUnregisters
  /\ binds \subseteq Reg \X Reg /\ leaked \subseteq ServiceId
  /\ cause \in [why : Causes, reg : Reg \cup {None}]
  /\ srv \in [Gen -> {"none", "up", "closing", "gone"}]
  /\ services \in [Gen -> SUBSET Reg]
  /\ bound \subseteq Gen \X Reg
  /\ toServer \in [Gen -> Seq(ToServer)]
  /\ toClient \in [Gen -> Seq(ToClient)]

\* Desired Services and transactions never share an id or a name, so that an
\* acknowledgement belongs to one of them and a new Session can register all.
Distinct ==
  \A r, q \in desired \cup Unacknowledged : Same(r, q) => r = q

\* No transaction and no tombstone of an earlier generation survives into a
\* Session: set_mode closes what an error return left behind.
CurrentGeneration ==
  Connected => /\ \A r \in Unacknowledged : born[r] = gen
               /\ \A t \in tombs : t[2] = gen

\* A dynamic registration is desired only if its caller was told Ok, or went
\* away after the acknowledgement was found to be wanted.
DesiredWasAcknowledged ==
  \A r \in desired \ Boot : reply[r] \in {"ok", "missed"}

\* Requests, answers and limits: client and server never hold more than
\* services_per_session allows, nor more transactions than the mode does.
WithinLimits ==
  /\ Cardinality(desired) + Cardinality(Unacknowledged) <= ClientLimit
  /\ Cardinality(inFlight) <= MaxInFlight
  /\ \A g \in Gen : Cardinality(services[g]) <= ServerLimit

\* The client's tables are sound: nothing twice, nothing stale, nothing too many.
TablesSound == Distinct /\ CurrentGeneration /\ WithinLimits

\* Nothing under way between the client and the server of the current Session.
Quiet ==
  /\ client = "ready" /\ srv[gen] = "up"
  /\ toServer[gen] = <<>> /\ toClient[gen] = <<>>

\* No transaction waits, and the bind table names exactly the Services the
\* client routes, which are the desired ones.
ClientSettled ==
  /\ Unacknowledged = {}
  /\ {b[1] : b \in binds} = active
  /\ active = desired

\* Each bind names a listener the server really has, and the server has no other
\* except where a best-effort UnregisterService was not written.
ListenersAgree ==
  /\ \A b \in binds : b[2] \in services[gen]
  /\ \A r \in services[gen] : r \in {b[2] : b \in binds} \/ IdOf[r] \in leaked

\* When the control stream is quiet both ends agree: no transaction waits for an
\* answer that cannot come, the client's bind table names exactly the Services it
\* routes, each with the listener the server really has, and the server has no
\* other listener except where a best-effort UnregisterService was not written.
QuietAgreement == Quiet => ClientSettled /\ ListenersAgree

\* The command of r is in the queue.
Enqueued(r) == \E i \in 1..Len(commands) : commands[i] = [op |-> "register", reg |-> r]

\* service_state.rs, client.rs: nobody who waits for the answer to a
\* register_service is forgotten.  Its command is in the queue, or it has a
\* transaction whose deadline is set as long as the Session lasts; a client that
\* has stopped for good has answered everyone.
NoCallForgotten ==
  \A r \in Reg :
    /\ reply[r] = "queued" => Enqueued(r)
    /\ reply[r] = "waiting" => r \in Unacknowledged /\ (client = "ready" => r \in armed)
    /\ client = "stopped" => reply[r] \notin Waiting

\* Callers are told the truth and none of them is forgotten.
CallersServed == DesiredWasAcknowledged /\ NoCallForgotten

\* While its Session lasts a caller gets an answer, even from a server that
\* stalls: by an acknowledgement, a refusal or the deadline.
CallSettles ==
  \A r \in Reg :
    (reply[r] \in Waiting /\ client = "ready") ~> (reply[r] \notin Waiting \/ client # "ready")

\* A listener whose Service was unregistered, or whose Session's client is gone,
\* is eventually closed by a server that does not stall: its port becomes free.
PortReleased ==
  ServerFairness =>
    \A g \in Gen, r \in Reg :
      (<<g, r>> \in bound /\ (r \notin services[g] \/ ClientLeft(g))) ~> <<g, r>> \notin bound

\* client.rs:787: "any refusal - generic or correlated - fails the Session
\* closed": the client gives up for good only if a Service was refused.
StopsOnlyIfRefused ==
  client = "stopped" => cause.why \notin {"open", "drain", "unexpected"}

\* docs/OPERATIONS.md:32-35: transient connection failures are retried and
\* registrations restored, so the listener of the client's own previous Session
\* does not end it.
RestoredAfterReconnect ==
  ~(client = "stopped" /\ cause.why = "listener" /\ gen > 1)

\* service_state.rs:53: "Correlated transactions timed out; the Session and
\* unrelated transactions survive."
TimeoutSparesSession ==
  cause.why = "unexpected" => reply[cause.reg] # "timeout"

\* Registrations of generation g that await an answer, on the wire either way.
OutstandingOn(g) ==
  Cardinality({i \in DOMAIN toServer[g] : toServer[g][i].kind = "register"})
    + Cardinality({i \in DOMAIN toClient[g] : toClient[g][i].kind \in {"ack", "error"}})

\* service_state.rs:6-8: in legacy mode "the protocol only permits one dynamic
\* registration acknowledgement to be outstanding per Session".
SingleOutstanding ==
  (client = "ready" /\ mode = "legacy") => OutstandingOn(gen) <= 1

\* service_state.rs:14-16: "stale, abandoned, and unknown responses can never
\* commit": what is committed was acknowledged by the answer to its own request.
CommitsOwnAnswer == \A b \in binds : b[1] = b[2]

\* service_state.rs:91: "the previous Session already drained them through
\* finish_pending": without a Session no caller is left waiting.
DrainedBetweenSessions ==
  client = "down" => \A r \in Unacknowledged : reply[r] \notin Waiting

=============================================================================
