----------------------------- MODULE Reconnect -----------------------------
(***************************************************************************)
(* The client's reconnect supervisor (client/reconnect.rs), the life cycle *)
(* of run_session (client.rs) and the Open tasks a Session owns            *)
(* (client/open.rs).                                                       *)
(*                                                                         *)
(* drive races run_session against the cancellation of the whole client;   *)
(* whichever its select! finds first wins, and a run_session that loses is *)
(* dropped where it stands, its JoinSet of Open tasks with it.             *)
(*                                                                         *)
(* Abstractions: errors are "transient" or "terminal" (what finish does    *)
(* not retry); time is the set of naps taken; what a Session does with its *)
(* Services is module Registration; an Open task dials, says DataHello and *)
(* relays as one activity that may end at any time.                        *)
(***************************************************************************)
EXTENDS Integers, FiniteSets

CONSTANTS
  Open,        \* Open messages, and the tasks they start
  MaxOpens,    \* client_open_tasks
  Initial,     \* reconnect_initial
  MaxDelay,    \* reconnect_max
  JitterCap,   \* 7500 ms in the code
  MaxAttempts  \* bound: connection attempts

\* TimeoutPolicy::validate and ResourceLimits::validate.
ASSUME PolicyAssumption ==
  /\ IsFiniteSet(Open)
  /\ {MaxOpens, Initial, MaxDelay, JitterCap, MaxAttempts} \subseteq Nat
  /\ MaxOpens > 0 /\ Initial > 0 /\ Initial <= MaxDelay

\* Powers of two, as far as an instance goes: the provers have no theory of them.
ASSUME PowersOfTwo ==
  /\ 2 ^ 0 = 1
  /\ \A n \in 0..MaxAttempts : 2 ^ n \in Nat /\ 2 ^ (n + 1) = 2 * 2 ^ n

VARIABLES
  worker,     \* where drive is
  cancel,     \* the client's CancellationToken
  result,     \* how the last attempt ended
  delay,      \* ReconnectSupervisor::reconnect_delay
  fails,      \* attempts that were backed off since a Session was last ready
  nap,        \* the last completed backoff sleep, and the delay it was for
  attempts,   \* connection attempts so far
  reconnects, \* Counters::reconnects
  connected,  \* Counters::connected
  task,       \* task[o]: the Open task of o
  owner,      \* owner[o]: the attempt whose Session started it
  doomed,     \* tasks that have been aborted
  openTasks,  \* Counters::open_tasks
  permits,    \* the Open semaphore of the current Session
  farewell    \* a Session that was ready at shutdown: "due", then "tried"

vars == <<worker, cancel, result, delay, fails, nap, attempts, reconnects,
          connected, task, owner, doomed, openTasks, permits, farewell>>
paceVars == <<delay, fails, nap, attempts, reconnects>>
taskVars == <<task, owner, doomed, openTasks, permits>>

InSession == {"handshaking", "ready", "leaving", "joining", "aborting"}
Workers == {"top", "establishing", "returned", "backoff", "ended"} \cup InSession
Live == {o \in Open : task[o] \in {"running", "releasing"}}
Mine == {o \in Live : owner[o] = attempts}
Least(a, b) == IF a <= b THEN a ELSE b

Init ==
  /\ worker = "top" /\ cancel = FALSE /\ result = "none"
  /\ delay = Initial /\ fails = 0 /\ nap = [slept |-> Initial, of |-> Initial]
  /\ attempts = 0 /\ reconnects = 0 /\ connected = FALSE
  /\ task = [o \in Open |-> "new"] /\ owner = [o \in Open |-> 0]
  /\ doomed = {} /\ openTasks = 0 /\ permits = MaxOpens
  /\ farewell = "none"

(***************************************************************************)
(* The supervisor.                                                         *)
(***************************************************************************)

\* Seeded fault: the cancellation is not looked at between attempts.
BeginUnchecked ==
  /\ worker = "top" /\ attempts < MaxAttempts
  /\ worker' = "establishing" /\ attempts' = attempts + 1
  /\ UNCHANGED <<cancel, result, delay, fails, nap, reconnects, connected,
                 taskVars, farewell>>

\* The top of the loop: stop, or start another attempt.
Begin ==
  /\ worker = "top"
  /\ IF cancel THEN worker' = "ended" /\ UNCHANGED attempts
     ELSE /\ attempts < MaxAttempts
          /\ worker' = "establishing" /\ attempts' = attempts + 1
  /\ UNCHANGED <<cancel, result, delay, fails, nap, reconnects, connected,
                 taskVars, farewell>>

\* Transport::establish: TCP or proxy, TLS, WebSocket, or QUIC; every step is timed.
Establish ==
  /\ worker = "establishing"
  /\ \/ worker' = "handshaking" /\ UNCHANGED result
     \/ worker' = "returned" /\ result' \in {"transient", "terminal"}
  /\ UNCHANGED <<cancel, paceVars, connected, taskVars, farewell>>

CancelEstablish ==
  /\ worker = "establishing" /\ cancel
  /\ worker' = "returned" /\ result' = "cancelled"
  /\ UNCHANGED <<cancel, paceVars, connected, taskVars, farewell>>

\* Seeded fault: no error is retried.
AnyError == result \in {"transient", "terminal"}

\* Errors that retrying cannot mend.
Terminal == result = "terminal"

\* transport.close and finish: the Session's counters are cleared; backoff begins
\* unless the client is cancelled already.
Finish ==
  /\ worker = "returned"
  /\ connected' = FALSE
  /\ worker' = IF Terminal \/ cancel THEN "ended" ELSE "backoff"
  /\ UNCHANGED <<cancel, result, paceVars, taskVars, farewell>>

\* random_jitter_ms: at most a quarter of the delay, and capped.
Jitters == 0..Least(delay \div 4, JitterCap)

\* Seeded fault: the ceiling is applied before the jitter is added.
LateCapped(jitter) == Least(delay, MaxDelay) + jitter

Capped(jitter) == Least(delay + jitter, MaxDelay)

\* backoff: sleep, count the reconnect, double the delay.
Sleep ==
  /\ worker = "backoff"
  /\ \E jitter \in Jitters : nap' = [slept |-> Capped(jitter), of |-> delay]
  /\ reconnects' = reconnects + 1
  /\ delay' = Least(delay * 2, MaxDelay)
  /\ fails' = fails + 1
  /\ worker' = "top"
  /\ UNCHANGED <<cancel, result, attempts, connected, taskVars, farewell>>

\* A sleep that is cut short is not counted.
CancelSleep ==
  /\ worker = "backoff" /\ cancel
  /\ worker' = "ended"
  /\ UNCHANGED <<cancel, result, paceVars, connected, taskVars, farewell>>

(***************************************************************************)
(* run_session.                                                            *)
(***************************************************************************)

\* Every desired Service is registered: connected, and the delay starts over.
Ready ==
  /\ worker = "handshaking"
  /\ worker' = "ready"
  /\ connected' = TRUE
  /\ delay' = Initial /\ fails' = 0
  /\ permits' = MaxOpens
  /\ UNCHANGED <<cancel, result, nap, attempts, reconnects, task, owner, doomed,
                 openTasks, farewell>>

\* An early return of an error: the tasks are aborted and not waited for.
SessionError ==
  /\ worker \in {"handshaking", "ready"}
  /\ worker' = "returned"
  /\ result' \in {"transient", "terminal"}
  /\ doomed' = doomed \cup Mine
  /\ UNCHANGED <<cancel, paceVars, connected, task, owner, openTasks, permits, farewell>>

\* The loop is left: the peer's Drain, or a legacy registration that timed out.
Break ==
  /\ worker = "ready"
  /\ worker' = "joining"
  /\ result' \in {"ok", "transient"}
  /\ farewell' = "none"
  /\ UNCHANGED <<cancel, paceVars, connected, taskVars>>

\* The loop sees the cancellation first and tries to write Drain, for 250 ms.
Farewell ==
  /\ worker = "ready" /\ cancel
  /\ worker' = "leaving"
  /\ result' = "ok"
  /\ farewell' = "tried"
  /\ UNCHANGED <<cancel, paceVars, connected, taskVars>>

\* The grace period is over: abort_all.
GraceEnds ==
  /\ worker = "joining" /\ Mine # {}
  /\ worker' = "aborting"
  /\ doomed' = doomed \cup Mine
  /\ UNCHANGED <<cancel, result, paceVars, connected, task, owner, openTasks, permits, farewell>>

\* Every task has been joined: run_session returns.
Joined ==
  /\ worker \in {"leaving", "joining", "aborting"} /\ Mine = {}
  /\ worker' = "returned"
  /\ connected' = FALSE
  /\ UNCHANGED <<cancel, result, paceVars, taskVars, farewell>>

\* Seeded fault: Open tasks are detached from their Session.
DropSessionDetached ==
  /\ worker \in InSession /\ cancel
  /\ worker' = "returned"
  /\ result' = "cancelled"
  /\ UNCHANGED <<cancel, paceVars, connected, taskVars, farewell>>

\* The select! of drive sees the cancellation: run_session is dropped.
DropSession ==
  /\ worker \in InSession /\ cancel
  /\ worker' = "returned"
  /\ result' = "cancelled"
  /\ doomed' = doomed \cup Mine
  /\ UNCHANGED <<cancel, paceVars, connected, task, owner, openTasks, permits, farewell>>

\* Client::shutdown, ClientHandle::shutdown or the drop of Client.
Shutdown ==
  /\ ~cancel
  /\ cancel' = TRUE
  /\ farewell' = IF worker = "ready" THEN "due" ELSE "none"
  /\ UNCHANGED <<worker, result, paceVars, connected, taskVars>>

(***************************************************************************)
(* Open tasks.                                                             *)
(***************************************************************************)

Room == permits > 0

\* An Open for an active Service: take a permit, count, spawn.
ReadOpen(o) ==
  /\ worker = "ready" /\ task[o] = "new" /\ Room
  /\ task' = [task EXCEPT ![o] = "running"]
  /\ owner' = [owner EXCEPT ![o] = attempts]
  /\ permits' = permits - 1
  /\ openTasks' = openTasks + 1
  /\ UNCHANGED <<worker, cancel, result, paceVars, connected, doomed, farewell>>

\* OpenReject: no such Service, or no permit.
RefuseOpen(o) ==
  /\ worker = "ready" /\ task[o] = "new"
  /\ task' = [task EXCEPT ![o] = "refused"]
  /\ UNCHANGED <<worker, cancel, result, paceVars, connected, owner, doomed,
                 openTasks, permits, farewell>>

\* The task ends: OpenTaskGuard uncounts it, then its permit is returned.
EndTask(o) ==
  /\ task[o] = "running"
  /\ task' = [task EXCEPT ![o] = "releasing"]
  /\ openTasks' = openTasks - 1
  /\ UNCHANGED <<worker, cancel, result, paceVars, connected, owner, doomed, permits, farewell>>

\* Seeded fault: all Sessions share one semaphore that each of them refills.
ReturnPermitShared(o) ==
  /\ task[o] = "releasing"
  /\ task' = [task EXCEPT ![o] = "done"]
  /\ permits' = permits + 1
  /\ UNCHANGED <<worker, cancel, result, paceVars, connected, owner, doomed, openTasks, farewell>>

ReturnPermit(o) ==
  /\ task[o] = "releasing"
  /\ task' = [task EXCEPT ![o] = "done"]
  /\ permits' = IF o \in Mine THEN permits + 1 ELSE permits
  /\ UNCHANGED <<worker, cancel, result, paceVars, connected, owner, doomed, openTasks, farewell>>

(***************************************************************************)
(* The specification.                                                      *)
(***************************************************************************)
Supervise == Begin \/ Establish \/ CancelEstablish \/ Finish \/ Sleep \/ CancelSleep
Leave == Farewell \/ GraceEnds \/ Joined \/ DropSession

Next ==
  \/ Supervise \/ Ready \/ SessionError \/ Break \/ Leave \/ Shutdown
  \/ \E o \in Open : ReadOpen(o) \/ RefuseOpen(o) \/ EndTask(o) \/ ReturnPermit(o)

Spec == Init /\ [][Next]_vars

\* Every wait of the supervisor and of the handshake is timed, an aborted task
\* is dropped; a ready Session, a relay and the application may go on for ever.
Fairness ==
  /\ WF_vars(Supervise)
  /\ WF_vars(worker = "handshaking" /\ (Ready \/ SessionError))
  /\ WF_vars(Leave)
  /\ \A o \in Open : /\ WF_vars(o \in doomed /\ EndTask(o))
                     /\ WF_vars(ReturnPermit(o))

FairSpec == Spec /\ Fairness

(***************************************************************************)
(* Properties.                                                             *)
(***************************************************************************)

\* Every variable has its type; the semaphore and the counters stay natural.
TypeOK ==
  /\ worker \in Workers /\ cancel \in BOOLEAN /\ connected \in BOOLEAN
  /\ result \in {"none", "ok", "transient", "terminal", "cancelled"}
  /\ delay \in Nat /\ fails \in 0..MaxAttempts
  /\ nap \in [slept : Nat, of : Nat]
  /\ attempts \in 0..MaxAttempts /\ reconnects \in 0..MaxAttempts
  /\ task \in [Open -> {"new", "running", "releasing", "done", "refused"}]
  /\ owner \in [Open -> 0..MaxAttempts] /\ doomed \subseteq Open
  /\ openTasks \in Nat /\ permits \in 0..MaxOpens
  /\ farewell \in {"none", "due", "tried"}

\* docs/OPERATIONS.md:32 "bounded exponential backoff and jitter": the delay is
\* the doubling of the initial one by every attempt since a Session was ready,
\* up to the ceiling, and no sleep is shorter than its delay or longer than the
\* ceiling, whatever the jitter.
BackoffPaced ==
  /\ delay = Least(Initial * 2 ^ fails, MaxDelay)
  /\ nap.of <= nap.slept /\ nap.slept <= MaxDelay

\* reconnect.rs:132-134: "A cancelled sleep is never counted as a reconnect":
\* Counters::reconnects is the number of attempts that followed another one.
ReconnectsExact ==
  /\ worker \notin {"top", "ended"} => reconnects = attempts - 1
  /\ worker = "ended" => reconnects \in {attempts - 1, attempts}

\* Delays and counter tell the same story of the attempts.
BackoffAccounted == BackoffPaced /\ ReconnectsExact

\* The Open semaphore of a Session is settled by every end of a task: what is
\* not free is held by a task of this Session, though tasks of the Session
\* before it may still be running.
OpensConserved ==
  worker \in InSession \ {"handshaking"} => permits + Cardinality(Mine) = MaxOpens

\* client.rs: run_session owns its Open tasks.  However the Session ends (error,
\* Drain, grace period, or run_session dropped where it stands), a task that is
\* still there belongs to the Session that is running or has been aborted.
NoOrphans ==
  \A o \in Live : o \in doomed \/ (worker \in InSession /\ owner[o] = attempts)

\* Every Open task is accounted for, by its permit and by who will end it.
OpensAccounted == OpensConserved /\ NoOrphans

\* A refused client stops: after a terminal error there is no other attempt.
TerminalIsFinal ==
  [][attempts' # attempts => result # "terminal"]_vars

\* Shutdown ends the supervisor from wherever it is.
ShutdownEnds == cancel ~> worker = "ended"

\* A client that is not told to stop tries again after every transient failure.
TriesAgain ==
  (worker = "returned" /\ result = "transient")
    ~> (worker = "establishing" \/ cancel \/ attempts = MaxAttempts)

\* No Open task outlives the supervisor for long: those it aborted are dropped.
TasksEnd == \A o \in Open : (worker = "ended" /\ o \in Live) ~> o \notin Live

\* After a shutdown everything of the client ends, from wherever it is.
ClientEnds == ShutdownEnds /\ TasksEnd

\* docs/EMBEDDING.md:15-16: "Call Client::shutdown().await during normal
\* application shutdown so owned session and data tasks are joined".
ShutdownJoinsTasks ==
  (worker = "ended" /\ result \in {"ok", "cancelled"}) => Live = {}

\* architecture/client.md:506: on shutdown the Session loop "sends Drain
\* (250 ms cap)": a ready Session at least tries before the client is gone.
ReadySaysFarewell ==
  (worker = "ended" /\ result = "cancelled") => farewell # "due"

=============================================================================
