----------------------------- MODULE Heartbeat -----------------------------
(***************************************************************************)
(* The heartbeat of a client's Session (client/heartbeat.rs, the ticker    *)
(* and Pong arms of run_session), the idle timer it keeps from running out *)
(* at the server (serve_control), and what a snapshot shows of it          *)
(* (Counters in common.rs).                                                *)
(*                                                                         *)
(* Time passes in units; timers are punctual and a message spends at most  *)
(* MaxLatency units per direction, queues and scheduling included.  Ping   *)
(* and Pong are the only traffic: whatever else is sent only helps.        *)
(***************************************************************************)
EXTENDS Integers, FiniteSets

CONSTANTS
  Interval,    \* heartbeat_interval of the client
  Idle,        \* control_idle of the server
  MaxLatency,  \* bound: units a message may travel one way
  MaxDropped,  \* bound: probes a full queue refuses in one Session
  NonceWidth,  \* nonces wrap at 2^NonceWidth (2^64 in the code)
  MaxMissed,   \* missed_heartbeats saturates here (u64::MAX in the code)
  MaxGen,      \* bound: Sessions
  None

\* TimeoutPolicy::validate, of one policy for both ends.
ASSUME TimeoutAssumption ==
  /\ {Interval, Idle, MaxLatency, NonceWidth, MaxMissed, MaxGen, MaxDropped} \subseteq Nat
  /\ Interval > 0 /\ Interval < Idle
  /\ 2 ^ NonceWidth \in Nat \ {0}
  /\ None \notin Int

VARIABLES
  phase,       \* "down", "numbered" (begin_session half done) or "up"
  generation,  \* Counters::session_generation
  health,      \* Counters::heartbeat, and the generation it was reset for
  view,        \* Snapshot::heartbeat as last taken
  nonce,       \* HeartbeatState::nonce
  outstanding, \* HeartbeatState::outstanding: its nonce, or None
  since,       \* units since outstanding was sent
  ticker,      \* units until the next tick
  idle,        \* units until the server's idle timer fires
  wire,        \* Pings and Pongs on their way
  dropped      \* history: probes of this Session that try_send refused

vars == <<phase, generation, health, view, nonce, outstanding, since, ticker, idle, wire,
          dropped>>
countVars == <<generation, health, view>>
probeVars == <<nonce, outstanding, since, wire, dropped>>

Nonces == 0..(2 ^ NonceWidth - 1)
Packets == [nonce : Nonces, leg : {"ping", "pong"}, age : 0..MaxLatency]
Fresh(g) == [of |-> g, missed |-> 0, rtt |-> None]

Init ==
  /\ phase = "down" /\ generation = 0
  /\ health = Fresh(0) /\ view = [gen |-> 0, health |-> Fresh(0)]
  /\ nonce = 0 /\ outstanding = None /\ since = 0
  /\ ticker = Interval /\ idle = Idle /\ wire = {} /\ dropped = 0

(***************************************************************************)
(* The Session.                                                            *)
(***************************************************************************)

\* begin_session numbers the Session with a compare-exchange ...
Number ==
  /\ phase = "down" /\ generation < MaxGen
  /\ phase' = "numbered" /\ generation' = generation + 1
  /\ UNCHANGED <<health, view, probeVars, ticker, idle>>

\* ... and then resets the heartbeat record under its lock; once the Services
\* are registered the loop starts with a new HeartbeatState and ticker.  The server's
\* idle timer counts from here; it may have started one latency before.
Ready ==
  /\ phase = "numbered"
  /\ phase' = "up"
  /\ health' = Fresh(generation)
  /\ nonce' = 0 /\ outstanding' = None /\ since' = 0
  /\ ticker' = Interval /\ idle' = Idle /\ wire' = {} /\ dropped' = 0
  /\ UNCHANGED <<generation, view>>

\* record_heartbeat_missed.
Miss == health' = [health EXCEPT !.missed = IF @ < MaxMissed THEN @ + 1 ELSE @]

\* Seeded fault: the probe is tracked although it could not be queued.
QueuedAlways(full) == TRUE

Queued(full) == ~full

HasOutstanding == outstanding # None

\* The ticker fires: count a miss, or send the next probe.
Tick ==
  /\ phase = "up" /\ ticker = 0
  /\ ticker' = Interval
  /\ IF HasOutstanding
     THEN Miss /\ UNCHANGED probeVars
     ELSE LET n == (nonce + 1) % 2 ^ NonceWidth
          IN  /\ nonce' = n
              /\ \E full \in BOOLEAN :
                   /\ dropped' = dropped + IF full THEN 1 ELSE 0
                   /\ dropped' <= MaxDropped
                   /\ wire' = IF full THEN wire
                              ELSE wire \cup {[nonce |-> n, leg |-> "ping", age |-> 0]}
                   /\ IF Queued(full)
                      THEN outstanding' = n /\ since' = 0 /\ UNCHANGED health
                      ELSE Miss /\ UNCHANGED <<outstanding, since>>
  /\ UNCHANGED <<phase, generation, view, idle>>

\* Seeded fault: a Ping is answered but does not count as activity.
RestartIdleNot == UNCHANGED idle

RestartIdle == idle' = Idle

\* The server reads a Ping: the idle timer starts over, Pong is written.
ReadPing(p) ==
  /\ phase = "up" /\ p \in wire /\ p.leg = "ping"
  /\ wire' = (wire \ {p}) \cup {[p EXCEPT !.leg = "pong", !.age = 0]}
  /\ RestartIdle
  /\ UNCHANGED <<phase, countVars, nonce, outstanding, since, ticker, dropped>>

\* Seeded fault: misses are not consecutive ones.
KeepMissed == [health EXCEPT !.rtt = since]

\* record_heartbeat_pong.
Heard == [health EXCEPT !.rtt = since, !.missed = 0]

\* The client reads a Pong; only that of the outstanding probe is looked at.
ReadPong(p) ==
  /\ phase = "up" /\ p \in wire /\ p.leg = "pong"
  /\ wire' = wire \ {p}
  /\ IF outstanding = p.nonce
     THEN health' = Heard /\ outstanding' = None /\ since' = 0
     ELSE UNCHANGED <<health, outstanding, since>>
  /\ UNCHANGED <<phase, generation, view, nonce, ticker, idle, dropped>>

\* The server's idle timer fires.
IdleOut ==
  /\ phase = "up" /\ idle = 0
  /\ phase' = "down"
  /\ UNCHANGED <<countVars, probeVars, ticker, idle>>

\* The Session ends for any other reason.
Lose ==
  /\ phase = "up"
  /\ phase' = "down"
  /\ UNCHANGED <<countVars, probeVars, ticker, idle>>

\* Counters::snapshot reads the generation while it holds the heartbeat lock.
Snapshot ==
  /\ view' = [gen |-> generation, health |-> health]
  /\ UNCHANGED <<phase, generation, health, probeVars, ticker, idle>>

\* A unit passes: no timer is overrun and no message is late.
Elapse ==
  /\ phase = "up" /\ ticker > 0 /\ idle > 0
  /\ \A p \in wire : p.age < MaxLatency
  /\ ticker' = ticker - 1 /\ idle' = idle - 1
  /\ since' = IF outstanding = None THEN 0 ELSE since + 1
  /\ wire' = {[p EXCEPT !.age = @ + 1] : p \in wire}
  /\ UNCHANGED <<phase, countVars, nonce, outstanding, dropped>>

Next ==
  \/ Number \/ Ready \/ Tick \/ IdleOut \/ Lose \/ Snapshot \/ Elapse
  \/ \E p \in wire : ReadPing(p) \/ ReadPong(p)

Spec == Init /\ [][Next]_vars

(***************************************************************************)
(* Properties.                                                             *)
(***************************************************************************)

\* Every variable has its type.
TypeOK ==
  /\ phase \in {"down", "numbered", "up"}
  /\ generation \in 0..MaxGen
  /\ health \in [of : 0..MaxGen, missed : 0..MaxMissed, rtt : 0..(2 * MaxLatency) \cup {None}]
  /\ nonce \in Nonces /\ outstanding \in Nonces \cup {None}
  /\ since \in 0..(2 * MaxLatency)
  /\ ticker \in 0..Interval /\ idle \in 0..Idle
  /\ wire \subseteq Packets
  /\ dropped \in 0..MaxDropped

\* docs/EMBEDDING.md:82: "At most one Ping is tracked at a time".  While a
\* Session is up the tracked probe is the only one on its way, and it is on its
\* way: its Pong will come, so that heartbeats never stop.
ProbeAccounted ==
  phase = "up" => {p.nonce : p \in wire} = {outstanding} \ {None}
                  /\ Cardinality(wire) <= 1

\* common.rs:297 requires heartbeat_interval < control_idle so that heartbeats
\* keep a quiet Session alive: the server's idle timer never runs out, although
\* a slow Pong makes the client skip probes, unless a probe found the client's
\* queue full.
KeptAlive == phase = "up" /\ idle = 0 => dropped > 0

\* Consecutive misses measure how late the peer is: no more of them than ticks
\* fit into the longest round trip, and one for each probe a full queue refused.
MissesExplained ==
  phase = "up" => (health.missed - dropped) * Interval <= 2 * MaxLatency

\* docs/OPERATIONS.md:82: snapshots expose "heartbeat health for the current
\* Session: generation, last matching Pong age, latest RTT, and consecutive
\* missed intervals": what is shown under a generation was measured in it.
SnapshotIsCurrent ==
  view.health.of = view.gen \/ view.health = Fresh(view.health.of)

=============================================================================
