-------------------------- MODULE HeartbeatProofs --------------------------
(***************************************************************************)
(* The heartbeat for every interval, idle timeout, latency and width of    *)
(* nonces: a probe is never lost sight of, misses measure the round trip,  *)
(* and a round trip that fits into the idle timeout keeps the Session.     *)
(*                                                                         *)
(* What the three properties have in common is where the one probe is:     *)
(* nowhere, on its way, or on its way back, and how old it is.             *)
(***************************************************************************)
EXTENDS Heartbeat, FiniteSetTheorems, TLAPS

\* Either nothing is on its way and nothing is tracked, or exactly the tracked
\* probe is, and it was sent no longer ago than its age tells.
Flight ==
  \/ wire = {} /\ outstanding = None
  \/ \E p \in Packets :
       /\ wire = {p} /\ outstanding = p.nonce
       /\ since <= p.age + (IF p.leg = "ping" THEN 0 ELSE MaxLatency)

\* The idle timer outlasts what must happen before the next Ping arrives, as long
\* as every probe could be queued.
Lasts ==
  /\ wire = {} => idle > ticker + MaxLatency
  /\ \A p \in wire : IF p.leg = "ping" THEN idle + p.age > MaxLatency
                     ELSE idle + p.age >= Idle

\* Misses that no full queue accounts for are ticks since the probe was sent.
Ticks ==
  IF outstanding = None THEN health.missed <= dropped
  ELSE (health.missed - dropped) * Interval + (Interval - ticker) <= since

IInv == TypeOK /\ (phase = "up" => Flight /\ Ticks)

Limit == 2 ^ NonceWidth

\* Nonces wrap, and stay nonces.
LEMMA NextNonce ==
  ASSUME NEW n \in Nonces
  PROVE  (n + 1) % 2 ^ NonceWidth \in Nonces
  <1>1. Limit \in Nat /\ Limit > 0 BY TimeoutAssumption DEF Limit
  <1>2. n \in Nat BY <1>1 DEF Nonces, Limit
  <1> HIDE DEF Limit
  <1>3. (n + 1) % Limit \in 0..(Limit - 1) BY <1>1, <1>2
  <1> QED BY <1>3 DEF Limit, Nonces

\* No nonce is None.
LEMMA NonceGiven == \A n \in Nonces : n \in Int /\ n # None
  <1>1. Limit \in Nat BY TimeoutAssumption DEF Limit
  <1> HIDE DEF Limit
  <1>2. \A n \in 0..(Limit - 1) : n \in Int BY <1>1
  <1> QED BY <1>2, TimeoutAssumption DEF Limit, Nonces

\* One more miss is one more interval.
LEMMA OneMore ==
  ASSUME NEW m \in Int, NEW k \in Int, NEW d \in Int, NEW i \in Nat, k <= m + 1
  PROVE  (k - d) * i <= (m - d) * i + i
  <1>1. (m + 1 - d) * i = (m - d) * i + i OBVIOUS
  <1>2. (k - d) * i <= (m + 1 - d) * i OBVIOUS
  <1> QED BY <1>1, <1>2

\* A packet that is turned round, and one that grows older, is still a packet.
LEMMA PacketTurned ==
  ASSUME NEW p \in Packets, NEW q, q = [p EXCEPT !.leg = "pong", !.age = 0]
  PROVE  q \in Packets /\ q.nonce = p.nonce /\ q.leg = "pong" /\ q.age = 0
  <1>1. MaxLatency \in Nat BY TimeoutAssumption
  <1>2. p = [nonce |-> p.nonce, leg |-> p.leg, age |-> p.age] BY DEF Packets
  <1>3. q = [nonce |-> p.nonce, leg |-> "pong", age |-> 0] BY <1>2
  <1>4. p.nonce \in Nonces BY DEF Packets
  <1> QED BY <1>1, <1>3, <1>4 DEF Packets

LEMMA PacketAged ==
  ASSUME NEW p \in Packets, p.age < MaxLatency, NEW q, q = [p EXCEPT !.age = @ + 1]
  PROVE  q \in Packets /\ q.nonce = p.nonce /\ q.leg = p.leg /\ q.age = p.age + 1
  <1>1. MaxLatency \in Nat BY TimeoutAssumption
  <1>2. p = [nonce |-> p.nonce, leg |-> p.leg, age |-> p.age] BY DEF Packets
  <1>3. q = [nonce |-> p.nonce, leg |-> p.leg, age |-> p.age + 1] BY <1>2
  <1>4. p.nonce \in Nonces /\ p.leg \in {"ping", "pong"} /\ p.age \in 0..MaxLatency BY DEF Packets
  <1> QED BY <1>1, <1>3, <1>4 DEF Packets

LEMMA Initially == Init => IInv
  <1> SUFFICES ASSUME Init PROVE TypeOK /\ phase # "up" BY DEF IInv
  <1>1. 0 \in Nonces
    <2>1. Limit \in Nat /\ Limit > 0 BY TimeoutAssumption DEF Limit
    <2> HIDE DEF Limit
    <2>2. 0 \in 0..(Limit - 1) BY <2>1
    <2> QED BY <2>2 DEF Limit, Nonces
  <1> QED BY <1>1, TimeoutAssumption DEF Init, TypeOK, Fresh

\* The ticker fires.
LEMMA TickKeeps ==
  ASSUME IInv, Tick
  PROVE  IInv'
  <1>u. phase = "up" /\ phase' = "up" /\ Flight /\ Ticks /\ TypeOK BY DEF IInv, Tick
  <1>c. /\ Interval \in Nat /\ Interval > 0 /\ MaxLatency \in Nat /\ MaxMissed \in Nat
        /\ MaxDropped \in Nat
    BY TimeoutAssumption
  <1>t. /\ health.missed \in Nat /\ health.missed <= MaxMissed /\ dropped \in Nat
        /\ since \in Nat /\ ticker = 0 /\ ticker' = Interval
        /\ health = [of |-> health.of, missed |-> health.missed, rtt |-> health.rtt]
    BY <1>u, <1>c DEF TypeOK, Tick
  <1>1. CASE HasOutstanding
    <2>1. Miss /\ UNCHANGED probeVars BY <1>1 DEF Tick
    <2>2. /\ health'.missed \in 0..MaxMissed /\ health'.missed <= health.missed + 1
          /\ health'.of = health.of /\ health'.rtt = health.rtt
          /\ health' \in [of : 0..MaxGen, missed : 0..MaxMissed, rtt : 0..(2 * MaxLatency) \cup {None}]
      BY <2>1, <1>t, <1>c, <1>u DEF Miss, TypeOK
    <2>3. TypeOK' BY <2>1, <2>2, <1>u, <1>t, <1>c DEF TypeOK, Tick, probeVars
    <2>4. Flight' BY <2>1, <1>u DEF Flight, probeVars
    <2>5. Ticks'
      <3>1. (health'.missed - dropped) * Interval <= (health.missed - dropped) * Interval + Interval
        BY <2>2, <1>t, <1>c, OneMore
      <3>2. (health.missed - dropped) * Interval + (Interval - ticker) <= since
        BY <1>1, <1>u DEF Ticks, HasOutstanding
      <3> DEFINE a == (health.missed - dropped) * Interval
                 b == (health'.missed - dropped) * Interval
      <3>3. a \in Int /\ b \in Int BY <1>t, <1>c, <2>2
      <3>4. b <= a + Interval /\ a + (Interval - 0) <= since BY <3>1, <3>2, <1>t
      <3> HIDE DEF a, b
      <3>5. b + (Interval - Interval) <= since BY <3>3, <3>4, <1>c, <1>t
      <3> QED BY <3>5, <1>1, <1>t, <2>1 DEF b, Ticks, HasOutstanding, probeVars
    <2> QED BY <2>3, <2>4, <2>5 DEF IInv
  <1>2. CASE ~HasOutstanding
    <2>0. wire = {} /\ outstanding = None /\ health.missed <= dropped
      BY <1>2, <1>u, NonceGiven DEF HasOutstanding, Flight, Ticks, Packets
    <2> DEFINE n == (nonce + 1) % 2 ^ NonceWidth
    <2>n. n \in Nonces /\ n # None BY NextNonce, NonceGiven, <1>u DEF TypeOK
    <2>1. PICK full \in BOOLEAN :
            /\ dropped' = dropped + IF full THEN 1 ELSE 0
            /\ dropped' <= MaxDropped
            /\ wire' = IF full THEN wire
                       ELSE wire \cup {[nonce |-> n, leg |-> "ping", age |-> 0]}
            /\ IF Queued(full)
               THEN outstanding' = n /\ since' = 0 /\ UNCHANGED health
               ELSE Miss /\ UNCHANGED <<outstanding, since>>
      BY <1>2 DEF Tick
    <2>2. nonce' = n BY <1>2 DEF Tick
    <2> HIDE DEF n
    <2>3. CASE full
      <3>1. /\ dropped' = dropped + 1 /\ dropped' <= MaxDropped /\ wire' = {}
            /\ outstanding' = None /\ since' = since /\ Miss
        BY <2>0, <2>1, <2>3 DEF Queued
      <3>2. /\ health'.missed \in 0..MaxMissed /\ health'.missed <= health.missed + 1
            /\ health' \in [of : 0..MaxGen, missed : 0..MaxMissed, rtt : 0..(2 * MaxLatency) \cup {None}]
        BY <3>1, <1>t, <1>c, <1>u DEF Miss, TypeOK
      <3>3. TypeOK' BY <3>1, <3>2, <2>2, <2>n, <1>u, <1>t, <1>c DEF TypeOK, Tick
      <3>4. Flight' BY <3>1 DEF Flight
      <3>5. Ticks' BY <3>1, <3>2, <2>0, <1>t, <1>c DEF Ticks
      <3> QED BY <3>3, <3>4, <3>5 DEF IInv
    <2>4. CASE ~full
      <3> DEFINE q == [nonce |-> n, leg |-> "ping", age |-> 0]
      <3>1. /\ dropped' = dropped /\ wire' = {q}
            /\ outstanding' = n /\ since' = 0 /\ health' = health
        BY <2>0, <2>1, <2>4, <1>t DEF Queued
      <3>2. q \in Packets BY <2>n, <1>c DEF Packets
      <3>3. TypeOK' BY <3>1, <3>2, <2>2, <2>n, <1>u, <1>t, <1>c DEF TypeOK, Tick
      <3>4. Flight' BY <3>1, <3>2, <1>c DEF Flight
      <3>5. (health.missed - dropped) * Interval <= 0 BY <2>0, <1>t, <1>c
      <3>6. Ticks' BY <3>1, <3>5, <2>n, <1>t, <1>c DEF Ticks
      <3> QED BY <3>3, <3>4, <3>6 DEF IInv
    <2> QED BY <2>3, <2>4
  <1> QED BY <1>1, <1>2

\* The probe arrives, and the idle timer starts over.
LEMMA PingKeeps ==
  ASSUME IInv, NEW p \in wire, ReadPing(p)
  PROVE  IInv'
  <1>u. phase = "up" /\ phase' = "up" /\ Flight /\ Ticks /\ TypeOK BY DEF IInv, ReadPing
  <1>c. MaxLatency \in Nat /\ Idle \in Nat /\ Interval \in Nat BY TimeoutAssumption
  <1>1. /\ p \in Packets /\ wire = {p} /\ outstanding = p.nonce /\ p.leg = "ping"
        /\ since <= p.age
    BY <1>u, <1>c DEF Flight, ReadPing, Packets
  <1> DEFINE q == [p EXCEPT !.leg = "pong", !.age = 0]
  <1>2. q \in Packets /\ q.nonce = p.nonce /\ q.leg = "pong" /\ q.age = 0
    BY <1>1, PacketTurned
  <1>3. wire' = {q} BY <1>1 DEF ReadPing
  <1>4. since <= q.age + MaxLatency BY <1>1, <1>2, <1>u, <1>c DEF Packets, TypeOK
  <1> HIDE DEF q
  <1>5. TypeOK' BY <1>2, <1>3, <1>u, <1>c DEF TypeOK, ReadPing, RestartIdle, countVars
  <1>6. Flight' BY <1>1, <1>2, <1>3, <1>4 DEF Flight, ReadPing
  <1>7. Ticks' BY <1>u DEF Ticks, ReadPing, countVars
  <1> QED BY <1>5, <1>6, <1>7 DEF IInv

\* Its answer arrives, and no miss counts any more.
LEMMA PongKeeps ==
  ASSUME IInv, NEW p \in wire, ReadPong(p)
  PROVE  IInv' /\ wire' = {}
  <1>u. phase = "up" /\ phase' = "up" /\ Flight /\ Ticks /\ TypeOK BY DEF IInv, ReadPong
  <1>c. MaxLatency \in Nat /\ MaxMissed \in Nat BY TimeoutAssumption
  <1>1. wire = {p} /\ outstanding = p.nonce BY <1>u DEF Flight
  <1>2. wire' = {} /\ health' = Heard /\ outstanding' = None /\ since' = 0
    BY <1>1 DEF ReadPong
  <1>3. /\ health' \in [of : 0..MaxGen, missed : 0..MaxMissed, rtt : 0..(2 * MaxLatency) \cup {None}]
        /\ health'.missed = 0
    <2>1. health = [of |-> health.of, missed |-> health.missed, rtt |-> health.rtt]
      BY <1>u DEF TypeOK
    <2>2. health' = [of |-> health.of, missed |-> 0, rtt |-> since] BY <1>2, <2>1 DEF Heard
    <2>3. health.of \in 0..MaxGen /\ since \in 0..(2 * MaxLatency) BY <1>u DEF TypeOK
    <2> QED BY <2>2, <2>3, <1>c
  <1>4. TypeOK' BY <1>2, <1>3, <1>u, <1>c DEF TypeOK, ReadPong
  <1>5. Flight' BY <1>2 DEF Flight
  <1>6. Ticks' BY <1>2, <1>3, <1>u DEF Ticks, TypeOK, ReadPong
  <1> QED BY <1>2, <1>4, <1>5, <1>6 DEF IInv

\* A unit passes for the timers, the packet and the tracked probe alike.
LEMMA ElapseKeeps ==
  ASSUME IInv, Elapse
  PROVE  IInv'
  <1>u. phase = "up" /\ phase' = "up" /\ Flight /\ Ticks /\ TypeOK BY DEF IInv, Elapse
  <1>c. MaxLatency \in Nat /\ Interval \in Nat BY TimeoutAssumption
  <1>t. /\ ticker \in Nat /\ ticker > 0 /\ ticker' = ticker - 1 /\ since \in Nat
        /\ idle \in Nat /\ idle > 0 /\ idle' = idle - 1
    BY <1>u DEF Elapse, TypeOK
  <1>b. ticker' \in 0..Interval /\ idle' \in 0..Idle
    BY <1>t, <1>u, <1>c, TimeoutAssumption DEF TypeOK
  <1>n. outstanding' = outstanding /\ health' = health /\ dropped' = dropped
    BY DEF Elapse, countVars
  <1>1. CASE wire = {}
    <2>1. outstanding = None /\ wire' = {} /\ since' = 0 BY <1>1, <1>u DEF Flight, Elapse
    <2>2. TypeOK' BY <2>1, <1>b, <1>u, <1>c DEF TypeOK, Elapse, countVars
    <2>3. Flight' BY <2>1, <1>n DEF Flight
    <2>4. Ticks' BY <2>1, <1>u, <1>n DEF Ticks
    <2> QED BY <2>2, <2>3, <2>4 DEF IInv
  <1>2. CASE wire # {}
    <2>1. PICK p \in Packets :
            /\ wire = {p} /\ outstanding = p.nonce
            /\ since <= p.age + (IF p.leg = "ping" THEN 0 ELSE MaxLatency)
      BY <1>2, <1>u DEF Flight
    <2> DEFINE q == [p EXCEPT !.age = @ + 1]
    <2>2. p.age \in Nat /\ p.age < MaxLatency BY <2>1 DEF Elapse, Packets
    <2>3. q \in Packets /\ q.nonce = p.nonce /\ q.leg = p.leg /\ q.age = p.age + 1
      BY <2>2, PacketAged
    <2>4. wire' = {q} BY <2>1 DEF Elapse
    <2>5. outstanding # None BY <2>1, NonceGiven DEF Packets
    <2>6. since' = since + 1 BY <2>5 DEF Elapse
    <2> HIDE DEF q
    <2>7. since' <= q.age + (IF q.leg = "ping" THEN 0 ELSE MaxLatency)
      BY <2>1, <2>2, <2>3, <2>6, <1>t, <1>c
    <2>8. since' \in 0..(2 * MaxLatency) BY <2>2, <2>3, <2>6, <2>7, <1>t, <1>c
    <2>9. TypeOK' BY <2>3, <2>4, <2>8, <1>b, <1>u DEF TypeOK, Elapse, countVars
    <2>10. Flight' BY <2>1, <2>3, <2>4, <2>7, <1>n DEF Flight
    <2>11. Ticks'
      <3> DEFINE a == (health.missed - dropped) * Interval
      <3>1. a \in Int BY <1>u, <1>c DEF TypeOK
      <3>2. a + (Interval - ticker) <= since BY <2>5, <1>u DEF Ticks
      <3> HIDE DEF a
      <3>3. a + (Interval - (ticker - 1)) <= since + 1 BY <3>1, <3>2, <1>t, <1>c
      <3> QED BY <3>3, <2>5, <2>6, <1>n, <1>t DEF a, Ticks
    <2> QED BY <2>9, <2>10, <2>11 DEF IInv
  <1> QED BY <1>1, <1>2

\* A Session starts with nothing on its way.
LEMMA ReadyKeeps ==
  ASSUME IInv, Ready
  PROVE  IInv'
  <1>c. MaxLatency \in Nat /\ MaxMissed \in Nat /\ Interval \in Nat /\ Idle \in Nat
    BY TimeoutAssumption
  <1>1. 0 \in Nonces
    <2>1. Limit \in Nat /\ Limit > 0 BY TimeoutAssumption DEF Limit
    <2> HIDE DEF Limit
    <2>2. 0 \in 0..(Limit - 1) BY <2>1
    <2> QED BY <2>2 DEF Limit, Nonces
  <1>2. TypeOK' BY <1>1, <1>c, TimeoutAssumption DEF IInv, TypeOK, Ready, Fresh
  <1>3. Flight' /\ Ticks' BY <1>c DEF Flight, Ticks, Ready, Fresh
  <1> QED BY <1>2, <1>3 DEF IInv

LEMMA Inductive == IInv /\ [Next]_vars => IInv'
  <1> SUFFICES ASSUME IInv, [Next]_vars PROVE IInv' OBVIOUS
  <1>1. CASE Number
    BY <1>1, TimeoutAssumption DEF IInv, TypeOK, Number, probeVars
  <1>2. CASE IdleOut \/ Lose
    BY <1>2 DEF IInv, TypeOK, IdleOut, Lose, probeVars, countVars
  <1>3. CASE Snapshot
    BY <1>3 DEF IInv, TypeOK, Flight, Ticks, Snapshot, probeVars
  <1>4. CASE UNCHANGED vars
    BY <1>4 DEF IInv, TypeOK, Flight, Ticks, vars
  <1> QED BY <1>1, <1>2, <1>3, <1>4, TickKeeps, PingKeeps, PongKeeps, ElapseKeeps, ReadyKeeps
      DEF Next

\* The inductive invariant.
THEOREM Invariance == Spec => []IInv
  BY Initially, Inductive, PTL DEF Spec

\* Every variable keeps its type: the tracked round trip is bounded by two latencies.
THEOREM TypeCorrect == Spec => []TypeOK
  <1>1. IInv => TypeOK BY DEF IInv
  <1> QED BY Invariance, <1>1, PTL

\* At most one probe is under way, and the one that is tracked always is: heartbeats
\* cannot stop, however full the queue was and however the nonces wrap.
THEOREM ProbesAccounted == Spec => []ProbeAccounted
  <1>1. IInv => ProbeAccounted
    <2> SUFFICES ASSUME IInv, phase = "up"
                 PROVE  {p.nonce : p \in wire} = {outstanding} \ {None} /\ Cardinality(wire) <= 1
      BY DEF ProbeAccounted
    <2>1. CASE wire = {} /\ outstanding = None BY <2>1, FS_EmptySet
    <2>2. ASSUME NEW p \in Packets, wire = {p}, outstanding = p.nonce
          PROVE  {x.nonce : x \in wire} = {outstanding} \ {None} /\ Cardinality(wire) <= 1
      <3>1. Cardinality(wire) = 1 BY <2>2, FS_Singleton
      <3>2. outstanding # None BY <2>2, NonceGiven DEF Packets
      <3> QED BY <2>2, <3>1, <3>2
    <2> QED BY <2>1, <2>2 DEF IInv, Flight
  <1> QED BY Invariance, <1>1, PTL

\* Consecutive misses beyond those of a full queue fit into the longest round trip.
THEOREM MissesBounded == Spec => []MissesExplained
  <1>1. IInv => MissesExplained
    <2> SUFFICES ASSUME IInv, phase = "up"
                 PROVE  (health.missed - dropped) * Interval <= 2 * MaxLatency
      BY DEF MissesExplained
    <2>c. MaxLatency \in Nat /\ Interval \in Nat BY TimeoutAssumption
    <2>t. /\ health.missed \in Nat /\ dropped \in Nat /\ since \in 0..(2 * MaxLatency)
          /\ ticker \in 0..Interval
      BY DEF IInv, TypeOK
    <2>1. CASE outstanding = None
      <3>1. health.missed - dropped <= 0 BY <2>1, <2>t DEF IInv, Ticks
      <3>2. (health.missed - dropped) * Interval <= 0 BY <3>1, <2>t, <2>c
      <3> QED BY <3>2, <2>t, <2>c
    <2>2. CASE outstanding # None
      <3> DEFINE a == (health.missed - dropped) * Interval
      <3>1. a \in Int BY <2>t, <2>c
      <3>2. a + (Interval - ticker) <= since BY <2>2 DEF IInv, Ticks
      <3> HIDE DEF a
      <3>3. a <= 2 * MaxLatency BY <3>1, <3>2, <2>t, <2>c
      <3> QED BY <3>3 DEF a
    <2> QED BY <2>1, <2>2
  <1> QED BY Invariance, <1>1, PTL

(***************************************************************************)
(* The idle timer.                                                         *)
(***************************************************************************)
\* What the default timeouts provide for: a probe that has to wait for the next
\* tick and then for its round trip still comes before the idle timer.
RoundTripFits == 2 * MaxLatency + Interval < Idle

Alive == phase = "up" /\ dropped = 0 => Lasts

LEMMA AliveInitially == Init => Alive
  BY DEF Init, Alive

LEMMA AliveKept ==
  ASSUME RoundTripFits, IInv, Alive, [Next]_vars
  PROVE  Alive'
  <1>c. /\ MaxLatency \in Nat /\ Interval \in Nat /\ Idle \in Nat
        /\ 2 * MaxLatency + Interval < Idle
    BY TimeoutAssumption DEF RoundTripFits
  <1>t. TypeOK BY DEF IInv
  <1> SUFFICES ASSUME phase' = "up", dropped' = 0 PROVE Lasts' BY DEF Alive
  <1>1. CASE Ready BY <1>1, <1>c DEF Ready, Lasts
  <1>2. CASE Tick
    <2>1. phase = "up" /\ ticker = 0 /\ idle' = idle /\ Flight BY <1>2 DEF Tick, IInv
    <2>2. CASE HasOutstanding
      <3>1. dropped = 0 /\ wire' = wire BY <1>2, <2>2 DEF Tick, probeVars
      <3>2. wire # {} BY <2>1, <2>2 DEF Flight, HasOutstanding
      <3> QED BY <3>1, <3>2, <2>1 DEF Alive, Lasts
    <2>3. CASE ~HasOutstanding
      <3>1. wire = {} BY <2>1, <2>3, NonceGiven DEF Flight, HasOutstanding, Packets
      <3> DEFINE q == [nonce |-> (nonce + 1) % 2 ^ NonceWidth, leg |-> "ping", age |-> 0]
      <3>2. PICK full \in BOOLEAN : /\ dropped' = dropped + IF full THEN 1 ELSE 0
                                    /\ wire' = IF full THEN wire ELSE wire \cup {q}
        BY <1>2, <2>3 DEF Tick
      <3>3. dropped \in Nat /\ idle \in Nat BY <1>t DEF TypeOK
      <3>4. dropped = 0 /\ wire' = {q} BY <3>1, <3>2, <3>3
      <3>5. q.leg = "ping" /\ q.age = 0 OBVIOUS
      <3>6. idle > MaxLatency BY <2>1, <3>1, <3>3, <3>4, <1>c DEF Alive, Lasts
      <3> HIDE DEF q
      <3> QED BY <3>3, <3>4, <3>5, <3>6, <2>1, <1>c DEF Lasts
    <2> QED BY <2>2, <2>3
  <1>3. CASE Elapse
    <2>1. /\ phase = "up" /\ dropped = 0 /\ Lasts /\ idle' = idle - 1 /\ ticker' = ticker - 1
          /\ wire' = {[p EXCEPT !.age = @ + 1] : p \in wire}
      BY <1>3 DEF Elapse, Alive, countVars
    <2>2. wire' = {} => idle' > ticker' + MaxLatency
      <3>1. wire' = {} => wire = {} BY <2>1
      <3>2. idle \in Nat /\ ticker \in Nat BY <1>t DEF TypeOK
      <3> QED BY <3>1, <3>2, <2>1, <1>c DEF Lasts
    <2>3. ASSUME NEW q \in wire'
          PROVE  IF q.leg = "ping" THEN idle' + q.age > MaxLatency ELSE idle' + q.age >= Idle
      <3>1. PICK p \in wire : q = [p EXCEPT !.age = @ + 1] BY <2>1, <2>3
      <3>2. p \in Packets BY <1>t DEF TypeOK
      <3>3. p.age \in Nat /\ q.leg = p.leg /\ q.age = p.age + 1 BY <3>1, <3>2 DEF Packets
      <3>4. IF p.leg = "ping" THEN idle + p.age > MaxLatency ELSE idle + p.age >= Idle
        BY <2>1 DEF Lasts
      <3>5. idle \in Nat BY <1>t DEF TypeOK
      <3> QED BY <3>3, <3>4, <3>5, <2>1, <1>c
    <2> QED BY <2>2, <2>3 DEF Lasts
  <1>4. ASSUME NEW p \in wire, ReadPing(p) PROVE Lasts'
    <2>1. wire = {p} /\ p \in Packets BY <1>4 DEF IInv, Flight, ReadPing
    <2>2. wire' = {[p EXCEPT !.leg = "pong", !.age = 0]} /\ idle' = Idle
      BY <1>4, <2>1 DEF ReadPing, RestartIdle
    <2> QED BY <2>1, <2>2, <1>c DEF Lasts, Packets
  <1>5. ASSUME NEW p \in wire, ReadPong(p) PROVE Lasts'
    <2>1. /\ phase = "up" /\ dropped = 0 /\ Lasts /\ p.leg = "pong" /\ idle' = idle
          /\ ticker' = ticker
      BY <1>5 DEF ReadPong, Alive
    <2>2. wire' = {} BY <1>5, PongKeeps
    <2>3. p \in Packets /\ p.age \in 0..MaxLatency BY <1>t DEF TypeOK, Packets
    <2>4. idle + p.age >= Idle BY <2>1 DEF Lasts
    <2> QED BY <2>1, <2>2, <2>3, <2>4, <1>t, <1>c DEF Lasts, TypeOK
  <1>6. CASE Number \/ IdleOut \/ Lose BY <1>6 DEF Number, IdleOut, Lose
  <1>7. CASE Snapshot BY <1>7 DEF Snapshot, Alive, Lasts, probeVars
  <1>8. CASE UNCHANGED vars BY <1>8 DEF vars, Alive, Lasts
  <1> QED BY <1>1, <1>2, <1>3, <1>4, <1>5, <1>6, <1>7, <1>8 DEF Next

\* A quiet Session is kept alive by its heartbeats whenever the idle timeout exceeds
\* the interval and a round trip together, which TimeoutPolicy::validate does not
\* demand and the defaults have: 20 s and 90 s leave just under 35 s per direction.
THEOREM SessionKeptAlive ==
  ASSUME RoundTripFits
  PROVE  Spec => []KeptAlive
  <1>1. IInv /\ Alive /\ [Next]_vars => Alive' BY AliveKept, RoundTripFits
  <1>2. IInv /\ Alive => KeptAlive
    <2> SUFFICES ASSUME IInv, Alive, phase = "up", idle = 0, dropped = 0 PROVE FALSE
      BY DEF KeptAlive, IInv, TypeOK
    <2>c. MaxLatency \in Nat /\ Idle \in Nat /\ 2 * MaxLatency + Interval < Idle /\ Interval \in Nat
      BY TimeoutAssumption DEF RoundTripFits
    <2>1. Lasts /\ Flight /\ TypeOK BY DEF Alive, IInv
    <2>2. CASE wire = {} BY <2>1, <2>2, <2>c DEF Lasts, TypeOK
    <2>3. ASSUME NEW p \in wire PROVE FALSE
      <3>1. p.age \in 0..MaxLatency BY <2>1 DEF TypeOK, Packets
      <3> QED BY <2>1, <3>1, <2>c DEF Lasts
    <2> QED BY <2>2, <2>3
  <1> QED BY Invariance, AliveInitially, <1>1, <1>2, PTL DEF Spec

=============================================================================
