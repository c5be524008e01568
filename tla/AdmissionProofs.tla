-------------------------- MODULE AdmissionProofs --------------------------
(***************************************************************************)
(* The admission limits hold for every number of connections and every     *)
(* value of the limits.                                                    *)
(*                                                                         *)
(* The semaphore, the two counters and the registry are updated one after  *)
(* the other.  What makes the counters bounded is that each of the four is *)
(* exactly the set of handlers in certain phases, and that the phases that *)
(* count a handshake are among those that hold a permit, the phases that   *)
(* count a Session among those that are listed.  The second part is about  *)
(* the throttle that Admission leaves open (AuthLimiter).                  *)
(***************************************************************************)
EXTENDS Admission, AuthLimiter, FiniteSetTheorems, FunctionTheorems, SequenceTheorems,
        WellFoundedInduction, TLAPS

ShakePhases == {"hello", "data", "auth", "rejecting", "passed", "failed"}
In(P) == {c \in Conn : phase[c] \in P}

Exact ==
  /\ permits \in Nat /\ permits = MaxHandshakes - Cardinality(In(PermitPhases))
  /\ handshakes = Cardinality(In(ShakePhases))
  /\ registry = In(SessionPhases)
  /\ sessions = Cardinality(In(CountedPhases))
  /\ Cardinality(registry) <= MaxSessions

\* A Session that this pass neither has visited nor is going to visit has woken
\* the drain loop or is about to; a pass that waits has visited all of its list.
Overseen ==
  /\ drain \in {"list", "wait"} /\ ~woken =>
       \A c \in registry : c \in notified \cup roster \/ phase[c] = "listed"
  /\ drain = "wait" => roster = {}

IInv ==
  /\ TypeOK
  /\ Exact
  /\ Overseen
  /\ drain = "stopped" => Live = {}

(***************************************************************************)
(* One handler moves from one phase to another.                            *)
(***************************************************************************)
One(p, P) == IF p \in P THEN 1 ELSE 0

Moves(c) ==
  /\ phase' = [phase EXCEPT ![c] = phase'[c]]
  /\ permits' = permits + One(phase[c], PermitPhases) - One(phase'[c], PermitPhases)
  /\ phase'[c] \in PermitPhases => phase[c] \in PermitPhases \/ permits > 0
  /\ handshakes' = handshakes + One(phase'[c], ShakePhases) - One(phase[c], ShakePhases)
  /\ registry' = IF phase'[c] \in SessionPhases THEN registry \cup {c} ELSE registry \ {c}
  /\ phase'[c] \in SessionPhases => phase[c] \in SessionPhases \/ ~RegistryFull
  /\ sessions' = sessions + One(phase'[c], CountedPhases) - One(phase[c], CountedPhases)

\* Every set of connections is finite.
LEMMA FiniteParts == \A S \in SUBSET Conn : IsFiniteSet(S) /\ Cardinality(S) \in Nat
  BY FS_Subset, FS_CardinalityType, AdmissionAssumption

\* The number of handlers in some phases changes with the handler that moves.
LEMMA CountMove ==
  ASSUME phase \in [Conn -> Phases], NEW c \in Conn, NEW P,
         phase' = [phase EXCEPT ![c] = phase'[c]]
  PROVE  /\ Cardinality(In(P)') = Cardinality(In(P)) + One(phase'[c], P) - One(phase[c], P)
         /\ In(P)' = IF phase'[c] \in P THEN In(P) \cup {c} ELSE In(P) \ {c}
         /\ Cardinality(In(P)) \in Nat /\ Cardinality(In(P)') \in Nat
  <1>1. In(P)' = IF phase'[c] \in P THEN In(P) \cup {c} ELSE In(P) \ {c} BY DEF In
  <1>2. IsFiniteSet(In(P)) /\ Cardinality(In(P)) \in Nat /\ Cardinality(In(P)') \in Nat
    BY FiniteParts DEF In
  <1>3. c \in In(P) <=> phase[c] \in P BY DEF In
  <1>4. CASE phase'[c] \in P
    <2>1. Cardinality(In(P)') = IF c \in In(P) THEN Cardinality(In(P)) ELSE Cardinality(In(P)) + 1
      BY <1>1, <1>2, <1>4, FS_AddElement
    <2> QED BY <1>1, <1>2, <1>3, <1>4, <2>1 DEF One
  <1>5. CASE phase'[c] \notin P
    <2>1. Cardinality(In(P)') = IF c \in In(P) THEN Cardinality(In(P)) - 1 ELSE Cardinality(In(P))
      BY <1>1, <1>2, <1>5, FS_RemoveElement
    <2> QED BY <1>1, <1>2, <1>3, <1>5, <2>1 DEF One
  <1> QED BY <1>4, <1>5

\* A move keeps the semaphore, the counters and the registry exact.
LEMMA MoveExact ==
  ASSUME TypeOK, Exact, NEW c \in Conn, Moves(c)
  PROVE  Exact'
  <1>t. phase \in [Conn -> Phases] /\ phase' = [phase EXCEPT ![c] = phase'[c]]
    BY DEF TypeOK, Moves
  <1>1. permits' \in Nat /\ permits' = MaxHandshakes - Cardinality(In(PermitPhases)')
    <2>1. /\ Cardinality(In(PermitPhases)') = Cardinality(In(PermitPhases))
               + One(phase'[c], PermitPhases) - One(phase[c], PermitPhases)
          /\ Cardinality(In(PermitPhases)) \in Nat
      BY <1>t, CountMove
    <2>2. permits \in Nat /\ permits = MaxHandshakes - Cardinality(In(PermitPhases))
      BY DEF Exact
    <2>3. /\ permits' = permits + One(phase[c], PermitPhases) - One(phase'[c], PermitPhases)
          /\ phase'[c] \in PermitPhases => phase[c] \in PermitPhases \/ permits > 0
      BY DEF Moves
    <2> HIDE DEF PermitPhases
    <2> QED BY <2>1, <2>2, <2>3, AdmissionAssumption DEF One
  <1>2. handshakes' = Cardinality(In(ShakePhases)')
    <2>1. Cardinality(In(ShakePhases)') = Cardinality(In(ShakePhases))
            + One(phase'[c], ShakePhases) - One(phase[c], ShakePhases)
      BY <1>t, CountMove
    <2> QED BY <2>1 DEF Exact, Moves
  <1>3. sessions' = Cardinality(In(CountedPhases)')
    <2>1. Cardinality(In(CountedPhases)') = Cardinality(In(CountedPhases))
            + One(phase'[c], CountedPhases) - One(phase[c], CountedPhases)
      BY <1>t, CountMove
    <2> QED BY <2>1 DEF Exact, Moves
  <1>4. registry' = In(SessionPhases)'
    <2>1. In(SessionPhases)' = IF phase'[c] \in SessionPhases
                               THEN In(SessionPhases) \cup {c} ELSE In(SessionPhases) \ {c}
      BY <1>t, CountMove
    <2> QED BY <2>1 DEF Exact, Moves
  <1>5. Cardinality(registry') <= MaxSessions
    <2>1. /\ Cardinality(In(SessionPhases)') = Cardinality(In(SessionPhases))
               + One(phase'[c], SessionPhases) - One(phase[c], SessionPhases)
          /\ Cardinality(In(SessionPhases)) \in Nat /\ Cardinality(In(SessionPhases)') \in Nat
      BY <1>t, CountMove
    <2>2. registry = In(SessionPhases) /\ Cardinality(registry) <= MaxSessions BY DEF Exact
    <2>3. phase'[c] \in SessionPhases =>
            phase[c] \in SessionPhases \/ ~(Cardinality(registry) >= MaxSessions)
      BY DEF Moves, RegistryFull
    <2> HIDE DEF SessionPhases
    <2> QED BY <1>4, <2>1, <2>2, <2>3, AdmissionAssumption DEF One
  <1> QED BY <1>1, <1>2, <1>3, <1>4, <1>5 DEF Exact

Steps(c) ==
  \/ Admit(c) \/ TurnAway(c) \/ Handshake(c)
  \/ WriteDrain(c) \/ EndSession(c) \/ DropSession(c) \/ Abort(c)

\* Every step of a handler is such a move.
LEMMA HandlerMoves ==
  ASSUME TypeOK, Exact, NEW c \in Conn, Steps(c)
  PROVE  Moves(c) /\ phase'[c] \in Phases
  <1> USE DEF TypeOK, Goto, One, slotVars, tableVars, drainVars
  <1>r. c \in registry <=> phase[c] \in SessionPhases BY DEF Exact, In
  <1> USE DEF Moves, PermitPhases, ShakePhases, CountedPhases, SessionPhases, Phases
  <1>n. permits \in Int /\ handshakes \in Int /\ sessions \in Int BY DEF Exact
  <1>1. CASE Admit(c) BY <1>1, <1>r, <1>n DEF Admit, Admits
  <1>2. CASE TurnAway(c) BY <1>2, <1>r, <1>n DEF TurnAway
  <1>3. CASE Spawn(c) BY <1>3, <1>r, <1>n DEF Spawn
  <1>4. CASE FirstMessage(c) BY <1>4, <1>r, <1>n DEF FirstMessage
  <1>5. CASE Fail(c) BY <1>5, <1>r, <1>n DEF Fail
  <1>6. CASE Refuse(c) BY <1>6, <1>r, <1>n DEF Refuse
  <1>7. CASE Pass(c) BY <1>7, <1>r, <1>n DEF Pass
  <1>8. CASE Release(c) BY <1>8, <1>r, <1>n DEF Release
  <1>9. CASE CheckCancel(c) BY <1>9, <1>r, <1>n DEF CheckCancel
  <1>10. CASE Enter(c) BY <1>10, <1>r, <1>n DEF Enter
  <1>17. CASE Signal(c) BY <1>17, <1>r, <1>n DEF Signal
  <1>11. CASE Count(c) BY <1>11, <1>r, <1>n DEF Count
  <1>12. CASE Greet(c) BY <1>12, <1>r, <1>n DEF Greet
  <1>13. CASE WriteDrain(c) BY <1>13, <1>r, <1>n DEF WriteDrain
  <1>14. CASE EndSession(c) BY <1>14, <1>r, <1>n DEF EndSession
  <1>15. CASE DropSession(c) BY <1>15, <1>r, <1>n DEF DropSession
  <1>16. CASE Abort(c) BY <1>16, <1>r, <1>n DEF Abort
  <1> QED BY <1>1, <1>2, <1>3, <1>4, <1>5, <1>6, <1>7, <1>8, <1>9, <1>10, <1>17, <1>11, <1>12,
             <1>13, <1>14, <1>15, <1>16 DEF Steps, Handshake

\* A step of the drain loop moves no handler.
LEMMA DrainKeeps ==
  ASSUME AskShutdown \/ Shutdown
  PROVE  UNCHANGED <<phase, permits, handshakes, registry, sessions>>
  BY DEF AskShutdown, Shutdown, Visit, StartDrain, Wait, Rescan, Deadline, Stop, slotVars, tableVars

\* A handler that lists its Session signals next, and one that signals wakes the
\* drain loop: no registration falls between two passes.
LEMMA StepOversees ==
  ASSUME TypeOK, Overseen, NEW c \in Conn, Steps(c)
  PROVE  Overseen'
  <1> USE DEF Overseen, TypeOK, Goto, slotVars, tableVars, drainVars
  <1>1. CASE Enter(c) BY <1>1 DEF Enter
  <1>2. CASE Signal(c) BY <1>2 DEF Signal
  <1>3. CASE DropSession(c) BY <1>3 DEF DropSession
  <1>4. CASE /\ UNCHANGED <<registry, drain, roster, notified, woken>>
             /\ phase[c] # "listed" /\ phase' = [phase EXCEPT ![c] = phase'[c]]
    BY <1>4
  <1> QED BY <1>1, <1>2, <1>3, <1>4
      DEF Steps, Admit, TurnAway, Handshake, Spawn, FirstMessage, Fail, Refuse, Pass, Release,
          CheckCancel, Count, Greet, WriteDrain, EndSession, Abort

\* A pass begins with every listed Session on its list and waits with none left.
LEMMA DrainOversees ==
  ASSUME TypeOK, Overseen, AskShutdown \/ Shutdown
  PROVE  Overseen'
  BY DEF Overseen, TypeOK, AskShutdown, Shutdown, Visit, StartDrain, Wait, Rescan, Enumerate,
         Deadline, Stop, slotVars, tableVars

\* While the four stay exact the semaphore and the counters stay in range.
LEMMA ExactBounded ==
  ASSUME phase \in [Conn -> Phases], Exact
  PROVE  /\ permits \in 0..MaxHandshakes
         /\ HandshakesBounded
         /\ SessionsBounded
  <1>1. /\ In(ShakePhases) \subseteq In(PermitPhases)
        /\ In(CountedPhases) \subseteq In(SessionPhases)
    BY DEF In, ShakePhases, PermitPhases, SessionPhases
  <1>2. /\ IsFiniteSet(In(PermitPhases)) /\ Cardinality(In(PermitPhases)) \in Nat
        /\ Cardinality(In(ShakePhases)) \in Nat
        /\ IsFiniteSet(In(SessionPhases)) /\ Cardinality(In(SessionPhases)) \in Nat
        /\ Cardinality(In(CountedPhases)) \in Nat
    BY FiniteParts DEF In
  <1>3. /\ Cardinality(In(ShakePhases)) <= Cardinality(In(PermitPhases))
        /\ Cardinality(In(CountedPhases)) <= Cardinality(In(SessionPhases))
    BY <1>1, <1>2, FS_Subset
  <1>4. permits \in 0..MaxHandshakes BY <1>2, AdmissionAssumption DEF Exact
  <1>5. HandshakesBounded
    BY <1>2, <1>3, AdmissionAssumption DEF Exact, HandshakesBounded
  <1>6. SessionsBounded
    BY <1>2, <1>3, AdmissionAssumption DEF Exact, SessionsBounded
  <1> QED BY <1>4, <1>5, <1>6

\* It holds when the server starts.
LEMMA IInvInit == Init => IInv
  <1> SUFFICES ASSUME Init PROVE IInv OBVIOUS
  <1>1. /\ In(PermitPhases) = {} /\ In(ShakePhases) = {}
        /\ In(SessionPhases) = {} /\ In(CountedPhases) = {}
    BY DEF Init, In, PermitPhases, ShakePhases, SessionPhases, CountedPhases
  <1>2. Exact
    <2>1. /\ Cardinality(In(PermitPhases)) = 0 /\ Cardinality(In(ShakePhases)) = 0
          /\ Cardinality(registry) = 0 /\ Cardinality(In(CountedPhases)) = 0
      BY <1>1, FS_EmptySet DEF Init
    <2>2. permits = MaxHandshakes /\ handshakes = 0 /\ sessions = 0 /\ registry = {}
      BY DEF Init
    <2> QED BY <1>1, <2>1, <2>2, AdmissionAssumption DEF Exact
  <1>3. TypeOK
    <2>1. phase \in [Conn -> Phases] BY DEF Init, Phases
    <2>2. permits \in 0..MaxHandshakes /\ handshakes \in Int /\ sessions \in Int
      BY AdmissionAssumption DEF Init
    <2> QED BY <2>1, <2>2 DEF Init, TypeOK
  <1>4. Overseen BY DEF Init, Overseen
  <1> QED BY <1>2, <1>3, <1>4 DEF Init, IInv

\* Every step of a handler and of the drain loop keeps it.
LEMMA IInvNext == IInv /\ [Next]_vars => IInv'
  <1> SUFFICES ASSUME TypeOK, Exact, Overseen, drain = "stopped" => Live = {}, [Next]_vars
               PROVE  TypeOK' /\ Exact' /\ Overseen' /\ (drain' = "stopped" => Live' = {})
    BY DEF IInv
  <1>1. ASSUME NEW c \in Conn, Steps(c)
        PROVE  TypeOK' /\ Exact' /\ Overseen' /\ (drain' = "stopped" => Live' = {})
    <2>1. Moves(c) /\ phase'[c] \in Phases BY <1>1, HandlerMoves
    <2>2. Exact' BY <2>1, MoveExact
    <2>3. phase' \in [Conn -> Phases] BY <2>1 DEF Moves, TypeOK
    <2>4. permits' \in 0..MaxHandshakes /\ handshakes' \in Int /\ sessions' \in Int
      <3>1. /\ Cardinality(In(PermitPhases)') \in Nat /\ Cardinality(In(ShakePhases)') \in Nat
            /\ Cardinality(In(CountedPhases)') \in Nat
        BY FiniteParts DEF In
      <3> QED BY <2>2, <3>1, AdmissionAssumption DEF Exact
    <2>5. /\ registry' \subseteq Conn /\ roster' \subseteq Conn /\ notified' \subseteq Conn
          /\ queued' \subseteq Conn /\ told' \subseteq Conn /\ cut' \subseteq Conn
          /\ UNCHANGED drain /\ woken' \in BOOLEAN
      BY <1>1, <2>1
      DEF TypeOK, Moves, Steps, Admit, TurnAway, Handshake, Spawn, FirstMessage, Fail, Refuse,
          Pass, Release, CheckCancel, Enter, Signal, Count, Greet, WriteDrain, EndSession, DropSession,
          Abort, slotVars, tableVars, drainVars
    <2>6. TypeOK' BY <2>3, <2>4, <2>5 DEF TypeOK
    <2>7. drain # "stopped"
      <3> SUFFICES ASSUME drain = "stopped" PROVE FALSE OBVIOUS
      <3>1. phase[c] \in {"new", "turned", "done"} BY DEF Live
      <3> QED BY <1>1, <3>1
          DEF Steps, Admit, TurnAway, Accepting, Handshake, Spawn, FirstMessage, Fail, Refuse,
              Pass, Release, CheckCancel, Enter, Signal, Count, Greet, WriteDrain, EndSession,
              DropSession, Abort
    <2>8. Overseen' BY <1>1, StepOversees
    <2> QED BY <2>2, <2>5, <2>6, <2>7, <2>8
  <1>2. ASSUME AskShutdown \/ Shutdown
        PROVE  TypeOK' /\ Exact' /\ Overseen' /\ (drain' = "stopped" => Live' = {})
    <2>1. UNCHANGED <<phase, permits, handshakes, registry, sessions>> BY <1>2, DrainKeeps
    <2>2. Exact' BY <2>1 DEF Exact, In
    <2>3. TypeOK'
      BY <1>2, <2>1
      DEF TypeOK, AskShutdown, Shutdown, Visit, StartDrain, Wait, Rescan, Enumerate, Deadline,
          Stop, slotVars, tableVars
    <2>4. drain' = "stopped" => Live = {}
      BY <1>2 DEF AskShutdown, Shutdown, Visit, StartDrain, Wait, Rescan, Enumerate, Deadline, Stop
    <2>5. Overseen' BY <1>2, DrainOversees
    <2> QED BY <2>1, <2>2, <2>3, <2>4, <2>5 DEF Live
  <1>3. CASE UNCHANGED vars BY <1>3 DEF vars, TypeOK, Exact, Overseen, In, Live
  <1> QED BY <1>1, <1>2, <1>3 DEF Next, Steps

\* The inductive invariant holds throughout.
THEOREM Invariance == Spec => []IInv
  BY IInvInit, IInvNext, PTL DEF Spec

\* Every variable keeps its type; the semaphore stays within its limit.
THEOREM TypeCorrect == Spec => []TypeOK
  <1>1. IInv => TypeOK BY DEF IInv
  <1> QED BY <1>1, Invariance, PTL

\* Counters::handshakes stays within accepted_handshakes though it and the
\* semaphore are updated one after the other (server/session.rs, accept.rs).
THEOREM HandshakesLimited == Spec => []HandshakesBounded
  <1>1. IInv => HandshakesBounded BY ExactBounded DEF IInv, TypeOK
  <1> QED BY <1>1, Invariance, PTL

\* Counters::sessions stays within the Session limit though it and the
\* registry are updated one after the other (server/session.rs).
THEOREM SessionsLimited == Spec => []SessionsBounded
  <1>1. IInv => SessionsBounded BY ExactBounded DEF IInv, TypeOK
  <1> QED BY <1>1, Invariance, PTL

\* Neither gauge exceeds its limit or wraps.
THEOREM GaugesLimited == Spec => []GaugesBounded
  BY HandshakesLimited, SessionsLimited, PTL DEF GaugesBounded

\* When the drain loop has returned nothing is held, counted or listed
\* (server/accept.rs, AcceptContext::drain).
THEOREM ShutdownClean == Spec => []StoppedClean
  <1>1. IInv => StoppedClean
    <2> SUFFICES ASSUME IInv, drain = "stopped"
                 PROVE  permits = MaxHandshakes /\ handshakes = 0 /\ registry = {} /\ sessions = 0
      BY DEF StoppedClean
    <2>1. \A c \in Conn : phase[c] \in {"new", "turned", "done"} BY DEF IInv, Live
    <2>2. /\ In(PermitPhases) = {} /\ In(ShakePhases) = {}
          /\ In(SessionPhases) = {} /\ In(CountedPhases) = {}
      BY <2>1 DEF In, PermitPhases, ShakePhases, SessionPhases, CountedPhases
    <2> QED BY <2>2, FS_EmptySet, AdmissionAssumption DEF IInv, Exact
  <1> QED BY <1>1, Invariance, PTL

\* The drain loop never sleeps on a Session that it has not visited: interest is
\* declared before the registry is read, and a handler signals after it is listed
\* (server/accept.rs, drain; server/session.rs, SessionContext::register).
THEOREM NobodyOverlooked == Spec => []NoneOverlooked
  <1>1. IInv => NoneOverlooked BY DEF IInv, Overseen, NoneOverlooked
  <1> QED BY <1>1, Invariance, PTL

\* The drain passes nobody by while it waits and leaves nothing when it returns.
THEOREM DrainCorrect == Spec => []DrainSound
  BY NobodyOverlooked, ShutdownClean, PTL DEF DrainSound

(***************************************************************************)
(* The throttle's memory is bounded for every number of sources, attempts  *)
(* and threads, and whatever order the clock is read and the lock is taken *)
(* in: the bounds on skew and time play no part.                           *)
(***************************************************************************)

Types ==
  /\ now \in Int
  /\ stamp \in [Attempt -> Int]
  /\ failures \in [Source -> Seq(Int)]

Short(table) == \A s \in Source : Len(table[s]) <= Threshold

\* Pruning cuts a queue from the front and makes none longer.
LEMMA PrunedShorter ==
  ASSUME NEW q \in Seq(Int), NEW t \in Int
  PROVE  Pruned(q, t) \in Seq(Int) /\ Len(Pruned(q, t)) <= Len(q)
  <1> DEFINE fresh == {i \in DOMAIN q : ~Stale(q[i], t) /\ \A j \in 1..(i - 1) : Stale(q[j], t)}
             first == CHOOSE i \in fresh : TRUE
  <1>0. Len(q) \in Nat /\ DOMAIN q = 1..Len(q) OBVIOUS
  <1>1. CASE fresh = {}
    <2>1. Pruned(q, t) = <<>> BY <1>1 DEF Pruned
    <2> QED BY <1>0, <2>1
  <1>2. CASE fresh # {}
    <2>1. Pruned(q, t) = SubSeq(q, first, Len(q)) BY <1>2 DEF Pruned
    <2>2. first \in fresh BY <1>2
    <2>3. first \in 1..Len(q) BY <1>0, <2>2
    <2> HIDE DEF first
    <2>4. \A i \in first..Len(q) : q[i] \in Int BY <1>0, <2>3
    <2>5. /\ SubSeq(q, first, Len(q)) \in Seq(Int)
          /\ Len(SubSeq(q, first, Len(q))) = IF first <= Len(q) THEN Len(q) - first + 1 ELSE 0
      BY <1>0, <2>3, <2>4, SubSeqProperties
    <2> QED BY <1>0, <2>1, <2>3, <2>5
  <1> QED BY <1>1, <1>2

\* Pruning the whole table keeps its type and both of its bounds.
LEMMA PruneBounded ==
  ASSUME Types, Bounded, NEW t \in Int
  PROVE  /\ Prune(t) \in [Source -> Seq(Int)]
         /\ Cardinality(Sources(Prune(t))) <= MaxSources
         /\ Short(Prune(t))
         /\ IsFiniteSet(Sources(Prune(t))) /\ Cardinality(Sources(Prune(t))) \in Nat
  <1>1. \A s \in Source : failures[s] \in Seq(Int) BY DEF Types
  <1>2. \A s \in Source : /\ Prune(t)[s] = Pruned(failures[s], t)
                          /\ Prune(t)[s] \in Seq(Int)
                          /\ Len(Prune(t)[s]) <= Len(failures[s])
    BY <1>1, PrunedShorter DEF Prune
  <1>3. Prune(t) \in [Source -> Seq(Int)] BY <1>2 DEF Prune
  <1>4. Short(Prune(t))
    <2> SUFFICES ASSUME NEW s \in Source PROVE Len(Prune(t)[s]) <= Threshold
      BY DEF Short
    <2>1. Len(Prune(t)[s]) \in Nat /\ Len(failures[s]) \in Nat BY <1>1, <1>2
    <2>2. Len(failures[s]) <= Threshold BY DEF Bounded
    <2> QED BY <1>2, <2>1, <2>2, LimiterAssumption
  <1>5. Sources(Prune(t)) \subseteq Sources(failures)
    <2> SUFFICES ASSUME NEW s \in Source, failures[s] = <<>> PROVE Prune(t)[s] = <<>>
      BY DEF Sources
    <2>1. Len(Prune(t)[s]) \in Nat /\ Len(Prune(t)[s]) <= 0 BY <1>2
    <2>2. Prune(t)[s] \in Seq(Int) /\ Len(Prune(t)[s]) = 0 BY <1>2, <2>1
    <2> QED BY <2>2, EmptySeq
  <1>6. IsFiniteSet(Sources(failures)) /\ Sources(failures) \subseteq Source
    BY FS_Subset, LimiterAssumption DEF Sources
  <1>7. /\ IsFiniteSet(Sources(Prune(t)))
        /\ Cardinality(Sources(Prune(t))) <= Cardinality(Sources(failures))
    BY <1>5, <1>6, FS_Subset
  <1>8. Cardinality(Sources(failures)) \in Nat /\ Cardinality(Sources(Prune(t))) \in Nat
    BY <1>6, <1>7, FS_CardinalityType
  <1>9. Cardinality(Sources(Prune(t))) <= MaxSources
    BY <1>7, <1>8, LimiterAssumption DEF Bounded
  <1> QED BY <1>3, <1>4, <1>7, <1>8, <1>9

\* record_failure: a queue grows by one and is cut back, a table that gains a
\* source had room for it.
LEMMA RecordBounded ==
  ASSUME Types, Bounded, NEW a \in Attempt, Record(a)
  PROVE  failures' \in [Source -> Seq(Int)] /\ Bounded'
  <1> DEFINE s == SourceOf[a]
             table == Prune(stamp[a])
  <1>1. stamp[a] \in Int /\ s \in Source BY LimiterAssumption DEF Types
  <1>2. /\ table \in [Source -> Seq(Int)]
        /\ Cardinality(Sources(table)) <= MaxSources
        /\ Short(table)
        /\ IsFiniteSet(Sources(table)) /\ Cardinality(Sources(table)) \in Nat
    BY <1>1, PruneBounded
  <1>3. \/ failures' = table
        \/ /\ ~(table[s] = <<>> /\ TableFull(table))
           /\ failures' = [table EXCEPT ![s] = Trimmed(Append(@, stamp[a]))]
    BY DEF Record
  <1> HIDE DEF table, s
  <1>4. CASE failures' = table BY <1>2, <1>4 DEF Bounded, Short
  <1>5. CASE /\ ~(table[s] = <<>> /\ TableFull(table))
             /\ failures' = [table EXCEPT ![s] = Trimmed(Append(@, stamp[a]))]
    <2> DEFINE longer == Append(table[s], stamp[a])
    <2>1. longer \in Seq(Int) /\ longer # <<>> /\ Len(longer) = Len(table[s]) + 1
      BY <1>1, <1>2, AppendProperties
    <2>2. Len(table[s]) \in Nat /\ Len(table[s]) <= Threshold BY <1>1, <1>2 DEF Short
    <2>3. Tail(longer) \in Seq(Int) /\ Len(Tail(longer)) = Len(longer) - 1
      BY <2>1, HeadTailProperties
    <2> HIDE DEF longer
    <2>4. Trimmed(longer) \in Seq(Int) /\ Len(Trimmed(longer)) <= Threshold
      BY <2>1, <2>2, <2>3, LimiterAssumption DEF Trimmed
    <2>5. failures' = [table EXCEPT ![s] = Trimmed(longer)] BY <1>5 DEF longer
    <2>6. failures' \in [Source -> Seq(Int)] BY <1>1, <1>2, <2>4, <2>5
    <2>7. \A r \in Source : failures'[r] = IF r = s THEN Trimmed(longer) ELSE table[r]
      BY <1>1, <1>2, <2>5
    <2>8. \A r \in Source : Len(failures'[r]) <= Threshold BY <1>2, <2>4, <2>7 DEF Short
    <2>9. Cardinality(Sources(failures')) <= MaxSources
      <3>1. Sources(failures') \subseteq Sources(table) \cup {s} BY <2>7 DEF Sources
      <3>2. CASE s \in Sources(table)
        <4>1. Sources(failures') \in SUBSET Sources(table) BY <3>1, <3>2
        <4>2. /\ Cardinality(Sources(failures')) <= Cardinality(Sources(table))
              /\ IsFiniteSet(Sources(failures'))
          BY <1>2, <4>1, FS_Subset
        <4>3. Cardinality(Sources(failures')) \in Nat BY <4>2, FS_CardinalityType
        <4> QED BY <1>2, <4>2, <4>3, LimiterAssumption
      <3>3. CASE s \notin Sources(table)
        <4>1. ~TableFull(table) BY <1>1, <1>5, <3>3 DEF Sources
        <4>2. Cardinality(Sources(table)) < MaxSources
          BY <1>2, <4>1, LimiterAssumption DEF TableFull
        <4>3. /\ IsFiniteSet(Sources(table) \cup {s})
              /\ Cardinality(Sources(table) \cup {s}) = Cardinality(Sources(table)) + 1
          BY <1>2, <3>3, FS_AddElement
        <4>4. /\ Cardinality(Sources(failures')) <= Cardinality(Sources(table) \cup {s})
              /\ IsFiniteSet(Sources(failures'))
          BY <3>1, <4>3, FS_Subset
        <4>5. Cardinality(Sources(failures')) \in Nat BY <4>4, FS_CardinalityType
        <4> QED BY <1>2, <4>2, <4>3, <4>4, <4>5, LimiterAssumption
      <3> QED BY <3>2, <3>3
    <2> QED BY <2>6, <2>8, <2>9 DEF Bounded, Sources
  <1> QED BY <1>3, <1>4, <1>5

\* auth.rs:4-6: the limiter "never retains unbounded per-source history": at
\* most MaxSources sources and Threshold failures of each, for ever.
THEOREM MemoryBounded == LimiterSpec => []Bounded
  <1> DEFINE Small == Types /\ Bounded
  <1>1. LimiterInit => Small
    <2> SUFFICES ASSUME LimiterInit PROVE Small OBVIOUS
    <2>1. Types BY DEF LimiterInit, Types
    <2>2. Sources(failures) = {} BY DEF LimiterInit, Sources
    <2>3. Cardinality(Sources(failures)) <= MaxSources
      BY <2>2, FS_EmptySet, LimiterAssumption
    <2>4. \A s \in Source : Len(failures[s]) <= Threshold BY LimiterAssumption DEF LimiterInit
    <2> QED BY <2>1, <2>3, <2>4 DEF Bounded
  <1>2. Small /\ [LimiterNext]_limiterVars => Small'
    <2> SUFFICES ASSUME Types, Bounded, [LimiterNext]_limiterVars PROVE Types' /\ Bounded' OBVIOUS
    <2>1. ASSUME NEW a \in Attempt, Arrive(a) \/ Malformed(a) PROVE Types' /\ Bounded'
      BY <2>1 DEF Arrive, Malformed, Types, Bounded, Sources
    <2>2. ASSUME NEW a \in Attempt, Judge(a) PROVE Types' /\ Bounded'
      <3>1. failures' = Prune(stamp[a]) /\ stamp[a] \in Int BY <2>2 DEF Judge, Types
      <3>2. Types'
        <4>1. stamp' \in [Attempt -> Int] BY <2>2 DEF Judge, Types
        <4> QED BY <2>2, <3>1, <4>1, PruneBounded DEF Judge, Types
      <3>3. Bounded'
        <4>1. Cardinality(Sources(Prune(stamp[a]))) <= MaxSources /\ Short(Prune(stamp[a]))
          BY <3>1, PruneBounded
        <4>2. Cardinality(Sources(failures')) <= MaxSources /\ Short(failures')
          BY <3>1, <4>1
        <4> QED BY <4>2 DEF Bounded, Short, Sources
      <3> QED BY <3>2, <3>3
    <2>3. ASSUME NEW a \in Attempt, Record(a) PROVE Types' /\ Bounded'
      BY <2>3, RecordBounded DEF Record, Types
    <2>4. CASE Tick BY <2>4 DEF Tick, Types, Bounded, Sources
    <2>5. CASE UNCHANGED limiterVars BY <2>5 DEF limiterVars, Types, Bounded, Sources
    <2> QED BY <2>1, <2>2, <2>3, <2>4, <2>5 DEF LimiterNext
  <1>3. Small => Bounded OBVIOUS
  <1> QED BY <1>1, <1>2, <1>3, PTL DEF LimiterSpec

(***************************************************************************)
(* Verdicts.  The queue of a source is not sorted, but no entry is older   *)
(* than an earlier one by more than the skew.                              *)
(***************************************************************************)
LEMMA Least ==
  ASSUME NEW T \in SUBSET Nat, T # {}
  PROVE  \E x \in T : \A y \in T : x <= y
  <1> DEFINE R == {p \in Nat \X Nat : p[1] < p[2]}
  <1>1. IsWellFoundedOn(R, Nat) BY NatLessThanWellFounded DEF OpToRel
  <1>2. PICK x \in T : \A y \in T : ~(<<y, x>> \in R)
    <2> HIDE DEF R
    <2> QED BY <1>1, WFMin
  <1>3. ASSUME NEW y \in T PROVE x <= y
    <2>1. ~(<<y, x>> \in R) BY <1>2
    <2>2. y \in Nat /\ x \in Nat OBVIOUS
    <2> QED BY <2>1, <2>2
  <1> QED BY <1>3

\* p is q without its first k entries.
Dropped(p, q, k) ==
  /\ k \in 0..Len(q) /\ Len(p) = Len(q) - k
  /\ \A i \in 1..(Len(q) - k) : p[i] = q[i + k]

\* What prune cuts off is stale, and what then comes first is not.
LEMMA PrunedDrops ==
  ASSUME NEW q \in Seq(Int), NEW t \in Int
  PROVE  \E k : /\ Dropped(Pruned(q, t), q, k)
                /\ \A j \in 1..k : Stale(q[j], t)
                /\ k < Len(q) => ~Stale(q[k + 1], t)
  <1> DEFINE fresh == {i \in DOMAIN q : ~Stale(q[i], t) /\ \A j \in 1..(i - 1) : Stale(q[j], t)}
             first == CHOOSE i \in fresh : TRUE
             young == {i \in 1..Len(q) : ~Stale(q[i], t)}
  <1>0. Len(q) \in Nat /\ DOMAIN q = 1..Len(q) OBVIOUS
  <1>1. CASE fresh = {}
    <2>1. Pruned(q, t) = <<>> BY <1>1 DEF Pruned
    <2>2. young = {}
      <3> SUFFICES ASSUME young # {} PROVE FALSE OBVIOUS
      <3>1. young \in SUBSET Nat BY <1>0
      <3> HIDE DEF young
      <3>2. PICK i \in young : \A j \in young : i <= j BY <3>1, Least
      <3>3. i \in 1..Len(q) /\ ~Stale(q[i], t) BY <3>2 DEF young
      <3>4. \A j \in 1..(i - 1) : j \in 1..Len(q) /\ ~(i <= j) BY <1>0, <3>3
      <3>5. \A j \in 1..(i - 1) : Stale(q[j], t) BY <3>2, <3>4 DEF young
      <3>6. i \in fresh BY <1>0, <3>3, <3>5
      <3> QED BY <1>1, <3>6
    <2>3. \A j \in 1..Len(q) : Stale(q[j], t) BY <2>2
    <2>4. Dropped(<<>>, q, Len(q)) BY <1>0 DEF Dropped
    <2> QED BY <1>0, <2>1, <2>3, <2>4
  <1>2. CASE fresh # {}
    <2>1. Pruned(q, t) = SubSeq(q, first, Len(q)) BY <1>2 DEF Pruned
    <2>2. first \in fresh BY <1>2
    <2>3. /\ first \in 1..Len(q) /\ ~Stale(q[first], t)
          /\ \A j \in 1..(first - 1) : Stale(q[j], t)
      BY <1>0, <2>2
    <2> HIDE DEF first, fresh
    <2>4. PICK k : k = first - 1 OBVIOUS
    <2>5. k \in 0..Len(q) /\ first = k + 1 /\ k < Len(q) BY <1>0, <2>3, <2>4
    <2>6. \A i \in first..Len(q) : q[i] \in Int BY <1>0, <2>3
    <2>7. /\ Len(SubSeq(q, first, Len(q))) = IF first <= Len(q) THEN Len(q) - first + 1 ELSE 0
          /\ \A i \in 1..(Len(q) - first + 1) : SubSeq(q, first, Len(q))[i] = q[first + i - 1]
      BY <1>0, <2>3, <2>6, SubSeqProperties
    <2>8. Len(SubSeq(q, first, Len(q))) = Len(q) - k
      <3>1. first <= Len(q) /\ Len(q) - first + 1 = Len(q) - k BY <1>0, <2>3, <2>5
      <3> QED BY <2>7, <3>1, Zenon
    <2>9. \A i \in 1..(Len(q) - k) : SubSeq(q, first, Len(q))[i] = q[i + k]
      <3> TAKE i \in 1..(Len(q) - k)
      <3>1. i \in 1..(Len(q) - first + 1) /\ first + i - 1 = i + k BY <1>0, <2>5
      <3> QED BY <2>7, <3>1
    <2>10. Dropped(Pruned(q, t), q, k) BY <2>1, <2>5, <2>8, <2>9 DEF Dropped
    <2> QED BY <2>3, <2>4, <2>5, <2>10
  <1> QED BY <1>1, <1>2

(***************************************************************************)
(* The ledger of a source: the attempts f its queue q was recorded for.    *)
(***************************************************************************)
Entries(s, q, f, tr) ==
  /\ f \in Injection(1..Len(q), Attempt)
  /\ \A i \in 1..Len(q) : SourceOf[f[i]] = s /\ tr[f[i]] = q[i] /\ q[i] >= 0

\* No entry is older than an earlier one by more than the skew, none is of the future.
InOrder(q, n) ==
  /\ \A i \in 1..Len(q) : q[i] <= n
  /\ \A i, j \in 1..Len(q) : i < j => q[j] >= q[i] - MaxSkew

\* A failure of late is in the queue, or was pushed out by as many as block.
Remembered(q, f, tr, a) ==
  \/ \E i \in 1..Len(q) : f[i] = a
  \/ Len(q) >= Threshold /\ \A i \in 1..Len(q) : q[i] >= tr[a] - MaxSkew

Late(s, tr, n, age) == {a \in Attempt : SourceOf[a] = s /\ tr[a] >= 0 /\ n - tr[a] < age}

Ledger(s, q, f, tr, n) ==
  /\ Entries(s, q, f, tr)
  /\ InOrder(q, n)
  /\ \A a \in Late(s, tr, n, Window - MaxSkew) : Remembered(q, f, tr, a)

\* Cutting k entries off the front: those of late stay.
LEMMA DroppedEntries ==
  ASSUME NEW s, NEW q \in Seq(Int), NEW p \in Seq(Int), NEW f, NEW tr, NEW n \in Int, NEW k,
         Entries(s, q, f, tr), InOrder(q, n), Dropped(p, q, k)
  PROVE  /\ Entries(s, p, [i \in 1..Len(p) |-> f[i + k]], tr) /\ InOrder(p, n)
  <1> DEFINE h == [i \in 1..Len(p) |-> f[i + k]]
  <1>0. Len(q) \in Nat /\ Len(p) \in Nat BY LenProperties
  <1>1. k \in 0..Len(q) /\ Len(p) = Len(q) - k BY DEF Dropped
  <1>2. \A i \in 1..Len(p) : i + k \in 1..Len(q) /\ p[i] = q[i + k] BY <1>0, <1>1 DEF Dropped
  <1>3. /\ f \in [1..Len(q) -> Attempt]
        /\ \A i, j \in 1..Len(q) : f[i] = f[j] => i = j
    BY DEF Entries, Injection, IsInjective
  <1>4. h \in [1..Len(p) -> Attempt] BY <1>2, <1>3
  <1>5. \A i, j \in 1..Len(p) : h[i] = h[j] => i = j
    <2> TAKE i, j \in 1..Len(p)
    <2> HAVE h[i] = h[j]
    <2>1. f[i + k] = f[j + k] OBVIOUS
    <2>2. i + k = j + k BY <1>2, <1>3, <2>1
    <2> QED BY <1>0, <1>1, <2>2
  <1>6. h \in Injection(1..Len(p), Attempt) BY <1>4, <1>5 DEF Injection, IsInjective
  <1>7. \A i \in 1..Len(p) : SourceOf[h[i]] = s /\ tr[h[i]] = p[i] /\ p[i] >= 0
    BY <1>2 DEF Entries
  <1>8. Entries(s, p, h, tr) BY <1>6, <1>7 DEF Entries
  <1>9. \A i \in 1..Len(p) : p[i] <= n BY <1>2 DEF InOrder
  <1>10. \A i, j \in 1..Len(p) : i < j => p[j] >= p[i] - MaxSkew
    <2> TAKE i, j \in 1..Len(p)
    <2> HAVE i < j
    <2>1. i + k < j + k BY <1>0, <1>1
    <2> QED BY <1>2, <2>1 DEF InOrder
  <1> QED BY <1>8, <1>9, <1>10 DEF InOrder

\* prune.
LEMMA PrunedLedger ==
  ASSUME NEW s, NEW q \in Seq(Int), NEW f, NEW tr \in [Attempt -> Int], NEW n \in Int, NEW t \in Int, t <= n,
         Ledger(s, q, f, tr, n)
  PROVE  \E h : Ledger(s, Pruned(q, t), h, tr, n)
  <1>0. Len(q) \in Nat BY LenProperties
  <1>1. PICK k : /\ Dropped(Pruned(q, t), q, k)
                 /\ \A j \in 1..k : Stale(q[j], t)
                 /\ k < Len(q) => ~Stale(q[k + 1], t)
    BY PrunedDrops
  <1>2. PICK p : p = Pruned(q, t) OBVIOUS
  <1>3. p \in Seq(Int) /\ Dropped(p, q, k) BY <1>1, <1>2, PrunedShorter
  <1>4. Entries(s, q, f, tr) /\ InOrder(q, n) BY DEF Ledger
  <1> DEFINE h == [i \in 1..Len(p) |-> f[i + k]]
  <1>5. Entries(s, p, h, tr) /\ InOrder(p, n) BY <1>3, <1>4, DroppedEntries
  <1>6. ASSUME NEW a \in Late(s, tr, n, Window - MaxSkew) PROVE Remembered(p, h, tr, a)
    <2>0. /\ tr[a] \in Int /\ n - tr[a] < Window - MaxSkew /\ Window \in Int /\ MaxSkew \in Nat
          /\ \A i \in 1..Len(q) : q[i] \in Int
          /\ k \in 0..Len(q) /\ Len(p) = Len(q) - k /\ \A i \in 1..(Len(q) - k) : p[i] = q[i + k]
      BY <1>3, <1>6, LimiterAssumption DEF Late, Dropped
    <2>1. CASE \E i \in 1..Len(q) : f[i] = a
      <3>1. PICK i \in 1..Len(q) : f[i] = a BY <2>1
      <3>2. q[i] = tr[a] BY <1>4, <3>1 DEF Entries
      <3>3. ~Stale(q[i], t) BY <2>0, <3>2 DEF Stale
      <3>4. i \notin 1..k BY <1>1, <3>3
      <3>5. i - k \in 1..Len(p) /\ (i - k) + k = i BY <1>0, <2>0, <3>1, <3>4
      <3>6. h[i - k] = a BY <3>1, <3>5
      <3> QED BY <3>5, <3>6 DEF Remembered
    <2>2. CASE Len(q) >= Threshold /\ \A i \in 1..Len(q) : q[i] >= tr[a] - MaxSkew
      <3>1. \A i \in 1..Len(q) : ~Stale(q[i], t) BY <2>0, <2>2 DEF Stale
      <3>2. k = 0
        <4> SUFFICES ASSUME k # 0 PROVE FALSE OBVIOUS
        <4>1. 1 \in 1..k /\ 1 \in 1..Len(q) BY <1>0, <2>0
        <4> QED BY <1>1, <3>1, <4>1
      <3>3. Len(p) = Len(q) /\ \A i \in 1..Len(q) : p[i] = q[i] BY <1>0, <2>0, <3>2
      <3> QED BY <2>2, <3>3 DEF Remembered
    <2> QED BY <1>6, <2>1, <2>2 DEF Ledger, Remembered
  <1>7. Ledger(s, p, h, tr, n) BY <1>5, <1>6 DEF Ledger
  <1> QED BY <1>2, <1>7

\* The oldest entry of a queue that has grown too long is dropped.
LEMMA TailLedger ==
  ASSUME NEW s, NEW q \in Seq(Int), NEW f, NEW tr \in [Attempt -> Int], NEW n \in Int,
         Ledger(s, q, f, tr, n), Len(q) > Threshold
  PROVE  \E h : Ledger(s, Tail(q), h, tr, n)
  <1>0. Len(q) \in Nat /\ Threshold \in Nat /\ q # <<>> BY LenProperties, LimiterAssumption
  <1>1. PICK p : p = Tail(q) OBVIOUS
  <1>2. p \in Seq(Int) /\ Len(p) = Len(q) - 1 /\ \A i \in 1..Len(p) : p[i] = q[i + 1]
    BY <1>0, <1>1, HeadTailProperties
  <1>3. Dropped(p, q, 1) BY <1>0, <1>2 DEF Dropped
  <1>4. Entries(s, q, f, tr) /\ InOrder(q, n) BY DEF Ledger
  <1> DEFINE h == [i \in 1..Len(p) |-> f[i + 1]]
  <1>5. Entries(s, p, h, tr) /\ InOrder(p, n) BY <1>2, <1>3, <1>4, DroppedEntries
  <1>6. ASSUME NEW a \in Late(s, tr, n, Window - MaxSkew) PROVE Remembered(p, h, tr, a)
    <2>0. Len(p) >= Threshold /\ \A i \in 1..Len(p) : i + 1 \in 1..Len(q) /\ 1 < i + 1 BY <1>0, <1>2
    <2>1. CASE \E i \in 1..Len(q) : f[i] = a
      <3>1. PICK i \in 1..Len(q) : f[i] = a BY <2>1
      <3>2. CASE i = 1
        <4>1. q[1] = tr[a] BY <1>4, <3>1, <3>2 DEF Entries
        <4>2. 1 \in 1..Len(q) BY <1>0
        <4>3. \A j \in 1..Len(p) : p[j] >= tr[a] - MaxSkew
          BY <1>2, <1>4, <2>0, <4>1, <4>2 DEF InOrder
        <4> QED BY <2>0, <4>3 DEF Remembered
      <3>3. CASE i # 1
        <4>1. i - 1 \in 1..Len(p) /\ (i - 1) + 1 = i BY <1>0, <1>2, <3>1, <3>3
        <4>2. h[i - 1] = a BY <3>1, <4>1
        <4> QED BY <4>1, <4>2 DEF Remembered
      <3> QED BY <3>2, <3>3
    <2>2. CASE Len(q) >= Threshold /\ \A i \in 1..Len(q) : q[i] >= tr[a] - MaxSkew
      BY <1>2, <2>0, <2>2 DEF Remembered
    <2> QED BY <1>6, <2>1, <2>2 DEF Ledger, Remembered
  <1>7. Ledger(s, p, h, tr, n) BY <1>5, <1>6 DEF Ledger
  <1> QED BY <1>1, <1>7

\* A failure of a is entered.
LEMMA AppendLedger ==
  ASSUME NEW s, NEW q \in Seq(Int), NEW f, NEW tr \in [Attempt -> Int], NEW n \in Int,
         NEW a \in Attempt, SourceOf[a] = s, tr[a] = -1, \A b \in Attempt : tr[b] <= n,
         NEW t \in Nat, t <= n, n - t <= MaxSkew, Ledger(s, q, f, tr, n)
  PROVE  \E h : Ledger(s, Append(q, t), h, [tr EXCEPT ![a] = t], n)
  <1>0. Len(q) \in Nat /\ MaxSkew \in Nat BY LenProperties, LimiterAssumption
  <1>1. PICK p, w : p = Append(q, t) /\ w = [tr EXCEPT ![a] = t] OBVIOUS
  <1>2. /\ p \in Seq(Int) /\ Len(p) = Len(q) + 1 /\ p[Len(q) + 1] = t
        /\ \A i \in 1..Len(q) : p[i] = q[i] /\ q[i] \in Int
    BY <1>1, AppendProperties
  <1>3. w[a] = t /\ \A b \in Attempt \ {a} : w[b] = tr[b] BY <1>1
  <1>4. Entries(s, q, f, tr) /\ InOrder(q, n) BY DEF Ledger
  <1>5. /\ f \in [1..Len(q) -> Attempt]
        /\ \A i, j \in 1..Len(q) : f[i] = f[j] => i = j
    BY <1>4 DEF Entries, Injection, IsInjective
  <1>6. \A i \in 1..Len(q) : f[i] # a BY <1>2, <1>4 DEF Entries
  <1> DEFINE h == [i \in 1..Len(p) |-> IF i = Len(q) + 1 THEN a ELSE f[i]]
  <1>7. \A i \in 1..Len(p) : i = Len(q) + 1 \/ (i \in 1..Len(q) /\ i < Len(q) + 1) BY <1>0, <1>2
  <1>8. Len(q) + 1 \in 1..Len(p) /\ \A i \in 1..Len(q) : i \in 1..Len(p) /\ i # Len(q) + 1 BY <1>0, <1>2
  <1>9. h[Len(q) + 1] = a /\ \A i \in 1..Len(q) : h[i] = f[i] BY <1>8
  <1>10. h \in [1..Len(p) -> Attempt] BY <1>5, <1>7
  <1>11. \A i, j \in 1..Len(p) : h[i] = h[j] => i = j BY <1>5, <1>6, <1>7, <1>9
  <1>12. \A i \in 1..Len(p) : SourceOf[h[i]] = s /\ w[h[i]] = p[i] /\ p[i] >= 0
    <2>1. \A i \in 1..Len(q) : SourceOf[f[i]] = s /\ w[f[i]] = p[i] /\ p[i] >= 0
      BY <1>2, <1>3, <1>4, <1>5, <1>6 DEF Entries
    <2> QED BY <1>2, <1>3, <1>7, <1>9, <2>1
  <1>13. Entries(s, p, h, w) BY <1>10, <1>11, <1>12 DEF Entries, Injection, IsInjective
  <1>14. InOrder(p, n)
    <2>1. \A i \in 1..Len(q) : q[i] <= n /\ t >= q[i] - MaxSkew BY <1>0, <1>2, <1>4 DEF InOrder
    <2>2. \A i, j \in 1..Len(q) : i < j => q[j] >= q[i] - MaxSkew BY <1>4 DEF InOrder
    <2>3. \A i \in 1..Len(p) : p[i] <= n BY <1>2, <1>7, <2>1
    <2>4. \A i, j \in 1..Len(p) : i < j => i \in 1..Len(q) /\ (j = Len(q) + 1 \/ j \in 1..Len(q))
      BY <1>0, <1>2, <1>7
    <2>5. \A i, j \in 1..Len(p) : i < j => p[j] >= p[i] - MaxSkew BY <1>2, <2>1, <2>2, <2>4
    <2> QED BY <2>3, <2>5 DEF InOrder
  <1>15. ASSUME NEW b \in Late(s, w, n, Window - MaxSkew) PROVE Remembered(p, h, w, b)
    <2>1. CASE b = a BY <1>8, <1>9, <2>1 DEF Remembered
    <2>2. CASE b # a
      <3>1. b \in Late(s, tr, n, Window - MaxSkew) /\ w[b] = tr[b] BY <1>3, <1>15, <2>2 DEF Late
      <3>2. Remembered(q, f, tr, b) BY <3>1 DEF Ledger
      <3>3. CASE \E i \in 1..Len(q) : f[i] = b BY <1>8, <1>9, <3>3 DEF Remembered
      <3>4. CASE Len(q) >= Threshold /\ \A i \in 1..Len(q) : q[i] >= tr[b] - MaxSkew
        <4>1. tr[b] \in Int /\ tr[b] <= n BY <3>1 DEF Late
        <4>2. t >= w[b] - MaxSkew BY <1>0, <3>1, <4>1
        <4>3. Len(p) >= Threshold BY <1>0, <1>2, <3>4, LimiterAssumption
        <4>4. \A i \in 1..Len(p) : p[i] >= w[b] - MaxSkew BY <1>2, <1>7, <3>1, <3>4, <4>2
        <4> QED BY <4>3, <4>4 DEF Remembered
      <3> QED BY <3>2, <3>3, <3>4 DEF Remembered
    <2> QED BY <2>1, <2>2
  <1>16. Ledger(s, p, h, w, n) BY <1>13, <1>14, <1>15 DEF Ledger
  <1> QED BY <1>1, <1>16

\* record_failure for the source of a.
LEMMA RecordedLedger ==
  ASSUME NEW s, NEW q \in Seq(Int), NEW f, NEW tr \in [Attempt -> Int], NEW n \in Int,
         NEW a \in Attempt, SourceOf[a] = s, tr[a] = -1, \A b \in Attempt : tr[b] <= n,
         NEW t \in Nat, t <= n, n - t <= MaxSkew, Ledger(s, q, f, tr, n)
  PROVE  \E h : Ledger(s, Trimmed(Append(q, t)), h, [tr EXCEPT ![a] = t], n)
  <1>1. PICK p, w : p = Append(q, t) /\ w = [tr EXCEPT ![a] = t] OBVIOUS
  <1>2. p \in Seq(Int) /\ w \in [Attempt -> Int] BY <1>1, AppendProperties
  <1>3. PICK h : Ledger(s, p, h, w, n) BY <1>1, AppendLedger
  <1>4. CASE Len(p) > Threshold
    <2>1. \E g : Ledger(s, Tail(p), g, w, n) BY <1>2, <1>3, <1>4, TailLedger
    <2> QED BY <1>1, <1>4, <2>1 DEF Trimmed
  <1>5. CASE ~(Len(p) > Threshold) BY <1>1, <1>3, <1>5 DEF Trimmed
  <1> QED BY <1>4, <1>5

\* It leaves the ledgers of the others alone.
LEMMA OtherLedger ==
  ASSUME NEW s, NEW q, NEW f, NEW tr \in [Attempt -> Int], NEW n, NEW a \in Attempt, SourceOf[a] # s,
         NEW t, Ledger(s, q, f, tr, n)
  PROVE  Ledger(s, q, f, [tr EXCEPT ![a] = t], n)
  <1>1. PICK w : w = [tr EXCEPT ![a] = t] OBVIOUS
  <1>2. \A b \in Attempt : b # a => w[b] = tr[b] BY <1>1
  <1>3. \A i \in 1..Len(q) : f[i] \in Attempt BY DEF Ledger, Entries, Injection
  <1>4. Entries(s, q, f, w) BY <1>2, <1>3 DEF Ledger, Entries
  <1>5. ASSUME NEW b \in Late(s, w, n, Window - MaxSkew) PROVE Remembered(q, f, w, b)
    <2>1. b \in Late(s, tr, n, Window - MaxSkew) /\ w[b] = tr[b] BY <1>2, <1>5 DEF Late
    <2> QED BY <2>1 DEF Ledger, Remembered
  <1>6. Ledger(s, q, f, w, n) BY <1>4, <1>5 DEF Ledger
  <1> QED BY <1>1, <1>6

\* Time passes.
LEMMA OlderLedger ==
  ASSUME NEW s, NEW q \in Seq(Int), NEW f, NEW tr \in [Attempt -> Int], NEW n \in Int, Ledger(s, q, f, tr, n)
  PROVE  Ledger(s, q, f, tr, n + 1)
  <1>1. InOrder(q, n + 1)
    <2>1. \A i \in 1..Len(q) : q[i] \in Int OBVIOUS
    <2> QED BY <2>1 DEF Ledger, InOrder
  <1>2. Late(s, tr, n + 1, Window - MaxSkew) \subseteq Late(s, tr, n, Window - MaxSkew)
    <2>1. \A a \in Attempt : tr[a] \in Int OBVIOUS
    <2> QED BY <2>1, LimiterAssumption DEF Late
  <1> QED BY <1>1, <1>2 DEF Ledger

(***************************************************************************)
(* From the ledger to the verdict.                                         *)
(***************************************************************************)

\* As many entries as the pruned queue has are of late, but for the skew.
LEMMA BlockedCounts ==
  ASSUME NEW s, NEW q \in Seq(Int), NEW f, NEW tr \in [Attempt -> Int], NEW n \in Int, Ledger(s, q, f, tr, n)
  PROVE  Len(Pruned(q, n)) <= Cardinality(Late(s, tr, n, Window + MaxSkew))
  <1>0. Len(q) \in Nat /\ Window \in Nat /\ MaxSkew \in Nat BY LenProperties, LimiterAssumption
  <1>1. PICK k : /\ Dropped(Pruned(q, n), q, k)
                 /\ k < Len(q) => ~Stale(q[k + 1], n)
    BY PrunedDrops
  <1>2. PICK p, L : p = Pruned(q, n) /\ L = Late(s, tr, n, Window + MaxSkew) OBVIOUS
  <1>3. p \in Seq(Int) /\ Dropped(p, q, k) BY <1>1, <1>2, PrunedShorter
  <1>4. Entries(s, q, f, tr) /\ InOrder(q, n) BY DEF Ledger
  <1> DEFINE h == [i \in 1..Len(p) |-> f[i + k]]
  <1>5. Entries(s, p, h, tr) BY <1>3, <1>4, DroppedEntries
  <1>6. k \in 0..Len(q) /\ Len(p) = Len(q) - k /\ Len(p) \in Nat BY <1>3, LenProperties DEF Dropped
  <1>7. ASSUME NEW i \in 1..Len(p) PROVE h[i] \in L
    <2>1. k < Len(q) /\ k + 1 \in 1..Len(q) /\ i + k \in 1..Len(q) /\ (i + k = k + 1 \/ k + 1 < i + k)
      BY <1>0, <1>6
    <2>2. n - q[k + 1] < Window /\ q[k + 1] \in Int /\ q[i + k] \in Int
      BY <1>0, <1>1, <2>1 DEF Stale
    <2>3. q[i + k] >= q[k + 1] - MaxSkew
      <3>1. CASE i + k = k + 1 BY <1>0, <2>2, <3>1
      <3>2. CASE k + 1 < i + k BY <1>4, <2>1, <3>2 DEF InOrder
      <3> QED BY <2>1, <3>1, <3>2
    <2>4. p[i] = q[i + k] BY <1>3, <1>6 DEF Dropped
    <2>5. n - p[i] < Window + MaxSkew BY <1>0, <2>2, <2>3, <2>4
    <2>6. h[i] \in Attempt /\ SourceOf[h[i]] = s /\ tr[h[i]] = p[i] /\ p[i] >= 0
      BY <1>5 DEF Entries, Injection
    <2> QED BY <1>2, <2>5, <2>6 DEF Late
  <1>8. h \in Injection(1..Len(p), L)
    <2>1. \A i, j \in 1..Len(p) : h[i] = h[j] => i = j BY <1>5 DEF Entries, Injection, IsInjective
    <2>2. h \in [1..Len(p) -> L] BY <1>7
    <2> QED BY <2>1, <2>2 DEF Injection, IsInjective
  <1>9. IsFiniteSet(L)
    <2>1. L \subseteq Attempt BY <1>2 DEF Late
    <2> QED BY <2>1, FS_Subset, LimiterAssumption
  <1> HIDE DEF h
  <1>10. Cardinality(1..Len(p)) <= Cardinality(L) BY <1>8, <1>9, FS_Injection
  <1>11. Cardinality(1..Len(p)) = Len(p)
    <2>1. PICK e : e = Len(p) OBVIOUS
    <2>2. e \in Int BY <1>6, <2>1
    <2>3. Cardinality(1..e) = IF 1 > e THEN 0 ELSE e - 1 + 1 BY <2>2, FS_Interval
    <2> QED BY <1>6, <2>1, <2>3
  <1> QED BY <1>2, <1>10, <1>11

\* A verdict that does not block, given with a clock of at most n, has seen every
\* failure that is of late at n.
LEMMA UnblockedCounts ==
  ASSUME NEW s, NEW q \in Seq(Int), NEW f, NEW tr \in [Attempt -> Int], NEW n \in Int, NEW t \in Int, t <= n,
         Ledger(s, q, f, tr, n), Len(Pruned(q, t)) < Threshold
  PROVE  Cardinality(Late(s, tr, n, Window - MaxSkew)) < Threshold
  <1>0. Len(q) \in Nat /\ Window \in Nat /\ MaxSkew \in Nat /\ Threshold \in Nat
    BY LenProperties, LimiterAssumption
  <1>1. PICK k : Dropped(Pruned(q, t), q, k) /\ \A j \in 1..k : Stale(q[j], t)
    BY PrunedDrops
  <1>2. PICK p, L : p = Pruned(q, t) /\ L = Late(s, tr, n, Window - MaxSkew) OBVIOUS
  <1>3. p \in Seq(Int) /\ Dropped(p, q, k) BY <1>1, <1>2, PrunedShorter
  <1>4. k \in 0..Len(q) /\ Len(p) = Len(q) - k /\ Len(p) \in Nat BY <1>3, LenProperties DEF Dropped
  <1>5. Entries(s, q, f, tr) BY DEF Ledger
  <1>6. ASSUME NEW a \in L PROVE \E i \in 1..Len(p) : f[i + k] = a
    <2>0. /\ tr[a] \in Int /\ n - tr[a] < Window - MaxSkew
          /\ \A i \in 1..Len(q) : q[i] \in Int
      BY <1>2, <1>6 DEF Late
    <2>1. ~(Len(q) >= Threshold /\ \A i \in 1..Len(q) : q[i] >= tr[a] - MaxSkew)
      <3> SUFFICES ASSUME Len(q) >= Threshold, \A i \in 1..Len(q) : q[i] >= tr[a] - MaxSkew PROVE FALSE
        OBVIOUS
      <3>1. \A i \in 1..Len(q) : ~Stale(q[i], t) BY <1>0, <2>0 DEF Stale
      <3>2. k = 0
        <4> SUFFICES ASSUME k # 0 PROVE FALSE OBVIOUS
        <4>1. 1 \in 1..k /\ 1 \in 1..Len(q) BY <1>0, <1>4
        <4> QED BY <1>1, <3>1, <4>1
      <3> QED BY <1>0, <1>2, <1>4, <3>2
    <2>2. PICK i \in 1..Len(q) : f[i] = a BY <1>2, <1>6, <2>1 DEF Ledger, Remembered
    <2>3. q[i] = tr[a] BY <1>5, <2>2 DEF Entries
    <2>4. ~Stale(q[i], t) BY <1>0, <2>0, <2>3 DEF Stale
    <2>5. i \notin 1..k BY <1>1, <2>4
    <2>6. i - k \in 1..Len(p) /\ (i - k) + k = i BY <1>0, <1>4, <2>2, <2>5
    <2> QED BY <2>2, <2>6
  <1> DEFINE I == {i \in 1..Len(p) : f[i + k] \in L}
             h == [i \in I |-> f[i + k]]
  <1>7. h \in Surjection(I, L)
    <2>1. h \in [I -> L] OBVIOUS
    <2>2. \A a \in L : \E i \in I : h[i] = a BY <1>6
    <2> QED BY <2>1, <2>2 DEF Surjection
  <1>8. I \subseteq 1..Len(p) OBVIOUS
  <1> HIDE DEF h, I
  <1>9. IsFiniteSet(1..Len(p)) /\ Cardinality(1..Len(p)) = Len(p)
    <2>1. PICK e : e = Len(p) OBVIOUS
    <2>2. e \in Int BY <1>4, <2>1
    <2>3. IsFiniteSet(1..e) /\ Cardinality(1..e) = IF 1 > e THEN 0 ELSE e - 1 + 1 BY <2>2, FS_Interval
    <2> QED BY <1>4, <2>1, <2>3
  <1>10. IsFiniteSet(I) /\ Cardinality(I) <= Len(p) BY <1>8, <1>9, FS_Subset
  <1>11. Cardinality(I) \in Nat BY <1>10, FS_CardinalityType
  <1>12. IsFiniteSet(L) /\ Cardinality(L) <= Cardinality(I) BY <1>7, <1>10, FS_Surjection
  <1>13. Cardinality(L) \in Nat BY <1>12, FS_CardinalityType
  <1>14. Len(p) < Threshold BY <1>2
  <1>15. Cardinality(L) < Threshold BY <1>0, <1>4, <1>10, <1>11, <1>12, <1>13, <1>14
  <1> QED BY <1>2, <1>15

(***************************************************************************)
(* The inductive invariant.                                                *)
(***************************************************************************)
CallTypes ==
  /\ now \in Nat /\ stamp \in [Attempt -> Nat]
  /\ failures \in [Source -> Seq(Int)]
  /\ pc \in [Attempt -> {"new", "judging", "refused", "admitted", "done"}]
  /\ guessed \in [Attempt -> Int] /\ tracked \in [Attempt -> Int]

\* The clock of a call is read at most MaxSkew before the lock is taken.
OnTime ==
  \A a \in Attempt : stamp[a] <= now /\ (pc[a] \in {"judging", "refused"} => now - stamp[a] <= MaxSkew)

\* An attempt is judged, and only then recorded.
Sequenced ==
  \A a \in Attempt :
    /\ -1 <= tracked[a] /\ tracked[a] <= now
    /\ pc[a] # "done" => tracked[a] = -1
    /\ guessed[a] >= 0 => pc[a] \in {"refused", "done"}
    /\ pc[a] = "refused" => guessed[a] <= stamp[a]
    /\ tracked[a] # -1 => guessed[a] <= tracked[a]

Crowded == Cardinality(Underway) <= MaxConcurrent

Ledgers == \A s \in Source : \E f : Ledger(s, failures[s], f, tracked, now)

VInv == CallTypes /\ OnTime /\ Sequenced /\ Crowded /\ Ledgers /\ GuessesBounded

LEMMA AttemptSet ==
  ASSUME NEW S \in SUBSET Attempt
  PROVE  /\ IsFiniteSet(S) /\ Cardinality(S) \in Nat
         /\ \A T \in SUBSET S : Cardinality(T) <= Cardinality(S)
  <1>1. IsFiniteSet(S) BY FS_Subset, LimiterAssumption
  <1> QED BY <1>1, FS_Subset, FS_CardinalityType

LEMMA Ceilings ==
  /\ Threshold \in Nat \ {0} /\ Window \in Nat /\ MaxConcurrent \in Nat /\ MaxSkew \in Nat
  /\ \A a \in Attempt : SourceOf[a] \in Source
  BY LimiterAssumption

LEMMA VInvInit == LimiterInit => VInv
  <1> SUFFICES ASSUME LimiterInit PROVE VInv OBVIOUS
  <1>1. CallTypes BY DEF LimiterInit, CallTypes
  <1>2. OnTime BY Ceilings DEF LimiterInit, OnTime
  <1>3. Sequenced BY DEF LimiterInit, Sequenced
  <1>4. Crowded
    <2>1. Underway = {} BY DEF LimiterInit, Underway
    <2> QED BY <2>1, FS_EmptySet, Ceilings DEF Crowded
  <1>5. Ledgers
    <2> SUFFICES ASSUME NEW s \in Source PROVE \E f : Ledger(s, failures[s], f, tracked, now)
      BY DEF Ledgers
    <2>1. failures[s] = <<>> /\ Len(<<>>) = 0 /\ 1..0 = {} BY DEF LimiterInit
    <2>2. Late(s, tracked, now, Window - MaxSkew) = {} BY DEF LimiterInit, Late
    <2>3. PICK f : f = [i \in 1..0 |-> i] OBVIOUS
    <2>4. f \in Injection(1..0, Attempt) BY <2>1, <2>3 DEF Injection, IsInjective
    <2>5. Entries(s, <<>>, f, tracked) BY <2>1, <2>4 DEF Entries
    <2>6. InOrder(<<>>, now) BY <2>1 DEF InOrder
    <2> QED BY <2>1, <2>2, <2>5, <2>6 DEF Ledger
  <1>6. GuessesBounded
    <2> SUFFICES ASSUME NEW s \in Source PROVE Cardinality(Guesses(s)) <= Threshold - 1 + MaxConcurrent
      BY DEF GuessesBounded
    <2>1. Guesses(s) = {} BY DEF LimiterInit, Guesses
    <2> QED BY <2>1, FS_EmptySet, Ceilings
  <1> QED BY <1>1, <1>2, <1>3, <1>4, <1>5, <1>6 DEF VInv

\* Attempts that end make room.
LEMMA CrowdShrinks ==
  ASSUME Crowded, Underway' \subseteq Underway
  PROVE  Crowded'
  <1>1. Underway \in SUBSET Attempt BY DEF Underway
  <1>2. /\ Cardinality(Underway') <= Cardinality(Underway) /\ Cardinality(Underway) \in Nat
    BY <1>1, AttemptSet
  <1>3. Underway' \in SUBSET Attempt BY <1>1
  <1>4. Cardinality(Underway') \in Nat BY <1>3, AttemptSet
  <1> QED BY <1>2, <1>4, Ceilings DEF Crowded

\* No new guess: the old ones grow older, and what was left out stays left out.
LEMMA NoNewGuess ==
  ASSUME GuessesBounded,
         \A s \in Source : Guesses(s)' \subseteq Guesses(s) /\ LeftOut(s) \subseteq LeftOut(s)'
  PROVE  GuessesBounded'
  <1> SUFFICES ASSUME NEW s \in Source, LeftOut(s)' = {}
               PROVE  Cardinality(Guesses(s)') <= Threshold - 1 + MaxConcurrent
    BY DEF GuessesBounded
  <1>1. LeftOut(s) = {} OBVIOUS
  <1>2. Cardinality(Guesses(s)) <= Threshold - 1 + MaxConcurrent BY <1>1 DEF GuessesBounded
  <1>3. Guesses(s) \in SUBSET Attempt BY DEF Guesses
  <1>4. Cardinality(Guesses(s)') <= Cardinality(Guesses(s)) /\ Cardinality(Guesses(s)) \in Nat
    BY <1>3, AttemptSet
  <1>5. Guesses(s)' \in SUBSET Attempt BY DEF Guesses
  <1>6. Cardinality(Guesses(s)') \in Nat BY <1>5, AttemptSet
  <1> QED BY <1>2, <1>4, <1>6, Ceilings

LEMMA ArriveStep ==
  ASSUME VInv, NEW a \in Attempt, Arrive(a) \/ Malformed(a)
  PROVE  VInv'
  <1>0. CallTypes /\ OnTime /\ Sequenced /\ Crowded /\ Ledgers /\ GuessesBounded BY DEF VInv
  <1>1. /\ pc[a] = "new" /\ Cardinality(Underway) < MaxConcurrent
        /\ stamp' = [stamp EXCEPT ![a] = now] /\ UNCHANGED <<now, failures, guessed, tracked>>
        /\ pc' = [pc EXCEPT ![a] = "judging"] \/ pc' = [pc EXCEPT ![a] = "refused"]
    BY DEF Arrive, Malformed
  <1>2. /\ stamp'[a] = now /\ pc'[a] \in {"judging", "refused"}
        /\ \A b \in Attempt \ {a} : pc'[b] = pc[b] /\ stamp'[b] = stamp[b]
    BY <1>0, <1>1 DEF CallTypes
  <1>3. CallTypes' BY <1>0, <1>1 DEF CallTypes
  <1>4. OnTime' BY <1>0, <1>1, <1>2, Ceilings DEF OnTime, CallTypes
  <1>5. Sequenced' BY <1>0, <1>1, <1>2 DEF Sequenced, CallTypes
  <1>6. Crowded'
    <2>1. Underway' = Underway \cup {a} /\ a \notin Underway BY <1>1, <1>2 DEF Underway
    <2>2. Underway \in SUBSET Attempt BY DEF Underway
    <2>3. IsFiniteSet(Underway) /\ Cardinality(Underway) \in Nat BY <2>2, AttemptSet
    <2>4. Cardinality(Underway') = Cardinality(Underway) + 1 BY <2>1, <2>3, FS_AddElement
    <2> QED BY <1>1, <2>3, <2>4, Ceilings DEF Crowded
  <1>7. Ledgers' BY <1>0, <1>1 DEF Ledgers
  <1>8. GuessesBounded'
    <2>1. \A s \in Source : Guesses(s)' = Guesses(s) /\ LeftOut(s) \subseteq LeftOut(s)'
      BY <1>1, <1>2 DEF Guesses, LeftOut
    <2> QED BY <1>0, <2>1, NoNewGuess
  <1> QED BY <1>3, <1>4, <1>5, <1>6, <1>7, <1>8 DEF VInv

LEMMA TickStep ==
  ASSUME VInv, Tick
  PROVE  VInv'
  <1>0. CallTypes /\ OnTime /\ Sequenced /\ Crowded /\ Ledgers /\ GuessesBounded BY DEF VInv
  <1>1. now' = now + 1 /\ UNCHANGED <<failures, pc, stamp, guessed, tracked>> BY DEF Tick
  <1>2. CallTypes' BY <1>0, <1>1 DEF CallTypes
  <1>3. OnTime'
    <2>1. ASSUME NEW a \in Attempt, pc[a] \in {"judging", "refused"} PROVE now - stamp[a] < MaxSkew
      BY <2>1 DEF Tick, Underway
    <2> QED BY <1>0, <1>1, <2>1, Ceilings DEF OnTime, CallTypes
  <1>4. Sequenced' BY <1>0, <1>1 DEF Sequenced, CallTypes
  <1>5. Crowded'
    <2>1. Underway' \subseteq Underway BY <1>1 DEF Underway
    <2> QED BY <1>0, <2>1, CrowdShrinks
  <1>6. Ledgers'
    <2> SUFFICES ASSUME NEW s \in Source PROVE \E f : Ledger(s, failures[s], f, tracked, now + 1)
      BY <1>1 DEF Ledgers
    <2>1. PICK f : Ledger(s, failures[s], f, tracked, now) BY <1>0 DEF Ledgers
    <2>2. failures[s] \in Seq(Int) /\ tracked \in [Attempt -> Int] /\ now \in Int BY <1>0 DEF CallTypes
    <2> QED BY <2>1, <2>2, OlderLedger
  <1>7. GuessesBounded'
    <2>1. \A s \in Source : Guesses(s)' \subseteq Guesses(s) /\ LeftOut(s) \subseteq LeftOut(s)'
      BY <1>0, <1>1, Ceilings DEF Guesses, LeftOut, CallTypes
    <2> QED BY <1>0, <2>1, NoNewGuess
  <1> QED BY <1>2, <1>3, <1>4, <1>5, <1>6, <1>7 DEF VInv

\* What prune leaves of the table.
LEMMA PrunedLedgers ==
  ASSUME CallTypes, Ledgers, NEW t \in Int, t <= now
  PROVE  /\ Prune(t) \in [Source -> Seq(Int)]
         /\ \A s \in Source : \E f : Ledger(s, Prune(t)[s], f, tracked, now)
  <1>1. \A s \in Source : failures[s] \in Seq(Int) BY DEF CallTypes
  <1>2. \A s \in Source : Prune(t)[s] = Pruned(failures[s], t) /\ Pruned(failures[s], t) \in Seq(Int)
    BY <1>1, PrunedShorter DEF Prune
  <1>3. Prune(t) \in [Source -> Seq(Int)] BY <1>2 DEF Prune
  <1>4. ASSUME NEW s \in Source PROVE \E f : Ledger(s, Pruned(failures[s], t), f, tracked, now)
    <2>1. PICK f : Ledger(s, failures[s], f, tracked, now) BY DEF Ledgers
    <2>2. tracked \in [Attempt -> Int] /\ now \in Int BY DEF CallTypes
    <2> QED BY <1>1, <2>1, <2>2, PrunedLedger
  <1> QED BY <1>2, <1>3, <1>4

\* is_blocked lets a wrong token through only while fewer than Threshold failures
\* are of late; every other guess of late is still under way.
LEMMA JudgeGuess ==
  ASSUME VInv, NEW a \in Attempt, Judge(a)
  PROVE  GuessesBounded'
  <1> SUFFICES ASSUME NEW s \in Source, LeftOut(s)' = {}
               PROVE  Cardinality(Guesses(s)') <= Threshold - 1 + MaxConcurrent
    BY DEF GuessesBounded
  <1>0. CallTypes /\ OnTime /\ Sequenced /\ Crowded /\ Ledgers /\ GuessesBounded BY DEF VInv
  <1>t. /\ now \in Nat /\ stamp[a] \in Nat /\ stamp[a] <= now /\ failures[s] \in Seq(Int)
        /\ tracked \in [Attempt -> Int]
    BY <1>0 DEF CallTypes, OnTime
  <1> DEFINE blocked == Blocked(failures'[SourceOf[a]])
  <1>1. /\ pc[a] = "judging" /\ failures' = Prune(stamp[a]) /\ UNCHANGED <<now, tracked>>
        /\ pc' = [pc EXCEPT ![a] = IF a \in GoodToken /\ ~blocked THEN "admitted" ELSE "refused"]
        /\ guessed' = [guessed EXCEPT ![a] = IF a \notin GoodToken /\ ~blocked THEN stamp[a] ELSE -1]
    BY DEF Judge
  <1>2. /\ pc'[a] = (IF a \in GoodToken /\ ~blocked THEN "admitted" ELSE "refused")
        /\ guessed'[a] = (IF a \notin GoodToken /\ ~blocked THEN stamp[a] ELSE -1)
        /\ \A b \in Attempt \ {a} : pc'[b] = pc[b] /\ guessed'[b] = guessed[b]
    BY <1>0, <1>1 DEF CallTypes
  <1>3. LeftOut(s) = {} BY <1>1, <1>2 DEF LeftOut
  <1>4. CASE SourceOf[a] # s \/ guessed'[a] = -1
    <2>1. Guesses(s)' \subseteq Guesses(s) BY <1>1, <1>2, <1>4 DEF Guesses
    <2>2. Guesses(s) \in SUBSET Attempt BY DEF Guesses
    <2>3. Cardinality(Guesses(s)') <= Cardinality(Guesses(s)) /\ Cardinality(Guesses(s)) \in Nat
      BY <2>1, <2>2, AttemptSet
    <2>4. Guesses(s)' \in SUBSET Attempt BY DEF Guesses
    <2>5. Cardinality(Guesses(s)') \in Nat BY <2>4, AttemptSet
    <2>6. Cardinality(Guesses(s)) <= Threshold - 1 + MaxConcurrent BY <1>0, <1>3 DEF GuessesBounded
    <2> QED BY <2>3, <2>5, <2>6, Ceilings
  <1>5. CASE SourceOf[a] = s /\ guessed'[a] # -1
    <2>1. pc'[a] = "refused" /\ ~blocked BY <1>2, <1>5
    <2>2. failures'[s] = Pruned(failures[s], stamp[a]) BY <1>1 DEF Prune
    <2>3. Len(Pruned(failures[s], stamp[a])) < Threshold
      <3>1. Pruned(failures[s], stamp[a]) \in Seq(Int) BY <1>t, PrunedShorter
      <3>2. Len(Pruned(failures[s], stamp[a])) \in Nat BY <3>1, LenProperties
      <3>3. ~(Len(Pruned(failures[s], stamp[a])) >= Threshold) BY <1>5, <2>1, <2>2 DEF Blocked
      <3> QED BY <3>2, <3>3, Ceilings
    <2> DEFINE L == Late(s, tracked, now, Window - MaxSkew)
    <2>4. Cardinality(L) < Threshold
      <3>1. PICK f : Ledger(s, failures[s], f, tracked, now) BY <1>0 DEF Ledgers
      <3> QED BY <1>t, <2>3, <3>1, UnblockedCounts
    <2>5. L \in SUBSET Attempt BY DEF Late
    <2>6. Guesses(s)' \subseteq L \cup Underway'
      <3> SUFFICES ASSUME NEW b \in Guesses(s)', b \notin Underway' PROVE b \in L OBVIOUS
      <3>1. b \in Attempt /\ SourceOf[b] = s /\ guessed'[b] >= 0 /\ now - guessed'[b] < Window - MaxSkew
        BY <1>1 DEF Guesses
      <3>2. b # a BY <2>1 DEF Underway
      <3>3. guessed[b] = guessed'[b] /\ pc'[b] = pc[b] BY <1>2, <3>1, <3>2
      <3>4. pc[b] = "done"
        <4>1. pc[b] \in {"refused", "done"} BY <1>0, <3>1, <3>3 DEF Sequenced
        <4> QED BY <3>1, <3>3, <4>1 DEF Underway
      <3>5. tracked[b] # -1 BY <1>3, <3>1, <3>4 DEF LeftOut
      <3>6. guessed[b] <= tracked[b] /\ tracked[b] \in Int /\ guessed[b] \in Int
        BY <1>0, <3>1, <3>5 DEF Sequenced, CallTypes
      <3>7. tracked[b] >= 0 /\ now - tracked[b] < Window - MaxSkew BY <1>t, <3>1, <3>3, <3>6, Ceilings
      <3> QED BY <3>1, <3>7 DEF Late
    <2>7. Underway' \subseteq Underway BY <1>1, <1>2 DEF Underway
    <2>8. Crowded' BY <1>0, <2>7, CrowdShrinks
    <2>9. Underway' \in SUBSET Attempt BY DEF Underway
    <2> HIDE DEF L
    <2>10. /\ IsFiniteSet(L) /\ IsFiniteSet(Underway')
           /\ Cardinality(L) \in Nat /\ Cardinality(Underway') \in Nat
      BY <2>5, <2>9, AttemptSet
    <2>11. Cardinality(L \cup Underway') = Cardinality(L) + Cardinality(Underway') - Cardinality(L \cap Underway')
      BY <2>10, FS_Union
    <2>12. L \cap Underway' \in SUBSET Attempt /\ L \cup Underway' \in SUBSET Attempt BY <2>5, <2>9
    <2>13. Cardinality(L \cap Underway') \in Nat /\ Cardinality(L \cup Underway') \in Nat BY <2>12, AttemptSet
    <2>14. Cardinality(Guesses(s)') <= Cardinality(L \cup Underway') BY <2>6, <2>12, AttemptSet
    <2>15. Guesses(s)' \in SUBSET Attempt BY <2>6, <2>12
    <2>16. Cardinality(Guesses(s)') \in Nat BY <2>15, AttemptSet
    <2> QED BY <2>4, <2>8, <2>10, <2>11, <2>13, <2>14, <2>16, Ceilings DEF Crowded
  <1> QED BY <1>4, <1>5

LEMMA JudgeStep ==
  ASSUME VInv, NEW a \in Attempt, Judge(a)
  PROVE  VInv'
  <1>0. CallTypes /\ OnTime /\ Sequenced /\ Crowded /\ Ledgers BY DEF VInv
  <1>1. /\ pc[a] = "judging" /\ failures' = Prune(stamp[a]) /\ stamp' = [stamp EXCEPT ![a] = now]
        /\ UNCHANGED <<now, tracked>>
    BY DEF Judge
  <1>t. now \in Nat /\ stamp[a] \in Nat /\ stamp[a] <= now BY <1>0 DEF CallTypes, OnTime
  <1>2. PICK verdict \in {"admitted", "refused"} : pc' = [pc EXCEPT ![a] = verdict] BY DEF Judge
  <1>3. PICK g \in {stamp[a], -1} :
          guessed' = [guessed EXCEPT ![a] = g] /\ (g # -1 => verdict = "refused")
    <2>1. pc'[a] = verdict BY <1>0, <1>2 DEF CallTypes
    <2> DEFINE blocked == Blocked(failures'[SourceOf[a]])
    <2>2. pc'[a] = IF a \in GoodToken /\ ~blocked THEN "admitted" ELSE "refused"
      BY <1>0 DEF Judge, CallTypes
    <2>3. guessed' = [guessed EXCEPT ![a] = IF a \notin GoodToken /\ ~blocked THEN stamp[a] ELSE -1]
      BY DEF Judge
    <2> QED BY <2>1, <2>2, <2>3
  <1>4. /\ pc'[a] = verdict /\ stamp'[a] = now /\ guessed'[a] = g
        /\ \A b \in Attempt \ {a} : pc'[b] = pc[b] /\ stamp'[b] = stamp[b] /\ guessed'[b] = guessed[b]
    BY <1>0, <1>1, <1>2, <1>3 DEF CallTypes
  <1>5. /\ failures' \in [Source -> Seq(Int)]
        /\ \A s \in Source : \E f : Ledger(s, failures'[s], f, tracked, now)
    BY <1>0, <1>1, <1>t, PrunedLedgers
  <1>6. CallTypes'
    <2>1. guessed' \in [Attempt -> Int] BY <1>0, <1>3, <1>t DEF CallTypes
    <2>2. pc' \in [Attempt -> {"new", "judging", "refused", "admitted", "done"}] BY <1>0, <1>2 DEF CallTypes
    <2>3. stamp' \in [Attempt -> Nat] BY <1>0, <1>1 DEF CallTypes
    <2> QED BY <1>0, <1>1, <1>5, <2>1, <2>2, <2>3 DEF CallTypes
  <1>7. OnTime' BY <1>0, <1>1, <1>4, <1>t, Ceilings DEF OnTime, CallTypes
  <1>8. Sequenced' BY <1>0, <1>1, <1>2, <1>3, <1>4, <1>t DEF Sequenced, CallTypes
  <1>9. Crowded'
    <2>1. Underway' \subseteq Underway BY <1>1, <1>4 DEF Underway
    <2> QED BY <1>0, <2>1, CrowdShrinks
  <1>10. Ledgers' BY <1>1, <1>5 DEF Ledgers
  <1> QED BY <1>6, <1>7, <1>8, <1>9, <1>10, JudgeGuess DEF VInv

LEMMA RecordStep ==
  ASSUME VInv, NEW a \in Attempt, Record(a)
  PROVE  VInv'
  <1> DEFINE s == SourceOf[a]
             t == stamp[a]
             table == Prune(t)
  <1>0. CallTypes /\ OnTime /\ Sequenced /\ Crowded /\ Ledgers /\ GuessesBounded BY DEF VInv
  <1>1. pc[a] = "refused" /\ pc' = [pc EXCEPT ![a] = "done"] /\ UNCHANGED <<now, stamp, guessed>>
    BY DEF Record
  <1>2. \/ failures' = table /\ UNCHANGED tracked
        \/ /\ failures' = [table EXCEPT ![s] = Trimmed(Append(@, t))]
           /\ tracked' = [tracked EXCEPT ![a] = t]
    BY DEF Record
  <1>3. /\ now \in Nat /\ t \in Nat /\ t <= now /\ now - t <= MaxSkew /\ s \in Source
        /\ tracked \in [Attempt -> Int] /\ tracked[a] = -1 /\ \A b \in Attempt : tracked[b] <= now
    BY <1>0, <1>1, Ceilings DEF CallTypes, OnTime, Sequenced
  <1>4. /\ table \in [Source -> Seq(Int)]
        /\ \A r \in Source : \E f : Ledger(r, table[r], f, tracked, now)
    BY <1>0, <1>3, PrunedLedgers
  <1>5. pc'[a] = "done" /\ \A b \in Attempt \ {a} : pc'[b] = pc[b] BY <1>0, <1>1 DEF CallTypes
  <1>6. guessed[a] <= t BY <1>0, <1>1 DEF Sequenced
  <1> HIDE DEF table, s, t
  <1>7. /\ tracked' \in [Attempt -> Int] /\ \A b \in Attempt \ {a} : tracked'[b] = tracked[b]
        /\ tracked'[a] \in {-1, t}
    BY <1>2, <1>3
  <1>8. /\ failures' \in [Source -> Seq(Int)]
        /\ \A r \in Source : \E f : Ledger(r, failures'[r], f, tracked', now)
    <2>1. CASE failures' = table /\ UNCHANGED tracked BY <1>4, <2>1
    <2>2. CASE /\ failures' = [table EXCEPT ![s] = Trimmed(Append(@, t))]
               /\ tracked' = [tracked EXCEPT ![a] = t]
      <3>1. table[s] \in Seq(Int) BY <1>3, <1>4
      <3>2. Append(table[s], t) \in Seq(Int) /\ Append(table[s], t) # <<>> BY <1>3, <3>1, AppendProperties
      <3>3. Trimmed(Append(table[s], t)) \in Seq(Int) BY <3>2, HeadTailProperties DEF Trimmed
      <3>4. failures'[s] = Trimmed(Append(table[s], t)) /\ \A r \in Source \ {s} : failures'[r] = table[r]
        BY <1>3, <1>4, <2>2
      <3>5. failures' \in [Source -> Seq(Int)] BY <1>4, <2>2, <3>3
      <3>6. \E f : Ledger(s, failures'[s], f, tracked', now)
        <4>1. PICK f : Ledger(s, table[s], f, tracked, now) BY <1>3, <1>4
        <4>2. SourceOf[a] = s /\ now \in Int BY <1>3 DEF s
        <4>3. PICK q, tr, n, x, y : q = table[s] /\ tr = tracked /\ n = now /\ x = s /\ y = t OBVIOUS
        <4>4. /\ q \in Seq(Int) /\ tr \in [Attempt -> Int] /\ n \in Int /\ SourceOf[a] = x /\ tr[a] = -1
              /\ (\A b \in Attempt : tr[b] <= n) /\ y \in Nat /\ y <= n /\ n - y <= MaxSkew
              /\ Ledger(x, q, f, tr, n)
          BY <1>3, <3>1, <4>1, <4>2, <4>3
        <4>5. \E h : Ledger(x, Trimmed(Append(q, y)), h, [tr EXCEPT ![a] = y], n) BY ONLY <4>4, a \in Attempt, RecordedLedger
        <4> QED BY <2>2, <3>4, <4>3, <4>5
      <3>7. ASSUME NEW r \in Source \ {s} PROVE \E f : Ledger(r, failures'[r], f, tracked', now)
        <4>1. PICK f : Ledger(r, table[r], f, tracked, now) BY <1>4
        <4>2. SourceOf[a] # r BY DEF s
        <4>3. PICK q, tr, n, y : q = table[r] /\ tr = tracked /\ n = now /\ y = t OBVIOUS
        <4>4. tr \in [Attempt -> Int] /\ SourceOf[a] # r /\ Ledger(r, q, f, tr, n) BY <1>3, <4>1, <4>2, <4>3
        <4>5. Ledger(r, q, f, [tr EXCEPT ![a] = y], n) BY ONLY <4>4, a \in Attempt, OtherLedger
        <4> QED BY <2>2, <3>4, <4>3, <4>5
      <3> QED BY <3>5, <3>6, <3>7
    <2> QED BY <1>2, <2>1, <2>2
  <1>9. CallTypes'
    <2>1. pc' \in [Attempt -> {"new", "judging", "refused", "admitted", "done"}] BY <1>0, <1>1 DEF CallTypes
    <2> QED BY <1>0, <1>1, <1>7, <1>8, <2>1 DEF CallTypes
  <1>10. OnTime' BY <1>0, <1>1, <1>5 DEF OnTime
  <1>11. Sequenced' BY <1>0, <1>1, <1>3, <1>5, <1>6, <1>7 DEF Sequenced, CallTypes
  <1>12. Crowded'
    <2>1. Underway' \subseteq Underway BY <1>1, <1>5 DEF Underway
    <2> QED BY <1>0, <2>1, CrowdShrinks
  <1>13. Ledgers' BY <1>1, <1>8 DEF Ledgers
  <1>14. GuessesBounded'
    <2>1. \A r \in Source : Guesses(r)' = Guesses(r) BY <1>1 DEF Guesses
    <2>2. \A r \in Source : LeftOut(r) \subseteq LeftOut(r)' BY <1>1, <1>5, <1>7 DEF LeftOut
    <2> QED BY <1>0, <2>1, <2>2, NoNewGuess
  <1> QED BY <1>9, <1>10, <1>11, <1>12, <1>13, <1>14 DEF VInv

LEMMA VInvNext == VInv /\ [LimiterNext]_limiterVars => VInv'
  <1> SUFFICES ASSUME VInv, [LimiterNext]_limiterVars PROVE VInv' OBVIOUS
  <1>1. CASE Tick BY <1>1, TickStep
  <1>2. ASSUME NEW a \in Attempt, Arrive(a) \/ Malformed(a) PROVE VInv' BY <1>2, ArriveStep
  <1>3. ASSUME NEW a \in Attempt, Judge(a) PROVE VInv' BY <1>3, JudgeStep
  <1>4. ASSUME NEW a \in Attempt, Record(a) PROVE VInv' BY <1>4, RecordStep
  <1>5. CASE UNCHANGED limiterVars
    BY <1>5 DEF limiterVars, VInv, CallTypes, OnTime, Sequenced, Crowded, Underway, Ledgers, GuessesBounded, Guesses,
                LeftOut
  <1> QED BY <1>1, <1>2, <1>3, <1>4, <1>5 DEF LimiterNext

LEMMA VerdictInvariance == LimiterSpec => []VInv
  BY VInvInit, VInvNext, PTL DEF LimiterSpec

\* server/auth.rs, is_blocked and record_failure: although every thread reads the
\* clock before it takes the lock, a source is blocked exactly if Threshold of its
\* tracked failures lie within the window, give or take the skew.
THEOREM BlocksAsConfigured == LimiterSpec => []BlocksExactly
  <1>1. VInv => BlocksExactly
    <2> SUFFICES ASSUME VInv, NEW s \in Source
                 PROVE  /\ WouldBlock(s) => Cardinality(Younger(s, Window + MaxSkew)) >= Threshold
                        /\ Cardinality(Younger(s, Window - MaxSkew)) >= Threshold => WouldBlock(s)
      BY DEF BlocksExactly, BlockedForReason, ReasonBlocks
    <2>1. failures[s] \in Seq(Int) /\ tracked \in [Attempt -> Int] /\ now \in Int BY DEF VInv, CallTypes
    <2>2. PICK f : Ledger(s, failures[s], f, tracked, now) BY DEF VInv, Ledgers
    <2>4. Pruned(failures[s], now) \in Seq(Int) BY <2>1, PrunedShorter
    <2>5. Len(Pruned(failures[s], now)) \in Nat BY <2>4, LenProperties
    <2>6. \A age : Younger(s, age) \in SUBSET Attempt BY DEF Younger
    <2>7. /\ Cardinality(Younger(s, Window + MaxSkew)) \in Nat
          /\ Cardinality(Younger(s, Window - MaxSkew)) \in Nat
      BY <2>6, AttemptSet
    <2>8. ASSUME WouldBlock(s) PROVE Cardinality(Younger(s, Window + MaxSkew)) >= Threshold
      <3>1. Len(Pruned(failures[s], now)) >= Threshold BY <2>8 DEF WouldBlock, Blocked
      <3>2. Len(Pruned(failures[s], now)) <= Cardinality(Late(s, tracked, now, Window + MaxSkew))
        BY <2>1, <2>2, BlockedCounts
      <3>3. Late(s, tracked, now, Window + MaxSkew) = Younger(s, Window + MaxSkew) BY DEF Younger, Late
      <3>4. Len(Pruned(failures[s], now)) <= Cardinality(Younger(s, Window + MaxSkew)) BY <3>2, <3>3
      <3> QED BY <2>5, <2>7, <3>1, <3>4, Ceilings
    <2>9. ASSUME ~WouldBlock(s) PROVE ~(Cardinality(Younger(s, Window - MaxSkew)) >= Threshold)
      <3>1. Len(Pruned(failures[s], now)) < Threshold BY <2>5, <2>9, Ceilings DEF WouldBlock, Blocked
      <3>2. Cardinality(Late(s, tracked, now, Window - MaxSkew)) < Threshold
        BY <2>1, <2>2, <3>1, UnblockedCounts
      <3>3. Late(s, tracked, now, Window - MaxSkew) = Younger(s, Window - MaxSkew) BY DEF Younger, Late
      <3>4. Cardinality(Younger(s, Window - MaxSkew)) < Threshold BY <3>2, <3>3
      <3> QED BY <2>7, <3>4, Ceilings
    <2> QED BY <2>8, <2>9
  <1> QED BY <1>1, VerdictInvariance, PTL

\* server/control.rs:134 and auth.rs:123: the verdict and the record are two calls,
\* and concurrent attempts pass between them; never more than can be under way.
THEOREM GuessesLimited == LimiterSpec => []GuessesBounded
  <1>1. VInv => GuessesBounded BY DEF VInv
  <1> QED BY <1>1, VerdictInvariance, PTL

=============================================================================
