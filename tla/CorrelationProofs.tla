------------------------- MODULE CorrelationProofs -------------------------
(***************************************************************************)
(* Proofs about Correlation for every number of Sessions, listeners,       *)
(* connections and DataHellos, and for every value of the limits.          *)
(*                                                                         *)
(* The counters are natural numbers only because they are exact, and they  *)
(* are exact only for variables of the right type: Types leaves them       *)
(* integers, the counting invariants are proved from it, and TypeOK        *)
(* follows at the end.                                                     *)
(***************************************************************************)
EXTENDS Correlation, FiniteSetTheorems, TLAPS

Types ==
  /\ control \in [Session -> ControlStates]
  /\ listener \in [Listener -> ListenerStates]
  /\ services \subseteq Listener
  /\ binds \subseteq Listener
  /\ servicesCount \in Int
  /\ cancelled \subseteq Listener
  /\ doomed \subseteq Listener \cup Conn
  /\ opens \in [Session -> Seq(Conn)]
  /\ offered \subseteq Conn
  /\ owner \in [Conn -> Listener \cup {NoListener}]
  /\ phase \in [Conn -> Phases]
  /\ pending \subseteq Conn
  /\ pendingCount \in Int
  /\ expired \subseteq Conn
  /\ permits \in [Session -> Int]
  /\ active \in Int
  /\ delivered \in [Conn -> Hello \cup {NoHello}]
  /\ matched \subseteq Conn
  /\ message \in [Hello -> Messages \cup {NoMessage}]
  /\ handler \in [Hello -> HandlerStates]

\* A connection has an owner exactly once it has been accepted.
Owned ==
  \A c \in Conn : owner[c] = NoListener <=> phase[c] = "idle"

\* An entry exists only for a connection that was given one.
EntryIssued ==
  \A c \in pending : phase[c] \notin {"idle", "admitted", "refused"}

\* A handler that got past the Session look-up has a message, and its Principal
\* was compared.
Presented ==
  \A h \in Hello : handler[h] \in {"upgraded", "taken", "accepted"} =>
    message[h] \in Messages /\ PrincipalMatches(message[h])

(***************************************************************************)
(* Counting.                                                               *)
(***************************************************************************)

\* Every set of connections or of listeners is finite.
LEMMA FiniteParts ==
  /\ \A S \in SUBSET Conn : IsFiniteSet(S) /\ Cardinality(S) \in Nat
  /\ \A S \in SUBSET Listener : IsFiniteSet(S) /\ Cardinality(S) \in Nat
  BY FS_Subset, FS_CardinalityType, SetAssumption

\* What RemovePending does to the table is what it does to the counter.
LEMMA RemoveExact ==
  ASSUME pending \subseteq Conn, NEW R, RemovePending(R)
  PROVE  /\ pending' \subseteq pending
         /\ pendingCount \in Int => pendingCount' \in Int
         /\ PendingCountExact => PendingCountExact'
  <1>1. IsFiniteSet(pending) /\ pending \cap R \in SUBSET Conn
    BY FiniteParts
  <1>2. Cardinality(pending \ R) = Cardinality(pending) - Cardinality(pending \cap R)
    BY <1>1, FS_Difference
  <1>3. Cardinality(pending \cap R) \in Nat
    BY <1>1, FiniteParts
  <1> QED BY <1>2, <1>3 DEF RemovePending, PendingCountExact

(***************************************************************************)
(* Types.                                                                  *)
(***************************************************************************)

\* A step of a control task keeps the types.
LEMMA TypesControl ==
  ASSUME Types, NEW s \in Session, ControlStep(s)
  PROVE  Types'
  <1> USE DEF Types, ControlStates, tableVars, taskVars, entryVars, slotVars,
              dataVars, helloVars
  <1>1. CASE Establish(s) BY <1>1 DEF Establish
  <1>2. CASE WriteOpen(s) 
    <2>1. Tail(opens[s]) \in Seq(Conn) /\ Head(opens[s]) \in Conn
      BY <1>2 DEF WriteOpen
    <2> QED BY <1>2, <2>1 DEF WriteOpen
  <1>3. CASE \E c \in Conn : OpenReject(s, c) BY <1>3, RemoveExact DEF OpenReject
  <1>4. CASE PeerDrain(s) BY <1>4 DEF PeerDrain
  <1>5. CASE ForceCancel(s) BY <1>5 DEF ForceCancel, ListenersOf
  <1>6. CASE StopChildren(s) BY <1>6 DEF StopChildren, ListenersOf
  <1>7. CASE SweepSession(s) BY <1>7, RemoveExact DEF SweepSession
  <1>8. CASE ReturnFromControl(s) \/ AbandonControl(s)
    <2>1. Cardinality(binds \cap ListenersOf(s)) \in Nat
      BY FiniteParts
    <2>2. ListenersOf(s) \subseteq Listener
      BY DEF ListenersOf
    <2>3. CloseSession(s) BY <1>8 DEF ReturnFromControl, AbandonControl
    <2>4. opens' \in [Session -> Seq(Conn)] BY <2>3 DEF CloseSession
    <2>5. servicesCount' \in Int BY <2>1, <2>3 DEF CloseSession
    <2> QED BY <2>2, <2>3, <2>4, <2>5 DEF CloseSession
  <1>9. CASE DropContext(s) BY <1>9, RemoveExact DEF DropContext
  <1> QED BY <1>1, <1>2, <1>3, <1>4, <1>5, <1>6, <1>7, <1>8, <1>9 DEF ControlStep

\* A step of a listener task keeps the types.
LEMMA TypesListener ==
  ASSUME Types, NEW l \in Listener, ListenerStep(l)
  PROVE  Types'
  <1> DEFINE s == SessionOf[l]
  <1>s. s \in Session BY MapAssumption
  <1> USE DEF Types, ListenerStates, Phases, tableVars, taskVars, entryVars, slotVars,
              dataVars, helloVars
  <1>1. CASE RegisterService(l) BY <1>1 DEF RegisterService
  <1>2. CASE UnregisterService(l) BY <1>2, RemoveExact DEF UnregisterService, OtherBinds
  <1>3. CASE \E c \in Conn : Accept(l, c)
    <2>1. PICK c \in Conn : Accept(l, c) BY <1>3
    <2>2. permits' \in [Session -> Int] BY <1>s, <2>1 DEF Accept
    <2>3. phase' \in [Conn -> Phases] BY <2>1 DEF Accept
    <2> QED BY <2>1, <2>2, <2>3 DEF Accept
  <1>4. CASE \E c \in Conn : InsertPending(l, c)
    <2>1. PICK c \in Conn : InsertPending(l, c) BY <1>4
    <2>2. permits' \in [Session -> Int] BY <1>s, <2>1 DEF InsertPending
    <2>3. phase' \in [Conn -> Phases] BY <2>1 DEF InsertPending
    <2>4. pending' \subseteq Conn /\ pendingCount' \in Int BY <2>1 DEF InsertPending
    <2> QED BY <2>1, <2>2, <2>3, <2>4 DEF InsertPending
  <1>5. CASE \E c \in Conn : SendOpen(l, c)
    <2>1. PICK c \in Conn : SendOpen(l, c) BY <1>5
    <2>2. Append(opens[s], c) \in Seq(Conn) BY <1>s
    <2>3. opens' \in [Session -> Seq(Conn)] BY <1>s, <2>1, <2>2 DEF SendOpen
    <2>4. phase' \in [Conn -> Phases] BY <2>1 DEF SendOpen
    <2>5. active' \in Int BY <2>1 DEF SendOpen
    <2> QED BY <2>1, <2>3, <2>4, <2>5 DEF SendOpen
  <1>6. CASE \E c \in Conn : RollBack(l, c) BY <1>6, <1>s, RemoveExact DEF RollBack
  <1>7. CASE StopListener(l) BY <1>7 DEF StopListener, RelaySet, ConnsOf
  <1>8. CASE FinishListener(l) BY <1>8, RemoveExact DEF FinishListener
  <1>9. CASE AbortListener(l)
    <2> DEFINE stranded == {c \in ConnsOf(l) : phase[c] \in {"admitted", "unsent"}}
    <2>1. Cardinality(stranded) \in Nat
      BY FiniteParts DEF ConnsOf
    <2>2. permits' \in [Session -> Int] 
      BY <1>9, <1>s, <2>1 DEF AbortListener
    <2>3. phase' \in [Conn -> Phases] 
      BY <1>9 DEF AbortListener
    <2> QED BY <1>9, <2>2, <2>3 DEF AbortListener, RelaySet, ConnsOf
  <1> QED BY <1>1, <1>2, <1>3, <1>4, <1>5, <1>6, <1>7, <1>8, <1>9 DEF ListenerStep

\* A step of a relay task keeps the types.
LEMMA TypesRelay ==
  ASSUME Types, NEW c \in Conn, RelayStep(c), Owned
  PROVE  Types'
  <1> USE DEF Types, Phases, tableVars, taskVars, entryVars, slotVars, dataVars, helloVars
  <1>1. CASE \E some \in BOOLEAN : Wake(c, some) BY <1>1 DEF Wake
  <1>2. CASE Unlink(c) BY <1>2, RemoveExact DEF Unlink
  <1>3. CASE FinishRelay(c) \/ AbortRelay(c)
    <2>1. ReleaseGuard(c) BY <1>3 DEF FinishRelay, AbortRelay
    <2>2. phase' \in [Conn -> Phases] BY <2>1 DEF ReleaseGuard
    <2>3. active' \in Int BY <2>1 DEF ReleaseGuard
    <2> QED BY <2>1, <2>2, <2>3 DEF ReleaseGuard
  <1>4. CASE ReleasePermit(c)
    <2>1. owner[c] \in Listener BY <1>4 DEF ReleasePermit, Owned
    <2>2. SessionOf[owner[c]] \in Session BY <2>1, MapAssumption
    <2> QED BY <1>4, <2>2 DEF ReleasePermit
  <1>5. CASE Expire(c) BY <1>5 DEF Expire
  <1> QED BY <1>1, <1>2, <1>3, <1>4, <1>5 DEF RelayStep

\* A step of a DataHello handler keeps the types.
LEMMA TypesHello ==
  ASSUME Types, NEW h \in Hello, HelloStep(h), Presented
  PROVE  Types'
  <1> USE DEF Types, HandlerStates, tableVars, taskVars, entryVars, slotVars, dataVars, helloVars
  <1>1. CASE \E m \in Messages : ReceiveHello(h, m) BY <1>1 DEF ReceiveHello
  <1>2. CASE TakeEntry(h) BY <1>2, RemoveExact DEF TakeEntry
  <1>3. CASE SettleHello(h)
    <2>1. message[h].conn \in Conn BY <1>3 DEF SettleHello, Presented, Messages
    <2> QED BY <1>3, <2>1 DEF SettleHello
  <1>4. CASE AbortHello(h) BY <1>4 DEF AbortHello
  <1> QED BY <1>1, <1>2, <1>3, <1>4 DEF HelloStep

(***************************************************************************)
(* How connections move.                                                   *)
(***************************************************************************)
Before == {"idle", "admitted", "refused"}

\* What every step keeps of a connection: its owner, and that it has been given
\* an entry; entries only appear where one had not been given.
Forward ==
  \A c \in Conn :
    /\ phase[c] # "idle" => owner'[c] = owner[c] /\ phase'[c] # "idle"
    /\ phase[c] \notin Before => phase'[c] \notin Before
    /\ c \in pending' \ pending => phase[c] = "admitted" /\ phase'[c] = "inserted"
    /\ owner'[c] = NoListener <=> phase'[c] = "idle"

\* Control tasks move no connection.
LEMMA ForwardControl ==
  ASSUME Types, Owned, NEW s \in Session, ControlStep(s)
  PROVE  Forward /\ UNCHANGED <<owner, phase, helloVars, dataVars>>
  <1>1. UNCHANGED <<owner, phase, helloVars, dataVars>> /\ pending' \subseteq pending
    BY RemoveExact
    DEF Types, ControlStep, Establish, WriteOpen, OpenReject, PeerDrain, ForceCancel,
        StopChildren, SweepSession, ReturnFromControl, AbandonControl, CloseSession,
        DropContext, tableVars, taskVars, entryVars, slotVars, dataVars, helloVars
  <1> QED BY <1>1 DEF Forward, Owned

\* Listener tasks accept connections and give them entries.
LEMMA ForwardListener ==
  ASSUME Types, Owned, NEW l \in Listener, ListenerStep(l)
  PROVE  Forward /\ UNCHANGED <<helloVars, dataVars>>
  <1> USE DEF Types, Owned, tableVars, taskVars, entryVars, slotVars, dataVars, helloVars
  <1>l. l # NoListener BY SetAssumption
  <1>1. CASE RegisterService(l) BY <1>1 DEF RegisterService, Forward
  <1>2. CASE UnregisterService(l) BY <1>2, RemoveExact DEF UnregisterService, Forward
  <1>3. CASE \E c \in Conn : Accept(l, c) BY <1>3, <1>l DEF Accept, Forward, Before
  <1>4. CASE \E c \in Conn : InsertPending(l, c)
    BY <1>4 DEF InsertPending, Forward, Before
  <1>5. CASE \E c \in Conn : SendOpen(l, c) BY <1>5 DEF SendOpen, Forward, Before
  <1>6. CASE \E c \in Conn : RollBack(l, c)
    BY <1>6, RemoveExact DEF RollBack, Forward, Before
  <1>7. CASE StopListener(l) BY <1>7 DEF StopListener, Forward
  <1>8. CASE FinishListener(l) BY <1>8, RemoveExact DEF FinishListener, Forward
  <1>9. CASE AbortListener(l) BY <1>9 DEF AbortListener, Forward, Before
  <1> QED BY <1>1, <1>2, <1>3, <1>4, <1>5, <1>6, <1>7, <1>8, <1>9 DEF ListenerStep

\* Relay tasks move a connection that has its entry towards its end.
LEMMA ForwardRelay ==
  ASSUME Types, Owned, NEW c \in Conn, RelayStep(c)
  PROVE  Forward /\ UNCHANGED <<owner, helloVars, delivered>>
  <1> USE DEF Types, Owned, tableVars, taskVars, entryVars, slotVars, dataVars, helloVars,
              Forward, Before
  <1>1. CASE \E some \in BOOLEAN : Wake(c, some) BY <1>1 DEF Wake
  <1>2. CASE Unlink(c) BY <1>2, RemoveExact DEF Unlink
  <1>3. CASE FinishRelay(c) \/ AbortRelay(c)
    BY <1>3 DEF FinishRelay, AbortRelay, ReleaseGuard, RelayPhases
  <1>4. CASE ReleasePermit(c) BY <1>4 DEF ReleasePermit
  <1>5. CASE Expire(c) BY <1>5 DEF Expire
  <1> QED BY <1>1, <1>2, <1>3, <1>4, <1>5 DEF RelayStep

\* DataHello handlers move no connection.
LEMMA ForwardHello ==
  ASSUME Types, Owned, NEW h \in Hello, HelloStep(h)
  PROVE  Forward /\ UNCHANGED <<owner, phase, matched>>
  <1> USE DEF Types, Owned, tableVars, taskVars, entryVars, slotVars, dataVars, helloVars, Forward
  <1>1. CASE \E m \in Messages : ReceiveHello(h, m) BY <1>1 DEF ReceiveHello
  <1>2. CASE TakeEntry(h) BY <1>2, RemoveExact DEF TakeEntry
  <1>3. CASE SettleHello(h) BY <1>3 DEF SettleHello
  <1>4. CASE AbortHello(h) BY <1>4 DEF AbortHello
  <1> QED BY <1>1, <1>2, <1>3, <1>4 DEF HelloStep

(***************************************************************************)
(* Claims.                                                                 *)
(***************************************************************************)
Taken(h) == handler[h] \in {"taken", "accepted"}

\* An entry that was taken is gone for good, and it was the named Session's.
TakenOnce ==
  \A h \in Hello : Taken(h) =>
    /\ message[h].conn \notin pending
    /\ phase[message[h].conn] \notin Before
    /\ message[h].conn \in SessionConns(message[h].sess)

\* No two handlers have taken the same entry.
TakenApart ==
  \A g, h \in Hello : Taken(g) /\ Taken(h) /\ g # h => message[g].conn # message[h].conn

\* A stream in a oneshot came from an accepted DataHello for its Service.
DeliveredRight ==
  \A c \in Conn : delivered[c] # NoHello =>
    /\ handler[delivered[c]] = "accepted"
    /\ message[delivered[c]].conn = c
    /\ message[delivered[c]].svc = ServiceOf[owner[c]]

\* A relay task that received a stream received the delivered one.
MatchedDelivered == \A c \in matched : delivered[c] # NoHello

Claims == EntryIssued /\ Presented /\ TakenOnce /\ TakenApart /\ DeliveredRight
            /\ MatchedDelivered

\* Steps of other tasks disturb no claim.
LEMMA ClaimsOthers ==
  ASSUME Types, Types', Owned, Claims, Forward, UNCHANGED <<message, handler, delivered>>,
         MatchedDelivered'
  PROVE  Claims'
  <1> USE DEF Types, Claims
  <1>1. EntryIssued' BY DEF EntryIssued, Forward, Before
  <1>2. Presented' BY DEF Presented, PrincipalMatches
  <1>3. TakenOnce'
    <2> SUFFICES ASSUME NEW h \in Hello, Taken(h)
                 PROVE  /\ message[h].conn \notin pending'
                        /\ phase'[message[h].conn] \notin Before
                        /\ message[h].conn \in SessionConns(message[h].sess)'
      BY DEF TakenOnce, Taken
    <2>1. message[h] \in Messages BY DEF Presented, Taken
    <2>2. message[h].conn \in Conn BY <2>1 DEF Messages
    <2>3. phase[message[h].conn] \notin Before /\ message[h].conn \notin pending
      BY DEF TakenOnce
    <2>4. message[h].conn \notin pending' /\ phase'[message[h].conn] \notin Before
      BY <2>2, <2>3 DEF Forward, Before
    <2>5. owner'[message[h].conn] = owner[message[h].conn]
      BY <2>2, <2>3 DEF Forward, Before
    <2>6. message[h].conn \in SessionConns(message[h].sess)'
      BY <2>2, <2>5 DEF TakenOnce, SessionConns
    <2> QED BY <2>4, <2>6
  <1>4. TakenApart' BY DEF TakenApart, Taken
  <1>5. DeliveredRight'
    <2> SUFFICES ASSUME NEW c \in Conn, delivered[c] # NoHello
                 PROVE  /\ handler[delivered[c]] = "accepted"
                        /\ message[delivered[c]].conn = c
                        /\ message[delivered[c]].svc = ServiceOf[owner'[c]]
      BY DEF DeliveredRight
    <2>1. delivered[c] \in Hello OBVIOUS
    <2>2. handler[delivered[c]] = "accepted" /\ message[delivered[c]].conn = c
      BY DEF DeliveredRight
    <2>3. phase[c] # "idle" BY <2>1, <2>2 DEF TakenOnce, Taken, Before
    <2>4. owner'[c] = owner[c] BY <2>3 DEF Forward
    <2> QED BY <2>2, <2>4 DEF DeliveredRight
  <1> QED BY <1>1, <1>2, <1>3, <1>4, <1>5

\* Steps of DataHello handlers keep the claims: an entry is taken under the
\* lock, compared, and handed over by the handler that took it.
LEMMA ClaimsHello ==
  ASSUME Types, Types', Owned, Claims, NEW h \in Hello, HelloStep(h)
  PROVE  Claims'
  <1> USE DEF Types, Claims, tableVars, taskVars, entryVars, slotVars, dataVars, helloVars
  <1>0. Forward /\ UNCHANGED <<owner, phase, matched>> BY ForwardHello
  <1>i. EntryIssued' BY <1>0 DEF EntryIssued, Forward, Before
  <1>1. CASE \E m \in Messages : ReceiveHello(h, m)
    <2>1. PICK m \in Messages : ReceiveHello(h, m) BY <1>1
    <2>2. /\ handler[h] = "idle" /\ handler'[h] \in {"upgraded", "rejected"}
          /\ message'[h] = m
          /\ handler'[h] = "upgraded" => PrincipalMatches(m)
          /\ \A g \in Hello \ {h} : handler'[g] = handler[g] /\ message'[g] = message[g]
          /\ UNCHANGED <<pending, delivered>>
      BY <2>1 DEF ReceiveHello
    <2>3. Presented' BY <2>2 DEF Presented, PrincipalMatches
    <2>4. TakenOnce' BY <1>0, <2>2 DEF TakenOnce, Taken, SessionConns
    <2>5. TakenApart' BY <2>2 DEF TakenApart, Taken
    <2>6. DeliveredRight'
      <3>1. \A c \in Conn : delivered[c] # NoHello => delivered[c] \in Hello \ {h}
        BY <2>2 DEF DeliveredRight
      <3> QED BY <1>0, <2>2, <3>1 DEF DeliveredRight
    <2>7. MatchedDelivered' BY <1>0, <2>2 DEF MatchedDelivered
    <2> QED BY <1>i, <2>3, <2>4, <2>5, <2>6, <2>7
  <1>2. CASE TakeEntry(h) /\ handler'[h] = "taken"
    <2> DEFINE c == message[h].conn
    <2>1. /\ handler[h] = "upgraded"
          /\ c \in pending /\ c \in SessionConns(message[h].sess)
          /\ pending' = pending \ {c}
          /\ \A g \in Hello \ {h} : handler'[g] = handler[g]
          /\ UNCHANGED <<message, delivered>>
      BY <1>2 DEF TakeEntry, RemovePending
    <2>2. Presented' BY <1>2, <2>1 DEF Presented, PrincipalMatches
    <2>3. TakenOnce' BY <1>0, <2>1 DEF TakenOnce, Taken, SessionConns, EntryIssued, Before
    <2>4. TakenApart' BY <1>2, <2>1 DEF TakenApart, TakenOnce, Taken
    <2>5. DeliveredRight' BY <1>0, <2>1 DEF DeliveredRight
    <2>6. MatchedDelivered' BY <1>0, <2>1 DEF MatchedDelivered
    <2> QED BY <1>i, <2>2, <2>3, <2>4, <2>5, <2>6
  <1>3. CASE SettleHello(h) /\ handler'[h] = "accepted"
    <2> DEFINE c == message[h].conn
    <2>1. /\ handler[h] = "taken"
          /\ ValidEntry(h)
          /\ delivered' = [delivered EXCEPT ![c] = h]
          /\ \A g \in Hello \ {h} : handler'[g] = handler[g]
          /\ UNCHANGED <<message, pending>>
      BY <1>3 DEF SettleHello
    <2>2. message[h] \in Messages /\ c \in Conn BY <2>1 DEF Presented, Messages
    <2>3. Presented' BY <1>3, <2>1 DEF Presented, PrincipalMatches
    <2>4. TakenOnce' BY <1>0, <2>1 DEF TakenOnce, Taken, SessionConns
    <2>5. TakenApart'
      <3>1. \A g \in Hello : Taken(g)' => Taken(g) BY <1>3, <2>1 DEF Taken
      <3> QED BY <2>1, <3>1 DEF TakenApart
    <2>6. DeliveredRight'
      <3> SUFFICES ASSUME NEW d \in Conn, delivered'[d] # NoHello
                   PROVE  /\ handler'[delivered'[d]] = "accepted"
                          /\ message[delivered'[d]].conn = d
                          /\ message[delivered'[d]].svc = ServiceOf[owner[d]]
        BY <1>0, <2>1 DEF DeliveredRight
      <3>1. CASE d = c BY <3>1, <1>3, <2>1, <2>2 DEF ValidEntry
      <3>2. CASE d # c
        <4>1. delivered'[d] = delivered[d] BY <3>2, <2>1, <2>2
        <4>2. handler[delivered[d]] = "accepted" BY <4>1 DEF DeliveredRight
        <4> QED BY <4>1, <4>2, <2>1 DEF DeliveredRight
      <3> QED BY <3>1, <3>2
    <2>7. MatchedDelivered' 
      BY <1>0, <2>1, <2>2, SetAssumption DEF MatchedDelivered
    <2> QED BY <1>i, <2>3, <2>4, <2>5, <2>6, <2>7
  <1>4. CASE /\ TakeEntry(h) \/ SettleHello(h) \/ AbortHello(h)
             /\ handler'[h] \in {"rejected", "cancelled"}
    <2>1. /\ handler[h] \in {"upgraded", "taken"}
          /\ pending' \subseteq pending
          /\ \A g \in Hello \ {h} : handler'[g] = handler[g]
          /\ UNCHANGED <<message, delivered>>
      BY <1>4 DEF TakeEntry, SettleHello, AbortHello, RemovePending
    <2>2. Presented' BY <1>4, <2>1 DEF Presented, PrincipalMatches
    <2>3. TakenOnce' BY <1>0, <1>4, <2>1 DEF TakenOnce, Taken, SessionConns
    <2>4. TakenApart' BY <1>4, <2>1 DEF TakenApart, Taken
    <2>5. DeliveredRight' BY <1>0, <2>1 DEF DeliveredRight
    <2>6. MatchedDelivered' BY <1>0, <2>1 DEF MatchedDelivered
    <2> QED BY <1>i, <2>2, <2>3, <2>4, <2>5, <2>6
  <1>5. TakeEntry(h) => handler'[h] \in {"taken", "rejected"} BY DEF TakeEntry
  <1>6. SettleHello(h) => handler'[h] \in {"accepted", "cancelled", "rejected"}
    BY DEF SettleHello
  <1>7. AbortHello(h) => handler'[h] = "rejected" BY DEF AbortHello
  <1> QED BY <1>1, <1>2, <1>3, <1>4, <1>5, <1>6, <1>7 DEF HelloStep

(***************************************************************************)
(* Exact counters.                                                         *)
(***************************************************************************)

\* Every way an entry enters or leaves the table is counted once.
LEMMA PendingStep ==
  ASSUME Types, Owned, EntryIssued, PendingCountExact, [Next]_vars
  PROVE  PendingCountExact'
  <1> USE DEF Types, tableVars, taskVars, entryVars, slotVars, dataVars, helloVars
  <1>0. CASE UNCHANGED entryVars BY <1>0 DEF PendingCountExact
  <1>1. CASE \E R : RemovePending(R) BY <1>1, RemoveExact
  <1>2. CASE \E l \in Listener, c \in Conn : InsertPending(l, c)
    <2>1. PICK l \in Listener, c \in Conn : InsertPending(l, c) BY <1>2
    <2>2. CASE pending' = pending \cup {c} /\ pendingCount' = pendingCount + 1
      <3>1. c \notin pending BY <2>1 DEF InsertPending, EntryIssued
      <3>2. IsFiniteSet(pending) BY FiniteParts
      <3>3. Cardinality(pending \cup {c}) = Cardinality(pending) + 1
        BY <3>1, <3>2, FS_AddElement
      <3> QED BY <2>2, <3>3 DEF PendingCountExact
    <2> QED BY <1>0, <2>1, <2>2 DEF InsertPending
  <1>3. ASSUME NEW s \in Session, ControlStep(s)
        PROVE  UNCHANGED entryVars \/ \E R : RemovePending(R)
    BY <1>3 DEF ControlStep, Establish, WriteOpen, OpenReject, PeerDrain, ForceCancel,
                StopChildren, SweepSession, ReturnFromControl, AbandonControl,
                CloseSession, DropContext
  <1>4. ASSUME NEW l \in Listener, ListenerStep(l), ~\E c \in Conn : InsertPending(l, c)
        PROVE  UNCHANGED entryVars \/ \E R : RemovePending(R)
    BY <1>4 DEF ListenerStep, RegisterService, UnregisterService, Accept, SendOpen,
                RollBack, StopListener, FinishListener, AbortListener
  <1>5. ASSUME NEW c \in Conn, RelayStep(c)
        PROVE  UNCHANGED entryVars \/ \E R : RemovePending(R)
    BY <1>5 DEF RelayStep, Wake, Unlink, FinishRelay, AbortRelay, ReleaseGuard,
                ReleasePermit, Expire
  <1>6. ASSUME NEW h \in Hello, HelloStep(h)
        PROVE  UNCHANGED entryVars \/ \E R : RemovePending(R)
    BY <1>6 DEF HelloStep, ReceiveHello, TakeEntry, SettleHello, AbortHello
  <1>7. CASE UNCHANGED vars BY <1>0, <1>7 DEF vars
  <1> QED BY <1>0, <1>1, <1>2, <1>3, <1>4, <1>5, <1>6, <1>7 DEF Next

\* Within a Session a ServiceId is registered once.
UniqueServices ==
  \A l, m \in services :
    SessionOf[l] = SessionOf[m] /\ ServiceOf[l] = ServiceOf[m] => l = m

\* Registration, unregistration and the end of a Session keep the service
\* counter, the bind table and the service maps together.
LEMMA ServicesStep ==
  ASSUME Types, UniqueServices, ServicesCountExact, [Next]_vars
  PROVE  UniqueServices' /\ ServicesCountExact'
  <1> USE DEF Types, tableVars, taskVars, entryVars, slotVars, dataVars, helloVars
  <1>f. IsFiniteSet(binds) /\ binds = services /\ servicesCount = Cardinality(binds)
    BY FiniteParts DEF ServicesCountExact
  <1>0. CASE UNCHANGED tableVars BY <1>0 DEF UniqueServices, ServicesCountExact
  <1>1. CASE \E l \in Listener : RegisterService(l)
    <2>1. PICK l \in Listener : RegisterService(l) BY <1>1
    <2>2. \A m \in services : SessionOf[m] = SessionOf[l] => ServiceOf[m] # ServiceOf[l]
      BY <2>1 DEF RegisterService, ListenersOf
    <2>3. services' = services \cup {l} /\ binds' = binds \cup {l}
            /\ servicesCount' = servicesCount + 1
      BY <2>1 DEF RegisterService
    <2>4. UniqueServices' BY <2>2, <2>3 DEF UniqueServices
    <2>5. l \notin binds BY <1>f, <2>2
    <2>6. Cardinality(binds \cup {l}) = Cardinality(binds) + 1
      BY <1>f, <2>5, FS_AddElement
    <2> QED BY <1>f, <2>3, <2>4, <2>6 DEF ServicesCountExact
  <1>2. CASE \E l \in Listener : UnregisterService(l)
    <2>1. PICK l \in Listener : UnregisterService(l) BY <1>2
    <2>2. l \in services /\ services' = services \ {l}
            /\ binds' = OtherBinds(l) /\ servicesCount' = servicesCount - 1
      BY <2>1 DEF UnregisterService
    <2>3. OtherBinds(l) = binds \ {l}
      BY <1>f, <2>2 DEF OtherBinds, UniqueServices
    <2>4. UniqueServices' BY <2>2 DEF UniqueServices
    <2>5. Cardinality(binds \ {l}) = Cardinality(binds) - 1
      BY <1>f, <2>2, FS_RemoveElement
    <2> QED BY <1>f, <2>2, <2>3, <2>4, <2>5 DEF ServicesCountExact
  <1>3. CASE \E s \in Session : CloseSession(s)
    <2>1. PICK s \in Session : CloseSession(s) BY <1>3
    <2>2. services' = services \ ListenersOf(s) /\ binds' = binds \ ListenersOf(s)
            /\ servicesCount' = servicesCount - Cardinality(binds \cap ListenersOf(s))
      BY <2>1 DEF CloseSession
    <2>3. UniqueServices' BY <2>2 DEF UniqueServices
    <2>4. Cardinality(binds \ ListenersOf(s))
            = Cardinality(binds) - Cardinality(binds \cap ListenersOf(s))
      BY <1>f, FS_Difference
    <2> QED BY <1>f, <2>2, <2>3, <2>4 DEF ServicesCountExact
  <1>4. ASSUME NEW s \in Session, ControlStep(s)
        PROVE  UNCHANGED tableVars \/ CloseSession(s)
    BY <1>4 DEF ControlStep, Establish, WriteOpen, OpenReject, PeerDrain, ForceCancel,
                StopChildren, SweepSession, ReturnFromControl, AbandonControl, DropContext
  <1>5. ASSUME NEW l \in Listener, ListenerStep(l)
        PROVE  UNCHANGED tableVars \/ RegisterService(l) \/ UnregisterService(l)
    BY <1>5 DEF ListenerStep, Accept, InsertPending, SendOpen, RollBack, StopListener,
                FinishListener, AbortListener
  <1>6. ASSUME NEW c \in Conn, RelayStep(c)
        PROVE  UNCHANGED tableVars
    BY <1>6 DEF RelayStep, Wake, Unlink, FinishRelay, AbortRelay, ReleaseGuard,
                ReleasePermit, Expire
  <1>7. ASSUME NEW h \in Hello, HelloStep(h)
        PROVE  UNCHANGED tableVars
    BY <1>7 DEF HelloStep, ReceiveHello, TakeEntry, SettleHello, AbortHello
  <1>8. CASE UNCHANGED vars BY <1>0, <1>8 DEF vars
  <1> QED BY <1>0, <1>1, <1>2, <1>3, <1>4, <1>5, <1>6, <1>7, <1>8 DEF Next

(***************************************************************************)
(* Permits.                                                                *)
(***************************************************************************)
Holders(s) == {c \in SessionConns(s) : phase[c] \in PermitPhases}
Guards == {c \in Conn : phase[c] \in RelayPhases}

PermitsExact == \A s \in Session : permits[s] = MaxConnections - Cardinality(Holders(s))
ActiveExact == active = Cardinality(Guards)
PermitsNat == permits \in [Session -> Nat]
SlotsExact == PermitsExact /\ ActiveExact /\ PermitsNat

\* A step that moves no connection into or out of the phases that hold a permit.
LEMMA PermitsKept ==
  ASSUME PermitsExact, UNCHANGED permits,
         \A c \in Conn : /\ phase'[c] \in PermitPhases <=> phase[c] \in PermitPhases
                         /\ phase[c] \in PermitPhases => owner'[c] = owner[c]
  PROVE  PermitsExact'
  <1>1. \A s \in Session : Holders(s)' = Holders(s) BY DEF Holders, SessionConns
  <1> QED BY <1>1 DEF PermitsExact

\* A connection takes a permit of its Session.
LEMMA PermitTaken ==
  ASSUME Types, PermitsExact, NEW s \in Session, NEW c \in Conn,
         permits' = [permits EXCEPT ![s] = @ - 1],
         c \notin Holders(s), Holders(s)' = Holders(s) \cup {c},
         \A r \in Session \ {s} : Holders(r)' = Holders(r)
  PROVE  PermitsExact'
  <1>1. Holders(s) \in SUBSET Conn BY DEF Holders, SessionConns
  <1>2. IsFiniteSet(Holders(s)) /\ Cardinality(Holders(s)) \in Nat BY <1>1, FiniteParts
  <1>3. Cardinality(Holders(s)') = Cardinality(Holders(s)) + 1 BY <1>2, FS_AddElement
  <1>4. permits'[s] = permits[s] - 1 /\ \A r \in Session \ {s} : permits'[r] = permits[r]
    BY DEF Types
  <1>5. permits'[s] = MaxConnections - Cardinality(Holders(s)')
    BY <1>2, <1>3, <1>4, LimitAssumption DEF PermitsExact
  <1>6. \A r \in Session \ {s} : permits'[r] = MaxConnections - Cardinality(Holders(r)')
    BY <1>4 DEF PermitsExact
  <1> QED BY <1>5, <1>6 DEF PermitsExact

\* Connections of one Session give their permits back.
LEMMA PermitsReturned ==
  ASSUME Types, PermitsExact, PermitsNat, NEW s \in Session, NEW R,
         permits' = [permits EXCEPT ![s] = @ + Cardinality(R)],
         R \subseteq Holders(s), Holders(s)' = Holders(s) \ R,
         \A r \in Session \ {s} : Holders(r)' = Holders(r)
  PROVE  PermitsExact' /\ PermitsNat'
  <1>1. Holders(s) \in SUBSET Conn /\ R \in SUBSET Conn BY DEF Holders, SessionConns
  <1>2. IsFiniteSet(Holders(s)) /\ Cardinality(Holders(s)) \in Nat /\ Cardinality(R) \in Nat
    BY <1>1, FiniteParts
  <1>3. Holders(s) \cap R = R OBVIOUS
  <1>4. Cardinality(Holders(s)') = Cardinality(Holders(s)) - Cardinality(R)
    BY <1>2, <1>3, FS_Difference
  <1>5. /\ permits'[s] = permits[s] + Cardinality(R)
        /\ \A r \in Session \ {s} : permits'[r] = permits[r]
    BY DEF Types
  <1>6. permits'[s] = MaxConnections - Cardinality(Holders(s)')
    BY <1>2, <1>4, <1>5, LimitAssumption DEF PermitsExact
  <1>7. \A r \in Session \ {s} : permits'[r] = MaxConnections - Cardinality(Holders(r)')
    BY <1>5 DEF PermitsExact
  <1>8. PermitsNat' BY <1>2 DEF PermitsNat
  <1> QED BY <1>6, <1>7, <1>8 DEF PermitsExact

\* The special case of one connection.
LEMMA PermitReturned ==
  ASSUME Types, PermitsExact, PermitsNat, NEW s \in Session, NEW c \in Conn,
         permits' = [permits EXCEPT ![s] = @ + 1], UNCHANGED owner,
         c \in SessionConns(s), phase[c] \in PermitPhases, phase'[c] \notin PermitPhases,
         \A d \in Conn \ {c} : phase'[d] = phase[d]
  PROVE  PermitsExact' /\ PermitsNat'
  <1>1. Cardinality({c}) = 1 BY FS_Singleton
  <1>2. {c} \subseteq Holders(s) BY DEF Holders
  <1>3. Holders(s)' = Holders(s) \ {c} BY DEF Holders, SessionConns
  <1>4. \A r \in Session \ {s} : c \notin SessionConns(r)
    BY DEF SessionConns, ListenersOf
  <1>5. \A r \in Session \ {s} : Holders(r)' = Holders(r)
    BY <1>4 DEF Holders, SessionConns
  <1>6. permits' = [permits EXCEPT ![s] = @ + Cardinality({c})] BY <1>1
  <1>7. PermitsExact' /\ PermitsNat' BY ONLY Types, PermitsExact, PermitsNat, s \in Session,
                <1>2, <1>3, <1>5, <1>6, PermitsReturned
  <1> QED BY <1>7

\* Listener tasks take permits, refuse, roll back and return what an aborted
\* accept arm held.
LEMMA SlotsListener ==
  ASSUME Types, Types', Owned, SlotsExact, NEW l \in Listener, ListenerStep(l)
  PROVE  SlotsExact'
  <1> DEFINE s == SessionOf[l]
  <1>s. s \in Session BY MapAssumption
  <1>l. l # NoListener BY SetAssumption
  <1>g. IsFiniteSet(Guards) /\ Cardinality(Guards) \in Nat BY FiniteParts DEF Guards
  <1> USE DEF Types, SlotsExact, PermitPhases, RelayPhases, tableVars, taskVars, entryVars,
              slotVars, dataVars, helloVars
  <1>k. ASSUME UNCHANGED <<owner, phase, permits, active>>
        PROVE  SlotsExact'
    BY <1>k, PermitsKept DEF ActiveExact, Guards, PermitsNat
  <1>1. CASE RegisterService(l) \/ UnregisterService(l) \/ StopListener(l) \/ FinishListener(l)
    BY <1>1, <1>k DEF RegisterService, UnregisterService, StopListener, FinishListener
  <1>2. CASE \E c \in Conn : Accept(l, c)
    <2>1. PICK c \in Conn : Accept(l, c) BY <1>2
    <2>2. /\ phase[c] = "idle" /\ owner[c] = NoListener /\ owner'[c] = l
          /\ \A d \in Conn \ {c} : phase'[d] = phase[d] /\ owner'[d] = owner[d]
          /\ phase'[c] \in {"admitted", "refused"}
          /\ UNCHANGED active
      BY <2>1 DEF Accept, Owned
    <2>3. ActiveExact'
      <3>1. Guards' = Guards BY <2>2 DEF Guards
      <3> QED BY <2>2, <3>1 DEF ActiveExact
    <2>4. CASE PermitFree(s)
      <3>1. permits' = [permits EXCEPT ![s] = @ - 1] /\ phase'[c] = "admitted"
        BY <2>1, <2>4 DEF Accept
      <3>2. c \notin Holders(s) BY <2>2 DEF Holders
      <3>3. Holders(s)' = Holders(s) \cup {c}
        BY <2>2, <3>1 DEF Holders, SessionConns, ListenersOf
      <3>4. \A r \in Session \ {s} : Holders(r)' = Holders(r)
        BY <2>2, <1>l DEF Holders, SessionConns, ListenersOf
      <3>5. PermitsExact' BY <1>s, <3>1, <3>2, <3>3, <3>4, PermitTaken
      <3>6. PermitsNat' BY <1>s, <2>4, <3>1 DEF PermitFree, PermitsNat
      <3> QED BY <2>3, <3>5, <3>6
    <2>5. CASE ~PermitFree(s)
      <3>1. UNCHANGED permits /\ phase'[c] = "refused" BY <2>1, <2>5 DEF Accept
      <3>2. PermitsExact' BY <2>2, <3>1, PermitsKept
      <3> QED BY <2>3, <3>1, <3>2 DEF PermitsNat
    <2> QED BY <2>4, <2>5
  <1>3. CASE \E c \in Conn : InsertPending(l, c) \/ RollBack(l, c)
    <2>1. PICK c \in Conn : InsertPending(l, c) \/ RollBack(l, c) BY <1>3
    <2>2. /\ phase[c] \in {"admitted", "unsent"} /\ owner[c] = l
          /\ phase'[c] \in {"inserted", "refused", "closed"}
          /\ \A d \in Conn \ {c} : phase'[d] = phase[d]
          /\ UNCHANGED <<owner, active>>
      BY <2>1 DEF InsertPending, RollBack
    <2>3. ActiveExact'
      <3>1. Guards' = Guards BY <2>2 DEF Guards
      <3> QED BY <2>2, <3>1 DEF ActiveExact
    <2>4. CASE phase'[c] = "inserted"
      <3>1. UNCHANGED permits BY <2>1, <2>2, <2>4 DEF InsertPending, RollBack
      <3>2. PermitsExact' BY <2>2, <2>4, <3>1, PermitsKept
      <3> QED BY <2>3, <3>1, <3>2 DEF PermitsNat
    <2>5. CASE phase'[c] # "inserted"
      <3>1. permits' = [permits EXCEPT ![s] = @ + 1]
        BY <2>1, <2>2, <2>5 DEF InsertPending, RollBack
      <3>2. c \in SessionConns(s) BY <2>2 DEF SessionConns, ListenersOf
      <3>3. PermitsExact' /\ PermitsNat' BY <1>s, <2>2, <2>5, <3>1, <3>2, PermitReturned
      <3> QED BY <2>3, <3>3
    <2> QED BY <2>4, <2>5
  <1>4. CASE \E c \in Conn : SendOpen(l, c)
    <2>1. PICK c \in Conn : SendOpen(l, c) BY <1>4
    <2>2. /\ phase[c] = "inserted" /\ phase'[c] \in {"waiting", "unsent"}
          /\ \A d \in Conn \ {c} : phase'[d] = phase[d]
          /\ active' = IF phase'[c] = "waiting" THEN active + 1 ELSE active
          /\ UNCHANGED <<owner, permits>>
      BY <2>1 DEF SendOpen
    <2>3. PermitsExact' /\ PermitsNat' BY <2>2, PermitsKept DEF PermitsNat
    <2>4. CASE phase'[c] = "waiting"
      <3>1. Guards' = Guards \cup {c} /\ c \notin Guards BY <2>2, <2>4 DEF Guards
      <3>2. Cardinality(Guards') = Cardinality(Guards) + 1 BY <1>g, <3>1, FS_AddElement
      <3> QED BY <2>2, <2>3, <2>4, <3>2 DEF ActiveExact
    <2>5. CASE phase'[c] = "unsent"
      <3>1. Guards' = Guards BY <2>2, <2>5 DEF Guards
      <3> QED BY <2>2, <2>3, <2>5, <3>1 DEF ActiveExact
    <2> QED BY <2>2, <2>4, <2>5
  <1>5. CASE AbortListener(l)
    <2> DEFINE stranded == {c \in ConnsOf(l) : phase[c] \in {"admitted", "unsent"}}
    <2>1. /\ permits' = [permits EXCEPT ![s] = @ + Cardinality(stranded)]
          /\ \A c \in Conn : IF c \in stranded THEN phase'[c] \in {"refused", "closed"}
                                               ELSE phase'[c] = phase[c]
          /\ UNCHANGED <<owner, active>>
      BY <1>5 DEF AbortListener
    <2>2. stranded \subseteq Holders(s) BY DEF Holders, SessionConns, ListenersOf, ConnsOf
    <2>3. Holders(s)' = Holders(s) \ stranded
      BY <2>1 DEF Holders, SessionConns, ListenersOf, ConnsOf
    <2>4. \A r \in Session \ {s} : Holders(r)' = Holders(r)
      BY <2>1 DEF Holders, SessionConns, ListenersOf, ConnsOf
    <2>5. PermitsExact' /\ PermitsNat'
      <3> HIDE DEF stranded
      <3> QED BY <1>s, <2>1, <2>2, <2>3, <2>4, PermitsReturned
    <2>6. Guards' = Guards BY <2>1 DEF Guards, ConnsOf
    <2> QED BY <2>1, <2>5, <2>6 DEF ActiveExact
  <1> QED BY <1>1, <1>2, <1>3, <1>4, <1>5 DEF ListenerStep

\* Relay tasks give back the counter first and the permit second.
LEMMA SlotsRelay ==
  ASSUME Types, Types', Owned, SlotsExact, NEW c \in Conn, RelayStep(c)
  PROVE  SlotsExact'
  <1>g. IsFiniteSet(Guards) /\ Cardinality(Guards) \in Nat BY FiniteParts DEF Guards
  <1> USE DEF Types, SlotsExact, PermitPhases, RelayPhases, tableVars, taskVars, entryVars,
              slotVars, dataVars, helloVars
  <1>1. CASE (\E some \in BOOLEAN : Wake(c, some)) \/ Unlink(c) \/ Expire(c)
    <2>1. /\ \A d \in Conn : \/ phase'[d] = phase[d]
                             \/ phase[d] \in RelayPhases /\ phase'[d] \in RelayPhases
          /\ UNCHANGED <<owner, permits, active>>
      BY <1>1 DEF Wake, Unlink, Expire
    <2>2. Guards' = Guards BY <2>1 DEF Guards
    <2>3. PermitsExact' BY <2>1, PermitsKept
    <2> QED BY <2>1, <2>2, <2>3 DEF ActiveExact, PermitsNat
  <1>2. CASE FinishRelay(c) \/ AbortRelay(c)
    <2>1. /\ phase[c] \in RelayPhases /\ phase'[c] = "releasing"
          /\ \A d \in Conn \ {c} : phase'[d] = phase[d]
          /\ active' = active - 1
          /\ UNCHANGED <<owner, permits>>
      BY <1>2 DEF FinishRelay, AbortRelay, ReleaseGuard
    <2>2. Guards' = Guards \ {c} /\ c \in Guards BY <2>1 DEF Guards
    <2>3. Cardinality(Guards') = Cardinality(Guards) - 1 BY <1>g, <2>2, FS_RemoveElement
    <2>4. PermitsExact' BY <2>1, PermitsKept
    <2> QED BY <2>1, <2>3, <2>4 DEF ActiveExact, PermitsNat
  <1>3. CASE ReleasePermit(c)
    <2> DEFINE s == SessionOf[owner[c]]
    <2>1. /\ phase[c] = "releasing" /\ phase'[c] = "closed"
          /\ \A d \in Conn \ {c} : phase'[d] = phase[d]
          /\ permits' = [permits EXCEPT ![s] = @ + 1]
          /\ UNCHANGED <<owner, active>>
      BY <1>3 DEF ReleasePermit
    <2>2. owner[c] \in Listener BY <2>1 DEF Owned
    <2>3. s \in Session BY <2>2, MapAssumption
    <2>4. c \in SessionConns(s) BY <2>2 DEF SessionConns, ListenersOf
    <2>5. PermitsExact' /\ PermitsNat' BY <2>1, <2>3, <2>4, PermitReturned
    <2>6. Guards' = Guards BY <2>1 DEF Guards
    <2> QED BY <2>1, <2>5, <2>6 DEF ActiveExact
  <1> QED BY <1>1, <1>2, <1>3 DEF RelayStep

(***************************************************************************)
(* The bound of the pending tables.                                        *)
(***************************************************************************)

\* A table only grows by an insertion made under its lock while it has room.
LEMMA BoundedStep ==
  ASSUME Types, Types', Owned, EntryIssued, Forward, PendingBounded, [Next]_vars
  PROVE  PendingBounded'
  <1> DEFINE Table(s) == pending \cap SessionConns(s)
  <1>f. \A s \in Session : /\ IsFiniteSet(Table(s)) /\ Cardinality(Table(s)) \in Nat
                           /\ IsFiniteSet(Table(s)') /\ Cardinality(Table(s)') \in Nat
    BY FiniteParts DEF Types
  <1>o. \A c \in pending : owner'[c] = owner[c] BY DEF EntryIssued, Forward, Types
  <1>1. CASE pending' \subseteq pending
    <2> SUFFICES ASSUME NEW s \in Session PROVE Cardinality(Table(s)') <= MaxPending
      BY DEF PendingBounded
    <2>1. Table(s)' \subseteq Table(s) BY <1>1, <1>o DEF SessionConns
    <2>2. Cardinality(Table(s)') <= Cardinality(Table(s)) BY <1>f, <2>1, FS_Subset
    <2> QED BY <1>f, <2>2, LimitAssumption DEF PendingBounded
  <1>2. CASE ~(pending' \subseteq pending)
    <2>1. PICK c \in Conn : c \in pending' \ pending BY <1>2 DEF Types
    <2>2. phase[c] = "admitted" /\ phase'[c] = "inserted" BY <2>1 DEF Forward
    <2>3. \E l \in Listener, d \in Conn : InsertPending(l, d)
      <3> USE DEF Types, tableVars, taskVars, entryVars, slotVars, dataVars, helloVars
      <3>1. ~UNCHANGED vars BY <1>2 DEF vars
      <3>2. ASSUME NEW s \in Session, ControlStep(s) PROVE FALSE
        BY <2>2, <3>2, ForwardControl
      <3>3. ASSUME NEW d \in Conn, RelayStep(d) PROVE FALSE
        BY <2>2, <3>3 DEF RelayStep, Wake, Unlink, FinishRelay, AbortRelay, ReleaseGuard,
                          ReleasePermit, Expire
      <3>4. ASSUME NEW h \in Hello, HelloStep(h) PROVE FALSE
        BY <2>2, <3>4, ForwardHello
      <3>5. PICK l \in Listener : ListenerStep(l) BY <3>1, <3>2, <3>3, <3>4 DEF Next
      <3>6. (~\E d \in Conn : InsertPending(l, d)) => pending' \subseteq pending
        BY <3>5, RemoveExact
        DEF ListenerStep, RegisterService, UnregisterService, Accept, SendOpen, RollBack,
            StopListener, FinishListener, AbortListener
      <3> QED BY <1>2, <3>6
    <2>4. PICK l \in Listener, d \in Conn : InsertPending(l, d) BY <2>3
    <2>5. ~TableFull(SessionOf[l]) /\ pending' = pending \cup {d} /\ owner[d] = l
            /\ UNCHANGED owner
      BY <1>2, <2>4 DEF InsertPending, entryVars
    <2>6. SessionOf[l] \in Session BY MapAssumption
    <2>7. Cardinality(Table(SessionOf[l])) < MaxPending
      <3>1. Cardinality(Table(SessionOf[l])) \in Nat BY <1>f, <2>6
      <3>2. ~(Cardinality(Table(SessionOf[l])) >= MaxPending) BY <2>5 DEF TableFull
      <3> QED BY <3>1, <3>2, LimitAssumption
    <2> SUFFICES ASSUME NEW s \in Session PROVE Cardinality(Table(s)') <= MaxPending
      BY DEF PendingBounded
    <2>8. CASE s = SessionOf[l]
      <3>1. Table(s)' \subseteq Table(s) \cup {d} BY <2>5 DEF SessionConns
      <3>2. /\ IsFiniteSet(Table(s) \cup {d})
            /\ \/ Cardinality(Table(s) \cup {d}) = Cardinality(Table(s)) + 1
               \/ Cardinality(Table(s) \cup {d}) = Cardinality(Table(s))
        <4>1. IsFiniteSet(Table(s)) BY <1>f
        <4> QED BY <4>1, FS_AddElement
      <3>3. Cardinality(Table(s) \cup {d}) \in Nat BY <3>2, FS_CardinalityType
      <3>4. Cardinality(Table(s)') <= Cardinality(Table(s) \cup {d})
        BY <3>1, <3>2, FS_Subset
      <3> HIDE DEF Table
      <3> QED BY <1>f, <2>7, <2>8, <3>2, <3>3, <3>4, LimitAssumption
    <2>9. CASE s # SessionOf[l]
      <3>1. Table(s)' = Table(s) BY <2>5, <2>9 DEF SessionConns, ListenersOf
      <3> QED BY <3>1 DEF PendingBounded
    <2> QED BY <2>8, <2>9
  <1> QED BY <1>1, <1>2

(***************************************************************************)
(* Who outlives whom.                                                      *)
(***************************************************************************)

\* A connection in its listener's accept arm has a listener.
Accepting == \A c \in Conn : phase[c] \in AcceptPhases => listener[owner[c]] = "run"

\* Relay tasks are aborted by their listener only, as it ends, and listeners by
\* their control task, as it ends.
AbortedInTurn ==
  /\ \A c \in Conn \cap doomed :
       owner[c] \in Listener /\ listener[owner[c]] \in {"joining", "done"}
  /\ \A l \in Listener \cap doomed :
       control[SessionOf[l]] \in {"stop", "swept", "ended", "freed"}

\* What is at work keeps its Session from being swept and freed.
AtWork ==
  /\ \A l \in Listener : listener[l] \in {"run", "joining"} =>
       control[SessionOf[l]] \notin {"new", "swept", "freed"}
  /\ \A l \in services : control[SessionOf[l]] \in {"up", "drain", "stop", "swept"}
  /\ \A c \in Conn : phase[c] \in RelayPhases \cup {"releasing"} =>
       control[SessionOf[owner[c]]] # "freed"

\* A relay task removes its entry before it goes on, and an entry outlives its
\* accept arm and its relay task only if the listener ends early.
Removed ==
  /\ \A c \in Conn : phase[c] = "unlinked" => c \notin pending
  /\ \A c \in pending :
       \/ listener[owner[c]] = "run" /\ phase[c] \in {"inserted", "unsent", "waiting", "woken"}
       \/ listener[owner[c]] = "joining"
       \/ listener[owner[c]] = "done" /\ control[SessionOf[owner[c]]] \in {"stop", "ended"}

Lifetimes == Accepting /\ AbortedInTurn /\ AtWork /\ Removed

\* What a step of the control task of s may do.
ControlMove(s) ==
  \/ control'[s] = control[s]
  \/ control[s] = "new" /\ control'[s] = "up"
  \/ control[s] = "up" /\ control'[s] = "drain"
  \/ control[s] \in {"up", "drain"} /\ control'[s] = "stop"
  \/ /\ control[s] = "stop" /\ control'[s] = "swept"
     /\ \A l \in ListenersOf(s) : listener[l] \in {"unused", "done"}
     /\ pending' \cap SessionConns(s) = {}
  \/ /\ control[s] \in {"up", "drain", "stop", "swept"} /\ control'[s] = "ended"
     /\ services' \cap ListenersOf(s) = {}
  \/ /\ control[s] = "ended" /\ control'[s] = "freed"
     /\ ~ContextHeld(s) /\ pending' \cap SessionConns(s) = {}

\* The owner of an accepted connection, and its Session.
LEMMA OwnerTypes ==
  ASSUME Types, Owned, NEW c \in Conn, phase[c] # "idle"
  PROVE  owner[c] \in Listener /\ SessionOf[owner[c]] \in Session
BY MapAssumption DEF Types, Owned

\* A control task ends what it started before it ends.
LEMMA LifeControl ==
  ASSUME Types, Owned, EntryIssued, Lifetimes, NEW s \in Session, ControlStep(s)
  PROVE  Lifetimes'
  <1> USE DEF tableVars, taskVars, entryVars, slotVars, dataVars, helloVars
  <1>1. UNCHANGED <<listener, owner, phase>>
    BY DEF ControlStep, Establish, WriteOpen, OpenReject, PeerDrain, ForceCancel, StopChildren,
           SweepSession, ReturnFromControl, AbandonControl, CloseSession, DropContext
  <1>2. pending' \subseteq pending /\ services' \subseteq services
    BY DEF ControlStep, Establish, WriteOpen, OpenReject, PeerDrain, ForceCancel, StopChildren,
           SweepSession, ReturnFromControl, AbandonControl, CloseSession, DropContext,
           RemovePending
  <1>3. \A r \in Session \ {s} : control'[r] = control[r]
    BY DEF Types, ControlStep, Establish, WriteOpen, OpenReject, PeerDrain, ForceCancel,
           StopChildren, SweepSession, ReturnFromControl, AbandonControl, CloseSession, DropContext
  <1>4. \/ doomed' = doomed
        \/ doomed' = doomed \cup ListenersOf(s) /\ control'[s] \in {"stop", "ended"}
    BY DEF Types, ControlStep, Establish, WriteOpen, OpenReject, PeerDrain, ForceCancel,
           StopChildren, SweepSession, ReturnFromControl, AbandonControl, CloseSession, DropContext
  <1>5. ControlMove(s)
    <2> USE DEF Types, ControlMove
    <2>1. CASE UNCHANGED control BY <2>1
    <2>2. CASE Establish(s) BY <2>2 DEF Establish
    <2>3. CASE PeerDrain(s) BY <2>3 DEF PeerDrain
    <2>4. CASE StopChildren(s) BY <2>4 DEF StopChildren
    <2>5. CASE SweepSession(s) BY <2>5 DEF SweepSession, RemovePending
    <2>6. CASE ReturnFromControl(s) \/ AbandonControl(s)
      BY <2>6 DEF ReturnFromControl, AbandonControl, CloseSession
    <2>7. CASE DropContext(s) BY <2>7 DEF DropContext, RemovePending
    <2>8. WriteOpen(s) \/ (\E c \in Conn : OpenReject(s, c)) \/ ForceCancel(s) => UNCHANGED control
      BY DEF WriteOpen, OpenReject, ForceCancel
    <2> QED BY <2>1, <2>2, <2>3, <2>4, <2>5, <2>6, <2>7, <2>8 DEF ControlStep
  <1>6. \A l \in Listener : SessionOf[l] \in Session BY MapAssumption
  <1>7. Accepting' BY <1>1 DEF Lifetimes, Accepting
  <1>8. AbortedInTurn'
    <2>1. \A c \in Conn \cap doomed' : c \in doomed
      BY <1>4, SetAssumption DEF ListenersOf
    <2>2. ASSUME NEW l \in Listener \cap doomed'
          PROVE  control'[SessionOf[l]] \in {"stop", "swept", "ended", "freed"}
      <3>1. CASE l \in doomed
        BY <3>1, <1>3, <1>5, <1>6 DEF Lifetimes, AbortedInTurn, ControlMove
      <3>2. CASE l \notin doomed BY <3>2, <1>4 DEF ListenersOf
      <3> QED BY <3>1, <3>2
    <2> QED BY <2>1, <2>2, <1>1 DEF Lifetimes, AbortedInTurn
  <1>9. AtWork'
    <2>1. ASSUME NEW l \in Listener, listener[l] \in {"run", "joining"}
          PROVE  control'[SessionOf[l]] \notin {"new", "swept", "freed"}
      <3>1. control[SessionOf[l]] \notin {"new", "swept", "freed"}
        BY <2>1 DEF Lifetimes, AtWork
      <3>2. CASE SessionOf[l] = s
        BY <3>1, <3>2, <2>1, <1>5 DEF ControlMove, ContextHeld, ListenersOf
      <3>3. CASE SessionOf[l] # s BY <3>1, <3>3, <1>3, <1>6
      <3> QED BY <3>2, <3>3
    <2>2. ASSUME NEW l \in services'
          PROVE  control'[SessionOf[l]] \in {"up", "drain", "stop", "swept"}
      <3>1. l \in Listener /\ control[SessionOf[l]] \in {"up", "drain", "stop", "swept"}
        BY <1>2 DEF Lifetimes, AtWork, Types
      <3>2. CASE SessionOf[l] = s
        BY <3>1, <3>2, <1>5 DEF ControlMove, ListenersOf
      <3>3. CASE SessionOf[l] # s BY <3>1, <3>3, <1>3, <1>6
      <3> QED BY <3>2, <3>3
    <2>3. ASSUME NEW c \in Conn, phase[c] \in RelayPhases \cup {"releasing"}
          PROVE  control'[SessionOf[owner[c]]] # "freed"
      <3>1. owner[c] \in Listener /\ control[SessionOf[owner[c]]] # "freed"
        BY <2>3, OwnerTypes DEF Lifetimes, AtWork, RelayPhases
      <3>2. CASE SessionOf[owner[c]] = s
        <4>1. c \in SessionConns(s) BY <3>1, <3>2 DEF SessionConns, ListenersOf
        <4>2. ContextHeld(s) BY <4>1, <2>3 DEF ContextHeld
        <4> QED BY <4>2, <3>1, <3>2, <1>5 DEF ControlMove
      <3>3. CASE SessionOf[owner[c]] # s BY <3>1, <3>3, <1>3, <1>6
      <3> QED BY <3>2, <3>3
    <2> QED BY <2>1, <2>2, <2>3, <1>1 DEF AtWork
  <1>10. Removed'
    <2>1. \A c \in Conn : phase'[c] = "unlinked" => c \notin pending'
      BY <1>1, <1>2 DEF Lifetimes, Removed
    <2>2. ASSUME NEW c \in pending', listener[owner[c]] = "done"
          PROVE  control'[SessionOf[owner[c]]] \in {"stop", "ended"}
      <3>1. c \in Conn /\ c \in pending /\ phase[c] # "idle"
        BY <1>2 DEF Types, EntryIssued
      <3>2. owner[c] \in Listener /\ control[SessionOf[owner[c]]] \in {"stop", "ended"}
        BY <3>1, <2>2, OwnerTypes DEF Lifetimes, Removed
      <3>3. CASE SessionOf[owner[c]] = s
        <4>1. c \in SessionConns(s) BY <3>1, <3>2, <3>3 DEF SessionConns, ListenersOf
        <4> QED BY <4>1, <3>2, <3>3, <1>5 DEF ControlMove
      <3>4. CASE SessionOf[owner[c]] # s BY <3>2, <3>4, <1>3, <1>6
      <3> QED BY <3>3, <3>4
    <2> QED BY <2>1, <2>2, <1>1, <1>2 DEF Lifetimes, Removed
  <1> QED BY <1>7, <1>8, <1>9, <1>10 DEF Lifetimes

\* A relay task leaves its entry behind only if it is aborted.
LEMMA LifeRelay ==
  ASSUME Types, Owned, EntryIssued, Lifetimes, NEW c \in Conn, RelayStep(c)
  PROVE  Lifetimes'
  <1> USE DEF tableVars, taskVars, entryVars, slotVars, dataVars, helloVars
  <1>1. UNCHANGED <<control, listener, owner, doomed, services>>
    BY DEF RelayStep, Wake, Unlink, FinishRelay, AbortRelay, ReleaseGuard, ReleasePermit, Expire
  <1>2. pending' \subseteq pending /\ \A d \in Conn \ {c} : phase'[d] = phase[d]
    BY DEF Types, RelayStep, Wake, Unlink, FinishRelay, AbortRelay, ReleaseGuard, ReleasePermit,
           Expire, RemovePending
  <1>3. \/ phase'[c] = phase[c]
        \/ phase[c] = "waiting" /\ phase'[c] = "woken"
        \/ phase[c] = "woken" /\ phase'[c] = "unlinked" /\ c \notin pending'
        \/ phase[c] = "unlinked" /\ phase'[c] = "releasing"
        \/ c \in doomed /\ phase[c] \in RelayPhases /\ phase'[c] = "releasing"
        \/ phase[c] = "releasing" /\ phase'[c] = "closed"
    BY DEF Types, RelayStep, Wake, Unlink, FinishRelay, AbortRelay, ReleaseGuard, ReleasePermit,
           Expire, RemovePending
  <1>4. Accepting'
    BY <1>1, <1>2, <1>3 DEF Lifetimes, Accepting, AcceptPhases, RelayPhases
  <1>5. AbortedInTurn' BY <1>1 DEF Lifetimes, AbortedInTurn
  <1>6. AtWork'
    BY <1>1, <1>2, <1>3 DEF Lifetimes, AtWork, RelayPhases
  <1>7. Removed'
    <2>1. \A d \in Conn : phase'[d] = "unlinked" => d \notin pending'
      BY <1>2, <1>3 DEF Lifetimes, Removed
    <2>2. ASSUME NEW d \in pending', listener[owner[d]] = "run"
          PROVE  phase'[d] \in {"inserted", "unsent", "waiting", "woken"}
      <3>1. d \in Conn /\ d \in pending /\ phase[d] \in {"inserted", "unsent", "waiting", "woken"}
        BY <2>2, <1>2 DEF Types, Lifetimes, Removed
      <3>2. CASE d # c BY <3>1, <3>2, <1>2
      <3>3. CASE d = c
        BY <3>1, <3>3, <2>2, <1>3 DEF Lifetimes, AbortedInTurn
      <3> QED BY <3>2, <3>3
    <2> QED BY <2>1, <2>2, <1>1, <1>2 DEF Lifetimes, Removed
  <1> QED BY <1>4, <1>5, <1>6, <1>7 DEF Lifetimes

\* A listener ends its accept arm before it aborts its relay tasks, and sweeps
\* what they left behind unless it was aborted itself.
LEMMA LifeListener ==
  ASSUME Types, Owned, EntryIssued, Lifetimes, NEW l \in Listener, ListenerStep(l)
  PROVE  Lifetimes'
  <1> USE DEF tableVars, taskVars, entryVars, slotVars, dataVars, helloVars
  <1>t. l # NoListener /\ SessionOf[l] \in Session /\ l \notin Conn
    BY SetAssumption, MapAssumption
  <1>1. CASE RegisterService(l)
    <2>1. /\ UNCHANGED <<control, owner, phase, pending, doomed>>
          /\ control[SessionOf[l]] = "up" /\ listener[l] = "unused" /\ listener'[l] = "run"
          /\ \A m \in Listener \ {l} : listener'[m] = listener[m]
          /\ services' = services \cup {l}
      BY <1>1 DEF RegisterService, Types
    <2>2. \A c \in Conn : phase[c] \in AcceptPhases => owner[c] # l
      BY <2>1 DEF Lifetimes, Accepting
    <2>3. Accepting'
      <3> SUFFICES ASSUME NEW c \in Conn, phase[c] \in AcceptPhases PROVE listener'[owner[c]] = "run"
        BY <2>1 DEF Accepting
      <3>1. owner[c] \in Listener BY OwnerTypes DEF AcceptPhases
      <3> QED BY <3>1, <2>1 DEF Lifetimes, Accepting
    <2>4. AbortedInTurn' BY <2>1 DEF Lifetimes, AbortedInTurn
    <2>5. AtWork' BY <2>1 DEF Lifetimes, AtWork
    <2>6. Removed'
      <3>1. \A c \in pending : owner[c] \in Listener \ {l}
        BY <2>1, OwnerTypes DEF Lifetimes, Removed, EntryIssued, Types
      <3> QED BY <2>1, <3>1 DEF Lifetimes, Removed
    <2> QED BY <2>3, <2>4, <2>5, <2>6 DEF Lifetimes
  <1>2. CASE UnregisterService(l)
    <2>1. /\ UNCHANGED <<control, listener, owner, phase, doomed>>
          /\ pending' \subseteq pending /\ services' \subseteq services
      BY <1>2 DEF UnregisterService, RemovePending
    <2>2. Accepting' /\ AbortedInTurn' BY <2>1 DEF Lifetimes, Accepting, AbortedInTurn
    <2>3. AtWork' BY <2>1 DEF Lifetimes, AtWork
    <2>4. Removed' BY <2>1 DEF Lifetimes, Removed
    <2> QED BY <2>2, <2>3, <2>4 DEF Lifetimes
  <1>3. CASE \E c \in Conn : Accept(l, c)
    <2>1. PICK c \in Conn : Accept(l, c) BY <1>3
    <2>2. /\ UNCHANGED <<control, listener, pending, doomed, services>>
          /\ listener[l] = "run" /\ phase[c] = "idle"
          /\ owner'[c] = l /\ \A d \in Conn \ {c} : owner'[d] = owner[d]
          /\ phase'[c] \in {"admitted", "refused"} /\ \A d \in Conn \ {c} : phase'[d] = phase[d]
      <3>1. phase' = [phase EXCEPT ![c] = "admitted"] \/ phase' = [phase EXCEPT ![c] = "refused"]
        BY <2>1 DEF Accept
      <3>2. owner' = [owner EXCEPT ![c] = l] BY <2>1 DEF Accept
      <3>3. phase \in [Conn -> Phases] /\ owner \in [Conn -> Listener \cup {NoListener}] BY DEF Types
      <3>4. phase[c] = "idle" /\ listener[l] = "run" BY <2>1 DEF Accept, AtSelect
      <3>5. UNCHANGED <<control, listener, pending, doomed, services>> BY <2>1 DEF Accept
      <3> QED BY <3>1, <3>2, <3>3, <3>4, <3>5
    <2>3. c \notin pending /\ c \notin doomed
      <3>1. c \notin pending BY <2>2 DEF EntryIssued
      <3>2. owner[c] \notin Listener BY <2>2, SetAssumption DEF Owned
      <3> QED BY <3>1, <3>2 DEF Lifetimes, AbortedInTurn
    <2>4. Accepting' BY <2>2 DEF Lifetimes, Accepting
    <2>5. AbortedInTurn' BY <2>2, <2>3 DEF Lifetimes, AbortedInTurn
    <2>6. AtWork' BY <2>2 DEF Lifetimes, AtWork, RelayPhases
    <2>7. Removed'
      <3>1. \A d \in pending : d \in Conn \ {c} BY <2>3 DEF Types
      <3> QED BY <2>2, <2>3, <3>1 DEF Lifetimes, Removed
    <2> QED BY <2>4, <2>5, <2>6, <2>7 DEF Lifetimes
  <1>4. CASE \E c \in Conn : InsertPending(l, c) \/ SendOpen(l, c) \/ RollBack(l, c)
    <2>1. PICK c \in Conn : InsertPending(l, c) \/ SendOpen(l, c) \/ RollBack(l, c) BY <1>4
    <2>2. /\ UNCHANGED <<control, listener, owner, doomed, services>>
          /\ listener[l] = "run" /\ owner[c] = l
          /\ \A d \in Conn \ {c} : phase'[d] = phase[d] /\ (d \in pending' <=> d \in pending)
      BY <2>1 DEF InsertPending, SendOpen, RollBack, RemovePending, Types
    <2>3. \/ phase'[c] \in {"refused", "closed"} /\ c \notin pending'
          \/ phase'[c] \in {"inserted", "unsent", "waiting"}
      <3>1. CASE InsertPending(l, c)
        <4>1. c \notin pending BY <3>1 DEF InsertPending, EntryIssued
        <4> QED BY <3>1, <4>1 DEF InsertPending, Types
      <3>2. CASE SendOpen(l, c) BY <3>2 DEF SendOpen, Types
      <3>3. CASE RollBack(l, c) BY <3>3 DEF RollBack, RemovePending, Types
      <3> QED BY <2>1, <3>1, <3>2, <3>3
    <2>4. pending' \subseteq Conn
      BY <2>1 DEF InsertPending, SendOpen, RollBack, RemovePending, Types
    <2>5. Accepting' BY <2>2 DEF Lifetimes, Accepting
    <2>6. AbortedInTurn' BY <2>2 DEF Lifetimes, AbortedInTurn
    <2>7. AtWork'
      <3>1. control[SessionOf[l]] # "freed" BY <2>2 DEF Lifetimes, AtWork
      <3> QED BY <2>2, <3>1 DEF Lifetimes, AtWork
    <2>8. Removed' BY <2>2, <2>3, <2>4 DEF Lifetimes, Removed
    <2> QED BY <2>5, <2>6, <2>7, <2>8 DEF Lifetimes
  <1>5. CASE StopListener(l) \/ FinishListener(l) \/ AbortListener(l)
    <2>1. /\ UNCHANGED <<control, owner, services>>
          /\ listener[l] \in {"run", "joining"}
          /\ \A m \in Listener \ {l} : listener'[m] = listener[m]
          /\ listener'[l] \in {"joining", "done"}
          /\ pending' \subseteq pending
      BY <1>5 DEF StopListener, FinishListener, AbortListener, AtSelect, RemovePending, Types
    <2>2. doomed' = doomed \/ doomed' = doomed \cup ConnsOf(l)
      BY <1>5 DEF StopListener, FinishListener, AbortListener, RelaySet
    <2>3. ASSUME NEW c \in Conn
          PROVE  \/ phase'[c] = phase[c]
                 \/ owner[c] = l /\ phase[c] \in {"admitted", "unsent"} /\ phase'[c] \in {"refused", "closed"}
      BY <1>5 DEF StopListener, FinishListener, AbortListener, ConnsOf, Types
    <2>4. ASSUME NEW c \in Conn, owner[c] = l
          PROVE  phase'[c] \notin AcceptPhases
      <3>1. CASE StopListener(l) BY <3>1, <2>4 DEF StopListener, AtSelect, ConnsOf
      <3>2. CASE FinishListener(l)
        BY <3>2, <2>4 DEF FinishListener, Lifetimes, Accepting
      <3>3. CASE AbortListener(l)
        BY <3>3, <2>4 DEF AbortListener, ConnsOf, AcceptPhases, Types
      <3> QED BY <1>5, <3>1, <3>2, <3>3
    <2>5. ASSUME NEW c \in pending', owner[c] = l
          PROVE  \/ listener'[l] = "joining"
                 \/ listener'[l] = "done" /\ control[SessionOf[l]] \in {"stop", "ended"}
      <3>1. CASE StopListener(l) BY <3>1 DEF StopListener, Types
      <3>2. CASE FinishListener(l)
        <4>1. c \in Conn BY <2>1, <2>5 DEF Types
        <4>2. c \in ServiceConns(l) BY <4>1, <2>5 DEF ServiceConns, SessionConns, ListenersOf
        <4> QED BY <3>2, <4>2, <2>5 DEF FinishListener, RemovePending
      <3>3. CASE AbortListener(l)
        <4>1. l \in Listener \cap doomed /\ listener[l] \in {"run", "joining"} /\ listener'[l] = "done"
          BY <3>3 DEF AbortListener, Types
        <4> QED BY <4>1 DEF Lifetimes, AbortedInTurn, AtWork
      <3> QED BY <1>5, <3>1, <3>2, <3>3
    <2>6. Accepting'
      <3> SUFFICES ASSUME NEW c \in Conn, phase'[c] \in AcceptPhases PROVE listener'[owner[c]] = "run"
        BY <2>1 DEF Accepting
      <3>1. owner[c] # l BY <2>4
      <3>2. phase[c] = phase'[c] BY <2>3, <3>1
      <3>3. owner[c] \in Listener BY <3>2, OwnerTypes DEF AcceptPhases
      <3> QED BY <2>1, <3>1, <3>2, <3>3 DEF Lifetimes, Accepting
    <2>7. AbortedInTurn'
      <3>1. ASSUME NEW c \in Conn \cap doomed'
            PROVE  owner[c] \in Listener /\ listener'[owner[c]] \in {"joining", "done"}
        <4>1. CASE owner[c] = l BY <4>1, <2>1
        <4>2. CASE owner[c] # l
          <5>1. c \in doomed BY <4>2, <2>2 DEF ConnsOf
          <5> QED BY <5>1, <4>2, <2>1 DEF Lifetimes, AbortedInTurn
        <4> QED BY <4>1, <4>2
      <3>2. \A m \in Listener \cap doomed' : m \in doomed
        BY <2>2, SetAssumption DEF ConnsOf
      <3> QED BY <2>1, <3>1, <3>2 DEF Lifetimes, AbortedInTurn
    <2>8. AtWork'
      <3>1. \A m \in Listener : listener'[m] \in {"run", "joining"} => listener[m] \in {"run", "joining"}
        BY <2>1
      <3>2. \A c \in Conn : phase'[c] \in RelayPhases \cup {"releasing"} => phase'[c] = phase[c]
        BY <2>3 DEF RelayPhases
      <3> QED BY <2>1, <3>1, <3>2 DEF Lifetimes, AtWork
    <2>9. Removed'
      <3>1. \A c \in Conn : phase'[c] = "unlinked" => c \notin pending'
        BY <2>1, <2>3 DEF Lifetimes, Removed
      <3>2. ASSUME NEW c \in pending', owner[c] # l
            PROVE  \/ listener'[owner[c]] = "run" /\ phase'[c] \in {"inserted", "unsent", "waiting", "woken"}
                   \/ listener'[owner[c]] = "joining"
                   \/ listener'[owner[c]] = "done" /\ control[SessionOf[owner[c]]] \in {"stop", "ended"}
        <4>1. c \in Conn /\ c \in pending /\ phase[c] # "idle" BY <2>1 DEF Types, EntryIssued
        <4>2. owner[c] \in Listener /\ listener'[owner[c]] = listener[owner[c]]
          BY <4>1, <2>1, <3>2, OwnerTypes
        <4>3. phase'[c] = phase[c] BY <2>3, <3>2, <4>1
        <4> QED BY <4>1, <4>2, <4>3 DEF Lifetimes, Removed
      <3> QED BY <2>1, <2>5, <3>1, <3>2 DEF Removed
    <2> QED BY <2>6, <2>7, <2>8, <2>9 DEF Lifetimes
  <1> QED BY <1>1, <1>2, <1>3, <1>4, <1>5 DEF ListenerStep

\* Steps that only take entries away, or nothing at all.
LEMMA LifeKept ==
  ASSUME Types, Lifetimes, pending' \subseteq pending,
         UNCHANGED <<control, listener, owner, phase, doomed, services>>
  PROVE  Lifetimes'
  <1>1. Accepting' /\ AbortedInTurn' /\ AtWork'
    BY DEF Lifetimes, Accepting, AbortedInTurn, AtWork
  <1>2. Removed' BY DEF Lifetimes, Removed
  <1> QED BY <1>1, <1>2 DEF Lifetimes

(***************************************************************************)
(* The inductive invariant.                                                *)
(***************************************************************************)
IInv ==
  /\ Types
  /\ Owned
  /\ Claims
  /\ PendingCountExact
  /\ PendingBounded
  /\ UniqueServices
  /\ ServicesCountExact
  /\ SlotsExact
  /\ Lifetimes

\* It holds when the server starts.
LEMMA IInvInit == Init => IInv
  <1> SUFFICES ASSUME Init PROVE IInv OBVIOUS
  <1> USE DEF Init
  <1>1. Types
    BY LimitAssumption DEF Types, ControlStates, ListenerStates, Phases, HandlerStates
  <1>2. Owned BY DEF Owned
  <1>3. Claims
    BY DEF Claims, EntryIssued, Presented, TakenOnce, TakenApart, Taken, DeliveredRight,
           MatchedDelivered
  <1>4. PendingCountExact /\ UniqueServices /\ ServicesCountExact
    BY FS_EmptySet DEF PendingCountExact, UniqueServices, ServicesCountExact
  <1>5. PendingBounded
    <2>1. \A s \in Session : pending \cap SessionConns(s) = {} OBVIOUS
    <2> QED BY <2>1, FS_EmptySet, LimitAssumption DEF PendingBounded
  <1>6. SlotsExact
    <2>1. \A s \in Session : Holders(s) = {}
      BY DEF Holders, SessionConns, PermitPhases, RelayPhases
    <2>2. Guards = {} BY DEF Guards, RelayPhases
    <2>3. ActiveExact BY <2>2, FS_EmptySet DEF ActiveExact
    <2>4. PermitsExact
      <3> SUFFICES ASSUME NEW s \in Session
                   PROVE  permits[s] = MaxConnections - Cardinality(Holders(s))
        BY DEF PermitsExact
      <3>1. Cardinality(Holders(s)) = 0 BY <2>1, FS_EmptySet
      <3>2. permits[s] = MaxConnections OBVIOUS
      <3> HIDE DEF Init
      <3> QED BY <3>1, <3>2, LimitAssumption
    <2>5. PermitsNat BY LimitAssumption DEF PermitsNat
    <2> QED BY <2>3, <2>4, <2>5 DEF SlotsExact
  <1>7. Lifetimes
    <2>1. Accepting /\ AbortedInTurn BY DEF Accepting, AcceptPhases, AbortedInTurn
    <2>2. AtWork BY DEF AtWork, RelayPhases
    <2>3. Removed BY DEF Removed
    <2> QED BY <2>1, <2>2, <2>3 DEF Lifetimes
  <1> QED BY <1>1, <1>2, <1>3, <1>4, <1>5, <1>6, <1>7 DEF IInv

\* Every step of every task keeps it.
LEMMA IInvNext == IInv /\ [Next]_vars => IInv'
  <1> SUFFICES ASSUME IInv, [Next]_vars PROVE IInv' OBVIOUS
  <1>a. Types /\ Owned /\ Claims /\ SlotsExact /\ EntryIssued /\ Presented /\ Lifetimes
    BY DEF IInv, Claims
  <1>k. ASSUME UNCHANGED <<owner, phase, permits, active>> PROVE SlotsExact'
    BY <1>a, <1>k, PermitsKept DEF SlotsExact, ActiveExact, Guards, PermitsNat
  <1>1. Types' /\ Forward /\ Claims' /\ SlotsExact' /\ Lifetimes'
    <2>1. ASSUME NEW s \in Session, ControlStep(s)
          PROVE  Types' /\ Forward /\ Claims' /\ SlotsExact' /\ Lifetimes'
      <3>1. Types' BY <1>a, <2>1, TypesControl
      <3>2. Forward /\ UNCHANGED <<owner, phase, helloVars, dataVars>>
        BY <1>a, <2>1, ForwardControl
      <3>3. MatchedDelivered' BY <1>a, <3>2 DEF Claims, MatchedDelivered, dataVars
      <3>4. Claims' BY <1>a, <3>1, <3>2, <3>3, ClaimsOthers DEF dataVars, helloVars
      <3>5. UNCHANGED <<permits, active>>
        BY <2>1 DEF ControlStep, Establish, WriteOpen, OpenReject, PeerDrain, ForceCancel,
                    StopChildren, SweepSession, ReturnFromControl, AbandonControl,
                    CloseSession, DropContext, slotVars
      <3>6. Lifetimes' BY <1>a, <2>1, LifeControl
      <3> QED BY <1>k, <3>1, <3>2, <3>4, <3>5, <3>6
    <2>2. ASSUME NEW l \in Listener, ListenerStep(l)
          PROVE  Types' /\ Forward /\ Claims' /\ SlotsExact' /\ Lifetimes'
      <3>1. Types' BY <1>a, <2>2, TypesListener
      <3>2. Forward /\ UNCHANGED <<helloVars, dataVars>> BY <1>a, <2>2, ForwardListener
      <3>3. MatchedDelivered' BY <1>a, <3>2 DEF Claims, MatchedDelivered, dataVars
      <3>4. Claims' BY <1>a, <3>1, <3>2, <3>3, ClaimsOthers DEF dataVars, helloVars
      <3>5. SlotsExact' BY <1>a, <2>2, <3>1, SlotsListener
      <3>6. Lifetimes' BY <1>a, <2>2, LifeListener
      <3> QED BY <3>1, <3>2, <3>4, <3>5, <3>6
    <2>3. ASSUME NEW c \in Conn, RelayStep(c)
          PROVE  Types' /\ Forward /\ Claims' /\ SlotsExact' /\ Lifetimes'
      <3>1. Types' BY <1>a, <2>3, TypesRelay
      <3>2. Forward /\ UNCHANGED <<owner, helloVars, delivered>> BY <1>a, <2>3, ForwardRelay
      <3>3. \A d \in matched' \ matched : delivered[d] # NoHello
        BY <2>3 DEF RelayStep, Wake, Unlink, FinishRelay, AbortRelay, ReleaseGuard,
                    ReleasePermit, Expire, dataVars
      <3>4. MatchedDelivered' BY <1>a, <3>2, <3>3 DEF Claims, MatchedDelivered
      <3>5. Claims' BY <1>a, <3>1, <3>2, <3>4, ClaimsOthers DEF helloVars
      <3>6. SlotsExact' BY <1>a, <2>3, <3>1, SlotsRelay
      <3>7. Lifetimes' BY <1>a, <2>3, LifeRelay
      <3> QED BY <3>1, <3>2, <3>5, <3>6, <3>7
    <2>4. ASSUME NEW h \in Hello, HelloStep(h)
          PROVE  Types' /\ Forward /\ Claims' /\ SlotsExact' /\ Lifetimes'
      <3>1. Types' BY <1>a, <2>4, TypesHello
      <3>2. Forward /\ UNCHANGED <<owner, phase, matched>> BY <1>a, <2>4, ForwardHello
      <3>3. Claims' BY <1>a, <2>4, <3>1, ClaimsHello
      <3>4. UNCHANGED <<permits, active>>
        BY <2>4 DEF HelloStep, ReceiveHello, TakeEntry, SettleHello, AbortHello, slotVars
      <3>5. /\ pending' \subseteq pending
            /\ UNCHANGED <<control, listener, doomed, services>>
        BY <2>4 DEF HelloStep, ReceiveHello, TakeEntry, SettleHello, AbortHello, RemovePending,
                    tableVars, taskVars, entryVars
      <3>6. Lifetimes' BY <1>a, <3>2, <3>5, LifeKept
      <3> QED BY <1>k, <3>1, <3>2, <3>3, <3>4, <3>6
    <2>5. ASSUME UNCHANGED vars
          PROVE  Types' /\ Forward /\ Claims' /\ SlotsExact' /\ Lifetimes'
      <3> USE <2>5 DEF vars
      <3>1. Types' BY <1>a DEF Types
      <3>2. Forward BY <1>a DEF Forward, Owned
      <3>3. MatchedDelivered' BY <1>a DEF Claims, MatchedDelivered
      <3>4. Claims' BY <1>a, <3>1, <3>2, <3>3, ClaimsOthers
      <3>5. Lifetimes' BY <1>a, LifeKept
      <3> QED BY <1>k, <3>1, <3>2, <3>4, <3>5
    <2> QED BY <2>1, <2>2, <2>3, <2>4, <2>5 DEF Next
  <1>2. Owned' BY <1>1 DEF Owned, Forward
  <1>3. PendingCountExact' BY <1>a, PendingStep DEF IInv
  <1>4. UniqueServices' /\ ServicesCountExact' BY <1>a, ServicesStep DEF IInv
  <1>5. PendingBounded' BY <1>a, <1>1, BoundedStep DEF IInv
  <1> QED BY <1>1, <1>2, <1>3, <1>4, <1>5 DEF IInv

\* The inductive invariant holds throughout.
THEOREM Invariance == Spec => []IInv
  BY IInvInit, IInvNext, PTL DEF Spec

(***************************************************************************)
(* What follows from it.                                                   *)
(***************************************************************************)

\* Every variable keeps its type; the usize counters of server/session.rs and
\* the connection semaphore never go below zero.
THEOREM TypeCorrect == Spec => []TypeOK
  <1>1. IInv => TypeOK
    <2> SUFFICES ASSUME IInv PROVE TypeOK OBVIOUS
    <2>1. Cardinality(pending) \in Nat /\ Cardinality(binds) \in Nat /\ Cardinality(Guards) \in Nat
      BY FiniteParts DEF IInv, Types, Guards
    <2>2. pendingCount \in Nat /\ servicesCount \in Nat /\ active \in Nat
      BY <2>1 DEF IInv, PendingCountExact, ServicesCountExact, SlotsExact, ActiveExact
    <2> QED BY <2>2 DEF IInv, Types, TypeOK, SlotsExact, PermitsNat
  <1> QED BY <1>1, Invariance, PTL

\* pending_connections is the size of the pending tables (server/pending.rs),
\* whoever removed the other entries.
THEOREM PendingCounted == Spec => []PendingCountExact
  <1>1. IInv => PendingCountExact BY DEF IInv
  <1> QED BY <1>1, Invariance, PTL

\* No pending table exceeds pending_per_session (server/service.rs, the check
\* and the insertion under one lock).
THEOREM PendingLimited == Spec => []PendingBounded
  <1>1. IInv => PendingBounded BY DEF IInv
  <1> QED BY <1>1, Invariance, PTL

\* registered_services, the bind table and the control loops' service maps
\* agree (server/control.rs, SessionGuard::drop).
THEOREM ServicesCounted == Spec => []ServicesCountExact
  <1>1. IInv => ServicesCountExact BY DEF IInv
  <1> QED BY <1>1, Invariance, PTL

\* Both gauges are exact in every state.
THEOREM GaugesCorrect == Spec => []GaugesExact
  BY PendingCounted, ServicesCounted, PTL DEF GaugesExact

\* Permits of connection_admission are conserved, and active_connections
\* counts the relay guards (server/service.rs).
THEOREM PermitsKeptWhole == Spec => []PermitsConserved
  <1>1. IInv => PermitsConserved
    BY DEF IInv, SlotsExact, PermitsExact, ActiveExact, Holders, Guards, PermitsConserved
  <1> QED BY <1>1, Invariance, PTL

\* A ConnectionId is claimed at most once (server/pending.rs, the removal under
\* the pending lock).
THEOREM ClaimedOnce == Spec => []SingleClaim
  <1>1. IInv => SingleClaim BY DEF IInv, Claims, TakenApart, Taken, SingleClaim
  <1> QED BY <1>1, Invariance, PTL

\* A relay carries only a stream of its own Session's Principal, presented for
\* its own Service (server/pending.rs).
THEOREM RelaysAuthorised == Spec => []RelayIsAuthorised
  <1>1. IInv => RelayIsAuthorised
    <2> SUFFICES ASSUME IInv, NEW c \in matched
                 PROVE  \E h \in Hello : /\ handler[h] = "accepted"
                                         /\ message[h].conn = c
                                         /\ message[h].sess = SessionOf[owner[c]]
                                         /\ message[h].svc = ServiceOf[owner[c]]
                                         /\ message[h].prin = PrincipalOf[message[h].sess]
      BY DEF RelayIsAuthorised
    <2> DEFINE h == delivered[c]
    <2>1. c \in Conn /\ h \in Hello
      BY DEF IInv, Types, Claims, MatchedDelivered
    <2>2. handler[h] = "accepted" /\ message[h].conn = c /\ message[h].svc = ServiceOf[owner[c]]
      BY <2>1 DEF IInv, Claims, MatchedDelivered, DeliveredRight
    <2>3. message[h].prin = PrincipalOf[message[h].sess]
      BY <2>1, <2>2 DEF IInv, Claims, Presented, PrincipalMatches
    <2>4. c \in SessionConns(message[h].sess)
      BY <2>1, <2>2 DEF IInv, Claims, TakenOnce, Taken
    <2>5. message[h].sess = SessionOf[owner[c]] BY <2>4 DEF SessionConns, ListenersOf
    <2> QED BY <2>1, <2>2, <2>3, <2>5
  <1> QED BY <1>1, Invariance, PTL

\* Nothing leaks: an entry left behind by an aborted task still has a remover,
\* and a freed Session has no entry, bind, permit or task (server/session.rs,
\* SessionGuard::drop and SessionContext::drop).
THEOREM NothingLeft == Spec => []NothingLeaks
  <1>1. ASSUME IInv PROVE EntryHasRemover
    BY <1>1 DEF IInv, Lifetimes, Removed, EntryHasRemover
  <1>2. ASSUME IInv, NEW s \in Session, control[s] = "freed"
        PROVE  /\ pending \cap SessionConns(s) = {}
               /\ binds \cap ListenersOf(s) = {}
               /\ permits[s] = MaxConnections
               /\ \A l \in ListenersOf(s) : listener[l] \in {"unused", "done"}
    <2>1. Types /\ Owned /\ Lifetimes /\ binds = services /\ PermitsExact
      BY <1>2 DEF IInv, ServicesCountExact, SlotsExact
    <2>2. \A l \in ListenersOf(s) : listener[l] \in {"unused", "done"}
      BY <1>2, <2>1 DEF Lifetimes, AtWork, ListenersOf, Types, ListenerStates
    <2>3. binds \cap ListenersOf(s) = {}
      BY <1>2, <2>1 DEF Lifetimes, AtWork, ListenersOf
    <2>4. pending \cap SessionConns(s) = {}
      BY <1>2, <2>1, <2>2 DEF Lifetimes, Removed, SessionConns, ListenersOf
    <2>5. Holders(s) = {}
      <3> SUFFICES ASSUME NEW c \in SessionConns(s), phase[c] \in PermitPhases PROVE FALSE
        BY DEF Holders
      <3>1. c \in Conn /\ owner[c] \in ListenersOf(s) BY DEF SessionConns
      <3>2. phase[c] \notin AcceptPhases BY <2>1, <2>2, <3>1 DEF Lifetimes, Accepting
      <3>3. phase[c] \in RelayPhases \cup {"releasing"} BY <3>2 DEF PermitPhases, AcceptPhases
      <3> QED BY <1>2, <2>1, <3>1, <3>3 DEF Lifetimes, AtWork, ListenersOf
    <2>6. Cardinality(Holders(s)) = 0 BY <2>5, FS_EmptySet
    <2>7. permits[s] = MaxConnections BY <2>1, <2>6, LimitAssumption DEF PermitsExact
    <2> QED BY <2>2, <2>3, <2>4, <2>7
  <1>3. IInv => NothingLeaks BY <1>1, <1>2 DEF NothingLeaks, FreedIsClean
  <1> QED BY <1>3, Invariance, PTL

(***************************************************************************)
(* A ConnectionId is a ticket.                                             *)
(***************************************************************************)

\* At the start no ticket has been issued.
LEMMA TicketInit == Init => T!Init
  BY DEF Init, T!Init, ticketState, ticketScope, ticketClaim, Issued

\* What the mapped variables are, ticket by ticket.
LEMMA TicketValues ==
  ASSUME NEW c \in Conn
  PROVE  /\ ticketState[c] = IF ~Issued(c) THEN "unissued"
                             ELSE IF delivered[c] # NoHello THEN "claimed"
                             ELSE IF c \in pending \/ Held(c) THEN "open" ELSE "void"
         /\ ticketScope[c] = IF Issued(c) THEN [sess |-> SessionOf[owner[c]], svc |-> ServiceOf[owner[c]]]
                             ELSE NoScope
         /\ ticketClaim[c] = IF delivered[c] = NoHello THEN NoMessage ELSE message[delivered[c]]
  BY DEF ticketState, ticketScope, ticketClaim

\* A step that issues nothing and delivers nothing, and in which no entry
\* reappears, lets some tickets lapse, or none.
LEMMA TicketLapse ==
  ASSUME \A c \in Conn : Issued(c)' <=> Issued(c),
         \A c \in Conn : Issued(c) => owner'[c] = owner[c],
         UNCHANGED delivered,
         \A c \in Conn : delivered[c] # NoHello => message'[delivered[c]] = message[delivered[c]],
         \A c \in Conn : c \in pending' \/ Held(c)' => c \in pending \/ Held(c)
  PROVE  T!Next
  <1> DEFINE R == {c \in Conn : ticketState[c] = "open" /\ ticketState'[c] = "void"}
  <1>1. ticketScope' = ticketScope BY DEF ticketScope
  <1>2. ticketClaim' = ticketClaim BY DEF ticketClaim
  <1>3. \A c \in Conn : ticketState'[c] = IF c \in R THEN "void" ELSE ticketState[c]
    <2> SUFFICES ASSUME NEW c \in Conn
                 PROVE  \/ ticketState'[c] = ticketState[c]
                        \/ ticketState[c] = "open" /\ ticketState'[c] = "void"
      OBVIOUS
    <2>1. ticketState'[c] = IF ~Issued(c)' THEN "unissued"
                            ELSE IF delivered'[c] # NoHello THEN "claimed"
                            ELSE IF c \in pending' \/ Held(c)' THEN "open" ELSE "void"
      BY DEF ticketState
    <2> QED BY <2>1, TicketValues
  <1>4. ticketState' = [c \in Conn |-> IF c \in R THEN "void" ELSE ticketState[c]]
    <2>1. ticketState' = [c \in Conn |-> ticketState'[c]] BY DEF ticketState
    <2> QED BY <2>1, <1>3
  <1>5. T!Lapse(R) BY <1>1, <1>2, <1>4 DEF T!Lapse
  <1> QED BY <1>5 DEF T!Next

\* Inserting an entry issues the ticket, for the listener's Session and Service.
LEMMA TicketIssue ==
  ASSUME IInv, NEW l \in Listener, NEW c \in Conn, InsertPending(l, c), c \in pending'
  PROVE  T!Next
  <1> USE DEF Issued
  <1>1. /\ phase[c] = "admitted" /\ owner[c] = l
        /\ phase' = [phase EXCEPT ![c] = "inserted"]
        /\ pending' = pending \cup {c}
        /\ UNCHANGED <<owner, delivered, message, handler>>
    <2>1. c \notin pending BY DEF InsertPending, IInv, Claims, EntryIssued
    <2> QED BY <2>1 DEF InsertPending, entryVars, dataVars, helloVars
  <1>2. delivered[c] = NoHello
    <2> SUFFICES ASSUME delivered[c] # NoHello PROVE FALSE OBVIOUS
    <2>1. delivered[c] \in Hello BY DEF IInv, Types
    <2>2. handler[delivered[c]] = "accepted" /\ message[delivered[c]].conn = c
      BY DEF IInv, Claims, DeliveredRight
    <2> QED BY <1>1, <2>1, <2>2 DEF IInv, Claims, TakenOnce, Taken, Before
  <1>3. phase'[c] = "inserted" /\ \A d \in Conn \ {c} : phase'[d] = phase[d]
    BY <1>1 DEF IInv, Types
  <1>4. \A d \in Conn : Held(d)' <=> Held(d) BY <1>1 DEF Held
  <1>5. ticketClaim' = ticketClaim BY <1>1 DEF ticketClaim
  <1>6. ticketState' = [ticketState EXCEPT ![c] = "open"]
    <2>1. ticketState' = [d \in Conn |-> IF ~Issued(d)' THEN "unissued"
                            ELSE IF delivered'[d] # NoHello THEN "claimed"
                            ELSE IF d \in pending' \/ Held(d)' THEN "open" ELSE "void"]
      BY DEF ticketState
    <2>2. ticketState'[c] = "open" BY <2>1, <1>1, <1>2, <1>3
    <2>3. \A d \in Conn \ {c} : ticketState'[d] = ticketState[d]
      BY <2>1, <1>1, <1>3, <1>4, TicketValues
    <2>4. /\ ticketState = [d \in Conn |-> ticketState[d]]
          /\ ticketState' = [d \in Conn |-> ticketState'[d]]
      BY DEF ticketState
    <2> QED BY <2>2, <2>3, <2>4
  <1>7. ticketScope' = [ticketScope EXCEPT ![c] = [sess |-> SessionOf[l], svc |-> ServiceOf[l]]]
    <2>1. ticketScope' = [d \in Conn |-> IF Issued(d)'
             THEN [sess |-> SessionOf[owner'[d]], svc |-> ServiceOf[owner'[d]]] ELSE NoScope]
      BY DEF ticketScope
    <2>2. ticketScope'[c] = [sess |-> SessionOf[l], svc |-> ServiceOf[l]] BY <2>1, <1>1, <1>3
    <2>3. \A d \in Conn \ {c} : ticketScope'[d] = ticketScope[d]
      BY <2>1, <1>1, <1>3, TicketValues
    <2>4. /\ ticketScope = [d \in Conn |-> ticketScope[d]]
          /\ ticketScope' = [d \in Conn |-> ticketScope'[d]]
      BY DEF ticketScope
    <2> QED BY <2>2, <2>3, <2>4
  <1>8. ticketState[c] = "unissued" BY <1>1, TicketValues
  <1>9. T!Issue(c, SessionOf[l], ServiceOf[l]) BY <1>5, <1>6, <1>7, <1>8 DEF T!Issue
  <1> QED BY <1>9, MapAssumption DEF T!Next

\* Handing over the stream claims the ticket, with a DataHello of its scope.
LEMMA TicketClaim ==
  ASSUME IInv, NEW h \in Hello, SettleHello(h), handler'[h] = "accepted"
  PROVE  T!Next
  <1> DEFINE c == message[h].conn
  <1>1. /\ handler[h] = "taken" /\ ValidEntry(h)
        /\ delivered' = [delivered EXCEPT ![c] = h]
        /\ handler' = [handler EXCEPT ![h] = "accepted"]
        /\ UNCHANGED <<owner, phase, pending, message>>
    BY DEF SettleHello, entryVars, IInv, Types
  <1>2. message[h] \in Messages /\ c \in Conn /\ PrincipalMatches(message[h])
    BY <1>1 DEF IInv, Claims, Presented, Messages
  <1>3. Issued(c) /\ c \in SessionConns(message[h].sess)
    BY <1>1 DEF IInv, Claims, TakenOnce, Taken, Before, Issued
  <1>4. delivered[c] = NoHello
    <2> SUFFICES ASSUME delivered[c] # NoHello PROVE FALSE OBVIOUS
    <2>1. delivered[c] \in Hello BY <1>2 DEF IInv, Types
    <2>2. handler[delivered[c]] = "accepted" /\ message[delivered[c]].conn = c
      BY <1>2 DEF IInv, Claims, DeliveredRight
    <2> QED BY <1>1, <2>1, <2>2 DEF IInv, Claims, TakenApart, Taken
  <1>5. delivered'[c] = h /\ \A d \in Conn \ {c} : delivered'[d] = delivered[d]
    BY <1>1, <1>2 DEF IInv, Types
  <1>6. \A d \in Conn : Issued(d)' <=> Issued(d) BY <1>1 DEF Issued
  <1>7. \A d \in Conn \ {c} : Held(d)' <=> Held(d)
    <2>1. \A g \in Hello \ {h} : handler'[g] = handler[g] BY <1>1 DEF IInv, Types
    <2> QED BY <1>1, <2>1 DEF Held
  <1>h. h # NoHello BY SetAssumption
  <1>8. ticketState[c] = "open"
    <2>1. Held(c) BY <1>1 DEF Held
    <2> QED BY <2>1, <1>2, <1>3, <1>4, TicketValues
  <1>9. ticketState' = [ticketState EXCEPT ![c] = "claimed"]
    <2>1. ticketState' = [d \in Conn |-> IF ~Issued(d)' THEN "unissued"
                            ELSE IF delivered'[d] # NoHello THEN "claimed"
                            ELSE IF d \in pending' \/ Held(d)' THEN "open" ELSE "void"]
      BY DEF ticketState
    <2>2. ticketState'[c] = "claimed" BY <2>1, <1>2, <1>3, <1>5, <1>6, <1>h
    <2>3. \A d \in Conn \ {c} : ticketState'[d] = ticketState[d]
      BY <2>1, <1>1, <1>5, <1>6, <1>7, TicketValues
    <2>4. /\ ticketState = [d \in Conn |-> ticketState[d]]
          /\ ticketState' = [d \in Conn |-> ticketState'[d]]
      BY DEF ticketState
    <2> QED BY <2>2, <2>3, <2>4
  <1>10. ticketClaim' = [ticketClaim EXCEPT ![c] = message[h]]
    <2>1. ticketClaim' = [d \in Conn |-> IF delivered'[d] = NoHello THEN NoMessage
                                                        ELSE message'[delivered'[d]]]
      BY DEF ticketClaim
    <2>2. ticketClaim'[c] = message[h] BY <2>1, <1>1, <1>2, <1>5, <1>h
    <2>3. \A d \in Conn \ {c} : ticketClaim'[d] = ticketClaim[d]
      BY <2>1, <1>1, <1>5, TicketValues
    <2>4. /\ ticketClaim = [d \in Conn |-> ticketClaim[d]]
          /\ ticketClaim' = [d \in Conn |-> ticketClaim'[d]]
      BY DEF ticketClaim
    <2> QED BY <2>2, <2>3, <2>4
  <1>11. ticketScope' = ticketScope BY <1>1, <1>6 DEF ticketScope
  <1>12. [sess |-> message[h].sess, svc |-> message[h].svc] = ticketScope[c]
    <2>1. ticketScope[c] = [sess |-> SessionOf[owner[c]], svc |-> ServiceOf[owner[c]]]
      BY <1>2, <1>3, TicketValues
    <2>2. message[h].sess = SessionOf[owner[c]] BY <1>3 DEF SessionConns, ListenersOf
    <2>3. message[h].svc = ServiceOf[owner[c]] BY <1>1 DEF ValidEntry
    <2> QED BY <2>1, <2>2, <2>3
  <1>13. T!Claim(c, message[h])
    BY <1>2, <1>8, <1>9, <1>10, <1>11, <1>12 DEF T!Claim, PrincipalMatches
  <1>14. message[h] \in [sess : Session, svc : ServiceId, conn : {c}, prin : Principal]
    BY <1>2 DEF Messages
  <1> QED BY <1>2, <1>13, <1>14 DEF T!Next

\* Steps of DataHello handlers short of handing the stream over.
LEMMA TicketHello ==
  ASSUME IInv, NEW h \in Hello, HelloStep(h), handler'[h] # "accepted"
  PROVE  T!Next
  <1> USE DEF tableVars, taskVars, entryVars, slotVars, dataVars, helloVars
  <1>1. /\ UNCHANGED <<owner, phase, delivered>>
        /\ \A g \in Hello \ {h} : handler'[g] = handler[g] /\ message'[g] = message[g]
    BY DEF HelloStep, ReceiveHello, TakeEntry, SettleHello, AbortHello, IInv, Types
  <1>2. \A c \in Conn : Issued(c)' <=> Issued(c) BY <1>1 DEF Issued
  <1>3. ASSUME NEW c \in Conn, delivered[c] # NoHello
        PROVE  message'[delivered[c]] = message[delivered[c]]
    <2>1. delivered[c] \in Hello BY <1>3 DEF IInv, Types
    <2>2. handler[delivered[c]] = "accepted" BY <1>3 DEF IInv, Claims, DeliveredRight
    <2>3. handler[h] # "accepted"
      BY DEF HelloStep, ReceiveHello, TakeEntry, SettleHello, AbortHello
    <2> QED BY <1>1, <2>1, <2>2, <2>3
  <1>4. ASSUME NEW c \in Conn, c \in pending' \/ Held(c)'
        PROVE  c \in pending \/ Held(c)
    <2>1. pending' \subseteq pending
      BY DEF HelloStep, ReceiveHello, TakeEntry, SettleHello, AbortHello, RemovePending
    <2>2. handler'[h] = "taken" => message'[h] = message[h] /\ message[h].conn \in pending
      BY DEF HelloStep, ReceiveHello, TakeEntry, SettleHello, AbortHello, IInv, Types
    <2>3. CASE c \in pending' BY <2>1, <2>3
    <2>4. CASE Held(c)'
      <3>1. PICK g \in Hello : handler'[g] = "taken" /\ message'[g].conn = c BY <2>4 DEF Held
      <3>2. CASE g = h BY <3>1, <3>2, <2>2
      <3>3. CASE g # h BY <3>1, <3>3, <1>1 DEF Held
      <3> QED BY <3>2, <3>3
    <2> QED BY <1>4, <2>3, <2>4
  <1> QED BY <1>1, <1>2, <1>3, <1>4, TicketLapse

\* Every step of every task is a step of the tickets.
LEMMA TicketStep == IInv /\ [Next]_vars => [T!Next]_(T!vars)
  <1> SUFFICES ASSUME IInv, [Next]_vars PROVE T!Next OBVIOUS
  <1>a. Types /\ Owned BY DEF IInv
  <1>1. ASSUME Forward, UNCHANGED <<delivered, message, handler>>,
               \A c \in Conn : phase[c] \in Before => phase'[c] \in Before
        PROVE  T!Next
    <2>1. \A c \in Conn : Issued(c)' <=> Issued(c) BY <1>1 DEF Forward, Before, Issued
    <2>2. \A c \in Conn : Issued(c) => owner'[c] = owner[c] BY <1>1 DEF Forward, Issued
    <2>3. \A c \in Conn : c \in pending' \/ Held(c)' => c \in pending \/ Held(c)
      <3>1. \A c \in Conn : Held(c)' <=> Held(c) BY <1>1 DEF Held
      <3>2. \A c \in Conn : c \in pending' => c \in pending BY <1>1 DEF Forward, Before
      <3> QED BY <3>1, <3>2
    <2> QED BY <1>1, <2>1, <2>2, <2>3, TicketLapse
  <1>2. ASSUME NEW s \in Session, ControlStep(s) PROVE T!Next
    <2>1. Forward /\ UNCHANGED <<owner, phase, helloVars, dataVars>> BY <1>a, <1>2, ForwardControl
    <2> QED BY <1>1, <2>1 DEF helloVars, dataVars
  <1>3. ASSUME NEW l \in Listener, ListenerStep(l) PROVE T!Next
    <2>1. Forward /\ UNCHANGED <<helloVars, dataVars>> BY <1>a, <1>3, ForwardListener
    <2>2. CASE \E c \in Conn : InsertPending(l, c) /\ c \in pending' BY <2>2, TicketIssue
    <2>3. CASE ~\E c \in Conn : InsertPending(l, c) /\ c \in pending'
      <3>1. \A c \in Conn : phase[c] \in Before => phase'[c] \in Before
        <4> USE <1>a DEF Types, Before
        <4>1. CASE \E c \in Conn : Accept(l, c) BY <4>1 DEF Accept
        <4>2. CASE \E c \in Conn : InsertPending(l, c) BY <4>2, <2>3 DEF InsertPending
        <4>3. CASE \E c \in Conn : SendOpen(l, c) \/ RollBack(l, c)
          BY <4>3 DEF SendOpen, RollBack
        <4>4. CASE AbortListener(l) BY <4>4 DEF AbortListener
        <4>5. CASE RegisterService(l) \/ UnregisterService(l) \/ StopListener(l) \/ FinishListener(l)
          BY <4>5 DEF RegisterService, UnregisterService, StopListener, FinishListener
        <4> QED BY <1>3, <4>1, <4>2, <4>3, <4>4, <4>5 DEF ListenerStep
      <3> QED BY <1>1, <2>1, <3>1 DEF helloVars, dataVars
    <2> QED BY <2>2, <2>3
  <1>4. ASSUME NEW c \in Conn, RelayStep(c) PROVE T!Next
    <2>1. Forward /\ UNCHANGED <<owner, helloVars, delivered>> BY <1>a, <1>4, ForwardRelay
    <2>2. \A d \in Conn : phase[d] \in Before => phase'[d] \in Before
      BY <1>a, <1>4 DEF Types, Before, RelayStep, Wake, Unlink, FinishRelay, AbortRelay,
                        ReleaseGuard, ReleasePermit, Expire, RelayPhases
    <2> QED BY <1>1, <2>1, <2>2 DEF helloVars
  <1>5. ASSUME NEW h \in Hello, HelloStep(h) PROVE T!Next
    <2>1. CASE handler'[h] # "accepted" BY <1>5, <2>1, TicketHello
    <2>2. CASE handler'[h] = "accepted"
      <3>1. SettleHello(h)
        BY <1>5, <2>2, <1>a DEF HelloStep, ReceiveHello, TakeEntry, AbortHello, Types
      <3> QED BY <2>2, <3>1, TicketClaim
    <2> QED BY <2>1, <2>2
  <1>6. ASSUME UNCHANGED vars PROVE T!Next
    <2>1. Forward BY <1>6, <1>a DEF vars, Forward, Owned
    <2> QED BY <1>1, <1>6, <2>1 DEF vars
  <1> QED BY <1>2, <1>3, <1>4, <1>5, <1>6 DEF Next

\* The tables, locks and tasks of the data plane implement the ticket: issued
\* once, claimed at most once and only by the right DataHello, never reopened
\* (server/service.rs, server/pending.rs).
THEOREM Refinement == Spec => ImplementsTicket
  <1>1. Init => T!Init BY TicketInit
  <1>2. IInv /\ [Next]_vars => [T!Next]_(T!vars) BY TicketStep
  <1> QED BY <1>1, <1>2, Invariance, PTL DEF Spec, ImplementsTicket, T!Spec

=============================================================================
